\* Every fault but runs that outlive the stale limit; what surrounds them, one component at a time.
SPECIFICATION MCSpec
CONSTANTS
    alice = alice
    first = first
    second = second
    w1 = w1
    w2 = w2
    NoRow = NoRow
    Users <- MCUsers
    HasRow <- MCUsers
    Refs = {first}
    Amount <- MCAmount
    Payer <- MCParty
    Payee <- MCParty
    DailyLimit <- MCDailyLimit
    Opening <- MCOpening
    Workers <- MCWorkers
    Faults = {"crash", "lostAnswer", "lateLanding", "dbError", "netting"}
    MaxAttempts = 2
    BatchLimit = 10
    MaxClaims = 4
    MaxSends = 3
    l1 = l1
    l2 = l2
    SignIns <- MCSignIns
    NoSession = NoSession
    MaxSetbacks = 2
    MaxSaves = 1
    StoreFaults = {"read", "write", "delete"}
    ChainSends = {"s1", "s2"}
    NoSend = "none"
    MaxChainPrompts = 1
    MaxFailures = 1
    SendFaults = {"lost", "database"}
    Targets = {"t1", "t2"}
    NoTarget = "none"
    MadeUp = "Demo Account"
    Payments = {"p1", "p2"}
    Biometrics = TRUE
    MaxBankPrompts = 1
    Notes = {"n1"}
    Marks = {"n1", "all"}
    NoteGets = {"g1", "g2"}
    NoteFaults = {"restart", "lost", "refused", "unread"}
    Chains = {"solana", "monad"}
    Nodes = 2
    Polls = 2
    DripCalls = {"c1", "c2", "c3"}
    Signer <- MCSigner
    Guarded = {"c1", "c2", "c3"}
    Concurrent = 2
    MaxPerWallet = 1
    DailyCap = 1
    TreasuryFloor = 1
    TreasuryGas = 4
INVARIANTS ConfirmedWasPaid ExclusiveHolder  OnchainSendIsHonest NameIsOfAccount ReadStaysRead SendIsHonest DripsWithinBudget
PROPERTIES FinalStaysFinal ImplementsAccountBook
SYMMETRY MCWalletSymmetry
CHECK_DEADLOCK FALSE
