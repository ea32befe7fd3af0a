\* Components of the API, one at a time (see part); for custody every kind of request,
\* one new user, and all faults of the API's surroundings.
SPECIFICATION MCSpec
CONSTANTS
    alice = alice
    bob = bob
    carol = carol
    received = received
    sent = sent
    bill = bill
    payout1 = payout1
    sweep1 = sweep1
    sweep2 = sweep2
    NoRow = NoRow
    NoCall = NoCall
    Users <- MCUsers
    Refs <- MCRefs
    Callers <- MCRefs
    Amount <- MCAmount
    Payer <- MCPayer
    Payee <- MCPayee
    DailyLimit <- MCDailyLimit
    Opening <- MCOpening
    HasRow <- MCHasRow
    SameKeyOverlap = TRUE
    Route <- MCRoute
    NewUsers <- MCNewUsers
    WalletAtStart <- MCWallet
    TreasuryAtStart = 0
    Faults = {"crash", "lost_answer", "slow_chain", "db_error"}
    NoId = NoId
    Logins = {"q1", "q2", "q3"}
    Who <- MCWho
    AccountFaults = {"restart", "dbError"}
    a1 = a1
    a2 = a2
    AdminRates = {a1, a2}
    Baseline = Baseline
    Fetches = {1, 2}
    Throttle = 1
    FreshFor = 2
    RateHorizon = 2
    Sets = {"s1", "s2"}
    Gets = {1, 2}
    Unset = "unset"
    TTL = 2
    SwitchHorizon = 3
    KycParts = {"kyc", "sumsub"}
    KycSessions <- MCKycSessions
    KycProvider <- MCKycProvider
    KycOpened <- MCKycOpened
    KycFaults <- MCKycFaults
    NoSession = "none"
    Attempts = 1
    Pins = {"1234", "5678"}
    NoPin = ""
    MaxCalls = 2
    MaxChanges = 2
    RecordFaults = {"restart", "dbError", "netting", "kill"}
    Naira = {"n1", "n2"}
    Chain = {"c1"}
    Spends = {"s1"}
    Readers = {"g1"}
    NoBalance = NoBalance
    NairaFaults = {"restart", "database"}
    Asks = {"v1", "r1", "v2"}
    Asker <- MCAsker
    AskFlow <- MCAskFlow
    Transfers = {"d1"}
    NumberFaults = {"restart", "dbError", "provider"}
INVARIANTS Solvent ReceivedWasSent PaidWasDebited AnswerIsTrue SnapshotIsBacked OneIdPerPerson ShownWalletsAreWatched ServedIsRecent VerifiedWasApproved WaitingIsForSomething NairaNeverOverwrites OnePin AccountsReachTheirUser
PROPERTIES OverrideHolds
CHECK_DEADLOCK FALSE
