\* Two withdrawals without faults, and the scan of a Solana wallet with one failed
\* request.
SPECIFICATION MCSpec
CONSTANTS
    alice = alice
    first = first
    second = second
    w1 = w1
    w2 = w2
    NoRow = NoRow
    Users <- MCUsers
    HasRow <- MCUsers
    Refs <- MCTwo
    Amount <- MCAmount
    Payer <- MCParty
    Payee <- MCParty
    DailyLimit <- MCDailyLimit
    Opening <- MCOpening
    Workers <- MCWorkers
    Faults = {}
    MaxAttempts = 3
    BatchLimit = 10
    MaxClaims = 3
    MaxSends = 3
PROPERTIES ImplementsSettlement EveryDebitSettles EverySolanaDepositIsCredited
CHECK_DEADLOCK FALSE
