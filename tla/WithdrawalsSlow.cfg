\* The only fault is a run that takes longer than the stale limit.
SPECIFICATION Spec
CONSTANTS
    alice = alice
    first = first
    second = second
    w1 = w1
    w2 = w2
    NoRow = NoRow
    Users <- MCUsers
    HasRow <- MCUsers
    Refs <- MCTwo
    Amount <- MCAmount
    Payer <- MCParty
    Payee <- MCParty
    DailyLimit <- MCDailyLimit
    Opening <- MCOpening
    Workers <- MCWorkers
    Faults = {"slow"}
    MaxAttempts = 3
    BatchLimit = 10
    MaxClaims = 3
    MaxSends = 3
INVARIANT PaidAtMostOnce
CHECK_DEADLOCK FALSE
