\* No faults: a row outlives the refusal of its debit.
SPECIFICATION Spec
CONSTANTS
    alice = alice
    first = first
    second = second
    w1 = w1
    w2 = w2
    NoRow = NoRow
    Users <- MCUsers
    HasRow <- MCUsers
    Refs <- MCTwo
    Amount <- MCAmount
    Payer <- MCParty
    Payee <- MCParty
    DailyLimit <- MCDailyLimit
    Opening <- MCOpening
    Workers <- MCWorkers
    Faults = {}
    MaxAttempts = 3
    BatchLimit = 10
    MaxClaims = 3
    MaxSends = 3
INVARIANT RefusedIsNotPaid
CHECK_DEADLOCK FALSE
