\* No fault at all: only the failover from one provider to the next.
SPECIFICATION Spec
CONSTANTS
    alice = alice
    first = first
    large = large
    h1 = h1
    h2 = h2
    NoRow = NoRow
    Users <- MCUsers
    HasRow <- MCUsers
    Refs = {first}
    Amount <- MCAmount
    Payer <- MCParty
    Payee <- MCParty
    DailyLimit <- MCDailyLimit
    Opening <- MCOpening
    Handlers <- MCHandlers
    Faults = {}
    MaxPolls = 2
INVARIANT PaidIsNotRefunded
CHECK_DEADLOCK FALSE
