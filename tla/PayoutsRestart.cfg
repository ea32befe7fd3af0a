\* The only fault is a restart of the API.
SPECIFICATION Spec
CONSTANTS
    alice = alice
    first = first
    large = large
    h1 = h1
    h2 = h2
    NoRow = NoRow
    Users <- MCUsers
    HasRow <- MCUsers
    Refs = {first}
    Amount <- MCAmount
    Payer <- MCParty
    Payee <- MCParty
    DailyLimit <- MCDailyLimit
    Opening <- MCOpening
    Handlers <- MCHandlers
    Faults = {"crash"}
    MaxPolls = 2
INVARIANT BalanceExplained
CHECK_DEADLOCK FALSE
