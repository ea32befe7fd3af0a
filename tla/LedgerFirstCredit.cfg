\* The keys do not overlap, but the payee has no account row yet.
SPECIFICATION Spec
CONSTANTS
    alice = alice
    bob = bob
    spend = spend
    transfer = transfer
    payout = payout
    c1 = c1
    c2 = c2
    NoRow = NoRow
    NoCall = NoCall
    Callers <- MCCallers
    Users <- MCUsers
    Refs <- MCRaceRefs
    Amount <- MCRaceAmount
    Payer <- MCRacePayer
    Payee <- MCRacePayee
    DailyLimit <- MCDailyLimit
    Opening <- MCRaceOpening
    HasRow = {alice}
    SameKeyOverlap = FALSE
INVARIANT BalanceExplained
CHECK_DEADLOCK FALSE
