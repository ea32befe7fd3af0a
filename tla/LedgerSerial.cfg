\* One caller at a time per key; no user has two first credits.
SPECIFICATION Spec
CONSTANTS
    alice = alice
    bob = bob
    spend = spend
    transfer = transfer
    payout = payout
    c1 = c1
    c2 = c2
    NoRow = NoRow
    NoCall = NoCall
    Callers <- MCCallers
    Users <- MCUsers
    Refs <- MCRefs
    Amount <- MCAmount
    Payer <- MCPayer
    Payee <- MCPayee
    DailyLimit <- MCDailyLimit
    Opening <- MCOpening
    HasRow <- MCHasRow
    SameKeyOverlap = FALSE
INVARIANTS BalanceExplained LimitRespected
PROPERTY ImplementsAccountBook
CHECK_DEADLOCK FALSE
