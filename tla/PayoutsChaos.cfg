\* Every fault at once on one payout, which may be too large.
SPECIFICATION MCSpec
CONSTANTS
    alice = alice
    first = first
    large = large
    h1 = h1
    h2 = h2
    NoRow = NoRow
    Users <- MCUsers
    HasRow <- MCUsers
    Refs = {first, large}
    Amount <- MCAmount
    Payer <- MCParty
    Payee <- MCParty
    DailyLimit <- MCDailyLimit
    Opening <- MCOpening
    Handlers <- MCHandlers
    Faults = {"crash", "lostAnswer", "early", "dbError"}
    MaxPolls = 2
INVARIANTS SuccessWasPaid RefundIsJustified ReleasedIsRefunded
PROPERTIES DecidedRowsStay ImplementsSettlement EveryFailedPayoutIsRefunded
CHECK_DEADLOCK FALSE
