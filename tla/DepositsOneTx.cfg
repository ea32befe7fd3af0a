\* One transaction that makes both transfers, and no fault.
SPECIFICATION Spec
CONSTANTS
    alice = alice
    bob = bob
    first1 = first1
    second1 = second1
    p1 = p1
    p2 = p2
    NoRow = NoRow
    Users <- MCUsers
    HasRow <- MCHasRow
    Refs <- MCRefs
    Amount <- MCAmount
    Payer <- MCOneUser
    Payee <- MCPayee
    DailyLimit <- MCNoLimit
    Opening <- MCOpening
    Pollers <- MCPollers
    Hash <- MCSameHash
    Faults = {}
    Overlap = 1
    Lookback = 4
    Chunk = 2
    Threshold = 1
    MaxBlock = 4
    MaxFaults = 1
INVARIANT ScannedIsCredited
CHECK_DEADLOCK FALSE
