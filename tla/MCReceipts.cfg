SPECIFICATION FairSpec
CONSTANTS
    k1 = k1
    k2 = k2
    p1 = p1
    p2 = p2
    Keys <- MCKeys
    Callers <- MCCallers
    NoCaller = NoCaller
    MaxRows = 2
    MaxCrashes = 1
INVARIANTS
    TypeOK
    OwnerHoldsSlot
    OncePerReceipt
PROPERTY
    ReceiptLostOnlyToScan
    ExecuteReturns
