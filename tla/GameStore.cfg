SPECIFICATION FairSpec
CONSTANTS
    p1 = p1
    p2 = p2
    p3 = p3
    g1 = g1
    g2 = g2
    Products = {p1, p2, p3}
    Games = {g1, g2}
    Pack <- MCPack
    Bundled = {p1, p2}
    BuiltInGames = {g2}
    Signed = {p1}
    Paid = {p1}
    Free = {p2}
    Disablable = {g1}
    Tx = {t1, t2}
    FreeRuns = {f1}
    None = None
    MaxWaiting = 1
    MaxIssued = 2
    MaxCrashes = 1
INVARIANTS PurchaseKept ButtonComesBack ListMatchesDisk
PROPERTIES Delivered
CHECK_DEADLOCK FALSE
