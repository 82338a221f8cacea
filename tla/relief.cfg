CONSTANTS
    r = r
    Requests = {r, s}
    Warehouses = {v, w}
    Requested <- MCRequested
    Stock <- MCStock
    MaxMoves = 5
    MaxEdits = 2
SPECIFICATION Spec
VIEW View
SYMMETRY Swaps
INVARIANTS CountersMatchMoves DispatchedIsCovered PromisedOnce DeliveredWasShipped
CHECK_DEADLOCK FALSE
