SPECIFICATION Spec
CONSTANTS
 Guis = {g, h}
 Ops = {a, b}
 NoOp = NoOp
 QueueSize = 1
 MaxPending = 1
 MaxConns = 2
 Troubles <- OfTwoWindows
SYMMETRY Symmetry
INVARIANTS AtMostOnce ToldTruth
CHECK_DEADLOCK FALSE
