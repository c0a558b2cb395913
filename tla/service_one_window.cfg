SPECIFICATION FairSpec
CONSTANTS
 Guis = {g}
 Ops = {a, b}
 NoOp = NoOp
 QueueSize = 1
 MaxPending = 2
 MaxConns = 3
 Troubles <- OfOneWindow
PROPERTIES Answered Releases
CHECK_DEADLOCK FALSE
