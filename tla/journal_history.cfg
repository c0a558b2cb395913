SPECIFICATION Spec
CONSTANTS
 a = a
 b = b
 c = c
 d = d
 Ops <- Identifiers
 NoOp = NoOp
 MaxFaults = 1
 MaxCrashes = 1
SYMMETRY Symmetry
INVARIANTS UndoneOnce ResolvedOnce OneReceipt JournalTruth
CHECK_DEADLOCK FALSE
