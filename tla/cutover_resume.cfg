SPECIFICATION Spec
CONSTANTS
 Topics = {"t", "u"}
 Requests = {"t", "f", "c"}
 Disposition <- Mixed
 AutoDelete = TRUE
 MaxStops = 1
 MaxMeddles = 0
 MaxReruns = 0
INVARIANTS Resumable
CHECK_DEADLOCK FALSE
