SPECIFICATION ReleaseSpec
CONSTANTS
 Topics = {"t", "u"}
 Requests = {"t", "f", "c"}
 Disposition <- Mixed
 AutoDelete = TRUE
 MaxStops = 2
 MaxMeddles = 2
 MaxReruns = 1
 OldRequests = {"q"}
 MaxTroubles = 2
INVARIANTS EffectsAccounted QualifiedMain SourceReceipt
PROPERTIES CompleteIsClean ReleaseFinishes
CHECK_DEADLOCK FALSE
