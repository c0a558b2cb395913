SPECIFICATION Spec
CONSTANTS
 Kinds <- AllKinds
 MaxRows = 3
 MaxFaults = 1
 MaxCrashes = 2
 MaxEdits = 1
INVARIANTS IntentRecorded HonestFailure HonestCompletion RecoveryConverges
PROPERTIES NothingDestroyed
CHECK_DEADLOCK FALSE
