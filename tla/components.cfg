SPECIFICATION ComponentsSpec
CONSTANTS
 Versions = {v1, v2}
 NoVersion = NoVersion
 Readers = {r}
 Providers = {p}
 Contents = {"a", "b"}
 MaxJobs = 3
 MaxFaults = 1
 MaxKills = 1
 MaxReads = 1
INVARIANT AnswerTruth
PROPERTIES ReceiptTruth ImplementsStore JobsEnd
CHECK_DEADLOCK FALSE
