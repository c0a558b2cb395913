SPECIFICATION Spec
CONSTANTS
 Images <- ThreeImages
 Folders <- TwoFolders
 Library <- AllInInbox
 Actions <- OnlyMoves
 Tagging = FALSE
 MaxOps = 3
 MaxLoads = 2
 MaxHistory = 2
 MaxReaders = 1
 MaxBacklog = 1
 MaxLost = 1
 MaxReplays = 0
INVARIANTS ViewTruth HeldGap
PROPERTIES SelectionKept
CHECK_DEADLOCK FALSE
