SPECIFICATION Spec
CONSTANTS
 Images <- OneImage
 Folders <- OneFolder
 Library <- AllInInbox
 Actions <- CopyAndTrash
 Tagging = TRUE
 MaxOps = 4
 MaxLoads = 1
 MaxHistory = 1
 MaxReaders = 1
 MaxBacklog = 1
 MaxLost = 1
 MaxReplays = 1
INVARIANTS TokenPlaces TaggingStops
CHECK_DEADLOCK FALSE
