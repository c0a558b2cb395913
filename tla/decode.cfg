SPECIFICATION Spec
CONSTANTS
 Files = {1, 2}
 Animated = {1}
 Large = {2}
 Volatile = {1}
 Frames = {0, 1}
 Capacity = 1
 CacheSize = 1
 MaxChanges = 1
 MaxLoads = 2
INVARIANTS CacheTruth ScreenTruth
PROPERTIES ScratchOwned LateAnswers LoadingEnds LoaderStops
CHECK_DEADLOCK FALSE
