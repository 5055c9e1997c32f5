CONSTANT Lineup <- ShortLineup
CONSTANT Length <- ShortLength
CONSTANT Start <- ShortStart
CONSTANT End <- ShortEnd
CONSTANT Marker <- ShortMarker
CONSTANT PlayQueues <- ShortPlayQueues
CONSTANT MinMark = 1
CONSTANT StartWindow = 1
CONSTANT Attempts = 2
CONSTANT StaleReads = FALSE
CONSTANT MaxAdded = 1
CONSTANT MaxSittings = 2
SPECIFICATION Spec
INVARIANT NeverDeaf
PROPERTY ReplacedWatcherSilent
CHECK_DEADLOCK FALSE
