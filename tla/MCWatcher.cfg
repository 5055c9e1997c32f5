CONSTANT Lineup <- LongLineup
CONSTANT Length <- LongLength
CONSTANT Start <- LongStart
CONSTANT End <- LongEnd
CONSTANT Marker <- LongMarker
CONSTANT PlayQueues <- LongPlayQueues
CONSTANT MinMark = 1
CONSTANT StartWindow = 1
CONSTANT Attempts = 2
CONSTANT StaleReads = TRUE
CONSTANT MaxAdded = 0
CONSTANT MaxSittings = 1
SPECIFICATION FairSpec
INVARIANT SectionOwnsItem
PROPERTY ActedOnce
PROPERTY EndHonoured
CHECK_DEADLOCK FALSE
