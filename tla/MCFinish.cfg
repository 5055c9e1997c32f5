CONSTANT Lineup <- MCLineup
CONSTANT Length <- MCLength
CONSTANT Start <- MCStart
CONSTANT End <- MCEnd
CONSTANT Marker <- MCMarker
CONSTANT PlayQueues <- MCPlayQueues
CONSTANT MinMark = 1
CONSTANT StartWindow = 1
CONSTANT Attempts = 2
CONSTANT StaleReads = FALSE
CONSTANT MaxAdded = 0
CONSTANT MaxSittings = 1
SPECIFICATION FinishSpec
PROPERTY SectionCompletes
CHECK_DEADLOCK FALSE
