\* Two cards, three taps, two messages waiting behind the one being processed.
CONSTANTS
  People <- MCPeople
  Queues <- MCQueues
  Members <- MCMembers
  Scans <- MCScans
  Card <- MCCard
  MaxTaps = 3
  MaxPending = 2
SPECIFICATION Spec
PROPERTY PlayIsWhatWasShown
PROPERTY ScanCountsOnce
PROPERTY ScreenCloses
