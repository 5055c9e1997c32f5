\* A curated queue with a history of its own that starts over when exhausted.
CONSTANTS
  Keys = {"film", "show"}
  Movies = {"film"}
  Windowed = {}
  Segment <- MCSegment
  AddAs = "random"
  Length = 2
  Batch = 2
  StopsAt = FALSE
  Window = 1
  Jobs = {"j1", "j2"}
  Reconcilers = {"j2"}
  MaxLeaves <- MCMaxLeaves
  OwnHistory = TRUE
  Restart = TRUE
  Keep = FALSE
  Ttl = 1
  Beginnings <- MCBeginnings
  MaxEvents = 2
SPECIFICATION RoundsSpec
PROPERTY SweepSparesPlayable
INVARIANT PromiseSpentOnce
PROPERTY ReturningShowComesBack
PROPERTY NewRound
