\* Two overlapping starts with retries, leads and plans.
SPECIFICATION Spec
CONSTANTS
  MaxSittings = 2
  MaxAdvances = 0
  MaxLen = 2
  MaxLeads = 2
  MaxPlays = 2
  FSM = TRUE
INVARIANTS IndInv CoherentSession WatcherServesNewest LeadsEarned PlayerFollowsSession
PROPERTIES ReplacedStartIsSilent NewestWins
