\* Two starts and two advances, on the legacy path, under fairness.
SPECIFICATION FairSpec
CONSTANTS
  MaxSittings = 2
  MaxAdvances = 2
  MaxLen = 2
  MaxLeads = 1
  MaxPlays = 1
  FSM = FALSE
INVARIANTS CursorInLineup
PROPERTIES ReplacedAdvanceIsSilent PreparationEnds StartsReturn
