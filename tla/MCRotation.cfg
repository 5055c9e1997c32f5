\* The pool of a rotation channel and the lineup dealt from it.
CONSTANTS
  Sections <- MCSections
  Leaves <- MCLeaves
  Collections <- MCCollections
  Configs <- MCConfigs
  Histories <- MCHistories
  MaxWeight = 3
  DefaultLength = 8
  MaxLength = 10
SPECIFICATION Spec
CHECK_DEADLOCK FALSE
INVARIANT FairShares
INVARIANT InTurn
INVARIANT OncePerLineup
INVARIANT RuleDelivers
