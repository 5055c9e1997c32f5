\* Two drives at a time, two accounts; an observation lives one tick.
CONSTANTS
  Accounts = {"kids", "owner"}
  Jobs = {"j1", "j2"}
  Ttl = 1
  SwitchAttempts = 2
  SessionRetries = 1
SPECIFICATION Spec
INVARIANT SuccessIsRightful
PROPERTY SkipIsProven
PROPERTY WrongPlayEnds
