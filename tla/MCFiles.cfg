\* Two writers, a listing, a crash; a lock is stale after 3 ticks of 5 s and a
\* waiter gives up after 2.
CONSTANTS
  Writers = {"w1", "w2"}
  Listers = {"l1"}
  Stale = 3
  Patience = 2
  MaxCrashes = 1
SPECIFICATION Spec
INVARIANT NoEditLost
INVARIANT MemoIsTheFile
PROPERTY LockRecovers
