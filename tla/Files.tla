------------------------------- MODULE Files -------------------------------
(***************************************************************************)
(* queues.yaml and the directory that locks it.                            *)
(*                                                                         *)
(* Every edit is a read-modify-write of the whole file between making and  *)
(* removing `queues.yaml.lock`.  A waiter that finds the lock older than   *)
(* LOCK_STALE_MS takes its holder for dead, though it may only be slow,    *)
(* removes it and tries again; a waiter gives up after LOCK_WAIT_MS.  The  *)
(* new file is renamed over the old one or, where a bind mount refuses     *)
(* that, written in its place, which can be met half way.  A crash of the  *)
(* server stops every edit where it is and leaves the directory behind.  A *)
(* hand edit over the network, or an undo, replaces the file without       *)
(* asking for the lock.                                                    *)
(* listAll answers from a memo of the parsed file keyed on the file's stat.*)
(*                                                                         *)
(* A line of the file stands for all a writer edits: `file` is the set of  *)
(* writers whose line is in it.  A stat is modelled by whether it is still *)
(* the file's: any write makes every stat taken before it differ.          *)
(***************************************************************************)
EXTENDS Integers, FiniteSets

CONSTANTS
  Writers,     \* callers of addItem, removeItem and rewriteEntry
  Listers,     \* callers of listAll
  Stale,       \* ticks after which a lock's holder is presumed dead
  Patience,    \* ticks a waiter keeps trying
  MaxCrashes   \* bound on the crashes of the server

ASSUME BoundsAssumption == Stale \in Nat \ {0} /\ Patience \in Nat /\ MaxCrashes \in Nat

VARIABLES
  file,      \* the lines of queues.yaml
  lock,      \* the age of the lock directory, or Free
  pc,        \* where each writer is
  want,      \* the line as the writer wants it: there or not
  doc,       \* the document the writer parsed
  waited,    \* ticks since the writer's deadline was set
  memo,      \* _allCache
  lister,    \* each listAll under way
  crashes,
  saved,     \* the line as each writer last saved it (history), or Unknown once a hand
             \* edit, a broken-off write or a robbery has withdrawn it
  robbed     \* a waiter removed the lock of a holder that lived, and the edits that
             \* were then inside are not all done (history)

vars == <<file, lock, pc, want, doc, waited, memo, lister, crashes, saved, robbed>>
writing == <<pc, want, doc, waited>>

Free == -1
Unknown == "unknown"
None == [current |-> FALSE, lines |-> {}]  \* no memo, or one the file has moved on from
Asleep == [at |-> "idle", current |-> FALSE, lines |-> {}]
Withdrawn == [w \in Writers |-> Unknown]
Holding(w) == pc[w] \in {"read", "write", "patch", "release"}

TypeOK ==
  /\ file \subseteq Writers
  /\ lock \in Free .. Stale + 1
  /\ pc \in [Writers -> {"idle", "mkdir", "stat", "rmdir", "read", "write", "patch", "release"}]
  /\ want \in [Writers -> {"there", "gone"}]
  /\ doc \in [Writers -> SUBSET Writers]
  /\ waited \in [Writers -> 0 .. Patience + 1]
  /\ memo \in [current : BOOLEAN, lines : SUBSET Writers]
  /\ lister \in [Listers -> [at : {"idle", "read", "store"}, current : BOOLEAN, lines : SUBSET Writers]]
  /\ crashes \in 0 .. MaxCrashes
  /\ saved \in [Writers -> {"there", "gone", Unknown}]
  /\ robbed \in BOOLEAN

Init ==
  /\ file = {} /\ lock = Free
  /\ pc = [w \in Writers |-> "idle"]
  /\ want = [w \in Writers |-> "gone"]
  /\ doc = [w \in Writers |-> {}]
  /\ waited = [w \in Writers |-> 0]
  /\ memo = None
  /\ lister = [l \in Listers |-> Asleep]
  /\ crashes = 0
  /\ saved = Withdrawn
  /\ robbed = FALSE

----------------------------------------------------------------------------
(* Acquiring the lock. *)

Begin(w, wanted) ==
  /\ pc[w] = "idle"
  /\ pc' = [pc EXCEPT ![w] = "mkdir"]
  /\ want' = [want EXCEPT ![w] = wanted]
  /\ waited' = [waited EXCEPT ![w] = 0]
  /\ UNCHANGED <<file, lock, doc, memo, lister, crashes, saved, robbed>>

\* Mutant: a recursive mkdir, which does not mind that the directory is there.
Mkdir_Recursive(w) ==
  /\ pc[w] = "mkdir"
  /\ pc' = [pc EXCEPT ![w] = "read"]
  /\ lock' = IF lock = Free THEN 0 ELSE lock
  /\ UNCHANGED <<file, want, doc, waited, memo, lister, crashes, saved, robbed>>

\* mkdir either makes the directory or finds it there.
Mkdir(w) ==
  /\ pc[w] = "mkdir"
  /\ \/ lock = Free /\ lock' = 0 /\ pc' = [pc EXCEPT ![w] = "read"] /\ waited' = [waited EXCEPT ![w] = 0]
     \/ lock # Free /\ pc' = [pc EXCEPT ![w] = "stat"] /\ UNCHANGED <<lock, waited>>
  /\ UNCHANGED <<file, want, doc, memo, lister, crashes, saved, robbed>>

IsStale == lock > Stale

\* The deadline is looked at after every try: the edit fails, or tries again.
Again(w) == IF waited[w] > Patience THEN "idle" ELSE "mkdir"

\* Mutant: the waiter never steals.
Stat_Polite(w) ==
  /\ pc[w] = "stat"
  /\ pc' = [pc EXCEPT ![w] = Again(w)]
  /\ UNCHANGED <<file, lock, want, doc, waited, memo, lister, crashes, saved, robbed>>

\* A directory that vanished before the stat is not stale: it is tried again.
Stat(w) ==
  /\ pc[w] = "stat"
  /\ pc' = [pc EXCEPT ![w] = IF IsStale THEN "rmdir" ELSE Again(w)]
  /\ UNCHANGED <<file, lock, want, doc, waited, memo, lister, crashes, saved, robbed>>

\* The directory removed is whichever is there by now, and whoever holds it.
Steal(w) ==
  /\ pc[w] = "rmdir"
  /\ lock' = Free
  /\ pc' = [pc EXCEPT ![w] = "mkdir"]
  /\ robbed' = \E v \in Writers : Holding(v)
  /\ saved' = IF robbed' THEN Withdrawn ELSE saved
  /\ UNCHANGED <<file, want, doc, waited, memo, lister, crashes>>

----------------------------------------------------------------------------
(* The edit, and the file's readers. *)

\* What a write of `lines` does to every stat taken before it.
Replaced(lines) ==
  /\ file' = lines
  /\ lister' = [l \in Listers |-> [lister[l] EXCEPT !.current = FALSE]]

Read(w) ==
  /\ pc[w] = "read"
  /\ pc' = [pc EXCEPT ![w] = "write"]
  /\ doc' = [doc EXCEPT ![w] = file]
  /\ UNCHANGED <<file, lock, want, waited, memo, lister, crashes, saved, robbed>>

Edited(w) == IF want[w] = "there" THEN doc[w] \cup {w} ELSE doc[w] \ {w}

\* The whole of the new file is there.
Save(w) ==
  /\ Replaced(Edited(w)) /\ memo' = None
  /\ saved' = IF robbed THEN Withdrawn ELSE [saved EXCEPT ![w] = want[w]]

\* A line that already is as wanted is refused and nothing is written; nor is it
\* where the temporary file cannot be.
WriteNothing(w) ==
  /\ pc' = [pc EXCEPT ![w] = "release"]
  /\ UNCHANGED <<file, memo, lister, saved>>

\* The temporary file is renamed over the old one.
WriteRenamed(w) ==
  /\ pc' = [pc EXCEPT ![w] = "release"]
  /\ Save(w)

\* The rename is refused: the file is cut to nothing and written over, and holds
\* some of its lines meanwhile.
WriteInPlace(w) ==
  /\ pc' = [pc EXCEPT ![w] = "patch"]
  /\ \E lines \in SUBSET Edited(w) : Replaced(lines)
  /\ memo' = None
  /\ UNCHANGED saved

Write(w) ==
  /\ pc[w] = "write"
  /\ \/ WriteNothing(w)
     \/ Edited(w) # doc[w] /\ (WriteRenamed(w) \/ WriteInPlace(w))
  /\ UNCHANGED <<lock, want, doc, waited, crashes, robbed>>

\* The rest of the write in place, which may fail half way too.
Patch(w) ==
  /\ pc[w] = "patch"
  /\ pc' = [pc EXCEPT ![w] = "release"]
  /\ Save(w) \/ (saved' = Withdrawn /\ UNCHANGED <<file, memo, lister>>)
  /\ UNCHANGED <<lock, want, doc, waited, crashes, robbed>>

Release(w) ==
  /\ pc[w] = "release"
  /\ lock' = Free
  /\ pc' = [pc EXCEPT ![w] = "idle"]
  /\ doc' = [doc EXCEPT ![w] = {}]
  /\ want' = [want EXCEPT ![w] = "gone"]
  /\ robbed' = (robbed /\ \E v \in Writers \ {w} : Holding(v))
  /\ UNCHANGED <<file, waited, memo, lister, crashes, saved>>

\* listAll takes the stat and answers from the memo if that is its stat.
ListStat(l) ==
  /\ lister[l].at = "idle" /\ ~memo.current
  /\ lister' = [lister EXCEPT ![l] = [at |-> "read", current |-> TRUE, lines |-> {}]]
  /\ UNCHANGED <<file, lock, writing, memo, crashes, saved, robbed>>

ListRead(l) ==
  /\ lister[l].at = "read"
  /\ lister' = [lister EXCEPT ![l] = [@ EXCEPT !.at = "store", !.lines = file]]
  /\ UNCHANGED <<file, lock, writing, memo, crashes, saved, robbed>>

\* Mutant: the memo is kept under a stat taken after the read.
ListStore_LateStat(l) ==
  /\ lister[l].at = "store"
  /\ memo' = [current |-> TRUE, lines |-> lister[l].lines]
  /\ lister' = [lister EXCEPT ![l] = Asleep]
  /\ UNCHANGED <<file, lock, writing, crashes, saved, robbed>>

\* The memo is kept under the stat that was taken before the read.
ListStore(l) ==
  /\ lister[l].at = "store"
  /\ memo' = IF lister[l].current THEN [current |-> TRUE, lines |-> lister[l].lines] ELSE None
  /\ lister' = [lister EXCEPT ![l] = Asleep]
  /\ UNCHANGED <<file, lock, writing, crashes, saved, robbed>>

----------------------------------------------------------------------------
(* The world. *)

HalfWritten == \E w \in Writers : pc[w] = "patch"

\* A hand edit, or an undo: what writers saved before it is no longer promised.
Outside(lines) ==
  /\ lines # file
  /\ Replaced(lines)
  /\ memo' = None
  /\ saved' = Withdrawn
  /\ UNCHANGED <<lock, writing, crashes, robbed>>

\* The server restarts: what was in memory is gone, the directory is not.
Crash ==
  /\ crashes < MaxCrashes
  /\ crashes' = crashes + 1
  /\ pc' = [w \in Writers |-> "idle"]
  /\ want' = [w \in Writers |-> "gone"]
  /\ doc' = [w \in Writers |-> {}]
  /\ waited' = [w \in Writers |-> 0]
  /\ memo' = None
  /\ lister' = [l \in Listers |-> Asleep]
  /\ saved' = IF HalfWritten THEN Withdrawn ELSE saved
  /\ robbed' = FALSE
  /\ UNCHANGED <<file, lock>>

\* A holder may take longer than its lock takes to go stale.
Tick ==
  /\ \E w \in Writers : pc[w] # "idle"
  /\ lock' = IF lock \in {Free, Stale + 1} THEN lock ELSE lock + 1
  /\ waited' = [w \in Writers |-> IF waited[w] > Patience \/ pc[w] = "idle" \/ Holding(w) THEN waited[w] ELSE waited[w] + 1]
  /\ UNCHANGED <<file, pc, want, doc, memo, lister, crashes, saved, robbed>>

Step(w) ==
  \/ \E wanted \in {"there", "gone"} : Begin(w, wanted)
  \/ Mkdir(w) \/ Stat(w) \/ Steal(w)
  \/ Read(w) \/ Write(w) \/ Patch(w) \/ Release(w)

List(l) == ListStat(l) \/ ListRead(l) \/ ListStore(l)

Next ==
  \/ \E w \in Writers : Step(w)
  \/ \E l \in Listers : List(l)
  \/ \E lines \in SUBSET Writers : Outside(lines)
  \/ Crash \/ Tick

\* Promises settle, edits keep being asked for, and the clock runs.
Spec == Init /\ [][Next]_vars /\ WF_vars(Tick) /\ \A w \in Writers : WF_vars(Step(w))

----------------------------------------------------------------------------
\* Two edits are never inside the lock, nor is one there without it, unless a
\* waiter took a live holder for a dead one (store/queues.ts acquireLock;
\* store/db/common.ts:12, "can steal a lock from a slow write").
OneHolder ==
  ~robbed => \A w \in Writers : Holding(w) => lock # Free /\ \A v \in Writers \ {w} : ~Holding(v)

\* No edit is lost: a line stays as its writer last saved it, whatever the
\* other edits rewrote and wherever a crash stopped one, between the writes of
\* the file.  Three things withdraw that, until a line is saved again: a hand
\* edit; a write in place that breaks off; a live holder robbed of its lock,
\* until every edit then inside is done (queues.ts withLock, store/queues.ts
\* acquireLock, writeDoc).
NoEditLost ==
  ~HalfWritten => \A w \in Writers : saved[w] # Unknown => (w \in file <=> saved[w] = "there")

\* A memo that matches the file's stat holds the file's lines, however the
\* stat, the read and the memo of two listings interleave with the writers: a
\* listing never answers with lines the file no longer has (queues.ts listAll).
MemoIsTheFile == memo.current => memo.lines = file

\* A crashed holder does not lock the household out: the lock always comes
\* free again while edits keep coming (store/queues.ts LOCK_STALE_MS).
LockRecovers == []<>(lock = Free)
=============================================================================
