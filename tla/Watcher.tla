------------------------------ MODULE Watcher ------------------------------
(***************************************************************************)
(* server/src/resume.ts with server/src/section.ts: the one watcher that   *)
(* drives two plans.  The resume plan seeks an episode the player has      *)
(* advanced to, by file; the section plan seeks and stops the items that   *)
(* carry an authored window, by place in the lineup, and outranks it.  The *)
(* place it acts on is an index of the live playQueue, which is not the    *)
(* lineup's once Plex dropped or reordered items or a top-up added some.   *)
(*                                                                         *)
(* The watcher reads Plex's sessions when its timer fires or when the      *)
(* now-playing topic names another file, and decides on that reading,      *)
(* while the viewer, the player and newer starts go on.  What it does at   *)
(* an await is a phase.  Watchers are numbered by the sitting that started *)
(* them; isCurrent() is current = w.  Positions are a few units of time,   *)
(* delays and the retry burst are left out: a booked read may come at any  *)
(* time.                                                                   *)
(***************************************************************************)
EXTENDS Naturals, Sequences, FiniteSets

CONSTANTS
  Lineup,        \* the files of the lineup, in order; a file may come twice
  Length,        \* runtime of each file
  Start, End,    \* the authored window of each place, 0 for none
  Marker,        \* viewOffset of each file, 0 for none (or already watched)
  PlayQueues,    \* what Plex may make of the lineup: its places, kept and in order or not
  MinMark,       \* RESUME_MIN_MS
  StartWindow,   \* RESUME_START_WINDOW_MS
  Attempts,      \* START_ATTEMPTS
  StaleReads,    \* whether an advance may be reported with the old position
  MaxAdded,      \* bound: items a top-up adds in a sitting
  MaxSittings    \* bound: sittings in a behaviour

Places == DOMAIN Lineup
Armed == {Lineup[i] : i \in Places}

\* An item of a playQueue is a place of the lineup or 0, one that a top-up added.
Extra == "extra"
FileAt(p) == IF p = 0 THEN Extra ELSE Lineup[p]
Files == Armed \union {Extra}
Sittings == 1..MaxSittings

ASSUME WatcherAssumption ==
  /\ Lineup \in Seq(Armed) /\ Lineup # <<>>
  /\ PlayQueues \subseteq Seq(Places) \ {<<>>}
  /\ Length \in [Files -> Nat \ {0}] /\ Marker \in [Files -> Nat]
  /\ Start \in [Places -> Nat] /\ End \in [Places -> Nat]
  /\ MinMark \in Nat \ {0} /\ StartWindow \in Nat /\ Attempts \in Nat \ {0}
  /\ StaleReads \in BOOLEAN /\ MaxAdded \in Nat /\ MaxSittings \in Nat

VARIABLES
  sitting, stage,  \* the newest start and how far it has come (session.ts)
  known,           \* SESSION.playQueueID: whose playQueue, 0 for null
  player,          \* its playQueue, the index on the screen, the position Plex may still report
  current,         \* the watcher whose generation is GENERATION, 0 for none
  timer,           \* whether TIMER is pending
  lastPushed,      \* lastPushedRk of the current watcher
  markers, seen,   \* resume.ts ARMED: files with a marker, files considered
  rows,            \* section.ts ARMED: the plan
  boundaries,      \* section.ts BOUNDARIES: the place recorded for a file
  phase, local,    \* each watcher's read: the await it is at and what it read
  sought           \* history: what was sought or stopped since the plans were armed

session == <<sitting, stage, known>>
plans == <<markers, seen, rows, boundaries>>
watch == <<current, timer, lastPushed>>
reads == <<phase, local>>
vars == <<session, player, watch, plans, reads, sought>>

----------------------------------------------------------------------------
(* The plans.                                                              *)

\* resumePlan: not the head, not below the minimum.
ResumePlan == {f \in Armed \ {Lineup[1]} : Marker[f] >= MinMark}

\* A window is dropped against the runtime.
PlannedStart(i) == IF Start[i] >= Length[Lineup[i]] THEN 0 ELSE Start[i]
PlannedEnd(i) == IF End[i] >= Length[Lineup[i]] THEN 0 ELSE End[i]

\* sectionPlan, the head's start being applied by playMedia.
SectionPlan ==
  LET open(i) == i # 1 /\ PlannedStart(i) # 0
  IN  [i \in {j \in Places : open(j) \/ PlannedEnd(j) # 0} |->
         [file |-> Lineup[i], start |-> IF i = 1 THEN 0 ELSE PlannedStart(i),
          end |-> PlannedEnd(i), isStartDone |-> ~open(i), isDone |-> FALSE,
          attempts |-> 0]]

\* headStartOffsetMs: an authored start outranks an inferred marker.
HeadStart ==
  IF Start[1] # 0 THEN Start[1] ELSE IF End[1] # 0 THEN 0 ELSE Marker[Lineup[1]]

NoRows == [i \in {} |-> 0]

PendingRows == {i \in DOMAIN rows : ~rows[i].isDone}

TotalPending == Cardinality(PendingRows) + Cardinality(markers \ seen)

IsWindowed_PendingOnly(f) == \E i \in PendingRows : rows[i].file = f

IsWindowed(f) == \E i \in DOMAIN rows : rows[i].file = f

Candidates(f) == {i \in PendingRows : rows[i].file = f}

IsAmbiguous(f) == Cardinality(Candidates(f)) > 1

----------------------------------------------------------------------------
Idle == [items |-> <<>>, at |-> 0, pos |-> 0, old |-> 0, queue |-> 0]

NoRead == [file |-> "", pos |-> 0, place |-> 0, ms |-> 0]

Phases == {"none", "fetch", "fetched", "place", "placed", "seek", "next", "sent"}

Players == [items : Seq(Places \union {0}), at : Nat, pos : Nat, old : Nat,
            queue : 0..MaxSittings]

Readings == [file : Files \union {""}, pos : Nat, place : Places \union {0}, ms : Nat]

Rows == [file : Files, start : Nat, end : Nat, isStartDone : BOOLEAN, isDone : BOOLEAN,
         attempts : 0..Attempts]

TypeOK ==
  /\ sitting \in 0..MaxSittings /\ known \in 0..MaxSittings
  /\ stage \in {"idle", "starting", "armed", "handed", "live"}
  /\ player \in Players /\ player.at \in DOMAIN player.items \union {0}
  /\ current \in 0..MaxSittings
  /\ timer \in BOOLEAN
  /\ lastPushed \in Files \union {""}
  /\ markers \subseteq Files /\ seen \subseteq Files
  /\ DOMAIN rows \subseteq Places /\ rows \in [DOMAIN rows -> Rows]
  /\ DOMAIN boundaries \subseteq Files
  /\ phase \in [Sittings -> Phases]
  /\ local \in [Sittings -> Readings]

Init ==
  /\ sitting = 0 /\ stage = "idle" /\ known = 0
  /\ player = Idle
  /\ current = 0 /\ timer = FALSE /\ lastPushed = ""
  /\ markers = {} /\ seen = {} /\ rows = NoRows /\ boundaries = NoRows
  /\ phase = [w \in Sittings |-> "none"]
  /\ local = [w \in Sittings |-> NoRead]
  /\ sought = {}

----------------------------------------------------------------------------
(* The player and the viewer.                                              *)

\* The file on the screen.
Playing == FileAt(player.items[player.at])

AtMost(pos, f) == IF pos < Length[f] THEN pos ELSE Length[f]

Show(at, pos, old) == player' = [player EXCEPT !.at = at, !.pos = pos, !.old = old]

\* To the next item, which starts at 0.  The last one leaves the player idle.
ToNext ==
  LET next == player.at + 1
      isThere == next \in DOMAIN player.items
  IN  Show(IF isThere THEN next ELSE 0, 0,
           IF StaleReads /\ isThere THEN player.pos ELSE 0)

\* An item plays on, is scrubbed, ends or is skipped.
PlayerMoves ==
  /\ player.at # 0
  /\ \/ \E pos \in 0..Length[Playing] : Show(player.at, pos, 0)
     \/ ToNext
  /\ UNCHANGED <<session, watch, plans, reads, sought>>

\* A top-up of the session's playQueue: Plex inserts after the item that plays.
\* The plans are not told.
AddNext ==
  /\ stage = "live" /\ player.at # 0 /\ player.queue = known
  /\ Cardinality({k \in DOMAIN player.items : player.items[k] = 0}) < MaxAdded
  /\ player' = [player EXCEPT !.items =
       SubSeq(@, 1, player.at) \o <<0>> \o SubSeq(@, player.at + 1, Len(@))]
  /\ UNCHANGED <<session, watch, plans, reads, sought>>

----------------------------------------------------------------------------
(* A sitting (session.ts): it stops the watcher, arms, starts it, and only *)
(* then hands the lineup to the player.                                    *)

StopWatch == current' = 0 /\ timer' = FALSE /\ lastPushed' = ""

StartSitting ==
  /\ sitting < MaxSittings
  /\ sitting' = sitting + 1
  /\ stage' = "starting"
  /\ StopWatch
  /\ UNCHANGED <<known, player, plans, reads, sought>>

\* resume.arm, section.arm, forgetBoundaries, startWatch.
Arm ==
  /\ stage = "starting"
  /\ stage' = "armed"
  /\ markers' = ResumePlan /\ seen' = {}
  /\ rows' = SectionPlan
  /\ boundaries' = NoRows
  /\ sought' = {}
  /\ current' = IF ResumePlan = {} /\ DOMAIN SectionPlan = {} THEN 0 ELSE sitting
  /\ timer' = (current' # 0)
  /\ lastPushed' = ""
  /\ UNCHANGED <<sitting, known, player, reads>>

\* Plex makes a playQueue of the lineup, and the player is told to play the head
\* of the lineup from an offset; without it, it plays what comes first.
Handoff ==
  /\ stage = "armed"
  /\ stage' = "handed"
  /\ \E items \in PlayQueues :
       LET heads == {k \in DOMAIN items : items[k] = 1}
       IN  \E at \in IF heads = {} THEN {1} ELSE heads :
             player' = [items |-> items, at |-> at, old |-> 0, queue |-> sitting,
                        pos |-> AtMost(HeadStart, FileAt(items[at]))]
  /\ UNCHANGED <<sitting, known, watch, plans, reads, sought>>

\* The handoff resolves, its audit done, and SESSION.playQueueID is set.
Remember ==
  /\ stage = "handed"
  /\ stage' = "live"
  /\ known' = sitting
  /\ UNCHANGED <<sitting, player, watch, plans, reads, sought>>

\* clearFailedPreparation.
Fail ==
  /\ stage \in {"starting", "armed", "handed"}
  /\ stage' = "idle"
  /\ known' = 0
  /\ markers' = {} /\ seen' = {} /\ rows' = NoRows
  /\ StopWatch
  /\ sought' = {}
  /\ UNCHANGED <<sitting, player, boundaries, reads>>

----------------------------------------------------------------------------
(* One read of the watcher, in the order of its awaits.                    *)

IsCurrent(w) == current = w

Goto(w, where) == phase' = [phase EXCEPT ![w] = where]

\* The finally block: isReading = false, and either nothing is pending any more
\* and the watcher stops itself, or the next read is booked.
Finish(w) ==
  /\ Goto(w, "none") /\ local' = [local EXCEPT ![w] = NoRead]
  /\ IF TotalPending' = 0
       THEN StopWatch
       ELSE timer' = TRUE /\ UNCHANGED <<current, lastPushed>>

\* A read while another is in flight leaves it to that one.
StartRead(w) == IF phase[w] = "none" THEN Goto(w, "fetch") ELSE UNCHANGED phase

\* finish(): a tick or a push that finds nothing pending stops the watcher,
\* before it looks whether a read is in flight.
FindsNothing(w) == TotalPending = 0 /\ StopWatch /\ UNCHANGED phase

TimerFires(w) ==
  /\ IsCurrent(w) /\ timer
  /\ \/ FindsNothing(w)
     \/ /\ TotalPending # 0 /\ StartRead(w)
        /\ timer' = FALSE /\ UNCHANGED <<current, lastPushed>>
  /\ UNCHANGED <<session, player, plans, local, sought>>

\* An event of the now-playing topic that names another file than the last.
Pushed(w) ==
  /\ IsCurrent(w)
  /\ player.at # 0 /\ Playing # lastPushed
  /\ \/ FindsNothing(w)
     \/ /\ TotalPending # 0 /\ StartRead(w)
        /\ lastPushed' = Playing /\ UNCHANGED <<current, timer>>
  /\ UNCHANGED <<session, player, plans, local, sought>>

\* Mutant: a failed request returns before the block that books the next read.
FetchSession_Deaf(w) ==
  /\ phase[w] = "fetch"
  /\ \/ /\ Goto(w, "none") /\ UNCHANGED local
     \/ /\ player.at # 0
        /\ local' = [local EXCEPT ![w] = [NoRead EXCEPT
                       !.file = Playing, !.pos = player.pos]]
        /\ Goto(w, "fetched")
  /\ UNCHANGED <<session, player, watch, plans, sought>>

\* Plex answers /status/sessions: what plays and where it is or, just after an
\* advance, where the item before was; or nothing.
FetchSession(w) ==
  /\ phase[w] = "fetch"
  /\ \/ local' = [local EXCEPT ![w] = NoRead]
     \/ /\ player.at # 0
        /\ \E pos \in {player.pos} \union ({player.old} \ {0}) :
             local' = [local EXCEPT ![w] = [NoRead EXCEPT
                         !.file = Playing, !.pos = pos]]
  /\ Goto(w, "fetched")
  /\ UNCHANGED <<session, player, watch, plans, sought>>

\* The index that Plex says is selected, if the plan has such a place and the
\* playQueue holds there the file that was read.
Selected(w) ==
  IF player.at \in Places /\ Playing = local[w].file THEN player.at ELSE 0

\* Two windows on one file: ask the live playQueue which item this is.  It is
\* the session's playQueue, so an older one while a handoff is under way, and
\* where in it an item was selected is anybody's guess.  Or it says nothing.
FetchPlace(w) ==
  /\ phase[w] = "place"
  /\ \E place \in {0} \union (IF known = 0 THEN {}
                              ELSE IF known = player.queue THEN {Selected(w)}
                              ELSE Places) :
       local' = [local EXCEPT ![w].place = place]
  /\ Goto(w, "placed")
  /\ UNCHANGED <<session, player, watch, plans, sought>>

\* if (isStopped || !isCurrent()) return, after an await.
GiveWay(w) ==
  /\ phase[w] \in {"fetched", "placed", "sent"}
  /\ ~IsCurrent(w)
  /\ Goto(w, "none") /\ local' = [local EXCEPT ![w] = NoRead]
  /\ UNCHANGED <<session, player, watch, plans, sought>>

AskPlace(w) ==
  /\ phase[w] = "fetched" /\ IsCurrent(w)
  /\ IsAmbiguous(local[w].file)
  /\ Goto(w, "place")
  /\ UNCHANGED <<session, player, watch, plans, local, sought>>

----------------------------------------------------------------------------
(* section.consider and considerSession: the decision on a reading.        *)

\* Mutant: the generation is not looked at again after the awaits.
Decides_Unchecked(w) ==
  \/ phase[w] = "placed"
  \/ phase[w] = "fetched" /\ ~IsAmbiguous(local[w].file)

\* The reading is complete.
Decides(w) ==
  /\ IsCurrent(w)
  /\ \/ phase[w] = "placed"
     \/ phase[w] = "fetched" /\ ~IsAmbiguous(local[w].file)

\* locate: the row at the index the live playQueue gave, taken for the place in
\* the lineup, or the only candidate.
Located(w) ==
  LET c == Candidates(local[w].file)
  IN  IF local[w].place \in c THEN {local[w].place}
      ELSE IF Cardinality(c) = 1 THEN c ELSE {}

\* retirePassed, and what becomes of the row itself.
SetRow(i, row) ==
  rows' = [j \in DOMAIN rows |->
             IF j = i THEN row
             ELSE IF j < i /\ ~rows[j].isDone
               THEN [rows[j] EXCEPT !.isDone = TRUE, !.isStartDone = TRUE]
               ELSE rows[j]]

StartDone(i) == [rows[i] EXCEPT !.isStartDone = TRUE, !.isDone = (rows[i].end = 0)]

\* A seek or a stop is decided; it is sent at the next await.
Act(w, where, ms, what) ==
  /\ Goto(w, where)
  /\ local' = [local EXCEPT ![w].ms = ms]
  /\ sought' = sought \union {what}
  /\ UNCHANGED watch

\* Nothing to send: the read ends, and runs its finally block.
Settled(w) == Finish(w) /\ UNCHANGED sought

\* Mutant: the start is not marked done.
SeekStart_NotMarked(w, i) ==
  /\ ~rows[i].isStartDone /\ local[w].pos < rows[i].start
  /\ SetRow(i, rows[i])
  /\ Act(w, "seek", rows[i].start, <<"start", i>>)
  /\ UNCHANGED boundaries

SeekStart(w, i) ==
  /\ ~rows[i].isStartDone /\ local[w].pos < rows[i].start
  /\ SetRow(i, StartDone(i))
  /\ Act(w, "seek", rows[i].start, <<"start", i>>)
  /\ UNCHANGED boundaries

\* Mutant: attempts are not counted.
DeclineStart_Forever(w, i) ==
  /\ ~rows[i].isStartDone /\ local[w].pos >= rows[i].start
  /\ SetRow(i, rows[i])
  /\ Settled(w)
  /\ UNCHANGED boundaries

\* Past the start: provisional until the attempts run out.
DeclineStart(w, i) ==
  /\ ~rows[i].isStartDone /\ local[w].pos >= rows[i].start
  /\ LET tried == rows[i].attempts + 1
     IN  SetRow(i, IF tried < Attempts THEN [rows[i] EXCEPT !.attempts = tried]
                                       ELSE [StartDone(i) EXCEPT !.attempts = tried])
  /\ Settled(w)
  /\ UNCHANGED boundaries

StopAtEnd(w, i) ==
  /\ rows[i].isStartDone /\ rows[i].end # 0 /\ local[w].pos >= rows[i].end
  /\ SetRow(i, [rows[i] EXCEPT !.isDone = TRUE])
  /\ boundaries' = [f \in DOMAIN boundaries \union {rows[i].file} |->
                      IF f = rows[i].file THEN i ELSE boundaries[f]]
  /\ Act(w, "next", 0, <<"end", i>>)

\* The end mark is still to come, or there is none.
WaitForEnd(w, i) ==
  /\ rows[i].isStartDone
  /\ rows[i].end = 0 \/ local[w].pos < rows[i].end
  /\ SetRow(i, [rows[i] EXCEPT !.isDone = (rows[i].end = 0)])
  /\ Settled(w)
  /\ UNCHANGED boundaries

ConsiderSection(w) ==
  /\ Decides(w)
  /\ UNCHANGED <<session, player, markers, seen>>
  /\ \E i \in Located(w) :
       SeekStart(w, i) \/ DeclineStart(w, i) \/ StopAtEnd(w, i) \/ WaitForEnd(w, i)

\* The section plan owns a file it windows, even when it cannot name the place
\* or the window is spent: the resume plan is not consulted.
OwnedQuietly(w) ==
  /\ Decides(w)
  /\ Located(w) = {} /\ IsWindowed(local[w].file)
  /\ UNCHANGED <<session, player, plans>>
  /\ Settled(w)

\* considerSession, by file: settled, or resumed at the marker, or - past the
\* start window - left for the next read.
ConsiderSession(w) ==
  LET f == local[w].file
      settle == f # "" /\ f \notin seen /\ (f \in markers => local[w].pos <= StartWindow)
  IN  /\ Decides(w)
      /\ Located(w) = {} /\ ~IsWindowed(f)
      /\ UNCHANGED <<session, player, markers, rows, boundaries>>
      /\ seen' = IF settle THEN seen \union {f} ELSE seen
      /\ IF settle /\ f \in markers
           THEN Act(w, "seek", Marker[f], <<"resume", f>>)
           ELSE Settled(w)

----------------------------------------------------------------------------
(* What was decided is sent, if the watcher is still the current one (the   *)
(* request carries isCurrent), and may be refused.  It finds the player at *)
(* whatever it is playing by then.  The answer comes back later.           *)

SeekTo(w) ==
  /\ phase[w] = "seek"
  /\ \/ /\ IsCurrent(w) /\ player.at # 0
        /\ Show(player.at, AtMost(local[w].ms, Playing), 0)
     \/ UNCHANGED player
  /\ Goto(w, "sent")
  /\ UNCHANGED <<session, watch, plans, local, sought>>

SkipNext(w) ==
  /\ phase[w] = "next"
  /\ \/ IsCurrent(w) /\ player.at # 0 /\ ToNext
     \/ UNCHANGED player
  /\ Goto(w, "sent")
  /\ UNCHANGED <<session, watch, plans, local, sought>>

Answered(w) ==
  /\ phase[w] = "sent" /\ IsCurrent(w)
  /\ UNCHANGED <<session, player, plans, sought>>
  /\ Finish(w)

Read(w) ==
  \/ FetchSession(w) \/ FetchPlace(w) \/ GiveWay(w) \/ AskPlace(w)
  \/ ConsiderSection(w) \/ OwnedQuietly(w) \/ ConsiderSession(w)
  \/ SeekTo(w) \/ SkipNext(w) \/ Answered(w)

Next ==
  \/ PlayerMoves \/ AddNext
  \/ StartSitting \/ Arm \/ Handoff \/ Remember \/ Fail
  \/ \E w \in Sittings : TimerFires(w) \/ Pushed(w) \/ Read(w)

Spec == Init /\ [][Next]_vars

\* Timers fire, every request ends with an answer or a timeout, and Plex does
\* not refuse to say what plays for ever.
FairSpec ==
  /\ Spec
  /\ \A w \in Sittings :
       /\ WF_vars(TimerFires(w)) /\ WF_vars(Read(w))
       /\ SF_vars(FetchSession(w) /\ local'[w].file # "" /\ local'[w].pos = player.pos)
       /\ SF_vars(FetchPlace(w) /\ local'[w].place = Selected(w))

----------------------------------------------------------------------------
(* What it must do.                                                        *)

\* A watcher that has not stopped always has a read booked or under way: the
\* early returns of read() (a hiccup, a decline, a replaced plan, a push on top
\* of a read) all come back through the finally block.
NeverDeaf == current # 0 => timer \/ phase[current] # "none"

\* A file the lineup windows is never sought to its resume marker, not even once
\* its windows are spent: the authored section outranks the inferred marker for
\* the whole sitting (isSpent, resume.ts).
SectionOwnsItem == \A i \in DOMAIN rows : <<"resume", rows[i].file>> \notin sought

\* Each start mark, end mark and resume marker moves the player at most once per
\* sitting, so that no read drags back a viewer who has scrubbed or paused.
ActedOnce ==
  [][\A w \in Sittings :
       phase'[w] # phase[w] /\ phase'[w] \in {"seek", "next"} => sought' # sought]_vars

\* A watcher whose sitting was replaced ends its read without touching the
\* player, the new watcher or the new plans.
ReplacedWatcherSilent ==
  [][\A w \in Sittings :
       w # current /\ phase'[w] # phase[w] => UNCHANGED <<player, watch, plans>>]_vars

\* A section does not play past its end mark for ever while the watcher runs and
\* the playQueue has it at its place of the lineup: declined starts give up,
\* ambiguous readings are resolved, reads are rebooked.
EndHonoured ==
  \A i \in Places :
    ~ <>[] /\ stage = "live" /\ current # 0
           /\ player.at = i /\ player.items[i] = i
           /\ i \in PendingRows /\ rows[i].end # 0 /\ player.pos >= rows[i].end
=============================================================================
