--------------------------- MODULE Watcher_proofs ---------------------------
(***************************************************************************)
(* Proofs about Watcher for every lineup, every windows and markers, and   *)
(* any number of sittings.                                                 *)
(***************************************************************************)
EXTENDS Watcher, SequenceTheorems, TLAPS

\* TypeOK in the parts the actions leave alone together.
SessionOK ==
  /\ sitting \in 0..MaxSittings /\ known \in 0..MaxSittings
  /\ stage \in {"idle", "starting", "armed", "handed", "live"}
PlayerOK == player \in Players /\ player.at \in DOMAIN player.items \union {0}
WatchOK == current \in 0..MaxSittings /\ timer \in BOOLEAN /\ lastPushed \in Files \union {""}
RowsOK == DOMAIN rows \subseteq Places /\ rows \in [DOMAIN rows -> Rows]
PlansOK ==
  /\ markers \subseteq Files /\ seen \subseteq Files /\ RowsOK
  /\ DOMAIN boundaries \subseteq Files
ReadsOK == phase \in [Sittings -> Phases] /\ local \in [Sittings -> Readings]

\* A start that is still provisional has attempts left.
TriesLeft == \A i \in DOMAIN rows : ~rows[i].isStartDone => rows[i].attempts < Attempts

\* What was sought or stopped once is marked done in the plan it came from.
ActsAreMarked ==
  /\ \A i \in Places : <<"start", i>> \in sought => i \in DOMAIN rows /\ rows[i].isStartDone
  /\ \A i \in Places : <<"end", i>> \in sought => i \in DOMAIN rows /\ rows[i].isDone
  /\ \A f \in Files : <<"resume", f>> \in sought => f \in seen

Marked == TriesLeft /\ ActsAreMarked /\ SectionOwnsItem

IndInv == TypeOK /\ NeverDeaf /\ Marked

\* What ActedOnce and ReplacedWatcherSilent say of a step.
ActedStep ==
  \A w \in Sittings :
    phase'[w] # phase[w] /\ phase'[w] \in {"seek", "next"} => sought' # sought
SilentStep ==
  \A w \in Sittings :
    w # current /\ phase'[w] # phase[w] => UNCHANGED <<player, watch, plans>>

----------------------------------------------------------------------------
(* The types, and what a step that leaves a part alone leaves of it.       *)

LEMMA Types == TypeOK <=> SessionOK /\ PlayerOK /\ WatchOK /\ PlansOK /\ ReadsOK
  BY DEF TypeOK, SessionOK, PlayerOK, WatchOK, PlansOK, RowsOK, ReadsOK

LEMMA TypesNext == TypeOK' <=> SessionOK' /\ PlayerOK' /\ WatchOK' /\ PlansOK' /\ ReadsOK'
  BY DEF TypeOK, SessionOK, PlayerOK, WatchOK, PlansOK, RowsOK, ReadsOK

\* A part that does not change keeps its type.
LEMMA Frames ==
  /\ SessionOK /\ UNCHANGED session => SessionOK'
  /\ PlayerOK /\ UNCHANGED player => PlayerOK'
  /\ WatchOK /\ UNCHANGED watch => WatchOK'
  /\ PlansOK /\ UNCHANGED plans => PlansOK'
  /\ ReadsOK /\ UNCHANGED reads => ReadsOK'
  BY DEF SessionOK, PlayerOK, WatchOK, PlansOK, RowsOK, ReadsOK,
         session, watch, plans, reads

\* Nor do the marks, as long as the plans and what was sought stay.
LEMMA MarksStay == Marked /\ UNCHANGED <<plans, sought>> => Marked'
  BY DEF Marked, TriesLeft, ActsAreMarked, SectionOwnsItem, plans

\* The lineup has a first place, every place has a file of the lineup, and every
\* item of a playQueue a file of some length.
LEMMA Lineups ==
  /\ 1 \in Places /\ Places \subseteq Nat
  /\ Armed \subseteq Files
  /\ \A i \in Places : Lineup[i] \in Armed
  /\ \A p \in Places \union {0} : FileAt(p) \in Files
  /\ \A f \in Files : Length[f] \in Nat /\ Marker[f] \in Nat
<1>1. Lineup \in Seq(Armed) /\ Lineup # <<>>
  BY WatcherAssumption
<1>2. \A f \in Files : Length[f] \in Nat /\ Marker[f] \in Nat
  BY WatcherAssumption
<1>3. 1 \in Places /\ Places \subseteq Nat
  BY <1>1 DEF Places
<1>4. \A i \in Places : Lineup[i] \in Armed
  BY DEF Armed
<1>5. Armed \subseteq Files /\ Extra \in Files
  BY DEF Files
<1>6. \A p \in Places \union {0} : FileAt(p) \in Files
  BY <1>3, <1>4, <1>5 DEF FileAt
<1> QED BY <1>2, <1>3, <1>4, <1>5, <1>6

\* A reading that begins is one the watcher waits for.
LEMMA Going ==
  ASSUME ReadsOK, NEW w \in Sittings, NEW where \in Phases, Goto(w, where)
  PROVE  /\ phase' \in [Sittings -> Phases] /\ phase'[w] = where
         /\ \A v \in Sittings \ {w} : phase'[v] = phase[v]
  BY DEF ReadsOK, Goto

\* A watcher that is current is one of a sitting.
LEMMA Currents == WatchOK /\ current # 0 => current \in Sittings
<1>1. WatchOK => current \in 0..MaxSittings
  BY DEF WatchOK
<1> QED BY <1>1, WatcherAssumption DEF Sittings

\* A watcher that stops is none, and has nothing booked.
LEMMA Stopping == StopWatch => WatchOK' /\ NeverDeaf'
<1> SUFFICES ASSUME StopWatch PROVE WatchOK' /\ NeverDeaf'
  OBVIOUS
<1>1. 0 \in 0..MaxSittings
  BY WatcherAssumption
<1>2. current' = 0 /\ timer' = FALSE /\ lastPushed' = ""
  BY DEF StopWatch
<1>3. WatchOK'
  BY <1>1, <1>2 DEF WatchOK
<1> QED BY <1>2, <1>3 DEF NeverDeaf

\* The finally block stops the watcher or books its next read.
LEMMA Finishing ==
  ASSUME WatchOK, ReadsOK, NEW w \in Sittings, Finish(w)
  PROVE  /\ WatchOK' /\ ReadsOK' /\ NeverDeaf'
         /\ phase'[w] = "none" /\ \A v \in Sittings \ {w} : phase'[v] = phase[v]
<1>1. Goto(w, "none") /\ local' = [local EXCEPT ![w] = NoRead]
  BY DEF Finish
<1>2. StopWatch \/ (timer' = TRUE /\ UNCHANGED <<current, lastPushed>>)
  BY DEF Finish
<1>3. WatchOK' /\ NeverDeaf'
  <2>1. CASE timer' = TRUE /\ UNCHANGED <<current, lastPushed>>
    BY <2>1 DEF WatchOK, NeverDeaf
  <2> QED BY <1>2, <2>1, Stopping
<1>4. NoRead \in Readings
  BY DEF NoRead, Readings
<1>5. local' \in [Sittings -> Readings]
  BY <1>1, <1>4 DEF ReadsOK
<1> QED BY <1>1, <1>3, <1>5, Going DEF ReadsOK, Phases

----------------------------------------------------------------------------
(* The player, the viewer and the session.                                 *)

\* What is on the screen is a file of some length.
LEMMA OnScreen ==
  ASSUME PlayerOK, player.at # 0
  PROVE  Playing \in Files /\ Length[Playing] \in Nat
<1>1. player.items \in Seq(Places \union {0}) /\ player.at \in DOMAIN player.items
  BY DEF PlayerOK, Players
<1>2. player.items[player.at] \in Places \union {0}
  BY <1>1
<1> QED BY <1>2, Lineups DEF Playing

\* A position, cut at the runtime.
LEMMA Cut ==
  ASSUME NEW f \in Files, NEW pos \in Nat
  PROVE  AtMost(pos, f) \in Nat
<1>1. Length[f] \in Nat
  BY Lineups
<1> QED BY <1>1 DEF AtMost

\* Showing another item, at a position, leaves a player.
LEMMA Showing ==
  ASSUME PlayerOK, NEW at \in DOMAIN player.items \union {0}, NEW pos \in Nat,
         NEW old \in Nat, Show(at, pos, old)
  PROVE  PlayerOK'
<1>1. /\ player' = [player EXCEPT !.at = at, !.pos = pos, !.old = old]
      /\ player \in Players
  BY DEF PlayerOK, Show
<1>2. player.items \in Seq(Places \union {0})
  BY <1>1 DEF Players
<1>3. at \in Nat
  BY <1>2
<1>4. player' \in Players /\ player'.items = player.items /\ player'.at = at
  BY <1>1, <1>3 DEF Players
<1> QED BY <1>4 DEF PlayerOK

\* Going to the next item too.
LEMMA NextShown ==
  ASSUME PlayerOK, ToNext
  PROVE  PlayerOK'
<1>1. player.pos \in Nat
  BY DEF PlayerOK, Players
<1> DEFINE next == player.at + 1
           isThere == next \in DOMAIN player.items
           at == IF isThere THEN next ELSE 0
           old == IF StaleReads /\ isThere THEN player.pos ELSE 0
<1>2. at \in DOMAIN player.items \union {0} /\ old \in Nat
  BY <1>1
<1>3. Show(at, 0, old)
  BY DEF ToNext
<1> HIDE DEF at, old
<1> QED BY <1>2, <1>3, Showing

\* A step that leaves the watcher, the plans and the reads alone keeps the
\* invariant, if what it leaves of the session and the player is of its type.
LEMMA Aside ==
  ASSUME IndInv, UNCHANGED <<watch, plans, reads, sought>>, SessionOK', PlayerOK'
  PROVE  IndInv' /\ ActedStep /\ SilentStep
<1>1. TypeOK'
  BY Types, TypesNext, Frames DEF IndInv
<1>2. NeverDeaf'
  BY DEF IndInv, NeverDeaf, watch, reads
<1> QED BY <1>1, <1>2, MarksStay DEF IndInv, ActedStep, SilentStep, reads

LEMMA StepPlayerMoves ==
  ASSUME IndInv, PlayerMoves
  PROVE  IndInv' /\ ActedStep /\ SilentStep
<1>1. SessionOK' /\ PlayerOK
  BY Types, Frames DEF IndInv, PlayerMoves
<1>2. PlayerOK'
  <2>1. ASSUME NEW pos \in 0..Length[Playing], Show(player.at, pos, 0), player.at # 0
        PROVE  PlayerOK'
    <3>1. pos \in Nat
      BY <1>1, <2>1, OnScreen
    <3>2. player.at \in DOMAIN player.items \union {0}
      BY <1>1 DEF PlayerOK
    <3> QED BY <1>1, <2>1, <3>1, <3>2, Showing
  <2> QED BY <1>1, <2>1, NextShown DEF PlayerMoves
<1> QED BY <1>1, <1>2, Aside DEF PlayerMoves

\* A top-up makes the playQueue longer after the item that plays.
LEMMA StepAddNext ==
  ASSUME IndInv, AddNext
  PROVE  IndInv' /\ ActedStep /\ SilentStep
<1> DEFINE S == Places \union {0}
           items == player.items
           at == player.at
           before == SubSeq(items, 1, at)
           after == SubSeq(items, at + 1, Len(items))
<1>1. SessionOK' /\ PlayerOK
  BY Types, Frames DEF IndInv, AddNext
<1>2. player \in Players /\ items \in Seq(S) /\ at \in 1..Len(items)
  BY <1>1 DEF AddNext, PlayerOK, Players
<1>3. \A k \in 1..Len(items) : items[k] \in S
  BY <1>2
<1>4. before \in Seq(S) /\ Len(before) = at
  <2>1. \A k \in 1..at : items[k] \in S
    BY <1>2, <1>3
  <2> HIDE DEF S, items, at
  <2> QED BY <1>2, <2>1, SubSeqProperties
<1>5. after \in Seq(S)
  <2>1. \A k \in (at + 1)..Len(items) : items[k] \in S
    BY <1>2, <1>3
  <2>2. at + 1 \in Int /\ Len(items) \in Int
    BY <1>2
  <2> HIDE DEF S, items, at
  <2> QED BY <2>1, <2>2, SubSeqProperties
<1>6. <<0>> \in Seq(S) /\ Len(<<0>>) = 1
  OBVIOUS
<1>7. before \o <<0>> \in Seq(S) /\ Len(before \o <<0>>) = at + 1
  <2> HIDE DEF S, before, at
  <2> QED BY <1>4, <1>6, ConcatProperties
<1>8. /\ (before \o <<0>>) \o after \in Seq(S)
      /\ Len((before \o <<0>>) \o after) = at + 1 + Len(after)
  <2> DEFINE head == before \o <<0>>
  <2> HIDE DEF S, head, after, at
  <2> QED BY <1>5, <1>7, ConcatProperties
<1>9. player' = [player EXCEPT !.items = (before \o <<0>>) \o after]
  BY DEF AddNext
<1>10. PlayerOK'
  <2> DEFINE longer == (before \o <<0>>) \o after
  <2>1. Len(after) \in Nat
    BY <1>5
  <2> HIDE DEF longer, after
  <2>2. player' \in Players /\ player'.items = longer /\ player'.at = at
    BY <1>2, <1>8, <1>9 DEF Players, longer
  <2>3. at \in DOMAIN longer
    BY <1>2, <1>8, <2>1 DEF longer
  <2> QED BY <2>2, <2>3 DEF PlayerOK
<1> QED BY <1>1, <1>10, Aside DEF AddNext

LEMMA StepHandoff ==
  ASSUME IndInv, Handoff \/ Remember
  PROVE  IndInv' /\ ActedStep /\ SilentStep
<1>1. SessionOK /\ PlayerOK
  BY Types DEF IndInv
<1>2. SessionOK'
  BY <1>1 DEF Handoff, Remember, SessionOK
<1>3. HeadStart \in Nat
  BY Lineups, WatcherAssumption DEF HeadStart
<1>4. PlayerOK'
  <2>1. ASSUME NEW items \in PlayQueues,
               NEW at \in IF {k \in DOMAIN items : items[k] = 1} = {} THEN {1}
                          ELSE {k \in DOMAIN items : items[k] = 1},
               player' = [items |-> items, at |-> at, old |-> 0, queue |-> sitting,
                          pos |-> AtMost(HeadStart, FileAt(items[at]))]
        PROVE  PlayerOK'
    <3>1. items \in Seq(Places) /\ items # <<>>
      BY WatcherAssumption
    <3>2. at \in DOMAIN items /\ at \in Nat /\ items[at] \in Places
      BY <3>1
    <3>3. AtMost(HeadStart, FileAt(items[at])) \in Nat
      BY <1>3, <3>2, Lineups, Cut
    <3>4. items \in Seq(Places \union {0})
      BY <3>1
    <3>5. player' \in Players /\ player'.items = items /\ player'.at = at
      BY <1>1, <2>1, <3>2, <3>3, <3>4 DEF Players, SessionOK
    <3> QED BY <3>2, <3>5 DEF PlayerOK
  <2> QED BY <1>1, <2>1, Frames DEF Handoff, Remember
<1> QED BY <1>2, <1>4, Aside DEF Handoff, Remember

\* A sitting that begins has no watcher yet.
LEMMA StepStartSitting ==
  ASSUME IndInv, StartSitting
  PROVE  IndInv' /\ ActedStep /\ SilentStep
<1>1. SessionOK /\ sitting < MaxSittings
  BY Types DEF IndInv, StartSitting
<1>2. sitting + 1 \in 0..MaxSittings
  BY <1>1, WatcherAssumption DEF SessionOK
<1>3. SessionOK'
  BY <1>1, <1>2 DEF StartSitting, SessionOK
<1>4. WatchOK' /\ NeverDeaf'
  BY Stopping DEF StartSitting
<1>5. TypeOK'
  BY <1>3, <1>4, Types, TypesNext, Frames DEF IndInv, StartSitting
<1>6. Marked' /\ ActedStep /\ SilentStep
  BY MarksStay DEF IndInv, StartSitting, ActedStep, SilentStep, reads
<1> QED BY <1>4, <1>5, <1>6 DEF IndInv

\* A plan is of its type, its windows before the item's end.
LEMMA PlanIsTyped ==
  /\ DOMAIN SectionPlan \subseteq Places
  /\ SectionPlan \in [DOMAIN SectionPlan -> Rows]
  /\ \A i \in DOMAIN SectionPlan : SectionPlan[i].attempts < Attempts
  /\ ResumePlan \subseteq Files
<1>1. \A i \in Places : PlannedStart(i) \in Nat /\ PlannedEnd(i) \in Nat
  BY WatcherAssumption DEF PlannedStart, PlannedEnd
<1>2. 0 \in 0..Attempts /\ 0 < Attempts
  BY WatcherAssumption
<1>3. ResumePlan \subseteq Files
  BY Lineups DEF ResumePlan
<1>4. \A i \in Places : Lineup[i] \in Files
  BY Lineups
<1> QED BY <1>1, <1>2, <1>3, <1>4 DEF SectionPlan, Rows

\* Arming starts with nothing sought, and a watcher where there is a plan.
LEMMA StepArm ==
  ASSUME IndInv, Arm
  PROVE  IndInv' /\ ActedStep /\ SilentStep
<1>1. SessionOK' /\ PlayerOK' /\ ReadsOK'
  BY Types, Frames DEF IndInv, Arm, SessionOK
<1>2. WatchOK' /\ NeverDeaf'
  <2>1. sitting \in 0..MaxSittings /\ 0 \in 0..MaxSittings
    BY Types, WatcherAssumption DEF IndInv, SessionOK
  <2>2. current' \in {0, sitting} /\ timer' = (current' # 0) /\ lastPushed' = ""
    BY DEF Arm
  <2>3. WatchOK'
    BY <2>1, <2>2 DEF WatchOK
  <2> QED BY <2>2, <2>3 DEF NeverDeaf
<1>3. PlansOK' /\ TriesLeft'
  BY PlanIsTyped DEF Arm, PlansOK, RowsOK, NoRows, TriesLeft
<1>4. ActsAreMarked' /\ SectionOwnsItem'
  BY DEF Arm, ActsAreMarked, SectionOwnsItem
<1> QED BY <1>1, <1>2, <1>3, <1>4, TypesNext DEF IndInv, Marked, Arm, ActedStep, SilentStep, reads

\* A preparation that fails leaves neither plan nor watcher.
LEMMA StepFail ==
  ASSUME IndInv, Fail
  PROVE  IndInv' /\ ActedStep /\ SilentStep
<1>1. SessionOK' /\ PlayerOK' /\ ReadsOK'
  BY Types, Frames, WatcherAssumption DEF IndInv, Fail, SessionOK
<1>2. WatchOK' /\ NeverDeaf'
  BY Stopping DEF Fail
<1>3. PlansOK' /\ TriesLeft'
  BY Types DEF IndInv, Fail, PlansOK, RowsOK, NoRows, TriesLeft
<1>4. ActsAreMarked' /\ SectionOwnsItem'
  BY DEF Fail, ActsAreMarked, SectionOwnsItem
<1> QED BY <1>1, <1>2, <1>3, <1>4, TypesNext DEF IndInv, Marked, Fail, ActedStep, SilentStep, reads

----------------------------------------------------------------------------
(* The watcher's reads.                                                    *)

\* A timer or a push starts a read, joins the one under way or, when nothing is
\* pending, stops the watcher: it is never left with neither.
LEMMA StepWoken ==
  ASSUME IndInv, NEW w \in Sittings, TimerFires(w) \/ Pushed(w)
  PROVE  IndInv' /\ ActedStep /\ SilentStep
<1>1. SessionOK /\ PlayerOK /\ WatchOK /\ PlansOK /\ ReadsOK
  BY Types DEF IndInv
<1>2. current = w /\ UNCHANGED <<session, player, plans, local, sought>>
  BY DEF TimerFires, Pushed, IsCurrent
<1>3. UNCHANGED phase \/ (phase[w] = "none" /\ Goto(w, "fetch"))
  BY DEF TimerFires, Pushed, StartRead, FindsNothing
<1>4. WatchOK' /\ NeverDeaf'
  <2>1. CASE StopWatch
    BY <2>1, Stopping
  <2>2. CASE StartRead(w) /\ UNCHANGED current
    <3>1. phase'[w] # "none"
      BY <1>1, <2>2, Going DEF StartRead, Phases
    <3>2. (timer' = FALSE /\ UNCHANGED lastPushed)
            \/ (lastPushed' = Playing /\ player.at # 0 /\ UNCHANGED timer)
            \/ StopWatch
      BY DEF TimerFires, Pushed, FindsNothing
    <3>3. player.at # 0 => Playing \in Files
      BY <1>1, OnScreen
    <3>4. WatchOK'
      BY <1>1, <2>2, <3>2, <3>3, Stopping DEF WatchOK
    <3> QED BY <1>2, <2>2, <3>1, <3>4 DEF NeverDeaf
  <2> QED BY <2>1, <2>2 DEF TimerFires, Pushed, FindsNothing
<1>5. ReadsOK' /\ ActedStep /\ SilentStep
  BY <1>1, <1>2, <1>3, Going DEF ReadsOK, ActedStep, SilentStep, Phases
<1> QED BY <1>1, <1>2, <1>4, <1>5, TypesNext, Frames, MarksStay DEF IndInv

\* A read goes on to its next await, and only the current watcher's moves the
\* player.
LEMMA MidRead ==
  ASSUME IndInv, NEW w \in Sittings, NEW where \in Phases \ {"none", "seek", "next"},
         Goto(w, where), local' \in [Sittings -> Readings], PlayerOK',
         UNCHANGED <<session, watch, plans, sought>>, w = current \/ UNCHANGED player
  PROVE  IndInv' /\ ActedStep /\ SilentStep
<1>1. ReadsOK
  BY Types DEF IndInv
<1>2. /\ phase' \in [Sittings -> Phases] /\ phase'[w] = where
      /\ \A v \in Sittings \ {w} : phase'[v] = phase[v]
  BY <1>1, Going
<1>3. TypeOK'
  BY <1>2, Types, TypesNext, Frames DEF IndInv, ReadsOK
<1>4. NeverDeaf'
  <2>1. UNCHANGED <<current, timer>>
    BY DEF watch
  <2>2. current # 0 => current \in Sittings
    BY Types, Currents DEF IndInv
  <2> QED BY <1>2, <2>1, <2>2 DEF IndInv, NeverDeaf
<1> QED BY <1>2, <1>3, <1>4, MarksStay DEF IndInv, ActedStep, SilentStep

LEMMA StepFetch ==
  ASSUME IndInv, NEW w \in Sittings, FetchSession(w) \/ FetchPlace(w) \/ AskPlace(w)
  PROVE  IndInv' /\ ActedStep /\ SilentStep
<1>1. PlayerOK /\ ReadsOK /\ PlayerOK'
  BY Types, Frames DEF IndInv, FetchSession, FetchPlace, AskPlace
<1>2. local' \in [Sittings -> Readings]
  <2>1. CASE FetchSession(w)
    <3>1. NoRead \in Readings
      BY DEF NoRead, Readings
    <3>2. ASSUME player.at # 0, NEW pos \in {player.pos} \union ({player.old} \ {0})
          PROVE  [NoRead EXCEPT !.file = Playing, !.pos = pos] \in Readings
      <4>1. Playing \in Files /\ pos \in Nat
        BY <1>1, <3>2, OnScreen DEF PlayerOK, Players
      <4> QED BY <4>1 DEF NoRead, Readings
    <3> QED BY <1>1, <2>1, <3>1, <3>2 DEF FetchSession, ReadsOK
  <2>2. CASE FetchPlace(w)
    <3>1. Selected(w) \in Places \union {0}
      BY DEF Selected
    <3>2. PICK place \in Places \union {0} : local' = [local EXCEPT ![w].place = place]
      BY <2>2, <3>1 DEF FetchPlace
    <3> QED BY <1>1, <3>2 DEF ReadsOK, Readings
  <2>3. CASE AskPlace(w)
    BY <1>1, <2>3 DEF AskPlace, ReadsOK
  <2> QED BY <2>1, <2>2, <2>3
<1> QED BY <1>1, <1>2, MidRead DEF FetchSession, FetchPlace, AskPlace, Phases

\* What was decided is sent by the watcher only while it is the current one.
LEMMA StepSend ==
  ASSUME IndInv, NEW w \in Sittings, SeekTo(w) \/ SkipNext(w)
  PROVE  IndInv' /\ ActedStep /\ SilentStep
<1>1. PlayerOK /\ ReadsOK
  BY Types DEF IndInv
<1>2. w = current \/ UNCHANGED player
  BY DEF SeekTo, SkipNext, IsCurrent
<1>3. PlayerOK'
  <2>1. CASE UNCHANGED player
    BY <1>1, <2>1, Frames
  <2>2. CASE ToNext
    BY <1>1, <2>2, NextShown
  <2>3. ASSUME player.at # 0, Show(player.at, AtMost(local[w].ms, Playing), 0)
        PROVE  PlayerOK'
    <3>1. player.at \in DOMAIN player.items \union {0} /\ local[w].ms \in Nat
      BY <1>1 DEF PlayerOK, ReadsOK, Readings
    <3>2. AtMost(local[w].ms, Playing) \in Nat
      BY <1>1, <2>3, <3>1, OnScreen, Cut
    <3> QED BY <1>1, <2>3, <3>1, <3>2, Showing
  <2> QED BY <2>1, <2>2, <2>3 DEF SeekTo, SkipNext
<1>4. local' \in [Sittings -> Readings]
  BY <1>1 DEF SeekTo, SkipNext, ReadsOK
<1> QED BY <1>2, <1>3, <1>4, MidRead DEF SeekTo, SkipNext, Phases

\* A replaced watcher's read ends with nothing said.
LEMMA StepGiveWay ==
  ASSUME IndInv, NEW w \in Sittings, GiveWay(w)
  PROVE  IndInv' /\ ActedStep /\ SilentStep
<1>1. ReadsOK /\ current # w /\ NoRead \in Readings
  BY Types DEF IndInv, GiveWay, IsCurrent, NoRead, Readings
<1>2. /\ phase' \in [Sittings -> Phases] /\ phase'[w] = "none"
      /\ \A v \in Sittings \ {w} : phase'[v] = phase[v]
  BY <1>1, Going DEF GiveWay, Phases
<1>3. local' \in [Sittings -> Readings]
  BY <1>1 DEF GiveWay, ReadsOK
<1>4. UNCHANGED <<session, player, watch, plans, sought>>
  BY DEF GiveWay
<1>5. NeverDeaf'
  <2>1. UNCHANGED <<current, timer>>
    BY <1>4 DEF watch
  <2>2. current # 0 => current \in Sittings
    BY Types, Currents DEF IndInv
  <2> QED BY <1>1, <1>2, <2>1, <2>2 DEF IndInv, NeverDeaf
<1> QED BY <1>2, <1>3, <1>4, <1>5, Types, TypesNext, Frames, MarksStay
        DEF IndInv, ActedStep, SilentStep, ReadsOK

\* A read that ends with nothing to send, whatever it noted in the plans.
LEMMA Settling ==
  ASSUME IndInv, NEW w \in Sittings, current = w, Finish(w),
         UNCHANGED <<session, player>>, PlansOK', Marked'
  PROVE  IndInv' /\ ActedStep /\ SilentStep
<1>1. /\ WatchOK' /\ ReadsOK' /\ NeverDeaf'
      /\ phase'[w] = "none" /\ \A v \in Sittings \ {w} : phase'[v] = phase[v]
  BY Types, Finishing DEF IndInv
<1> QED BY <1>1, Types, TypesNext, Frames DEF IndInv, ActedStep, SilentStep

\* A read that decides to seek or to stop, for the first time.
LEMMA Acting ==
  ASSUME IndInv, NEW w \in Sittings, current = w, NEW where \in {"seek", "next"},
         NEW ms \in Nat, NEW what, what \notin sought, Act(w, where, ms, what),
         UNCHANGED <<session, player>>, PlansOK', Marked'
  PROVE  IndInv' /\ ActedStep /\ SilentStep
<1>1. ReadsOK
  BY Types DEF IndInv
<1>2. /\ phase' \in [Sittings -> Phases] /\ phase'[w] = where
      /\ \A v \in Sittings \ {w} : phase'[v] = phase[v]
  BY <1>1, Going DEF Act, Phases
<1>3. local' \in [Sittings -> Readings]
  BY <1>1 DEF Act, ReadsOK, Readings
<1>4. TypeOK'
  BY <1>2, <1>3, Types, TypesNext, Frames DEF IndInv, Act, ReadsOK
<1>5. NeverDeaf'
  BY <1>2 DEF Act, watch, NeverDeaf
<1>6. sought' # sought
  BY DEF Act
<1> QED BY <1>2, <1>4, <1>5, <1>6 DEF IndInv, ActedStep, SilentStep

----------------------------------------------------------------------------
(* The decision.                                                           *)

\* A row that is replaced by one at least as far along, of the same file, with
\* the rows before it retired, leaves a plan that is at least as far along.
LEMMA RowSet ==
  ASSUME RowsOK, TriesLeft, NEW i \in DOMAIN rows, NEW row \in Rows, SetRow(i, row),
         row.file = rows[i].file, ~row.isStartDone => row.attempts < Attempts,
         rows[i].isStartDone => row.isStartDone, rows[i].isDone => row.isDone
  PROVE  /\ RowsOK' /\ TriesLeft' /\ DOMAIN rows' = DOMAIN rows /\ rows'[i] = row
         /\ \A j \in DOMAIN rows : /\ rows'[j].file = rows[j].file
                                   /\ rows[j].isStartDone => rows'[j].isStartDone
                                   /\ rows[j].isDone => rows'[j].isDone
<1>1. DOMAIN rows' = DOMAIN rows /\ rows' = [j \in DOMAIN rows |-> rows'[j]]
  BY DEF SetRow
<1>2. ASSUME NEW j \in DOMAIN rows
      PROVE  /\ rows'[j] \in Rows /\ rows'[j].file = rows[j].file
             /\ rows[j].isStartDone => rows'[j].isStartDone
             /\ rows[j].isDone => rows'[j].isDone
             /\ ~rows'[j].isStartDone => rows'[j].attempts < Attempts
  <2>1. rows[j] \in Rows
    BY DEF RowsOK
  <2>2. CASE j = i
    BY <2>2 DEF SetRow
  <2>3. CASE rows'[j] = rows[j]
    BY <2>1, <2>3 DEF TriesLeft
  <2>4. CASE rows'[j] = [rows[j] EXCEPT !.isDone = TRUE, !.isStartDone = TRUE]
    BY <2>1, <2>4 DEF Rows
  <2> QED BY <2>2, <2>3, <2>4 DEF SetRow
<1>3. rows'[i] = row
  BY DEF SetRow
<1> QED BY <1>1, <1>2, <1>3 DEF RowsOK, TriesLeft

\* What is located is a row that is not done, of the file that was read.
LEMMA Locating ==
  ASSUME NEW w, NEW i \in Located(w)
  PROVE  i \in DOMAIN rows /\ ~rows[i].isDone /\ rows[i].file = local[w].file
<1>1. Located(w) \subseteq Candidates(local[w].file)
  BY DEF Located
<1> QED BY <1>1 DEF Candidates, PendingRows

\* A step of the section plan that seeks or stops at most the row it marks.
LEMMA RowActs ==
  ASSUME IndInv, NEW i \in DOMAIN rows, NEW row \in Rows, SetRow(i, row),
         row.file = rows[i].file, ~row.isStartDone => row.attempts < Attempts,
         rows[i].isStartDone => row.isStartDone, rows[i].isDone => row.isDone,
         UNCHANGED <<markers, seen>>, DOMAIN boundaries' \subseteq Files,
         \/ sought' = sought
         \/ sought' = sought \union {<<"start", i>>} /\ row.isStartDone
         \/ sought' = sought \union {<<"end", i>>} /\ row.isDone
  PROVE  PlansOK' /\ Marked'
<1>1. PlansOK /\ TriesLeft /\ ActsAreMarked /\ SectionOwnsItem
  BY Types DEF IndInv, Marked
<1>2. /\ RowsOK' /\ TriesLeft' /\ DOMAIN rows' = DOMAIN rows /\ rows'[i] = row
      /\ \A j \in DOMAIN rows : /\ rows'[j].file = rows[j].file
                                /\ rows[j].isStartDone => rows'[j].isStartDone
                                /\ rows[j].isDone => rows'[j].isDone
  BY <1>1, RowSet DEF PlansOK
<1>3. PlansOK'
  BY <1>1, <1>2 DEF PlansOK
<1>4. sought' \subseteq sought \union {<<"start", i>>, <<"end", i>>}
  OBVIOUS
<1>5. \A f : <<"resume", f>> \in sought' => <<"resume", f>> \in sought
  BY <1>4
<1>6. \A j : /\ <<"start", j>> \in sought' => <<"start", j>> \in sought \/ (j = i /\ row.isStartDone)
             /\ <<"end", j>> \in sought' => <<"end", j>> \in sought \/ (j = i /\ row.isDone)
  OBVIOUS
<1>7. ActsAreMarked'
  BY <1>1, <1>2, <1>5, <1>6 DEF ActsAreMarked
<1>8. SectionOwnsItem'
  BY <1>1, <1>2, <1>5 DEF SectionOwnsItem
<1> QED BY <1>2, <1>3, <1>7, <1>8 DEF Marked

LEMMA StepConsiderSection ==
  ASSUME IndInv, NEW w \in Sittings, ConsiderSection(w)
  PROVE  IndInv' /\ ActedStep /\ SilentStep
<1>1. current = w /\ UNCHANGED <<session, player, markers, seen>>
  BY DEF ConsiderSection, Decides, IsCurrent
<1>2. PICK i \in Located(w) :
        SeekStart(w, i) \/ DeclineStart(w, i) \/ StopAtEnd(w, i) \/ WaitForEnd(w, i)
  BY DEF ConsiderSection
<1>3. i \in DOMAIN rows /\ ~rows[i].isDone
  BY Locating
<1>4. PlansOK /\ TriesLeft /\ ActsAreMarked
  BY Types DEF IndInv, Marked
<1>5. rows[i] \in Rows /\ i \in Places
  BY <1>3, <1>4 DEF PlansOK, RowsOK
<1>6. /\ rows[i].file \in Files /\ rows[i].start \in Nat /\ rows[i].attempts \in Nat
      /\ rows[i].isStartDone \in BOOLEAN
  BY <1>5 DEF Rows
<1>7. ~rows[i].isStartDone => <<"start", i>> \notin sought
  BY <1>4, <1>5 DEF ActsAreMarked
<1>8. <<"end", i>> \notin sought
  BY <1>3, <1>4, <1>5 DEF ActsAreMarked
<1>9. DOMAIN boundaries \subseteq Files
  BY <1>4 DEF PlansOK
<1>10. /\ StartDone(i) \in Rows /\ StartDone(i).isStartDone
       /\ StartDone(i).file = rows[i].file
  BY <1>5 DEF StartDone, Rows
<1>11. CASE SeekStart(w, i)
  <2>1. /\ SetRow(i, StartDone(i)) /\ Act(w, "seek", rows[i].start, <<"start", i>>)
        /\ UNCHANGED boundaries /\ ~rows[i].isStartDone
    BY <1>11 DEF SeekStart
  <2>2. sought' = sought \union {<<"start", i>>}
    BY <2>1 DEF Act
  <2>3. PlansOK' /\ Marked'
    BY <1>1, <1>3, <1>9, <1>10, <2>1, <2>2, RowActs
  <2> QED BY <1>1, <1>6, <1>7, <2>1, <2>3, Acting
<1>12. CASE DeclineStart(w, i)
  <2> DEFINE tried == rows[i].attempts + 1
             row == IF tried < Attempts THEN [rows[i] EXCEPT !.attempts = tried]
                                        ELSE [StartDone(i) EXCEPT !.attempts = tried]
  <2>1. ~rows[i].isStartDone /\ SetRow(i, row) /\ UNCHANGED boundaries
    BY <1>12 DEF DeclineStart
  <2>2. Finish(w) /\ UNCHANGED sought
    BY <1>12 DEF DeclineStart, Settled
  <2>3. rows[i].attempts < Attempts
    BY <1>3, <1>4, <2>1 DEF TriesLeft
  <2>4. tried \in 0..Attempts
    BY <1>6, <2>3, WatcherAssumption
  <2>5. /\ row \in Rows /\ row.file = rows[i].file
        /\ ~row.isStartDone => row.attempts < Attempts
    <3>1. CASE tried < Attempts
      <4> DEFINE later == [rows[i] EXCEPT !.attempts = tried]
      <4>1. later \in Rows /\ later.file = rows[i].file /\ later.attempts = tried
        BY <1>5, <2>4 DEF Rows
      <4>2. row = later
        BY <3>1
      <4> QED BY <3>1, <4>1, <4>2
    <3>2. CASE ~(tried < Attempts)
      <4> DEFINE spent == [StartDone(i) EXCEPT !.attempts = tried]
      <4>1. spent \in Rows /\ spent.file = rows[i].file /\ spent.isStartDone
        BY <1>10, <2>4 DEF Rows
      <4>2. row = spent
        BY <3>2
      <4> QED BY <4>1, <4>2
    <3> QED BY <3>1, <3>2
  <2> HIDE DEF row
  <2>6. PlansOK' /\ Marked'
    BY <1>1, <1>3, <1>9, <2>1, <2>2, <2>5, RowActs
  <2> QED BY <1>1, <2>2, <2>6, Settling
<1>13. CASE StopAtEnd(w, i)
  <2> DEFINE row == [rows[i] EXCEPT !.isDone = TRUE]
  <2>1. /\ SetRow(i, row) /\ Act(w, "next", 0, <<"end", i>>) /\ rows[i].isStartDone
        /\ DOMAIN boundaries' = DOMAIN boundaries \union {rows[i].file}
    BY <1>13 DEF StopAtEnd
  <2>2. /\ row \in Rows /\ row.file = rows[i].file /\ row.isDone
        /\ row.isStartDone = rows[i].isStartDone
    BY <1>5 DEF Rows
  <2> HIDE DEF row
  <2>3. sought' = sought \union {<<"end", i>>}
    BY <2>1 DEF Act
  <2>4. DOMAIN boundaries' \subseteq Files
    BY <1>6, <1>9, <2>1
  <2>5. PlansOK' /\ Marked'
    BY <1>1, <1>3, <2>1, <2>2, <2>3, <2>4, RowActs
  <2> QED BY <1>1, <1>8, <2>1, <2>5, Acting
<1>14. CASE WaitForEnd(w, i)
  <2> DEFINE row == [rows[i] EXCEPT !.isDone = (rows[i].end = 0)]
  <2>1. SetRow(i, row) /\ rows[i].isStartDone /\ UNCHANGED boundaries
    BY <1>14 DEF WaitForEnd
  <2>2. Finish(w) /\ UNCHANGED sought
    BY <1>14 DEF WaitForEnd, Settled
  <2>3. /\ row \in Rows /\ row.file = rows[i].file
        /\ row.isStartDone = rows[i].isStartDone
    BY <1>5 DEF Rows
  <2> HIDE DEF row
  <2>4. PlansOK' /\ Marked'
    BY <1>1, <1>3, <1>9, <2>1, <2>2, <2>3, RowActs
  <2> QED BY <1>1, <2>2, <2>4, Settling
<1> QED BY <1>2, <1>11, <1>12, <1>13, <1>14

\* An item the section plan owns is left to it.
LEMMA StepOwnedQuietly ==
  ASSUME IndInv, NEW w \in Sittings, OwnedQuietly(w)
  PROVE  IndInv' /\ ActedStep /\ SilentStep
<1>1. current = w /\ Finish(w) /\ UNCHANGED <<session, player, plans, sought>>
  BY DEF OwnedQuietly, Decides, IsCurrent, Settled
<1>2. PlansOK' /\ Marked'
  BY <1>1, Types, Frames, MarksStay DEF IndInv
<1> QED BY <1>1, <1>2, Settling

\* The resume plan seeks a file once, and none that the lineup windows.
LEMMA StepConsiderSession ==
  ASSUME IndInv, NEW w \in Sittings, ConsiderSession(w)
  PROVE  IndInv' /\ ActedStep /\ SilentStep
<1> DEFINE f == local[w].file
           settle == f # "" /\ f \notin seen /\ (f \in markers => local[w].pos <= StartWindow)
<1>1. /\ current = w /\ ~IsWindowed(f)
      /\ UNCHANGED <<session, player, markers, rows, boundaries>>
      /\ seen' = IF settle THEN seen \union {f} ELSE seen
      /\ \/ settle /\ f \in markers /\ Act(w, "seek", Marker[f], <<"resume", f>>)
         \/ Settled(w)
  BY DEF ConsiderSession, Decides, IsCurrent
<1>2. PlansOK /\ ReadsOK /\ TriesLeft /\ ActsAreMarked /\ SectionOwnsItem
  BY Types DEF IndInv, Marked
<1>3. f \in Files \union {""} /\ seen' \subseteq Files /\ seen \subseteq seen'
  BY <1>1, <1>2 DEF ReadsOK, Readings, PlansOK
<1>4. PlansOK' /\ TriesLeft'
  BY <1>1, <1>2, <1>3 DEF PlansOK, RowsOK, TriesLeft
<1>5. CASE settle /\ f \in markers /\ Act(w, "seek", Marker[f], <<"resume", f>>)
  <2>1. sought' = sought \union {<<"resume", f>>} /\ f \in seen' /\ f \in Files
    BY <1>1, <1>2, <1>5 DEF Act, PlansOK
  <2>2. <<"resume", f>> \notin sought
    BY <1>2, <1>5, <2>1 DEF ActsAreMarked
  <2>3. ActsAreMarked'
    BY <1>1, <1>2, <1>3, <2>1 DEF ActsAreMarked
  <2>4. SectionOwnsItem'
    BY <1>1, <1>2, <2>1 DEF SectionOwnsItem, IsWindowed
  <2>5. Marker[f] \in Nat
    BY <2>1, WatcherAssumption
  <2> QED BY <1>1, <1>4, <1>5, <2>2, <2>3, <2>4, <2>5, Acting DEF Marked
<1>6. CASE Settled(w)
  <2>1. Finish(w) /\ UNCHANGED sought
    BY <1>6 DEF Settled
  <2>2. ActsAreMarked' /\ SectionOwnsItem'
    BY <1>1, <1>2, <1>3, <2>1 DEF ActsAreMarked, SectionOwnsItem
  <2> QED BY <1>1, <1>4, <2>1, <2>2, Settling DEF Marked
<1> QED BY <1>1, <1>5, <1>6

\* The answer to what was sent ends the read.
LEMMA StepAnswered ==
  ASSUME IndInv, NEW w \in Sittings, Answered(w)
  PROVE  IndInv' /\ ActedStep /\ SilentStep
<1>1. current = w /\ Finish(w) /\ UNCHANGED <<session, player, plans, sought>>
  BY DEF Answered, IsCurrent
<1>2. PlansOK' /\ Marked'
  BY <1>1, Types, Frames, MarksStay DEF IndInv
<1> QED BY <1>1, <1>2, Settling

----------------------------------------------------------------------------
(* The theorems.                                                           *)

LEMMA Step == IndInv /\ [Next]_vars => IndInv' /\ ActedStep /\ SilentStep
<1> SUFFICES ASSUME IndInv, [Next]_vars PROVE IndInv' /\ ActedStep /\ SilentStep
  OBVIOUS
<1>1. ASSUME NEW w \in Sittings, Read(w) PROVE IndInv' /\ ActedStep /\ SilentStep
  BY <1>1, StepFetch, StepGiveWay, StepConsiderSection, StepOwnedQuietly,
     StepConsiderSession, StepSend, StepAnswered DEF Read
<1>2. CASE UNCHANGED vars
  <2>1. UNCHANGED <<session, player, watch, plans, reads, sought>>
    BY <1>2 DEF vars
  <2>2. SessionOK' /\ PlayerOK'
    BY <2>1, Types, Frames DEF IndInv
  <2> QED BY <2>1, <2>2, Aside
<1> QED BY <1>1, <1>2, StepPlayerMoves, StepAddNext, StepStartSitting, StepArm, StepHandoff, StepFail,
           StepWoken DEF Next

LEMMA Initially == Init => IndInv
<1> SUFFICES ASSUME Init PROVE IndInv
  OBVIOUS
<1>1. 0 \in 0..MaxSittings
  BY WatcherAssumption
<1>2. SessionOK /\ WatchOK /\ NeverDeaf
  BY <1>1 DEF Init, SessionOK, WatchOK, NeverDeaf
<1>6. PlayerOK
  <2>1. Idle \in Players /\ Idle.at = 0
    BY <1>1 DEF Idle, Players
  <2> QED BY <2>1 DEF Init, PlayerOK
<1>3. PlansOK /\ Marked
  BY DEF Init, PlansOK, RowsOK, NoRows, Marked, TriesLeft, ActsAreMarked, SectionOwnsItem
<1>4. NoRead \in Readings
  BY DEF NoRead, Readings
<1>5. ReadsOK
  BY <1>4 DEF Init, ReadsOK, Phases
<1> QED BY <1>2, <1>3, <1>5, <1>6, Types DEF IndInv

\* The watcher, its reads and what it sought agree with the two plans through
\* every interleaving of the viewer, the player, newer starts and slow answers
\* (resume.ts read, section.ts consider).
THEOREM Invariance == Spec => []IndInv
<1> QED BY Initially, Step, PTL DEF Spec

\* A watcher that has not stopped has a read booked or under way (resume.ts).
THEOREM WatcherHears == Spec => []NeverDeaf
BY Invariance, PTL DEF IndInv

\* A file that the lineup windows is never sought to its resume marker
\* (resume.ts isSpent, section.ts).
THEOREM SectionOwns == Spec => []SectionOwnsItem
BY Invariance, PTL DEF IndInv, Marked

\* A mark moves the player at most once in a sitting (section.ts consider,
\* resume.ts considerSession).
THEOREM ActsOnce == Spec => ActedOnce
<1>1. IndInv /\ [Next]_vars => [ActedStep]_vars
  BY Step
<1>2. Spec => [][ActedStep]_vars
  BY <1>1, Invariance, PTL DEF Spec
<1> QED BY <1>2 DEF ActedOnce, ActedStep

\* A replaced watcher touches neither the player nor its successor's state
\* (resume.ts isCurrent).
THEOREM ReplacedIsSilent == Spec => ReplacedWatcherSilent
<1>1. IndInv /\ [Next]_vars => [SilentStep]_vars
  BY Step
<1>2. Spec => [][SilentStep]_vars
  BY <1>1, Invariance, PTL DEF Spec
<1> QED BY <1>2 DEF ReplacedWatcherSilent, SilentStep
=============================================================================
