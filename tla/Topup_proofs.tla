---------------------------- MODULE Topup_proofs ----------------------------
(***************************************************************************)
(* Proofs about Topup for every finite set of items, every window,         *)
(* cooldown and target, any number of commands and of sittings.            *)
(***************************************************************************)
EXTENDS Topup, FiniteSetTheorems, SequenceTheorems, TLAPS

TickRecords == [now : 0..MaxClock + 1, sitting : 0..MaxSittings, total : Nat,
                live : PlayQueues, slice : RowLists, sizeAfter : Nat \union {NoSize}]
TickPhases == {"idle", "account", "read", "build", "extend", "answer", "gone"}

\* TypeOK in the parts the actions leave alone together.
SessionOK ==
  /\ clock \in 1..MaxClock + 1 /\ sittingId \in 0..MaxSittings
  /\ isPreparing \in BOOLEAN /\ isLive \in BOOLEAN
  /\ queuedTotal \in Nat /\ lastTopup \in 0..MaxClock + 1
HistoryOK ==
  /\ handed \in Nat /\ repeated \in [Sittings -> Nat]
  /\ landed \in Seq(Nat) /\ overlapped \in BOOLEAN
QueuesOK == queue \in [Sittings -> PlayQueues]
TicksOK == phase \in [Tickers -> TickPhases] /\ tick \in [Tickers -> TickRecords]

\* The ticks under way.
Active == {t \in Tickers : phase[t] \notin {"idle", "gone"}}

\* What is prepared or live was begun, and a tick works for a sitting that was
\* live when it woke.
TickHasSitting ==
  /\ isPreparing \/ isLive => sittingId # 0
  /\ \A t \in Active : /\ tick[t].sitting \in 1..sittingId /\ tick[t].now # 0
                       /\ isPreparing => tick[t].sitting # sittingId

\* As long as no two ticks were ever under way for one sitting, none are.
OneTick == \A t, u \in Active : tick[t].sitting = tick[u].sitting => t = u

\* What tick t knows of the playQueue of its sitting while nobody else appends:
\* before it builds, what it read, but for the viewer's place; before it sends,
\* the size it read, and that its slice is new and fits the window.
KnowsQueue(t) ==
  LET q == queue[tick[t].sitting]
  IN  /\ phase[t] = "build" =>
           /\ tick[t].live.held = q.held /\ tick[t].live.size = q.size
           /\ tick[t].live.offset <= q.offset
      /\ phase[t] = "extend" =>
           /\ tick[t].slice.items \cap q.held = {} /\ tick[t].live.size = q.size
           /\ Rows(tick[t].slice) + Remaining(q) <= Window

\* What tick t will do to the session if it lands: its growth was handed out
\* and counted nowhere yet, and the cooldown was over when it woke.
MayLand(t) ==
  ~Replaced(t) =>
    /\ phase[t] = "answer" => queuedTotal + Growth(t) <= handed
    /\ t \in Active => (lastTopup = 0 \/ tick[t].now - lastTopup >= Cooldown)

\* The cooldown runs from the last top-up that landed.
LastLanded == landed # <<>> => lastTopup # 0 /\ landed[Len(landed)] = lastTopup

Alone ==
  ~overlapped => /\ OneTick /\ LastLanded
                 /\ \A t \in Tickers : KnowsQueue(t) /\ MayLand(t)

IndInv ==
  /\ TypeOK /\ TickHasSitting /\ Alone
  /\ NothingAddedAgain /\ WithinWindow /\ CountsOnlyHanded /\ CooldownApart

\* What ReplacedTickIsSilent says of a step.
SilentStep ==
  \A t \in Tickers :
    phase'[t] # phase[t] /\ Replaced(t) /\ phase[t] # "idle" => UNCHANGED <<sitting, lastTopup>>

----------------------------------------------------------------------------
(* The types, and the sizes of playQueues.                                 *)

LEMMA Types == TypeOK <=> SessionOK /\ HistoryOK /\ QueuesOK /\ TicksOK
  BY DEF TypeOK, SessionOK, HistoryOK, QueuesOK, TicksOK, TickRecords, TickPhases

LEMMA TypesNext == TypeOK' <=> SessionOK' /\ HistoryOK' /\ QueuesOK' /\ TicksOK'
  BY DEF TypeOK, SessionOK, HistoryOK, QueuesOK, TicksOK, TickRecords, TickPhases

\* The bounds and settings are numbers; a window is not empty.
LEMMA Settings ==
  /\ Window \in Nat /\ Window # 0 /\ Cooldown \in Nat /\ Target \in Nat /\ At \in Nat
  /\ MaxSittings \in Nat /\ MaxClock \in Nat
  BY TopupAssumption

\* Sets of items are finite: they have a size, and disjoint ones add up.
LEMMA Sizes ==
  /\ \A S \in SUBSET Items : IsFiniteSet(S) /\ Cardinality(S) \in Nat
  /\ \A S \in SUBSET Items : \A T \in SUBSET S : Cardinality(T) <= Cardinality(S)
  /\ \A S, T \in SUBSET Items :
       S \cap T = {} => Cardinality(S \union T) = Cardinality(S) + Cardinality(T)
  /\ Cardinality({}) = 0
<1>1. \A S \in SUBSET Items : IsFiniteSet(S)
  BY TopupAssumption, FS_Subset
<1>2. \A S \in SUBSET Items : Cardinality(S) \in Nat
  BY <1>1, FS_CardinalityType
<1>3. \A S \in SUBSET Items : \A T \in SUBSET S : Cardinality(T) <= Cardinality(S)
  BY <1>1, FS_Subset
<1>4. ASSUME NEW S \in SUBSET Items, NEW T \in SUBSET Items, S \cap T = {}
      PROVE  Cardinality(S \union T) = Cardinality(S) + Cardinality(T)
  <2>1. Cardinality(S \union T) = Cardinality(S) + Cardinality(T) - Cardinality({})
    BY <1>1, <1>4, FS_Union
  <2> QED BY <1>2, <2>1, FS_EmptySet
<1> QED BY <1>1, <1>2, <1>3, <1>4, FS_EmptySet

\* A lineup has a row for each item and each repeat; what Plex keeps of it are
\* items and repeats of it, no more rows.
LEMMA RowsOf ==
  ASSUME NEW list \in RowLists
  PROVE  /\ list.items \in SUBSET Items /\ list.repeats \in Nat
         /\ Cardinality(list.items) \in Nat
         /\ Rows(list) = Cardinality(list.items) + list.repeats /\ Rows(list) \in Nat
  BY Sizes DEF RowLists, Rows

LEMMA KeptOf ==
  ASSUME NEW list \in RowLists, NEW part \in Kept(list)
  PROVE  /\ part \in RowLists /\ part.items \subseteq list.items
         /\ part.repeats <= list.repeats /\ Rows(part) <= Rows(list)
<1>1. part \in RowLists /\ part.items \in SUBSET list.items /\ part.repeats <= list.repeats
  BY RowsOf DEF Kept, RowLists
<1>2. Cardinality(part.items) <= Cardinality(list.items)
  BY <1>1, RowsOf, Sizes
<1> QED BY <1>1, <1>2, RowsOf

LEMMA LineupsOf ==
  ASSUME NEW from \in SUBSET Items, NEW n \in Nat, NEW list \in Lineups(from, n)
  PROVE  /\ list \in RowLists /\ list.items \subseteq from
         /\ Rows(list) <= n /\ Rows(list) # 0
<1>1. list \in RowLists /\ list.items \in SUBSET from /\ list.items # {} /\ Rows(list) <= n
  BY DEF Lineups, RowLists
<1>2. Cardinality(list.items) # 0
  BY <1>1, RowsOf, Sizes, FS_EmptySet
<1> QED BY <1>1, <1>2, RowsOf

\* What is left to play is what comes after the row that plays: less once the
\* viewer goes on, and at most n more once n rows are appended.
LEMMA Left ==
  /\ \A q \in PlayQueues : Remaining(q) \in Nat /\ Remaining(q) <= q.size
  /\ \A q, r \in PlayQueues :
       r.size = q.size /\ r.offset >= q.offset => Remaining(r) <= Remaining(q)
  /\ \A q, r \in PlayQueues : \A n \in Nat :
       r.size = q.size + n /\ r.offset = q.offset => Remaining(r) <= Remaining(q) + n
<1>1. \A q \in PlayQueues : q.size \in Nat /\ q.offset \in Nat
  BY DEF PlayQueues
<1>2. \A q \in PlayQueues : Remaining(q) \in Nat /\ Remaining(q) <= q.size
  BY <1>1 DEF Remaining
<1>3. \A q, r \in PlayQueues :
        r.size = q.size /\ r.offset >= q.offset => Remaining(r) <= Remaining(q)
  BY <1>1 DEF Remaining
<1>4. ASSUME NEW q \in PlayQueues, NEW r \in PlayQueues, NEW n \in Nat,
             r.size = q.size + n, r.offset = q.offset
      PROVE  Remaining(r) <= Remaining(q) + n
  BY <1>1, <1>4 DEF Remaining
<1> QED BY <1>2, <1>3, <1>4

\* A window is never wanted beyond ROTATION_LENGTH.
LEMMA WindowBounded == \A total \in Nat : WindowLeft(total) \in Nat /\ WindowLeft(total) <= Window
  BY Settings DEF WindowLeft

\* The sitting of a tick under way has a playQueue.
LEMMA TickQueue ==
  ASSUME IndInv, NEW t \in Active
  PROVE  /\ t \in Tickers /\ tick[t] \in TickRecords /\ tick[t].sitting \in Sittings
         /\ queue[tick[t].sitting] \in PlayQueues
<1>1. /\ t \in Tickers /\ tick[t] \in TickRecords /\ tick[t].sitting \in 1..sittingId
      /\ sittingId \in 0..MaxSittings
  BY Types DEF IndInv, Active, TicksOK, TickHasSitting, SessionOK
<1>2. tick[t].sitting \in Sittings
  BY <1>1, Settings DEF Sittings
<1> QED BY <1>1, <1>2, Types DEF IndInv, QueuesOK

----------------------------------------------------------------------------
(* The sitting, the viewer and the clock.                                  *)

\* A step that no tick takes and that gives its sitting nothing to forget.
LEMMA Quiet ==
  ASSUME IndInv, clock' \in 1..MaxClock + 1,
         UNCHANGED <<sitting, queue, lastTopup, phase, tick, history>>
  PROVE  IndInv' /\ SilentStep
<1>1. TypeOK'
  BY DEF IndInv, TypeOK, sitting, history
<1>2. TickHasSitting' /\ Alone'
  BY DEF IndInv, TickHasSitting, Active, Alone, OneTick, LastLanded, KnowsQueue, MayLand,
         Replaced, Growth, sitting, history
<1>3. NothingAddedAgain' /\ WithinWindow' /\ CountsOnlyHanded' /\ CooldownApart'
  BY DEF IndInv, NothingAddedAgain, WithinWindow, CountsOnlyHanded, CooldownApart, sitting, history
<1> QED BY <1>1, <1>2, <1>3 DEF IndInv, SilentStep

LEMMA StepTimePasses ==
  ASSUME IndInv, TimePasses
  PROVE  IndInv' /\ SilentStep
<1>1. clock \in 1..MaxClock + 1 /\ clock <= MaxClock /\ clock' = clock + 1
  BY Types DEF IndInv, SessionOK, TimePasses
<1> QED BY <1>1, Settings, Quiet DEF TimePasses

\* A sitting that begins, or fails, replaces every tick.
LEMMA Replacing ==
  ASSUME IndInv, SessionOK', isPreparing' \/ ~isLive',
         UNCHANGED <<queue, phase, tick, history>>, TickHasSitting',
         lastTopup' = lastTopup
  PROVE  IndInv' /\ SilentStep
<1>1. TypeOK'
  BY Types, TypesNext DEF IndInv, HistoryOK, QueuesOK, TicksOK, history
<1>2. \A t \in Tickers : MayLand(t)'
  BY DEF MayLand, Replaced
<1>3. Alone'
  BY <1>2 DEF IndInv, Active, Alone, OneTick, LastLanded, KnowsQueue, history
<1>4. NothingAddedAgain' /\ WithinWindow' /\ CountsOnlyHanded' /\ CooldownApart'
  BY DEF IndInv, NothingAddedAgain, WithinWindow, CountsOnlyHanded, CooldownApart, history
<1> QED BY <1>1, <1>3, <1>4 DEF IndInv, SilentStep

LEMMA StepStartSitting ==
  ASSUME IndInv, StartSitting
  PROVE  IndInv' /\ SilentStep
<1>1. SessionOK /\ sittingId < MaxSittings /\ sittingId' = sittingId + 1 /\ isPreparing' = TRUE
  BY Types DEF IndInv, StartSitting
<1>2. sittingId \in Nat /\ sittingId' \in 0..MaxSittings
  BY <1>1, Settings DEF SessionOK
<1>3. SessionOK'
  BY <1>1, <1>2 DEF StartSitting, SessionOK
<1>4. ASSUME NEW t \in Active
      PROVE  tick[t].sitting \in 1..sittingId' /\ tick[t].sitting # sittingId'
  BY <1>1, <1>2 DEF IndInv, TickHasSitting
<1>5. TickHasSitting'
  <2>1. sittingId' # 0
    BY <1>1, <1>2
  <2> QED BY <1>4, <2>1 DEF IndInv, TickHasSitting, StartSitting, Active
<1> QED BY <1>1, <1>3, <1>5, Replacing DEF StartSitting

LEMMA StepSittingFailed ==
  ASSUME IndInv, SittingFailed
  PROVE  IndInv' /\ SilentStep
<1>1. SessionOK'
  BY Types DEF IndInv, SittingFailed, SessionOK
<1>2. TickHasSitting'
  BY DEF IndInv, TickHasSitting, SittingFailed, Active
<1> QED BY <1>1, <1>2, Replacing DEF SittingFailed

\* A sitting that goes live has a playQueue no tick knows of.
LEMMA StepSittingLive ==
  ASSUME IndInv, SittingLive
  PROVE  IndInv' /\ SilentStep
<1>1. PICK lineup \in Lineups(Items, Window) : \E kept \in Kept(lineup) :
        /\ queuedTotal' = Rows(lineup)
        /\ queue' = [queue EXCEPT ![sittingId] =
                       [held |-> kept.items, size |-> Rows(kept), offset |-> 0]]
        /\ NoteHanded(sittingId, Rows(lineup), kept.repeats)
  BY DEF SittingLive
<1>1a. PICK kept \in Kept(lineup) :
        /\ queuedTotal' = Rows(lineup)
        /\ queue' = [queue EXCEPT ![sittingId] =
                       [held |-> kept.items, size |-> Rows(kept), offset |-> 0]]
        /\ NoteHanded(sittingId, Rows(lineup), kept.repeats)
  BY <1>1
<1>2. /\ isPreparing /\ isPreparing' = FALSE /\ isLive' = TRUE
      /\ UNCHANGED <<clock, sittingId, lastTopup, phase, tick, landed, overlapped>>
  BY DEF SittingLive
<1>3. SessionOK /\ HistoryOK /\ QueuesOK /\ TicksOK
  BY Types DEF IndInv
<1> DEFINE new == [held |-> kept.items, size |-> Rows(kept), offset |-> 0]
<1>4. /\ lineup \in RowLists /\ kept \in RowLists /\ Rows(lineup) \in Nat /\ Rows(kept) \in Nat
      /\ Rows(kept) <= Rows(lineup) /\ Rows(lineup) <= Window
      /\ kept.items \in SUBSET Items /\ kept.repeats \in Nat
      /\ Rows(kept) = Cardinality(kept.items) + kept.repeats
  <2>1. lineup \in RowLists /\ Rows(lineup) <= Window
    BY LineupsOf, Settings
  <2>2. kept \in RowLists /\ Rows(kept) <= Rows(lineup)
    BY <2>1, KeptOf
  <2> QED BY <2>1, <2>2, RowsOf
<1>5. /\ new \in PlayQueues /\ new.size = Rows(kept) /\ new.held = kept.items
  BY <1>4 DEF PlayQueues
<1> HIDE DEF new
<1>6. Remaining(new) <= Window
  <2>1. Remaining(new) \in Nat /\ Remaining(new) <= Rows(kept)
    BY <1>5, Left
  <2> QED BY <1>4, <2>1, Settings
<1>7. /\ queue' \in [Sittings -> PlayQueues]
      /\ \A s \in Sittings : queue'[s] = IF s = sittingId THEN new ELSE queue[s]
  BY <1>1a, <1>3, <1>5 DEF QueuesOK, new
<1>7a. /\ HistoryOK'
       /\ ~overlapped => /\ handed' = Rows(lineup)
                         /\ \A s \in Sittings : repeated'[s] = IF s = sittingId THEN kept.repeats
                                                                ELSE repeated[s]
  <2>1. CASE overlapped
    BY <1>1a, <1>2, <1>3, <2>1 DEF HistoryOK, NoteHanded
  <2>2. CASE ~overlapped
    <3>1. handed' = Rows(lineup) /\ repeated' = [repeated EXCEPT ![sittingId] = kept.repeats]
      BY <1>1a, <2>2 DEF NoteHanded
    <3> QED BY <1>2, <1>3, <1>4, <3>1 DEF HistoryOK
  <2> QED BY <2>1, <2>2
<1>8. TypeOK'
  <2>1. SessionOK' /\ HistoryOK' /\ QueuesOK' /\ TicksOK'
    BY <1>1a, <1>2, <1>3, <1>4, <1>7, <1>7a DEF SessionOK, QueuesOK, TicksOK
  <2> QED BY <2>1, TypesNext
<1>9. TickHasSitting' /\ \A t \in Active : tick[t].sitting # sittingId
  BY <1>2 DEF IndInv, TickHasSitting, Active
<1>10. ASSUME ~overlapped' PROVE Alone'
  <2>1. ~overlapped /\ OneTick /\ LastLanded /\ \A t \in Tickers : KnowsQueue(t)
    BY <1>2, <1>10 DEF IndInv, Alone
  <2>2. ASSUME NEW t \in Tickers PROVE KnowsQueue(t)'
    <3>1. CASE t \in Active
      <4>1. queue'[tick[t].sitting] = queue[tick[t].sitting]
        BY <1>7, <1>9, <3>1, TickQueue
      <4> QED BY <1>2, <2>1, <4>1 DEF KnowsQueue
    <3>2. CASE t \notin Active
      BY <1>2, <3>2 DEF KnowsQueue, Active
    <3> QED BY <3>1, <3>2
  <2>3. ASSUME NEW t \in Tickers PROVE MayLand(t)'
    BY <1>2, <1>9 DEF MayLand, Replaced, Active
  <2>4. OneTick' /\ LastLanded'
    BY <1>2, <2>1 DEF OneTick, LastLanded, Active
  <2> QED BY <2>2, <2>3, <2>4 DEF Alone
<1>11. NothingAddedAgain' /\ WithinWindow' /\ CountsOnlyHanded' /\ CooldownApart'
  <2>1. NothingAddedAgain'
    BY <1>2, <1>4, <1>5, <1>7, <1>7a DEF IndInv, NothingAddedAgain
  <2>2. WithinWindow'
    BY <1>2, <1>6, <1>7 DEF IndInv, WithinWindow
  <2>3. CountsOnlyHanded'
    BY <1>1a, <1>2, <1>4, <1>7a DEF CountsOnlyHanded
  <2>4. CooldownApart'
    BY <1>2 DEF IndInv, CooldownApart
  <2> QED BY <2>1, <2>2, <2>3, <2>4
<1> QED BY <1>2, <1>8, <1>9, <1>10, <1>11 DEF IndInv, Alone, SilentStep

\* The viewer goes on: less is left, and nothing else of a playQueue changes.
LEMMA StepSkip ==
  ASSUME IndInv, Skip
  PROVE  IndInv' /\ SilentStep
<1> DEFINE new == [queue[sittingId] EXCEPT !.offset = queue[sittingId].offset + 1]
<1>1. SessionOK /\ HistoryOK /\ QueuesOK /\ TicksOK
  BY Types DEF IndInv
<1>2. sittingId \in Sittings
  BY <1>1, Settings DEF Skip, SessionOK, Sittings
<1>3. queue[sittingId] \in PlayQueues
  BY <1>1, <1>2 DEF QueuesOK
<1>4. /\ new \in PlayQueues /\ new.size = queue[sittingId].size
      /\ new.held = queue[sittingId].held /\ new.offset >= queue[sittingId].offset
  BY <1>3 DEF PlayQueues
<1>5. /\ queue' = [queue EXCEPT ![sittingId] = new]
      /\ UNCHANGED <<clock, sitting, lastTopup, phase, tick, history>>
  BY DEF Skip
<1> HIDE DEF new
<1>6. /\ queue' \in [Sittings -> PlayQueues]
      /\ \A s \in Sittings : /\ queue'[s].size = queue[s].size /\ queue'[s].held = queue[s].held
                             /\ queue'[s].offset >= queue[s].offset
  <2>1. queue' \in [Sittings -> PlayQueues]
    BY <1>1, <1>4, <1>5 DEF QueuesOK
  <2>2. \A s \in Sittings : queue[s].offset \in Nat
    BY <1>1 DEF QueuesOK, PlayQueues
  <2>3. \A s \in Sittings : queue'[s] = IF s = sittingId THEN new ELSE queue[s]
    BY <1>1, <1>5 DEF QueuesOK
  <2> QED BY <1>4, <2>1, <2>2, <2>3
<1>7. \A s \in Sittings : Remaining(queue'[s]) <= Remaining(queue[s])
  BY <1>1, <1>6, Left DEF QueuesOK
<1>8. TypeOK'
  BY <1>1, <1>5, <1>6, TypesNext DEF SessionOK, HistoryOK, QueuesOK, TicksOK, sitting, history
<1>9. TickHasSitting'
  BY <1>5 DEF IndInv, TickHasSitting, Active, sitting
<1>10. ASSUME ~overlapped' PROVE Alone'
  <2>1. /\ ~overlapped /\ OneTick /\ LastLanded
        /\ \A t \in Tickers : KnowsQueue(t) /\ MayLand(t)
    BY <1>5, <1>10 DEF IndInv, Alone, history
  <2>2. ASSUME NEW t \in Tickers PROVE KnowsQueue(t)'
    <3>1. CASE t \in Active
      <4> DEFINE q == queue[tick[t].sitting]
                 r == queue'[tick[t].sitting]
      <4>1. /\ tick[t].sitting \in Sittings /\ q \in PlayQueues /\ r \in PlayQueues
            /\ tick[t] \in TickRecords
        BY <1>6, <3>1, TickQueue
      <4>2. /\ r.size = q.size /\ r.held = q.held /\ r.offset >= q.offset
            /\ Remaining(r) <= Remaining(q)
        BY <1>6, <1>7, <4>1
      <4>3. /\ q.offset \in Nat /\ r.offset \in Nat /\ Remaining(q) \in Nat
            /\ Remaining(r) \in Nat /\ tick[t].live.offset \in Nat
            /\ Rows(tick[t].slice) \in Nat
        BY <4>1, Left, RowsOf DEF PlayQueues, TickRecords
      <4>4. /\ tick' = tick /\ phase' = phase
        BY <1>5
      <4> HIDE DEF q, r
      <4>5. phase[t] = "build" => tick[t].live.offset <= r.offset
        BY <2>1, <4>2, <4>3 DEF KnowsQueue, q
      <4>6. phase[t] = "extend" => Rows(tick[t].slice) + Remaining(r) <= Window
        <5>1. phase[t] = "extend" => Rows(tick[t].slice) + Remaining(q) <= Window
          BY <2>1 DEF KnowsQueue, q
        <5> QED BY <4>2, <4>3, <5>1, Settings
      <4>7. /\ phase[t] = "build" => tick[t].live.held = r.held /\ tick[t].live.size = r.size
            /\ phase[t] = "extend" => tick[t].slice.items \cap r.held = {} /\ tick[t].live.size = r.size
        BY <2>1, <4>2 DEF KnowsQueue, q
      <4> QED BY <4>4, <4>5, <4>6, <4>7 DEF KnowsQueue, r
    <3>2. CASE t \notin Active
      BY <1>5, <3>2 DEF KnowsQueue, Active
    <3> QED BY <3>1, <3>2
  <2>3. ASSUME NEW t \in Tickers PROVE MayLand(t)'
    BY <1>5, <2>1 DEF MayLand, Replaced, Growth, Active, sitting, history
  <2>4. OneTick' /\ LastLanded'
    BY <1>5, <2>1 DEF OneTick, LastLanded, Active, history
  <2> QED BY <2>2, <2>3, <2>4 DEF Alone
<1>11. NothingAddedAgain' /\ CountsOnlyHanded' /\ CooldownApart'
  BY <1>5, <1>6 DEF IndInv, NothingAddedAgain, CountsOnlyHanded, CooldownApart, sitting, history
<1>12. WithinWindow'
  <2>1. \A s \in Sittings : Remaining(queue[s]) \in Nat /\ Remaining(queue'[s]) \in Nat
    BY <1>1, <1>6, Left DEF QueuesOK
  <2>2. ~overlapped' => \A s \in Sittings : Remaining(queue[s]) <= Window
    BY <1>5 DEF IndInv, WithinWindow, history
  <2>3. ~overlapped' => \A s \in Sittings : Remaining(queue'[s]) <= Window
    BY <1>7, <2>1, <2>2, Settings
  <2> QED BY <2>3 DEF WithinWindow
<1> QED BY <1>5, <1>8, <1>9, <1>10, <1>11, <1>12 DEF IndInv, Alone, SilentStep

----------------------------------------------------------------------------
(* The ticks.                                                              *)

\* What one tick does leaves the others what they know: no other works for its
\* sitting, and it appends to and counts for no other.
LEMMA Others ==
  ASSUME IndInv, NEW t \in Tickers,
         \A u \in Tickers \ {t} : phase'[u] = phase[u] /\ tick'[u] = tick[u],
         UNCHANGED <<sittingId, isPreparing, isLive>>, ~overlapped,
         \/ UNCHANGED <<queue, queuedTotal, handed, lastTopup>>
         \/ /\ t \in Active
            /\ \A s \in Sittings \ {tick[t].sitting} : queue'[s] = queue[s]
            /\ tick[t].sitting # sittingId => UNCHANGED <<queuedTotal, handed, lastTopup>>
  PROVE  \A u \in Tickers \ {t} : KnowsQueue(u)' /\ MayLand(u)'
<1> SUFFICES ASSUME NEW u \in Tickers \ {t} PROVE KnowsQueue(u)' /\ MayLand(u)'
  OBVIOUS
<1>1. /\ phase'[u] = phase[u] /\ tick'[u] = tick[u] /\ u # t
      /\ KnowsQueue(u) /\ MayLand(u) /\ OneTick
  BY DEF IndInv, Alone
<1>2. CASE UNCHANGED <<queue, queuedTotal, handed, lastTopup>>
  BY <1>1, <1>2 DEF KnowsQueue, MayLand, Replaced, Growth, Active
<1>3. CASE u \notin Active
  BY <1>1, <1>3 DEF KnowsQueue, MayLand, Active
<1>4. CASE /\ t \in Active /\ u \in Active
           /\ \A s \in Sittings \ {tick[t].sitting} : queue'[s] = queue[s]
           /\ tick[t].sitting # sittingId => UNCHANGED <<queuedTotal, handed, lastTopup>>
  <2>1. tick[u].sitting # tick[t].sitting /\ tick[u].sitting \in Sittings
    BY <1>1, <1>4, TickQueue DEF OneTick
  <2>2. queue'[tick[u].sitting] = queue[tick[u].sitting]
    BY <1>4, <2>1
  <2>3. KnowsQueue(u)'
    BY <1>1, <2>2 DEF KnowsQueue
  <2>4. CASE tick[t].sitting # sittingId
    <3>1. UNCHANGED <<queuedTotal, handed, lastTopup>>
      BY <1>4, <2>4
    <3> QED BY <1>1, <2>3, <3>1 DEF MayLand, Replaced, Growth, Active
  <2>5. CASE tick[u].sitting # sittingId
    <3>1. Replaced(u)'
      BY <1>1, <2>5 DEF Replaced
    <3> QED BY <2>3, <3>1 DEF MayLand
  <2> QED BY <2>1, <2>3, <2>4, <2>5
<1> QED BY <1>2, <1>3, <1>4

\* A step of a tick under way that goes on for the same sitting or ends keeps
\* the invariant, if it keeps what is said of that tick, of the playQueues and of
\* the counts while nobody else works for the sitting.
LEMMA Ticked ==
  ASSUME IndInv, NEW t \in Active, TypeOK',
         \A u \in Tickers \ {t} : phase'[u] = phase[u] /\ tick'[u] = tick[u],
         phase'[t] \notin {"idle", "gone"} =>
           tick'[t].sitting = tick[t].sitting /\ tick'[t].now = tick[t].now,
         UNCHANGED <<clock, sittingId, isPreparing, isLive, overlapped>>,
         ~overlapped =>
           /\ \/ UNCHANGED <<queue, queuedTotal, handed, lastTopup>>
              \/ /\ \A s \in Sittings \ {tick[t].sitting} : queue'[s] = queue[s]
                 /\ tick[t].sitting # sittingId => UNCHANGED <<queuedTotal, handed, lastTopup>>
           /\ KnowsQueue(t)' /\ MayLand(t)' /\ LastLanded'
           /\ NothingAddedAgain' /\ WithinWindow' /\ CountsOnlyHanded' /\ CooldownApart'
  PROVE  IndInv'
<1>1. t \in Tickers /\ Active' \subseteq Active
  BY DEF Active
<1>2. \A u \in Active' : tick'[u].sitting = tick[u].sitting /\ tick'[u].now = tick[u].now
  BY <1>1 DEF Active
<1>3. TickHasSitting'
  BY <1>1, <1>2 DEF IndInv, TickHasSitting
<1>4. ASSUME ~overlapped PROVE OneTick'
  BY <1>1, <1>2, <1>4 DEF IndInv, Alone, OneTick
<1>5. ASSUME ~overlapped PROVE \A u \in Tickers : KnowsQueue(u)' /\ MayLand(u)'
  BY <1>1, <1>5, Others
<1>6. Alone'
  BY <1>4, <1>5 DEF Alone
<1>7. NothingAddedAgain' /\ WithinWindow' /\ CountsOnlyHanded' /\ CooldownApart'
  BY DEF NothingAddedAgain, WithinWindow, CountsOnlyHanded, CooldownApart
<1> QED BY <1>3, <1>6, <1>7 DEF IndInv

\* An empty tick is a record of its kind.
LEMMA NoTicks == NoTick \in TickRecords
<1>1. Nothing \in RowLists /\ NoPlayQueue \in PlayQueues
  BY DEF Nothing, RowLists, NoPlayQueue, PlayQueues
<1> QED BY <1>1, Settings DEF NoTick, TickRecords

\* A tick that ends leaves the others alone, and no place of its own.
LEMMA Ended ==
  ASSUME TicksOK, NEW t \in Tickers, End(t)
  PROVE  /\ TicksOK' /\ phase'[t] \in {"idle", "gone"}
         /\ \A u \in Tickers \ {t} : phase'[u] = phase[u] /\ tick'[u] = tick[u]
  BY NoTicks DEF TicksOK, End, TickPhases

\* So does one that goes on with other locals.
LEMMA GoesOn ==
  ASSUME TicksOK, NEW t \in Tickers, NEW where \in TickPhases, NEW r \in TickRecords,
         Goto(t, where), tick' = [tick EXCEPT ![t] = r]
  PROVE  /\ TicksOK' /\ phase'[t] = where /\ tick'[t] = r
         /\ \A u \in Tickers \ {t} : phase'[u] = phase[u] /\ tick'[u] = tick[u]
  BY DEF TicksOK, Goto

\* The properties of playQueues and counts, when those stay.
LEMMA CountsStay ==
  ASSUME IndInv, UNCHANGED <<clock, sitting, queue, lastTopup, history>>, ~overlapped
  PROVE  LastLanded' /\ NothingAddedAgain' /\ WithinWindow' /\ CountsOnlyHanded' /\ CooldownApart'
  BY DEF IndInv, Alone, LastLanded, NothingAddedAgain, WithinWindow, CountsOnlyHanded, CooldownApart,
         sitting, history

\* A tick that is not in the phases that say so has nothing to know.
LEMMA EndsUnknown ==
  ASSUME NEW t \in Tickers, phase'[t] \in {"idle", "gone"}
  PROVE  KnowsQueue(t)' /\ MayLand(t)'
  BY DEF KnowsQueue, MayLand, Active

\* A tick that gives up changes nothing.
LEMMA StepGiveUp ==
  ASSUME IndInv, NEW t \in Tickers, NEW where \in TickPhases \ {"idle", "gone"}, GiveUp(t, where)
  PROVE  IndInv' /\ SilentStep
<1>1. t \in Active /\ End(t) /\ UNCHANGED <<clock, sitting, queue, lastTopup, history>>
  BY DEF GiveUp, Active
<1>2. SessionOK /\ HistoryOK /\ QueuesOK /\ TicksOK
  BY Types DEF IndInv
<1>3. /\ TicksOK' /\ phase'[t] \in {"idle", "gone"}
      /\ \A u \in Tickers \ {t} : phase'[u] = phase[u] /\ tick'[u] = tick[u]
  BY <1>1, <1>2, Ended
<1>4. TypeOK'
  BY <1>1, <1>2, <1>3, TypesNext DEF SessionOK, HistoryOK, QueuesOK, sitting, history
<1>5. UNCHANGED <<sittingId, isPreparing, isLive, queuedTotal, overlapped, handed>>
  BY <1>1 DEF sitting, history
<1>6. KnowsQueue(t)' /\ MayLand(t)'
  BY <1>3, EndsUnknown
<1>7. IndInv'
  BY <1>1, <1>3, <1>4, <1>5, <1>6, CountsStay, Ticked
<1> QED BY <1>1, <1>7 DEF SilentStep

\* A wake-up that finds a tick of its sitting under way is an overlap; one that
\* does not is the only one of its sitting, and cooled down.
LEMMA StepWake ==
  ASSUME IndInv, NEW t \in Tickers, Wake(t)
  PROVE  IndInv' /\ SilentStep
<1> DEFINE r == [NoTick EXCEPT !.now = clock, !.sitting = sittingId, !.total = queuedTotal]
<1>1. /\ phase[t] = "idle" /\ ~CoolingDown /\ ~isPreparing /\ isLive
      /\ tick' = [tick EXCEPT ![t] = r] /\ Goto(t, "account")
      /\ UNCHANGED <<clock, sitting, queue, lastTopup>>
  BY DEF Wake
<1>2. SessionOK /\ HistoryOK /\ QueuesOK /\ TicksOK
  BY Types DEF IndInv
<1>3. clock \in 0..MaxClock + 1 /\ clock # 0
  BY <1>2, Settings DEF SessionOK
<1>4. r \in TickRecords /\ r.sitting = sittingId /\ r.now = clock
  BY <1>2, <1>3, NoTicks DEF TickRecords, SessionOK
<1> HIDE DEF r
<1>5. /\ TicksOK' /\ phase'[t] = "account" /\ tick'[t] = r
      /\ \A u \in Tickers \ {t} : phase'[u] = phase[u] /\ tick'[u] = tick[u]
  BY <1>1, <1>2, <1>4, GoesOn DEF TickPhases
<1>6. /\ overlapped' = (overlapped \/ IsRunning)
      /\ handed' = IF overlapped' THEN 0 ELSE handed
      /\ repeated' = IF overlapped' THEN NoneRepeated ELSE repeated
      /\ landed' = IF overlapped' THEN <<>> ELSE landed
  BY DEF Wake, NoteOverlap
<1>7. HistoryOK'
  <2>1. overlapped' \in BOOLEAN
    BY <1>6
  <2>2. handed' \in Nat /\ landed' \in Seq(Nat)
    BY <1>2, <1>6 DEF HistoryOK
  <2>3. repeated' \in [Sittings -> Nat]
    BY <1>2, <1>6 DEF HistoryOK, NoneRepeated
  <2> QED BY <2>1, <2>2, <2>3 DEF HistoryOK
<1>8. TypeOK'
  BY <1>1, <1>2, <1>5, <1>7, TypesNext DEF SessionOK, QueuesOK, sitting
<1>9. Active' = Active \union {t} /\ \A u \in Active : u # t
  BY <1>1, <1>5 DEF Active
<1>10. TickHasSitting'
  <2>1. sittingId \in Nat /\ sittingId # 0
    BY <1>1, <1>2, Settings DEF IndInv, TickHasSitting, SessionOK
  <2>2. sittingId \in 1..sittingId
    BY <2>1
  <2> QED BY <1>1, <1>3, <1>4, <1>5, <1>9, <2>2 DEF IndInv, TickHasSitting, sitting
<1>11. ASSUME ~overlapped' PROVE Alone'
  <2>1. /\ ~overlapped /\ ~IsRunning /\ OneTick /\ LastLanded
        /\ handed' = handed /\ landed' = landed
    BY <1>6, <1>11 DEF IndInv, Alone
  <2>2. \A u \in Active : tick[u].sitting # sittingId
    BY <2>1 DEF IsRunning, Active
  <2>3. OneTick'
    BY <1>4, <1>5, <1>9, <2>1, <2>2 DEF OneTick, Active
  <2>4. \A u \in Tickers \ {t} : KnowsQueue(u)' /\ MayLand(u)'
    BY <1>1, <1>5, <2>1, Others DEF sitting
  <2>5. KnowsQueue(t)'
    BY <1>5 DEF KnowsQueue
  <2>6. lastTopup = 0 \/ r.now - lastTopup >= Cooldown
    <3>1. lastTopup \in Nat /\ clock \in Nat
      BY <1>2, Settings DEF SessionOK
    <3> QED BY <1>1, <1>4, <3>1, Settings DEF CoolingDown
  <2>7. MayLand(t)'
    BY <1>1, <1>5, <2>6 DEF MayLand
  <2>8. LastLanded'
    BY <1>1, <2>1 DEF LastLanded
  <2> QED BY <2>3, <2>4, <2>5, <2>7, <2>8 DEF Alone
<1>12. NothingAddedAgain' /\ WithinWindow' /\ CountsOnlyHanded' /\ CooldownApart'
  <2>1. \/ overlapped'
        \/ ~overlapped /\ handed' = handed /\ landed' = landed /\ repeated' = repeated
    BY <1>6
  <2> QED BY <1>1, <2>1 DEF IndInv, NothingAddedAgain, WithinWindow, CountsOnlyHanded,
            CooldownApart, sitting
<1> QED BY <1>1, <1>8, <1>10, <1>11, <1>12 DEF IndInv, Alone, SilentStep

LEMMA StepAfterAccount ==
  ASSUME IndInv, NEW t \in Tickers, AfterAccount(t)
  PROVE  IndInv' /\ SilentStep
<1>1. CASE GiveUp(t, "account")
  BY <1>1, StepGiveUp DEF TickPhases
<1>2. CASE /\ phase[t] = "account" /\ ~Replaced(t) /\ Goto(t, "read")
           /\ UNCHANGED <<clock, sitting, queue, lastTopup, tick, history>>
  <2>1. t \in Active /\ SessionOK /\ HistoryOK /\ QueuesOK /\ TicksOK
    BY <1>2, Types DEF IndInv, Active
  <2>2. tick[t] \in TickRecords /\ tick' = [tick EXCEPT ![t] = tick[t]]
    BY <1>2, <2>1 DEF TicksOK
  <2>3. /\ TicksOK' /\ phase'[t] = "read" /\ tick'[t] = tick[t]
        /\ \A u \in Tickers \ {t} : phase'[u] = phase[u] /\ tick'[u] = tick[u]
    BY <1>2, <2>1, <2>2, GoesOn DEF TickPhases
  <2>4. TypeOK'
    BY <1>2, <2>1, <2>3, TypesNext DEF SessionOK, HistoryOK, QueuesOK, sitting, history
  <2>5. UNCHANGED <<sittingId, isPreparing, isLive, queuedTotal, overlapped, handed>>
    BY <1>2 DEF sitting, history
  <2>6. ASSUME ~overlapped PROVE KnowsQueue(t)' /\ MayLand(t)'
    <3>1. KnowsQueue(t)'
      BY <2>3 DEF KnowsQueue
    <3>2. MayLand(t)'
      BY <1>2, <2>1, <2>3, <2>5, <2>6 DEF IndInv, Alone, MayLand, Replaced
    <3> QED BY <3>1, <3>2
  <2>7. IndInv'
    BY <1>2, <2>1, <2>3, <2>4, <2>5, <2>6, CountsStay, Ticked
  <2> QED BY <1>2, <2>7 DEF SilentStep
<1> QED BY <1>1, <1>2 DEF AfterAccount

\* What was read is the playQueue of the tick's sitting.
LEMMA StepAfterRead ==
  ASSUME IndInv, NEW t \in Tickers, AfterRead(t)
  PROVE  IndInv' /\ SilentStep
<1>1. CASE GiveUp(t, "read")
  BY <1>1, StepGiveUp DEF TickPhases
<1> DEFINE q == queue[tick[t].sitting]
           r == [tick[t] EXCEPT !.live = q]
<1>2. CASE /\ phase[t] = "read" /\ ~Replaced(t) /\ Goto(t, "build")
           /\ tick' = [tick EXCEPT ![t] = r]
           /\ UNCHANGED <<clock, sitting, queue, lastTopup, history>>
  <2>1. t \in Active /\ SessionOK /\ HistoryOK /\ QueuesOK /\ TicksOK
    BY <1>2, Types DEF IndInv, Active
  <2>2. q \in PlayQueues /\ tick[t] \in TickRecords
    BY <2>1, TickQueue
  <2>3. /\ r \in TickRecords /\ r.live = q /\ r.sitting = tick[t].sitting
        /\ r.now = tick[t].now
    BY <2>2 DEF TickRecords
  <2> HIDE DEF r
  <2>4. /\ TicksOK' /\ phase'[t] = "build" /\ tick'[t] = r
        /\ \A u \in Tickers \ {t} : phase'[u] = phase[u] /\ tick'[u] = tick[u]
    BY <1>2, <2>1, <2>3, GoesOn DEF TickPhases
  <2>5. TypeOK'
    BY <1>2, <2>1, <2>4, TypesNext DEF SessionOK, HistoryOK, QueuesOK, sitting, history
  <2>6. UNCHANGED <<sittingId, isPreparing, isLive, queuedTotal, overlapped, handed>>
    BY <1>2 DEF sitting, history
  <2>7. ASSUME ~overlapped PROVE KnowsQueue(t)' /\ MayLand(t)'
    <3>1. KnowsQueue(t)'
      <4>1. q.offset \in Nat /\ queue' = queue
        BY <1>2, <2>2 DEF PlayQueues
      <4> QED BY <2>3, <2>4, <4>1 DEF KnowsQueue
    <3>2. MayLand(t)'
      BY <1>2, <2>1, <2>3, <2>4, <2>6, <2>7 DEF IndInv, Alone, MayLand, Replaced
    <3> QED BY <3>1, <3>2
  <2>8. IndInv'
    BY <1>2, <2>1, <2>3, <2>4, <2>5, <2>6, <2>7, CountsStay, Ticked
  <2> QED BY <1>2, <2>8 DEF SilentStep
<1> QED BY <1>1, <1>2 DEF AfterRead

\* The slice is what the playQueue lacks, and fits in the window beside what is
\* left of it, although the viewer went on since it was read.
LEMMA StepAfterBuild ==
  ASSUME IndInv, NEW t \in Tickers, AfterBuild(t)
  PROVE  IndInv' /\ SilentStep
<1>1. CASE GiveUp(t, "build")
  BY <1>1, StepGiveUp DEF TickPhases
<1>2. ASSUME phase[t] = "build", ~Replaced(t), Goto(t, "extend"),
             NEW slice \in Lineups(Items \ tick[t].live.held, Want(t)), Sent(t, slice),
             UNCHANGED <<clock, sitting, queue, lastTopup, history>>
      PROVE  IndInv' /\ SilentStep
  <2> DEFINE r == [NoTick EXCEPT !.now = tick[t].now, !.sitting = tick[t].sitting,
                                 !.live.size = tick[t].live.size, !.slice = slice]
             q == queue[tick[t].sitting]
  <2>1. t \in Active /\ SessionOK /\ HistoryOK /\ QueuesOK /\ TicksOK
    BY <1>2, Types DEF IndInv, Active
  <2>2. /\ q \in PlayQueues /\ tick[t] \in TickRecords /\ tick[t].live \in PlayQueues
        /\ tick[t].live.size \in Nat /\ tick[t].total \in Nat
    BY <2>1, TickQueue DEF TickRecords, PlayQueues
  <2>2a. /\ WindowLeft(tick[t].total) \in Nat /\ WindowLeft(tick[t].total) <= Window
         /\ Remaining(tick[t].live) \in Nat /\ Want(t) \in Nat
    <3>1. /\ WindowLeft(tick[t].total) \in Nat /\ WindowLeft(tick[t].total) <= Window
          /\ Remaining(tick[t].live) \in Nat
      BY <2>2, WindowBounded, Left
    <3> QED BY <3>1 DEF Want
  <2>2b. /\ slice \in RowLists /\ slice.items \subseteq Items \ tick[t].live.held
         /\ Rows(slice) <= Want(t) /\ Rows(slice) # 0 /\ Rows(slice) \in Nat
    BY <1>2, <2>2a, LineupsOf, RowsOf
  <2> DEFINE live == [NoPlayQueue EXCEPT !.size = tick[t].live.size]
  <2>3. live \in PlayQueues /\ live.size = tick[t].live.size
    BY <2>2 DEF NoPlayQueue, PlayQueues
  <2>4. /\ r \in TickRecords /\ r.live.size = tick[t].live.size /\ r.slice = slice
        /\ r.sitting = tick[t].sitting /\ r.now = tick[t].now
    <3>1. NoTick.live = NoPlayQueue
      BY DEF NoTick
    <3>2. r = [NoTick EXCEPT !.now = tick[t].now, !.sitting = tick[t].sitting, !.live = live,
                             !.slice = slice]
      BY <3>1
    <3>3. /\ NoTick \in TickRecords /\ tick[t].now \in 0..MaxClock + 1
          /\ tick[t].sitting \in 0..MaxSittings
      BY <2>2, NoTicks DEF TickRecords
    <3> HIDE DEF r, live
    <3> QED BY <2>2, <2>2b, <2>3, <3>2, <3>3 DEF TickRecords
  <2>5. tick' = [tick EXCEPT ![t] = r]
    BY <1>2 DEF Sent
  <2> HIDE DEF r, q
  <2>6. /\ TicksOK' /\ phase'[t] = "extend" /\ tick'[t] = r
        /\ \A u \in Tickers \ {t} : phase'[u] = phase[u] /\ tick'[u] = tick[u]
    BY <1>2, <2>1, <2>4, <2>5, GoesOn DEF TickPhases
  <2>7. TypeOK'
    BY <1>2, <2>1, <2>6, TypesNext DEF SessionOK, HistoryOK, QueuesOK, sitting, history
  <2>8. UNCHANGED <<sittingId, isPreparing, isLive, queuedTotal, overlapped, handed>>
    BY <1>2 DEF sitting, history
  <2>9. ASSUME ~overlapped PROVE KnowsQueue(t)' /\ MayLand(t)'
    <3>1. /\ tick[t].live.held = q.held /\ tick[t].live.size = q.size
          /\ tick[t].live.offset <= q.offset
      BY <1>2, <2>1, <2>9 DEF IndInv, Alone, KnowsQueue, q, Active
    <3>2. slice.items \cap q.held = {}
      BY <2>2b, <3>1
    <3>3. Remaining(q) <= Remaining(tick[t].live)
      <4>1. tick[t].live.offset \in Nat /\ q.offset \in Nat
        BY <2>2 DEF PlayQueues
      <4> QED BY <2>2, <3>1, <4>1, Left
    <3>4. Rows(slice) + Remaining(q) <= Window
      <4>1. Remaining(q) \in Nat
        BY <2>2, Left
      <4>2. Rows(slice) <= WindowLeft(tick[t].total) - Remaining(tick[t].live)
        BY <2>2a, <2>2b DEF Want
      <4> QED BY <2>2a, <2>2b, <3>3, <4>1, <4>2, Settings
    <3>5. KnowsQueue(t)'
      <4>1. queue' = queue
        BY <1>2
      <4> QED BY <2>4, <2>6, <3>1, <3>2, <3>4, <4>1 DEF KnowsQueue, q
    <3>6. MayLand(t)'
      BY <1>2, <2>1, <2>4, <2>6, <2>8, <2>9 DEF IndInv, Alone, MayLand, Replaced
    <3> QED BY <3>5, <3>6
  <2>10. IndInv'
    BY <1>2, <2>1, <2>4, <2>6, <2>7, <2>8, <2>9, CountsStay, Ticked
  <2> QED BY <1>2, <2>10 DEF SilentStep
<1> QED BY <1>1, <1>2 DEF AfterBuild

\* What Plex takes is new to the playQueue and fits; the answer that comes back,
\* if it does, tells how many rows that was.
LEMMA StepExtend ==
  ASSUME IndInv, NEW t \in Tickers, ExtendPlayQueue(t)
  PROVE  IndInv' /\ SilentStep
<1>1. CASE UNCHANGED <<queue, handed, repeated>> /\ End(t)
  <2>1. GiveUp(t, "extend")
    BY <1>1 DEF ExtendPlayQueue, GiveUp, history
  <2> QED BY <2>1, StepGiveUp DEF TickPhases
<1>2. ASSUME NEW accepted \in Kept(tick[t].slice), NEW given, NEW size,
             Accept(t, accepted, given), Answered(t, size) \/ End(t),
             \/ /\ size = queue[tick[t].sitting].size + Rows(accepted)
                /\ given = Rows(accepted)
             \/ size = NoSize /\ given = Rows(tick[t].slice)
      PROVE  IndInv' /\ SilentStep
  <2> DEFINE s == tick[t].sitting
             q == queue[s]
             n == Rows(accepted)
             new == [q EXCEPT !.held = q.held \union accepted.items, !.size = q.size + n]
             r == [tick[t] EXCEPT !.sizeAfter = size]
  <2>1. /\ phase[t] = "extend" /\ UNCHANGED <<clock, sitting, lastTopup, landed, overlapped>>
        /\ t \in Active
    BY DEF ExtendPlayQueue, Active
  <2>2. SessionOK /\ HistoryOK /\ QueuesOK /\ TicksOK
    BY Types DEF IndInv
  <2>3. s \in Sittings /\ q \in PlayQueues /\ tick[t] \in TickRecords
    BY <2>1, TickQueue
  <2>4. /\ tick[t].slice \in RowLists /\ accepted \in RowLists
        /\ accepted.items \in SUBSET Items /\ accepted.items \subseteq tick[t].slice.items
        /\ q.held \in SUBSET Items /\ q.size \in Nat /\ accepted.repeats \in Nat
        /\ n = Cardinality(accepted.items) + accepted.repeats
    <3>1. tick[t].slice \in RowLists
      BY <2>3 DEF TickRecords
    <3>2. accepted \in RowLists /\ accepted.items \subseteq tick[t].slice.items
      BY <3>1, KeptOf
    <3>3. q.held \in SUBSET Items /\ q.size \in Nat
      BY <2>3 DEF PlayQueues
    <3> QED BY <3>1, <3>2, <3>3, RowsOf
  <2>5. /\ n \in Nat /\ n <= Rows(tick[t].slice) /\ Rows(tick[t].slice) \in Nat
        /\ given \in Nat /\ size \in Nat \union {NoSize}
    <3>1. n \in Nat /\ n <= Rows(tick[t].slice) /\ Rows(tick[t].slice) \in Nat
      BY <2>4, KeptOf, RowsOf
    <3> QED BY <1>2, <2>4, <3>1
  <2>6. /\ new \in PlayQueues /\ new.held = q.held \union accepted.items /\ new.size = q.size + n
        /\ new.offset = q.offset
    <3> HIDE DEF q, n
    <3>1. q.held \union accepted.items \in SUBSET Items /\ q.size + n \in Nat
      BY <2>4, <2>5
    <3> DEFINE added == q.held \union accepted.items
               grown == q.size + n
    <3> HIDE DEF added, grown
    <3>2. new = [q EXCEPT !.held = added, !.size = grown]
      BY DEF added, grown
    <3>3. added \in SUBSET Items /\ grown \in Nat
      BY <3>1 DEF added, grown
    <3>4. new \in PlayQueues /\ new.held = added /\ new.size = grown /\ new.offset = q.offset
      BY <2>3, <3>2, <3>3 DEF PlayQueues
    <3> QED BY <3>4 DEF added, grown
  <2>7. /\ r \in TickRecords /\ r.sizeAfter = size /\ r.live = tick[t].live
        /\ r.sitting = s /\ r.now = tick[t].now /\ r.slice = tick[t].slice
    BY <2>3, <2>5 DEF TickRecords
  <2>8. /\ queue' = [queue EXCEPT ![s].held = q.held \union accepted.items, ![s].size = q.size + n]
        /\ IF overlapped
             THEN UNCHANGED <<handed, repeated>>
             ELSE /\ handed' = IF s = sittingId THEN handed + given ELSE handed
                  /\ repeated' = [repeated EXCEPT ![s] = repeated[s] + accepted.repeats]
    BY <1>2 DEF Accept, NoteHanded
  <2>9. queue' = [queue EXCEPT ![s] = new]
    BY <2>2, <2>3, <2>8 DEF QueuesOK
  <2>10. (Goto(t, "answer") /\ tick' = [tick EXCEPT ![t] = r]) \/ End(t)
    BY <1>2 DEF Answered
  <2> HIDE DEF new, r, q, n, s
  <2>11. /\ queue' \in [Sittings -> PlayQueues] /\ queue'[s] = new
         /\ \A z \in Sittings \ {s} : queue'[z] = queue[z]
    BY <2>2, <2>3, <2>6, <2>9 DEF QueuesOK
  <2>12. /\ TicksOK' /\ \A u \in Tickers \ {t} : phase'[u] = phase[u] /\ tick'[u] = tick[u]
         /\ (phase'[t] = "answer" /\ tick'[t] = r) \/ phase'[t] \in {"idle", "gone"}
    BY <2>2, <2>7, <2>10, GoesOn, Ended DEF TickPhases
  <2>13. /\ handed \in Nat /\ handed' \in Nat /\ handed' >= handed
         /\ repeated' \in [Sittings -> Nat]
    <3>1. handed \in Nat /\ repeated \in [Sittings -> Nat] /\ repeated[s] \in Nat
      BY <2>2, <2>3 DEF HistoryOK
    <3>2. CASE overlapped
      BY <2>8, <3>1, <3>2
    <3>3. CASE ~overlapped
      BY <2>4, <2>5, <2>8, <3>1, <3>3
    <3> QED BY <3>2, <3>3
  <2>14. TypeOK'
    BY <2>1, <2>2, <2>11, <2>12, <2>13, TypesNext DEF SessionOK, HistoryOK, QueuesOK, sitting
  <2>15. UNCHANGED <<clock, sittingId, isPreparing, isLive, overlapped, queuedTotal, lastTopup>>
    BY <2>1 DEF sitting
  <2>16. ASSUME ~overlapped
         PROVE  /\ KnowsQueue(t)' /\ MayLand(t)' /\ LastLanded'
                /\ NothingAddedAgain' /\ WithinWindow' /\ CountsOnlyHanded' /\ CooldownApart'
                /\ s # sittingId => UNCHANGED <<queuedTotal, handed, lastTopup>>
    <3>1. /\ tick[t].slice.items \cap q.held = {} /\ tick[t].live.size = q.size
          /\ Rows(tick[t].slice) + Remaining(q) <= Window
      BY <2>1, <2>16 DEF IndInv, Alone, KnowsQueue, q, s
    <3>2. new.size = Cardinality(new.held) + repeated'[s]
      <4>1. q.size = Cardinality(q.held) + repeated[s] /\ repeated[s] \in Nat
        BY <2>2, <2>3, <2>16 DEF IndInv, NothingAddedAgain, q, HistoryOK
      <4>2. accepted.items \cap q.held = {}
        BY <2>4, <3>1
      <4>3. /\ Cardinality(q.held \union accepted.items) =
                 Cardinality(q.held) + Cardinality(accepted.items)
            /\ Cardinality(q.held) \in Nat /\ Cardinality(accepted.items) \in Nat
        BY <2>4, <4>2, Sizes
      <4>4. repeated'[s] = repeated[s] + accepted.repeats
        BY <2>2, <2>3, <2>8, <2>16 DEF HistoryOK
      <4> QED BY <2>4, <2>6, <4>1, <4>3, <4>4
    <3>3. Remaining(new) <= Window
      <4>1. Remaining(new) <= Remaining(q) + n
        BY <2>3, <2>5, <2>6, Left
      <4>2. Remaining(q) \in Nat /\ Remaining(new) \in Nat
        BY <2>3, <2>6, Left
      <4> QED BY <2>5, <3>1, <4>1, <4>2, Settings
    <3>4. NothingAddedAgain' /\ WithinWindow'
      <4>1. \A z \in Sittings \ {s} : repeated'[z] = repeated[z]
        BY <2>2, <2>8, <2>16 DEF HistoryOK
      <4> QED BY <2>11, <2>15, <3>2, <3>3, <4>1 DEF IndInv, NothingAddedAgain, WithinWindow
    <3>5. CountsOnlyHanded'
      <4>1. queuedTotal \in Nat
        BY <2>2 DEF SessionOK
      <4> QED BY <2>13, <2>15, <4>1 DEF IndInv, CountsOnlyHanded
    <3>6. CooldownApart' /\ LastLanded'
      BY <2>1, <2>16 DEF IndInv, Alone, CooldownApart, LastLanded
    <3>7. KnowsQueue(t)'
      BY <2>12 DEF KnowsQueue
    <3>8. MayLand(t)'
      <4>1. CASE phase'[t] = "answer" /\ tick'[t] = r
        <5>1. Replaced(t)' <=> Replaced(t)
          BY <2>7, <2>15, <4>1 DEF Replaced, s
        <5>2. ASSUME ~Replaced(t) PROVE queuedTotal + Growth(t)' <= handed'
          <6>1. s = sittingId /\ ~isPreparing /\ isLive
            BY <5>2 DEF Replaced, s
          <6>2. queuedTotal <= handed /\ handed' = handed + given /\ queuedTotal \in Nat
            BY <2>2, <2>8, <2>16, <6>1 DEF IndInv, CountsOnlyHanded, SessionOK
          <6>3. /\ tick'[t].sizeAfter = size /\ tick'[t].live.size = q.size
                /\ tick'[t].slice = tick[t].slice
            BY <2>7, <3>1, <4>1
          <6>4. Growth(t)' = given
            <7>1. CASE size = NoSize /\ given = Rows(tick[t].slice)
              BY <6>3, <7>1 DEF Growth, Rows
            <7>2. CASE size = q.size + n /\ given = n
              <8>1. size # NoSize /\ size - q.size = n
                BY <2>4, <2>5, <7>2 DEF NoSize
              <8> QED BY <2>4, <2>5, <6>3, <7>2, <8>1 DEF Growth
            <7> QED BY <1>2, <7>1, <7>2 DEF q, s, n
          <6> QED BY <2>5, <2>13, <6>2, <6>4
        <5>3. ASSUME ~Replaced(t) PROVE lastTopup = 0 \/ tick[t].now - lastTopup >= Cooldown
          BY <2>1, <2>16, <5>3 DEF IndInv, Alone, MayLand
        <5> QED BY <2>7, <2>15, <4>1, <5>1, <5>2, <5>3 DEF MayLand
      <4>2. CASE phase'[t] \in {"idle", "gone"}
        BY <4>2, EndsUnknown
      <4> QED BY <2>12, <4>1, <4>2
    <3>9. s # sittingId => UNCHANGED <<queuedTotal, handed, lastTopup>>
      BY <2>8, <2>15, <2>16
    <3> QED BY <3>4, <3>5, <3>6, <3>7, <3>8, <3>9
  <2>17. phase'[t] \notin {"idle", "gone"} =>
           tick'[t].sitting = tick[t].sitting /\ tick'[t].now = tick[t].now
    BY <2>7, <2>12 DEF s
  <2>18. \A z \in Sittings \ {tick[t].sitting} : queue'[z] = queue[z]
    BY <2>11 DEF s
  <2>19. tick[t].sitting # sittingId /\ ~overlapped => UNCHANGED <<queuedTotal, handed, lastTopup>>
    BY <2>16 DEF s
  <2>20. IndInv'
    BY <2>1, <2>12, <2>14, <2>15, <2>16, <2>17, <2>18, <2>19, Ticked
  <2> QED BY <2>1, <2>20 DEF SilentStep
<1>3. ASSUME NEW accepted \in Kept(tick[t].slice), Accept(t, accepted, Rows(accepted)),
             Answered(t, queue[tick[t].sitting].size + Rows(accepted)) \/ End(t)
      PROVE  IndInv' /\ SilentStep
  BY <1>2, <1>3
<1>4. ASSUME NEW accepted \in Kept(tick[t].slice), Accept(t, accepted, Rows(tick[t].slice)),
             Answered(t, NoSize)
      PROVE  IndInv' /\ SilentStep
  BY <1>2, <1>4
<1> QED BY <1>1, <1>3, <1>4 DEF ExtendPlayQueue

\* A top-up that lands counts what was handed out, a cooldown after the last one.
LEMMA StepAfterExtend ==
  ASSUME IndInv, NEW t \in Tickers, AfterExtend(t)
  PROVE  IndInv' /\ SilentStep
<1>1. CASE GiveUp(t, "answer")
  BY <1>1, StepGiveUp DEF TickPhases
<1>2. CASE ~Replaced(t) /\ Landed(t, tick[t].now, Growth(t))
  <2>1. /\ phase[t] = "answer" /\ lastTopup' = tick[t].now
        /\ queuedTotal' = queuedTotal + Growth(t)
        /\ landed' = IF overlapped THEN <<>> ELSE Append(landed, tick[t].now)
        /\ End(t)
        /\ UNCHANGED <<clock, sittingId, isPreparing, isLive, queue, handed, repeated, overlapped>>
        /\ t \in Active
    BY <1>2 DEF Landed, Active
  <2>2. SessionOK /\ HistoryOK /\ QueuesOK /\ TicksOK
    BY Types DEF IndInv
  <2>3. /\ tick[t] \in TickRecords /\ tick[t].now \in 0..MaxClock + 1 /\ tick[t].now \in Nat
        /\ tick[t].now # 0 /\ Growth(t) \in Nat
    <3>1. tick[t] \in TickRecords /\ tick[t].now # 0
      BY <2>1, TickQueue DEF IndInv, TickHasSitting
    <3>2. /\ tick[t].now \in 0..MaxClock + 1 /\ tick[t].sizeAfter \in Nat \union {NoSize}
          /\ tick[t].live.size \in Nat /\ tick[t].slice \in RowLists
      BY <3>1 DEF TickRecords, PlayQueues
    <3>3. Rows(tick[t].slice) \in Nat
      BY <3>2, RowsOf
    <3> QED BY <3>1, <3>2, <3>3, Settings DEF Growth
  <2>4. /\ TicksOK' /\ phase'[t] \in {"idle", "gone"}
        /\ \A u \in Tickers \ {t} : phase'[u] = phase[u] /\ tick'[u] = tick[u]
    BY <2>1, <2>2, Ended
  <2>5. TypeOK'
    <3>1. SessionOK'
      BY <2>1, <2>2, <2>3 DEF SessionOK
    <3>2. landed' \in Seq(Nat)
      BY <2>1, <2>2, <2>3 DEF HistoryOK
    <3> QED BY <2>1, <2>2, <2>4, <3>1, <3>2, TypesNext DEF HistoryOK, QueuesOK
  <2>6. tick[t].sitting = sittingId
    BY <1>2 DEF Replaced
  <2>7. ASSUME ~overlapped
        PROVE  /\ LastLanded' /\ NothingAddedAgain' /\ WithinWindow' /\ CountsOnlyHanded'
               /\ CooldownApart'
    <3>1. landed' = Append(landed, tick[t].now) /\ landed \in Seq(Nat)
      BY <2>1, <2>2, <2>7 DEF HistoryOK
    <3>2. LastLanded'
      BY <2>1, <2>3, <3>1 DEF LastLanded
    <3>3. queuedTotal + Growth(t) <= handed /\ (lastTopup = 0 \/ tick[t].now - lastTopup >= Cooldown)
      BY <1>2, <2>1, <2>7 DEF IndInv, Alone, MayLand
    <3>4. NothingAddedAgain' /\ WithinWindow' /\ CountsOnlyHanded'
      BY <2>1, <3>3 DEF IndInv, NothingAddedAgain, WithinWindow, CountsOnlyHanded
    <3>5. CooldownApart'
      <4>1. /\ Len(landed') = Len(landed) + 1 /\ landed'[Len(landed) + 1] = tick[t].now
            /\ \A i \in 1..Len(landed) : landed'[i] = landed[i] /\ landed[i] \in Nat
            /\ Len(landed) \in Nat
        BY <2>3, <3>1
      <4>2. \A i, j \in 1..Len(landed) : i < j => landed[j] - landed[i] >= Cooldown
        BY <2>7 DEF IndInv, CooldownApart
      <4>3. ASSUME NEW i \in 1..Len(landed) PROVE tick[t].now - landed[i] >= Cooldown
        <5>1. landed # <<>> /\ Len(landed) \in 1..Len(landed)
          BY <3>1, <4>1, <4>3
        <5>2. lastTopup # 0 /\ landed[Len(landed)] = lastTopup /\ lastTopup \in Nat
          BY <2>2, <2>7, <4>1, <5>1 DEF IndInv, Alone, LastLanded
        <5>3. tick[t].now - lastTopup >= Cooldown
          BY <3>3, <5>2
        <5>4. lastTopup >= landed[i]
          <6>1. CASE i = Len(landed)
            BY <4>1, <5>2, <6>1
          <6>2. CASE i # Len(landed)
            <7>1. landed[Len(landed)] - landed[i] >= Cooldown
              BY <4>1, <4>2, <4>3, <5>1, <6>2
            <7> QED BY <4>1, <5>2, <7>1, Settings
          <6> QED BY <6>1, <6>2
        <5> QED BY <2>3, <4>1, <5>2, <5>3, <5>4, Settings
      <4>4. ASSUME NEW i \in 1..Len(landed'), NEW j \in 1..Len(landed'), i < j
            PROVE  landed'[j] - landed'[i] >= Cooldown
        <5>1. i \in 1..Len(landed)
          BY <4>1, <4>4
        <5>2. CASE j = Len(landed) + 1
          BY <4>1, <4>3, <5>1, <5>2
        <5>3. CASE j \in 1..Len(landed)
          BY <4>1, <4>2, <4>4, <5>1, <5>3
        <5> QED BY <4>1, <5>2, <5>3
      <4> QED BY <4>4 DEF CooldownApart
    <3> QED BY <3>2, <3>4, <3>5
  <2>8. KnowsQueue(t)' /\ MayLand(t)'
    BY <2>4, EndsUnknown
  <2>9. IndInv'
    BY <2>1, <2>4, <2>5, <2>6, <2>7, <2>8, Ticked
  <2>10. SilentStep
    BY <1>2, <2>1, <2>4 DEF SilentStep
  <2> QED BY <2>9, <2>10
<1> QED BY <1>1, <1>2 DEF AfterExtend

----------------------------------------------------------------------------
(* The theorems.                                                           *)

LEMMA Step == IndInv /\ [Next]_vars => IndInv' /\ SilentStep
<1> SUFFICES ASSUME IndInv, [Next]_vars PROVE IndInv' /\ SilentStep
  OBVIOUS
<1>1. CASE UNCHANGED vars
  BY <1>1, Types, Quiet DEF vars, IndInv, SessionOK, sitting, history
<1> QED BY <1>1, StepStartSitting, StepSittingLive, StepSittingFailed, StepSkip, StepTimePasses,
           StepWake, StepAfterAccount, StepAfterRead, StepAfterBuild, StepExtend,
           StepAfterExtend DEF Next, Topup

LEMMA Initially == Init => IndInv
<1> SUFFICES ASSUME Init PROVE IndInv
  OBVIOUS
<1>1. /\ NoPlayQueue \in PlayQueues /\ NoPlayQueue.size = 0 /\ NoPlayQueue.held = {}
  BY DEF NoPlayQueue, PlayQueues
<1>2. SessionOK /\ HistoryOK
  <2>1. 1 \in 1..MaxClock + 1 /\ 0 \in 0..MaxClock + 1 /\ 0 \in 0..MaxSittings
    BY Settings
  <2>2. landed \in Seq(Nat) /\ handed \in Nat /\ overlapped \in BOOLEAN
    <3>1. landed = <<>> /\ handed = 0 /\ overlapped = FALSE
      BY DEF Init
    <3>2. landed \in Seq(Nat)
      BY <3>1
    <3>3. handed \in Nat
      BY <3>1
    <3> QED BY <3>1, <3>2, <3>3
  <2>6. repeated \in [Sittings -> Nat]
    BY DEF Init, NoneRepeated
  <2>3. isPreparing \in BOOLEAN /\ isLive \in BOOLEAN
    BY DEF Init
  <2>4. clock = 1 /\ sittingId = 0 /\ queuedTotal = 0 /\ lastTopup = 0
    BY DEF Init
  <2>5. SessionOK
    BY <2>1, <2>3, <2>4 DEF SessionOK
  <2> QED BY <2>2, <2>5, <2>6 DEF HistoryOK
<1>3. QueuesOK /\ TicksOK
  BY <1>1, NoTicks DEF Init, QueuesOK, TicksOK, TickPhases
<1>4. Active = {} /\ \A t \in Tickers : phase[t] = "idle"
  BY DEF Init, Active
<1>5. TickHasSitting /\ Alone
  BY <1>4 DEF Init, TickHasSitting, Alone, OneTick, LastLanded, KnowsQueue, MayLand
<1>6. NothingAddedAgain /\ WithinWindow
  <2>1. Remaining(NoPlayQueue) <= Window
    BY <1>1, Left, Settings
  <2> QED BY <1>1, <2>1, Sizes DEF Init, NothingAddedAgain, WithinWindow, NoneRepeated
<1>7. CountsOnlyHanded /\ CooldownApart
  BY DEF Init, CountsOnlyHanded, CooldownApart
<1> QED BY <1>2, <1>3, <1>5, <1>6, <1>7, Types DEF IndInv

\* The ticks, the playQueues and the session's counts agree through every
\* interleaving of ticks, sittings and the viewer's skips (topup.ts).
THEOREM Invariance == Spec => []IndInv
<1> QED BY Initially, Step, PTL DEF Spec

\* No top-up adds an item its playQueue has or had: a row repeats one only where a
\* lineup or a slice itself named it twice (topup.ts, what the live queue holds is
\* left out).
THEOREM NothingIsAddedAgain == Spec => []NothingAddedAgain
BY Invariance, PTL DEF IndInv

\* A top-up never fills a playQueue past its window (topup.ts want).
THEOREM WindowIsKept == Spec => []WithinWindow
BY Invariance, PTL DEF IndInv

\* queuedTotal counts what was handed out, dropped items never, but where Plex's
\* answer has no size what was asked for (topup.ts sizeAfter).
THEOREM CountIsHonest == Spec => []CountsOnlyHanded
BY Invariance, PTL DEF IndInv

\* Top-ups that land started a cooldown apart (topup.ts lastTopupMs).
THEOREM CooldownHolds == Spec => []CooldownApart
BY Invariance, PTL DEF IndInv

\* A replaced tick changes neither the session nor the cooldown (topup.ts
\* sittingId).
THEOREM ReplacedIsSilent == Spec => ReplacedTickIsSilent
<1>1. IndInv /\ [Next]_vars => [SilentStep]_vars
  BY Step
<1>2. Spec => [][SilentStep]_vars
  BY <1>1, Invariance, PTL DEF Spec
<1> QED BY <1>2 DEF ReplacedTickIsSilent, SilentStep
=============================================================================
