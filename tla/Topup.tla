------------------------------- MODULE Topup -------------------------------
(***************************************************************************)
(* server/src/topup.ts, the push path: keeping the live playQueue of a     *)
(* refilling set filled while its sitting plays.                           *)
(*                                                                         *)
(* A tick is woken by the scheduler's timer, which never runs two at once  *)
(* (topupScheduler.ts), or by the MQTT command, which asks nobody.  It     *)
(* reads Plex, builds a lineup and appends, suspended at each await; the   *)
(* sitting may be replaced and the viewer may move on meanwhile.           *)
(*                                                                         *)
(* One set is modelled, so every sitting shares its cooldown.  A lineup is *)
(* the set of its items and how many of its rows repeat one of them, which *)
(* the builder may deal and nobody takes out.  A playQueue is the set of   *)
(* items in it, how many rows it has and which row plays.                  *)
(***************************************************************************)
EXTENDS Integers, Sequences, FiniteSets

CONSTANTS
  Items,        \* what the set's sources can offer
  Window,       \* ROTATION_LENGTH
  At,           \* TOPUP_AT
  Cooldown,     \* TOPUP_COOLDOWN_SECONDS, in units of the clock
  Target,       \* the playback length, 0 for an infinite one
  Commands,     \* manual top-up commands, each sent at most once
  MaxSittings,  \* bound: sittings in a behaviour
  MaxClock      \* bound: the clock

ASSUME TopupAssumption ==
  /\ Window \in Nat \ {0} /\ At \in Nat /\ Cooldown \in Nat \ {0}
  /\ Target \in Nat /\ (Target = 0 \/ Target > Window)
  /\ MaxSittings \in Nat /\ MaxClock \in Nat
  /\ IsFiniteSet(Items)
  /\ "timer" \notin Commands

Tickers == {"timer"} \union Commands
Sittings == 1..MaxSittings

VARIABLES
  clock,
  sittingId, isPreparing, queuedTotal,   \* of SESSION; its playQueue is the sitting's
  isLive,        \* SESSION.playQueueID is not null
  queue,         \* the playQueue of each sitting, at Plex
  lastTopup,     \* lastTopupMs of the set, 0 before the first
  phase,         \* the await each tick is suspended at
  tick,          \* the locals of each tick
  handed,        \* history: what the newest sitting asked to start with and can know it was given since
  repeated,      \* history: of each playQueue, the rows a lineup or a slice itself repeated
  landed,        \* history: when the top-ups that landed had started
  overlapped     \* history: whether two ticks were ever under way for one sitting

vars == <<clock, sittingId, isPreparing, queuedTotal, isLive, queue, lastTopup,
          phase, tick, handed, repeated, landed, overlapped>>
sitting == <<sittingId, isPreparing, queuedTotal, isLive>>
history == <<handed, repeated, landed, overlapped>>
NoneRepeated == [s \in Sittings |-> 0]

RowLists == [items : SUBSET Items, repeats : Nat]
Nothing == [items |-> {}, repeats |-> 0]
Rows(list) == Cardinality(list.items) + list.repeats

\* The lineups of at most n rows out of some items; some row is the first.
Lineups(from, n) ==
  {list \in [items : SUBSET from, repeats : 0..n] : list.items # {} /\ Rows(list) <= n}

\* What Plex may keep of a lineup: the rows the account can see.
Kept(list) ==
  {part \in [items : SUBSET list.items, repeats : 0..list.repeats] :
     part.items = {} => part.repeats = 0}

NoPlayQueue == [held |-> {}, size |-> 0, offset |-> 0]

NoSize == -1   \* Plex's answer has no size

NoTick == [now |-> 0, sitting |-> 0, total |-> 0, live |-> NoPlayQueue,
           slice |-> Nothing, sizeAfter |-> 0]

PlayQueues == [held : SUBSET Items, size : Nat, offset : Nat]

TypeOK ==
  /\ clock \in 1..MaxClock + 1
  /\ sittingId \in 0..MaxSittings
  /\ isPreparing \in BOOLEAN /\ isLive \in BOOLEAN
  /\ queuedTotal \in Nat
  /\ queue \in [Sittings -> PlayQueues]
  /\ lastTopup \in 0..MaxClock + 1
  /\ phase \in [Tickers -> {"idle", "account", "read", "build", "extend", "answer", "gone"}]
  /\ tick \in [Tickers -> [now : 0..MaxClock + 1, sitting : 0..MaxSittings, total : Nat,
                           live : PlayQueues, slice : RowLists, sizeAfter : Nat \union {NoSize}]]
  /\ handed \in Nat /\ repeated \in [Sittings -> Nat]
  /\ landed \in Seq(Nat) /\ overlapped \in BOOLEAN

Init ==
  /\ clock = 1
  /\ sittingId = 0 /\ isPreparing = FALSE /\ queuedTotal = 0 /\ isLive = FALSE
  /\ queue = [s \in Sittings |-> NoPlayQueue]
  /\ lastTopup = 0
  /\ phase = [t \in Tickers |-> "idle"]
  /\ tick = [t \in Tickers |-> NoTick]
  /\ handed = 0 /\ repeated = NoneRepeated
  /\ landed = <<>> /\ overlapped = FALSE

----------------------------------------------------------------------------
(* The sitting the ticks work for (session.ts) and the viewer.             *)

StartSitting ==
  /\ sittingId < MaxSittings
  /\ sittingId' = sittingId + 1
  /\ isPreparing' = TRUE
  /\ UNCHANGED <<clock, queuedTotal, isLive, queue, lastTopup, phase, tick, history>>

\* The histories of what the sitting was handed, until two ticks overlap.
NoteHanded(s, total, repeats) ==
  IF overlapped
    THEN UNCHANGED <<handed, repeated>>
    ELSE /\ handed' = IF s = sittingId THEN total ELSE handed
         /\ repeated' = [repeated EXCEPT ![s] = repeats]

\* A lineup of at most a window reached the player, in a playQueue that holds
\* what Plex kept of it.  queuedTotal starts over, at the lineup asked for,
\* whatever Plex dropped of it.
SittingLive ==
  /\ isPreparing
  /\ \E lineup \in Lineups(Items, Window) : \E kept \in Kept(lineup) :
       /\ kept # Nothing
       /\ queuedTotal' = Rows(lineup)
       /\ queue' = [queue EXCEPT ![sittingId] =
                      [held |-> kept.items, size |-> Rows(kept), offset |-> 0]]
       /\ NoteHanded(sittingId, Rows(lineup), kept.repeats)
  /\ isPreparing' = FALSE
  /\ isLive' = TRUE
  /\ UNCHANGED <<clock, sittingId, lastTopup, phase, tick, landed, overlapped>>

\* The start came to nothing and SESSION was cleared.
SittingFailed ==
  /\ isPreparing
  /\ isPreparing' = FALSE /\ isLive' = FALSE /\ queuedTotal' = 0
  /\ UNCHANGED <<clock, sittingId, queue, lastTopup, phase, tick, history>>

\* The viewer goes on to the next item of what is on the screen.
Skip ==
  /\ sittingId > 0
  /\ queue[sittingId].offset + 1 < queue[sittingId].size
  /\ queue' = [queue EXCEPT ![sittingId].offset = queue[sittingId].offset + 1]
  /\ UNCHANGED <<clock, sitting, lastTopup, phase, tick, history>>

TimePasses ==
  /\ clock <= MaxClock
  /\ clock' = clock + 1
  /\ UNCHANGED <<sitting, queue, lastTopup, phase, tick, history>>

----------------------------------------------------------------------------
(* One tick.                                                               *)

CoolingDown == lastTopup # 0 /\ clock - lastTopup < Cooldown

IsTargetMet(total) == Target # 0 /\ total >= Target

\* Everything a tick checks again after each await.
Replaced(t) == isPreparing \/ sittingId # tick[t].sitting \/ ~isLive

\* Only the timer wakes again.
End(t) ==
  /\ phase' = [phase EXCEPT ![t] = IF t = "timer" THEN "idle" ELSE "gone"]
  /\ tick' = [tick EXCEPT ![t] = NoTick]

Goto(t, where) == phase' = [phase EXCEPT ![t] = where]

Remaining(q) == IF q.offset + 1 < q.size THEN q.size - q.offset - 1 ELSE 0

WindowLeft(total) ==
  LET left == IF total < Target THEN Target - total ELSE 0
  IN  IF Target = 0 \/ left > Window THEN Window ELSE IF left = 0 THEN 1 ELSE left

\* Mutant: a whole window on top of what is left.
Want_WholeWindow(t) == WindowLeft(tick[t].total)

\* Refill back to the window, not a window on top of what is left.
Want(t) ==
  LET window == WindowLeft(tick[t].total)
  IN  IF window > Remaining(tick[t].live) THEN window - Remaining(tick[t].live) ELSE 0

\* A no-op return, for a reason or because the sitting was replaced.
GiveUp(t, where) ==
  /\ phase[t] = where
  /\ End(t)
  /\ UNCHANGED <<clock, sitting, queue, lastTopup, history>>

\* Another tick is under way for this sitting.
IsRunning == \E u \in Tickers : phase[u] \notin {"idle", "gone"} /\ tick[u].sitting = sittingId

\* The histories are kept until it happens.
NoteOverlap ==
  /\ overlapped' = (overlapped \/ IsRunning)
  /\ handed' = IF overlapped' THEN 0 ELSE handed
  /\ repeated' = IF overlapped' THEN NoneRepeated ELSE repeated
  /\ landed' = IF overlapped' THEN <<>> ELSE landed

\* Mutant: the cooldown is not looked at.
Wake_NoCooldown(t) ==
  /\ phase[t] = "idle"
  /\ ~isPreparing /\ isLive
  /\ ~IsTargetMet(queuedTotal)
  /\ tick' = [tick EXCEPT ![t] = [NoTick EXCEPT !.now = clock, !.sitting = sittingId,
                                                !.total = queuedTotal]]
  /\ Goto(t, "account")
  /\ NoteOverlap
  /\ UNCHANGED <<clock, sitting, queue, lastTopup>>

\* Wake-up.  The scheduler drops a wake-up that finds its last tick running
\* (phase is then not "idle").  The checks up to the first await; the session
\* is snapshot.
Wake(t) ==
  /\ phase[t] = "idle"
  /\ ~CoolingDown
  /\ ~isPreparing /\ isLive
  /\ ~IsTargetMet(queuedTotal)
  /\ tick' = [tick EXCEPT ![t] = [NoTick EXCEPT !.now = clock, !.sitting = sittingId,
                                                !.total = queuedTotal]]
  /\ Goto(t, "account")
  /\ NoteOverlap
  /\ UNCHANGED <<clock, sitting, queue, lastTopup>>

\* The binding and its token.
AfterAccount(t) ==
  \/ Replaced(t) /\ GiveUp(t, "account")
  \/ /\ phase[t] = "account" /\ ~Replaced(t)
     /\ Goto(t, "read")
     /\ UNCHANGED <<clock, sitting, queue, lastTopup, tick, history>>

\* The live playQueue was read: gone, or still long enough, or short.
AfterRead(t) ==
  \/ GiveUp(t, "read")
  \/ /\ phase[t] = "read" /\ ~Replaced(t)
     /\ tick' = [tick EXCEPT ![t].live = queue[tick[t].sitting]]
     /\ Remaining(queue[tick[t].sitting]) <= At
     /\ Want(t)' > 0
     /\ Goto(t, "build")
     /\ UNCHANGED <<clock, sitting, queue, lastTopup, history>>

\* Of what was read, only the size is looked at again.
Sent(t, slice) ==
  tick' = [tick EXCEPT ![t] = [NoTick EXCEPT !.now = tick[t].now, !.sitting = tick[t].sitting,
                                             !.live.size = tick[t].live.size, !.slice = slice]]

\* Mutant: what the live queue already holds is not taken out.
AfterBuild_AddsAgain(t) ==
  \/ GiveUp(t, "build")
  \/ /\ phase[t] = "build" /\ ~Replaced(t)
     /\ \E slice \in Lineups(Items, Want(t)) : Sent(t, slice)
     /\ Goto(t, "extend")
     /\ UNCHANGED <<clock, sitting, queue, lastTopup, history>>

\* A lineup was built: what the live queue did not hold when it was read, cut
\* to what is wanted, is sent off, with what it repeats.
AfterBuild(t) ==
  \/ GiveUp(t, "build")
  \/ /\ phase[t] = "build" /\ ~Replaced(t)
     /\ \E slice \in Lineups(Items \ tick[t].live.held, Want(t)) : Sent(t, slice)
     /\ Goto(t, "extend")
     /\ UNCHANGED <<clock, sitting, queue, lastTopup, history>>

\* Plex takes what the account may see of the slice; `given` is what the code
\* can know of it.
Accept(t, accepted, given) ==
  LET s == tick[t].sitting
      q == queue[s]
  IN  /\ queue' = [queue EXCEPT ![s].held = q.held \union accepted.items,
                                ![s].size = q.size + Rows(accepted)]
      /\ NoteHanded(s, handed + given, repeated[s] + accepted.repeats)

Answered(t, size) ==
  /\ tick' = [tick EXCEPT ![t].sizeAfter = size]
  /\ Goto(t, "answer")

\* PUT /playQueues/{id}.  The answer has the new size, or does not.  The request
\* may fail, before it was applied or, when a later server group fails or the
\* answer is lost, after.
ExtendPlayQueue(t) ==
  /\ phase[t] = "extend"
  /\ \/ \E accepted \in Kept(tick[t].slice) :
          \/ /\ Accept(t, accepted, Rows(accepted))
             /\ Answered(t, queue[tick[t].sitting].size + Rows(accepted)) \/ End(t)
          \/ /\ Accept(t, accepted, Rows(tick[t].slice))
             /\ Answered(t, NoSize)
     \/ UNCHANGED <<queue, handed, repeated>> /\ End(t)
  /\ UNCHANGED <<clock, sitting, lastTopup, landed, overlapped>>

\* What the queue grew by, which is not what was asked for; what was asked for
\* where the answer did not say.
Growth(t) ==
  LET grown == tick[t].sizeAfter - tick[t].live.size
  IN  IF tick[t].sizeAfter = NoSize THEN Rows(tick[t].slice) ELSE IF grown > 0 THEN grown ELSE 0

Landed(t, spent, added) ==
  /\ phase[t] = "answer"
  /\ lastTopup' = spent
  /\ queuedTotal' = queuedTotal + added
  /\ landed' = IF overlapped THEN <<>> ELSE Append(landed, tick[t].now)
  /\ End(t)
  /\ UNCHANGED <<clock, sittingId, isPreparing, isLive, queue, handed, repeated, overlapped>>

\* Mutant: nobody asks whether the sitting was replaced meanwhile.
AfterExtend_Unchecked(t) == Landed(t, tick[t].now, Growth(t))

\* Mutant: what was asked for is counted.
AfterExtend_CountsAsked(t) ==
  \/ Replaced(t) /\ GiveUp(t, "answer")
  \/ ~Replaced(t) /\ Landed(t, tick[t].now, Rows(tick[t].slice))

\* The new size came back: spend the cooldown and count the growth.
AfterExtend(t) ==
  \/ Replaced(t) /\ GiveUp(t, "answer")
  \/ ~Replaced(t) /\ Landed(t, tick[t].now, Growth(t))

Topup(t) ==
  \/ Wake(t) \/ AfterAccount(t) \/ AfterRead(t) \/ AfterBuild(t)
  \/ ExtendPlayQueue(t) \/ AfterExtend(t)

Next ==
  \/ StartSitting \/ SittingLive \/ SittingFailed \/ Skip \/ TimePasses
  \/ \E t \in Tickers : Topup(t)

Spec == Init /\ [][Next]_vars

----------------------------------------------------------------------------
(* Properties.                                                             *)

\* Two ticks may run at once, the timer's and a command's, and both then act on
\* one reading; what is said of the playQueue is said while that has not happened.

\* No top-up adds an item the playQueue has or had: a row repeats one only where
\* a lineup or a slice itself named it twice ("Re-adding a short they watched ten
\* minutes ago is the most visible way this feature can look broken").
NothingAddedAgain ==
  ~overlapped => \A s \in Sittings : queue[s].size = Cardinality(queue[s].held) + repeated[s]

\* A top-up refills to the window and never past it, although the viewer moves
\* on between the read and the append and an append's answer may be lost.
WithinWindow == ~overlapped => \A s \in Sittings : Remaining(queue[s]) <= Window

\* queuedTotal counts only what the newest sitting asked to start with and was
\* given since: never an item of the sitting before, never one that Plex
\* dropped from a top-up, unless the answer had no size to tell it by.
CountsOnlyHanded ==
  ~overlapped /\ ~isPreparing /\ isLive => queuedTotal <= handed

\* Top-ups that landed had started at least a cooldown apart ("so a duplicated
\* command or timer cannot walk the lineup up one tick at a time"), whatever
\* sittings came and went between them.
CooldownApart ==
  ~overlapped =>
    \A i, j \in 1..Len(landed) : i < j => landed[j] - landed[i] >= Cooldown

\* A tick whose sitting was replaced changes neither SESSION nor the cooldown.
ReplacedTickIsSilent ==
  [][\A t \in Tickers :
       phase'[t] # phase[t] /\ Replaced(t) /\ phase[t] # "idle" =>
         UNCHANGED <<sitting, lastTopup>>]_vars
=============================================================================
