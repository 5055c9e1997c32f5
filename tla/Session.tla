------------------------------ MODULE Session ------------------------------
(***************************************************************************)
(* server/src/session.ts with the cancellation scope of deviceScope.ts:    *)
(* starting a sitting, replacing it by a newer start, advancing it.        *)
(*                                                                         *)
(* Every command handler is fire-and-forget, so starts and advances run    *)
(* interleaved, each suspended at its awaits.  A start is a process: its   *)
(* phase names the await it is suspended at, and an action is everything   *)
(* the code does from that await to the next one.  Sitting numbers double  *)
(* as the names of starts: start s is the call that made sittingId s.      *)
(*                                                                         *)
(* Data is abstracted to its owner: the identity fields of SESSION         *)
(* (device, kind, set, profile, userUuid), its queue, the armed plans and  *)
(* the watcher are each the number of the start that wrote them, 0 for     *)
(* null or empty.                                                          *)
(***************************************************************************)
EXTENDS Naturals

CONSTANTS
  MaxSittings,   \* bound: how many starts a behaviour may hold
  MaxAdvances,   \* bound: how many advance commands
  MaxLen,        \* bound: longest lineup
  MaxLeads,      \* bound: most entries a lineup may lead with
  MaxPlays,      \* bound: playQueues one handoff builds (PLAYBACK_FSM_PLAY_ATTEMPTS
                 \* and PLAYBACK_SESSION_RETRIES together)
  FSM            \* PLAYBACK_FSM

ASSUME BoundsAssumption ==
  /\ MaxSittings \in Nat /\ MaxAdvances \in Nat /\ MaxLeads \in Nat
  /\ MaxLen \in Nat \ {0} /\ MaxPlays \in Nat \ {0}
  /\ FSM \in BOOLEAN

Sittings == 1..MaxSittings
Advances == 1..MaxAdvances

VARIABLES
  sittingId, isPreparing,
  session,        \* the SESSION singleton
  generation,     \* deviceScope's generation
  scope,          \* the generation each start captured with withDevice(.., true)
  activeCancel,   \* the start whose flag is _activeCancel
  raised,         \* starts whose cancel flag is set
  armed,          \* the start whose resume and section plans are armed
  watching,       \* the start whose watcher is running
  phase,          \* the await each start is suspended at
  work,           \* the locals of each start
  outcome,        \* what each start returned, as far as it has
  leads,          \* how many lead windows each start has stamped
  topic,          \* the retained state: who published it and what
  made,           \* playQueues created so far
  player,         \* the playQueue the player was last told to play
  advance         \* the advance commands

vars == <<sittingId, isPreparing, session, generation, scope, activeCancel,
          raised, armed, watching, phase, work, outcome, leads, topic, made,
          player, advance>>

----------------------------------------------------------------------------
NoQueue == [by |-> 0, no |-> 0]

NoSession == [identity |-> 0, queue |-> 0, count |-> 0, cursor |-> 0,
              playQueue |-> NoQueue]

NoWork == [leads |-> 0, plays |-> 0, playQueue |-> NoQueue]

NoAdvance == [phase |-> "unused", sitting |-> 0, scope |-> 0,
              playQueue |-> NoQueue]

Phases == {"unused", "open", "profile", "logGate", "binding", "lineup",
           "client", "gate", "create", "push", "answer", "stopped", "lead",
           "settle", "done"}

Outcomes == {"none", "ok", "cancelled", "error", "threw"}

Topics == {"boot", "awaiting", "error", "playback", "cleared"}

Queues == [by : 0..MaxSittings, no : Nat]

SessionRecords == [identity : 0..MaxSittings, queue : 0..MaxSittings,
                   count : 0..MaxLen, cursor : Nat, playQueue : Queues]

WorkRecords == [leads : 0..MaxLeads, plays : 0..MaxPlays, playQueue : Queues]

AdvanceRecords == [phase : {"unused", "create", "push", "answer", "done"},
                   sitting : 0..MaxSittings, scope : 0..MaxSittings,
                   playQueue : Queues]

TopicRecords == [by : 0..MaxSittings, kind : Topics]

TypeOK ==
  /\ sittingId \in 0..MaxSittings
  /\ isPreparing \in BOOLEAN
  /\ session \in SessionRecords
  /\ generation \in 0..MaxSittings
  /\ scope \in [Sittings -> 0..MaxSittings]
  /\ activeCancel \in 0..MaxSittings
  /\ raised \in SUBSET Sittings
  /\ armed \in 0..MaxSittings
  /\ watching \in 0..MaxSittings
  /\ phase \in [Sittings -> Phases]
  /\ work \in [Sittings -> WorkRecords]
  /\ outcome \in [Sittings -> Outcomes]
  /\ leads \in [Sittings -> 0..MaxLeads]
  /\ topic \in TopicRecords
  /\ made \in Nat
  /\ player \in Queues
  /\ advance \in [Advances -> AdvanceRecords]

Init ==
  /\ sittingId = 0
  /\ isPreparing = FALSE
  /\ session = NoSession
  /\ generation = 0
  /\ scope = [s \in Sittings |-> 0]
  /\ activeCancel = 0
  /\ raised = {}
  /\ armed = 0
  /\ watching = 0
  /\ phase = [s \in Sittings |-> "unused"]
  /\ work = [s \in Sittings |-> NoWork]
  /\ outcome = [s \in Sittings |-> "none"]
  /\ leads = [s \in Sittings |-> 0]
  /\ topic = [by |-> 0, kind |-> "boot"]
  /\ made = 0
  /\ player = NoQueue
  /\ advance = [a \in Advances |-> NoAdvance]

----------------------------------------------------------------------------
(* Cancellation: the flag a newer start raises, and the generation.        *)

Cancelled(s) == s \in raised

Replaced(s) == scope[s] # generation

Superseded(s) == Cancelled(s) \/ Replaced(s)

Goto(s, where) == phase' = [phase EXCEPT ![s] = where]

Return(s, result) ==
  /\ Goto(s, "settle")
  /\ outcome' = [outcome EXCEPT ![s] = result]

Publish(s, kind) == topic' = [by |-> s, kind |-> kind]

\* The locals and globals nothing but the named action touches.
control == <<sittingId, isPreparing, generation, scope, activeCancel, raised, advance>>
output == <<session, armed, watching, leads, made, player>>

\* if (isSuperseded()) return { cancelled: true }, after any of the awaits
\* where the code asks.
GiveWay(s, where) ==
  /\ phase[s] = where
  /\ Superseded(s)
  /\ Return(s, "cancelled")
  /\ UNCHANGED <<control, output, work, topic>>

\* The same, where the code asks only its own cancel flag.
GiveWayToFlag(s, where) ==
  /\ phase[s] = where
  /\ Cancelled(s)
  /\ Return(s, "cancelled")
  /\ UNCHANGED <<control, output, work, topic>>

\* An error the start publishes and returns.
Refuse(s) ==
  /\ Publish(s, "error")
  /\ Return(s, "error")
  /\ UNCHANGED <<control, output, work>>

----------------------------------------------------------------------------
\* A command arrives as an event of its own, and Node runs what a returned
\* start has left to do (its finally) before it takes the next event.
Drained == \A s \in Sittings : phase[s] # "settle"

\* What startSession does whatever the sitting before was: number the start,
\* invalidate every device operation pending, and open its own scope and flag.
NewScope(s) ==
  /\ Drained
  /\ sittingId < MaxSittings
  /\ s = sittingId + 1
  /\ generation' = generation + 1
  /\ sittingId' = s
  /\ isPreparing' = TRUE
  /\ scope' = [scope EXCEPT ![s] = generation']
  /\ activeCancel' = s
  /\ Goto(s, "open")
  /\ UNCHANGED <<session, armed, work, outcome, leads, topic, made, player, advance>>

RaiseActiveCancel == raised' = raised \union ({activeCancel} \ {0})

(* An operator named after an action and a flaw is that action with the    *)
(* flaw put in; nothing uses it but the mutation runs of PROJECT.json.     *)

\* Mutant: the older start's cancel flag is not raised.
StartSession_FlagLeftDown(s) ==
  NewScope(s) /\ watching' = 0 /\ UNCHANGED raised

\* Mutant: the watcher of the sitting before keeps running.
StartSession_WatchLeftOn(s) ==
  NewScope(s) /\ RaiseActiveCancel /\ UNCHANGED watching

\* startSession, up to the first await of startSessionOnDevice.
StartSession(s) ==
  NewScope(s) /\ RaiseActiveCancel /\ watching' = 0

\* Plex is open (or could not be opened, which is not fatal).  An auto start
\* waits for a profile; a named set is refused (unavailable, or for another
\* profile), or waits for its own profile on the legacy path, or goes on.
AfterOpen(s) ==
  \/ GiveWay(s, "open")
  \/ /\ phase[s] = "open"
     /\ ~Superseded(s)
     /\ \/ Refuse(s)
        \/ /\ \E wait \in {"profile", "logGate"} :
                /\ wait = "logGate" => ~FSM
                /\ Goto(s, wait)
           /\ Publish(s, "awaiting")
           /\ UNCHANGED <<control, output, work, outcome>>
        \/ /\ Goto(s, "binding")
           /\ UNCHANGED <<control, output, work, outcome, topic>>

\* Mutant: the profile wait does not look at the cancel flag.
AfterProfile_Deaf(s) ==
  /\ phase[s] = "profile"
  /\ ~Cancelled(s)
  /\ Goto(s, "binding")
  /\ UNCHANGED <<control, output, work, outcome, topic>>

\* The profile wait of an auto start.  Nobody signed in, no set for that
\* profile, or an unavailable set: refused.
AfterProfile(s) ==
  \/ GiveWayToFlag(s, "profile")
  \/ /\ phase[s] = "profile"
     /\ ~Cancelled(s)
     /\ \/ Refuse(s)
        \/ ~FSM /\ Goto(s, "logGate") /\ Publish(s, "awaiting")
           /\ UNCHANGED <<control, output, work, outcome>>
        \/ Goto(s, "binding") /\ UNCHANGED <<control, output, work, outcome, topic>>

\* The legacy path's wait for the sign-in line of the required profile.
AfterLogGate(s) ==
  \/ GiveWayToFlag(s, "logGate")
  \/ /\ phase[s] = "logGate"
     /\ ~Cancelled(s)
     /\ \/ Refuse(s)
        \/ Goto(s, "binding") /\ UNCHANGED <<control, output, work, outcome, topic>>

\* Mutant: the code goes on without asking whether it was replaced.
AfterBinding_Unchecked(s) ==
  /\ phase[s] = "binding"
  /\ session' = [session EXCEPT !.identity = s, !.cursor = 0]
  /\ Goto(s, "lineup")
  /\ UNCHANGED <<control, armed, watching, leads, made, player, work, outcome, topic>>

\* Mutant: the cursor of the sitting before is kept.
AfterBinding_KeepsCursor(s) ==
  \/ GiveWay(s, "binding")
  \/ /\ phase[s] = "binding"
     /\ ~Superseded(s)
     /\ session' = [session EXCEPT !.identity = s]
     /\ Goto(s, "lineup")
     /\ UNCHANGED <<control, armed, watching, leads, made, player, work, outcome, topic>>

\* The binding is known: the identity fields of SESSION become this start's.
AfterBinding(s) ==
  \/ GiveWay(s, "binding")
  \/ /\ phase[s] = "binding"
     /\ ~Superseded(s)
     /\ session' = [session EXCEPT !.identity = s, !.cursor = 0]
     /\ Goto(s, "lineup")
     /\ UNCHANGED <<control, armed, watching, leads, made, player, work, outcome, topic>>

\* resume.arm, section.arm and startWatch, or both disarmed when neither plan
\* holds anything.  The watcher runs from here, before the handoff.
ArmPlans(s, plan) ==
  /\ armed' = IF plan THEN s ELSE 0
  /\ watching' = IF plan THEN s ELSE 0
  /\ Goto(s, "gate")

\* Token, seasonal reset, buckets, queue write-side and baseline reads are
\* done.  Nothing to play is refused; otherwise the lineup is the session's,
\* and a plan to arm needs the Companion client first.
AfterLineup(s) ==
  \/ GiveWay(s, "lineup")
  \/ /\ phase[s] = "lineup"
     /\ ~Superseded(s)
     /\ \/ Refuse(s)
        \/ \E len \in 1..MaxLen, led \in 0..MaxLeads, plan \in BOOLEAN :
             /\ led <= len
             /\ session' = [session EXCEPT !.queue = s, !.count = len]
             /\ work' = [work EXCEPT ![s].leads = led]
             /\ IF plan THEN Goto(s, "client") /\ UNCHANGED <<armed, watching>>
                        ELSE ArmPlans(s, FALSE)
             /\ UNCHANGED <<control, outcome, leads, topic, made, player>>

AfterClient(s) ==
  \/ GiveWay(s, "client")
  \/ /\ phase[s] = "client"
     /\ ~Superseded(s)
     /\ ArmPlans(s, TRUE)
     /\ UNCHANGED <<control, session, work, outcome, leads, topic, made, player>>

----------------------------------------------------------------------------
(* The handoff: profile gate, playQueue, playMedia, audit.                 *)

\* The gate opened, or its retries ran out (a result with an error, which
\* startSession publishes only if it was not superseded meanwhile).
AfterGate(s) ==
  \/ GiveWay(s, "gate")
  \/ /\ phase[s] = "gate"
     /\ ~Superseded(s)
     /\ \/ Refuse(s)
        \/ Goto(s, "create") /\ UNCHANGED <<control, output, work, outcome, topic>>

\* POST /playQueues.  plexReq refuses to send for a replaced operation.
CreateQueue(s) ==
  \/ /\ phase[s] = "create"
     /\ Replaced(s)
     /\ Return(s, "cancelled")
     /\ UNCHANGED <<control, output, work, topic>>
  \/ /\ phase[s] = "create"
     /\ ~Replaced(s)
     /\ \/ Goto(s, "stopped") /\ UNCHANGED <<work, made>>
        \/ /\ made' = made + 1
           /\ work' = [work EXCEPT ![s].playQueue = [by |-> s, no |-> made + 1],
                                   ![s].plays = work[s].plays + 1]
           /\ Goto(s, "push")
     /\ UNCHANGED <<control, session, armed, watching, leads, player, outcome, topic>>

\* playMedia.  Accepted; or failed, in which case the player may have got it
\* all the same (a timeout), and a refused connection is tried again from the
\* playQueue on, under the FSM.
PushQueue(s) ==
  \/ /\ phase[s] = "push"
     /\ Replaced(s)
     /\ Return(s, "cancelled")
     /\ UNCHANGED <<control, output, work, topic>>
  \/ /\ phase[s] = "push"
     /\ ~Replaced(s)
     /\ \/ player' = work[s].playQueue /\ Goto(s, "answer")
        \/ player' \in {player, work[s].playQueue} /\ Goto(s, "stopped")
        \/ FSM /\ work[s].plays < MaxPlays /\ Goto(s, "create") /\ UNCHANGED player
     /\ UNCHANGED <<control, session, armed, watching, leads, made, work, outcome, topic>>

\* The audit saw no session on the player: push once more.
PushAgain(s) ==
  /\ FSM
  /\ phase[s] = "answer"
  /\ ~Superseded(s)
  /\ work[s].plays < MaxPlays
  /\ Goto(s, "create")
  /\ UNCHANGED <<control, output, work, outcome, topic>>

\* The audit found the play under another account: stop it, best effort.
StopWrongAccount(s) ==
  /\ FSM
  /\ phase[s] = "answer"
  /\ ~Superseded(s)
  /\ player' \in {player, NoQueue}
  /\ Goto(s, "stopped")
  /\ UNCHANGED <<control, session, armed, watching, leads, made, work, outcome, topic>>

\* One turn of the lead loop: stamp the next window, or finish.
NextLead(s) ==
  IF leads[s] < work[s].leads
    THEN /\ leads' = [leads EXCEPT ![s] = leads[s] + 1]
         /\ Goto(s, "lead")
         /\ UNCHANGED <<outcome, topic>>
    ELSE /\ Publish(s, "playback")
         /\ Return(s, "ok")
         /\ UNCHANGED leads

\* Mutant: the error of the handoff is not looked at.
AfterFailedHandoff_Ignored(s) ==
  \/ GiveWay(s, "stopped")
  \/ /\ phase[s] = "stopped"
     /\ ~Superseded(s)
     /\ session' = [session EXCEPT !.playQueue = work[s].playQueue]
     /\ NextLead(s)
     /\ UNCHANGED <<control, armed, watching, made, player, work>>

\* The handoff resolved with an error.
AfterFailedHandoff(s) ==
  \/ GiveWay(s, "stopped")
  \/ /\ phase[s] = "stopped"
     /\ ~Superseded(s)
     /\ Refuse(s)

\* Mutant: the playQueue of the handoff is not remembered.
AfterHandoff_Forgets(s) ==
  \/ GiveWay(s, "answer")
  \/ /\ phase[s] = "answer"
     /\ ~Superseded(s)
     /\ NextLead(s)
     /\ UNCHANGED <<control, session, armed, watching, made, player, work>>

\* The handoff resolved and playback started: remember the playQueue and
\* spend the lead windows this lineup promised.
AfterHandoff(s) ==
  \/ GiveWay(s, "answer")
  \/ /\ phase[s] = "answer"
     /\ ~Superseded(s)
     /\ session' = [session EXCEPT !.playQueue = work[s].playQueue]
     /\ NextLead(s)
     /\ UNCHANGED <<control, armed, watching, made, player, work>>

AfterLead(s) ==
  \/ GiveWay(s, "lead")
  \/ /\ phase[s] = "lead"
     /\ ~Superseded(s)
     /\ NextLead(s)
     /\ UNCHANGED <<control, session, armed, watching, made, player, work>>

----------------------------------------------------------------------------
(* The tail of startSession: clear after a failure, and the finally.       *)

\* startSessionOnDevice rejected: an awaited call did, or the registry it
\* loads after the first check was unreadable.
Throw(s) ==
  /\ \/ phase[s] \in {"binding", "lineup", "gate"}
     \/ phase[s] = "open" /\ ~Superseded(s)
  /\ Return(s, "threw")
  /\ UNCHANGED <<control, output, work, topic>>

\* clearFailedPreparation, which asks whether the start is still the newest.
ClearFailedPreparation(s) ==
  IF sittingId = s /\ outcome[s] # "ok"
    THEN session' = NoSession /\ armed' = 0 /\ watching' = 0
    ELSE UNCHANGED <<session, armed, watching>>

\* A failed newest start publishes how it failed.  A start that threw is
\* reported by mqttd's handleStart, which does not ask whether it is the newest.
ReportFailure(s) ==
  CASE outcome[s] = "threw" -> Publish(s, "error")
    [] outcome[s] = "error" /\ sittingId = s -> Publish(s, "error")
    [] outcome[s] = "cancelled" /\ sittingId = s -> Publish(s, "cleared")
    [] OTHER -> UNCHANGED topic

SettleRest(s) ==
  /\ phase[s] = "settle"
  /\ ReportFailure(s)
  /\ Goto(s, "done")
  /\ UNCHANGED <<sittingId, generation, scope, activeCancel, raised, advance,
                 leads, made, player, work, outcome>>

\* Mutant: a failed start leaves what it had put in place.
Settle_NotCleared(s) ==
  /\ SettleRest(s)
  /\ isPreparing' = (isPreparing /\ sittingId # s)
  /\ UNCHANGED <<session, armed, watching>>

\* Mutant: any start that settles ends the preparation, the newest's too.
Settle_EndsAnyPreparation(s) ==
  /\ SettleRest(s)
  /\ ClearFailedPreparation(s)
  /\ isPreparing' = FALSE

\* Mutant: the flag is not reset in a finally, so a throw leaves it set.
Settle_NoFinally(s) ==
  /\ SettleRest(s)
  /\ ClearFailedPreparation(s)
  /\ isPreparing' = (isPreparing /\ (sittingId # s \/ outcome[s] = "threw"))

Settle(s) ==
  /\ SettleRest(s)
  /\ ClearFailedPreparation(s)
  /\ isPreparing' = (isPreparing /\ sittingId # s)

Start(s) ==
  \/ AfterOpen(s) \/ AfterProfile(s) \/ AfterLogGate(s) \/ AfterBinding(s)
  \/ AfterLineup(s) \/ AfterClient(s) \/ AfterGate(s) \/ CreateQueue(s)
  \/ PushQueue(s) \/ PushAgain(s) \/ StopWrongAccount(s)
  \/ AfterFailedHandoff(s) \/ AfterHandoff(s) \/ AfterLead(s) \/ Throw(s)
  \/ Settle(s)

----------------------------------------------------------------------------
(* advanceSession.                                                         *)

Overtaken(a) == sittingId # advance[a].sitting \/ isPreparing

\* What plexReq asks inside withCancellation and withDevice.
AdvanceCancelled(a) == Overtaken(a) \/ advance[a].scope # generation

\* The cursor moves before the first await, and stops at the last item.
AdvanceSession(a) ==
  /\ Drained
  /\ advance[a].phase = "unused"
  /\ ~isPreparing
  /\ session.count > 0
  /\ session' = [session EXCEPT !.cursor =
                   IF session.cursor + 1 < session.count
                     THEN session.cursor + 1 ELSE session.count - 1]
  /\ advance' = [advance EXCEPT ![a] = [phase |-> "create", sitting |-> sittingId,
                                        scope |-> generation, playQueue |-> NoQueue]]
  /\ UNCHANGED <<sittingId, isPreparing, generation, scope, activeCancel, raised,
                 armed, watching, phase, work, outcome, leads, topic, made, player>>

\* playRatingKeys builds a NEW playQueue for the rest of the lineup ...
AdvanceCreate(a) ==
  /\ advance[a].phase = "create"
  /\ IF AdvanceCancelled(a)
       THEN advance' = [advance EXCEPT ![a].phase = "answer"] /\ UNCHANGED made
       ELSE \/ advance' = [advance EXCEPT ![a].phase = "answer"] /\ UNCHANGED made
            \/ /\ made' = made + 1
               /\ advance' = [advance EXCEPT ![a].phase = "push",
                    ![a].playQueue = [by |-> advance[a].sitting, no |-> made + 1]]
  /\ UNCHANGED <<sittingId, isPreparing, session, generation, scope, activeCancel,
                 raised, armed, watching, phase, work, outcome, leads, topic, player>>

\* ... and tells the player to play it.
AdvancePush(a) ==
  /\ advance[a].phase = "push"
  /\ \/ ~AdvanceCancelled(a) /\ player' = advance[a].playQueue
     \/ UNCHANGED player
  /\ advance' = [advance EXCEPT ![a].phase = "answer"]
  /\ UNCHANGED <<sittingId, isPreparing, session, generation, scope, activeCancel,
                 raised, armed, watching, phase, work, outcome, leads, topic, made>>

\* Mutant: the answer is published without asking whether a start came in.
AdvanceAnswer_Unchecked(a) ==
  /\ advance[a].phase = "answer"
  /\ Publish(advance[a].sitting, "playback")
  /\ advance' = [advance EXCEPT ![a].phase = "done"]
  /\ UNCHANGED <<sittingId, isPreparing, session, generation, scope, activeCancel,
                 raised, armed, watching, phase, work, outcome, leads, made, player>>

AdvanceAnswer(a) ==
  /\ advance[a].phase = "answer"
  /\ IF Overtaken(a) THEN UNCHANGED topic
                      ELSE Publish(advance[a].sitting, "playback")
  /\ advance' = [advance EXCEPT ![a].phase = "done"]
  /\ UNCHANGED <<sittingId, isPreparing, session, generation, scope, activeCancel,
                 raised, armed, watching, phase, work, outcome, leads, made, player>>

Advance(a) == AdvanceSession(a) \/ AdvanceCreate(a) \/ AdvancePush(a) \/ AdvanceAnswer(a)

Done ==
  /\ sittingId = MaxSittings
  /\ \A s \in Sittings : phase[s] = "done"
  /\ \A a \in Advances : \/ advance[a].phase = "done"
                         \/ advance[a].phase = "unused" /\ session.count = 0
  /\ UNCHANGED vars

Next ==
  \/ \E s \in Sittings : StartSession(s) \/ Start(s)
  \/ \E a \in Advances : Advance(a)
  \/ Done

Spec == Init /\ [][Next]_vars

\* Every await of a start is bounded by a timeout, so a started start goes on.
FairSpec == Spec /\ \A s \in Sittings : WF_vars(Start(s))

----------------------------------------------------------------------------
(* Properties.                                                             *)

\* Whenever no start is preparing, SESSION is all of one start or empty: the
\* identity fields, the queue, the playQueue, the armed plans and the watcher
\* never mix two starts, and a failed start leaves nothing behind.  This is
\* what the readers that ask only isPreparing (advance, topup, finished, sse)
\* rely on.
CoherentSession ==
  ~isPreparing =>
    IF session.queue = 0
      THEN session = NoSession /\ armed = 0 /\ watching = 0
      ELSE /\ session.queue = sittingId
           /\ session.identity = sittingId
           /\ session.playQueue.by = sittingId
           /\ armed \in {0, sittingId}
           /\ watching = armed

\* The watcher only ever runs for the newest start, on the plans and over the
\* queue that same start put in place: it is never left seeking or skipping
\* with the lineup of a sitting that was replaced.
WatcherServesNewest ==
  watching # 0 =>
    watching = sittingId /\ armed = watching /\ session.queue = watching

\* A lead window is spent only by a start whose lineup reached the player: one
\* that ended in an error, or threw, or never built a playQueue spent none.
LeadsEarned ==
  \A s \in Sittings :
    leads[s] > 0 => /\ outcome[s] \notin {"error", "threw"}
                    /\ work[s].playQueue.by = s
                    /\ leads[s] <= work[s].leads

\* A start that was replaced does nothing any more to the session, the plans,
\* the watcher, the lead windows or the player, at whatever await it was
\* suspended when the newer start came in.
ReplacedStartIsSilent ==
  [][\A s \in Sittings :
       s # sittingId' /\ phase'[s] # phase[s] =>
         UNCHANGED <<session, armed, watching, isPreparing, leads, player>>]_vars

\* An advance that a newer start overtook does not move the session, command
\* the player or write the retained state any more.
ReplacedAdvanceIsSilent ==
  [][\A a \in Advances :
       /\ advance[a].phase # "unused"
       /\ advance'[a].phase # advance[a].phase
       /\ advance[a].sitting # sittingId \/ isPreparing
       => UNCHANGED <<session, player, topic>>]_vars

\* The cursor names an item of the lineup, however advances and starts
\* interleave: no advance takes the cursor of one lineup into a shorter one.
CursorInLineup == session.count > 0 => session.cursor < session.count

\* With nothing in flight and a session in place, the player was last told to
\* play the playQueue the session remembers ("The LIVE playQueue this session
\* pushed, so a later top-up can extend the queue the viewer is actually in").
PlayerFollowsSession ==
  /\ ~isPreparing
  /\ session.queue # 0
  /\ \A a \in Advances : advance[a].phase \in {"unused", "done"}
  => player = session.playQueue

\* A start that is preparing stops preparing, and every start returns.
PreparationEnds == isPreparing ~> ~isPreparing

StartsReturn == \A s \in Sittings : phase[s] = "open" ~> phase[s] = "done"

----------------------------------------------------------------------------
(* The inductive invariant behind CoherentSession, WatcherServesNewest and *)
(* LeadsEarned.                                                            *)

Bound == {"lineup", "client", "gate", "create", "push", "answer", "stopped", "lead"}
Loaded == Bound \ {"lineup"}
Handing == Loaded \ {"client"}
Suspended == Phases \ {"unused", "settle", "done"}

\* The flags and the generation agree on which start is the newest.
NewestAgreed ==
  /\ generation = sittingId
  /\ activeCancel = sittingId
  /\ \A s \in Sittings :
       /\ s \in raised <=> s < sittingId
       /\ s <= sittingId => scope[s] = s
       /\ phase[s] = "unused" <=> s > sittingId
       /\ phase[s] \in Suspended \union {"unused"} <=> outcome[s] = "none"
       /\ s = sittingId => (isPreparing <=> phase[s] # "done")
  /\ sittingId = 0 => ~isPreparing

\* How much of the session the newest start owns at each of its awaits.
Ownership ==
  \A s \in Sittings :
    /\ phase[s] \in {"push", "answer"} => work[s].playQueue.by = s
    /\ s = sittingId /\ phase[s] \in Bound => session.identity = s
    /\ s = sittingId /\ phase[s] \in Loaded => session.queue = s
    /\ s = sittingId /\ phase[s] \in Handing => armed \in {0, s} /\ watching = armed
    /\ s = sittingId /\ phase[s] \in Suspended \ Handing => watching = 0
    /\ s = sittingId /\ phase[s] = "lead" => session.playQueue.by = s
    /\ s = sittingId /\ phase[s] = "settle" /\ outcome[s] = "ok" =>
         /\ session.identity = s /\ session.queue = s /\ session.playQueue.by = s
         /\ armed \in {0, s} /\ watching = armed

\* A start about to build a playQueue has an attempt left.
PlayBudget ==
  \A s \in Sittings :
    /\ phase[s] = "create" => work[s].plays < MaxPlays
    /\ phase[s] \in Suspended \ {"create", "push", "answer", "stopped", "lead"} =>
         work[s].plays = 0
    /\ phase[s] = "unused" => work[s].plays = 0

\* Lead windows are stamped in the lead loop and nowhere else.
LeadLoop ==
  \A s \in Sittings :
    /\ leads[s] > 0 => phase[s] \in {"lead", "settle", "done"}
    /\ phase[s] = "lead" => work[s].playQueue.by = s

IndInv ==
  /\ TypeOK /\ NewestAgreed /\ Ownership /\ PlayBudget /\ LeadLoop
  /\ CoherentSession /\ WatcherServesNewest /\ LeadsEarned

\* Session implements Sitting: the newest start wins.
Abstract == INSTANCE Sitting WITH
  current <- sittingId,
  status <- IF isPreparing THEN "preparing"
            ELSE IF session.queue = 0 THEN "idle" ELSE "playing",
  loaded <- IF isPreparing THEN 0 ELSE session.queue

NewestWins == Abstract!Spec
=============================================================================
