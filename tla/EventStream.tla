---------------------------- MODULE EventStream ----------------------------
(***************************************************************************)
(* What is on screen, as the open tabs see it.                             *)
(*                                                                         *)
(* sse.ts keeps the last now-playing snapshot and pushes it to every tab.  *)
(* An event of the player is enriched with lookups that take time, while   *)
(* newer events, state messages and whole new sittings come in; a tab that *)
(* slept reconnects and is sent the snapshot.  Events of a device reach    *)
(* sse.ts only while the last state message names that device.             *)
(*                                                                         *)
(* `nowRevision` is modelled by what it is compared for: each handler      *)
(* knows whether the revision is still the one it started under.           *)
(***************************************************************************)
EXTENDS Naturals, Sequences, FiniteSets

CONSTANTS
  Devices,      \* the players
  Clients,      \* the open tabs
  MaxSittings,  \* bound on the sittings begun
  MaxEvents     \* bound on the player's events

ASSUME BoundsAssumption == MaxSittings \in Nat /\ MaxEvents \in Nat

VARIABLES
  session,    \* SESSION: its sitting, isPreparing, its device and the one asked for
  states,     \* state messages on their way from the session to mqttc, in order
  stateDev,   \* the device of the last state message, mqttc.lastState and selectedDeviceId
  lastNow,    \* LAST_NOW
  nowSitting, \* lastNowSitting
  handlers,   \* the onNowPlaying calls under way
  events,     \* events received so far
  online,     \* the registry of tabs
  shown       \* what each tab shows

vars == <<session, states, stateDev, lastNow, nowSitting, handlers, events, online, shown>>

None == [n |-> 0]
Snapshot == [n : 1 .. MaxEvents, sitting : 0 .. MaxSittings, dev : Devices]

TypeOK ==
  /\ session \in [sitting : 0 .. MaxSittings, preparing : BOOLEAN, dev : Devices, target : Devices]
  /\ states \in Seq(Devices) /\ stateDev \in Devices
  /\ lastNow \in Snapshot \cup {None}
  /\ nowSitting \in 0 .. MaxSittings
  /\ handlers \subseteq [now : Snapshot, fresh : BOOLEAN, at : {"enrich", "bump"}]
  /\ events \in 0 .. MaxEvents
  /\ online \subseteq Clients
  /\ shown \in [Clients -> Snapshot \cup {None}]

Init ==
  /\ \E d \in Devices :
       /\ session = [sitting |-> 0, preparing |-> FALSE, dev |-> d, target |-> d]
       /\ stateDev = d
  /\ states = <<>> /\ lastNow = None /\ nowSitting = 0 /\ handlers = {} /\ events = 0
  /\ online = {} /\ shown = [c \in Clients |-> None]

----------------------------------------------------------------------------
(* The session. *)

\* startSession: a new sitting, in preparation until its hand-off is over.
Start(d) ==
  /\ session.sitting < MaxSittings
  /\ session' = [session EXCEPT !.sitting = @ + 1, !.preparing = TRUE, !.target = d]
  /\ UNCHANGED <<states, stateDev, lastNow, nowSitting, handlers, events, online, shown>>

\* A state message on the way; it says what the session said when it was sent.
Publish ==
  /\ session.preparing /\ Len(states) < 2
  /\ states' = Append(states, session.dev)
  /\ UNCHANGED <<session, stateDev, lastNow, nowSitting, handlers, events, online, shown>>

\* The lineup is loaded onto the session, the device with it.
Load ==
  /\ session.preparing /\ session.dev # session.target
  /\ session' = [session EXCEPT !.dev = session.target]
  /\ UNCHANGED <<states, stateDev, lastNow, nowSitting, handlers, events, online, shown>>

\* Started or failed, the last thing a preparation does is to publish.
Settled(d) ==
  /\ session.preparing /\ d \in {session.dev, session.target}
  /\ session' = [session EXCEPT !.preparing = FALSE, !.dev = d, !.target = d]
  /\ states' = Append(states, d)
  /\ UNCHANGED <<stateDev, lastNow, nowSitting, handlers, events, online, shown>>

----------------------------------------------------------------------------
(* sse.ts. *)

\* What lastNow() answers once the snapshot is `now` of sitting `s`.
Served(now, s) == IF session.preparing \/ s # session.sitting THEN None ELSE now

Broadcast(now, s) == shown' = [c \in Clients |-> IF c \in online THEN Served(now, s) ELSE shown[c]]

\* Mutant: the revision is not looked at.
IsCurrent_Unordered(h) ==
  /\ ~session.preparing
  /\ h.now.sitting = session.sitting /\ h.now.dev = stateDev

\* The lookup's answer may still be used.
IsCurrent(h) ==
  /\ h.fresh /\ ~session.preparing
  /\ h.now.sitting = session.sitting /\ h.now.dev = stateDev

Outdated(hs) == {[h EXCEPT !.fresh = FALSE] : h \in hs}

\* Mutant: a state message drops the snapshot and tells nobody.
OnState_Quiet ==
  /\ states # <<>>
  /\ states' = Tail(states) /\ stateDev' = Head(states)
  /\ handlers' = Outdated(handlers)
  /\ lastNow' = None /\ nowSitting' = session.sitting
  /\ UNCHANGED <<session, events, online, shown>>

\* onState: a change of device or sitting drops the snapshot and every lookup.
OnState ==
  /\ states # <<>>
  /\ LET next == Head(states)
         kept == IF session.preparing \/ nowSitting # session.sitting
                    \/ (lastNow # None /\ lastNow.dev # next) THEN None ELSE lastNow
     IN /\ states' = Tail(states) /\ stateDev' = next
        /\ handlers' = IF session.preparing \/ stateDev # next THEN Outdated(handlers) ELSE handlers
        /\ lastNow' = kept /\ nowSitting' = session.sitting
        /\ Broadcast(kept, session.sitting)
  /\ UNCHANGED <<session, events, online>>

\* onNowPlaying: an event outdates every lookup before it, even when it is
\* itself dropped because a sitting is being prepared.
OnNowPlaying ==
  /\ events < MaxEvents
  /\ events' = events + 1
  /\ handlers' = Outdated(handlers) \cup
       (IF session.preparing THEN {}
        ELSE {[now |-> [n |-> events + 1, sitting |-> session.sitting, dev |-> stateDev],
               fresh |-> TRUE, at |-> "enrich"]})
  /\ UNCHANGED <<session, states, stateDev, lastNow, nowSitting, online, shown>>

\* The lookup ends: the snapshot is replaced; a show's cached rows may have to
\* be dropped before the tabs hear of it.
Enriched(h) ==
  /\ h.at = "enrich"
  /\ IF IsCurrent(h)
       THEN /\ lastNow' = h.now /\ nowSitting' = h.now.sitting
            /\ \/ handlers' = (handlers \ {h}) \cup {[h EXCEPT !.at = "bump"]} /\ UNCHANGED shown
               \/ handlers' = handlers \ {h} /\ Broadcast(h.now, h.now.sitting)
       ELSE handlers' = handlers \ {h} /\ UNCHANGED <<lastNow, nowSitting, shown>>
  /\ UNCHANGED <<session, states, stateDev, events, online>>

Bumped(h) ==
  /\ h.at = "bump"
  /\ handlers' = handlers \ {h}
  /\ IF IsCurrent(h) THEN Broadcast(lastNow, nowSitting) ELSE UNCHANGED shown
  /\ UNCHANGED <<session, states, stateDev, lastNow, nowSitting, events, online>>

\* A tab connects, is registered and is sent the snapshot.
Connect(c) ==
  /\ c \notin online
  /\ online' = online \cup {c}
  /\ shown' = [shown EXCEPT ![c] = Served(lastNow, nowSitting)]
  /\ UNCHANGED <<session, states, stateDev, lastNow, nowSitting, handlers, events>>

\* A tab sleeps: it keeps showing what it showed.
Disconnect(c) ==
  /\ c \in online
  /\ online' = online \ {c}
  /\ UNCHANGED <<session, states, stateDev, lastNow, nowSitting, handlers, events, shown>>

Next ==
  \/ \E d \in Devices : Start(d) \/ Settled(d)
  \/ Publish \/ Load \/ OnState \/ OnNowPlaying
  \/ \E h \in handlers : Enriched(h) \/ Bumped(h)
  \/ \E c \in Clients : Connect(c) \/ Disconnect(c)

\* A preparation ends, its messages arrive, and a woken tab gets through in the end.
Spec ==
  /\ Init /\ [][Next]_vars
  /\ WF_vars(OnState) /\ WF_vars(\E d \in Devices : Settled(d))
  /\ \A c \in Clients : SF_vars(Connect(c))

----------------------------------------------------------------------------
\* A frame a tab is sent carries nothing, or an event of this sitting and of
\* the selected device that is no older than any it was shown before, however
\* the lookups of earlier events, state messages and sittings interleave
\* (sse.ts isCurrent, lastNow, onState).
FramesAreCurrent ==
  [][\A c \in Clients : (shown'[c] # shown[c] /\ shown'[c] # None) =>
       /\ shown'[c].sitting = session'.sitting
       /\ shown'[c].dev = stateDev'
       /\ shown'[c].n >= shown[c].n]_vars

\* A tab does not go on showing what an earlier sitting played (sse.ts onState,
\* the replay on connect).
StaleFramesGo ==
  \A c \in Clients : (shown[c] # None /\ shown[c].sitting # session.sitting)
                       ~> (shown[c] = None \/ shown[c].sitting = session.sitting)
=============================================================================
