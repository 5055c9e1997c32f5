------------------------- MODULE EventStream_proofs -------------------------
(***************************************************************************)
(* Proofs about EventStream for every set of players and tabs and any      *)
(* number of sittings and events.                                          *)
(***************************************************************************)
EXTENDS EventStream, SequenceTheorems, TLAPS

Sessions == [sitting : 0 .. MaxSittings, preparing : BOOLEAN, dev : Devices, target : Devices]
Handlers == [now : Snapshot, fresh : BOOLEAN, at : {"enrich", "bump"}]
Frames == Snapshot \cup {None}

\* The snapshot is of the device selected and of the sitting kept with it, and
\* no newer than the last event.
SnapshotIsKept ==
  lastNow # None => /\ lastNow.dev = stateDev /\ lastNow.sitting = nowSitting
                    /\ lastNow.n <= events

\* A lookup that may still be used is that of the last event.
FreshIsLast == \A h \in handlers : h.fresh => h.now.n = events

\* What tabs show is no newer than the last event, nor than the snapshot.
ShownInOrder ==
  \A c \in Clients : shown[c].n <= events /\ (lastNow # None => shown[c].n <= lastNow.n)

IndInv == TypeOK /\ SnapshotIsKept /\ FreshIsLast /\ ShownInOrder

\* What FramesAreCurrent says of a step.
FramesStep ==
  \A c \in Clients : (shown'[c] # shown[c] /\ shown'[c] # None) =>
    /\ shown'[c].sitting = session'.sitting
    /\ shown'[c].dev = stateDev'
    /\ shown'[c].n >= shown[c].n

----------------------------------------------------------------------------
(* The records and what an update leaves of them.                          *)

\* The type invariant, with its records named.
LEMMA Types ==
  TypeOK <=> /\ session \in Sessions /\ states \in Seq(Devices) /\ stateDev \in Devices
             /\ lastNow \in Frames /\ nowSitting \in 0 .. MaxSittings
             /\ handlers \subseteq Handlers /\ events \in 0 .. MaxEvents
             /\ online \subseteq Clients /\ shown \in [Clients -> Frames]
  BY DEF TypeOK, Sessions, Handlers, Frames

\* The same of the next state.
LEMMA TypesNext ==
  TypeOK' <=> /\ session' \in Sessions /\ states' \in Seq(Devices) /\ stateDev' \in Devices
              /\ lastNow' \in Frames /\ nowSitting' \in 0 .. MaxSittings
              /\ handlers' \subseteq Handlers /\ events' \in 0 .. MaxEvents
              /\ online' \subseteq Clients /\ shown' \in [Clients -> Frames]
  BY DEF TypeOK, Sessions, Handlers, Frames

\* A snapshot names a positive event; no snapshot names the event 0.
LEMMA FrameNumbers ==
  /\ None \in Frames /\ None.n = 0
  /\ \A s \in Snapshot : s.n \in Nat /\ s.n # 0 /\ s # None
  /\ \A f \in Frames : f.n \in Nat
<1>1. None \in Frames /\ None.n = 0
  BY DEF Frames, None
<1>2. \A s \in Snapshot : s.n \in Nat /\ s.n # 0
  BY BoundsAssumption DEF Snapshot
<1> QED BY <1>1, <1>2 DEF Frames

\* Outdating the lookups leaves lookups, none of them fresh.
LEMMA OutdatedLookups ==
  ASSUME NEW hs \in SUBSET Handlers
  PROVE  Outdated(hs) \subseteq Handlers /\ \A h \in Outdated(hs) : ~h.fresh
  BY DEF Outdated, Handlers

\* What a tab is served is the snapshot, of this sitting, or nothing.
LEMMA Serving ==
  ASSUME NEW now \in Frames, NEW s
  PROVE  /\ Served(now, s) \in {now, None} /\ Served(now, s) \in Frames
         /\ Served(now, s) # None => s = session.sitting
  BY FrameNumbers DEF Served

\* Sending the snapshot to every tab: what is proved of it once for all handlers.
LEMMA Sent ==
  ASSUME shown \in [Clients -> Frames], NEW now \in Frames, NEW s, Broadcast(now, s),
         UNCHANGED session,
         now # None => /\ now.sitting = s /\ now.dev = stateDev'
                       /\ now.n <= events'
                       /\ \A c \in Clients : shown[c].n <= now.n,
         events' \in Nat,
         \A c \in Clients : shown[c].n <= events'
  PROVE  /\ shown' \in [Clients -> Frames] /\ FramesStep
         /\ \A c \in Clients : /\ shown'[c].n <= events'
                               /\ now # None => shown'[c].n <= now.n
<1>1. \A c \in Clients : shown'[c] = IF c \in online THEN Served(now, s) ELSE shown[c]
  BY DEF Broadcast
<1>2. shown' \in [Clients -> Frames]
  BY <1>1, Serving DEF Broadcast
<1>3. ASSUME NEW c \in Clients
      PROVE  /\ shown'[c].n <= events' /\ (now # None => shown'[c].n <= now.n)
             /\ (shown'[c] # shown[c] /\ shown'[c] # None) =>
                  /\ shown'[c].sitting = session'.sitting
                  /\ shown'[c].dev = stateDev'
                  /\ shown'[c].n >= shown[c].n
  <2>1. CASE shown'[c] = shown[c]
    BY <2>1
  <2>2. CASE shown'[c] = None
    BY <2>2, FrameNumbers DEF Frames
  <2>3. CASE shown'[c] = now /\ now # None /\ s = session.sitting
    BY <2>3, FrameNumbers
  <2> QED BY <1>1, <2>1, <2>2, <2>3, Serving
<1> QED BY <1>2, <1>3 DEF FramesStep

----------------------------------------------------------------------------
(* One lemma per action: the invariant survives it, and the frames it sends *)
(* are current.                                                            *)

\* A step that leaves sse.ts alone sends no frame.
LEMMA Untouched ==
  ASSUME IndInv, session' \in Sessions, states' \in Seq(Devices),
         UNCHANGED <<stateDev, lastNow, nowSitting, handlers, events, online, shown>>
  PROVE  IndInv' /\ FramesStep
<1>1. TypeOK'
  BY Types, TypesNext DEF IndInv
<1>2. SnapshotIsKept' /\ FreshIsLast' /\ ShownInOrder'
  BY DEF IndInv, SnapshotIsKept, FreshIsLast, ShownInOrder
<1> QED BY <1>1, <1>2 DEF IndInv, FramesStep

\* The session's own steps keep the invariant and send no frame.
LEMMA StepSession ==
  ASSUME IndInv, (\E d \in Devices : Start(d) \/ Settled(d)) \/ Publish \/ Load
  PROVE  IndInv' /\ FramesStep
<1>1. session \in Sessions /\ states \in Seq(Devices)
  BY Types DEF IndInv
<1>2. ASSUME NEW d \in Devices PROVE Append(states, d) \in Seq(Devices)
  BY <1>1
<1>3. ASSUME NEW d \in Devices, Start(d) PROVE IndInv' /\ FramesStep
  <2>1. session.sitting \in 0 .. MaxSittings
    BY <1>1 DEF Sessions
  <2>2. session.sitting < MaxSittings
    BY <1>3 DEF Start
  <2>3. session.sitting + 1 \in 0 .. MaxSittings
    BY <2>1, <2>2, BoundsAssumption
  <2>4. session' \in Sessions
    BY <1>1, <1>3, <2>3 DEF Start, Sessions
  <2> QED BY <1>1, <1>3, <2>4, Untouched DEF Start
<1>4. ASSUME NEW d \in Devices, Settled(d) PROVE IndInv' /\ FramesStep
  <2>1. session' \in Sessions
    BY <1>1, <1>4 DEF Settled, Sessions
  <2> QED BY <1>2, <1>4, <2>1, Untouched DEF Settled
<1>5. CASE Publish
  <2>1. session.dev \in Devices
    BY <1>1 DEF Sessions
  <2> QED BY <1>1, <1>2, <1>5, <2>1, Untouched DEF Publish
<1>6. CASE Load
  <2>1. session' \in Sessions
    BY <1>1, <1>6 DEF Load, Sessions
  <2> QED BY <1>1, <1>6, <2>1, Untouched DEF Load
<1> QED BY <1>3, <1>4, <1>5, <1>6

\* A state message keeps the invariant: a snapshot that outlives it is of the
\* device it names and of this sitting, and that is what the tabs are sent.
LEMMA StepOnState ==
  ASSUME IndInv, OnState
  PROVE  IndInv' /\ FramesStep
<1> DEFINE next == Head(states)
           kept == IF session.preparing \/ nowSitting # session.sitting
                      \/ (lastNow # None /\ lastNow.dev # next) THEN None ELSE lastNow
<1>1. /\ states # <<>> /\ states' = Tail(states) /\ stateDev' = next
      /\ handlers' = handlers \/ handlers' = Outdated(handlers)
      /\ lastNow' = kept /\ nowSitting' = session.sitting
      /\ Broadcast(kept, session.sitting) /\ UNCHANGED <<session, events, online>>
  BY DEF OnState
<1>2. /\ session \in Sessions /\ states \in Seq(Devices) /\ lastNow \in Frames
      /\ handlers \in SUBSET Handlers /\ events \in 0 .. MaxEvents /\ online \subseteq Clients
      /\ shown \in [Clients -> Frames] /\ nowSitting \in 0 .. MaxSittings
  BY Types DEF IndInv
<1>3. Tail(states) \in Seq(Devices) /\ next \in Devices
  BY <1>1, <1>2
<1>4. /\ kept \in Frames /\ kept \in {None, lastNow}
      /\ kept # None => nowSitting = session.sitting /\ lastNow.dev = next
  BY <1>2, FrameNumbers
<1> HIDE DEF next, kept
<1>5. kept # None => /\ kept.sitting = session.sitting /\ kept.dev = stateDev'
                     /\ kept.n <= events
  BY <1>1, <1>4 DEF IndInv, SnapshotIsKept
<1>6. /\ \A c \in Clients : shown[c].n <= events
      /\ kept # None => \A c \in Clients : shown[c].n <= kept.n
  BY <1>4 DEF IndInv, ShownInOrder
<1>7. events' = events /\ events \in Nat
  BY <1>1, <1>2, BoundsAssumption
<1>8. /\ shown' \in [Clients -> Frames] /\ FramesStep
      /\ \A c \in Clients : /\ shown'[c].n <= events'
                            /\ kept # None => shown'[c].n <= kept.n
  BY <1>1, <1>2, <1>4, <1>5, <1>6, <1>7, Sent
<1>9. handlers' \subseteq Handlers /\ \A h \in handlers' : h.fresh => h.now.n = events'
  BY <1>1, <1>2, OutdatedLookups DEF IndInv, FreshIsLast
<1>10. session.sitting \in 0 .. MaxSittings
  BY <1>2 DEF Sessions
<1>11. TypeOK'
  BY <1>1, <1>2, <1>3, <1>4, <1>8, <1>9, <1>10, TypesNext
<1>12. SnapshotIsKept'
  BY <1>1, <1>5, <1>7 DEF SnapshotIsKept
<1> QED BY <1>1, <1>8, <1>9, <1>11, <1>12 DEF IndInv, FreshIsLast, ShownInOrder

\* An event keeps the invariant: it outdates every lookup before its own.
LEMMA StepOnNowPlaying ==
  ASSUME IndInv, OnNowPlaying
  PROVE  IndInv' /\ FramesStep
<1> DEFINE mine == [now |-> [n |-> events + 1, sitting |-> session.sitting, dev |-> stateDev],
                    fresh |-> TRUE, at |-> "enrich"]
<1>1. /\ events < MaxEvents /\ events' = events + 1
      /\ handlers' \subseteq Outdated(handlers) \cup {mine}
      /\ UNCHANGED <<session, states, stateDev, lastNow, nowSitting, online, shown>>
  BY DEF OnNowPlaying
<1>2. /\ session \in Sessions /\ stateDev \in Devices /\ lastNow \in Frames
      /\ handlers \in SUBSET Handlers /\ events \in 0 .. MaxEvents
      /\ shown \in [Clients -> Frames]
  BY Types DEF IndInv
<1>3. events + 1 \in 1 .. MaxEvents /\ events + 1 \in 0 .. MaxEvents /\ events \in Nat
  BY <1>1, <1>2, BoundsAssumption
<1>4. session.sitting \in 0 .. MaxSittings
  BY <1>2 DEF Sessions
<1>5. [n |-> events + 1, sitting |-> session.sitting, dev |-> stateDev] \in Snapshot
  BY <1>2, <1>3, <1>4 DEF Snapshot
<1>6. mine \in Handlers /\ mine.now.n = events + 1
  BY <1>5 DEF Handlers
<1> HIDE DEF mine
<1>7. handlers' \subseteq Handlers /\ \A h \in handlers' : h.fresh => h.now.n = events'
  BY <1>1, <1>2, <1>6, OutdatedLookups
<1>8. TypeOK'
  BY <1>1, <1>2, <1>3, <1>7, Types, TypesNext DEF IndInv
<1>9. SnapshotIsKept'
  BY <1>1, <1>2, <1>3, FrameNumbers DEF IndInv, SnapshotIsKept
<1>10. \A c \in Clients : shown[c].n \in Nat /\ shown[c].n <= events
  BY <1>2, FrameNumbers DEF IndInv, ShownInOrder
<1>11. ShownInOrder'
  BY <1>1, <1>3, <1>10 DEF IndInv, ShownInOrder
<1> QED BY <1>1, <1>7, <1>8, <1>9, <1>11 DEF IndInv, FreshIsLast, FramesStep

\* The end of a lookup keeps the invariant: only that of the last event is used,
\* and only for the device and the sitting it was made for.
LEMMA StepEnriched ==
  ASSUME IndInv, NEW h \in handlers, Enriched(h)
  PROVE  IndInv' /\ FramesStep
<1>1. /\ session \in Sessions /\ stateDev \in Devices /\ lastNow \in Frames
      /\ handlers \in SUBSET Handlers /\ events \in 0 .. MaxEvents /\ events \in Nat
      /\ nowSitting \in 0 .. MaxSittings /\ shown \in [Clients -> Frames]
  BY Types, BoundsAssumption DEF IndInv
<1>2. UNCHANGED <<session, states, stateDev, events, online>>
  BY DEF Enriched
<1>3. /\ h.now \in Snapshot /\ h.now \in Frames /\ h.now.sitting \in 0 .. MaxSittings
      /\ [h EXCEPT !.at = "bump"] \in Handlers
      /\ [h EXCEPT !.at = "bump"].fresh = h.fresh /\ [h EXCEPT !.at = "bump"].now = h.now
  BY <1>1 DEF Handlers, Frames, Snapshot
<1>4. handlers' \subseteq handlers \cup {[h EXCEPT !.at = "bump"]}
  BY DEF Enriched
<1>5. handlers' \subseteq Handlers /\ FreshIsLast'
  BY <1>1, <1>2, <1>3, <1>4 DEF IndInv, FreshIsLast
<1>6. \A c \in Clients : shown[c].n <= events
  BY DEF IndInv, ShownInOrder
<1>7. CASE IsCurrent(h)
  <2>1. h.now.n = events /\ h.now.dev = stateDev
    BY <1>7 DEF IsCurrent, IndInv, FreshIsLast
  <2>2. lastNow' = h.now /\ nowSitting' = h.now.sitting
    BY <1>7 DEF Enriched
  <2>3. /\ shown' \in [Clients -> Frames] /\ FramesStep
        /\ \A c \in Clients : shown'[c].n <= events
    <3>1. CASE UNCHANGED shown
      BY <1>1, <1>6, <3>1 DEF FramesStep
    <3>2. CASE Broadcast(h.now, h.now.sitting)
      BY <1>1, <1>2, <1>3, <1>6, <2>1, <3>2, Sent
    <3> QED BY <1>7, <3>1, <3>2 DEF Enriched
  <2>4. TypeOK'
    BY <1>1, <1>2, <1>3, <1>5, <2>2, <2>3, Types, TypesNext DEF IndInv
  <2>5. SnapshotIsKept' /\ ShownInOrder'
    BY <1>1, <1>2, <2>1, <2>2, <2>3 DEF SnapshotIsKept, ShownInOrder
  <2> QED BY <1>5, <2>3, <2>4, <2>5 DEF IndInv
<1>8. CASE ~IsCurrent(h)
  <2>1. UNCHANGED <<lastNow, nowSitting, shown>>
    BY <1>8 DEF Enriched
  <2>2. TypeOK'
    BY <1>2, <1>5, <2>1, Types, TypesNext DEF IndInv
  <2>3. SnapshotIsKept' /\ ShownInOrder' /\ FramesStep
    BY <1>2, <2>1 DEF IndInv, SnapshotIsKept, ShownInOrder, FramesStep
  <2> QED BY <1>5, <2>2, <2>3 DEF IndInv
<1> QED BY <1>7, <1>8

\* So does the end of the cached rows' refresh: what it sends is the snapshot.
LEMMA StepBumped ==
  ASSUME IndInv, NEW h \in handlers, Bumped(h)
  PROVE  IndInv' /\ FramesStep
<1>1. /\ lastNow \in Frames /\ handlers \in SUBSET Handlers
      /\ events \in 0 .. MaxEvents /\ events \in Nat /\ shown \in [Clients -> Frames]
  BY Types, BoundsAssumption DEF IndInv
<1>2. /\ UNCHANGED <<session, states, stateDev, lastNow, nowSitting, events, online>>
      /\ handlers' \subseteq handlers
      /\ UNCHANGED shown \/ Broadcast(lastNow, nowSitting)
  BY DEF Bumped
<1>3. \A c \in Clients : /\ shown[c].n <= events
                         /\ lastNow # None => shown[c].n <= lastNow.n
  BY DEF IndInv, ShownInOrder
<1>4. /\ shown' \in [Clients -> Frames] /\ FramesStep
      /\ \A c \in Clients : /\ shown'[c].n <= events
                            /\ lastNow # None => shown'[c].n <= lastNow.n
  <2>1. CASE UNCHANGED shown
    BY <1>1, <1>3, <2>1 DEF FramesStep
  <2>2. CASE Broadcast(lastNow, nowSitting)
    BY <1>1, <1>2, <1>3, <2>2, Sent DEF IndInv, SnapshotIsKept
  <2> QED BY <1>2, <2>1, <2>2
<1>5. TypeOK'
  BY <1>1, <1>2, <1>4, Types, TypesNext DEF IndInv
<1>6. SnapshotIsKept' /\ FreshIsLast' /\ ShownInOrder'
  BY <1>2, <1>4 DEF IndInv, SnapshotIsKept, FreshIsLast, ShownInOrder
<1> QED BY <1>4, <1>5, <1>6 DEF IndInv

\* A tab that comes or goes keeps the invariant: one that comes is served the
\* snapshot, no older than what it shows.
LEMMA StepClient ==
  ASSUME IndInv, NEW c \in Clients, Connect(c) \/ Disconnect(c)
  PROVE  IndInv' /\ FramesStep
<1>1. /\ UNCHANGED <<session, states, stateDev, lastNow, nowSitting, handlers, events>>
      /\ online' \subseteq online \cup {c}
  BY DEF Connect, Disconnect
<1>2. /\ lastNow \in Frames /\ online \subseteq Clients /\ events \in Nat
      /\ shown \in [Clients -> Frames]
  BY Types, BoundsAssumption DEF IndInv
<1>3. /\ \A d \in Clients \ {c} : shown'[d] = shown[d]
      /\ shown'[c] \in {shown[c], Served(lastNow, nowSitting)}
      /\ shown' \in [Clients -> Frames]
  BY <1>2, Serving DEF Connect, Disconnect
<1>4. /\ \A d \in Clients : /\ shown'[d].n <= events
                            /\ lastNow # None => shown'[d].n <= lastNow.n
      /\ (shown'[c] # shown[c] /\ shown'[c] # None) =>
           /\ shown'[c] = lastNow /\ lastNow # None
           /\ nowSitting = session.sitting
           /\ shown'[c].n >= shown[c].n
  <2>1. \A d \in Clients : /\ shown[d].n \in Nat /\ shown[d].n <= events
                           /\ lastNow # None => shown[d].n <= lastNow.n
    BY <1>2, FrameNumbers DEF IndInv, ShownInOrder
  <2>2. lastNow.n \in Nat /\ (lastNow # None => lastNow.n <= events)
    BY <1>2, FrameNumbers DEF IndInv, SnapshotIsKept
  <2>3. CASE shown'[c] = shown[c]
    BY <1>3, <2>1, <2>3
  <2>4. CASE shown'[c] = None
    BY <1>2, <1>3, <2>1, <2>2, <2>4, FrameNumbers
  <2>5. CASE shown'[c] = lastNow /\ lastNow # None /\ nowSitting = session.sitting
    BY <1>3, <2>1, <2>2, <2>5
  <2> QED BY <1>2, <1>3, <2>3, <2>4, <2>5, Serving
<1>5. TypeOK'
  BY <1>1, <1>2, <1>3, Types, TypesNext DEF IndInv
<1>6. SnapshotIsKept' /\ FreshIsLast' /\ ShownInOrder'
  BY <1>1, <1>4 DEF IndInv, SnapshotIsKept, FreshIsLast, ShownInOrder
<1>7. FramesStep
  BY <1>1, <1>3, <1>4 DEF FramesStep, IndInv, SnapshotIsKept
<1> QED BY <1>5, <1>6, <1>7 DEF IndInv

\* Every step keeps the invariant and sends current frames only.
LEMMA Step == IndInv /\ [Next]_vars => IndInv' /\ FramesStep
<1> SUFFICES ASSUME IndInv, [Next]_vars PROVE IndInv' /\ FramesStep
  OBVIOUS
<1>1. CASE UNCHANGED vars
  BY <1>1, Types, Untouched DEF vars, IndInv
<1> QED
  BY <1>1, StepSession, StepOnState, StepOnNowPlaying, StepEnriched, StepBumped, StepClient
  DEF Next

\* The invariant holds before the first sitting.
LEMMA Initially == Init => IndInv
<1> SUFFICES ASSUME Init PROVE IndInv
  OBVIOUS
<1>1. lastNow = None /\ \A c \in Clients : shown[c] = None
  BY DEF Init
<1>2. /\ states = <<>> /\ nowSitting = 0 /\ handlers = {} /\ events = 0
      /\ online = {} /\ shown \in [Clients -> Frames]
  BY FrameNumbers DEF Init
<1>3. session \in Sessions /\ stateDev \in Devices
  <2>1. 0 \in 0 .. MaxSittings
    BY BoundsAssumption
  <2> QED BY <2>1 DEF Init, Sessions
<1>4. 0 \in 0 .. MaxSittings /\ 0 \in 0 .. MaxEvents
  BY BoundsAssumption
<1>5. TypeOK
  BY <1>1, <1>2, <1>3, <1>4, FrameNumbers, Types
<1>6. SnapshotIsKept /\ FreshIsLast /\ ShownInOrder
  BY <1>1, <1>2, FrameNumbers DEF SnapshotIsKept, FreshIsLast, ShownInOrder
<1> QED BY <1>5, <1>6 DEF IndInv

----------------------------------------------------------------------------
(* The theorems.                                                           *)

\* The snapshot, the lookups under way and what every tab shows keep their
\* order and their device through every interleaving (sse.ts onNowPlaying,
\* onState).
THEOREM Invariance == Spec => []IndInv
<1> QED BY Initially, Step, PTL DEF Spec

\* A tab is sent nothing, or an event of this sitting and of the device
\* selected that is no older than any it showed (sse.ts isCurrent, lastNow).
THEOREM FramesHold == Spec => FramesAreCurrent
<1>1. IndInv /\ [Next]_vars => [FramesStep]_vars
  BY Step
<1>2. Spec => [][FramesStep]_vars
  BY <1>1, Invariance, PTL DEF Spec
<1> QED BY <1>2 DEF FramesAreCurrent, FramesStep
=============================================================================
