--------------------------- MODULE Session_proofs ---------------------------
(***************************************************************************)
(* Proofs about Session for every number of sittings and advances, every   *)
(* lineup length and every number of attempts.                             *)
(***************************************************************************)
EXTENDS Session, TLAPS

(* Records, and what an update leaves of their type.                       *)

\* The fields of a SESSION record are what the interface in session.ts declares.
LEMMA SessionFields ==
  ASSUME NEW r \in SessionRecords
  PROVE  /\ r.identity \in 0..MaxSittings /\ r.queue \in 0..MaxSittings
         /\ r.count \in 0..MaxLen /\ r.cursor \in Nat /\ r.playQueue \in Queues
  BY DEF SessionRecords

\* The number of a start is a positive number within the bound.
LEMMA Bounds ==
  ASSUME NEW s \in Sittings
  PROVE  s \in Nat /\ s # 0 /\ s \in 0..MaxSittings
  BY BoundsAssumption DEF Sittings

\* Writing the identity fields leaves SESSION a SESSION, with that identity.
LEMMA BindSession ==
  ASSUME NEW r \in SessionRecords, NEW n \in 0..MaxSittings
  PROVE  /\ [r EXCEPT !.identity = n, !.cursor = 0] \in SessionRecords
         /\ [r EXCEPT !.identity = n, !.cursor = 0].identity = n
  BY DEF SessionRecords

\* Assigning the queue leaves SESSION a SESSION, with its identity.
LEMMA LoadSession ==
  ASSUME NEW r \in SessionRecords, NEW n \in 0..MaxSittings, NEW l \in 0..MaxLen
  PROVE  /\ [r EXCEPT !.queue = n, !.count = l] \in SessionRecords
         /\ [r EXCEPT !.queue = n, !.count = l].identity = r.identity
         /\ [r EXCEPT !.queue = n, !.count = l].queue = n
  BY DEF SessionRecords

\* Remembering the pushed playQueue leaves identity and queue alone.
LEMMA PlaySession ==
  ASSUME NEW r \in SessionRecords, NEW q \in Queues
  PROVE  /\ [r EXCEPT !.playQueue = q] \in SessionRecords
         /\ [r EXCEPT !.playQueue = q].identity = r.identity
         /\ [r EXCEPT !.playQueue = q].queue = r.queue
         /\ [r EXCEPT !.playQueue = q].playQueue = q
  BY DEF SessionRecords

\* Moving the cursor leaves every other field of SESSION alone.
LEMMA AdvanceCursor ==
  ASSUME NEW r \in SessionRecords, NEW c \in Nat
  PROVE  /\ [r EXCEPT !.cursor = c] \in SessionRecords
         /\ [r EXCEPT !.cursor = c].identity = r.identity
         /\ [r EXCEPT !.cursor = c].queue = r.queue
         /\ [r EXCEPT !.cursor = c].playQueue = r.playQueue
         /\ [r EXCEPT !.cursor = c].count = r.count
  BY DEF SessionRecords

\* The fields of a start's locals.
LEMMA WorkFields ==
  ASSUME NEW w \in WorkRecords
  PROVE  /\ w.leads \in 0..MaxLeads /\ w.plays \in 0..MaxPlays /\ w.playQueue \in Queues
  BY DEF WorkRecords

\* Building the lineup touches neither the attempts nor the playQueue.
LEMMA LeadWork ==
  ASSUME NEW w \in WorkRecords, NEW n \in 0..MaxLeads
  PROVE  /\ [w EXCEPT !.leads = n] \in WorkRecords
         /\ [w EXCEPT !.leads = n].plays = w.plays
         /\ [w EXCEPT !.leads = n].playQueue = w.playQueue
  BY DEF WorkRecords

\* Building a playQueue spends an attempt and keeps the lineup.
LEMMA PlayWork ==
  ASSUME NEW w \in WorkRecords, NEW q \in Queues, NEW n \in 0..MaxPlays
  PROVE  LET v == [w EXCEPT !.playQueue = q, !.plays = n]
         IN  v \in WorkRecords /\ v.leads = w.leads /\ v.playQueue = q
  BY DEF WorkRecords

\* An advance that goes on to its next await stays an advance.
LEMMA MoveAdvance ==
  ASSUME NEW r \in AdvanceRecords, NEW p \in {"push", "answer", "done"}
  PROVE  [r EXCEPT !.phase = p] \in AdvanceRecords
  BY DEF AdvanceRecords

\* An advance that built its playQueue stays an advance.
LEMMA PushAdvance ==
  ASSUME NEW r \in AdvanceRecords, NEW q \in Queues
  PROVE  [r EXCEPT !.phase = "push", !.playQueue = q] \in AdvanceRecords
  BY DEF AdvanceRecords

\* The records everything starts from are of their types.
LEMMA NullRecords ==
  /\ NoQueue \in Queues /\ NoSession \in SessionRecords
  /\ NoWork \in WorkRecords /\ NoAdvance \in AdvanceRecords
  BY BoundsAssumption DEF NoQueue, NoSession, NoWork, NoAdvance, Queues,
     SessionRecords, WorkRecords, AdvanceRecords

\* What publishState is given is a retained state.
LEMMA Published ==
  ASSUME NEW n \in 0..MaxSittings, NEW kind \in Topics, Publish(n, kind)
  PROVE  topic' \in TopicRecords
  BY DEF Publish, TopicRecords

----------------------------------------------------------------------------
(* A start that is suspended knows whether it is the newest.               *)

\* A start that is suspended is superseded exactly when it is not the newest:
\* the cancel flag (driver.ts) and the generation (deviceScope.ts) agree.
LEMMA Knows ==
  ASSUME TypeOK, NewestAgreed, NEW s \in Sittings, phase[s] # "unused"
  PROVE  /\ s <= sittingId
         /\ Cancelled(s) <=> s # sittingId
         /\ Replaced(s) <=> s # sittingId
         /\ Superseded(s) <=> s # sittingId
         /\ phase[s] \in Suspended => outcome[s] = "none"
         /\ phase[s] \in Suspended /\ s = sittingId => isPreparing
<1>1. s <= sittingId
  BY DEF NewestAgreed, TypeOK, Sittings
<1>2. Cancelled(s) <=> s # sittingId
  BY <1>1 DEF NewestAgreed, Cancelled, TypeOK, Sittings
<1>3. Replaced(s) <=> s # sittingId
  BY <1>1 DEF NewestAgreed, Replaced, TypeOK, Sittings
<1>4. phase[s] \in Suspended => outcome[s] = "none"
  BY DEF NewestAgreed
<1>5. phase[s] \in Suspended /\ s = sittingId => isPreparing
  BY DEF NewestAgreed, Suspended
<1> QED BY <1>1, <1>2, <1>3, <1>4, <1>5 DEF Superseded

(* A start that goes on to its next await, nothing it owns having changed. *)
LEMMA Moved ==
  ASSUME IndInv, NEW s \in Sittings, phase[s] \in Suspended,
         NEW where \in Suspended, Goto(s, where),
         UNCHANGED <<control, session, armed, watching, leads, work, outcome>>,
         topic' \in TopicRecords, player' \in Queues, made' \in Nat,
         s = sittingId =>
           /\ where \in Bound => session.identity = s
           /\ where \in Loaded => session.queue = s
           /\ where \in Handing => armed \in {0, s} /\ watching = armed
           /\ where \in Suspended \ Handing => watching = 0,
         where \notin {"push", "answer", "lead"} \/ work[s].playQueue.by = s,
         where # "lead",
         where = "create" => work[s].plays < MaxPlays,
         where \in Suspended \ {"create", "push", "answer", "stopped", "lead"} =>
           work[s].plays = 0,
         leads[s] = 0
  PROVE  IndInv'
<1> USE DEF IndInv
<1>0. /\ UNCHANGED <<sittingId, isPreparing, generation, scope, activeCancel, raised, advance>>
      /\ UNCHANGED <<session, armed, watching, leads, work, outcome>>
  BY DEF control
<1>1. phase' = [phase EXCEPT ![s] = where] /\ where \in Phases
  BY DEF Goto, Suspended, Phases
<1>2. TypeOK'
  BY <1>0, <1>1 DEF TypeOK
<1>3. NewestAgreed'
  BY <1>0, <1>1 DEF TypeOK, NewestAgreed, Suspended
<1>4. Ownership'
  BY <1>0, <1>1 DEF TypeOK, Ownership, Bound, Loaded, Handing, Suspended
<1>5. PlayBudget'
  BY <1>0, <1>1 DEF TypeOK, PlayBudget, Suspended
<1>6. LeadLoop'
  BY <1>0, <1>1 DEF TypeOK, LeadLoop
<1>7. CoherentSession' /\ WatcherServesNewest' /\ LeadsEarned'
  BY <1>0 DEF CoherentSession, WatcherServesNewest, LeadsEarned
<1> QED BY <1>2, <1>3, <1>4, <1>5, <1>6, <1>7

(* A start that returns, nothing it owns having changed.                   *)
LEMMA Returned ==
  ASSUME IndInv, NEW s \in Sittings, phase[s] \in Suspended,
         NEW result \in {"ok", "cancelled", "error", "threw"}, Return(s, result),
         UNCHANGED <<control, output, work>>, topic' \in TopicRecords,
         result \in {"error", "threw"} => leads[s] = 0,
         result = "ok" /\ s = sittingId =>
           /\ session.identity = s /\ session.queue = s /\ session.playQueue.by = s
           /\ armed \in {0, s} /\ watching = armed
  PROVE  IndInv'
<1> USE DEF IndInv
<1>0. /\ UNCHANGED <<sittingId, isPreparing, generation, scope, activeCancel, raised, advance>>
      /\ UNCHANGED <<session, armed, watching, leads, made, player, work>>
  BY DEF control, output
<1>1. /\ phase' = [phase EXCEPT ![s] = "settle"]
      /\ outcome' = [outcome EXCEPT ![s] = result]
      /\ result \in Outcomes /\ result # "none"
  BY DEF Return, Goto, Outcomes
<1>2. TypeOK'
  BY <1>0, <1>1 DEF TypeOK, Phases
<1>3. NewestAgreed'
  BY <1>0, <1>1 DEF TypeOK, NewestAgreed, Suspended
<1>4. Ownership'
  BY <1>0, <1>1 DEF TypeOK, Ownership, Bound, Loaded, Handing, Suspended
<1>5. PlayBudget'
  BY <1>0, <1>1 DEF TypeOK, PlayBudget, Suspended
<1>6. LeadLoop'
  BY <1>0, <1>1 DEF TypeOK, LeadLoop
<1>7. CoherentSession' /\ WatcherServesNewest'
  BY <1>0 DEF CoherentSession, WatcherServesNewest
<1>8. LeadsEarned'
  BY <1>0, <1>1 DEF TypeOK, LeadsEarned
<1> QED BY <1>2, <1>3, <1>4, <1>5, <1>6, <1>7, <1>8

\* Only a start in its lead loop has stamped a lead window (session.ts, the
\* loop after the handoff).
LEMMA NoLeadsYet ==
  ASSUME IndInv, NEW s \in Sittings, phase[s] \in Suspended \ {"lead"}
  PROVE  leads[s] = 0
  BY DEF IndInv, TypeOK, LeadLoop, Suspended

\* Returning { cancelled: true } at any await keeps the invariant.
LEMMA GaveWay ==
  ASSUME IndInv, NEW s \in Sittings, NEW where \in Suspended,
         GiveWay(s, where) \/ GiveWayToFlag(s, where)
  PROVE  IndInv'
<1>1. phase[s] = where /\ Return(s, "cancelled") /\ UNCHANGED <<control, output, work, topic>>
  BY DEF GiveWay, GiveWayToFlag
<1>2. topic' \in TopicRecords
  BY <1>1 DEF IndInv, TypeOK
<1> QED BY <1>1, <1>2, Returned

\* An error a start publishes and returns before its lead loop keeps it.
LEMMA Refused ==
  ASSUME IndInv, NEW s \in Sittings, phase[s] \in Suspended \ {"lead"}, Refuse(s)
  PROVE  IndInv'
<1>1. topic' \in TopicRecords
  BY Published DEF Refuse, Topics, Sittings
<1>2. leads[s] = 0
  BY NoLeadsYet
<1> QED BY <1>1, <1>2, Returned DEF Refuse

(* What the newest start owns while it waits.                              *)
LEMMA Owned ==
  ASSUME IndInv, NEW s \in Sittings, s = sittingId
  PROVE  /\ phase[s] \in Bound => session.identity = s
         /\ phase[s] \in Loaded => session.queue = s
         /\ phase[s] \in Handing => armed \in {0, s} /\ watching = armed
         /\ phase[s] \in Suspended \ Handing => watching = 0
  BY DEF IndInv, Ownership

----------------------------------------------------------------------------
(* One lemma per action: the inductive invariant survives it.              *)

\* Going from one wait to the next before the binding keeps the invariant.
LEMMA MovedUnbound ==
  ASSUME IndInv, NEW s \in Sittings, phase[s] \in {"open", "profile", "logGate"},
         NEW where \in {"profile", "logGate", "binding"},
         Goto(s, where), topic' \in TopicRecords,
         UNCHANGED <<control, output, work, outcome>>
  PROVE  IndInv'
<1>1. phase[s] \in Suspended /\ where \in Suspended /\ leads[s] = 0
  BY NoLeadsYet DEF Suspended, Phases
<1>2. where \notin Bound /\ where \notin Loaded /\ where \notin Handing
  BY DEF Bound, Loaded, Handing
<1>3. s = sittingId => watching = 0
  BY Owned DEF Suspended, Phases, Handing, Loaded, Bound
<1>4. work[s].plays = 0
  BY DEF IndInv, PlayBudget, Suspended, Phases
<1>5. player' \in Queues /\ made' \in Nat
  BY DEF IndInv, TypeOK, output
<1> QED BY <1>1, <1>2, <1>3, <1>4, <1>5, Moved DEF output

\* The opening of Plex and the profile waits keep the invariant.
LEMMA StepBeforeBinding ==
  ASSUME IndInv, NEW s \in Sittings, AfterOpen(s) \/ AfterProfile(s) \/ AfterLogGate(s)
  PROVE  IndInv'
<1>1. CASE GiveWay(s, "open") \/ GiveWayToFlag(s, "profile") \/ GiveWayToFlag(s, "logGate")
  BY <1>1, GaveWay DEF Suspended, Phases
<1>2. CASE phase[s] \in {"open", "profile", "logGate"} /\ Refuse(s)
  BY <1>2, Refused DEF Suspended, Phases
<1>3. topic' \in TopicRecords
  BY Published DEF AfterOpen, AfterProfile, AfterLogGate, IndInv, TypeOK, GiveWay,
     GiveWayToFlag, Refuse, Topics, Sittings
<1>4. CASE \E where \in {"profile", "logGate", "binding"} :
             /\ phase[s] \in {"open", "profile", "logGate"}
             /\ Goto(s, where)
             /\ UNCHANGED <<control, output, work, outcome>>
  BY <1>3, <1>4, MovedUnbound
<1> QED BY <1>1, <1>2, <1>4 DEF AfterOpen, AfterProfile, AfterLogGate

\* Taking the session's identity fields keeps the invariant.
LEMMA StepAfterBinding ==
  ASSUME IndInv, NEW s \in Sittings, AfterBinding(s)
  PROVE  IndInv'
<1>1. CASE GiveWay(s, "binding")
  BY <1>1, GaveWay DEF Suspended, Phases
<1>2. CASE ~GiveWay(s, "binding")
  <2> USE DEF IndInv
  <2>1. /\ phase[s] = "binding" /\ ~Superseded(s)
        /\ session' = [session EXCEPT !.identity = s, !.cursor = 0]
        /\ phase' = [phase EXCEPT ![s] = "lineup"]
        /\ UNCHANGED <<sittingId, isPreparing, generation, scope, activeCancel, raised, advance>>
        /\ UNCHANGED <<armed, watching, leads, made, player, work, outcome, topic>>
    BY <1>2 DEF AfterBinding, Goto, control
  <2>2. s = sittingId /\ isPreparing /\ watching = 0
    BY <2>1, Knows, Owned DEF Suspended, Phases, Handing, Loaded, Bound
  <2>3. session' \in SessionRecords /\ session'.identity = s
    BY <2>1, Bounds, BindSession DEF TypeOK
  <2>4. TypeOK'
    BY <2>1, <2>3 DEF TypeOK, Phases
  <2>5. NewestAgreed'
    BY <2>1, <2>2 DEF TypeOK, NewestAgreed, Suspended, Phases
  <2>6. Ownership'
    BY <2>1, <2>2, <2>3 DEF TypeOK, Ownership, Bound, Loaded, Handing, Suspended, Phases
  <2>7. PlayBudget' /\ LeadLoop' /\ LeadsEarned'
    BY <2>1 DEF TypeOK, PlayBudget, LeadLoop, LeadsEarned, Suspended, Phases
  <2>8. CoherentSession' /\ WatcherServesNewest'
    BY <2>1, <2>2 DEF CoherentSession, WatcherServesNewest
  <2> QED BY <2>4, <2>5, <2>6, <2>7, <2>8
<1> QED BY <1>1, <1>2

\* Refusing an empty lineup or assigning the queue keeps the invariant.
LEMMA StepAfterLineup ==
  ASSUME IndInv, NEW s \in Sittings, AfterLineup(s)
  PROVE  IndInv'
<1>1. CASE GiveWay(s, "lineup")
  BY <1>1, GaveWay DEF Suspended, Phases
<1>2. CASE phase[s] = "lineup" /\ Refuse(s)
  BY <1>2, Refused DEF Suspended, Phases
<1>3. ASSUME NEW len \in 1..MaxLen, NEW led \in 0..MaxLeads, NEW plan \in BOOLEAN,
             phase[s] = "lineup", ~Superseded(s),
             session' = [session EXCEPT !.queue = s, !.count = len],
             work' = [work EXCEPT ![s].leads = led],
             IF plan THEN Goto(s, "client") /\ UNCHANGED <<armed, watching>>
                     ELSE ArmPlans(s, FALSE),
             UNCHANGED <<control, outcome, leads, topic, made, player>>
      PROVE  IndInv'
  <2> USE DEF IndInv
  <2>0. len \in 0..MaxLen
    BY BoundsAssumption
  <2>1. /\ UNCHANGED <<sittingId, isPreparing, generation, scope, activeCancel, raised, advance>>
        /\ UNCHANGED <<leads, made, player, outcome, topic>>
    BY <1>3 DEF control
  <2>2. s = sittingId /\ isPreparing /\ watching = 0 /\ session.identity = s
    BY <1>3, Knows, Owned DEF Suspended, Phases, Handing, Loaded, Bound
  <2>3. session' \in SessionRecords /\ session'.identity = s /\ session'.queue = s
    BY <1>3, <2>0, <2>2, Bounds, LoadSession DEF TypeOK
  <2>4. /\ work' \in [Sittings -> WorkRecords]
        /\ work'[s].plays = work[s].plays /\ work'[s].playQueue = work[s].playQueue
        /\ \A r \in Sittings \ {s} : work'[r] = work[r]
    <3>1. work \in [Sittings -> WorkRecords]
      BY DEF TypeOK
    <3> QED BY <1>3, <3>1, LeadWork
  <2>5. PICK where \in {"client", "gate"} :
          /\ phase' = [phase EXCEPT ![s] = where]
          /\ watching' = 0
          /\ where = "gate" => armed' = 0
          /\ armed' \in {0, armed}
    BY <1>3, <2>2 DEF ArmPlans, Goto
  <2>6. work[s].plays = 0 /\ leads[s] = 0
    BY <1>3, NoLeadsYet DEF PlayBudget, Suspended, Phases
  <2>7. TypeOK'
    BY <2>1, <2>3, <2>4, <2>5, BoundsAssumption DEF TypeOK, Phases
  <2>8. NewestAgreed'
    BY <1>3, <2>1, <2>2, <2>5 DEF TypeOK, NewestAgreed, Suspended, Phases
  <2>9. Ownership'
    BY <1>3, <2>1, <2>2, <2>3, <2>4, <2>5
       DEF TypeOK, Ownership, Bound, Loaded, Handing, Suspended, Phases
  <2>10. PlayBudget'
    BY <2>1, <2>4, <2>5, <2>6 DEF TypeOK, PlayBudget, Suspended, Phases
  <2>11. LeadLoop' /\ LeadsEarned'
    BY <1>3, <2>1, <2>4, <2>5, <2>6 DEF TypeOK, LeadLoop, LeadsEarned
  <2>12. CoherentSession' /\ WatcherServesNewest'
    BY <2>1, <2>2, <2>5 DEF CoherentSession, WatcherServesNewest
  <2> QED BY <2>7, <2>8, <2>9, <2>10, <2>11, <2>12
<1> QED BY <1>1, <1>2, <1>3 DEF AfterLineup

\* Arming the plans and starting the watcher keeps the invariant.
LEMMA StepAfterClient ==
  ASSUME IndInv, NEW s \in Sittings, AfterClient(s)
  PROVE  IndInv'
<1>1. CASE GiveWay(s, "client")
  BY <1>1, GaveWay DEF Suspended, Phases
<1>2. CASE ~GiveWay(s, "client")
  <2> USE DEF IndInv
  <2>1. /\ phase[s] = "client" /\ ~Superseded(s)
        /\ phase' = [phase EXCEPT ![s] = "gate"] /\ armed' = s /\ watching' = s
        /\ UNCHANGED <<sittingId, isPreparing, generation, scope, activeCancel, raised, advance>>
        /\ UNCHANGED <<session, work, outcome, leads, topic, made, player>>
    BY <1>2 DEF AfterClient, ArmPlans, Goto, control
  <2>2. s = sittingId /\ isPreparing /\ session.queue = s
    BY <2>1, Knows, Owned DEF Suspended, Phases, Handing, Loaded, Bound
  <2>3. TypeOK'
    BY <2>1, Bounds DEF TypeOK, Phases
  <2>4. NewestAgreed'
    BY <2>1, <2>2 DEF TypeOK, NewestAgreed, Suspended, Phases
  <2>5. Ownership'
    BY <2>1, <2>2 DEF TypeOK, Ownership, Bound, Loaded, Handing, Suspended, Phases
  <2>6. PlayBudget' /\ LeadLoop' /\ LeadsEarned'
    BY <2>1 DEF TypeOK, PlayBudget, LeadLoop, LeadsEarned, Suspended, Phases
  <2>7. CoherentSession' /\ WatcherServesNewest'
    BY <2>1, <2>2 DEF CoherentSession, WatcherServesNewest
  <2> QED BY <2>3, <2>4, <2>5, <2>6, <2>7
<1> QED BY <1>1, <1>2

\* Going from one await of the handoff to the next keeps the invariant.
LEMMA MovedHanding ==
  ASSUME IndInv, NEW s \in Sittings, phase[s] \in {"gate", "create", "push", "answer"},
         NEW where \in {"create", "answer", "stopped"}, Goto(s, where),
         where = "answer" => work[s].playQueue.by = s,
         where = "create" => work[s].plays < MaxPlays,
         player' \in Queues,
         UNCHANGED <<control, session, armed, watching, leads, made, work, outcome, topic>>
  PROVE  IndInv'
<1>1. /\ phase[s] \in Suspended \ {"lead"} /\ phase[s] \in Handing
      /\ where \in Suspended /\ where \in Handing
  BY DEF Suspended, Phases, Handing, Loaded, Bound
<1>2. leads[s] = 0
  BY <1>1, NoLeadsYet
<1>3. s = sittingId => /\ session.identity = s /\ session.queue = s
                       /\ armed \in {0, s} /\ watching = armed
  BY <1>1, Owned DEF Handing, Loaded
<1>4. topic' \in TopicRecords /\ made' \in Nat
  BY DEF IndInv, TypeOK
<1> QED BY <1>1, <1>2, <1>3, <1>4, Moved

\* The profile gate, the push, the audit and a failed handoff keep it.
LEMMA StepHandoff ==
  ASSUME IndInv, NEW s \in Sittings,
         AfterGate(s) \/ PushQueue(s) \/ PushAgain(s) \/ StopWrongAccount(s) \/ AfterFailedHandoff(s)
  PROVE  IndInv'
<1>1. CASE GiveWay(s, "gate") \/ GiveWay(s, "stopped")
  BY <1>1, GaveWay DEF Suspended, Phases
<1>2. CASE phase[s] \in {"gate", "stopped"} /\ Refuse(s)
  BY <1>2, Refused DEF Suspended, Phases
<1>3. CASE /\ phase[s] = "push" /\ Return(s, "cancelled")
           /\ UNCHANGED <<control, output, work, topic>>
  <2>1. topic' \in TopicRecords /\ phase[s] \in Suspended
    BY <1>3 DEF IndInv, TypeOK, Suspended, Phases
  <2> QED BY <1>3, <2>1, Returned
<1>4. player \in Queues /\ work[s].playQueue \in Queues /\ NoQueue \in Queues
  BY WorkFields, NullRecords DEF IndInv, TypeOK
<1>5. phase[s] \in {"push", "answer"} => work[s].playQueue.by = s
  BY DEF IndInv, Ownership
<1>6. phase[s] = "gate" => work[s].plays < MaxPlays
  BY BoundsAssumption DEF IndInv, PlayBudget, Suspended, Phases
<1>7. CASE /\ phase[s] = "gate" /\ Goto(s, "create")
           /\ UNCHANGED <<control, output, work, outcome, topic>>
  BY <1>4, <1>6, <1>7, MovedHanding DEF output
<1>8. CASE /\ phase[s] = "push" /\ player' \in {player, work[s].playQueue}
           /\ Goto(s, "answer") \/ Goto(s, "stopped")
           /\ UNCHANGED <<control, session, armed, watching, leads, made, work, outcome, topic>>
  BY <1>4, <1>5, <1>8, MovedHanding
<1>9. CASE /\ phase[s] \in {"push", "answer"} /\ work[s].plays < MaxPlays
           /\ Goto(s, "create") /\ UNCHANGED player
           /\ UNCHANGED <<control, session, armed, watching, leads, made, work, outcome, topic>>
  BY <1>4, <1>9, MovedHanding
<1>10. CASE /\ phase[s] = "answer" /\ player' \in {player, NoQueue} /\ Goto(s, "stopped")
            /\ UNCHANGED <<control, session, armed, watching, leads, made, work, outcome, topic>>
  BY <1>4, <1>10, MovedHanding
<1>11. CASE AfterGate(s)
  BY <1>1, <1>2, <1>7, <1>11 DEF AfterGate
<1>12. CASE PushQueue(s)
  BY <1>3, <1>8, <1>9, <1>12 DEF PushQueue
<1>13. CASE PushAgain(s)
  BY <1>9, <1>13 DEF PushAgain, output
<1>14. CASE StopWrongAccount(s)
  BY <1>10, <1>14 DEF StopWrongAccount
<1>15. CASE AfterFailedHandoff(s)
  BY <1>1, <1>2, <1>15 DEF AfterFailedHandoff
<1> QED BY <1>11, <1>12, <1>13, <1>14, <1>15

\* Creating a playQueue keeps the invariant.
LEMMA StepCreateQueue ==
  ASSUME IndInv, NEW s \in Sittings, CreateQueue(s)
  PROVE  IndInv'
<1>1. phase[s] = "create" /\ phase[s] \in Suspended
  BY DEF CreateQueue, Suspended, Phases
<1>2. CASE Return(s, "cancelled") /\ UNCHANGED <<control, output, work, topic>>
  <2>1. topic' \in TopicRecords
    BY <1>2 DEF IndInv, TypeOK
  <2> QED BY <1>1, <1>2, <2>1, Returned
<1>3. CASE /\ Goto(s, "stopped") /\ UNCHANGED <<work, made>>
           /\ UNCHANGED <<control, session, armed, watching, leads, player, outcome, topic>>
  <2>1. player' \in Queues
    BY <1>3 DEF IndInv, TypeOK
  <2> QED BY <1>1, <1>3, <2>1, MovedHanding
<1>4. CASE /\ made' = made + 1
           /\ work' = [work EXCEPT ![s].playQueue = [by |-> s, no |-> made + 1],
                                   ![s].plays = work[s].plays + 1]
           /\ Goto(s, "push")
           /\ UNCHANGED <<control, session, armed, watching, leads, player, outcome, topic>>
  <2> USE DEF IndInv
  <2>1. /\ phase' = [phase EXCEPT ![s] = "push"] /\ made' = made + 1
        /\ UNCHANGED <<sittingId, isPreparing, generation, scope, activeCancel, raised, advance>>
        /\ UNCHANGED <<session, armed, watching, leads, player, outcome, topic>>
    BY <1>4 DEF Goto, control
  <2>2. work[s] \in WorkRecords /\ [by |-> s, no |-> made + 1] \in Queues
    BY Bounds DEF TypeOK, Queues
  <2>3. work[s].plays + 1 \in 0..MaxPlays
    BY <1>1, <2>2, WorkFields, BoundsAssumption DEF PlayBudget
  <2>4. /\ work' \in [Sittings -> WorkRecords]
        /\ work'[s].playQueue = [by |-> s, no |-> made + 1]
        /\ work'[s].leads = work[s].leads
        /\ \A r \in Sittings \ {s} : work'[r] = work[r]
    <3> DEFINE u == [work[s] EXCEPT !.playQueue = [by |-> s, no |-> made + 1],
                                    !.plays = work[s].plays + 1]
    <3>1. /\ u \in WorkRecords /\ u.leads = work[s].leads
          /\ u.playQueue = [by |-> s, no |-> made + 1]
      BY <2>2, <2>3, PlayWork
    <3>2. work' = [work EXCEPT ![s] = u]
      BY <1>4
    <3>3. work \in [Sittings -> WorkRecords]
      BY DEF TypeOK
    <3> HIDE DEF u
    <3> QED BY <3>1, <3>2, <3>3
  <2>5. work'[s].playQueue.by = s /\ leads[s] = 0
    BY <1>1, <2>4, NoLeadsYet DEF Suspended, Phases
  <2>6. TypeOK'
    <3>1. work' \in [Sittings -> WorkRecords]
      BY <2>4
    <3>2. made' \in Nat
      BY <2>1 DEF TypeOK
    <3> QED BY <2>1, <3>1, <3>2 DEF TypeOK, Phases
  <2>7. NewestAgreed'
    BY <1>1, <2>1 DEF TypeOK, NewestAgreed, Suspended, Phases
  <2>8. Ownership'
    BY <1>1, <2>1, <2>4, <2>5 DEF TypeOK, Ownership, Bound, Loaded, Handing, Suspended, Phases
  <2>9. PlayBudget'
    BY <2>1, <2>4 DEF TypeOK, PlayBudget, Suspended, Phases
  <2>10. LeadLoop' /\ LeadsEarned'
    BY <1>1, <2>1, <2>4, <2>5 DEF TypeOK, LeadLoop, LeadsEarned
  <2>11. CoherentSession' /\ WatcherServesNewest'
    BY <2>1 DEF CoherentSession, WatcherServesNewest
  <2> QED BY <2>6, <2>7, <2>8, <2>9, <2>10, <2>11
<1> QED BY <1>2, <1>3, <1>4 DEF CreateQueue

(* One turn of the lead loop, whatever it does to session.playQueue.       *)
LEMMA StepNextLead ==
  ASSUME IndInv, NEW s \in Sittings, phase[s] \in {"answer", "lead"}, s = sittingId,
         NextLead(s), session' \in SessionRecords,
         session'.identity = session.identity, session'.queue = session.queue,
         session'.playQueue.by = s, work[s].playQueue.by = s,
         UNCHANGED <<control, armed, watching, made, player, work>>
  PROVE  IndInv'
<1> USE DEF IndInv
<1>0. /\ UNCHANGED <<sittingId, isPreparing, generation, scope, activeCancel, raised, advance>>
      /\ UNCHANGED <<armed, watching, made, player, work>>
  BY DEF control
<1>1. isPreparing /\ phase[s] \in Suspended /\ outcome[s] = "none"
  BY Knows DEF Suspended, Phases
<1>2. session.identity = s /\ session.queue = s /\ armed \in {0, s} /\ watching = armed
  BY Owned DEF Handing, Loaded, Bound
<1>3. CASE /\ leads[s] < work[s].leads
           /\ leads' = [leads EXCEPT ![s] = leads[s] + 1]
           /\ phase' = [phase EXCEPT ![s] = "lead"]
           /\ UNCHANGED <<outcome, topic>>
  <2>1. leads[s] + 1 \in 0..MaxLeads /\ leads[s] + 1 <= work[s].leads
    BY <1>3, WorkFields, BoundsAssumption DEF TypeOK
  <2>2. TypeOK'
    BY <1>0, <1>3, <2>1 DEF TypeOK, Phases
  <2>3. NewestAgreed'
    BY <1>0, <1>1, <1>3 DEF TypeOK, NewestAgreed, Suspended, Phases
  <2>4. Ownership'
    BY <1>0, <1>2, <1>3 DEF TypeOK, Ownership, Bound, Loaded, Handing, Suspended, Phases
  <2>5. PlayBudget' /\ LeadLoop'
    BY <1>0, <1>3 DEF TypeOK, PlayBudget, LeadLoop, Suspended, Phases
  <2>6. LeadsEarned'
    BY <1>0, <1>1, <1>3, <2>1 DEF TypeOK, LeadsEarned
  <2>7. CoherentSession' /\ WatcherServesNewest'
    BY <1>0, <1>1 DEF CoherentSession, WatcherServesNewest
  <2> QED BY <2>2, <2>3, <2>4, <2>5, <2>6, <2>7
<1>4. CASE /\ topic' \in TopicRecords
           /\ phase' = [phase EXCEPT ![s] = "settle"]
           /\ outcome' = [outcome EXCEPT ![s] = "ok"]
           /\ UNCHANGED leads
  <2>2. TypeOK'
    BY <1>0, <1>4 DEF TypeOK, Phases, Outcomes
  <2>3. NewestAgreed'
    BY <1>0, <1>1, <1>4 DEF TypeOK, NewestAgreed, Suspended, Phases
  <2>4. Ownership'
    BY <1>0, <1>2, <1>4 DEF TypeOK, Ownership, Bound, Loaded, Handing, Suspended, Phases
  <2>5. PlayBudget' /\ LeadLoop'
    BY <1>0, <1>4 DEF TypeOK, PlayBudget, LeadLoop, Suspended, Phases
  <2>6. LeadsEarned'
    BY <1>0, <1>4 DEF TypeOK, LeadsEarned
  <2>7. CoherentSession' /\ WatcherServesNewest'
    BY <1>0, <1>1 DEF CoherentSession, WatcherServesNewest
  <2> QED BY <2>2, <2>3, <2>4, <2>5, <2>6, <2>7
<1>5. Publish(s, "playback") => topic' \in TopicRecords
  BY Bounds, Published DEF Topics
<1> QED BY <1>3, <1>4, <1>5 DEF NextLead, Return, Goto

\* Remembering the playQueue and stamping lead windows keep the invariant.
LEMMA StepAfterHandoff ==
  ASSUME IndInv, NEW s \in Sittings, AfterHandoff(s) \/ AfterLead(s)
  PROVE  IndInv'
<1>1. CASE GiveWay(s, "answer") \/ GiveWay(s, "lead")
  BY <1>1, GaveWay DEF Suspended, Phases
<1>2. CASE /\ phase[s] = "answer" /\ ~Superseded(s)
           /\ session' = [session EXCEPT !.playQueue = work[s].playQueue]
           /\ NextLead(s)
           /\ UNCHANGED <<control, armed, watching, made, player, work>>
  <2>1. s = sittingId
    BY <1>2, Knows DEF IndInv
  <2>2. work[s].playQueue \in Queues /\ session \in SessionRecords
    BY WorkFields DEF IndInv, TypeOK
  <2>3. /\ session' \in SessionRecords /\ session'.identity = session.identity
        /\ session'.queue = session.queue /\ session'.playQueue = work[s].playQueue
    BY <1>2, <2>2, PlaySession
  <2>4. work[s].playQueue.by = s
    BY <1>2 DEF IndInv, Ownership
  <2> QED BY <1>2, <2>1, <2>3, <2>4, StepNextLead
<1>3. CASE /\ phase[s] = "lead" /\ ~Superseded(s) /\ NextLead(s)
           /\ UNCHANGED <<control, session, armed, watching, made, player, work>>
  <2>1. s = sittingId
    BY <1>3, Knows DEF IndInv
  <2>2. session \in SessionRecords /\ session.playQueue.by = s /\ work[s].playQueue.by = s
    BY <1>3, <2>1 DEF IndInv, TypeOK, Ownership, LeadLoop
  <2> QED BY <1>3, <2>1, <2>2, StepNextLead
<1> QED BY <1>1, <1>2, <1>3 DEF AfterHandoff, AfterLead

\* A start that rejects keeps the invariant.
LEMMA StepThrow ==
  ASSUME IndInv, NEW s \in Sittings, Throw(s)
  PROVE  IndInv'
<1>1. /\ phase[s] \in Suspended \ {"lead"} /\ Return(s, "threw")
      /\ UNCHANGED <<control, output, work, topic>>
  BY DEF Throw, Suspended, Phases
<1>2. topic' \in TopicRecords /\ leads[s] = 0
  BY <1>1, NoLeadsYet DEF IndInv, TypeOK
<1> QED BY <1>1, <1>2, Returned

\* The tail of startSession (clear, report, finally) keeps the invariant.
LEMMA StepSettle ==
  ASSUME IndInv, NEW s \in Sittings, Settle(s)
  PROVE  IndInv'
<1> USE DEF IndInv
<1>1. /\ phase[s] = "settle" /\ phase' = [phase EXCEPT ![s] = "done"]
      /\ UNCHANGED <<sittingId, generation, scope, activeCancel, raised, advance,
                     leads, made, player, work, outcome>>
      /\ isPreparing' = (isPreparing /\ sittingId # s)
  BY DEF Settle, SettleRest, Goto
<1>2. \/ /\ sittingId = s /\ outcome[s] # "ok" /\ isPreparing' = FALSE
         /\ session' = NoSession /\ armed' = 0 /\ watching' = 0
      \/ /\ sittingId = s /\ outcome[s] = "ok" /\ isPreparing' = FALSE
         /\ UNCHANGED <<session, armed, watching>>
      \/ sittingId # s /\ UNCHANGED <<session, armed, watching, isPreparing>>
  BY <1>1 DEF Settle, ClearFailedPreparation, TypeOK
<1>3. topic' \in TopicRecords
  BY Bounds, Published DEF Settle, SettleRest, ReportFailure, Topics, TypeOK
<1>4. session' \in SessionRecords /\ armed' \in 0..MaxSittings /\ watching' \in 0..MaxSittings
  BY <1>2, NullRecords, BoundsAssumption DEF TypeOK
<1>5. TypeOK'
  BY <1>1, <1>3, <1>4 DEF TypeOK, Phases
<1>6. NewestAgreed'
  BY <1>1, <1>2 DEF TypeOK, NewestAgreed, Suspended, Phases
<1>7. Ownership'
  BY <1>1, <1>2 DEF TypeOK, Ownership, Bound, Loaded, Handing, Suspended, Phases
<1>8. PlayBudget' /\ LeadLoop' /\ LeadsEarned'
  BY <1>1 DEF TypeOK, PlayBudget, LeadLoop, LeadsEarned, Suspended, Phases
<1>9. CoherentSession'
  <2>1. CASE sittingId = s /\ outcome[s] # "ok"
    BY <1>1, <1>2, <2>1 DEF CoherentSession, NoSession
  <2>2. CASE sittingId = s /\ outcome[s] = "ok"
    <3>1. /\ session.identity = s /\ session.queue = s /\ session.playQueue.by = s
          /\ armed \in {0, s} /\ watching = armed
      BY <1>1, <2>2 DEF Ownership
    <3> QED BY <1>1, <1>2, <2>2, <3>1, Bounds DEF CoherentSession
  <2>3. CASE sittingId # s
    BY <1>1, <1>2, <2>3 DEF CoherentSession
  <2> QED BY <2>1, <2>2, <2>3
<1>10. WatcherServesNewest'
  BY <1>1, <1>2 DEF WatcherServesNewest
<1> QED BY <1>5, <1>6, <1>7, <1>8, <1>9, <1>10

\* A newer start coming in, at whatever await the others are, keeps it.
LEMMA StepStartSession ==
  ASSUME IndInv, NEW s \in Sittings, StartSession(s)
  PROVE  IndInv'
<1> USE DEF IndInv
<1>1. /\ s = sittingId + 1 /\ sittingId' = s /\ generation' = generation + 1
      /\ isPreparing' = TRUE /\ scope' = [scope EXCEPT ![s] = generation']
      /\ activeCancel' = s /\ raised' = raised \union ({activeCancel} \ {0})
      /\ phase' = [phase EXCEPT ![s] = "open"] /\ watching' = 0
      /\ UNCHANGED <<session, armed, work, outcome, leads, topic, made, player, advance>>
  BY DEF StartSession, NewScope, RaiseActiveCancel, Goto
<1>2. phase[s] = "unused" /\ generation' = s /\ sittingId \in Nat
  BY <1>1 DEF TypeOK, NewestAgreed, Sittings
<1>3. raised' \in SUBSET Sittings /\ \A r \in Sittings : r \in raised' <=> r < s
  <2>1. activeCancel = sittingId /\ (sittingId # 0 => sittingId \in Sittings)
    BY <1>1, <1>2 DEF TypeOK, NewestAgreed, Sittings
  <2>2. \A r \in Sittings : r \in Nat /\ r # 0 /\ (r \in raised <=> r < sittingId)
    BY Bounds DEF NewestAgreed
  <2>3. raised \in SUBSET Sittings
    BY DEF TypeOK
  <2> QED BY <1>1, <1>2, <2>1, <2>2, <2>3
<1>4. TypeOK'
  BY <1>1, <1>2, <1>3, Bounds, BoundsAssumption DEF TypeOK, Phases
<1>5. NewestAgreed'
  BY <1>1, <1>2, <1>3, Bounds DEF TypeOK, NewestAgreed, Suspended, Phases, Sittings
<1>6. Ownership'
  BY <1>1, <1>2 DEF TypeOK, Ownership, Bound, Loaded, Handing, Suspended, Phases, NewestAgreed
<1>7. PlayBudget' /\ LeadLoop' /\ LeadsEarned'
  BY <1>1, <1>2 DEF TypeOK, PlayBudget, LeadLoop, LeadsEarned, Suspended, Phases
<1>8. CoherentSession' /\ WatcherServesNewest'
  BY <1>1 DEF CoherentSession, WatcherServesNewest
<1> QED BY <1>4, <1>5, <1>6, <1>7, <1>8

\* Advancing the sitting keeps the invariant.
LEMMA StepAdvance ==
  ASSUME IndInv, NEW a \in Advances, Advance(a)
  PROVE  IndInv'
<1> USE DEF IndInv
<1>1. /\ UNCHANGED <<sittingId, isPreparing, generation, scope, activeCancel, raised>>
      /\ UNCHANGED <<armed, watching, phase, work, outcome, leads>>
  BY DEF Advance, AdvanceSession, AdvanceCreate, AdvancePush, AdvanceAnswer
<1>2. /\ session' \in SessionRecords /\ session'.identity = session.identity
      /\ session'.queue = session.queue /\ session'.playQueue = session.playQueue
      /\ session' # session => ~isPreparing /\ session.count > 0
  <2>1. CASE UNCHANGED session
    BY <2>1 DEF TypeOK
  <2>2. CASE AdvanceSession(a)
    <3>1. PICK c \in Nat : session' = [session EXCEPT !.cursor = c]
      <4>1. session.cursor \in Nat /\ session.count \in Nat
        BY SessionFields, BoundsAssumption DEF TypeOK
      <4>2. session.count > 0
        BY <2>2 DEF AdvanceSession
      <4>3. session.cursor + 1 \in Nat /\ session.count - 1 \in Nat
        BY <4>1, <4>2
      <4> QED BY <2>2, <4>3 DEF AdvanceSession
    <3> QED BY <2>2, <3>1, AdvanceCursor DEF AdvanceSession, TypeOK
  <2> QED BY <2>1, <2>2 DEF Advance, AdvanceCreate, AdvancePush, AdvanceAnswer
<1>3. advance[a] \in AdvanceRecords
  BY DEF TypeOK
<1>4. advance' \in [Advances -> AdvanceRecords]
  <2>1. ASSUME NEW r \in AdvanceRecords, advance' = [advance EXCEPT ![a] = r]
        PROVE  advance' \in [Advances -> AdvanceRecords]
    BY <2>1 DEF TypeOK
  <2>2. CASE AdvanceSession(a)
    <3>1. [phase |-> "create", sitting |-> sittingId, scope |-> generation,
           playQueue |-> NoQueue] \in AdvanceRecords
      BY NullRecords DEF TypeOK, AdvanceRecords
    <3> QED BY <2>1, <2>2, <3>1 DEF AdvanceSession
  <2>3. CASE \E p \in {"push", "answer", "done"} : advance' = [advance EXCEPT ![a].phase = p]
    BY <1>3, <2>1, <2>3, MoveAdvance
  <2>4. CASE advance' = [advance EXCEPT ![a].phase = "push",
                    ![a].playQueue = [by |-> advance[a].sitting, no |-> made + 1]]
    <3>1. [by |-> advance[a].sitting, no |-> made + 1] \in Queues
      BY <1>3 DEF TypeOK, AdvanceRecords, Queues
    <3> QED BY <1>3, <2>1, <2>4, <3>1, PushAdvance
  <2> QED BY <2>2, <2>3, <2>4 DEF Advance, AdvanceCreate, AdvancePush, AdvanceAnswer
<1>5. made' \in Nat
  BY DEF TypeOK, Advance, AdvanceSession, AdvanceCreate, AdvancePush, AdvanceAnswer
<1>6. player' \in Queues
  BY <1>3 DEF TypeOK, Advance, AdvanceSession, AdvanceCreate, AdvancePush, AdvanceAnswer, AdvanceRecords
<1>7. topic' \in TopicRecords
  BY <1>3, Published DEF TypeOK, Advance, AdvanceSession, AdvanceCreate, AdvancePush,
     AdvanceAnswer, AdvanceRecords, Topics
<1>8. TypeOK'
  BY <1>1, <1>2, <1>4, <1>5, <1>6, <1>7 DEF TypeOK
<1>9. NewestAgreed' /\ PlayBudget' /\ LeadLoop' /\ LeadsEarned'
  BY <1>1 DEF NewestAgreed, PlayBudget, LeadLoop, LeadsEarned
<1>10. Ownership' /\ WatcherServesNewest'
  BY <1>1, <1>2 DEF Ownership, WatcherServesNewest
<1>11. CoherentSession'
  BY <1>1, <1>2 DEF CoherentSession, NoSession
<1> QED BY <1>8, <1>9, <1>10, <1>11

----------------------------------------------------------------------------
\* Every step of starts and advances keeps the inductive invariant, for any
\* number of overlapping starts, advances, retries and lead windows.
THEOREM Inductive == IndInv /\ [Next]_vars => IndInv'
<1> SUFFICES ASSUME IndInv, [Next]_vars PROVE IndInv'
    OBVIOUS
<1>1. ASSUME NEW s \in Sittings, StartSession(s) PROVE IndInv'
  BY <1>1, StepStartSession
<1>2. ASSUME NEW s \in Sittings, Start(s) PROVE IndInv'
  BY <1>2, StepBeforeBinding, StepAfterBinding, StepAfterLineup, StepAfterClient,
     StepHandoff, StepCreateQueue, StepAfterHandoff, StepThrow, StepSettle DEF Start
<1>3. ASSUME NEW a \in Advances, Advance(a) PROVE IndInv'
  BY <1>3, StepAdvance
<1>4. CASE UNCHANGED vars
  BY <1>4 DEF vars, IndInv, TypeOK, NewestAgreed, Ownership, PlayBudget, LeadLoop,
     CoherentSession, WatcherServesNewest, LeadsEarned
<1> QED BY <1>1, <1>2, <1>3, <1>4 DEF Next, Done

\* A server that has just booted satisfies the inductive invariant.
LEMMA Initial == Init => IndInv
<1> SUFFICES ASSUME Init PROVE IndInv
    OBVIOUS
<1>1. TypeOK
  <2>1. 0 \in 0..MaxSittings /\ 0 \in 0..MaxLeads
    BY BoundsAssumption
  <2>2. /\ work \in [Sittings -> WorkRecords] /\ advance \in [Advances -> AdvanceRecords]
        /\ session \in SessionRecords /\ player \in Queues
    BY NullRecords DEF Init
  <2>3. topic \in TopicRecords
    BY <2>1 DEF Init, TopicRecords, Topics
  <2>4. phase \in [Sittings -> Phases] /\ outcome \in [Sittings -> Outcomes]
    BY DEF Init, Phases, Outcomes
  <2> QED BY <2>1, <2>2, <2>3, <2>4 DEF Init, TypeOK
<1>2. NewestAgreed
  BY BoundsAssumption DEF Init, NewestAgreed, Suspended, Phases, Sittings
<1>3. Ownership /\ PlayBudget /\ LeadLoop
  BY BoundsAssumption DEF Init, Ownership, PlayBudget, LeadLoop, Suspended, Bound,
     Loaded, Handing, Phases, Sittings, NoWork
<1>4. CoherentSession /\ WatcherServesNewest /\ LeadsEarned
  BY DEF Init, CoherentSession, WatcherServesNewest, LeadsEarned, NoSession
<1> QED BY <1>1, <1>2, <1>3, <1>4 DEF IndInv

\* The inductive invariant holds in every state of every behaviour: which
\* start is the newest is agreed on, and the newest owns what it has written.
THEOREM Invariance == Spec => []IndInv
  BY Initial, Inductive, PTL DEF Spec

\* SESSION, the plans, the watcher and the starts stay within their types.
THEOREM TypeCorrect == Spec => []TypeOK
  BY Invariance, PTL DEF IndInv

\* When no start is preparing, SESSION, plans and watcher are of one start, or
\* empty after a failed one (session.ts: the supersession checks after every
\* await and clearFailedPreparation).
THEOREM Coherence == Spec => []CoherentSession
  BY Invariance, PTL DEF IndInv

\* The watcher never runs over the lineup of a replaced sitting (session.ts:
\* startSession stops it, startSessionOnDevice starts it after arming).
THEOREM WatcherNewest == Spec => []WatcherServesNewest
  BY Invariance, PTL DEF IndInv

\* Only a start whose playQueue was pushed spends lead windows (session.ts:
\* recordLead comes after every early return).
THEOREM LeadsAreEarned == Spec => []LeadsEarned
  BY Invariance, PTL DEF IndInv

----------------------------------------------------------------------------
(* Action properties.                                                      *)

\* Only the newest start touches what the starts share.
LEMMA OnlyNewestActs ==
  ASSUME IndInv, NEW s \in Sittings, Start(s), s # sittingId
  PROVE  UNCHANGED <<sittingId, session, armed, watching, isPreparing, leads, player>>
<1>1. phase[s] # "unused"
  BY DEF Start, AfterOpen, AfterProfile, AfterLogGate, AfterBinding, AfterLineup,
     AfterClient, AfterGate, CreateQueue, PushQueue, PushAgain, StopWrongAccount,
     AfterFailedHandoff, AfterHandoff, AfterLead, Throw, Settle, SettleRest, GiveWay, GiveWayToFlag
<1>2. Cancelled(s) /\ Replaced(s) /\ Superseded(s)
  BY <1>1, Knows DEF IndInv
<1>3. CASE \E where \in Phases : GiveWay(s, where) \/ GiveWayToFlag(s, where)
  BY <1>3 DEF GiveWay, GiveWayToFlag, control, output
<1>4. CASE CreateQueue(s) \/ PushQueue(s) \/ Throw(s)
  BY <1>2, <1>4 DEF CreateQueue, PushQueue, Throw, control, output
<1>5. CASE Settle(s)
  BY <1>5 DEF Settle, SettleRest, ClearFailedPreparation, IndInv, TypeOK
<1> QED
  BY <1>2, <1>3, <1>4, <1>5
     DEF Start, AfterOpen, AfterProfile, AfterLogGate, AfterBinding, AfterLineup,
     AfterClient, AfterGate, PushAgain, StopWrongAccount, AfterFailedHandoff,
     AfterHandoff, AfterLead, Phases

\* A step of one start leaves every other start at its await.
LEMMA OneStartMoves ==
  ASSUME IndInv, NEW s \in Sittings, NEW t \in Sittings, Start(s), t # s
  PROVE  phase'[t] = phase[t]
  BY DEF IndInv, TypeOK, Start, AfterOpen, AfterProfile, AfterLogGate, AfterBinding,
     AfterLineup, AfterClient, ArmPlans, AfterGate, CreateQueue, PushQueue, PushAgain,
     StopWrongAccount, AfterFailedHandoff, AfterHandoff, AfterLead, NextLead, Throw,
     Settle, SettleRest, GiveWay, GiveWayToFlag, Refuse, Return, Goto

\* A replaced start changes nothing the starts share, at whatever await it was
\* suspended (session.ts isSuperseded, playback.ts plexReq).
THEOREM ReplacedStartsAreSilent == Spec => ReplacedStartIsSilent
<1> DEFINE Silent == \A s \in Sittings :
                       s # sittingId' /\ phase'[s] # phase[s] =>
                         UNCHANGED <<session, armed, watching, isPreparing, leads, player>>
<1>1. ASSUME IndInv, [Next]_vars PROVE Silent
  <2> SUFFICES ASSUME NEW s \in Sittings, s # sittingId', phase'[s] # phase[s]
               PROVE  UNCHANGED <<session, armed, watching, isPreparing, leads, player>>
    OBVIOUS
  <2>1. ASSUME NEW t \in Sittings, StartSession(t) PROVE FALSE
    BY <1>1, <2>1 DEF StartSession, NewScope, Goto, IndInv, TypeOK
  <2>2. CASE \E t \in Sittings : Start(t)
    <3>1. Start(s)
      BY <1>1, <2>2, OneStartMoves
    <3>2. sittingId' = sittingId
      BY <1>1, <3>1 DEF Start, AfterOpen, AfterProfile, AfterLogGate, AfterBinding,
         AfterLineup, AfterClient, AfterGate, CreateQueue, PushQueue, PushAgain,
         StopWrongAccount, AfterFailedHandoff, AfterHandoff, AfterLead, Throw, Settle,
         SettleRest, GiveWay, GiveWayToFlag, Refuse, control
    <3> QED BY <1>1, <3>1, <3>2, OnlyNewestActs
  <2>3. CASE (\E a \in Advances : Advance(a)) \/ UNCHANGED vars
    BY <2>3 DEF Advance, AdvanceSession, AdvanceCreate, AdvancePush, AdvanceAnswer, vars
  <2> QED BY <1>1, <2>1, <2>2, <2>3 DEF Next, Done
<1>2. Silent => [Silent]_vars
  OBVIOUS
<1> QED BY <1>1, <1>2, Invariance, PTL DEF Spec, ReplacedStartIsSilent

\* An overtaken advance changes neither the session nor the player nor the
\* retained state (session.ts advanceSession, playback.ts plexReq).
THEOREM ReplacedAdvancesAreSilent == Spec => ReplacedAdvanceIsSilent
<1> DEFINE Silent == \A a \in Advances :
                       /\ advance[a].phase # "unused"
                       /\ advance'[a].phase # advance[a].phase
                       /\ advance[a].sitting # sittingId \/ isPreparing
                       => UNCHANGED <<session, player, topic>>
<1>1. ASSUME IndInv, [Next]_vars PROVE Silent
  <2> SUFFICES ASSUME NEW a \in Advances,
                      advance[a].phase # "unused", advance'[a].phase # advance[a].phase,
                      Overtaken(a)
               PROVE  UNCHANGED <<session, player, topic>>
    BY DEF Overtaken
  <2>1. CASE \E b \in Advances : Advance(b)
    <3>1. Advance(a)
      BY <1>1, <2>1 DEF IndInv, TypeOK, Advance, AdvanceSession, AdvanceCreate,
         AdvancePush, AdvanceAnswer
    <3> QED
      BY <3>1 DEF Advance, AdvanceSession, AdvanceCreate, AdvancePush, AdvanceAnswer,
         AdvanceCancelled
  <2>2. CASE (\E s \in Sittings : StartSession(s) \/ Start(s)) \/ UNCHANGED vars
    BY <2>2 DEF StartSession, NewScope, Start, AfterOpen, AfterProfile, AfterLogGate,
       AfterBinding, AfterLineup, AfterClient, AfterGate, CreateQueue, PushQueue,
       PushAgain, StopWrongAccount, AfterFailedHandoff, AfterHandoff, AfterLead, Throw,
       Settle, SettleRest, GiveWay, GiveWayToFlag, Refuse, control, vars
  <2> QED BY <1>1, <2>1, <2>2 DEF Next, Done
<1>2. Silent => [Silent]_vars
  OBVIOUS
<1> QED BY <1>1, <1>2, Invariance, PTL DEF Spec, ReplacedAdvanceIsSilent

----------------------------------------------------------------------------
(* Session implements Sitting.                                             *)

\* Every step of Session is a step of Sitting or a stutter.
LEMMA RefinesStep == IndInv /\ [Next]_vars => [Abstract!Next]_(Abstract!vars)
<1> SUFFICES ASSUME IndInv, [Next]_vars PROVE Abstract!Next \/ UNCHANGED Abstract!vars
    OBVIOUS
<1>1. ASSUME NEW s \in Sittings, StartSession(s) PROVE Abstract!Begin
  BY <1>1 DEF StartSession, NewScope, Abstract!Begin, IndInv, TypeOK
<1>2. ASSUME UNCHANGED <<sittingId, isPreparing>>, isPreparing \/ session'.queue = session.queue
      PROVE  UNCHANGED Abstract!vars
  BY <1>2 DEF Abstract!vars
<1>3. ASSUME NEW s \in Sittings, Settle(s), s = sittingId PROVE Abstract!Next
  <2>1. isPreparing /\ isPreparing' = FALSE /\ sittingId' = sittingId /\ phase[s] = "settle"
    BY <1>3 DEF Settle, SettleRest, IndInv, NewestAgreed
  <2>2. CASE outcome[s] = "ok"
    <3>1. session' = session /\ session.queue = s
      BY <1>3, <2>1, <2>2 DEF Settle, ClearFailedPreparation, IndInv, Ownership
    <3> QED BY <1>3, <2>1, <3>1, Bounds DEF Abstract!Next, Abstract!Succeed
  <2>3. CASE outcome[s] # "ok"
    <3>1. session' = NoSession
      BY <1>3, <2>3 DEF Settle, ClearFailedPreparation
    <3> QED BY <2>1, <3>1 DEF Abstract!Next, Abstract!GiveUp, NoSession
  <2> QED BY <2>2, <2>3
<1>4. ASSUME NEW s \in Sittings, Start(s), ~Settle(s), s = sittingId
      PROVE  UNCHANGED <<sittingId, isPreparing>> /\ isPreparing
  <2>1. phase[s] \in Suspended
    BY <1>4 DEF Start, AfterOpen, AfterProfile, AfterLogGate, AfterBinding, AfterLineup,
       AfterClient, AfterGate, CreateQueue, PushQueue, PushAgain, StopWrongAccount,
       AfterFailedHandoff, AfterHandoff, AfterLead, Throw, GiveWay, GiveWayToFlag,
       Suspended, Phases
  <2>2. UNCHANGED <<sittingId, isPreparing>>
    BY <1>4 DEF Start, AfterOpen, AfterProfile, AfterLogGate, AfterBinding, AfterLineup,
       AfterClient, AfterGate, CreateQueue, PushQueue, PushAgain, StopWrongAccount,
       AfterFailedHandoff, AfterHandoff, AfterLead, Throw, GiveWay, GiveWayToFlag,
       Refuse, control
  <2>3. phase[s] # "unused" /\ TypeOK /\ NewestAgreed
    BY <2>1 DEF Suspended, IndInv
  <2>4. isPreparing
    BY <1>4, <2>1, <2>3, Knows
  <2> QED BY <2>2, <2>4
<1>5. ASSUME NEW s \in Sittings, Start(s), s # sittingId PROVE UNCHANGED Abstract!vars
  BY <1>2, <1>5, OnlyNewestActs
<1>6. ASSUME NEW a \in Advances, Advance(a) PROVE UNCHANGED Abstract!vars
  <2>1. UNCHANGED <<sittingId, isPreparing>> /\ session'.queue = session.queue
    BY <1>6, AdvanceCursor, SessionFields
       DEF IndInv, TypeOK, SessionRecords, Advance, AdvanceSession, AdvanceCreate,
       AdvancePush, AdvanceAnswer
  <2> QED BY <1>2, <2>1
<1>7. CASE UNCHANGED vars
  BY <1>7 DEF vars, Abstract!vars
<1> QED
  BY <1>1, <1>2, <1>3, <1>4, <1>5, <1>6, <1>7 DEF Next, Done, Abstract!Next

\* Session implements Sitting: the newest start wins, and settles once.
THEOREM Implements == Spec => NewestWins
<1>1. Init => Abstract!Init
  BY DEF Init, Abstract!Init, NoSession
<1> QED BY <1>1, RefinesStep, Invariance, PTL DEF Spec, NewestWins, Abstract!Spec

----------------------------------------------------------------------------
(* The cursor.  While the newest start has bound the session and not yet   *)
(* loaded its lineup, the cursor is 0, so a shorter lineup still holds it. *)

CursorInv ==
  /\ CursorInLineup
  /\ \A s \in Sittings : s = sittingId /\ phase[s] = "lineup" => session.cursor = 0

\* Every step keeps the cursor within the lineup, and at its start while a
\* start that has bound the session is still building its lineup.
LEMMA CursorStep == IndInv /\ CursorInv /\ [Next]_vars => CursorInv'
<1> SUFFICES ASSUME IndInv, CursorInv, [Next]_vars PROVE CursorInv'
    OBVIOUS
<1> USE DEF CursorInv, CursorInLineup
<1>0. /\ session \in SessionRecords /\ session.cursor \in Nat /\ session.count \in Nat
      /\ phase \in [Sittings -> Phases]
  BY SessionFields, BoundsAssumption DEF IndInv, TypeOK
<1>1. ASSUME NEW s \in Sittings, AfterBinding(s) PROVE CursorInv'
  <2>1. CASE GiveWay(s, "binding")
    BY <1>0, <2>1 DEF GiveWay, Return, Goto, control, output
  <2>2. CASE session' = [session EXCEPT !.identity = s, !.cursor = 0]
    <3>1. session'.cursor = 0 /\ session'.count = session.count
      BY <1>0, <2>2 DEF SessionRecords
    <3> QED BY <1>0, <3>1
  <2> QED BY <1>1, <2>1, <2>2 DEF AfterBinding
<1>2. ASSUME NEW s \in Sittings, AfterLineup(s) PROVE CursorInv'
  <2>1. CASE UNCHANGED session /\ Goto(s, "settle") /\ UNCHANGED sittingId
    BY <1>0, <2>1 DEF Goto
  <2>2. ASSUME NEW len \in 1..MaxLen, session' = [session EXCEPT !.queue = s, !.count = len],
               phase[s] = "lineup", ~Superseded(s)
        PROVE  CursorInv'
    <3>1. s = sittingId
      BY <2>2, Knows DEF IndInv
    <3>2. session'.cursor = session.cursor /\ session'.count = len
      BY <1>0, <2>2 DEF SessionRecords
    <3> QED BY <2>2, <3>1, <3>2, BoundsAssumption
  <2> QED BY <1>2, <2>1, <2>2 DEF AfterLineup, GiveWay, Refuse, Return, control, output
<1>3. ASSUME NEW s \in Sittings, AfterHandoff(s) PROVE CursorInv'
  <2>1. session'.cursor = session.cursor /\ session'.count = session.count
    BY <1>0, <1>3 DEF AfterHandoff, GiveWay, output, SessionRecords
  <2> QED BY <1>0, <1>3, <2>1 DEF AfterHandoff, GiveWay, NextLead, Return, Goto, control
<1>4. ASSUME NEW s \in Sittings, Settle(s) PROVE CursorInv'
  BY <1>0, <1>4 DEF Settle, SettleRest, ClearFailedPreparation, NoSession, Goto
<1>5. ASSUME NEW s \in Sittings, StartSession(s) PROVE CursorInv'
  BY <1>0, <1>5 DEF StartSession, NewScope, Goto
<1>6. ASSUME NEW s \in Sittings, UNCHANGED <<session, sittingId>>,
             NEW where \in Phases \ {"lineup"}, Goto(s, where) PROVE CursorInv'
  BY <1>0, <1>6 DEF Goto
<1>7. ASSUME NEW s \in Sittings,
             \/ AfterOpen(s) \/ AfterProfile(s) \/ AfterLogGate(s) \/ AfterClient(s)
             \/ AfterGate(s) \/ CreateQueue(s) \/ PushQueue(s) \/ PushAgain(s)
             \/ StopWrongAccount(s) \/ AfterFailedHandoff(s) \/ AfterLead(s) \/ Throw(s)
      PROVE CursorInv'
  BY <1>6, <1>7 DEF AfterOpen, AfterProfile, AfterLogGate, AfterClient, ArmPlans,
     AfterGate, CreateQueue, PushQueue, PushAgain, StopWrongAccount, AfterFailedHandoff,
     AfterLead, NextLead, Throw, GiveWay, GiveWayToFlag, Refuse, Return, control, output,
     Phases
<1>8. ASSUME NEW a \in Advances, AdvanceSession(a) PROVE CursorInv'
  <2>1. ~isPreparing /\ session.count > 0 /\ UNCHANGED <<sittingId, phase>>
    BY <1>8 DEF AdvanceSession
  <2>2. \A s \in Sittings : s = sittingId => phase[s] = "done"
    BY <2>1 DEF IndInv, NewestAgreed
  <2>3. session'.count = session.count
    BY <1>0, <1>8 DEF AdvanceSession, SessionRecords
  <2>4. session'.cursor < session.count
    BY <1>0, <1>8, <2>1 DEF AdvanceSession, SessionRecords
  <2> QED BY <2>1, <2>2, <2>3, <2>4
<1>9. ASSUME NEW a \in Advances, Advance(a), ~AdvanceSession(a) PROVE CursorInv'
  BY <1>9 DEF Advance, AdvanceCreate, AdvancePush, AdvanceAnswer
<1>10. CASE UNCHANGED vars
  BY <1>10 DEF vars
<1> QED
  BY <1>1, <1>2, <1>3, <1>4, <1>5, <1>7, <1>8, <1>9, <1>10 DEF Next, Start, Done

\* The cursor names an item of the lineup in every state (session.ts
\* advanceSession and the reset of the cursor with the identity fields).
THEOREM CursorHolds == Spec => []CursorInLineup
<1>1. Init => CursorInv
  BY DEF Init, CursorInv, CursorInLineup, NoSession
<1>2. CursorInv => CursorInLineup
  BY DEF CursorInv
<1> QED BY <1>1, <1>2, CursorStep, Invariance, PTL DEF Spec

----------------------------------------------------------------------------
(* The player.  From the push on, what the newest start pushed is what the *)
(* player was last told, until an advance pushes a playQueue of its own,   *)
(* which the session does not take over.                                   *)

Unadvanced == \A a \in Advances : advance[a].phase = "unused"

Followed(s) ==
  /\ phase[s] = "answer" => player = work[s].playQueue
  /\ phase[s] = "lead" => player = session.playQueue
  /\ phase[s] = "settle" /\ outcome[s] = "ok" => player = session.playQueue

PlayerInv ==
  Unadvanced =>
    /\ \A s \in Sittings : s = sittingId => Followed(s)
    /\ ~isPreparing /\ session.queue # 0 => player = session.playQueue

\* A step of one start leaves the locals and the outcome of the others alone.
LEMMA OneStartWorks ==
  ASSUME IndInv, NEW s \in Sittings, NEW t \in Sittings, Start(s), t # s
  PROVE  work'[t] = work[t] /\ outcome'[t] = outcome[t]
  BY DEF IndInv, TypeOK, Start, AfterOpen, AfterProfile, AfterLogGate, AfterBinding,
     AfterLineup, AfterClient, ArmPlans, AfterGate, CreateQueue, PushQueue, PushAgain,
     StopWrongAccount, AfterFailedHandoff, AfterHandoff, AfterLead, NextLead, Throw,
     Settle, SettleRest, GiveWay, GiveWayToFlag, Refuse, Return, Goto, output

\* What the newest start does keeps the player on what it pushed.
LEMMA NewestFollows ==
  ASSUME IndInv, NEW s \in Sittings, Start(s), ~Settle(s), s = sittingId, Followed(s)
  PROVE  Followed(s)'
<1>1. /\ phase \in [Sittings -> Phases] /\ outcome \in [Sittings -> Outcomes]
      /\ session \in SessionRecords /\ work[s] \in WorkRecords
  BY DEF IndInv, TypeOK
<1>2. ASSUME phase'[s] = "settle", outcome'[s] # "ok" PROVE Followed(s)'
  BY <1>2 DEF Followed
<1>3. ASSUME phase'[s] \notin {"answer", "lead", "settle"} PROVE Followed(s)'
  BY <1>3 DEF Followed
<1>4. CASE \E where \in Phases : GiveWay(s, where) \/ GiveWayToFlag(s, where)
  BY <1>1, <1>2, <1>4 DEF GiveWay, GiveWayToFlag, Return, Goto
<1>5. CASE Refuse(s) \/ Throw(s)
  BY <1>1, <1>2, <1>5 DEF Refuse, Throw, Return, Goto
<1>6. CASE \E where \in Phases \ {"answer", "lead", "settle"} : Goto(s, where)
  BY <1>1, <1>3, <1>6 DEF Goto
<1>7. CASE PushQueue(s)
  <2>1. CASE player' = work[s].playQueue /\ Goto(s, "answer") /\ work' = work
    BY <1>1, <2>1 DEF Followed, Goto
  <2>2. CASE Return(s, "cancelled")
    BY <1>1, <1>2, <2>2 DEF Return, Goto
  <2> QED  BY <1>6, <1>7, <2>1, <2>2 DEF PushQueue, Phases
<1>8. CASE CreateQueue(s)
  <2>1. CASE Return(s, "cancelled")
    BY <1>1, <1>2, <2>1 DEF Return, Goto
  <2> QED  BY <1>6, <1>8, <2>1 DEF CreateQueue, Phases
<1>9. ASSUME NextLead(s), player = session'.playQueue, player' = player PROVE Followed(s)'
  BY <1>1, <1>9 DEF NextLead, Return, Goto, Followed
<1>10. CASE phase[s] = "answer" /\ session' = [session EXCEPT !.playQueue = work[s].playQueue]
            /\ NextLead(s) /\ player' = player
  <2>1. session'.playQueue = work[s].playQueue
    BY <1>1, <1>10 DEF SessionRecords
  <2> QED  BY <1>9, <1>10, <2>1 DEF Followed
<1>11. CASE phase[s] = "lead" /\ session' = session /\ NextLead(s) /\ player' = player
  BY <1>9, <1>11 DEF Followed
<1>12. CASE AfterHandoff(s) \/ AfterLead(s)
  BY <1>4, <1>10, <1>11, <1>12 DEF AfterHandoff, AfterLead, Phases
<1>13. CASE \/ AfterOpen(s) \/ AfterProfile(s) \/ AfterLogGate(s) \/ AfterBinding(s)
            \/ AfterLineup(s) \/ AfterClient(s) \/ AfterGate(s) \/ PushAgain(s)
            \/ StopWrongAccount(s) \/ AfterFailedHandoff(s)
  BY <1>4, <1>5, <1>6, <1>13
     DEF AfterOpen, AfterProfile, AfterLogGate, AfterBinding, AfterLineup, AfterClient,
         ArmPlans, AfterGate, PushAgain, StopWrongAccount, AfterFailedHandoff, Phases
<1> QED  BY <1>5, <1>7, <1>8, <1>12, <1>13 DEF Start

LEMMA PlayerStep == IndInv /\ PlayerInv /\ [Next]_vars => PlayerInv'
<1> SUFFICES ASSUME IndInv, PlayerInv, [Next]_vars, Unadvanced'
             PROVE  /\ \A s \in Sittings : s = sittingId' => Followed(s)'
                    /\ ~isPreparing' /\ session'.queue # 0 => player' = session'.playQueue
  BY DEF PlayerInv
<1> DEFINE Goal == /\ \A s \in Sittings : s = sittingId' => Followed(s)'
                   /\ ~isPreparing' /\ session'.queue # 0 => player' = session'.playQueue
<1>1. ASSUME UNCHANGED advance
      PROVE  /\ \A s \in Sittings : s = sittingId => Followed(s)
             /\ ~isPreparing /\ session.queue # 0 => player = session.playQueue
  BY <1>1 DEF Unadvanced, PlayerInv
<1>2. ASSUME NEW s \in Sittings, StartSession(s) PROVE Goal
  <2>1. sittingId' = s /\ isPreparing' = TRUE /\ phase'[s] = "open"
    BY <1>2 DEF StartSession, NewScope, Goto, IndInv, TypeOK
  <2> QED  BY <2>1 DEF Followed
<1>3. ASSUME NEW s \in Sittings, Start(s) PROVE Goal
  <2>1. UNCHANGED <<advance, sittingId>>
    BY <1>3 DEF Start, AfterOpen, AfterProfile, AfterLogGate, AfterBinding,
       AfterLineup, AfterClient, AfterGate, CreateQueue, PushQueue, PushAgain,
       StopWrongAccount, AfterFailedHandoff, AfterHandoff, AfterLead, Throw, Settle,
       SettleRest, GiveWay, GiveWayToFlag, Refuse, control
  <2>2. CASE s # sittingId
    <3>1. UNCHANGED <<session, isPreparing, player>>
      BY <1>3, <2>2, OnlyNewestActs
    <3>2. \A t \in Sittings : t = sittingId =>
            phase'[t] = phase[t] /\ work'[t] = work[t] /\ outcome'[t] = outcome[t]
      BY <1>3, <2>2, OneStartMoves, OneStartWorks
    <3> QED  BY <1>1, <2>1, <3>1, <3>2 DEF Followed
  <2>3. CASE s = sittingId /\ ~Settle(s)
    <3>1. Followed(s)'
      BY <1>1, <1>3, <2>1, <2>3, NewestFollows
    <3>2. isPreparing' = isPreparing
      BY <1>3, <2>3 DEF Start, AfterOpen, AfterProfile, AfterLogGate, AfterBinding,
         AfterLineup, AfterClient, AfterGate, CreateQueue, PushQueue, PushAgain,
         StopWrongAccount, AfterFailedHandoff, AfterHandoff, AfterLead, Throw,
         GiveWay, GiveWayToFlag, Refuse, control
    <3>3. phase[s] # "done"
      BY <1>3 DEF Start, AfterOpen, AfterProfile, AfterLogGate, AfterBinding, AfterLineup,
         AfterClient, AfterGate, CreateQueue, PushQueue, PushAgain, StopWrongAccount,
         AfterFailedHandoff, AfterHandoff, AfterLead, Throw, Settle, SettleRest, GiveWay,
         GiveWayToFlag
    <3>4. isPreparing
      BY <2>3, <3>3 DEF IndInv, NewestAgreed
    <3> QED  BY <2>1, <2>3, <3>1, <3>2, <3>4
  <2>4. CASE s = sittingId /\ Settle(s)
    <3>1. phase[s] = "settle" /\ phase'[s] = "done" /\ player' = player
      BY <2>4 DEF Settle, SettleRest, Goto, IndInv, TypeOK
    <3>2. CASE outcome[s] = "ok"
      <4>1. session' = session
        BY <2>4, <3>2 DEF Settle, ClearFailedPreparation
      <4>2. player = session.playQueue
        BY <1>1, <2>1, <2>4, <3>1, <3>2 DEF Followed
      <4> QED  BY <2>1, <2>4, <3>1, <4>1, <4>2 DEF Followed
    <3>3. CASE outcome[s] # "ok"
      <4>1. session'.queue = 0
        BY <2>4, <3>3 DEF Settle, ClearFailedPreparation, NoSession
      <4> QED  BY <2>1, <2>4, <3>1, <4>1 DEF Followed
    <3> QED  BY <3>2, <3>3
  <2> QED  BY <2>2, <2>3, <2>4
<1>4. ASSUME NEW a \in Advances, Advance(a) PROVE FALSE
  <2>1. advance \in [Advances -> AdvanceRecords] /\ advance[a] \in AdvanceRecords
    BY DEF IndInv, TypeOK
  <2>2. advance'[a].phase # "unused"
    BY <1>4, <2>1 DEF Advance, AdvanceSession, AdvanceCreate, AdvancePush, AdvanceAnswer,
       AdvanceRecords
  <2> QED  BY <2>2 DEF Unadvanced
<1>5. CASE UNCHANGED vars
  BY <1>1, <1>5 DEF vars, Followed
<1> QED  BY <1>2, <1>3, <1>4, <1>5 DEF Next, Done

\* With no advance ever made, nothing in flight and a session in place, the
\* player was last told to play the playQueue the session remembers (session.ts,
\* "The LIVE playQueue this session pushed"), however starts are replaced,
\* retried and answered.
THEOREM PlayerFollows == Spec => [](Unadvanced => PlayerFollowsSession)
<1>1. Init => PlayerInv
  BY BoundsAssumption DEF Init, PlayerInv, Followed, NoSession, Sittings
<1>2. PlayerInv => (Unadvanced => PlayerFollowsSession)
  BY DEF PlayerInv, PlayerFollowsSession
<1> QED BY <1>1, <1>2, PlayerStep, Invariance, PTL DEF Spec
=============================================================================
