--------------------------- MODULE Profile_proofs ---------------------------
(***************************************************************************)
(* Proofs about Profile for every set of accounts and drives, every life   *)
(* of an observation and every number of attempts.                         *)
(***************************************************************************)
EXTENDS Profile, TLAPS

Gate == {"active", "screen", "log", "walk", "commit", "closing", "recheck"}
Pcs == Ended \cup Gate \cup {"play", "push", "verify", "stop"}
JobRecords == [pc : Pcs, needs : Accounts \cup {Nobody},
               tries : 0 .. SwitchAttempts, pushes : 0 .. SessionRetries]
Observations == [who : Accounts \cup {Nobody}, age : 0 .. Old]
Screens == [who : Accounts, screen : {"home", "picker", "playing"},
            by : Jobs \cup {Nobody}, stamped : BOOLEAN, found : BOOLEAN, due : SUBSET Jobs]

\* What is remembered of an account is what Plex itself said last, and when.
Authority == seen.who # Nobody => told = seen

\* Only a scan bound to an account is held at the gate, with a walk left.
GateIsBound ==
  \A j \in Jobs : job[j].pc \in Gate => job[j].needs # Nobody /\ job[j].tries < SwitchAttempts

\* The audit has found the play of another account.
FoundWrong(j) == WrongPlay(j) /\ tv.found

\* That play is being stopped, or was reported: which is why no wait that finds
\* nothing can report it as a success later.
Settled == {"stop", "failed"}
WrongIsSettled == \A j \in Jobs : FoundWrong(j) => job[j].pc \in Settled

IndInv == TypeOK /\ Authority /\ GateIsBound /\ WrongIsSettled

----------------------------------------------------------------------------
(* What the updates of the model leave of its records.                     *)

\* The type invariant, with its records named.
LEMMA Types ==
  TypeOK <=> /\ adb \in BOOLEAN /\ tv \in Screens /\ seen \in Observations
             /\ told \in Observations /\ newest \in Jobs /\ job \in [Jobs -> JobRecords]
  BY DEF TypeOK, Screens, Observations, JobRecords, Pcs, Gate

\* The same of the next state.
LEMMA TypesNext ==
  TypeOK' <=> /\ adb' \in BOOLEAN /\ tv' \in Screens /\ seen' \in Observations
              /\ told' \in Observations /\ newest' \in Jobs /\ job' \in [Jobs -> JobRecords]
  BY DEF TypeOK, Screens, Observations, JobRecords, Pcs, Gate

\* The records everything starts from are of their types.
LEMMA NullRecords ==
  /\ Unseen \in Observations /\ Unseen.who = Nobody
  /\ Idle \in JobRecords /\ Idle.pc = "idle" /\ Idle.needs = Nobody
  BY BoundsAssumption DEF Unseen, Observations, Old, Idle, JobRecords, Pcs, Ended

\* Going to another wait leaves a drive a drive for the same account, and every
\* other drive alone.
LEMMA Moved ==
  ASSUME job \in [Jobs -> JobRecords], NEW j \in Jobs, NEW pc \in Pcs, Goto(j, pc)
  PROVE  /\ job' \in [Jobs -> JobRecords]
         /\ job'[j].pc = pc /\ job'[j].needs = job[j].needs
         /\ job'[j].tries \in {0, job[j].tries}
         /\ \A k \in Jobs \ {j} : job'[k] = job[k]
<1> DEFINE tries == IF pc \in Ended \cup {"play", "stop"} THEN 0 ELSE job[j].tries
           pushes == IF pc \in Ended \cup {"stop"} THEN 0 ELSE job[j].pushes
           r == [job[j] EXCEPT !.pc = pc, !.tries = tries, !.pushes = pushes]
<1>1. job' = [job EXCEPT ![j] = r]
  BY DEF Goto, JobRecords
<1>2. tries \in {0, job[j].tries} /\ tries \in 0 .. SwitchAttempts /\ pushes \in 0 .. SessionRetries
  BY BoundsAssumption DEF JobRecords
<1> HIDE DEF tries, pushes
<1>3. r \in JobRecords /\ r.pc = pc /\ r.needs = job[j].needs /\ r.tries = tries
  BY <1>2 DEF JobRecords
<1> HIDE DEF r
<1> QED BY <1>1, <1>2, <1>3

\* Giving up leaves an idle drive.
LEMMA GaveUp ==
  ASSUME job \in [Jobs -> JobRecords], NEW j \in Jobs, GiveUp(j)
  PROVE  /\ job' \in [Jobs -> JobRecords] /\ job'[j].pc = "idle" /\ job'[j].needs = Nobody
         /\ \A k \in Jobs \ {j} : job'[k] = job[k]
  BY NullRecords DEF GiveUp

\* What Plex named is remembered by both, or by neither.
LEMMA Observed ==
  ASSUME TypeOK, Authority, NEW j, NEW a \in Accounts, Observe(j, a) \/ Contradict(j, a)
  PROVE  seen' \in Observations /\ told' \in Observations /\ Authority'
<1>1. [who |-> a, age |-> 0] \in Observations
  BY BoundsAssumption DEF Observations, Old
<1>2. seen \in Observations /\ told \in Observations
  BY Types
<1> QED BY <1>1, <1>2, NullRecords DEF Observe, Contradict, Authority

\* A claim leaves nothing to go by.
LEMMA ClaimsNothing ==
  ASSUME TypeOK, Authority, NEW j, seen' = Claimed(j), UNCHANGED told
  PROVE  seen' \in Observations /\ Authority'
  BY Types, NullRecords DEF Claimed, Authority

----------------------------------------------------------------------------
(* A step of one drive.                                                    *)

\* A drive moves on: what of the TV and of the memory it may change, and when it
\* may report success, for the invariant to survive.
LEMMA Drove ==
  ASSUME IndInv, NEW j \in Jobs,
         job' \in [Jobs -> JobRecords], \A k \in Jobs \ {j} : job'[k] = job[k],
         job'[j].pc \in Gate => job'[j].needs # Nobody /\ job'[j].tries < SwitchAttempts,
         UNCHANGED <<adb, newest>>,
         tv' \in Screens, seen' \in Observations, told' \in Observations, Authority',
         \A k \in Jobs \ {j} : FoundWrong(k)' => FoundWrong(k),
         FoundWrong(j)' => job'[j].pc \in Settled
  PROVE  IndInv'
<1>1. TypeOK'
  BY Types, TypesNext DEF IndInv
<1>2. GateIsBound'
  BY DEF IndInv, GateIsBound
<1>3. WrongIsSettled'
  BY DEF IndInv, WrongIsSettled
<1> QED BY <1>1, <1>2, <1>3 DEF IndInv

\* A drive that goes to another wait, the TV as it was.
LEMMA Went ==
  ASSUME IndInv, NEW j \in Jobs, NEW pc \in Pcs, Goto(j, pc),
         pc \in Gate => job[j].pc \in Gate,
         UNCHANGED <<adb, newest, tv>>,
         seen' \in Observations, told' \in Observations, Authority',
         job[j].pc \in Settled => pc = "failed"
  PROVE  IndInv'
<1>1. /\ TypeOK /\ tv \in Screens /\ job \in [Jobs -> JobRecords]
  BY Types DEF IndInv
<1>2. /\ job' \in [Jobs -> JobRecords] /\ \A k \in Jobs \ {j} : job'[k] = job[k]
      /\ job'[j].pc = pc /\ job'[j].needs = job[j].needs /\ job'[j].tries \in {0, job[j].tries}
  BY <1>1, Moved
<1>3. \A k \in Jobs : FoundWrong(k)' => FoundWrong(k)
  BY <1>2 DEF FoundWrong, WrongPlay, Stamped
<1>4. pc \in Gate => job'[j].needs # Nobody /\ job'[j].tries < SwitchAttempts
  BY <1>2, BoundsAssumption DEF IndInv, GateIsBound
<1>5. FoundWrong(j)' => job'[j].pc \in Settled
  BY <1>2, <1>3 DEF IndInv, WrongIsSettled, Settled
<1> QED BY <1>1, <1>2, <1>3, <1>4, <1>5, Drove

\* A drive that goes to another wait, the TV then showing no play of its own.
LEMMA WentBlank ==
  ASSUME IndInv, NEW j \in Jobs, NEW pc \in Pcs, Goto(j, pc),
         pc \in Gate => job[j].pc \in Gate,
         UNCHANGED <<adb, newest, seen, told>>,
         tv' \in Screens, tv'.screen # "playing"
  PROVE  IndInv'
<1>1. /\ TypeOK /\ seen \in Observations /\ told \in Observations /\ job \in [Jobs -> JobRecords]
  BY Types DEF IndInv
<1>2. /\ job' \in [Jobs -> JobRecords] /\ \A k \in Jobs \ {j} : job'[k] = job[k]
      /\ job'[j].pc = pc /\ job'[j].needs = job[j].needs /\ job'[j].tries \in {0, job[j].tries}
  BY <1>1, Moved
<1>3. \A k \in Jobs : ~FoundWrong(k)'
  BY DEF FoundWrong, WrongPlay, Stamped
<1>4. pc \in Gate => job'[j].needs # Nobody /\ job'[j].tries < SwitchAttempts
  BY <1>2, BoundsAssumption DEF IndInv, GateIsBound
<1>5. Authority'
  BY DEF IndInv, Authority
<1> QED BY <1>1, <1>2, <1>3, <1>4, <1>5, Drove

\* A drive that gives up, the TV as it was.
LEMMA Left ==
  ASSUME IndInv, NEW j \in Jobs, GiveUp(j), UNCHANGED <<adb, newest, tv>>,
         job[j].pc \notin Settled,
         seen' \in Observations, told' \in Observations, Authority'
  PROVE  IndInv'
<1>1. TypeOK /\ tv \in Screens /\ job \in [Jobs -> JobRecords]
  BY Types DEF IndInv
<1>2. /\ job' \in [Jobs -> JobRecords] /\ job'[j].pc = "idle"
      /\ job'[j].needs = Nobody /\ \A k \in Jobs \ {j} : job'[k] = job[k]
  BY <1>1, GaveUp
<1>3. \A k \in Jobs \ {j} : FoundWrong(k)' => FoundWrong(k)
  BY <1>2 DEF FoundWrong, WrongPlay, Stamped
<1>4. "idle" \notin Gate
  BY DEF Gate
<1>5. ~FoundWrong(j)'
  <2>1. ~FoundWrong(j)
    BY DEF IndInv, WrongIsSettled
  <2> QED BY <1>2, <2>1, NullRecords DEF FoundWrong, WrongPlay, Stamped
<1> QED BY <1>5, <1>1, <1>2, <1>3, <1>4, Drove

\* What no step changes when it leaves the memory alone.
LEMMA Remembered ==
  ASSUME IndInv, UNCHANGED <<seen, told>>
  PROVE  seen' \in Observations /\ told' \in Observations /\ Authority'
  BY Types DEF IndInv, Authority

----------------------------------------------------------------------------
(* One lemma per action: the inductive invariant survives it.              *)

\* A new scan keeps the invariant: nothing on the TV is its own yet.
LEMMA StepBegin ==
  ASSUME IndInv, NEW j \in Jobs, NEW needs \in Accounts \cup {Nobody}, Begin(j, needs)
  PROVE  IndInv'
<1> DEFINE first == IF needs = Nobody THEN "play" ELSE "active"
           r == [Idle EXCEPT !.needs = needs, !.pc = first]
<1>0. /\ newest' = j /\ UNCHANGED <<adb, seen, told>>
      /\ job' = [k \in Jobs |-> IF k = j THEN r
                                ELSE IF job[k].pc \in Ended THEN Idle ELSE job[k]]
      /\ tv' = [tv EXCEPT !.by = Nobody, !.found = FALSE, !.due = {}]
  BY DEF Begin
<1>1. /\ adb \in BOOLEAN /\ tv \in Screens /\ seen \in Observations /\ told \in Observations
      /\ job \in [Jobs -> JobRecords]
  BY Types DEF IndInv
<1>8. first \in Pcs /\ (first \in Gate => needs # Nobody)
  BY DEF Pcs, Gate, Settled
<1> HIDE DEF first
<1>2. r \in JobRecords /\ r.needs = needs /\ r.tries = 0 /\ r.pc = first
  <2>1. Idle \in JobRecords /\ Idle.tries = 0
    BY NullRecords DEF Idle
  <2> QED BY <1>8, <2>1 DEF JobRecords
<1> HIDE DEF r
<1>3. tv' \in Screens /\ tv'.by # j
  BY <1>0, <1>1, NobodyAssumption DEF Screens, Nobody
<1>4. TypeOK'
  BY <1>0, <1>1, <1>2, <1>3, NullRecords, TypesNext
<1>5. Authority'
  BY <1>0 DEF IndInv, Authority
<1>6. GateIsBound'
  <2> SUFFICES ASSUME NEW k \in Jobs, job'[k].pc \in Gate
               PROVE  job'[k].needs # Nobody /\ job'[k].tries < SwitchAttempts
    BY DEF GateIsBound
  <2>1. CASE k = j
    BY <1>0, <1>2, <1>8, <2>1, BoundsAssumption
  <2>2. CASE k # j
    BY <1>0, <2>2, NullRecords DEF IndInv, GateIsBound, Gate
  <2> QED BY <2>1, <2>2
<1>7. WrongIsSettled'
  BY <1>0, <1>3 DEF WrongIsSettled, FoundWrong, WrongPlay
<1> QED BY <1>4, <1>5, <1>6, <1>7 DEF IndInv

\* Asking whom the live session belongs to keeps the invariant.
LEMMA StepActive ==
  ASSUME IndInv, NEW j \in Jobs, Active(j)
  PROVE  IndInv'
<1>1. /\ job[j].pc = "active" /\ UNCHANGED <<adb, tv, newest>>
      /\ tv.who \in Accounts
  BY Types DEF Active, Live, At, IndInv, Screens
<1>2. seen' \in Observations /\ told' \in Observations /\ Authority'
  BY <1>1, Observed, Remembered DEF Active, IndInv
<1>3. \E pc \in {"play", "walk", "log", "screen"} : Goto(j, pc)
  BY DEF Active
<1> QED BY <1>1, <1>2, <1>3, Went DEF Pcs, Gate, Settled

\* Looking at the screen keeps the invariant.
LEMMA StepScreen ==
  ASSUME IndInv, NEW j \in Jobs, Screen(j)
  PROVE  IndInv'
<1>1. /\ job[j].pc = "screen" /\ UNCHANGED <<adb, tv, seen, newest, told>>
      /\ \E pc \in {"play", "walk", "log"} : Goto(j, pc)
  BY DEF Screen, At
<1> QED BY <1>1, Went, Remembered DEF Pcs, Gate, Settled

\* A line of the server's log keeps the invariant.
LEMMA StepLogLine ==
  ASSUME IndInv, NEW j \in Jobs, LogLine(j)
  PROVE  IndInv'
<1>1. /\ job[j].pc = "log" /\ UNCHANGED <<adb, tv, newest>> /\ tv.who \in Accounts
      /\ Observe(j, tv.who)
  BY Types DEF LogLine, At, IndInv, Screens
<1>2. seen' \in Observations /\ told' \in Observations /\ Authority'
  BY <1>1, Observed DEF IndInv
<1>3. CASE GiveUp(j)
  BY <1>1, <1>2, <1>3, Left DEF Settled
<1>4. CASE Goto(j, "play")
  BY <1>1, <1>2, <1>4, Went DEF Pcs, Gate, Settled
<1>5. CASE UNCHANGED job
  <2>1. \A k \in Jobs : FoundWrong(k)' <=> FoundWrong(k)
    BY <1>1, <1>5 DEF FoundWrong, WrongPlay, Stamped
  <2> QED BY <1>1, <1>2, <1>5, <2>1, Types, TypesNext DEF IndInv, GateIsBound, WrongIsSettled
<1> QED BY <1>3, <1>4, <1>5 DEF LogLine

\* The end of the wait for the log keeps the invariant.
LEMMA StepLogTimeout ==
  ASSUME IndInv, NEW j \in Jobs, LogTimeout(j)
  PROVE  IndInv'
<1>1. /\ UNCHANGED <<adb, tv, seen, newest, told>> /\ (GiveUp(j) \/ Goto(j, "failed"))
      /\ job[j].pc = "log"
  BY DEF LogTimeout, At
<1> QED BY <1>1, Left, Went, Remembered DEF Pcs, Gate, Ended, Settled

\* Walking the picker keeps the invariant: it covers the player.
LEMMA StepWalk ==
  ASSUME IndInv, NEW j \in Jobs, Walk(j)
  PROVE  IndInv'
<1>1. job[j].pc = "walk" /\ UNCHANGED <<adb, seen, newest, told>> /\ tv \in Screens
  BY Types DEF Walk, Live, At, IndInv
<1>2. CASE Goto(j, "commit") /\ tv' = Showing("picker")
  <2>1. tv' \in Screens /\ tv'.screen = "picker"
    BY <1>1, <1>2 DEF Showing, Screens
  <2> QED BY <1>1, <1>2, <2>1, WentBlank DEF Pcs, Gate, Settled
<1>3. CASE Goto(j, "recheck") /\ UNCHANGED tv
  BY <1>1, <1>3, Went, Remembered DEF Pcs, Gate, Settled
<1> QED BY <1>2, <1>3 DEF Walk

\* The press that signs an account in keeps the invariant: it acts on a picker,
\* never under a play.
LEMMA StepCommit ==
  ASSUME IndInv, NEW j \in Jobs, Commit(j)
  PROVE  IndInv'
<1>1. /\ job[j].pc = "commit" /\ UNCHANGED <<adb, seen, newest, told>> /\ tv \in Screens
      /\ Goto(j, "closing") /\ job \in [Jobs -> JobRecords]
  BY Types DEF Commit, At, IndInv
<1>2. CASE tv' = [tv EXCEPT !.who = job[j].needs, !.screen = "home"]
  <2>1. job[j].needs \in Accounts
    BY <1>1 DEF IndInv, GateIsBound, Gate, JobRecords
  <2>2. tv' \in Screens /\ tv'.screen = "home"
    BY <1>1, <1>2, <2>1 DEF Screens
  <2> QED BY <1>1, <2>2, WentBlank DEF Pcs, Gate, Settled
<1>3. CASE UNCHANGED tv
  BY <1>1, <1>3, Went, Remembered DEF Pcs, Gate, Settled
<1> QED BY <1>2, <1>3 DEF Commit

\* The picker's closing, or its staying, keeps the invariant.
LEMMA StepClosing ==
  ASSUME IndInv, NEW j \in Jobs, Closing(j)
  PROVE  IndInv'
<1>1. job[j].pc = "closing" /\ UNCHANGED <<adb, tv, newest, told>> /\ told \in Observations
  BY Types DEF Closing, At, IndInv
<1>2. CASE GiveUp(j) /\ UNCHANGED seen
  BY <1>1, <1>2, Left, Remembered DEF Settled
<1>3. CASE Goto(j, "play") /\ seen' = Claimed(j)
  BY <1>1, <1>3, Went, ClaimsNothing DEF Pcs, Gate, Settled, IndInv
<1>4. CASE Goto(j, "recheck") /\ UNCHANGED seen
  BY <1>1, <1>4, Went, Remembered DEF Pcs, Gate, Settled
<1> QED BY <1>2, <1>3, <1>4 DEF Closing

\* A look back after a failed walk keeps the invariant, and the walks in number.
LEMMA StepRecheck ==
  ASSUME IndInv, NEW j \in Jobs, Recheck(j)
  PROVE  IndInv'
<1>1. /\ job[j].pc = "recheck" /\ UNCHANGED <<adb, tv, seen, newest, told>>
      /\ job \in [Jobs -> JobRecords] /\ tv \in Screens
  BY Types DEF Recheck, At, IndInv
<1>2. job[j].needs # Nobody /\ job[j].tries < SwitchAttempts /\ job[j].tries \in Nat
  BY <1>1 DEF IndInv, GateIsBound, Gate, JobRecords
<1> DEFINE tries == IF OnRequired(j) THEN job[j].tries ELSE job[j].tries + 1
           pc == CASE OnRequired(j) -> "play"
                   [] job[j].tries + 1 < SwitchAttempts -> "walk"
                   [] OTHER -> "failed"
           r == [job[j] EXCEPT !.tries = tries, !.pc = pc]
<1>3. job' = [job EXCEPT ![j] = r]
  BY <1>1 DEF Recheck, JobRecords
<1>4. tries \in 0 .. SwitchAttempts
  BY <1>2, BoundsAssumption
<1>5. pc \in {"play", "walk", "failed"} /\ (pc = "walk" => tries < SwitchAttempts)
  BY <1>2
<1> HIDE DEF tries, pc
<1>6. r \in JobRecords /\ r.pc = pc /\ r.tries = tries /\ r.needs = job[j].needs
  BY <1>1, <1>4, <1>5 DEF JobRecords, Pcs, Gate, Ended
<1> HIDE DEF r
<1>7. /\ job' \in [Jobs -> JobRecords] /\ \A k \in Jobs \ {j} : job'[k] = job[k]
      /\ job'[j] = r
  BY <1>1, <1>3, <1>6
<1>8. job'[j].pc \in Gate => job'[j].needs # Nobody /\ job'[j].tries < SwitchAttempts
  BY <1>2, <1>5, <1>6, <1>7 DEF Gate
<1>9. \A k \in Jobs \ {j} : FoundWrong(k)' => FoundWrong(k)
  BY <1>1, <1>7 DEF FoundWrong, WrongPlay, Stamped
<1>10. ~FoundWrong(j)'
  <2>1. ~FoundWrong(j) /\ job'[j].needs = job[j].needs
    BY <1>1, <1>6, <1>7 DEF IndInv, WrongIsSettled, Settled
  <2> QED BY <1>1, <2>1 DEF FoundWrong, WrongPlay, Stamped
<1> QED BY <1>1, <1>7, <1>8, <1>9, <1>10, Remembered, Drove

\* Sending the play, or not, keeps the invariant.
LEMMA StepPlay ==
  ASSUME IndInv, NEW j \in Jobs, Play(j)
  PROVE  IndInv'
<1>1. /\ UNCHANGED <<adb, tv, seen, newest, told>> /\ (Goto(j, "push") \/ Goto(j, "failed"))
      /\ job[j].pc = "play"
  BY DEF Play, Live, At
<1> QED BY <1>1, Went, Remembered DEF Pcs, Gate, Ended, Settled

\* Sending the play keeps the invariant: it is on screen only when it appears.
LEMMA StepPush ==
  ASSUME IndInv, NEW j \in Jobs, Push(j)
  PROVE  IndInv'
<1>1. /\ UNCHANGED <<adb, seen, newest, told>> /\ Goto(j, "verify") /\ tv \in Screens
      /\ job \in [Jobs -> JobRecords] /\ job[j].pc = "push"
  BY Types DEF Push, At, IndInv
<1>2. CASE tv' = [tv EXCEPT !.due = @ \cup {j}]
  <2>1. /\ tv' \in Screens /\ tv'.who = tv.who /\ tv'.screen = tv.screen /\ tv'.by = tv.by
        /\ tv'.stamped = tv.stamped /\ tv'.found = tv.found
    BY <1>1, <1>2 DEF Screens
  <2>2. /\ job' \in [Jobs -> JobRecords] /\ \A k \in Jobs \ {j} : job'[k] = job[k]
        /\ job'[j].pc = "verify"
    BY <1>1, Moved DEF Pcs
  <2>3. \A k \in Jobs \ {j} : FoundWrong(k)' => FoundWrong(k)
    BY <1>1, <2>1, <2>2 DEF FoundWrong, WrongPlay, Stamped
  <2>4. "verify" \notin Gate
    BY DEF Gate
  <2>5. ~FoundWrong(j)'
    <3>1. ~FoundWrong(j) /\ job'[j].needs = job[j].needs
      BY <1>1, Moved DEF IndInv, WrongIsSettled, Settled, Pcs
    <3> QED BY <1>1, <2>1, <3>1 DEF FoundWrong, WrongPlay, Stamped
  <2> QED BY <1>1, <2>1, <2>2, <2>3, <2>4, <2>5, Remembered, Drove
<1>3. CASE tv' = tv
  BY <1>1, <1>3, Went, Remembered DEF Pcs, Gate, Settled
<1> QED BY <1>2, <1>3 DEF Push

\* The play's appearing keeps the invariant: no audit has found it.
LEMMA StepAppears ==
  ASSUME IndInv, NEW j \in Jobs, Appears(j)
  PROVE  IndInv'
<1>1. UNCHANGED <<adb, seen, job, newest, told>> /\ tv \in Screens
  BY Types DEF Appears, IndInv
<1>2. tv' \in Screens /\ (tv'.screen # "playing" \/ tv'.found = FALSE)
  BY <1>1 DEF Appears, Screens
<1>3. \A k \in Jobs : ~FoundWrong(k)'
  BY <1>2 DEF FoundWrong, WrongPlay, Stamped
<1> QED BY <1>1, <1>2, <1>3, Types, TypesNext
        DEF IndInv, Authority, GateIsBound, WrongIsSettled

\* The audit that finds a session keeps the invariant: it lets a play of its own
\* pass only if Plex files it under the required account, or has nothing to say.
LEMMA StepFound ==
  ASSUME IndInv, NEW j \in Jobs, Found(j)
  PROVE  IndInv'
<1>1. /\ job[j].pc = "verify" /\ UNCHANGED <<adb, newest>> /\ tv \in Screens
      /\ job \in [Jobs -> JobRecords]
  BY Types DEF Found, Live, At, IndInv
\* What remains to be proved when the session found is the home server's.
<1>2. ASSUME tv' = [tv EXCEPT !.found = tv.by = j], NEW pc \in {"played", "stop"}, Goto(j, pc),
             seen' \in Observations, told' \in Observations, Authority',
             pc = "played" => ~WrongPlay(j)
      PROVE  IndInv'
  <2>1. /\ tv' \in Screens /\ tv'.who = tv.who /\ tv'.screen = tv.screen /\ tv'.by = tv.by
        /\ tv'.stamped = tv.stamped /\ (tv'.found => tv.by = j)
    BY <1>1, <1>2 DEF Screens
  <2>2. /\ job' \in [Jobs -> JobRecords] /\ \A k \in Jobs \ {j} : job'[k] = job[k]
        /\ job'[j].pc = pc /\ job'[j].needs = job[j].needs
    BY <1>1, <1>2, Moved DEF Pcs, Ended
  <2>3. \A k \in Jobs \ {j} : ~FoundWrong(k)'
    BY <2>1 DEF FoundWrong, WrongPlay
  <2>4. WrongPlay(j)' => WrongPlay(j)
    BY <1>1, <2>1, <2>2 DEF WrongPlay, Stamped
  <2>5. pc \notin Gate
    BY DEF Gate
  <2>6. FoundWrong(j)' => job'[j].pc \in Settled
    BY <1>2, <2>2, <2>4 DEF FoundWrong, Settled
  <2> QED BY <1>1, <1>2, <2>1, <2>2, <2>3, <2>5, <2>6, Drove
<1>3. CASE /\ Observe(j, tv.who) \/ Contradict(j, tv.who)
           /\ Goto(j, IF tv.who = job[j].needs THEN "played" ELSE "stop")
           /\ tv' = [tv EXCEPT !.found = tv.by = j]
  <2>1. seen' \in Observations /\ told' \in Observations /\ Authority'
    BY <1>1, <1>3, Observed DEF IndInv, Screens
  <2>2. CASE tv.who = job[j].needs
    BY <1>2, <1>3, <2>1, <2>2 DEF WrongPlay
  <2>3. CASE tv.who # job[j].needs
    BY <1>2, <1>3, <2>1, <2>3
  <2> QED BY <2>2, <2>3
<1>4. CASE /\ ~AuditRead(j) /\ Goto(j, "played") /\ UNCHANGED <<seen, told>>
           /\ tv' = [tv EXCEPT !.found = tv.by = j]
  <2>1. ~WrongPlay(j)
    BY <1>4 DEF WrongPlay, AuditRead
  <2> QED BY <1>2, <1>4, <2>1, Remembered
<1>5. CASE Goto(j, "played") /\ UNCHANGED <<tv, seen, told>>
  BY <1>1, <1>5, Went, Remembered DEF Pcs, Gate, Ended, Settled
<1> QED BY <1>3, <1>4, <1>5 DEF Found

\* A wait that found nothing keeps the invariant: success over a play no audit
\* has found.
LEMMA StepMissed ==
  ASSUME IndInv, NEW j \in Jobs, Missed(j)
  PROVE  IndInv'
<1>1. /\ job[j].pc = "verify" /\ UNCHANGED <<adb, tv, seen, newest, told>> /\ tv \in Screens
      /\ job \in [Jobs -> JobRecords]
  BY Types DEF Missed, Live, At, IndInv
<1>2. CASE Goto(j, "played")
  BY <1>1, <1>2, Went, Remembered DEF Pcs, Gate, Ended, Settled
<1>3. CASE /\ job[j].pushes < SessionRetries
           /\ job' = [job EXCEPT ![j].pushes = @ + 1, ![j].pc = "play"]
  <2> DEFINE r == [job[j] EXCEPT !.pushes = job[j].pushes + 1, !.pc = "play"]
  <2>1. job' = [job EXCEPT ![j] = r]
    BY <1>1, <1>3 DEF JobRecords
  <2>2. r \in JobRecords /\ r.pc = "play"
    BY <1>1, <1>3, BoundsAssumption DEF JobRecords, Pcs
  <2> HIDE DEF r
  <2>3. /\ job' \in [Jobs -> JobRecords] /\ \A k \in Jobs \ {j} : job'[k] = job[k]
        /\ job'[j].pc = "play"
    BY <1>1, <2>1, <2>2
  <2>4. \A k \in Jobs \ {j} : FoundWrong(k)' => FoundWrong(k)
    BY <1>1, <2>3 DEF FoundWrong, WrongPlay, Stamped
  <2>5. "play" \notin Gate
    BY DEF Gate
  <2>6. ~FoundWrong(j)'
    <3>1. ~FoundWrong(j) /\ job'[j].needs = job[j].needs
      BY <1>1, <2>1 DEF IndInv, WrongIsSettled, Settled, r
    <3> QED BY <1>1, <3>1 DEF FoundWrong, WrongPlay, Stamped
  <2> QED BY <1>1, <1>3, <2>3, <2>4, <2>5, <2>6, Remembered, Drove
<1> QED BY <1>2, <1>3 DEF Missed

\* Stopping the wrong account's play, or trying to, keeps the invariant.
LEMMA StepStop ==
  ASSUME IndInv, NEW j \in Jobs, Stop(j)
  PROVE  IndInv'
<1>1. UNCHANGED <<adb, seen, newest, told>> /\ Goto(j, "failed") /\ tv \in Screens
  BY Types DEF Stop, IndInv
<1>2. CASE tv' = Showing("home")
  <2>1. tv' \in Screens /\ tv'.screen = "home"
    BY <1>1, <1>2 DEF Showing, Screens
  <2> QED BY <1>1, <2>1, WentBlank DEF Pcs, Gate, Ended, Settled
<1>3. CASE UNCHANGED tv
  BY <1>1, <1>3, Went, Remembered DEF Pcs, Gate, Ended, Settled
<1> QED BY <1>2, <1>3 DEF Stop

\* A replaced drive that ends its wait keeps the invariant.
LEMMA StepQuit ==
  ASSUME IndInv, NEW j \in Jobs, Quit(j)
  PROVE  IndInv'
  BY Left, Remembered DEF Quit, Settled

\* Somebody at the TV keeps the invariant: what they leave is nobody's play.
LEMMA StepPerson ==
  ASSUME IndInv, NEW a \in Accounts, NEW screen \in {"home", "picker", "playing"},
         Person(a, screen)
  PROVE  IndInv'
<1>1. tv' \in Screens /\ tv'.by = Nobody /\ UNCHANGED <<adb, seen, job, newest, told>>
  <2>1. PICK stamped \in {FALSE, screen = "playing"} :
          tv' = [Showing(screen) EXCEPT !.who = a, !.stamped = stamped]
    BY DEF Person
  <2>2. stamped \in BOOLEAN /\ tv \in Screens
    BY Types DEF IndInv
  <2>3. tv' = [tv EXCEPT !.screen = screen, !.by = Nobody, !.stamped = stamped, !.found = FALSE,
                         !.who = a]
    BY <2>1, <2>2 DEF Showing, Screens
  <2> QED BY <2>2, <2>3 DEF Person, Screens
<1>2. \A k \in Jobs : ~FoundWrong(k)'
  BY <1>1, NobodyAssumption DEF FoundWrong, WrongPlay, Nobody
<1> QED BY <1>1, <1>2, Types, TypesNext DEF IndInv, Authority, GateIsBound, WrongIsSettled

\* The passing of time keeps the invariant: what Plex said and what is remembered
\* of it grow old together.
LEMMA StepTick ==
  ASSUME IndInv, Tick
  PROVE  IndInv'
<1>1. /\ seen' = Older(seen) /\ told' = Older(told) /\ UNCHANGED <<adb, tv, job, newest>>
      /\ seen \in Observations /\ told \in Observations
  BY Types DEF Tick, IndInv
<1>2. ASSUME NEW o \in Observations
      PROVE  Older(o) \in Observations /\ Older(o).who = o.who
  BY BoundsAssumption DEF Older, Observations, Old
<1>3. Authority'
  BY <1>1, <1>2 DEF IndInv, Authority
<1>4. \A k \in Jobs : FoundWrong(k)' <=> FoundWrong(k)
  BY <1>1 DEF FoundWrong, WrongPlay, Stamped
<1> QED BY <1>1, <1>2, <1>3, <1>4, Types, TypesNext
        DEF IndInv, GateIsBound, WrongIsSettled

\* The initial states satisfy the invariant.
LEMMA Initially ==
  ASSUME Init
  PROVE  IndInv
<1>1. /\ adb \in BOOLEAN /\ tv \in Screens /\ tv.by = Nobody /\ newest \in Jobs
      /\ seen = Unseen /\ told = Unseen /\ job = [j \in Jobs |-> Idle]
  BY DEF Init, Screens
<1>2. TypeOK
  BY <1>1, NullRecords, Types
<1>3. Authority /\ GateIsBound
  BY <1>1, NullRecords DEF Authority, GateIsBound, Gate
<1>4. WrongIsSettled
  BY <1>1, NobodyAssumption DEF WrongIsSettled, FoundWrong, WrongPlay, Nobody
<1> QED BY <1>2, <1>3, <1>4 DEF IndInv

----------------------------------------------------------------------------
(* The results.                                                            *)

\* Every step of a drive keeps the invariant.
LEMMA StepDrive ==
  ASSUME IndInv, NEW j \in Jobs, Step(j)
  PROVE  IndInv'
  BY StepActive, StepScreen, StepLogLine, StepLogTimeout, StepWalk, StepCommit, StepClosing,
     StepRecheck, StepPlay, StepPush, StepFound, StepMissed, StepStop, StepQuit DEF Step

\* The inductive invariant holds: what is remembered is what Plex said, the gate
\* holds only bound scans, and success is rightful.
THEOREM Invariance == Spec => []IndInv
<1>1. Init => IndInv
  BY Initially
<1>2. IndInv /\ [Next]_vars => IndInv'
  <2> SUFFICES ASSUME IndInv, [Next]_vars PROVE IndInv'
    OBVIOUS
  <2>1. CASE UNCHANGED vars
    <3>1. UNCHANGED <<adb, tv, seen, job, newest, told>>
      BY <2>1 DEF vars
    <3>2. \A k \in Jobs : FoundWrong(k)' <=> FoundWrong(k)
      BY <3>1 DEF FoundWrong, WrongPlay, Stamped
    <3> QED BY <3>1, <3>2, Types, TypesNext
            DEF IndInv, Authority, GateIsBound, WrongIsSettled
  <2> QED BY <2>1, StepDrive, StepBegin, StepAppears, StepPerson, StepTick DEF Next
<1> QED BY <1>1, <1>2, PTL DEF Spec

\* No scan reports success over its own play when Plex files it under another
\* account (driver.ts, the audit after the push).
THEOREM SuccessHolds == Spec => []SuccessIsRightful
<1>1. IndInv => SuccessIsRightful
  BY DEF IndInv, WrongIsSettled, Settled, SuccessIsRightful, FoundWrong, At
<1> QED BY <1>1, Invariance, PTL

\* A scan that passes the gate without a walk was named by Plex as the required
\* account.
LEMMA SkipStep ==
  ASSUME IndInv, [Next]_vars, NEW j \in Jobs,
         job[j].pc \in {"active", "screen", "recheck"}, job'[j].pc = "play"
  PROVE  told'.who = job[j].needs /\ told'.age <= Ttl
<1>1. /\ job \in [Jobs -> JobRecords] /\ told \in Observations /\ job[j].needs # Nobody
  BY Types DEF IndInv, GateIsBound, Gate
<1>2. job'[j].pc # job[j].pc
  OBVIOUS
<1>3. ASSUME NEW k \in Jobs, Step(k), k # j PROVE FALSE
  <2>1. UNCHANGED job \/ (\E r : job' = [job EXCEPT ![k] = r])
    BY <1>3, <1>1 DEF Step, Active, Screen, LogLine, LogTimeout, Walk, Commit, Closing, Recheck,
       Play, Push, Found, Missed, Stop, Quit, Goto, GiveUp
  <2> QED BY <1>1, <1>2, <1>3, <2>1
<1>4. ASSUME NEW k \in Jobs, NEW needs \in Accounts \cup {Nobody}, Begin(k, needs) PROVE FALSE
  BY <1>4, <1>2, NullRecords DEF Begin, Ended
<1>5. ASSUME Step(j) PROVE told'.who = job[j].needs /\ told'.age <= Ttl
  <2>1. \A pc \in Pcs : Goto(j, pc) => pc = "play"
    BY <1>1, Moved
  <2>2. CASE Active(j)
    <3>1. ~Cancelled(j) /\ tv.who = job[j].needs /\ Observe(j, tv.who)
      BY <2>1, <2>2 DEF Active, Live, Pcs, Gate
    <3> QED BY <3>1, BoundsAssumption DEF Observe
  <2>3. CASE Screen(j) \/ Recheck(j)
    <3>1. OnRequired(j) /\ UNCHANGED told
      BY <1>1, <2>1, <2>3 DEF Screen, Recheck, Pcs, Gate, JobRecords
    <3> QED BY <1>1, <3>1 DEF OnRequired, IndInv, Authority
  <2>4. ~LogLine(j) /\ ~LogTimeout(j) /\ ~Walk(j) /\ ~Commit(j) /\ ~Closing(j)
        /\ ~Play(j) /\ ~Push(j) /\ ~Found(j) /\ ~Missed(j) /\ ~Stop(j)
    BY DEF LogLine, LogTimeout, Walk, Commit, Closing, Play, Push, Found, Missed, Stop, Live, At
  <2>5. ~Quit(j)
    BY <1>1, NullRecords DEF Quit, GiveUp
  <2> QED BY <1>5, <2>2, <2>3, <2>4, <2>5 DEF Step
<1> QED BY <1>2, <1>3, <1>4, <1>5 DEF Next, vars, Appears, Person, Tick

\* The picker is skipped only on fresh proof of the required account (driver.ts
\* onRequired, profiles.ts LAST_SEEN).
THEOREM SkipsAreProven == Spec => SkipIsProven
<1>1. IndInv /\ [Next]_vars =>
        [\A j \in Jobs : (job[j].pc \in {"active", "screen", "recheck"} /\ job'[j].pc = "play")
                           => told'.who = job[j].needs /\ told'.age <= Ttl]_vars
  BY SkipStep
<1> QED BY <1>1, Invariance, PTL DEF Spec, SkipIsProven
=============================================================================
