------------------------------ MODULE Profile ------------------------------
(***************************************************************************)
(* The profile gate: a scan bound to an account plays on the TV only as    *)
(* that account.                                                           *)
(*                                                                         *)
(* driver.ts asks Plex whom the player's live session belongs to, looks at *)
(* the screen, trusts a recent observation or walks the picker, plays, and *)
(* then audits: a session that Plex says belongs to somebody else is       *)
(* stopped, one that cannot be read or comes too late is let pass.  profiles.ts keeps the last observation of a device.  A newer  *)
(* scan cancels an older one, whose waits end one by one; people use the   *)
(* TV at any moment.                                                       *)
(*                                                                         *)
(* A scan is a slot of Jobs, used again once its drive has ended.  An      *)
(* observed title stands for its account; a title that is only claimed is  *)
(* a navigation hint the picker walk reads back, and is modelled as none.  *)
(***************************************************************************)
EXTENDS Naturals

CONSTANTS
  Accounts,        \* the Plex Home accounts
  Jobs,            \* drives that can be under way at a time
  Ttl,             \* PROFILE_OBSERVATION_TTL_SECONDS, in ticks
  SwitchAttempts,  \* PLAYBACK_FSM_SWITCH_ATTEMPTS
  SessionRetries   \* PLAYBACK_SESSION_RETRIES

ASSUME BoundsAssumption ==
  /\ Ttl \in Nat /\ SwitchAttempts \in Nat \ {0} /\ SessionRetries \in Nat

\* null is neither an account nor a drive.
ASSUME NobodyAssumption == "nobody" \notin Accounts \cup Jobs

VARIABLES
  adb,     \* ADB_ENABLED
  tv,      \* who is signed in, what is on screen, whose play it is, is its session
           \* stamped, has an audit found it (history), the plays yet to appear
  seen,    \* LAST_SEEN: the account observed and its age
  job,     \* the drives
  newest,  \* the slot of the scan nothing has replaced
  told     \* the account Plex itself last named to a scan, and how long ago

vars == <<adb, tv, seen, job, newest, told>>

Nobody == "nobody"
Old == Ttl + 1
Unseen == [who |-> Nobody, age |-> Old]
Ended == {"idle", "failed", "played"}
Idle == [pc |-> "idle", needs |-> Nobody, tries |-> 0, pushes |-> 0]

TypeOK ==
  /\ adb \in BOOLEAN
  /\ tv \in [who : Accounts, screen : {"home", "picker", "playing"},
             by : Jobs \cup {Nobody}, stamped : BOOLEAN, found : BOOLEAN,
             due : SUBSET Jobs]
  /\ seen \in [who : Accounts \cup {Nobody}, age : 0 .. Old]
  /\ told \in [who : Accounts \cup {Nobody}, age : 0 .. Old]
  /\ newest \in Jobs
  /\ job \in [Jobs ->
       [pc : Ended \cup {"active", "screen", "log", "walk", "commit", "closing", "recheck",
                         "play", "push", "verify", "stop"},
        needs : Accounts \cup {Nobody}, tries : 0 .. SwitchAttempts, pushes : 0 .. SessionRetries]]

Init ==
  /\ adb \in BOOLEAN
  /\ tv \in [who : Accounts, screen : {"home", "picker"}, by : {Nobody}, stamped : {FALSE},
             found : {FALSE}, due : {{}}]
  /\ seen = Unseen /\ told = Unseen
  /\ job = [j \in Jobs |-> Idle]
  /\ newest \in Jobs

----------------------------------------------------------------------------
(* profiles.ts and the cancellation scope. *)

Cancelled(j) == newest # j

\* Plex named the account: remembered, unless the drive that asked was replaced.
Observe(j, a) ==
  /\ told' = IF Cancelled(j) THEN told ELSE [who |-> a, age |-> 0]
  /\ seen' = IF Cancelled(j) THEN seen ELSE [who |-> a, age |-> 0]

\* Plex named an account it gave no title for.
Contradict(j, a) ==
  /\ told' = IF Cancelled(j) THEN told ELSE [who |-> a, age |-> 0]
  /\ seen' = IF Cancelled(j) THEN seen ELSE Unseen

\* Mutant: a switch that reported success is remembered like an observation.
Claimed_Believed(j) == IF Cancelled(j) THEN seen ELSE [who |-> job[j].needs, age |-> 0]

\* A switch that reported success leaves a hint and no authority.
Claimed(j) == IF Cancelled(j) THEN seen ELSE Unseen

OnRequired(j) == seen.who = job[j].needs /\ seen.age <= Ttl /\ Ttl > 0

At(j, pc) == job[j].pc = pc
\* A drive goes on; what it counted ends with the gate, and with the drive.
Goto(j, pc) ==
  job' = [job EXCEPT
    ![j].pc = pc,
    ![j].tries = IF pc \in Ended \cup {"play", "stop"} THEN 0 ELSE @,
    ![j].pushes = IF pc \in Ended \cup {"stop"} THEN 0 ELSE @]
GiveUp(j) == job' = [job EXCEPT ![j] = Idle]

\* Every wait is followed by a look at the cancel flag, save the commit press,
\* the push and the stop, which are on their way already.
Quit(j) ==
  /\ Cancelled(j)
  /\ job[j].pc \in {"active", "walk", "play", "verify"}
  /\ GiveUp(j)
  /\ UNCHANGED <<adb, tv, seen, newest, told>>

Live(j, pc) == At(j, pc) /\ ~Cancelled(j)

----------------------------------------------------------------------------
(* driveToPlaying and driveProfile. *)

\* A scan, of a queue bound to an account or of one that is not, replaces the
\* last.  What an earlier one played, or has yet to, is from here on like the
\* play of any person.
Begin(j, needs) ==
  /\ job[j].pc \in Ended
  /\ newest' = j
  /\ job' = [k \in Jobs |->
       IF k = j THEN [Idle EXCEPT !.needs = needs, !.pc = IF needs = Nobody THEN "play" ELSE "active"]
       ELSE IF job[k].pc \in Ended THEN Idle ELSE job[k]]
  /\ tv' = [tv EXCEPT !.by = Nobody, !.found = FALSE, !.due = {}]
  /\ UNCHANGED <<adb, seen, told>>

Stamped == tv.screen = "playing" /\ tv.stamped

\* currentAccount: the live session proves the account, contradicts it, or says nothing.
Active(j) ==
  /\ Live(j, "active")
  /\ \/ Stamped /\ tv.who = job[j].needs /\ Observe(j, tv.who) /\ Goto(j, "play")
     \/ /\ Stamped /\ tv.who # job[j].needs
        /\ Observe(j, tv.who) \/ Contradict(j, tv.who)
        /\ Goto(j, IF adb THEN "walk" ELSE "log")
     \/ Goto(j, "screen") /\ UNCHANGED <<seen, told>>
  /\ UNCHANGED <<adb, tv, newest>>

\* A picker on screen outranks the observation; the observation spares the walk.
Screen(j) ==
  /\ At(j, "screen")
  /\ Goto(j, IF OnRequired(j) /\ ~(adb /\ tv.screen = "picker") THEN "play"
             ELSE IF adb THEN "walk" ELSE "log")
  /\ UNCHANGED <<adb, tv, seen, newest, told>>

\* waitForProfile: the server's log names the account in use, until it is the right one.
LogLine(j) ==
  /\ At(j, "log") /\ tv.screen # "picker"
  /\ Observe(j, tv.who)
  /\ IF Cancelled(j) THEN GiveUp(j)
     ELSE IF tv.who = job[j].needs THEN Goto(j, "play") ELSE UNCHANGED job
  /\ UNCHANGED <<adb, tv, newest>>

LogTimeout(j) ==
  /\ At(j, "log")
  /\ IF Cancelled(j) THEN GiveUp(j) ELSE Goto(j, "failed")
  /\ UNCHANGED <<adb, tv, seen, newest, told>>

\* What is on screen is no scan's play.
Showing(screen) == [tv EXCEPT !.screen = screen, !.by = Nobody, !.stamped = FALSE, !.found = FALSE]

\* switchTo summons the picker and steps to the tile, or fails on the way.
Walk(j) ==
  /\ Live(j, "walk")
  /\ \/ Goto(j, "commit") /\ tv' = Showing("picker")
     \/ Goto(j, "recheck") /\ UNCHANGED tv
  /\ UNCHANGED <<adb, seen, newest, told>>

\* CENTER is pressed on the tile just read back; Plex may not act on it.
Commit(j) ==
  /\ At(j, "commit")
  /\ Goto(j, "closing")
  /\ \/ tv.screen = "picker" /\ tv' = [tv EXCEPT !.who = job[j].needs, !.screen = "home"]
     \/ UNCHANGED tv
  /\ UNCHANGED <<adb, seen, newest, told>>

\* The picker is gone: taken for success, whoever it was that dismissed it.
Closing(j) ==
  /\ At(j, "closing")
  /\ \/ Cancelled(j) /\ GiveUp(j) /\ UNCHANGED seen
     \/ ~Cancelled(j) /\ tv.screen # "picker" /\ Goto(j, "play") /\ seen' = Claimed(j)
     \/ ~Cancelled(j) /\ tv.screen = "picker" /\ Goto(j, "recheck") /\ UNCHANGED seen
  /\ UNCHANGED <<adb, tv, newest, told>>

\* After a failed attempt an observation made meanwhile still clears the gate.
Recheck(j) ==
  /\ At(j, "recheck")
  /\ job' = [job EXCEPT ![j].tries = IF OnRequired(j) THEN @ ELSE @ + 1,
       ![j].pc = CASE OnRequired(j) -> "play"
                   [] job[j].tries + 1 < SwitchAttempts -> "walk"
                   [] OTHER -> "failed"]
  /\ UNCHANGED <<adb, tv, seen, newest, told>>

\* drivePlay gives up, or sends the play.
Play(j) ==
  /\ Live(j, "play")
  /\ Goto(j, "push") \/ Goto(j, "failed")
  /\ UNCHANGED <<adb, tv, seen, newest, told>>

\* Companion answers 200: the play will appear, at once or late, or never does.
Push(j) ==
  /\ At(j, "push")
  /\ Goto(j, "verify")
  /\ tv' = tv \/ tv' = [tv EXCEPT !.due = @ \cup {j}]
  /\ UNCHANGED <<adb, seen, newest, told>>

\* Mutant: a play that had to be sent twice is not audited again.
AuditRead_Once(j) == Stamped /\ job[j].needs # Nobody /\ job[j].pushes = 0

\* What verifyAccount has an opinion on.
AuditRead(j) == Stamped /\ job[j].needs # Nobody

\* The session waited for is found: one with an account settles it, one without
\* is let pass.  The sessions of a friend's server, where the lineup begins on
\* one, only show that something plays.
Found(j) ==
  /\ Live(j, "verify") /\ tv.screen = "playing"
  /\ \/ /\ AuditRead(j)
        /\ Observe(j, tv.who) \/ (tv.who # job[j].needs /\ Contradict(j, tv.who))
        /\ Goto(j, IF tv.who = job[j].needs THEN "played" ELSE "stop")
        /\ tv' = [tv EXCEPT !.found = tv.by = j]
     \/ /\ ~AuditRead(j) /\ Goto(j, "played") /\ UNCHANGED <<seen, told>>
        /\ tv' = [tv EXCEPT !.found = tv.by = j]
     \/ Goto(j, "played") /\ UNCHANGED <<tv, seen, told>>   \* a friend's server
  /\ UNCHANGED <<adb, newest>>

\* No session to the end of the wait, or /status/sessions could not be read in it:
\* Plex is opened and the play sent again; the last push is reported as it is.
Missed(j) ==
  /\ Live(j, "verify")
  /\ IF job[j].pushes < SessionRetries
       THEN job' = [job EXCEPT ![j].pushes = @ + 1, ![j].pc = "play"]
       ELSE Goto(j, "played")
  /\ UNCHANGED <<adb, tv, seen, newest, told>>

\* Mutant: a stop the player ignored counts as an audit passed.
Stop_Optimistic(j) ==
  /\ At(j, "stop")
  /\ \/ Goto(j, "played") /\ UNCHANGED tv
     \/ Goto(j, "failed") /\ ~Cancelled(j) /\ tv' = Showing("home")
  /\ UNCHANGED <<adb, seen, newest, told>>

\* The wrong account's play is stopped, if the player obeys; it is reported anyway.
Stop(j) ==
  /\ At(j, "stop")
  /\ Goto(j, "failed")
  /\ \/ UNCHANGED tv
     \/ ~Cancelled(j) /\ tv' = Showing("home")
  /\ UNCHANGED <<adb, seen, newest, told>>

Step(j) ==
  \/ Active(j) \/ Screen(j) \/ LogLine(j) \/ LogTimeout(j)
  \/ Walk(j) \/ Commit(j) \/ Closing(j) \/ Recheck(j)
  \/ Play(j) \/ Push(j) \/ Found(j) \/ Missed(j) \/ Stop(j) \/ Quit(j)

----------------------------------------------------------------------------
(* The TV and the clock. *)

\* A play Companion took appears; the picker, if it is up, tears it down.
Appears(j) ==
  /\ j \in tv.due
  /\ \/ tv.screen = "picker" /\ tv' = [tv EXCEPT !.due = @ \ {j}]
     \/ /\ tv.screen # "picker"
        /\ \E stamped \in BOOLEAN :
             tv' = [tv EXCEPT !.screen = "playing", !.by = j, !.stamped = stamped,
                              !.found = FALSE, !.due = @ \ {j}]
  /\ UNCHANGED <<adb, seen, job, newest, told>>

\* Somebody at the TV picks a profile, opens the picker, stops the play or starts one.
Person(a, screen) ==
  /\ \E stamped \in {FALSE, screen = "playing"} :
       tv' = [Showing(screen) EXCEPT !.who = a, !.stamped = stamped]
  /\ tv' # tv
  /\ UNCHANGED <<adb, seen, job, newest, told>>

Older(o) == [o EXCEPT !.age = IF @ < Old THEN @ + 1 ELSE @]

Tick ==
  /\ seen' = Older(seen) /\ told' = Older(told)
  /\ <<seen, told>>' # <<seen, told>>
  /\ UNCHANGED <<adb, tv, job, newest>>

Next ==
  \/ \E j \in Jobs :
       Step(j) \/ Appears(j) \/ \E needs \in Accounts \cup {Nobody} : Begin(j, needs)
  \/ \E a \in Accounts, screen \in {"home", "picker", "playing"} : Person(a, screen)
  \/ Tick

\* Weak fairness of Step(j), which is enabled exactly until the drive has ended:
\* every wait of a drive ends.
Fair(j) == []<>(job[j].pc \in Ended) \/ []<><<Step(j)>>_vars

Spec == Init /\ [][Next]_vars /\ \A j \in Jobs : Fair(j)

----------------------------------------------------------------------------
\* The picker is skipped only on proof: when the gate lets a scan play without
\* a walk, Plex itself named the required account within the observation's
\* lifetime and has named no other since (driver.ts onRequired, profiles.ts).
SkipIsProven ==
  [][\A j \in Jobs :
       (job[j].pc \in {"active", "screen", "recheck"} /\ job'[j].pc = "play")
         => told'.who = job[j].needs /\ told'.age <= Ttl]_vars

\* The newest scan's play is filed under another account.
WrongPlay(j) ==
  /\ newest = j /\ tv.by = j /\ tv.who # job[j].needs
  /\ job[j].needs # Nobody /\ Stamped

\* No scan reports success over a play of its own that Plex files under another
\* account, once an audit has found that play: however often it was sent,
\* whoever used the TV.  One no audit finds - it appears after the last wait, the
\* sessions cannot be read, or it plays from a friend's server - is let pass
\* (driver.ts, the audit after the push).
SuccessIsRightful == \A j \in Jobs : WrongPlay(j) /\ tv.found => ~At(j, "played")

\* A play under the wrong account is stopped or reported, unless no audit ever
\* finds it or a newer scan takes the TV over first (driver.ts ACCOUNT_ERROR).
WrongPlayEnds ==
  \A j \in Jobs : WrongPlay(j) ~>
    (~WrongPlay(j) \/ At(j, "failed") \/ (At(j, "played") /\ ~tv.found))
=============================================================================
