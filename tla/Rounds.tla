------------------------------- MODULE Rounds -------------------------------
(***************************************************************************)
(* One curated queue over many sittings: scans and end-of-playback         *)
(* reconciliations that each read the file, resolve it and write back what *)
(* they found, in steps that interleave with each other and with the       *)
(* viewer, the library and the owner (server/src/finished.ts, exhaustion,  *)
(* watchedReset, seasonalReset, promote, the setters of queues.ts, and the *)
(* part of session.ts around them).  history is the one the queue's        *)
(* watch_history names.  A write of the file is one locked step.  What     *)
(* Rotation has a name for is named after this module, so that one module  *)
(* of proofs can extend both.                                              *)
(***************************************************************************)
EXTENDS Lineup

CONSTANTS
  Jobs,        \* the jobs that may run at one time: scans,
  Reconcilers, \* and those of them that may be reconciliations too
  MaxLeaves,   \* key -> how many leaves the library may come to hold
  OwnHistory,  \* watch_history: queue
  Restart,     \* restart_when_exhausted
  Keep,        \* keep_completed
  Ttl,         \* remove_completed_after, in ticks
  Beginnings,  \* where the queue may begin: [file, present, watched, season]
  MaxEvents    \* bound: what the viewer, the library, the owner and the clock do

\* A queue's file: one line per entry, none older than the sweep asks.
Placements == {"set", "priority", "random"}
LineRecords == [key : Keys, done : BOOLEAN, age : {Never} \union 0..Ttl, placement : Placements]
OnePerKey(lines) == \A i, j \in DOMAIN lines : i # j => lines[i].key # lines[j].key
Seasons == {"off", "unadopted", "owed", "settled"}

ASSUME RoundsAssumption ==
  /\ Jobs # {} /\ Reconcilers \subseteq Jobs
  /\ MaxLeaves \in [Keys -> Nat]
  /\ \A b \in Beginnings : /\ b.file \in Seq(LineRecords) /\ OnePerKey(b.file)
                            /\ b.present \in [Keys -> Nat] /\ b.season \in Seasons
                            /\ \A k \in Keys : b.present[k] \in 1..MaxLeaves[k]
  /\ {OwnHistory, Restart, Keep} \subseteq BOOLEAN
  /\ Ttl \in Nat \ {0} /\ MaxEvents \in Nat

VARIABLES
  file,     \* the queue's lines
  present,  \* key -> leaves in the library
  history,  \* leaf -> "new", "half" or "watched"
  led,      \* key -> age of its lead cooldown, or Never
  respent,  \* the keys ever stamped anew within their window
  season,   \* where the yearly reset stands: "off", "unadopted", "owed", "settled"
  jobs,     \* job -> its step and what it carries
  newest,   \* the job of the newest scan, which supersedes the others
  events

roundsVars == <<file, present, history, led, respent, season, jobs, newest, events>>
world == <<present, respent, newest, events>>

Idle == [pc |-> "idle", kind |-> "scan", seen |-> <<>>, found |-> {}, revived |-> {}, newly |-> {},
         listed |-> {}, led |-> <<>>, why |-> "none", whole |-> FALSE]
Steps == {"idle", "season", "load", "resolve", "revive", "mark", "exhaust", "list", "unmark",
          "forget", "sweep", "handoff", "stamp"}
JobRecords ==
  [pc : Steps, kind : {"scan", "reconcile"}, seen : Seq(LineRecords), found : SUBSET Keys,
   revived : SUBSET Keys, newly : SUBSET Keys, listed : SUBSET Keys, led : Seq(Keys),
   why : {"none", "date", "round"}, whole : BOOLEAN]
Superseded(j) == jobs[j].kind = "scan" /\ newest # j
At(j, pc) == jobs[j].pc = pc
Go(j, pc) == jobs' = [jobs EXCEPT ![j].pc = pc]

Lines == ToSet(file)
InFile(k) == \E l \in Lines : l.key = k
Rewritten(F(_)) == [i \in DOMAIN file |-> F(file[i])]
ClearedLeads(keys) == [k \in Keys |-> IF k \in keys THEN Never ELSE led[k]]
Unmarked(l) == [l EXCEPT !.done = FALSE, !.age = Never]
Line(k) == [key |-> k, done |-> FALSE, age |-> Never, placement |-> "set"]
Capped(age, bound) == IF age = Never \/ age >= bound THEN age ELSE age + 1

----------------------------------------------------------------------------
RoundsInit ==
  /\ \E b \in Beginnings :
       /\ file = b.file /\ present = b.present /\ season = b.season
       /\ history = [l \in UNION {{<<k, i>> : i \in 1..MaxLeaves[k]} : k \in Keys} |->
                       IF l \in b.watched THEN "watched" ELSE "new"]
  /\ led = [k \in Keys |-> Never] /\ respent = {}
  /\ jobs = [j \in Jobs |-> Idle]
  /\ newest = CHOOSE j \in Jobs : TRUE
  /\ events = 0

\* A start as far as the seasonal reset, or reconcileQueue.
Start(j) ==
  /\ At(j, "idle")
  /\ \/ /\ jobs' = [jobs EXCEPT ![j].pc = "season"] /\ newest' = j
     \/ /\ j \in Reconcilers
        /\ jobs' = [jobs EXCEPT ![j].pc = "load", ![j].kind = "reconcile"]
        /\ UNCHANGED newest
  /\ UNCHANGED <<file, present, history, led, respent, season, events>>

\* loadEntries, when the scan is still the newest.
Loaded(j) == IF Superseded(j) THEN Idle ELSE [jobs[j] EXCEPT !.pc = "resolve", !.seen = file]

\* applySeasonalReset: a first read adopts the date and clears nothing.
Season(j) ==
  /\ At(j, "season")
  /\ season' = IF season = "unadopted" THEN "settled" ELSE season
  /\ jobs' = [jobs EXCEPT ![j] = IF season = "owed" THEN [@ EXCEPT !.pc = "list", !.why = "date"]
                                 ELSE Loaded(j)]
  /\ UNCHANGED <<file, history, led, world>>

Load(j) ==
  /\ At(j, "load") /\ jobs' = [jobs EXCEPT ![j] = Loaded(j)]
  /\ UNCHANGED <<file, history, led, season, world>>

\* nextQueue; any entry may fail to resolve.
Resolve(j) ==
  /\ At(j, "resolve")
  /\ \E failed \in SUBSET Keys :
       \E r \in NextQueue(jobs[j].seen, present, history, led, failed) :
         jobs' = [jobs EXCEPT ![j] =
           IF Superseded(j) THEN Idle
           ELSE [@ EXCEPT !.pc = "revive", !.seen = <<>>, !.revived = r.revived, !.newly = r.newly,
                          !.led = IF jobs[j].kind = "scan" THEN r.led ELSE <<>>,
                          !.whole = failed = {},
                          !.found = {k \in Keys \ failed : ItemsOf(k, present, history) # <<>>}]]
  /\ UNCHANGED <<file, history, led, season, world>>

\* applyQueueWriteSide, one locked write at a time.
Revive(j) ==
  /\ At(j, "revive") /\ Go(j, "mark")
  /\ file' = Rewritten(LAMBDA l : IF l.key \in jobs[j].revived THEN Unmarked(l) ELSE l)
  /\ UNCHANGED <<history, led, season, world>>

Mark(j) ==
  /\ At(j, "mark")
  /\ jobs' = [jobs EXCEPT ![j].pc = IF Restart THEN "exhaust" ELSE "sweep",
                          ![j].revived = {}, ![j].newly = {}, ![j].whole = FALSE]
  /\ file' = Rewritten(LAMBDA l :
       IF ~Keep /\ l.key \in jobs[j].newly /\ ~(l.done /\ l.age # Never)
       THEN [l EXCEPT !.done = TRUE, !.age = 0] ELSE l)
  /\ UNCHANGED <<history, led, season, world>>

Exhausted == file # <<>> /\ \A l \in Lines : l.done

Exhaust(j) ==
  /\ At(j, "exhaust")
  /\ jobs' = [jobs EXCEPT ![j].pc = IF Exhausted THEN "list" ELSE "sweep",
                          ![j].why = IF Exhausted THEN "round" ELSE "none"]
  /\ UNCHANGED <<file, history, led, season, world>>

\* resetQueueWatchedState: the done lines of the moment, unmarked in a second
\* locked step; then, without a wait between them, ledger, windows, settlement.
ListDone(j) ==
  /\ At(j, "list")
  /\ jobs' = [jobs EXCEPT ![j].pc = "unmark", ![j].listed = {l.key : l \in {m \in Lines : m.done}}]
  /\ UNCHANGED <<file, history, led, season, world>>

Unmark(j) ==
  /\ At(j, "unmark") /\ Go(j, "forget")
  /\ file' = Rewritten(LAMBDA l : IF l.key \in jobs[j].listed THEN Unmarked(l) ELSE l)
  /\ UNCHANGED <<history, led, season, world>>

ClearedHistory_Kept == history  \* Mutant: a reset leaves the ledger alone

\* clearSet deletes every row of a ledger of its own, positions too; the history of
\* a provider stays.
ClearedHistory == [l \in DOMAIN history |-> IF OwnHistory THEN "new" ELSE history[l]]

Forget(j) ==
  /\ At(j, "forget")
  /\ jobs' = [jobs EXCEPT ![j] = [@ EXCEPT !.pc = IF jobs[j].why = "date" THEN "load" ELSE "sweep",
                                           !.listed = {}, !.why = "none"]]
  /\ history' = ClearedHistory
  /\ led' = [k \in Keys |-> Never]
  /\ season' = IF season = "off" THEN "off" ELSE "settled"
  /\ UNCHANGED <<file, world>>

Expired_AnyAge(l) == l.done /\ l.age # Never  \* Mutant: the stamp's age is not asked

Expired(l) == l.done /\ l.age # Never /\ l.age >= Ttl

\* sweepCompleted; a scan then hands its lineup over, if it has one.
Sweep(j) ==
  /\ At(j, "sweep")
  /\ LET swept == IF Keep THEN {} ELSE {l \in Lines : Expired(l)}
     IN  /\ file' = Without(file, swept)
         /\ led' = ClearedLeads({l.key : l \in swept})
  /\ jobs' = [jobs EXCEPT ![j] = IF Superseded(j) \/ jobs[j].led = <<>> THEN Idle
                                 ELSE [Idle EXCEPT !.pc = "handoff", !.led = jobs[j].led]]
  /\ UNCHANGED <<history, season, world>>

\* The player took the lineup, or did not: only then are its promises spent.
Handoff(j) ==
  /\ At(j, "handoff")
  /\ \E ok \in BOOLEAN :
       jobs' = [jobs EXCEPT ![j] = IF Superseded(j) \/ ~ok THEN Idle ELSE [@ EXCEPT !.pc = "stamp"]]
  /\ UNCHANGED <<file, history, led, season, world>>

Stamped(k) ==
  /\ led' = [led EXCEPT ![k] = 0]
  /\ respent' = IF MayLead(led[k]) THEN respent ELSE respent \union {k}

\* A job with one promise less to stamp.
Stamping(j) ==
  LET rest == Tail(jobs[j].led)
  IN  IF rest = <<>> THEN Idle ELSE [jobs[j] EXCEPT !.led = rest]

\* recordLead for each promise, with a look at who is newest before each.
Stamp_AnyScan(j) ==  \* Mutant: a scan that was superseded stamps all the same
  /\ At(j, "stamp")
  /\ jobs' = [jobs EXCEPT ![j] = Stamping(j)]
  /\ Stamped(Head(jobs[j].led))
  /\ UNCHANGED <<file, present, history, season, newest, events>>

Stamp(j) ==
  /\ At(j, "stamp")
  /\ IF Superseded(j)
     THEN jobs' = [jobs EXCEPT ![j] = Idle] /\ UNCHANGED <<led, respent>>
     ELSE /\ jobs' = [jobs EXCEPT ![j] = Stamping(j)]
          /\ Stamped(Head(jobs[j].led))
  /\ UNCHANGED <<file, present, history, season, newest, events>>

Step(j) ==
  \/ Season(j) \/ Load(j) \/ Resolve(j)
  \/ Revive(j) \/ Mark(j) \/ Exhaust(j) \/ Sweep(j)
  \/ ListDone(j) \/ Unmark(j) \/ Forget(j)
  \/ Handoff(j) \/ Stamp(j)

----------------------------------------------------------------------------
\* The viewer, the library, the owner and the clock.

Event == events < MaxEvents /\ events' = events + 1 /\ UNCHANGED <<jobs, newest, respent>>

\* A leaf is begun, finished, begun again, or said to be unwatched.
Watch(k, i, to) ==
  /\ Event /\ i <= present[k] /\ history[<<k, i>>] # to
  /\ history' = [history EXCEPT ![<<k, i>>] = to]
  /\ UNCHANGED <<file, present, led, season>>

Arrive(k) ==
  /\ Event /\ present[k] < MaxLeaves[k]
  /\ present' = [present EXCEPT ![k] = @ + 1]
  /\ UNCHANGED <<file, history, led, season>>

\* addItem at the top; removeItem with its lead window.
AddItem(k) ==
  /\ Event /\ ~InFile(k)
  /\ file' = <<Line(k)>> \o file
  /\ UNCHANGED <<present, history, led, season>>

RemoveItem(k) ==
  /\ Event /\ InFile(k)
  /\ file' = Without(file, {l \in Lines : l.key = k})
  /\ led' = ClearedLeads({k})
  /\ UNCHANGED <<present, history, season>>

\* removeCompleted, the button.
RemoveCompleted ==
  /\ Event
  /\ LET done == {l \in Lines : l.done}
     IN  file' = Without(file, done) /\ led' = ClearedLeads({l.key : l \in done})
  /\ UNCHANGED <<present, history, season>>

\* A done written into the file by hand carries no stamp.
HandTag(k) ==
  /\ Event
  /\ \E l \in Lines : l.key = k /\ ~l.done
  /\ file' = Rewritten(LAMBDA l : IF l.key = k THEN [l EXCEPT !.done = TRUE, !.age = Never] ELSE l)
  /\ UNCHANGED <<present, history, led, season>>

\* setPlacement: anything but a promotion forgets the window.
SetPlacement(k, to) ==
  /\ Event
  /\ \E l \in Lines : l.key = k /\ l.placement # to
  /\ file' = Rewritten(LAMBDA l : IF l.key = k THEN [l EXCEPT !.placement = to] ELSE l)
  /\ led' = IF to = "priority" THEN led ELSE ClearedLeads({k})
  /\ UNCHANGED <<present, history, season>>

\* Both windows are hours or days and a job is seconds: no tick while one runs.
Tick ==
  /\ Event /\ \A j \in Jobs : At(j, "idle")
  /\ file' = Rewritten(LAMBDA l : [l EXCEPT !.age = Capped(@, Ttl)])
  /\ led' = [k \in Keys |-> Capped(led[k], Window)]
  /\ UNCHANGED <<present, history, season>>

\* The date comes round; a row without one stays unadopted.
Occurrence ==
  /\ Event /\ season = "settled" /\ season' = "owed"
  /\ UNCHANGED <<file, present, history, led>>

Environment ==
  \/ \E k \in Keys :
       \/ \E i \in 1..MaxLeaves[k], to \in {"new", "half", "watched"} : Watch(k, i, to)
       \/ Arrive(k) \/ AddItem(k) \/ RemoveItem(k) \/ HandTag(k)
       \/ \E to \in {"set", "priority", "random"} : SetPlacement(k, to)
  \/ RemoveCompleted \/ Tick \/ Occurrence

RoundsNext == (\E j \in Jobs : Start(j) \/ Step(j)) \/ Environment

\* Every wait of a job returns, so a job that began ends.  A job has no loop:
\* this is weak fairness of its steps, in the form TLC checks fastest.
JobsEnd == \A j \in Jobs : []<>At(j, "idle")

RoundsSpec == RoundsInit /\ [][RoundsNext]_roundsVars /\ JobsEnd

----------------------------------------------------------------------------
RoundsTypeOK ==
  /\ file \in Seq(LineRecords) /\ OnePerKey(file)
  /\ present \in [Keys -> Nat] /\ \A k \in Keys : present[k] \in 1..MaxLeaves[k]
  /\ \A l \in DOMAIN history : history[l] \in {"new", "half", "watched"}
  /\ led \in [Keys -> {Never} \union 0..Window]
  /\ season \in Seasons /\ newest \in Jobs
  /\ jobs \in [Jobs -> JobRecords]

Playable(k) == \E i \in 1..present[k] : history[<<k, i>>] # "watched"

\* finished.ts and resolve.ts: a line is marked because its own resolution came
\* back empty.  The sweep of a job never takes a line that same job found
\* playable, whatever another job wrote into the file in between.
SweepSparesPlayable ==
  [][\A j \in Jobs : (At(j, "sweep") /\ jobs'[j].pc # "sweep") =>
       \A l \in Lines : l.key \in jobs[j].found => \E m \in ToSet(file') : m.key = l.key]_roundsVars

\* promote.ts: a promoted line leads "guaranteed first tonight, then not again
\* until tomorrow".  However scans overlap, a cooldown is never stamped anew
\* within its own window: the promise is spent once.
PromiseSpentOnce == respent = {}

\* A resolution that reached every entry goes on to be written, again and again.
Served == \E j \in Jobs : At(j, "revive") /\ jobs[j].whole

\* resolve.ts, of stale-done recovery: without it "a returning show silently
\* never plays again".  No line stays marked for ever with something to play.
ReturningShowComesBack ==
  []<>Served => \A k \in Keys :
    []<>~(Playable(k) /\ \E l \in Lines : l.key = k /\ l.done /\ l.age # Never)

\* exhaustion.ts: a new round starts when the last line is done.  A queue with
\* its own history never runs out for good.
NewRound ==
  []<>Served => []<>(file = <<>> \/ \E l \in Lines : Playable(l.key))
=============================================================================
