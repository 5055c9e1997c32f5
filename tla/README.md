# A TLA+ model of QueuePilot

QueuePilot builds a lineup out of queues and sets, hands it to Plex on a TV
under the right person's profile, keeps it filled while it plays, moves the
player to where an item was left or to the section a queue line asks for,
writes down how each item ended, and starts a queue over when it is finished.
People choose what plays with cards at a reader, and see in a web app what is
on. The server is one Node process: no two lines run at once, but every handler
is suspended at its awaits, commands arrive over MQTT and HTTP while others are
suspended, and Plex, the player and the viewer go on by themselves. That is what
the modules here are about. Paths are under `src/server/src` unless they say
otherwise.

## The system

| Part | State | Operations | What is hard |
|---|---|---|---|
| Session (`session.ts`, `deviceScope.ts`) | `SESSION`, `_activeCancel`, the device generation | `startSession`, `advanceSession`, `clearFailedPreparation` | a newer start replaces one suspended at any of a dozen awaits; a start may be refused, cancelled or throw at each |
| Hand-off (`driver.ts`, `playback.ts`) | the attempts of one play | open, gate, create, push, verify, retry, stop | retries of a push whose answer was lost; the account that is signed in |
| Top-up (`topup.ts`, `topupScheduler.ts`) | `lastTopupMs`, the scheduler's guard | the timer's tick, the MQTT command | check-then-act over four awaits; appends applied with no answer |
| Watcher (`resume.ts`, `section.ts`) | `ARMED` twice, `GENERATION`, `TIMER`, `BOUNDARIES` | arm, tick, push, read, seek, skip | stale positions; a decision sent after the world moved; two triggers |
| End of playback (`finished.ts`) | `wasOn`, the ledger, timers | each now-playing event | telling a section's stop from a viewer's |
| MQTT (`mqttd.ts`, `mqttc.ts`) | the retained topics | one handler per command | fire-and-forget handlers; who writes the retained state |
| Profiles (`profiles.ts`, `driver.ts`, `playback.ts`, `adbLegacy.ts`) | the last observed account of a device, with its age; a claimed one without authority | gate, walk and commit on the picker, push, audit, stop | people use the TV meanwhile; an observation believed too long; a press on its way when the scan is replaced |
| Chooser (`chooser.ts`) | per reader: the selection, its revision and timer, the remembered scans, a chain of messages | scan, choose, remove, touch, dismiss, timeout | the catalog is awaited while the timer runs; late and repeated messages |
| Event stream (`sse.ts`) | the snapshot, its sitting and device, the tabs | player event, state message, connect | lookups end out of order and after a new sitting began |
| Files (`store/queues.ts`, `queues.ts`) | with `STORE_BACKEND=yaml`: the document, its lock directory, the memo of a listing | locked read-modify-write, listing, undo | stealing a lock whose holder is slow or dead; a write in place; a stat, a read and a store in three steps |
| Book of record (`store/db/*`) | by default: rows in SQLite, an in-process chain of edits per store | the same edits | an edit is suspended between its read and its write; the chain keeps edits apart |
| Queue rounds (`finished.ts`, `exhaustion.ts`, `watchedReset.ts`, `seasonalReset.ts`, `promote.ts`, `queues.ts`) | done marks and their stamps, the queue's own history, lead windows, the reset date | a scan's and a reconciliation's write side, sweep, reset, stamp | a dozen waits, each job acting on what it resolved before them |
| Selection (`engine/*.ts`, `episodeOrder.ts`) | none but the credits of a deal | what a queue plays next; the pool of a channel and its interleave | many rules that meet: lanes, caps, floors, weights, members, restarts |
| Editing, providers, board games, tonight, native TV, routes, web, cast sidecar | documents and caches | request handlers | little interleaving of their own |

How they meet: `startSession` stops the watcher, arms both plans, starts the
watcher and hands the lineup over; `topup`, `finished`, `sse` and
`advanceSession` look at `SESSION.isPreparing` and `SESSION.sittingId` to find
out whether the sitting they began in is still the one that plays; the watcher
records a boundary which `finished` claims; the MQTT now-playing topic wakes
both, and the event stream; `finished` and `startSession` share the write side
of a queue, which edits the file under the lock; a tap in the chooser publishes
the command that starts a session; the hand-off asks the profile gate first.
`PROJECT.json` has the full list of components and, under `hazards`, the line at
which each difficulty bites and the property that would show it.

What makes each modelled part correct:

- Session: the newest start wins; a replaced one changes nothing; between
  starts the session is all of one start or empty; preparation ends.
- Top-up: as long as no two ticks work on one sitting at once, nothing is added
  that is there, never past the window, counts are what was handed over and one
  landing per cooldown; always, nothing for a sitting that was replaced.
- Watcher: it never goes deaf, acts once per mark, leaves an authored section
  to the section plan, and is silent once replaced.
- End of playback: an item the watcher stopped at its mark is completed.
- Profiles: the picker is skipped only on proof; success is never reported over
  a play an audit found filed under somebody else, and such a play ends or is
  reported.
- Chooser: a play is what the tapped screen showed, for the viewers it named, of
  a queue that is for them; a scan counts once; a screen no one uses closes.
- Event stream: a tab is sent only what this sitting plays on this device, in
  order, and does not go on showing an earlier sitting.
- Files: no edit is lost but to a hand, a broken write or a robbery, a listing is
  never stale, a dead holder's lock goes.
- Rounds: a sweep spares what is playable, a promise is spent once, a show that
  returns comes back, a finished queue begins again.
- Selection: a deal never runs a whole slot ahead of a bucket's share, gives each
  its weight in every whole round and goes in turn when weights are equal; the
  rule delivers what it promises, and members are not dealt twice.

## The modules

| Module | Models | Kind |
|---|---|---|
| `Sitting` | what the rest of the server may rely on about starts | abstract specification |
| `Session` | `session.ts` with `deviceScope.ts`, the hand-off and `handleStart` | detailed, implements `Sitting` |
| `Session_proofs` | theorems about `Session` | proofs |
| `Topup` | `topup.ts` push path, `topupScheduler.ts` | detailed |
| `MCTopup` | the symmetry of its items | for TLC |
| `Topup_proofs` | theorems about `Topup` | proofs |
| `Watcher` | `resume.ts` and `section.ts` | detailed |
| `MCWatcher` | two lineups for `Watcher` | constants for TLC |
| `Watcher_proofs` | theorems about `Watcher` | proofs |
| `Finish` | `finished.ts` beside `Watcher` (extends it) | composition |
| `MCFinish` | a lineup for `Finish` | constants for TLC |
| `Profile` | the account gate of `driver.ts`, `profiles.ts`, the walk, the audit | detailed |
| `Profile_proofs` | theorems about `Profile` | proofs |
| `Chooser`, `MCChooser` | `chooser.ts`, for one reader | detailed; constants |
| `Chooser_proofs` | theorems about `Chooser` | proofs |
| `EventStream` | `sse.ts` with the parts of `session.ts` it asks | detailed |
| `EventStream_proofs` | theorems about `EventStream` | proofs |
| `Files` | `store/queues.ts`, `queues.ts` `withLock` and `listAll` | detailed |
| `Files_proofs` | theorems about `Files` | proofs |
| `Lists` | the filters, shuffles and projections the engine makes of arrays | operators |
| `Lineup` | `engine/resolve.ts` `nextQueue`, as operators | pure algorithm |
| `Rounds`, `MCRounds` | the write side of a queue, over many sittings (extends `Lineup`) | detailed; constants |
| `Rotation`, `MCRotation` | `engine/select.ts`, `rotation.ts`, `weight.ts` | algorithm; library for TLC |
| `Selection_proofs` | theorems about `Rotation` and `Rounds`, and about lists | proofs |

Operators whose names carry an underscore (`AfterExtend_Unchecked`,
`Mkdir_Recursive`) are variants of the definition after them with a mistake
in it. No specification uses them; each shows that a property notices it.

### Session

A start is a process. Its `phase` names the await it is suspended at, and an
action is everything the code runs from that await to the next: `AfterOpen`,
`AfterProfile`, `AfterLogGate`, `AfterBinding`, `AfterLineup`, `AfterClient`,
then the hand-off (`AfterGate`, `CreateQueue`, `PushQueue`, `PushAgain`,
`StopWrongAccount`), `AfterHandoff` or `AfterFailedHandoff`, and one
`AfterLead` for each lead window spent. `Settle` is the `catch`/`finally` of
`startSession`, and `ReportFailure` the `catch` of `handleStart`. An advance is
another process (`AdvanceSession`, `AdvanceCreate`, `AdvancePush`,
`AdvanceAnswer`).

Data is abstracted to its owner: the identity fields, the queue, the armed
plans and the watcher are each the number of the start that wrote them. The
cancel flag and the device generation are kept apart, because the code asks
both. Abstracted further: the awaits between the binding and the lineup are one
(`lineup`); cast mode, the rejection of an unknown device, the last-played
topic and the driver's progress publications are left out; both values of
`PLAYBACK_FSM` are checked through the constant `FSM`; requests of one process
reach a player in the order sent; a watcher that has nothing left and stops
itself is only in `Watcher`. `Drained` says that what is queued as a microtask
(the settling of a start) runs before the next MQTT event.

### Topup

One tick per waker: `Wake`, `AfterAccount`, `AfterRead`, `AfterBuild`,
`ExtendPlayQueue`, `AfterExtend`. The timer's tick never overlaps itself; a
command overlaps anything, and `overlapped` remembers that two ticks were under
way for one sitting. What is promised of a playQueue is stated while that has
not happened, because the code promises it no longer then (see known limits);
`ReplacedTickIsSilent` is stated always. A lineup is the set of its items and a
number of rows that repeat one of them: the builder may deal a title twice, and
what is taken out of a built lineup is what the queue held, not what the lineup
itself repeats (`topup.ts:246-257`). A playQueue is the set of its items, its row
count and the row that plays; `repeated` remembers which of its rows a lineup or
an append itself repeated. The answer to an append may have no size (`NoSize`),
and then what was asked for is counted (`topup.ts:272`). One set and so one cooldown; the binding
and token awaits are one; the reading of the queue is merged with its
resumption; the viewer moves forward; Plex may drop any items of a lineup or an
append; an append may fail before or after it was applied. The pull path is not
modelled.

### Watcher

`Arm` builds both plans (`ResumePlan`, `SectionPlan`) as `resumePlan` and
`sectionPlan` do. A read goes `fetch`, `fetched`, perhaps `place`, `placed`,
then decides in one action (`SeekStart`, `DeclineStart`, `StopAtEnd`,
`WaitForEnd`, `OwnedQuietly`, `ConsiderSession`), and, if there is something to
send, `seek` or `next`, then `sent`. Everything the code does without an await
is one action, the finally block included (`Finish`). Reads by an older
watcher go on after a newer start, as its promise does. `FetchSession` may
return nothing, and with `StaleReads` the position of the item before;
`Handoff` gives the player one of `PlayQueues`, what Plex may make of a lineup: its
places in order, or with some dropped, or reordered. `AddNext` is a top-up, which
inserts after the item that plays and does not touch the plans. `FetchPlace`
may fail, and otherwise answers with the index that is selected in the playQueue the
session names, which may be an older one; `Located` takes that index for a place
of the lineup, as `locate` does, after comparing files. `advanceSession` is not among the things that move the
player here. A request reaches whatever the player shows by then and
may be refused. Delays, the retry burst, the eight-hour limit and the logs are
left out: a booked read may come at any time, which is every schedule the
delays allow. That a start that failed or was replaced cannot hand over any
more is taken from `Session`, which proves it.

### Finish

`NowPlaying` is the listener of `watchPlaybackEnd`: what was on, what is on,
the live position it saves, the boundary it claims, the finalisation it books.
`Key` is what `String(ended)` yields, which is not the file. Every entry
belongs to a queue that keeps its own history; adopted plays, the announcement
and the provider's reconciliation are left out.

### Profile

A scan's drive is a slot of `Jobs`: `Active` asks Plex whom the live session
belongs to, `Screen` looks for a picker, `OnRequired` is the recent observation
that spares the walk, `LogLine` the account named by the server's log, `Walk`,
`Commit` and `Closing` the picker, `Recheck` the look after a failed attempt,
then `Push`, the audit (`Found`, `Missed`) and `Stop`. A play Companion took is
`due` until it `Appears`, which may be after the last wait; `tv.found` remembers
that an audit found what plays. `Found` is any session the wait ends with: one
with an account, one without, or one of a friend's server, which names nobody.
`Missed` is no session in time, or `/status/sessions` unread. `Quit` gives way after every wait when a newer
scan has taken the device, save where a press, a push or a stop is already on
its way. `Person` is anybody at the TV: a pick, a picker opened, a play stopped
or started. Claims are kept by the code only as a hint for where to begin the
walk, so a claim is modelled as no observation. The steps on the picker that
find a tile are one step that may fail.

### Chooser

`chain` is the reader's chain of promises: `Process` begins the message at its
head, and `ScanRead`, `CatalogRead` or `CatalogFails` is what follows the
catalog's answer. `Timer` fires meanwhile. `Tap` may come from any frame ever
shown (`shown`), `Scan` any number of times and at any age; `HoldCard` includes
a reader whose clock is ahead. The selection is `sel` (viewers, revision, what
is left of its minute, whether its timer is armed), `seenAge` the memory of
event ids. Whom a queue is for is `Members`, whom it needs and how many of a family
are told apart by `Matches` as `queuePeople.ts` does: a queue nobody is on is for
everybody. A lost message is one that is never sent, the limit of 64 readers
included.

### EventStream

`Start`, `Publish`, `Load` and `Settled` are what `session.ts` tells the
stream. `OnNowPlaying` and `OnState` are its two handlers, `Enriched` and
`Bumped` the end of a lookup's two waits, `Connect` and `Disconnect` a tab's.
The revision is kept as what it is asked for: whether a lookup is still the
newest (`fresh`, `Outdated`).

### Files

The YAML backend. `STORE_BACKEND` is `sqlite` by default (`config.ts:87-88`,
`store/index.ts:213-228`), and there edits wait for each other in a chain of
promises in the process (`store/db/common.ts:133-141`); the YAML files are what a
rollback goes back to, and their copy is written meanwhile. What `Files` shows of the
lock is about a server run with `STORE_BACKEND=yaml`; the memo of a listing is the
same with either, keyed on a version where there is no file.

`Begin`, `Mkdir`, `Stat`, `Steal`, `Read`, `Write`, `Patch`, `Release` are one
edit; `ListStat`, `ListRead`, `ListStore` one listing. `Write` writes nothing (a
line that is as wanted), renames the new file over the old, or, where the rename is
refused, cuts the file and writes in its place: until `Patch` the file holds some
of its lines, and that write may break off. `Outside` is a hand edit or an undo,
neither of which takes the lock; `Crash` a restart. A line of the file stands for
what its writer last saved. `Tick` is 5 s, and a holder may take any number of
them: `robbed` remembers that a waiter removed the lock of a holder that lived,
as the stale-lock heuristic can (`store/db/common.ts:12`), until the edits then
inside are done; `saved` forgets what a robbery, a broken write or a hand edit may
undo.

### Lineup and Rounds

`Lineup` is pure: `ItemsOf` and `ApplyBatch` what an entry still has to give,
`ComesBack` whether a marked line returns, `LaneOf`, `MayLead` and `Orders` the
two lanes and the order within them, `Contributes` the cap, `LedOf` the promises
kept, `NextQueue` all of it, one result per shuffle.

In `Rounds` a job is a scan or a reconciliation. Each action is what runs
between two waits: `Season`, `Load`, `Resolve`, then the write side `Revive`,
`Mark`, `Exhaust`, the reset `ListDone`, `Unmark`, `Forget`, then `Sweep`, and
for a scan `Handoff` and a `Stamp` for each promise. A locked edit is one step,
which `Files` justifies. `Environment` is the viewer (`Watch`), the library
(`Arrive`), the owner (`AddItem`, `RemoveItem`, `RemoveCompleted`, `HandTag`,
`SetPlacement`), the clock and the date (`Tick`, `Occurrence`). The windows are
hours or days, so no tick passes while a job runs. Leads of the owner's own
length, starts within an entry, entry weights and the reset by hand are left
out.

### Rotation

`Build` makes the pool (`ShowBucket`, `ItemBucket`, `MemberBuckets`,
`ChannelBuckets`), a set of buckets that each know which member they stand for
(`at`), and puts it in any order, as the shuffle may; `Deal` is one slot of the
weighted interleave (`Credited`, `Best`), `Deliver` hands the lineup over. The initial
states range over the channels and watch histories of `MCRotation`.

The engine takes a read of the library that failed for an empty answer, and makes
each read anew. `missed`, chosen by `Build` from `Misses`, says which failed: the
list of libraries for a channel that names none (`scope`; `ScopedCfg` leaves such a
channel without any), a blocked collection (`block`), a member (`member`; a split
collection loses its children), and the second read of a collection member, for
what it covers (`cover`). Other reads throw and there is no lineup.

`Rounds` and `Rotation` share `Lists`. A filter is `Only(s, S)`, which keeps of a
list what is in a set, and not `SelectSeq`, whose test is an operator and so out
of the provers' reach. The specification of `Rounds` is named `RoundsSpec`
(`RoundsInit`, `RoundsNext`), so that one module of proofs can extend both.

## The runs

| Run | Shows | Bounds |
|---|---|---|
| `session_replacement` | `IndInv`, `CoherentSession`, `WatcherServesNewest`, `LeadsEarned`, `PlayerFollowsSession`, `ReplacedStartIsSilent`; `NewestWins`, the refinement of `Sitting` | two starts, lineups of two, two leads, two plays each, FSM on |
| `session_advance` | `CursorInLineup`, `ReplacedAdvanceIsSilent`, and under fairness `PreparationEnds`, `StartsReturn` | two starts, two advances, FSM off |
| `topup` | `NothingAddedAgain`, `WithinWindow`, `CountsOnlyHanded`, `CooldownApart`, `ReplacedTickIsSilent` | timer and one command, three items, lineups that may repeat one, window 2, target 3, cooldown 1, two sittings, clock to 1 |
| `watcher` | `SectionOwnsItem`, `ActedOnce`, and under fairness `EndHonoured` | one sitting of four items, two windows on one file, two attempts; the playQueue as sent, without an item, or with two swapped |
| `watcher_replaced` | `NeverDeaf`, `ReplacedWatcherSilent` | two sittings of three items, one item topped up in each, prompt positions |
| `finish_boundary` | violated: `SectionCompletes` | one sitting of two items |
| `profile` | `SuccessIsRightful`, `SkipIsProven`, and under fairness `WrongPlayEnds` | two drives at a time, two accounts, an observation that lives one tick, two walks, one more push |
| `chooser` | `PlayIsWhatWasShown`, `ScanCountsOnce`, and under fairness `ScreenCloses` | two viewers, two cards, three queues (one nobody is on, one needs the second viewer, one needs one of a family), three taps, two waiting messages |
| `stream` | `FramesAreCurrent`, and under fairness `StaleFramesGo` | two players, one tab, two sittings, three events |
| `files` | `NoEditLost`, `MemoIsTheFile`, and under fairness `LockRecovers` | two writers, one listing, one crash; stale after 3 ticks, patience 2 |
| `rounds` | `SweepSparesPlayable`, `PromiseSpentOnce`, and under fairness `ReturningShowComesBack`, `NewRound` | a film and a show of two episodes, two jobs (one of which may reconcile), a removal window and a lead window of one tick, two events of the world |
| `rotation` | `FairShares`, `InTurn`, `OncePerLineup`, `RuleDelivers` | three shows, two films, two collections; every channel of a family, four histories, any reads failed, lineups up to 10 |

Why the bounds are enough: a property about replacement relates the newest
start to one older one, so two starts show it, and the proofs remove that
bound. Two plays and two leads make the first, the last and the one between
them differ. In `Topup` a window of two and a target of three put both limits in
the way of an append, and a lineup of two may be one item twice; a clock of one lets a cooldown of one end, and two
sittings let it outlive the first. Late positions are in `watcher` and not in
`watcher_replaced`, which asks who acts and not on what, and whose two sittings
would make the run three times as long. In `Watcher` positions 0 to 3 lie
before, between and past a window from 1 to 2, and two attempts tell a retry
from giving up; the second of two windows on one file is met at its own index, and
at the index of the first, where the file agrees and the window does not. In `Profile` two drives are one that replaces the other, and a
slot is used again, so any number follow; ages stop at one past the lifetime. In
`Chooser` three taps are a removal, a choice and one on a stale frame; two
messages wait behind the one under way, so that one is always handled on a
selection that changed since it was sent. In `EventStream` three events are one
shown, one whose lookup is overtaken and the one that overtakes it. In `Files`
two writers and a crash are enough to have a dead or slow holder, a thief and a
victim.
In `Rounds` events are counted while jobs are not, so jobs repeat for ever and
each event meets each of their waits; a show of two episodes can be finished,
half finished and returning. In `Rotation` the library has the smallest
instance of each rule, any set of the reads that may fail does, and lineups are
longer than the pool, so buckets run dry. `FairShares` bounds what a bucket may be ahead of its share, and what a whole
round gives it, and not what it may be behind within a round: that can be a whole
slot and more once there are enough buckets (weights 1, 1, 8, 8, 8), which the
three or four buckets of the run would not have shown and the attempt to prove it
did.

`CHECK_DEADLOCK FALSE` is set where the system may stop: the clock, the
sittings and the deal are bounded, and a viewer may leave the player alone.

### Fairness

`Session!FairSpec`: weak fairness of each start. Every await of `startSession`
ends, because every request carries a timeout and every wait for the player is
bounded, so a suspended start goes on. Nothing is assumed of advances, newer
starts or the viewer.

`Watcher!FairSpec`: weak fairness of the timer and of each read, for the same
reason. `EndHonoured` also needs that Plex does not refuse for ever to say what
plays, nor which item of the playQueue, which is strong fairness of the two
answers: of a Plex that never answers nothing can be asked, and the code says
so (`readPlayQueue` returns null, a failed poll waits for the next).

`Profile!Spec`: every drive ends, or takes steps for ever: the press, push, log
and audit waits are all bounded (`driver.ts`, `profiles.ts`). Nothing is assumed
of people.

`Chooser!Spec`: time passes, a due timer fires, the chain goes on and the
catalog answers or fails. `EventStream!Spec`: a preparation ends and its state
messages arrive (weak); a tab that keeps reconnecting gets through (strong).
`Files!Spec`: time passes and the server's promises settle. `Rounds!RoundsSpec`: a job
that began ends. All of them hold because every await has a timeout or is a
local file operation.

## What the checks found

`finish_boundary`: what ended is kept as a boolean, and `String(ended)` is
`"true"`, so no boundary is claimed and no queue entry is finalised.

### Known limits

Behaviour of the code that a property had to be stated around, or that the
modelling brought to light and no run states:

- `handleStart` (`mqttd.ts:136`) publishes the error of a start that threw
  without asking whether it is still the newest, over the newer one's retained
  state.
- `advanceSession` (`session.ts:673`) builds a new playQueue and leaves
  `SESSION.playQueueID` at the old one, so the next top-up extends a queue
  nobody watches. `PlayerFollowsSession` is therefore checked without advances,
  and proved until the first one.
- The cooldown of a top-up (`topup.ts:106`) is checked before the awaits and
  spent after them, and only the timer is kept from overlapping itself: a
  command that comes while a tick is suspended may append the same items, pass
  the window and count the growth twice. The count of a sitting also starts
  from the lineup asked for, not from what Plex accepted (`session.ts:495`), and
  counts what was asked for after an append whose answer has no size
  (`topup.ts:272`), dropped items included.
- A lineup in which the builder dealt one item twice is queued with it twice, at
  the start and at a top-up: what is left out is what the queue held before
  (`topup.ts:246-254`).
- The section plan is keyed by the place in the lineup and asked by the index in the
  playQueue, and `locate` compares only the file found there (`section.ts:276-280`).
  Once Plex dropped or reordered an item, or a top-up added one, the second window
  on a file may be met at the index of the first: the first one's marks are then
  acted on and the second's are retired, or the reading is declined and no end
  is honoured. So `EndHonoured` speaks of an item the playQueue has at its own place.
- A tick or push of the watcher that arrives while the last pending stop is
  being sent finds nothing pending, stops the watcher and cancels that stop,
  whose row and boundary are already written (`resume.ts:343`, `section.ts:397`).
- A drive replaced between its push and its audit leaves its play running
  unaudited until the next play; a replaced drive's press may still sign the TV
  in. A stop the player ignores is only reported. A play no audit finds is reported
  as a success and never stopped: Plex gives its session no account, the session
  appears after the last wait, `/status/sessions` cannot be read
  (`driver.ts:457-459`, `481-493`, `513`), or it plays from a friend's server. So
  `SuccessIsRightful` and `WrongPlayEnds` speak of plays an audit found.
- With the YAML backend, a holder slower than 15 s is robbed of its lock, and of
  two waiters that both find a lock stale the second removes the one the first has
  just made: the edits inside may undo each other. A write in place that breaks
  off, and a crash in one, leave the file cut (`store/queues.ts:91-95`), and a
  reader may meet it half way. `NoEditLost` excludes these. An undo and a hand
  edit take no lock; dismissals in `pending.ts` are a read-modify-write without one. The
  comment of `markSeen` there speaks of dropping old dismissals; they are kept.
- The size of the reader table is checked before an await, so several new
  readers at once pass the cap of 64.
- Events of the default player that arrive during a preparation are dropped and
  not replayed; between its end and the state message an event of the old
  device passes for the new sitting's.
- `resetQueueWatchedState` cannot clear a provider's history, so a queue that
  starts over without a history of its own does not; the yearly row of a queue
  is never removed, so giving it its date back fires at once; two scans may both
  do the reset; a stale reconciliation can mark lines of the new round; a stamp
  that races a demotion leaves a window behind.
- A line is spared by the job that found it playable; another job's sweep may
  still take it.
- In a channel that names no libraries a collection member yields nothing and
  covers nothing. After a bucket has run dry an unweighted interleave may deal
  one title twice in a row, against `rotation.ts:313-314`.
- `rotation.ts:256-258` says that a member that also matches the rule "isn't queued
  twice". A film that is a member and in the rule's section is, and so are
  the shows of a collection member whose second read fails (`rotation.ts:284`,
  `select.ts:286-290`, `304-310`): they play with the collection and by the rule.
  `OncePerLineup` excepts both, and a show that is a member beside its own
  collection, which the owner asked for.
- A read that fails is an empty answer: a channel that names no libraries is left
  its members alone (`select.ts:373-377`), a blocked collection blocks nothing, and
  a member is missing from the lineup while its shows may stay covered.
  `RuleDelivers` excepts the first; the shows of a blocked collection that come in
  are outside what it promises.

## The proofs

Every proof is for all values of the constants, from the `ASSUME`s of the module
it is about and nothing else. Each has an inductive invariant `IndInv`
(theorem `Invariance`; `RoundsInv` in `Rounds`), from which the invariants follow, and each action
property follows from `IndInv` and one step. There is one lemma per action, and
small lemmas say what an update leaves of a record, so that the records stay
opaque.

| Module | Proved | For any |
|---|---|---|
| `Session_proofs` | `TypeOK`, `CoherentSession`, `WatcherServesNewest`, `LeadsEarned`, `CursorInLineup`, `ReplacedStartIsSilent`, `ReplacedAdvanceIsSilent`, `NewestWins`; `PlayerFollowsSession` until an advance | starts, advances, leads, plays, both values of `FSM` |
| `Watcher_proofs` | `NeverDeaf`, `SectionOwnsItem`, `ActedOnce`, `ReplacedWatcherSilent` | lineup, windows, markers, what Plex makes of the lineup, attempts, sittings |
| `Topup_proofs` | `NothingAddedAgain`, `WithinWindow`, `CountsOnlyHanded`, `CooldownApart`, `ReplacedTickIsSilent` | finite set of items, window, target, cooldown, commands, sittings |
| `Files_proofs` | `NoEditLost`, `MemoIsTheFile`, `OneHolder` | writers, listings, ages, crashes |
| `Profile_proofs` | `SuccessIsRightful`, `SkipIsProven` | accounts, drives, lifetimes, walks, pushes |
| `Chooser_proofs` | `PlayIsWhatWasShown`, `ScanCountsOnce` | people, queues, cards, taps, waiting messages |
| `EventStream_proofs` | `FramesAreCurrent` | players, tabs, sittings, events |
| `Selection_proofs` | `FairShares`, `InTurn`, `OncePerLineup`, `RuleDelivers` of `Rotation` | library, channel, history, failed reads, weights, lengths, shuffle |
| | `SweepSparesPlayable`, `PromiseSpentOnce` of `Rounds` | queue file, library, jobs, windows, batch and lane settings, shuffle |

### Session

`BoundsAssumption`: the bounds are natural numbers, a lineup may hold an item and
a start may try once. `CoherentSession` speaks of moments at which no start
prepares, and says nothing of a start on its way, so it is not inductive.
`IndInv` adds what the newest start owns at each of its awaits (`Ownership`:
bound from the binding on, loaded from the lineup on, the watcher's from the
arming on), that the cancel flags and the generation agree on which start is the
newest (`NewestAgreed`), that a play is only built with an attempt left
(`PlayBudget`) and that leads are stamped in one place (`LeadLoop`). The lemma
`Knows` is the heart of it: a suspended start finds itself superseded exactly
when it is not the newest. So each action either belongs to the newest start and
moves one step along `Ownership`, or gives way and changes nothing (`GaveWay`).
The same split gives silence and the refinement.

`PlayerFollows` is about the player: from the moment the newest start is waiting
for the answer to its push, what it pushed is what the player was told last
(`Followed`), because the older starts have given way by then and only an
advance pushes anything else. `PlayerInv` says so while there has been none.

### Watcher

`NeverDeaf` is inductive with the types: every way out of a read ends in
`Finish`. `SectionOwnsItem` and `ActedOnce` need to know what is written down of
what was done (`ActsAreMarked`): whatever moved the player is marked as spent in
the plan it came from, and a start mark that is still provisional has attempts
left (`TriesLeft`). A read that would act a second time finds the mark.
`ReplacedWatcherSilent` holds because `current` is asked after each await.
`WatcherAssumption` says what a lineup, a window and a marker are; of `PlayQueues`
only that they are made of places of the lineup, so none of the four depends on
the playQueue being the lineup.

### Topup

All that is promised of a playQueue is promised while no two ticks worked on one
sitting. `Alone` is what follows from that: one tick is under way (`OneTick`), it
knows the queue of its sitting although the viewer goes on (`KnowsQueue`: what it
read, but for the place of the viewer; once it has built, that its slice is new
and fits), its growth is handed out but not counted, the cooldown was over when
it woke (`MayLand`), and the cooldown runs from what landed last (`LastLanded`).
A lost answer needs no case of its own: the next tick reads the queue again.
Sizes are cardinalities and repeats, so the lemmas `Sizes`, `RowsOf`, `KeptOf` and
`LineupsOf` collect what is needed of finite sets. `TopupAssumption` says that window and cooldown are positive, as `env.ts`
has them, that a finite target is longer than the window (a shorter one is never
topped up, `needsTopup`), and that the items are finitely many.

### Files

`NoEditLost` is not inductive: it says nothing of an edit under way. `OneHolder`
says that a holder is alone with the lock unless one that lived was robbed; that
a lock may grow as stale as it likes does not matter to it, because a theft from a
live holder is a robbery. `RobbedPromisesNothing` says that while robbed holders are
inside nothing saved is promised, `DocHonest` that what a holder parsed agrees with
each save still promised, so writing it back loses nothing; `ReadIsTheFile` says as
much of a listing whose stat is current. Between the cut and the end of a write in
place the file is promised to nobody, which is why the property is stated between
writes.

### Profile

`Authority`: what is remembered of an account is what Plex itself said last, and
when. `GateIsBound`: only a scan bound to an account, with a walk left, is held at
the gate. With them a look that skips the picker has the proof in its hand.
`WrongIsSettled` is what `SuccessIsRightful` rests on: a play an audit found under
another account is that of a drive about to stop it or to report it, and whoever
signs in later ends that play.

### Chooser

`RevisionNamesPeople` is what makes a frame trustworthy: revisions only grow, and
no selection and no frame reuses one for other viewers. `TapsAreOfFrames` and
`ChoiceIsOfSelection` carry that over the chain and over the wait for the catalog.
`CountedIsKnown` relates three clocks: a scan that counted is still remembered, or
its tap is too old to count.

### EventStream

`FreshIsLast`: a lookup that may still be used is that of the last event.
`SnapshotIsKept` ties the snapshot to its device, its sitting and the order of
events, `ShownInOrder` the tabs to the snapshot.

### Rotation

`Balanced` is the argument about `weight.ts`: until a bucket runs dry its credit
is what it is behind its share in slots times weights, the credits add up to
nothing, and none is as low as a whole round below nothing. It is kept because
after crediting they add up to the total, so the highest of them is positive and
survives the charge. At the end of a round every credit is a multiple of the
total, above minus the total, and they add up to nothing: all are nothing.
`Walks` says where a lineup of equal weights stands: so many whole rounds and so
many slots. The sums are over a recursive function, `SumTo`; what is needed of
them (`SumIs`, `SumOfBoth`, `SumOfOne`, ...) is proved by a least counterexample
in the naturals (`Induction`, from the well-foundedness of `<`).
`RotationAssumption` has the ranges of the settings and `PoolAssumption` that a
pool is finite.

`OncePerLineup` and `RuleDelivers` speak of keys, and what keeps them is a second
invariant over the same steps, `PoolInv` (theorem `PoolInvariance`): the shuffled
buckets are those of the pool, each once (`Drawn`), and a bucket was dealt from
its head to its cursor and no key of it twice (`Headed`); a delivered lineup is
full or has nothing live left (`Ended`). Neither property says which keys of which
bucket are out, so neither is inductive. The rest is about the pool, and not about
steps:

- `PoolTidy`: a bucket lists each of its keys once. For a member this goes through
  the specials placed among the episodes (`SpecialsPlaced`) and the children of a
  collection one after another (`Flattened`).
- `PoolApart`: two buckets share a key only if both are members', the key is a
  film's a member speaks for, or a leaf of a collection that answered as a member
  and not for the cover (`Twice`). A show's leaves are given by that show alone
  (`GivenApart`, `LeavesAre`), and the rule's bucket of a show that a member speaks
  for is not in the pool (`PoolIs`, `MembersSpeak`). What the pool takes from members
  is what they speak for and what is uncovered (`Taken`, `MemberHolds`). `NoneTwice`
  follows with `Drawn`.
- `PoolOwes`: of a show left to the rule the pool holds a leaf exactly when the rule
  owes it, once the libraries are known: a failed read elsewhere only makes the
  blocklist and what members speak for smaller, and a show left to the rule is in
  neither to begin with. With nothing live the lineup holds the whole pool (`AllDealt`), which
  gives `PromiseDelivered`.

`LibraryAssumption` is what Plex guarantees: a rating key names one title or one
leaf, a title is in one section and a leaf in one show, a library of shows lists
shows and one of films none; a collection is of titles and has a key of its own.
`ChannelAssumption` says that a channel names libraries there are and members that
are titles or collections, and that its length reads as a whole number, as
`parseInt` makes it.

### Rounds

`RoundsInv` is the types of the state, in which a key has at most one line
(`RoundsTypeOK`), with:

- `Fits`: what the step a job is at says of what it carries: promises only a scan
  has, and only once it resolved; nothing found once it hands over; no line read
  twice, no promise kept twice.
- `Spares`: of the lines old enough for the sweep, those a job found playable it
  still has to revive, and after that there are none. The property alone is about
  the step of the sweep and says nothing of the waits before it, at each of which
  other jobs edit the file; it is kept because no edit makes a line newly old
  (`NoneOlder`): marks are stamped with the time they are made and no tick passes
  while a job runs.
- `Owed`: the promises of the newest scan are not spent. Only the newest scan
  stamps, one promise at a time, and its promises are apart, so each finds its
  cooldown over: `PromiseSpentOnce`.

What one read of the queue decides is said once, in `PromisesOf` (the promises of
a lineup are promoted lines whose window is open, each once) and `ReadOf`.
`LineupAssumption` and `RoundsAssumption` have the ranges of the settings, and that
a file begins with one line for each key.

### Only model-checked

- Liveness under fairness, which is out of the prover's reach: `PreparationEnds`,
  `StartsReturn`, `EndHonoured`, `WrongPlayEnds`, `ScreenCloses`, `StaleFramesGo`,
  `LockRecovers`, `ReturningShowComesBack`, `NewRound`.
- `Finish`, whose run shows a disagreement. Of the lineup that `Lineup` computes it
  is proved that its promises are promoted lines that may lead, each once; its order
  beyond that and its cap are only exercised, by the run `rounds`.

The invariants the proofs add were given to TLC before they were proved: `IndInv`
is an invariant of `session_replacement`, and those of the other modules were
checked on the constants of their runs (in `Walks` with a bound on the rounds).

## Not modelled

Left out of modelled parts: the settle windows of the driver, and of a friend's
server all but that its session names no account;
the pull path of a top-up and two sets at once; adopted plays, the announcement
and the provider's reconciliation in `finished.ts`; the onboarding screen and
queues bound to no account id; the posters, the restart and the shutdown of the
chooser (a restart forgets the selection, which its doc allows); the debounced
data event and the keepalive of the stream; the lock of `sets.yaml`, which is
the same code; provider histories and the dates of a season in the rounds;
routing of a scan to a set, previews, parts and editions in the selection; the
batch, start, shuffle and server of a member in `Rotation`.

Not modelled at all: the SQLite book of record, which is the default, its mirror
to YAML and its migrations (each store's edits run one after another in a chain of
promises, and each writes its rows in one transaction of the engine), Plex readers, devices and providers (requests and parsing), caches (read-only
data), the account audit log, native TV routes, the tonight picker, board games
(sequential documents or pure ranking), the HTTP routes, the cast sidecar, and
the web app with its types and tests, which is by far the most of the
repository's lines. These have little state that two actors share; what can go
wrong in them is parsing and rendering, which a model would only repeat.

## Plan

1. Done: `Sitting`, `Session`, `Session_proofs`, `Topup`, `Watcher`, `Finish`,
   `Profile`, `Chooser`, `EventStream`, `Files`, `Lineup`, `Rounds`, `Rotation`.
2. Proofs. Done: the replacement, the player and the refinement in `Session`;
   every invariant and every action property that a run checks, of every module.
   Left: what is only model-checked above.
3. Further modelling, if it is wanted: `Watcher` with `advanceSession`, whose
   new playQueue the section plan does not count by; adopted plays in `Finish`;
   the pull path of `Topup`; a composition of the chooser's command, `Session`
   and `Profile`.
