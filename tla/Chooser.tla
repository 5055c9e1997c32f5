------------------------------ MODULE Chooser ------------------------------
(***************************************************************************)
(* The chooser a room's card reader opens on the TV (chooser.ts), seen     *)
(* from one reader.  A card adds its viewer to the selection, the catalog  *)
(* is read for those viewers, and the screen shown; only a tap on a queue  *)
(* plays.  Messages of a reader are handled one after another, but a scan, *)
(* a removal and a tap wait for the catalog, and the idle timer does not   *)
(* wait for them.  The broker delays messages, repeats them, and loses     *)
(* them, as `handle` does for a new reader when 64 others are open.        *)
(*                                                                         *)
(* The clock's unit is 30 s, and every time is kept as an age.             *)
(***************************************************************************)
EXTENDS Integers, Sequences, FiniteSets

CONSTANTS
  People,     \* those who have a card
  Queues,     \* the queues
  Members,    \* who each queue is for: people, and groups of people
  Scans,      \* the cards held to the reader, by eventId
  Card,       \* whose card each was
  MaxTaps,    \* bound on the taps on the screen
  MaxPending  \* bound on the messages waiting for the reader

ASSUME ChooserAssumption ==
  /\ Members \in [Queues -> SUBSET [role : {"required", "optional"}, people : SUBSET People,
                                    requiredPeople : SUBSET People, minPresent : Nat]]
  /\ Card \in [Scans -> People] /\ MaxTaps \in Nat /\ MaxPending \in Nat

VARIABLES
  sel,      \* selections.get(reader)
  chain,    \* the messages its chain has yet to process
  step,     \* the process() waiting for the catalog
  tapAge,   \* the age of each scan by its atMs
  seenAge,  \* `scans`: how long ago each eventId was accepted
  counted,  \* the scans ever accepted (history)
  revision, \* the last randomUUID
  shown,    \* the frames published as `show`
  played,   \* the `play` just published, with the frame it was tapped on
  taps      \* taps so far

vars == <<sel, chain, step, tapAge, seenAge, counted, revision, shown, played, taps>>

None == [id |-> 0]
Life == 2         \* a screen's 60 s
FreshFor == 1     \* a scan's 30 s
RememberFor == 2  \* an eventId's 60 s
Never == -2       \* not scanned, not remembered

Frame == [id : Nat \ {0}, revision : Nat \ {0}, people : (SUBSET People) \ {{}}]
Input ==
  [do : {"scan"}, scan : Scans] \cup [do : {"swipe"}]
    \cup [do : {"touch", "dismiss"}, frame : Frame]
    \cup [do : {"remove"}, frame : Frame, who : People]
    \cup [do : {"choose"}, frame : Frame, queue : Queues]

TypeOK ==
  /\ sel \in [id : Nat \ {0}, revision : Nat \ {0}, people : (SUBSET People) \ {{}},
              left : 0 .. Life, armed : BOOLEAN] \cup {None}
  /\ chain \in Seq(Input) /\ step \in Input \cup {None}
  /\ tapAge \in [Scans -> Never .. FreshFor + 1]
  /\ seenAge \in [Scans -> Never .. RememberFor]
  /\ counted \subseteq Scans /\ shown \subseteq Frame /\ revision \in Nat
  /\ played \in [queue : Queues, frame : Frame] \cup {None} /\ taps \in 0 .. MaxTaps

Init ==
  /\ sel = None /\ chain = <<>> /\ step = None
  /\ tapAge = [e \in Scans |-> Never] /\ seenAge = tapAge /\ counted = {}
  /\ revision = 0 /\ shown = {} /\ played = None /\ taps = 0

----------------------------------------------------------------------------
(* The room. *)

\* A card is held to the reader, whose clock may be ahead of the server's.
HoldCard(e) ==
  /\ tapAge[e] = Never
  /\ \E age \in {-1, 0} : tapAge' = [tapAge EXCEPT ![e] = age]
  /\ UNCHANGED <<sel, chain, step, seenAge, counted, revision, shown, played, taps>>

Arrives(m) == Len(chain) < MaxPending /\ chain' = Append(chain, m)

\* The scan arrives, at any time and any number of times.
Scan(e) ==
  /\ tapAge[e] # Never
  /\ Arrives([do |-> "scan", scan |-> e])
  /\ UNCHANGED <<sel, step, tapAge, seenAge, counted, revision, shown, played, taps>>

\* Enough of a member is there: the person, or `minPresent` of a group's required people.
IsPresent(m, people) == Cardinality(m.requiredPeople \cap people) >= m.minPresent

\* queueMatchesSelection: a queue nobody is on is for anyone; else each viewer
\* must be on it, and each required member there.
Matches(q, people) ==
  \/ Members[q] = {} \/ people = {}
  \/ /\ people \subseteq UNION {m.people : m \in Members[q]}
     /\ \A m \in Members[q] : m.role = "required" => IsPresent(m, people)

\* What a viewer can tap on a frame, which may long be replaced.
TapsOn(f) ==
  {[do |-> a, frame |-> f] : a \in {"touch", "dismiss"}}
    \cup {[do |-> "remove", frame |-> f, who |-> p] : p \in f.people}
    \cup {[do |-> "choose", frame |-> f, queue |-> q] : q \in {r \in Queues : Matches(r, f.people)}}

Tap ==
  /\ taps < MaxTaps
  /\ \E m \in [do : {"swipe"}] \cup UNION {TapsOn(f) : f \in shown} : Arrives(m)
  /\ taps' = taps + 1
  /\ UNCHANGED <<sel, step, tapAge, seenAge, counted, revision, shown, played>>

----------------------------------------------------------------------------
(* chooser.ts. *)

Seen(s) == [id |-> s.id, revision |-> s.revision, people |-> s.people]

\* show: the screen's minute, and its timer, begin again.
Show(s) ==
  /\ sel' = [s EXCEPT !.left = Life, !.armed = TRUE]
  /\ shown' = shown \cup {Seen(s)}

IsExpired(s) == s # None /\ s.left = 0

\* The selection process() works on: an expired one is closed first.
Current == IF IsExpired(sel) THEN None ELSE sel

\* Mutant: a scan is taken however old it is.
IsNew_AnyAge(e) == tapAge[e] >= 0 /\ seenAge[e] = Never

\* A scan is taken when it is at most 30 s old and its eventId not remembered.
IsNew(e) == tapAge[e] \in 0 .. FreshFor /\ seenAge[e] = Never

Ignore(current) == sel' = current /\ UNCHANGED <<step, seenAge, counted, revision, shown>>

\* A new scan stops the timer and asks for the catalog.
ProcessScan(m, current) ==
  IF IsNew(m.scan)
    THEN /\ seenAge' = [seenAge EXCEPT ![m.scan] = 0] /\ counted' = counted \cup {m.scan}
         /\ step' = m /\ sel' = IF current = None THEN None ELSE [current EXCEPT !.armed = FALSE]
         /\ UNCHANGED <<revision, shown>>
    ELSE Ignore(current)

\* Mutant: a removal leaves the revision as it was.
Removed_SameRevision(s, who) == [s EXCEPT !.people = @ \ {who}]

\* Mutant: a removal stops the timer before it asks for the catalog, as a scan does.
Removed_Untimed(s, who) == [s EXCEPT !.people = @ \ {who}, !.revision = revision + 1, !.armed = FALSE]

\* The screen without one viewer is a new revision, before anyone has seen it.
Removed(s, who) == [s EXCEPT !.people = @ \ {who}, !.revision = revision + 1]

\* A message from the screen must be of the frame that is current.
ProcessTap(m, current) ==
  IF current = None \/ m.frame.id # current.id \/ m.frame.revision # current.revision
    THEN Ignore(current)
    ELSE /\ CASE m.do = "touch" -> Show(current) /\ UNCHANGED <<step, revision>>
              [] m.do = "dismiss" -> sel' = None /\ UNCHANGED <<step, revision, shown>>
              [] m.do = "remove" /\ current.people \subseteq {m.who} ->
                   sel' = None /\ UNCHANGED <<step, revision, shown>>
              [] m.do = "remove" /\ ~(current.people \subseteq {m.who}) ->
                   /\ sel' = Removed(current, m.who) /\ revision' = revision + 1
                   /\ step' = m /\ UNCHANGED shown
              [] m.do = "choose" -> sel' = current /\ step' = m /\ UNCHANGED <<revision, shown>>
         /\ UNCHANGED <<seenAge, counted>>

\* process(), up to the catalog.
Process ==
  /\ step = None /\ chain # <<>>
  /\ chain' = Tail(chain)
  /\ LET m == Head(chain) IN
       CASE m.do = "scan"  -> ProcessScan(m, Current)
         [] m.do = "swipe" -> Ignore(None)
         [] OTHER          -> ProcessTap(m, Current)
  /\ played' = None
  /\ UNCHANGED <<tapAge, taps>>

\* The rest of a scan, whether the catalog could be read or not.
ScanRead ==
  /\ step # None /\ step.do = "scan"
  /\ revision' = revision + 1
  /\ Show([id       |-> IF sel = None THEN revision + 1 ELSE sel.id,
           revision |-> revision + 1,
           people   |-> {Card[step.scan]} \cup (IF sel = None THEN {} ELSE sel.people),
           left     |-> Life, armed |-> TRUE])
  /\ step' = None
  /\ UNCHANGED <<chain, tapAge, seenAge, counted, played, taps>>

\* The selection is still there and has not expired.
IsOpenStill == sel # None /\ ~IsExpired(sel)

\* The rest of a removal or a tap.
CatalogRead ==
  /\ step # None /\ step.do \in {"remove", "choose"}
  /\ IF ~IsOpenStill THEN UNCHANGED <<sel, shown, played>>
     ELSE \/ /\ step.do = "choose" /\ Matches(step.queue, sel.people)
             /\ sel' = None /\ played' = [queue |-> step.queue, frame |-> step.frame]
             /\ UNCHANGED shown
          \/ Show(sel) /\ UNCHANGED played   \* removed, or the queue has gone
  /\ step' = None
  /\ UNCHANGED <<chain, tapAge, seenAge, counted, revision, taps>>

\* The catalog could not be read: a message on whatever screen is there.
CatalogFails ==
  /\ step # None /\ step.do \in {"remove", "choose"}
  /\ IF sel = None THEN UNCHANGED <<sel, shown>> ELSE Show(sel)
  /\ step' = None
  /\ UNCHANGED <<chain, tapAge, seenAge, counted, revision, played, taps>>

\* The idle timer.
Timer ==
  /\ IsExpired(sel) /\ sel.armed
  /\ sel' = None
  /\ UNCHANGED <<chain, step, tapAge, seenAge, counted, revision, shown, played, taps>>

Tick ==
  /\ sel' = IF sel = None \/ sel.left = 0 THEN sel ELSE [sel EXCEPT !.left = @ - 1]
  /\ tapAge' = [e \in Scans |-> IF tapAge[e] \in {Never, FreshFor + 1} THEN tapAge[e] ELSE tapAge[e] + 1]
  /\ seenAge' = [e \in Scans |-> IF seenAge[e] \in {Never, RememberFor} THEN Never ELSE seenAge[e] + 1]
  /\ UNCHANGED <<chain, step, counted, revision, shown, played, taps>>

Answer == ScanRead \/ CatalogRead \/ CatalogFails

Next ==
  \/ \E e \in Scans : HoldCard(e) \/ Scan(e)
  \/ Tap \/ Process \/ ScanRead \/ CatalogRead \/ CatalogFails \/ Timer \/ Tick

\* Time passes, the timer fires, the chain goes on and the catalog answers.
Spec ==
  /\ Init /\ [][Next]_vars
  /\ WF_vars(Tick) /\ WF_vars(Timer) /\ WF_vars(Process) /\ WF_vars(Answer)

----------------------------------------------------------------------------
\* Playing takes a screen that is open and unexpired, a tap on a frame that
\* named exactly these viewers, and a queue that fits them - one nobody is on,
\* or one all of them are on with its required members there: whatever was
\* removed, added, timed out or delayed in between (docs/person-card-
\* chooser.md: "preventing an old frame from selecting for a new audience").
PlayIsWhatWasShown ==
  [][(played' # played /\ played' # None) =>
       /\ sel # None /\ sel.left > 0 /\ sel' = None
       /\ played'.frame.people = sel.people
       /\ Matches(played'.queue, sel.people)]_vars

\* A scan counts once, however often and late it is delivered: a repeat can
\* neither reopen a closed screen nor bring back a viewer who was removed
\* (chooser.ts `scans`).
ScanCountsOnce ==
  [][\A e \in Scans : (step' # step /\ step' # None /\ step'.do = "scan" /\ step'.scan = e)
                        => e \notin counted]_vars

\* A screen no one uses any more closes, whatever it was waiting for (the
\* timer a scan stops is started again by show).
ScreenCloses == sel # None ~> sel = None
=============================================================================
