--------------------------- MODULE Chooser_proofs ---------------------------
(***************************************************************************)
(* Proofs about Chooser for every set of people, queues and cards, any     *)
(* number of taps and any number of messages waiting.                      *)
(***************************************************************************)
EXTENDS Chooser, SequenceTheorems, TLAPS

Audiences == (SUBSET People) \ {{}}
Selections == [id : Nat \ {0}, revision : Nat \ {0}, people : Audiences,
               left : 0 .. Life, armed : BOOLEAN]
Plays == [queue : Queues, frame : Frame]
FromScreen == {"touch", "dismiss", "remove", "choose"}

\* TypeOK in the parts the actions leave alone together.
ScreenOK == sel \in Selections \cup {None} /\ shown \subseteq Frame /\ revision \in Nat
ClocksOK ==
  /\ tapAge \in [Scans -> Never .. FreshFor + 1]
  /\ seenAge \in [Scans -> Never .. RememberFor] /\ counted \subseteq Scans
ChainOK == chain \in Seq(Input)

\* A scan that counted stays known, or is too old.
CountedIsKnown ==
  \A e \in counted : /\ tapAge[e] >= 0
                     /\ seenAge[e] = Never => tapAge[e] = FreshFor + 1
                     /\ tapAge[e] >= seenAge[e] \/ tapAge[e] = FreshFor + 1

\* A revision names its viewers: no frame and no selection reuses it for others.
RevisionNamesPeople ==
  /\ \A f \in shown : f.revision <= revision
  /\ sel # None => /\ sel.revision <= revision
                   /\ \A f \in shown : f.revision = sel.revision => f.people = sel.people

\* What comes from a screen is of a frame that was shown.
TapsAreOfFrames ==
  \A i \in 1 .. Len(chain) : chain[i].do \in FromScreen => chain[i].frame \in shown

\* The viewers of a selection do not change under a tap that waits for the catalog.
ChoiceIsOfSelection ==
  step # None /\ step.do = "choose" /\ sel # None => step.frame.people = sel.people

IndInv ==
  /\ TypeOK /\ CountedIsKnown /\ RevisionNamesPeople /\ TapsAreOfFrames /\ ChoiceIsOfSelection

\* What PlayIsWhatWasShown and ScanCountsOnce say of a step.
PlayStep ==
  played' # played /\ played' # None =>
    /\ sel # None /\ sel.left > 0 /\ sel' = None
    /\ played'.frame.people = sel.people
    /\ Matches(played'.queue, sel.people)
ScanStep ==
  \A e \in Scans : (step' # step /\ step' # None /\ step'.do = "scan" /\ step'.scan = e)
                     => e \notin counted

----------------------------------------------------------------------------
(* The types.                                                              *)

LEMMA Types ==
  TypeOK <=> /\ ScreenOK /\ ClocksOK /\ ChainOK /\ step \in Input \cup {None}
             /\ played \in Plays \cup {None} /\ taps \in 0 .. MaxTaps
  BY DEF TypeOK, ScreenOK, ClocksOK, ChainOK, Selections, Audiences, Plays

LEMMA TypesNext ==
  TypeOK' <=> /\ ScreenOK' /\ ClocksOK' /\ ChainOK' /\ step' \in Input \cup {None}
              /\ played' \in Plays \cup {None} /\ taps' \in 0 .. MaxTaps
  BY DEF TypeOK, ScreenOK, ClocksOK, ChainOK, Selections, Audiences, Plays

\* What each message carries.
LEMMA Inputs ==
  /\ \A m \in Input : /\ m.do \in {"scan", "swipe"} \cup FromScreen
                      /\ m.do = "scan" => m.scan \in Scans
                      /\ m.do \in FromScreen => m.frame \in Frame
                      /\ m.do = "choose" => m.queue \in Queues
                      /\ m.do = "remove" => m.who \in People
  BY DEF Input, FromScreen

\* A selection is not None, and shows a frame of its revision.
LEMMA SelectionIsShown ==
  ASSUME NEW s \in Selections
  PROVE  /\ s # None /\ Seen(s) \in Frame
         /\ Seen(s).revision = s.revision /\ Seen(s).people = s.people
<1>1. s.id # 0 /\ None.id = 0
  BY DEF Selections, None
<1> QED BY <1>1 DEF Selections, Audiences, Seen, Frame

\* Only the screen may go dark, or its timer stop: the revision stays.
LEMMA Kept ==
  ASSUME ScreenOK, RevisionNamesPeople, UNCHANGED <<shown, revision>>,
         \/ sel' = None
         \/ /\ sel' \in Selections /\ sel # None
            /\ sel'.people = sel.people /\ sel'.revision = sel.revision
  PROVE  ScreenOK' /\ RevisionNamesPeople'
  BY DEF ScreenOK, RevisionNamesPeople

\* A screen that is shown names its viewers by its revision.
LEMMA Showing ==
  ASSUME ScreenOK, NEW s \in Selections, Show(s), revision' \in Nat, s.revision <= revision',
         \A f \in shown : /\ f.revision <= revision'
                          /\ f.revision = s.revision => f.people = s.people
  PROVE  /\ ScreenOK' /\ RevisionNamesPeople' /\ shown \subseteq shown'
         /\ sel' \in Selections /\ sel'.people = s.people
<1>1. /\ sel' \in Selections /\ sel'.people = s.people /\ sel'.revision = s.revision
  <2>1. Life \in 0 .. Life
    BY DEF Life
  <2>2. sel' = [s EXCEPT !.left = Life, !.armed = TRUE]
    BY DEF Show
  <2> QED BY <2>1, <2>2 DEF Selections
<1>2. shown' = shown \cup {Seen(s)}
  BY DEF Show
<1>3. \A f \in shown' : /\ f.revision <= revision'
                        /\ f.revision = sel'.revision => f.people = sel'.people
  BY <1>1, <1>2, SelectionIsShown
<1> QED BY <1>1, <1>2, <1>3, SelectionIsShown DEF ScreenOK, RevisionNamesPeople

\* A screen that is shown again as it is.
LEMMA ShowingAgain ==
  ASSUME ScreenOK, RevisionNamesPeople, sel # None, Show(sel), UNCHANGED revision
  PROVE  /\ ScreenOK' /\ RevisionNamesPeople' /\ shown \subseteq shown'
         /\ sel' \in Selections /\ sel'.people = sel.people
<1>1. sel \in Selections /\ revision \in Nat
  BY DEF ScreenOK
<1> QED BY <1>1, Showing DEF RevisionNamesPeople

\* Frames are never forgotten, so what is tapped stays one that was shown.
LEMMA FramesStay == TapsAreOfFrames /\ UNCHANGED chain /\ shown \subseteq shown' => TapsAreOfFrames'
  BY DEF TapsAreOfFrames

----------------------------------------------------------------------------
(* The room.                                                               *)

LEMMA StepHoldCard ==
  ASSUME IndInv, NEW e \in Scans, HoldCard(e)
  PROVE  IndInv' /\ PlayStep /\ ScanStep
<1>1. ScreenOK /\ ClocksOK /\ ChainOK
  BY Types DEF IndInv
<1>2. /\ tapAge[e] = Never /\ UNCHANGED <<sel, chain, step, seenAge, counted, revision, shown,
                                          played, taps>>
      /\ tapAge' \in [Scans -> Never .. FreshFor + 1]
      /\ \A f \in Scans \ {e} : tapAge'[f] = tapAge[f]
  BY <1>1 DEF HoldCard, ClocksOK, Never, FreshFor
<1>3. e \notin counted
  BY <1>2 DEF IndInv, CountedIsKnown, Never
<1>4. CountedIsKnown'
  BY <1>1, <1>2, <1>3 DEF IndInv, CountedIsKnown, ClocksOK
<1>5. TypeOK'
  BY <1>1, <1>2, Types, TypesNext DEF IndInv, ScreenOK, ClocksOK, ChainOK
<1> QED BY <1>2, <1>4, <1>5 DEF IndInv, RevisionNamesPeople, TapsAreOfFrames,
           ChoiceIsOfSelection, PlayStep, ScanStep

\* A message that arrives waits behind the others.
LEMMA Arriving ==
  ASSUME IndInv, NEW m \in Input, m.do \in FromScreen => m.frame \in shown, Arrives(m),
         taps' \in 0 .. MaxTaps,
         UNCHANGED <<sel, step, tapAge, seenAge, counted, revision, shown, played>>
  PROVE  IndInv' /\ PlayStep /\ ScanStep
<1>1. ScreenOK /\ ClocksOK /\ ChainOK
  BY Types DEF IndInv
<1>2. chain' = Append(chain, m) /\ chain \in Seq(Input)
  BY <1>1 DEF Arrives, ChainOK
<1>3. chain' \in Seq(Input)
  BY <1>2
<1>4. ASSUME NEW i \in 1 .. Len(chain'), chain'[i].do \in FromScreen PROVE chain'[i].frame \in shown
  <2>1. CASE i = Len(chain) + 1
    BY <1>2, <1>4, <2>1
  <2>2. CASE i \in 1 .. Len(chain)
    BY <1>2, <1>4, <2>2 DEF IndInv, TapsAreOfFrames
  <2> QED BY <1>2, <1>4, <2>1, <2>2
<1>5. TapsAreOfFrames'
  BY <1>4 DEF TapsAreOfFrames
<1>6. TypeOK'
  BY <1>1, <1>3, Types, TypesNext DEF IndInv, ScreenOK, ClocksOK, ChainOK
<1> QED BY <1>5, <1>6 DEF IndInv, RevisionNamesPeople, CountedIsKnown, ChoiceIsOfSelection,
           PlayStep, ScanStep

LEMMA StepScan ==
  ASSUME IndInv, NEW e \in Scans, Scan(e)
  PROVE  IndInv' /\ PlayStep /\ ScanStep
<1> DEFINE m == [do |-> "scan", scan |-> e]
<1>1. m \in Input /\ m.do \notin FromScreen
  BY DEF Input, FromScreen
<1>2. taps' \in 0 .. MaxTaps
  BY Types DEF IndInv, Scan
<1> QED BY <1>1, <1>2, Arriving DEF Scan

LEMMA StepTap ==
  ASSUME IndInv, Tap
  PROVE  IndInv' /\ PlayStep /\ ScanStep
<1>1. PICK m \in [do : {"swipe"}] \cup UNION {TapsOn(f) : f \in shown} : Arrives(m)
  BY DEF Tap
<1>2. ASSUME NEW f \in shown, m \in TapsOn(f) PROVE m \in Input /\ m.frame \in shown
  <2>1. f \in Frame
    BY <1>2, Types DEF IndInv, ScreenOK
  <2>2. CASE m \in {[do |-> a, frame |-> f] : a \in {"touch", "dismiss"}}
    BY <2>1, <2>2 DEF Input
  <2>3. CASE m \in {[do |-> "remove", frame |-> f, who |-> p] : p \in f.people}
    <3>1. f.people \subseteq People
      BY <2>1 DEF Frame
    <3> QED BY <2>1, <2>3, <3>1 DEF Input
  <2>4. CASE m \in {[do |-> "choose", frame |-> f, queue |-> q] :
                      q \in {r \in Queues : Matches(r, f.people)}}
    BY <2>1, <2>4 DEF Input
  <2> QED BY <1>2, <2>2, <2>3, <2>4 DEF TapsOn
<1>3. m \in Input /\ (m.do \in FromScreen => m.frame \in shown)
  <2>1. CASE m \in [do : {"swipe"}]
    BY <2>1 DEF Input, FromScreen
  <2> QED BY <1>2, <2>1
<1>4. taps' \in 0 .. MaxTaps
  BY Types, ChooserAssumption DEF IndInv, Tap
<1> QED BY <1>1, <1>3, <1>4, Arriving DEF Tap

\* The timer darkens the screen only.
LEMMA StepTimer ==
  ASSUME IndInv, Timer
  PROVE  IndInv' /\ PlayStep /\ ScanStep
<1>1. ScreenOK' /\ RevisionNamesPeople'
  BY Types, Kept DEF IndInv, Timer
<1>2. TypeOK'
  BY <1>1, Types, TypesNext DEF IndInv, Timer, ClocksOK, ChainOK
<1> QED BY <1>1, <1>2 DEF IndInv, Timer, CountedIsKnown, TapsAreOfFrames, ChoiceIsOfSelection,
           PlayStep, ScanStep

\* Time passes for every scan alike: one that counted is known until it is too old.
LEMMA StepTick ==
  ASSUME IndInv, Tick
  PROVE  IndInv' /\ PlayStep /\ ScanStep
<1>1. ScreenOK /\ ClocksOK /\ ChainOK
  BY Types DEF IndInv
<1>2. \A e \in Scans :
        /\ tapAge[e] \in -2 .. 2 /\ seenAge[e] \in -2 .. 2
        /\ tapAge'[e] = IF tapAge[e] \in {-2, 2} THEN tapAge[e] ELSE tapAge[e] + 1
        /\ seenAge'[e] = IF seenAge[e] \in {-2, 2} THEN -2 ELSE seenAge[e] + 1
  BY <1>1 DEF Tick, ClocksOK, Never, FreshFor, RememberFor
<1>3. \A e \in Scans : tapAge'[e] \in Never .. FreshFor + 1 /\ seenAge'[e] \in Never .. RememberFor
  BY <1>2 DEF Never, FreshFor, RememberFor
<1>4. ClocksOK'
  BY <1>1, <1>3 DEF Tick, ClocksOK
<1>5. CountedIsKnown'
  <2>1. ASSUME NEW e \in counted
        PROVE  /\ tapAge'[e] >= 0 /\ (seenAge'[e] = -2 => tapAge'[e] = 2)
               /\ tapAge'[e] >= seenAge'[e] \/ tapAge'[e] = 2
    <3>1. /\ tapAge[e] >= 0 /\ (seenAge[e] = -2 => tapAge[e] = 2)
          /\ tapAge[e] >= seenAge[e] \/ tapAge[e] = 2
      BY DEF IndInv, CountedIsKnown, Never, FreshFor
    <3>2. e \in Scans
      BY <1>1 DEF ClocksOK
    <3> QED BY <1>2, <3>1, <3>2
  <2> QED BY <2>1 DEF CountedIsKnown, Tick, Never, FreshFor
<1>6. \/ sel' = sel
      \/ /\ sel # None /\ sel' \in Selections
         /\ sel'.people = sel.people /\ sel'.revision = sel.revision
  <2>1. CASE sel = None \/ sel.left = 0
    BY <2>1 DEF Tick
  <2>2. CASE sel # None /\ sel.left # 0
    <3>1. sel \in Selections /\ sel.left - 1 \in 0 .. Life
      BY <1>1, <2>2 DEF ScreenOK, Selections, Life
    <3>2. sel' = [sel EXCEPT !.left = sel.left - 1]
      BY <2>2 DEF Tick
    <3> QED BY <2>2, <3>1, <3>2 DEF Selections
  <2> QED BY <2>1, <2>2
<1>7. ScreenOK' /\ RevisionNamesPeople'
  <2>1. UNCHANGED <<shown, revision>>
    BY DEF Tick
  <2> QED BY <1>1, <1>6, <2>1, Kept DEF IndInv, ScreenOK
<1>8. UNCHANGED <<chain, step, counted, revision, shown, played, taps>>
  BY DEF Tick
<1>9. TypeOK'
  BY <1>1, <1>4, <1>7, <1>8, Types, TypesNext DEF IndInv, ChainOK
<1> QED BY <1>5, <1>6, <1>7, <1>8, <1>9 DEF IndInv, TapsAreOfFrames, ChoiceIsOfSelection,
           PlayStep, ScanStep

----------------------------------------------------------------------------
(* The chain and the catalog.                                              *)

\* The catalog answers a tap or a removal: what plays is what the screen that is
\* still open shows.
LEMMA StepCatalogRead ==
  ASSUME IndInv, CatalogRead
  PROVE  IndInv' /\ PlayStep /\ ScanStep
<1>1. ScreenOK /\ ClocksOK /\ ChainOK /\ step \in Input
  BY Types DEF IndInv, CatalogRead
<1>2. /\ step # None /\ step' = None
      /\ UNCHANGED <<chain, tapAge, seenAge, counted, revision, taps>>
  BY DEF CatalogRead
<1>3. CASE UNCHANGED <<sel, shown, played>>
  <2>1. TypeOK'
    BY <1>1, <1>2, <1>3, Types, TypesNext DEF IndInv, ScreenOK, ClocksOK, ChainOK
  <2> QED BY <1>2, <1>3, <2>1 DEF IndInv, CountedIsKnown, RevisionNamesPeople, TapsAreOfFrames,
             ChoiceIsOfSelection, PlayStep, ScanStep
<1>4. CASE /\ IsOpenStill /\ step.do = "choose" /\ Matches(step.queue, sel.people)
           /\ sel' = None /\ played' = [queue |-> step.queue, frame |-> step.frame]
           /\ UNCHANGED shown
  <2>1. step.queue \in Queues /\ step.frame \in Frame
    BY <1>1, <1>4, Inputs DEF FromScreen
  <2>2. played' \in Plays /\ played'.queue = step.queue /\ played'.frame = step.frame
    BY <1>4, <2>1 DEF Plays
  <2>3. ScreenOK' /\ RevisionNamesPeople'
    BY <1>1, <1>2, <1>4, Kept DEF IndInv
  <2>4. TypeOK'
    BY <1>1, <1>2, <2>2, <2>3, Types, TypesNext DEF IndInv, ClocksOK, ChainOK
  <2>5. sel # None /\ sel.left > 0
    <3>1. sel # None /\ sel.left # 0
      BY <1>4 DEF IsOpenStill, IsExpired
    <3>2. sel.left \in 0 .. Life
      BY <1>1, <3>1 DEF ScreenOK, Selections
    <3> QED BY <3>1, <3>2 DEF Life
  <2>6. step.frame.people = sel.people
    BY <1>2, <1>4, <2>5 DEF IndInv, ChoiceIsOfSelection
  <2>7. PlayStep
    BY <1>4, <2>2, <2>5, <2>6 DEF PlayStep
  <2> QED BY <1>2, <1>4, <2>3, <2>4, <2>7 DEF IndInv, CountedIsKnown, TapsAreOfFrames,
             ChoiceIsOfSelection, ScanStep
<1>5. CASE sel # None /\ Show(sel) /\ UNCHANGED played
  <2>1. ScreenOK' /\ RevisionNamesPeople' /\ shown \subseteq shown'
    BY <1>1, <1>2, <1>5, ShowingAgain DEF IndInv
  <2>2. TypeOK'
    BY <1>1, <1>2, <1>5, <2>1, Types, TypesNext DEF IndInv, ClocksOK, ChainOK
  <2> QED BY <1>2, <1>5, <2>1, <2>2, FramesStay DEF IndInv, CountedIsKnown, ChoiceIsOfSelection,
             PlayStep, ScanStep
<1> QED BY <1>3, <1>4, <1>5 DEF CatalogRead, IsOpenStill

LEMMA StepCatalogFails ==
  ASSUME IndInv, CatalogFails
  PROVE  IndInv' /\ PlayStep /\ ScanStep
<1>1. ScreenOK /\ ClocksOK /\ ChainOK
  BY Types DEF IndInv
<1>2. /\ step' = None
      /\ UNCHANGED <<chain, tapAge, seenAge, counted, revision, played, taps>>
  BY DEF CatalogFails
<1>3. ScreenOK' /\ RevisionNamesPeople' /\ shown \subseteq shown'
  <2>1. CASE sel = None
    BY <1>1, <1>2, <2>1 DEF CatalogFails, IndInv, ScreenOK, RevisionNamesPeople
  <2>2. CASE sel # None
    BY <1>1, <1>2, <2>2, ShowingAgain DEF IndInv, CatalogFails
  <2> QED BY <2>1, <2>2
<1>4. TypeOK'
  BY <1>1, <1>2, <1>3, Types, TypesNext DEF IndInv, ClocksOK, ChainOK
<1> QED BY <1>2, <1>3, <1>4, FramesStay DEF IndInv, CountedIsKnown, ChoiceIsOfSelection,
           PlayStep, ScanStep

\* A scan shows its viewer beside the others, under a revision no frame has.
LEMMA StepScanRead ==
  ASSUME IndInv, ScanRead
  PROVE  IndInv' /\ PlayStep /\ ScanStep
<1> DEFINE id == IF sel = None THEN revision + 1 ELSE sel.id
           people == {Card[step.scan]} \cup (IF sel = None THEN {} ELSE sel.people)
           s == [id |-> id, revision |-> revision + 1, people |-> people,
                 left |-> Life, armed |-> TRUE]
<1>1. ScreenOK /\ ClocksOK /\ ChainOK /\ step \in Input /\ step.do = "scan"
  BY Types DEF IndInv, ScanRead
<1>2. /\ step' = None /\ revision' = revision + 1 /\ Show(s)
      /\ UNCHANGED <<chain, tapAge, seenAge, counted, played, taps>>
  BY DEF ScanRead
<1>3. Card[step.scan] \in People
  BY <1>1, Inputs, ChooserAssumption
<1>4. id \in Nat \ {0} /\ people \in Audiences
  <2>1. sel # None => sel.id \in Nat \ {0} /\ sel.people \in Audiences
    BY <1>1 DEF ScreenOK, Selections
  <2>2. revision + 1 \in Nat \ {0}
    BY <1>1 DEF ScreenOK
  <2>3. id \in Nat \ {0}
    BY <2>1, <2>2
  <2>4. people \subseteq People /\ people # {}
    BY <1>3, <2>1 DEF Audiences
  <2> HIDE DEF id, people
  <2>5. people \in Audiences
    BY <2>4 DEF Audiences
  <2> QED BY <2>3, <2>5
<1> HIDE DEF id, people
<1>5. /\ s \in Selections /\ s.revision = revision + 1 /\ revision \in Nat
  <2>1. Life \in 0 .. Life
    BY DEF Life
  <2> QED BY <1>1, <1>4, <2>1 DEF ScreenOK, Selections
<1> HIDE DEF s
<1>6. \A f \in shown : f.revision \in Nat /\ f.revision <= revision
  BY <1>1 DEF IndInv, RevisionNamesPeople, ScreenOK, Frame
<1>7. /\ revision' \in Nat /\ s.revision <= revision'
      /\ \A f \in shown : f.revision <= revision' /\ f.revision # s.revision
  BY <1>2, <1>5, <1>6
<1>8. ScreenOK' /\ RevisionNamesPeople' /\ shown \subseteq shown'
  BY <1>1, <1>2, <1>5, <1>7, Showing
<1>9. TypeOK'
  BY <1>1, <1>2, <1>8, Types, TypesNext DEF IndInv, ClocksOK, ChainOK
<1> QED BY <1>2, <1>8, <1>9, FramesStay DEF IndInv, CountedIsKnown, ChoiceIsOfSelection,
           PlayStep, ScanStep

\* process(): a message is taken from the chain; it is a scan not counted yet,
\* or of the frame that is current, or ignored.
LEMMA StepProcess ==
  ASSUME IndInv, Process
  PROVE  IndInv' /\ PlayStep /\ ScanStep
<1> DEFINE m == Head(chain)
           current == Current
<1>1. ScreenOK /\ ClocksOK /\ ChainOK
  BY Types DEF IndInv
<1>2. /\ step = None /\ chain # <<>> /\ chain' = Tail(chain)
      /\ played' = None /\ UNCHANGED <<tapAge, taps>>
      /\ \/ m.do = "scan" /\ ProcessScan(m, current)
         \/ m.do = "swipe" /\ Ignore(None)
         \/ m.do \notin {"scan", "swipe"} /\ ProcessTap(m, current)
  BY DEF Process
<1>3. current \in {sel, None}
  BY DEF Current
<1>4. /\ m \in Input /\ ChainOK' /\ (m.do \in FromScreen => m.frame \in shown)
      /\ shown \subseteq shown' => TapsAreOfFrames'
  <2>1. /\ m \in Input /\ Tail(chain) \in Seq(Input) /\ m = chain[1] /\ 1 \in 1 .. Len(chain)
        /\ Len(Tail(chain)) = Len(chain) - 1 /\ Len(chain) \in Nat
        /\ \A i \in 1 .. Len(Tail(chain)) : Tail(chain)[i] = chain[i + 1]
    BY <1>1, <1>2 DEF ChainOK
  <2>2. ASSUME shown \subseteq shown' PROVE TapsAreOfFrames'
    BY <1>2, <2>1, <2>2 DEF IndInv, TapsAreOfFrames
  <2>3. m.do \in FromScreen => m.frame \in shown
    BY <2>1 DEF IndInv, TapsAreOfFrames
  <2>4. ChainOK'
    BY <1>2, <2>1 DEF ChainOK
  <2> QED BY <2>1, <2>2, <2>3, <2>4
<1> HIDE DEF m, current
\* What remains to be proved of each case.
<1>5. ASSUME ScreenOK', RevisionNamesPeople', shown \subseteq shown', ClocksOK', CountedIsKnown',
             step' \in Input \cup {None}, ChoiceIsOfSelection', ScanStep
      PROVE  IndInv' /\ PlayStep /\ ScanStep
  BY <1>2, <1>4, <1>5, Types, TypesNext DEF IndInv, PlayStep
<1>6. ASSUME NEW next \in {current, None}, Ignore(next) PROVE IndInv' /\ PlayStep /\ ScanStep
  <2>1. sel' \in {sel, None} /\ UNCHANGED <<step, seenAge, counted, revision, shown>>
    BY <1>3, <1>6 DEF Ignore
  <2>2. ScreenOK' /\ RevisionNamesPeople'
    BY <1>1, <2>1, Kept DEF IndInv, ScreenOK
  <2> QED BY <1>1, <1>2, <1>5, <2>1, <2>2 DEF IndInv, ClocksOK, CountedIsKnown,
             ChoiceIsOfSelection, ScanStep
<1>7. CASE m.do = "scan" /\ ProcessScan(m, current)
  <2>1. CASE ~IsNew(m.scan)
    BY <1>6, <1>7, <2>1 DEF ProcessScan
  <2>2. CASE IsNew(m.scan)
    <3>1. /\ seenAge' = [seenAge EXCEPT ![m.scan] = 0] /\ counted' = counted \cup {m.scan}
          /\ step' = m /\ UNCHANGED <<revision, shown>>
          /\ sel' = IF current = None THEN None ELSE [current EXCEPT !.armed = FALSE]
      BY <1>7, <2>2 DEF ProcessScan
    <3>2. m.scan \in Scans /\ tapAge[m.scan] \in 0 .. FreshFor /\ seenAge[m.scan] = Never
      BY <1>4, <1>7, <2>2, Inputs DEF IsNew
    <3>3. m.scan \notin counted
      BY <3>2 DEF IndInv, CountedIsKnown, FreshFor
    <3>4. \/ sel' = None
          \/ /\ sel' \in Selections /\ sel # None
             /\ sel'.people = sel.people /\ sel'.revision = sel.revision
      BY <1>1, <1>3, <3>1 DEF ScreenOK, Selections
    <3>5. ScreenOK' /\ RevisionNamesPeople'
      BY <1>1, <3>1, <3>4, Kept DEF IndInv
    <3>6. ClocksOK'
      <4>1. 0 \in Never .. RememberFor
        BY DEF Never, RememberFor
      <4> QED BY <1>1, <1>2, <3>1, <3>2, <4>1 DEF ClocksOK
    <3>7. CountedIsKnown'
      <4>1. ASSUME NEW e \in counted, e # m.scan PROVE seenAge'[e] = seenAge[e]
        BY <1>1, <3>1, <4>1 DEF ClocksOK
      <4>2. seenAge'[m.scan] = 0 /\ tapAge[m.scan] >= 0
        BY <1>1, <3>1, <3>2 DEF ClocksOK, FreshFor
      <4> QED BY <1>2, <3>1, <3>3, <4>1, <4>2 DEF IndInv, CountedIsKnown, Never
    <3>8. ScanStep /\ ChoiceIsOfSelection'
      BY <1>7, <3>1, <3>3 DEF ScanStep, ChoiceIsOfSelection
    <3> QED BY <1>4, <1>5, <3>1, <3>5, <3>6, <3>7, <3>8
  <2> QED BY <2>1, <2>2
<1>8. CASE m.do \notin {"scan", "swipe"} /\ ProcessTap(m, current)
  <2>1. CASE current = None \/ m.frame.id # current.id \/ m.frame.revision # current.revision
    BY <1>6, <1>8, <2>1 DEF ProcessTap
  <2>2. CASE ~(current = None \/ m.frame.id # current.id \/ m.frame.revision # current.revision)
    <3>0. UNCHANGED <<seenAge, counted>>
      BY <1>8, <2>2 DEF ProcessTap
    <3>1. current = sel /\ sel \in Selections /\ sel # None /\ revision \in Nat
      BY <1>1, <1>3, <2>2 DEF ScreenOK
    <3>2. m.do \in FromScreen /\ m.frame.people = sel.people
      BY <1>4, <1>8, <2>2, <3>1, Inputs DEF IndInv, RevisionNamesPeople
    <3>3. ClocksOK' /\ CountedIsKnown'
      BY <1>1, <1>2, <3>0 DEF IndInv, ClocksOK, CountedIsKnown
    <3>4. CASE Show(current) /\ UNCHANGED <<step, revision>>
      <4>1. ScreenOK' /\ RevisionNamesPeople' /\ shown \subseteq shown'
        BY <1>1, <3>1, <3>4, ShowingAgain DEF IndInv
      <4> QED BY <1>2, <1>5, <3>3, <3>4, <4>1 DEF ChoiceIsOfSelection, ScanStep
    <3>5. CASE sel' = None /\ UNCHANGED <<step, revision, shown>>
      <4>1. ScreenOK' /\ RevisionNamesPeople'
        BY <1>1, <3>5, Kept DEF IndInv
      <4> QED BY <1>2, <1>5, <3>3, <3>5, <4>1 DEF ChoiceIsOfSelection, ScanStep
    <3>6. CASE /\ m.do = "remove" /\ ~(current.people \subseteq {m.who})
               /\ sel' = Removed(current, m.who) /\ revision' = revision + 1
               /\ step' = m /\ UNCHANGED shown
      <4>1. sel' = [sel EXCEPT !.people = sel.people \ {m.who}, !.revision = revision + 1]
        BY <3>1, <3>6 DEF Removed
      <4>2. sel.people \ {m.who} \in Audiences /\ revision + 1 \in Nat \ {0}
        BY <3>1, <3>6 DEF Selections, Audiences
      <4>3. sel' \in Selections /\ sel'.revision = revision + 1
        BY <3>1, <4>1, <4>2 DEF Selections
      <4>4. \A f \in shown : f.revision \in Nat /\ f.revision <= revision
        BY <1>1 DEF IndInv, RevisionNamesPeople, ScreenOK, Frame
      <4>5. ScreenOK'
        BY <1>1, <3>1, <3>6, <4>3 DEF ScreenOK
      <4>6. RevisionNamesPeople'
        BY <3>1, <3>6, <4>3, <4>4 DEF RevisionNamesPeople
      <4>7. ChoiceIsOfSelection' /\ ScanStep
        BY <3>6 DEF ChoiceIsOfSelection, ScanStep
      <4> QED BY <1>4, <1>5, <3>3, <3>6, <4>5, <4>6, <4>7
    <3>7. CASE m.do = "choose" /\ sel' = current /\ step' = m /\ UNCHANGED <<revision, shown>>
      <4>1. ScreenOK' /\ RevisionNamesPeople'
        BY <1>1, <3>1, <3>7, Kept DEF IndInv
      <4>2. ChoiceIsOfSelection' /\ ScanStep
        BY <3>1, <3>2, <3>7 DEF ChoiceIsOfSelection, ScanStep
      <4> QED BY <1>4, <1>5, <3>3, <3>7, <4>1, <4>2
    <3>8. \/ Show(current) /\ UNCHANGED <<step, revision>>
          \/ sel' = None /\ UNCHANGED <<step, revision, shown>>
          \/ /\ m.do = "remove" /\ ~(current.people \subseteq {m.who})
             /\ sel' = Removed(current, m.who) /\ revision' = revision + 1
             /\ step' = m /\ UNCHANGED shown
          \/ m.do = "choose" /\ sel' = current /\ step' = m /\ UNCHANGED <<revision, shown>>
      BY <1>8, <2>2, <3>2 DEF ProcessTap, FromScreen
    <3> QED BY <3>4, <3>5, <3>6, <3>7, <3>8
  <2> QED BY <2>1, <2>2
<1> QED BY <1>2, <1>6, <1>7, <1>8

----------------------------------------------------------------------------
(* The theorems.                                                           *)

LEMMA Step == IndInv /\ [Next]_vars => IndInv' /\ PlayStep /\ ScanStep
<1> SUFFICES ASSUME IndInv, [Next]_vars PROVE IndInv' /\ PlayStep /\ ScanStep
  OBVIOUS
<1>1. CASE UNCHANGED vars
  <2>1. TypeOK'
    BY <1>1, Types, TypesNext DEF vars, IndInv, ScreenOK, ClocksOK, ChainOK
  <2> QED BY <1>1, <2>1 DEF vars, IndInv, CountedIsKnown, RevisionNamesPeople, TapsAreOfFrames,
             ChoiceIsOfSelection, PlayStep, ScanStep
<1> QED BY <1>1, StepHoldCard, StepScan, StepTap, StepProcess, StepScanRead, StepCatalogRead,
           StepCatalogFails, StepTimer, StepTick DEF Next

LEMMA Initially == Init => IndInv
<1> SUFFICES ASSUME Init PROVE IndInv
  OBVIOUS
<1>1. ScreenOK /\ chain \in Seq(Input) /\ step = None /\ played = None
  BY DEF Init, ScreenOK
<1>2. ClocksOK
  <2>1. Never \in Never .. FreshFor + 1 /\ Never \in Never .. RememberFor
    BY DEF Never, FreshFor, RememberFor
  <2> QED BY <2>1 DEF Init, ClocksOK
<1>3. taps \in 0 .. MaxTaps
  BY ChooserAssumption DEF Init
<1>4. TypeOK
  BY <1>1, <1>2, <1>3, Types DEF ChainOK
<1>5. Len(chain) = 0
  BY DEF Init
<1> QED BY <1>4, <1>5 DEF Init, IndInv, CountedIsKnown, RevisionNamesPeople, TapsAreOfFrames,
           ChoiceIsOfSelection

\* The reader's selection, the frames shown and the scans counted agree through
\* every delay, repetition and timeout (chooser.ts process).
THEOREM Invariance == Spec => []IndInv
<1> QED BY Initially, Step, PTL DEF Spec

\* What plays is what the screen tapped showed, for the viewers it named
\* (chooser.ts, the revision of a frame).
THEOREM PlaysWhatWasShown == Spec => PlayIsWhatWasShown
<1>1. IndInv /\ [Next]_vars => [PlayStep]_vars
  BY Step
<1>2. Spec => [][PlayStep]_vars
  BY <1>1, Invariance, PTL DEF Spec
<1> QED BY <1>2 DEF PlayIsWhatWasShown, PlayStep

\* No scan counts twice, however often it is delivered (chooser.ts `scans`).
THEOREM ScansCountOnce == Spec => ScanCountsOnce
<1>1. IndInv /\ [Next]_vars => [ScanStep]_vars
  BY Step
<1>2. Spec => [][ScanStep]_vars
  BY <1>1, Invariance, PTL DEF Spec
<1> QED BY <1>2 DEF ScanCountsOnce, ScanStep
=============================================================================
