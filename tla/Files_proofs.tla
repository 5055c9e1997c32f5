---------------------------- MODULE Files_proofs ----------------------------
(***************************************************************************)
(* Proofs about Files for every set of writers and listings, every age at  *)
(* which a lock is stale, every patience and any number of crashes.        *)
(***************************************************************************)
EXTENDS Files, TLAPS

\* While robbed holders are inside, nothing saved is promised.
RobbedPromisesNothing == robbed => saved = Withdrawn

\* What a holder parsed agrees with every save still promised: nobody saved
\* since, and what a hand or a broken write did later withdrew the promises.
DocHonest ==
  \A w \in Writers : pc[w] \in {"write", "patch"} =>
    \A v \in Writers : saved[v] # Unknown => (v \in doc[w] <=> saved[v] = "there")

\* A listing that took the file's stat and read it has the file's lines.
ReadIsTheFile ==
  \A l \in Listers : lister[l].at = "store" /\ lister[l].current => lister[l].lines = file

IndInv ==
  /\ TypeOK /\ OneHolder /\ RobbedPromisesNothing /\ DocHonest
  /\ ReadIsTheFile /\ NoEditLost /\ MemoIsTheFile

----------------------------------------------------------------------------
(* What the updates of the model leave of its records.                     *)

\* A listing whose stat is out of date is still a listing, with what it read.
LEMMA OutdatedLister ==
  ASSUME NEW r \in [at : {"idle", "read", "store"}, current : BOOLEAN, lines : SUBSET Writers]
  PROVE  /\ [r EXCEPT !.current = FALSE] \in
              [at : {"idle", "read", "store"}, current : BOOLEAN, lines : SUBSET Writers]
         /\ [r EXCEPT !.current = FALSE].current = FALSE
  OBVIOUS

\* A parsed listing holds the lines it was given.
LEMMA ParsedLister ==
  ASSUME NEW r \in [at : {"idle", "read", "store"}, current : BOOLEAN, lines : SUBSET Writers],
         NEW lines \in SUBSET Writers
  PROVE  LET p == [r EXCEPT !.at = "store", !.lines = lines]
         IN  /\ p \in [at : {"idle", "read", "store"}, current : BOOLEAN, lines : SUBSET Writers]
             /\ p.lines = lines /\ p.current = r.current /\ p.at = "store"
  OBVIOUS

\* A write of the file leaves every listing a listing with an outdated stat.
LEMMA ReplacedListers ==
  ASSUME TypeOK, NEW lines \in SUBSET Writers, Replaced(lines)
  PROVE  /\ file' = lines
         /\ lister' \in [Listers -> [at : {"idle", "read", "store"}, current : BOOLEAN,
                                     lines : SUBSET Writers]]
         /\ \A l \in Listers : lister'[l].current = FALSE
  BY OutdatedLister DEF Replaced, TypeOK

----------------------------------------------------------------------------
(* One lemma per action: the inductive invariant survives it.              *)

\* Asking for an edit keeps the invariant.
LEMMA StepBegin ==
  ASSUME IndInv, NEW w \in Writers, NEW wanted \in {"there", "gone"}, Begin(w, wanted)
  PROVE  IndInv'
<1> USE DEF IndInv, Begin
<1>1. TypeOK'
  BY BoundsAssumption DEF TypeOK
<1>2. OneHolder' /\ RobbedPromisesNothing' /\ DocHonest'
  BY DEF OneHolder, RobbedPromisesNothing, DocHonest, Holding, TypeOK
<1>3. HalfWritten' <=> HalfWritten
  BY DEF HalfWritten, TypeOK
<1>4. ReadIsTheFile' /\ NoEditLost' /\ MemoIsTheFile'
  BY <1>3 DEF ReadIsTheFile, NoEditLost, MemoIsTheFile
<1> QED BY <1>1, <1>2, <1>4

\* Making the lock directory, or finding it there, keeps the invariant: a lock
\* that can be made has no holder.
LEMMA StepMkdir ==
  ASSUME IndInv, NEW w \in Writers, Mkdir(w)
  PROVE  IndInv'
<1> USE DEF IndInv
<1>0. /\ pc[w] = "mkdir" /\ UNCHANGED <<file, want, doc, memo, lister, crashes, saved, robbed>>
      /\ \/ lock = Free /\ lock' = 0 /\ pc' = [pc EXCEPT ![w] = "read"] /\ waited' = [waited EXCEPT ![w] = 0]
         \/ pc' = [pc EXCEPT ![w] = "stat"] /\ UNCHANGED <<lock, waited>>
  BY DEF Mkdir
<1>1. TypeOK'
  BY <1>0, BoundsAssumption DEF TypeOK, Free
<1>2. OneHolder'
  BY <1>0, BoundsAssumption DEF OneHolder, Holding, TypeOK, Free
<1>3. DocHonest' /\ RobbedPromisesNothing'
  BY <1>0 DEF DocHonest, RobbedPromisesNothing, TypeOK
<1>5. HalfWritten' <=> HalfWritten
  BY <1>0 DEF HalfWritten, TypeOK
<1>4. ReadIsTheFile' /\ NoEditLost' /\ MemoIsTheFile'
  BY <1>0, <1>5 DEF ReadIsTheFile, NoEditLost, MemoIsTheFile
<1> QED BY <1>1, <1>2, <1>3, <1>4

\* Looking at the age of the lock keeps the invariant.
LEMMA StepStat ==
  ASSUME IndInv, NEW w \in Writers, Stat(w)
  PROVE  IndInv'
<1> USE DEF IndInv
<1>0. /\ pc[w] = "stat"
      /\ \E next \in {"rmdir", "idle", "mkdir"} : pc' = [pc EXCEPT ![w] = next]
      /\ UNCHANGED <<file, lock, want, doc, waited, memo, lister, crashes, saved, robbed>>
  BY DEF Stat, Again
<1>1. TypeOK'
  BY <1>0 DEF TypeOK
<1>2. OneHolder' /\ RobbedPromisesNothing' /\ DocHonest'
  BY <1>0 DEF OneHolder, RobbedPromisesNothing, DocHonest, Holding, TypeOK
<1>3. HalfWritten' <=> HalfWritten
  BY <1>0 DEF HalfWritten, TypeOK
<1>4. ReadIsTheFile' /\ NoEditLost' /\ MemoIsTheFile'
  BY <1>0, <1>3 DEF ReadIsTheFile, NoEditLost, MemoIsTheFile
<1> QED BY <1>1, <1>2, <1>4

\* Removing a lock found stale keeps the invariant: nobody holds it, or the robbery
\* withdraws what was promised.
LEMMA StepSteal ==
  ASSUME IndInv, NEW w \in Writers, Steal(w)
  PROVE  IndInv'
<1> USE DEF IndInv
<1>0. /\ pc[w] = "rmdir" /\ lock' = Free /\ pc' = [pc EXCEPT ![w] = "mkdir"]
      /\ robbed' = (\E v \in Writers : Holding(v))
      /\ saved' = IF robbed' THEN Withdrawn ELSE saved
      /\ UNCHANGED <<file, want, doc, waited, memo, lister, crashes>>
  BY DEF Steal
<1>1. TypeOK'
  <2>1. saved' \in [Writers -> {"there", "gone", Unknown}]
    BY <1>0 DEF TypeOK, Withdrawn
  <2>2. robbed' \in BOOLEAN /\ lock' \in Free .. Stale + 1
    BY <1>0, BoundsAssumption DEF Free
  <2> QED BY <1>0, <2>1, <2>2 DEF TypeOK
<1>2. ~robbed' => \A v \in Writers : ~Holding(v)
  BY <1>0
<1>3. OneHolder'
  BY <1>0, <1>2 DEF OneHolder, Holding, TypeOK
<1>4. \A v \in Writers : saved'[v] # Unknown => saved'[v] = saved[v]
  BY <1>0 DEF Withdrawn
<1>5. DocHonest' /\ RobbedPromisesNothing'
  BY <1>0, <1>4 DEF DocHonest, RobbedPromisesNothing, TypeOK
<1>6. HalfWritten' <=> HalfWritten
  BY <1>0 DEF HalfWritten, TypeOK
<1>7. ReadIsTheFile' /\ NoEditLost' /\ MemoIsTheFile'
  BY <1>0, <1>4, <1>6 DEF ReadIsTheFile, NoEditLost, MemoIsTheFile
<1> QED BY <1>1, <1>3, <1>5, <1>7

\* Parsing the file under the lock keeps the invariant: no write is half way, or
\* nothing is promised.
LEMMA StepRead ==
  ASSUME IndInv, NEW w \in Writers, Read(w)
  PROVE  IndInv'
<1> USE DEF IndInv, Read
<1>1. TypeOK'
  BY DEF TypeOK
<1>2. OneHolder' /\ RobbedPromisesNothing'
  BY DEF OneHolder, RobbedPromisesNothing, Holding, TypeOK
<1>3. ~robbed => ~HalfWritten
  BY DEF OneHolder, Holding, HalfWritten
<1>4. DocHonest'
  <2> SUFFICES ASSUME NEW u \in Writers, pc'[u] \in {"write", "patch"},
                      NEW v \in Writers, saved[v] # Unknown
               PROVE  v \in doc'[u] <=> saved[v] = "there"
    BY DEF DocHonest
  <2>1. ~robbed
    BY DEF RobbedPromisesNothing, Withdrawn
  <2>2. CASE u = w
    BY <1>3, <2>1, <2>2 DEF NoEditLost, TypeOK
  <2>3. CASE u # w
    BY <2>3 DEF DocHonest, TypeOK
  <2> QED BY <2>2, <2>3
<1>5. HalfWritten' <=> HalfWritten
  BY DEF HalfWritten, TypeOK
<1>6. ReadIsTheFile' /\ NoEditLost' /\ MemoIsTheFile'
  BY <1>5 DEF ReadIsTheFile, NoEditLost, MemoIsTheFile
<1> QED BY <1>1, <1>2, <1>4, <1>6

\* A holder that saves its document, or is done with it, keeps the invariant: what
\* it parsed agrees with every save still promised, and no other holder's document
\* is to be honest.
LEMMA Saved ==
  ASSUME IndInv, NEW w \in Writers, pc[w] \in {"write", "patch"}, Save(w),
         pc' = [pc EXCEPT ![w] = "release"], UNCHANGED <<lock, want, doc, waited, crashes, robbed>>
  PROVE  IndInv'
<1> USE DEF IndInv
<1>1. Edited(w) \in SUBSET Writers
  BY DEF Edited, TypeOK
<1>2. /\ file' = Edited(w) /\ \A l \in Listers : lister'[l].current = FALSE
      /\ lister' \in [Listers -> [at : {"idle", "read", "store"}, current : BOOLEAN,
                                  lines : SUBSET Writers]]
      /\ memo' = None
      /\ saved' = IF robbed THEN Withdrawn ELSE [saved EXCEPT ![w] = want[w]]
  BY <1>1, ReplacedListers DEF Save
<1>3. TypeOK'
  <2>1. saved' \in [Writers -> {"there", "gone", Unknown}]
    BY <1>2 DEF TypeOK, Withdrawn
  <2> QED BY <1>1, <1>2, <2>1 DEF TypeOK, None
<1>4. OneHolder' /\ RobbedPromisesNothing'
  BY <1>2 DEF OneHolder, RobbedPromisesNothing, Holding, TypeOK
<1>5. ~robbed => \A v \in Writers : pc'[v] \notin {"write", "patch"}
  BY DEF OneHolder, Holding, TypeOK
<1>6. DocHonest'
  BY <1>2, <1>5 DEF DocHonest, Withdrawn
<1>7. NoEditLost'
  <2> SUFFICES ASSUME NEW v \in Writers, saved'[v] # Unknown
               PROVE  v \in file' <=> saved'[v] = "there"
    BY DEF NoEditLost
  <2>1. ~robbed /\ saved' = [saved EXCEPT ![w] = want[w]]
    BY <1>2 DEF Withdrawn
  <2>2. CASE v = w
    BY <1>2, <2>1, <2>2 DEF Edited, TypeOK
  <2>3. CASE v # w
    <3>1. saved'[v] = saved[v]
      BY <2>1, <2>3 DEF TypeOK
    <3>2. v \in doc[w] <=> saved[v] = "there"
      BY <3>1 DEF DocHonest
    <3> QED BY <1>2, <2>3, <3>1, <3>2 DEF Edited
  <2> QED BY <2>2, <2>3
<1>8. ReadIsTheFile' /\ MemoIsTheFile'
  BY <1>2 DEF ReadIsTheFile, MemoIsTheFile, None
<1> QED BY <1>3, <1>4, <1>6, <1>7, <1>8

\* Writing nothing, all of the document or half of it keeps the invariant.
LEMMA StepWrite ==
  ASSUME IndInv, NEW w \in Writers, Write(w)
  PROVE  IndInv'
<1> USE DEF IndInv
<1>0. pc[w] = "write" /\ UNCHANGED <<lock, want, doc, waited, crashes, robbed>>
  BY DEF Write
<1>1. CASE WriteNothing(w)
  <2>1. pc' = [pc EXCEPT ![w] = "release"] /\ UNCHANGED <<file, memo, lister, saved>>
    BY <1>1 DEF WriteNothing
  <2>2. TypeOK' /\ OneHolder' /\ RobbedPromisesNothing'
    BY <1>0, <2>1 DEF TypeOK, OneHolder, RobbedPromisesNothing, Holding
  <2>3. DocHonest' /\ (HalfWritten' <=> HalfWritten)
    BY <1>0, <2>1 DEF DocHonest, HalfWritten, TypeOK
  <2>4. ReadIsTheFile' /\ NoEditLost' /\ MemoIsTheFile'
    BY <1>0, <2>1, <2>3 DEF ReadIsTheFile, NoEditLost, MemoIsTheFile
  <2> QED BY <2>2, <2>3, <2>4
<1>2. CASE WriteRenamed(w)
  BY <1>0, <1>2, Saved DEF WriteRenamed
<1>3. CASE WriteInPlace(w)
  <2>1. PICK lines \in SUBSET Edited(w) : Replaced(lines)
    BY <1>3 DEF WriteInPlace
  <2>2. pc' = [pc EXCEPT ![w] = "patch"] /\ memo' = None /\ UNCHANGED saved
    BY <1>3 DEF WriteInPlace
  <2>3. lines \in SUBSET Writers
    BY DEF Edited, TypeOK
  <2>4. /\ file' = lines /\ \A l \in Listers : lister'[l].current = FALSE
        /\ lister' \in [Listers -> [at : {"idle", "read", "store"}, current : BOOLEAN,
                                    lines : SUBSET Writers]]
    BY <2>1, <2>3, ReplacedListers
  <2>5. TypeOK'
    BY <1>0, <2>2, <2>3, <2>4 DEF TypeOK, None
  <2>6. OneHolder' /\ RobbedPromisesNothing' /\ DocHonest'
    BY <1>0, <2>2 DEF OneHolder, RobbedPromisesNothing, DocHonest, Holding, TypeOK
  <2>7. HalfWritten'
    BY <2>2 DEF HalfWritten, TypeOK
  <2>8. ReadIsTheFile' /\ NoEditLost' /\ MemoIsTheFile'
    BY <2>2, <2>4, <2>7 DEF ReadIsTheFile, NoEditLost, MemoIsTheFile, None
  <2> QED BY <2>5, <2>6, <2>8
<1> QED BY <1>1, <1>2, <1>3 DEF Write

\* The rest of a write in place keeps the invariant; one that breaks off withdraws
\* what was promised.
LEMMA StepPatch ==
  ASSUME IndInv, NEW w \in Writers, Patch(w)
  PROVE  IndInv'
<1> USE DEF IndInv
<1>0. /\ pc[w] = "patch" /\ pc' = [pc EXCEPT ![w] = "release"]
      /\ UNCHANGED <<lock, want, doc, waited, crashes, robbed>>
  BY DEF Patch
<1>1. CASE Save(w)
  BY <1>0, <1>1, Saved
<1>2. CASE saved' = Withdrawn /\ UNCHANGED <<file, memo, lister>>
  <2>1. TypeOK' /\ OneHolder' /\ RobbedPromisesNothing'
    BY <1>0, <1>2 DEF TypeOK, OneHolder, RobbedPromisesNothing, Holding, Withdrawn
  <2>2. DocHonest' /\ NoEditLost'
    BY <1>2 DEF DocHonest, NoEditLost, Withdrawn
  <2>3. ReadIsTheFile' /\ MemoIsTheFile'
    BY <1>2 DEF ReadIsTheFile, MemoIsTheFile
  <2> QED BY <2>1, <2>2, <2>3
<1> QED BY <1>1, <1>2 DEF Patch

\* Removing the lock after an edit keeps the invariant: its holder was alone, or is
\* the last of those a robbery let in together.
LEMMA StepRelease ==
  ASSUME IndInv, NEW w \in Writers, Release(w)
  PROVE  IndInv'
<1> USE DEF IndInv
<1>0. /\ pc[w] = "release" /\ lock' = Free /\ pc' = [pc EXCEPT ![w] = "idle"]
      /\ doc' = [doc EXCEPT ![w] = {}] /\ want' = [want EXCEPT ![w] = "gone"]
      /\ robbed' = (robbed /\ \E v \in Writers \ {w} : Holding(v))
      /\ UNCHANGED <<file, waited, memo, lister, crashes, saved>>
  BY DEF Release
<1>1. TypeOK'
  BY <1>0, BoundsAssumption DEF TypeOK, Free
<1>2. ~robbed' => \A v \in Writers \ {w} : ~Holding(v)
  BY <1>0 DEF OneHolder, Holding
<1>3. OneHolder' /\ RobbedPromisesNothing' /\ DocHonest'
  BY <1>0, <1>2 DEF OneHolder, RobbedPromisesNothing, DocHonest, Holding, TypeOK
<1>4. HalfWritten' <=> HalfWritten
  BY <1>0 DEF HalfWritten, TypeOK
<1>5. ReadIsTheFile' /\ NoEditLost' /\ MemoIsTheFile'
  BY <1>0, <1>4 DEF ReadIsTheFile, NoEditLost, MemoIsTheFile
<1> QED BY <1>1, <1>3, <1>5

\* A listing's steps keep the invariant: the memo is kept only under a stat no
\* write has outdated since before the read.
LEMMA StepList ==
  ASSUME IndInv, NEW l \in Listers, List(l)
  PROVE  IndInv'
<1> USE DEF IndInv
<1>0. UNCHANGED <<file, lock, pc, want, doc, waited, crashes, saved, robbed>>
  BY DEF List, ListStat, ListRead, ListStore, writing
<1>1. OneHolder' /\ RobbedPromisesNothing' /\ DocHonest' /\ NoEditLost'
  BY <1>0 DEF OneHolder, RobbedPromisesNothing, DocHonest, NoEditLost, HalfWritten, Holding
<1>2. CASE ListStat(l)
  <2>1. TypeOK'
    BY <1>0, <1>2 DEF ListStat, TypeOK
  <2>2. ReadIsTheFile' /\ MemoIsTheFile'
    BY <1>0, <1>2 DEF ListStat, ReadIsTheFile, MemoIsTheFile, TypeOK
  <2> QED BY <1>1, <2>1, <2>2
<1>3. CASE ListRead(l)
  <2>1. /\ lister' = [lister EXCEPT ![l] = [lister[l] EXCEPT !.at = "store", !.lines = file]]
        /\ UNCHANGED memo
    BY <1>3 DEF ListRead
  <2>2. TypeOK'
    BY <1>0, <2>1, ParsedLister DEF TypeOK
  <2>3. ReadIsTheFile'
    <3> SUFFICES ASSUME NEW m \in Listers, lister'[m].at = "store", lister'[m].current
                 PROVE  lister'[m].lines = file
      BY <1>0 DEF ReadIsTheFile
    <3>1. CASE m = l
      <4>1. lister[l] \in [at : {"idle", "read", "store"}, current : BOOLEAN,
                           lines : SUBSET Writers] /\ file \in SUBSET Writers
        BY DEF TypeOK
      <4>2. lister'[m] = [lister[l] EXCEPT !.at = "store", !.lines = file]
        BY <2>1, <3>1 DEF TypeOK
      <4> QED BY <4>1, <4>2
    <3>2. CASE m # l
      BY <2>1, <3>2 DEF ReadIsTheFile, TypeOK
    <3> QED BY <3>1, <3>2
  <2>4. MemoIsTheFile'
    BY <1>0, <2>1 DEF MemoIsTheFile
  <2> QED BY <1>1, <2>2, <2>3, <2>4
<1>4. CASE ListStore(l)
  <2>1. TypeOK'
    BY <1>0, <1>4 DEF ListStore, TypeOK, None, Asleep
  <2>2. ReadIsTheFile' /\ MemoIsTheFile'
    BY <1>0, <1>4 DEF ListStore, ReadIsTheFile, MemoIsTheFile, TypeOK, None, Asleep
  <2> QED BY <1>1, <2>1, <2>2
<1> QED BY <1>2, <1>3, <1>4 DEF List

\* A hand edit or an undo keeps the invariant: it withdraws every promise.
LEMMA StepOutside ==
  ASSUME IndInv, NEW lines \in SUBSET Writers, Outside(lines)
  PROVE  IndInv'
<1> USE DEF IndInv
<1>0. /\ memo' = None /\ saved' = Withdrawn
      /\ UNCHANGED <<lock, pc, want, doc, waited, crashes, robbed>>
      /\ file' = lines /\ \A l \in Listers : lister'[l].current = FALSE
      /\ lister' \in [Listers -> [at : {"idle", "read", "store"}, current : BOOLEAN,
                                  lines : SUBSET Writers]]
  BY ReplacedListers DEF Outside, writing
<1>1. TypeOK'
  BY <1>0 DEF TypeOK, None, Withdrawn
<1>2. OneHolder' /\ RobbedPromisesNothing' /\ DocHonest' /\ NoEditLost'
  BY <1>0 DEF OneHolder, RobbedPromisesNothing, DocHonest, NoEditLost, Holding, Withdrawn
<1>3. ReadIsTheFile' /\ MemoIsTheFile'
  BY <1>0 DEF ReadIsTheFile, MemoIsTheFile, None
<1> QED BY <1>1, <1>2, <1>3

\* A crash keeps the invariant: it leaves a lock without a holder, and nothing
\* promised if it met a write half way.
LEMMA StepCrash ==
  ASSUME IndInv, Crash
  PROVE  IndInv'
<1>0. /\ TypeOK
      /\ pc' = [w \in Writers |-> "idle"] /\ want' = [w \in Writers |-> "gone"]
      /\ doc' = [w \in Writers |-> {}] /\ waited' = [w \in Writers |-> 0]
      /\ memo' = None /\ lister' = [l \in Listers |-> Asleep]
      /\ robbed' = FALSE /\ UNCHANGED <<file, lock>>
  BY DEF Crash, IndInv
<1>1. TypeOK'
  <2>1. saved' \in [Writers -> {"there", "gone", Unknown}]
    BY DEF TypeOK, Withdrawn, IndInv, Crash
  <2>2. crashes' \in 0 .. MaxCrashes
    BY BoundsAssumption DEF TypeOK, IndInv, Crash
  <2>3. waited' \in [Writers -> 0 .. Patience + 1]
    BY <1>0, BoundsAssumption
  <2>4. memo' \in [current : BOOLEAN, lines : SUBSET Writers]
    BY <1>0 DEF None
  <2>5. lister' \in [Listers -> [at : {"idle", "read", "store"}, current : BOOLEAN,
                                lines : SUBSET Writers]]
    BY <1>0 DEF Asleep
  <2> QED BY <1>0, <2>1, <2>2, <2>3, <2>4, <2>5 DEF TypeOK
<1>2. OneHolder' /\ RobbedPromisesNothing' /\ DocHonest'
  BY <1>0 DEF OneHolder, RobbedPromisesNothing, DocHonest, Holding
<1>3. NoEditLost'
  <2>1. \A w \in Writers : saved'[w] # Unknown => ~HalfWritten /\ saved'[w] = saved[w]
    BY DEF Crash, Withdrawn
  <2> QED BY <1>0, <2>1 DEF NoEditLost, IndInv
<1>4. ReadIsTheFile' /\ MemoIsTheFile'
  BY <1>0 DEF ReadIsTheFile, MemoIsTheFile, None, Asleep
<1> QED BY <1>1, <1>2, <1>3, <1>4 DEF IndInv

\* The passing of time keeps the invariant: no edit's safety rests on its haste.
LEMMA StepTick ==
  ASSUME IndInv, Tick
  PROVE  IndInv'
<1> USE DEF IndInv
<1>0. /\ lock' = IF lock \in {Free, Stale + 1} THEN lock ELSE lock + 1
      /\ waited' = [w \in Writers |-> IF waited[w] > Patience \/ pc[w] = "idle" \/ Holding(w)
                                        THEN waited[w] ELSE waited[w] + 1]
      /\ UNCHANGED <<file, pc, want, doc, memo, lister, crashes, saved, robbed>>
  BY DEF Tick
<1>1. lock' \in Free .. Stale + 1 /\ (lock # Free => lock' # Free)
  BY <1>0, BoundsAssumption DEF TypeOK, Free
<1>2. waited' \in [Writers -> 0 .. Patience + 1]
  BY <1>0, BoundsAssumption DEF TypeOK
<1>3. TypeOK'
  BY <1>0, <1>1, <1>2 DEF TypeOK
<1>4. OneHolder' /\ RobbedPromisesNothing'
  BY <1>0, <1>1 DEF OneHolder, RobbedPromisesNothing, Holding
<1>5. DocHonest' /\ ReadIsTheFile' /\ NoEditLost' /\ MemoIsTheFile'
  BY <1>0 DEF DocHonest, ReadIsTheFile, NoEditLost, HalfWritten, MemoIsTheFile
<1> QED BY <1>3, <1>4, <1>5

----------------------------------------------------------------------------
(* The results.                                                            *)

\* The inductive invariant holds: one holder at a time unless one that lived was
\* robbed, honest documents, honest listings.
THEOREM Invariance == Spec => []IndInv
<1>1. Init => IndInv
  <2> SUFFICES ASSUME Init PROVE IndInv
    OBVIOUS
  <2>1. TypeOK
    <3>1. file \subseteq Writers /\ robbed \in BOOLEAN
      BY DEF Init
    <3>0. crashes \in 0 .. MaxCrashes /\ lock \in Free .. Stale + 1
      BY BoundsAssumption DEF Init, Free
    <3>5. waited \in [Writers -> 0 .. Patience + 1]
      BY BoundsAssumption DEF Init
    <3>2. /\ pc \in [Writers -> {"idle", "mkdir", "stat", "rmdir", "read", "write", "patch",
                            "release"}]
          /\ want \in [Writers -> {"there", "gone"}]
          /\ doc \in [Writers -> SUBSET Writers]
          /\ saved \in [Writers -> {"there", "gone", Unknown}]
      BY DEF Init, Withdrawn
    <3>3. memo \in [current : BOOLEAN, lines : SUBSET Writers]
      BY DEF Init, None
    <3>4. lister \in [Listers -> [at : {"idle", "read", "store"}, current : BOOLEAN,
                                 lines : SUBSET Writers]]
      BY DEF Init, Asleep
    <3> QED BY <3>0, <3>1, <3>2, <3>3, <3>4, <3>5 DEF TypeOK
  <2>2. OneHolder /\ RobbedPromisesNothing /\ DocHonest /\ NoEditLost
    BY DEF Init, OneHolder, RobbedPromisesNothing, DocHonest, NoEditLost, Holding, Withdrawn
  <2>3. ReadIsTheFile /\ MemoIsTheFile
    BY DEF Init, ReadIsTheFile, MemoIsTheFile, None, Asleep
  <2> QED BY <2>1, <2>2, <2>3 DEF IndInv
<1>2. IndInv /\ [Next]_vars => IndInv'
  <2> SUFFICES ASSUME IndInv, [Next]_vars PROVE IndInv'
    OBVIOUS
  <2>1. ASSUME NEW w \in Writers, Step(w) PROVE IndInv'
    BY <2>1, StepBegin, StepMkdir, StepStat, StepSteal, StepRead, StepWrite, StepPatch,
       StepRelease DEF Step
  <2>2. CASE UNCHANGED vars
    BY <2>2 DEF IndInv, TypeOK, OneHolder, RobbedPromisesNothing, DocHonest, ReadIsTheFile,
       NoEditLost, HalfWritten, MemoIsTheFile, Holding, vars
  <2> QED BY <2>1, <2>2, StepList, StepOutside, StepCrash, StepTick DEF Next
<1> QED BY <1>1, <1>2, PTL DEF Spec

\* No edit is lost between writes of the file: a line stays as its writer last saved
\* it, through every other edit, crash and theft of a dead holder's lock, until a hand
\* edit, a write in place that breaks off or the robbery of a slow holder withdraws
\* that (queues.ts, store/queues.ts).
THEOREM NoEditIsLost == Spec => []NoEditLost
BY Invariance, PTL DEF IndInv

\* A listing never answers with lines the file no longer has (queues.ts listAll).
THEOREM MemoHolds == Spec => []MemoIsTheFile
BY Invariance, PTL DEF IndInv

\* Unless a slow holder was robbed, two edits are never inside the lock, however
\* stale it grows (store/queues.ts acquireLock).
THEOREM LockExcludes == Spec => []OneHolder
BY Invariance, PTL DEF IndInv
=============================================================================
