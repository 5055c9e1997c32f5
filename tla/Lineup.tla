------------------------------- MODULE Lineup -------------------------------
(***************************************************************************)
(* What one read of a curated queue decides (server/src/engine/resolve.ts, *)
(* nextQueue): which of its lines have come back, which have just          *)
(* finished, and what plays, in which order, under the queue's length and  *)
(* the lead windows of its promoted lines.  Pure: a line is                *)
(* [key, done, age, placement], a leaf is <<key, place>>, and the library, *)
(* the watch state and the lead cooldowns are arguments.                   *)
(***************************************************************************)
EXTENDS Lists

CONSTANTS
  Keys,       \* the entries a line may be of
  Movies,     \* those of one film
  Windowed,   \* those with a section of their own, a start or an end mark
  Segment,    \* place -> the season or collection child it belongs to
  AddAs,      \* the queue's own lane, "priority" or "random"
  Length,     \* how many entries, or items when the lane is random
  Batch,      \* how many leaves an entry gives a sitting
  StopsAt,    \* TRUE when a batch may not cross a segment
  Window      \* promote_window, in ticks

ASSUME LineupAssumption ==
  /\ Movies \subseteq Keys /\ Windowed \subseteq Keys
  /\ AddAs \in {"priority", "random"} /\ StopsAt \in BOOLEAN
  /\ Length \in Nat \ {0} /\ Batch \in Nat \ {0} /\ Window \in Nat \ {0}

Never == -1   \* the age of a stamp that is not there

----------------------------------------------------------------------------
\* resolveMember: the leaves of the library not watched yet, cut to the batch.

LeavesOf(key, present) == [i \in 1..present[key] |-> <<key, i>>]

\* The first Batch leaves, or those of the first segment among them: a cut never
\* empties a batch.
ApplyBatch(items) ==
  LET n == IF Batch < Len(items) THEN Batch ELSE Len(items)
      segment(i) == Segment[items[i][2]]
  IN  SubSeq(items, 1, Cardinality({i \in 1..n : StopsAt => \A j \in 1..i : segment(j) = segment(1)}))

\* A half-watched leaf is not watched.
ItemsOf(key, present, history) ==
  LET leaves == LeavesOf(key, present)
  IN  ApplyBatch(Only(leaves, {l \in ToSet(leaves) : history[l] # "watched"}))

HalfWatched(items, history) == items # <<>> /\ history[items[1]] = "half"

----------------------------------------------------------------------------
\* The classification.  A line that did not resolve is in failed.

ComesBack_HalfOnly(line, items, history) ==  \* Mutant: new content does not count
  line.done /\ HalfWatched(items, history)

\* A line that was marked, not hand-tagged, comes back when anything of it is
\* playable; a hand-tagged one only when its head is half-watched.
ComesBack(line, items, history) ==
  line.done /\ items # <<>> /\ (line.age # Never \/ HalfWatched(items, history))

----------------------------------------------------------------------------
\* The two lanes.

LaneOf(line) == IF line.placement # "set" THEN line.placement ELSE AddAs

\* normalizeLead without a lead of its own: a promoted show leads once a window.
LeadsOnce(line) == line.placement # "set" /\ line.key \notin Movies

InProgress(b, history) == b.line.key \notin Windowed /\ HalfWatched(b.items, history)

\* canLeadOnce.
MayLead(age) == age = Never \/ age >= Window

\* Which batches are a spent promise if they lead, and which wait out a window.
Asks(b, history) == LaneOf(b.line) = "priority" /\ LeadsOnce(b.line) /\ ~InProgress(b, history)
Candidate(b, history, led) == Asks(b, history) /\ MayLead(led[b.line.key])
Suppressed(b, history, led) == Asks(b, history) /\ ~MayLead(led[b.line.key])

\* Every order a scan may put the batches in: the priority lane, then what of
\* the pool is half-watched, then the rest in any order.
Orders(batches, history, led) ==
  LET all == ToSet(batches)
      first == {b \in all : LaneOf(b.line) = "priority" /\ ~Suppressed(b, history, led)}
      resuming == {b \in all \ first : InProgress(b, history)}
  IN  {Only(batches, first) \o Only(batches, resuming) \o rest :
         rest \in Shuffles(Without(batches, first \union resuming))}

\* The cap: entries on a queue in order, items on a random one.
ItemsBefore(ordered, i) == Len(FlattenSeq([j \in 1..(i - 1) |-> ordered[j].items]))
Contributes(ordered, i) ==
  IF AddAs = "random" THEN ItemsBefore(ordered, i) < Length ELSE i <= Length

PlayOf(ordered) ==
  LET all == FlattenSeq([i \in 1..Cardinality({j \in DOMAIN ordered : Contributes(ordered, j)})
                           |-> ordered[i].items])
  IN  IF AddAs = "random" /\ Len(all) > Length THEN SubSeq(all, 1, Length) ELSE all

\* The promises the lineup keeps: the candidates that led and survived the cap.
LedOf(ordered, history, led) ==
  LET kept == {ordered[i] : i \in {j \in DOMAIN ordered : Contributes(ordered, j)}}
      leads == Only(ordered, {b \in kept : Candidate(b, history, led)})
  IN  [i \in DOMAIN leads |-> leads[i].line.key]

----------------------------------------------------------------------------
\* nextQueue, one result per shuffle.
NextQueue(seen, present, history, led, failed) ==
  LET items(line) == IF line.key \in failed THEN <<>> ELSE ItemsOf(line.key, present, history)
      revived == {line.key : line \in {l \in ToSet(seen) : ComesBack(l, items(l), history)}}
      newly == {line.key : line \in {l \in ToSet(seen) :
                  ~l.done /\ l.key \notin failed /\ items(l) = <<>>}}
      active == Only(seen, {l \in ToSet(seen) : items(l) # <<>> /\ (l.done => l.key \in revived)})
      batches == [i \in DOMAIN active |-> [line |-> active[i], items |-> items(active[i])]]
  IN  {[revived |-> revived, newly |-> newly, play |-> PlayOf(ordered),
        led |-> LedOf(ordered, history, led)] : ordered \in Orders(batches, history, led)}
=============================================================================
