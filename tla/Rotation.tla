------------------------------ MODULE Rotation ------------------------------
(***************************************************************************)
(* A rotation channel: the pool a rule makes of the library and the        *)
(* channel's explicit members (server/src/engine/select.ts, rotation.ts,   *)
(* with the member resolution of resolve.ts and episodeOrder.ts), and the  *)
(* weighted interleave that deals a lineup from it (engine/weight.ts).     *)
(* The library does not change while a lineup is built, but any read of it *)
(* that the code lets fail may fail: of the list of libraries, of a        *)
(* blocked collection, of a member, and of a collection member a second    *)
(* time.  A title, a leaf, a section and a collection are names; a member  *)
(* list holds no title twice.  Titles and ratings are matched by name.     *)
(***************************************************************************)
EXTENDS Lists

CONSTANTS
  Sections,    \* library section -> [type, rows: its titles in listing order]
  Leaves,      \* show -> its leaves in Plex order, [key, season, episode, aired, real]
  Collections, \* collection -> [section, children in its own order]
  Configs,     \* the channels tried
  Histories,   \* the watch histories tried, each a set of keys
  MaxWeight,   \* MAX_WEIGHT
  DefaultLength, MaxLength   \* ROTATION_LENGTH, ROTATION_LENGTH_MAX

ASSUME RotationAssumption ==
  /\ MaxWeight \in Nat \ {0} /\ DefaultLength \in Nat \ {0} /\ MaxLength \in Nat \ {0}
  /\ \A c \in DOMAIN Collections : Collections[c].section \in DOMAIN Sections

Shows == DOMAIN Leaves
Titles == UNION {ToSet(Sections[s].rows) : s \in DOMAIN Sections}
LeafKeys(t) == {e.key : e \in ToSet(Leaves[t])}

\* Plex gives each title and each leaf a rating key of its own, and a title is in
\* one section, a leaf in one show; a collection is of titles.
ASSUME LibraryAssumption ==
  /\ \A s \in DOMAIN Sections :
       LET rows == Sections[s].rows
       IN  /\ rows \in Seq(ToSet(rows)) /\ IsInjective(rows)
           /\ Sections[s].type = "show" => ToSet(rows) \subseteq Shows
           /\ Sections[s].type = "movie" => ToSet(rows) \intersect Shows = {}
           /\ \A r \in DOMAIN Sections \ {s} : ToSet(rows) \intersect ToSet(Sections[r].rows) = {}
  /\ \A t \in Shows :
       /\ Leaves[t] \in Seq(ToSet(Leaves[t])) /\ IsInjective(KeysOf(Leaves[t]))
       /\ LeafKeys(t) \intersect Titles = {}
       /\ \A u \in Shows \ {t} : LeafKeys(t) \intersect LeafKeys(u) = {}
  /\ \A n \in DOMAIN Collections :
       /\ Collections[n].children \in Seq(Titles) /\ IsInjective(Collections[n].children)
       /\ n \notin Titles

\* A channel names libraries there are, its members are titles or collections,
\* and its length reads as a whole number.
ASSUME ChannelAssumption ==
  \A c \in Configs :
    /\ c.length \in Int
    /\ "sections" \in DOMAIN c /\ c.sections \subseteq DOMAIN Sections
    /\ c.members \in Seq(ToSet(c.members))
    /\ \A m \in ToSet(c.members) : m.of \in Titles \union DOMAIN Collections

VARIABLES
  cfg, watched,  \* the channel and the history the lineup is built from
  stage,         \* "build", "deal" or "done"
  missed,        \* the reads of the library that failed while the pool was built
  order,         \* the shuffled buckets, [rk, weight, items, at]
  credit, cursor,
  out            \* the lineup: [bucket, key] per slot

vars == <<cfg, watched, stage, missed, order, credit, cursor, out>>

----------------------------------------------------------------------------
\* select.ts

\* atOrAfterStart: a floor [season, episode], or none.
NoFloor == [season |-> 0, episode |-> 0]
AtOrAfterStart(leaf, floor) ==
  \/ floor = NoFloor
  \/ leaf.season > floor.season
  \/ leaf.season = floor.season /\ leaf.episode >= floor.episode

\* "No boxes checked" means every video library, or none if their list is not read.
ScopedCfg(c, miss) ==
  IF c.sections # {} \/ miss.scope THEN c
  ELSE [c EXCEPT !.sections = {s \in DOMAIN Sections : Sections[s].type \in {"show", "movie"}}]

\* collectionChildren of a collection found in one of the sections of c.  A request
\* that fails finds nothing, and each caller below makes its own.
ChildrenIn(c, name) ==
  IF name \in DOMAIN Collections /\ Collections[name].section \in c.sections
  THEN Collections[name].children ELSE <<>>

\* A blocked collection that could not be read blocks nothing.
ExpandedBlocklist(c, miss) ==
  (c.blocklist \ DOMAIN Collections)
    \union UNION {ToSet(ChildrenIn(c, n)) :
                    n \in (c.blocklist \intersect DOMAIN Collections) \ miss.block}

\* episodicShows and sectionItems: the rows of a section the rule may use.
RowsOf(c, miss, sec) == Only(Sections[sec].rows, c.allowed \ ExpandedBlocklist(c, miss))

\* restartsFor: the title's own answer, else the pool's.
RestartsFor(c, t) == c.own[t] = "restart" \/ (c.own[t] # "drop" /\ c.restart)

\* Whatever is not a number reads as 1.
ToWeight(n) ==
  IF n \notin Int \/ n < 1 THEN 1 ELSE IF n > MaxWeight THEN MaxWeight ELSE n

\* Where a bucket of the rule stands among the members: nowhere.
ByRule == <<0, 0>>

LeftOf_RestartsEarly(c, t, unwatched, all) ==  \* Mutant: restarts what is not finished
  IF RestartsFor(c, t) THEN all ELSE unwatched

\* What a finished title leaves in the pool.
LeftOf(c, t, unwatched, all) ==
  IF unwatched # <<>> \/ ~RestartsFor(c, t) THEN unwatched ELSE all

ShowBucket(c, seen, t) ==
  LET floored == Only(Leaves[t], {e \in ToSet(Leaves[t]) : AtOrAfterStart(e, c.starts[t])})
      fresh == Without(floored, {e \in ToSet(floored) : e.key \in seen})
  IN  [rk |-> t, weight |-> ToWeight(c.weights[t]), at |-> ByRule,
       items |-> KeysOf(LeftOf(c, t, fresh, floored))]

ItemBucket(c, seen, miss, sec) ==
  LET rows == RowsOf(c, miss, sec)
  IN  [rk |-> sec, weight |-> ToWeight(c.weights[sec]), at |-> ByRule,
       items |-> LeftOf(c, sec, Without(rows, seen), rows)]

UnwatchedBuckets(raw, seen, miss) ==
  LET c == ScopedCfg(raw, miss)
      ofType(type) == {s \in c.sections : Sections[s].type = type}
  IN  {b \in    {ShowBucket(c, seen, t) :
                  t \in UNION {ToSet(RowsOf(c, miss, s)) : s \in ofType("show")}}
           \union {ItemBucket(c, seen, miss, s) : s \in ofType("movie")}
         : b.items # <<>>}

----------------------------------------------------------------------------
\* episodeOrder.ts and resolveMember, as a rotation calls them: no batch.

\* Insert a selected special before the first later-dated leaf, else last.
PlaceSpecial(leaves, special) ==
  LET later == {i \in DOMAIN leaves : special.aired > 0 /\ leaves[i].aired > special.aired}
  IN  IF later = {} THEN Append(leaves, special)
      ELSE InsertAt(leaves, CHOOSE i \in later : \A j \in later : i <= j, special)

PlaceSpecials(leaves, specials) ==
  LET placed[i \in 0..Len(specials)] ==
        IF i = 0 THEN leaves ELSE PlaceSpecial(placed[i - 1], specials[i])
  IN  placed[Len(specials)]

OrderedPlayableEpisodes(leaves, specials) ==
  LET real == {e \in ToSet(leaves) : e.real}
      regular == Only(leaves, {e \in real : e.season # 0})
      chosen == Only(leaves, {e \in real : e.season = 0 /\ e.key \in specials})
  IN  IF regular = <<>> THEN <<>> ELSE PlaceSpecials(regular, chosen)

Unspent(c, seen, keys) == Without(keys, seen \union c.skipped)

\* A show's leaves, or the film itself.  A film member cannot be skipped.
MemberItems(c, seen, t) ==
  IF t \in Shows
  THEN Unspent(c, seen, KeysOf(OrderedPlayableEpisodes(Leaves[t], c.specials)))
  ELSE Without(<<t>>, seen)

\* collectionItems: each child in turn, a skipped child whole.
CollectionItems(c, seen, name) ==
  LET kept == Without(ChildrenIn(c, name), c.skipped)
  IN  FlattenSeq([i \in DOMAIN kept |-> MemberItems(c, seen, kept[i])])

MemberBucket(c, seen, m) ==
  [rk |-> m.of, weight |-> ToWeight(m.weight), at |-> m.at,
   items |-> IF m.of \in DOMAIN Collections THEN CollectionItems(c, seen, m.of)
             ELSE MemberItems(c, seen, m.of)]

\* memberDescs, with a split collection's children in its place.
MemberDescs(c) ==
  UNION {LET m == c.members[i]
             children == ChildrenIn(c, m.of)
         IN  IF c.split /\ m.of \in DOMAIN Collections
             THEN {[of |-> children[j], weight |-> m.weight, at |-> <<i, j>>] : j \in DOMAIN children}
             ELSE {[of |-> m.of, weight |-> m.weight, at |-> <<i, 0>>]} :
           i \in DOMAIN c.members}

\* A member that could not be read leaves no bucket; a split collection that
\* could not be read loses every child.
MemberBuckets(c, seen, miss) ==
  {b \in {MemberBucket(c, seen, m) : m \in {d \in MemberDescs(c) : d.at \notin miss.member}}
     : b.items # <<>>}

CollectionMembers(c) == {i \in DOMAIN c.members : c.members[i].of \in DOMAIN Collections}

CollectionCover_Forgotten(c, miss) == {}  \* Mutant: a collection covers only itself

\* The collections are read again for what they cover.
CollectionCover(c, miss) ==
  UNION {ToSet(ChildrenIn(c, c.members[i].of)) : i \in CollectionMembers(c) \ miss.cover}

\* Members first, then what of the rule no member speaks for.
ChannelBuckets(c, seen, miss) ==
  LET rule == UnwatchedBuckets(c, seen, miss)
      members == MemberBuckets(c, seen, miss)
      spoken == {b.rk : b \in members} \union CollectionCover(c, miss)
  IN  members \union {b \in rule : c.members = <<>> \/ b.rk \notin spoken}

\* The reads of a pool whose failure the code takes for an empty answer.
Misses(c) ==
  [scope : IF c.sections = {} THEN BOOLEAN ELSE {FALSE},
   block : SUBSET (c.blocklist \intersect DOMAIN Collections),
   member : SUBSET {m.at : m \in MemberDescs(c)},
   cover : SUBSET CollectionMembers(c)]

NoMiss == [scope |-> FALSE, block |-> {}, member |-> {}, cover |-> {}]

\* A library is finite.
ASSUME PoolAssumption ==
  \A c \in Configs, seen \in Histories :
    \A miss \in Misses(c) : IsFiniteSet(ChannelBuckets(c, seen, miss))

RotationLength(c) ==
  IF c.length < 1 THEN DefaultLength ELSE IF c.length > MaxLength THEN MaxLength ELSE c.length

----------------------------------------------------------------------------
\* weight.ts, weightedInterleave

Buckets == DOMAIN order
Live == {b \in Buckets : cursor[b] < Len(order[b].items)}
WeightOf(b) == order[b].weight

\* f[1] + ... + f[n], in the loop's own order.
SumTo(f, n) ==
  LET upTo[i \in 0..n] == IF i = 0 THEN 0 ELSE upTo[i - 1] + f[i]
  IN  upTo[n]

TotalOf(S) == SumTo([b \in Buckets |-> IF b \in S THEN WeightOf(b) ELSE 0], Len(order))

Credited == [b \in Buckets |-> IF b \in Live THEN credit[b] + WeightOf(b) ELSE credit[b]]

Best_Last == CHOOSE b \in Live :  \* Mutant: ties go to the later bucket
  \A o \in Live : Credited[b] > Credited[o] \/ (Credited[b] = Credited[o] /\ b >= o)

Best_Greedy == CHOOSE b \in Live :  \* Mutant: weight before credit
  \A o \in Live : WeightOf(b) > WeightOf(o) \/ (WeightOf(b) = WeightOf(o) /\ b <= o)

\* The highest credit; ties keep the earlier bucket.
Best == CHOOSE b \in Live :
  \A o \in Live : Credited[b] > Credited[o] \/ (Credited[b] = Credited[o] /\ b <= o)

----------------------------------------------------------------------------
Init ==
  /\ cfg \in Configs /\ watched \in Histories
  /\ stage = "build" /\ missed = NoMiss
  /\ order = <<>> /\ credit = <<>> /\ cursor = <<>> /\ out = <<>>

\* buildRotation as far as the shuffle, which may return any order; any of the
\* reads that may fail fail on the way.
Build ==
  /\ stage = "build" /\ stage' = "deal"
  /\ missed' \in Misses(cfg)
  /\ order' \in SetToSeqs(ChannelBuckets(cfg, watched, missed'))
  /\ credit' = [b \in DOMAIN order' |-> 0]
  /\ cursor' = [b \in DOMAIN order' |-> 0]
  /\ UNCHANGED <<cfg, watched, out>>

Deal ==
  /\ stage = "deal" /\ Len(out) < RotationLength(cfg) /\ Live # {}
  /\ credit' = [Credited EXCEPT ![Best] = @ - TotalOf(Live)]
  /\ cursor' = [cursor EXCEPT ![Best] = @ + 1]
  /\ out' = Append(out, [bucket |-> Best, key |-> order[Best].items[cursor[Best] + 1]])
  /\ UNCHANGED <<cfg, watched, stage, missed, order>>

Deliver ==
  /\ stage = "deal" /\ (Len(out) >= RotationLength(cfg) \/ Live = {})
  /\ stage' = "done"
  /\ UNCHANGED <<cfg, watched, missed, order, credit, cursor, out>>

Next == Build \/ Deal \/ Deliver

Spec == Init /\ [][Next]_vars

----------------------------------------------------------------------------
TypeOK ==
  /\ cfg \in Configs /\ watched \in Histories
  /\ stage \in {"build", "deal", "done"} /\ missed \in Misses(cfg)
  /\ \A b \in Buckets : order[b].weight \in 1..MaxWeight
  /\ DOMAIN credit = Buckets /\ DOMAIN cursor = Buckets
  /\ \A b \in Buckets : credit[b] \in Int /\ cursor[b] \in 0..Len(order[b].items)
  /\ \A i \in DOMAIN out : out[i].bucket \in Buckets

Dealt(b, n) == Cardinality({j \in 1..n : out[j].bucket = b})

\* At every slot up to the i-th every bucket still had something to give.
NoneDryBefore(i) ==
  \A k \in 1..i : \A b \in Buckets : Dealt(b, k - 1) < Len(order[b].items)

\* weight.ts: a weight is slots per round, "spread through the night rather than
\* three in a row".  As long as no bucket has run dry, no bucket is ever a whole
\* slot ahead of its share, at any length of the lineup, and when a round ends
\* each has had exactly its weight of it.
FairShares ==
  NoneDryBefore(Len(out)) =>
    \A b \in Buckets :
      LET total == TotalOf(Buckets)
          ahead == cursor[b] * total - Len(out) * WeightOf(b)
      IN  ahead < total /\ (Len(out) % total = 0 => ahead = 0)

\* weight.ts: "With every weight 1 this is EXACTLY the plain round-robin it
\* replaces", which holds until a bucket has run dry.
InTurn ==
  (\A b \in Buckets : WeightOf(b) = 1) =>
    \A i \in DOMAIN out : NoneDryBefore(i) => out[i].bucket = ((i - 1) % Len(order)) + 1

\* What the members of the channel speak for: themselves, and the children of
\* a collection found in a library the channel names.
Spoken ==
  LET of == {cfg.members[i].of : i \in DOMAIN cfg.members}
  IN  of \union UNION {ToSet(Collections[n].children) :
                        n \in {o \in of \intersect DOMAIN Collections :
                                 Collections[o].section \in cfg.sections}}

\* The children of a collection that was read as a member, and could not be
\* read again for the cover.
Uncovered(c, miss) ==
  UNION {ToSet(ChildrenIn(c, c.members[i].of)) :
           i \in {i \in miss.cover : ~c.split /\ <<i, 0>> \notin miss.member}}

\* rotation.ts: "Deduped by ratingKey (members win) so a member that also matches
\* the rule isn't queued twice", and a collection covers its children.  The code
\* keeps it but for a film, whose section is one bucket with the key of no member,
\* and for the shows of a collection whose second read failed.  Two members may
\* share a title, a collection and a show of it: the owner's choice.
OncePerLineup ==
  \A i, j \in DOMAIN out :
    (i # j /\ out[i].key = out[j].key) =>
      /\ out[i].bucket # out[j].bucket
      /\ \/ out[i].key \in Spoken \ Shows
         \/ \E t \in Uncovered(cfg, missed) \intersect Shows : out[i].key \in LeafKeys(t)
         \/ order[out[i].bucket].at # ByRule /\ order[out[j].bucket].at # ByRule

\* The keys the rule promises, said of one key at a time.
Promised(c, t, k) ==
  LET floored == {e \in ToSet(Leaves[t]) : AtOrAfterStart(e, c.starts[t])}
      finished == \A e \in floored : e.key \in watched
  IN  \E e \in floored : e.key = k /\ (k \notin watched \/ (finished /\ RestartsFor(c, t)))

\* A delivered lineup that stopped short of its length holds every leaf the rule
\* promises of every show no member speaks for, and an unwatched one is never
\* given up for a watched one of the same show.  The libraries of a channel that
\* names none must have been read; other reads that failed take nothing from it.
RuleDelivers ==
  LET c == ScopedCfg(cfg, NoMiss)
      titles == {t \in Shows : \E s \in c.sections :
                   Sections[s].type = "show" /\ t \in ToSet(Sections[s].rows)}
      free == {t \in titles : t \in c.allowed /\ t \notin ExpandedBlocklist(c, NoMiss) \union Spoken}
      dealt == {out[i].key : i \in DOMAIN out}
  IN  (stage = "done" /\ Len(out) < RotationLength(cfg) /\ ~missed.scope) =>
        \A t \in free : \A e \in ToSet(Leaves[t]) : (e.key \in dealt) <=> Promised(c, t, e.key)
=============================================================================
