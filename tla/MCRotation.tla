----------------------------- MODULE MCRotation -----------------------------
(***************************************************************************)
(* Rotation on a library of three shows, two films, a collection of shows  *)
(* and one of films.                                                       *)
(***************************************************************************)
EXTENDS Rotation

MCSections == [tv |-> [type |-> "show", rows |-> <<"a", "b", "c">>],
               movies |-> [type |-> "movie", rows |-> <<"f", "g">>],
               music |-> [type |-> "artist", rows |-> <<>>]]

Ep(key, season, episode, aired) ==
  [key |-> key, season |-> season, episode |-> episode, aired |-> aired, real |-> TRUE]

\* The first show has a special aired between its first two episodes.
MCLeaves ==
  [a |-> <<Ep("a0", 0, 1, 2), Ep("a1", 1, 1, 1), Ep("a2", 1, 2, 3), Ep("a3", 2, 1, 4)>>,
   b |-> <<Ep("b1", 1, 1, 1), Ep("b2", 1, 2, 2), [Ep("b3", 1, 3, 3) EXCEPT !.real = FALSE]>>,
   c |-> <<Ep("c1", 1, 1, 1), Ep("c2", 1, 2, 2)>>]

MCCollections == [saga |-> [section |-> "tv", children |-> <<"b", "a">>],
                  reel |-> [section |-> "movies", children |-> <<"g">>]]

Member(of, weight) == [of |-> of, weight |-> weight]

Rated == DOMAIN MCLeaves \union DOMAIN MCSections
One == [t \in Rated |-> 1]
Plain == [sections |-> {"tv"}, allowed |-> {"a", "b", "c", "f", "g"}, blocklist |-> {},
          starts |-> [t \in DOMAIN MCLeaves |-> NoFloor], weights |-> One,
          own |-> [t \in Rated |-> "follow"], restart |-> FALSE,
          members |-> <<>>, split |-> FALSE, skipped |-> {}, specials |-> {}, length |-> 0]

\* The rule on its own: libraries, blocks, floors, weights and restarts.
RuleConfigs ==
  {[Plain EXCEPT !.sections = s, !.blocklist = b, !.restart = r, !.length = n] :
      s \in {{}, {"tv"}, {"tv", "movies"}}, b \in {{}, {"c"}, {"saga"}},
      r \in BOOLEAN, n \in {0, 3}}
  \union
  {[Plain EXCEPT !.weights = [One EXCEPT !.a = w, !.b = v], !.own = [@ EXCEPT !.a = o],
                 !.restart = r, !.starts = [@ EXCEPT !.a = f]] :
      w \in {0, 2, 9}, v \in 1..2, o \in {"follow", "restart", "drop"}, r \in BOOLEAN,
      f \in {NoFloor, [season |-> 1, episode |-> 2]}}

\* Members on top of it, whole or split.
MemberConfigs ==
  {[Plain EXCEPT !.sections = s, !.members = m, !.split = p, !.skipped = k, !.specials = {"a0"},
                 !.allowed = @ \ x, !.length = 12] :
      s \in {{}, {"tv", "movies"}}, p \in BOOLEAN, k \in {{}, {"a"}, {"a1"}}, x \in {{}, {"b"}},
      m \in {<<Member("saga", 2)>>, <<Member("a", 1), Member("f", 1)>>,
             <<Member("saga", 1), Member("a", 1)>>, <<Member("reel", 3)>>}}

MCConfigs == RuleConfigs \union MemberConfigs
MCHistories == {{}, {"a1", "b1", "b2", "b3"}, {"a0", "a1", "a2", "a3", "c1", "f"}, {"f", "g"}}
=============================================================================
