------------------------------ MODULE MCRounds ------------------------------
(***************************************************************************)
(* Rounds on a queue of one film and one show whose second episode may     *)
(* come late.                                                              *)
(***************************************************************************)
EXTENDS Rounds

MCSegment == <<"s1", "s2">>
MCMaxLeaves == [film |-> 1, show |-> 2]

\* A new queue; and one whose show was marked a tick ago, in its second year.
MCBeginnings ==
  {[file |-> <<[Line("show") EXCEPT !.placement = "priority"], Line("film")>>,
    present |-> [film |-> 1, show |-> 1], watched |-> {}, season |-> "unadopted"],
   [file |-> <<[Line("show") EXCEPT !.done = TRUE, !.age = 1], Line("film")>>,
    present |-> [film |-> 1, show |-> 1], watched |-> {<<"show", 1>>}, season |-> "settled"]}
=============================================================================
