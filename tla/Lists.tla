------------------------------- MODULE Lists -------------------------------
(***************************************************************************)
(* What the engine does with its arrays.  SelectSeq takes an operator,     *)
(* which the provers cannot unfold; Only takes a set.                      *)
(***************************************************************************)
EXTENDS Integers, Sequences, FiniteSets, SequencesExt

\* The elements of s that are in S, in their order.
Only(s, S) ==
  LET upTo[i \in 0..Len(s)] ==
        IF i = 0 THEN <<>>
        ELSE IF s[i] \in S THEN Append(upTo[i - 1], s[i]) ELSE upTo[i - 1]
  IN  upTo[Len(s)]

Without(s, S) == Only(s, ToSet(s) \ S)

\* Every order a shuffle may put s in.
Shuffles(s) ==
  {[i \in DOMAIN s |-> s[p[i]]] : p \in {q \in [DOMAIN s -> DOMAIN s] : IsInjective(q)}}

KeysOf(s) == [i \in DOMAIN s |-> s[i].key]
=============================================================================
