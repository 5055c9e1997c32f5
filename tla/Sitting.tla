------------------------------ MODULE Sitting ------------------------------
(***************************************************************************)
(* What session.ts promises the rest of the server about sittings: there   *)
(* is one newest start, only the newest start can put a lineup in place,   *)
(* and it settles exactly once.  A start that was replaced has no say any  *)
(* more.  Session.tla implements this specification.                       *)
(***************************************************************************)
EXTENDS Naturals

VARIABLES
  current,   \* number of the newest start, 0 before the first one
  status,    \* what that start has come to
  loaded     \* the start whose lineup is in place while status is "playing"

vars == <<current, status, loaded>>

Init == current = 0 /\ status = "idle" /\ loaded = 0

\* A newer start always wins, whatever the older one was doing.
Begin ==
  /\ current' = current + 1
  /\ status' = "preparing"
  /\ loaded' = 0

\* The newest start reached the player: its own lineup is the session.
Succeed ==
  /\ status = "preparing"
  /\ status' = "playing"
  /\ loaded' = current
  /\ UNCHANGED current

\* The newest start came to nothing: the session is empty.
GiveUp ==
  /\ status = "preparing"
  /\ status' = "idle"
  /\ UNCHANGED <<current, loaded>>

Next == Begin \/ Succeed \/ GiveUp

Spec == Init /\ [][Next]_vars
=============================================================================
