------------------------------ MODULE MCFinish ------------------------------
(* A clip that stops at 1 of 2, and a show after it.                        *)
EXTENDS Finish

MCLineup == <<"clip", "show">>
MCLength == [f \in {"clip", "show", Extra} |-> 2]
MCMarker == [f \in {"clip", "show", Extra} |-> 0]
MCStart == <<0, 0>>
MCEnd == <<1, 0>>
MCPlayQueues == {<<1, 2>>}
=============================================================================
