------------------------------ MODULE MCWatcher ------------------------------
(* Two lineups.  In both a file is windowed twice and another one carries a  *)
(* resume marker; in the longer one the windowed file carries one too.  Plex *)
(* plays them as they are or without an item.                                *)
EXTENDS Watcher

\* A clip that stops at 2, a part from 1 to 2, the same file again from 1 on,
\* and a show that was left at 2.
LongLineup == <<"clip", "part", "part", "show">>
LongLength == [f \in {"clip", "part", "show", Extra} |-> 3]
LongMarker == [f \in {"clip", "part", "show", Extra} |-> IF f = Extra THEN 0 ELSE 2]
LongStart == <<0, 1, 1, 0>>
LongEnd == <<2, 2, 0, 0>>
LongPlayQueues == {<<1, 2, 3, 4>>, <<1, 3, 4>>, <<2, 1, 3, 4>>}

\* A clip up to 1, the show, and the clip again from 1 on.
ShortLineup == <<"clip", "show", "clip">>
ShortLength == [f \in {"clip", "show", Extra} |-> IF f = Extra THEN 1 ELSE 2]
ShortMarker == [f \in {"clip", "show", Extra} |-> 1]
ShortStart == <<0, 0, 1>>
ShortEnd == <<1, 0, 0>>
ShortPlayQueues == {<<1, 2, 3>>}
=============================================================================
