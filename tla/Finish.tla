------------------------------- MODULE Finish -------------------------------
(***************************************************************************)
(* server/src/finished.ts, watchPlaybackEnd: the listener on the           *)
(* now-playing topic that tells an item that ended from one that is still  *)
(* on, and writes the outcome into the queue's own ledger.  It runs beside *)
(* the watcher, whose boundary ledger it claims from.  Every entry of the  *)
(* lineup is one of a queue that keeps its own history.  Adopted plays,    *)
(* the announcement and the provider's reconciliation are left out.        *)
(***************************************************************************)
EXTENDS Watcher

VARIABLES
  heard,   \* sittingId: the sitting of the last event
  wasOn,   \* the file on the screen then
  ledger,  \* queueEntryHistory: what it says of each entry
  finals   \* entries whose finalizeQueueProgress is booked

finish == <<heard, wasOn, ledger, finals>>

FinishInit ==
  /\ Init
  /\ heard = 0 /\ wasOn = ""
  /\ ledger = [i \in Places |-> "none"]
  /\ finals = {}

NowOn == IF player.at = 0 THEN "" ELSE Playing

\* const ended = wasOn && wasOn !== nowRk, and what String(ended) makes of it.
Ended(was) == was # "" /\ was # NowOn
Key(ended) == IF ended THEN "true" ELSE "false"

Entries(f) == {i \in Places : Lineup[i] = f}

\* The live position goes to the only entry with this file, unless the lineup
\* windows it.
Saved ==
  [i \in Places |->
     IF stage = "live" /\ Entries(NowOn) = {i} /\ ~IsWindowed(NowOn) /\ player.pos > 0
       THEN "position" ELSE ledger[i]]

\* takeBoundary: claimed once.
Claimed(key) == IF key \in DOMAIN boundaries THEN {boundaries[key]} ELSE {}

\* The entry that ended, when no boundary names it: the only one with the file.
Queued(key) == IF Cardinality(Entries(key)) = 1 THEN Entries(key) ELSE {}

\* An event while nothing is being prepared.
NowPlaying ==
  LET was == IF heard = sitting THEN wasOn ELSE ""
      key == Key(Ended(was))
      attributes == Ended(was) /\ stage = "live"
      claimed == IF attributes THEN Claimed(key) ELSE {}
  IN  /\ stage \in {"idle", "live"}
      /\ heard' = sitting /\ wasOn' = NowOn
      /\ ledger' = [i \in Places |-> IF i \in claimed THEN "completed" ELSE Saved[i]]
      /\ finals' = IF attributes /\ claimed = {} THEN finals \union Queued(key) ELSE finals
      /\ boundaries' = IF attributes
                         THEN [f \in DOMAIN boundaries \ {key} |-> boundaries[f]]
                         ELSE boundaries
      /\ UNCHANGED <<session, player, watch, markers, seen, rows, reads, sought>>

\* finalizeQueueProgress: Plex says whether the item was watched.
Finalize(i) ==
  /\ i \in finals
  /\ \E verdict \in {"completed", "position"} : ledger' = [ledger EXCEPT ![i] = verdict]
  /\ finals' = finals \ {i}
  /\ UNCHANGED <<vars, heard, wasOn>>

FinishNext ==
  \/ Next /\ UNCHANGED finish
  \/ NowPlaying
  \/ \E i \in Places : Finalize(i)

FinishSpec == FinishInit /\ [][FinishNext]_<<vars, finish>>

----------------------------------------------------------------------------
\* "the entry's own ledger records the item COMPLETED" (finished.ts): the event
\* that shows an item the watcher stopped at its end mark gone completes the
\* entry the boundary names.
SectionCompletes ==
  [][(heard = sitting /\ stage = "live" /\ Ended(wasOn) /\ wasOn' # wasOn
        /\ wasOn \in DOMAIN boundaries)
       => ledger'[boundaries[wasOn]] = "completed"]_<<vars, finish>>
=============================================================================
