---------------------------- MODULE MCDetection ----------------------------
(***************************************************************************)
(* Detection for TLC, with the choice between findings that overlap.  It   *)
(* depends on the findings alone, and so it is taken beside the first      *)
(* state only.  Cache and dictionaries share no state: a run has either    *)
(* the refreshes of the cache beside one scan, or the reloads of the       *)
(* dictionaries beside all the scans.                                      *)
(***************************************************************************)
EXTENDS Detection, Overlaps

CONSTANT Alone   \* the scan that runs beside the refreshes

VARIABLE reloads \* whether the run has the reloads

MCInit == Init /\ OverlapsInit /\ reloads \in BOOLEAN /\ (lists[0].failed = 0 \/ reloads)

MCNext ==
    \/ /\ found = {} /\ Next /\ UNCHANGED chunk
       /\ IF reloads THEN /\ directory' = directory /\ at'["loop"] # "client"
                          /\ at'["route"] \notin {"check", "client"}
          ELSE /\ terms' = terms
               /\ \A t \in Scans \ {Alone} : scan'[t] = scan[t]
    \/ Init /\ ~reloads /\ lists[0].failed = 0 /\ OverlapsNext /\ UNCHANGED vars

MCSpec == MCInit /\ [][MCNext /\ UNCHANGED reloads]_<<vars, chunk, reloads>> /\ Fairness

=============================================================================
