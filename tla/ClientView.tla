----------------------------- MODULE ClientView -----------------------------
(***************************************************************************)
(* The status the API holds for one batch, whatever the workers, the queue *)
(* and the caches behind it do.  It is what GET /batches and               *)
(* GET /batches/{id} answer, and what review, apply and download are       *)
(* checked against.  The status route and the event stream are no part of  *)
(* it: they answer with the state of the task first, and Celery forgets    *)
(* that state after an hour.                                               *)
(*                                                                         *)
(* While the batch is unknown or in flight, the next status may be any.  A *)
(* batch held in review stays there until an apply is requested.  A final  *)
(* status is kept.  The batch may disappear at any time, and an archive    *)
(* leaves only while the API holds the batch as done.                      *)
(***************************************************************************)

VARIABLES
    held,       \* the status of the batch in the memory of the API
    exported    \* whether an archive of it was ever handed out

vars == <<held, exported>>

InFlight == {"none", "pending", "scanning", "applying"}
Final    == {"done", "done_with_errors", "error"}
Held     == InFlight \union Final \union {"review"}

TypeOK == held \in Held /\ exported \in BOOLEAN

Init == held = "none" /\ exported = FALSE

Follow       == held \in InFlight /\ held' \in Held /\ UNCHANGED exported
RequestApply == held = "review" /\ held' = "applying" /\ UNCHANGED exported
Disappear    == held' = "none" /\ UNCHANGED exported
Export       == held \in InFlight \union {"done"} /\ held' = "done" /\ exported' = TRUE

Next == Follow \/ RequestApply \/ Disappear \/ Export

Spec == Init /\ [][Next]_vars
=============================================================================
