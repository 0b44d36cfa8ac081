----------------------------- MODULE SerialWork -----------------------------
(***************************************************************************)
(* What the slot work coordinator promises, whatever its queues look like: *)
(* a work item waits in one lane, is worked on in that lane only, and ends *)
(* once and for all; a lane works on one batch at a time, and the items of *)
(* a batch start together and leave together, each one done or waiting     *)
(* again.                                                                  *)
(***************************************************************************)
CONSTANTS Lanes, Works, NoLane

VARIABLES
    stage,  \* stage[w]: "none", "waiting", "working" or "done"
    lane    \* lane[w]: the lane w was submitted to

vars == <<stage, lane>>

On(l, st) == {w \in Works : lane[w] = l /\ stage[w] = st}

Init ==
    /\ stage = [w \in Works |-> "none"]
    /\ lane = [w \in Works |-> NoLane]

\* New items wait in lane l; waiting ones of that lane may turn out to be done.
Refresh(l, new, done) ==
    /\ \A w \in new : stage[w] = "none"
    /\ done \subseteq On(l, "waiting")
    /\ stage' = [w \in Works |-> IF w \in new THEN "waiting"
                                 ELSE IF w \in done THEN "done" ELSE stage[w]]
    /\ lane' = [w \in Works |-> IF w \in new THEN l ELSE lane[w]]

\* An idle lane starts a batch.
Take(l, batch) ==
    /\ batch # {}
    /\ batch \subseteq On(l, "waiting")
    /\ On(l, "working") = {}
    /\ stage' = [w \in Works |-> IF w \in batch THEN "working" ELSE stage[w]]
    /\ UNCHANGED lane

\* The lanes in freed let go of their batches; the items in done end.
Release(freed, done) ==
    LET leaving == UNION {On(l, "working") : l \in freed}
    IN  /\ \A w \in done : stage[w] = "waiting" \/ w \in leaving
        /\ stage' = [w \in Works |-> IF w \in done THEN "done"
                                     ELSE IF w \in leaving THEN "waiting"
                                     ELSE stage[w]]
        /\ UNCHANGED lane

Next ==
    \/ \E l \in Lanes, new, done \in SUBSET Works : Refresh(l, new, done)
    \/ \E l \in Lanes, batch \in SUBSET Works : Take(l, batch)
    \/ \E freed \in SUBSET Lanes, done \in SUBSET Works : Release(freed, done)

Spec == Init /\ [][Next]_vars
=============================================================================
