------------------------------ MODULE TeamRun ------------------------------
(***************************************************************************)
(* The team run record (fool-team/src/team_run/manager.rs): at most one    *)
(* run at a time groups the work of a team for the user.  It is opened by  *)
(* an enqueue, follows the work summaries the coordinator publishes, and   *)
(* may be cancelled.  Each operator is the record after one method, which  *)
(* holds the manager's mutex throughout.                                   *)
(*                                                                         *)
(* Left out: timestamps, the target slot and role, and the payload of the  *)
(* events.                                                                 *)
(***************************************************************************)
CONSTANTS RunIds, NoRunId

Statuses == {"accepted", "running", "cancelling", "completed", "cancelled", "failed"}
ActiveStatuses == {"accepted", "running", "cancelling"}

\* intervention: has_user_intervention; announced: accepted_emitted.
RunRecord == [id: RunIds \cup {NoRunId}, status: Statuses,
              byUser: BOOLEAN, intervention: BOOLEAN, announced: BOOLEAN]

\* The manager's None.
NoRecord == [id |-> NoRunId, status |-> "completed", byUser |-> FALSE,
             intervention |-> FALSE, announced |-> FALSE]

IsActive(run) == run.id # NoRunId /\ run.status \in ActiveStatuses

\* current_active_run_id
ActiveRunId(run) == IF IsActive(run) THEN run.id ELSE NoRunId

\* A record for the fresh id r.
Opened(r, byUser) == [id |-> r, status |-> "accepted", byUser |-> byUser,
                      intervention |-> FALSE, announced |-> FALSE]

\* bind_user_enqueue
BindUser(run, r) ==
    IF IsActive(run) THEN [run EXCEPT !.intervention = TRUE] ELSE Opened(r, TRUE)

\* bind_system_enqueue
BindSystem(run, r) == IF IsActive(run) THEN run ELSE Opened(r, FALSE)

\* apply_work_summary: the summary of another run is ignored; the status of a
\* run that has ended is overwritten like any other.
StatusCancelledWhenDone(status, summary) ==      \* mutant
    IF summary.failed THEN "failed"
    ELSE IF ~summary.work THEN "cancelled"
    ELSE IF summary.running THEN "running"
    ELSE status

StatusAfter(status, summary) ==
    IF summary.failed THEN "failed"
    ELSE IF ~summary.work THEN (IF status = "cancelling" THEN "cancelled" ELSE "completed")
    ELSE IF summary.running THEN "running"
    ELSE status

ApplySummary(run, summary) ==
    IF run.id # summary.run THEN run
    ELSE [run EXCEPT !.status = StatusAfter(@, summary), !.announced = TRUE]

\* begin_cancel, when the run is the current one and active.
BeginCancel(run) == [run EXCEPT !.status = "cancelling"]

\* abort_binding
AbortBinding(run, r) == IF run.id = r THEN NoRecord ELSE run
=============================================================================
