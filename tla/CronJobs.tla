------------------------------ MODULE CronJobs ------------------------------
(***************************************************************************)
(* One scheduled job of fool-cron: the timer the scheduler keeps for it    *)
(* (scheduler.rs), the ticks that claim and execute its occurrences        *)
(* (service.rs, executor.rs), the rows of cron_jobs and cron_job_runs      *)
(* (sqlite_cron.rs), the calls that touch the same job while a tick is on  *)
(* its way, and a crash of the backend.                                    *)
(*                                                                         *)
(* Occurrences are numbered by the times of the schedule, and clock is the *)
(* number of the last one whose time has passed.  Leases are not measured: *)
(* a lease is live until it expires, which it may do whenever nobody renews *)
(* it.  Every await is a point where the threads interleave, and so is the *)
(* gap between the two halves of a rescheduling, which aborts the old      *)
(* timer and then inserts the new one.                                     *)
(***************************************************************************)
EXTENDS Naturals, FiniteSets

CONSTANTS
    MaxOccurrence,  \* bound: the occurrences whose time comes
    Ticks,          \* bound: the ticks under way at a time
    MaxRetries,     \* max_retries of the job
    JobKinds,       \* the kinds of schedule the job may have
    Settings,       \* the settings a job may have, sets of "queue" (queue_enabled) and
                    \* "shared" (executes in an existing conversation, not in new ones)
    Events,         \* the calls and crashes that happen, a subset of AllEvents
    MaxEvents,      \* bound: how many of them happen
    Requests,       \* what update_job is asked to change, a subset of AllRequests
    Faults          \* which faults happen, a subset of AllFaults

Edit == "edit"      \* the thread of update_job
Remove == "remove"  \* the thread of remove_job
RunNow == "now"     \* the thread of run_now
Power == "power"    \* the thread of init and of handle_system_resume

Callers == {Edit, Remove, RunNow, Power}
Kinds == {"at", "every", "cron"}
AllEvents == {"edit", "remove", "now", "resume", "crash"}
AllRequests == {"name", "schedule", "enable", "disable"}
AllFaults == {"suspend",   \* the machine sleeps, or the heartbeats fail: a lease ends under its holder
              "busy",      \* the user has a turn in the conversation
              "fail",      \* preparing or executing fails
              "database"}  \* a call of the database fails, or what it returns is of no use

ASSUME CronAssumption ==
    /\ MaxOccurrence \in Nat \ {0}
    /\ MaxRetries \in Nat
    /\ MaxEvents \in Nat
    /\ Ticks \cap Callers = {}
    /\ JobKinds \subseteq Kinds
    /\ Settings \subseteq SUBSET {"queue", "shared"}
    /\ Events \subseteq AllEvents
    /\ Requests \subseteq AllRequests
    /\ Faults \subseteq AllFaults

VARIABLES
    clock,      \* the last occurrence whose time has passed
    row,        \* the row of cron_jobs
    runs,       \* runs[o]: the row of cron_job_runs for occurrence o
    timer,      \* the timer in the scheduler's map of handles
    orphans,    \* timers that run although the map no longer holds them
    thread,     \* thread[t]: where thread t is, with the values it carries
    instance,   \* the process: 1 and then one more after every crash
    events,     \* how many calls and crashes have happened
    ran,        \* history, ran[o]: turns started for o (see Finish and Crash)
    missed,     \* history: occurrences the user was told were missed
    abandoned,  \* history: an unfinished run was left by its tick: the process died, or
                \* the result could not be written
    dropped     \* history: a thread has left the job to nobody (see Drop), and since then
                \* none has armed a timer, nor has the process been started again

vars == <<clock, row, runs, timer, orphans, thread, instance, events, ran, missed, abandoned,
          dropped>>

\* Most steps leave the history of failures alone.
failures == <<abandoned, dropped>>

Occurrences == 1..MaxOccurrence
Threads == Ticks \cup Callers

NoTimer == [kind |-> "none", occ |-> 0]
NoRun == [status |-> "none", owner |-> 0, live |-> FALSE]

-----------------------------------------------------------------------------
(* Operators on the rows and the timer.                                    *)

\* Runs that get_recoverable_run may return; which of several has the lowest
\* lease is left open.
Recoverable == {o \in Occurrences : runs[o].status \in {"running", "retrying"}}

\* The timer schedule_job arms for a job: none when it is disabled or when it
\* has no next run.
JobTimer(job) ==
    IF job.enabled /\ job.next # 0
      THEN [kind |-> job.kind, occ |-> job.next]
      ELSE NoTimer

RetryTimer(o) == [kind |-> "retry", occ |-> o]

\* What is left of a timer after its callback: the loops of every and cron
\* jobs go on, the former occurrence by occurrence.
AfterFiring(tm) ==
    CASE tm.kind = "every" -> [tm EXCEPT !.occ = @ + 1]
      [] tm.kind = "cron"  -> [tm EXCEPT !.occ = clock + 1]
      [] OTHER             -> NoTimer

\* delay_until: the sleep of a timer has ended.  A retry timer sleeps until a
\* lease ends, a time this module does not measure.
Due(tm) == tm # NoTimer /\ (tm.kind = "retry" \/ tm.occ <= clock)

NextRun(job) == IF job.kind = "at" THEN job.at ELSE clock + 1

\* Mutant: the occurrence after the executed one is passed over.
AdvancedTwice(job) ==
    IF job.kind = "at" THEN [job EXCEPT !.enabled = FALSE, !.next = 0]
                       ELSE [job EXCEPT !.next = clock + 2]

\* The two transitions of a job that was missed or executed: an at job is
\* disabled, another one waits for the next time of its schedule.
Advanced(job) ==
    IF job.kind = "at" THEN [job EXCEPT !.enabled = FALSE, !.next = 0]
                       ELSE [job EXCEPT !.next = clock + 1]

-----------------------------------------------------------------------------
(* Threads.                                                                *)

NoJob == [exists |-> FALSE, enabled |-> FALSE, kind |-> "at", at |-> 0,
          next |-> 0, retries |-> 0, queue |-> FALSE, shared |-> FALSE]

Idle == [pc |-> "idle", occ |-> 0, job |-> NoJob, result |-> "none",
         arm |-> NoTimer]

At(t, pc) == thread[t].pc = pc
Become(t, state) == thread' = [thread EXCEPT ![t] = state]
Goto(t, pc) == Become(t, [thread[t] EXCEPT !.pc = pc])
GotoWith(t, pc, result) == Become(t, [thread[t] EXCEPT !.pc = pc, !.result = result])

\* schedule_job or schedule_retry of thread t, as far as cancel_job: the insert
\* is a step of its own.
Schedule(t, new) ==
    /\ timer' = NoTimer
    /\ IF new = NoTimer
         THEN Become(t, Idle)
         ELSE Become(t, [thread[t] EXCEPT !.pc = "arm", !.arm = new])

DatabaseFails == "database" \in Faults

\* Thread t returns, or cancels the timer, when no other one answers for the timer of
\* the job: for the database has failed, or for its copy of the row is out of date.
Drop(t) == Become(t, Idle) /\ dropped' = TRUE

\* The second half: the handle it replaces is dropped, which detaches that
\* timer and does not abort it.
Arm(t) ==
    /\ At(t, "arm")
    /\ timer' = thread[t].arm
    /\ orphans' = IF timer = NoTimer THEN orphans ELSE orphans \cup {timer}
    /\ Become(t, IF thread[t].result = "retry"
                   THEN [thread[t] EXCEPT !.pc = "count", !.arm = NoTimer]
                   ELSE Idle)
    /\ dropped' = FALSE
    /\ UNCHANGED <<clock, row, runs, instance, events, ran, missed, abandoned>>

Executing == {t \in Threads : thread[t].pc = "run"}

\* A conversation of the job may have an active turn: one of the job's own, or
\* one of the user's.  A job with new conversations never finds its own busy.
SomeTurn == Executing # {} \/ "busy" \in Faults
NotBusy(job) == job.shared => Executing = {}

HandleBusy(job) == IF job.queue \/ job.retries >= MaxRetries THEN "skipped" ELSE "retry"

-----------------------------------------------------------------------------
(* The tick of one occurrence.                                             *)

\* A timer's callback spawns a tick.  Ticks are alike, so it is the first of
\* those that are not in use.
Fire(t) ==
    /\ thread[t] = Idle
    /\ t = CHOOSE u \in Ticks : thread[u] = Idle
    /\ \/ /\ Due(timer)
          /\ Become(t, [Idle EXCEPT !.pc = "load", !.occ = timer.occ])
          /\ timer' = AfterFiring(timer)
          /\ UNCHANGED orphans
       \/ \E tm \in orphans :
             /\ Due(tm)
             /\ Become(t, [Idle EXCEPT !.pc = "load", !.occ = tm.occ])
             /\ orphans' = (orphans \ {tm}) \cup ({AfterFiring(tm)} \ {NoTimer})
             /\ UNCHANGED timer
    /\ UNCHANGED <<clock, row, runs, instance, events, ran, missed, failures>>

\* tick: the job is loaded, parsed and its agent resolved; without a job the timer
\* is cancelled.
Load(t) ==
    /\ At(t, "load")
    /\ \/ /\ ~row.exists
          /\ timer' = NoTimer
          /\ Become(t, Idle)
          /\ UNCHANGED dropped
       \/ /\ row.exists
          /\ IF row.enabled
               THEN Become(t, [thread[t] EXCEPT !.pc = "claim", !.job = row])
               ELSE Become(t, Idle)
          /\ UNCHANGED <<timer, dropped>>
       \/ DatabaseFails /\ Drop(t) /\ UNCHANGED timer
    /\ UNCHANGED <<clock, row, runs, orphans, instance, events, ran, missed, abandoned>>

\* Mutant: a run may be taken over before its lease has expired.
TakeableEarly(run) == run.status \in {"running", "retrying"}

\* Mutant: a deferred run cannot be taken up again.
TakeableRunning(run) == run.status = "running" /\ ~run.live

\* A run claim_run may take over: unfinished, and its lease has expired.
Takeable(run) == run.status \in {"running", "retrying"} /\ ~run.live

\* Mutant: only a deferred run keeps the queue busy, not one that executes.
QueueBusyRetrying(job) ==
    job.queue /\ \E p \in Recoverable : runs[p].status = "retrying" /\ runs[p].live

\* A new occurrence of a queued job is skipped while an earlier one of the job
\* holds a lease.
QueueBusy(job) == job.queue /\ \E p \in Recoverable : runs[p].live

\* claim_run, one transaction.
ClaimRun(t) ==
    LET o == thread[t].occ
        queueBusy == QueueBusy(thread[t].job) IN
    CASE row.exists /\ Takeable(runs[o]) ->
           /\ runs' = [runs EXCEPT ![o] = [status |-> "running", owner |-> instance,
                                           live |-> TRUE]]
           /\ Goto(t, "prepare")
      [] row.exists /\ runs[o].status = "none" /\ queueBusy ->
           /\ runs' = [runs EXCEPT ![o].status = "skipped"]
           /\ GotoWith(t, "count", "skipped")
      [] row.exists /\ runs[o].status = "none" /\ ~queueBusy ->
           /\ runs' = [runs EXCEPT ![o] = [status |-> "running", owner |-> instance,
                                           live |-> TRUE]]
           /\ Goto(t, "prepare")
      [] OTHER ->
           /\ Goto(t, "track")
           /\ UNCHANGED runs

Claim(t) ==
    /\ At(t, "claim")
    /\ \/ ClaimRun(t) /\ UNCHANGED dropped
       \/ DatabaseFails /\ Drop(t) /\ UNCHANGED runs
    /\ UNCHANGED <<clock, row, timer, orphans, instance, events, ran, missed, abandoned>>

\* A duplicate waits for the unfinished run, if one is found.
Track(t) ==
    /\ At(t, "track")
    /\ \/ \E o \in Recoverable : Schedule(t, RetryTimer(o))
       \/ /\ Recoverable = {} \/ DatabaseFails
          /\ Goto(t, "reschedule")
          /\ UNCHANGED timer
    /\ UNCHANGED <<clock, row, runs, orphans, instance, events, ran, missed, failures>>

\* prepare_scheduled: fails, is skipped because the queue of a job with new
\* conversations has an active one, finds the conversation busy, or goes on.
Prepare(t) ==
    LET job == thread[t].job IN
    /\ At(t, "prepare")
    /\ \/ "fail" \in Faults /\ GotoWith(t, "finish", "error")
       \/ job.queue /\ ~job.shared /\ SomeTurn /\ GotoWith(t, "finish", "skipped")
       \/ job.shared /\ SomeTurn /\ GotoWith(t, "finish", HandleBusy(job))
       \/ /\ ~(job.queue /\ ~job.shared /\ Executing # {})
          /\ NotBusy(job)
          /\ Goto(t, "start")
    /\ UNCHANGED <<clock, row, runs, timer, orphans, instance, events, ran, missed, failures>>

\* execute_prepared_scheduled: run_agent_turn claims the conversation's turn,
\* unless it is taken or something before it fails.
Start(t) ==
    LET job == thread[t].job IN
    /\ At(t, "start")
    /\ \/ /\ job.shared /\ SomeTurn
          /\ GotoWith(t, "finish", HandleBusy(job))
          /\ UNCHANGED ran
       \/ /\ NotBusy(job)
          /\ Goto(t, "run")
          /\ ran' = [ran EXCEPT ![thread[t].occ] = @ + 1]
       \/ "fail" \in Faults /\ GotoWith(t, "finish", "error") /\ UNCHANGED ran
    /\ UNCHANGED <<clock, row, runs, timer, orphans, instance, events, missed, failures>>

TurnEnds(t) ==
    /\ t \in Ticks
    /\ At(t, "run")
    /\ \/ GotoWith(t, "finish", "ok")
       \/ "fail" \in Faults /\ GotoWith(t, "finish", "error")
    /\ UNCHANGED <<clock, row, runs, timer, orphans, instance, events, ran, missed, failures>>

\* finish_run and defer_run change the row only while it is running and owned
\* by this process.
OwnsRun(o) == runs[o].status = "running" /\ runs[o].owner = instance

\* handle_execution_result, its first statement: the run ends or is deferred,
\* and a deferred one gets a retry timer.  When the row is not the process's any
\* more, or cannot be written, nothing follows; the turn of a run that is left so is
\* not known any more, so executing its occurrence again is not a repetition.
Finish(t) ==
    LET o == thread[t].occ IN
    /\ At(t, "finish")
    /\ \/ /\ ~OwnsRun(o)
          /\ Become(t, Idle)
          /\ UNCHANGED <<runs, timer, ran, failures>>
       \/ /\ OwnsRun(o)
          /\ thread[t].result = "retry"
          /\ runs' = [runs EXCEPT ![o] = [status |-> "retrying", owner |-> 0, live |-> TRUE]]
          /\ Schedule(t, RetryTimer(o))
          /\ UNCHANGED <<ran, failures>>
       \/ /\ OwnsRun(o)
          /\ thread[t].result # "retry"
          /\ runs' = [runs EXCEPT ![o] = [@ EXCEPT !.status = thread[t].result,
                                                   !.live = FALSE]]
          /\ Goto(t, "count")
          /\ UNCHANGED <<timer, ran, failures>>
       \/ /\ DatabaseFails
          /\ Drop(t)
          /\ abandoned' = (abandoned \/ OwnsRun(o))
          /\ ran' = [ran EXCEPT ![o] = IF OwnsRun(o) THEN 0 ELSE @]
          /\ UNCHANGED <<runs, timer>>
    /\ UNCHANGED <<clock, row, orphans, instance, events, missed>>

\* The status columns: retry_count is the one a later execution reads.
Count(t) ==
    LET retrying == thread[t].result = "retry" IN
    /\ At(t, "count")
    /\ \/ row' = IF row.exists
                   THEN [row EXCEPT !.retries = IF retrying THEN thread[t].job.retries + 1 ELSE 0]
                   ELSE row
       \/ DatabaseFails /\ UNCHANGED row
    /\ IF retrying \/ t = RunNow THEN Become(t, Idle) ELSE Goto(t, "reschedule")
    /\ UNCHANGED <<clock, runs, timer, orphans, instance, events, ran, missed, failures>>

\* reschedule_after_execution, first read: an unfinished run gets the timer.
Reschedule(t) ==
    /\ At(t, "reschedule")
    /\ \/ \E o \in Recoverable : Schedule(t, RetryTimer(o))
       \/ /\ Recoverable = {} \/ DatabaseFails
          /\ Goto(t, "advance")
          /\ UNCHANGED timer
    /\ UNCHANGED <<clock, row, runs, orphans, instance, events, ran, missed, failures>>

\* Then the write, from the copy of the job the tick read before the execution.  It
\* fails without a row, or with the database; only the timer of a missed job that
\* goes on depends on it.
Advance(t) ==
    LET next == Advanced(thread[t].job)
        onward == [thread[t] EXCEPT !.pc = "restart", !.job = next]
        needsWrite == t = Power /\ next.kind # "at" IN
    /\ At(t, "advance")
    /\ \/ /\ row.exists
          /\ row' = IF next.kind = "at" THEN [row EXCEPT !.enabled = FALSE, !.next = 0]
                                        ELSE [row EXCEPT !.next = next.next]
          /\ Become(t, onward)
          /\ UNCHANGED dropped
       \/ /\ ~row.exists \/ DatabaseFails
          /\ UNCHANGED row
          /\ IF needsWrite THEN Drop(t) ELSE Become(t, onward) /\ UNCHANGED dropped
    /\ UNCHANGED <<clock, runs, timer, orphans, instance, events, ran, missed, abandoned>>

\* Mutant: a tick leaves the timer to the loop that fired it, which an at job
\* and a cancelled timer do not have.
RestartIfLooping(t) ==
    /\ At(t, "restart")
    /\ Become(t, Idle)
    /\ UNCHANGED <<clock, row, runs, timer, orphans, instance, events, ran, missed, failures>>

\* cancel_job or reschedule_job, with that copy: it may say disabled when the row,
\* which could not be written or was enabled meanwhile, does not.
Restart(t) ==
    /\ At(t, "restart")
    /\ Schedule(t, JobTimer(thread[t].job))
    /\ dropped' = (dropped \/ (row.enabled /\ ~thread[t].job.enabled))
    /\ UNCHANGED <<clock, row, runs, orphans, instance, events, ran, missed, abandoned>>

-----------------------------------------------------------------------------
(* Calls.                                                                  *)

\* A call or a crash comes, within the bound.
Happens(event) == event \in Events /\ events < MaxEvents /\ events' = events + 1

\* update_job: the row is read, and the columns of the request are computed.
EditStarts ==
    /\ Happens("edit")
    /\ row.exists
    /\ thread[Edit] = Idle
    /\ \E request \in Requests, kind \in JobKinds, at \in Occurrences :
          LET edited == CASE request = "enable"   -> [row EXCEPT !.enabled = TRUE]
                          [] request = "disable"  -> [row EXCEPT !.enabled = FALSE]
                          [] request = "schedule" -> [row EXCEPT !.kind = kind,
                                                                  !.at = IF kind = "at" THEN at ELSE @]
                          [] request = "name"     -> row IN
          Become(Edit, [Idle EXCEPT !.pc = "write", !.result = request,
                           !.job = IF request = "name" THEN edited
                                   ELSE [edited EXCEPT !.next = NextRun(edited)]])
    /\ UNCHANGED <<clock, row, runs, timer, orphans, instance, ran, missed, failures>>

\* The write of those columns; the rescheduling comes an await later.  When the
\* write fails the call returns.
EditWrites ==
    LET job == thread[Edit].job
        request == thread[Edit].result IN
    /\ At(Edit, "write")
    /\ \/ /\ row.exists
          /\ row' = [row EXCEPT
                            !.enabled = IF request \in {"enable", "disable"} THEN job.enabled ELSE @,
                            !.kind = IF request = "schedule" THEN job.kind ELSE @,
                            !.at = IF request = "schedule" THEN job.at ELSE @,
                            !.next = IF request = "name" THEN @ ELSE job.next]
          /\ Goto(Edit, "restart")
       \/ (~row.exists \/ DatabaseFails) /\ Become(Edit, Idle) /\ UNCHANGED row
    /\ UNCHANGED <<clock, runs, timer, orphans, instance, events, ran, missed, failures>>

\* remove_job: the timer, and then the row with its runs, which fails with the
\* database.
RemoveStarts ==
    /\ Happens("remove")
    /\ thread[Remove] = Idle
    /\ timer' = NoTimer
    /\ Become(Remove, [Idle EXCEPT !.pc = "delete"])
    /\ UNCHANGED <<clock, row, runs, orphans, instance, ran, missed, failures>>

RemoveEnds ==
    /\ At(Remove, "delete")
    /\ \/ /\ row' = NoJob
          /\ runs' = [o \in Occurrences |-> NoRun]
          /\ Become(Remove, Idle)
          /\ UNCHANGED dropped
       \/ DatabaseFails /\ Drop(Remove) /\ UNCHANGED <<row, runs>>
    /\ UNCHANGED <<clock, timer, orphans, instance, events, ran, missed, abandoned>>

\* run_now: executes at once, without an occurrence and without a claim.
NowStarts ==
    /\ Happens("now")
    /\ thread[RunNow] = Idle
    /\ row.exists
    /\ \/ row.shared /\ SomeTurn /\ UNCHANGED thread
       \/ NotBusy(row) /\ Become(RunNow, [Idle EXCEPT !.pc = "begin", !.job = row])
    /\ UNCHANGED <<clock, row, runs, timer, orphans, instance, ran, missed, failures>>

NowTurn ==
    /\ \/ /\ At(RunNow, "begin")
          /\ \/ thread[RunNow].job.shared /\ SomeTurn /\ GotoWith(RunNow, "count", "error")
             \/ NotBusy(thread[RunNow].job) /\ Goto(RunNow, "run")
       \/ At(RunNow, "run") /\ GotoWith(RunNow, "count", "ok")
    /\ UNCHANGED <<clock, row, runs, timer, orphans, instance, events, ran, missed, failures>>

\* handle_system_resume, and init after a crash: list_enabled_system.
ResumeStarts ==
    /\ Happens("resume")
    /\ thread[Power] = Idle
    /\ Become(Power, [Idle EXCEPT !.pc = "list", !.result = "resume"])
    /\ UNCHANGED <<clock, row, runs, timer, orphans, instance, ran, missed, failures>>

List ==
    /\ At(Power, "list")
    /\ \/ /\ IF row.exists /\ row.enabled
               THEN Become(Power, [thread[Power] EXCEPT !.pc = "inspect", !.job = row])
               ELSE Become(Power, Idle)
          /\ UNCHANGED dropped
       \/ DatabaseFails /\ Drop(Power)
    /\ UNCHANGED <<clock, row, runs, timer, orphans, instance, events, ran, missed, abandoned>>

\* An unfinished run that is found gets the timer; otherwise a resume reports a run
\* whose time has passed as missed, and any other job gets its own timer.
Inspect ==
    LET p == thread[Power]
        isMissed == p.result = "resume" /\ p.job.next # 0 /\ p.job.next <= clock IN
    /\ At(Power, "inspect")
    /\ \/ \E o \in Recoverable : Schedule(Power, RetryTimer(o))
       \/ /\ Recoverable = {} \/ DatabaseFails
          /\ IF isMissed THEN Goto(Power, "missed") /\ UNCHANGED timer
                         ELSE Schedule(Power, JobTimer(p.job))
    /\ UNCHANGED <<clock, row, runs, orphans, instance, events, ran, missed, failures>>

\* record_missed_execution and the tip to the user; reschedule_after_missed
\* writes an await later.
Missed ==
    /\ At(Power, "missed")
    /\ missed' = missed \cup {thread[Power].job.next}
    /\ \/ row' = IF row.exists THEN [row EXCEPT !.retries = 0] ELSE row
       \/ DatabaseFails /\ UNCHANGED row
    /\ Goto(Power, "advance")
    /\ UNCHANGED <<clock, runs, timer, orphans, instance, events, ran, failures>>

-----------------------------------------------------------------------------
(* Time and failures.                                                      *)

TimePasses ==
    /\ clock < MaxOccurrence
    /\ clock' = clock + 1
    /\ UNCHANGED <<row, runs, timer, orphans, thread, instance, events, ran, missed, failures>>

\* The ticks that renew the lease of their run: the heartbeat is aborted before
\* the result is handled.
Heartbeats(o) == {t \in Ticks : thread[t].occ = o /\ thread[t].pc \in {"prepare", "start", "run"}}
Holders(o) == {t \in Ticks : thread[t].occ = o
                               /\ thread[t].pc \in {"prepare", "start", "run", "finish"}}

\* A lease ends when nobody renews it.  A suspended machine renews nothing,
\* whatever is under way, and neither does one whose renewals fail.
LeaseExpires(o) ==
    /\ runs[o].live
    /\ runs[o].status = "running" /\ Holders(o) # {} => "suspend" \in Faults
    /\ runs' = [runs EXCEPT ![o].live = FALSE]
    /\ UNCHANGED <<clock, row, timer, orphans, thread, instance, events, ran, missed, failures>>

\* renew_run_lease; expired leases are renewed too.
Renew(o) ==
    /\ Heartbeats(o) # {}
    /\ OwnsRun(o)
    /\ ~runs[o].live
    /\ runs' = [runs EXCEPT ![o].live = TRUE]
    /\ UNCHANGED <<clock, row, timer, orphans, thread, instance, events, ran, missed, failures>>

\* The process dies and is started again.  A turn whose run had not ended died
\* with it, so executing that occurrence again is not a repetition.
Crash ==
    /\ Happens("crash")
    /\ instance' = instance + 1
    /\ timer' = NoTimer
    /\ orphans' = {}
    /\ thread' = [t \in Threads |-> IF t = Power
                                      THEN [Idle EXCEPT !.pc = "list", !.result = "init"]
                                      ELSE Idle]
    /\ ran' = [o \in Occurrences |-> IF o \in Recoverable THEN 0 ELSE ran[o]]
    /\ abandoned' = (abandoned \/ Recoverable # {})
    /\ dropped' = FALSE
    /\ UNCHANGED <<clock, row, runs, missed>>

-----------------------------------------------------------------------------

Init ==
    /\ clock = 0
    /\ \E kind \in JobKinds, set \in Settings :
          row = [exists |-> TRUE, enabled |-> TRUE, kind |-> kind, at |-> 1, next |-> 1,
                 retries |-> 0, queue |-> "queue" \in set, shared |-> "shared" \in set]
    /\ runs = [o \in Occurrences |-> NoRun]
    /\ timer = JobTimer(row)
    /\ orphans = {}
    /\ thread = [t \in Threads |-> Idle]
    /\ instance = 1
    /\ events = 0
    /\ ran = [o \in Occurrences |-> 0]
    /\ missed = {}
    /\ abandoned = FALSE
    /\ dropped = FALSE

Ticking(t) ==
    \/ Load(t) \/ Claim(t) \/ Track(t) \/ Prepare(t) \/ Start(t) \/ TurnEnds(t)
    \/ Finish(t) \/ Count(t) \/ Reschedule(t) \/ Advance(t) \/ Restart(t) \/ Arm(t)

Calling ==
    \/ EditStarts \/ EditWrites \/ RemoveStarts \/ RemoveEnds
    \/ NowStarts \/ NowTurn \/ ResumeStarts \/ List \/ Inspect \/ Missed

Working(t) ==
    \/ Ticking(t)
    \/ t = Edit /\ EditWrites
    \/ t = Remove /\ RemoveEnds
    \/ t = RunNow /\ NowTurn
    \/ t = Power /\ (List \/ Inspect \/ Missed)

Next ==
    \/ \E t \in Ticks : Fire(t)
    \/ \E t \in Threads : Ticking(t)
    \/ Calling
    \/ TimePasses
    \/ \E o \in Occurrences : LeaseExpires(o) \/ Renew(o)
    \/ Crash

Spec == Init /\ [][Next]_vars

\* Threads go on, timers that are due fire, and a lease nobody renews ends.
Fairness ==
    /\ \A t \in Threads : WF_vars(Working(t))
    /\ WF_vars(\E t \in Ticks : Fire(t))
    /\ \A o \in Occurrences : WF_vars(LeaseExpires(o))

FairSpec == Spec /\ Fairness

-----------------------------------------------------------------------------

\* Types, and the bound on occurrences that the timers keep.
CronTypeOK ==
    /\ clock \in 0..MaxOccurrence
    /\ row.next \in 0..(MaxOccurrence + 1)
    /\ \A o \in Occurrences :
          /\ runs[o].status \in {"none", "running", "retrying", "ok", "error", "skipped"}
          /\ runs[o].owner \in 0..instance
          /\ runs[o].live \in BOOLEAN
    /\ \A tm \in orphans \cup {timer} :
          /\ tm.kind \in Kinds \cup {"none", "retry"}
          /\ tm.occ \in 0..(MaxOccurrence + 1)
    /\ instance \in 1..(MaxEvents + 1)
    /\ ran \in [Occurrences -> Nat]
    /\ missed \subseteq Occurrences
    /\ failures \in BOOLEAN \X BOOLEAN

\* The dedup of cron_job_runs: an occurrence starts one turn, however many
\* timers fire for it, however often it is deferred, and across a crash that
\* came after its run had ended.
OccurrenceRunsOnce == \A o \in Occurrences : ran[o] <= 1

\* An enabled job does not go quiet: when no thread is working on it, it has a
\* timer, unless the last thread that answered for it returned on an error of the
\* database or cancelled the timer for a copy of the row that was out of date.
EnabledJobHasATimer ==
    (/\ row.exists /\ row.enabled /\ row.next # 0 /\ ~dropped
     /\ \A t \in Threads : thread[t] = Idle)
    => timer # NoTimer \/ orphans # {}

\* queue_enabled: a scheduled execution does not start while another one of the
\* job is under way.  Once an unfinished run was left by its tick it may do so:
\* claim_run takes it over without looking at the queue, at the moment when its
\* expired lease does not keep another occurrence out either.
QueuedRunsDoNotOverlap ==
    row.queue /\ ~abandoned => Cardinality(Executing \cap Ticks) <= 1

\* Nothing will claim the runs of the job any more: it is gone or disabled, or
\* its timer waits for an occurrence beyond the bound.
OutOfReach ==
    \/ ~row.exists
    \/ ~row.enabled
    \/ timer.occ > MaxOccurrence

\* A claimed occurrence ends: deferred, superseded by a later timer or left
\* behind by a dead process, its run is taken up again until it has a result.
ClaimedRunsEnd ==
    \A o \in Occurrences : <>[](o \in Recoverable) => <>[]OutOfReach

\* The user was told "It was not run automatically".
MissedOccurrenceIsNotRun == \A o \in missed : ran[o] = 0

=============================================================================
