--------------------------- MODULE CronJobsProofs ---------------------------
(***************************************************************************)
(* What holds of CronJobs for any number of occurrences, ticks, retries    *)
(* and events: of its runs, as long as the machine is not suspended, and   *)
(* of its times and timers.                                                *)
(*                                                                         *)
(* The runs: from its claim to its result a tick holds the run of its      *)
(* occurrence.  While the job exists the run is running, its lease is live *)
(* and the owner is this process, so nobody else can claim it; a turn is   *)
(* only started by a holder, at most once; and the holder leaves the run   *)
(* ended, unless it has not started a turn.  A crash takes the holders     *)
(* away together with the turns of the runs that had not ended.            *)
(*                                                                         *)
(* The timers: somebody is always responsible for the timer of an enabled  *)
(* job, a timer that runs or a thread that will give it one, until such a  *)
(* thread drops it.                                                        *)
(***************************************************************************)
EXTENDS CronJobs, FiniteSetTheorems, TLAPS

USE DEF failures

Statuses == {"none", "running", "retrying", "ok", "error", "skipped"}
Results == {"none", "ok", "error", "skipped", "retry", "name", "schedule", "enable",
            "disable", "resume", "init"}

\* Where ticks are, and where the threads of calls are.
TickPCs == {"idle", "load", "claim", "track", "prepare", "start", "run", "finish", "count",
            "reschedule", "advance", "restart", "arm"}
CallPCs == {"idle", "write", "restart", "arm", "delete", "begin", "run", "count", "list",
            "inspect", "missed", "advance", "reschedule"}

Job == [exists: BOOLEAN, enabled: BOOLEAN, kind: Kinds, at: Nat, next: Nat, retries: Nat,
        queue: BOOLEAN, shared: BOOLEAN]
Run == [status: Statuses, owner: Nat, live: BOOLEAN]

\* A timer there is has an occurrence; that of a retry is one that was claimed.
Timer ==
    {tm \in [kind: Kinds \cup {"none", "retry"}, occ: Nat] :
        tm # NoTimer => tm.occ >= 1 /\ (tm.kind = "retry" => tm.occ \in Occurrences)}

ThreadState == [pc: TickPCs \cup CallPCs, occ: Nat, job: Job, result: Results, arm: Timer]

\* The types of the variables but thread.
VariablesTypeOK ==
    /\ clock \in 0..MaxOccurrence
    /\ row \in Job
    /\ runs \in [Occurrences -> Run]
    /\ timer \in Timer
    /\ orphans \in SUBSET Timer
    /\ instance \in Nat \ {0}
    /\ ran \in [Occurrences -> Nat]
    /\ abandoned \in BOOLEAN
    /\ row.queue => row.exists

\* The types of all variables.
StateTypeOK ==
    /\ VariablesTypeOK
    /\ thread \in [Threads -> ThreadState]
    /\ \A t \in Ticks : thread[t].pc \in TickPCs
    /\ \A t \in Callers : thread[t].pc \in CallPCs

\* Tick t holds the run of its occurrence.
HoldPCs == {"prepare", "start", "run", "finish"}
Holds(t) == thread[t].pc \in HoldPCs

\* A tick has an occurrence from the timer to the result, and the job's queue
\* setting from the load on.
TicksKnowTheirRun ==
    \A t \in Ticks :
        /\ thread[t].pc \in {"load", "claim"} \cup HoldPCs => thread[t].occ \in Occurrences
        /\ thread[t].pc \in {"claim"} \cup HoldPCs /\ row.queue => thread[t].job.queue
        /\ thread[t].pc = "finish" => thread[t].result \in {"ok", "error", "skipped", "retry"}
        /\ thread[t].pc = "finish" /\ row.queue => thread[t].result # "retry"

\* Two ticks never hold the same run.
HoldersDiffer ==
    \A t, u \in Ticks : Holds(t) /\ Holds(u) /\ thread[t].occ = thread[u].occ => t = u

\* A run that is held is running, with a live lease, for this process.
Held(o) == runs[o].status = "running" /\ runs[o].live /\ runs[o].owner = instance
HoldersOwn == row.exists => \A t \in Ticks : Holds(t) => Held(thread[t].occ)

\* A holder that has not started its turn, or will defer the run, finds that no
\* turn was started.
HoldersStartFirst ==
    \A t \in Ticks :
        \/ thread[t].pc \in {"prepare", "start"}
        \/ thread[t].pc = "finish" /\ thread[t].result = "retry"
        => ran[thread[t].occ] = 0

\* A run for which a turn was started is held or has ended.
StartedRunsEnd ==
    row.exists =>
        \A o \in Occurrences : ran[o] # 0 =>
            \/ runs[o].status \in {"ok", "error", "skipped"}
            \/ \E t \in Ticks : Holds(t) /\ thread[t].occ = o

\* As long as no unfinished run was left by its tick, a queued job has one holder,
\* and all its unfinished runs are held.
QueueHasOneHolder ==
    row.queue /\ ~abandoned =>
        /\ \A t, u \in Ticks : Holds(t) /\ Holds(u) => t = u
        /\ \A o \in Recoverable : \E t \in Ticks : Holds(t) /\ thread[t].occ = o

\* What makes the runs right, together.
RunsInv ==
    /\ TicksKnowTheirRun
    /\ HoldersDiffer
    /\ HoldersOwn
    /\ HoldersStartFirst
    /\ StartedRunsEnd
    /\ QueueHasOneHolder
    /\ OccurrenceRunsOnce

\* The inductive invariant: NextIInv shows that every step preserves it.
IInv == StateTypeOK /\ RunsInv

-----------------------------------------------------------------------------
(* Records.                                                                *)

\* The names of ticks and calls are different.
LEMMA ThreadNames ==
    /\ Ticks \subseteq Threads
    /\ Callers \subseteq Threads
    /\ \A t \in Threads : t \in Ticks \/ t \in Callers
    /\ \A t \in Ticks : t \notin Callers
    /\ {Edit, Remove, RunNow, Power} = Callers
  BY CronAssumption DEF Threads, Callers

\* The fields of a thread state at another place.
LEMMA PlaceChanged ==
    ASSUME NEW r \in ThreadState, NEW p \in TickPCs \cup CallPCs
    PROVE  /\ [r EXCEPT !.pc = p] \in ThreadState
           /\ [r EXCEPT !.pc = p].pc = p
           /\ [r EXCEPT !.pc = p].occ = r.occ
           /\ [r EXCEPT !.pc = p].job = r.job
           /\ [r EXCEPT !.pc = p].result = r.result
           /\ [r EXCEPT !.pc = p].arm = r.arm
  BY DEF ThreadState

\* The absent timer and the absent job have their types.
LEMMA NoTimerType == NoTimer \in Timer
  BY DEF NoTimer, Timer

\* The absent job has its type, and no setting.
LEMMA NoJobType == NoJob \in Job /\ ~NoJob.exists /\ ~NoJob.queue
  BY DEF NoJob, Job, Kinds

\* So has a thread that does nothing.
LEMMA IdleFacts == Idle \in ThreadState /\ Idle.pc = "idle"
  BY NoTimerType, NoJobType DEF Idle, ThreadState, TickPCs, Results

\* A thread state at another place with a result.
WithResult(r, p, x) == [r EXCEPT !.pc = p, !.result = x]

\* Its fields.
LEMMA WithResultFacts ==
    ASSUME NEW r \in ThreadState, NEW p \in TickPCs \cup CallPCs, NEW x \in Results
    PROVE  /\ WithResult(r, p, x) \in ThreadState
           /\ WithResult(r, p, x).pc = p
           /\ WithResult(r, p, x).occ = r.occ
           /\ WithResult(r, p, x).job = r.job
           /\ WithResult(r, p, x).result = x
           /\ WithResult(r, p, x).arm = r.arm
  BY DEF WithResult, ThreadState

\* A thread state at another place with a job.
WithJob(r, p, j) == [r EXCEPT !.pc = p, !.job = j]

\* Its fields.
LEMMA WithJobFacts ==
    ASSUME NEW r \in ThreadState, NEW p \in TickPCs \cup CallPCs, NEW j \in Job
    PROVE  /\ WithJob(r, p, j) \in ThreadState
           /\ WithJob(r, p, j).pc = p
           /\ WithJob(r, p, j).occ = r.occ
           /\ WithJob(r, p, j).job = j
  BY DEF WithJob, ThreadState

\* What it carries besides.
LEMMA WithJobCarries ==
    ASSUME NEW r \in ThreadState, NEW p \in TickPCs \cup CallPCs, NEW j \in Job
    PROVE  WithJob(r, p, j).result = r.result /\ WithJob(r, p, j).arm = r.arm
  BY DEF WithJob, ThreadState

\* A thread state at another place with a timer to arm.
WithTimer(r, p, tm) == [r EXCEPT !.pc = p, !.arm = tm]

\* Its fields.
LEMMA WithTimerFacts ==
    ASSUME NEW r \in ThreadState, NEW p \in TickPCs \cup CallPCs, NEW tm \in Timer
    PROVE  /\ WithTimer(r, p, tm) \in ThreadState
           /\ WithTimer(r, p, tm).pc = p
           /\ WithTimer(r, p, tm).occ = r.occ
           /\ WithTimer(r, p, tm).job = r.job
           /\ WithTimer(r, p, tm).result = r.result
           /\ WithTimer(r, p, tm).arm = tm
  BY DEF WithTimer, ThreadState

\* A tick that a timer has started.
Loading(o) == [Idle EXCEPT !.pc = "load", !.occ = o]

\* It has its type and its occurrence.
LEMMA LoadingFacts ==
    ASSUME NEW o \in Occurrences
    PROVE  Loading(o) \in ThreadState /\ Loading(o).pc = "load" /\ Loading(o).occ = o
<1> DEFINE q == [Idle EXCEPT !.pc = "load"]
<1>1. q \in ThreadState /\ q.pc = "load"
  BY IdleFacts, PlaceChanged DEF TickPCs
<1>2. Loading(o) = [q EXCEPT !.occ = o]
  BY DEF Loading, Idle
<1> HIDE DEF q
<1> QED
  BY <1>1, <1>2 DEF ThreadState, Occurrences

\* Only thread t has another state afterwards.
OneMoves(t) ==
    /\ thread' \in [Threads -> ThreadState]
    /\ \A u \in Threads \ {t} : thread'[u] = thread[u]

\* Become moves one thread.
LEMMA BecomeFacts ==
    ASSUME StateTypeOK, NEW t \in Threads, NEW r \in ThreadState, Become(t, r)
    PROVE  OneMoves(t) /\ thread'[t] = r
  BY DEF StateTypeOK, Become, OneMoves

\* Goto changes the place of one thread, and nothing else of it.
LEMMA GotoFacts ==
    ASSUME StateTypeOK, NEW t \in Threads, NEW p \in TickPCs \cup CallPCs, Goto(t, p)
    PROVE  /\ OneMoves(t)
           /\ thread'[t].pc = p
           /\ thread'[t].occ = thread[t].occ
           /\ thread'[t].job = thread[t].job
           /\ thread'[t].result = thread[t].result
           /\ thread'[t].arm = thread[t].arm
<1> DEFINE r == [thread[t] EXCEPT !.pc = p]
<1>1. thread[t] \in ThreadState
  BY DEF StateTypeOK
<1>2. /\ r \in ThreadState /\ r.pc = p /\ r.occ = thread[t].occ
      /\ r.job = thread[t].job /\ r.result = thread[t].result /\ r.arm = thread[t].arm
  BY <1>1, PlaceChanged
<1>3. Become(t, r)
  BY DEF Goto
<1> HIDE DEF r
<1> QED
  BY <1>2, <1>3, BecomeFacts

\* GotoWith changes its result too.
LEMMA GotoWithFacts ==
    ASSUME StateTypeOK, NEW t \in Threads, NEW p \in TickPCs \cup CallPCs,
           NEW x \in Results, GotoWith(t, p, x)
    PROVE  /\ OneMoves(t)
           /\ thread'[t].pc = p
           /\ thread'[t].occ = thread[t].occ
           /\ thread'[t].job = thread[t].job
           /\ thread'[t].result = x
           /\ thread'[t].arm = thread[t].arm
<1> DEFINE r == WithResult(thread[t], p, x)
<1>1. thread[t] \in ThreadState
  BY DEF StateTypeOK
<1>2. r \in ThreadState /\ r.pc = p /\ r.occ = thread[t].occ
  BY <1>1, WithResultFacts
<1>3. r.job = thread[t].job /\ r.result = x /\ r.arm = thread[t].arm
  BY <1>1, WithResultFacts
<1>4. Become(t, r)
  BY DEF GotoWith, WithResult
<1> HIDE DEF r
<1> QED
  BY <1>2, <1>3, <1>4, BecomeFacts

\* The first half of a rescheduling.
LEMMA ScheduleFacts ==
    ASSUME StateTypeOK, NEW t \in Threads, NEW new \in Timer, Schedule(t, new)
    PROVE  /\ OneMoves(t)
           /\ thread'[t].pc \in {"idle", "arm"}
           /\ timer' = NoTimer
           /\ new = NoTimer => thread'[t] = Idle
           /\ new # NoTimer => /\ thread'[t].pc = "arm"
                               /\ thread'[t].arm = new
                               /\ thread'[t].occ = thread[t].occ
                               /\ thread'[t].job = thread[t].job
                               /\ thread'[t].result = thread[t].result
<1>1. thread[t] \in ThreadState /\ "arm" \in TickPCs \cup CallPCs
  BY DEF StateTypeOK, TickPCs
<1>2. CASE new = NoTimer
  BY <1>2, IdleFacts, BecomeFacts DEF Schedule
<1>3. CASE new # NoTimer
  <2>1. Become(t, WithTimer(thread[t], "arm", new))
    BY <1>3 DEF Schedule, WithTimer
  <2> QED
    BY <1>1, <1>3, <2>1, WithTimerFacts, BecomeFacts DEF Schedule
<1> QED
  BY <1>2, <1>3

\* The timers there are.
LEMMA DueFacts ==
    ASSUME clock \in 0..MaxOccurrence, NEW tm \in Timer, Due(tm)
    PROVE  tm.occ \in Occurrences
  BY CronAssumption DEF Due, Timer, Occurrences

\* What is left of a timer that has fired is a timer or none.
LEMMA AfterFiringType ==
    ASSUME clock \in 0..MaxOccurrence, NEW tm \in Timer
    PROVE  AfterFiring(tm) \in Timer
<1>1. \A n \in Nat : tm.kind # "retry" /\ n >= 1 => [tm EXCEPT !.occ = n] \in Timer
  BY DEF Timer
<1>2. tm.occ \in Nat /\ clock \in Nat
  BY CronAssumption DEF Timer
<1>3. CASE tm.kind = "every"
  <2>1. AfterFiring(tm) = [tm EXCEPT !.occ = tm.occ + 1]
    BY <1>3 DEF AfterFiring, Timer
  <2> QED
    BY <1>1, <1>2, <1>3, <2>1
<1>4. CASE tm.kind = "cron"
  <2>1. AfterFiring(tm) = [tm EXCEPT !.occ = clock + 1]
    BY <1>4 DEF AfterFiring, Timer
  <2> QED
    BY <1>1, <1>2, <1>4, <2>1
<1>5. CASE tm.kind \notin {"every", "cron"}
  BY <1>5, NoTimerType DEF AfterFiring
<1> QED
  BY <1>3, <1>4, <1>5

\* The timer of a job is a timer or none.
LEMMA JobTimerType ==
    ASSUME NEW job \in Job
    PROVE  JobTimer(job) \in Timer
  BY NoTimerType DEF JobTimer, Job, Timer, Kinds

\* The retry timer of an occurrence is a timer.
LEMMA RetryTimerType ==
    ASSUME NEW o \in Occurrences
    PROVE  RetryTimer(o) \in Timer
  BY DEF RetryTimer, Timer, Occurrences

\* A job that is executed or missed keeps its type.
LEMMA AdvancedType ==
    ASSUME NEW job \in Job, clock \in 0..MaxOccurrence
    PROVE  Advanced(job) \in Job
<1>1. clock + 1 \in Nat
  BY CronAssumption
<1>2. \A n \in Nat : [job EXCEPT !.next = n] \in Job
  BY DEF Job
<1>3. [job EXCEPT !.enabled = FALSE] \in Job
  BY DEF Job
<1>4. [job EXCEPT !.enabled = FALSE, !.next = 0] \in Job
  BY <1>3 DEF Job
<1>5. CASE job.kind = "at"
  BY <1>4, <1>5 DEF Advanced
<1>6. CASE job.kind # "at"
  BY <1>1, <1>2, <1>6 DEF Advanced
<1> QED
  BY <1>5, <1>6

-----------------------------------------------------------------------------
(* What a step that does not concern them leaves alone.                    *)

\* The row keeps its type, and is not deleted.
RowKept ==
    /\ row' \in Job
    /\ row'.exists = row.exists
    /\ row'.queue = row.queue

\* The types stay.
LEMMA TypeFrame ==
    ASSUME StateTypeOK, NEW t \in Threads, OneMoves(t), VariablesTypeOK',
           t \in Ticks => thread'[t].pc \in TickPCs,
           t \in Callers => thread'[t].pc \in CallPCs
    PROVE  StateTypeOK'
  BY ThreadNames DEF StateTypeOK, OneMoves

\* The ticks whose state t's step does not change.
LEMMA OthersStay ==
    ASSUME NEW t \in Threads, OneMoves(t), NEW u \in Ticks, u # t
    PROVE  thread'[u] = thread[u]
  BY ThreadNames DEF OneMoves

\* Runs stay right when a thread moves that neither held one nor does so now.
LEMMA NeutralFrame ==
    ASSUME RunsInv, NEW t \in Threads, OneMoves(t), UNCHANGED <<runs, instance, ran, abandoned>>, RowKept,
           t \in Ticks =>
              /\ ~Holds(t) /\ thread'[t].pc \notin HoldPCs
              /\ thread'[t].pc \in {"load", "claim"} => thread'[t].occ \in Occurrences
              /\ thread'[t].pc = "claim" /\ row.queue => thread'[t].job.queue
    PROVE  RunsInv'
<1>1. \A u \in Ticks :
         /\ thread'[u].pc \in HoldPCs <=> thread[u].pc \in HoldPCs
         /\ thread[u].pc \in HoldPCs => thread'[u] = thread[u]
  <2> SUFFICES ASSUME NEW u \in Ticks
               PROVE  /\ thread'[u].pc \in HoldPCs <=> thread[u].pc \in HoldPCs
                      /\ thread[u].pc \in HoldPCs => thread'[u] = thread[u]
    OBVIOUS
  <2>1. CASE u = t
    BY <2>1 DEF Holds
  <2>2. CASE u # t
    BY <2>2, OthersStay
  <2> QED
    BY <2>1, <2>2
<1>2. TicksKnowTheirRun'
  <2> SUFFICES ASSUME NEW u \in Ticks
               PROVE  /\ thread'[u].pc \in {"load", "claim"} \cup HoldPCs =>
                            thread'[u].occ \in Occurrences
                      /\ thread'[u].pc \in {"claim"} \cup HoldPCs /\ row.queue =>
                            thread'[u].job.queue
                      /\ thread'[u].pc = "finish" =>
                            thread'[u].result \in {"ok", "error", "skipped", "retry"}
                      /\ thread'[u].pc = "finish" /\ row.queue => thread'[u].result # "retry"
    BY DEF TicksKnowTheirRun, RowKept
  <2>1. CASE u = t
    BY <2>1 DEF HoldPCs
  <2>2. CASE u # t
    BY <2>2, OthersStay DEF RunsInv, TicksKnowTheirRun
  <2> QED
    BY <2>1, <2>2
<1>3. HoldersDiffer'
  BY <1>1 DEF RunsInv, HoldersDiffer, Holds
<1>4. HoldersOwn'
  BY <1>1 DEF RunsInv, HoldersOwn, Holds, Held, RowKept
<1>5. HoldersStartFirst'
  BY <1>1 DEF RunsInv, HoldersStartFirst, HoldPCs
<1>6. StartedRunsEnd'
  BY <1>1 DEF RunsInv, StartedRunsEnd, Holds, RowKept
<1>7. QueueHasOneHolder'
  BY <1>1 DEF RunsInv, QueueHasOneHolder, Holds, RowKept, Recoverable
<1>8. OccurrenceRunsOnce'
  BY DEF RunsInv, OccurrenceRunsOnce
<1> QED
  BY <1>2, <1>3, <1>4, <1>5, <1>6, <1>7, <1>8 DEF RunsInv

\* So they do when a call moves.
LEMMA CallFrame ==
    ASSUME IInv, NEW t \in Callers, OneMoves(t), UNCHANGED <<runs, instance, ran, abandoned>>, RowKept,
           clock' = clock, timer' \in Timer, orphans' \in SUBSET Timer,
           thread'[t].pc \in CallPCs
    PROVE  IInv'
<1>1. VariablesTypeOK'
  BY DEF IInv, StateTypeOK, VariablesTypeOK, RowKept
<1>2. StateTypeOK'
  BY <1>1, TypeFrame, ThreadNames DEF IInv
<1>3. RunsInv'
  BY NeutralFrame, ThreadNames DEF IInv
<1> QED
  BY <1>2, <1>3 DEF IInv

\* And when a tick moves that is before its claim or after its result.
LEMMA TickFrame ==
    ASSUME IInv, NEW t \in Ticks, OneMoves(t), UNCHANGED <<runs, instance, ran, abandoned>>, RowKept,
           clock' = clock, timer' \in Timer, orphans' \in SUBSET Timer,
           ~Holds(t), thread'[t].pc \in TickPCs \ HoldPCs,
           thread'[t].pc \in {"load", "claim"} => thread'[t].occ \in Occurrences,
           thread'[t].pc = "claim" /\ row.queue => thread'[t].job.queue
    PROVE  IInv'
<1>1. VariablesTypeOK'
  BY DEF IInv, StateTypeOK, VariablesTypeOK, RowKept
<1>2. StateTypeOK'
  BY <1>1, TypeFrame, ThreadNames DEF IInv
<1>3. RunsInv'
  BY NeutralFrame, ThreadNames DEF IInv
<1> QED
  BY <1>2, <1>3 DEF IInv

\* Both together: places that any thread may come to.
LEMMA ThreadFrame ==
    ASSUME IInv, NEW t \in Threads, OneMoves(t), UNCHANGED <<runs, instance, ran, abandoned>>, RowKept,
           clock' = clock, timer' \in Timer, orphans' \in SUBSET Timer,
           thread[t].pc \notin HoldPCs \/ t \in Callers,
           thread'[t].pc \in {"idle", "arm", "restart", "count", "reschedule", "advance"}
    PROVE  IInv'
<1>1. CASE t \in Ticks
  BY <1>1, TickFrame, ThreadNames DEF Holds, TickPCs, HoldPCs
<1>2. CASE t \in Callers
  BY <1>2, CallFrame DEF CallPCs
<1> QED
  BY <1>1, <1>2, ThreadNames


-----------------------------------------------------------------------------
(* Steps that concern no run: ticks before the claim and after the result. *)

\* What a step starts from.
LEMMA ThreadTyped ==
    ASSUME IInv, NEW t \in Threads
    PROVE  /\ StateTypeOK
           /\ thread[t] \in ThreadState
           /\ thread[t].job \in Job
           /\ thread[t].arm \in Timer
           /\ t \in Ticks => thread[t].pc \in TickPCs
           /\ t \in Callers => thread[t].pc \in CallPCs
  BY DEF IInv, StateTypeOK, ThreadState

\* The variables' types, for the frames.
LEMMA VariablesTyped ==
    ASSUME IInv
    PROVE  /\ clock \in 0..MaxOccurrence
           /\ row \in Job
           /\ timer \in Timer
           /\ orphans \in SUBSET Timer
           /\ NoTimer \in Timer
  BY NoTimerType DEF IInv, StateTypeOK, VariablesTypeOK

\* Fire (scheduler.rs: a timer's callback): a tick starts with the timer's occurrence.
LEMMA FireIInv == ASSUME IInv, NEW t \in Ticks, Fire(t) PROVE IInv'
<1>1. StateTypeOK /\ t \in Threads
  BY ThreadNames DEF IInv
<1>2. PICK tm \in Timer : Due(tm) /\ Become(t, [Idle EXCEPT !.pc = "load", !.occ = tm.occ])
  BY VariablesTyped DEF Fire
<1>3. tm.occ \in Occurrences
  BY <1>2, DueFacts, VariablesTyped
<1>4. Become(t, Loading(tm.occ))
  BY <1>2 DEF Loading
<1>5. /\ OneMoves(t) /\ thread'[t].pc = "load" /\ thread'[t].occ \in Occurrences
  BY <1>1, <1>3, <1>4, LoadingFacts, BecomeFacts
<1>6. thread[t].pc = "idle"
  BY IdleFacts DEF Fire
<1>7. timer' \in Timer /\ orphans' \in SUBSET Timer
  BY VariablesTyped, AfterFiringType DEF Fire
<1>8. RowKept
  BY VariablesTyped DEF Fire, RowKept
<1> QED
  BY <1>5, <1>6, <1>7, <1>8, TickFrame DEF Fire, Holds, HoldPCs, TickPCs

\* Load: the tick copies the row, and with it the queue setting.
LEMMA LoadIInv == ASSUME IInv, NEW t \in Threads, Load(t) PROVE IInv'
<1>1. StateTypeOK /\ thread[t] \in ThreadState /\ thread[t].pc = "load" /\ t \in Ticks
  BY ThreadTyped, ThreadNames DEF Load, At, CallPCs
<1>2. RowKept /\ timer' \in Timer
  BY VariablesTyped DEF Load, RowKept
<1>3. CASE Become(t, Idle)
  <2>1. OneMoves(t) /\ thread'[t].pc = "idle"
    BY <1>1, <1>3, IdleFacts, BecomeFacts
  <2> QED
    BY <1>1, <1>2, <2>1, VariablesTyped, ThreadFrame DEF Load, HoldPCs
<1>4. CASE Become(t, WithJob(thread[t], "claim", row))
  <2> DEFINE r == WithJob(thread[t], "claim", row)
  <2>1. r \in ThreadState /\ r.pc = "claim" /\ r.occ = thread[t].occ /\ r.job = row
    BY <1>1, VariablesTyped, WithJobFacts DEF TickPCs
  <2>2. Become(t, r)
    BY <1>4
  <2> HIDE DEF r
  <2>3. OneMoves(t) /\ thread'[t] = r
    BY <1>1, <2>1, <2>2, BecomeFacts
  <2>4. thread[t].occ \in Occurrences
    BY <1>1 DEF IInv, RunsInv, TicksKnowTheirRun
  <2> QED
    BY <1>1, <1>2, <2>1, <2>3, <2>4, VariablesTyped, TickFrame
       DEF Load, Holds, HoldPCs, TickPCs
<1> QED
  BY <1>3, <1>4 DEF Load, WithJob, Drop

\* Track: a duplicate holds nothing.
LEMMA TrackIInv == ASSUME IInv, NEW t \in Threads, Track(t) PROVE IInv'
<1>1. StateTypeOK /\ thread[t].pc = "track" /\ RowKept
  BY ThreadTyped, VariablesTyped DEF Track, At, RowKept
<1>2. CASE \E o \in Recoverable : Schedule(t, RetryTimer(o))
  <2>1. OneMoves(t) /\ thread'[t].pc \in {"idle", "arm"} /\ timer' = NoTimer
    BY <1>1, <1>2, RetryTimerType, ScheduleFacts DEF Recoverable
  <2> QED
    BY <1>1, <2>1, VariablesTyped, ThreadFrame DEF Track, HoldPCs
<1>3. CASE Goto(t, "reschedule") /\ UNCHANGED timer
  <2>1. OneMoves(t) /\ thread'[t].pc = "reschedule"
    BY <1>1, <1>3, GotoFacts DEF TickPCs
  <2> QED
    BY <1>1, <1>3, <2>1, VariablesTyped, ThreadFrame DEF Track, HoldPCs
<1> QED
  BY <1>2, <1>3 DEF Track

\* Count: the tick let go of its run before.
LEMMA CountIInv == ASSUME IInv, NEW t \in Threads, Count(t) PROVE IInv'
<1>1. StateTypeOK /\ thread[t] \in ThreadState /\ thread[t].pc = "count"
  BY ThreadTyped DEF Count, At
<1>2. \A n \in Nat : [row EXCEPT !.retries = n] \in Job
  BY VariablesTyped DEF Job
<1>3. thread[t].job.retries + 1 \in Nat
  BY ThreadTyped DEF Job
<1>4. RowKept
  BY <1>2, <1>3, VariablesTyped DEF Count, RowKept, Job
<1>5. OneMoves(t) /\ thread'[t].pc \in {"idle", "reschedule"}
  BY <1>1, IdleFacts, BecomeFacts, GotoFacts DEF Count, TickPCs
<1> QED
  BY <1>1, <1>4, <1>5, VariablesTyped, ThreadFrame DEF Count, HoldPCs

\* Reschedule reads the runs only.
LEMMA RescheduleIInv == ASSUME IInv, NEW t \in Threads, Reschedule(t) PROVE IInv'
<1>1. StateTypeOK /\ thread[t].pc = "reschedule" /\ RowKept
  BY ThreadTyped, VariablesTyped DEF Reschedule, At, RowKept
<1>2. CASE \E o \in Recoverable : Schedule(t, RetryTimer(o))
  <2>1. OneMoves(t) /\ thread'[t].pc \in {"idle", "arm"} /\ timer' = NoTimer
    BY <1>1, <1>2, RetryTimerType, ScheduleFacts DEF Recoverable
  <2> QED
    BY <1>1, <2>1, VariablesTyped, ThreadFrame DEF Reschedule, HoldPCs
<1>3. CASE Goto(t, "advance") /\ UNCHANGED timer
  <2>1. OneMoves(t) /\ thread'[t].pc = "advance"
    BY <1>1, <1>3, GotoFacts DEF TickPCs
  <2> QED
    BY <1>1, <1>3, <2>1, VariablesTyped, ThreadFrame DEF Reschedule, HoldPCs
<1> QED
  BY <1>2, <1>3 DEF Reschedule

\* Advance writes the row's times, not its queue setting.
LEMMA AdvanceIInv == ASSUME IInv, NEW t \in Threads, Advance(t) PROVE IInv'
<1> DEFINE next == Advanced(thread[t].job)
<1>1. StateTypeOK /\ thread[t] \in ThreadState /\ thread[t].pc = "advance"
  BY ThreadTyped DEF Advance, At
<1>2. next \in Job
  BY ThreadTyped, VariablesTyped, AdvancedType
<1>3. row' = row \/ row' = [row EXCEPT !.enabled = FALSE, !.next = 0]
         \/ row' = [row EXCEPT !.next = next.next]
  BY DEF Advance
<1>4. Become(t, Idle) \/ Become(t, WithJob(thread[t], "restart", next))
  BY DEF Advance, WithJob, Drop
<1>5. UNCHANGED <<clock, runs, timer, orphans, instance, events, ran, missed, abandoned>>
  BY DEF Advance
<1> HIDE DEF next
<1>6. RowKept
  <2>1. \A n \in Nat : [row EXCEPT !.next = n] \in Job
    BY VariablesTyped DEF Job
  <2>2. [row EXCEPT !.enabled = FALSE, !.next = 0] \in Job
    BY VariablesTyped DEF Job
  <2>3. next.next \in Nat
    BY <1>2 DEF Job
  <2> QED
    BY <1>3, <2>1, <2>2, <2>3, VariablesTyped DEF RowKept, Job
<1>7. OneMoves(t) /\ thread'[t].pc \in {"idle", "restart"}
  <2>1. CASE Become(t, Idle)
    BY <1>1, <2>1, IdleFacts, BecomeFacts
  <2>2. CASE Become(t, WithJob(thread[t], "restart", next))
    BY <1>1, <1>2, <2>2, WithJobFacts, BecomeFacts DEF TickPCs
  <2> QED
    BY <1>4, <2>1, <2>2
<1> QED
  BY <1>1, <1>5, <1>6, <1>7, VariablesTyped, ThreadFrame DEF HoldPCs

\* Restart concerns the timer only.
LEMMA RestartIInv == ASSUME IInv, NEW t \in Threads, Restart(t) PROVE IInv'
<1>1. StateTypeOK /\ thread[t].pc = "restart" /\ RowKept
  BY ThreadTyped, VariablesTyped DEF Restart, At, RowKept
<1>2. OneMoves(t) /\ thread'[t].pc \in {"idle", "arm"} /\ timer' = NoTimer
  BY <1>1, ThreadTyped, JobTimerType, ScheduleFacts DEF Restart
<1> QED
  BY <1>1, <1>2, VariablesTyped, ThreadFrame DEF Restart, HoldPCs

\* Arm concerns the timers only.
LEMMA ArmIInv == ASSUME IInv, NEW t \in Threads, Arm(t) PROVE IInv'
<1>1. StateTypeOK /\ thread[t] \in ThreadState /\ thread[t].pc = "arm" /\ RowKept
  BY ThreadTyped, VariablesTyped DEF Arm, At, RowKept
<1>2. Become(t, WithTimer(thread[t], "count", NoTimer)) \/ Become(t, Idle)
  BY DEF Arm, WithTimer
<1>3. OneMoves(t) /\ thread'[t].pc \in {"idle", "count"}
  <2>1. CASE Become(t, Idle)
    BY <1>1, <2>1, IdleFacts, BecomeFacts
  <2>2. CASE Become(t, WithTimer(thread[t], "count", NoTimer))
    BY <1>1, <2>2, NoTimerType, WithTimerFacts, BecomeFacts DEF TickPCs
  <2> QED
    BY <1>2, <2>1, <2>2
<1>4. timer' \in Timer /\ orphans' \in SUBSET Timer
  BY ThreadTyped, VariablesTyped DEF Arm
<1> QED
  BY <1>1, <1>3, <1>4, ThreadFrame DEF Arm, HoldPCs

-----------------------------------------------------------------------------
(* Steps that concern no run: calls.                                       *)

\* A call that carries on with a result and a job.
Request(x, j) == [Idle EXCEPT !.pc = "write", !.result = x, !.job = j]

\* It has its type and its place.
LEMMA RequestFacts ==
    ASSUME NEW x \in Results, NEW j \in Job
    PROVE  Request(x, j) \in ThreadState /\ Request(x, j).pc = "write"
<1> DEFINE q == WithResult(Idle, "write", x)
<1>1. "write" \in TickPCs \cup CallPCs
  BY DEF CallPCs
<1>2. q \in ThreadState
  BY <1>1, IdleFacts, WithResultFacts
<1>3. Request(x, j) = WithJob(q, "write", j)
  BY DEF Request, WithResult, WithJob, Idle
<1> HIDE DEF q
<1>4. WithJob(q, "write", j) \in ThreadState
  BY <1>1, <1>2, WithJobFacts
<1>5. WithJob(q, "write", j).pc = "write"
  BY <1>1, <1>2, WithJobFacts
<1> QED
  BY <1>3, <1>4, <1>5

\* EditStarts: the columns computed have their types.
LEMMA EditStartsIInv == ASSUME IInv, EditStarts PROVE IInv'
<1>1. StateTypeOK /\ RowKept /\ Edit \in Threads /\ Edit \in Callers
  BY VariablesTyped, ThreadNames DEF EditStarts, RowKept, IInv, Callers
<1>2. PICK request \in Requests, kind \in JobKinds, at \in Occurrences :
         LET edited == CASE request = "enable"   -> [row EXCEPT !.enabled = TRUE]
                         [] request = "disable"  -> [row EXCEPT !.enabled = FALSE]
                         [] request = "schedule" -> [row EXCEPT !.kind = kind,
                                                        !.at = IF kind = "at" THEN at ELSE @]
                         [] request = "name"     -> row IN
         Become(Edit, [Idle EXCEPT !.pc = "write", !.result = request,
                          !.job = IF request = "name" THEN edited
                                  ELSE [edited EXCEPT !.next = NextRun(edited)]])
  BY DEF EditStarts
<1>3. PICK edited \in Job :
         Become(Edit, Request(request, IF request = "name" THEN edited
                                       ELSE [edited EXCEPT !.next = NextRun(edited)]))
  <2>1. [row EXCEPT !.enabled = TRUE] \in Job /\ [row EXCEPT !.enabled = FALSE] \in Job
    BY VariablesTyped DEF Job
  <2>2. [row EXCEPT !.kind = kind, !.at = IF kind = "at" THEN at ELSE row.at] \in Job
    <3>1. [row EXCEPT !.kind = kind] \in Job
      BY VariablesTyped, CronAssumption DEF Job
    <3>2. (IF kind = "at" THEN at ELSE row.at) \in Nat
      BY VariablesTyped DEF Job, Occurrences
    <3> QED
      BY <3>1, <3>2 DEF Job
  <2>3. request \in {"name", "schedule", "enable", "disable"}
    BY CronAssumption DEF AllRequests
  <2>4. CASE request = "enable"
    BY <1>2, <2>1, <2>4 DEF Request
  <2>5. CASE request = "disable"
    BY <1>2, <2>1, <2>5 DEF Request
  <2>6. CASE request = "schedule"
    BY <1>2, <2>2, <2>6 DEF Request
  <2>7. CASE request = "name"
    BY <1>2, VariablesTyped, <2>7 DEF Request
  <2> QED
    BY <2>3, <2>4, <2>5, <2>6, <2>7
<1>4. NextRun(edited) \in Nat
  BY VariablesTyped, CronAssumption DEF NextRun, Job
<1>5. (IF request = "name" THEN edited
       ELSE [edited EXCEPT !.next = NextRun(edited)]) \in Job
  BY <1>4 DEF Job
<1>6. request \in Results
  BY CronAssumption DEF AllRequests, Results
<1>7. OneMoves(Edit) /\ thread'[Edit].pc = "write"
  BY <1>1, <1>3, <1>5, <1>6, RequestFacts, BecomeFacts
<1> QED
  BY <1>1, <1>7, VariablesTyped, CallFrame DEF EditStarts, CallPCs

\* EditWrites leaves the queue setting of the row alone.
LEMMA EditWritesIInv == ASSUME IInv, EditWrites PROVE IInv'
<1> DEFINE job == thread[Edit].job
<1>1. StateTypeOK /\ Edit \in Threads /\ Edit \in Callers /\ job \in Job
  BY ThreadTyped, ThreadNames DEF IInv, Callers
<1>2. UNCHANGED <<clock, runs, timer, orphans, instance, events, ran, missed, abandoned>>
  BY DEF EditWrites
<1>3. CASE Goto(Edit, "restart") /\
           \E enabled \in BOOLEAN, kind \in Kinds, at \in Nat, n \in Nat :
              row' = [row EXCEPT !.enabled = enabled, !.kind = kind, !.at = at, !.next = n]
  <2>1. OneMoves(Edit) /\ thread'[Edit].pc = "restart"
    BY <1>1, <1>3, GotoFacts DEF CallPCs
  <2>2. RowKept
    <3>1. PICK enabled \in BOOLEAN, kind \in Kinds, at \in Nat, n \in Nat :
              row' = [row EXCEPT !.enabled = enabled, !.kind = kind, !.at = at, !.next = n]
      BY <1>3
    <3> DEFINE r1 == [row EXCEPT !.enabled = enabled]
               r2 == [r1 EXCEPT !.kind = kind]
               r3 == [r2 EXCEPT !.at = at]
    <3>2. r1 \in Job /\ r1.exists = row.exists /\ r1.queue = row.queue
      BY VariablesTyped DEF Job
    <3> HIDE DEF r1
    <3>3. r2 \in Job /\ r2.exists = row.exists /\ r2.queue = row.queue
      BY <3>2 DEF Job
    <3> HIDE DEF r2
    <3>4. r3 \in Job /\ r3.exists = row.exists /\ r3.queue = row.queue
      BY <3>3 DEF Job
    <3> HIDE DEF r3
    <3>5. /\ [r3 EXCEPT !.next = n] \in Job
          /\ [r3 EXCEPT !.next = n].exists = row.exists
          /\ [r3 EXCEPT !.next = n].queue = row.queue
      BY <3>4 DEF Job
    <3>6. row' = [r3 EXCEPT !.next = n]
      BY <3>1, VariablesTyped DEF r1, r2, r3, Job
    <3> QED
      BY <3>5, <3>6 DEF RowKept
  <2> QED
    BY <1>1, <1>2, <2>1, <2>2, VariablesTyped, CallFrame DEF CallPCs
<1>4. CASE Become(Edit, Idle) /\ UNCHANGED row
  <2>1. OneMoves(Edit) /\ thread'[Edit].pc = "idle"
    BY <1>1, <1>4, IdleFacts, BecomeFacts
  <2> QED
    BY <1>1, <1>2, <1>4, <2>1, VariablesTyped, CallFrame DEF CallPCs, RowKept
<1>5. \/ Become(Edit, Idle) /\ UNCHANGED row
      \/ Goto(Edit, "restart") /\
           \E enabled \in BOOLEAN, kind \in Kinds, at \in Nat, n \in Nat :
              row' = [row EXCEPT !.enabled = enabled, !.kind = kind, !.at = at, !.next = n]
  <2> DEFINE request == thread[Edit].result
             enabled == IF request \in {"enable", "disable"} THEN job.enabled ELSE row.enabled
             kind == IF request = "schedule" THEN job.kind ELSE row.kind
             at == IF request = "schedule" THEN job.at ELSE row.at
             n == IF request = "name" THEN row.next ELSE job.next
  <2>1. enabled \in BOOLEAN /\ kind \in Kinds /\ at \in Nat /\ n \in Nat
    BY <1>1, VariablesTyped DEF Job
  <2>2. \/ Become(Edit, Idle) /\ UNCHANGED row
        \/ Goto(Edit, "restart") /\
             row' = [row EXCEPT !.enabled = enabled, !.kind = kind, !.at = at, !.next = n]
    BY DEF EditWrites
  <2> HIDE DEF enabled, kind, at, n
  <2> QED
    BY <2>1, <2>2
<1> QED
  BY <1>3, <1>4, <1>5

\* RemoveStarts takes the timer away.
LEMMA RemoveStartsIInv == ASSUME IInv, RemoveStarts PROVE IInv'
<1>1. StateTypeOK /\ RowKept /\ Remove \in Threads /\ Remove \in Callers
  BY VariablesTyped, ThreadNames DEF RemoveStarts, RowKept, IInv, Callers
<1> DEFINE r == [Idle EXCEPT !.pc = "delete"]
<1>2. r \in ThreadState /\ r.pc = "delete"
  BY IdleFacts, PlaceChanged DEF CallPCs
<1>3. Become(Remove, r)
  BY DEF RemoveStarts
<1> HIDE DEF r
<1>4. OneMoves(Remove) /\ thread'[Remove].pc = "delete"
  BY <1>1, <1>2, <1>3, BecomeFacts
<1> QED
  BY <1>1, <1>4, VariablesTyped, CallFrame DEF RemoveStarts, CallPCs

\* NowStarts: run_now holds no occurrence.
LEMMA NowStartsIInv == ASSUME IInv, NowStarts PROVE IInv'
<1>1. StateTypeOK /\ RowKept /\ RunNow \in Threads /\ RunNow \in Callers
  BY VariablesTyped, ThreadNames DEF NowStarts, RowKept, IInv, Callers
<1>2. CASE UNCHANGED thread
  <2>1. OneMoves(RunNow) /\ thread'[RunNow].pc \in CallPCs
    BY <1>1, <1>2, ThreadTyped DEF OneMoves, StateTypeOK
  <2> QED
    BY <1>1, <2>1, VariablesTyped, CallFrame DEF NowStarts
<1>3. CASE Become(RunNow, WithJob(Idle, "begin", row))
  <2>1. OneMoves(RunNow) /\ thread'[RunNow].pc = "begin"
    BY <1>1, <1>3, IdleFacts, VariablesTyped, WithJobFacts, BecomeFacts DEF CallPCs
  <2> QED
    BY <1>1, <2>1, VariablesTyped, CallFrame DEF NowStarts, CallPCs
<1> QED
  BY <1>2, <1>3 DEF NowStarts, WithJob

\* NowTurn: its turn is not that of an occurrence.
LEMMA NowTurnIInv == ASSUME IInv, NowTurn PROVE IInv'
<1>1. StateTypeOK /\ RowKept /\ RunNow \in Threads /\ RunNow \in Callers
  BY VariablesTyped, ThreadNames DEF NowTurn, RowKept, IInv, Callers
<1>2. \/ GotoWith(RunNow, "count", "error")
      \/ Goto(RunNow, "run")
      \/ GotoWith(RunNow, "count", "ok")
  BY DEF NowTurn
<1>3. OneMoves(RunNow) /\ thread'[RunNow].pc \in {"run", "count"}
  BY <1>1, <1>2, GotoFacts, GotoWithFacts DEF CallPCs, Results
<1> QED
  BY <1>1, <1>3, VariablesTyped, CallFrame DEF NowTurn, CallPCs

\* ResumeStarts changes one thread.
LEMMA ResumeStartsIInv == ASSUME IInv, ResumeStarts PROVE IInv'
<1>1. StateTypeOK /\ RowKept /\ Power \in Threads /\ Power \in Callers
  BY VariablesTyped, ThreadNames DEF ResumeStarts, RowKept, IInv, Callers
<1> DEFINE r == WithResult(Idle, "list", "resume")
<1>2. r \in ThreadState /\ r.pc = "list"
  BY IdleFacts, WithResultFacts DEF CallPCs, Results
<1>3. Become(Power, r)
  BY DEF ResumeStarts, WithResult
<1> HIDE DEF r
<1>4. OneMoves(Power) /\ thread'[Power].pc = "list"
  BY <1>1, <1>2, <1>3, BecomeFacts
<1> QED
  BY <1>1, <1>4, VariablesTyped, CallFrame DEF ResumeStarts, CallPCs

\* List copies the row.
LEMMA ListIInv == ASSUME IInv, List PROVE IInv'
<1>1. /\ StateTypeOK /\ RowKept /\ Power \in Threads /\ Power \in Callers
      /\ thread[Power] \in ThreadState
  BY ThreadTyped, VariablesTyped, ThreadNames DEF List, RowKept, IInv, Callers
<1>2. Become(Power, Idle) \/ Become(Power, WithJob(thread[Power], "inspect", row))
  BY DEF List, WithJob, Drop
<1>3. OneMoves(Power) /\ thread'[Power].pc \in {"idle", "inspect"}
  <2>1. CASE Become(Power, Idle)
    BY <1>1, <2>1, IdleFacts, BecomeFacts
  <2>2. CASE Become(Power, WithJob(thread[Power], "inspect", row))
    <3> DEFINE r == WithJob(thread[Power], "inspect", row)
    <3>1. r \in ThreadState /\ r.pc = "inspect"
      <4>1. "inspect" \in TickPCs \cup CallPCs /\ row \in Job
        BY <1>1, VariablesTyped DEF CallPCs
      <4> QED
        BY <1>1, <4>1, WithJobFacts
    <3>2. Become(Power, r)
      BY <2>2
    <3> HIDE DEF r
    <3> QED
      BY <1>1, <3>1, <3>2, BecomeFacts
  <2> QED
    BY <1>2, <2>1, <2>2
<1> QED
  BY <1>1, <1>3, VariablesTyped, CallFrame DEF List, CallPCs

\* Inspect concerns the timer only.
LEMMA InspectIInv == ASSUME IInv, Inspect PROVE IInv'
<1>1. StateTypeOK /\ RowKept /\ Power \in Threads /\ Power \in Callers
  BY VariablesTyped, ThreadNames DEF Inspect, RowKept, IInv, Callers
<1>2. CASE \E new \in Timer : Schedule(Power, new)
  <2>1. OneMoves(Power) /\ thread'[Power].pc \in {"idle", "arm"} /\ timer' = NoTimer
    BY <1>1, <1>2, ScheduleFacts
  <2> QED
    BY <1>1, <2>1, VariablesTyped, CallFrame DEF Inspect, CallPCs
<1>3. CASE Goto(Power, "missed") /\ UNCHANGED timer
  <2>1. OneMoves(Power) /\ thread'[Power].pc = "missed"
    BY <1>1, <1>3, GotoFacts DEF CallPCs
  <2> QED
    BY <1>1, <1>3, <2>1, VariablesTyped, CallFrame DEF Inspect, CallPCs
<1>4. /\ JobTimer(thread[Power].job) \in Timer
      /\ \A o \in Recoverable : RetryTimer(o) \in Timer
  BY <1>1, ThreadTyped, JobTimerType, RetryTimerType DEF Recoverable
<1> QED
  BY <1>2, <1>3, <1>4 DEF Inspect

\* Missed resets a counter of the row.
LEMMA MissedIInv == ASSUME IInv, Missed PROVE IInv'
<1>1. StateTypeOK /\ Power \in Threads /\ Power \in Callers
  BY ThreadNames DEF IInv, Callers
<1>2. OneMoves(Power) /\ thread'[Power].pc = "advance"
  BY <1>1, GotoFacts DEF Missed, CallPCs
<1>3. RowKept
  BY VariablesTyped DEF Missed, RowKept, Job
<1> QED
  BY <1>1, <1>2, <1>3, VariablesTyped, CallFrame DEF Missed, CallPCs

-----------------------------------------------------------------------------
(* Steps of a tick that holds its run.                                     *)

\* What the places and runs of ticks other than t keep.
LEMMA HoldersStay ==
    ASSUME NEW t \in Threads, OneMoves(t)
    PROVE  \A u \in Ticks \ {t} : thread'[u] = thread[u] /\ (Holds(u)' <=> Holds(u))
  BY OthersStay DEF Holds

\* The runs of a step that leaves the row alone keep their ticks, but for t.
LEMMA OthersKnowTheirRun ==
    ASSUME IInv, NEW t \in Threads, OneMoves(t), row'.queue = row.queue,
           t \in Ticks =>
              /\ thread'[t].pc \in {"load", "claim"} \cup HoldPCs =>
                    thread'[t].occ \in Occurrences
              /\ thread'[t].pc \in {"claim"} \cup HoldPCs /\ row.queue =>
                    thread'[t].job.queue
              /\ thread'[t].pc = "finish" =>
                    thread'[t].result \in {"ok", "error", "skipped", "retry"}
              /\ thread'[t].pc = "finish" /\ row.queue => thread'[t].result # "retry"
    PROVE  TicksKnowTheirRun'
<1> SUFFICES ASSUME NEW u \in Ticks
             PROVE  /\ thread'[u].pc \in {"load", "claim"} \cup HoldPCs =>
                          thread'[u].occ \in Occurrences
                    /\ thread'[u].pc \in {"claim"} \cup HoldPCs /\ row.queue =>
                          thread'[u].job.queue
                    /\ thread'[u].pc = "finish" =>
                          thread'[u].result \in {"ok", "error", "skipped", "retry"}
                    /\ thread'[u].pc = "finish" /\ row.queue => thread'[u].result # "retry"
  BY DEF TicksKnowTheirRun
<1>1. CASE u = t
  BY <1>1
<1>2. CASE u # t
  BY <1>2, OthersStay DEF IInv, RunsInv, TicksKnowTheirRun
<1> QED
  BY <1>1, <1>2

\* A tick that goes on holding its run may have started the turn of it.
LEMMA HoldFrame ==
    ASSUME IInv, NEW t \in Ticks, OneMoves(t),
           UNCHANGED <<clock, row, runs, timer, orphans, instance, abandoned>>,
           Holds(t), thread'[t].pc \in HoldPCs,
           thread'[t].occ = thread[t].occ, thread'[t].job = thread[t].job,
           \/ ran' = ran
           \/ ran[thread[t].occ] = 0 /\ ran' = [ran EXCEPT ![thread[t].occ] = 1],
           \/ thread'[t].pc \in {"prepare", "start"}
           \/ thread'[t].pc = "finish" /\ thread'[t].result = "retry"
           => ran'[thread[t].occ] = 0,
           thread'[t].pc = "finish" =>
              /\ thread'[t].result \in {"ok", "error", "skipped", "retry"}
              /\ row.queue => thread'[t].result # "retry"
    PROVE  IInv'
<1> DEFINE o == thread[t].occ
<1>1. o \in Occurrences /\ (row.queue => thread[t].job.queue)
  BY DEF IInv, RunsInv, TicksKnowTheirRun, Holds
<1>2. t \in Threads /\ StateTypeOK /\ ran \in [Occurrences -> Nat]
  BY ThreadNames DEF IInv, StateTypeOK, VariablesTypeOK
<1>3. /\ ran' \in [Occurrences -> Nat]
      /\ \A p \in Occurrences \ {o} : ran'[p] = ran[p]
      /\ ran'[o] = ran[o] \/ ran'[o] = 1
  BY <1>1, <1>2
<1>4. VariablesTypeOK'
  BY <1>2, <1>3 DEF StateTypeOK, VariablesTypeOK
<1>5. StateTypeOK'
  BY <1>2, <1>4, TypeFrame, ThreadNames DEF HoldPCs, TickPCs
<1>6. \A u \in Ticks : (Holds(u)' <=> Holds(u)) /\ (Holds(u) => thread'[u].occ = thread[u].occ)
  <2> SUFFICES ASSUME NEW u \in Ticks
               PROVE  (Holds(u)' <=> Holds(u)) /\ (Holds(u) => thread'[u].occ = thread[u].occ)
    OBVIOUS
  <2>1. CASE u = t
    BY <2>1 DEF Holds
  <2>2. CASE u # t
    BY <1>2, <2>2, HoldersStay
  <2> QED
    BY <2>1, <2>2
<1>7. TicksKnowTheirRun'
  BY <1>1, <1>2, OthersKnowTheirRun DEF HoldPCs
<1>8. HoldersDiffer'
  BY <1>6 DEF IInv, RunsInv, HoldersDiffer
<1>9. HoldersOwn'
  BY <1>6 DEF IInv, RunsInv, HoldersOwn, Held
<1>10. HoldersStartFirst'
  <2> SUFFICES ASSUME NEW u \in Ticks,
                      \/ thread'[u].pc \in {"prepare", "start"}
                      \/ thread'[u].pc = "finish" /\ thread'[u].result = "retry"
               PROVE  ran'[thread'[u].occ] = 0
    BY DEF HoldersStartFirst
  <2>1. CASE u = t
    BY <2>1
  <2>2. CASE u # t
    <3>1. thread'[u] = thread[u] /\ Holds(u)
      BY <2>2, <1>2, HoldersStay DEF Holds, HoldPCs
    <3>2. thread[u].occ # o /\ thread[u].occ \in Occurrences
      BY <2>2, <3>1 DEF IInv, RunsInv, HoldersDiffer, TicksKnowTheirRun, Holds
    <3>3. ran[thread[u].occ] = 0
      BY <3>1 DEF IInv, RunsInv, HoldersStartFirst
    <3> QED
      BY <1>3, <3>1, <3>2, <3>3
  <2> QED
    BY <2>1, <2>2
<1>11. StartedRunsEnd'
  <2> SUFFICES ASSUME row.exists, NEW p \in Occurrences, ran'[p] # 0
               PROVE  \/ runs[p].status \in {"ok", "error", "skipped"}
                      \/ \E u \in Ticks : Holds(u)' /\ thread'[u].occ = p
    BY DEF StartedRunsEnd
  <2>1. CASE p = o
    BY <2>1, <1>6
  <2>2. CASE p # o
    BY <2>2, <1>3, <1>6 DEF IInv, RunsInv, StartedRunsEnd
  <2> QED
    BY <2>1, <2>2
<1>12. QueueHasOneHolder'
  BY <1>6 DEF IInv, RunsInv, QueueHasOneHolder, Recoverable
<1>13. OccurrenceRunsOnce'
  BY <1>1, <1>3 DEF IInv, RunsInv, OccurrenceRunsOnce
<1> QED
  BY <1>5, <1>7, <1>8, <1>9, <1>10, <1>11, <1>12, <1>13 DEF IInv, RunsInv

\* What a tick knows of the run it holds.
LEMMA HolderKnows ==
    ASSUME IInv, NEW t \in Ticks, Holds(t)
    PROVE  /\ StateTypeOK
           /\ t \in Threads
           /\ thread[t] \in ThreadState
           /\ thread[t].occ \in Occurrences
           /\ row.queue => thread[t].job.queue
           /\ HandleBusy(thread[t].job) \in {"skipped", "retry"}
           /\ row.queue => HandleBusy(thread[t].job) = "skipped"
           /\ \/ thread[t].pc \in {"prepare", "start"}
              \/ thread[t].pc = "finish" /\ thread[t].result = "retry"
              => ran[thread[t].occ] = 0
  BY ThreadNames
     DEF IInv, StateTypeOK, RunsInv, TicksKnowTheirRun, HoldersStartFirst, Holds, HandleBusy

\* Prepare: the holder goes on, or has a result; a queued job has no retry.
LEMMA PrepareIInv == ASSUME IInv, NEW t \in Threads, Prepare(t) PROVE IInv'
<1>1. t \in Ticks /\ thread[t].pc = "prepare" /\ Holds(t)
  BY ThreadTyped, ThreadNames DEF Prepare, At, CallPCs, Holds, HoldPCs
<1>2. UNCHANGED <<clock, row, runs, timer, orphans, instance, ran, abandoned>>
  BY DEF Prepare
<1>3. PICK x \in {"error", "skipped", "retry"} :
         /\ GotoWith(t, "finish", x) \/ Goto(t, "start")
         /\ row.queue => x # "retry"
  BY <1>1, HolderKnows DEF Prepare
<1>4. /\ OneMoves(t)
      /\ thread'[t].occ = thread[t].occ
      /\ thread'[t].job = thread[t].job
      /\ \/ thread'[t].pc = "start"
         \/ thread'[t].pc = "finish" /\ thread'[t].result = x
  BY <1>1, <1>3, HolderKnows, GotoFacts, GotoWithFacts DEF TickPCs, Results
<1> QED
  BY <1>1, <1>2, <1>3, <1>4, HolderKnows, HoldFrame DEF HoldPCs

\* Start: the one turn of the occurrence, for none was started before.
LEMMA StartIInv == ASSUME IInv, NEW t \in Threads, Start(t) PROVE IInv'
<1>1. t \in Ticks /\ thread[t].pc = "start" /\ Holds(t)
  BY ThreadTyped, ThreadNames DEF Start, At, CallPCs, Holds, HoldPCs
<1>2. UNCHANGED <<clock, row, runs, timer, orphans, instance, abandoned>>
  BY DEF Start
<1>3. CASE ran' = ran /\ \E x \in {"error", "skipped", "retry"} :
              GotoWith(t, "finish", x) /\ (row.queue => x # "retry")
  <2>1. PICK x \in {"error", "skipped", "retry"} :
           GotoWith(t, "finish", x) /\ (row.queue => x # "retry")
    BY <1>3
  <2>2. /\ OneMoves(t)
        /\ thread'[t].occ = thread[t].occ
        /\ thread'[t].job = thread[t].job
        /\ thread'[t].pc = "finish" /\ thread'[t].result = x
    BY <1>1, <2>1, HolderKnows, GotoWithFacts DEF TickPCs, Results
  <2> QED
    BY <1>1, <1>2, <1>3, <2>1, <2>2, HolderKnows, HoldFrame DEF HoldPCs
<1>4. CASE Goto(t, "run") /\ ran' = [ran EXCEPT ![thread[t].occ] = @ + 1]
  <2>1. /\ OneMoves(t)
        /\ thread'[t].occ = thread[t].occ
        /\ thread'[t].job = thread[t].job
        /\ thread'[t].pc = "run"
    BY <1>1, <1>4, HolderKnows, GotoFacts DEF TickPCs
  <2>2. ran[thread[t].occ] = 0
    BY <1>1, HolderKnows
  <2>3. ran' = [ran EXCEPT ![thread[t].occ] = 1]
    BY <1>4, <2>2
  <2> QED
    BY <1>1, <1>2, <2>1, <2>2, <2>3, HoldFrame DEF HoldPCs
<1> QED
  BY <1>1, <1>3, <1>4, HolderKnows DEF Start

\* TurnEnds: the holder has its result.
LEMMA TurnEndsIInv == ASSUME IInv, NEW t \in Threads, TurnEnds(t) PROVE IInv'
<1>1. t \in Ticks /\ Holds(t)
  BY DEF TurnEnds, At, Holds, HoldPCs
<1>2. PICK x \in {"ok", "error"} : GotoWith(t, "finish", x)
  BY DEF TurnEnds
<1>3. /\ OneMoves(t)
      /\ thread'[t].occ = thread[t].occ
      /\ thread'[t].job = thread[t].job
      /\ thread'[t].pc = "finish" /\ thread'[t].result = x
  BY <1>1, <1>2, HolderKnows, GotoWithFacts DEF TickPCs, Results
<1> QED
  BY <1>1, <1>2, <1>3, HoldFrame DEF TurnEnds, HoldPCs

\* A tick lets go of its run: it ends, or waits for a tick to come and no turn
\* was started for it.
LEMMA ReleaseFrame ==
    ASSUME IInv, NEW t \in Ticks, Holds(t), OneMoves(t),
           thread'[t].pc \in TickPCs \ ({"load", "claim"} \cup HoldPCs),
           UNCHANGED <<clock, row, orphans, instance, ran, abandoned>>, timer' \in Timer,
           NEW v \in Run, runs' = runs \/ runs' = [runs EXCEPT ![thread[t].occ] = v],
           row.exists =>
              /\ runs' = [runs EXCEPT ![thread[t].occ] = v]
              /\ \/ v.status \in {"ok", "error", "skipped"}
                 \/ ran[thread[t].occ] = 0 /\ ~row.queue
    PROVE  IInv'
<1> DEFINE o == thread[t].occ
<1>1. /\ o \in Occurrences /\ t \in Threads /\ StateTypeOK
      /\ runs \in [Occurrences -> Run] /\ (row.queue => row.exists)
  BY HolderKnows DEF StateTypeOK, VariablesTypeOK
<1>2. /\ runs' \in [Occurrences -> Run]
      /\ row.exists => runs'[o] = v
      /\ \A p \in Occurrences \ {o} : runs'[p] = runs[p]
  BY <1>1
<1>3. VariablesTypeOK'
  BY <1>1, <1>2 DEF StateTypeOK, VariablesTypeOK
<1>4. StateTypeOK'
  BY <1>1, <1>3, TypeFrame, ThreadNames
<1>5. \A u \in Ticks : Holds(u)' => u # t /\ Holds(u) /\ thread'[u] = thread[u]
  BY <1>1, HoldersStay DEF Holds
<1>6. \A u \in Ticks : Holds(u) => u = t \/ (Holds(u)' /\ thread'[u] = thread[u])
  BY <1>1, HoldersStay
<1>7. \A u \in Ticks : Holds(u)' => thread[u].occ \in Occurrences \ {o}
  BY <1>5 DEF IInv, RunsInv, HoldersDiffer, TicksKnowTheirRun, Holds
<1>8. TicksKnowTheirRun'
  BY <1>1, OthersKnowTheirRun DEF HoldPCs
<1>9. HoldersDiffer'
  BY <1>5 DEF IInv, RunsInv, HoldersDiffer
<1>10. HoldersOwn'
  BY <1>2, <1>5, <1>7 DEF IInv, RunsInv, HoldersOwn, Held
<1>11. HoldersStartFirst'
  BY <1>5 DEF IInv, RunsInv, HoldersStartFirst, Holds, HoldPCs
<1>12. StartedRunsEnd'
  <2> SUFFICES ASSUME row.exists, NEW p \in Occurrences, ran[p] # 0
               PROVE  \/ runs'[p].status \in {"ok", "error", "skipped"}
                      \/ \E u \in Ticks : Holds(u)' /\ thread'[u].occ = p
    BY DEF StartedRunsEnd
  <2>1. CASE p = o
    BY <2>1, <1>2
  <2>2. CASE p # o
    BY <2>2, <1>2, <1>6 DEF IInv, RunsInv, StartedRunsEnd
  <2> QED
    BY <2>1, <2>2
<1>13. QueueHasOneHolder'
  <2> SUFFICES ASSUME row.queue, ~abandoned
               PROVE  /\ \A u, w \in Ticks : Holds(u)' /\ Holds(w)' => u = w
                      /\ \A p \in Recoverable' :
                            \E u \in Ticks : Holds(u)' /\ thread'[u].occ = p
    BY DEF QueueHasOneHolder
  <2>1. \A u, w \in Ticks : Holds(u)' /\ Holds(w)' => u = w
    BY <1>5 DEF IInv, RunsInv, QueueHasOneHolder
  <2>2. ASSUME NEW p \in Recoverable'
        PROVE  \E u \in Ticks : Holds(u)' /\ thread'[u].occ = p
    <3>1. p \in Occurrences /\ runs'[p].status \in {"running", "retrying"}
      BY DEF Recoverable
    <3>2. p # o
      BY <1>1, <1>2, <3>1
    <3>3. p \in Recoverable
      BY <1>2, <3>1, <3>2 DEF Recoverable
    <3>4. PICK u \in Ticks : Holds(u) /\ thread[u].occ = p
      BY <3>3 DEF IInv, RunsInv, QueueHasOneHolder
    <3> QED
      BY <1>6, <3>2, <3>4
  <2> QED
    BY <2>1, <2>2
<1>14. OccurrenceRunsOnce'
  BY DEF IInv, RunsInv, OccurrenceRunsOnce
<1> QED
  BY <1>4, <1>8, <1>9, <1>10, <1>11, <1>12, <1>13, <1>14 DEF IInv, RunsInv

\* And they do when a tick leaves its run unfinished: it is known that it did, and
\* the turns of the run are not counted any more.
LEMMA AbandonFrame ==
    ASSUME IInv, NEW t \in Ticks, Holds(t), OneMoves(t), thread'[t].pc = "idle",
           UNCHANGED <<clock, row, runs, timer, orphans, instance>>,
           abandoned' \in BOOLEAN, abandoned => abandoned', row.exists => abandoned',
           \/ ran' = [ran EXCEPT ![thread[t].occ] = 0]
           \/ ran' = ran /\ ~row.exists
    PROVE  IInv'
<1> DEFINE o == thread[t].occ
<1>1. /\ o \in Occurrences /\ t \in Threads /\ StateTypeOK
      /\ ran \in [Occurrences -> Nat] /\ (row.queue => row.exists)
  BY HolderKnows DEF StateTypeOK, VariablesTypeOK
<1>2. /\ ran' \in [Occurrences -> Nat]
      /\ \A p \in Occurrences : ran'[p] # 0 => ran'[p] = ran[p] /\ ran[p] # 0
      /\ row.exists => ran'[o] = 0
  BY <1>1
<1>3. VariablesTypeOK'
  BY <1>1, <1>2 DEF StateTypeOK, VariablesTypeOK
<1>4. StateTypeOK'
  BY <1>1, <1>3, TypeFrame, ThreadNames DEF TickPCs
<1>5. \A u \in Ticks : Holds(u)' => u # t /\ Holds(u) /\ thread'[u] = thread[u]
  BY <1>1, HoldersStay DEF Holds, HoldPCs
<1>6. \A u \in Ticks : Holds(u) => u = t \/ (Holds(u)' /\ thread'[u] = thread[u])
  BY <1>1, HoldersStay
<1>7. \A u \in Ticks : Holds(u)' => thread[u].occ \in Occurrences
  BY <1>5 DEF IInv, RunsInv, TicksKnowTheirRun, Holds
<1>8. TicksKnowTheirRun'
  BY <1>1, OthersKnowTheirRun DEF HoldPCs
<1>9. HoldersDiffer'
  BY <1>5 DEF IInv, RunsInv, HoldersDiffer
<1>10. HoldersOwn'
  BY <1>5 DEF IInv, RunsInv, HoldersOwn, Held
<1>11. HoldersStartFirst'
  BY <1>2, <1>5, <1>7 DEF IInv, RunsInv, HoldersStartFirst, Holds, HoldPCs
<1>12. StartedRunsEnd'
  <2> SUFFICES ASSUME row.exists, NEW p \in Occurrences, ran'[p] # 0
               PROVE  \/ runs[p].status \in {"ok", "error", "skipped"}
                      \/ \E u \in Ticks : Holds(u)' /\ thread'[u].occ = p
    BY DEF StartedRunsEnd
  <2> QED
    BY <1>2, <1>6 DEF IInv, RunsInv, StartedRunsEnd
<1>13. QueueHasOneHolder'
  BY <1>1 DEF QueueHasOneHolder
<1>14. OccurrenceRunsOnce'
  BY <1>1, <1>2 DEF IInv, RunsInv, OccurrenceRunsOnce
<1> QED
  BY <1>4, <1>8, <1>9, <1>10, <1>11, <1>12, <1>13, <1>14 DEF IInv, RunsInv

\* A run that has ended.
Ended(run, result) == [run EXCEPT !.status = result, !.live = FALSE]

\* It has its type and its status.
LEMMA EndedFacts ==
    ASSUME NEW run \in Run, NEW result \in {"ok", "error", "skipped"}
    PROVE  Ended(run, result) \in Run /\ Ended(run, result).status = result
<1> DEFINE w == [run EXCEPT !.status = result]
<1>1. result \in Statuses
  BY DEF Statuses
<1>2. w \in Run /\ w.status = result
  BY <1>1 DEF Run
<1>3. Ended(run, result) = [w EXCEPT !.live = FALSE]
  BY DEF Ended, Run
<1> HIDE DEF w
<1> QED
  BY <1>2, <1>3 DEF Run

\* Finish: the holder's write meets its own run, unless the job is gone.
LEMMA FinishIInv == ASSUME IInv, NEW t \in Threads, Finish(t) PROVE IInv'
<1> DEFINE o == thread[t].occ
<1>1. t \in Ticks /\ thread[t].pc = "finish" /\ Holds(t)
  BY ThreadTyped, ThreadNames DEF Finish, At, CallPCs, Holds, HoldPCs
<1>2. StateTypeOK /\ o \in Occurrences /\ runs \in [Occurrences -> Run]
  BY <1>1, HolderKnows DEF StateTypeOK, VariablesTypeOK
<1>3. UNCHANGED <<clock, row, orphans, instance>>
  BY DEF Finish
<1>4. thread[t].result \in {"ok", "error", "skipped", "retry"}
      /\ (row.queue => thread[t].result # "retry")
  BY <1>1 DEF IInv, RunsInv, TicksKnowTheirRun
<1>5. row.exists => OwnsRun(o)
  BY <1>1 DEF IInv, RunsInv, HoldersOwn, Held, OwnsRun
<1>6. runs[o] \in Run
  BY <1>2
<1>7. CASE ~OwnsRun(o) /\ Become(t, Idle) /\ UNCHANGED <<runs, timer, ran, abandoned>>
  <2>1. OneMoves(t) /\ thread'[t].pc = "idle"
    BY <1>2, <1>7, IdleFacts, BecomeFacts
  <2> QED
    BY <1>1, <1>3, <1>5, <1>6, <1>7, <2>1, VariablesTyped, ReleaseFrame DEF TickPCs, HoldPCs
<1>8. CASE /\ thread[t].result = "retry"
           /\ runs' = [runs EXCEPT ![o] = [status |-> "retrying", owner |-> 0, live |-> TRUE]]
           /\ Schedule(t, RetryTimer(o))
           /\ UNCHANGED <<ran, abandoned>>
  <2> DEFINE v == [status |-> "retrying", owner |-> 0, live |-> TRUE]
  <2>1. v \in Run
    BY DEF Run, Statuses
  <2>2. OneMoves(t) /\ thread'[t].pc \in {"idle", "arm"} /\ timer' = NoTimer
    BY <1>2, <1>8, RetryTimerType, ScheduleFacts
  <2>3. ran[o] = 0 /\ ~row.queue
    BY <1>1, <1>4, <1>8, HolderKnows
  <2>4. thread'[t].pc \in TickPCs \ ({"load", "claim"} \cup HoldPCs)
    BY <2>2 DEF TickPCs, HoldPCs
  <2>5. runs' = [runs EXCEPT ![o] = v]
    BY <1>8
  <2> HIDE DEF v
  <2> QED
    BY <1>1, <1>3, <1>8, <2>1, <2>2, <2>3, <2>4, <2>5, VariablesTyped, ReleaseFrame
<1>9. CASE /\ thread[t].result # "retry"
           /\ runs' = [runs EXCEPT ![o] = [@ EXCEPT !.status = thread[t].result,
                                                    !.live = FALSE]]
           /\ Goto(t, "count")
           /\ UNCHANGED <<timer, ran, abandoned>>
  <2> DEFINE v == Ended(runs[o], thread[t].result)
  <2>1. thread[t].result \in {"ok", "error", "skipped"}
    BY <1>4, <1>9
  <2>2. v \in Run
    BY <1>6, <2>1, EndedFacts
  <2>3. v.status \in {"ok", "error", "skipped"}
    BY <1>6, <2>1, EndedFacts
  <2>4. OneMoves(t) /\ thread'[t].pc = "count"
    BY <1>2, <1>9, GotoFacts DEF TickPCs
  <2>5. thread'[t].pc \in TickPCs \ ({"load", "claim"} \cup HoldPCs)
    BY <2>4 DEF TickPCs, HoldPCs
  <2>6. runs' = [runs EXCEPT ![o] = v]
    BY <1>9 DEF Ended
  <2> HIDE DEF v
  <2> QED
    BY <1>1, <1>3, <1>9, <2>2, <2>3, <2>4, <2>5, <2>6, VariablesTyped, ReleaseFrame
<1>10. CASE /\ Become(t, Idle)
            /\ abandoned' = (abandoned \/ OwnsRun(o))
            /\ ran' = [ran EXCEPT ![o] = IF OwnsRun(o) THEN 0 ELSE @]
            /\ UNCHANGED <<runs, timer>>
  <2>1. OneMoves(t) /\ thread'[t].pc = "idle"
    BY <1>2, <1>10, IdleFacts, BecomeFacts
  <2>2. abandoned \in BOOLEAN /\ OwnsRun(o) \in BOOLEAN
    BY <1>2 DEF StateTypeOK, VariablesTypeOK, OwnsRun
  <2>3. abandoned' \in BOOLEAN /\ (abandoned => abandoned') /\ (row.exists => abandoned')
    BY <1>5, <1>10, <2>2
  <2>4. ran' = [ran EXCEPT ![o] = 0] \/ (ran' = ran /\ ~row.exists)
    <3>1. CASE OwnsRun(o)
      BY <1>10, <3>1
    <3>2. CASE ~OwnsRun(o)
      <4>1. ran' = [ran EXCEPT ![o] = ran[o]] /\ ran \in [Occurrences -> Nat]
        BY <1>2, <1>10, <3>2 DEF StateTypeOK, VariablesTypeOK
      <4> QED
        BY <1>5, <3>2, <4>1
    <3> QED
      BY <3>1, <3>2
  <2> QED
    BY <1>1, <1>3, <1>10, <2>1, <2>3, <2>4, AbandonFrame
<1> QED
  BY <1>7, <1>8, <1>9, <1>10 DEF Finish, Drop

-----------------------------------------------------------------------------
(* The claim, and the steps that are no thread's.                          *)

\* A run that a tick may claim is not held, and no turn was started for it.
LEMMA ClaimableIsFree ==
    ASSUME IInv, row.exists, NEW o \in Occurrences,
           Takeable(runs[o]) \/ runs[o].status = "none"
    PROVE  ran[o] = 0 /\ \A u \in Ticks : Holds(u) => thread[u].occ # o
<1>1. \A u \in Ticks : Holds(u) => thread[u].occ # o
  BY DEF IInv, RunsInv, HoldersOwn, Held, Takeable
<1>2. runs[o].status \notin {"ok", "error", "skipped"}
  BY DEF Takeable
<1>3. ran \in [Occurrences -> Nat]
  BY DEF IInv, StateTypeOK, VariablesTypeOK
<1> QED
  BY <1>1, <1>2, <1>3 DEF IInv, RunsInv, StartedRunsEnd

\* As long as no run was left so, a claim of a queued job finds nothing held or unfinished.
LEMMA QueueIsFree ==
    ASSUME IInv, row.queue, ~abandoned, NEW t \in Ticks, thread[t].pc = "claim",
           Takeable(runs[thread[t].occ]) \/ ~QueueBusy(thread[t].job)
    PROVE  Recoverable = {} /\ \A u \in Ticks : ~Holds(u)
<1>1. row.exists /\ thread[t].job.queue /\ thread[t].occ \in Occurrences
  BY DEF IInv, RunsInv, TicksKnowTheirRun, StateTypeOK, VariablesTypeOK
<1>2. \A u \in Ticks : Holds(u) => thread[u].occ \in Occurrences /\ Held(thread[u].occ)
  BY <1>1 DEF IInv, RunsInv, TicksKnowTheirRun, HoldersOwn, Holds
<1>3. \A o \in Recoverable : \E u \in Ticks : Holds(u) /\ thread[u].occ = o
  BY DEF IInv, RunsInv, QueueHasOneHolder
<1>4. ~Takeable(runs[thread[t].occ])
  BY <1>1, <1>2, <1>3 DEF Takeable, Recoverable, Held
<1>5. \A o \in Recoverable : ~runs[o].live
  BY <1>1, <1>4 DEF QueueBusy
<1> QED
  BY <1>2, <1>3, <1>5 DEF Held, Recoverable

\* Steps of t that give occurrence o the run v.
LEMMA RunsTyped ==
    ASSUME StateTypeOK, NEW t \in Ticks, OneMoves(t), thread'[t].pc \in TickPCs,
           UNCHANGED <<clock, row, timer, orphans, instance, ran, abandoned>>,
           NEW o \in Occurrences, NEW v \in Run, runs' = [runs EXCEPT ![o] = v]
    PROVE  /\ StateTypeOK'
           /\ runs'[o] = v
           /\ \A p \in Occurrences \ {o} : runs'[p] = runs[p]
<1>1. runs' \in [Occurrences -> Run] /\ t \in Threads
  BY ThreadNames DEF StateTypeOK, VariablesTypeOK
<1>2. VariablesTypeOK'
  BY <1>1 DEF StateTypeOK, VariablesTypeOK
<1> QED
  BY <1>1, <1>2, TypeFrame, ThreadNames DEF StateTypeOK, VariablesTypeOK

\* The claim that succeeds.
LEMMA TakeIInv ==
    ASSUME IInv, NEW t \in Ticks, thread[t].pc = "claim", row.exists,
           \/ Takeable(runs[thread[t].occ])
           \/ (runs[thread[t].occ].status = "none" /\ ~QueueBusy(thread[t].job)),
           runs' = [runs EXCEPT ![thread[t].occ] = [status |-> "running", owner |-> instance,
                                                    live |-> TRUE]],
           Goto(t, "prepare"),
           UNCHANGED <<clock, row, timer, orphans, instance, ran, abandoned>>
    PROVE  IInv'
<1> DEFINE o == thread[t].occ
           v == [status |-> "running", owner |-> instance, live |-> TRUE]
<1>1. StateTypeOK /\ t \in Threads /\ o \in Occurrences /\ (row.queue => thread[t].job.queue)
  BY ThreadNames DEF IInv, RunsInv, TicksKnowTheirRun
<1>2. v \in Run /\ v.status = "running" /\ v.owner = instance /\ v.live
  BY <1>1 DEF Run, Statuses, StateTypeOK, VariablesTypeOK
<1>3. runs' = [runs EXCEPT ![o] = v]
  OBVIOUS
<1> HIDE DEF v
<1>4. /\ OneMoves(t) /\ thread'[t].pc = "prepare"
      /\ thread'[t].occ = o /\ thread'[t].job = thread[t].job
  BY <1>1, GotoFacts DEF TickPCs
<1>5. /\ StateTypeOK' /\ runs'[o] = v
      /\ \A p \in Occurrences \ {o} : runs'[p] = runs[p]
  BY <1>1, <1>2, <1>3, <1>4, RunsTyped DEF TickPCs
<1>6. Holds(t)' /\ ~Holds(t)
  BY <1>4 DEF Holds, HoldPCs
<1>7. \A u \in Ticks \ {t} : thread'[u] = thread[u] /\ (Holds(u)' <=> Holds(u))
  BY <1>1, <1>4, HoldersStay
<1>8. ran[o] = 0 /\ \A u \in Ticks : Holds(u) => thread[u].occ # o
  BY <1>1, ClaimableIsFree
<1>9. \A u \in Ticks : Holds(u) => thread[u].occ \in Occurrences \ {o}
  BY <1>8 DEF IInv, RunsInv, TicksKnowTheirRun, Holds
<1>10. TicksKnowTheirRun'
  BY <1>1, <1>4, OthersKnowTheirRun
<1>11. HoldersDiffer'
  BY <1>4, <1>7, <1>8 DEF IInv, RunsInv, HoldersDiffer
<1>12. HoldersOwn'
  <2> SUFFICES ASSUME NEW u \in Ticks, Holds(u)'
               PROVE  /\ runs'[thread'[u].occ].status = "running"
                      /\ runs'[thread'[u].occ].live
                      /\ runs'[thread'[u].occ].owner = instance
    BY DEF HoldersOwn, Held
  <2>1. CASE u = t
    BY <2>1, <1>2, <1>4, <1>5
  <2>2. CASE u # t
    BY <2>2, <1>5, <1>7, <1>9 DEF IInv, RunsInv, HoldersOwn, Held
  <2> QED
    BY <2>1, <2>2
<1>13. HoldersStartFirst'
  <2> SUFFICES ASSUME NEW u \in Ticks,
                      \/ thread'[u].pc \in {"prepare", "start"}
                      \/ thread'[u].pc = "finish" /\ thread'[u].result = "retry"
               PROVE  ran[thread'[u].occ] = 0
    BY DEF HoldersStartFirst
  <2>1. CASE u = t
    BY <2>1, <1>4, <1>8
  <2>2. CASE u # t
    BY <2>2, <1>7 DEF IInv, RunsInv, HoldersStartFirst
  <2> QED
    BY <2>1, <2>2
<1>14. StartedRunsEnd'
  <2> SUFFICES ASSUME NEW p \in Occurrences, ran[p] # 0
               PROVE  \/ runs'[p].status \in {"ok", "error", "skipped"}
                      \/ \E u \in Ticks : Holds(u)' /\ thread'[u].occ = p
    BY DEF StartedRunsEnd
  <2>1. p # o
    BY <1>8
  <2>2. \/ runs[p].status \in {"ok", "error", "skipped"}
        \/ \E u \in Ticks : Holds(u) /\ thread[u].occ = p
    BY DEF IInv, RunsInv, StartedRunsEnd
  <2> QED
    BY <1>5, <1>6, <1>7, <2>1, <2>2
<1>15. QueueHasOneHolder'
  <2> SUFFICES ASSUME row.queue, ~abandoned
               PROVE  /\ \A u, w \in Ticks : Holds(u)' /\ Holds(w)' => u = w
                      /\ \A p \in Recoverable' :
                            \E u \in Ticks : Holds(u)' /\ thread'[u].occ = p
    BY DEF QueueHasOneHolder
  <2>1. Recoverable = {} /\ \A u \in Ticks : ~Holds(u)
    BY QueueIsFree
  <2>2. \A p \in Recoverable' : p = o
    BY <1>5, <2>1 DEF Recoverable
  <2> QED
    BY <1>4, <1>6, <1>7, <2>1, <2>2
<1>16. OccurrenceRunsOnce'
  BY DEF IInv, RunsInv, OccurrenceRunsOnce
<1> QED
  BY <1>5, <1>10, <1>11, <1>12, <1>13, <1>14, <1>15, <1>16 DEF IInv, RunsInv

\* The claim that finds the queue busy.
LEMMA SkipIInv ==
    ASSUME IInv, NEW t \in Ticks, thread[t].pc = "claim", row.exists,
           runs[thread[t].occ].status = "none",
           runs' = [runs EXCEPT ![thread[t].occ].status = "skipped"],
           GotoWith(t, "count", "skipped"),
           UNCHANGED <<clock, row, timer, orphans, instance, ran, abandoned>>
    PROVE  IInv'
<1> DEFINE o == thread[t].occ
           v == [runs[o] EXCEPT !.status = "skipped"]
<1>1. StateTypeOK /\ t \in Threads /\ o \in Occurrences
  BY ThreadNames DEF IInv, RunsInv, TicksKnowTheirRun
<1>2. v \in Run /\ v.status = "skipped"
  <2>1. runs[o] \in Run
    BY <1>1 DEF StateTypeOK, VariablesTypeOK
  <2> QED
    BY <2>1 DEF Run, Statuses
<1>3. runs' = [runs EXCEPT ![o] = v]
  OBVIOUS
<1> HIDE DEF v
<1>4. OneMoves(t) /\ thread'[t].pc = "count"
  BY <1>1, GotoWithFacts DEF TickPCs, Results
<1>5. /\ StateTypeOK' /\ runs'[o] = v
      /\ \A p \in Occurrences \ {o} : runs'[p] = runs[p]
  <2>1. thread'[t].pc \in TickPCs
    BY <1>4 DEF TickPCs
  <2>2. UNCHANGED <<clock, row, timer, orphans, instance, ran, abandoned>>
    OBVIOUS
  <2> HIDE DEF o
  <2> QED
    BY <1>1, <1>2, <1>3, <1>4, <2>1, <2>2, RunsTyped
<1>6. \A u \in Ticks :
         /\ Holds(u)' <=> Holds(u)
         /\ Holds(u) => u # t /\ thread'[u] = thread[u] /\ thread[u].occ \in Occurrences \ {o}
  <2>1. ~Holds(t) /\ ~Holds(t)'
    BY <1>4 DEF Holds, HoldPCs
  <2>2. \A u \in Ticks \ {t} : thread'[u] = thread[u] /\ (Holds(u)' <=> Holds(u))
    BY <1>1, <1>4, HoldersStay
  <2>3. \A u \in Ticks : Holds(u) => thread[u].occ \in Occurrences \ {o}
    BY <1>1, ClaimableIsFree DEF IInv, RunsInv, TicksKnowTheirRun, Holds
  <2> QED
    BY <2>1, <2>2, <2>3
<1>7. TicksKnowTheirRun'
  BY <1>1, <1>4, OthersKnowTheirRun DEF HoldPCs
<1>8. HoldersDiffer'
  BY <1>6 DEF IInv, RunsInv, HoldersDiffer
<1>9. HoldersOwn'
  BY <1>5, <1>6 DEF IInv, RunsInv, HoldersOwn, Held
<1>10. HoldersStartFirst'
  BY <1>6 DEF IInv, RunsInv, HoldersStartFirst, Holds, HoldPCs
<1>11. StartedRunsEnd'
  <2> SUFFICES ASSUME NEW p \in Occurrences, ran[p] # 0
               PROVE  \/ runs'[p].status \in {"ok", "error", "skipped"}
                      \/ \E u \in Ticks : Holds(u)' /\ thread'[u].occ = p
    BY DEF StartedRunsEnd
  <2>1. CASE p = o
    BY <2>1, <1>2, <1>5
  <2>2. CASE p # o
    BY <2>2, <1>5, <1>6 DEF IInv, RunsInv, StartedRunsEnd
  <2> QED
    BY <2>1, <2>2
<1>12. QueueHasOneHolder'
  <2>1. Recoverable' \subseteq Recoverable
    BY <1>2, <1>5 DEF Recoverable
  <2> QED
    BY <1>6, <2>1 DEF IInv, RunsInv, QueueHasOneHolder
<1>13. OccurrenceRunsOnce'
  BY DEF IInv, RunsInv, OccurrenceRunsOnce
<1> QED
  BY <1>5, <1>7, <1>8, <1>9, <1>10, <1>11, <1>12, <1>13 DEF IInv, RunsInv

\* Claim: taken, skipped or a duplicate.
LEMMA ClaimIInv == ASSUME IInv, NEW t \in Threads, Claim(t) PROVE IInv'
<1>1. t \in Ticks /\ thread[t].pc = "claim" /\ StateTypeOK
  BY ThreadTyped, ThreadNames DEF Claim, At, CallPCs
<1>2. UNCHANGED <<clock, row, timer, orphans, instance, ran, abandoned>>
  BY DEF Claim
<1> DEFINE o == thread[t].occ
           taken == [status |-> "running", owner |-> instance, live |-> TRUE]
<1>3. \/ /\ row.exists /\ (\/ Takeable(runs[o])
                           \/ (runs[o].status = "none" /\ ~QueueBusy(thread[t].job)))
         /\ runs' = [runs EXCEPT ![o] = taken] /\ Goto(t, "prepare")
      \/ /\ row.exists /\ runs[o].status = "none"
         /\ runs' = [runs EXCEPT ![o].status = "skipped"] /\ GotoWith(t, "count", "skipped")
      \/ UNCHANGED runs /\ Goto(t, "track")
      \/ UNCHANGED runs /\ Become(t, Idle)
  <2> DEFINE take == row.exists /\ Takeable(runs[o])
             none == row.exists /\ runs[o].status = "none"
             queueBusy == QueueBusy(thread[t].job)
  <2>0. CASE Become(t, Idle) /\ UNCHANGED runs
    BY <2>0
  <2> USE DEF ClaimRun, Drop
  <2>1. CASE take
    BY <2>0, <2>1 DEF Claim
  <2>2. CASE none /\ queueBusy
    <3>1. ~take
      BY <2>2 DEF Takeable
    <3> QED
      BY <2>0, <2>2, <3>1 DEF Claim
  <2>3. CASE none /\ ~queueBusy
    <3>1. ~take
      BY <2>3 DEF Takeable
    <3> QED
      BY <2>0, <2>3, <3>1 DEF Claim
  <2>4. CASE ~take /\ ~none
    BY <2>0, <2>4 DEF Claim
  <2> QED
    BY <2>1, <2>2, <2>3, <2>4
<1>4. CASE UNCHANGED runs /\ Goto(t, "track")
  <2>1. OneMoves(t) /\ thread'[t].pc = "track"
    BY <1>1, <1>4, GotoFacts DEF TickPCs
  <2>2. RowKept
    BY <1>2, VariablesTyped DEF RowKept
  <2> QED
    BY <1>1, <1>2, <1>4, <2>1, <2>2, VariablesTyped, TickFrame DEF TickPCs, Holds, HoldPCs
<1>5. CASE UNCHANGED runs /\ Become(t, Idle)
  <2>1. OneMoves(t) /\ thread'[t].pc = "idle"
    BY <1>1, <1>5, IdleFacts, BecomeFacts
  <2>2. RowKept
    BY <1>2, VariablesTyped DEF RowKept
  <2> QED
    BY <1>1, <1>2, <1>5, <2>1, <2>2, VariablesTyped, TickFrame DEF TickPCs, Holds, HoldPCs
<1> QED
  BY <1>1, <1>2, <1>3, <1>4, <1>5, TakeIInv, SkipIInv

\* RemoveEnds: without the row nothing is promised of the runs.
LEMMA RemovedIInv == ASSUME IInv, RemoveEnds, row' = NoJob PROVE IInv'
<1>1. StateTypeOK /\ Remove \in Threads /\ Remove \in Callers /\ Remove \notin Ticks
  BY ThreadNames DEF IInv, Callers
<1>2. OneMoves(Remove) /\ thread'[Remove].pc = "idle"
  BY <1>1, IdleFacts, BecomeFacts DEF RemoveEnds, Drop
<1>3. row' = NoJob /\ row' \in Job /\ ~row'.exists /\ ~row'.queue
  BY NoJobType
<1>4. NoRun \in Run
  BY DEF NoRun, Run, Statuses
<1>4a. runs' \in [Occurrences -> Run]
  BY <1>1, <1>4 DEF RemoveEnds, StateTypeOK, VariablesTypeOK
<1>5. VariablesTypeOK'
  BY <1>1, <1>3, <1>4, <1>4a DEF RemoveEnds, StateTypeOK, VariablesTypeOK
<1>6. StateTypeOK'
  BY <1>1, <1>2, <1>5, TypeFrame DEF CallPCs
<1>7. \A u \in Ticks : thread'[u] = thread[u] /\ (Holds(u)' <=> Holds(u))
  BY <1>1, <1>2, HoldersStay
<1>8. TicksKnowTheirRun'
  BY <1>3, <1>7 DEF IInv, RunsInv, TicksKnowTheirRun
<1>9. HoldersDiffer' /\ HoldersOwn' /\ StartedRunsEnd' /\ QueueHasOneHolder'
  BY <1>3, <1>7 DEF IInv, RunsInv, HoldersDiffer, HoldersOwn, StartedRunsEnd, QueueHasOneHolder
<1>10. HoldersStartFirst' /\ OccurrenceRunsOnce'
  BY <1>7 DEF RemoveEnds, IInv, RunsInv, HoldersStartFirst, OccurrenceRunsOnce
<1> QED
  BY <1>6, <1>8, <1>9, <1>10 DEF IInv, RunsInv

\* A removal that fails leaves the row and the runs alone.
LEMMA RemoveEndsIInv == ASSUME IInv, RemoveEnds PROVE IInv'
<1>1. StateTypeOK /\ Remove \in Callers /\ Remove \in Threads
  BY ThreadNames DEF IInv, Callers
<1>2. OneMoves(Remove) /\ thread'[Remove].pc = "idle"
  BY <1>1, IdleFacts, BecomeFacts DEF RemoveEnds, Drop
<1>3. CASE UNCHANGED <<row, runs>>
  BY <1>1, <1>2, <1>3, VariablesTyped, CallFrame DEF RemoveEnds, RowKept, CallPCs
<1> QED
  BY <1>3, RemovedIInv DEF RemoveEnds

\* A step that changes nothing but whether the lease of one run is live.
LEMMA LeaseFrame ==
    ASSUME IInv, NEW o \in Occurrences, NEW live \in BOOLEAN,
           runs' = [runs EXCEPT ![o].live = live],
           UNCHANGED <<clock, row, timer, orphans, thread, instance, ran, abandoned>>,
           \/ live
           \/ ~row.exists
           \/ \A u \in Ticks : Holds(u) => thread[u].occ # o
    PROVE  IInv'
<1>1. StateTypeOK /\ runs \in [Occurrences -> Run]
  BY DEF IInv, StateTypeOK, VariablesTypeOK
<1>2. /\ runs' \in [Occurrences -> Run]
      /\ runs'[o].live = live
      /\ \A p \in Occurrences : /\ runs'[p].status = runs[p].status
                                /\ runs'[p].owner = runs[p].owner
                                /\ p # o => runs'[p].live = runs[p].live
  BY <1>1 DEF Run
<1>3. StateTypeOK'
  BY <1>1, <1>2 DEF StateTypeOK, VariablesTypeOK
<1>4. \A u \in Ticks : Holds(u)' <=> Holds(u)
  BY DEF Holds
<1>5. TicksKnowTheirRun' /\ HoldersDiffer' /\ HoldersStartFirst' /\ OccurrenceRunsOnce'
  BY DEF IInv, RunsInv, TicksKnowTheirRun, HoldersDiffer, HoldersStartFirst,
         OccurrenceRunsOnce, Holds
<1>6. HoldersOwn'
  <2> SUFFICES ASSUME row.exists, NEW u \in Ticks, Holds(u)
               PROVE  /\ runs'[thread[u].occ].status = "running"
                      /\ runs'[thread[u].occ].live
                      /\ runs'[thread[u].occ].owner = instance
    BY <1>4 DEF HoldersOwn, Held
  <2>1. thread[u].occ \in Occurrences /\ Held(thread[u].occ)
    BY DEF IInv, RunsInv, HoldersOwn, TicksKnowTheirRun, Holds
  <2> QED
    BY <1>2, <2>1 DEF Held
<1>7. StartedRunsEnd'
  BY <1>2, <1>4 DEF IInv, RunsInv, StartedRunsEnd
<1>8. QueueHasOneHolder'
  <2>1. Recoverable' = Recoverable
    BY <1>2 DEF Recoverable
  <2> QED
    BY <1>4, <2>1 DEF IInv, RunsInv, QueueHasOneHolder
<1> QED
  BY <1>3, <1>5, <1>6, <1>7, <1>8 DEF IInv, RunsInv

\* LeaseExpires: the lease of a run that is held ends in a suspension only.
LEMMA LeaseExpiresIInv ==
    ASSUME "suspend" \notin Faults, IInv, NEW o \in Occurrences, LeaseExpires(o)
    PROVE  IInv'
<1>1. runs[o].status = "running" => Holders(o) = {}
  BY DEF LeaseExpires
<1>2. row.exists => \A u \in Ticks : Holds(u) => thread[u].occ # o
  BY <1>1 DEF IInv, RunsInv, HoldersOwn, Held, Holders, Holds, HoldPCs
<1> QED
  BY <1>2, LeaseFrame DEF LeaseExpires

\* Renew makes a lease live.
LEMMA RenewIInv == ASSUME IInv, NEW o \in Occurrences, Renew(o) PROVE IInv'
  BY LeaseFrame DEF Renew

\* TimePasses moves the clock.
LEMMA TimePassesIInv == ASSUME IInv, TimePasses PROVE IInv'
<1>1. clock' \in 0..MaxOccurrence
  BY VariablesTyped, CronAssumption DEF TimePasses
<1>2. StateTypeOK'
  BY <1>1 DEF TimePasses, IInv, StateTypeOK, VariablesTypeOK
<1>3. RunsInv'
  BY DEF TimePasses, IInv, RunsInv, TicksKnowTheirRun, HoldersDiffer, HoldersOwn, Held,
         HoldersStartFirst, StartedRunsEnd, QueueHasOneHolder, Recoverable, Holds,
         OccurrenceRunsOnce
<1> QED
  BY <1>2, <1>3 DEF IInv

\* Crash: nobody holds a run, and a turn is remembered only if its run had ended.
LEMMA CrashIInv == ASSUME IInv, Crash PROVE IInv'
<1> DEFINE r == WithResult(Idle, "list", "init")
<1>1. r \in ThreadState /\ r.pc = "list"
  BY IdleFacts, WithResultFacts DEF CallPCs, Results
<1>2. thread' = [t \in Threads |-> IF t = Power THEN r ELSE Idle]
  BY DEF Crash, WithResult
<1> HIDE DEF r
<1>3. /\ thread' \in [Threads -> ThreadState]
      /\ \A t \in Ticks : thread'[t].pc = "idle"
      /\ \A t \in Callers : thread'[t].pc \in {"idle", "list"}
  BY <1>1, <1>2, IdleFacts, ThreadNames DEF Callers
<1>4. /\ ran \in [Occurrences -> Nat]
      /\ ran' = [o \in Occurrences |-> IF o \in Recoverable THEN 0 ELSE ran[o]]
      /\ instance' = instance + 1 /\ instance \in Nat \ {0}
  BY DEF Crash, IInv, StateTypeOK, VariablesTypeOK
<1>5. VariablesTypeOK'
  BY <1>4, NoTimerType DEF Crash, IInv, StateTypeOK, VariablesTypeOK
<1>6. StateTypeOK'
  BY <1>3, <1>5 DEF StateTypeOK, TickPCs, CallPCs
<1>7. TicksKnowTheirRun' /\ HoldersDiffer' /\ HoldersOwn' /\ HoldersStartFirst'
  BY <1>3 DEF TicksKnowTheirRun, HoldersDiffer, HoldersOwn, HoldersStartFirst, Holds, HoldPCs
<1>8. StartedRunsEnd'
  <2> SUFFICES ASSUME row.exists, NEW o \in Occurrences, ran'[o] # 0
               PROVE  runs[o].status \in {"ok", "error", "skipped"}
    BY DEF StartedRunsEnd, Crash
  <2>1. o \notin Recoverable /\ ran[o] # 0
    BY <1>4
  <2> QED
    BY <2>1 DEF IInv, RunsInv, StartedRunsEnd, HoldersOwn, Held, Recoverable
<1>9. QueueHasOneHolder'
  BY <1>3 DEF Crash, QueueHasOneHolder, Recoverable, Holds, HoldPCs
<1>10. OccurrenceRunsOnce'
  BY <1>4 DEF IInv, RunsInv, OccurrenceRunsOnce
<1> QED
  BY <1>6, <1>7, <1>8, <1>9, <1>10 DEF IInv, RunsInv

-----------------------------------------------------------------------------
(* Theorems.                                                               *)

\* At first no thread does anything.
LEMMA InitIInv == Init => IInv
<1> SUFFICES ASSUME Init PROVE IInv
  OBVIOUS
<1>1. row \in Job /\ row.exists
  <2>1. PICK kind \in JobKinds, set \in Settings :
           row = [exists |-> TRUE, enabled |-> TRUE, kind |-> kind, at |-> 1, next |-> 1,
                  retries |-> 0, queue |-> "queue" \in set, shared |-> "shared" \in set]
    BY DEF Init
  <2> QED
    BY <2>1, CronAssumption DEF Job
<1>2. NoRun \in Run /\ NoRun.status = "none"
  BY DEF NoRun, Run, Statuses
<1>3. thread \in [Threads -> ThreadState] /\ \A t \in Threads : thread[t].pc = "idle"
  BY IdleFacts DEF Init
<1>4. VariablesTypeOK
  <2>1. clock \in 0..MaxOccurrence /\ instance \in Nat \ {0} /\ orphans \in SUBSET Timer
    BY CronAssumption DEF Init
  <2>3. timer \in Timer /\ abandoned \in BOOLEAN
    BY <1>1, JobTimerType DEF Init
  <2>2. runs \in [Occurrences -> Run] /\ ran \in [Occurrences -> Nat]
    BY <1>2 DEF Init
  <2> QED
    BY <1>1, <2>1, <2>2, <2>3 DEF VariablesTypeOK
<1>5. StateTypeOK
  BY <1>3, <1>4, ThreadNames DEF StateTypeOK, TickPCs, CallPCs
<1>6. \A t \in Ticks : thread[t].pc = "idle"
  BY <1>3, ThreadNames
<1>7. TicksKnowTheirRun /\ HoldersDiffer /\ HoldersOwn /\ HoldersStartFirst
  BY <1>6 DEF TicksKnowTheirRun, HoldersDiffer, HoldersOwn, HoldersStartFirst, Holds, HoldPCs
<1>8. StartedRunsEnd /\ OccurrenceRunsOnce
  BY DEF Init, StartedRunsEnd, OccurrenceRunsOnce
<1>9. QueueHasOneHolder
  BY <1>2, <1>6 DEF Init, QueueHasOneHolder, Recoverable, Holds, HoldPCs
<1> QED
  BY <1>5, <1>7, <1>8, <1>9 DEF IInv, RunsInv

\* Every step preserves the invariant, if the machine is not suspended.
LEMMA NextIInv == ASSUME "suspend" \notin Faults, IInv, [Next]_vars PROVE IInv'
<1>1. CASE \E t \in Ticks : Fire(t)
  BY <1>1, FireIInv
<1>2. CASE \E t \in Threads : Ticking(t)
  BY <1>2, LoadIInv, ClaimIInv, TrackIInv, PrepareIInv, StartIInv, TurnEndsIInv, FinishIInv,
     CountIInv, RescheduleIInv, AdvanceIInv, RestartIInv, ArmIInv DEF Ticking
<1>3. CASE Calling
  BY <1>3, EditStartsIInv, EditWritesIInv, RemoveStartsIInv, RemoveEndsIInv, NowStartsIInv,
     NowTurnIInv, ResumeStartsIInv, ListIInv, InspectIInv, MissedIInv DEF Calling
<1>4. CASE TimePasses
  BY <1>4, TimePassesIInv
<1>5. CASE \E o \in Occurrences : LeaseExpires(o) \/ Renew(o)
  BY <1>5, LeaseExpiresIInv, RenewIInv
<1>6. CASE Crash
  BY <1>6, CrashIInv
<1>7. CASE UNCHANGED vars
  BY <1>7 DEF vars, IInv, StateTypeOK, VariablesTypeOK, RunsInv, TicksKnowTheirRun,
     HoldersDiffer, HoldersOwn, Held, HoldersStartFirst, StartedRunsEnd, QueueHasOneHolder,
     Recoverable, Holds, OccurrenceRunsOnce
<1> QED
  BY <1>1, <1>2, <1>3, <1>4, <1>5, <1>6, <1>7 DEF Next

\* The invariant holds in every reachable state, if the machine is not
\* suspended.
THEOREM SpecIInv == ASSUME "suspend" \notin Faults PROVE Spec => []IInv
  BY InitIInv, NextIInv, PTL DEF Spec

\* The dedup of cron_job_runs: however many timers, ticks, retries, calls and
\* crashes there are, claim_run, finish_run and defer_run let an occurrence
\* start one turn.  On a suspended machine nobody renews the lease and it may start
\* another one.
THEOREM OccurrenceRunsOnceHolds ==
    ASSUME "suspend" \notin Faults
    PROVE  Spec => []OccurrenceRunsOnce
<1>1. IInv => OccurrenceRunsOnce
  BY DEF IInv, RunsInv
<1> QED
  BY <1>1, SpecIInv, PTL

\* queue_enabled, as long as no tick has left its run unfinished: the scheduled
\* executions of a queued job do not overlap, because a claim finds every
\* unfinished run of the job held.
THEOREM QueuedRunsDoNotOverlapHolds ==
    ASSUME "suspend" \notin Faults
    PROVE  Spec => []QueuedRunsDoNotOverlap
<1>1. IInv => QueuedRunsDoNotOverlap
  <2> SUFFICES ASSUME IInv, row.queue, ~abandoned
               PROVE  Cardinality(Executing \cap Ticks) <= 1
    BY DEF QueuedRunsDoNotOverlap
  <2>1. \A t, u \in Executing \cap Ticks : t = u
    BY DEF IInv, RunsInv, QueueHasOneHolder, Executing, Holds, HoldPCs
  <2>2. CASE Executing \cap Ticks = {}
    BY <2>2, FS_EmptySet
  <2>3. CASE \E t : t \in Executing \cap Ticks
    <3>1. PICK t : t \in Executing \cap Ticks
      BY <2>3
    <3>2. Executing \cap Ticks = {t}
      BY <2>1, <3>1
    <3>3. Cardinality({t}) = 1
      BY FS_Singleton
    <3> QED
      BY <3>2, <3>3
  <2> QED
    BY <2>2, <2>3
<1> QED
  BY <1>1, SpecIInv, PTL

-----------------------------------------------------------------------------
(* The times of the schedule, whatever faults happen: CronTypeOK.          *)

\* The times of a job and of a timer lie within the schedule.
Times == 0..(MaxOccurrence + 1)
BoundedJob == {job \in Job : job.at \in 0..MaxOccurrence /\ job.next \in Times}
BoundedTimer == {tm \in Timer : tm.occ \in Times}

\* Where run_now is.
NowPCs == {"idle", "begin", "run", "count"}

\* What is right about the state of a thread by itself: a tick has an occurrence
\* from the timer to the result, and what a thread carries is within the schedule.
Sound(t, r) ==
    /\ t \in Ticks =>
          /\ r.pc \in TickPCs
          /\ r.pc \in {"load", "claim"} \cup HoldPCs => r.occ \in Occurrences
          /\ r.pc = "finish" => r.result \in {"ok", "error", "skipped", "retry"}
    /\ t \in Callers => r.pc \in CallPCs
    /\ t = RunNow => r.pc \in NowPCs
    /\ t = Power /\ r.pc = "missed" => r.job.next \in Occurrences
    /\ r.job \in BoundedJob
    /\ r.arm \in BoundedTimer

\* The bounds of the variables.  Every crash is an event.
VariablesAreBounded ==
    /\ events \in 0..MaxEvents
    /\ instance \in 1..(events + 1)
    /\ row \in BoundedJob
    /\ timer \in BoundedTimer
    /\ orphans \in SUBSET BoundedTimer
    /\ \A o \in Occurrences : runs[o].owner \in 0..instance
    /\ missed \in SUBSET Occurrences

\* The inductive invariant, which needs no assumption on the faults.
BoundInv ==
    /\ StateTypeOK
    /\ VariablesAreBounded
    /\ \A t \in Threads : Sound(t, thread[t])

-----------------------------------------------------------------------------
(* The timer of an enabled job: EnabledJobHasATimer.                       *)
(*                                                                         *)
(* Somebody is always responsible for the timer of an enabled job: a timer *)
(* that runs, or a thread that will give it one.  A step that cancels the  *)
(* timer makes its thread the responsible one, and a thread stops being    *)
(* responsible by arming a timer, because the job is disabled or gone, or  *)
(* by dropping it.  A tick whose run was taken over does nothing more,     *)
(* which is right since the tick that took it over has become responsible. *)

\* A job that may run has a time to run at.
JobIsTimed(job) ==
    /\ job.enabled => job.exists /\ job.next # 0
    /\ job.exists => job.at # 0

\* Where a thread has a copy of the row that it will act on.
JobPCs == {"claim", "track", "reschedule", "advance", "restart", "inspect", "missed", "write"}
          \cup HoldPCs

\* The copy of the row a thread carries is one that can be rescheduled.
CopyIsTimed(t, r) ==
    t # RunNow =>
       /\ JobIsTimed(r.job)
       /\ r.pc \in JobPCs => r.job.exists
       /\ r.pc = "count" /\ r.result # "retry" => r.job.exists
       /\ r.pc = "arm" => r.arm # NoTimer
       /\ t = Power /\ r.pc = "inspect" => r.job.enabled
       /\ t = Edit /\ r.pc = "write" /\ r.result # "name" => r.job.next # 0 /\ r.job.at # 0

CopiesAreTimed ==
    /\ JobIsTimed(row)
    /\ \A t \in Threads : CopyIsTimed(t, thread[t])

\* A thread that will give the job a timer, or find that it needs none.
Rearming == {"load", "claim", "track", "reschedule", "advance", "restart", "arm", "list",
             "inspect", "missed", "delete"}
WillRearm(t) ==
    \/ t # RunNow /\ thread[t].pc \in Rearming
    \/ t \in Ticks /\ thread[t].pc \in HoldPCs /\ OwnsRun(thread[t].occ)
    \/ t # RunNow /\ thread[t].pc = "count" /\ thread[t].result # "retry"

Armed == timer # NoTimer \/ orphans # {}
JobIsAttended ==
    row.exists /\ row.enabled /\ ~dropped => Armed \/ \E t \in Threads : WillRearm(t)

\* The inductive invariant about the timer.
TimerInv == CopiesAreTimed /\ JobIsAttended

-----------------------------------------------------------------------------
(* What a step has to keep, for both invariants.                           *)

\* What the timer of an enabled job requires of a step of thread t.
TimerStep(t) ==
    /\ JobIsTimed(row')
    /\ CopyIsTimed(t, thread'[t])
    /\ row'.exists /\ row'.enabled =>
          \/ dropped'
          \/ Armed'
          \/ WillRearm(t)'
          \/ /\ row.exists /\ row.enabled /\ ~dropped
             /\ ~WillRearm(t)
             /\ Armed => Armed'
             /\ \A o \in Occurrences : OwnsRun(o) => OwnsRun(o)'

\* Both invariants are preserved.
Preserved == BoundInv' /\ (TimerInv => TimerInv')

\* A job or a timer within the schedule has its type.
LEMMA BoundedTypes ==
    /\ BoundedJob \subseteq Job
    /\ BoundedTimer \subseteq Timer
    /\ NoTimer \in BoundedTimer
    /\ NoJob \in BoundedJob
<1>1. NoTimer \in BoundedTimer
  BY NoTimerType, CronAssumption DEF NoTimer, BoundedTimer, Times
<1>2. NoJob \in BoundedJob
  BY NoJobType, CronAssumption DEF NoJob, BoundedJob, Times
<1> QED
  BY <1>1, <1>2 DEF BoundedJob, BoundedTimer

\* What a thread of a bounded state carries.
LEMMA BoundFacts ==
    ASSUME BoundInv, NEW t \in Threads
    PROVE  /\ StateTypeOK
           /\ thread[t] \in ThreadState
           /\ Sound(t, thread[t])
           /\ thread[t].job \in BoundedJob /\ thread[t].job \in Job
           /\ thread[t].arm \in BoundedTimer /\ thread[t].arm \in Timer
           /\ t \in Ticks => thread[t].pc \in TickPCs
           /\ t \in Callers => thread[t].pc \in CallPCs
  BY BoundedTypes DEF BoundInv, Sound, StateTypeOK

\* The variables of a bounded state.
LEMMA BoundVars ==
    ASSUME BoundInv
    PROVE  /\ clock \in 0..MaxOccurrence
           /\ row \in BoundedJob /\ row \in Job
           /\ timer \in BoundedTimer
           /\ orphans \in SUBSET BoundedTimer
           /\ events \in 0..MaxEvents
           /\ NoTimer \in BoundedTimer
           /\ StateTypeOK
  BY BoundedTypes DEF BoundInv, VariablesAreBounded, StateTypeOK, VariablesTypeOK

\* A thread that does nothing carries nothing.
LEMMA IdleIsSound ==
    ASSUME NEW t \in Threads
    PROVE  Sound(t, Idle) /\ CopyIsTimed(t, Idle)
<1>1. Idle.pc = "idle" /\ Idle.job = NoJob /\ Idle.arm = NoTimer
  BY DEF Idle
<1>2. Sound(t, Idle)
  BY <1>1, BoundedTypes DEF Sound, TickPCs, CallPCs, NowPCs, HoldPCs
<1>3. ~NoJob.exists /\ ~NoJob.enabled
  BY DEF NoJob
<1> QED
  BY <1>1, <1>2, <1>3 DEF CopyIsTimed, JobIsTimed, JobPCs, HoldPCs

\* A step of thread t.
LEMMA StepFrame ==
    ASSUME BoundInv, NEW t \in Threads, OneMoves(t),
           VariablesTypeOK', VariablesAreBounded', Sound(t, thread'[t]),
           TimerInv => TimerStep(t)
    PROVE  Preserved
<1>1. \A u \in Threads : u # t => thread'[u] = thread[u]
  BY DEF OneMoves
<1>2. BoundInv'
  <2>1. \A u \in Threads : Sound(u, thread'[u])
    BY <1>1 DEF BoundInv
  <2>2. StateTypeOK'
    BY TypeFrame DEF BoundInv, Sound
  <2> QED
    BY <2>1, <2>2 DEF BoundInv
<1>3. ASSUME TimerInv PROVE TimerInv'
  <2>1. TimerStep(t)
    BY <1>3
  <2>2. CopiesAreTimed'
    <3>1. ASSUME NEW u \in Threads PROVE CopyIsTimed(u, thread'[u])
      BY <1>1, <1>3, <2>1 DEF TimerInv, CopiesAreTimed, TimerStep
    <3>2. JobIsTimed(row')
      BY <2>1 DEF TimerStep
    <3> QED
      BY <3>1, <3>2 DEF CopiesAreTimed
  <2>3. JobIsAttended'
    <3> SUFFICES ASSUME row'.exists, row'.enabled, ~dropped', ~Armed', ~WillRearm(t)'
                 PROVE  \E u \in Threads : WillRearm(u)'
      BY DEF JobIsAttended
    <3>1. /\ ~WillRearm(t) /\ ~Armed
          /\ \A o \in Occurrences : OwnsRun(o) => OwnsRun(o)'
          /\ row.exists /\ row.enabled /\ ~dropped
      BY <2>1 DEF TimerStep
    <3>2. PICK u \in Threads : WillRearm(u)
      BY <1>3, <3>1 DEF TimerInv, JobIsAttended
    <3>3. thread'[u] = thread[u]
      BY <1>1, <3>1, <3>2
    <3>4. u \in Ticks /\ thread[u].pc \in HoldPCs => thread[u].occ \in Occurrences
      BY BoundFacts, <3>2 DEF Sound
    <3>5. WillRearm(u)'
      BY <3>1, <3>2, <3>3, <3>4 DEF WillRearm
    <3> QED
      BY <3>5
  <2> QED
    BY <2>2, <2>3 DEF TimerInv
<1> QED
  BY <1>2, <1>3 DEF Preserved

\* A step of thread t that leaves the runs alone.
LEMMA MoveFrame ==
    ASSUME BoundInv, NEW t \in Threads, OneMoves(t),
           UNCHANGED <<runs, instance, ran, clock, abandoned>>,
           missed' \in SUBSET Occurrences,
           row' \in BoundedJob, row'.queue => row'.exists,
           timer' \in BoundedTimer, orphans' \in SUBSET BoundedTimer,
           events' \in 0..MaxEvents, events' >= events,
           Sound(t, thread'[t]),
           TimerInv => TimerStep(t)
    PROVE  Preserved
<1>1. VariablesTypeOK'
  BY BoundedTypes DEF BoundInv, StateTypeOK, VariablesTypeOK
<1>2. VariablesAreBounded'
  <2>1. instance' \in 1..(events + 1) /\ events \in 0..MaxEvents
    BY DEF BoundInv, VariablesAreBounded
  <2>2. events \in Nat /\ events' \in Nat /\ instance' \in Nat
    BY <2>1, CronAssumption
  <2>3. \A i, m, n \in Nat : i \in 1..(m + 1) /\ n >= m => i \in 1..(n + 1)
    OBVIOUS
  <2>4. instance' \in 1..(events' + 1)
    BY <2>1, <2>2, <2>3
  <2> QED
    BY <2>4 DEF BoundInv, VariablesAreBounded
<1> QED
  BY <1>1, <1>2, StepFrame

\* A thread that moves on with its copy of the row.
LEMMA CopyFrame ==
    ASSUME NEW t \in Threads \ {RunNow}, row' = row,
           thread[t].pc \in JobPCs \ {"write"},
           thread'[t].pc # "write", thread'[t].pc = "arm" => thread'[t].arm # NoTimer,
           t = Power => thread'[t].pc # "inspect",
           thread'[t].job = thread[t].job,
           TimerInv,
           row.exists /\ row.enabled =>
              \/ dropped'
              \/ Armed'
              \/ WillRearm(t)'
              \/ /\ ~dropped
                 /\ ~WillRearm(t)
                 /\ Armed => Armed'
                 /\ \A o \in Occurrences : OwnsRun(o) => OwnsRun(o)'
    PROVE  TimerStep(t)
<1>1. JobIsTimed(row) /\ CopyIsTimed(t, thread[t])
  BY DEF TimerInv, CopiesAreTimed
<1>2. CopyIsTimed(t, thread'[t])
  BY <1>1 DEF CopyIsTimed
<1> QED
  BY <1>1, <1>2 DEF TimerStep

\* A step of thread t that changes the timers at most.
LEMMA TimersFrame ==
    ASSUME BoundInv, NEW t \in Threads, OneMoves(t),
           UNCHANGED <<clock, row, runs, instance, events, ran, missed, abandoned>>,
           timer' \in BoundedTimer, orphans' \in SUBSET BoundedTimer,
           Sound(t, thread'[t]),
           TimerInv => TimerStep(t)
    PROVE  Preserved
<1>1. row' \in BoundedJob /\ (row'.queue => row'.exists)
  BY DEF BoundInv, VariablesAreBounded, StateTypeOK, VariablesTypeOK
<1>2. events' \in 0..MaxEvents /\ events' >= events /\ missed' \in SUBSET Occurrences
  BY CronAssumption DEF BoundInv, VariablesAreBounded
<1> QED
  BY <1>1, <1>2, MoveFrame

\* Where only ticks are, and where run_now is not.
LEMMA Places ==
    ASSUME BoundInv, NEW t \in Threads
    PROVE  /\ thread[t].pc \in {"load", "claim", "track", "prepare", "start", "finish"} =>
                 t \in Ticks /\ t \notin Callers
           /\ thread[t].pc \notin NowPCs => t # RunNow
           /\ t \in Ticks => t # RunNow /\ t # Edit /\ t # Power
<1>1. Sound(t, thread[t])
  BY BoundFacts
<1>2. t \in Callers => thread[t].pc \in CallPCs
  BY <1>1 DEF Sound
<1>3. t \in Ticks \/ t \in Callers
  BY ThreadNames
<1>4. t \in Ticks => t # RunNow /\ t # Edit /\ t # Power
  BY ThreadNames
<1>5. t = RunNow => thread[t].pc \in NowPCs
  BY <1>1 DEF Sound
<1> QED
  BY <1>2, <1>3, <1>4, <1>5, ThreadNames DEF CallPCs

-----------------------------------------------------------------------------
(* Timers and ticks before the claim.                                      *)

\* The timers a job or an occurrence is given.
LEMMA GivenTimers ==
    /\ \A job \in BoundedJob : JobTimer(job) \in BoundedTimer
    /\ \A o \in Occurrences : RetryTimer(o) \in BoundedTimer /\ RetryTimer(o) # NoTimer
<1>1. ASSUME NEW job \in BoundedJob PROVE JobTimer(job) \in BoundedTimer
  BY BoundedTypes, JobTimerType DEF JobTimer, BoundedJob, BoundedTimer
<1>2. ASSUME NEW o \in Occurrences PROVE RetryTimer(o) \in BoundedTimer
  <2>1. RetryTimer(o) \in Timer /\ RetryTimer(o).occ = o
    BY RetryTimerType DEF RetryTimer
  <2>2. o \in Times
    BY CronAssumption DEF Occurrences, Times
  <2> QED
    BY <2>1, <2>2 DEF BoundedTimer
<1>3. \A o \in Occurrences : RetryTimer(o) # NoTimer
  BY DEF RetryTimer, NoTimer
<1> QED
  BY <1>1, <1>2, <1>3

\* What is left of a timer that has fired is within the schedule: its occurrence
\* has come, and the next one is at most one beyond the last.
LEMMA AfterFiringBound ==
    ASSUME clock \in 0..MaxOccurrence, NEW tm \in BoundedTimer, Due(tm)
    PROVE  AfterFiring(tm) \in BoundedTimer
<1>1. AfterFiring(tm) \in Timer /\ tm \in Timer
  BY AfterFiringType, BoundedTypes
<1>2. tm.occ \in Occurrences
  BY <1>1, DueFacts
<1>3. tm.occ + 1 \in Times /\ clock + 1 \in Times
  BY <1>2, CronAssumption DEF Occurrences, Times
<1>4. CASE tm.kind = "every"
  BY <1>1, <1>3, <1>4 DEF AfterFiring, BoundedTimer, Timer
<1>5. CASE tm.kind = "cron"
  BY <1>1, <1>3, <1>5 DEF AfterFiring, BoundedTimer, Timer
<1>6. CASE tm.kind \notin {"every", "cron"}
  BY <1>6, BoundedTypes DEF AfterFiring
<1> QED
  BY <1>4, <1>5, <1>6

\* Fire: the tick becomes responsible for the timer.
LEMMA FireKeeps == ASSUME BoundInv, NEW t \in Ticks, Fire(t) PROVE Preserved
<1>1. StateTypeOK /\ t \in Threads /\ t \notin Callers
  BY BoundVars, ThreadNames
<1>2. PICK tm \in BoundedTimer :
         /\ Due(tm)
         /\ Become(t, [Idle EXCEPT !.pc = "load", !.occ = tm.occ])
         /\ timer' \in {timer, AfterFiring(tm)}
         /\ orphans' \in {orphans, (orphans \ {tm}) \cup ({AfterFiring(tm)} \ {NoTimer})}
  BY BoundVars DEF Fire
<1>3. tm.occ \in Occurrences /\ AfterFiring(tm) \in BoundedTimer
  BY <1>2, DueFacts, AfterFiringBound, BoundVars, BoundedTypes
<1> DEFINE r == Loading(tm.occ)
<1>4. Become(t, r)
  BY <1>2 DEF Loading
<1>5. /\ r \in ThreadState /\ r.pc = "load" /\ r.occ \in Occurrences
      /\ r.job = NoJob /\ r.arm = NoTimer
  BY <1>3, LoadingFacts DEF Loading, Idle
<1> HIDE DEF r
<1>6. OneMoves(t) /\ thread'[t] = r
  BY <1>1, <1>4, <1>5, BecomeFacts
<1>7. Sound(t, r)
  BY <1>1, <1>5, BoundedTypes DEF Sound, TickPCs, Callers
<1>8. timer' \in BoundedTimer /\ orphans' \in SUBSET BoundedTimer
  BY <1>2, <1>3, BoundVars
<1>9. ASSUME TimerInv PROVE TimerStep(t)
  <2>1. t # RunNow /\ t # Edit
    BY <1>1 DEF Callers
  <2>2. WillRearm(t)'
    BY <1>5, <1>6, <2>1 DEF WillRearm, Rearming
  <2>3. CopyIsTimed(t, r)
    BY <1>5, <2>1 DEF CopyIsTimed, JobIsTimed, NoJob, JobPCs, HoldPCs
  <2>4. row' = row
    BY DEF Fire
  <2> QED
    BY <1>6, <1>9, <2>2, <2>3, <2>4 DEF TimerStep, TimerInv, CopiesAreTimed
<1>10. UNCHANGED <<clock, row, runs, instance, events, ran, missed, abandoned>>
  BY DEF Fire
<1> QED
  BY <1>1, <1>6, <1>7, <1>8, <1>9, <1>10, TimersFrame

\* A thread that gives the timer to an unfinished run.
LEMMA RetryMove ==
    ASSUME BoundInv, NEW t \in Threads \ {RunNow}, thread[t].pc \in JobPCs \ {"write"},
           NEW o \in Occurrences, Schedule(t, RetryTimer(o)),
           UNCHANGED <<clock, row, runs, orphans, instance, events, ran, missed, abandoned>>
    PROVE  Preserved
<1>1. RetryTimer(o) \in BoundedTimer /\ RetryTimer(o) \in Timer /\ RetryTimer(o) # NoTimer
  BY GivenTimers, RetryTimerType
<1>2. /\ OneMoves(t) /\ timer' = NoTimer
      /\ thread'[t].pc = "arm" /\ thread'[t].arm = RetryTimer(o)
      /\ thread'[t].job = thread[t].job
  BY <1>1, BoundVars, ScheduleFacts
<1>3. Sound(t, thread'[t])
  BY <1>1, <1>2, BoundFacts DEF Sound, TickPCs, CallPCs, HoldPCs
<1>4. ASSUME TimerInv PROVE TimerStep(t)
  <2>1. WillRearm(t)'
    BY <1>2 DEF WillRearm, Rearming
  <2> QED
    BY <1>1, <1>2, <1>4, <2>1, CopyFrame
<1> QED
  BY <1>2, <1>3, <1>4, BoundVars, TimersFrame

\* A thread that gives the job its timer, or finds that it needs none.
LEMMA JobTimerMove ==
    ASSUME BoundInv, NEW t \in Threads \ {RunNow}, thread[t].pc \in {"restart", "inspect"},
           Schedule(t, JobTimer(thread[t].job)),
           thread[t].pc = "inspect" => t = Power,
           thread[t].pc = "restart" /\ row.enabled /\ ~thread[t].job.enabled => dropped',
           UNCHANGED <<clock, row, runs, orphans, instance, events, ran, missed, abandoned>>
    PROVE  Preserved
<1> DEFINE job == thread[t].job
           new == JobTimer(job)
<1>1. new \in BoundedTimer /\ new \in Timer /\ job \in Job
  BY BoundFacts, GivenTimers, JobTimerType
<1>2. /\ OneMoves(t) /\ timer' = NoTimer
      /\ new = NoTimer => thread'[t] = Idle
      /\ new # NoTimer => thread'[t].pc = "arm" /\ thread'[t].arm = new /\ thread'[t].job = job
  BY <1>1, BoundVars, ScheduleFacts
<1>3. job.enabled /\ job.next # 0 => new # NoTimer
  BY DEF JobTimer, NoTimer
<1> HIDE DEF new
<1>4. CASE new = NoTimer
  <2>1. thread'[t] = Idle
    BY <1>2, <1>4
  <2>2. ASSUME TimerInv PROVE TimerStep(t)
    <3>1. JobIsTimed(row) /\ CopyIsTimed(t, thread[t])
      BY <2>2 DEF TimerInv, CopiesAreTimed
    <3>2. job.exists /\ JobIsTimed(job)
      BY <3>1 DEF CopyIsTimed, JobPCs
    <3>3. row.enabled => dropped'
      BY <1>3, <1>4, <3>1, <3>2 DEF CopyIsTimed, JobIsTimed
    <3> QED
      BY <2>1, <3>1, <3>3, IdleIsSound DEF TimerStep
  <2> QED
    BY <1>2, <2>1, <2>2, IdleIsSound, BoundVars, TimersFrame
<1>5. CASE new # NoTimer
  <2>1. thread'[t].pc = "arm" /\ thread'[t].arm = new /\ thread'[t].job = job
    BY <1>2, <1>5
  <2>2. Sound(t, thread'[t])
    BY <1>1, <2>1, BoundFacts DEF Sound, TickPCs, CallPCs, HoldPCs
  <2>3. ASSUME TimerInv PROVE TimerStep(t)
    <3>1. WillRearm(t)'
      BY <2>1 DEF WillRearm, Rearming
    <3> QED
      BY <1>5, <2>1, <2>3, <3>1, CopyFrame DEF JobPCs
  <2> QED
    BY <1>2, <2>2, <2>3, BoundVars, TimersFrame
<1> QED
  BY <1>4, <1>5

\* A thread that goes on to a place where it is responsible for the timer.
LEMMA GoOn ==
    ASSUME BoundInv, NEW t \in Threads \ {RunNow}, thread[t].pc \in JobPCs \ {"write"},
           NEW p \in {"track", "reschedule", "advance", "restart", "missed"}, Goto(t, p),
           p \in (IF t \in Ticks THEN TickPCs ELSE CallPCs),
           p = "missed" => thread[t].job.next \in Occurrences,
           UNCHANGED <<clock, row, runs, timer, orphans, instance, events, ran, missed, abandoned>>
    PROVE  Preserved
<1>1. OneMoves(t) /\ thread'[t].pc = p
      /\ thread'[t].job = thread[t].job /\ thread'[t].arm = thread[t].arm
  BY BoundVars, GotoFacts
<1>2. t \in Callers => t \notin Ticks
  BY ThreadNames
<1>3. Sound(t, thread'[t])
  BY <1>1, <1>2, BoundFacts DEF Sound, HoldPCs
<1>4. ASSUME TimerInv PROVE TimerStep(t)
  <2>1. WillRearm(t)'
    BY <1>1 DEF WillRearm, Rearming
  <2> QED
    BY <1>1, <1>4, <2>1, CopyFrame
<1> QED
  BY <1>1, <1>3, <1>4, BoundVars, TimersFrame

\* A thread that leaves the job to nobody.
LEMMA DropMove ==
    ASSUME BoundInv, NEW t \in Threads, Become(t, Idle), dropped',
           UNCHANGED <<clock, row, runs, orphans, timer, instance, events, missed>>,
           ran' \in [Occurrences -> Nat], abandoned' \in BOOLEAN
    PROVE  Preserved
<1>1. OneMoves(t) /\ thread'[t] = Idle
  BY BoundVars, IdleFacts, BecomeFacts
<1>2. TimerInv => TimerStep(t)
  BY <1>1, IdleIsSound DEF TimerStep, TimerInv, CopiesAreTimed
<1>3. VariablesTypeOK' /\ VariablesAreBounded'
  BY DEF BoundInv, StateTypeOK, VariablesTypeOK, VariablesAreBounded
<1> QED
  BY <1>1, <1>2, <1>3, IdleIsSound, StepFrame

\* Load: the copy the tick takes is the row.
LEMMA LoadKeeps == ASSUME BoundInv, NEW t \in Threads, Load(t) PROVE Preserved
<1>1. thread[t].pc = "load" /\ t \in Ticks /\ t \notin Callers /\ t # RunNow /\ t # Edit /\ t # Power
  BY Places DEF Load, At
<1>2. UNCHANGED <<clock, row, runs, orphans, instance, events, ran, missed, abandoned>>
      /\ timer' \in BoundedTimer
  BY BoundVars DEF Load
<1>3. CASE Become(t, Idle) /\ (timer' = timer \/ ~row.exists) 
            /\ (~row.exists \/ ~row.enabled \/ dropped')
  <2>1. OneMoves(t) /\ thread'[t] = Idle
    BY <1>3, BoundVars, IdleFacts, BecomeFacts
  <2>2. TimerInv => TimerStep(t)
    BY <1>2, <1>3, <2>1, IdleIsSound DEF TimerStep, TimerInv, CopiesAreTimed
  <2> QED
    BY <1>2, <2>1, <2>2, IdleIsSound, BoundVars, TimersFrame
<1>4. CASE row.exists /\ row.enabled /\ timer' = timer /\ Become(t, WithJob(thread[t], "claim", row))
  <2> DEFINE r == WithJob(thread[t], "claim", row)
  <2>1. /\ r \in ThreadState /\ r.pc = "claim" /\ r.job = row
        /\ r.occ = thread[t].occ /\ r.arm = thread[t].arm
    <3>1. thread[t] \in ThreadState /\ row \in Job /\ "claim" \in TickPCs \cup CallPCs
      BY BoundFacts, BoundVars DEF TickPCs
    <3> QED
      BY <3>1, WithJobFacts, WithJobCarries
  <2>2. Become(t, r)
    BY <1>4
  <2> HIDE DEF r
  <2>3. OneMoves(t) /\ thread'[t] = r
    BY <2>1, <2>2, BoundVars, BecomeFacts
  <2>4. Sound(t, r)
    BY <1>1, <2>1, BoundFacts, BoundVars DEF Sound, TickPCs
  <2>5. ASSUME TimerInv PROVE TimerStep(t)
    <3>1. JobIsTimed(row)
      BY <2>5 DEF TimerInv, CopiesAreTimed
    <3>2. CopyIsTimed(t, r)
      BY <1>1, <1>4, <2>1, <3>1 DEF CopyIsTimed
    <3>3. WillRearm(t)'
      BY <1>1, <2>1, <2>3 DEF WillRearm, Rearming
    <3> QED
      BY <1>2, <2>3, <3>1, <3>2, <3>3 DEF TimerStep
  <2> QED
    BY <1>2, <2>3, <2>4, <2>5, BoundVars, TimersFrame
<1> QED
  BY <1>3, <1>4 DEF Load, Drop, WithJob

\* Track: a duplicate waits for the unfinished run, or goes on to the schedule.
LEMMA TrackKeeps == ASSUME BoundInv, NEW t \in Threads, Track(t) PROVE Preserved
<1>1. thread[t].pc = "track" /\ t \in Ticks /\ t # RunNow
  BY Places DEF Track, At
<1>2. CASE \E o \in Recoverable : Schedule(t, RetryTimer(o))
  BY <1>1, <1>2, RetryMove DEF Track, Recoverable, JobPCs
<1>3. CASE Goto(t, "reschedule") /\ UNCHANGED timer
  BY <1>1, <1>3, GoOn DEF Track, JobPCs, TickPCs
<1> QED
  BY <1>2, <1>3 DEF Track

\* Reschedule: the same after the result.
LEMMA RescheduleKeeps == ASSUME BoundInv, NEW t \in Threads, Reschedule(t) PROVE Preserved
<1>1. thread[t].pc = "reschedule" /\ t # RunNow
  BY Places DEF Reschedule, At, NowPCs
<1>2. CASE \E o \in Recoverable : Schedule(t, RetryTimer(o))
  BY <1>1, <1>2, RetryMove DEF Reschedule, Recoverable, JobPCs
<1>3. CASE Goto(t, "advance") /\ UNCHANGED timer
  BY <1>1, <1>3, GoOn DEF Reschedule, JobPCs, TickPCs, CallPCs
<1> QED
  BY <1>2, <1>3 DEF Reschedule

\* Restart: the timer of the copy.
LEMMA RestartKeeps == ASSUME BoundInv, NEW t \in Threads, Restart(t) PROVE Preserved
<1>1. thread[t].pc = "restart" /\ t # RunNow /\ thread[t].job.enabled \in BOOLEAN
  BY Places, BoundFacts DEF Restart, At, NowPCs, Job
<1>2. row.enabled /\ ~thread[t].job.enabled => dropped'
  BY DEF Restart
<1> QED
  BY <1>1, <1>2, JobTimerMove DEF Restart

\* Arm: the job has a timer.
LEMMA ArmKeeps == ASSUME BoundInv, NEW t \in Threads, Arm(t) PROVE Preserved
<1>1. thread[t].pc = "arm" /\ t # RunNow /\ thread[t].arm \in BoundedTimer
  BY Places, BoundFacts DEF Arm, At, NowPCs
<1>2. UNCHANGED <<clock, row, runs, instance, events, ran, missed, abandoned>> /\ timer' = thread[t].arm
  BY DEF Arm
<1>3. timer' \in BoundedTimer /\ orphans' \in SUBSET BoundedTimer
  BY <1>1, BoundVars DEF Arm
<1>4. ASSUME TimerInv PROVE Armed' /\ JobIsTimed(row) /\ CopyIsTimed(t, thread[t])
  <2>1. CopiesAreTimed
    BY <1>4 DEF TimerInv
  <2>2. thread[t].arm # NoTimer
    BY <1>1, <2>1 DEF CopiesAreTimed, CopyIsTimed
  <2> QED
    BY <1>2, <2>1, <2>2 DEF Armed, CopiesAreTimed
<1>5. CASE Become(t, Idle)
  <2>1. OneMoves(t) /\ thread'[t] = Idle
    BY <1>5, BoundVars, IdleFacts, BecomeFacts
  <2>2. TimerInv => TimerStep(t)
    BY <1>2, <1>4, <2>1, IdleIsSound DEF TimerStep
  <2> QED
    BY <1>2, <1>3, <2>1, <2>2, IdleIsSound, TimersFrame
<1>6. CASE thread[t].result = "retry" /\ Become(t, WithTimer(thread[t], "count", NoTimer))
  <2> DEFINE r == WithTimer(thread[t], "count", NoTimer)
  <2>1. /\ r \in ThreadState /\ r.pc = "count" /\ r.arm = NoTimer /\ r.occ = thread[t].occ
        /\ r.job = thread[t].job /\ r.result = thread[t].result
    <3>1. thread[t] \in ThreadState
      BY BoundFacts
    <3>2. "count" \in TickPCs \cup CallPCs
      BY DEF TickPCs
    <3> QED
      BY <3>1, <3>2, NoTimerType, WithTimerFacts
  <2>2. Become(t, r)
    BY <1>6
  <2> HIDE DEF r
  <2>3. OneMoves(t) /\ thread'[t] = r
    BY <2>1, <2>2, BoundVars, BecomeFacts
  <2>4. Sound(t, r)
    BY <1>1, <2>1, BoundFacts, BoundVars DEF Sound, TickPCs, CallPCs, HoldPCs
  <2>5. ASSUME TimerInv PROVE TimerStep(t)
    <3>1. CopyIsTimed(t, r)
      BY <1>1, <1>4, <1>6, <2>1, <2>5 DEF CopyIsTimed, JobPCs, HoldPCs
    <3> QED
      BY <1>2, <1>4, <2>3, <2>5, <3>1 DEF TimerStep
  <2> QED
    BY <1>2, <1>3, <2>3, <2>4, <2>5, TimersFrame
<1> QED
  BY <1>5, <1>6 DEF Arm, WithTimer

-----------------------------------------------------------------------------
(* Ticks from the claim to the schedule.                                   *)

\* A step of thread t that gives occurrence o the run v.
LEMMA RunFrame ==
    ASSUME BoundInv, NEW t \in Threads, OneMoves(t),
           UNCHANGED <<clock, row, orphans, instance, events, ran, missed, abandoned>>,
           timer' \in BoundedTimer,
           NEW o \in Occurrences, NEW v \in Run, v.owner \in 0..instance,
           runs' = [runs EXCEPT ![o] = v],
           Sound(t, thread'[t]),
           TimerInv => TimerStep(t)
    PROVE  Preserved
<1>1. /\ runs' \in [Occurrences -> Run]
      /\ \A p \in Occurrences : runs'[p].owner \in 0..instance
  BY DEF BoundInv, StateTypeOK, VariablesTypeOK, VariablesAreBounded
<1>2. VariablesTypeOK'
  BY <1>1, BoundedTypes DEF BoundInv, StateTypeOK, VariablesTypeOK
<1>3. VariablesAreBounded'
  BY <1>1 DEF BoundInv, VariablesAreBounded
<1> QED
  BY <1>2, <1>3, StepFrame

\* A tick that executes its occurrence and goes on doing so.
LEMMA HoldMove ==
    ASSUME BoundInv, NEW t \in Ticks, thread[t].pc \in {"prepare", "start", "run"},
           OneMoves(t),
           thread'[t].pc \in {"start", "run", "finish"},
           thread'[t].pc = "finish" => thread'[t].result \in {"ok", "error", "skipped", "retry"},
           thread'[t].occ = thread[t].occ,
           thread'[t].job = thread[t].job,
           thread'[t].arm = thread[t].arm,
           UNCHANGED <<clock, row, runs, timer, orphans, instance, events, missed, failures>>,
           ran' \in [Occurrences -> Nat]
    PROVE  Preserved
<1>1. t \in Threads \ {RunNow} /\ t \notin Callers /\ t # Power
  BY ThreadNames
<1>2. Sound(t, thread'[t])
  BY <1>1, BoundFacts DEF Sound, HoldPCs, TickPCs, Callers
<1>3. ASSUME TimerInv PROVE TimerStep(t)
  <2>1. WillRearm(t) => WillRearm(t)'
    BY DEF WillRearm, Rearming, HoldPCs, OwnsRun
  <2>2. (Armed => Armed') /\ \A o \in Occurrences : OwnsRun(o) => OwnsRun(o)'
    BY DEF Armed, OwnsRun
  <2>3. thread[t].pc \in JobPCs \ {"write"}
    BY DEF JobPCs, HoldPCs
  <2>4. thread'[t].pc # "write" /\ thread'[t].pc # "arm"
    OBVIOUS
  <2> QED
    BY <1>1, <1>3, <2>1, <2>2, <2>3, <2>4, CopyFrame
<1>4. VariablesTypeOK' /\ VariablesAreBounded'
  BY DEF BoundInv, StateTypeOK, VariablesTypeOK, VariablesAreBounded
<1> QED
  BY <1>1, <1>2, <1>3, <1>4, StepFrame

\* Claim: the tick becomes the owner of the run, or goes on to the schedule.
LEMMA ClaimKeeps == ASSUME BoundInv, NEW t \in Threads, Claim(t) PROVE Preserved
<1> DEFINE o == thread[t].occ
           claimed == [status |-> "running", owner |-> instance, live |-> TRUE]
           skipped == [runs[o] EXCEPT !.status = "skipped"]
<1>1. thread[t].pc = "claim" /\ t \in Ticks /\ t \notin Callers /\ t # RunNow /\ t # Power
  BY Places DEF Claim, At
<1>2. o \in Occurrences
  BY <1>1, BoundFacts DEF Sound
<1>3. runs \in [Occurrences -> Run] /\ instance \in Nat /\ runs[o].owner \in 0..instance
  BY <1>2 DEF BoundInv, StateTypeOK, VariablesTypeOK, VariablesAreBounded
<1>4. UNCHANGED <<clock, row, timer, orphans, instance, events, ran, missed, abandoned>>
  BY DEF Claim
<1>5. \/ runs' = [runs EXCEPT ![o] = claimed] /\ Goto(t, "prepare")
      \/ runs' = [runs EXCEPT ![o].status = "skipped"] /\ GotoWith(t, "count", "skipped")
      \/ UNCHANGED runs /\ Goto(t, "track")
      \/ UNCHANGED runs /\ Become(t, Idle) /\ dropped' = TRUE
  BY DEF Claim, ClaimRun, Drop
<1>6. CASE runs' = [runs EXCEPT ![o] = claimed] /\ Goto(t, "prepare")
  <2>1. claimed \in Run /\ claimed.owner \in 0..instance
    BY <1>3 DEF Run, Statuses
  <2>2. /\ OneMoves(t) /\ thread'[t].pc = "prepare" /\ thread'[t].occ = o
        /\ thread'[t].job = thread[t].job /\ thread'[t].arm = thread[t].arm
    BY <1>6, BoundVars, GotoFacts DEF TickPCs
  <2>3. Sound(t, thread'[t])
    BY <1>1, <1>2, <2>2, BoundFacts DEF Sound, TickPCs
  <2>4. ASSUME TimerInv PROVE TimerStep(t)
    <3>1. runs'[o].status = "running" /\ runs'[o].owner = instance'
      <4>1. runs'[o] = claimed
        BY <1>2, <1>3, <1>6
      <4>2. instance' = instance
        BY <1>4
      <4> QED
        BY <4>1, <4>2
    <3>2. WillRearm(t)'
      BY <1>1, <2>2, <3>1 DEF WillRearm, HoldPCs, OwnsRun
    <3> QED
      BY <1>1, <1>4, <2>2, <2>4, <3>2, CopyFrame DEF JobPCs
  <2> QED
    BY <1>2, <1>4, <1>6, <2>1, <2>2, <2>3, <2>4, BoundVars, RunFrame
<1>7. CASE runs' = [runs EXCEPT ![o].status = "skipped"] /\ GotoWith(t, "count", "skipped")
  <2>1. skipped \in Run /\ skipped.owner \in 0..instance /\ runs' = [runs EXCEPT ![o] = skipped]
    BY <1>2, <1>3, <1>7 DEF Run, Statuses
  <2>2. /\ OneMoves(t) /\ thread'[t].pc = "count" /\ thread'[t].result = "skipped"
        /\ thread'[t].job = thread[t].job /\ thread'[t].arm = thread[t].arm
    BY <1>7, BoundVars, GotoWithFacts DEF TickPCs, Results
  <2>3. Sound(t, thread'[t])
    BY <1>1, <2>2, BoundFacts DEF Sound, TickPCs, HoldPCs
  <2>4. ASSUME TimerInv PROVE TimerStep(t)
    <3>1. WillRearm(t)'
      BY <1>1, <2>2 DEF WillRearm
    <3> QED
      BY <1>1, <1>4, <2>2, <2>4, <3>1, CopyFrame DEF JobPCs
  <2> HIDE DEF skipped
  <2> QED
    BY <1>2, <1>4, <2>1, <2>2, <2>3, <2>4, BoundVars, RunFrame
<1>8. CASE UNCHANGED runs /\ Goto(t, "track")
  BY <1>1, <1>4, <1>8, GoOn DEF JobPCs, TickPCs
<1>9. CASE UNCHANGED runs /\ Become(t, Idle) /\ dropped' = TRUE
  <2>1. ran' \in [Occurrences -> Nat] /\ abandoned' \in BOOLEAN
    BY <1>4, BoundVars DEF StateTypeOK, VariablesTypeOK
  <2> QED
    BY <1>4, <1>9, <2>1, DropMove
<1> QED
  BY <1>5, <1>6, <1>7, <1>8, <1>9

\* Prepare: the turn is begun, or there is a result.
LEMMA PrepareKeeps == ASSUME BoundInv, NEW t \in Threads, Prepare(t) PROVE Preserved
<1>1. thread[t].pc = "prepare" /\ t \in Ticks
  BY Places DEF Prepare, At
<1>2. \/ Goto(t, "start")
      \/ \E x \in {"error", "skipped", "retry"} : GotoWith(t, "finish", x)
  BY DEF Prepare, HandleBusy
<1>3. /\ OneMoves(t) /\ thread'[t].pc \in {"start", "finish"}
      /\ thread'[t].pc = "finish" => thread'[t].result \in {"ok", "error", "skipped", "retry"}
      /\ thread'[t].occ = thread[t].occ /\ thread'[t].job = thread[t].job
      /\ thread'[t].arm = thread[t].arm
  BY <1>2, BoundVars, GotoFacts, GotoWithFacts DEF TickPCs, Results
<1>4. ran' \in [Occurrences -> Nat]
  BY BoundVars DEF Prepare, StateTypeOK, VariablesTypeOK
<1> QED
  BY <1>1, <1>3, <1>4, HoldMove DEF Prepare

\* Start: the turn runs, or there is a result.
LEMMA StartKeeps == ASSUME BoundInv, NEW t \in Threads, Start(t) PROVE Preserved
<1>1. thread[t].pc = "start" /\ t \in Ticks
  BY Places DEF Start, At
<1>2. \/ Goto(t, "run")
      \/ \E x \in {"error", "skipped", "retry"} : GotoWith(t, "finish", x)
  BY DEF Start, HandleBusy
<1>3. /\ OneMoves(t) /\ thread'[t].pc \in {"run", "finish"}
      /\ thread'[t].pc = "finish" => thread'[t].result \in {"ok", "error", "skipped", "retry"}
      /\ thread'[t].occ = thread[t].occ /\ thread'[t].job = thread[t].job
      /\ thread'[t].arm = thread[t].arm
  BY <1>2, BoundVars, GotoFacts, GotoWithFacts DEF TickPCs, Results
<1>4. ran' \in [Occurrences -> Nat]
  BY BoundVars DEF Start, StateTypeOK, VariablesTypeOK
<1> QED
  BY <1>1, <1>3, <1>4, HoldMove DEF Start

\* TurnEnds: there is a result.
LEMMA TurnEndsKeeps == ASSUME BoundInv, NEW t \in Threads, TurnEnds(t) PROVE Preserved
<1>1. thread[t].pc = "run" /\ t \in Ticks
  BY DEF TurnEnds, At
<1>2. GotoWith(t, "finish", "ok") \/ GotoWith(t, "finish", "error")
  BY DEF TurnEnds
<1>3. /\ OneMoves(t) /\ thread'[t].pc = "finish" /\ thread'[t].result \in {"ok", "error"}
      /\ thread'[t].occ = thread[t].occ /\ thread'[t].job = thread[t].job
      /\ thread'[t].arm = thread[t].arm
  BY <1>2, BoundVars, GotoWithFacts DEF TickPCs, Results
<1>4. ran' \in [Occurrences -> Nat]
  BY BoundVars DEF TurnEnds, StateTypeOK, VariablesTypeOK
<1> QED
  BY <1>1, <1>3, <1>4, HoldMove DEF TurnEnds

\* Finish: the owner of the run stays responsible for the timer; a tick that was
\* superseded was not.
LEMMA FinishKeeps == ASSUME BoundInv, NEW t \in Threads, Finish(t) PROVE Preserved
<1> DEFINE o == thread[t].occ
           deferred == [status |-> "retrying", owner |-> 0, live |-> TRUE]
           ended == [runs[o] EXCEPT !.status = thread[t].result, !.live = FALSE]
<1>1. thread[t].pc = "finish" /\ t \in Ticks /\ t \notin Callers /\ t # RunNow /\ t # Power
  BY Places DEF Finish, At
<1>2. o \in Occurrences /\ thread[t].result \in {"ok", "error", "skipped", "retry"}
  BY <1>1, BoundFacts DEF Sound, HoldPCs
<1>3. runs \in [Occurrences -> Run] /\ instance \in Nat /\ runs[o].owner \in 0..instance
  BY <1>2 DEF BoundInv, StateTypeOK, VariablesTypeOK, VariablesAreBounded
<1>4. UNCHANGED <<clock, row, orphans, instance, events, missed>>
  BY DEF Finish
<1>5. thread[t].pc \in JobPCs \ {"write"} /\ t \in Threads \ {RunNow}
  BY <1>1 DEF JobPCs, HoldPCs
<1>6. CASE ~OwnsRun(o) /\ Become(t, Idle) /\ UNCHANGED <<runs, timer, ran, failures>>
  <2>1. OneMoves(t) /\ thread'[t] = Idle
    BY <1>6, BoundVars, IdleFacts, BecomeFacts
  <2>2. ASSUME TimerInv PROVE TimerStep(t)
    <3>1. ~WillRearm(t)
      BY <1>1, <1>6 DEF WillRearm, Rearming
    <3>2. (Armed => Armed') /\ \A p \in Occurrences : OwnsRun(p) => OwnsRun(p)'
      BY <1>4, <1>6 DEF Armed, OwnsRun
    <3>3. JobIsTimed(row)
      BY <2>2 DEF TimerInv, CopiesAreTimed
    <3> QED
      BY <1>4, <1>6, <2>1, <3>1, <3>2, <3>3, IdleIsSound DEF TimerStep
  <2> QED
    BY <1>4, <1>6, <2>1, <2>2, IdleIsSound, BoundVars, TimersFrame
<1>7. CASE /\ runs' = [runs EXCEPT ![o] = deferred] /\ Schedule(t, RetryTimer(o))
           /\ UNCHANGED <<ran, failures>>
  <2>1. deferred \in Run /\ deferred.owner \in 0..instance
    BY <1>3 DEF Run, Statuses
  <2>2. RetryTimer(o) \in BoundedTimer /\ RetryTimer(o) \in Timer /\ RetryTimer(o) # NoTimer
    BY <1>2, GivenTimers, RetryTimerType
  <2>3. /\ OneMoves(t) /\ timer' = NoTimer
        /\ thread'[t].pc = "arm" /\ thread'[t].arm = RetryTimer(o)
        /\ thread'[t].job = thread[t].job
    BY <1>7, <2>2, BoundVars, ScheduleFacts
  <2>4. Sound(t, thread'[t])
    BY <1>1, <2>2, <2>3, BoundFacts DEF Sound, TickPCs, HoldPCs
  <2>5. ASSUME TimerInv PROVE TimerStep(t)
    <3>1. WillRearm(t)'
      BY <1>1, <2>3 DEF WillRearm, Rearming
    <3> QED
      BY <1>4, <1>5, <2>2, <2>3, <2>5, <3>1, CopyFrame
  <2> HIDE DEF deferred
  <2> QED
    BY <1>2, <1>4, <1>7, <2>1, <2>3, <2>4, <2>5, BoundVars, RunFrame
<1>8. CASE /\ thread[t].result # "retry"
           /\ runs' = [runs EXCEPT ![o] = [@ EXCEPT !.status = thread[t].result, !.live = FALSE]]
           /\ Goto(t, "count")
           /\ UNCHANGED <<timer, ran, failures>>
  <2>1. ended \in Run /\ ended.owner \in 0..instance
    <3>1. runs[o] \in Run /\ thread[t].result \in Statuses
      BY <1>2, <1>3, <1>8 DEF Statuses
    <3>2. ended \in Run /\ ended.owner = runs[o].owner
      BY <3>1 DEF Run
    <3> QED
      BY <1>3, <3>2
  <2>2. /\ OneMoves(t) /\ thread'[t].pc = "count" /\ thread'[t].result = thread[t].result
        /\ thread'[t].job = thread[t].job /\ thread'[t].arm = thread[t].arm
    BY <1>8, BoundVars, GotoFacts DEF TickPCs
  <2>3. Sound(t, thread'[t])
    BY <1>1, <2>2, BoundFacts DEF Sound, TickPCs, HoldPCs
  <2>4. ASSUME TimerInv PROVE TimerStep(t)
    <3>1. WillRearm(t)'
      BY <1>1, <1>8, <2>2 DEF WillRearm
    <3> QED
      BY <1>4, <1>5, <2>2, <2>4, <3>1, CopyFrame
  <2>5. runs' = [runs EXCEPT ![o] = ended]
    BY <1>8
  <2> HIDE DEF ended
  <2> QED
    BY <1>2, <1>4, <1>8, <2>1, <2>2, <2>3, <2>4, <2>5, BoundVars, RunFrame
<1>9. CASE /\ Become(t, Idle) /\ dropped' = TRUE
           /\ abandoned' = (abandoned \/ OwnsRun(o))
           /\ ran' = [ran EXCEPT ![o] = IF OwnsRun(o) THEN 0 ELSE @]
           /\ UNCHANGED <<runs, timer>>
  <2>1. ran \in [Occurrences -> Nat] /\ abandoned \in BOOLEAN
    BY BoundVars DEF StateTypeOK, VariablesTypeOK
  <2> DEFINE n == IF OwnsRun(o) THEN 0 ELSE ran[o]
  <2>2. n \in Nat /\ ran' = [ran EXCEPT ![o] = n]
    BY <1>2, <1>9, <2>1
  <2> HIDE DEF n
  <2>3. ran' \in [Occurrences -> Nat]
    BY <2>1, <2>2
  <2>4. abandoned' \in BOOLEAN
    BY <1>9
  <2> QED
    BY <1>4, <1>9, <2>3, <2>4, DropMove
<1> QED
  BY <1>6, <1>7, <1>8, <1>9 DEF Finish, Drop

\* Count: the columns concern no time, and the tick goes on to the schedule
\* unless it was deferred.
LEMMA CountKeeps == ASSUME BoundInv, NEW t \in Threads, Count(t) PROVE Preserved
<1> DEFINE last == thread[t].result = "retry" \/ t = RunNow
<1>1. thread[t].pc = "count"
  BY DEF Count, At
<1>2. UNCHANGED <<clock, runs, timer, orphans, instance, events, ran, missed, failures>>
  BY DEF Count
<1>3. /\ row' \in BoundedJob /\ row'.exists = row.exists /\ row'.queue = row.queue
      /\ row'.enabled = row.enabled /\ row'.next = row.next /\ row'.at = row.at
  <2>1. thread[t].job.retries + 1 \in Nat
    BY BoundFacts DEF Job
  <2>2. row' = row \/ \E n \in Nat : row' = [row EXCEPT !.retries = n]
    BY <2>1 DEF Count
  <2> QED
    BY <2>2, BoundVars DEF BoundedJob, Job
<1>4. row'.queue => row'.exists
  BY <1>3, BoundVars DEF StateTypeOK, VariablesTypeOK
<1>5. events' \in 0..MaxEvents /\ events' >= events /\ missed' \in SUBSET Occurrences
      /\ timer' \in BoundedTimer /\ orphans' \in SUBSET BoundedTimer
  BY <1>2, CronAssumption DEF BoundInv, VariablesAreBounded
<1>6. CASE last /\ Become(t, Idle)
  <2>1. OneMoves(t) /\ thread'[t] = Idle
    BY <1>6, BoundVars, IdleFacts, BecomeFacts
  <2>2. ASSUME TimerInv PROVE TimerStep(t)
    <3>1. ~WillRearm(t)
      BY <1>1, <1>6 DEF WillRearm, Rearming, HoldPCs
    <3>2. (Armed => Armed') /\ \A p \in Occurrences : OwnsRun(p) => OwnsRun(p)'
      BY <1>2 DEF Armed, OwnsRun
    <3>3. JobIsTimed(row')
      BY <1>3, <2>2 DEF TimerInv, CopiesAreTimed, JobIsTimed
    <3> QED
      BY <1>2, <1>3, <2>1, <3>1, <3>2, <3>3, IdleIsSound DEF TimerStep
  <2> QED
    BY <1>2, <1>3, <1>4, <1>5, <2>1, <2>2, IdleIsSound, MoveFrame
<1>7. CASE ~last /\ Goto(t, "reschedule")
  <2>1. /\ OneMoves(t) /\ thread'[t].pc = "reschedule"
        /\ thread'[t].job = thread[t].job /\ thread'[t].arm = thread[t].arm
    BY <1>7, BoundVars, GotoFacts DEF TickPCs
  <2>2. Sound(t, thread'[t])
    BY <1>7, <2>1, BoundFacts DEF Sound, TickPCs, CallPCs, HoldPCs
  <2>3. ASSUME TimerInv PROVE TimerStep(t)
    <3>1. WillRearm(t)'
      BY <1>7, <2>1 DEF WillRearm, Rearming
    <3>2. JobIsTimed(row')
      BY <1>3, <2>3 DEF TimerInv, CopiesAreTimed, JobIsTimed
    <3>3. CopyIsTimed(t, thread[t])
      BY <2>3 DEF TimerInv, CopiesAreTimed
    <3>4. CopyIsTimed(t, thread'[t])
      BY <1>1, <1>7, <2>1, <3>3 DEF CopyIsTimed
    <3> QED
      BY <1>3, <3>1, <3>2, <3>4 DEF TimerStep
  <2> QED
    BY <1>2, <1>3, <1>4, <1>5, <2>1, <2>2, <2>3, MoveFrame
<1> QED
  BY <1>6, <1>7 DEF Count

\* A job that was executed or missed: an at job is disabled, another one waits for
\* a time of its schedule.
LEMMA AdvancedFacts ==
    ASSUME NEW job \in BoundedJob, clock \in 0..MaxOccurrence
    PROVE  /\ Advanced(job) \in BoundedJob
           /\ Advanced(job).exists = job.exists
           /\ Advanced(job).kind = job.kind
           /\ Advanced(job).at = job.at
           /\ job.kind = "at" => ~Advanced(job).enabled
           /\ job.kind # "at" => /\ Advanced(job).enabled = job.enabled
                                 /\ Advanced(job).next \in Times \ {0}
<1>1. job \in Job /\ Advanced(job) \in Job
  BY BoundedTypes, AdvancedType
<1>2. 0 \in Times /\ clock + 1 \in Times \ {0}
  BY CronAssumption DEF Times
<1>3. CASE job.kind = "at"
  <2>1. Advanced(job) = [job EXCEPT !.enabled = FALSE, !.next = 0]
    BY <1>3 DEF Advanced
  <2>2. /\ Advanced(job).next = 0 /\ ~Advanced(job).enabled
        /\ Advanced(job).exists = job.exists /\ Advanced(job).kind = job.kind
        /\ Advanced(job).at = job.at
    BY <1>1, <2>1 DEF Job
  <2> QED
    BY <1>1, <1>2, <1>3, <2>2 DEF BoundedJob
<1>4. CASE job.kind # "at"
  <2>1. Advanced(job) = [job EXCEPT !.next = clock + 1]
    BY <1>4 DEF Advanced
  <2>2. /\ Advanced(job).next = clock + 1 /\ Advanced(job).enabled = job.enabled
        /\ Advanced(job).exists = job.exists /\ Advanced(job).kind = job.kind
        /\ Advanced(job).at = job.at
    BY <1>1, <2>1 DEF Job
  <2> QED
    BY <1>1, <1>2, <1>4, <2>2 DEF BoundedJob
<1> QED
  BY <1>3, <1>4

\* Advance: the row and the copy are given the same next time.
LEMMA AdvanceKeeps == ASSUME BoundInv, NEW t \in Threads, Advance(t) PROVE Preserved
<1> DEFINE job == thread[t].job
           next == Advanced(job)
           r == WithJob(thread[t], "restart", next)
<1>1. thread[t].pc = "advance" /\ t # RunNow
  BY Places DEF Advance, At, NowPCs
<1>2. UNCHANGED <<clock, runs, timer, orphans, instance, events, ran, missed, abandoned>>
  BY DEF Advance
<1>3. /\ next \in BoundedJob /\ next.exists = job.exists /\ next.kind = job.kind
      /\ next.at = job.at
      /\ job.kind = "at" => ~next.enabled
      /\ job.kind # "at" => next.enabled = job.enabled /\ next.next \in Times \ {0}
  BY BoundFacts, BoundVars, AdvancedFacts
<1>4. \/ row' = row
      \/ job.kind = "at" /\ row.exists /\ row' = [row EXCEPT !.enabled = FALSE, !.next = 0]
      \/ job.kind # "at" /\ row.exists /\ row' = [row EXCEPT !.next = next.next]
  BY <1>3 DEF Advance
<1>5. (row' = row /\ dropped' /\ Become(t, Idle)) \/ Become(t, r)
  BY DEF Advance, Drop, WithJob
<1> HIDE DEF next
<1>6. row \in Job /\ 0 \in Times
  BY BoundVars, CronAssumption DEF Times
<1>7. /\ row' \in BoundedJob /\ row'.exists = row.exists /\ row'.queue = row.queue
      /\ row'.at = row.at
      /\ row' = row \/ ~row'.enabled \/ (row'.enabled = row.enabled /\ row'.next # 0)
  <2>1. CASE row' = row
    BY <2>1, BoundVars
  <2>2. CASE job.kind = "at" /\ row' = [row EXCEPT !.enabled = FALSE, !.next = 0]
    BY <1>6, <2>2, BoundVars DEF BoundedJob, Job, Times
  <2>3. CASE job.kind # "at" /\ row' = [row EXCEPT !.next = next.next]
    <3>1. next.next \in Times /\ next.next # 0 /\ next.next \in Nat
      BY <1>3, <2>3, CronAssumption DEF Times
    <3> QED
      BY <1>6, <2>3, <3>1, BoundVars DEF BoundedJob, Job
  <2> QED
    BY <1>4, <2>1, <2>2, <2>3
<1>8. row'.queue => row'.exists
  BY <1>7, BoundVars DEF StateTypeOK, VariablesTypeOK
<1>9. events' \in 0..MaxEvents /\ events' >= events /\ missed' \in SUBSET Occurrences
      /\ timer' \in BoundedTimer /\ orphans' \in SUBSET BoundedTimer
  BY <1>2, CronAssumption DEF BoundInv, VariablesAreBounded
<1>10. ASSUME TimerInv PROVE JobIsTimed(row') /\ CopyIsTimed(t, thread[t])
  <2>1. JobIsTimed(row) /\ CopyIsTimed(t, thread[t])
    BY <1>10 DEF TimerInv, CopiesAreTimed
  <2> QED
    BY <1>7, <2>1 DEF JobIsTimed
<1>11. CASE row' = row /\ dropped' /\ Become(t, Idle)
  <2>1. OneMoves(t) /\ thread'[t] = Idle
    BY <1>11, BoundVars, IdleFacts, BecomeFacts
  <2>2. TimerInv => TimerStep(t)
    BY <1>7, <1>10, <1>11, <2>1, IdleIsSound DEF TimerStep
  <2> QED
    BY <1>2, <1>7, <1>8, <1>9, <2>1, <2>2, IdleIsSound, MoveFrame
<1>12. CASE Become(t, r)
  <2>1. /\ r \in ThreadState /\ r.pc = "restart" /\ r.job = next /\ r.arm = thread[t].arm
        /\ r.result = thread[t].result
    <3>1. next \in Job /\ thread[t] \in ThreadState /\ "restart" \in TickPCs \cup CallPCs
      BY <1>3, BoundFacts, BoundedTypes DEF TickPCs
    <3> QED
      BY <3>1, WithJobFacts, WithJobCarries
  <2> HIDE DEF r
  <2>2. OneMoves(t) /\ thread'[t] = r
    BY <1>12, <2>1, BoundVars, BecomeFacts
  <2>3. Sound(t, r)
    BY <1>1, <1>3, <2>1, BoundFacts DEF Sound, TickPCs, CallPCs, HoldPCs
  <2>4. ASSUME TimerInv PROVE TimerStep(t)
    <3>1. JobIsTimed(row') /\ CopyIsTimed(t, thread[t])
      BY <1>10, <2>4
    <3>2. job.exists /\ JobIsTimed(job)
      BY <1>1, <3>1 DEF CopyIsTimed, JobPCs
    <3>3. JobIsTimed(next)
      BY <1>3, <3>2 DEF JobIsTimed
    <3>4. CopyIsTimed(t, r)
      BY <1>3, <2>1, <3>2, <3>3 DEF CopyIsTimed
    <3>5. WillRearm(t)'
      BY <1>1, <2>1, <2>2 DEF WillRearm, Rearming
    <3> QED
      BY <2>2, <3>1, <3>4, <3>5 DEF TimerStep
  <2> QED
    BY <1>2, <1>7, <1>8, <1>9, <2>2, <2>3, <2>4, MoveFrame
<1> QED
  BY <1>5, <1>11, <1>12

-----------------------------------------------------------------------------
(* Calls.                                                                  *)

\* What a call of the program leaves alone in the variables.
LEMMA EventBound ==
    ASSUME BoundInv, NEW event, Happens(event)
    PROVE  events' \in 0..MaxEvents /\ events' >= events /\ events' = events + 1
  BY BoundVars, CronAssumption DEF Happens

\* Where the calls are.
LEMMA Calls ==
    /\ Edit \in Threads /\ Edit \in Callers /\ Edit \notin Ticks /\ Edit # RunNow /\ Edit # Power
    /\ Remove \in Threads /\ Remove \in Callers /\ Remove \notin Ticks /\ Remove # RunNow
    /\ Remove # Edit /\ Remove # Power
    /\ RunNow \in Threads /\ RunNow \in Callers /\ RunNow \notin Ticks /\ RunNow # Power
    /\ Power \in Threads /\ Power \in Callers /\ Power \notin Ticks /\ Power # RunNow
    /\ Power # Edit
  BY ThreadNames DEF Callers, Edit, Remove, RunNow, Power

\* A call that does not hold the responsibility for the timer and leaves the
\* timers alone.
LEMMA BeginFrame ==
    ASSUME NEW t \in Callers, thread[t].pc = "idle", TimerInv,
           UNCHANGED <<row, timer, orphans, runs, instance, dropped>>,
           CopyIsTimed(t, thread'[t])
    PROVE  TimerStep(t)
<1>1. ~WillRearm(t)
  BY ThreadNames DEF WillRearm, Rearming
<1>2. (Armed => Armed') /\ \A o \in Occurrences : OwnsRun(o) => OwnsRun(o)'
  BY DEF Armed, OwnsRun
<1> QED
  BY <1>1, <1>2 DEF TimerStep, TimerInv, CopiesAreTimed

\* The columns that EditStarts computes, but for the next run.
Edited(request, kind, at) ==
    CASE request = "enable"   -> [row EXCEPT !.enabled = TRUE]
      [] request = "disable"  -> [row EXCEPT !.enabled = FALSE]
      [] request = "schedule" -> [row EXCEPT !.kind = kind, !.at = IF kind = "at" THEN at ELSE @]
      [] request = "name"     -> row

\* They are within the schedule, and a job has no time only if the row has none.
EditIsSound(request, edited) ==
    /\ edited \in BoundedJob
    /\ edited.exists = row.exists
    /\ edited.at # row.at => edited.at # 0
    /\ request = "name" => edited = row

\* EditStarts computes such columns.
LEMMA EditedFacts ==
    ASSUME BoundInv, NEW request \in Requests, NEW kind \in JobKinds, NEW at \in Occurrences
    PROVE  EditIsSound(request, Edited(request, kind, at))
<1> DEFINE edited == Edited(request, kind, at)
<1> SUFFICES EditIsSound(request, edited)
  OBVIOUS
<1>1. request \in {"enable", "disable", "schedule", "name"}
  BY CronAssumption DEF AllRequests
<1>2. row \in BoundedJob /\ row \in Job /\ kind \in Kinds /\ at \in 0..MaxOccurrence /\ at # 0
  BY BoundVars, CronAssumption DEF Occurrences
<1>3. CASE request = "enable"
  <2>1. edited = [row EXCEPT !.enabled = TRUE]
    BY <1>3 DEF Edited
  <2> HIDE DEF edited
  <2> QED
    BY <1>2, <1>3, <2>1 DEF BoundedJob, Job, EditIsSound
<1>4. CASE request = "disable"
  <2>1. edited = [row EXCEPT !.enabled = FALSE]
    BY <1>4 DEF Edited
  <2> HIDE DEF edited
  <2> QED
    BY <1>2, <1>4, <2>1 DEF BoundedJob, Job, EditIsSound
<1>5. CASE request = "schedule"
  <2> DEFINE q == [row EXCEPT !.kind = kind]
             n == IF kind = "at" THEN at ELSE row.at
  <2>1. edited = [q EXCEPT !.at = n]
    BY <1>5, <1>2 DEF Edited, Job
  <2>2. q \in Job /\ q.exists = row.exists /\ q.enabled = row.enabled /\ q.next = row.next
    BY <1>2 DEF Job
  <2>3. n \in 0..MaxOccurrence /\ n \in Nat /\ (n # row.at => n # 0)
    BY <1>2, CronAssumption DEF BoundedJob
  <2>4. row.next \in Times
    BY <1>2 DEF BoundedJob
  <2> HIDE DEF q, n, edited
  <2>5. /\ edited \in Job /\ edited.exists = row.exists /\ edited.enabled = row.enabled
        /\ edited.next = row.next /\ edited.at = n
    BY <2>1, <2>2, <2>3 DEF Job
  <2> QED
    BY <1>5, <2>3, <2>4, <2>5 DEF BoundedJob, EditIsSound
<1>6. CASE request = "name"
  <2>1. edited = row
    BY <1>6 DEF Edited
  <2> HIDE DEF edited
  <2> QED
    BY <1>2, <1>6, <2>1 DEF EditIsSound
<1> QED
  BY <1>1, <1>3, <1>4, <1>5, <1>6

\* NextRun gives any job a time within the schedule, zero at most for an at job
\* without one.
LEMMA NextRunFacts ==
    ASSUME NEW job \in BoundedJob, clock \in 0..MaxOccurrence
    PROVE  /\ [job EXCEPT !.next = NextRun(job)] \in BoundedJob
           /\ [job EXCEPT !.next = NextRun(job)].exists = job.exists
           /\ [job EXCEPT !.next = NextRun(job)].enabled = job.enabled
           /\ [job EXCEPT !.next = NextRun(job)].at = job.at
           /\ job.at # 0 => [job EXCEPT !.next = NextRun(job)].next # 0
<1>1. job \in Job /\ job.at \in 0..MaxOccurrence
  BY DEF BoundedJob
<1>2. NextRun(job) \in Times /\ NextRun(job) \in Nat /\ (job.at # 0 => NextRun(job) # 0)
  BY <1>1, CronAssumption DEF NextRun, Times
<1> DEFINE n == NextRun(job)
<1> HIDE DEF n
<1>3. n \in Times /\ n \in Nat /\ (job.at # 0 => n # 0)
  BY <1>2 DEF n
<1>4. [job EXCEPT !.next = n] \in BoundedJob
  BY <1>1, <1>3 DEF BoundedJob, Job
<1>5. /\ [job EXCEPT !.next = n].exists = job.exists /\ [job EXCEPT !.next = n].next = n
      /\ [job EXCEPT !.next = n].enabled = job.enabled /\ [job EXCEPT !.next = n].at = job.at
  BY <1>1 DEF Job
<1> QED
  BY <1>3, <1>4, <1>5 DEF n

\* The request of an edit carries its columns.
LEMMA RequestCarries ==
    ASSUME NEW x \in Results, NEW j \in Job
    PROVE  Request(x, j).job = j /\ Request(x, j).result = x /\ Request(x, j).arm = NoTimer
  BY DEF Request, Idle

\* EditStarts: the columns are computed and nothing is written.
LEMMA EditStartsKeeps == ASSUME BoundInv, EditStarts PROVE Preserved
<1>1. Edit \in Threads /\ Edit \in Callers /\ Edit \notin Ticks /\ Edit # RunNow /\ Edit # Power
  BY Calls
<1>2. /\ row.exists /\ thread[Edit].pc = "idle"
      /\ UNCHANGED <<clock, row, runs, timer, orphans, instance, ran, missed, failures>>
      /\ events' \in 0..MaxEvents /\ events' >= events
  BY EventBound, IdleFacts DEF EditStarts
<1>3. PICK request \in Requests, kind \in JobKinds, at \in Occurrences :
         Become(Edit, Request(request,
                   IF request = "name" THEN Edited(request, kind, at)
                   ELSE [Edited(request, kind, at)
                            EXCEPT !.next = NextRun(Edited(request, kind, at))]))
  BY DEF EditStarts, Edited, Request
<1> DEFINE edited == Edited(request, kind, at)
           job == IF request = "name" THEN edited ELSE [edited EXCEPT !.next = NextRun(edited)]
           r == Request(request, job)
<1>4. Become(Edit, r)
  BY <1>3
<1>5. /\ edited \in BoundedJob /\ edited.exists
      /\ edited.at # row.at => edited.at # 0
      /\ request = "name" => edited = row
  <2>1. EditIsSound(request, edited)
    BY EditedFacts
  <2> HIDE DEF edited
  <2> QED
    BY <1>2, <2>1 DEF EditIsSound
<1> HIDE DEF edited
<1>6. /\ job \in BoundedJob /\ job.exists /\ job.enabled = edited.enabled /\ job.at = edited.at
      /\ request # "name" /\ edited.at # 0 => job.next # 0
      /\ request = "name" => job = row
  BY <1>5, BoundVars, NextRunFacts
<1>7. request \in Results /\ job \in Job
  BY <1>6, BoundedTypes, CronAssumption DEF AllRequests, Results
<1> HIDE DEF job
<1>8. /\ r \in ThreadState /\ r.pc = "write" /\ r.result = request /\ r.job = job
      /\ r.arm = NoTimer
  BY <1>7, RequestFacts, RequestCarries
<1> HIDE DEF r
<1>9. OneMoves(Edit) /\ thread'[Edit] = r
  BY <1>1, <1>4, <1>8, BoundVars, BecomeFacts
<1>10. Sound(Edit, r)
  BY <1>1, <1>6, <1>8, BoundedTypes DEF Sound, CallPCs
<1>11. ASSUME TimerInv PROVE TimerStep(Edit)
  <2>1. row.at # 0 /\ JobIsTimed(row)
    BY <1>2, <1>11 DEF TimerInv, CopiesAreTimed, JobIsTimed
  <2>2. job.at # 0 /\ (request # "name" => job.next # 0)
    BY <1>5, <1>6, <2>1
  <2>3. JobIsTimed(job)
    BY <1>6, <2>1, <2>2 DEF JobIsTimed
  <2>4. CopyIsTimed(Edit, r)
    BY <1>5, <1>6, <1>8, <2>2, <2>3 DEF CopyIsTimed
  <2> QED
    BY <1>1, <1>2, <1>9, <1>11, <2>4, BeginFrame
<1>12. /\ row' \in BoundedJob /\ (row'.queue => row'.exists) /\ missed' \in SUBSET Occurrences
       /\ timer' \in BoundedTimer /\ orphans' \in SUBSET BoundedTimer
  BY <1>2 DEF BoundInv, VariablesAreBounded, StateTypeOK, VariablesTypeOK
<1> QED
  BY <1>1, <1>2, <1>9, <1>10, <1>11, <1>12, MoveFrame

\* EditWrites: the columns of the request.  The timer of the copy follows.
LEMMA EditWritesKeeps == ASSUME BoundInv, EditWrites PROVE Preserved
<1> DEFINE job == thread[Edit].job
           request == thread[Edit].result
           enabled == IF request \in {"enable", "disable"} THEN job.enabled ELSE row.enabled
           kind == IF request = "schedule" THEN job.kind ELSE row.kind
           at == IF request = "schedule" THEN job.at ELSE row.at
           n == IF request = "name" THEN row.next ELSE job.next
<1>1. Edit \in Threads /\ Edit \in Callers /\ Edit \notin Ticks /\ Edit # RunNow /\ Edit # Power
  BY Calls
<1>2. /\ thread[Edit].pc = "write"
      /\ UNCHANGED <<clock, runs, timer, orphans, instance, events, ran, missed, failures>>
  BY DEF EditWrites, At
<1>3. \/ Become(Edit, Idle) /\ row' = row
      \/ row.exists /\ Goto(Edit, "restart") /\
           row' = [row EXCEPT !.enabled = enabled, !.kind = kind, !.at = at, !.next = n]
  BY DEF EditWrites
<1>4. /\ events' \in 0..MaxEvents /\ events' >= events /\ missed' \in SUBSET Occurrences
      /\ timer' \in BoundedTimer /\ orphans' \in SUBSET BoundedTimer
  BY <1>2, CronAssumption DEF BoundInv, VariablesAreBounded
<1>5. CASE Become(Edit, Idle) /\ row' = row
  <2>1. OneMoves(Edit) /\ thread'[Edit] = Idle
    BY <1>1, <1>5, BoundVars, IdleFacts, BecomeFacts
  <2>2. ASSUME TimerInv PROVE TimerStep(Edit)
    <3>1. ~WillRearm(Edit)
      BY <1>1, <1>2 DEF WillRearm, Rearming
    <3>2. (Armed => Armed') /\ \A p \in Occurrences : OwnsRun(p) => OwnsRun(p)'
      BY <1>2 DEF Armed, OwnsRun
    <3> QED
      BY <1>1, <1>2, <1>5, <2>1, <2>2, <3>1, <3>2, IdleIsSound
         DEF TimerStep, TimerInv, CopiesAreTimed
  <2> QED
    BY <1>1, <1>2, <1>5, <2>1, <2>2, IdleIsSound, BoundVars, TimersFrame
<1>6. CASE row.exists /\ Goto(Edit, "restart") /\
           row' = [row EXCEPT !.enabled = enabled, !.kind = kind, !.at = at, !.next = n]
  <2>1. job \in BoundedJob /\ job \in Job /\ row \in BoundedJob /\ row \in Job
    BY <1>1, BoundFacts, BoundVars
  <2>2. enabled \in BOOLEAN /\ kind \in Kinds /\ at \in Nat /\ n \in Nat
        /\ at \in 0..MaxOccurrence /\ n \in Times
    BY <2>1 DEF BoundedJob, Job
  <2>3. /\ row' \in BoundedJob /\ row'.exists = row.exists /\ row'.queue = row.queue
        /\ row'.enabled = enabled /\ row'.at = at /\ row'.next = n
    <3> DEFINE r1 == [row EXCEPT !.enabled = enabled]
               r2 == [r1 EXCEPT !.kind = kind]
               r3 == [r2 EXCEPT !.at = at]
    <3>1. row' = [r3 EXCEPT !.next = n]
      BY <1>6, <2>1 DEF Job
    <3> HIDE DEF enabled, kind, at, n
    <3>2. r1 \in Job /\ r1.exists = row.exists /\ r1.queue = row.queue /\ r1.enabled = enabled
      BY <2>1, <2>2 DEF Job
    <3> HIDE DEF r1
    <3>3. r2 \in Job /\ r2.exists = row.exists /\ r2.queue = row.queue /\ r2.enabled = enabled
      BY <2>2, <3>2 DEF Job
    <3> HIDE DEF r2
    <3>4. r3 \in Job /\ r3.exists = row.exists /\ r3.queue = row.queue /\ r3.enabled = enabled
          /\ r3.at = at
      BY <2>2, <3>3 DEF Job
    <3> HIDE DEF r3
    <3>5. /\ row' \in Job /\ row'.exists = row.exists /\ row'.queue = row.queue
          /\ row'.enabled = enabled /\ row'.at = at /\ row'.next = n
      BY <2>2, <3>1, <3>4 DEF Job
    <3> QED
      BY <2>2, <3>5 DEF BoundedJob
  <2>4. row'.queue => row'.exists
    BY <2>3, BoundVars DEF StateTypeOK, VariablesTypeOK
  <2>5. /\ OneMoves(Edit) /\ thread'[Edit].pc = "restart"
        /\ thread'[Edit].job = job /\ thread'[Edit].arm = thread[Edit].arm
    BY <1>1, <1>6, BoundVars, GotoFacts DEF CallPCs
  <2>6. Sound(Edit, thread'[Edit])
    BY <1>1, <2>5, BoundFacts DEF Sound, CallPCs
  <2>7. ASSUME TimerInv PROVE TimerStep(Edit)
    <3>1. JobIsTimed(row) /\ CopyIsTimed(Edit, thread[Edit])
      BY <1>1, <2>7 DEF TimerInv, CopiesAreTimed
    <3>2. /\ job.exists /\ JobIsTimed(job)
          /\ request # "name" => job.next # 0 /\ job.at # 0
      BY <1>1, <1>2, <3>1 DEF CopyIsTimed, JobPCs
    <3>3. JobIsTimed(row')
      BY <1>6, <2>3, <3>1, <3>2 DEF JobIsTimed
    <3>4. CopyIsTimed(Edit, thread'[Edit])
      BY <1>1, <2>5, <3>2 DEF CopyIsTimed
    <3>5. WillRearm(Edit)'
      BY <1>1, <2>5 DEF WillRearm, Rearming
    <3> QED
      BY <3>3, <3>4, <3>5 DEF TimerStep
  <2> QED
    BY <1>1, <1>2, <1>4, <2>3, <2>4, <2>5, <2>6, <2>7, MoveFrame
<1> QED
  BY <1>3, <1>5, <1>6

\* RemoveStarts: the timer is cancelled by the thread that deletes the row.
LEMMA RemoveStartsKeeps == ASSUME BoundInv, RemoveStarts PROVE Preserved
<1> DEFINE r == [Idle EXCEPT !.pc = "delete"]
<1>1. /\ Remove \in Threads /\ Remove \in Callers /\ Remove \notin Ticks /\ Remove # RunNow
      /\ Remove # Edit /\ Remove # Power
  BY Calls
<1>2. /\ UNCHANGED <<clock, row, runs, orphans, instance, ran, missed, abandoned>> /\ timer' = NoTimer
      /\ events' \in 0..MaxEvents /\ events' >= events
  BY EventBound DEF RemoveStarts
<1>3. r \in ThreadState /\ r.pc = "delete" /\ r.job = NoJob /\ r.arm = NoTimer
  BY IdleFacts, PlaceChanged DEF CallPCs, Idle
<1>4. Become(Remove, r)
  BY DEF RemoveStarts
<1> HIDE DEF r
<1>5. OneMoves(Remove) /\ thread'[Remove] = r
  BY <1>1, <1>3, <1>4, BoundVars, BecomeFacts
<1>6. Sound(Remove, r)
  BY <1>1, <1>3, BoundedTypes DEF Sound, CallPCs
<1>7. ASSUME TimerInv PROVE TimerStep(Remove)
  <2>1. CopyIsTimed(Remove, r)
    BY <1>1, <1>3 DEF CopyIsTimed, JobIsTimed, NoJob, JobPCs, HoldPCs
  <2>2. WillRearm(Remove)'
    BY <1>1, <1>3, <1>5 DEF WillRearm, Rearming
  <2> QED
    BY <1>2, <1>5, <1>7, <2>1, <2>2 DEF TimerStep, TimerInv, CopiesAreTimed
<1>8. /\ row' \in BoundedJob /\ (row'.queue => row'.exists) /\ missed' \in SUBSET Occurrences
      /\ timer' \in BoundedTimer /\ orphans' \in SUBSET BoundedTimer
  BY <1>2, BoundedTypes DEF BoundInv, VariablesAreBounded, StateTypeOK, VariablesTypeOK
<1> QED
  BY <1>1, <1>2, <1>5, <1>6, <1>7, <1>8, MoveFrame

\* RemoveEnds: there is no job any more.
LEMMA RemovedKeeps ==
    ASSUME BoundInv, RemoveEnds, row' = NoJob, runs' = [o \in Occurrences |-> NoRun],
           Become(Remove, Idle)
    PROVE  Preserved
<1>1. Remove \in Threads
  BY Calls
<1>2. /\ UNCHANGED <<clock, timer, orphans, instance, events, ran, missed, abandoned>>
      /\ row' = NoJob /\ runs' = [o \in Occurrences |-> NoRun]
  BY DEF RemoveEnds
<1>3. OneMoves(Remove) /\ thread'[Remove] = Idle
  BY <1>1, BoundVars, IdleFacts, BecomeFacts
<1>4. NoRun \in Run /\ NoRun.owner = 0
  BY DEF NoRun, Run, Statuses
<1>5. VariablesTypeOK'
  BY <1>2, <1>4, NoJobType DEF BoundInv, StateTypeOK, VariablesTypeOK
<1>6. VariablesAreBounded'
  <2>1. \A o \in Occurrences : runs'[o].owner \in 0..instance
    BY <1>2, <1>4 DEF BoundInv, VariablesAreBounded
  <2> QED
    BY <1>2, <2>1, BoundedTypes DEF BoundInv, VariablesAreBounded
<1>7. TimerStep(Remove)
  <2>1. JobIsTimed(row') /\ ~row'.exists /\ ~row'.enabled
    BY <1>2 DEF JobIsTimed, NoJob
  <2> QED
    BY <1>1, <1>3, <2>1, IdleIsSound DEF TimerStep
<1> QED
  BY <1>1, <1>3, <1>5, <1>6, <1>7, IdleIsSound, StepFrame

\* RemoveEnds: or the database has failed, and the job stays without its timer.
LEMMA RemoveEndsKeeps == ASSUME BoundInv, RemoveEnds PROVE Preserved
<1>1. Remove \in Threads
  BY Calls
<1>2. ran' \in [Occurrences -> Nat] /\ abandoned' \in BOOLEAN
  BY BoundVars DEF RemoveEnds, StateTypeOK, VariablesTypeOK
<1> QED
  BY <1>1, <1>2, RemovedKeeps, DropMove DEF RemoveEnds, Drop

\* A step of run_now has nothing to do with the timer.
LEMMA NowFrame ==
    ASSUME BoundInv, OneMoves(RunNow),
           UNCHANGED <<clock, row, runs, timer, orphans, instance, ran, missed, failures>>,
           events' \in 0..MaxEvents, events' >= events,
           Sound(RunNow, thread'[RunNow])
    PROVE  Preserved
<1>1. RunNow \in Threads /\ RunNow \notin Ticks
  BY Calls
<1>2. ASSUME TimerInv PROVE TimerStep(RunNow)
  <2>1. ~WillRearm(RunNow)
    BY <1>1 DEF WillRearm
  <2>2. CopyIsTimed(RunNow, thread'[RunNow])
    BY DEF CopyIsTimed
  <2>3. (Armed => Armed') /\ \A o \in Occurrences : OwnsRun(o) => OwnsRun(o)'
    BY DEF Armed, OwnsRun
  <2> QED
    BY <1>2, <2>1, <2>2, <2>3 DEF TimerStep, TimerInv, CopiesAreTimed
<1>3. /\ row' \in BoundedJob /\ (row'.queue => row'.exists) /\ missed' \in SUBSET Occurrences
      /\ timer' \in BoundedTimer /\ orphans' \in SUBSET BoundedTimer
  BY DEF BoundInv, VariablesAreBounded, StateTypeOK, VariablesTypeOK
<1> QED
  BY <1>1, <1>2, <1>3, MoveFrame

\* NowStarts copies the row.
LEMMA NowStartsKeeps == ASSUME BoundInv, NowStarts PROVE Preserved
<1> DEFINE r == WithJob(Idle, "begin", row)
<1>1. RunNow \in Threads /\ RunNow \in Callers /\ RunNow \notin Ticks /\ RunNow # Power
  BY Calls
<1>2. events' \in 0..MaxEvents /\ events' >= events
  BY EventBound DEF NowStarts
<1>3. CASE UNCHANGED thread
  BY <1>1, <1>2, <1>3, BoundFacts, NowFrame DEF NowStarts, OneMoves, StateTypeOK
<1>4. CASE Become(RunNow, r)
  <2>1. r \in ThreadState /\ r.pc = "begin" /\ r.job = row /\ r.arm = NoTimer
    <3>1. Idle \in ThreadState /\ row \in Job /\ "begin" \in TickPCs \cup CallPCs
          /\ Idle.arm = NoTimer
      BY BoundVars, IdleFacts DEF CallPCs, Idle
    <3> QED
      BY <3>1, WithJobFacts, WithJobCarries
  <2> HIDE DEF r
  <2>2. OneMoves(RunNow) /\ thread'[RunNow] = r
    BY <1>1, <1>4, <2>1, BoundVars, BecomeFacts
  <2>3. Sound(RunNow, r)
    BY <1>1, <2>1, BoundVars DEF Sound, CallPCs, NowPCs
  <2> QED
    BY <1>2, <2>2, <2>3, NowFrame DEF NowStarts
<1> QED
  BY <1>3, <1>4 DEF NowStarts, WithJob

\* NowTurn: its turn runs and ends.
LEMMA NowTurnKeeps == ASSUME BoundInv, NowTurn PROVE Preserved
<1>1. RunNow \in Threads /\ RunNow \in Callers /\ RunNow \notin Ticks /\ RunNow # Power
  BY Calls
<1>2. \/ GotoWith(RunNow, "count", "error")
      \/ Goto(RunNow, "run")
      \/ GotoWith(RunNow, "count", "ok")
  BY DEF NowTurn
<1>3. /\ OneMoves(RunNow) /\ thread'[RunNow].pc \in {"run", "count"}
      /\ thread'[RunNow].job = thread[RunNow].job /\ thread'[RunNow].arm = thread[RunNow].arm
  BY <1>1, <1>2, BoundVars, GotoFacts, GotoWithFacts DEF CallPCs, Results
<1>4. Sound(RunNow, thread'[RunNow])
  BY <1>1, <1>3, BoundFacts DEF Sound, CallPCs, NowPCs
<1>5. events' \in 0..MaxEvents /\ events' >= events
  BY BoundVars, CronAssumption DEF NowTurn
<1> QED
  BY <1>3, <1>4, <1>5, NowFrame DEF NowTurn

\* ResumeStarts: the jobs will be listed.
LEMMA ResumeStartsKeeps == ASSUME BoundInv, ResumeStarts PROVE Preserved
<1> DEFINE r == WithResult(Idle, "list", "resume")
<1>1. /\ Power \in Threads /\ Power \in Callers /\ Power \notin Ticks /\ Power # RunNow
      /\ Power # Edit
  BY Calls
<1>2. /\ UNCHANGED <<clock, row, runs, timer, orphans, instance, ran, missed, failures>>
      /\ thread[Power].pc = "idle"
      /\ events' \in 0..MaxEvents /\ events' >= events
  BY EventBound, IdleFacts DEF ResumeStarts
<1>3. r \in ThreadState /\ r.pc = "list" /\ r.job = NoJob /\ r.arm = NoTimer
  <2>1. Idle \in ThreadState /\ Idle.job = NoJob /\ Idle.arm = NoTimer
        /\ "list" \in TickPCs \cup CallPCs /\ "resume" \in Results
    BY IdleFacts DEF CallPCs, Results, Idle
  <2> QED
    BY <2>1, WithResultFacts
<1>4. Become(Power, r)
  BY DEF ResumeStarts, WithResult
<1> HIDE DEF r
<1>5. OneMoves(Power) /\ thread'[Power] = r
  BY <1>1, <1>3, <1>4, BoundVars, BecomeFacts
<1>6. Sound(Power, r)
  BY <1>1, <1>3, BoundedTypes DEF Sound, CallPCs
<1>7. ASSUME TimerInv PROVE TimerStep(Power)
  <2>1. CopyIsTimed(Power, r)
    BY <1>1, <1>3 DEF CopyIsTimed, JobIsTimed, NoJob, JobPCs, HoldPCs
  <2> QED
    BY <1>1, <1>2, <1>5, <1>7, <2>1, BeginFrame
<1>8. /\ row' \in BoundedJob /\ (row'.queue => row'.exists) /\ missed' \in SUBSET Occurrences
      /\ timer' \in BoundedTimer /\ orphans' \in SUBSET BoundedTimer
  BY <1>2, BoundedTypes DEF BoundInv, VariablesAreBounded, StateTypeOK, VariablesTypeOK
<1> QED
  BY <1>1, <1>2, <1>5, <1>6, <1>7, <1>8, MoveFrame

\* List: the copy is the row.
LEMMA ListKeeps == ASSUME BoundInv, List PROVE Preserved
<1> DEFINE r == WithJob(thread[Power], "inspect", row)
<1>1. /\ Power \in Threads /\ Power \in Callers /\ Power \notin Ticks /\ Power # RunNow
      /\ Power # Edit
  BY Calls
<1>2. UNCHANGED <<clock, row, runs, timer, orphans, instance, events, ran, missed, abandoned>>
  BY DEF List
<1>3. CASE (row.exists /\ row.enabled => dropped') /\ Become(Power, Idle)
  <2>1. OneMoves(Power) /\ thread'[Power] = Idle
    BY <1>1, <1>3, BoundVars, IdleFacts, BecomeFacts
  <2>2. TimerInv => TimerStep(Power)
    BY <1>1, <1>2, <1>3, <2>1, IdleIsSound DEF TimerStep, TimerInv, CopiesAreTimed
  <2> QED
    BY <1>1, <1>2, <2>1, <2>2, IdleIsSound, BoundVars, TimersFrame
<1>4. CASE row.exists /\ row.enabled /\ Become(Power, r)
  <2>1. r \in ThreadState /\ r.pc = "inspect" /\ r.job = row /\ r.arm = thread[Power].arm
    <3>1. thread[Power] \in ThreadState /\ row \in Job /\ "inspect" \in TickPCs \cup CallPCs
      BY <1>1, BoundFacts, BoundVars DEF CallPCs
    <3> QED
      BY <3>1, WithJobFacts, WithJobCarries
  <2> HIDE DEF r
  <2>2. OneMoves(Power) /\ thread'[Power] = r
    BY <1>1, <1>4, <2>1, BoundVars, BecomeFacts
  <2>3. Sound(Power, r)
    BY <1>1, <2>1, BoundFacts, BoundVars DEF Sound, CallPCs
  <2>4. ASSUME TimerInv PROVE TimerStep(Power)
    <3>1. JobIsTimed(row)
      BY <2>4 DEF TimerInv, CopiesAreTimed
    <3>2. CopyIsTimed(Power, r)
      BY <1>1, <1>4, <2>1, <3>1 DEF CopyIsTimed
    <3>3. WillRearm(Power)'
      BY <1>1, <2>1, <2>2 DEF WillRearm, Rearming
    <3> QED
      BY <1>2, <2>2, <3>1, <3>2, <3>3 DEF TimerStep
  <2> QED
    BY <1>1, <1>2, <2>2, <2>3, <2>4, BoundVars, TimersFrame
<1> QED
  BY <1>3, <1>4 DEF List, Drop, WithJob

\* Inspect: the timer of an unfinished run, or that of the job, or a report.
LEMMA InspectKeeps == ASSUME BoundInv, Inspect PROVE Preserved
<1>1. /\ Power \in Threads \ {RunNow} /\ Power \in Callers /\ Power \notin Ticks
      /\ thread[Power].pc = "inspect"
  BY Calls DEF Inspect, At
<1>2. UNCHANGED <<clock, row, runs, orphans, instance, events, ran, missed, abandoned>>
  BY DEF Inspect
<1>3. CASE \E o \in Recoverable : Schedule(Power, RetryTimer(o))
  BY <1>1, <1>2, <1>3, RetryMove DEF Recoverable, JobPCs
<1>4. CASE Schedule(Power, JobTimer(thread[Power].job))
  BY <1>1, <1>2, <1>4, JobTimerMove
<1>5. CASE /\ thread[Power].job.next # 0 /\ thread[Power].job.next <= clock
           /\ Goto(Power, "missed") /\ UNCHANGED timer
  <2>1. thread[Power].job.next \in Times /\ clock \in 0..MaxOccurrence
    BY <1>1, BoundFacts, BoundVars DEF BoundedJob
  <2>2. thread[Power].job.next \in Occurrences
    BY <1>5, <2>1, CronAssumption DEF Times, Occurrences
  <2> QED
    BY <1>1, <1>2, <1>5, <2>2, GoOn DEF JobPCs, CallPCs
<1> QED
  BY <1>3, <1>4, <1>5 DEF Inspect

\* Missed: the row keeps its times.
LEMMA MissedKeeps == ASSUME BoundInv, Missed PROVE Preserved
<1>1. /\ Power \in Threads \ {RunNow} /\ Power \in Callers /\ Power \notin Ticks /\ Power # Edit
      /\ thread[Power].pc = "missed"
  BY Calls DEF Missed, At
<1>2. UNCHANGED <<clock, runs, timer, orphans, instance, events, ran, abandoned>>
  BY DEF Missed
<1>3. missed' \in SUBSET Occurrences
  BY <1>1, BoundFacts DEF Missed, Sound, BoundInv, VariablesAreBounded
<1>4. /\ row' \in BoundedJob /\ row'.exists = row.exists /\ row'.queue = row.queue
      /\ row'.enabled = row.enabled /\ row'.next = row.next /\ row'.at = row.at
  BY BoundVars DEF Missed, BoundedJob, Job
<1>5. row'.queue => row'.exists
  BY <1>4, BoundVars DEF StateTypeOK, VariablesTypeOK
<1>6. events' \in 0..MaxEvents /\ events' >= events
      /\ timer' \in BoundedTimer /\ orphans' \in SUBSET BoundedTimer
  BY <1>2, CronAssumption DEF BoundInv, VariablesAreBounded
<1>7. /\ OneMoves(Power) /\ thread'[Power].pc = "advance"
      /\ thread'[Power].job = thread[Power].job /\ thread'[Power].arm = thread[Power].arm
  BY <1>1, BoundVars, GotoFacts DEF Missed, CallPCs
<1>8. Sound(Power, thread'[Power])
  BY <1>1, <1>7, BoundFacts DEF Sound, CallPCs
<1>9. ASSUME TimerInv PROVE TimerStep(Power)
  <2>1. /\ JobIsTimed(row) /\ CopyIsTimed(Power, thread[Power])
    BY <1>1, <1>9 DEF TimerInv, CopiesAreTimed
  <2>2. JobIsTimed(row')
    BY <1>4, <2>1 DEF JobIsTimed
  <2>3. CopyIsTimed(Power, thread'[Power])
    BY <1>1, <1>7, <2>1 DEF CopyIsTimed, JobPCs
  <2>4. WillRearm(Power)'
    BY <1>1, <1>7 DEF WillRearm, Rearming
  <2> QED
    BY <2>2, <2>3, <2>4 DEF TimerStep
<1> QED
  BY <1>1, <1>2, <1>3, <1>4, <1>5, <1>6, <1>7, <1>8, <1>9, MoveFrame

-----------------------------------------------------------------------------
(* Time, leases and crashes.                                               *)

\* A lease is renewed or ends: the run keeps its owner.
LEMMA LiveFrame ==
    ASSUME BoundInv, NEW o \in Occurrences, NEW b \in BOOLEAN,
           runs' = [runs EXCEPT ![o].live = b],
           UNCHANGED <<clock, row, timer, orphans, thread, instance, events, ran, missed, failures>>
    PROVE  Preserved
<1> DEFINE v == [runs[o] EXCEPT !.live = b]
<1>1. Edit \in Threads /\ Edit \notin Ticks
  BY Calls
<1>2. runs \in [Occurrences -> Run] /\ runs[o].owner \in 0..instance
  BY DEF BoundInv, StateTypeOK, VariablesTypeOK, VariablesAreBounded
<1>3. v \in Run /\ v.owner \in 0..instance /\ v.owner = runs[o].owner
      /\ v.status = runs[o].status
  BY <1>2 DEF Run
<1>4. runs' = [runs EXCEPT ![o] = v]
  BY <1>2
<1> HIDE DEF v
<1>5. OneMoves(Edit) /\ thread'[Edit] = thread[Edit]
  BY DEF OneMoves, BoundInv, StateTypeOK
<1>6. timer' \in BoundedTimer
  BY BoundVars
<1>7. ASSUME TimerInv PROVE TimerStep(Edit)
  <2>1. WillRearm(Edit) => WillRearm(Edit)'
    BY <1>1, <1>5 DEF WillRearm
  <2>2. (Armed => Armed') /\ \A p \in Occurrences : OwnsRun(p) => OwnsRun(p)'
    BY <1>2, <1>3, <1>4 DEF Armed, OwnsRun
  <2> QED
    BY <1>1, <1>5, <1>7, <2>1, <2>2 DEF TimerStep, TimerInv, CopiesAreTimed
<1>8. Sound(Edit, thread'[Edit])
  BY <1>1, <1>5, BoundFacts
<1> QED
  BY <1>1, <1>3, <1>4, <1>5, <1>6, <1>7, <1>8, RunFrame

\* LeaseExpires is such a step.
LEMMA LeaseExpiresKeeps ==
    ASSUME BoundInv, NEW o \in Occurrences, LeaseExpires(o)
    PROVE  Preserved
  BY LiveFrame DEF LeaseExpires

\* And so is Renew.
LEMMA RenewKeeps == ASSUME BoundInv, NEW o \in Occurrences, Renew(o) PROVE Preserved
  BY LiveFrame DEF Renew

\* A step that changes none of the variables but the clock.
LEMMA ClockFrame ==
    ASSUME BoundInv, clock' \in 0..MaxOccurrence,
           UNCHANGED <<row, runs, timer, orphans, thread, instance, events, ran, missed, failures>>
    PROVE  Preserved
<1>1. BoundInv'
  BY DEF BoundInv, StateTypeOK, VariablesTypeOK, VariablesAreBounded
<1>2. TimerInv => TimerInv'
  <2>1. \A t \in Threads : WillRearm(t) => WillRearm(t)'
    BY DEF WillRearm, OwnsRun
  <2>2. CopiesAreTimed => CopiesAreTimed'
    BY DEF CopiesAreTimed
  <2>3. Armed => Armed'
    BY DEF Armed
  <2> QED
    BY <2>1, <2>2, <2>3 DEF TimerInv, JobIsAttended
<1> QED
  BY <1>1, <1>2 DEF Preserved

\* TimePasses moves the clock within the schedule.
LEMMA TimePassesKeeps == ASSUME BoundInv, TimePasses PROVE Preserved
<1>1. clock' \in 0..MaxOccurrence
  BY BoundVars, CronAssumption DEF TimePasses
<1> QED
  BY <1>1, ClockFrame DEF TimePasses

\* Crash: the next process lists the jobs.
LEMMA CrashKeeps == ASSUME BoundInv, Crash PROVE Preserved
<1> DEFINE r == WithResult(Idle, "list", "init")
<1>1. /\ Power \in Threads /\ Power \in Callers /\ Power \notin Ticks /\ Power # RunNow
      /\ Power # Edit
  BY Calls
<1>2. r \in ThreadState /\ r.pc = "list" /\ r.job = NoJob /\ r.arm = NoTimer
  <2>1. Idle \in ThreadState /\ Idle.job = NoJob /\ Idle.arm = NoTimer
        /\ "list" \in TickPCs \cup CallPCs /\ "init" \in Results
    BY IdleFacts DEF CallPCs, Results, Idle
  <2> QED
    BY <2>1, WithResultFacts
<1>3. thread' = [t \in Threads |-> IF t = Power THEN r ELSE Idle]
  BY DEF Crash, WithResult
<1> HIDE DEF r
<1>4. /\ thread' \in [Threads -> ThreadState] /\ thread'[Power] = r
      /\ \A t \in Threads \ {Power} : thread'[t] = Idle
  BY <1>1, <1>2, <1>3, IdleFacts
<1>5. Sound(Power, r)
  BY <1>1, <1>2, BoundedTypes DEF Sound, CallPCs
<1>6. \A t \in Threads : Sound(t, thread'[t])
  BY <1>4, <1>5, IdleIsSound
<1>7. /\ UNCHANGED <<clock, row, runs, missed>> /\ abandoned' \in BOOLEAN /\ timer' = NoTimer /\ orphans' = {}
      /\ instance' = instance + 1
  BY DEF Crash
<1>8. events' = events + 1 /\ events' \in 0..MaxEvents
  BY EventBound DEF Crash
<1>9. instance \in 1..(events + 1) /\ events \in Nat /\ instance \in Nat \ {0}
  BY BoundVars, CronAssumption DEF BoundInv, VariablesAreBounded, StateTypeOK, VariablesTypeOK
<1>10. ran' \in [Occurrences -> Nat]
  BY BoundVars DEF Crash, StateTypeOK, VariablesTypeOK
<1>11. BoundInv'
  <2>1. VariablesTypeOK'
    BY <1>7, <1>9, <1>10, NoTimerType DEF BoundInv, StateTypeOK, VariablesTypeOK
  <2>2. instance' \in 1..(events' + 1)
    BY <1>7, <1>8, <1>9
  <2>3. \A o \in Occurrences : runs[o].owner \in 0..(instance + 1)
    BY <1>9 DEF BoundInv, VariablesAreBounded
  <2>4. VariablesAreBounded'
    BY <1>7, <1>8, <2>2, <2>3, BoundedTypes DEF BoundInv, VariablesAreBounded
  <2>5. StateTypeOK'
    BY <1>4, <1>6, <2>1 DEF StateTypeOK, Sound, Threads
  <2> QED
    BY <1>6, <2>4, <2>5 DEF BoundInv
<1>12. TimerInv => TimerInv'
  <2> SUFFICES ASSUME TimerInv PROVE TimerInv'
    OBVIOUS
  <2>1. CopyIsTimed(Power, r)
    BY <1>1, <1>2 DEF CopyIsTimed, JobIsTimed, NoJob, JobPCs, HoldPCs
  <2>2. \A t \in Threads : CopyIsTimed(t, thread'[t])
    BY <1>4, <2>1, IdleIsSound
  <2>3. CopiesAreTimed'
    BY <1>7, <2>2 DEF TimerInv, CopiesAreTimed
  <2>4. WillRearm(Power)'
    BY <1>1, <1>2, <1>4 DEF WillRearm, Rearming
  <2> QED
    BY <1>1, <2>3, <2>4 DEF TimerInv, JobIsAttended
<1> QED
  BY <1>11, <1>12 DEF Preserved

-----------------------------------------------------------------------------
(* Theorems about times and timers.                                        *)

\* The job starts enabled, with its timer.
LEMMA InitBoundTimer == Init => BoundInv /\ TimerInv
<1> SUFFICES ASSUME Init PROVE BoundInv /\ TimerInv
  OBVIOUS
<1>1. PICK kind \in JobKinds, set \in Settings :
         row = [exists |-> TRUE, enabled |-> TRUE, kind |-> kind, at |-> 1, next |-> 1,
                retries |-> 0, queue |-> "queue" \in set, shared |-> "shared" \in set]
  BY DEF Init
<1>2. /\ row \in Job /\ row.exists /\ row.enabled /\ row.at = 1 /\ row.next = 1
  BY <1>1, CronAssumption DEF Job
<1>3. 1 \in 0..MaxOccurrence /\ 1 \in Times
  BY CronAssumption DEF Times
<1>4. row \in BoundedJob
  BY <1>2, <1>3 DEF BoundedJob
<1>5. timer \in BoundedTimer /\ timer # NoTimer
  BY <1>2, <1>4, GivenTimers DEF Init, JobTimer, NoTimer
<1>6. \A t \in Threads : thread[t] = Idle
  BY DEF Init
<1>7. \A t \in Threads :
         Sound(t, thread[t]) /\ CopyIsTimed(t, thread[t])
  BY <1>6, IdleIsSound
<1>8. StateTypeOK
  BY InitIInv DEF IInv
<1>9. VariablesAreBounded
  <2>1. \A o \in Occurrences : runs[o].owner = 0
    BY DEF Init, NoRun
  <2> QED
    BY <1>4, <1>5, <2>1, CronAssumption DEF Init, VariablesAreBounded
<1>10. BoundInv
  BY <1>7, <1>8, <1>9 DEF BoundInv
<1>11. CopiesAreTimed
  BY <1>2, <1>7 DEF CopiesAreTimed, JobIsTimed
<1>12. JobIsAttended
  BY <1>5 DEF JobIsAttended, Armed
<1> QED
  BY <1>10, <1>11, <1>12 DEF TimerInv

\* Every step preserves both invariants.
LEMMA NextKeeps == ASSUME BoundInv, [Next]_vars PROVE Preserved
<1>1. CASE \E t \in Ticks : Fire(t)
  BY <1>1, FireKeeps
<1>2. CASE \E t \in Threads : Ticking(t)
  BY <1>2, LoadKeeps, ClaimKeeps, TrackKeeps, PrepareKeeps, StartKeeps, TurnEndsKeeps,
     FinishKeeps, CountKeeps, RescheduleKeeps, AdvanceKeeps, RestartKeeps, ArmKeeps DEF Ticking
<1>3. CASE Calling
  BY <1>3, EditStartsKeeps, EditWritesKeeps, RemoveStartsKeeps, RemoveEndsKeeps, NowStartsKeeps,
     NowTurnKeeps, ResumeStartsKeeps, ListKeeps, InspectKeeps, MissedKeeps DEF Calling
<1>4. CASE TimePasses
  BY <1>4, TimePassesKeeps
<1>5. CASE \E o \in Occurrences : LeaseExpires(o) \/ Renew(o)
  BY <1>5, LeaseExpiresKeeps, RenewKeeps
<1>6. CASE Crash
  BY <1>6, CrashKeeps
<1>7. CASE UNCHANGED vars
  BY <1>7, BoundVars, ClockFrame DEF vars
<1> QED
  BY <1>1, <1>2, <1>3, <1>4, <1>5, <1>6, <1>7 DEF Next

\* The history of threads that dropped the job is a truth value.
DroppedTypeOK == dropped \in BOOLEAN

LEMMA DroppedTypeOKHolds == Spec => []DroppedTypeOK
<1>1. Init => DroppedTypeOK
  BY DEF Init, DroppedTypeOK
<1>2. DroppedTypeOK /\ [Next]_vars => DroppedTypeOK'
  <2> SUFFICES ASSUME dropped \in BOOLEAN, [Next]_vars PROVE dropped' \in BOOLEAN
    BY DEF DroppedTypeOK
  <2>1. CASE \E t \in Ticks : Fire(t)
    BY <2>1 DEF Fire
  <2>2. CASE \E t \in Threads : Ticking(t)
    <3> SUFFICES ASSUME NEW t \in Threads, Ticking(t) PROVE dropped' \in BOOLEAN
      BY <2>2
    <3>1. CASE Load(t) \/ Claim(t) \/ Track(t) \/ Prepare(t) \/ Start(t)
      BY <3>1 DEF Load, Claim, Track, Prepare, Start, Drop
    <3>2. CASE TurnEnds(t) \/ Finish(t) \/ Count(t) \/ Reschedule(t)
      BY <3>2 DEF TurnEnds, Finish, Count, Reschedule, Drop
    <3>3. CASE Advance(t) \/ Restart(t) \/ Arm(t)
      BY <3>3 DEF Advance, Restart, Arm, Drop
    <3> QED
      BY <3>1, <3>2, <3>3 DEF Ticking
  <2>3. CASE Calling
    <3>1. CASE EditStarts \/ EditWrites \/ RemoveStarts \/ RemoveEnds
      BY <3>1 DEF EditStarts, EditWrites, RemoveStarts, RemoveEnds, Drop
    <3>2. CASE NowStarts \/ NowTurn \/ ResumeStarts
      BY <3>2 DEF NowStarts, NowTurn, ResumeStarts
    <3>3. CASE List \/ Inspect \/ Missed
      BY <3>3 DEF List, Inspect, Missed, Drop
    <3> QED
      BY <2>3, <3>1, <3>2, <3>3 DEF Calling
  <2>4. CASE TimePasses \/ \E o \in Occurrences : LeaseExpires(o) \/ Renew(o)
    BY <2>4 DEF TimePasses, LeaseExpires, Renew
  <2>5. CASE Crash
    BY <2>5 DEF Crash
  <2>6. CASE UNCHANGED vars
    BY <2>6 DEF vars
  <2> QED
    BY <2>1, <2>2, <2>3, <2>4, <2>5, <2>6 DEF Next
<1> QED
  BY <1>1, <1>2, PTL DEF Spec

\* Everything stays within the schedule, whatever faults happen: a timer fires for
\* occurrences whose time has come, and what is left of it waits for the next one.
THEOREM CronTypeOKHolds == Spec => []CronTypeOK
<1>1. Init => BoundInv
  BY InitBoundTimer
<1>2. BoundInv /\ [Next]_vars => BoundInv'
  BY NextKeeps DEF Preserved
<1>3. BoundInv /\ DroppedTypeOK => CronTypeOK
  <2> SUFFICES ASSUME BoundInv, DroppedTypeOK PROVE CronTypeOK
    OBVIOUS
  <2>1. clock \in 0..MaxOccurrence /\ row.next \in 0..(MaxOccurrence + 1)
    BY BoundVars DEF BoundedJob, Times
  <2>2. \A o \in Occurrences :
           /\ runs[o].status \in Statuses
           /\ runs[o].owner \in 0..instance
           /\ runs[o].live \in BOOLEAN
    BY DEF BoundInv, StateTypeOK, VariablesTypeOK, VariablesAreBounded, Run
  <2>3. \A tm \in orphans \cup {timer} :
           tm.kind \in Kinds \cup {"none", "retry"} /\ tm.occ \in 0..(MaxOccurrence + 1)
    BY BoundVars DEF BoundedTimer, Timer, Times
  <2>4. instance \in 1..(MaxEvents + 1)
    <3>1. instance \in 1..(events + 1) /\ events \in 0..MaxEvents
      BY DEF BoundInv, VariablesAreBounded
    <3> QED
      BY <3>1, CronAssumption
  <2>5. ran \in [Occurrences -> Nat] /\ missed \subseteq Occurrences /\ abandoned \in BOOLEAN
    BY DEF BoundInv, StateTypeOK, VariablesTypeOK, VariablesAreBounded
  <2> QED
    BY <2>1, <2>2, <2>3, <2>4, <2>5 DEF CronTypeOK, Statuses, DroppedTypeOK
<1> QED
  BY <1>1, <1>2, <1>3, DroppedTypeOKHolds, PTL DEF Spec

\* service.rs and scheduler.rs leave no enabled job without a timer, with any number of
\* ticks, orphaned timers, edits, resumes and crashes, whatever is asked for and
\* whatever fails: unless the thread that answered for the timer left it on an error
\* of the database or cancelled it for a copy of the row that was out of date.
THEOREM EnabledJobHasATimerHolds == Spec => []EnabledJobHasATimer
<1>1. Init => BoundInv /\ TimerInv
  BY InitBoundTimer
<1>2. BoundInv /\ TimerInv /\ [Next]_vars => BoundInv' /\ TimerInv'
  BY NextKeeps DEF Preserved
<1>3. TimerInv => EnabledJobHasATimer
  <2> SUFFICES ASSUME TimerInv, row.exists, row.enabled, ~dropped,
                      \A t \in Threads : thread[t] = Idle
               PROVE  timer # NoTimer \/ orphans # {}
    BY DEF EnabledJobHasATimer
  <2>1. \A t \in Threads : ~WillRearm(t)
    BY IdleFacts DEF WillRearm, Rearming, HoldPCs
  <2> QED
    BY <2>1 DEF TimerInv, JobIsAttended, Armed
<1> QED
  BY <1>1, <1>2, <1>3, PTL DEF Spec

=============================================================================
