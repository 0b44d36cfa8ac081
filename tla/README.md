# A verification development for The Fool

This directory holds TLA+ modules that model parts of The Fool, TLC
configurations that check them on small instances, and TLAPS proofs of what
matters most for every instance.  It covers the backend's concurrent core: how a
team's work is queued, claimed and cancelled, how a member's agent is started and
removed, how scheduled jobs run once, how the turns of a conversation share an
agent, and how one agent ends its prompts.

Contents: [the system](#1-the-system), [the team subsystem](#2-the-team-subsystem),
[modules](#3-modules-and-code), [runs](#4-runs), [proofs](#5-proofs),
[findings](#6-findings), [limits](#7-what-is-not-modelled), [plan](#8-plan).

## 1. The system

The Fool is a desktop application in which a user works with AI agents, alone or
in teams.  Its parts, with what each keeps and how they meet:

| Part | State | Operations and interactions |
|---|---|---|
| Team (`fool-team`) | mailbox rows, work intents, runs, member runtimes, tasks | users and agents send messages; one event loop per member turns them into agent turns |
| Cron (`fool-cron`, `fool-db` repository) | jobs, occurrence claims with leases | a tick claims due occurrences, a heartbeat extends the lease, the executor runs a conversation turn, then the job is rescheduled |
| Conversations (`fool-conversation`) | one turn claim per conversation, deletion and shutdown flags | claims a turn, relays the agent's stream, recovers after a crash |
| Agent tasks (`fool-ai-agent`) | one agent process per conversation, leases on it | build once, reuse, kill when idle or on request |
| Agent sessions (`fool-ai-agent`, `fool-session`) | the state of one agent program, its prompts and what it says | deliver a prompt, read the answer, interrupt, stop and start the program again |
| Realtime (`fool-realtime`) | bounded queue per websocket client | broadcasts events |
| Application (`fool-app`, `fool-app-tools`, `fool-api-types`, `fool-assets`, `fool-common`, `fool-db`, `fool-runtime`, `fool-process`, `fool-shell`, `fool-system`) | configuration, database, child processes | bootstrap, HTTP routes, storage, I/O |
| Features (`fool-assistant`, `fool-auth`, `fool-channel`, `fool-extension`, `fool-file`, `fool-kanban`, `fool-mcp`, `fool-mcp-server`, `fool-office`, `fool-project`, `fool-team-prompts`) | database rows, files | CRUD and external services |
| Built-in agent (`backend/agent/crates/foolrs-*`) | one conversation's context | a mostly sequential loop of model calls and tool runs |
| Clients (`packages/desktop`, `packages/web-host`, `packages/web-cli`, `mobile`) | user interface state, the backend child process | HTTP and websocket clients; the web host launches and restarts the backend |

`PROJECT.json` lists all of them under `components`, with what is modelled.
What is hard in each, and the properties that would make it correct:

* **Team** - many threads, a mutex that is dropped before results are published,
  database awaits in the middle of an operation.  Work is never lost, never done
  twice, done in order; a cancelled run stays cancelled; a stale callback is
  harmless; acknowledged work ends.
* **Cron** - crash between the claim and the execution, a stalled heartbeat, a
  job edited while it runs, a database call that fails half-way.  An occurrence runs
  once unless its lease expired; an enabled job keeps a timer.
* **Conversations and agent tasks** - deletion and shutdown race with turns;
  killing an agent races with building one.  One turn per conversation, one agent
  per conversation, nothing runs after a delete has been answered.
* **Agent sessions** - one task reads the program's output, one translates it, one
  sends, one waits for the end of the prompt, and a timer may kill it all; and the
  program says every end twice.  A prompt ends by an end of its own, with its tools
  closed, and a program that dies is reported.
* **Realtime** - bounded queues.  A slow client never blocks the others.

## 2. The team subsystem

A *team session* has members (*slots*), each with an agent.  Its parts:

* the **mailbox**: a database row per message, unread until marked read;
* the **work coordinator** (`work_coordinator/coordinator.rs`): under one mutex, the
  *intents* (what is to be done, for which slot, for which run, for which row),
  three deques of intent ids per slot (foreground, control, background), the
  *batch* a slot works on, the enqueue *leases* not committed yet, and per slot
  whether it is paused, removed or constrained by its runtime;
* the **team run** (`team_run/manager.rs`): at most one record groups current work
  for the user and follows *summaries* the coordinator publishes;
* **enqueue calls** (`session.rs`): acquire a lease (which binds it to a run), write
  the mailbox row, commit the lease, notify the member's event loop;
* an **event loop** per slot (`event_loop.rs`, `session.rs` `prepare_next_batch`):
  waits for its `Notify`, reads the unread rows, reconciles the coordinator with
  them (rows that no intent owns get a *recovery drain*), claims a batch, builds
  the prompt, runs the turn, marks the rows read and reports the batch's end;
* **cancellation** (`session.rs` `cancel_run`): marks the run, takes the run's work
  out of the coordinator, marks its rows read;
* the **member runtime registry** (`member_runtime.rs`): says who may start, repair or
  remove a member's agent; attach tasks build the agent and register its loop, and
  deliveries, reconciliation, removal and the start and stop of sessions meet in it;
* **scheduler** and **task board**: not modelled yet.

What makes it hard: three separate collections in the coordinator that must agree;
batch handles kept across awaits; summaries computed under the mutex and applied
after it; a mailbox snapshot taken before an await and used after it; rows visible
before their intents exist; database calls and turn starts that fail half-way.
`PROJECT.json` lists each of these under `hazards`, at its line, with the
properties that watch it.

## 3. Modules and code

| Module | Models |
|---|---|
| `WorkQueue` | deques as sequences: entries, removal, hash-map orders |
| `WorkCoordinator` | the coordinator: one action per public method |
| `SlotWork` | the coordinator under its most general client |
| `SerialWork` | what the coordinator promises, without queues or handles |
| `TeamRun` | the run record: one operator per method |
| `TeamWork` | a session: enqueue calls, event loops, cancellations, rows, coordinator and record together |
| `MemberRuntimes` | the registry of one teammate with attach tasks, service calls and replaced sessions |
| `CronJobs` | one scheduled job: timers, ticks, claims, leases, edits and crashes |
| `ConversationTurns` | one conversation: turns, cancel, delete, revocation, warmup, and the slot of its agent |
| `SessionAgent` | one agent: its prompts, its program, the pump and the relays |
| `MCSlotWork`, `MCTeamWork` | small instances (symmetry) |
| `WorkQueueProofs`, `WorkCoordinatorProofs` | lemmas about deques and about the coordinator's operations |
| `SlotWorkProofs`, `TeamWorkProofs`, `MemberRuntimesProofs`, `CronJobsProofs`, `ConversationTurnsProofs`, `SessionAgentProofs` | the theorems about the module of that name |

In every module an action ends where the code awaits or drops a lock, and `thread`,
`caller`, `call`, `loop` or `attach` are the program counters of the tasks with the
values they carry across an await.  SQL statements are atomic.  What may fail is
named (`Faults`), and a run names the faults that happen.

### Team work

`WorkCoordinator` has the coordinator's variables and actions.  `SlotWork` extends it
with callers that hold every handle ever issued and may use it at any time;
`TeamWork` extends it with the callers the code really has, and instantiates
`TeamRun` for the record.  Both implement `SerialWork`.

* A lease and the intent its commit creates are one *work item* with a `phase`:
  `absent`, `leased`, `queued`, `starting`, `running`, then `completed`, `failed`,
  `cancelled` (or `released`, a lease that was dropped).  Its slot, source, run
  and row are `item[w]`.
* `queue[s][p]` are the deques, `active[s]` the active batch (`NoBatch`, with
  operation id 0, for `None`; the code's ids start at 1), `started[s]` whether a
  turn id is known, `nextOp` is `next_operation_id`.
* In `TeamWork`, `pending[t]` are summaries thread `t` has computed and not
  published; a thread goes on when it has published them.
* The producers are the work items that are enqueue calls and each writes its own
  row, named like the work item; the other work items are identities for recovery
  drains.
* A turn of the agent is an interval between `TurnStarts` and `TurnEnds`.  A turn that
  is cancelled at once (`CancelImmediately`) is not counted as given its rows.
  `cancel_run` also asks the agent to stop; in the model, turns just end.
* `turns`, `unmarked`, `forgotten` (`TeamWork`) and `arrivals` (`SlotWork`) are history:
  no action reads them.

Abstracted: roles, timestamps, classification texts, user-interface snapshots, the role
prompt; `known_unread_message_ids`, which no code reads; rows a member sent to
itself, which `prepare_next_batch` leaves out of the prompt, do not occur.  A row
belongs to one slot.

### Member runtimes

`session[g]` is a session of the team: the registry's entry and answers for the member
(`entry`, `answer`, `next`), its event loop (`loop`, `notified`, `reading`, `late`), what
the coordinator knows of it (`slot`, `work`) and whether it was stopped.  Sessions
are numbered as they are created and `published` is the one in the service's map.
`attach[g][o]` is the attach task of operation `o`, `caller[c]` a call of the service.
Of work there is one bit, whether some waits; a failure of the runtime ends the work
of a run and puts other work back, so it clears the bit or keeps it (`requeued`).  The
leader's attach is one step.
Calls begin in the order of their numbers, which loses nothing, since a number
means nothing else.  The manual `add_agent`, the slow-attach monitor and broadcasts are
left out.

### Cron

`row` is the row of `cron_jobs`, `runs[o]` the row of `cron_job_runs` for occurrence `o`.
Occurrences are numbered by the times of the schedule and `clock` says which have
passed; a lease is live until it expires, which it may do when nobody renews it
(a suspended machine, a crash).  `timer` is the entry in the scheduler's map and
`orphans` are timers that were replaced without being aborted: `reschedule` aborts the
old handle and inserts the new one in two steps, as the code does.  `thread[t]` is a
tick, an edit, a removal, a run-now or the start and resume of the service.  The
process instance, the lease owner of the claims, counts crashes.  A call of the
database may fail wherever the code returns on its error (the fault `database`): the
thread is over, and where nobody else answers for the job any more, this is `Drop`.
The run counters of a job, its skills and the arithmetic of cron expressions are left
out, and the sleep of a retry is not measured.

### Conversation turns and agent tasks

A *cell* is the `Arc<OnceCell>` of an agent slot: whoever holds it keeps it although the
slot may be gone.  `slot` is the task manager's entry, `agent[c]` what the cell holds,
`killing` the `kill_and_wait` calls that wait for a build, `active` and `flags` the
conversation's claim and marks, `drains` the turns whose cancel has its timer
running.  An agent owes no answer.  The two kinds of agents differ in a kill: an
ACP process is killed at once, a session agent (claude, codex) ends when nobody
holds it, except that the kill of an expired cancel stops its process and leaves an
agent that is `asleep` until the next prompt.  What may fail between the agent and its
prompt (storing the workspace, setting the required mode) is one step, `PrepareFails`.
`subscribe` and `send` are one step; the
drain timer (15 s) is longer than any step that waits for nobody.  A prompt sent to
a codex agent that was killed is taken and does nothing, like one to an agent that
does not answer.  Left out: shutdown, rebuilding an agent for other capabilities,
what the relay persists beside the user's message.

### Session agent

`ConversationTurns` takes an agent's answer as one event; `SessionAgent` is the inside
of that event for the claude backend.  `program` is the external command line program:
what it has read of its prompts, the tool it has called, a workflow it runs in the
background.  It says the end of an answer twice, and the adapter makes a `TurnResult` of
each: `Reply` is the stop of the last message (`message_delta`, `claude.rs:668`), which
is always clean, and `Answer`, `Fail` and `Interrupted` are the result frame
(`claude.rs:492`), which may come any time later, also when the next prompt has been
sent; the program begins with that prompt afterwards.  Nothing on the way to the relay
drops the second of the two.  `wire` are events that were read and not yet taken by the
pump, `pump` what `run_pump` remembers between events (`terminal_result_seen`, the turn
in flight, the workflow in flight, the set of open tool calls, what it is about to
send), `inbox` the frames the relay of the last prompt has not taken, `outcome[k]` the
terminal event with which the relay of prompt `k` returned, `row[k]` the persisted row
of its tool call.  The results and ends on the wire and in the inbox do not say in the
code whose they are; the field `prompt` that says so here, `fate`, `called` and
`strayed` are history.  Prompts come one after the other, as `run_attempt` sends them.
Each calls at most one tool. Suspension when idle is off, because the application never
sets `idle_ttl`; `resume` is what starts a program that has ended or was stopped.  Codex
and ACP backends and lagging subscribers are left out.

## 4. Runs

Every run finishes within five minutes with two workers.

| Run | Bounds | Shows |
|---|---|---|
| `SlotWorkOneSlot` | one slot, three items, messages and commands, two claims | `ListedOnce`, `CommandsRunAlone`, `MessagesKeepTheirOrder`, `CancelRunIsExact` |
| `SlotWorkTwoSlots` | two slots, two items, a run over both, two claims | `TypeOK`, `QueuedWorkIsInItsDeque`, `ClaimedWorkIsInItsBatch`, `EndedWorkStaysEnded`, `ImplementsSerialWork` |
| `TeamWorkSafety` | two calls, one recovery drain, two runs, three claims, every fault | `SessionTypeOK`, `ActiveBatchIsBeingExecuted`, `OneTurnPerRow`, `CancelledOnRequest`, `ImplementsSerialWork` |
| `TeamWorkLive` | two calls, two recovery drains, one run, four claims, failing writes and starts | `AcknowledgedWorkEnds` |
| `MemberRuntimes` | two calls of any kind, two sessions, four operations, every fault | `RuntimeTypeOK`, `EntriesAreOwned`, `PendingAnswersAreOwed`, `AbsentHasNoLoop`, `QueuedWorkHasAWakeUp`, `AnswersAreFinal` |
| `CronJobs` | two occurrences, two ticks, no retry, one event, every kind of job, a database that fails at any call | `CronTypeOK`, `OccurrenceRunsOnce`, `EnabledJobHasATimer`, `QueuedRunsDoNotOverlap` |
| `CronJobsLive` | two occurrences, two ticks, one retry, jobs in a shared conversation; a busy conversation, failures, suspension and a crash | `ClaimedRunsEnd` |
| `ConversationTurns` | two turns, three cells, one continuation, one event, both kinds, every fault | `ConversationTypeOK`, `OneTurnAtATime`, `NoStrayAgents`, `CancelledTurnEnds`, `TurnsOnlyWaitForTheirAgent` |
| `SessionAgent` | two prompts, two events on the wire, every fault, a cancel | `SessionAgentTypeOK`, `EndsAreOwn`, `ToolRowsAreClosed`, `BusyAgentsAreNotIdle`, `PromptsEnd` |

`CancelledRunStaysCancelled`, `AcceptedMessagesAreKept` and `CrashesAreReported` each find
a counterexample to something the repository says: see section 6.

**Why the bounds are enough.**

* *Slot work and team work.*  The hazards need two items that compete, and a third
  where order or cancellation inside a batch matters.  Two claims (`MaxOps = 2`) make a
  handle stale; the session runs use three or four, so that a requeued or recovered
  item is claimed again while an old handle is around.  One run next to run-less
  work is enough for a mixed batch; the session safety run has two, so that a run
  can end and another begin.  One slot suffices for the session's interleavings, since
  loops of different slots share only the run record and the coordinator, whose
  two-slot behaviour `SlotWorkTwoSlots` covers.
* *Member runtimes.*  Two calls, their attach tasks and the loop reach every action
  but the join of a removal that another session began, which needs a third.  Two
  sessions make everything an old one still does stale.
* *Cron.*  Two ticks are enough to claim, take over and fence one occurrence, two
  occurrences to overlap two runs of a job, and one event at any point is what
  the properties are about.  The retry is in `CronJobsLive`, where it matters.
* *Conversations.*  A turn and its successor; three cells, so that an agent may be
  evicted while its successor is built; one event.  `CancelledTurnEnds` needs the bound
  on events: a revocation after the cancel makes the cancel's timer find nothing to
  stop, and the code has no other timer.
* *Session agent.*  A prompt and its successor, because everything a pump remembers
  too long, and every result that comes too late, bites in the next prompt; two events
  on the wire and one in the pump's hand hold a result, an end of the program and a
  workflow's end at once.

The safety properties do not depend on these bounds: section 5 proves each of them
for any number of slots, items, calls, sessions, ticks, turns, prompts and events.  The
bounds matter for the liveness properties and for the runs that find violations.

Counters (`MaxOps`, `MaxCells`, `MaxOccurrence`, `MaxEvents`, `MaxPrompts`, `MaxWire`,
`MaxSessions`, `MaxRetries`) are the only bounds on behaviours, and a state in which
they are used up may have no successor; that is why the configurations say
`CHECK_DEADLOCK FALSE`. The code itself also rests when nothing is to do.  Symmetry is
used where only invariants or action properties are checked.

**What the properties exempt.**  Where the code breaks a statement on a known path, a
history variable marks what the path has touched, and the property speaks of the rest:
`forgotten` (a claim that a transport error leaves behind), `unmarked` (rows whose
`mark_read` failed), `revoked` (claims cleared by `terminate_runtime_for_user`), `woken`
(turns continued on an agent that was stopped), `dropped` (in `MemberRuntimes`
reservations an early return leaves, in `CronJobs` a job that a thread left on an error
of the database or on an outdated copy, until somebody arms a timer for it again),
`abandoned` (queued jobs with an unfinished run that a crash or a failed write of its
result has left) and, in `SessionAgent`, `strayed` (a result frame of an earlier prompt
has come to a later one) and the prompts of a kill.  Section 6 says what happens there.
`OccurrenceRunsOnce` and `QueuedRunsDoNotOverlap` speak of a machine that is not
suspended.  `QueuedWorkHasAWakeUp` speaks of a member that is in the team: a
`spawn_agent` that is overtaken by the removal of its member puts it back into the
scheduler with its old work. `MessagesKeepTheirOrder` lets run-less work be reordered
among itself: after a runtime failure the code requeues intents in the iteration order
of a `HashMap`.

**Fairness.**  Tokio schedules spawned tasks and the database answers; this is all
the liveness properties assume.  Nobody is made to send, to cancel or to call, and no
fault is made to happen or to stop.

* `TeamWork`: weak fairness of every thread that has begun something: publishing, the
  rest of an enqueue call, an event loop, the rest of a cancellation, and a turn that
  was started ends.  In `TeamWorkLive` the faults are failing writes and turn starts;
  with `skip` the property fails (section 6), and a failed peek, preparation or
  `mark_read` equally leaves the work until the next notification.
* `CronJobs`: weak fairness of every thread that works, of the firing of a timer
  that is due, and of the expiry of a lease that nobody renews.  `ClaimedRunsEnd` also
  needs a database that answers: after a failed call nobody may be left to take the
  run up (section 6), so `CronJobsLive` is without the fault `database`.
* `ConversationTurns`: weak fairness of the turns, the drain timer, the builds, the
  kills that wait for them, and a cancel under way.  An agent owes no answer, which is
  why `TurnsOnlyWaitForTheirAgent` ends with a turn that waits for its agent and
  nothing else, and `CancelledTurnEnds` does not wait for the agent at all.
* `SessionAgent`: weak fairness of the pump, the relay and the sending tasks, and
  nothing of the program.  `PromptsEnd` is about prompts the program has answered,
  died under, or was never given.

## 5. Proofs

Every invariant and action property that a passing run checks is also a theorem
about the specification, for every value of the constants that the modules'
assumptions allow.  TLC checked each property, and each inductive invariant of this
sort, on a small instance before it was proved.

| Theorem | States, for every value of the constants |
|---|---|
| *Slot work* (`SlotWorkProofs`) | |
| `TypeOKHolds` | `Spec => []TypeOK` |
| `QueuedWorkHolds` | `[]QueuedWorkIsInItsDeque`: deques and waiting intents agree |
| `ClaimedWorkHolds` | `[]ClaimedWorkIsInItsBatch`: batches and claimed intents agree |
| `ListedOnceHolds` | `[]ListedOnce`: nothing is listed twice |
| `CommandsRunAloneHolds` | `[]CommandsRunAlone`: a command shares its batch with nothing |
| `MessagesKeepTheirOrderHolds` | `[]MessagesKeepTheirOrder`: put-backs do not reorder messages |
| `EndedWorkStaysEndedHolds` | `Spec => EndedWorkStaysEnded`: outcomes are final |
| `CancelRunIsExactHolds` | `Spec => CancelRunIsExact`: a cancel ends its run's work and no other |
| `ImplementsSerialWorkHolds` | `Spec => ImplementsSerialWork`: the coordinator refines `SerialWork` |
| *Team work* (`TeamWorkProofs`) | |
| `TeamInvHolds` | `[]TeamInv`, the inductive invariant |
| `SessionTypeOKHolds` | `[]SessionTypeOK` |
| `SessionKeepsOwnership` | `[]Ownership`: the session's loops report current handles only |
| `ActiveBatchIsBeingExecutedHolds` | `[]ActiveBatchIsBeingExecuted`: no slot is busy with nothing |
| `OneTurnPerRowHolds` | `[]OneTurnPerRow`: a row is given to one turn |
| `CancelledOnRequestHolds` | `[]CancelledOnRequest`: only a cancel cancels a run |
| `SessionImplementsSerialWork` | `Spec => ImplementsSerialWork`: the whole session refines `SerialWork` |
| *Member runtimes* (`MemberRuntimesProofs`) | |
| `RuntimeTypeOKHolds` | `[]RuntimeTypeOK` |
| `LedgerTheorem` | `[]LedgerInv`: the pending answers are exactly those of the holder of the entry |
| `EntriesAreOwnedHolds` | `[]EntriesAreOwned`: what is under way has one task that will end it |
| `PendingAnswersAreOwedTheorem` | `[]PendingAnswersAreOwed`: no waiter is forgotten |
| `AbsentHasNoLoopHolds` | `[]AbsentHasNoLoop`: no event loop outlives its member's entry |
| `QueuedWorkHasAWakeUpHolds` | `[]QueuedWorkHasAWakeUp`: accepted work reaches the loop |
| `AnswersAreFinalTheorem` | `Spec => AnswersAreFinal`: no answer is given twice |
| *Cron* (`CronJobsProofs`) | |
| `CronTypeOKHolds` | `[]CronTypeOK` |
| `OccurrenceRunsOnceHolds` | if the machine is not suspended, an occurrence starts one turn |
| `QueuedRunsDoNotOverlapHolds` | if the machine is not suspended, queued runs do not overlap until a tick has left its run unfinished |
| `EnabledJobHasATimerHolds` | `[]EnabledJobHasATimer`: unless it was dropped, an enabled job has a timer or somebody who arms it |
| *Conversations* (`ConversationTurnsProofs`) | |
| `ConversationTypeOKHolds` | `[]ConversationTypeOK` |
| `OneTurnAtATimeHolds` | `[]OneTurnAtATime`: turns exclude each other |
| `NoStrayAgentsHolds` | `[]NoStrayAgents`: no agent lives where nobody finds it |
| *Session agent* (`SessionAgentProofs`) | |
| `SessionAgentTypeOKHolds` | `[]SessionAgentTypeOK` |
| `EndsAreOwnHolds` | `[]EndsAreOwn`: until a kill or a stray result, a prompt ends as its own work ended |
| `ToolRowsAreClosedHolds` | `[]ToolRowsAreClosed`: until then, no tool row is left open by an ended prompt |
| `BusyAgentsAreNotIdleHolds` | `[]BusyAgentsAreNotIdle`: until then, a busy agent is not taken for idle |
| *Deques* (`WorkQueueProofs`) | |
| `WithoutElems`, `WithoutKeepsOrder` | removal leaves exactly the other entries, in their order |

The assumptions are those the modules name: `ConstantsAssumption`, `ClientAssumption`,
`TeamAssumption`, `BoundsAssumption`, `CallersAssumption`, `CallsAssumption`,
`FaultsAssumption`, `CronAssumption`, `ConversationAssumption` and
`SessionAgentAssumption`; they say that names differ, that sets a count is taken of
are finite, that bounds are numbers and that the faults and calls are those of the
module.  Two theorems assume more, and are false without it (section 6):
`"suspend" \notin Faults` for `OccurrenceRunsOnce` and `QueuedRunsDoNotOverlap`.

*Deques.*  `Without` is a recursive function and the library's induction theorems take
an operator, which the installed provers cannot instantiate; the lemmas argue
instead with the least number at which the claim would fail (`LeastNatural`, from the
well-foundedness of the naturals).

*The coordinator* is proved about once, in `WorkCoordinatorProofs`, for its two clients.
`CoordinatorInv` joins the types with `Ownership`, `Assigned` (a lease has a slot, so that a
commit has a deque to append to) and `IdleSlotsHaveNotStarted` (a claim finds
`started` cleared, else the new members, which are `starting`, would disagree with
it).  One lemma per operation describes it as a move: `DequesMove(Enter, Leave)` and
`BatchesLeave(S)` say which items enter and leave the deques and which batches are
cleared, and `DequeStep` and `ReleaseStep` show that such moves preserve the two halves
of `Ownership`.  `mark_started` and `next`, which fill a batch rather than clear it,
have arguments of their own.  The refinement of `SerialWork` maps every item to a stage
and a slot to a lane.  `StageStep` is what an operation looks like then: a commit, a
reconciliation, a claim, or a step in which some slots let go of their batches and
some work ends (`Releases`); each of the four is a step of `SerialWork`
(`StageStepRefines`), and it is left to the two clients to show that they make no other.

*Slot work.*  A client may report any batch it was ever given.  Of what
`is_current_batch` compares (slot, batch id, session generation, operation id) the model
keeps the slot and the operation id; so `IInv` adds to `CoordinatorInv` that handles are
unique and below the counter (`IssuedBefore`, `HandlesAreUnique`), a lemma about the
model that the batch id makes unnecessary in the code.  Then a
current handle *is* the active batch (`CurrentHandle`) and the report acts on the
batch's own members.  `BatchInv` adds what handed-out batches hold, from which
`CommandsRunAlone` and `CancelRunIsExact` follow.  `OrderInv` says that a batch and the
deque behind it, read as one line, are in the order of arrival, which a put-back in
front of the deque keeps because the batch was taken from there; run-less work is
the exception the property names.

*Team work.*  A session is a client that holds at most one handle per slot, so it needs
no uniqueness of handles: `BatchInv` says that the batch a loop remembers is the active
one if there is any (`BatchIsKnown`), and that it was claimed for the loop's slot and
holds committed work (`BatchIsOwn`).  `RowInv` relates rows to work: a call that has
written its row has its lease (`CallsHaveTheirWork`), a row is worked on in its own slot
(`RowsAreHome`), and a row that was given to a turn is settled: no prompt will be built
from it again, or the loop that gave it will mark it read (`RowsAreGivenOnce`).  Of the
coordinator the proof uses only `CoordinatorStep`: the invariant is kept, work that was
committed stays the work it is (`WorkPersists`), and a batch stays or goes.  Publishing,
which is most of the steps, changes nothing that these speak of (`RowFrame`,
`BatchFrame`, `CallFrame`, `LoopFrame`, `CancelFrame`).  The session implements
`SerialWork` because a loop that reports a batch reports the active one or none
(`HandleFacts`, `ReportStages`).

*Member runtimes.*  Everything the registry does to a session is one of a few moves on
its record.  `LedgerInv` says that a pending answer belongs to the operation that holds
the entry and that ids to come are unused; each move keeps it, and each leaves answers
that were given alone.  `OwnInv` follows the reservation from the call that makes it to
the task it spawns: only operations that were begun have tasks and callers
(`TasksBegun`, `CallsBegun`), one call spawns an operation's task and none does when it
runs (`OneSpawner`), and what is under way has its owner (`Owned`).  `RunInv` is about
the loops: the loop of a member the registry does not know was just registered by a task
that will remove it again (`LoopIsKnown`), and work has reached the loop or somebody is
about to tell it (`WorkIsTold`), whatever stops and calls are under way (`StopsWell`,
`CallWell`).

*Cron.*  For the claim, `IInv` is `StateTypeOK /\ RunsInv`.  `RunsInv` says that a run
is held by at most one tick (`HoldersDiffer`), which has a live lease of this process on
it (`HoldersOwn`), that a holder which has yet to start its turn finds none started
(`HoldersStartFirst`), that a started run is held until it has a result
(`StartedRunsEnd`), and, before a crash, that a queued job has one holder and no
unfinished run without one (`QueueHasOneHolder`).  A tick that finds the run taken loses
by the claim's SQL condition, and a tick after a crash takes over only what no thread of
this process executes.  For the timer, `TimerInv` says that somebody is responsible for
a job that was not dropped: an armed timer, or a thread that is going to arm one
(`WillRearm`, `JobIsAttended`); and that the copies of the job which threads carry can
be scheduled (`CopiesAreTimed`).  A copy may say disabled when the row says enabled; the
thread that acts on it drops the job.  `TimerInv` rests on `BoundInv`, which keeps
everything within the schedule without any assumption on the faults.

*Conversations.*  `IInv` is `StateTypeOK /\ AgentsInv /\ OneTurnAtATime`.  `AgentsInv` says
that threads hold cells that are in use (`ThreadsHaveTheirCells`), that a cell has at most
one builder (`OneBuilder`), and who may still reach the agent of a cell: the slot, a
thread, or a kill that waits (`AgentsAreFound`).  A kill takes the cell out of the slot
before it stops the agent, so a cell that is still being built must be among those
whose kill waits.

*Session agent.*  `IInv` has three layers, for what is true always, as long as nobody
had to kill and no result has strayed (`Undisturbed`), and while besides nothing has gone
wrong with the program (`Healthy`).  Prompts then come one after the other (`PromptsInv`),
and what is between program and relay about tools is about the prompt the relay waits
for, before its first end (`TracksInv`).  Ends of earlier prompts may still be on the
wire or in the pump's hand.  Therefore an end is an own one of the last prompt or not
(`OwnEnd`, `OwnEnding`), the places ahead of it are clear of own ends or not (`InboxClear`,
`HandClear`, `WireClear`), and an end that is not own reaches the relay only by a step that
sets `strayed`.  While the program is healthy it has the last prompt, or an earlier one
of which it has said the first end (`ProgramInv`); an own end of the last prompt is on its
way exactly if the program has ended it, and the first one says how (`EndsInv`); and
when the pump has taken what is on the wire it knows of a running workflow what the
program knows (`WireInv`).  The last is why the launch of a workflow does not end a
prompt.

*Only model-checked* are the liveness properties (`AcknowledgedWorkEnds`, `ClaimedRunsEnd`,
`CancelledTurnEnds`, `TurnsOnlyWaitForTheirAgent`, `PromptsEnd`), because liveness under
fairness needs `ENABLED`, which is beyond the prover, and the counterexamples of
section 6.

## 6. Findings

| Run | The code | What the repository says |
|---|---|---|
| `CancelledRunStaysCancelled` | a summary computed before a cancellation and published after it sets the run back to running (`work_coordinator/snapshot.rs:20`) | a cancelled run is not revived (`tests/e2e_team_flow.rs:1783`) |
| `AcceptedMessagesAreKept` | a cancel marks the conversation after its turn has ended, and the next message is dropped although its send returns `Ok` (`service.rs:2887`) | the message is stored and the send returns at once (`service.rs:2818`) |
| `CrashesAreReported` | the pump's `terminal_result_seen` stays set after the first prompt, so a program that dies in a later one ends it as an ordinary answer (`session_agent.rs:1938`) | it is reset on the next turn's start (`session_agent.rs:1935`), and a crash in a turn is an error (the test at `session_agent.rs:3581`) |

Other disagreements were seen in counterexamples and have no run of their own.  Most
are stated as definitions of the module named, so that a reader can check them:

* `TeamWork`: a row written and not yet committed is claimed as run-less recovery
  work (`TurnsAreRunScoped`; `session.rs:939`); a loop that peeked before a
  cancellation gives the cancelled row to a turn (`CancelledRowsAreNotConsumed`;
  `mailbox.rs:106`); a row committed between peek and claim is marked read without
  having been in the prompt (`ReadRowsWereDelivered`; `mailbox.rs:100`); an error while
  the tool transport is chosen leaves the batch claimed (`forgotten`;
  `session.rs:406`); work requeued because the agent is busy waits for an unrelated
  notification (the fault `skip`; `event_loop.rs:299`).
* `MemberRuntimes`: `spawn_agent` returns with its reservation when the welcome is not
  accepted (`NoDanglingAttach`; `session.rs:580`); removing a dormant member holds nobody
  off (`RemovalsAreGuarded`; `service.rs:633`); an attach that was replaced unregisters
  its successor's loop (`ReadyHasALoop`, three calls); the rollback of a cold start
  removes whichever session is published (`service.rs:1015`); a `starting` constraint
  read early and applied after a failure reopens the slot; the attach of an old
  session may rebuild an agent with the old session's tool server.
* `CronJobs`: the tick of the old timer runs an occurrence the user was told was missed
  (`MissedOccurrenceIsNotRun`; `service.rs:764`); after a suspension an occurrence that is
  still being executed is claimed again (`service.rs:694`); a tick returns on an error of
  the database, when it loads the job, claims or writes the result (`service.rs:626`,
  `:688`, `:1511`), and leaves an enabled job without a timer, and in the last case a run
  without its end (`dropped`, `abandoned`); enabling a job while its at-occurrence ends
  leaves it without a timer too (`dropped`); after a crash and an edit, queued runs
  overlap (two events).
* `ConversationTurns`: an agent that is being built when its conversation is deleted
  outlives it (`DeletedConversationHasNoAgent`); the idle scan kills an ACP agent that a
  turn has taken meanwhile (`IdleKillSparesTurns`); a turn whose agent was killed by the
  drain timer is continued, starts the agent again and waits for it with no timer
  left, and further cancels find no agent in the slot (`KilledTurnEnds`;
  `turn_orchestrator.rs:214`); a second cancel that fails clears the first one's mark
  (`service.rs:3221`); a cancel that comes late hits the next turn; a revocation's
  `clear_conversation` lets two turns run beside each other.
* `SessionAgent`: "the later `result` TurnResult is harmlessly absorbed by I10" after
  the stop of the last message has ended the turn (`claude.rs:576`, and `:807`), but
  I10 is a rule of the session's reducer, and `process_batch`, `events` and the pump,
  by which a result gets to the relay here, drop nothing.  A result frame that comes
  when the next prompt waits therefore ends this prompt, sets the status to finished
  while the agent works on it, and what its tools say later reaches no relay
  (`LaterResultsAreAbsorbed`; `strayed`); and a prompt whose result frame is an error
  has ended as answered before.  After a kill the pump takes the killed workflow for
  running and suppresses the end of the next prompt (`AnswersEnd`); a prompt sent
  between the kill's `Finish` and the stop of the program is left without an end; a
  hung program that is started again has its last prompt reported as answered; the
  tool rows of killed prompts stay `work`; a late result of a killed prompt sets the
  status of the next.

## 7. What is not modelled

*Of the modelled components.*  Pausing, removing and spawning members and stopping the
session in `TeamWork` (the coordinator's side of them is in `SlotWork`, the registry's in
`MemberRuntimes`), restart of a session, and the cancellation of an agent's turn,
so that a property about a turn that outlives its cancellation cannot be stated
there.  Of conversations, shutdown and startup recovery.  Of session agents,
permissions, modes and models.

*Of the team subsystem.*  The scheduler's statuses and dedup window, the task
board, the tool server.

*Of the rest.*  The repository has 287,000 lines, of which most are storage,
I/O, protocol parsing and formatting, CRUD over a database, and user interface.  These
have no concurrent state of their own, and their defects are those of data, which a
model of control abstracts.  The map names the lines the definitions stand for and
nothing else; it is a small share of the repository and a large one of the state
machines in it.  `PROJECT.json` gives a reason for every component left out.

Hazards seen and not listed there, because others say more: the role prompt's flag is
consumed before the prompt is delivered (`session.rs:404`); `abort_enqueue` finds a run
empty and unbinds it in two steps (`coordinator.rs:291`); `cancel_run` returns
early when marking rows read fails, before it stops the running turns (`session.rs:1127`);
`stop` reaches only slots that exist (`coordinator.rs:904`); a job's run counters are
read and written in two calls (`service.rs:1285` of `fool-cron`).

## 8. Plan

Done: slot work, team work, member runtimes, cron, conversation turns and agent
tasks, the session agent.  Next, in this order:

1. **Proofs** of the invariants of the components that follow; the safety properties
   of those that are there are proved.
2. **Composition**: that `SessionAgent` is what `ConversationTurns` takes an agent for;
   `MemberRuntimes` with the coordinator, and leader and teammate together.
3. **Restart and recovery** of a team session and of conversations.
4. **Scheduler and task board**: member statuses and the finalize dedup window; the
   two directions of task dependencies, checked against a reference graph.
5. **Other backends** (codex, ACP) and liveness of member runtimes.
