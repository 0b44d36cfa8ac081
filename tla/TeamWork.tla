------------------------------ MODULE TeamWork ------------------------------
(***************************************************************************)
(* A running team session: producers that enqueue work (session.rs), one   *)
(* event loop per slot that claims it and runs agent turns                 *)
(* (event_loop.rs), users that cancel the run, the mailbox rows, the work  *)
(* coordinator and the run record.                                         *)
(*                                                                         *)
(* A thread gives up the coordinator's mutex before it publishes the run   *)
(* summaries it computed under it, and awaits the database between its     *)
(* other steps, so everything between two awaits or two mutex sections is  *)
(* one action and all threads interleave.                                  *)
(*                                                                         *)
(* Every slot's runtime is ready from the start; the runtime's own life,   *)
(* pausing and removing slots and stopping the session are not in this     *)
(* module.                                                                 *)
(***************************************************************************)
EXTENDS WorkCoordinator

CONSTANTS
    Producers,  \* the work items that are enqueue calls; the others are drains
    Sources,    \* the sources of those calls
    Faults      \* which faults happen, a subset of AllFaults

AllFaults == {"write", "peek", "prepare", "transport", "read", "skip", "start"}

ASSUME TeamAssumption ==
    /\ Producers \subseteq Works
    /\ Messages = Producers     \* every enqueue call writes its own row
    /\ Sources \subseteq WorkSource
    /\ Faults \subseteq AllFaults

VARIABLES
    run,        \* the TeamRunManager's record
    usedRuns,   \* run ids generated so far
    unread,     \* unread[s]: the unread mailbox rows of slot s, oldest first
    call,       \* call[w]: where enqueue call w is
    loop,       \* loop[s]: where the event loop of slot s is
    view,       \* view[s]: the rows its last peek_unread returned
    batch,      \* batch[s]: the batch it executes
    ran,        \* ran[s]: started_seen of that batch
    settling,   \* settling[s]: the signals next told it to settle
    notified,   \* notified[s]: the permit of the slot's Notify
    cancel,     \* cancel[r]: where the cancellation of run r is
    victims,    \* victims[r]: the terminal_message_ids it has to mark read
    pending,    \* pending[t]: summaries thread t has computed, not published
    turns,      \* history, turns[m]: agent turns that were given row m
    unmarked,   \* history: rows that some thread failed to mark read
    forgotten   \* history: slots whose loop forgot the batch it had claimed

sessionVars == <<run, usedRuns, unread, call, loop, view, batch, ran, settling,
                 notified, cancel, victims, pending, turns, unmarked, forgotten>>
vars == <<coordinatorVars, sessionVars>>

Record == INSTANCE TeamRun WITH RunIds <- Runs, NoRunId <- NoRun

Threads == Producers \cup Slots \cup Runs

TeamWorkInit ==
    /\ phase = [w \in Works |-> "absent"]
    /\ item = [w \in Works |-> Blank]
    /\ slots = Slots
    /\ queue = [s \in Slots |-> EmptyQueues]
    /\ active = [s \in Slots |-> NoBatch]
    /\ started = [s \in Slots |-> FALSE]
    /\ paused = [s \in Slots |-> FALSE]
    /\ constraint = [s \in Slots |-> "ready"]
    /\ removed = [s \in Slots |-> FALSE]
    /\ nextOp = 0
    /\ run = Record!NoRecord
    /\ usedRuns = {}
    /\ unread = [s \in Slots |-> <<>>]
    /\ call = [w \in Producers |-> "idle"]
    /\ loop = [s \in Slots |-> "idle"]
    /\ view = [s \in Slots |-> <<>>]
    /\ batch = [s \in Slots |-> NoBatch]
    /\ ran = [s \in Slots |-> FALSE]
    /\ settling = [s \in Slots |-> {}]
    /\ notified = [s \in Slots |-> FALSE]
    /\ cancel = [r \in Runs |-> "idle"]
    /\ victims = [r \in Runs |-> {}]
    /\ pending = [t \in Threads |-> {}]
    /\ turns = [m \in Messages |-> 0]
    /\ unmarked = {}
    /\ forgotten = {}

-----------------------------------------------------------------------------
(* Publishing: the summaries are those of the state the mutex section left. *)

Announce(t, runs) == pending' = [pending EXCEPT ![t] = {Summary(r)' : r \in runs}]

Publish(t) ==
    /\ t \in Producers => call[t] # "unbinding"
    /\ \E summary \in pending[t] :
          /\ run' = Record!ApplySummary(run, summary)
          /\ pending' = [pending EXCEPT ![t] = @ \ {summary}]
    /\ UNCHANGED <<coordinatorVars, usedRuns, unread, call, loop, view, batch, ran,
                   settling, notified, cancel, victims, turns, unmarked, forgotten>>

-----------------------------------------------------------------------------
(* Enqueue calls: acquire, write the row, commit, publish, notify. *)

\* mark_read_batch of some rows leaves marked; callers log an error and go on.
Mark(marked, rows) ==
    \/ unread' = marked /\ UNCHANGED unmarked
    \/ "read" \in Faults /\ UNCHANGED unread /\ unmarked' = unmarked \cup rows

Goto(w, place) == call' = [call EXCEPT ![w] = place]

\* Mutant: the caller's slot id where its run id belongs.
InheritedSlot(caller) ==
    IF caller = NoSlot \/ active[caller] = NoBatch THEN NoRun ELSE active[caller].slot

\* The run a non-user enqueue inherits: that of the batch its caller works on.
InheritedRun(caller) ==
    IF caller = NoSlot THEN NoRun ELSE FirstRun(active[caller])

BindNew(source, r) ==
    IF source \in UserSource THEN Record!BindUser(run, r)
                             ELSE Record!BindSystem(run, r)

Acquire(w) ==
    /\ call[w] = "idle"
    /\ \E s \in Slots, source \in Sources, caller \in Slots \cup {NoSlot} :
          /\ source \in UserSource => caller = NoSlot
          /\ \/ /\ InheritedRun(caller) # NoRun
                /\ AcquireEnqueue(w, s, source, InheritedRun(caller))
                /\ UNCHANGED <<run, usedRuns>>
             \/ /\ InheritedRun(caller) = NoRun
                /\ \E r \in Runs :
                      /\ IF Record!IsActive(run) THEN r = run.id ELSE r \notin usedRuns
                      /\ run' = BindNew(source, r)
                      /\ usedRuns' = usedRuns \cup {r}
                      /\ AcquireEnqueue(w, s, source, r)
          /\ Goto(w, IF RequiresMailboxMessage(source) THEN "leased" ELSE "written")
    /\ UNCHANGED <<unread, loop, view, batch, ran, settling, notified, cancel,
                   victims, pending, turns, unmarked, forgotten>>

WriteRow(w) ==
    /\ call[w] = "leased"
    /\ unread' = [unread EXCEPT ![item[w].slot] = Append(@, w)]
    /\ Goto(w, "written")
    /\ UNCHANGED <<coordinatorVars, run, usedRuns, loop, view, batch, ran, settling,
                   notified, cancel, victims, pending, turns, unmarked, forgotten>>

\* The row cannot be written: give the lease back, and the run with it when
\* the lease was all it had.
WriteFails(w) ==
    /\ "write" \in Faults
    /\ call[w] = "leased"
    /\ \/ /\ AbortEnqueue(w)
          /\ Goto(w, IF RunIsEmpty(w) THEN "unbinding" ELSE "failed")
          /\ Announce(w, {item[w].run} \ {NoRun})
       \/ /\ phase[w] # "leased"
          /\ Goto(w, "failed")
          /\ UNCHANGED <<coordinatorVars, pending>>
    /\ UNCHANGED <<run, usedRuns, unread, loop, view, batch, ran, settling,
                   notified, cancel, victims, turns, unmarked, forgotten>>

Unbind(w) ==
    /\ call[w] = "unbinding"
    /\ run' = Record!AbortBinding(run, item[w].run)
    /\ Goto(w, "failed")
    /\ UNCHANGED <<coordinatorVars, usedRuns, unread, loop, view, batch, ran,
                   settling, notified, cancel, victims, pending, turns, unmarked, forgotten>>

Commit(w) ==
    /\ call[w] = "written"
    /\ \/ /\ CommitEnqueue(w, IF RequiresMailboxMessage(item[w].source)
                              THEN w ELSE NoMessage)
          /\ Announce(w, {item[w].run} \ {NoRun})
          /\ Goto(w, "committed")
       \/ /\ ~CanCommit(w)      \* the lease was dropped by a cancellation
          /\ Goto(w, IF RequiresMailboxMessage(item[w].source)
                     THEN "compensating" ELSE "failed")
          /\ UNCHANGED <<coordinatorVars, pending>>
    /\ UNCHANGED <<run, usedRuns, unread, loop, view, batch, ran, settling,
                   notified, cancel, victims, turns, unmarked, forgotten>>

\* commit_persisted_enqueue settles the row of a rejected commit.
Compensate(w) ==
    /\ call[w] = "compensating"
    /\ Mark([unread EXCEPT ![item[w].slot] = Without(@, {w})], {w})
    /\ Goto(w, "failed")
    /\ UNCHANGED <<coordinatorVars, run, usedRuns, loop, view, batch, ran, settling,
                   notified, cancel, victims, pending, turns, forgotten>>

\* Mutant: wakes a waiting loop, but leaves no permit for a busy one.
WakeWaiting(s) == [notified EXCEPT ![s] = loop[s] = "idle"]

\* notify_one
NotifyOne(s) == [notified EXCEPT ![s] = TRUE]

NotifyLoop(w) ==
    /\ call[w] = "committed"
    /\ pending[w] = {}
    /\ notified' = NotifyOne(item[w].slot)
    /\ Goto(w, "done")
    /\ UNCHANGED <<coordinatorVars, run, usedRuns, unread, loop, view, batch, ran,
                   settling, cancel, victims, pending, turns, unmarked, forgotten>>

EnqueueCall(w) ==
    \/ Acquire(w) \/ WriteRow(w) \/ WriteFails(w) \/ Unbind(w)
    \/ Commit(w) \/ Compensate(w) \/ NotifyLoop(w)

-----------------------------------------------------------------------------
(* The event loop of a slot. *)

Step(s, from, to) == loop[s] = from /\ pending[s] = {} /\ loop' = [loop EXCEPT ![s] = to]

callVars == <<usedRuns, call, cancel, victims>>

Wake(s) ==
    /\ Step(s, "idle", "peek")
    /\ notified[s]
    /\ notified' = [notified EXCEPT ![s] = FALSE]
    /\ UNCHANGED <<coordinatorVars, callVars, run, unread, view, batch, ran,
                   settling, pending, turns, unmarked, forgotten>>

\* prepare_next_batch: read the unread rows (set_runtime_constraint before it
\* finds the runtime ready and changes nothing) ...
Peek(s) ==
    /\ \/ Step(s, "peek", "reconcile") /\ view' = [view EXCEPT ![s] = unread[s]]
       \/ "peek" \in Faults /\ Step(s, "peek", "idle") /\ UNCHANGED view
    /\ UNCHANGED <<coordinatorVars, callVars, run, unread, batch, ran, settling,
                   notified, pending, turns, unmarked, forgotten>>

\* ... reconcile the coordinator with them, as they were then ...
Reconcile(s) ==
    /\ Step(s, "reconcile", "next")
    /\ ReconcileMailbox(s, view[s])
    /\ \A w \in Producers : phase[w] = "absent" => phase'[w] = "absent"
    /\ UNCHANGED <<callVars, run, unread, view, batch, ran, settling, notified,
                   pending, turns, unmarked, forgotten>>

\* ... and ask what to do.
ClaimNext(s) ==
    /\ Step(s, "next", "prepare")
    /\ Claim(s)
    /\ batch' = [batch EXCEPT ![s] = ClaimedBatch(s)]
    /\ ran' = [ran EXCEPT ![s] = FALSE]
    /\ Announce(s, BatchRuns(ClaimedBatch(s)))
    /\ UNCHANGED <<callVars, run, unread, view, settling, notified,
                   turns, unmarked, forgotten>>

ObserveSignals(s) ==
    /\ Step(s, "next", "settle")
    /\ SignalsToSettle(s) # {}
    /\ settling' = [settling EXCEPT ![s] = SignalsToSettle(s)]
    /\ UNCHANGED <<coordinatorVars, callVars, run, unread, view, batch, ran,
                   notified, pending, turns, unmarked, forgotten>>

Quiesce(s) ==
    /\ Step(s, "next", "idle")
    /\ ~Selectable(s)
    /\ view' = [view EXCEPT ![s] = <<>>]
    /\ UNCHANGED <<coordinatorVars, callVars, run, unread, batch, ran,
                   settling, notified, pending, turns, unmarked, forgotten>>

\* handle_signal_intents; rejected when one of them is no longer queued.
SettleSignals(s) ==
    /\ Step(s, "settle", "peek")
    /\ \/ /\ CompleteSignals(s, settling[s])
          /\ Announce(s, {item[w].run : w \in settling[s]} \ {NoRun})
       \/ /\ ~(settling[s] \subseteq OfSlot(s, {"queued"}))
          /\ UNCHANGED <<coordinatorVars, pending>>
    /\ settling' = [settling EXCEPT ![s] = {}]
    /\ UNCHANGED <<callVars, run, unread, view, batch, ran, notified,
                   turns, unmarked, forgotten>>

\* retry_start by the event loop, which then waits for a signal.
GiveBack(s, from) ==
    /\ Step(s, from, "idle")
    /\ \/ RetryStart(batch[s]) /\ Announce(s, BatchRuns(batch[s]))
       \/ ~IsCurrent(batch[s]) /\ UNCHANGED <<coordinatorVars, pending>>
    /\ UNCHANGED <<callVars, run, unread, view, batch, ran, settling, notified,
                   turns, unmarked, forgotten>>

\* Building the prompt: the tasks may be unreadable, and so may be the agent's
\* metadata, from which the tool transport is chosen.  The first error gives
\* the batch back, the second returns with the batch still claimed.
Prepare(s) ==
    \/ /\ Step(s, "prepare", "turn")
       /\ UNCHANGED <<coordinatorVars, callVars, run, unread, view, batch, ran,
                      settling, notified, pending, turns, unmarked, forgotten>>
    \/ "prepare" \in Faults /\ GiveBack(s, "prepare")
    \/ /\ "transport" \in Faults
       /\ Step(s, "prepare", "idle")
       /\ forgotten' = forgotten \cup {s}
       /\ UNCHANGED <<coordinatorVars, callVars, run, unread, view, batch, ran,
                      settling, notified, pending, turns, unmarked>>

\* run_agent_turn answers that the agent is already running a turn.
TurnSkipped(s) == "skip" \in Faults /\ GiveBack(s, "turn")

TurnStartFails(s) ==
    /\ "start" \in Faults
    /\ Step(s, "turn", "read")
    /\ UNCHANGED <<coordinatorVars, callVars, run, unread, view, batch, ran,
                   settling, notified, pending, turns, unmarked, forgotten>>

Rows(b) == {item[w].message : w \in Elems(b.works)}

\* Mutant: gives the agent every row of the batch, read or not.
WakeBatch(s) == Rows(batch[s]) \ {NoMessage}

\* WakeInput.unread: the rows of the batch that the loop had read beforehand.
\* They are what the agent is given.
WakeInput(s) == Rows(batch[s]) \cap Elems(view[s])

\* on_started: the turn has begun.
TurnStarts(s) ==
    LET b == batch[s]
        verdict == StartVerdict(b)
    IN  /\ Step(s, "turn", IF verdict = "CancelImmediately" THEN "cancelling" ELSE "running")
        /\ \/ MarkStarted(b) /\ Announce(s, BatchRuns(b))
           \/ ~IsCurrent(b) /\ UNCHANGED <<coordinatorVars, pending>>
        /\ ran' = [ran EXCEPT ![s] = TRUE]
        /\ turns' = [m \in Messages |->
                       IF m \in WakeInput(s) /\ verdict # "CancelImmediately"
                       THEN turns[m] + 1 ELSE turns[m]]
        /\ UNCHANGED <<callVars, run, unread, view, batch, settling, notified, unmarked, forgotten>>

\* The callback cancels the turn it was told to cancel, then the batch.
CancelLateStart(s) ==
    /\ Step(s, "cancelling", "read")
    /\ \/ TerminalizeBatch(batch[s], "cancelled") /\ Announce(s, BatchRuns(batch[s]))
       \/ ~IsCurrent(batch[s]) /\ UNCHANGED <<coordinatorVars, pending>>
    /\ UNCHANGED <<callVars, run, unread, view, batch, ran, settling, notified,
                   turns, unmarked, forgotten>>

TurnEnds(s) ==
    /\ Step(s, "running", "read")
    /\ UNCHANGED <<coordinatorVars, callVars, run, unread, view, batch, ran,
                   settling, notified, pending, turns, unmarked, forgotten>>

\* mark_batch_messages_read, whoever owns the batch by now.
MarkRead(s) ==
    /\ Step(s, "read", "finish")
    /\ Mark([unread EXCEPT ![s] = Without(@, Rows(batch[s]))], Rows(batch[s]))
    /\ UNCHANGED <<coordinatorVars, callVars, run, view, batch, ran, settling,
                   notified, pending, turns, forgotten>>

\* complete_batch or fail_batch, then the loop goes on draining.
Finish(s) ==
    /\ Step(s, "finish", "peek")
    /\ \/ \E end \in {"completed", "failed"} :
             /\ ~ran[s] => end = "failed"
             /\ TerminalizeBatch(batch[s], end)
             /\ Announce(s, BatchRuns(batch[s]))
       \/ ~IsCurrent(batch[s]) /\ UNCHANGED <<coordinatorVars, pending>>
    /\ batch' = [batch EXCEPT ![s] = NoBatch]
    /\ ran' = [ran EXCEPT ![s] = FALSE]
    /\ view' = [view EXCEPT ![s] = <<>>]
    /\ UNCHANGED <<callVars, run, unread, settling, notified,
                   turns, unmarked, forgotten>>

EventLoop(s) ==
    \/ Wake(s) \/ Peek(s) \/ Reconcile(s)
    \/ ClaimNext(s) \/ ObserveSignals(s) \/ Quiesce(s) \/ SettleSignals(s)
    \/ Prepare(s) \/ TurnSkipped(s) \/ TurnStartFails(s)
    \/ TurnStarts(s) \/ CancelLateStart(s) \/ TurnEnds(s)
    \/ MarkRead(s) \/ Finish(s)

-----------------------------------------------------------------------------
(* TeamSession::cancel_run. *)

BeginCancel(r) ==
    /\ cancel[r] = "idle"
    /\ Record!ActiveRunId(run) = r
    /\ run' = Record!BeginCancel(run)
    /\ cancel' = [cancel EXCEPT ![r] = "begun"]
    /\ UNCHANGED <<coordinatorVars, usedRuns, unread, call, loop, view, batch, ran,
                   settling, notified, victims, pending, turns, unmarked, forgotten>>

CancelWork(r) ==
    /\ cancel[r] = "begun"
    /\ victims' = [victims EXCEPT ![r] = {item[w].message : w \in CancelledWorks(r)}]
    /\ CancelRun(r)
    /\ Announce(r, {r})
    /\ cancel' = [cancel EXCEPT ![r] = "cancelled"]
    /\ UNCHANGED <<run, usedRuns, unread, call, loop, view, batch, ran, settling,
                   notified, turns, unmarked, forgotten>>

\* The cancelled turns end by themselves (TurnEnds); a failed mark_read leaves
\* the rows unread.
SettleVictims(r) ==
    /\ cancel[r] = "cancelled"
    /\ pending[r] = {}
    /\ Mark([s \in Slots |-> Without(unread[s], victims[r])], victims[r])
    /\ cancel' = [cancel EXCEPT ![r] = "done"]
    /\ UNCHANGED <<coordinatorVars, run, usedRuns, call, loop, view, batch, ran,
                   settling, notified, victims, pending, turns, forgotten>>

Cancellation(r) == BeginCancel(r) \/ CancelWork(r) \/ SettleVictims(r)

-----------------------------------------------------------------------------
Next ==
    \/ \E t \in Threads : Publish(t)
    \/ \E w \in Producers : EnqueueCall(w)
    \/ \E s \in Slots : EventLoop(s)
    \/ \E r \in Runs : Cancellation(r)

Spec == TeamWorkInit /\ [][Next]_vars

\* The runtime schedules every spawned task, and an agent turn ends; nothing
\* makes a user send or cancel.
Fairness ==
    /\ \A t \in Threads : WF_vars(Publish(t))
    /\ \A w \in Producers :
          WF_vars(WriteRow(w) \/ WriteFails(w) \/ Unbind(w) \/ Commit(w)
                  \/ Compensate(w) \/ NotifyLoop(w))
    /\ \A s \in Slots : WF_vars(EventLoop(s))
    /\ \A r \in Runs : WF_vars(CancelWork(r) \/ SettleVictims(r))

FairSpec == Spec /\ Fairness

-----------------------------------------------------------------------------
(* Correctness. *)

Calls == {"idle", "leased", "written", "unbinding", "committed", "compensating",
          "failed", "done"}
Loops == {"idle", "peek", "reconcile", "next", "settle", "prepare", "turn",
          "running", "cancelling", "read", "finish"}

\* The session's variables have their types.
SessionTypeOK ==
    /\ run \in Record!RunRecord
    /\ usedRuns \subseteq Runs
    /\ unread \in [Slots -> Seq(Messages)]
    /\ call \in [Producers -> Calls]
    /\ loop \in [Slots -> Loops]
    /\ view \in [Slots -> Seq(Messages)]
    /\ batch \in [Slots -> Batch]
    /\ ran \in [Slots -> BOOLEAN]
    /\ settling \in [Slots -> SUBSET Works]
    /\ notified \in [Slots -> BOOLEAN]
    /\ cancel \in [Runs -> {"idle", "begun", "cancelled", "done"}]
    /\ victims \in [Runs -> SUBSET (Messages \cup {NoMessage})]
    /\ pending \in [Threads -> SUBSET [run: Runs, failed: BOOLEAN,
                                        running: BOOLEAN, work: BOOLEAN]]
    /\ turns \in [Messages -> Nat]
    /\ unmarked \subseteq Messages \cup {NoMessage}
    /\ forgotten \subseteq Slots

\* A batch the coordinator considers active is the one the slot's event loop is
\* executing: no claim is left without a loop that will complete, fail or give
\* it back, which would block the slot for good (next answers
\* WaitingForCompletion while a batch is active).  The one way the code does
\* that is an error of team_tool_transport_for_agent.
ActiveBatchIsBeingExecuted ==
    \A s \in Slots \ forgotten : active[s] # NoBatch =>
        /\ loop[s] \in {"prepare", "turn", "running", "cancelling", "read", "finish"}
        /\ batch[s] = active[s]

\* However enqueue calls, the loop's own reconciliation and cancellations
\* overlap, and although two intents may own the same row, an agent is given a
\* row in one turn only, unless marking the row as read fails.
OneTurnPerRow == \A m \in Messages \ unmarked : turns[m] <= 1

\* A run is only ever cancelled because the user asked for it.
CancelledOnRequest == run.status = "cancelled" => cancel[run.id] # "idle"

\* Every enqueue that was acknowledged is dealt with: its intent ends and its
\* row does not stay unread.  No wakeup is lost between a commit, its
\* notification and a loop that is just going idle, and a row whose intent the
\* loop took for stale (it was written after peek_unread) is found again.
AcknowledgedWorkEnds ==
    \A w \in Producers :
        call[w] = "done" ~> /\ phase[w] \in Terminal
                            /\ w \notin Elems(unread[item[w].slot])

\* The session as a whole is the serial work service that SerialWork describes: what
\* enqueue calls, reconciliations, late turns, give-backs and cancellations do to
\* each other never makes a member work on two batches at once, take a batch
\* apart, or take up again what has ended.
ImplementsSerialWork == Serial!Spec

-----------------------------------------------------------------------------
(* What the repository says and the code does not do. *)

\* session.rs: every agent turn is run-scoped.
TurnsAreRunScoped ==
    \A s \in Slots : active[s] # NoBatch => BatchRuns(active[s]) # {}

\* A cancelled run is not revived.
CancelledRunStaysCancelled ==
    [][run.status = "cancelled" => run'.status = "cancelled" \/ run'.id # run.id]_vars

\* mailbox.rs: rows are marked read after their delivery in a prompt.  A
\* committed row that is neither cancelled nor failed and is no longer unread
\* has been given to an agent turn.
ReadRowsWereDelivered ==
    \A w \in Producers :
        /\ phase[w] = "completed"
        /\ item[w].message = w
        /\ w \notin Elems(unread[item[w].slot])
        => turns[w] > 0

\* A cancelled run's rows are not consumed later: no agent turn is given a row
\* whose intent was cancelled with its run.
CancelledRowsAreNotConsumed ==
    [][\A w \in Producers : phase[w] = "cancelled" => turns'[w] = turns[w]]_vars
=============================================================================
