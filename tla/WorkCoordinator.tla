-------------------------- MODULE WorkCoordinator --------------------------
(***************************************************************************)
(* The slot work coordinator of a team session                             *)
(* (fool-team/src/work_coordinator): which work is waiting for each team   *)
(* member, which batch of it the member's agent is working on, and how the *)
(* work ends.                                                              *)
(*                                                                         *)
(* Every public method of SlotWorkCoordinator takes the one mutex for the  *)
(* whole of its state change, so each is one action here.  The run         *)
(* summaries it publishes after dropping the mutex are the business of     *)
(* the modules that compose the coordinator with the run (TeamWork).       *)
(*                                                                         *)
(* An enqueue lease and the intent its commit creates are one work item:   *)
(* a member of Works whose phase is "leased" before the commit.  An intent *)
(* that a mailbox reconciliation creates starts "queued".  Left out: the   *)
(* member's role, timestamps, the classification strings, and the set      *)
(* known_unread_message_ids, which no code reads.                          *)
(***************************************************************************)
EXTENDS WorkQueue

CONSTANTS
    Slots,      \* team members
    Works,      \* identities of work items (leases and intents)
    Messages,   \* mailbox rows
    Runs,       \* team runs
    NoSlot, NoMessage, NoRun,   \* stand for an absent identifier
    MaxOps      \* bound on next_operation_id: batches claimed in a behaviour

ASSUME ConstantsAssumption ==
    /\ IsFiniteSet(Works)
    /\ IsFiniteSet(Messages)
    /\ NoSlot \notin Slots
    /\ NoMessage \notin Messages
    /\ NoRun \notin Runs
    /\ MaxOps \in Nat

-----------------------------------------------------------------------------
(* Work sources: what a producer wants from the member. *)

UserSource == {"UserMessage", "UserCommand", "UserIntervention"}
SignalSource == {"TeamMembershipChanged", "IdleNotification"}
WorkSource ==
    UserSource \cup SignalSource \cup
    {"McpSendMessage", "McpShutdownRequest", "SpawnWelcome",
     "SpawnAttachFailure", "InterruptedNotification", "ShutdownRejected",
     "RecoveryDrain"}

Priorities == {"foreground", "control", "background"}

Priority(source) ==
    IF source \in UserSource THEN "foreground"
    ELSE IF source \in {"McpShutdownRequest", "ShutdownRejected"} THEN "control"
    ELSE "background"

ResumesPausedSlot(source) == source \in UserSource
RequiresMailboxMessage(source) == source \notin SignalSource

-----------------------------------------------------------------------------
VARIABLES
    phase,      \* phase[w]: where work item w is in its life
    item,       \* item[w]: its slot, source, run and mailbox message
    slots,      \* the slots the coordinator has state for
    queue,      \* queue[s][p]: the deque of slot s for priority p
    active,     \* active[s]: the batch slot s works on, NoBatch if none
    started,    \* started[s]: the active batch has a turn id
    paused,     \* paused[s]: the user stopped slot s
    constraint, \* constraint[s]: the member runtime's state, as last told
    removed,    \* removed[s]: the slot was removed
    nextOp      \* next_operation_id

coordinatorVars == <<phase, item, slots, queue, active, started, paused,
                     constraint, removed, nextOp>>

Live     == {"queued", "starting", "running"}
Terminal == {"completed", "failed", "cancelled"}
Phases   == Live \cup Terminal \cup {"absent", "leased", "released"}

Constraints == {"starting", "ready", "failed", "removing", "stopped"}

Item == [slot: Slots \cup {NoSlot}, source: WorkSource,
         run: Runs \cup {NoRun}, message: Messages \cup {NoMessage}]

\* The attributes of a work item nobody has asked for yet.
Blank == [slot |-> NoSlot, source |-> "RecoveryDrain",
          run |-> NoRun, message |-> NoMessage]

Batch == [op: Nat, slot: Slots \cup {NoSlot}, priority: Priorities,
          works: Seq(Works)]

\* Operation ids start at 1: no batch ever handed out is NoBatch.
NoBatch == [op |-> 0, slot |-> NoSlot, priority |-> "background",
            works |-> <<>>]

EmptyQueues == [p \in Priorities |-> <<>>]

Init ==
    /\ phase = [w \in Works |-> "absent"]
    /\ item = [w \in Works |-> Blank]
    /\ slots = {}
    /\ queue = [s \in Slots |-> EmptyQueues]
    /\ active = [s \in Slots |-> NoBatch]
    /\ started = [s \in Slots |-> FALSE]
    /\ paused = [s \in Slots |-> FALSE]
    /\ constraint = [s \in Slots |-> "starting"]
    /\ removed = [s \in Slots |-> FALSE]
    /\ nextOp = 0

-----------------------------------------------------------------------------
(* What the operations read. *)

\* validate_enqueue_constraint
AcceptsWork(s) == ~removed[s] /\ constraint[s] \in {"ready", "starting"}

\* Mutant: compares the slot, not the batch.
IsCurrentSlotOnly(b) == active[b.slot] # NoBatch

\* is_current_batch: the operation id stands for the batch id and the session
\* generation that the code compares as well.
IsCurrent(b) == active[b.slot].op = b.op

\* The work items of phases P that have attribute run r, or slot s.
OfRun(r, P)  == {w \in Works : phase[w] \in P /\ item[w].run = r}
OfSlot(s, P) == {w \in Works : phase[w] \in P /\ item[w].slot = s}

\* The runs of the members of a batch; team_run_ids.first() is the run of the
\* first member that has one.
BatchRuns(b) == {item[w].run : w \in Elems(b.works)} \ {NoRun}
FirstRun(b) ==
    LET bound == Only(b.works, {w \in Works : item[w].run # NoRun})
    IN  IF bound = <<>> THEN NoRun ELSE item[bound[1]].run

\* abort_enqueue's remove_empty_run: nothing else was ever enqueued for the
\* run of lease w and no other lease holds it.
RunIsEmpty(w) ==
    /\ item[w].run # NoRun
    /\ OfRun(item[w].run, Live \cup Terminal \cup {"leased"}) \subseteq {w}

\* The part of run_summary_locked that the run's status depends on.
Summary(r) ==
    [run |-> r,
     failed  |-> OfRun(r, {"failed"}) # {},
     running |-> OfRun(r, {"running"}) # {},
     work    |-> OfRun(r, Live \cup {"leased"}) # {}]

MoveTo(S, p) == phase' = [w \in Works |-> IF w \in S THEN p ELSE phase[w]]

-----------------------------------------------------------------------------
(* Enqueueing: lease, then commit or abort. *)

\* acquire_enqueue, for run r as its causality port binds it.  Only a slot
\* that exists can refuse, so a refusal changes nothing.
AcquireEnqueue(w, s, source, r) ==
    /\ phase[w] = "absent"
    /\ AcceptsWork(s)
    /\ slots' = slots \cup {s}
    /\ phase' = [phase EXCEPT ![w] = "leased"]
    /\ item' = [item EXCEPT ![w] = [slot |-> s, source |-> source, run |-> r,
                                    message |-> NoMessage]]
    /\ UNCHANGED <<queue, active, started, paused, constraint, removed, nextOp>>

\* commit_enqueue with mailbox row m; its refusals change nothing.
CanCommit(w) == phase[w] = "leased" /\ AcceptsWork(item[w].slot)
CommitEnqueue(w, m) ==
    /\ CanCommit(w)
    /\ RequiresMailboxMessage(item[w].source) => m # NoMessage
    /\ phase' = [phase EXCEPT ![w] = "queued"]
    /\ item' = [item EXCEPT ![w].message = m]
    /\ queue' = [queue EXCEPT ![item[w].slot][Priority(item[w].source)]
                                = Append(@, w)]
    /\ paused' = [paused EXCEPT ![item[w].slot]
                    = @ /\ ~ResumesPausedSlot(item[w].source)]
    /\ UNCHANGED <<slots, active, started, constraint, removed, nextOp>>

\* abort_enqueue; aborting a lease that is gone changes nothing.
AbortEnqueue(w) ==
    /\ phase[w] = "leased"
    /\ phase' = [phase EXCEPT ![w] = "released"]
    /\ UNCHANGED <<item, slots, queue, active, started, paused, constraint,
                   removed, nextOp>>

-----------------------------------------------------------------------------
(* reconcile_mailbox: queued work whose row is no longer unread is done;   *)
(* every unread row that no live intent of the slot owns gets a run-less   *)
(* RecoveryDrain intent, in the order of the rows.                         *)

Stale(s, unread) ==
    {w \in OfSlot(s, {"queued"}) :
        item[w].message \notin Elems(unread) \cup {NoMessage}}

Orphans(s, unread) ==
    Without(unread, {item[w].message : w \in OfSlot(s, Live) \ Stale(s, unread)})

\* Fresh identities for n new intents.
FreshWorks(n) == {q \in [1..n -> {w \in Works : phase[w] = "absent"}] : Distinct(q)}

\* Mutant: the row's id where the run's belongs.
DrainBoundToRow(s, m) == [slot |-> s, source |-> "RecoveryDrain", run |-> m,
                          message |-> m]

Drain(s, m) == [slot |-> s, source |-> "RecoveryDrain", run |-> NoRun,
                message |-> m]

ReconcileMailbox(s, unread) ==
    LET stale == Stale(s, unread)
        orphans == Orphans(s, unread)
    IN  \E drains \in FreshWorks(Len(orphans)) :
          /\ phase' = [w \in Works |->
                         IF w \in stale THEN "completed"
                         ELSE IF w \in Elems(drains) THEN "queued"
                         ELSE phase[w]]
          /\ item' = [w \in Works |->
                        IF w \in Elems(drains)
                        THEN Drain(s, orphans[CHOOSE i \in 1..Len(drains) :
                                                drains[i] = w])
                        ELSE item[w]]
          /\ queue' = [queue EXCEPT ![s] =
                         [p \in Priorities |->
                            IF p = "background" THEN Without(@[p], stale) \o drains
                            ELSE Without(@[p], stale)]]
          /\ slots' = slots \cup {s}
          /\ UNCHANGED <<active, started, paused, constraint, removed, nextOp>>

-----------------------------------------------------------------------------
(* next: what the slot's event loop should do. *)

\* Mutant: does not look at the active batch.
SelectableWhileBusy(s) ==
    /\ s \in slots
    /\ constraint[s] = "ready"
    /\ ~paused[s]
    /\ \E p \in Priorities : queue[s][p] # <<>>

Selectable(s) ==
    /\ s \in slots
    /\ active[s] = NoBatch
    /\ constraint[s] = "ready"
    /\ ~paused[s]
    /\ \E p \in Priorities : queue[s][p] # <<>>

SelectedPriority(s) ==
    IF queue[s]["foreground"] # <<>> THEN "foreground"
    ELSE IF queue[s]["control"] # <<>> THEN "control"
    ELSE "background"

\* Intents without a mailbox row.
Signals == {w \in Works : item[w].message = NoMessage}
Commands == {w \in Works : item[w].source = "UserCommand"}

MessageWorks(s) == Without(queue[s][SelectedPriority(s)], Signals)

\* Mutant: stops at a command only when it comes first.
LeadingWorksAndCommands(q) == IF q[1] \in Commands THEN SubSeq(q, 1, 1) ELSE q

\* A command is claimed alone; ordinary messages up to the first command.
LeadingWorks(q) ==
    IF q[1] \in Commands THEN SubSeq(q, 1, 1)
    ELSE SubSeq(q, 1, CHOOSE n \in 1..Len(q) :
                         /\ \A i \in 1..n : q[i] \notin Commands
                         /\ n < Len(q) => q[n + 1] \in Commands)

\* SettleSignals: the selected deque holds signals only.
SignalsToSettle(s) ==
    IF Selectable(s) /\ MessageWorks(s) = <<>>
    THEN Elems(queue[s][SelectedPriority(s)]) ELSE {}

NextOperation == nextOp + 1

ClaimedBatch(s) == [op |-> NextOperation, slot |-> s,
                    priority |-> SelectedPriority(s),
                    works |-> LeadingWorks(MessageWorks(s))]

\* next when it answers Claim.
Claim(s) ==
    /\ Selectable(s)
    /\ MessageWorks(s) # <<>>
    /\ nextOp < MaxOps
    /\ LET b == ClaimedBatch(s)
       IN  /\ MoveTo(Elems(b.works), "starting")
           /\ queue' = [queue EXCEPT ![s] =
                          [p \in Priorities |-> Without(@[p], Elems(b.works))]]
           /\ active' = [active EXCEPT ![s] = b]
    /\ nextOp' = NextOperation
    /\ UNCHANGED <<item, slots, started, paused, constraint, removed>>

-----------------------------------------------------------------------------
(* The life of a batch.  A handle that is not current changes nothing. *)

\* mark_started, and what it tells the caller to do with the turn.
MarkStarted(b) ==
    /\ IsCurrent(b)
    /\ MoveTo(Elems(b.works), "running")
    /\ started' = [started EXCEPT ![b.slot] = TRUE]
    /\ UNCHANGED <<item, slots, queue, active, paused, constraint, removed,
                   nextOp>>

StartVerdict(b) ==
    IF IsCurrent(b)
    THEN IF paused[b.slot] \/ constraint[b.slot] # "ready"
         THEN "CancelImmediately" ELSE "Accepted"
    ELSE IF \A w \in Elems(b.works) : phase[w] = "cancelled"
         THEN "CancelImmediately" ELSE "StaleOwner"

\* Mutants: the batch goes to the back, or nowhere.
RequeuedLast(b) == queue[b.slot][b.priority] \o b.works
RequeuedNowhere(b) == queue[b.slot][b.priority]

\* retry_start: back to the front of the deque it came from.
Requeued(b) == b.works \o queue[b.slot][b.priority]

\* Mutant: the slot keeps its claim.
RetryStartKeepingClaim(b) ==
    /\ IsCurrent(b)
    /\ MoveTo(Elems(b.works), "queued")
    /\ queue' = [queue EXCEPT ![b.slot][b.priority] = Requeued(b)]
    /\ UNCHANGED <<item, slots, active, started, paused, constraint, removed,
                   nextOp>>

RetryStart(b) ==
    /\ IsCurrent(b)
    /\ MoveTo(Elems(b.works), "queued")
    /\ active' = [active EXCEPT ![b.slot] = NoBatch]
    /\ started' = [started EXCEPT ![b.slot] = FALSE]
    /\ queue' = [queue EXCEPT ![b.slot][b.priority] = Requeued(b)]
    /\ UNCHANGED <<item, slots, paused, constraint, removed, nextOp>>

\* complete_batch, fail_batch, cancel_batch.
TerminalizeBatch(b, end) ==
    /\ IsCurrent(b)
    /\ MoveTo(Elems(b.works), end)
    /\ active' = [active EXCEPT ![b.slot] = NoBatch]
    /\ started' = [started EXCEPT ![b.slot] = FALSE]
    /\ UNCHANGED <<item, slots, queue, paused, constraint, removed, nextOp>>

\* complete_signals: all or nothing.
CompleteSignals(s, S) ==
    /\ S # {}
    /\ S \subseteq OfSlot(s, {"queued"}) \cap Signals
    /\ MoveTo(S, "completed")
    /\ queue' = [queue EXCEPT ![s] = [p \in Priorities |-> Without(@[p], S)]]
    /\ UNCHANGED <<item, slots, active, started, paused, constraint, removed,
                   nextOp>>

-----------------------------------------------------------------------------
(* Interruptions. *)

\* cancel_run: the run's batches are taken apart, their other members go back
\* to the front of their deques, and the run's leases are dropped.
CancelledSlots(r) == {s \in slots : \E w \in Elems(active[s].works) : item[w].run = r}
ClaimedWorks(r) == UNION {Elems(active[s].works) : s \in CancelledSlots(r)}
RetainedWorks(r) == {w \in ClaimedWorks(r) : item[w].run # r}

\* Mutant: forgets the work still waiting.
CancelledClaims(r) == ClaimedWorks(r) \ RetainedWorks(r)

CancelledWorks(r) ==
    OfRun(r, {"queued"}) \cup (ClaimedWorks(r) \ RetainedWorks(r))

CancelRun(r) ==
    LET hit == CancelledSlots(r)
        cancelled == CancelledWorks(r)
        retained == RetainedWorks(r)
        Returned(s, p) == Only(active[s].works,
                               {w \in retained : Priority(item[w].source) = p})
    IN  /\ phase' = [w \in Works |->
                       IF w \in cancelled THEN "cancelled"
                       ELSE IF w \in retained THEN "queued"
                       ELSE IF w \in OfRun(r, {"leased"}) THEN "released"
                       ELSE phase[w]]
        /\ queue' = [s \in Slots |-> [p \in Priorities |->
                       IF s \in hit THEN Returned(s, p) \o Without(queue[s][p], cancelled)
                       ELSE Without(queue[s][p], cancelled)]]
        /\ active' = [s \in Slots |-> IF s \in hit THEN NoBatch ELSE active[s]]
        /\ started' = [s \in Slots |-> s \notin hit /\ started[s]]
        /\ UNCHANGED <<item, slots, paused, constraint, removed, nextOp>>

PauseSlot(s) ==
    /\ slots' = slots \cup {s}
    /\ paused' = [paused EXCEPT ![s] = TRUE]
    /\ UNCHANGED <<phase, item, queue, active, started, constraint, removed,
                   nextOp>>

\* set_runtime_constraint with a state the runtime may recover from.
AllowRuntime(s, c) ==
    /\ c \in {"starting", "ready", "removing"}
    /\ slots' = slots \cup {s}
    /\ constraint' = [constraint EXCEPT ![s] = c]
    /\ UNCHANGED <<phase, item, queue, active, started, paused, removed, nextOp>>

\* set_runtime_constraint with Failed or SessionStopped: the slot's live work
\* ends, except that run-less work survives a failure, queued again in the
\* order in which the intents' hash map lists it.
SurvivingWorks(s, c) ==
    IF c = "failed" THEN {w \in OfSlot(s, Live) : item[w].run = NoRun} ELSE {}

LoseRuntime(s, c) ==
    /\ c \in {"failed", "stopped"}
    /\ \E order \in Orders(SurvivingWorks(s, c)) :
          queue' = [queue EXCEPT ![s] = [p \in Priorities |->
                      Only(order, {w \in Works : Priority(item[w].source) = p})]]
    /\ phase' = [w \in Works |->
                   IF w \in SurvivingWorks(s, c) THEN "queued"
                   ELSE IF w \notin OfSlot(s, Live) THEN phase[w]
                   ELSE IF c = "failed" THEN "failed" ELSE "cancelled"]
    /\ active' = [active EXCEPT ![s] = NoBatch]
    /\ started' = [started EXCEPT ![s] = FALSE]
    /\ slots' = slots \cup {s}
    /\ constraint' = [constraint EXCEPT ![s] = c]
    /\ UNCHANGED <<item, paused, removed, nextOp>>

SetRuntimeConstraint(s, c) == AllowRuntime(s, c) \/ LoseRuntime(s, c)

\* remove_slot; the slot's leases stay.
RemoveSlot(s) ==
    /\ MoveTo(OfSlot(s, Live), "cancelled")
    /\ queue' = [queue EXCEPT ![s] = EmptyQueues]
    /\ active' = [active EXCEPT ![s] = NoBatch]
    /\ started' = [started EXCEPT ![s] = FALSE]
    /\ removed' = [removed EXCEPT ![s] = @ \/ s \in slots]
    /\ UNCHANGED <<item, slots, paused, constraint, nextOp>>

\* stop: only the slots that exist learn that the session stopped.
Stop ==
    /\ phase' = [w \in Works |-> IF phase[w] \in Live THEN "cancelled"
                                 ELSE IF phase[w] = "leased" THEN "released"
                                 ELSE phase[w]]
    /\ queue' = [s \in Slots |-> EmptyQueues]
    /\ active' = [s \in Slots |-> NoBatch]
    /\ started' = [s \in Slots |-> FALSE]
    /\ constraint' = [s \in Slots |-> IF s \in slots THEN "stopped" ELSE constraint[s]]
    /\ UNCHANGED <<item, slots, paused, removed, nextOp>>

-----------------------------------------------------------------------------
(* Where work is. *)

\* A queued intent sits in the deque of its own slot and priority, and a deque
\* holds nothing else: no operation loses work it put back, and none leaves
\* behind an entry whose intent has moved on (coordinator.rs keeps the intents
\* in one map and their ids in the deques, and updates them separately).
QueuedWorkIsInItsDeque ==
    /\ \A s \in Slots, p \in Priorities : \A w \in Elems(queue[s][p]) :
          /\ phase[w] = "queued"
          /\ item[w].slot = s
          /\ Priority(item[w].source) = p
    /\ \A w \in Works : phase[w] = "queued" =>
          /\ item[w].slot \in Slots
          /\ w \in Elems(queue[item[w].slot][Priority(item[w].source)])

\* A starting or running intent is a member of the active batch of its slot,
\* and the batch's members are all starting, or all running once the batch has
\* a turn id: a claimed intent always has an owner that will end it or put it
\* back.
ClaimedWorkIsInItsBatch ==
    /\ \A s \in Slots : \A w \in Elems(active[s].works) :
          /\ phase[w] = IF started[s] THEN "running" ELSE "starting"
          /\ item[w].slot = s
          /\ Priority(item[w].source) = active[s].priority
    /\ \A w \in Works : phase[w] \in {"starting", "running"} =>
          /\ item[w].slot \in Slots
          /\ w \in Elems(active[item[w].slot].works)

Ownership == QueuedWorkIsInItsDeque /\ ClaimedWorkIsInItsBatch

-----------------------------------------------------------------------------
(* The coordinator seen as SerialWork: a slot is a lane, and deques,       *)
(* batches and handles are gone.                                           *)

Unqueued == {"absent", "leased", "released"}
Claimed == {"starting", "running"}
StageOf(p) ==
    CASE p \in Unqueued -> "none"
      [] p = "queued" -> "waiting"
      [] p \in Claimed -> "working"
      [] p \in Terminal -> "done"
Serial == INSTANCE SerialWork WITH
    Lanes <- Slots,
    NoLane <- NoSlot,
    stage <- [w \in Works |-> StageOf(phase[w])],
    lane <- [w \in Works |-> IF phase[w] \in Unqueued THEN NoSlot ELSE item[w].slot]
=============================================================================
