-------------------------- MODULE ConversationTurns --------------------------
(***************************************************************************)
(* The turns of one conversation and the agents that serve them: the claim *)
(* on the conversation and its lifecycle flags (fool-conversation,         *)
(* runtime_state.rs), the calls and background tasks of service.rs and     *)
(* turn_orchestrator.rs, and the slot of the conversation in the agent     *)
(* task manager (fool-ai-agent, task_manager.rs).                          *)
(*                                                                         *)
(* A cell is the Arc<OnceCell> of a slot: an agent is built in it at most  *)
(* once, and whoever holds it keeps it although the slot may have been     *)
(* removed.  An agent is an external program: it may answer a prompt or    *)
(* never do so.  Two kinds differ in how they are killed: "acp" processes  *)
(* are killed at once, "session" agents (claude, codex) only end when they *)
(* are no longer held, unless the user's cancel has timed out: then the    *)
(* process is stopped, and a later prompt starts it again.                 *)
(*                                                                         *)
(* A step is at most what a task does between two awaits.                  *)
(***************************************************************************)
EXTENDS Naturals, FiniteSets

CONSTANTS
    Turns,             \* the turns that are ever sent, model values
    MaxCells,          \* bound: the cells in use at a time
    MaxContinuations,  \* MAX_SYSTEM_RESPONSE_CONTINUATIONS_PER_TURN
    Kinds,             \* kinds of agents of the conversation, a subset of AllKinds
    Events,            \* the calls that happen, a subset of AllEvents
    MaxEvents,         \* bound: how many of them happen
    Faults             \* which calls may fail, a subset of AllFaults

Cancel == "cancel"  \* the thread of cancel
Delete == "delete"  \* the thread of delete
Revoke == "revoke"  \* the thread of terminate_runtime_for_user
Warm == "warm"      \* the thread of warmup and ensure_runtime
Idler == "idle"     \* the idle scanner

Callers == {Cancel, Delete, Revoke, Warm, Idler}
AllKinds == {"acp", "session"}
AllFaults == {"insert", "options", "build", "prepare", "delete", "cancel"}

NoTurn == "no turn"
NoCell == 0

ASSUME ConversationAssumption ==
    /\ IsFiniteSet(Turns)
    /\ Turns \cap (Callers \cup {NoTurn}) = {}
    /\ MaxCells \in Nat
    /\ MaxContinuations \in Nat
    /\ MaxEvents \in Nat
    /\ Kinds \subseteq AllKinds
    /\ Events \subseteq Callers
    /\ Faults \subseteq AllFaults

VARIABLES
    exists,    \* the conversation has its row
    kind,      \* the kind of its agents
    active,    \* active_turns: the turn that holds the claim, or NoTurn
    flags,     \* the sets of marked conversations this one is in
    slot,      \* tasks: the cell of the conversation, or NoCell
    agent,     \* agent[c]: what cell c holds
    killing,   \* kill_and_wait calls that wait for a build: cells with reasons
    drains,    \* the turns whose cancel has its drain timer running
    thread,    \* thread[t]: where a turn or a caller is
    events,    \* how many calls have happened
    accepted,  \* history: turns whose send returned Ok
    stored,    \* history: turns whose user message is in the database
    revoked,   \* history: turns whose claim was cleared by a revocation
    woken      \* history: turns that sent a prompt to an agent stopped before

claim == <<active, flags>>
tasks == <<slot, agent, killing>>
log == <<accepted, stored, revoked, woken>>
vars == <<exists, kind, claim, tasks, drains, thread, events, log>>

Cells == 1..MaxCells
Threads == Turns \cup Callers

-----------------------------------------------------------------------------
(* Threads and what they hold.                                             *)

New == [pc |-> "new", cell |-> NoCell, turn |-> NoTurn, lifecycle |-> "active",
        terminal |-> "none", replayed |-> FALSE, count |-> 0]
Over(t) == [New EXCEPT !.pc = IF t \in Turns THEN "done" ELSE "new"]

At(t, pc) == thread[t].pc = pc
Become(t, state) == thread' = [thread EXCEPT ![t] = state]
Goto(t, pc) == Become(t, [thread[t] EXCEPT !.pc = pc])
Happens(event) == event \in Events /\ events < MaxEvents /\ events' = events + 1

Initialised(c) == c # NoCell /\ agent[c] \in {"live", "dead", "asleep"}
Held(c) == slot = c \/ (\E t \in Threads : thread[t].cell = c) \/ (\E k \in killing : k[1] = c)

\* A session agent whose last reference is gone has been dropped, and its
\* process with it.
Live(c) == agent[c] = "live" /\ (kind = "session" => Held(c))

\* Mutant: a new cell may be one that a thread still has.
Unslotted == {c \in Cells : slot # c}

\* Cells a new slot can get: the bound on cells counts those in use.
Unused == {c \in Cells : ~Held(c) /\ ~Live(c)}

\* lifecycle_for, without the shutdown of the whole program.
Lifecycle == CASE "deleting" \in flags -> "deleting"
               [] "deleting" \notin flags /\ "cancelling" \in flags -> "cancelling"
               [] OTHER -> "active"

Prompting(c) == {k \in Turns : thread[k].cell = c /\ thread[k].pc = "relay"
                                                  /\ thread[k].terminal = "none"}

-----------------------------------------------------------------------------
(* Killing an agent.                                                       *)

\* Mutant: a session agent only ever ends when nobody holds it any more.
KillsProcesses(reason) == kind = "acp"

\* kill of an agent: whether it does anything at once, and the terminal event
\* that the subscribers of its stream get.
KillsAtOnce(reason) == kind = "acp" \/ reason = "timeout"
KilledThreads(c, reason) ==
    [t \in Threads |->
        IF t \in Prompting(c) /\ KillsAtOnce(reason)
          THEN [thread[t] EXCEPT !.terminal = IF reason = "timeout" THEN "finish" ELSE "error"]
          ELSE thread[t]]
KilledAgents(c, reason) ==
    IF KillsAtOnce(reason)
      THEN [agent EXCEPT ![c] = IF kind = "acp" THEN "dead" ELSE "asleep"] ELSE agent

\* The threads after the slot was removed and its agent killed.
ThreadsAfterKill(reason) ==
    IF Initialised(slot) THEN KilledThreads(slot, reason) ELSE thread

\* kill: a build under way is left alone.
KillSlot(reason) ==
    /\ slot' = NoCell
    /\ agent' = IF Initialised(slot) THEN KilledAgents(slot, reason) ELSE agent
    /\ UNCHANGED killing

\* kill_and_wait: an agent that is not built yet is killed when it is there.
KillSlotAndWait(reason) ==
    /\ slot' = NoCell
    /\ agent' = IF Initialised(slot) THEN KilledAgents(slot, reason) ELSE agent
    /\ killing' = IF slot # NoCell /\ ~Initialised(slot)
                    THEN killing \cup {<<slot, reason>>} ELSE killing

\* The end of such a wait; a build that failed leaves nothing to kill, unless a
\* thread that came earlier tries again.
KillBuilt(k) ==
    /\ k \in killing
    /\ agent[k[1]] # "building"
    /\ agent[k[1]] = "empty" => \A t \in Threads : thread[t].cell = k[1] => ~At(t, "cell")
    /\ killing' = killing \ {k}
    /\ IF Initialised(k[1])
         THEN agent' = KilledAgents(k[1], k[2]) /\ thread' = KilledThreads(k[1], k[2])
         ELSE UNCHANGED <<agent, thread>>
    /\ UNCHANGED <<exists, kind, claim, slot, drains, events, log>>

AwaitsKill(t) == \E k \in killing : k[1] = thread[t].cell

-----------------------------------------------------------------------------
(* send_message, as far as the turn is spawned.                            *)

\* The row is read; without it the call fails.
SendStarts(k) ==
    /\ At(k, "new")
    /\ Become(k, IF exists THEN [New EXCEPT !.pc = "claim"] ELSE Over(k))
    /\ UNCHANGED <<exists, kind, claim, tasks, drains, events, log>>

\* try_claim_turn, and the check whether the message may be written: while the
\* conversation is cancelling the claim is released again and Ok is returned.
Claim(k) ==
    /\ At(k, "claim")
    /\ \/ /\ "deleting" \in flags \/ active # NoTurn
          /\ Become(k, Over(k))
          /\ UNCHANGED <<claim, accepted>>
       \/ /\ "deleting" \notin flags /\ active = NoTurn
          /\ "cancelling" \in flags
          /\ flags' = {}
          /\ accepted' = accepted \cup {k}
          /\ Goto(k, "complete")
          /\ UNCHANGED active
       \/ /\ flags = {} /\ active = NoTurn
          /\ active' = k
          /\ Goto(k, "accept")
          /\ UNCHANGED <<flags, accepted>>
    /\ UNCHANGED <<exists, kind, tasks, drains, events, stored, revoked, woken>>

\* Mutant: the release does not look whose claim it is.
AnyRelease(k) == [active |-> NoTurn, flags |-> {}]

\* release: a claim that is not the turn's any more is left alone, and so are
\* the flags.
Release(k) == IF active = k THEN [active |-> NoTurn, flags |-> {}]
                            ELSE [active |-> active, flags |-> flags]

LeaveClaim(k) == active' = Release(k).active /\ flags' = Release(k).flags

\* The user message is inserted and the options of the agent are built.  The
\* insert fails without a row.
Accept(k) ==
    /\ At(k, "accept")
    /\ \/ /\ ~exists \/ "insert" \in Faults
          /\ LeaveClaim(k)
          /\ Become(k, Over(k))
          /\ UNCHANGED <<accepted, stored>>
       \/ /\ exists
          /\ stored' = stored \cup {k}
          /\ accepted' = accepted \cup {k}
          /\ Goto(k, "slot") \/ ("options" \in Faults /\ Goto(k, "release"))
          /\ UNCHANGED claim
    /\ UNCHANGED <<exists, kind, tasks, drains, events, revoked, woken>>

-----------------------------------------------------------------------------
(* get_or_build_task, of a turn or of a warmup.                            *)

\* One initialises the cell, whoever comes while it does waits.  Dead agents are
\* taken too.
TakeCell(t, c) ==
    CASE Initialised(c) ->
            /\ Become(t, IF t \in Turns THEN [thread[t] EXCEPT !.pc = "send", !.cell = c]
                         ELSE Over(t))
            /\ UNCHANGED agent
      [] agent[c] = "building" ->
            /\ Become(t, [thread[t] EXCEPT !.pc = "cell", !.cell = c])
            /\ UNCHANGED agent
      [] agent[c] = "empty" ->
            /\ Become(t, [thread[t] EXCEPT !.pc = "build", !.cell = c])
            /\ agent' = [agent EXCEPT ![c] = "building"]

\* A missing slot gets a new cell.
TakeSlot(t) ==
    /\ At(t, "slot")
    /\ ~AwaitsKill(t)
    /\ \/ slot # NoCell /\ TakeCell(t, slot) /\ UNCHANGED slot
       \/ /\ slot = NoCell
          /\ Unused # {}
          /\ slot' = CHOOSE c \in Unused : \A d \in Unused : c <= d
          /\ agent' = [agent EXCEPT ![slot'] = "building"]
          /\ Become(t, [thread[t] EXCEPT !.pc = "build", !.cell = slot'])
    /\ UNCHANGED <<exists, kind, claim, killing, drains, events, log>>

WaitForCell(t) ==
    /\ At(t, "cell")
    /\ agent[thread[t].cell] # "building"
    /\ TakeCell(t, thread[t].cell)
    /\ UNCHANGED <<exists, kind, claim, slot, killing, drains, events, log>>

\* Mutant: a failed build leaves the cell taken.
StuckCell(c) == agent

\* After a failure the cell is empty and a later caller tries again.
EmptiedCell(c) == [agent EXCEPT ![c] = "empty"]

Build(t) ==
    /\ At(t, "build")
    /\ \/ /\ agent' = [agent EXCEPT ![thread[t].cell] = "live"]
          /\ IF t \in Turns THEN Goto(t, "send") ELSE Become(t, Over(t))
       \/ /\ "build" \in Faults
          /\ agent' = EmptiedCell(thread[t].cell)
          /\ Become(t, IF t \in Turns THEN [New EXCEPT !.pc = "release"] ELSE Over(t))
    /\ UNCHANGED <<exists, kind, claim, slot, killing, drains, events, log>>

-----------------------------------------------------------------------------
(* run_user_turn: attempts, continuations, one replay.                     *)

\* The turn r after its prompt; the lifecycle l at that time decides later whether
\* it is continued.
Prompted(r, l, e) == [r EXCEPT !.pc = "relay", !.lifecycle = l, !.terminal = e]

\* The workspace cannot be stored or the required mode is refused before a prompt:
\* the turn is over, and its agent stays.
PrepareFails(k) ==
    /\ "prepare" \in Faults
    /\ At(k, "send")
    /\ Become(k, [New EXCEPT !.pc = "release"])
    /\ UNCHANGED <<exists, kind, claim, tasks, drains, events, log>>

\* The prompt is sent to an agent that runs, or fails.
Prompt(k) ==
    /\ At(k, "send")
    /\ agent[thread[k].cell] # "asleep"
    /\ Become(k, Prompted(thread[k], Lifecycle,
                          IF agent[thread[k].cell] = "live" THEN "none" ELSE "error"))
    /\ UNCHANGED <<exists, kind, claim, tasks, drains, events, log>>

\* An agent that was stopped is started again and gets the prompt, or that fails.
\* A codex agent that was stopped in a turn takes the prompt and does nothing.
Wake(k) ==
    /\ At(k, "send")
    /\ kind = "session" /\ agent[thread[k].cell] = "asleep"
    /\ \/ /\ Become(k, Prompted(thread[k], Lifecycle, "none"))
          /\ woken' = woken \cup {k}
          /\ UNCHANGED agent \/ agent' = [agent EXCEPT ![thread[k].cell] = "live"]
       \/ /\ "build" \in Faults
          /\ Become(k, Prompted(thread[k], Lifecycle, "error"))
          /\ UNCHANGED <<agent, woken>>
    /\ UNCHANGED <<exists, kind, claim, slot, killing, drains, events, accepted, stored, revoked>>

\* The agent answers, or fails and may be gone.
AgentEnds(k) ==
    /\ k \in Prompting(thread[k].cell)
    /\ agent[thread[k].cell] = "live"
    /\ \/ Become(k, [thread[k] EXCEPT !.terminal = "finish"]) /\ UNCHANGED agent
       \/ /\ Become(k, [thread[k] EXCEPT !.terminal = "error"])
          /\ UNCHANGED agent \/ agent' = [agent EXCEPT ![thread[k].cell] = "dead"]
    /\ UNCHANGED <<exists, kind, claim, slot, killing, drains, events, log>>

\* The relay returns the terminal event: a finished prompt may be continued
\* with the responses of the system.
Relay(k) ==
    /\ At(k, "relay")
    /\ thread[k].terminal # "none"
    /\ \/ /\ thread[k].lifecycle = "active" /\ thread[k].terminal = "finish"
          /\ thread[k].count < MaxContinuations
          /\ Become(k, [thread[k] EXCEPT !.pc = "send", !.count = @ + 1])
       \/ Goto(k, "judge")
    /\ UNCHANGED <<exists, kind, claim, tasks, drains, events, log>>

\* After an error the agent in the slot is evicted, and once, when the lifecycle
\* is active and nothing was visible yet, the turn is replayed.  The turn lets
\* go of its own agent and waits for the eviction.
Judge(k) ==
    LET failed == thread[k].terminal = "error"
        waits(state) == [state EXCEPT !.cell = IF killing' = killing THEN NoCell ELSE slot] IN
    /\ At(k, "judge")
    /\ \/ /\ ~failed \/ Lifecycle = "deleting"
          /\ Become(k, [New EXCEPT !.pc = "release"])
          /\ UNCHANGED tasks
       \/ /\ failed /\ Lifecycle # "deleting"
          /\ KillSlotAndWait("error")
          /\ \/ thread' = [ThreadsAfterKill("error") EXCEPT ![k] =
                              waits([New EXCEPT !.pc = "release"])]
             \/ /\ Lifecycle = "active" /\ ~thread[k].replayed
                /\ thread' = [ThreadsAfterKill("error") EXCEPT ![k] =
                                 waits([New EXCEPT !.pc = "slot", !.replayed = TRUE])]
    /\ UNCHANGED <<exists, kind, claim, drains, events, log>>

\* release_for_turn; a conversation that was deleting is not completed.
EndTurn(k) ==
    /\ At(k, "release")
    /\ ~AwaitsKill(k)
    /\ LeaveClaim(k)
    /\ Become(k, IF active = k /\ "deleting" \in flags THEN Over(k)
                 ELSE [New EXCEPT !.pc = "complete"])
    /\ UNCHANGED <<exists, kind, tasks, drains, events, log>>

\* complete_turn: the row is marked finished and the client told; neither is
\* looked at here.
Complete(k) ==
    /\ At(k, "complete")
    /\ Become(k, Over(k))
    /\ UNCHANGED <<exists, kind, claim, tasks, drains, events, log>>

-----------------------------------------------------------------------------
(* cancel.                                                                 *)

\* The turn is the active one and there is an agent; otherwise the call is
\* ignored.
CancelStarts ==
    /\ Happens(Cancel)
    /\ At(Cancel, "new")
    /\ exists /\ active # NoTurn /\ Initialised(slot)
    /\ Become(Cancel, [New EXCEPT !.pc = "mark", !.turn = active, !.cell = slot])
    /\ UNCHANGED <<exists, kind, claim, tasks, drains, log>>

CancelMarks ==
    /\ At(Cancel, "mark")
    /\ flags' = flags \cup {"cancelling"}
    /\ Goto(Cancel, "ask")
    /\ UNCHANGED <<exists, kind, active, tasks, drains, events, log>>

\* The agent is asked to stop.  When that fails the mark is taken back,
\* otherwise the drain timer starts.
CancelAsks ==
    /\ At(Cancel, "ask")
    /\ \/ /\ "cancel" \in Faults
          /\ flags' = flags \ {"cancelling"}
          /\ UNCHANGED drains
       \/ /\ drains' = drains \cup {thread[Cancel].turn}
          /\ UNCHANGED flags
    /\ Become(Cancel, Over(Cancel))
    /\ UNCHANGED <<exists, kind, active, tasks, events, log>>

\* The turn still has the claim and is still being cancelled.
Undrained(k) == active = k /\ "cancelling" \in flags

\* The timer outlasts the steps of the turn that wait for nobody outside the
\* program; what it finds undrained waits for an agent.
DrainFires(k) ==
    /\ k \in drains
    /\ thread[k].pc \in {"cell", "build", "done"} \/ k \in Prompting(thread[k].cell)
    /\ drains' = drains \ {k}
    /\ IF Undrained(k)
         THEN KillSlotAndWait("timeout") /\ thread' = ThreadsAfterKill("timeout")
         ELSE UNCHANGED <<tasks, thread>>
    /\ UNCHANGED <<exists, kind, claim, events, log>>

-----------------------------------------------------------------------------
(* delete, revocation, warmup, idle scan.                                  *)

DeleteStarts ==
    /\ Happens(Delete)
    /\ At(Delete, "new") /\ exists
    /\ flags' = flags \cup {"deleting"}
    /\ Become(Delete, [New EXCEPT !.pc = "hooks", !.turn = active])
    /\ UNCHANGED <<exists, kind, active, tasks, drains, log>>

\* on_conversation_deleted of the task manager.
DeleteHooks ==
    /\ At(Delete, "hooks")
    /\ KillSlot("deleted")
    /\ thread' = [ThreadsAfterKill("deleted") EXCEPT ![Delete].pc = "row"]
    /\ UNCHANGED <<exists, kind, claim, drains, events, log>>

\* When the row is gone the mark stays for the release of the turn that was
\* active at the start, if there was one.
DeleteRow ==
    /\ At(Delete, "row")
    /\ \/ /\ exists' = FALSE
          /\ flags' = IF thread[Delete].turn = NoTurn THEN flags \ {"deleting"} ELSE flags
       \/ /\ "delete" \in Faults
          /\ flags' = flags \ {"deleting"}
          /\ UNCHANGED exists
    /\ Goto(Delete, "over")
    /\ UNCHANGED <<kind, active, tasks, drains, events, log>>

RevokeStarts ==
    /\ Happens(Revoke)
    /\ At(Revoke, "new")
    /\ Initialised(slot) /\ exists
    /\ Become(Revoke, [New EXCEPT !.pc = "kill"])
    /\ UNCHANGED <<exists, kind, claim, tasks, drains, log>>

RevokeKills ==
    /\ At(Revoke, "kill")
    /\ KillSlotAndWait("revoked")
    /\ thread' = [ThreadsAfterKill("revoked") EXCEPT ![Revoke] =
                     [New EXCEPT !.pc = "clear",
                                 !.cell = IF killing' = killing THEN NoCell ELSE slot]]
    /\ UNCHANGED <<exists, kind, claim, drains, events, log>>

\* clear_conversation, whatever turn has the claim by now.
RevokeClears ==
    /\ At(Revoke, "clear")
    /\ ~AwaitsKill(Revoke)
    /\ active' = NoTurn
    /\ flags' = {}
    /\ revoked' = revoked \cup ({active} \ {NoTurn})
    /\ Become(Revoke, Over(Revoke))
    /\ UNCHANGED <<exists, kind, tasks, drains, events, accepted, stored, woken>>

\* ensure_runtime_agent: builds an agent when none is there.
WarmStarts ==
    /\ Happens(Warm)
    /\ At(Warm, "new")
    /\ exists /\ ~Initialised(slot)
    /\ Become(Warm, [New EXCEPT !.pc = "slot"])
    /\ UNCHANGED <<exists, kind, claim, tasks, drains, log>>

\* collect_idle: the agent has no prompt and has been quiet, so no turn has
\* taken it yet.
IdleCollects ==
    /\ Happens(Idler)
    /\ At(Idler, "new")
    /\ Initialised(slot)
    /\ \A t \in Turns : thread[t].cell # slot
    /\ Become(Idler, [New EXCEPT !.pc = "kill"])
    /\ UNCHANGED <<exists, kind, claim, tasks, drains, log>>

\* The kill, in a task of its own.
IdleKills ==
    /\ At(Idler, "kill")
    /\ KillSlotAndWait("idle")
    /\ thread' = [ThreadsAfterKill("idle") EXCEPT ![Idler] = Over(Idler)]
    /\ UNCHANGED <<exists, kind, claim, drains, events, log>>

-----------------------------------------------------------------------------

Init ==
    /\ exists = TRUE
    /\ kind \in Kinds
    /\ active = NoTurn
    /\ flags = {}
    /\ slot = NoCell
    /\ agent = [c \in Cells |-> "empty"]
    /\ killing = {}
    /\ drains = {}
    /\ thread = [t \in Threads |-> New]
    /\ events = 0
    /\ accepted = {}
    /\ stored = {}
    /\ revoked = {}
    /\ woken = {}

Turning(k) ==
    \/ Claim(k) \/ Accept(k) \/ PrepareFails(k) \/ Prompt(k) \/ Wake(k)
    \/ Relay(k) \/ Judge(k) \/ EndTurn(k) \/ Complete(k)

Building(t) == TakeSlot(t) \/ WaitForCell(t) \/ Build(t)

Calling ==
    \/ CancelStarts \/ CancelMarks \/ CancelAsks
    \/ DeleteStarts \/ DeleteHooks \/ DeleteRow
    \/ RevokeStarts \/ RevokeKills \/ RevokeClears
    \/ WarmStarts \/ IdleCollects \/ IdleKills

Next ==
    \/ \E k \in Turns : SendStarts(k) \/ Turning(k) \/ AgentEnds(k) \/ DrainFires(k)
    \/ \E t \in Turns \cup {Warm} : Building(t)
    \/ \E k \in killing : KillBuilt(k)
    \/ Calling

Spec == Init /\ [][Next]_vars

\* The program's own threads go on, builds end and timers fire.  No agent owes
\* an answer.
Fairness ==
    /\ \A k \in Turns : WF_vars(Turning(k)) /\ WF_vars(DrainFires(k))
    /\ \A t \in Turns \cup {Warm} : WF_vars(Building(t))
    /\ WF_vars(\E k \in killing : KillBuilt(k))
    /\ WF_vars(CancelMarks \/ CancelAsks)

FairSpec == Spec /\ Fairness

-----------------------------------------------------------------------------

Claimed == {"accept", "slot", "cell", "build", "send", "relay", "judge", "release"}

\* Types, and that a turn with an agent has the cell that agent was built in.
ConversationTypeOK ==
    /\ exists \in BOOLEAN
    /\ kind \in Kinds
    /\ active \in Turns \cup {NoTurn}
    /\ flags \subseteq {"deleting", "cancelling"}
    /\ slot \in Cells \cup {NoCell}
    /\ agent \in [Cells -> {"empty", "building", "live", "dead", "asleep"}]
    /\ killing \subseteq Cells \X {"error", "timeout", "revoked", "idle"}
    /\ drains \cup accepted \cup stored \cup revoked \cup woken \subseteq Turns
    /\ \A t \in Threads :
          /\ thread[t].cell \in Cells \cup {NoCell}
          /\ thread[t].pc \in {"send", "relay", "judge"} => Initialised(thread[t].cell)
          /\ thread[t].pc = "build" => agent[thread[t].cell] = "building"
          /\ thread[t].count \in 0..MaxContinuations

\* A conversation has one turn at a time: every turn between its claim and its
\* release has the claim, unless a revocation took it away, so that nobody else
\* has it.
OneTurnAtATime ==
    \A k \in Turns : thread[k].pc \in Claimed /\ k \notin revoked => active = k

\* A process that lives is in the slot, where it is found again, or a thread
\* still has it, or a kill is under way: until a delete kills what it finds.
NoStrayAgents ==
    At(Delete, "new") \/ At(Delete, "hooks") => \A c \in Cells : Live(c) => Held(c)

\* A cancel that was acknowledged ends its turn, also when the agent never
\* answers, unless the turn itself has started the stopped agent again.
CancelledTurnEnds == \A k \in Turns : k \in drains ~> At(k, "done") \/ k \in woken

\* "emit a clean Finish FIRST to converge the turn (gate recovers in seconds)":
\* the kill of an agent that does not react to a cancel ends the turn.
KilledTurnEnds == \A k \in Turns : k \in drains ~> At(k, "done")

\* A turn gets to its agent, and from there to its end: it is never left waiting
\* for a build or an eviction of somebody else.
TurnsOnlyWaitForTheirAgent ==
    \A k \in Turns : []<>(thread[k].pc \in {"new", "relay", "done"})

\* "Stores the user message": a message that was accepted is in the database.
AcceptedMessagesAreKept == accepted \subseteq stored

\* "deleting a conversation tears down its agent process".
DeletedConversationHasNoAgent == ~exists => \A c \in Cells : ~Live(c)

\* "An idle kill has no in-flight orchestrator Arc".
IdleKillSparesTurns ==
    [][IdleKills => \A k \in Turns : slot # NoCell => thread[k].cell # slot]_vars

=============================================================================
