--------------------------- MODULE MemberRuntimes ---------------------------
(***************************************************************************)
(* The runtime of one teammate of a team: the registry that says who may   *)
(* start or remove it (fool-team/member_runtime.rs), the tasks that attach *)
(* its agent process and event loop (session.rs), and the calls of the     *)
(* service that deliver to it, reconcile, add, remove and retry it while   *)
(* sessions of the team are started and stopped (service.rs).              *)
(*                                                                         *)
(* A session holds a registry, an event loop for the member and what the   *)
(* work coordinator knows of its runtime; sessions are numbered in the     *)
(* order of their creation, and one of them is published.  The roster, the *)
(* configuration of the conversation and the agent process of the member   *)
(* outlive the sessions.  One action is what runs between two awaits, or   *)
(* one section of a lock.                                                  *)
(***************************************************************************)
EXTENDS Naturals, FiniteSets

CONSTANTS
    Callers,      \* the calls to the service, numbered as they come
    MaxSessions,  \* how many sessions may be created
    MaxOps,       \* room for the registry's operation ids
    Calls,        \* the calls that may be made
    Faults        \* what may fail

ASSUME BoundsAssumption == MaxSessions \in Nat \ {0} /\ MaxOps \in Nat \ {0}
ASSUME CallersAssumption == Callers \subseteq Nat
ASSUME CallsAssumption ==
    Calls \subseteq {"deliver", "add", "ensure", "retry", "remove", "stop", "idle"}
ASSUME FaultsAssumption ==
    Faults \subseteq {"config", "build", "die", "lead", "write", "enqueue", "load", "persist"}

VARIABLES
    published,   \* the session in the service's map, 0 if there is none
    created,     \* how many sessions have been created
    roster,      \* the member is in the team row
    membership,  \* the caller that holds the membership lock
    config,      \* the session whose tool server the conversation's row names
    agent,       \* the session whose tool server the live agent process uses, 0 if none lives
    session,     \* the sessions
    attach,      \* the attach task of each operation
    caller,      \* the calls
    dropped,     \* the operations whose reservation an error path dropped
    unguarded    \* a removal found nothing in the registry to hold

service == <<published, created, roster, membership>>
process == <<config, agent>>
history == <<dropped, unguarded>>
vars == <<service, process, session, attach, caller, history>>

Sessions == 1..MaxSessions
Ops == 1..MaxOps
Nobody == 0

(***************************************************************************)
(* The registry.                                                           *)
(***************************************************************************)

\* An entry, and a constraint of the work coordinator, with its operation.
State(kind, op) == [kind |-> kind, op |-> op]
Absent == State("absent", 0)
Ready == State("ready", 0)
Stopped == State("stopped", 0)
Nothing == State("none", 0)

EntryKinds == {"absent", "attaching", "ready", "failed", "removing"}
ConstraintKinds == {"none", "starting", "ready", "failed", "removing", "stopped"}
Answers == {"unused", "pending", "ready", "failed", "removed", "stopped"}

\* A session that has just been started; the scheduler knows the roster's members.
Fresh(member) ==
    [entry |-> Absent, next |-> 1, answer |-> [o \in Ops |-> "unused"], stopped |-> FALSE,
     loop |-> FALSE, closed |-> FALSE, notified |-> FALSE, reading |-> Nothing, late |-> {},
     member |-> member, slot |-> Nothing, work |-> FALSE]

\* What reserve_attach and reserve_repair find: a new operation, another one to
\* wait for, or neither.
Reservation(s, retryFailed) ==
    IF s.stopped THEN "stopped"
    ELSE CASE s.entry.kind = "ready" -> "ready"
           [] s.entry.kind = "absent" -> "start"
           [] s.entry.kind = "failed" -> IF retryFailed THEN "start" ELSE "join"
           [] s.entry.kind \in {"attaching", "removing"} -> "join"

RepairReservation(s) ==
    IF s.stopped THEN "stopped"
    ELSE IF s.entry.kind \in {"ready", "absent"} THEN "start" ELSE "join"

\* Mutant: the id of the last operation is used again.
BeginWithTheLastId(s, kind) ==
    [s EXCEPT !.entry = State(kind, s.next),
              !.answer = [o \in Ops |->
                  IF o = s.next THEN "pending"
                  ELSE IF s.entry = State("attaching", o) THEN "removed" ELSE s.answer[o]]]

\* Mutant: those that waited for a failed attach are told again.
BeginToldAgain(s, kind) ==
    [s EXCEPT !.entry = State(kind, s.next),
              !.next = s.next + 1,
              !.answer = [o \in Ops |->
                  IF o = s.next THEN "pending"
                  ELSE IF s.entry.kind # "removing" /\ s.entry.op = o THEN "removed" ELSE s.answer[o]]]

\* A new operation takes the entry; those that wait for an attach it replaces
\* are told.
Begin(s, kind) ==
    [s EXCEPT !.entry = State(kind, s.next),
              !.next = s.next + 1,
              !.answer = [o \in Ops |->
                  IF o = s.next THEN "pending"
                  ELSE IF s.entry = State("attaching", o) THEN "removed" ELSE s.answer[o]]]

\* The operation holds the entry, in a registry that has not been stopped.
Owns(s, kind, op) == ~s.stopped /\ s.entry = State(kind, op)

\* The operation ends: its entry and its answer.
End(s, op, entry, answer) == [s EXCEPT !.entry = entry, !.answer[op] = answer]

\* Mutant: the registry is stopped without telling those that wait.
StopEntriesSilently(s) == [s EXCEPT !.stopped = TRUE, !.entry = Absent]

\* stop: nobody waits any more for what was under way.
StopEntries(s) ==
    IF s.stopped THEN s
    ELSE [s EXCEPT !.stopped = TRUE,
                   !.entry = Absent,
                   !.answer = [o \in Ops |->
                       IF s.entry \in {State("attaching", o), State("removing", o)}
                       THEN "stopped" ELSE s.answer[o]]]

\* The constraint the work coordinator is told after a look at the registry.
Snapshot(s) ==
    IF s.stopped THEN Stopped
    ELSE CASE s.entry.kind = "absent" -> IF s.loop THEN Ready ELSE State("starting", 0)
           [] s.entry.kind = "attaching" -> State("starting", s.entry.op)
           [] s.entry.kind \in {"ready", "failed", "removing"} -> s.entry

(***************************************************************************)
(* The work coordinator and the event loop, as far as the runtime goes.    *)
(***************************************************************************)

\* set_runtime_constraint, whatever the slot was told before: a stop ends the waiting
\* work, a failure ends that of a run and puts other work back (requeued).
Constrain(s, constraint, requeued) ==
    [s EXCEPT !.slot = constraint,
              !.work = s.work /\ constraint.kind # "stopped"
                              /\ (constraint.kind = "failed" => requeued)]

AcceptsWork(s) == s.slot.kind \in {"none", "starting", "ready"}

StopWork(s) ==
    [s EXCEPT !.work = FALSE, !.slot = IF s.slot = Nothing THEN Nothing ELSE Stopped]

SpawnLoop(s) == [s EXCEPT !.loop = TRUE, !.notified = FALSE, !.reading = Nothing]

\* A loop is aborted at its next await: it still applies what it has read.
RemoveLoop(s) ==
    [s EXCEPT !.loop = FALSE, !.notified = FALSE, !.reading = Nothing,
              !.late = s.late \cup ({s.reading} \ {Nothing})]

Notify(s) == [s EXCEPT !.notified = s.loop]

(***************************************************************************)
(* The initial state.                                                      *)
(***************************************************************************)

NoAttach == [pc |-> "unused", background |-> FALSE, registered |-> FALSE]

\* An attach task that has been spawned; one in the background tells the loop
\* once more when it has succeeded.
Spawned(background) == [pc |-> "start", background |-> background, registered |-> FALSE]

NoCall ==
    [call |-> "none", pc |-> "idle", gen |-> 0, found |-> "none", op |-> 0, seen |-> Nothing]

\* A team without a session, or with one that has its leader; the member is
\* dormant, or is yet to be added.
Init ==
    /\ created \in {0, 1}
    /\ published = created
    /\ roster \in {"in", "new"}
    /\ membership = Nobody
    /\ config = 0
    /\ agent = 0
    /\ session = [g \in Sessions |-> Fresh(g = published /\ roster = "in")]
    /\ attach = [g \in Sessions |-> [o \in Ops |-> NoAttach]]
    /\ caller = [c \in Callers |-> NoCall]
    /\ dropped = {}
    /\ unguarded = FALSE


(***************************************************************************)
(* The attach task of an operation (attach_member_runtime), with the       *)
(* background task around it (spawn_attach_agent_process_bg).              *)
(***************************************************************************)

At(g, o, pc) == attach[g][o].pc = pc
Go(g, o, pc) == attach' = [attach EXCEPT ![g][o].pc = pc]
Finish(g, o) == attach' = [attach EXCEPT ![g][o] = [NoAttach EXCEPT !.pc = "done"]]
Update(g, s) == session' = [session EXCEPT ![g] = s]

\* cleanup_stale_member_runtime_task: another session's agent is left alone.
CleanUp(g) == agent' = IF published \in {0, g} THEN 0 ELSE agent

StartAttach(g, o) ==
    /\ At(g, o, "start")
    /\ Update(g, Constrain(session[g], State("starting", o), FALSE))
    /\ Go(g, o, "config")
    /\ UNCHANGED <<service, process, caller, history>>

\* attach_agent_process writes the configuration, kills the agent and warms it up.
WriteConfig(g, o) ==
    /\ At(g, o, "config")
    /\ \/ config' = g /\ Go(g, o, "kill")
       \/ "config" \in Faults /\ config' = config /\ Go(g, o, "failed")
    /\ UNCHANGED <<service, agent, session, caller, history>>

KillOldAgent(g, o) ==
    /\ At(g, o, "kill")
    /\ agent' = 0
    /\ Go(g, o, "build")
    /\ UNCHANGED <<service, config, session, caller, history>>

WarmUp(g, o) ==
    /\ At(g, o, "build")
    /\ \/ agent' = (IF agent = 0 THEN config ELSE agent) /\ Go(g, o, "check")
       \/ "build" \in Faults /\ agent' = agent /\ Go(g, o, "failed")
    /\ UNCHANGED <<service, config, session, caller, history>>

\* The attach has failed: kill what was built, then let go of the entry.
CleanUpFailed(g, o) ==
    /\ At(g, o, "failed")
    /\ CleanUp(g)
    /\ Go(g, o, "fail")
    /\ UNCHANGED <<service, config, session, caller, history>>

CommitFailed(g, o) ==
    /\ At(g, o, "fail")
    /\ IF Owns(session[g], "attaching", o)
       THEN /\ Update(g, End(session[g], o, State("failed", o), "failed"))
            /\ Go(g, o, "constrain")
       ELSE Go(g, o, "wait") /\ UNCHANGED session
    /\ UNCHANGED <<service, process, caller, history>>

ConstrainFailed(g, o) ==
    /\ At(g, o, "constrain")
    /\ \E requeued \in BOOLEAN :
          Update(g, Constrain(session[g], State("failed", o), requeued))
    /\ Go(g, o, "wait")
    /\ UNCHANGED <<service, process, caller, history>>

\* owns_attach: nothing more is done for an operation that has been replaced.
CheckOwner(g, o) ==
    /\ At(g, o, "check")
    /\ Go(g, o, IF Owns(session[g], "attaching", o) THEN "register" ELSE "stale")
    /\ UNCHANGED <<service, process, session, caller, history>>

RegisterLoop(g, o) ==
    /\ At(g, o, "register")
    /\ \/ /\ session[g].loop
          /\ Go(g, o, "commit")
          /\ UNCHANGED session
       \/ /\ ~session[g].loop /\ ~session[g].closed
          /\ Update(g, SpawnLoop(session[g]))
          /\ attach' = [attach EXCEPT ![g][o] = [@ EXCEPT !.pc = "commit", !.registered = TRUE]]
       \/ /\ ~session[g].loop /\ session[g].closed
          /\ Go(g, o, "unregistered")
          /\ UNCHANGED session
    /\ UNCHANGED <<service, process, caller, history>>

\* The session's loops have been shut down.
CleanUpUnregistered(g, o) ==
    /\ At(g, o, "unregistered")
    /\ CleanUp(g)
    /\ Go(g, o, "unregister")
    /\ UNCHANGED <<service, config, session, caller, history>>

FailUnregistered(g, o) ==
    /\ At(g, o, "unregister")
    /\ Update(g, IF Owns(session[g], "attaching", o)
                 THEN End(session[g], o, State("failed", o), "failed")
                 ELSE session[g])
    /\ Go(g, o, "constrain")
    /\ UNCHANGED <<service, process, caller, history>>

\* Mutant: an attach that is refused leaves the loop it has registered.
CommitReadyOrLeave(g, o) ==
    /\ At(g, o, "commit")
    /\ IF Owns(session[g], "attaching", o)
       THEN /\ Update(g, End(session[g], o, Ready, "ready"))
            /\ Go(g, o, "ready")
       ELSE Go(g, o, "stale") /\ UNCHANGED session
    /\ UNCHANGED <<service, process, caller, history>>

CommitReady(g, o) ==
    /\ At(g, o, "commit")
    /\ IF Owns(session[g], "attaching", o)
       THEN /\ Update(g, End(session[g], o, Ready, "ready"))
            /\ Go(g, o, "ready")
       ELSE /\ Go(g, o, IF attach[g][o].registered THEN "deregister" ELSE "stale")
            /\ UNCHANGED session
    /\ UNCHANGED <<service, process, caller, history>>

ConstrainReady(g, o) ==
    /\ At(g, o, "ready")
    /\ Update(g, Constrain(session[g], Ready, FALSE))
    /\ Go(g, o, "notify")
    /\ UNCHANGED <<service, process, caller, history>>

\* Mutant: the loop is not told that the runtime is ready.
NotifyReadyNobody(g, o) ==
    /\ At(g, o, "notify")
    /\ Go(g, o, "publish")
    /\ UNCHANGED <<service, process, session, caller, history>>

NotifyReady(g, o) ==
    /\ At(g, o, "notify")
    /\ Update(g, Notify(session[g]))
    /\ Go(g, o, "publish")
    /\ UNCHANGED <<service, process, caller, history>>

\* publish_member_runtime_ready_if_current: a session that is no longer
\* published takes its runtime down again.
PublishReady(g, o) ==
    /\ At(g, o, "publish")
    /\ Go(g, o, CASE published = g -> "wait"
                  [] published # g /\ attach[g][o].registered -> "deregister"
                  [] published # g /\ ~attach[g][o].registered -> "stale")
    /\ UNCHANGED <<service, process, session, caller, history>>

Deregister(g, o) ==
    /\ At(g, o, "deregister")
    /\ Update(g, RemoveLoop(session[g]))
    /\ Go(g, o, "stale")
    /\ UNCHANGED <<service, process, caller, history>>

CleanUpStale(g, o) ==
    /\ At(g, o, "stale")
    /\ CleanUp(g)
    /\ Go(g, o, "wait")
    /\ UNCHANGED <<service, config, session, caller, history>>

\* The task returns the operation's answer.
EndAttach(g, o) ==
    /\ At(g, o, "wait")
    /\ session[g].answer[o] # "pending"
    /\ IF session[g].answer[o] = "ready" /\ attach[g][o].background
       THEN Go(g, o, "again") ELSE Finish(g, o)
    /\ UNCHANGED <<service, process, session, caller, history>>

\* What is done once more, while the session is published, when an attach has
\* succeeded.
ReadyAgain(s) == Notify(Constrain(s, Ready, FALSE))

NotifyAgain(g, o) ==
    /\ At(g, o, "again")
    /\ Update(g, IF published = g THEN ReadyAgain(session[g]) ELSE session[g])
    /\ Finish(g, o)
    /\ UNCHANGED <<service, process, caller, history>>

Attach(g, o) ==
    \/ StartAttach(g, o) \/ WriteConfig(g, o) \/ KillOldAgent(g, o) \/ WarmUp(g, o)
    \/ CleanUpFailed(g, o) \/ CommitFailed(g, o) \/ ConstrainFailed(g, o)
    \/ CheckOwner(g, o) \/ RegisterLoop(g, o)
    \/ CleanUpUnregistered(g, o) \/ FailUnregistered(g, o)
    \/ CommitReady(g, o) \/ ConstrainReady(g, o) \/ NotifyReady(g, o) \/ PublishReady(g, o)
    \/ Deregister(g, o) \/ CleanUpStale(g, o) \/ EndAttach(g, o) \/ NotifyAgain(g, o)

(***************************************************************************)
(* The event loop: prepare_next_batch looks at the registry, tells the     *)
(* coordinator and claims what it may.                                     *)
(***************************************************************************)

LoopLooks(g) ==
    /\ session[g].notified /\ session[g].reading = Nothing
    /\ Update(g, [session[g] EXCEPT !.notified = FALSE,
                                    !.reading = IF session[g].member
                                                THEN Snapshot(session[g]) ELSE Nothing])
    /\ UNCHANGED <<service, process, attach, caller, history>>

LoopClaims(g) ==
    /\ session[g].reading # Nothing
    /\ \E requeued \in BOOLEAN :
          LET told == Constrain(session[g], session[g].reading, requeued)
          IN  Update(g, [told EXCEPT !.reading = Nothing,
                                     !.work = told.work /\ told.slot.kind # "ready"])
    /\ UNCHANGED <<service, process, attach, caller, history>>

\* An aborted loop gets as far as telling the coordinator.
AbortedLoopTells(g) ==
    /\ \E seen \in session[g].late, requeued \in BOOLEAN :
          Update(g, [Constrain(session[g], seen, requeued)
                        EXCEPT !.late = session[g].late \ {seen}])
    /\ UNCHANGED <<service, process, attach, caller, history>>

Loop(g) == LoopLooks(g) \/ LoopClaims(g) \/ AbortedLoopTells(g)

(***************************************************************************)
(* The calls.  A caller remembers the session it works on, what a          *)
(* reservation found and its operation, and what it has seen of the        *)
(* registry.                                                               *)
(***************************************************************************)

On(c, pc) == caller[c].pc = pc
Mine(c) == session[caller[c].gen]
Moved(c, pc) == [caller[c] EXCEPT !.pc = pc]
Become(c, r) == caller' = [caller EXCEPT ![c] = r]
Goto(c, pc) == Become(c, Moved(c, pc))
Return(c) == Become(c, [NoCall EXCEPT !.pc = "done"])

\* The caller has a reservation in session g: its own operation, or the one
\* that holds the entry.
Reserved(c, pc, g, found) ==
    [caller[c] EXCEPT !.pc = pc, !.gen = g, !.found = found,
                      !.op = CASE found = "start" -> session[g].next
                               [] found = "join" -> session[g].entry.op
                               [] found \notin {"start", "join"} -> 0]

\* A call begins, on the session that is published.
Comes(c) == \A d \in Callers : On(d, "idle") <=> d >= c

Call(c, call, pc) ==
    /\ call \in Calls
    /\ Comes(c)
    /\ Become(c, [NoCall EXCEPT !.call = call, !.pc = pc, !.gen = published])

\* The registry begins an operation, if that is what the reservation found.
Take(g, found, kind) ==
    IF found = "start"
    THEN session[g].next \in Ops /\ Update(g, Begin(session[g], kind))
    ELSE UNCHANGED session

\* An attach task is spawned for an operation.
Spawn(g, o, background) == attach' = [attach EXCEPT ![g][o] = Spawned(background)]

\* The caller goes on without the operation it has begun.
LetGo(c) == dropped' = IF caller[c].found = "start"
                       THEN dropped \cup {<<caller[c].gen, caller[c].op>>} ELSE dropped
Drop(c) == LetGo(c) /\ UNCHANGED unguarded

(***************************************************************************)
(* Deliveries: ensure_member_runtime_lazy, then publish_runtime_constraint *)
(* and the enqueue.                                                        *)
(***************************************************************************)

Deliver(c) ==
    /\ published # 0 /\ session[published].member
    /\ Call(c, "deliver", "lazy")
    /\ UNCHANGED <<service, process, session, attach, history>>

\* There is nothing to attach if the loop runs or the session has been replaced.
LooksForLoop(c) ==
    /\ On(c, "lazy")
    /\ Goto(c, IF Mine(c).loop \/ published # caller[c].gen THEN "look" ELSE "reserve")
    /\ UNCHANGED <<service, process, session, attach, history>>

ReservesLazily(c) ==
    /\ On(c, "reserve")
    /\ LET g     == caller[c].gen
           found == Reservation(session[g], FALSE)
       IN  /\ Take(g, found, "attaching")
           /\ Become(c, Reserved(c, IF found = "start" THEN "spawn" ELSE "look", g, found))
    /\ UNCHANGED <<service, process, attach, history>>

\* get_agent fails for a member that has been removed meanwhile.
SpawnsLazily(c) ==
    /\ On(c, "spawn")
    /\ IF Mine(c).member
       THEN /\ Spawn(caller[c].gen, caller[c].op, TRUE)
            /\ Goto(c, "look")
            /\ UNCHANGED history
       ELSE Drop(c) /\ Return(c) /\ UNCHANGED attach
    /\ UNCHANGED <<service, process, session>>

Looks(c) ==
    /\ On(c, "look")
    /\ caller[c].call = "add" => Mine(c).member
    /\ Become(c, [Moved(c, "tell") EXCEPT !.seen = Snapshot(Mine(c))])
    /\ UNCHANGED <<service, process, session, attach, history>>

Tells(c) ==
    /\ On(c, "tell")
    /\ \E requeued \in BOOLEAN :
          Update(caller[c].gen, Constrain(Mine(c), caller[c].seen, requeued))
    /\ Goto(c, "enqueue")
    /\ UNCHANGED <<service, process, attach, history>>

Enqueues(c) ==
    /\ On(c, "enqueue")
    /\ Mine(c).member /\ AcceptsWork(Mine(c))
    /\ Update(caller[c].gen, [Mine(c) EXCEPT !.work = TRUE])
    /\ Goto(c, "wake")
    /\ UNCHANGED <<service, process, attach, history>>

\* The member has gone, the coordinator refuses, or the row cannot be written:
\* spawn_agent returns with its reservation.
EnqueueFails(c) ==
    /\ \/ On(c, "look") /\ caller[c].call = "add" /\ ~Mine(c).member
       \/ On(c, "enqueue") /\ (~Mine(c).member \/ ~AcceptsWork(Mine(c)) \/ "enqueue" \in Faults)
    /\ IF caller[c].call = "add" THEN Drop(c) ELSE UNCHANGED history
    /\ Return(c)
    /\ UNCHANGED <<service, process, session, attach>>

Wakes(c) ==
    /\ On(c, "wake")
    /\ Update(caller[c].gen, Notify(Mine(c)))
    /\ Goto(c, IF caller[c].call = "add" THEN "launch" ELSE "done")
    /\ UNCHANGED <<service, process, attach, history>>

Delivering(c) ==
    \/ Deliver(c) \/ LooksForLoop(c) \/ ReservesLazily(c) \/ SpawnsLazily(c)
    \/ Looks(c) \/ Tells(c) \/ Enqueues(c) \/ EnqueueFails(c) \/ Wakes(c)

(***************************************************************************)
(* spawn_agent: the new member is reserved before the scheduler knows it,  *)
(* and attached after it has been welcomed.                                *)
(***************************************************************************)

Add(c) ==
    /\ published # 0 /\ roster = "new" /\ membership = Nobody
    /\ Call(c, "add", "introduce")
    /\ roster' = "in"
    /\ UNCHANGED <<published, created, membership, process, session, attach, history>>

Introduces(c) ==
    /\ On(c, "introduce")
    /\ LET g     == caller[c].gen
           found == Reservation(session[g], FALSE)
       IN  /\ Take(g, found, "attaching")
           /\ Become(c, Reserved(c, "schedule", g, found))
    /\ UNCHANGED <<service, process, attach, history>>

\* The welcome may fail to be written: the member is removed again.
Schedules(c) ==
    /\ On(c, "schedule")
    /\ Update(caller[c].gen, [Mine(c) EXCEPT !.member = TRUE])
    /\ \/ Goto(c, "look") /\ UNCHANGED history
       \/ "write" \in Faults /\ Drop(c) /\ Goto(c, "remove")
    /\ UNCHANGED <<service, process, attach>>

\* What becomes of a reservation in the background, when the session is still
\* published.
Afterwards(found) ==
    CASE found = "join" -> "join" [] found = "ready" -> "again" [] OTHER -> "done"

Launches(c) ==
    /\ On(c, "launch")
    /\ IF published = caller[c].gen
       THEN /\ IF caller[c].found = "start"
               THEN Spawn(caller[c].gen, caller[c].op, TRUE) ELSE UNCHANGED attach
            /\ Goto(c, Afterwards(caller[c].found))
            /\ UNCHANGED history
       ELSE Drop(c) /\ Return(c) /\ UNCHANGED attach
    /\ UNCHANGED <<service, process, session>>

Joins(c) ==
    /\ On(c, "join")
    /\ Mine(c).answer[caller[c].op] # "pending"
    /\ Goto(c, IF Mine(c).answer[caller[c].op] = "ready" THEN "again" ELSE "done")
    /\ UNCHANGED <<service, process, session, attach, history>>

TellsAgain(c) ==
    /\ On(c, "again")
    /\ IF published = caller[c].gen
       THEN Update(published, ReadyAgain(Mine(c))) ELSE UNCHANGED session
    /\ Return(c)
    /\ UNCHANGED <<service, process, attach, history>>

Adding(c) ==
    Add(c) \/ Introduces(c) \/ Schedules(c) \/ Launches(c) \/ Joins(c) \/ TellsAgain(c)

(***************************************************************************)
(* ensure_session, and attach_agent_runtime after it.                      *)
(***************************************************************************)

Ensuring == {"ensure", "retry"}

\* ensure_session has succeeded.
AfterEnsure(call) == IF call = "retry" THEN "retry" ELSE "done"

\* The session to come has been fresh from the beginning.
StartSession(c) ==
    /\ published = 0 /\ membership = Nobody /\ created < MaxSessions
    /\ Comes(c)
    /\ \E call \in Ensuring \cap Calls :
          Become(c, [NoCall EXCEPT !.call = call, !.pc = "lead", !.gen = created + 1])
    /\ created' = created + 1
    /\ published' = created + 1
    /\ Update(created + 1, [session[created + 1] EXCEPT !.member = (roster = "in")])
    /\ UNCHANGED <<roster, membership, process, attach, history>>

\* The leader's attach; a session that cannot have its leader is taken back.
LeadAttaches(c) ==
    /\ On(c, "lead") /\ ~Mine(c).stopped
    /\ Goto(c, AfterEnsure(caller[c].call))
    /\ UNCHANGED <<service, process, session, attach, history>>

LeadFails(c) ==
    /\ On(c, "lead") /\ (Mine(c).stopped \/ "lead" \in Faults)
    /\ Goto(c, "stop work")
    /\ UNCHANGED <<service, process, session, attach, history>>

\* What reconciliation does about the member: a dormant one stays dormant, a
\* ready one is repaired when its agent is gone.
Plan(s) ==
    CASE s.entry.kind = "absent" /\ ~s.stopped -> "skip"
      [] s.entry.kind = "ready" -> IF agent = 0 THEN "repair" ELSE "skip"
      [] OTHER -> "reattach"

\* reserve_member_runtime_reconciliation, under the membership lock.
Reconcile(c) ==
    /\ published # 0 /\ membership = Nobody
    /\ \E call \in Ensuring :
          LET plan == IF roster = "in" THEN Plan(session[published]) ELSE "skip"
          IN  /\ Call(c, call, IF plan = "skip" THEN "await" ELSE plan)
              /\ membership' = IF plan = "skip" THEN Nobody ELSE c
    /\ IF roster = "in"
       THEN Update(published, [session[published] EXCEPT !.member = TRUE])
       ELSE UNCHANGED session
    /\ UNCHANGED <<published, created, roster, process, attach, history>>

ReservesAgain(c) ==
    /\ On(c, "repair") \/ On(c, "reattach")
    /\ LET g     == caller[c].gen
           found == IF On(c, "repair") THEN RepairReservation(session[g])
                    ELSE Reservation(session[g], TRUE)
       IN  /\ Take(g, found, "attaching")
           /\ IF found = "start" THEN Spawn(g, session[g].next, FALSE) ELSE UNCHANGED attach
           /\ Become(c, Reserved(c, IF found = "stopped" THEN "done" ELSE "await", g, found))
    /\ membership' = Nobody
    /\ UNCHANGED <<published, created, roster, process, history>>

\* complete_member_runtime_reconciliation: a member that failed does not fail the
\* team; a session that was stopped or replaced does.
Awaits(c) ==
    /\ On(c, "await") /\ membership = Nobody
    /\ LET answer == IF caller[c].op = 0 THEN "ready" ELSE Mine(c).answer[caller[c].op]
       IN  /\ answer # "pending"
           /\ Goto(c, IF published = caller[c].gen /\ (roster = "in" => answer # "stopped")
                      THEN AfterEnsure(caller[c].call) ELSE "done")
    /\ UNCHANGED <<service, process, session, attach, history>>

Retry(c) ==
    /\ On(c, "retry")
    /\ IF published # 0 /\ session[published].member
       THEN Become(c, [Moved(c, "retry attach") EXCEPT !.gen = published])
       ELSE Return(c)
    /\ UNCHANGED <<service, process, session, attach, history>>

RetriesAttach(c) ==
    /\ On(c, "retry attach")
    /\ LET g     == caller[c].gen
           found == Reservation(session[g], TRUE)
       IN  /\ Take(g, found, "attaching")
           /\ IF found = "start" THEN Spawn(g, session[g].next, TRUE) ELSE UNCHANGED attach
           /\ Become(c, Reserved(c, Afterwards(found), g, found))
    /\ UNCHANGED <<service, process, history>>

Reconciling(c) ==
    \/ StartSession(c) \/ LeadAttaches(c) \/ LeadFails(c)
    \/ Reconcile(c) \/ ReservesAgain(c) \/ Awaits(c) \/ Retry(c) \/ RetriesAttach(c)

(***************************************************************************)
(* remove_agent of the service.                                            *)
(***************************************************************************)

\* What begin_remove finds.
Removal(g) ==
    IF g = 0 THEN "none"
    ELSE IF session[g].stopped \/ session[g].entry = Absent THEN "none"
    ELSE IF session[g].entry.kind = "removing" THEN "join" ELSE "start"

Remove(c) ==
    /\ roster = "in"
    /\ Call(c, "remove", "remove")
    /\ UNCHANGED <<service, process, session, attach, history>>

\* Under the membership lock; whoever is second waits for the first.
BeginsRemoval(c) ==
    /\ On(c, "remove") /\ membership = Nobody
    /\ IF roster = "in"
       THEN LET found == Removal(published)
            IN  /\ Take(published, found, "removing")
                /\ Become(c, Reserved(c, IF found = "join" THEN "await removal" ELSE "stop loop",
                                      published, found))
                /\ unguarded' = (unguarded \/ found = "none")
       ELSE Return(c) /\ UNCHANGED <<session, unguarded>>
    /\ UNCHANGED <<service, process, attach, dropped>>

AwaitsRemoval(c) ==
    /\ On(c, "await removal") \/ On(c, "await other")
    /\ Mine(c).answer[caller[c].op] # "pending"
    /\ IF On(c, "await other") THEN Goto(c, "stop loop again") ELSE Return(c)
    /\ UNCHANGED <<service, process, session, attach, history>>

StopsLoop(c) ==
    /\ On(c, "stop loop")
    /\ IF caller[c].gen = 0 THEN UNCHANGED session ELSE Update(caller[c].gen, RemoveLoop(Mine(c)))
    /\ Goto(c, "kill")
    /\ UNCHANGED <<service, process, attach, history>>

KillsAgent(c) ==
    /\ On(c, "kill")
    /\ agent' = 0
    /\ Goto(c, "persist")
    /\ UNCHANGED <<service, config, session, attach, history>>

\* The roster is loaded and written; when loading fails the call returns at
\* once, and its removal stays begun.
Persists(c) ==
    /\ On(c, "persist") /\ membership = Nobody
    /\ \/ roster' = "out" /\ Goto(c, "find session") /\ UNCHANGED history
       \/ "load" \in Faults /\ Drop(c) /\ Return(c) /\ UNCHANGED roster
       \/ "persist" \in Faults /\ Goto(c, "restore") /\ UNCHANGED <<roster, history>>
    /\ UNCHANGED <<published, created, membership, process, session, attach>>

\* Mutant: a removal that could not be persisted stays begun.
RestoresNothing(c) ==
    /\ On(c, "restore")
    /\ Return(c)
    /\ UNCHANGED <<service, process, session, attach, history>>

Restores(c) ==
    /\ On(c, "restore")
    /\ IF caller[c].found = "start" /\ Owns(Mine(c), "removing", caller[c].op)
       THEN Update(caller[c].gen,
                   End(Mine(c), caller[c].op, State("failed", caller[c].op), "failed"))
       ELSE UNCHANGED session
    /\ Return(c)
    /\ UNCHANGED <<service, process, attach, history>>

\* Another session may have been started in between.
FindsSession(c) ==
    /\ On(c, "find session")
    /\ \/ /\ published = 0
          /\ Return(c) /\ Drop(c) /\ UNCHANGED session
       \/ /\ published # 0 /\ published = caller[c].gen
          /\ Goto(c, "stop loop again") /\ UNCHANGED <<session, history>>
       \/ /\ published \notin {0, caller[c].gen}
          /\ LET found == Removal(published)
             IN  /\ Take(published, found, "removing")
                 /\ Become(c, Reserved(c, IF found = "join" THEN "await other"
                                          ELSE "stop loop again", published, found))
                 /\ LetGo(c)
                 /\ unguarded' = (unguarded \/ found = "none")
    /\ UNCHANGED <<service, process, attach>>

StopsLoopAgain(c) ==
    /\ On(c, "stop loop again")
    /\ Update(caller[c].gen, RemoveLoop(Mine(c)))
    /\ Goto(c, "kill again")
    /\ UNCHANGED <<service, process, attach, history>>

KillsAgentAgain(c) ==
    /\ On(c, "kill again")
    /\ agent' = 0
    /\ Goto(c, "unschedule")
    /\ UNCHANGED <<service, config, session, attach, history>>

Unschedules(c) ==
    /\ On(c, "unschedule")
    /\ Update(caller[c].gen, [Mine(c) EXCEPT !.member = FALSE])
    /\ Goto(c, "finish")
    /\ UNCHANGED <<service, process, attach, history>>

FinishesRemoval(c) ==
    /\ On(c, "finish")
    /\ IF caller[c].found = "start" /\ Owns(Mine(c), "removing", caller[c].op)
       THEN Update(caller[c].gen, End(Mine(c), caller[c].op, Absent, "removed"))
       ELSE UNCHANGED session
    /\ Return(c)
    /\ UNCHANGED <<service, process, attach, history>>

Removing(c) ==
    \/ Remove(c) \/ BeginsRemoval(c) \/ AwaitsRemoval(c) \/ StopsLoop(c) \/ KillsAgent(c)
    \/ Persists(c) \/ Restores(c) \/ FindsSession(c)
    \/ StopsLoopAgain(c) \/ KillsAgentAgain(c) \/ Unschedules(c) \/ FinishesRemoval(c)

(***************************************************************************)
(* Stopping a session: by a user, because it is idle, or because its       *)
(* leader could not be attached.                                           *)
(***************************************************************************)

Stop(c) ==
    /\ published # 0
    /\ \/ Call(c, "stop", "stop work")
       \/ Call(c, "idle", "stop work") /\ ~session[published].work
    /\ published' = 0
    /\ UNCHANGED <<created, roster, membership, process, session, attach, history>>

StopsWork(c) ==
    /\ On(c, "stop work")
    /\ Update(caller[c].gen, StopWork(Mine(c)))
    /\ Goto(c, "stop registry")
    /\ UNCHANGED <<service, process, attach, history>>

StopsRegistry(c) ==
    /\ On(c, "stop registry")
    /\ Update(caller[c].gen, StopEntries(Mine(c)))
    /\ Goto(c, "stop loops")
    /\ UNCHANGED <<service, process, attach, history>>

StopsLoops(c) ==
    /\ On(c, "stop loops")
    /\ Update(caller[c].gen, [RemoveLoop(Mine(c)) EXCEPT !.closed = TRUE])
    /\ Goto(c, CASE caller[c].call = "stop" -> "done"
                 [] caller[c].call = "idle" -> "kill idle"
                 [] caller[c].call \in Ensuring -> "unpublish")
    /\ UNCHANGED <<service, process, attach, history>>

KillsIdle(c) ==
    /\ On(c, "kill idle")
    /\ agent' = 0
    /\ Return(c)
    /\ UNCHANGED <<service, config, session, attach, history>>

\* The rollback of a cold start removes the team's session from the map,
\* whichever it is.
Unpublishes(c) ==
    /\ On(c, "unpublish")
    /\ published' = 0
    /\ Return(c)
    /\ UNCHANGED <<created, roster, membership, process, session, attach, history>>

Stopping(c) ==
    \/ Stop(c) \/ StopsWork(c) \/ StopsRegistry(c) \/ StopsLoops(c)
    \/ KillsIdle(c) \/ Unpublishes(c)

\* The agent process ends by itself.
AgentDies ==
    /\ "die" \in Faults
    /\ agent # 0
    /\ agent' = 0
    /\ UNCHANGED <<service, config, session, attach, caller, history>>

Acts(c) == Delivering(c) \/ Adding(c) \/ Reconciling(c) \/ Removing(c) \/ Stopping(c)

Next ==
    \/ \E g \in Sessions, o \in Ops : Attach(g, o)
    \/ \E g \in Sessions : Loop(g)
    \/ \E c \in Callers : Acts(c)
    \/ AgentDies

Spec == Init /\ [][Next]_vars

(***************************************************************************)
(* Properties.                                                             *)
(***************************************************************************)

\* Every variable keeps its type, and the operations answered are those begun.
RuntimeTypeOK ==
    /\ published \in 0..created /\ created \in 0..MaxSessions
    /\ roster \in {"in", "new", "out"}
    /\ membership \in Callers \cup {Nobody}
    /\ {config, agent} \subseteq 0..created
    /\ \A g \in Sessions :
          /\ session[g].entry \in [kind : EntryKinds, op : 0..MaxOps]
          /\ session[g].slot \in [kind : ConstraintKinds, op : 0..MaxOps]
          /\ session[g].answer \in [Ops -> Answers]
          /\ \A o \in Ops : session[g].answer[o] = "unused" <=> o >= session[g].next
    /\ dropped \subseteq Sessions \X Ops
    /\ unguarded \in BOOLEAN

\* Who is to end an operation: the attach task that has not committed, the call
\* that has reserved it and has not spawned the task yet, or the removal.
AttachHolds(g, o) ==
    attach[g][o].pc \in {"start", "config", "kill", "build", "failed", "fail", "check", "register",
                         "unregistered", "unregister", "commit"}

CallHolds(c, g, o) ==
    /\ caller[c].found = "start" /\ caller[c].gen = g /\ caller[c].op = o
    /\ \/ caller[c].call = "deliver" /\ caller[c].pc = "spawn"
       \/ /\ caller[c].call = "add"
          /\ caller[c].pc \in {"schedule", "look", "tell", "enqueue", "wake", "launch"}

RemovalHolds(c, g, o) ==
    /\ caller[c].found = "start" /\ caller[c].gen = g /\ caller[c].op = o
    /\ caller[c].pc \in {"stop loop", "kill", "persist", "restore", "find session",
                         "stop loop again", "kill again", "unschedule", "finish"}

\* An entry that is being attached or removed has one owner that will end it,
\* unless an error path went away with the reservation: the early returns of
\* attach_member_runtime, remove_agent and the lazy wakeup leave none behind.
EntriesAreOwned ==
    \A g \in Sessions, o \in Ops :
        <<g, o>> \notin dropped =>
            /\ session[g].entry = State("attaching", o) =>
                 AttachHolds(g, o) # \E c \in Callers : CallHolds(c, g, o)
            /\ session[g].entry = State("removing", o) =>
                 \E c \in Callers : RemovalHolds(c, g, o)

\* An answer that is still awaited is owed by the operation that holds the
\* entry: replacing, ending or stopping an operation never forgets its waiters.
PendingAnswersAreOwed ==
    \A g \in Sessions, o \in Ops :
        session[g].answer[o] = "pending" =>
            session[g].entry \in {State("attaching", o), State("removing", o)}

\* An answer that has been given is not rewritten, by a removal or a stop that
\* comes after it or by an operation that ends late: everyone who waited for an
\* operation, and whoever joins it later, is told the same.
Answered(g, o) == session[g].answer[o] \notin {"unused", "pending"}
AnswersAreFinal ==
    [][\A g \in Sessions, o \in Ops :
           Answered(g, o) => session'[g].answer[o] = session[g].answer[o]]_vars

\* Nothing is under way for the member in session g.
Quiet(g) ==
    /\ \A o \in Ops : attach[g][o].pc \in {"unused", "done"}
    /\ \A c \in Callers : caller[c].pc \in {"idle", "done"} \/ caller[c].gen # g

\* However late an attach that was replaced comes to its end, it leaves no event
\* loop for a member the registry does not know: the loop it has registered goes
\* when commit_ready refuses it.
AbsentHasNoLoop ==
    published # 0 /\ Quiet(published) =>
        (session[published].entry = Absent => ~session[published].loop)

\* Work that was accepted while the runtime was being attached is not forgotten:
\* once the member is ready its loop has been told, or is looking.  (Work of a
\* member that is no longer in the team may be: a spawn_agent that is overtaken by
\* the removal of its member puts it into the scheduler again.)
QueuedWorkHasAWakeUp ==
    published # 0 /\ Quiet(published) /\ roster # "out" =>
        LET s == session[published]
        IN  s.member /\ s.entry = Ready /\ s.loop /\ s.work =>
                s.notified \/ s.reading # Nothing

(***************************************************************************)
(* Statements the code does not keep; no run checks them.                  *)
(***************************************************************************)

\* "so we never leave a dangling `Attaching` lease" (session.rs:580): spawn_agent
\* returns with its reservation when the welcome is not accepted, and whoever
\* joins the operation waits for ever.
NoDanglingAttach ==
    \A g \in Sessions, o \in Ops :
        session[g].entry = State("attaching", o) =>
            AttachHolds(g, o) \/ \E c \in Callers : CallHolds(c, g, o)

\* "Concurrent ensure calls observe Removing and join the same registry operation
\* instead of starting a replacement." (service.rs:633): the removal of a dormant
\* member has no operation to join, and a delivery starts a runtime under it.
RemovalsAreGuarded == ~unguarded

\* A ready member has an event loop: a late attach of an operation that was
\* replaced removes the loop of the slot, which may be its successor's.  It
\* takes three calls.
ReadyHasALoop ==
    published # 0 /\ Quiet(published) /\ ~unguarded =>
        (session[published].entry = Ready => session[published].loop)
=============================================================================
