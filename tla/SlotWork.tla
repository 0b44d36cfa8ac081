------------------------------ MODULE SlotWork ------------------------------
(***************************************************************************)
(* The slot work coordinator under its most general client: any thread may *)
(* call any operation at any time with any handle it was ever given.  The  *)
(* run an enqueue is bound to comes from a port (RunCausalityPort) and is  *)
(* any run here.                                                           *)
(***************************************************************************)
EXTENDS WorkCoordinator

CONSTANTS
    Sources,        \* the work sources the client uses
    RuntimeStates   \* the runtime constraints the client sets

ASSUME ClientAssumption ==
    /\ Sources \subseteq WorkSource
    /\ RuntimeStates \subseteq Constraints

VARIABLES
    issued,     \* batches that next has handed out: the handles callers hold
    settling,   \* settling[s]: signals next told the event loop of s to settle
    arrivals    \* history: the live intents, in the order they were first queued

clientVars == <<issued, settling, arrivals>>
vars == <<coordinatorVars, clientVars>>

\* A mailbox row is addressed to one slot.
Addressed(m, s) == \A w \in Works : item[w].message = m => item[w].slot = s

\* The answers of peek_unread: rows of the slot, each once.
UnreadLists(s) ==
    LET rows == {m \in Messages : Addressed(m, s)}
    IN  UNION {Orders(R) : R \in SUBSET rows}

SlotWorkInit ==
    /\ Init
    /\ issued = {}
    /\ settling = [s \in Slots |-> {}]
    /\ arrivals = <<>>

Enqueue ==
    /\ \/ \E w \in Works, s \in Slots, source \in Sources, r \in Runs \cup {NoRun} :
             AcquireEnqueue(w, s, source, r)
       \/ \E w \in Works, m \in Messages \cup {NoMessage} :
             /\ m = NoMessage \/ Addressed(m, item[w].slot)
             /\ CommitEnqueue(w, m)
       \/ \E w \in Works : AbortEnqueue(w)
    /\ UNCHANGED <<issued, settling>>

\* The event loop of slot s.
Reconcile(s) ==
    /\ \E unread \in UnreadLists(s) : ReconcileMailbox(s, unread)
    /\ UNCHANGED <<issued, settling>>

ClaimNext(s) ==
    /\ Claim(s)
    /\ issued' = issued \cup {ClaimedBatch(s)}
    /\ UNCHANGED settling

ObserveSignals(s) ==
    /\ SignalsToSettle(s) # {}
    /\ settling' = [settling EXCEPT ![s] = SignalsToSettle(s)]
    /\ UNCHANGED <<coordinatorVars, issued>>

SettleSignals(s) ==
    /\ CompleteSignals(s, settling[s])
    /\ settling' = [settling EXCEPT ![s] = {}]
    /\ UNCHANGED issued

\* A turn reports back, with whatever handle it has.
Report(b) ==
    /\ \/ MarkStarted(b)
       \/ RetryStart(b)
       \/ \E end \in Terminal : TerminalizeBatch(b, end)
    /\ UNCHANGED <<issued, settling>>

Interrupt ==
    /\ \/ \E r \in Runs : CancelRun(r)
       \/ \E s \in Slots : PauseSlot(s)
       \/ \E s \in Slots, c \in RuntimeStates : SetRuntimeConstraint(s, c)
       \/ \E s \in Slots : RemoveSlot(s)
       \/ Stop
    /\ UNCHANGED <<issued, settling>>

\* An operation queues new intents in one deque at most.
RecordArrivals ==
    LET new == {w \in Works : phase[w] \in {"absent", "leased"} /\ phase'[w] = "queued"}
        DequeOf(w) == queue'[item'[w].slot][Priority(item'[w].source)]
        ended == {w \in Works : phase'[w] \in Terminal}
    IN  arrivals' = Without(arrivals, ended) \o
                    (IF new = {} THEN <<>> ELSE Only(DequeOf(CHOOSE w \in new : TRUE), new))

Next ==
    /\ \/ Enqueue
       \/ \E s \in Slots : Reconcile(s) \/ ClaimNext(s) \/ ObserveSignals(s) \/ SettleSignals(s)
       \/ \E b \in issued : Report(b)
       \/ Interrupt
    /\ RecordArrivals

Spec == SlotWorkInit /\ [][Next]_vars

-----------------------------------------------------------------------------
(* Correctness. *)

\* Every variable has its type.
TypeOK ==
    /\ phase \in [Works -> Phases]
    /\ item \in [Works -> Item]
    /\ slots \subseteq Slots
    /\ queue \in [Slots -> [Priorities -> Seq(Works)]]
    /\ active \in [Slots -> Batch]
    /\ started \in [Slots -> BOOLEAN]
    /\ paused \in [Slots -> BOOLEAN]
    /\ constraint \in [Slots -> Constraints]
    /\ removed \in [Slots -> BOOLEAN]
    /\ nextOp \in 0..MaxOps
    /\ issued \subseteq Batch
    /\ settling \in [Slots -> SUBSET Works]
    /\ arrivals \in Seq(Works)

\* Nothing is listed twice in a deque or in a batch: a message is handed to the
\* agent at most once per claim.
ListedOnce ==
    \A s \in Slots :
        /\ Distinct(active[s].works)
        /\ \A p \in Priorities : Distinct(queue[s][p])

\* A slash command is never in a batch with anything else, whatever
\* requeueing, merging or cancelling happened before the claim
\* (coordinator.rs next, ELECTRON-3RN).
CommandsRunAlone ==
    \A b \in issued : Elems(b.works) \cap Commands # {} => Len(b.works) = 1

\* Messages of one slot and priority are claimed in the order in which they
\* were queued, also after retries, cancellations and failures; only run-less
\* work that survived a runtime failure may be reordered among itself
\* (set_runtime_constraint requeues it in hash map order).
ArrivedBefore(v, w) ==
    \E i, j \in 1..Len(arrivals) : i < j /\ arrivals[i] = v /\ arrivals[j] = w
Line(s, p) ==
    LET waiting == Without(queue[s][p], Signals)
    IN  IF active[s].priority = p THEN active[s].works \o waiting ELSE waiting
MessagesKeepTheirOrder ==
    \A s \in Slots, p \in Priorities :
        \A i, j \in 1..Len(Line(s, p)) : i < j =>
            LET v == Line(s, p)[i]
                w == Line(s, p)[j]
            IN  ArrivedBefore(v, w) \/ {item[v].run, item[w].run} = {NoRun}

\* After cancel_run nothing of the run is waiting, claimed or leased, whichever
\* batches, deques and slots its work was spread over, and no other run's work
\* has ended.
CancelRunIsExact ==
    [][\A r \in Runs : CancelRun(r) =>
         /\ OfRun(r, Live \cup {"leased"})' = {}
         /\ \A w \in Works : item[w].run # r /\ phase[w] \in Live => phase'[w] \in Live
      ]_vars

\* Work that has ended stays ended, and keeps the outcome it ended with: no
\* late report, requeue or removal changes it.
EndedWorkStaysEnded ==
    [][\A w \in Works : phase[w] \in Terminal \cup {"released"} => phase'[w] = phase[w]]_vars

\* The coordinator is the serial work service it promises to be: per slot one
\* batch at a time, batches that start and leave as a whole, ends that are
\* final.
ImplementsSerialWork == Serial!Spec
=============================================================================
