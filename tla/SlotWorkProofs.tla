--------------------------- MODULE SlotWorkProofs ---------------------------
(***************************************************************************)
(* What holds of the slot work coordinator under its most general client   *)
(* (SlotWork), for all slots, works, messages, runs and bounds, with       *)
(* proofs.                                                                 *)
(*                                                                         *)
(* The coordinator's operations preserve CoordinatorInv                    *)
(* (WorkCoordinatorProofs) when a report comes from the current batch; the *)
(* inductive invariant IInv adds that handles are unique, so that a report *)
(* which passes is_current_batch does.  On top of it: BatchInv, what the   *)
(* batches handed out carry; the refinement of SerialWork, step by step;   *)
(* OrderInv, the order of the messages in the deques and the batches.      *)
(***************************************************************************)
EXTENDS SlotWork, WorkCoordinatorProofs

\* An answer of peek_unread is a sequence of mailbox rows.
LEMMA UnreadListsType ==
    ASSUME NEW s \in Slots, NEW unread \in UnreadLists(s)
    PROVE  unread \in Seq(Messages)
<1>1. PICK R \in SUBSET Messages : unread \in Orders(R)
  BY DEF UnreadLists
<1>2. IsFiniteSet(R) /\ Cardinality(R) \in Nat
  BY ConstantsAssumption, FS_Subset, FS_CardinalityType
<1>3. unread \in Seq(R)
  BY <1>1, <1>2, OrdersElems
<1> QED BY <1>3

\* The client's part of TypeOK.
ClientTypeOK ==
    /\ issued \subseteq Batch
    /\ settling \in [Slots -> SUBSET Works]
    /\ arrivals \in Seq(Works)

\* A handle's operation id is one the counter has passed.
IssuedBefore == \A b \in issued : b.slot \in Slots /\ b.op \in 1..nextOp

\* An operation id stands for one batch, and an active batch has been handed out.
HandlesAreUnique ==
    /\ \A b, c \in issued : b.op = c.op => b = c
    /\ \A s \in Slots : active[s] # NoBatch => active[s] \in issued /\ active[s].slot = s

\* The inductive invariant.  Ownership alone is not inductive: an operation with a
\* late handle would act on somebody else's batch, were ids not unique and smaller
\* than the counter.
IInv == CoordinatorInv /\ ClientTypeOK /\ IssuedBefore /\ HandlesAreUnique

\* The step hands out no batch: each slot keeps its batch or loses it.
SettledOrKept ==
    /\ issued' = issued /\ nextOp' = nextOp
    /\ \A t \in Slots : active'[t] \in {active[t], NoBatch}

\* Nothing is asked for, waiting, claimed or handed out at first.
LEMMA InitIInv == SlotWorkInit => IInv
<1> SUFFICES ASSUME SlotWorkInit PROVE IInv
  OBVIOUS
<1> USE DEF SlotWorkInit, Init
<1>1. EmptyQueues \in [Priorities -> Seq(Works)] /\ \A x \in Priorities : Elems(EmptyQueues[x]) = {}
  BY EmptySeq DEF EmptyQueues, Elems
<1>2. CoordinatorTypeOK
  BY <1>1, NoBatchType, ConstantsAssumption
     DEF CoordinatorTypeOK, Phases, Blank, Item, WorkSource, Constraints
<1>3. Assigned /\ IdleSlotsHaveNotStarted /\ Ownership
  BY <1>1, NoBatchType DEF Assigned, IdleSlotsHaveNotStarted, Ownership,
                           QueuedWorkIsInItsDeque, ClaimedWorkIsInItsBatch
<1>4. ClientTypeOK /\ IssuedBefore /\ HandlesAreUnique
  BY EmptySeq DEF ClientTypeOK, IssuedBefore, HandlesAreUnique
<1> QED BY <1>2, <1>3, <1>4 DEF IInv, CoordinatorInv

\* Handles stay unique in a step that hands out no batch.
LEMMA HandlesKept ==
    ASSUME IInv, SettledOrKept
    PROVE  IssuedBefore' /\ HandlesAreUnique'
<1>1. IssuedBefore'
  BY DEF IInv, IssuedBefore, SettledOrKept
<1>2. HandlesAreUnique'
  <2>1. \A s \in Slots : active'[s] # NoBatch => active'[s] = active[s]
    BY DEF SettledOrKept
  <2> QED BY <2>1 DEF IInv, HandlesAreUnique, SettledOrKept
<1> QED BY <1>1, <1>2

\* Of what is_current_batch compares the model has the operation ids, and they are
\* enough: a handle that passes it is the very batch its slot works on.
LEMMA CurrentHandle ==
    ASSUME IInv, NEW b \in issued, IsCurrent(b)
    PROVE  b.slot \in Slots /\ b = active[b.slot] /\ b # NoBatch
<1>1. b.slot \in Slots /\ b.op \in 1..nextOp /\ nextOp \in Nat
  BY DEF IInv, IssuedBefore, CoordinatorInv, CoordinatorTypeOK
<1>2. active[b.slot].op = b.op /\ b.op # 0 /\ NoBatch.op = 0
  BY <1>1 DEF IsCurrent, NoBatch
<1>3. active[b.slot] \in issued
  BY <1>1, <1>2 DEF IInv, HandlesAreUnique
<1> QED BY <1>1, <1>2, <1>3 DEF IInv, HandlesAreUnique

\* The history is a sequence of works: newly queued work has a deque to be read
\* from.
LEMMA ArrivalsType ==
    ASSUME IInv, CoordinatorInv', RecordArrivals
    PROVE  arrivals' \in Seq(Works)
<1> DEFINE ended == {w \in Works : phase'[w] \in Terminal}
           new == {w \in Works : phase[w] \in {"absent", "leased"} /\ phase'[w] = "queued"}
           w0 == CHOOSE w \in new : TRUE
           deque == queue'[item'[w0].slot][Priority(item'[w0].source)]
<1>1. Without(arrivals, ended) \in Seq(Works)
  BY WithoutElems DEF IInv, ClientTypeOK
<1>2. CASE new = {}
  <2>1. arrivals' = Without(arrivals, ended) \o <<>>
    BY <1>2 DEF RecordArrivals
  <2> HIDE DEF ended
  <2> QED BY <1>1, <2>1
<1>3. CASE new # {}
  <2>1. w0 \in Works /\ phase'[w0] = "queued"
    BY <1>3
  <2>2. arrivals' = Without(arrivals, ended) \o Only(deque, new)
    BY <1>3 DEF RecordArrivals
  <2> HIDE DEF w0
  <2>3. deque \in Seq(Works)
    BY <2>1, PriorityType DEF CoordinatorInv, CoordinatorTypeOK, Ownership, QueuedWorkIsInItsDeque
  <2> HIDE DEF deque, new, ended
  <2>4. Only(deque, new) \in Seq(Works)
    BY <2>3, OnlyElems
  <2> QED BY <1>1, <2>2, <2>4
<1> QED BY <1>2, <1>3

\* Every step preserves the inductive invariant.
LEMMA NextIInv == IInv /\ [Next]_vars => IInv'
<1> SUFFICES ASSUME IInv, [Next]_vars PROVE IInv'
  OBVIOUS
<1>1. CoordinatorInv /\ ClientTypeOK
  BY DEF IInv
<1>2. CASE Next
  <2>1. RecordArrivals
    BY <1>2 DEF Next
  <2>2. SUFFICES CoordinatorInv' /\ issued' \subseteq Batch
                 /\ settling' \in [Slots -> SUBSET Works]
                 /\ IssuedBefore' /\ HandlesAreUnique'
    BY <2>1, ArrivalsType DEF IInv, ClientTypeOK
  <2>3. CASE Enqueue
    <3>1. SettledOrKept /\ settling' = settling
      BY <2>3 DEF Enqueue, AcquireEnqueue, CommitEnqueue, AbortEnqueue, SettledOrKept
    <3>2. CoordinatorInv'
      BY <1>1, <2>3, AcquirePreserves, CommitPreserves, AbortPreserves, ClientAssumption DEF Enqueue
    <3> QED BY <1>1, <3>1, <3>2, HandlesKept DEF ClientTypeOK, SettledOrKept
  <2>4. ASSUME NEW s \in Slots, Reconcile(s)
        PROVE  CoordinatorInv' /\ issued' \subseteq Batch
               /\ settling' \in [Slots -> SUBSET Works]
               /\ IssuedBefore' /\ HandlesAreUnique'
    <3>1. PICK unread \in UnreadLists(s) : ReconcileMailbox(s, unread)
      BY <2>4 DEF Reconcile
    <3>2. SettledOrKept /\ settling' = settling
      BY <2>4, <3>1 DEF Reconcile, ReconcileMailbox, SettledOrKept
    <3>3. CoordinatorInv'
      BY <1>1, <3>1, UnreadListsType, ReconcilePreserves
    <3> QED BY <1>1, <3>2, <3>3, HandlesKept DEF ClientTypeOK, SettledOrKept
  <2>5. ASSUME NEW s \in Slots, ClaimNext(s)
        PROVE  CoordinatorInv' /\ issued' \subseteq Batch
               /\ settling' \in [Slots -> SUBSET Works]
               /\ IssuedBefore' /\ HandlesAreUnique'
    <3> DEFINE b == ClaimedBatch(s)
    <3>1. Claim(s) /\ issued' = issued \cup {b} /\ settling' = settling
      BY <2>5 DEF ClaimNext
    <3>2. CoordinatorInv' /\ b \in Batch
      BY <1>1, <3>1, ClaimPreserves
    <3>3. /\ b.slot = s /\ b.op = nextOp + 1 /\ nextOp' = nextOp + 1 /\ nextOp \in Nat
          /\ \A t \in Slots : active'[t] = IF t = s THEN b ELSE active[t]
      BY <1>1, <3>1 DEF Claim, ClaimedBatch, NextOperation, CoordinatorInv, CoordinatorTypeOK
    <3> HIDE DEF b
    <3>4. \A c \in issued : c.slot \in Slots /\ c.op \in 1..nextOp
      BY DEF IInv, IssuedBefore
    <3>5. IssuedBefore'
      BY <3>1, <3>3, <3>4 DEF IssuedBefore
    <3>6. HandlesAreUnique'
      BY <3>1, <3>3, <3>4 DEF IInv, HandlesAreUnique
    <3> QED BY <1>1, <3>1, <3>2, <3>5, <3>6 DEF ClientTypeOK
  <2>6. ASSUME NEW s \in Slots, ObserveSignals(s)
        PROVE  CoordinatorInv' /\ issued' \subseteq Batch
               /\ settling' \in [Slots -> SUBSET Works]
               /\ IssuedBefore' /\ HandlesAreUnique'
    <3>1. SettledOrKept
      BY <2>6 DEF ObserveSignals, SettledOrKept, coordinatorVars
    <3>2. CoordinatorInv'
      BY <1>1, <2>6 DEF ObserveSignals, coordinatorVars, CoordinatorInv, CoordinatorTypeOK,
           Assigned, IdleSlotsHaveNotStarted, Ownership, QueuedWorkIsInItsDeque,
           ClaimedWorkIsInItsBatch
    <3>3. SignalsToSettle(s) \subseteq Works
      <4>1. SelectedPriority(s) \in Priorities
        BY DEF SelectedPriority, Priorities
      <4> QED BY <1>1, <4>1, InvFacts DEF SignalsToSettle
    <3> QED BY <1>1, <2>6, <3>1, <3>2, <3>3, HandlesKept
            DEF ClientTypeOK, SettledOrKept, ObserveSignals
  <2>7. ASSUME NEW s \in Slots, SettleSignals(s)
        PROVE  CoordinatorInv' /\ issued' \subseteq Batch
               /\ settling' \in [Slots -> SUBSET Works]
               /\ IssuedBefore' /\ HandlesAreUnique'
    <3>1. SettledOrKept
      BY <2>7 DEF SettleSignals, CompleteSignals, SettledOrKept
    <3>2. CoordinatorInv'
      BY <1>1, <2>7, CompleteSignalsPreserves DEF SettleSignals
    <3> QED BY <1>1, <2>7, <3>1, <3>2, HandlesKept DEF ClientTypeOK, SettledOrKept, SettleSignals
  <2>8. ASSUME NEW b \in issued, Report(b)
        PROVE  CoordinatorInv' /\ issued' \subseteq Batch
               /\ settling' \in [Slots -> SUBSET Works]
               /\ IssuedBefore' /\ HandlesAreUnique'
    <3>1. b.slot \in Slots /\ b = active[b.slot] /\ b # NoBatch
      BY <2>8, CurrentHandle DEF Report, MarkStarted, RetryStart, TerminalizeBatch
    <3>2. SettledOrKept /\ settling' = settling
      BY <1>1, <2>8 DEF Report, MarkStarted, RetryStart, TerminalizeBatch, SettledOrKept,
                        CoordinatorInv, CoordinatorTypeOK
    <3>3. CoordinatorInv'
      BY <1>1, <2>8, <3>1, MarkStartedPreserves, RetryStartPreserves, TerminalizePreserves
         DEF Report
    <3> QED BY <1>1, <3>2, <3>3, HandlesKept DEF ClientTypeOK, SettledOrKept
  <2>9. CASE Interrupt
    <3>1. SettledOrKept /\ settling' = settling
      BY <1>1, <2>9 DEF Interrupt, CancelRun, PauseSlot, SetRuntimeConstraint, AllowRuntime,
           LoseRuntime, RemoveSlot, Stop, SettledOrKept, CoordinatorInv, CoordinatorTypeOK
    <3>2. CoordinatorInv'
      BY <1>1, <2>9, CancelRunPreserves, PauseSlotPreserves, AllowRuntimePreserves,
         LoseRuntimePreserves, RemoveSlotPreserves, StopPreserves
         DEF Interrupt, SetRuntimeConstraint
    <3> QED BY <1>1, <3>1, <3>2, HandlesKept DEF ClientTypeOK, SettledOrKept
  <2> QED BY <1>2, <2>3, <2>4, <2>5, <2>6, <2>7, <2>8, <2>9 DEF Next
<1>3. CASE UNCHANGED vars
  BY <1>1, <1>3 DEF vars, coordinatorVars, clientVars, IInv, CoordinatorInv, CoordinatorTypeOK,
       ClientTypeOK, Assigned, IdleSlotsHaveNotStarted, Ownership, QueuedWorkIsInItsDeque,
       ClaimedWorkIsInItsBatch, IssuedBefore, HandlesAreUnique
<1> QED BY <1>2, <1>3

\* The inductive invariant holds in every reachable state.
LEMMA SpecIInv == Spec => []IInv
  BY InitIInv, NextIInv, PTL DEF Spec

\* The state of the coordinator and of its client is well typed, for all slots,
\* works, messages and runs: in particular every work item a deque or a batch names
\* exists, and the operation counter never passes its bound.
THEOREM TypeOKHolds == Spec => []TypeOK
<1>1. IInv => TypeOK
  BY DEF IInv, CoordinatorInv, CoordinatorTypeOK, ClientTypeOK, TypeOK
<1> QED BY <1>1, SpecIInv, PTL

\* Every queued intent is in the deque of its slot and priority, and the deques
\* hold nothing else, whatever callers, interruptions, lost runtimes and late
\* reports do: no waiting work is lost, and no entry outlives its intent
\* (coordinator.rs keeps intents and deques in separate collections).
THEOREM QueuedWorkHolds == Spec => []QueuedWorkIsInItsDeque
<1>1. IInv => QueuedWorkIsInItsDeque
  BY DEF IInv, CoordinatorInv, Ownership
<1> QED BY <1>1, SpecIInv, PTL

\* Every starting or running intent is in the active batch of its slot, whose
\* members are of one slot and priority and start together: claimed work always
\* has a batch whose report, or whose interruption, will move it on.
THEOREM ClaimedWorkHolds == Spec => []ClaimedWorkIsInItsBatch
<1>1. IInv => ClaimedWorkIsInItsBatch
  BY DEF IInv, CoordinatorInv, Ownership
<1> QED BY <1>1, SpecIInv, PTL

\* The step changes no work item that has ended.
EndedWorkKept ==
    \A w \in Works : phase[w] \in Terminal \cup {"released"} => phase'[w] = phase[w]

\* A move of live work leaves ended work alone.
LEMMA LiveWorkChanges ==
    ASSUME CoordinatorInv, NEW S, \A w \in S : phase[w] \in Live, NEW p, MoveTo(S, p)
    PROVE  EndedWorkKept
  BY DEF MoveTo, EndedWorkKept, Live, Terminal

\* Every operation moves work that is live, leased or not asked for yet: late
\* reports are no exception because the batch they name has been left by then.
LEMMA EndedWorkStep ==
    ASSUME IInv, Next
    PROVE  EndedWorkKept
<1>1. CoordinatorInv /\ CoordinatorTypeOK /\ ClaimedWorkIsInItsBatch /\ QueuedWorkIsInItsDeque
  BY InvFacts DEF IInv
<1>2. \A s \in Slots : \A w \in Elems(active[s].works) : phase[w] \in Live
  BY <1>1 DEF ClaimedWorkIsInItsBatch, Live
<1>3. CASE Enqueue
  BY <1>1, <1>3 DEF Enqueue, AcquireEnqueue, CommitEnqueue, CanCommit, AbortEnqueue,
                    EndedWorkKept, Terminal, CoordinatorTypeOK
<1>4. ASSUME NEW s \in Slots, Reconcile(s)
      PROVE  EndedWorkKept
  <2>1. PICK unread \in UnreadLists(s) : ReconcileMailbox(s, unread)
    BY <1>4 DEF Reconcile
  <2>2. PICK drains \in FreshWorks(Len(Orphans(s, unread))) :
           phase' = [w \in Works |-> IF w \in Stale(s, unread) THEN "completed"
                                     ELSE IF w \in Elems(drains) THEN "queued"
                                     ELSE phase[w]]
    BY <2>1 DEF ReconcileMailbox
  <2>3. Orphans(s, unread) \in Seq(Messages)
    BY UnreadListsType, WithoutElems DEF Orphans
  <2>4. \A w \in Elems(drains) : phase[w] = "absent"
    BY <2>3 DEF FreshWorks, Elems
  <2>5. \A w \in Stale(s, unread) : phase[w] = "queued"
    BY DEF Stale, OfSlot
  <2> QED BY <2>2, <2>4, <2>5 DEF EndedWorkKept, Terminal
<1>5. ASSUME NEW s \in Slots, ClaimNext(s)
      PROVE  EndedWorkKept
  <2> DEFINE taken == Elems(LeadingWorks(MessageWorks(s)))
  <2>1. MoveTo(taken, "starting") /\ MessageWorks(s) # <<>>
    BY <1>5 DEF ClaimNext, Claim, ClaimedBatch
  <2>2. SelectedPriority(s) \in Priorities
    BY DEF SelectedPriority, Priorities
  <2>3. queue[s][SelectedPriority(s)] \in Seq(Works)
    BY <1>1, <2>2 DEF CoordinatorTypeOK
  <2>4. /\ MessageWorks(s) \in Seq(Works)
        /\ Elems(MessageWorks(s)) = Elems(queue[s][SelectedPriority(s)]) \ Signals
    BY <2>3, WithoutElems DEF MessageWorks
  <2>5. taken \subseteq Elems(MessageWorks(s))
    BY <2>1, <2>4, LeadingWorksElems
  <2>6. \A w \in taken : phase[w] \in Live
    BY <1>1, <2>2, <2>4, <2>5 DEF QueuedWorkIsInItsDeque, Live
  <2> QED BY <1>1, <2>1, <2>6, LiveWorkChanges
<1>6. ASSUME NEW s \in Slots, ObserveSignals(s)
      PROVE  EndedWorkKept
  BY <1>6 DEF ObserveSignals, coordinatorVars, EndedWorkKept
<1>7. ASSUME NEW s \in Slots, SettleSignals(s)
      PROVE  EndedWorkKept
  <2>1. /\ MoveTo(settling[s], "completed")
        /\ \A w \in settling[s] : phase[w] \in Live
    BY <1>7 DEF SettleSignals, CompleteSignals, OfSlot, Live
  <2> QED BY <1>1, <2>1, LiveWorkChanges
<1>8. ASSUME NEW b \in issued, Report(b)
      PROVE  EndedWorkKept
  <2>1. b.slot \in Slots /\ b = active[b.slot]
    BY <1>8, CurrentHandle DEF Report, MarkStarted, RetryStart, TerminalizeBatch
  <2>2. \E p : MoveTo(Elems(b.works), p)
    BY <1>8 DEF Report, MarkStarted, RetryStart, TerminalizeBatch
  <2>3. \A w \in Elems(b.works) : phase[w] \in Live
    BY <1>2, <2>1
  <2> QED BY <1>1, <2>2, <2>3, LiveWorkChanges
<1>9. CASE Interrupt
  <2>1. ASSUME NEW r \in Runs, CancelRun(r)
        PROVE  EndedWorkKept
    <3>1. \A w \in ClaimedWorks(r) : phase[w] \in Live
      BY <1>1, <1>2 DEF ClaimedWorks, CancelledSlots, CoordinatorTypeOK
    <3>2. \A w \in CancelledWorks(r) : phase[w] \in Live
      BY <3>1 DEF CancelledWorks, OfRun, Live
    <3>3. \A w \in RetainedWorks(r) : phase[w] \in Live
      BY <3>1 DEF RetainedWorks
    <3>4. \A w \in OfRun(r, {"leased"}) : phase[w] = "leased"
      BY DEF OfRun
    <3>5. \A w \in Works :
             \/ w \in CancelledWorks(r) \cup RetainedWorks(r) \cup OfRun(r, {"leased"})
             \/ phase'[w] = phase[w]
      BY <2>1 DEF CancelRun
    <3> QED BY <3>2, <3>3, <3>4, <3>5 DEF EndedWorkKept, Live, Terminal
  <2>2. ASSUME NEW s \in Slots, PauseSlot(s)
        PROVE  EndedWorkKept
    BY <2>2 DEF PauseSlot, EndedWorkKept
  <2>3. ASSUME NEW s \in Slots, NEW c \in RuntimeStates, SetRuntimeConstraint(s, c)
        PROVE  EndedWorkKept
    BY <2>3 DEF SetRuntimeConstraint, AllowRuntime, LoseRuntime, SurvivingWorks, OfSlot,
                EndedWorkKept, Live, Terminal
  <2>4. ASSUME NEW s \in Slots, RemoveSlot(s)
        PROVE  EndedWorkKept
    <3>1. \A w \in OfSlot(s, Live) : phase[w] \in Live
      BY DEF OfSlot
    <3> QED BY <1>1, <2>4, <3>1, LiveWorkChanges DEF RemoveSlot
  <2>5. CASE Stop
    BY <2>5 DEF Stop, EndedWorkKept, Live, Terminal
  <2> QED BY <1>9, <2>1, <2>2, <2>3, <2>4, <2>5 DEF Interrupt
<1> QED BY <1>3, <1>4, <1>5, <1>6, <1>7, <1>8, <1>9 DEF Next

\* Work that has ended, or whose lease was released, keeps the outcome it ended
\* with: no late report, requeue, cancellation or removal changes it.
THEOREM EndedWorkStaysEndedHolds == Spec => EndedWorkStaysEnded
<1>1. IInv /\ [Next]_vars =>
        [\A w \in Works : phase[w] \in Terminal \cup {"released"} => phase'[w] = phase[w]]_vars
  BY EndedWorkStep DEF EndedWorkKept
<1> QED BY <1>1, SpecIInv, PTL DEF Spec, EndedWorkStaysEnded

-----------------------------------------------------------------------------
(* Duplicates.                                                             *)

\* An empty deque lists nothing twice.
LEMMA NothingTwice == Distinct(<<>>) /\ Distinct(NoBatch.works)
  BY DEF Distinct, NoBatch

\* The parts of ListedOnce, with the types of the deques and batches.
LEMMA ListedFacts ==
    ASSUME CoordinatorInv, ListedOnce
    PROVE  /\ \A t \in Slots : active[t].works \in Seq(Works) /\ Distinct(active[t].works)
           /\ \A t \in Slots, x \in Priorities :
                 queue[t][x] \in Seq(Works) /\ Distinct(queue[t][x])
  BY InvFacts DEF ListedOnce

\* A leased item is in no deque: appending it lists nothing twice.
LEMMA CommitListedOnce ==
    ASSUME CoordinatorInv, ListedOnce, NEW w \in Works, NEW m, CommitEnqueue(w, m)
    PROVE  ListedOnce'
<1> DEFINE s == item[w].slot
           p == Priority(item[w].source)
<1>1. CoordinatorTypeOK /\ Assigned /\ QueuedWorkIsInItsDeque
  BY InvFacts
<1>2. phase[w] = "leased" /\ s \in Slots /\ p \in Priorities
  BY <1>1, PriorityType DEF Assigned, CommitEnqueue, CanCommit
<1>3. w \notin Elems(queue[s][p])
  BY <1>1, <1>2 DEF QueuedWorkIsInItsDeque
<1>4. Distinct(Append(queue[s][p], w))
  BY <1>2, <1>3, ListedFacts, AppendDistinct
<1>5. \A t \in Slots, x \in Priorities :
         queue'[t][x] = IF t = s /\ x = p THEN Append(queue[t][x], w) ELSE queue[t][x]
  BY <1>1, <1>2 DEF CommitEnqueue, CoordinatorTypeOK
<1> HIDE DEF s, p
<1>6. \A t \in Slots, x \in Priorities : Distinct(queue'[t][x])
  BY <1>4, <1>5, ListedFacts
<1>7. active' = active
  BY DEF CommitEnqueue
<1> QED BY <1>6, <1>7, ListedFacts DEF ListedOnce

\* The drains have fresh identities: the background deque holds none of them.
LEMMA ReconcileListedOnce ==
    ASSUME CoordinatorInv, ListedOnce, NEW s \in Slots, NEW unread \in Seq(Messages),
           ReconcileMailbox(s, unread)
    PROVE  ListedOnce'
<1> DEFINE stale == Stale(s, unread)
           orphans == Orphans(s, unread)
<1>1. CoordinatorTypeOK /\ QueuedWorkIsInItsDeque
  BY InvFacts
<1>2. orphans \in Seq(Messages)
  BY WithoutElems DEF Orphans
<1>3. PICK drains \in FreshWorks(Len(orphans)) :
         /\ queue' = [queue EXCEPT ![s] =
                        [p \in Priorities |->
                           IF p = "background" THEN Without(queue[s][p], stale) \o drains
                           ELSE Without(queue[s][p], stale)]]
         /\ active' = active
  BY <1>1 DEF ReconcileMailbox, CoordinatorTypeOK
<1>4. /\ drains \in Seq(Works) /\ Distinct(drains)
      /\ \A w \in Elems(drains) : phase[w] = "absent"
  BY <1>2 DEF FreshWorks, Elems
<1> HIDE DEF stale, orphans
<1>5. \A x \in Priorities : /\ Without(queue[s][x], stale) \in Seq(Works)
                            /\ Distinct(Without(queue[s][x], stale))
                            /\ Elems(Without(queue[s][x], stale)) \subseteq Elems(queue[s][x])
  BY ListedFacts, WithoutDistinct, WithoutElems
<1>6. "background" \in Priorities
  BY DEF Priorities
<1> DEFINE kept == Without(queue[s]["background"], stale)
<1>7. /\ kept \in Seq(Works) /\ Distinct(kept)
      /\ \A w \in Elems(kept) : phase[w] = "queued"
  BY <1>1, <1>5, <1>6 DEF QueuedWorkIsInItsDeque
<1> HIDE DEF kept
<1>8. Distinct(kept \o drains)
  BY <1>4, <1>7, ConcatDistinct
<1>9. \A t \in Slots, x \in Priorities :
         queue'[t][x] = IF t # s THEN queue[t][x]
                        ELSE IF x = "background" THEN kept \o drains
                        ELSE Without(queue[s][x], stale)
  BY <1>1, <1>3 DEF CoordinatorTypeOK, kept
<1>10. \A t \in Slots, x \in Priorities : Distinct(queue'[t][x])
  BY <1>5, <1>8, <1>9, ListedFacts
<1> QED BY <1>3, <1>10, ListedFacts DEF ListedOnce

\* What is claimed is a prefix of what is left of a deque.
LEMMA ClaimListedOnce ==
    ASSUME CoordinatorInv, ListedOnce, NEW s \in Slots, Claim(s)
    PROVE  ListedOnce'
<1> DEFINE b == ClaimedBatch(s)
           p == SelectedPriority(s)
           taken == Elems(b.works)
           q == MessageWorks(s)
<1>1. CoordinatorTypeOK
  BY InvFacts
<1>2. p \in Priorities
  BY DEF SelectedPriority, Priorities
<1>3. q \in Seq(Works) /\ q # <<>> /\ Distinct(q)
  BY <1>2, ListedFacts, WithoutElems, WithoutDistinct DEF MessageWorks, Claim
<1>4. b.works = LeadingWorks(q)
  BY DEF ClaimedBatch
<1>5. Distinct(b.works)
  <2> HIDE DEF b, q
  <2>1. PICK n \in 1..Len(q) : LeadingWorks(q) = SubSeq(q, 1, n)
    BY <1>3, LeadingWorksPrefix
  <2> QED BY <1>3, <1>4, <2>1, PrefixDistinct
<1>6. /\ \A t \in Slots : active'[t] = IF t = s THEN b ELSE active[t]
      /\ \A t \in Slots, x \in Priorities :
            queue'[t][x] = IF t = s THEN Without(queue[s][x], taken) ELSE queue[t][x]
  BY <1>1 DEF Claim, CoordinatorTypeOK
<1> HIDE DEF b, taken
<1>7. \A x \in Priorities : Distinct(Without(queue[s][x], taken))
  BY ListedFacts, WithoutDistinct
<1>8. \A t \in Slots, x \in Priorities : Distinct(queue'[t][x])
  BY <1>6, <1>7, ListedFacts
<1> QED BY <1>5, <1>6, <1>8, ListedFacts DEF ListedOnce

\* A batch that goes back to its deque meets queued work only.
LEMMA RetryListedOnce ==
    ASSUME CoordinatorInv, ListedOnce, NEW b, b.slot \in Slots, b = active[b.slot],
           RetryStart(b)
    PROVE  ListedOnce'
<1> DEFINE s == b.slot
           p == b.priority
<1>1. CoordinatorTypeOK /\ QueuedWorkIsInItsDeque /\ p \in Priorities
  BY InvFacts DEF CoordinatorTypeOK, Batch
<1>2. /\ b.works \in Seq(Works) /\ Distinct(b.works)
      /\ queue[s][p] \in Seq(Works) /\ Distinct(queue[s][p])
  BY <1>1, ListedFacts
<1>3. Elems(b.works) \cap Elems(queue[s][p]) = {}
  BY <1>1, ClaimedFacts DEF QueuedWorkIsInItsDeque
<1>4. Distinct(Requeued(b))
  BY <1>2, <1>3, ConcatDistinct DEF Requeued
<1>5. /\ \A t \in Slots : active'[t] = IF t = s THEN NoBatch ELSE active[t]
      /\ \A t \in Slots, x \in Priorities :
            queue'[t][x] = IF t = s /\ x = p THEN Requeued(b) ELSE queue[t][x]
  BY <1>1 DEF RetryStart, CoordinatorTypeOK
<1> QED BY <1>4, <1>5, ListedFacts, NothingTwice DEF ListedOnce

\* Settled signals leave the deques.
LEMMA CompleteSignalsListedOnce ==
    ASSUME CoordinatorInv, ListedOnce, NEW s \in Slots, NEW S, CompleteSignals(s, S)
    PROVE  ListedOnce'
<1>1. CoordinatorTypeOK
  BY InvFacts
<1>2. /\ active' = active
      /\ \A t \in Slots, x \in Priorities :
            queue'[t][x] = IF t = s THEN Without(queue[t][x], S) ELSE queue[t][x]
  BY <1>1 DEF CompleteSignals, CoordinatorTypeOK
<1>3. \A x \in Priorities : Distinct(Without(queue[s][x], S))
  BY ListedFacts, WithoutDistinct
<1> QED BY <1>2, <1>3, ListedFacts DEF ListedOnce

\* Returned members of a cancelled batch meet queued work only, and each of them
\* returns to one deque.
LEMMA CancelRunListedOnce ==
    ASSUME CoordinatorInv, ListedOnce, NEW r \in Runs, CancelRun(r)
    PROVE  ListedOnce'
<1> DEFINE hit == CancelledSlots(r)
           cancelled == CancelledWorks(r)
           retained == RetainedWorks(r)
           Returned(t, x) == Only(active[t].works,
                                  {w \in retained : Priority(item[w].source) = x})
           Kept1(t, x) == Without(queue[t][x], cancelled)
<1>1. CoordinatorTypeOK /\ QueuedWorkIsInItsDeque
  BY InvFacts
<1>2. /\ \A t \in Slots : active'[t] = IF t \in hit THEN NoBatch ELSE active[t]
      /\ queue' = [t \in Slots |-> [x \in Priorities |->
                     IF t \in hit THEN Returned(t, x) \o Kept1(t, x) ELSE Kept1(t, x)]]
  BY Zenon DEF CancelRun
<1> HIDE DEF hit, cancelled, retained
<1>3. \A t \in Slots, x \in Priorities :
         /\ Returned(t, x) \in Seq(Works) /\ Distinct(Returned(t, x))
         /\ Elems(Returned(t, x)) \subseteq Elems(active[t].works)
  BY ListedFacts, OnlyElems, OnlyDistinct
<1>4. \A t \in Slots, x \in Priorities :
         /\ Kept1(t, x) \in Seq(Works) /\ Distinct(Kept1(t, x))
         /\ Elems(Kept1(t, x)) \subseteq Elems(queue[t][x])
  BY ListedFacts, WithoutElems, WithoutDistinct
<1> HIDE DEF Returned, Kept1
<1>5. \A t \in Slots, x \in Priorities : Elems(Returned(t, x)) \cap Elems(Kept1(t, x)) = {}
  BY <1>1, <1>3, <1>4, ClaimedFacts DEF QueuedWorkIsInItsDeque
<1>6. \A t \in Slots, x \in Priorities : Distinct(Returned(t, x) \o Kept1(t, x))
  BY <1>3, <1>4, <1>5, ConcatDistinct
<1>7. \A t \in Slots, x \in Priorities : Distinct(queue'[t][x])
  BY <1>2, <1>4, <1>6
<1> QED BY <1>2, <1>7, ListedFacts, NothingTwice DEF ListedOnce

\* Each survivor is queued again once.
LEMMA LoseRuntimeListedOnce ==
    ASSUME CoordinatorInv, ListedOnce, NEW s \in Slots, NEW c, LoseRuntime(s, c)
    PROVE  ListedOnce'
<1> DEFINE survivors == SurvivingWorks(s, c)
           OfPriority(x) == {w \in Works : Priority(item[w].source) = x}
<1>1. CoordinatorTypeOK
  BY InvFacts
<1>2. PICK order \in Orders(survivors) :
         queue' = [queue EXCEPT ![s] = [p \in Priorities |-> Only(order, OfPriority(p))]]
  BY DEF LoseRuntime
<1>3. survivors \subseteq Works /\ IsFiniteSet(survivors)
  BY FS_Subset, ConstantsAssumption DEF SurvivingWorks, OfSlot
<1>4. order \in Seq(Works) /\ Distinct(order)
  BY <1>3, OrdersElems, OrdersDistinct, FS_CardinalityType
<1>5. \A x \in Priorities : Distinct(Only(order, OfPriority(x)))
  BY <1>4, OnlyDistinct
<1>6. /\ \A t \in Slots : active'[t] = IF t = s THEN NoBatch ELSE active[t]
      /\ \A t \in Slots, x \in Priorities :
            queue'[t][x] = IF t = s THEN Only(order, OfPriority(x)) ELSE queue[t][x]
  BY <1>1, <1>2 DEF LoseRuntime, CoordinatorTypeOK
<1> QED BY <1>5, <1>6, ListedFacts, NothingTwice DEF ListedOnce

\* Every step lists everything at most once again.
LEMMA NextListedOnce ==
    ASSUME IInv, ListedOnce, Next
    PROVE  ListedOnce'
<1>1. CoordinatorInv /\ CoordinatorTypeOK
  BY InvFacts DEF IInv
<1>2. CASE Enqueue
  <2>1. CASE queue' = queue /\ active' = active
    BY <2>1 DEF ListedOnce
  <2> QED BY <1>1, <1>2, <2>1, CommitListedOnce DEF Enqueue, AcquireEnqueue, AbortEnqueue
<1>3. ASSUME NEW s \in Slots, Reconcile(s)
      PROVE  ListedOnce'
  BY <1>1, <1>3, UnreadListsType, ReconcileListedOnce DEF Reconcile
<1>4. ASSUME NEW s \in Slots, ClaimNext(s)
      PROVE  ListedOnce'
  BY <1>1, <1>4, ClaimListedOnce DEF ClaimNext
<1>5. ASSUME NEW s \in Slots, ObserveSignals(s)
      PROVE  ListedOnce'
  BY <1>5 DEF ObserveSignals, coordinatorVars, ListedOnce
<1>6. ASSUME NEW s \in Slots, SettleSignals(s)
      PROVE  ListedOnce'
  BY <1>1, <1>6, CompleteSignalsListedOnce DEF SettleSignals
<1>7. ASSUME NEW b \in issued, Report(b)
      PROVE  ListedOnce'
  <2>1. b.slot \in Slots /\ b = active[b.slot]
    BY <1>7, CurrentHandle DEF Report, MarkStarted, RetryStart, TerminalizeBatch
  <2>2. CASE MarkStarted(b)
    BY <2>2 DEF MarkStarted, ListedOnce
  <2>3. CASE RetryStart(b)
    BY <1>1, <2>1, <2>3, RetryListedOnce
  <2>4. ASSUME NEW end \in Terminal, TerminalizeBatch(b, end)
        PROVE  ListedOnce'
    BY <1>1, <2>4, NothingTwice DEF TerminalizeBatch, ListedOnce, CoordinatorTypeOK
  <2> QED BY <1>7, <2>2, <2>3, <2>4 DEF Report
<1>8. CASE Interrupt
  <2>1. ASSUME NEW s \in Slots, NEW c, SetRuntimeConstraint(s, c)
        PROVE  ListedOnce'
    <3>1. CASE AllowRuntime(s, c)
      BY <3>1 DEF AllowRuntime, ListedOnce
    <3> QED BY <1>1, <2>1, <3>1, LoseRuntimeListedOnce DEF SetRuntimeConstraint
  <2>2. ASSUME NEW s \in Slots, PauseSlot(s)
        PROVE  ListedOnce'
    BY <2>2 DEF PauseSlot, ListedOnce
  <2>3. ASSUME NEW s \in Slots, RemoveSlot(s)
        PROVE  ListedOnce'
    <3>1. /\ \A t \in Slots : active'[t] = IF t = s THEN NoBatch ELSE active[t]
          /\ \A t \in Slots, x \in Priorities :
                queue'[t][x] = IF t = s THEN <<>> ELSE queue[t][x]
      BY <1>1, <2>3 DEF RemoveSlot, CoordinatorTypeOK, EmptyQueues
    <3> QED BY <3>1, NothingTwice DEF ListedOnce
  <2>4. CASE Stop
    <3>1. /\ \A t \in Slots : active'[t] = NoBatch
          /\ \A t \in Slots, x \in Priorities : queue'[t][x] = <<>>
      BY <2>4 DEF Stop, EmptyQueues
    <3> QED BY <3>1, NothingTwice DEF ListedOnce
  <2> QED BY <1>1, <1>8, <2>1, <2>2, <2>3, <2>4, CancelRunListedOnce DEF Interrupt
<1> QED BY <1>2, <1>3, <1>4, <1>5, <1>6, <1>7, <1>8 DEF Next

\* No deque and no batch ever lists a work item twice, whatever is claimed,
\* requeued, cancelled or queued again after a failure (coordinator.rs appends to
\* the deques and pushes to their fronts without looking for duplicates).
THEOREM ListedOnceHolds == Spec => []ListedOnce
<1>1. SlotWorkInit => ListedOnce
  BY NothingTwice DEF SlotWorkInit, Init, EmptyQueues, ListedOnce
<1>2. IInv /\ ListedOnce /\ [Next]_vars => ListedOnce'
  <2>1. IInv /\ ListedOnce /\ UNCHANGED vars => ListedOnce'
    BY DEF vars, coordinatorVars, ListedOnce
  <2> QED BY <2>1, NextListedOnce
<1> QED BY <1>1, <1>2, SpecIInv, PTL DEF Spec
-----------------------------------------------------------------------------
(* Attributes, slash commands and exact cancellations.                     *)

\* A work item that somebody asked for stays asked for, with its slot, source and
\* run; once it is past its lease its mailbox row is settled too.
AttributesKept ==
    \A w \in Works : phase[w] # "absent" =>
        /\ phase'[w] # "absent"
        /\ item'[w].slot = item[w].slot
        /\ item'[w].source = item[w].source
        /\ item'[w].run = item[w].run
        /\ phase[w] # "leased" => item'[w].message = item[w].message

\* Only an enqueue and a reconciliation write attributes, of items that are absent
\* or leased.
LEMMA AttributesStep ==
    ASSUME IInv, Next
    PROVE  AttributesKept
<1>1. CoordinatorInv /\ CoordinatorTypeOK /\ ClientTypeOK
  BY InvFacts DEF IInv
<1>2. ASSUME item' = item, \A w \in Works : phase[w] # "absent" => phase'[w] # "absent"
      PROVE  AttributesKept
  BY <1>2 DEF AttributesKept
<1>3. ASSUME item' = item, NEW S, NEW p, p # "absent", MoveTo(S, p)
      PROVE  AttributesKept
  BY <1>2, <1>3 DEF MoveTo
<1>4. CASE Enqueue
  <2>1. ASSUME NEW w \in Works, NEW m, CommitEnqueue(w, m)
        PROVE  AttributesKept
    BY <1>1, <2>1 DEF CommitEnqueue, CanCommit, AttributesKept, CoordinatorTypeOK, Item
  <2>2. ASSUME NEW w \in Works, NEW s \in Slots, NEW source, NEW r,
               AcquireEnqueue(w, s, source, r)
        PROVE  AttributesKept
    BY <1>1, <2>2 DEF AcquireEnqueue, AttributesKept, CoordinatorTypeOK
  <2>3. ASSUME NEW w \in Works, AbortEnqueue(w)
        PROVE  AttributesKept
    BY <1>1, <2>3 DEF AbortEnqueue, AttributesKept, CoordinatorTypeOK
  <2> QED BY <1>4, <2>1, <2>2, <2>3 DEF Enqueue
<1>5. ASSUME NEW s \in Slots, Reconcile(s)
      PROVE  AttributesKept
  <2>1. PICK unread \in UnreadLists(s) : ReconcileMailbox(s, unread)
    BY <1>5 DEF Reconcile
  <2>2. Orphans(s, unread) \in Seq(Messages)
    BY UnreadListsType, WithoutElems DEF Orphans
  <2>3. PICK drains \in FreshWorks(Len(Orphans(s, unread))) :
           /\ \A w \in Works : phase'[w] = IF w \in Stale(s, unread) THEN "completed"
                                           ELSE IF w \in Elems(drains) THEN "queued"
                                           ELSE phase[w]
           /\ \A w \in Works : w \notin Elems(drains) => item'[w] = item[w]
    BY <2>1 DEF ReconcileMailbox
  <2>4. \A w \in Elems(drains) : phase[w] = "absent"
    BY <2>2 DEF FreshWorks, Elems
  <2> QED BY <2>3, <2>4 DEF AttributesKept
<1>6. ASSUME NEW s \in Slots, ClaimNext(s)
      PROVE  AttributesKept
  BY <1>3, <1>6 DEF ClaimNext, Claim
<1>7. ASSUME NEW s \in Slots, ObserveSignals(s) \/ SettleSignals(s)
      PROVE  AttributesKept
  <2>1. CASE ObserveSignals(s)
    BY <2>1 DEF ObserveSignals, coordinatorVars, AttributesKept
  <2>2. CASE SettleSignals(s)
    BY <1>3, <2>2 DEF SettleSignals, CompleteSignals
  <2> QED BY <1>7, <2>1, <2>2
<1>8. ASSUME NEW b \in issued, Report(b)
      PROVE  AttributesKept
  <2>1. item' = item /\ \E p \in Phases \ {"absent"} : MoveTo(Elems(b.works), p)
    BY <1>8 DEF Report, MarkStarted, RetryStart, TerminalizeBatch, Phases, Live, Terminal
  <2> QED BY <1>3, <2>1
<1>9. CASE Interrupt
  <2>1. item' = item
    BY <1>9 DEF Interrupt, CancelRun, PauseSlot, SetRuntimeConstraint, AllowRuntime, LoseRuntime,
                RemoveSlot, Stop
  <2>2. \A w \in Works : phase[w] # "absent" => phase'[w] # "absent"
    BY <1>9 DEF Interrupt, CancelRun, PauseSlot, SetRuntimeConstraint, AllowRuntime, LoseRuntime,
                RemoveSlot, Stop, MoveTo
  <2> QED BY <1>2, <2>1, <2>2
<1> QED BY <1>4, <1>5, <1>6, <1>7, <1>8, <1>9 DEF Next

\* The members of every batch that was handed out are works that were asked for.
IssuedWorksExist ==
    \A b \in issued : \A w \in Elems(b.works) : w \in Works /\ phase[w] # "absent"

\* CommandsRunAlone and what it depends on.
BatchInv == IssuedWorksExist /\ CommandsRunAlone /\ BusySlotsExist

\* A batch is claimed from a slot that exists, for works that wait there, and with
\* a command alone if at all.
LEMMA ClaimedBatchIsGood ==
    ASSUME IInv, NEW s \in Slots, Claim(s)
    PROVE  /\ Elems(ClaimedBatch(s).works) \subseteq Works
           /\ \A w \in Elems(ClaimedBatch(s).works) : phase[w] # "absent"
           /\ Elems(ClaimedBatch(s).works) \cap Commands # {} => Len(ClaimedBatch(s).works) = 1
           /\ s \in slots
<1> DEFINE q == MessageWorks(s)
           p == SelectedPriority(s)
<1>1. /\ QueuedWorkIsInItsDeque
      /\ \A t \in Slots, x \in Priorities :
            queue[t][x] \in Seq(Works) /\ Elems(queue[t][x]) \subseteq Works
  BY InvFacts DEF IInv
<1>2. p \in Priorities
  BY DEF SelectedPriority, Priorities
<1>3. q \in Seq(Works) /\ q # <<>> /\ Elems(q) \subseteq Elems(queue[s][p])
  BY <1>1, <1>2, WithoutElems DEF MessageWorks, Claim
<1>4. ClaimedBatch(s).works = LeadingWorks(q)
  BY DEF ClaimedBatch
<1> HIDE DEF q, p
<1>5. PICK n \in 1..Len(q) : /\ LeadingWorks(q) = SubSeq(q, 1, n)
                             /\ n = 1 \/ \A i \in 1..n : q[i] \notin Commands
  BY <1>3, LeadingWorksPrefix
<1>6. Len(q) \in Nat /\ n \in Nat /\ n <= Len(q)
  BY <1>3
<1>7. /\ Len(SubSeq(q, 1, n)) = n
      /\ \A i \in 1..n : SubSeq(q, 1, n)[i] = q[i]
  BY <1>3, <1>6
<1>8. Elems(LeadingWorks(q)) \cap Commands # {} => Len(LeadingWorks(q)) = 1
  BY <1>5, <1>7 DEF Elems
<1>9. Elems(LeadingWorks(q)) \subseteq Elems(queue[s][p])
  BY <1>3, LeadingWorksElems
<1> QED BY <1>1, <1>2, <1>4, <1>8, <1>9 DEF QueuedWorkIsInItsDeque, Claim, Selectable

\* Slots are never forgotten, and only a claim gives a slot a batch.
LEMMA BatchesStep ==
    ASSUME IInv, Next
    PROVE  /\ slots \subseteq slots'
           /\ \/ issued' = issued /\ \A t \in Slots : active'[t] \in {active[t], NoBatch}
              \/ \E s \in Slots : ClaimNext(s)
<1>1. CoordinatorTypeOK
  BY InvFacts DEF IInv
<1>2. CASE Enqueue
  BY <1>2 DEF Enqueue, AcquireEnqueue, CommitEnqueue, AbortEnqueue
<1>3. ASSUME NEW s \in Slots, Reconcile(s) \/ ObserveSignals(s) \/ SettleSignals(s)
      PROVE  slots \subseteq slots' /\ issued' = issued /\ active' = active
  <2>1. CASE Reconcile(s)
    BY <2>1 DEF Reconcile, ReconcileMailbox
  <2> QED BY <1>3, <2>1 DEF ObserveSignals, SettleSignals, CompleteSignals, coordinatorVars
<1>4. ASSUME NEW s \in Slots, ClaimNext(s)
      PROVE  slots \subseteq slots'
  BY <1>4 DEF ClaimNext, Claim
<1>5. ASSUME NEW b \in issued, Report(b)
      PROVE  /\ slots \subseteq slots' /\ issued' = issued
             /\ \A t \in Slots : active'[t] \in {active[t], NoBatch}
  BY <1>1, <1>5 DEF Report, MarkStarted, RetryStart, TerminalizeBatch, CoordinatorTypeOK
<1>6. CASE Interrupt
  BY <1>1, <1>6 DEF Interrupt, CancelRun, PauseSlot, SetRuntimeConstraint, AllowRuntime,
                    LoseRuntime, RemoveSlot, Stop, CoordinatorTypeOK
<1> QED BY <1>2, <1>3, <1>4, <1>5, <1>6 DEF Next

\* Every step keeps the batches handed out as they must be.
LEMMA NextBatchInv ==
    ASSUME IInv, BatchInv, Next
    PROVE  BatchInv'
<1>1. AttributesKept
  BY AttributesStep
<1>2. \A b \in issued : /\ \A w \in Elems(b.works) : w \in Works /\ phase'[w] # "absent"
                        /\ Elems(b.works) \cap Commands' # {} => Len(b.works) = 1
  <2>1. \A b \in issued : \A w \in Elems(b.works) :
           /\ w \in Works /\ phase'[w] # "absent"
           /\ w \in Commands <=> w \in Commands'
    BY <1>1 DEF BatchInv, IssuedWorksExist, AttributesKept, Commands
  <2> QED BY <2>1 DEF BatchInv, CommandsRunAlone
<1>3. CASE issued' = issued /\ \A t \in Slots : active'[t] \in {active[t], NoBatch}
  <2>1. BusySlotsExist'
    BY <1>3, BatchesStep, NoBatchType DEF BatchInv, BusySlotsExist
  <2> QED BY <1>2, <1>3, <2>1 DEF BatchInv, IssuedWorksExist, CommandsRunAlone
<1>4. ASSUME NEW s \in Slots, ClaimNext(s)
      PROVE  BatchInv'
  <2> DEFINE b == ClaimedBatch(s)
  <2>1. Claim(s) /\ issued' = issued \cup {b}
    BY <1>4 DEF ClaimNext
  <2>2. \A t \in Slots : active'[t] = IF t = s THEN b ELSE active[t]
    BY <2>1 DEF Claim, IInv, CoordinatorInv, CoordinatorTypeOK
  <2>3. /\ Elems(b.works) \subseteq Works
        /\ \A w \in Elems(b.works) : phase[w] # "absent"
        /\ Elems(b.works) \cap Commands # {} => Len(b.works) = 1
        /\ s \in slots
    BY <2>1, ClaimedBatchIsGood
  <2> HIDE DEF b
  <2>4. /\ \A w \in Elems(b.works) : phase'[w] # "absent"
        /\ \A w \in Elems(b.works) : w \in Commands <=> w \in Commands'
    BY <1>1, <2>3 DEF AttributesKept, Commands
  <2>5. IssuedWorksExist' /\ CommandsRunAlone'
    BY <1>2, <2>1, <2>3, <2>4 DEF IssuedWorksExist, CommandsRunAlone
  <2>6. BusySlotsExist'
    BY <2>2, <2>3, BatchesStep DEF BatchInv, BusySlotsExist
  <2> QED BY <2>5, <2>6 DEF BatchInv
<1> QED BY <1>3, <1>4, BatchesStep

\* The batches handed out are as they must be, in every reachable state.
LEMMA SpecBatchInv == Spec => []BatchInv
<1>1. SlotWorkInit => BatchInv
  BY NoBatchType DEF SlotWorkInit, Init, BatchInv, IssuedWorksExist, CommandsRunAlone,
                     BusySlotsExist
<1>2. IInv /\ BatchInv /\ [Next]_vars => BatchInv'
  <2>1. BatchInv /\ UNCHANGED vars => BatchInv'
    BY DEF vars, coordinatorVars, clientVars, BatchInv, IssuedWorksExist, CommandsRunAlone,
           BusySlotsExist, Commands
  <2> QED BY <2>1, NextBatchInv
<1> QED BY <1>1, <1>2, SpecIInv, PTL DEF Spec

\* A slash command shares no batch with other work, ever: not after its own batch
\* was requeued in front of a deque, nor when a cancelled batch's other members
\* came back before it (coordinator.rs next).
THEOREM CommandsRunAloneHolds == Spec => []CommandsRunAlone
<1>1. BatchInv => CommandsRunAlone
  BY DEF BatchInv
<1> QED BY <1>1, SpecBatchInv, PTL

\* A cancellation leaves nothing of its run waiting, claimed or leased, in whichever
\* slots, deques and batches the run's work was, and it ends no other run's work.
THEOREM CancelRunIsExactHolds == Spec => CancelRunIsExact
<1>1. IInv /\ BatchInv =>
        [\A r \in Runs : CancelRun(r) =>
            /\ OfRun(r, Live \cup {"leased"})' = {}
            /\ \A w \in Works : item[w].run # r /\ phase[w] \in Live => phase'[w] \in Live]_vars
  BY CancelRunExact DEF IInv, BatchInv
<1> QED BY <1>1, SpecIInv, SpecBatchInv, PTL DEF CancelRunIsExact
-----------------------------------------------------------------------------
(* The refinement of SerialWork.                                           *)

\* Every step is one of these.
LEMMA NextIsStageStep ==
    ASSUME IInv, Next
    PROVE  StageStep
<1>1. CoordinatorInv
  BY DEF IInv
<1>2. CASE Enqueue
  <2>1. \/ \E w \in Works, s \in Slots : \E source, r : AcquireEnqueue(w, s, source, r)
        \/ \E w \in Works : \E m : CommitEnqueue(w, m)
        \/ \E w \in Works : AbortEnqueue(w)
    BY <1>2 DEF Enqueue
  <2> QED BY <1>1, <2>1, StagesKept DEF StageStep
<1>3. ASSUME NEW s \in Slots, Reconcile(s)
      PROVE  StageStep
  BY <1>3, UnreadListsType DEF Reconcile, StageStep
<1>4. ASSUME NEW s \in Slots, ClaimNext(s)
      PROVE  StageStep
  BY <1>4 DEF ClaimNext, StageStep
<1>5. ASSUME NEW s \in Slots, ObserveSignals(s)
      PROVE  StageStep
  BY <1>1, <1>5, StagesKept DEF ObserveSignals, StageStep
<1>6. ASSUME NEW s \in Slots, SettleSignals(s)
      PROVE  StageStep
  BY <1>1, <1>6, CompleteSignalsReleases DEF SettleSignals, StageStep
<1>7. ASSUME NEW b \in issued, Report(b)
      PROVE  StageStep
  <2>1. b.slot \in Slots /\ b = active[b.slot]
    BY <1>7, CurrentHandle DEF Report, MarkStarted, RetryStart, TerminalizeBatch
  <2>2. CASE MarkStarted(b)
    BY <1>1, <2>1, <2>2, StagesKept DEF StageStep
  <2>3. CASE RetryStart(b)
    BY <1>1, <2>1, <2>3, RetryReleases DEF StageStep
  <2>4. ASSUME NEW end \in Terminal, TerminalizeBatch(b, end)
        PROVE  StageStep
    BY <1>1, <2>1, <2>4, TerminalizeReleases DEF StageStep
  <2> QED BY <1>7, <2>2, <2>3, <2>4 DEF Report
<1>8. CASE Interrupt
  <2>1. ASSUME NEW r \in Runs, CancelRun(r)
        PROVE  StageStep
    BY <1>1, <2>1, CancelRunReleases DEF StageStep
  <2>2. ASSUME NEW s \in Slots, PauseSlot(s)
        PROVE  StageStep
    BY <1>1, <2>2, StagesKept DEF StageStep
  <2>3. ASSUME NEW s \in Slots, NEW c, AllowRuntime(s, c)
        PROVE  StageStep
    BY <1>1, <2>3, StagesKept DEF StageStep
  <2>4. ASSUME NEW s \in Slots, NEW c, LoseRuntime(s, c)
        PROVE  StageStep
    BY <1>1, <2>4, LoseRuntimeReleases DEF StageStep
  <2>5. ASSUME NEW s \in Slots, RemoveSlot(s)
        PROVE  StageStep
    BY <1>1, <2>5, RemoveSlotReleases DEF StageStep
  <2>6. CASE Stop
    BY <1>1, <2>6, StopReleases DEF StageStep
  <2> QED BY <1>8, <2>1, <2>2, <2>3, <2>4, <2>5, <2>6 DEF Interrupt, SetRuntimeConstraint
<1> QED BY <1>2, <1>3, <1>4, <1>5, <1>6, <1>7, <1>8 DEF Next

\* Every step of the coordinator is a step of SerialWork.
LEMMA NextRefines ==
    ASSUME IInv, IInv', Next
    PROVE  Serial!Next
<1>1. CoordinatorInv /\ CoordinatorInv'
  BY DEF IInv
<1> QED BY <1>1, NextIsStageStep, StageStepRefines

\* The coordinator implements SerialWork, for any number of slots, works and runs: a
\* slot works on one batch at a time, the members of a batch start together and leave
\* together, each one done or waiting again, work waits in the lane of its slot only,
\* and its end is final.
THEOREM ImplementsSerialWorkHolds == Spec => ImplementsSerialWork
<1>1. SlotWorkInit => Serial!Init
  BY StageFacts DEF SlotWorkInit, Init, Serial!Init, Unqueued
<1>2. IInv /\ IInv' /\ [Next]_vars => [Serial!Next]_(Serial!vars)
  <2>1. UNCHANGED vars => UNCHANGED Serial!vars
    BY DEF vars, coordinatorVars, Serial!vars
  <2> QED BY <2>1, NextRefines
<1> QED BY <1>1, <1>2, SpecIInv, PTL DEF Spec, ImplementsSerialWork, Serial!Spec
-----------------------------------------------------------------------------
(* The order of messages.                                                  *)

\* The pairs of works that may follow one another in a line, and those that may not
\* be compared: signals have no message.
MayFollow ==
    {vw \in Works \X Works :
        \/ vw[1] \in Signals \/ vw[2] \in Signals
        \/ ArrivedBefore(vw[1], vw[2])
        \/ item[vw[1]].run = NoRun /\ item[vw[2]].run = NoRun}

\* The history lists the live works, each once.
ArrivalsAreLive ==
    /\ \A w \in Works : w \in Elems(arrivals) <=> phase[w] \in Live
    /\ Distinct(arrivals)

\* MessagesKeepTheirOrder, deque by deque and batch by batch; what is claimed are
\* messages.
LinesInv ==
    /\ \A s \in Slots : \A w \in Elems(active[s].works) : w \notin Signals
    /\ \A s \in Slots : Follows(active[s].works, MayFollow)
    /\ \A s \in Slots, p \in Priorities : Follows(queue[s][p], MayFollow)
    /\ \A s \in Slots : \A v \in Elems(active[s].works) :
          \A w \in Elems(queue[s][active[s].priority]) : <<v, w>> \in MayFollow

\* The works that the step queues for the first time.
NewWorks == {w \in Works : phase[w] \in {"absent", "leased"} /\ phase'[w] = "queued"}

\* Live work stays live or ends; other work becomes live by being queued first.
PhasesMove ==
    /\ \A w \in Works : phase[w] \in Live => phase'[w] \in Live \cup Terminal
    /\ \A w \in Works : phase[w] \notin Live /\ phase'[w] \in Live => w \in NewWorks
    /\ \A v, w \in NewWorks : /\ item'[v].slot \in Slots /\ item'[v].slot = item'[w].slot
                              /\ Priority(item'[v].source) = Priority(item'[w].source)

\* A step in which slots let go of their batches queues nothing new.
LEMMA ReleasesMovePhases ==
    ASSUME CoordinatorTypeOK, CoordinatorTypeOK', NEW freed, NEW done, Releases(freed, done)
    PROVE  PhasesMove
<1>1. \A w \in Works : phase[w] \in Phases /\ phase'[w] \in Phases
  BY DEF CoordinatorTypeOK
<1>2. {"absent", "leased"} \subseteq Unqueued
  BY DEF Unqueued
<1>3. NewWorks = {}
  BY <1>2, PhaseFacts DEF NewWorks, Releases
<1>4. \A w \in Works : phase[w] \in Live => phase'[w] \in Live \cup Terminal
  <2> SUFFICES ASSUME NEW w \in Works, phase[w] \in Live
               PROVE  phase'[w] \in Live \cup Terminal
    OBVIOUS
  <2>1. CASE w \in done \/ phase'[w] = "queued"
    BY <2>1, PhaseFacts DEF Releases
  <2>2. CASE StageOf(phase'[w]) = StageOf(phase[w])
    BY <1>1, <2>2, StageFacts, PhaseFacts
  <2> QED BY <2>1, <2>2 DEF Releases
<1>5. \A w \in Works : phase[w] \notin Live => phase'[w] \notin Live
  <2> SUFFICES ASSUME NEW w \in Works, phase[w] \notin Live
               PROVE  phase'[w] \notin Live
    OBVIOUS
  <2>1. CASE phase[w] \in Unqueued
    BY <2>1, PhaseFacts DEF Releases
  <2>2. CASE phase[w] \in Terminal
    <3>1. w \notin done /\ phase[w] \notin Claimed
      BY <2>2, PhaseFacts DEF Releases
    <3>2. StageOf(phase'[w]) = "done"
      BY <2>2, <3>1, StageFacts DEF Releases
    <3> QED BY <3>2, StageFacts, PhaseFacts
  <2> QED BY <1>1, <2>1, <2>2, StageFacts, PhaseFacts
<1> QED BY <1>3, <1>4, <1>5 DEF PhasesMove

\* What arrives is appended to what is left of the history: the history goes on
\* listing the live works, and whoever was before somebody remains so.
LEMMA ArrivalsStep ==
    ASSUME IInv, IInv', ListedOnce', ArrivalsAreLive, PhasesMove, RecordArrivals
    PROVE  /\ ArrivalsAreLive'
           /\ \A v, w \in Works : ArrivedBefore(v, w) /\ phase'[v] \in Live /\ phase'[w] \in Live
                                    => ArrivedBefore(v, w)'
           /\ \A v \in Works, w \in NewWorks : phase[v] \in Live /\ phase'[v] \in Live
                                    => ArrivedBefore(v, w)'
<1> DEFINE ended == {w \in Works : phase'[w] \in Terminal}
           kept == Without(arrivals, ended)
           w0 == CHOOSE w \in NewWorks : TRUE
           tail == IF NewWorks = {} THEN <<>>
                   ELSE Only(queue'[item'[w0].slot][Priority(item'[w0].source)], NewWorks)
<1>1. arrivals' = kept \o tail
  BY Zenon DEF RecordArrivals, NewWorks
<1>2. arrivals \in Seq(Works) /\ Distinct(arrivals)
  BY DEF IInv, ClientTypeOK, ArrivalsAreLive
<1>3. kept \in Seq(Works) /\ Distinct(kept) /\ Elems(kept) = Elems(arrivals) \ ended
  BY <1>2, WithoutElems, WithoutDistinct
<1>4. tail \in Seq(Works) /\ Distinct(tail) /\ Elems(tail) = NewWorks
  <2>1. CASE NewWorks = {}
    BY <2>1, EmptySeq, NothingTwice DEF Elems
  <2>2. CASE NewWorks # {}
    <3> DEFINE q == queue'[item'[w0].slot][Priority(item'[w0].source)]
    <3>1. w0 \in NewWorks
      BY <2>2
    <3>2. \A w \in NewWorks : /\ phase'[w] = "queued" /\ w \in Works
                              /\ item'[w].slot = item'[w0].slot
                              /\ Priority(item'[w].source) = Priority(item'[w0].source)
      BY <3>1 DEF PhasesMove, NewWorks
    <3> HIDE DEF w0
    <3>3. item'[w0].slot \in Slots /\ Priority(item'[w0].source) \in Priorities
      BY <3>1, PriorityType DEF PhasesMove
    <3>4. QueuedWorkIsInItsDeque' /\ CoordinatorTypeOK'
      BY DEF IInv, CoordinatorInv, Ownership
    <3>5. q \in Seq(Works) /\ Distinct(q)
      BY <3>3, <3>4 DEF CoordinatorTypeOK, ListedOnce
    <3>6. NewWorks \subseteq Elems(q)
      BY <3>2, <3>4 DEF QueuedWorkIsInItsDeque
    <3>7. tail = Only(q, NewWorks)
      BY <2>2 DEF w0
    <3> HIDE DEF q, tail
    <3>8. Only(q, NewWorks) \in Seq(Works) /\ Elems(Only(q, NewWorks)) = Elems(q) \cap NewWorks
      BY <3>5, OnlyElems
    <3>9. Distinct(Only(q, NewWorks))
      BY <3>5, OnlyDistinct
    <3> QED BY <3>6, <3>7, <3>8, <3>9
  <2> QED BY <2>1, <2>2
<1> HIDE DEF kept, tail
<1>5. /\ Elems(arrivals') = Elems(kept) \cup Elems(tail)
      /\ Elems(kept) \cap Elems(tail) = {}
  <2>1. \A w \in NewWorks : w \in Works /\ phase[w] \notin Live
    BY DEF NewWorks, Live
  <2> QED BY <1>1, <1>3, <1>4, <2>1, ConcatElems DEF ArrivalsAreLive
<1>6. Distinct(arrivals')
  BY <1>1, <1>3, <1>4, <1>5, ConcatDistinct
<1>7. \A w \in Works : w \in Elems(arrivals') <=> phase'[w] \in Live
  <2>1. \A w \in Works : phase'[w] \in Live => phase'[w] \notin Terminal
    BY PhaseFacts
  <2>2. \A w \in NewWorks : phase'[w] \in Live
    BY DEF NewWorks, Live
  <2> QED BY <1>3, <1>4, <1>5, <2>1, <2>2 DEF ArrivalsAreLive, PhasesMove
<1>8. /\ Len(kept) \in Nat /\ Len(tail) \in Nat
      /\ \A i \in 1..Len(kept) : i \in 1..Len(arrivals') /\ arrivals'[i] = kept[i]
      /\ \A i \in 1..Len(tail) :
            Len(kept) + i \in 1..Len(arrivals') /\ arrivals'[Len(kept) + i] = tail[i]
  BY <1>1, <1>3, <1>4, ConcatAt
<1>9. ASSUME NEW v \in Works, NEW w \in Works, ArrivedBefore(v, w),
             phase'[v] \in Live, phase'[w] \in Live
      PROVE  ArrivedBefore(v, w)'
  <2>1. PICK i \in 1..Len(arrivals), j \in 1..Len(arrivals) :
           i < j /\ arrivals[i] = v /\ arrivals[j] = w
    BY <1>9 DEF ArrivedBefore
  <2>2. arrivals[i] \notin ended /\ arrivals[j] \notin ended
    BY <1>9, <2>1, PhaseFacts
  <2> HIDE DEF ended
  <2>3. \E a, b \in 1..Len(kept) : a < b /\ kept[a] = arrivals[i] /\ kept[b] = arrivals[j]
    BY <1>2, <2>1, <2>2, WithoutKeepsOrder DEF kept
  <2> QED BY <1>8, <2>1, <2>3 DEF ArrivedBefore
<1>10. ASSUME NEW v \in Works, NEW w \in NewWorks, phase[v] \in Live, phase'[v] \in Live
       PROVE  ArrivedBefore(v, w)'
  <2>1. v \in Elems(kept) /\ w \in Elems(tail)
    BY <1>3, <1>4, <1>10, PhaseFacts DEF ArrivalsAreLive
  <2>2. PICK i \in 1..Len(kept) : kept[i] = v
    BY <2>1 DEF Elems
  <2>3. PICK j \in 1..Len(tail) : tail[j] = w
    BY <2>1 DEF Elems
  <2>4. i < Len(kept) + j
    BY <1>8
  <2> QED BY <1>8, <2>2, <2>3, <2>4 DEF ArrivedBefore
<1> QED BY <1>6, <1>7, <1>9, <1>10 DEF ArrivalsAreLive

\* The step makes no two live works change places, and puts new works behind live
\* ones; a work that had a message still has it.
FollowersKept ==
    /\ \A v, w \in Works : /\ phase[v] \in Live /\ phase'[v] \in Live
                           /\ phase[w] \in Live /\ phase'[w] \in Live
                           /\ <<v, w>> \in MayFollow
                           => <<v, w>> \in MayFollow'
    /\ \A v \in Works, w \in NewWorks :
          phase[v] \in Live /\ phase'[v] \in Live => <<v, w>> \in MayFollow'
    /\ \A w \in Works : phase[w] \in Live => (w \in Signals <=> w \in Signals')

\* Two live works keep their relative order: arrivals are only appended, and what
\* a live work carries does not change.
LEMMA FollowersStep ==
    ASSUME IInv, IInv', ListedOnce', ArrivalsAreLive, PhasesMove, RecordArrivals,
           AttributesKept
    PROVE  FollowersKept
<1>1. \A w \in Works : phase[w] \in Live =>
         item'[w].run = item[w].run /\ item'[w].message = item[w].message
  BY DEF AttributesKept, Live
<1>2. \A w \in Works : phase[w] \in Live => (w \in Signals <=> w \in Signals')
  BY <1>1 DEF Signals
<1>3. \A v, w \in Works : ArrivedBefore(v, w)' => <<v, w>> \in MayFollow'
  BY DEF MayFollow
<1>4. NewWorks \subseteq Works
  BY DEF NewWorks
<1>5. ASSUME NEW v \in Works, NEW w \in Works, phase[v] \in Live, phase'[v] \in Live,
             phase[w] \in Live, phase'[w] \in Live, <<v, w>> \in MayFollow
      PROVE  <<v, w>> \in MayFollow'
  <2>1. CASE ArrivedBefore(v, w)
    BY <1>3, <1>5, <2>1, ArrivalsStep
  <2>2. CASE v \in Signals \/ w \in Signals \/ (item[v].run = NoRun /\ item[w].run = NoRun)
    BY <1>1, <1>2, <1>5, <2>2 DEF MayFollow
  <2> QED BY <1>5, <2>1, <2>2 DEF MayFollow
<1> QED BY <1>2, <1>3, <1>4, <1>5, ArrivalsStep DEF FollowersKept

\* A deque or batch that follows the relation still does, as long as its works live.
LEMMA FollowsStep ==
    ASSUME FollowersKept, NEW q \in Seq(Works), Follows(q, MayFollow),
           \A w \in Elems(q) : phase[w] \in Live /\ phase'[w] \in Live
    PROVE  Follows(q, MayFollow')
<1>1. \A i \in 1..Len(q) : q[i] \in Works /\ q[i] \in Elems(q)
  BY DEF Elems
<1> QED BY <1>1 DEF Follows, FollowersKept

\* An empty deque follows every relation.
LEMMA NothingFollows == \A T : Follows(<<>>, T) /\ Follows(NoBatch.works, T)
  BY DEF Follows, NoBatch

\* The live works of the deques and batches, and their lines.
LEMMA LinesFacts ==
    ASSUME CoordinatorInv, LinesInv
    PROVE  /\ \A s \in Slots : /\ active[s].works \in Seq(Works)
                               /\ Follows(active[s].works, MayFollow)
                               /\ \A w \in Elems(active[s].works) :
                                     w \in Works /\ phase[w] \in Live /\ w \notin Signals
           /\ \A s \in Slots, p \in Priorities :
                 /\ queue[s][p] \in Seq(Works)
                 /\ Follows(queue[s][p], MayFollow)
                 /\ \A w \in Elems(queue[s][p]) : w \in Works /\ phase[w] \in Live
           /\ \A s \in Slots : \A v \in Elems(active[s].works) :
                 \A w \in Elems(queue[s][active[s].priority]) : <<v, w>> \in MayFollow
           /\ \A s \in Slots : active[s].priority \in Priorities
<1>1. QueuedWorkIsInItsDeque /\ ClaimedWorkIsInItsBatch /\ CoordinatorTypeOK
  BY InvFacts
<1>2. \A s \in Slots : /\ active[s].works \in Seq(Works)
                         /\ Follows(active[s].works, MayFollow)
                         /\ \A w \in Elems(active[s].works) :
                               w \in Works /\ phase[w] \in Live /\ w \notin Signals
  BY <1>1, InvFacts DEF LinesInv, ClaimedWorkIsInItsBatch, Live
<1>3. \A s \in Slots, p \in Priorities :
         /\ queue[s][p] \in Seq(Works)
         /\ Follows(queue[s][p], MayFollow)
         /\ \A w \in Elems(queue[s][p]) : w \in Works /\ phase[w] \in Live
  BY <1>1, InvFacts DEF LinesInv, QueuedWorkIsInItsDeque, Live
<1>4. \A s \in Slots : active[s].priority \in Priorities
  BY <1>1 DEF CoordinatorTypeOK, Batch
<1>5. \A s \in Slots : \A v \in Elems(active[s].works) :
         \A w \in Elems(queue[s][active[s].priority]) : <<v, w>> \in MayFollow
  BY DEF LinesInv
<1> QED BY <1>2, <1>3, <1>4, <1>5

\* What the deques and batches list after a step is live.
LEMMA ListedIsLive ==
    ASSUME CoordinatorInv'
    PROVE  /\ \A s \in Slots, p \in Priorities : \A w \in Elems(queue'[s][p]) : phase'[w] \in Live
           /\ \A s \in Slots : \A w \in Elems(active'[s].works) : phase'[w] \in Live
  BY DEF CoordinatorInv, Ownership, QueuedWorkIsInItsDeque, ClaimedWorkIsInItsBatch, Live

\* A slot that keeps its batch, and gets nothing new in the deque the batch came
\* from, keeps the line of the two; a slot without a batch has none.
LEMMA BatchKeepsLine ==
    ASSUME CoordinatorInv, CoordinatorInv', LinesInv, FollowersKept, NEW t \in Slots,
           \/ active'[t] = NoBatch
           \/ /\ active'[t] = active[t]
              /\ \A x \in Priorities : x = active[t].priority =>
                    Elems(queue'[t][x]) \subseteq Elems(queue[t][x])
    PROVE  /\ Follows(active'[t].works, MayFollow')
           /\ \A w \in Elems(active'[t].works) : w \notin Signals'
           /\ \A v \in Elems(active'[t].works) :
                 \A w \in Elems(queue'[t][active'[t].priority]) : <<v, w>> \in MayFollow'
<1>1. CASE active'[t] = NoBatch
  BY <1>1, NothingFollows, NoBatchType
<1>2. CASE active'[t] # NoBatch
  <2> DEFINE x == active[t].priority
  <2>1. active'[t] = active[t] /\ x \in Priorities
    BY <1>2, LinesFacts
  <2>2. \A w \in Elems(active[t].works) :
           w \in Works /\ phase[w] \in Live /\ phase'[w] \in Live /\ w \notin Signals
    BY <2>1, LinesFacts, ListedIsLive
  <2>3. Follows(active[t].works, MayFollow')
    BY <2>2, LinesFacts, FollowsStep
  <2>4. Elems(queue'[t][x]) \subseteq Elems(queue[t][x])
    BY <1>2, <2>1
  <2> HIDE DEF x
  <2>5. \A w \in Elems(queue'[t][x]) :
           w \in Works /\ phase[w] \in Live /\ phase'[w] \in Live /\ w \in Elems(queue[t][x])
    BY <2>1, <2>4, LinesFacts, ListedIsLive
  <2>6. \A v \in Elems(active[t].works) : \A w \in Elems(queue'[t][x]) : <<v, w>> \in MayFollow
    BY <2>5, LinesFacts DEF x
  <2>7. \A v \in Elems(active[t].works) : \A w \in Elems(queue'[t][x]) : <<v, w>> \in MayFollow'
    BY <2>2, <2>5, <2>6 DEF FollowersKept
  <2> QED BY <2>1, <2>2, <2>3, <2>7 DEF x, FollowersKept
<1> QED BY <1>1, <1>2

\* A step that only takes works out of deques and clears batches keeps the lines.
LEMMA LinesShrink ==
    ASSUME CoordinatorInv, CoordinatorInv', LinesInv, FollowersKept, NEW S,
           \A t \in Slots, x \in Priorities :
              queue'[t][x] \in {queue[t][x], Without(queue[t][x], S), <<>>},
           \A t \in Slots : active'[t] \in {active[t], NoBatch}
    PROVE  LinesInv'
<1>1. ASSUME NEW t \in Slots, NEW x \in Priorities
      PROVE  /\ Follows(queue'[t][x], MayFollow')
             /\ Elems(queue'[t][x]) \subseteq Elems(queue[t][x])
  <2> DEFINE q == queue'[t][x]
  <2>1. q \in Seq(Works) /\ Follows(q, MayFollow) /\ Elems(q) \subseteq Elems(queue[t][x])
    <3>1. CASE q = queue[t][x]
      BY <3>1, LinesFacts
    <3>2. CASE q = Without(queue[t][x], S)
      BY <3>2, LinesFacts, WithoutElems, WithoutFollows
    <3>3. CASE q = <<>>
      BY <3>3, NothingFollows, EmptySeq DEF Elems
    <3> QED BY <3>1, <3>2, <3>3
  <2>2. \A w \in Elems(q) : phase[w] \in Live /\ phase'[w] \in Live
    BY <2>1, LinesFacts, ListedIsLive
  <2> HIDE DEF q
  <2>3. Follows(q, MayFollow')
    BY <2>1, <2>2, FollowsStep
  <2> QED BY <2>1, <2>3 DEF q
<1> QED BY <1>1, BatchKeepsLine DEF LinesInv

\* A committed item goes behind everything that is live.
LEMMA CommitKeepsLines ==
    ASSUME CoordinatorInv, CoordinatorInv', LinesInv, FollowersKept,
           NEW w \in Works, NEW m, CommitEnqueue(w, m)
    PROVE  LinesInv'
<1> DEFINE s == item[w].slot
           p == Priority(item[w].source)
<1>1. CoordinatorTypeOK /\ Assigned
  BY InvFacts
<1>2. phase[w] = "leased" /\ s \in Slots /\ p \in Priorities
  BY <1>1, PriorityType DEF Assigned, CommitEnqueue, CanCommit
<1>3. /\ \A t \in Slots, x \in Priorities :
            queue'[t][x] = IF t = s /\ x = p THEN Append(queue[t][x], w) ELSE queue[t][x]
      /\ active' = active /\ phase'[w] = "queued"
      /\ \A v \in Works : v # w => phase'[v] = phase[v]
  BY <1>1, <1>2 DEF CommitEnqueue, CoordinatorTypeOK
<1>4. w \in NewWorks
  BY <1>2, <1>3 DEF NewWorks
<1>5. \A v \in Works : phase[v] \in Live => phase'[v] \in Live /\ <<v, w>> \in MayFollow'
  BY <1>2, <1>3, <1>4 DEF Live, FollowersKept
<1> HIDE DEF s, p
<1>6. \A t \in Slots, x \in Priorities : Follows(queue[t][x], MayFollow')
  BY <1>5, LinesFacts, FollowsStep
<1>7. Follows(Append(queue[s][p], w), MayFollow')
  <2> DEFINE q == queue[s][p]
  <2>1. q \in Seq(Works) /\ Follows(q, MayFollow') /\ \A i \in 1..Len(q) : <<q[i], w>> \in MayFollow'
    BY <1>2, <1>5, <1>6, LinesFacts DEF Elems
  <2> HIDE DEF q
  <2>2. Follows(Append(q, w), MayFollow')
    BY <2>1 DEF Follows
  <2> QED BY <2>2 DEF q
<1>8. \A t \in Slots, x \in Priorities : Follows(queue'[t][x], MayFollow')
  BY <1>3, <1>6, <1>7
<1>9. \A t \in Slots : \A v \in Elems(active'[t].works) :
         v \in Works /\ phase[v] \in Live /\ phase'[v] \in Live /\ v \notin Signals'
  BY <1>3, <1>5, LinesFacts DEF FollowersKept
<1>10. \A t \in Slots : Follows(active'[t].works, MayFollow')
  BY <1>3, <1>9, LinesFacts, FollowsStep
<1>11. ASSUME NEW t \in Slots, NEW v \in Elems(active'[t].works),
              NEW u \in Elems(queue'[t][active'[t].priority])
       PROVE  <<v, u>> \in MayFollow'
  <2>1. u = w \/ u \in Elems(queue[t][active[t].priority])
    BY <1>3, LinesFacts, AppendElems
  <2>2. CASE u = w
    BY <1>5, <1>9, <2>2
  <2>3. CASE u \in Elems(queue[t][active[t].priority])
    <3>1. <<v, u>> \in MayFollow /\ u \in Works /\ phase[u] \in Live
      BY <1>3, <2>3, LinesFacts
    <3> QED BY <1>5, <1>9, <3>1 DEF FollowersKept
  <2> QED BY <2>1, <2>2, <2>3
<1> QED BY <1>8, <1>9, <1>10, <1>11 DEF LinesInv

\* Drains have no run: they are compared with works that were there before only.
LEMMA ReconcileKeepsLines ==
    ASSUME CoordinatorInv, CoordinatorInv', LinesInv, FollowersKept,
           NEW s \in Slots, NEW unread \in Seq(Messages), ReconcileMailbox(s, unread)
    PROVE  LinesInv'
<1> DEFINE stale == Stale(s, unread)
           orphans == Orphans(s, unread)
<1>1. CoordinatorTypeOK
  BY InvFacts
<1>2. orphans \in Seq(Messages)
  BY WithoutElems DEF Orphans
<1>3. PICK drains \in FreshWorks(Len(orphans)) :
         /\ item' = [w \in Works |->
                       IF w \in Elems(drains)
                       THEN Drain(s, orphans[CHOOSE i \in 1..Len(drains) : drains[i] = w])
                       ELSE item[w]]
         /\ phase' = [w \in Works |->
                        IF w \in stale THEN "completed"
                        ELSE IF w \in Elems(drains) THEN "queued"
                        ELSE phase[w]]
         /\ queue' = [queue EXCEPT ![s] =
                        [p \in Priorities |->
                           IF p = "background" THEN Without(queue[s][p], stale) \o drains
                           ELSE Without(queue[s][p], stale)]]
         /\ active' = active
  BY <1>1 DEF ReconcileMailbox, CoordinatorTypeOK
<1>4. /\ drains \in Seq(Works)
      /\ \A w \in Elems(drains) : w \in Works /\ phase[w] = "absent" /\ item'[w].run = NoRun
  <2>1. drains \in Seq(Works) /\ \A w \in Elems(drains) : w \in Works /\ phase[w] = "absent"
    BY <1>2 DEF FreshWorks, Elems
  <2>2. \A w \in Elems(drains) : item'[w].run = NoRun
    BY <1>3, <2>1 DEF Drain
  <2> QED BY <2>1, <2>2
<1>5. \A w \in Elems(drains) : w \in NewWorks
  <2>1. \A w \in stale : phase[w] = "queued"
    BY DEF Stale, OfSlot
  <2> QED BY <1>3, <1>4, <2>1 DEF NewWorks
<1> HIDE DEF stale, orphans
<1> DEFINE kept(x) == Without(queue[s][x], stale)
<1>6. \A t \in Slots, x \in Priorities :
         queue'[t][x] = IF t # s THEN queue[t][x]
                        ELSE IF x = "background" THEN kept(x) \o drains ELSE kept(x)
  BY <1>1, <1>3 DEF CoordinatorTypeOK
<1>7. \A x \in Priorities : /\ kept(x) \in Seq(Works)
                            /\ Elems(kept(x)) \subseteq Elems(queue[s][x])
                            /\ Follows(kept(x), MayFollow)
  BY LinesFacts, WithoutElems, WithoutFollows
<1> HIDE DEF kept
<1>8. "background" \in Priorities
  BY DEF Priorities
<1>9. \A t \in Slots, x \in Priorities :
         Elems(queue'[t][x]) \subseteq Elems(queue[t][x]) \cup Elems(drains)
         /\ (t = s => Elems(kept(x)) \subseteq Elems(queue'[t][x]))
  BY <1>4, <1>6, <1>7, ConcatElems
<1>10. \A x \in Priorities : \A w \in Elems(kept(x)) :
          w \in Works /\ phase[w] \in Live /\ phase'[w] \in Live
  BY <1>7, <1>9, LinesFacts, ListedIsLive
<1>11. \A x \in Priorities : Follows(kept(x), MayFollow')
  BY <1>7, <1>10, FollowsStep
<1>12. Follows(drains, MayFollow')
  BY <1>3, <1>4 DEF Follows, MayFollow, Elems
<1>13. \A v \in Works, w \in Elems(drains) :
          phase[v] \in Live /\ phase'[v] \in Live => <<v, w>> \in MayFollow'
  BY <1>5 DEF FollowersKept
<1>14. Follows(kept("background") \o drains, MayFollow')
  BY <1>4, <1>7, <1>8, <1>10, <1>11, <1>12, <1>13, ConcatFollows
<1>15. ASSUME NEW t \in Slots, NEW x \in Priorities
       PROVE  Follows(queue'[t][x], MayFollow')
  <2>1. CASE t = s
    BY <1>6, <1>11, <1>14, <2>1
  <2>2. CASE t # s
    <3>1. queue'[t][x] = queue[t][x]
      BY <1>6, <2>2
    <3> QED BY <3>1, LinesFacts, ListedIsLive, FollowsStep
  <2> QED BY <2>1, <2>2
<1>16. \A t \in Slots : \A v \in Elems(active'[t].works) :
         v \in Works /\ phase[v] \in Live /\ phase'[v] \in Live /\ v \notin Signals'
  BY <1>3, LinesFacts, ListedIsLive DEF FollowersKept
<1>17. \A t \in Slots : Follows(active'[t].works, MayFollow')
  BY <1>3, <1>16, LinesFacts, FollowsStep
<1>18. ASSUME NEW t \in Slots, NEW v \in Elems(active'[t].works),
              NEW u \in Elems(queue'[t][active'[t].priority])
       PROVE  <<v, u>> \in MayFollow'
  <2>1. u \in Elems(drains) \/ u \in Elems(queue[t][active[t].priority])
    BY <1>3, <1>9, LinesFacts
  <2>2. CASE u \in Elems(drains)
    BY <1>13, <1>16, <2>2
  <2>3. CASE u \in Elems(queue[t][active[t].priority])
    <3>1. <<v, u>> \in MayFollow /\ u \in Works /\ phase[u] \in Live /\ phase'[u] \in Live
      BY <1>3, <2>3, LinesFacts, ListedIsLive
    <3> QED BY <1>16, <3>1 DEF FollowersKept
  <2> QED BY <2>1, <2>2, <2>3
<1> QED BY <1>15, <1>16, <1>17, <1>18 DEF LinesInv

\* A claim takes the front of the messages of a deque: they were before the rest.
LEMMA ClaimKeepsLines ==
    ASSUME CoordinatorInv, CoordinatorInv', LinesInv, FollowersKept,
           NEW s \in Slots, Claim(s)
    PROVE  LinesInv'
<1> DEFINE b == ClaimedBatch(s)
           p == SelectedPriority(s)
           q == MessageWorks(s)
           taken == Elems(b.works)
<1>1. CoordinatorTypeOK
  BY InvFacts
<1>2. p \in Priorities
  BY DEF SelectedPriority, Priorities
<1>3. /\ q \in Seq(Works) /\ q # <<>> /\ Elems(q) = Elems(queue[s][p]) \ Signals
      /\ Follows(q, MayFollow)
  BY <1>2, LinesFacts, WithoutElems, WithoutFollows DEF MessageWorks, Claim
<1>4. b.works = LeadingWorks(q) /\ b.priority = p
  BY DEF ClaimedBatch
<1>5. /\ \A t \in Slots : active'[t] = IF t = s THEN b ELSE active[t]
      /\ \A t \in Slots, x \in Priorities :
            queue'[t][x] = IF t = s THEN Without(queue[t][x], taken) ELSE queue[t][x]
  BY <1>1 DEF Claim, CoordinatorTypeOK
<1> HIDE DEF b, q, taken
<1>6. PICK n \in 1..Len(q) : b.works = SubSeq(q, 1, n)
  BY <1>3, <1>4, LeadingWorksPrefix
<1>7. /\ b.works \in Seq(Works) /\ Follows(b.works, MayFollow)
      /\ taken \subseteq Elems(q) /\ Len(b.works) = n
      /\ \A i \in 1..n : b.works[i] = q[i]
  BY <1>3, <1>6, PrefixElems, PrefixFollows DEF taken
<1>8. \A w \in taken : w \in Works /\ phase[w] \in Live /\ phase'[w] \in Live /\ w \notin Signals
  BY <1>2, <1>3, <1>5, <1>7, LinesFacts, ListedIsLive DEF taken
<1>9. Follows(b.works, MayFollow')
  BY <1>7, <1>8, FollowsStep DEF taken
<1>10. ASSUME NEW t \in Slots, NEW x \in Priorities
       PROVE  /\ Follows(queue'[t][x], MayFollow')
              /\ Elems(queue'[t][x]) \subseteq Elems(queue[t][x])
  <2> DEFINE k == queue'[t][x]
  <2>1. k \in Seq(Works) /\ Follows(k, MayFollow) /\ Elems(k) \subseteq Elems(queue[t][x])
    BY <1>5, LinesFacts, WithoutElems, WithoutFollows
  <2>2. \A w \in Elems(k) : phase[w] \in Live /\ phase'[w] \in Live
    BY <2>1, LinesFacts, ListedIsLive
  <2> HIDE DEF k
  <2>3. Follows(k, MayFollow')
    BY <2>1, <2>2, FollowsStep
  <2> QED BY <2>1, <2>3 DEF k
<1>11. ASSUME NEW v \in taken, NEW w \in Elems(queue'[s][p])
       PROVE  <<v, w>> \in MayFollow'
  <2>1. w \in Elems(queue[s][p]) /\ w \notin taken
    BY <1>2, <1>5, LinesFacts, WithoutElems
  <2>2. /\ w \in Works /\ phase[w] \in Live /\ phase'[w] \in Live
        /\ v \in Works /\ phase[v] \in Live /\ phase'[v] \in Live
    BY <1>2, <1>8, <2>1, LinesFacts, ListedIsLive
  <2>3. CASE w \in Signals
    BY <2>2, <2>3 DEF MayFollow, FollowersKept
  <2>4. CASE w \notin Signals
    <3>1. PICK i \in 1..n : q[i] = v
      BY <1>7 DEF taken, Elems
    <3>2. PICK j \in 1..Len(q) : q[j] = w
      BY <1>3, <2>1, <2>4 DEF Elems
    <3>3. j \notin 1..n
      BY <1>7, <2>1, <3>2 DEF taken, Elems
    <3>4. i \in 1..Len(q) /\ i < j
      BY <1>3, <3>1, <3>2, <3>3
    <3>5. <<v, w>> \in MayFollow
      BY <1>3, <3>1, <3>2, <3>4 DEF Follows
    <3> QED BY <2>2, <3>5 DEF FollowersKept
  <2> QED BY <2>3, <2>4
<1>12. ASSUME NEW t \in Slots
       PROVE  /\ Follows(active'[t].works, MayFollow')
              /\ \A w \in Elems(active'[t].works) : w \notin Signals'
              /\ \A v \in Elems(active'[t].works) :
                    \A w \in Elems(queue'[t][active'[t].priority]) : <<v, w>> \in MayFollow'
  <2>1. CASE t = s
    BY <1>4, <1>5, <1>8, <1>9, <1>11, <2>1 DEF taken, FollowersKept
  <2>2. CASE t # s
    BY <1>5, <1>10, <2>2, BatchKeepsLine
  <2> QED BY <2>1, <2>2
<1> QED BY <1>10, <1>12 DEF LinesInv

\* A batch, or what is left of it, goes back in front of the deque it came from.
LEMMA ReturnKeepsLines ==
    ASSUME CoordinatorInv, LinesInv, FollowersKept, NEW s \in Slots,
           NEW back \in Seq(Works), NEW rest \in Seq(Works), NEW p \in Priorities,
           Follows(back, MayFollow), Elems(back) \subseteq Elems(active[s].works),
           Elems(back) # {} => p = active[s].priority,
           Follows(rest, MayFollow), Elems(rest) \subseteq Elems(queue[s][p]),
           \A w \in Elems(back \o rest) : phase'[w] \in Live
    PROVE  Follows(back \o rest, MayFollow')
<1>1. Elems(back \o rest) = Elems(back) \cup Elems(rest) /\ back \o rest \in Seq(Works)
  BY ConcatElems
<1>2. \A w \in Elems(back \o rest) : w \in Works /\ phase[w] \in Live
  BY <1>1, LinesFacts
<1>3. \A v \in Elems(back), w \in Elems(rest) : <<v, w>> \in MayFollow
  BY LinesFacts
<1>4. Follows(back \o rest, MayFollow)
  BY <1>3, ConcatFollows
<1> QED BY <1>1, <1>2, <1>4, FollowsStep

\* A batch that is put back goes in front of its deque as a whole, so the lines
\* keep their order.
LEMMA RetryKeepsLines ==
    ASSUME CoordinatorInv, CoordinatorInv', LinesInv, FollowersKept,
           NEW b, b.slot \in Slots, b = active[b.slot], RetryStart(b)
    PROVE  LinesInv'
<1> DEFINE s == b.slot
           p == b.priority
<1>1. CoordinatorTypeOK /\ s \in Slots /\ p \in Priorities
  BY InvFacts, LinesFacts
<1>2. /\ \A t \in Slots : active'[t] = IF t = s THEN NoBatch ELSE active[t]
      /\ \A t \in Slots, x \in Priorities :
            queue'[t][x] = IF t = s /\ x = p THEN b.works \o queue[t][x] ELSE queue[t][x]
  BY <1>1 DEF RetryStart, Requeued, CoordinatorTypeOK
<1> HIDE DEF s, p
<1>3. Follows(b.works \o queue[s][p], MayFollow')
  <2>1. \A w \in Elems(b.works \o queue[s][p]) : phase'[w] \in Live
    BY <1>1, <1>2, ListedIsLive
  <2> QED BY <1>1, <2>1, LinesFacts, ReturnKeepsLines DEF s, p
<1>4. ASSUME NEW t \in Slots, NEW x \in Priorities
      PROVE  Follows(queue'[t][x], MayFollow')
  <2>1. CASE t = s /\ x = p
    BY <1>2, <1>3, <2>1
  <2>2. CASE ~(t = s /\ x = p)
    <3>1. queue'[t][x] = queue[t][x]
      BY <1>2, <2>2
    <3> QED BY <3>1, LinesFacts, ListedIsLive, FollowsStep
  <2> QED BY <2>1, <2>2
<1>5. \A t \in Slots : t = s \/ \A x \in Priorities : queue'[t][x] = queue[t][x]
  BY <1>2
<1> QED BY <1>2, <1>4, <1>5, BatchKeepsLine DEF LinesInv

\* What a cancellation leaves of a batch returns to the deque the batch came from.
LEMMA CancelRunKeepsLines ==
    ASSUME CoordinatorInv, CoordinatorInv', LinesInv, FollowersKept,
           NEW r \in Runs, CancelRun(r)
    PROVE  LinesInv'
<1> DEFINE hit == CancelledSlots(r)
           cancelled == CancelledWorks(r)
           OfPriority(x) == {w \in RetainedWorks(r) : Priority(item[w].source) = x}
           Returned(t, x) == Only(active[t].works, OfPriority(x))
           Rest(t, x) == Without(queue[t][x], cancelled)
<1>1. /\ \A t \in Slots : active'[t] = IF t \in hit THEN NoBatch ELSE active[t]
      /\ queue' = [t \in Slots |-> [x \in Priorities |->
                     IF t \in hit THEN Returned(t, x) \o Rest(t, x) ELSE Rest(t, x)]]
  BY Zenon DEF CancelRun
<1> HIDE DEF hit, cancelled
<1>2. \A t \in Slots, x \in Priorities :
         /\ Rest(t, x) \in Seq(Works) /\ Follows(Rest(t, x), MayFollow)
         /\ Elems(Rest(t, x)) \subseteq Elems(queue[t][x])
  BY LinesFacts, WithoutElems, WithoutFollows
<1>3. \A t \in Slots, x \in Priorities :
         /\ Returned(t, x) \in Seq(Works) /\ Follows(Returned(t, x), MayFollow)
         /\ Elems(Returned(t, x)) = Elems(active[t].works) \cap OfPriority(x)
  BY LinesFacts, OnlyElems, OnlyFollows
<1> HIDE DEF Returned, Rest
<1>4. \A t \in Slots, x \in Priorities : Elems(Returned(t, x)) # {} => x = active[t].priority
  BY <1>3, ClaimedFacts
<1> HIDE DEF OfPriority
<1>5. ASSUME NEW t \in Slots, NEW x \in Priorities
      PROVE  Follows(queue'[t][x], MayFollow')
  <2>1. \A w \in Elems(queue'[t][x]) : phase'[w] \in Live
    BY ListedIsLive
  <2>2. CASE t \in hit
    <3>1. queue'[t][x] = Returned(t, x) \o Rest(t, x)
      BY <1>1, <2>2
    <3> QED BY <1>2, <1>3, <1>4, <2>1, <3>1, ReturnKeepsLines
  <2>3. CASE t \notin hit
    <3>1. queue'[t][x] = Rest(t, x)
      BY <1>1, <2>3
    <3> QED BY <1>2, <2>1, <3>1, LinesFacts, FollowsStep
  <2> QED BY <2>2, <2>3
<1>6. \A t \in Slots : t \notin hit => \A x \in Priorities : queue'[t][x] = Rest(t, x)
  BY <1>1
<1> QED BY <1>1, <1>2, <1>5, <1>6, BatchKeepsLine DEF LinesInv

\* The survivors of a failure have no run: they may follow one another in any order.
LEMMA LoseRuntimeKeepsLines ==
    ASSUME CoordinatorInv, CoordinatorInv', LinesInv, FollowersKept,
           NEW s \in Slots, NEW c, LoseRuntime(s, c)
    PROVE  LinesInv'
<1> DEFINE survivors == SurvivingWorks(s, c)
           OfPriority(x) == {w \in Works : Priority(item[w].source) = x}
<1>1. CoordinatorTypeOK
  BY InvFacts
<1>2. PICK order \in Orders(survivors) :
         queue' = [queue EXCEPT ![s] = [p \in Priorities |-> Only(order, OfPriority(p))]]
  BY DEF LoseRuntime
<1>3. survivors \subseteq Works /\ IsFiniteSet(survivors)
      /\ \A w \in survivors : item[w].run = NoRun
  BY FS_Subset, ConstantsAssumption DEF SurvivingWorks, OfSlot
<1>4. order \in Seq(Works) /\ Elems(order) = survivors
  BY <1>3, OrdersElems, FS_CardinalityType
<1>5. /\ \A t \in Slots : active'[t] = IF t = s THEN NoBatch ELSE active[t]
      /\ \A t \in Slots, x \in Priorities :
            queue'[t][x] = IF t = s THEN Only(order, OfPriority(x)) ELSE queue[t][x]
      /\ item' = item
  BY <1>1, <1>2 DEF LoseRuntime, CoordinatorTypeOK
<1> HIDE DEF survivors, OfPriority
<1>6. ASSUME NEW t \in Slots, NEW x \in Priorities
      PROVE  Follows(queue'[t][x], MayFollow')
  <2>1. CASE t = s
    <3> DEFINE q == Only(order, OfPriority(x))
    <3>1. q \in Seq(Works) /\ Elems(q) \subseteq survivors
      BY <1>4, OnlyElems
    <3> HIDE DEF q
    <3>2. \A i \in 1..Len(q) : q[i] \in Works /\ item'[q[i]].run = NoRun
      BY <1>3, <1>5, <3>1 DEF Elems
    <3>3. Follows(q, MayFollow')
      BY <3>2 DEF Follows, MayFollow
    <3> QED BY <1>5, <2>1, <3>3 DEF q
  <2>2. CASE t # s
    <3>1. queue'[t][x] = queue[t][x]
      BY <1>5, <2>2
    <3> QED BY <3>1, LinesFacts, ListedIsLive, FollowsStep
  <2> QED BY <2>1, <2>2
<1>7. \A t \in Slots : t = s \/ \A x \in Priorities : queue'[t][x] = queue[t][x]
  BY <1>5
<1> QED BY <1>5, <1>6, <1>7, BatchKeepsLine DEF LinesInv

\* Every step moves phases as PhasesMove says.
LEMMA NextMovesPhases ==
    ASSUME IInv, IInv', Next
    PROVE  PhasesMove
<1>1. /\ CoordinatorTypeOK /\ CoordinatorTypeOK' /\ Assigned /\ QueuedWorkIsInItsDeque
      /\ \A t \in Slots, x \in Priorities :
            queue[t][x] \in Seq(Works) /\ Elems(queue[t][x]) \subseteq Works
  BY InvFacts DEF IInv, CoordinatorInv
<1>2. ASSUME NEW w \in Works, NEW m, CommitEnqueue(w, m)
      PROVE  PhasesMove
  <2>1. phase[w] = "leased" /\ item[w].slot \in Slots
    BY <1>1, <1>2 DEF CommitEnqueue, CanCommit, Assigned
  <2>2. /\ \A v \in Works : phase'[v] = IF v = w THEN "queued" ELSE phase[v]
        /\ item'[w].slot = item[w].slot
    BY <1>1, <1>2 DEF CommitEnqueue, CoordinatorTypeOK, Item
  <2>3. NewWorks = {w}
    BY <2>1, <2>2 DEF NewWorks
  <2> QED BY <2>1, <2>2, <2>3 DEF PhasesMove, Live
<1>3. ASSUME NEW s \in Slots, NEW unread \in Seq(Messages), ReconcileMailbox(s, unread)
      PROVE  PhasesMove
  <2>1. Orphans(s, unread) \in Seq(Messages)
    BY WithoutElems DEF Orphans
  <2>2. PICK drains \in FreshWorks(Len(Orphans(s, unread))) :
           /\ \A w \in Works : phase'[w] = IF w \in Stale(s, unread) THEN "completed"
                                           ELSE IF w \in Elems(drains) THEN "queued"
                                           ELSE phase[w]
           /\ \A w \in Works : w \in Elems(drains) =>
                 item'[w].slot = s /\ item'[w].source = "RecoveryDrain"
    BY <1>3 DEF ReconcileMailbox, Drain
  <2>3. \A w \in Elems(drains) : w \in Works /\ phase[w] = "absent"
    BY <2>1 DEF FreshWorks, Elems
  <2>4. \A w \in Stale(s, unread) : phase[w] = "queued"
    BY DEF Stale, OfSlot
  <2>5. NewWorks = Elems(drains)
    BY <2>2, <2>3, <2>4 DEF NewWorks
  <2>6. \A w \in Works : phase[w] \in Live => phase'[w] \in Live \cup Terminal
    BY <2>2, <2>3 DEF Live, Terminal
  <2>7. \A w \in Works : phase[w] \notin Live /\ phase'[w] \in Live => w \in NewWorks
    BY <2>2, <2>4, <2>5 DEF Live
  <2> QED BY <2>2, <2>3, <2>5, <2>6, <2>7 DEF PhasesMove
<1>4. ASSUME NEW s \in Slots, Claim(s)
      PROVE  PhasesMove
  <2> DEFINE taken == Elems(ClaimedBatch(s).works)
  <2>1. SelectedPriority(s) \in Priorities
    BY DEF SelectedPriority, Priorities
  <2>2. /\ MessageWorks(s) \in Seq(Works) /\ MessageWorks(s) # <<>>
        /\ Elems(MessageWorks(s)) \subseteq Elems(queue[s][SelectedPriority(s)])
    BY <1>1, <1>4, <2>1, WithoutElems DEF MessageWorks, Claim
  <2>3. \A w \in taken : w \in Works /\ phase[w] = "queued"
    BY <1>1, <2>1, <2>2, LeadingWorksElems DEF QueuedWorkIsInItsDeque, ClaimedBatch
  <2>4. \A w \in Works : phase'[w] = IF w \in taken THEN "starting" ELSE phase[w]
    BY <1>4 DEF Claim, MoveTo
  <2> HIDE DEF taken
  <2> QED BY <2>3, <2>4 DEF PhasesMove, NewWorks, Live
<1> QED BY <1>1, <1>2, <1>3, <1>4, NextIsStageStep, ReleasesMovePhases DEF StageStep

\* Every step keeps the lines.
LEMMA NextLines ==
    ASSUME IInv, IInv', LinesInv, FollowersKept, Next
    PROVE  LinesInv'
<1>1. CoordinatorInv /\ CoordinatorInv' /\ CoordinatorTypeOK
  BY DEF IInv, CoordinatorInv
<1>2. ASSUME queue' = queue, \A t \in Slots : active'[t] \in {active[t], NoBatch}
      PROVE  LinesInv'
  BY <1>1, <1>2, LinesShrink
<1>3. CASE Enqueue
  <2>1. ASSUME NEW w \in Works, NEW m, CommitEnqueue(w, m)
        PROVE  LinesInv'
    BY <1>1, <2>1, CommitKeepsLines
  <2> QED BY <1>2, <1>3, <2>1 DEF Enqueue, AcquireEnqueue, AbortEnqueue
<1>4. ASSUME NEW s \in Slots, Reconcile(s)
      PROVE  LinesInv'
  BY <1>1, <1>4, UnreadListsType, ReconcileKeepsLines DEF Reconcile
<1>5. ASSUME NEW s \in Slots, ClaimNext(s)
      PROVE  LinesInv'
  BY <1>1, <1>5, ClaimKeepsLines DEF ClaimNext
<1>6. ASSUME NEW s \in Slots, ObserveSignals(s)
      PROVE  LinesInv'
  BY <1>2, <1>6 DEF ObserveSignals, coordinatorVars
<1>7. ASSUME NEW s \in Slots, SettleSignals(s)
      PROVE  LinesInv'
  <2> DEFINE S == settling[s]
  <2>1. /\ \A t \in Slots, x \in Priorities :
              queue'[t][x] = IF t = s THEN Without(queue[t][x], S) ELSE queue[t][x]
        /\ active' = active
    BY <1>1, <1>7 DEF SettleSignals, CompleteSignals, CoordinatorTypeOK
  <2> HIDE DEF S
  <2> QED BY <1>1, <2>1, LinesShrink
<1>8. ASSUME NEW b \in issued, Report(b)
      PROVE  LinesInv'
  <2>1. b.slot \in Slots /\ b = active[b.slot]
    BY <1>8, CurrentHandle DEF Report, MarkStarted, RetryStart, TerminalizeBatch
  <2>2. CASE MarkStarted(b)
    BY <1>2, <2>2 DEF MarkStarted
  <2>3. CASE RetryStart(b)
    BY <1>1, <2>1, <2>3, RetryKeepsLines
  <2>4. ASSUME NEW end \in Terminal, TerminalizeBatch(b, end)
        PROVE  LinesInv'
    BY <1>1, <1>2, <2>4 DEF TerminalizeBatch, CoordinatorTypeOK
  <2> QED BY <1>8, <2>2, <2>3, <2>4 DEF Report
<1>9. CASE Interrupt
  <2>1. ASSUME NEW r \in Runs, CancelRun(r)
        PROVE  LinesInv'
    BY <1>1, <2>1, CancelRunKeepsLines
  <2>2. ASSUME NEW s \in Slots, PauseSlot(s)
        PROVE  LinesInv'
    BY <1>2, <2>2 DEF PauseSlot
  <2>3. ASSUME NEW s \in Slots, NEW c, SetRuntimeConstraint(s, c)
        PROVE  LinesInv'
    BY <1>1, <1>2, <2>3, LoseRuntimeKeepsLines DEF SetRuntimeConstraint, AllowRuntime
  <2>4. ASSUME NEW s \in Slots, RemoveSlot(s)
        PROVE  LinesInv'
    <3>1. /\ \A t \in Slots, x \in Priorities :
                queue'[t][x] = IF t = s THEN <<>> ELSE queue[t][x]
          /\ \A t \in Slots : active'[t] = IF t = s THEN NoBatch ELSE active[t]
      BY <1>1, <2>4 DEF RemoveSlot, CoordinatorTypeOK, EmptyQueues
    <3> QED BY <1>1, <3>1, LinesShrink
  <2>5. CASE Stop
    <3>1. /\ \A t \in Slots, x \in Priorities : queue'[t][x] = <<>>
          /\ \A t \in Slots : active'[t] = NoBatch
      BY <2>5 DEF Stop, EmptyQueues
    <3> QED BY <1>1, <3>1, LinesShrink
  <2> QED BY <1>9, <2>1, <2>2, <2>3, <2>4, <2>5 DEF Interrupt
<1> QED BY <1>3, <1>4, <1>5, <1>6, <1>7, <1>8, <1>9 DEF Next

\* What the order depends on.
OrderInv == ListedOnce /\ ArrivalsAreLive /\ LinesInv

\* The lines are in order, in every reachable state.
LEMMA SpecOrderInv == Spec => []OrderInv
<1>1. SlotWorkInit => OrderInv
  <2> SUFFICES ASSUME SlotWorkInit PROVE OrderInv
    OBVIOUS
  <2>1. ListedOnce
    BY NothingTwice DEF SlotWorkInit, Init, EmptyQueues, ListedOnce
  <2>2. ArrivalsAreLive
    BY NothingTwice DEF SlotWorkInit, Init, ArrivalsAreLive, Elems, Live
  <2>3. LinesInv
    BY NothingFollows, NoBatchType DEF SlotWorkInit, Init, EmptyQueues, LinesInv
  <2> QED BY <2>1, <2>2, <2>3 DEF OrderInv
<1>2. IInv /\ IInv' /\ OrderInv /\ [Next]_vars => OrderInv'
  <2> SUFFICES ASSUME IInv, IInv', OrderInv, [Next]_vars PROVE OrderInv'
    OBVIOUS
  <2>1. CASE Next
    <3>1. ListedOnce' /\ AttributesKept /\ PhasesMove /\ RecordArrivals
      BY <2>1, NextListedOnce, AttributesStep, NextMovesPhases DEF OrderInv, Next
    <3>2. ArrivalsAreLive' /\ FollowersKept
      BY <3>1, ArrivalsStep, FollowersStep DEF OrderInv
    <3>3. LinesInv'
      BY <2>1, <3>2, NextLines DEF OrderInv
    <3> QED BY <3>1, <3>2, <3>3 DEF OrderInv
  <2>2. CASE UNCHANGED vars
    <3>1. UNCHANGED <<phase, item, queue, active, arrivals>>
      BY <2>2 DEF vars, coordinatorVars, clientVars
    <3>2. ListedOnce'
      BY <3>1 DEF OrderInv, ListedOnce
    <3>3. ArrivalsAreLive'
      BY <3>1 DEF OrderInv, ArrivalsAreLive
    <3>4. Signals' = Signals /\ MayFollow' = MayFollow
      BY <3>1 DEF Signals, MayFollow, ArrivedBefore
    <3>5. LinesInv'
      BY <3>1, <3>4 DEF OrderInv, LinesInv
    <3> QED BY <3>2, <3>3, <3>5 DEF OrderInv
  <2> QED BY <2>1, <2>2
<1> QED BY <1>1, <1>2, SpecIInv, PTL DEF Spec

\* A line of messages, position by position.
LEMMA LineFollows ==
    ASSUME IInv, OrderInv, NEW s \in Slots, NEW p \in Priorities
    PROVE  /\ Line(s, p) \in Seq(Works)
           /\ Follows(Line(s, p), MayFollow)
           /\ \A w \in Elems(Line(s, p)) : w \notin Signals
<1> DEFINE waiting == Without(queue[s][p], Signals)
           works == active[s].works
<1>1. CoordinatorInv /\ LinesInv
  BY DEF IInv, OrderInv
<1>2. /\ waiting \in Seq(Works) /\ Elems(waiting) = Elems(queue[s][p]) \ Signals
      /\ Follows(waiting, MayFollow)
  BY <1>1, LinesFacts, WithoutElems, WithoutFollows
<1>3. /\ works \in Seq(Works) /\ Follows(works, MayFollow)
      /\ \A w \in Elems(works) : w \notin Signals
  BY <1>1, LinesFacts
<1>4. CASE active[s].priority = p
  <2>1. \A v \in Elems(works), w \in Elems(waiting) : <<v, w>> \in MayFollow
    BY <1>1, <1>2, <1>4, LinesFacts
  <2>2. Line(s, p) = works \o waiting
    BY <1>4 DEF Line
  <2> HIDE DEF works, waiting
  <2> QED BY <1>2, <1>3, <2>1, <2>2, ConcatElems, ConcatFollows
<1>5. CASE active[s].priority # p
  BY <1>2, <1>5 DEF Line
<1> QED BY <1>4, <1>5

\* Messages of one slot and priority are claimed in the order in which they were
\* queued, however often their batch is retried, cancelled in part or requeued; only
\* works without a run may change places, among themselves (coordinator.rs pushes
\* works back to the fronts of the deques one by one, from several places).
THEOREM MessagesKeepTheirOrderHolds == Spec => []MessagesKeepTheirOrder
<1>1. IInv /\ OrderInv => MessagesKeepTheirOrder
  <2> SUFFICES ASSUME IInv, OrderInv, NEW s \in Slots, NEW p \in Priorities,
                      NEW i \in 1..Len(Line(s, p)), NEW j \in 1..Len(Line(s, p)), i < j
               PROVE  \/ ArrivedBefore(Line(s, p)[i], Line(s, p)[j])
                      \/ {item[Line(s, p)[i]].run, item[Line(s, p)[j]].run} = {NoRun}
    BY DEF MessagesKeepTheirOrder
  <2>1. <<Line(s, p)[i], Line(s, p)[j]>> \in MayFollow
    BY LineFollows DEF Follows
  <2>2. Line(s, p)[i] \notin Signals /\ Line(s, p)[j] \notin Signals
    BY LineFollows DEF Elems
  <2> QED BY <2>1, <2>2 DEF MayFollow
<1> QED BY <1>1, SpecIInv, SpecOrderInv, PTL
=============================================================================
