----------------------- MODULE WorkCoordinatorProofs -----------------------
(***************************************************************************)
(* What every operation of the slot work coordinator preserves, for all    *)
(* slots, works, messages, runs and bounds, whoever calls it.              *)
(*                                                                         *)
(* The argument: every operation moves work items between the phases, the  *)
(* deques and the active batches together.  DequeStep and ReleaseStep say  *)
(* what such a move must be like to preserve Ownership; one lemma per      *)
(* operation shows that it is like that, provided that a report comes from *)
(* the current batch.                                                      *)
(***************************************************************************)
EXTENDS WorkCoordinator, WorkQueueProofs, FiniteSetTheorems

\* The coordinator's part of TypeOK.
CoordinatorTypeOK ==
    /\ phase \in [Works -> Phases]
    /\ item \in [Works -> Item]
    /\ slots \subseteq Slots
    /\ queue \in [Slots -> [Priorities -> Seq(Works)]]
    /\ active \in [Slots -> Batch]
    /\ started \in [Slots -> BOOLEAN]
    /\ paused \in [Slots -> BOOLEAN]
    /\ constraint \in [Slots -> Constraints]
    /\ removed \in [Slots -> BOOLEAN]
    /\ nextOp \in 0..MaxOps

\* A work item that was ever asked for has a slot.
Assigned == \A w \in Works : phase[w] # "absent" => item[w].slot \in Slots

\* A slot without a batch has no turn id either: a claim finds started cleared.
IdleSlotsHaveNotStarted == \A s \in Slots : active[s] = NoBatch => ~started[s]

\* What every operation of the coordinator preserves, whoever calls it, as long
\* as a reported handle is the current one.
CoordinatorInv ==
    /\ CoordinatorTypeOK
    /\ Assigned
    /\ IdleSlotsHaveNotStarted
    /\ Ownership

\* Every work source has one of the three priorities.
LEMMA PriorityType == \A source : Priority(source) \in Priorities
  BY DEF Priority, Priorities

\* The absent batch has the type of a batch and no members.
LEMMA NoBatchType == NoBatch \in Batch /\ Elems(NoBatch.works) = {}
  BY EmptySeq DEF NoBatch, Batch, Elems, Priorities

\* acquire_enqueue touches an absent work item only: it is in no deque and in no
\* batch.
LEMMA AcquirePreserves ==
    ASSUME CoordinatorInv, NEW w \in Works, NEW s \in Slots, NEW source \in WorkSource,
           NEW r \in Runs \cup {NoRun}, AcquireEnqueue(w, s, source, r)
    PROVE  CoordinatorInv'
<1> USE DEF CoordinatorInv, AcquireEnqueue
<1>1. CoordinatorTypeOK'
  BY DEF CoordinatorTypeOK, Phases, Live, Terminal, Item
<1>2. Assigned'
  BY DEF Assigned, CoordinatorTypeOK, Item
<1>3. IdleSlotsHaveNotStarted'
  BY DEF IdleSlotsHaveNotStarted
<1>4. QueuedWorkIsInItsDeque'
  BY DEF QueuedWorkIsInItsDeque, Ownership, CoordinatorTypeOK
<1>5. ClaimedWorkIsInItsBatch'
  BY DEF ClaimedWorkIsInItsBatch, Ownership, CoordinatorTypeOK
<1> QED BY <1>1, <1>2, <1>3, <1>4, <1>5 DEF Ownership

\* commit_enqueue appends a leased item, which no deque holds, to the deque of
\* its own slot and priority.
LEMMA CommitPreserves ==
    ASSUME CoordinatorInv, NEW w \in Works, NEW m \in Messages \cup {NoMessage},
           CommitEnqueue(w, m)
    PROVE  CoordinatorInv'
<1> DEFINE s == item[w].slot
           p == Priority(item[w].source)
<1>1. CoordinatorTypeOK /\ Assigned /\ IdleSlotsHaveNotStarted
      /\ QueuedWorkIsInItsDeque /\ ClaimedWorkIsInItsBatch
  BY DEF CoordinatorInv, Ownership
<1>2. phase[w] = "leased" /\ s \in Slots /\ p \in Priorities
  BY <1>1, PriorityType DEF Assigned, CommitEnqueue, CanCommit
<1>3. /\ Append(queue[s][p], w) \in Seq(Works)
      /\ Elems(Append(queue[s][p], w)) = Elems(queue[s][p]) \cup {w}
  BY <1>1, <1>2, AppendElems DEF CoordinatorTypeOK
<1>4. CoordinatorTypeOK'
  <2>1. queue' \in [Slots -> [Priorities -> Seq(Works)]]
    BY <1>1, <1>2, <1>3 DEF CoordinatorTypeOK, CommitEnqueue
  <2>2. item' \in [Works -> Item]
    BY <1>1, ZenonT(30) DEF CoordinatorTypeOK, Item, CommitEnqueue
  <2>3. phase' \in [Works -> Phases] /\ paused' \in [Slots -> BOOLEAN]
    BY <1>1 DEF CoordinatorTypeOK, Phases, Live, CommitEnqueue
  <2> QED BY <1>1, <2>1, <2>2, <2>3 DEF CoordinatorTypeOK, CommitEnqueue
<1>5. /\ \A v \in Works : item'[v].slot = item[v].slot /\ item'[v].source = item[v].source
      /\ \A v \in Works : phase'[v] = IF v = w THEN "queued" ELSE phase[v]
      /\ active' = active /\ started' = started
  BY <1>1 DEF CoordinatorTypeOK, Item, CommitEnqueue
<1>6. \A t \in Slots, x \in Priorities :
         Elems(queue'[t][x]) = IF t = s /\ x = p THEN Elems(queue[t][x]) \cup {w}
                               ELSE Elems(queue[t][x])
  BY <1>1, <1>2, <1>3 DEF CoordinatorTypeOK, CommitEnqueue
<1>7. Assigned'
  BY <1>1, <1>2, <1>5 DEF Assigned
<1>8. IdleSlotsHaveNotStarted'
  BY <1>1, <1>5 DEF IdleSlotsHaveNotStarted
<1>9. QueuedWorkIsInItsDeque'
  <2>1. \A t \in Slots, x \in Priorities : Elems(queue[t][x]) \subseteq Works
    BY <1>1, ElemsIn DEF CoordinatorTypeOK
  <2>2. ASSUME NEW t \in Slots, NEW x \in Priorities, NEW v \in Elems(queue'[t][x])
        PROVE  /\ phase'[v] = "queued"
               /\ item'[v].slot = t
               /\ Priority(item'[v].source) = x
    <3>1. CASE v = w
      <4>1. w \notin Elems(queue[t][x])
        BY <1>1, <1>2 DEF QueuedWorkIsInItsDeque
      <4>2. t = s /\ x = p
        BY <1>6, <3>1, <4>1
      <4> QED BY <1>5, <3>1, <4>2
    <3>2. CASE v # w
      <4>1. v \in Elems(queue[t][x])
        BY <1>6, <3>2
      <4> QED BY <1>1, <1>5, <2>1, <3>2, <4>1 DEF QueuedWorkIsInItsDeque
    <3> QED BY <3>1, <3>2
  <2>3. ASSUME NEW v \in Works, phase'[v] = "queued"
        PROVE  /\ item'[v].slot \in Slots
               /\ v \in Elems(queue'[item'[v].slot][Priority(item'[v].source)])
    <3>1. CASE v = w
      BY <1>2, <1>5, <1>6, <3>1
    <3>2. CASE v # w
      <4>1. /\ item[v].slot \in Slots
            /\ v \in Elems(queue[item[v].slot][Priority(item[v].source)])
        BY <1>1, <1>5, <2>3, <3>2 DEF QueuedWorkIsInItsDeque
      <4>2. v \in Elems(queue'[item[v].slot][Priority(item[v].source)])
        BY <1>6, <4>1, PriorityType
      <4> QED BY <1>5, <4>1, <4>2
    <3> QED BY <3>1, <3>2
  <2> QED BY <2>2, <2>3 DEF QueuedWorkIsInItsDeque
<1>10. ClaimedWorkIsInItsBatch'
  <2>1. \A t \in Slots : Elems(active[t].works) \subseteq Works
    BY <1>1, ElemsIn DEF CoordinatorTypeOK, Batch
  <2> QED BY <1>1, <1>2, <1>5, <2>1 DEF ClaimedWorkIsInItsBatch
<1> QED BY <1>4, <1>7, <1>8, <1>9, <1>10 DEF Ownership, CoordinatorInv

\* The parts of CoordinatorInv, with the ranges of the deques and batches.
LEMMA InvFacts ==
    ASSUME CoordinatorInv
    PROVE  /\ CoordinatorTypeOK /\ Assigned /\ IdleSlotsHaveNotStarted
           /\ QueuedWorkIsInItsDeque /\ ClaimedWorkIsInItsBatch
           /\ \A s \in Slots, p \in Priorities :
                 queue[s][p] \in Seq(Works) /\ Elems(queue[s][p]) \subseteq Works
           /\ \A s \in Slots :
                 active[s].works \in Seq(Works) /\ Elems(active[s].works) \subseteq Works
<1>1. /\ CoordinatorTypeOK /\ Assigned /\ IdleSlotsHaveNotStarted
      /\ QueuedWorkIsInItsDeque /\ ClaimedWorkIsInItsBatch
  BY DEF CoordinatorInv, Ownership
<1>2. \A s \in Slots, p \in Priorities : queue[s][p] \in Seq(Works)
  BY <1>1 DEF CoordinatorTypeOK
<1>3. \A s \in Slots : active[s].works \in Seq(Works)
  BY <1>1 DEF CoordinatorTypeOK, Batch
<1> QED BY <1>1, <1>2, <1>3, ElemsIn

\* abort_enqueue releases a leased item, which is in no deque and in no batch.
LEMMA AbortPreserves ==
    ASSUME CoordinatorInv, NEW w \in Works, AbortEnqueue(w)
    PROVE  CoordinatorInv'
<1> USE InvFacts DEF AbortEnqueue
<1>1. CoordinatorTypeOK'
  BY DEF CoordinatorTypeOK, Phases
<1>2. Assigned' /\ IdleSlotsHaveNotStarted'
  BY DEF Assigned, IdleSlotsHaveNotStarted, CoordinatorTypeOK
<1>3. QueuedWorkIsInItsDeque'
  BY DEF QueuedWorkIsInItsDeque, CoordinatorTypeOK
<1>4. ClaimedWorkIsInItsBatch'
  BY DEF ClaimedWorkIsInItsBatch, CoordinatorTypeOK
<1> QED BY <1>1, <1>2, <1>3, <1>4 DEF CoordinatorInv, Ownership

\* No existing work item changes its slot or its source.
SameAttributes ==
    \A v \in Works : phase[v] # "absent" =>
       item'[v].slot = item[v].slot /\ item'[v].source = item[v].source

\* The step puts Enter in the deques, and in phase "queued", and takes Leave out
\* of both.
DequesMove(Enter, Leave) ==
    /\ Enter \subseteq Works
    /\ \A v \in Enter : item'[v].slot \in Slots
    /\ \A v \in Works : phase'[v] = "queued" <=>
                          v \in Enter \/ (phase[v] = "queued" /\ v \notin Leave)
    /\ \A t \in Slots, x \in Priorities :
          Elems(queue'[t][x]) = {v \in Elems(queue[t][x]) : v \notin Leave} \cup
             {v \in Enter : item'[v].slot = t /\ Priority(item'[v].source) = x}

\* The step clears the active batches of the slots in S, whose work leaves the
\* claimed phases, and leaves the other batches alone.
BatchesLeave(S) ==
    /\ \A t \in Slots : active'[t] = IF t \in S THEN NoBatch ELSE active[t]
    /\ \A t \in Slots : t \notin S => started'[t] = started[t]
    /\ \A v \in Works : /\ phase'[v] \in {"starting", "running"} =>
                             phase[v] = phase'[v] /\ item[v].slot \notin S
                        /\ phase[v] \in {"starting", "running"} /\ item[v].slot \notin S =>
                             phase'[v] = phase[v]

\* A step that moves deques and phases together keeps queued work in its deque.
LEMMA DequeStep ==
    ASSUME CoordinatorInv, SameAttributes, NEW Enter, NEW Leave, DequesMove(Enter, Leave)
    PROVE  QueuedWorkIsInItsDeque'
<1>1. /\ \A t \in Slots, x \in Priorities : Elems(queue[t][x]) \subseteq Works
      /\ QueuedWorkIsInItsDeque
  BY InvFacts
<1>2. ASSUME NEW t \in Slots, NEW x \in Priorities, NEW v \in Elems(queue'[t][x])
      PROVE  phase'[v] = "queued" /\ item'[v].slot = t /\ Priority(item'[v].source) = x
  <2>1. CASE v \in Enter /\ item'[v].slot = t /\ Priority(item'[v].source) = x
    <3>1. v \in Works
      BY <2>1 DEF DequesMove
    <3>2. phase'[v] = "queued"
      BY <2>1, <3>1 DEF DequesMove
    <3> QED BY <2>1, <3>1, <3>2 DEF SameAttributes
  <2>2. CASE v \in Elems(queue[t][x]) /\ v \notin Leave
    <3>1. /\ v \in Works /\ phase[v] = "queued"
          /\ item[v].slot = t /\ Priority(item[v].source) = x
      BY <1>1, <2>2 DEF QueuedWorkIsInItsDeque
    <3> QED BY <2>2, <3>1 DEF SameAttributes, DequesMove
  <2> QED BY <2>1, <2>2 DEF DequesMove
<1>3. ASSUME NEW v \in Works, phase'[v] = "queued"
      PROVE  /\ item'[v].slot \in Slots
             /\ v \in Elems(queue'[item'[v].slot][Priority(item'[v].source)])
  <2>1. CASE v \in Enter
    BY <2>1, PriorityType DEF SameAttributes, DequesMove
  <2>2. CASE phase[v] = "queued" /\ v \notin Leave
    <3>1. /\ item[v].slot \in Slots
          /\ v \in Elems(queue[item[v].slot][Priority(item[v].source)])
      BY <1>1, <2>2 DEF QueuedWorkIsInItsDeque
    <3> QED BY <2>2, <3>1, PriorityType DEF SameAttributes, DequesMove
  <2> QED BY <1>3, <2>1, <2>2 DEF DequesMove
<1> QED BY <1>2, <1>3 DEF QueuedWorkIsInItsDeque

\* A step that clears batches and phases together keeps claimed work in its
\* batch.
LEMMA ReleaseStep ==
    ASSUME CoordinatorInv, SameAttributes, NEW S, BatchesLeave(S)
    PROVE  ClaimedWorkIsInItsBatch'
<1>1. /\ \A t \in Slots : Elems(active[t].works) \subseteq Works
      /\ ClaimedWorkIsInItsBatch
  BY InvFacts
<1>2. ASSUME NEW t \in Slots, NEW v \in Elems(active'[t].works)
      PROVE  /\ phase'[v] = IF started'[t] THEN "running" ELSE "starting"
             /\ item'[v].slot = t
             /\ Priority(item'[v].source) = active'[t].priority
  <2>1. t \notin S /\ active'[t] = active[t] /\ started'[t] = started[t]
    BY NoBatchType DEF BatchesLeave
  <2>2. /\ v \in Works /\ item[v].slot = t /\ Priority(item[v].source) = active[t].priority
        /\ phase[v] = IF started[t] THEN "running" ELSE "starting"
    BY <1>1, <2>1 DEF ClaimedWorkIsInItsBatch
  <2>3. phase'[v] = phase[v]
    BY <2>1, <2>2 DEF BatchesLeave
  <2> QED BY <2>1, <2>2, <2>3 DEF SameAttributes
<1>3. ASSUME NEW v \in Works, phase'[v] \in {"starting", "running"}
      PROVE  item'[v].slot \in Slots /\ v \in Elems(active'[item'[v].slot].works)
  <2>1. phase[v] = phase'[v] /\ item[v].slot \notin S
    BY <1>3 DEF BatchesLeave
  <2>2. item[v].slot \in Slots /\ v \in Elems(active[item[v].slot].works)
    BY <1>1, <1>3, <2>1 DEF ClaimedWorkIsInItsBatch
  <2> QED BY <1>3, <2>1, <2>2 DEF SameAttributes, BatchesLeave
<1> QED BY <1>2, <1>3 DEF ClaimedWorkIsInItsBatch

\* The members of a slot's batch are its claimed work items.
LEMMA ClaimedFacts ==
    ASSUME CoordinatorInv, NEW s \in Slots
    PROVE  /\ \A w \in Elems(active[s].works) :
                 /\ w \in Works /\ item[w].slot = s /\ phase[w] \in {"starting", "running"}
                 /\ Priority(item[w].source) = active[s].priority
           /\ \A w \in Works : phase[w] \in {"starting", "running"} /\ item[w].slot = s
                 => w \in Elems(active[s].works)
  BY InvFacts DEF ClaimedWorkIsInItsBatch

\* mark_started by the current handle makes the whole batch running at once.
LEMMA MarkStartedPreserves ==
    ASSUME CoordinatorInv, NEW b, b.slot \in Slots, b = active[b.slot], b # NoBatch,
           MarkStarted(b)
    PROVE  CoordinatorInv'
<1> DEFINE s == b.slot
<1>1. /\ CoordinatorTypeOK /\ Assigned /\ IdleSlotsHaveNotStarted
      /\ QueuedWorkIsInItsDeque /\ ClaimedWorkIsInItsBatch
      /\ s \in Slots
      /\ Elems(b.works) \subseteq Works
      /\ \A t \in Slots, p \in Priorities : Elems(queue[t][p]) \subseteq Works
      /\ \A t \in Slots : Elems(active[t].works) \subseteq Works
  BY InvFacts
<1>2. /\ \A v \in Works : phase'[v] = IF v \in Elems(b.works) THEN "running" ELSE phase[v]
      /\ item' = item /\ queue' = queue /\ active' = active
      /\ \A t \in Slots : started'[t] = IF t = s THEN TRUE ELSE started[t]
  BY <1>1 DEF MarkStarted, MoveTo, CoordinatorTypeOK
<1>3. CoordinatorTypeOK'
  BY <1>1 DEF CoordinatorTypeOK, MarkStarted, MoveTo, Phases, Live
<1>4. Assigned' /\ IdleSlotsHaveNotStarted'
  BY <1>1, <1>2 DEF Assigned, IdleSlotsHaveNotStarted, ClaimedWorkIsInItsBatch
<1>5. \A w \in Elems(b.works) : item[w].slot = s /\ phase[w] \in {"starting", "running"}
                                /\ Priority(item[w].source) = b.priority
  BY <1>1 DEF ClaimedWorkIsInItsBatch
<1>6. QueuedWorkIsInItsDeque'
  BY <1>1, <1>2, <1>5, PriorityType DEF QueuedWorkIsInItsDeque
<1>7. ClaimedWorkIsInItsBatch'
  <2>1. ASSUME NEW t \in Slots, NEW w \in Elems(active'[t].works)
        PROVE  /\ phase'[w] = IF started'[t] THEN "running" ELSE "starting"
               /\ item'[w].slot = t
               /\ Priority(item'[w].source) = active'[t].priority
    <3>1. /\ w \in Works /\ item[w].slot = t /\ Priority(item[w].source) = active[t].priority
          /\ phase[w] = IF started[t] THEN "running" ELSE "starting"
      BY <1>1, <1>2 DEF ClaimedWorkIsInItsBatch
    <3>2. t # s => w \notin Elems(b.works)
      BY <1>5, <3>1
    <3> QED BY <1>2, <3>1, <3>2
  <2>2. \A w \in Works : phase'[w] \in {"starting", "running"} =>
           /\ item'[w].slot \in Slots
           /\ w \in Elems(active'[item'[w].slot].works)
    BY <1>1, <1>2, <1>5 DEF ClaimedWorkIsInItsBatch
  <2> QED BY <2>1, <2>2 DEF ClaimedWorkIsInItsBatch
<1> QED BY <1>3, <1>4, <1>6, <1>7 DEF CoordinatorInv, Ownership

\* complete_batch, fail_batch and cancel_batch by the current handle end the
\* whole batch and clear it.
LEMMA TerminalizePreserves ==
    ASSUME CoordinatorInv, NEW b, b.slot \in Slots, b = active[b.slot], b # NoBatch,
           NEW end \in Terminal, TerminalizeBatch(b, end)
    PROVE  CoordinatorInv'
<1> DEFINE s == b.slot
<1>1. /\ CoordinatorTypeOK /\ Assigned /\ IdleSlotsHaveNotStarted
      /\ QueuedWorkIsInItsDeque /\ ClaimedWorkIsInItsBatch
      /\ s \in Slots
      /\ Elems(b.works) \subseteq Works
      /\ \A t \in Slots, p \in Priorities : Elems(queue[t][p]) \subseteq Works
      /\ \A t \in Slots : Elems(active[t].works) \subseteq Works
  BY InvFacts
<1>2. /\ \A v \in Works : phase'[v] = IF v \in Elems(b.works) THEN end ELSE phase[v]
      /\ item' = item /\ queue' = queue
      /\ \A t \in Slots : active'[t] = IF t = s THEN NoBatch ELSE active[t]
      /\ \A t \in Slots : started'[t] = IF t = s THEN FALSE ELSE started[t]
  BY <1>1 DEF TerminalizeBatch, MoveTo, CoordinatorTypeOK
<1>3. CoordinatorTypeOK'
  BY <1>1, NoBatchType DEF CoordinatorTypeOK, TerminalizeBatch, MoveTo, Phases, Terminal
<1>4. \A w \in Elems(b.works) : item[w].slot = s /\ phase[w] \in {"starting", "running"}
  BY <1>1 DEF ClaimedWorkIsInItsBatch
<1>5. Assigned' /\ IdleSlotsHaveNotStarted'
  BY <1>1, <1>2, <1>4, ZenonT(30) DEF Assigned, IdleSlotsHaveNotStarted
<1>6. end \notin {"queued", "starting", "running"}
  BY DEF Terminal
<1>7. QueuedWorkIsInItsDeque'
  BY <1>1, <1>2, <1>4, <1>6, PriorityType DEF QueuedWorkIsInItsDeque
<1>8. ClaimedWorkIsInItsBatch'
  <2>1. \A v \in Works : v \in Elems(b.works) <=>
           phase[v] \in {"starting", "running"} /\ item[v].slot = s
    BY ClaimedFacts
  <2>2. BatchesLeave({s}) /\ SameAttributes
    BY <1>2, <1>6, <2>1 DEF BatchesLeave, SameAttributes
  <2> QED BY <2>2, ReleaseStep
<1> QED BY <1>3, <1>5, <1>7, <1>8 DEF CoordinatorInv, Ownership

\* retry_start by the current handle puts the whole batch back in the deque it
\* came from.
LEMMA RetryStartPreserves ==
    ASSUME CoordinatorInv, NEW b, b.slot \in Slots, b = active[b.slot], b # NoBatch,
           RetryStart(b)
    PROVE  CoordinatorInv'
<1> DEFINE s == b.slot
<1>1. /\ CoordinatorTypeOK /\ Assigned /\ IdleSlotsHaveNotStarted
      /\ QueuedWorkIsInItsDeque /\ ClaimedWorkIsInItsBatch
      /\ s \in Slots /\ b.priority \in Priorities
      /\ b.works \in Seq(Works) /\ Elems(b.works) \subseteq Works
      /\ \A t \in Slots, p \in Priorities :
            queue[t][p] \in Seq(Works) /\ Elems(queue[t][p]) \subseteq Works
      /\ \A t \in Slots : Elems(active[t].works) \subseteq Works
  BY InvFacts DEF CoordinatorTypeOK, Batch
<1>2. /\ \A v \in Works : phase'[v] = IF v \in Elems(b.works) THEN "queued" ELSE phase[v]
      /\ item' = item
      /\ \A t \in Slots : active'[t] = IF t = s THEN NoBatch ELSE active[t]
      /\ \A t \in Slots : started'[t] = IF t = s THEN FALSE ELSE started[t]
  BY <1>1 DEF RetryStart, MoveTo, CoordinatorTypeOK
<1>3. /\ Requeued(b) \in Seq(Works)
      /\ Elems(Requeued(b)) = Elems(b.works) \cup Elems(queue[s][b.priority])
  BY <1>1, ConcatElems DEF Requeued
<1>4. \A t \in Slots, x \in Priorities :
         Elems(queue'[t][x]) = IF t = s /\ x = b.priority
                               THEN Elems(b.works) \cup Elems(queue[t][x])
                               ELSE Elems(queue[t][x])
  BY <1>1, <1>3 DEF CoordinatorTypeOK, RetryStart
<1>5. CoordinatorTypeOK'
  <2>1. queue' \in [Slots -> [Priorities -> Seq(Works)]]
    BY <1>1, <1>3 DEF CoordinatorTypeOK, RetryStart
  <2> QED BY <1>1, <2>1, NoBatchType DEF CoordinatorTypeOK, RetryStart, MoveTo, Phases, Live
<1>6. \A w \in Elems(b.works) : item[w].slot = s /\ phase[w] \in {"starting", "running"}
                                /\ Priority(item[w].source) = b.priority
  BY <1>1 DEF ClaimedWorkIsInItsBatch
<1>7. Assigned' /\ IdleSlotsHaveNotStarted'
  BY <1>1, <1>2, <1>6, ZenonT(30) DEF Assigned, IdleSlotsHaveNotStarted
<1>8. QueuedWorkIsInItsDeque'
  <2>1. ASSUME NEW t \in Slots, NEW x \in Priorities
        PROVE  Elems(queue'[t][x]) = {v \in Elems(queue[t][x]) : v \notin {}} \cup
                 {v \in Elems(b.works) : item[v].slot = t /\ Priority(item[v].source) = x}
    <3>1. CASE t = s /\ x = b.priority
      <4>1. {v \in Elems(b.works) : item[v].slot = t /\ Priority(item[v].source) = x}
              = Elems(b.works)
        BY <1>6, <3>1
      <4> QED BY <1>4, <3>1, <4>1
    <3>2. CASE ~(t = s /\ x = b.priority)
      <4>1. {v \in Elems(b.works) : item[v].slot = t /\ Priority(item[v].source) = x} = {}
        BY <1>6, <3>2
      <4> QED BY <1>4, <3>2, <4>1
    <3> QED BY <3>1, <3>2
  <2>2. DequesMove(Elems(b.works), {}) /\ SameAttributes
    BY <1>1, <1>2, <1>6, <2>1 DEF DequesMove, SameAttributes
  <2> QED BY <2>2, DequeStep
<1>9. ClaimedWorkIsInItsBatch'
  <2>1. \A v \in Works : v \in Elems(b.works) <=>
           phase[v] \in {"starting", "running"} /\ item[v].slot = s
    BY ClaimedFacts
  <2>2. BatchesLeave({s}) /\ SameAttributes
    BY <1>2, <2>1 DEF BatchesLeave, SameAttributes
  <2> QED BY <2>2, ReleaseStep
<1> QED BY <1>5, <1>7, <1>8, <1>9 DEF CoordinatorInv, Ownership

\* complete_signals takes the signals it ends out of the slot's deques.
LEMMA CompleteSignalsPreserves ==
    ASSUME CoordinatorInv, NEW s \in Slots, NEW S, CompleteSignals(s, S)
    PROVE  CoordinatorInv'
<1>1. /\ CoordinatorTypeOK /\ Assigned /\ IdleSlotsHaveNotStarted
      /\ QueuedWorkIsInItsDeque /\ ClaimedWorkIsInItsBatch
      /\ \A t \in Slots, p \in Priorities :
            queue[t][p] \in Seq(Works) /\ Elems(queue[t][p]) \subseteq Works
      /\ \A t \in Slots : Elems(active[t].works) \subseteq Works
  BY InvFacts
<1>2. /\ \A v \in Works : phase'[v] = IF v \in S THEN "completed" ELSE phase[v]
      /\ item' = item /\ active' = active /\ started' = started
  BY <1>1 DEF CompleteSignals, MoveTo, CoordinatorTypeOK
<1>3. \A w \in S : w \in Works /\ phase[w] = "queued" /\ item[w].slot = s
  BY DEF CompleteSignals, OfSlot
<1>4. \A x \in Priorities : /\ Without(queue[s][x], S) \in Seq(Works)
                            /\ Elems(Without(queue[s][x], S)) = Elems(queue[s][x]) \ S
  BY <1>1, WithoutElems
<1>5. \A t \in Slots, x \in Priorities :
         Elems(queue'[t][x]) = IF t = s THEN Elems(queue[t][x]) \ S ELSE Elems(queue[t][x])
  BY <1>1, <1>4 DEF CoordinatorTypeOK, CompleteSignals
<1>6. CoordinatorTypeOK'
  <2>1. queue' \in [Slots -> [Priorities -> Seq(Works)]]
    BY <1>1, <1>4 DEF CoordinatorTypeOK, CompleteSignals
  <2> QED BY <1>1, <2>1 DEF CoordinatorTypeOK, CompleteSignals, MoveTo, Phases, Terminal
<1>7. Assigned' /\ IdleSlotsHaveNotStarted'
  BY <1>1, <1>2, <1>3 DEF Assigned, IdleSlotsHaveNotStarted
<1>8. QueuedWorkIsInItsDeque'
  <2>1. \A t \in Slots, x \in Priorities : \A v \in Elems(queue[t][x]) : v \in S => t = s
    BY <1>1, <1>3 DEF QueuedWorkIsInItsDeque
  <2>2. DequesMove({}, S) /\ SameAttributes
    BY <1>1, <1>2, <1>5, <2>1, ZenonT(30) DEF DequesMove, SameAttributes
  <2> QED BY <2>2, DequeStep
<1>9. ClaimedWorkIsInItsBatch'
  BY <1>1, <1>2, <1>3 DEF ClaimedWorkIsInItsBatch
<1> QED BY <1>6, <1>7, <1>8, <1>9 DEF CoordinatorInv, Ownership

\* pause_slot touches neither work nor deques nor batches.
LEMMA PauseSlotPreserves ==
    ASSUME CoordinatorInv, NEW s \in Slots, PauseSlot(s)
    PROVE  CoordinatorInv'
<1>1. CoordinatorTypeOK'
  BY DEF CoordinatorTypeOK, PauseSlot, CoordinatorInv
<1> QED BY <1>1 DEF CoordinatorInv, PauseSlot, Assigned, IdleSlotsHaveNotStarted, Ownership,
                    QueuedWorkIsInItsDeque, ClaimedWorkIsInItsBatch

\* Nor does a runtime constraint that the runtime may recover from.
LEMMA AllowRuntimePreserves ==
    ASSUME CoordinatorInv, NEW s \in Slots, NEW c, AllowRuntime(s, c)
    PROVE  CoordinatorInv'
<1>1. CoordinatorTypeOK'
  BY DEF CoordinatorTypeOK, AllowRuntime, CoordinatorInv, Constraints
<1> QED BY <1>1 DEF CoordinatorInv, AllowRuntime, Assigned, IdleSlotsHaveNotStarted, Ownership,
                    QueuedWorkIsInItsDeque, ClaimedWorkIsInItsBatch

\* remove_slot empties the slot and ends what was in it.
LEMMA RemoveSlotPreserves ==
    ASSUME CoordinatorInv, NEW s \in Slots, RemoveSlot(s)
    PROVE  CoordinatorInv'
<1>1. /\ CoordinatorTypeOK /\ Assigned /\ IdleSlotsHaveNotStarted
      /\ QueuedWorkIsInItsDeque
      /\ \A t \in Slots, p \in Priorities : Elems(queue[t][p]) \subseteq Works
  BY InvFacts
<1>2. EmptyQueues \in [Priorities -> Seq(Works)] /\ \A x \in Priorities : Elems(EmptyQueues[x]) = {}
  BY EmptySeq DEF EmptyQueues, Elems
<1>3. /\ \A v \in Works : phase'[v] = IF v \in OfSlot(s, Live) THEN "cancelled" ELSE phase[v]
      /\ item' = item
      /\ \A t \in Slots : active'[t] = IF t = s THEN NoBatch ELSE active[t]
      /\ \A t \in Slots : started'[t] = IF t = s THEN FALSE ELSE started[t]
      /\ \A t \in Slots : queue'[t] = IF t = s THEN EmptyQueues ELSE queue[t]
  BY <1>1 DEF RemoveSlot, MoveTo, CoordinatorTypeOK
<1>4. CoordinatorTypeOK'
  BY <1>1, <1>2, NoBatchType DEF CoordinatorTypeOK, RemoveSlot, MoveTo, Phases, Terminal
<1>5. Assigned' /\ IdleSlotsHaveNotStarted'
  BY <1>1, <1>3 DEF Assigned, IdleSlotsHaveNotStarted, OfSlot, Live
<1>6. SameAttributes
  BY <1>3 DEF SameAttributes
<1>7. DequesMove({}, OfSlot(s, Live))
  <2>1. \A t \in Slots, x \in Priorities : \A v \in Elems(queue[t][x]) :
           v \in OfSlot(s, Live) <=> t = s
    BY <1>1 DEF QueuedWorkIsInItsDeque, OfSlot, Live
  <2>2. \A t \in Slots, x \in Priorities :
           Elems(queue'[t][x]) = {v \in Elems(queue[t][x]) : v \notin OfSlot(s, Live)}
    BY <1>2, <1>3, <2>1
  <2> QED BY <1>3, <2>2 DEF DequesMove
<1>8. BatchesLeave({s})
  BY <1>3 DEF BatchesLeave, OfSlot, Live
<1> QED BY <1>4, <1>5, <1>6, <1>7, <1>8, DequeStep, ReleaseStep DEF CoordinatorInv, Ownership

\* stop empties every slot and ends all work.
LEMMA StopPreserves ==
    ASSUME CoordinatorInv, Stop
    PROVE  CoordinatorInv'
<1>1. /\ CoordinatorTypeOK /\ Assigned /\ IdleSlotsHaveNotStarted
      /\ \A t \in Slots, p \in Priorities : Elems(queue[t][p]) \subseteq Works
  BY InvFacts
<1>2. EmptyQueues \in [Priorities -> Seq(Works)] /\ \A x \in Priorities : Elems(EmptyQueues[x]) = {}
  BY EmptySeq DEF EmptyQueues, Elems
<1>3. /\ \A v \in Works : phase'[v] = IF phase[v] \in Live THEN "cancelled"
                                      ELSE IF phase[v] = "leased" THEN "released"
                                      ELSE phase[v]
      /\ item' = item
      /\ \A t \in Slots : active'[t] = NoBatch /\ started'[t] = FALSE /\ queue'[t] = EmptyQueues
  BY <1>1 DEF Stop, CoordinatorTypeOK
<1>4. CoordinatorTypeOK'
  BY <1>1, <1>2, NoBatchType DEF CoordinatorTypeOK, Stop, Phases, Terminal, Live, Constraints
<1>5. Assigned' /\ IdleSlotsHaveNotStarted'
  BY <1>1, <1>3 DEF Assigned, IdleSlotsHaveNotStarted, Live
<1>6. SameAttributes
  BY <1>3 DEF SameAttributes
<1>7. DequesMove({}, Works)
  BY <1>1, <1>2, <1>3 DEF DequesMove, Live
<1>8. BatchesLeave(Slots)
  <2>1. \A v \in Works : phase[v] \in {"starting", "running"} => item[v].slot \in Slots
    BY <1>1 DEF Assigned
  <2> QED BY <1>3, <2>1 DEF BatchesLeave, Live
<1> QED BY <1>4, <1>5, <1>6, <1>7, <1>8, DequeStep, ReleaseStep DEF CoordinatorInv, Ownership

\* A lost runtime empties the slot, except for the survivors, which return to the
\* deques of their priorities in some order.
LEMMA LoseRuntimePreserves ==
    ASSUME CoordinatorInv, NEW s \in Slots, NEW c, LoseRuntime(s, c)
    PROVE  CoordinatorInv'
<1> DEFINE survivors == SurvivingWorks(s, c)
           OfPriority(x) == {w \in Works : Priority(item[w].source) = x}
<1>1. /\ CoordinatorTypeOK /\ Assigned /\ IdleSlotsHaveNotStarted
      /\ QueuedWorkIsInItsDeque
      /\ \A t \in Slots, p \in Priorities : Elems(queue[t][p]) \subseteq Works
  BY InvFacts
<1>2. PICK order \in Orders(survivors) :
         queue' = [queue EXCEPT ![s] = [p \in Priorities |-> Only(order, OfPriority(p))]]
  BY DEF LoseRuntime
<1>3. survivors \subseteq OfSlot(s, Live) /\ OfSlot(s, Live) \subseteq Works
  BY DEF SurvivingWorks, OfSlot
<1>4. order \in Seq(Works) /\ Elems(order) = survivors
  <2>1. IsFiniteSet(survivors)
    BY <1>3, FS_Subset, ConstantsAssumption
  <2>2. Cardinality(survivors) \in Nat
    BY <2>1, FS_CardinalityType
  <2>3. order \in Seq(survivors) /\ Elems(order) = survivors
    BY <2>1, <2>2, OrdersElems
  <2> QED BY <1>3, <2>3
<1>5. \A x \in Priorities : /\ Only(order, OfPriority(x)) \in Seq(Works)
                            /\ Elems(Only(order, OfPriority(x))) = survivors \cap OfPriority(x)
  BY <1>4, OnlyElems
<1>6. \A t \in Slots, x \in Priorities :
         Elems(queue'[t][x]) = IF t = s THEN survivors \cap OfPriority(x)
                               ELSE Elems(queue[t][x])
  BY <1>1, <1>2, <1>5 DEF CoordinatorTypeOK
<1>7. /\ \A v \in Works :
            phase'[v] = IF v \in survivors THEN "queued"
                        ELSE IF v \notin OfSlot(s, Live) THEN phase[v]
                        ELSE IF c = "failed" THEN "failed" ELSE "cancelled"
      /\ item' = item
      /\ \A t \in Slots : active'[t] = IF t = s THEN NoBatch ELSE active[t]
      /\ \A t \in Slots : started'[t] = IF t = s THEN FALSE ELSE started[t]
  BY <1>1 DEF LoseRuntime, CoordinatorTypeOK
<1>8. CoordinatorTypeOK'
  <2>1. queue' \in [Slots -> [Priorities -> Seq(Works)]]
    BY <1>1, <1>2, <1>5 DEF CoordinatorTypeOK
  <2>2. phase' \in [Works -> Phases]
    BY <1>1, <1>7 DEF CoordinatorTypeOK, LoseRuntime, Phases, Terminal, Live
  <2> QED BY <1>1, <2>1, <2>2, NoBatchType DEF CoordinatorTypeOK, LoseRuntime, Constraints
<1>9. Assigned' /\ IdleSlotsHaveNotStarted'
  BY <1>1, <1>3, <1>7 DEF Assigned, IdleSlotsHaveNotStarted, OfSlot, Live
<1>10. SameAttributes
  BY <1>7 DEF SameAttributes
<1>11. DequesMove(survivors, OfSlot(s, Live))
  <2>1. \A t \in Slots, x \in Priorities : \A v \in Elems(queue[t][x]) :
           v \in OfSlot(s, Live) <=> t = s
    BY <1>1 DEF QueuedWorkIsInItsDeque, OfSlot, Live
  <2>2. \A v \in survivors : v \in Works /\ item[v].slot = s
    BY <1>3 DEF OfSlot
  <2>3. ASSUME NEW t \in Slots, NEW x \in Priorities
        PROVE  Elems(queue'[t][x]) =
                 {v \in Elems(queue[t][x]) : v \notin OfSlot(s, Live)} \cup
                 {v \in survivors : item'[v].slot = t /\ Priority(item'[v].source) = x}
    <3>1. CASE t = s
      <4>1. {v \in Elems(queue[t][x]) : v \notin OfSlot(s, Live)} = {}
        BY <2>1, <3>1
      <4>2. {v \in survivors : item'[v].slot = t /\ Priority(item'[v].source) = x}
              = survivors \cap OfPriority(x)
        BY <1>7, <2>2, <3>1
      <4> QED BY <1>6, <3>1, <4>1, <4>2
    <3>2. CASE t # s
      BY <1>6, <1>7, <2>1, <2>2, <3>2
    <3> QED BY <3>1, <3>2
  <2>4. /\ survivors \subseteq Works
        /\ \A v \in survivors : item'[v].slot \in Slots
        /\ \A v \in Works : phase'[v] = "queued" <=>
              v \in survivors \/ (phase[v] = "queued" /\ v \notin OfSlot(s, Live))
    BY <1>7, <2>2
  <2> HIDE DEF survivors
  <2> QED BY <2>3, <2>4 DEF DequesMove
<1>12. BatchesLeave({s})
  BY <1>3, <1>7 DEF BatchesLeave, OfSlot, Live
<1> QED BY <1>8, <1>9, <1>10, <1>11, <1>12, DequeStep, ReleaseStep DEF CoordinatorInv, Ownership

\* What is claimed is a prefix of the deque: one entry, or entries that are no
\* commands.
LEMMA LeadingWorksPrefix ==
    ASSUME NEW q \in Seq(Works), q # <<>>
    PROVE  \E n \in 1..Len(q) : /\ LeadingWorks(q) = SubSeq(q, 1, n)
                                /\ n = 1 \/ \A i \in 1..n : q[i] \notin Commands
<1> DEFINE Leads(n) == /\ \A i \in 1..n : q[i] \notin Commands
                       /\ n < Len(q) => q[n + 1] \in Commands
           found == {k \in 1..Len(q) : q[k] \in Commands}
<1>1. Len(q) \in Nat /\ Len(q) >= 1
  BY EmptySeq
<1>2. CASE q[1] \in Commands
  BY <1>1, <1>2 DEF LeadingWorks
<1>3. CASE q[1] \notin Commands
  <2>1. \E n \in 1..Len(q) : Leads(n)
    <3>1. CASE found = {}
      BY <1>1, <3>1
    <3>2. CASE found # {}
      <4> found \in SUBSET Nat
        OBVIOUS
      <4>1. PICK k \in found : \A j \in found : k <= j
        BY <3>2, LeastNatural
      <4>2. k \in 1..Len(q) /\ k - 1 \in 1..Len(q) /\ q[k] \in Commands
        BY <1>1, <1>3, <4>1
      <4>3. \A i \in 1..(k - 1) : q[i] \notin Commands
        BY <1>1, <4>1, <4>2
      <4>4. Leads(k - 1)
        BY <4>2, <4>3
      <4> QED BY <4>2, <4>4
    <3> QED BY <3>1, <3>2
  <2> DEFINE n == CHOOSE m \in 1..Len(q) : Leads(m)
  <2>2. n \in 1..Len(q) /\ Leads(n)
    BY <2>1
  <2>3. LeadingWorks(q) = SubSeq(q, 1, n)
    BY <1>3 DEF LeadingWorks
  <2> HIDE DEF n
  <2> QED BY <2>2, <2>3
<1> QED BY <1>2, <1>3

\* The claimed prefix holds entries of the deque only.
LEMMA LeadingWorksElems ==
    ASSUME NEW q \in Seq(Works), q # <<>>
    PROVE  /\ LeadingWorks(q) \in Seq(Works)
           /\ Elems(LeadingWorks(q)) \subseteq Elems(q)
  BY LeadingWorksPrefix, PrefixElems

\* next moves the claimed works from their deque to the slot's batch.
LEMMA ClaimPreserves ==
    ASSUME CoordinatorInv, NEW s \in Slots, Claim(s)
    PROVE  /\ CoordinatorInv'
           /\ ClaimedBatch(s) \in Batch
<1> DEFINE b == ClaimedBatch(s)
           p == SelectedPriority(s)
           taken == Elems(b.works)
<1>1. /\ CoordinatorTypeOK /\ Assigned /\ IdleSlotsHaveNotStarted
      /\ QueuedWorkIsInItsDeque /\ ClaimedWorkIsInItsBatch
      /\ \A t \in Slots, x \in Priorities :
            queue[t][x] \in Seq(Works) /\ Elems(queue[t][x]) \subseteq Works
      /\ \A t \in Slots : Elems(active[t].works) \subseteq Works
  BY InvFacts
<1>2. p \in Priorities
  BY DEF SelectedPriority, Priorities
<1>3. /\ MessageWorks(s) \in Seq(Works)
      /\ Elems(MessageWorks(s)) = Elems(queue[s][p]) \ Signals
  BY <1>1, <1>2, WithoutElems DEF MessageWorks
<1>4. /\ b.works \in Seq(Works) /\ taken \subseteq Elems(queue[s][p])
      /\ b.slot = s /\ b.priority = p /\ b.op = nextOp + 1
  BY <1>3, LeadingWorksElems DEF ClaimedBatch, Claim, NextOperation
<1>5. b \in Batch
  BY <1>1, <1>2, <1>4 DEF Batch, ClaimedBatch, CoordinatorTypeOK
<1>6. \A w \in taken : /\ w \in Works /\ phase[w] = "queued"
                       /\ item[w].slot = s /\ Priority(item[w].source) = p
  BY <1>1, <1>2, <1>4 DEF QueuedWorkIsInItsDeque
<1>7. active[s] = NoBatch /\ ~started[s]
  BY <1>1 DEF Claim, Selectable, IdleSlotsHaveNotStarted
<1>8. \A x \in Priorities : /\ Without(queue[s][x], taken) \in Seq(Works)
                            /\ Elems(Without(queue[s][x], taken)) = Elems(queue[s][x]) \ taken
  BY <1>1, WithoutElems
<1>9. /\ \A v \in Works : phase'[v] = IF v \in taken THEN "starting" ELSE phase[v]
      /\ \A t \in Slots : active'[t] = IF t = s THEN b ELSE active[t]
      /\ item' = item /\ started' = started
      /\ queue' = [queue EXCEPT ![s] = [x \in Priorities |-> Without(queue[s][x], taken)]]
  BY <1>1 DEF Claim, MoveTo, CoordinatorTypeOK
<1>10. CoordinatorTypeOK'
  <2>1. queue' \in [Slots -> [Priorities -> Seq(Works)]]
    BY <1>1, <1>8, <1>9 DEF CoordinatorTypeOK
  <2>2. phase' \in [Works -> Phases] /\ active' \in [Slots -> Batch]
    BY <1>1, <1>5 DEF CoordinatorTypeOK, Claim, MoveTo, Phases, Live
  <2>3. nextOp' \in 0..MaxOps
    BY <1>1, ConstantsAssumption DEF CoordinatorTypeOK, Claim, NextOperation
  <2> QED BY <1>1, <2>1, <2>2, <2>3 DEF CoordinatorTypeOK, Claim
<1> HIDE DEF b, p, taken
<1>11. Assigned' /\ IdleSlotsHaveNotStarted'
  BY <1>1, <1>6, <1>7, <1>9 DEF Assigned, IdleSlotsHaveNotStarted
<1>12. SameAttributes /\ DequesMove({}, taken)
  <2>1. \A t \in Slots, x \in Priorities :
           Elems(queue'[t][x]) = IF t = s THEN Elems(queue[t][x]) \ taken ELSE Elems(queue[t][x])
    BY <1>1, <1>8, <1>9 DEF CoordinatorTypeOK
  <2>2. \A t \in Slots, x \in Priorities : \A v \in Elems(queue[t][x]) : v \in taken => t = s
    BY <1>1, <1>6 DEF QueuedWorkIsInItsDeque
  <2>3. \A t \in Slots, x \in Priorities :
           Elems(queue'[t][x]) = {v \in Elems(queue[t][x]) : v \notin taken}
    BY <2>1, <2>2
  <2>4. \A v \in Works : phase'[v] = "queued" <=> phase[v] = "queued" /\ v \notin taken
    BY <1>9
  <2>5. SameAttributes
    BY <1>9 DEF SameAttributes
  <2> QED BY <2>3, <2>4, <2>5 DEF DequesMove
<1>13. ClaimedWorkIsInItsBatch'
  <2>1. ASSUME NEW t \in Slots, NEW w \in Elems(active'[t].works)
        PROVE  /\ phase'[w] = IF started'[t] THEN "running" ELSE "starting"
               /\ item'[w].slot = t
               /\ Priority(item'[w].source) = active'[t].priority
    <3>1. CASE t = s
      BY <1>4, <1>6, <1>7, <1>9, <3>1 DEF taken
    <3>2. CASE t # s
      <4>1. active'[t] = active[t] /\ started'[t] = started[t]
        BY <1>9, <3>2
      <4>2. /\ w \in Works /\ item[w].slot = t /\ Priority(item[w].source) = active[t].priority
            /\ phase[w] = IF started[t] THEN "running" ELSE "starting"
        BY <1>1, <4>1 DEF ClaimedWorkIsInItsBatch
      <4>3. w \notin taken
        BY <1>6, <4>2
      <4> QED BY <1>9, <4>1, <4>2, <4>3
    <3> QED BY <3>1, <3>2
  <2>2. ASSUME NEW w \in Works, phase'[w] \in {"starting", "running"}
        PROVE  item'[w].slot \in Slots /\ w \in Elems(active'[item'[w].slot].works)
    <3>1. CASE w \in taken
      BY <1>6, <1>9, <3>1 DEF taken
    <3>2. CASE w \notin taken
      <4>1. /\ phase[w] \in {"starting", "running"}
            /\ item[w].slot \in Slots /\ w \in Elems(active[item[w].slot].works)
        BY <1>1, <1>9, <2>2, <3>2 DEF ClaimedWorkIsInItsBatch
      <4>2. item[w].slot # s
        BY <1>7, <4>1, NoBatchType
      <4> QED BY <1>9, <4>1, <4>2
    <3> QED BY <3>1, <3>2
  <2> QED BY <2>1, <2>2 DEF ClaimedWorkIsInItsBatch
<1> QED BY <1>5, <1>10, <1>11, <1>12, <1>13, DequeStep DEF CoordinatorInv, Ownership, b

\* cancel_run splits the batches it hits in cancelled members and members that
\* return to the deques of their priorities, and forgets nothing else.
LEMMA CancelRunPreserves ==
    ASSUME CoordinatorInv, NEW r \in Runs, CancelRun(r)
    PROVE  CoordinatorInv'
<1> DEFINE hit == CancelledSlots(r)
           cancelled == CancelledWorks(r)
           retained == RetainedWorks(r)
           claims == ClaimedWorks(r)
           OfPriority(x) == {w \in retained : Priority(item[w].source) = x}
           Returned(t, x) == Only(active[t].works, OfPriority(x))
<1>1. /\ CoordinatorTypeOK /\ Assigned /\ IdleSlotsHaveNotStarted
      /\ QueuedWorkIsInItsDeque /\ ClaimedWorkIsInItsBatch
      /\ \A t \in Slots, x \in Priorities :
            queue[t][x] \in Seq(Works) /\ Elems(queue[t][x]) \subseteq Works
      /\ \A t \in Slots : active[t].works \in Seq(Works) /\ Elems(active[t].works) \subseteq Works
  BY InvFacts
<1>2. hit \subseteq Slots
  BY <1>1 DEF CancelledSlots, CoordinatorTypeOK
<1>3. cancelled = OfRun(r, {"queued"}) \cup (claims \ retained)
  BY DEF CancelledWorks
<1>4. \A w \in claims : \E t \in hit : w \in Elems(active[t].works)
  BY DEF ClaimedWorks
<1>5. \A w \in retained : w \in claims
  BY DEF RetainedWorks
<1>6. \A t \in hit : \A w \in Elems(active[t].works) : w \in claims
  BY DEF ClaimedWorks
<1> HIDE DEF hit, cancelled, retained, claims
<1>7. \A w \in claims : /\ w \in Works /\ item[w].slot \in hit
                        /\ phase[w] \in {"starting", "running"}
                        /\ w \in Elems(active[item[w].slot].works)
  BY <1>1, <1>2, <1>4 DEF ClaimedWorkIsInItsBatch
<1>8. \A w \in Works : phase[w] \in {"starting", "running"} /\ item[w].slot \in hit =>
         w \in retained \/ w \in cancelled
  BY <1>1, <1>3, <1>6 DEF ClaimedWorkIsInItsBatch
<1>9. \A w \in OfRun(r, {"queued"}) : w \in Works /\ phase[w] = "queued"
  BY DEF OfRun
<1>10. \A w \in retained : /\ w \in Works /\ item[w].slot \in hit
                           /\ phase[w] \in {"starting", "running"}
                           /\ w \in Elems(active[item[w].slot].works)
                           /\ w \notin cancelled
  BY <1>3, <1>5, <1>7, <1>9
<1>11. \A w \in cancelled : /\ w \in Works
                            /\ \/ phase[w] = "queued"
                               \/ phase[w] \in {"starting", "running"} /\ item[w].slot \in hit
  BY <1>3, <1>7, <1>9
<1>12. /\ \A v \in Works : phase'[v] = IF v \in cancelled THEN "cancelled"
                                       ELSE IF v \in retained THEN "queued"
                                       ELSE IF v \in OfRun(r, {"leased"}) THEN "released"
                                       ELSE phase[v]
       /\ item' = item
       /\ \A t \in Slots : active'[t] = IF t \in hit THEN NoBatch ELSE active[t]
       /\ \A t \in Slots : started'[t] = IF t \in hit THEN FALSE ELSE started[t]
       /\ queue' = [t \in Slots |-> [x \in Priorities |->
                      IF t \in hit THEN Returned(t, x) \o Without(queue[t][x], cancelled)
                      ELSE Without(queue[t][x], cancelled)]]
  <2>1. \A v \in Works : phase'[v] = IF v \in cancelled THEN "cancelled"
                                     ELSE IF v \in retained THEN "queued"
                                     ELSE IF v \in OfRun(r, {"leased"}) THEN "released"
                                     ELSE phase[v]
    BY DEF CancelRun, cancelled, retained
  <2>2. /\ item' = item
        /\ \A t \in Slots : active'[t] = IF t \in hit THEN NoBatch ELSE active[t]
    BY DEF CancelRun, hit
  <2>3. \A t \in Slots : started'[t] = IF t \in hit THEN FALSE ELSE started[t]
    BY <1>1 DEF CancelRun, hit, CoordinatorTypeOK
  <2>4. queue' = [t \in Slots |-> [x \in Priorities |->
                    IF t \in hit THEN Returned(t, x) \o Without(queue[t][x], cancelled)
                    ELSE Without(queue[t][x], cancelled)]]
    BY Zenon DEF CancelRun, hit, cancelled, retained
  <2> QED BY <2>1, <2>2, <2>3, <2>4
<1>13. \A w \in OfRun(r, {"leased"}) : phase[w] = "leased"
  BY DEF OfRun
<1>14. \A t \in Slots, x \in Priorities :
         /\ Without(queue[t][x], cancelled) \in Seq(Works)
         /\ Elems(Without(queue[t][x], cancelled)) = Elems(queue[t][x]) \ cancelled
  BY <1>1, WithoutElems
<1>15. \A t \in Slots, x \in Priorities :
         /\ Returned(t, x) \in Seq(Works)
         /\ Elems(Returned(t, x)) = Elems(active[t].works) \cap OfPriority(x)
  BY <1>1, OnlyElems
<1>16. ASSUME NEW t \in Slots, NEW x \in Priorities
       PROVE
         /\ Returned(t, x) \o Without(queue[t][x], cancelled) \in Seq(Works)
         /\ Elems(Returned(t, x) \o Without(queue[t][x], cancelled)) =
               (Elems(active[t].works) \cap OfPriority(x)) \cup (Elems(queue[t][x]) \ cancelled)
  <2>1. /\ Returned(t, x) \in Seq(Works)
        /\ Without(queue[t][x], cancelled) \in Seq(Works)
    BY <1>14, <1>15
  <2> HIDE DEF Returned
  <2>2. /\ Returned(t, x) \o Without(queue[t][x], cancelled) \in Seq(Works)
        /\ Elems(Returned(t, x) \o Without(queue[t][x], cancelled)) =
              Elems(Returned(t, x)) \cup Elems(Without(queue[t][x], cancelled))
    BY <2>1, ConcatElems
  <2>3. /\ Elems(Returned(t, x)) = Elems(active[t].works) \cap OfPriority(x)
        /\ Elems(Without(queue[t][x], cancelled)) = Elems(queue[t][x]) \ cancelled
    BY <1>14, <1>15 DEF Returned
  <2> QED BY <2>2, <2>3
<1> HIDE DEF Returned
<1>17. \A t \in Slots, x \in Priorities :
          /\ queue'[t][x] \in Seq(Works)
          /\ t \in hit => Elems(queue'[t][x]) = (Elems(active[t].works) \cap OfPriority(x))
                                                \cup (Elems(queue[t][x]) \ cancelled)
          /\ t \notin hit => Elems(queue'[t][x]) = Elems(queue[t][x]) \ cancelled
  BY <1>12, <1>14, <1>16
<1>18. CoordinatorTypeOK'
  <2>1. queue' \in [Slots -> [Priorities -> Seq(Works)]]
    BY <1>12, <1>14, <1>16
  <2>2. phase' \in [Works -> Phases]
    BY <1>1, <1>12 DEF CoordinatorTypeOK, CancelRun, Phases, Terminal, Live
  <2>3. active' \in [Slots -> Batch] /\ started' \in [Slots -> BOOLEAN]
    BY <1>1, NoBatchType DEF CoordinatorTypeOK, CancelRun
  <2> QED BY <1>1, <2>1, <2>2, <2>3 DEF CoordinatorTypeOK, CancelRun
<1>19. Assigned' /\ IdleSlotsHaveNotStarted'
  BY <1>1, <1>10, <1>11, <1>12, <1>13 DEF Assigned, IdleSlotsHaveNotStarted
<1>20. SameAttributes
  BY <1>12 DEF SameAttributes
<1>21. DequesMove(retained, cancelled)
  <2>1. ASSUME NEW t \in Slots, NEW x \in Priorities
        PROVE  Elems(queue'[t][x]) =
                 {v \in Elems(queue[t][x]) : v \notin cancelled} \cup
                 {v \in retained : item'[v].slot = t /\ Priority(item'[v].source) = x}
    <3>1. CASE t \in hit
      <4>1. {v \in retained : item'[v].slot = t /\ Priority(item'[v].source) = x}
              = Elems(active[t].works) \cap OfPriority(x)
        <5>1. \A v \in Elems(active[t].works) : item[v].slot = t
          BY <1>1 DEF ClaimedWorkIsInItsBatch
        <5> QED BY <1>1, <1>10, <1>12, <5>1
      <4> QED BY <1>17, <3>1, <4>1
    <3>2. CASE t \notin hit
      <4>1. {v \in retained : item'[v].slot = t /\ Priority(item'[v].source) = x} = {}
        BY <1>10, <1>12, <3>2
      <4> QED BY <1>17, <3>2, <4>1
    <3> QED BY <3>1, <3>2
  <2>2. /\ retained \subseteq Works
        /\ \A v \in retained : item'[v].slot \in Slots
    BY <1>2, <1>10, <1>12
  <2>3. \A v \in Works : phase'[v] = "queued" <=>
           v \in retained \/ (phase[v] = "queued" /\ v \notin cancelled)
    BY <1>10, <1>12, <1>13
  <2> QED BY <2>1, <2>2, <2>3 DEF DequesMove
<1>22. BatchesLeave(hit)
  <2>1. \A v \in Works : phase'[v] \in {"starting", "running"} =>
           phase[v] = phase'[v] /\ item[v].slot \notin hit
    BY <1>8, <1>12
  <2>2. \A v \in Works : phase[v] \in {"starting", "running"} /\ item[v].slot \notin hit =>
           phase'[v] = phase[v]
    BY <1>10, <1>11, <1>12, <1>13
  <2>3. /\ \A t \in Slots : active'[t] = IF t \in hit THEN NoBatch ELSE active[t]
        /\ \A t \in Slots : t \notin hit => started'[t] = started[t]
    BY <1>1, <1>12 DEF CoordinatorTypeOK
  <2> QED BY <2>1, <2>2, <2>3 DEF BatchesLeave
<1> QED BY <1>18, <1>19, <1>20, <1>21, <1>22, DequeStep, ReleaseStep DEF CoordinatorInv, Ownership

\* reconcile_mailbox ends stale work where it waits and appends the drains, whose
\* identities are fresh, to the background deque.
LEMMA ReconcilePreserves ==
    ASSUME CoordinatorInv, NEW s \in Slots, NEW unread \in Seq(Messages),
           ReconcileMailbox(s, unread)
    PROVE  CoordinatorInv'
<1> DEFINE stale == Stale(s, unread)
           orphans == Orphans(s, unread)
           Index(q, w) == CHOOSE i \in 1..Len(q) : q[i] = w
<1>1. /\ CoordinatorTypeOK /\ Assigned /\ IdleSlotsHaveNotStarted
      /\ QueuedWorkIsInItsDeque /\ ClaimedWorkIsInItsBatch
      /\ \A t \in Slots, x \in Priorities :
            queue[t][x] \in Seq(Works) /\ Elems(queue[t][x]) \subseteq Works
      /\ \A t \in Slots : Elems(active[t].works) \subseteq Works
  BY InvFacts
<1>2. orphans \in Seq(Messages)
  BY WithoutElems DEF Orphans
<1>3. PICK drains \in FreshWorks(Len(orphans)) :
         /\ phase' = [w \in Works |->
                        IF w \in stale THEN "completed"
                        ELSE IF w \in Elems(drains) THEN "queued"
                        ELSE phase[w]]
         /\ item' = [w \in Works |->
                       IF w \in Elems(drains) THEN Drain(s, orphans[Index(drains, w)])
                       ELSE item[w]]
         /\ queue' = [queue EXCEPT ![s] =
                        [p \in Priorities |->
                           IF p = "background" THEN Without(queue[s][p], stale) \o drains
                           ELSE Without(queue[s][p], stale)]]
         /\ slots' = slots \cup {s}
         /\ UNCHANGED <<active, started, paused, constraint, removed, nextOp>>
  BY <1>1 DEF ReconcileMailbox, CoordinatorTypeOK
<1> DEFINE fresh == Elems(drains)
<1>4. \A w \in stale : w \in Works /\ phase[w] = "queued" /\ item[w].slot = s
  BY DEF Stale, OfSlot
<1>5. /\ drains \in Seq(Works) /\ Len(drains) = Len(orphans)
      /\ \A w \in fresh : w \in Works /\ phase[w] = "absent"
  BY <1>2 DEF FreshWorks, Elems
<1>6. \A w \in fresh : /\ Drain(s, orphans[Index(drains, w)]) \in Item
                       /\ Drain(s, orphans[Index(drains, w)]).slot = s
                       /\ Priority(Drain(s, orphans[Index(drains, w)]).source) = "background"
  <2>1. ASSUME NEW w \in fresh
        PROVE  orphans[Index(drains, w)] \in Messages
    <3>1. \E i \in 1..Len(drains) : drains[i] = w
      BY DEF Elems
    <3>2. Index(drains, w) \in 1..Len(drains)
      BY <3>1
    <3> HIDE DEF Index
    <3> QED BY <1>2, <1>5, <3>2
  <2> HIDE DEF Index, fresh, orphans
  <2> QED BY <2>1 DEF Drain, Item, WorkSource, Priority, UserSource, SignalSource
<1> HIDE DEF stale, orphans, Index, fresh
<1>7. \A x \in Priorities : /\ Without(queue[s][x], stale) \in Seq(Works)
                            /\ Elems(Without(queue[s][x], stale)) = Elems(queue[s][x]) \ stale
  BY <1>1, WithoutElems
<1>8. "background" \in Priorities
  BY DEF Priorities
<1>9. /\ Without(queue[s]["background"], stale) \o drains \in Seq(Works)
      /\ Elems(Without(queue[s]["background"], stale) \o drains) =
            (Elems(queue[s]["background"]) \ stale) \cup fresh
  <2>1. /\ Without(queue[s]["background"], stale) \in Seq(Works)
        /\ Elems(Without(queue[s]["background"], stale)) = Elems(queue[s]["background"]) \ stale
    BY <1>7, <1>8
  <2>2. /\ Without(queue[s]["background"], stale) \o drains \in Seq(Works)
        /\ Elems(Without(queue[s]["background"], stale) \o drains) =
              Elems(Without(queue[s]["background"], stale)) \cup Elems(drains)
    BY <1>5, <2>1, ConcatElems
  <2> QED BY <2>1, <2>2 DEF fresh
<1>10. /\ \A v \in Works : phase'[v] = IF v \in stale THEN "completed"
                                       ELSE IF v \in fresh THEN "queued" ELSE phase[v]
       /\ \A v \in Works : v \notin fresh => item'[v] = item[v]
       /\ \A v \in fresh : item'[v].slot = s /\ Priority(item'[v].source) = "background"
       /\ active' = active /\ started' = started
  BY <1>3, <1>5, <1>6 DEF fresh
<1>11. \A t \in Slots, x \in Priorities :
          /\ queue'[t][x] \in Seq(Works)
          /\ t # s => queue'[t][x] = queue[t][x]
          /\ t = s /\ x # "background" => Elems(queue'[t][x]) = Elems(queue[t][x]) \ stale
          /\ t = s /\ x = "background" =>
                Elems(queue'[t][x]) = (Elems(queue[t][x]) \ stale) \cup fresh
  BY <1>1, <1>3, <1>7, <1>9 DEF CoordinatorTypeOK
<1>12. CoordinatorTypeOK'
  <2>1. queue' \in [Slots -> [Priorities -> Seq(Works)]]
    BY <1>1, <1>3, <1>7, <1>9 DEF CoordinatorTypeOK
  <2>2. phase' \in [Works -> Phases]
    BY <1>1, <1>3 DEF CoordinatorTypeOK, Phases, Terminal, Live
  <2>3. item' \in [Works -> Item]
    BY <1>1, <1>3, <1>6 DEF CoordinatorTypeOK, fresh
  <2> QED BY <1>1, <1>3, <2>1, <2>2, <2>3 DEF CoordinatorTypeOK
<1>13. Assigned' /\ IdleSlotsHaveNotStarted'
  BY <1>1, <1>4, <1>10 DEF Assigned, IdleSlotsHaveNotStarted
<1>14. SameAttributes
  BY <1>5, <1>10 DEF SameAttributes
<1>15. DequesMove(fresh, stale)
  <2>1. \A t \in Slots, x \in Priorities : \A v \in Elems(queue[t][x]) :
           item[v].slot = t
    BY <1>1 DEF QueuedWorkIsInItsDeque
  <2>2. ASSUME NEW t \in Slots, NEW x \in Priorities
        PROVE  Elems(queue'[t][x]) =
                 {v \in Elems(queue[t][x]) : v \notin stale} \cup
                 {v \in fresh : item'[v].slot = t /\ Priority(item'[v].source) = x}
    <3>1. CASE t = s /\ x = "background"
      <4>1. {v \in fresh : item'[v].slot = t /\ Priority(item'[v].source) = x} = fresh
        BY <1>10, <3>1
      <4> QED BY <1>11, <3>1, <4>1
    <3>2. CASE t = s /\ x # "background"
      <4>1. {v \in fresh : item'[v].slot = t /\ Priority(item'[v].source) = x} = {}
        BY <1>10, <3>2
      <4>2. {v \in Elems(queue[t][x]) : v \notin stale} = Elems(queue[t][x]) \ stale
        OBVIOUS
      <4>3. Elems(queue'[t][x]) = Elems(queue[t][x]) \ stale
        BY <1>11, <3>2
      <4> QED BY <4>1, <4>2, <4>3
    <3>3. CASE t # s
      <4>1. {v \in fresh : item'[v].slot = t /\ Priority(item'[v].source) = x} = {}
        BY <1>10, <3>3
      <4>2. {v \in Elems(queue[t][x]) : v \notin stale} = Elems(queue[t][x])
        BY <1>4, <2>1, <3>3
      <4> QED BY <1>11, <3>3, <4>1, <4>2
    <3> QED BY <3>1, <3>2, <3>3
  <2>3. /\ fresh \subseteq Works
        /\ \A v \in fresh : item'[v].slot \in Slots
    BY <1>5, <1>10
  <2>4. \A v \in Works : phase'[v] = "queued" <=>
           v \in fresh \/ (phase[v] = "queued" /\ v \notin stale)
    BY <1>4, <1>5, <1>10
  <2> QED BY <2>2, <2>3, <2>4 DEF DequesMove
<1>16. BatchesLeave({})
  BY <1>4, <1>5, <1>10 DEF BatchesLeave
<1> QED BY <1>12, <1>13, <1>14, <1>15, <1>16, DequeStep, ReleaseStep DEF CoordinatorInv, Ownership

\* A slot with a batch is one the coordinator has state for: cancel_run finds it.
BusySlotsExist == \A s \in Slots : Elems(active[s].works) # {} => s \in slots

\* cancel_run leaves nothing of its run waiting, claimed or leased, and ends
\* nothing else.
LEMMA CancelRunExact ==
    ASSUME CoordinatorInv, BusySlotsExist, NEW r \in Runs, CancelRun(r)
    PROVE  /\ OfRun(r, Live \cup {"leased"})' = {}
           /\ \A w \in Works : item[w].run # r /\ phase[w] \in Live => phase'[w] \in Live
<1>1. CoordinatorTypeOK /\ ClaimedWorkIsInItsBatch
  BY InvFacts
<1>2. /\ \A v \in Works : phase'[v] = IF v \in CancelledWorks(r) THEN "cancelled"
                                      ELSE IF v \in RetainedWorks(r) THEN "queued"
                                      ELSE IF v \in OfRun(r, {"leased"}) THEN "released"
                                      ELSE phase[v]
      /\ item' = item
  BY DEF CancelRun
<1>3. \A w \in RetainedWorks(r) : item[w].run # r
  BY DEF RetainedWorks
<1>4. \A w \in CancelledWorks(r) : item[w].run = r
  BY DEF CancelledWorks, RetainedWorks, OfRun
<1>5. \A w \in Works : item[w].run = r /\ phase[w] \in Live => w \in CancelledWorks(r)
  <2> SUFFICES ASSUME NEW w \in Works, item[w].run = r, phase[w] \in Live
               PROVE  w \in CancelledWorks(r)
    OBVIOUS
  <2>1. CASE phase[w] = "queued"
    BY <2>1 DEF CancelledWorks, OfRun
  <2>2. CASE phase[w] \in {"starting", "running"}
    <3>1. item[w].slot \in Slots /\ w \in Elems(active[item[w].slot].works)
      BY <1>1, <2>2 DEF ClaimedWorkIsInItsBatch
    <3>2. item[w].slot \in CancelledSlots(r)
      BY <3>1 DEF BusySlotsExist, CancelledSlots
    <3> QED BY <1>3, <3>1, <3>2 DEF CancelledWorks, ClaimedWorks
  <2> QED BY <2>1, <2>2 DEF Live
<1>6. ASSUME NEW w \in Works, item[w].run = r
      PROVE  phase'[w] \notin Live \cup {"leased"}
  <2>1. CASE phase[w] \in Live
    BY <1>2, <1>5, <1>6, <2>1 DEF Live
  <2>2. CASE phase[w] = "leased"
    BY <1>2, <1>3, <1>6, <2>2 DEF Live, OfRun
  <2>3. CASE phase[w] \notin Live \cup {"leased"}
    BY <1>2, <1>3, <1>6, <2>3 DEF Live, OfRun
  <2> QED BY <2>1, <2>2, <2>3
<1>7. OfRun(r, Live \cup {"leased"})' = {}
  BY <1>2, <1>6 DEF OfRun
<1>8. \A w \in Works : item[w].run # r /\ phase[w] \in Live => phase'[w] \in Live
  BY <1>2, <1>4 DEF Live, OfRun
<1> QED BY <1>7, <1>8

-----------------------------------------------------------------------------
(* The refinement of SerialWork.                                           *)

\* Every phase has one stage.
LEMMA StageFacts ==
    /\ Phases = Unqueued \cup {"queued"} \cup Claimed \cup Terminal
    /\ \A p \in Unqueued : StageOf(p) = "none"
    /\ StageOf("queued") = "waiting"
    /\ \A p \in Claimed : StageOf(p) = "working"
    /\ \A p \in Terminal : StageOf(p) = "done"
<1> USE DEF Unqueued, Claimed, Terminal
<1>1. Phases = Unqueued \cup {"queued"} \cup Claimed \cup Terminal
  BY DEF Phases, Live
<1>2. \A p \in Unqueued : StageOf(p) = "none"
  BY DEF StageOf
<1>3. StageOf("queued") = "waiting" /\ \A p \in Claimed : StageOf(p) = "working"
  BY DEF StageOf
<1>4. \A p \in Terminal : StageOf(p) = "done"
  BY DEF StageOf
<1> QED BY <1>1, <1>2, <1>3, <1>4

\* What the lanes of SerialWork hold.
LEMMA LaneFacts ==
    ASSUME CoordinatorTypeOK, NEW s \in Slots
    PROVE  /\ Serial!On(s, "waiting") = {w \in Works : phase[w] = "queued" /\ item[w].slot = s}
           /\ Serial!On(s, "working") = {w \in Works : phase[w] \in Claimed /\ item[w].slot = s}
<1>1. \A w \in Works : phase[w] \in Phases
  BY DEF CoordinatorTypeOK
<1>2. \A w \in Works : /\ StageOf(phase[w]) = "waiting" <=> phase[w] = "queued"
                       /\ StageOf(phase[w]) = "working" <=> phase[w] \in Claimed
  BY <1>1, StageFacts
<1>3. \A w \in Works : phase[w] = "queued" \/ phase[w] \in Claimed => phase[w] \notin Unqueued
  BY DEF Claimed, Unqueued
<1> QED BY <1>2, <1>3 DEF Serial!On

\* A step in which the slots in freed let go of their batches, the works in done
\* end, and no other work changes its stage.
Releases(freed, done) ==
    /\ freed \subseteq Slots /\ done \subseteq Works
    /\ \A w \in Works : phase[w] \in Unqueued => phase'[w] \in Unqueued
    /\ \A w \in Works : phase[w] \notin Unqueued => item'[w].slot = item[w].slot
    /\ \A w \in done : /\ phase[w] = "queued" \/ (phase[w] \in Claimed /\ item[w].slot \in freed)
                       /\ phase'[w] \in Terminal
    /\ \A w \in Works \ done :
          IF phase[w] \in Claimed /\ item[w].slot \in freed THEN phase'[w] = "queued"
          ELSE StageOf(phase'[w]) = StageOf(phase[w])

\* Such a step is a step of SerialWork.
LEMMA ReleaseRefines ==
    ASSUME CoordinatorTypeOK, CoordinatorTypeOK', NEW freed, NEW done, Releases(freed, done)
    PROVE  Serial!Next
<1> DEFINE leaving == UNION {Serial!On(l, "working") : l \in freed}
<1>1. \A w \in Works : phase[w] \in Phases /\ phase'[w] \in Phases
  BY DEF CoordinatorTypeOK
<1>2. \A l \in freed : Serial!On(l, "working") = {w \in Works : phase[w] \in Claimed /\ item[w].slot = l}
  BY LaneFacts DEF Releases
<1>3. \A w \in Works : w \in leaving <=> phase[w] \in Claimed /\ item[w].slot \in freed
  BY <1>2
<1>4. leaving \subseteq Works
  BY <1>2
<1> HIDE DEF leaving
<1>5. \A w \in done : StageOf(phase[w]) = "waiting" \/ w \in leaving
  BY <1>3, StageFacts DEF Releases
<1>6. \A w \in Works : StageOf(phase'[w]) = IF w \in done THEN "done"
                                            ELSE IF w \in leaving THEN "waiting"
                                            ELSE StageOf(phase[w])
  BY <1>3, StageFacts DEF Releases
<1>7. \A w \in Works : phase[w] \in Unqueued <=> phase'[w] \in Unqueued
  <2>1. \A w \in Works : phase'[w] \in Unqueued <=> StageOf(phase'[w]) = "none"
    BY <1>1, StageFacts
  <2>2. \A w \in Works : phase[w] \in Unqueued <=> StageOf(phase[w]) = "none"
    BY <1>1, StageFacts
  <2> QED BY <1>6, <2>1, <2>2 DEF Releases
<1>8. \A w \in Works : (IF phase'[w] \in Unqueued THEN NoSlot ELSE item'[w].slot) =
                       (IF phase[w] \in Unqueued THEN NoSlot ELSE item[w].slot)
  BY <1>7 DEF Releases
<1>9. Serial!Release(freed, done)
  <2>1. \A w \in done : \/ [v \in Works |-> StageOf(phase[v])][w] = "waiting"
                        \/ w \in leaving
    BY <1>5 DEF Releases
  <2>2. [w \in Works |-> StageOf(phase[w])]' =
           [w \in Works |-> IF w \in done THEN "done"
                            ELSE IF w \in leaving THEN "waiting"
                            ELSE [v \in Works |-> StageOf(phase[v])][w]]
    BY <1>6
  <2>3. [w \in Works |-> IF phase[w] \in Unqueued THEN NoSlot ELSE item[w].slot]' =
           [w \in Works |-> IF phase[w] \in Unqueued THEN NoSlot ELSE item[w].slot]
    BY <1>8
  <2> QED BY <2>1, <2>2, <2>3 DEF Serial!Release, leaving
<1> QED BY <1>9 DEF Serial!Next, Releases

\* The phases of live and of ended work, as the stages see them.
LEMMA PhaseFacts ==
    /\ Live = {"queued"} \cup Claimed
    /\ \A p \in Live : p \notin Unqueued /\ p \notin Terminal
    /\ \A p \in Claimed : p \notin Unqueued /\ p # "queued"
    /\ \A p \in Terminal : p \notin Unqueued /\ p \notin Claimed /\ p # "queued"
    /\ "queued" \notin Unqueued
  BY DEF Live, Claimed, Unqueued, Terminal

\* The members of a current batch are the claimed works of its slot.
LEMMA BatchWorks ==
    ASSUME CoordinatorInv, NEW s \in Slots
    PROVE  \A w \in Works : w \in Elems(active[s].works) <=> phase[w] \in Claimed /\ item[w].slot = s
  BY ClaimedFacts DEF Claimed

\* Asking for work and giving up on it, starting a batch, looking at signals, pausing
\* a slot and setting a mild constraint change no stage.
LEMMA StagesKept ==
    ASSUME CoordinatorInv,
           \/ \E w \in Works, s \in Slots : \E source, r : AcquireEnqueue(w, s, source, r)
           \/ \E w \in Works : AbortEnqueue(w)
           \/ \E b : b.slot \in Slots /\ b = active[b.slot] /\ MarkStarted(b)
           \/ \E s \in Slots : PauseSlot(s)
           \/ \E s \in Slots : \E c : AllowRuntime(s, c)
           \/ UNCHANGED coordinatorVars
    PROVE  Releases({}, {})
<1>1. CoordinatorTypeOK
  BY InvFacts
<1>2. CASE \E w \in Works, s \in Slots : \E source, r : AcquireEnqueue(w, s, source, r)
  <2>1. PICK w \in Works, s \in Slots : \E source, r : AcquireEnqueue(w, s, source, r)
    BY <1>2
  <2>2. /\ phase[w] = "absent" /\ phase'[w] = "leased"
        /\ \A v \in Works : v # w => phase'[v] = phase[v] /\ item'[v] = item[v]
    BY <1>1, <2>1 DEF AcquireEnqueue, CoordinatorTypeOK
  <2>3. "absent" \in Unqueued /\ "leased" \in Unqueued
    BY DEF Unqueued
  <2> QED BY <2>2, <2>3, StageFacts DEF Releases
<1>3. CASE \E w \in Works : AbortEnqueue(w)
  <2>1. PICK w \in Works : AbortEnqueue(w)
    BY <1>3
  <2>2. /\ phase[w] = "leased" /\ phase'[w] = "released" /\ item' = item
        /\ \A v \in Works : v # w => phase'[v] = phase[v]
    BY <1>1, <2>1 DEF AbortEnqueue, CoordinatorTypeOK
  <2>3. "released" \in Unqueued /\ "leased" \in Unqueued
    BY DEF Unqueued
  <2> QED BY <2>2, <2>3, StageFacts DEF Releases
<1>4. CASE \E b : b.slot \in Slots /\ b = active[b.slot] /\ MarkStarted(b)
  <2>1. PICK b : b.slot \in Slots /\ b = active[b.slot] /\ MarkStarted(b)
    BY <1>4
  <2>2. /\ \A v \in Works : phase'[v] = IF v \in Elems(b.works) THEN "running" ELSE phase[v]
        /\ item' = item
    BY <2>1 DEF MarkStarted, MoveTo
  <2>3. \A v \in Works : v \in Elems(b.works) => phase[v] \in Claimed
    BY <2>1, BatchWorks
  <2>4. "running" \in Claimed
    BY DEF Claimed
  <2> QED BY <2>2, <2>3, <2>4, StageFacts, PhaseFacts DEF Releases
<1>5. CASE phase' = phase /\ item' = item
  BY <1>5 DEF Releases
<1> QED BY <1>2, <1>3, <1>4, <1>5 DEF PauseSlot, AllowRuntime, coordinatorVars

\* Signals end where they wait.
LEMMA CompleteSignalsReleases ==
    ASSUME CoordinatorInv, NEW s \in Slots, NEW S, CompleteSignals(s, S)
    PROVE  Releases({}, S)
<1>1. /\ \A v \in Works : phase'[v] = IF v \in S THEN "completed" ELSE phase[v]
      /\ item' = item
  BY DEF CompleteSignals, MoveTo
<1>2. \A w \in S : w \in Works /\ phase[w] = "queued"
  BY DEF CompleteSignals, OfSlot
<1>3. "completed" \in Terminal
  BY DEF Terminal
<1> QED BY <1>1, <1>2, <1>3, PhaseFacts DEF Releases

\* A batch that is retried waits again ...
LEMMA RetryReleases ==
    ASSUME CoordinatorInv, NEW b, b.slot \in Slots, b = active[b.slot], RetryStart(b)
    PROVE  Releases({b.slot}, {})
<1>1. /\ \A v \in Works : phase'[v] = IF v \in Elems(b.works) THEN "queued" ELSE phase[v]
      /\ item' = item
  BY DEF RetryStart, MoveTo
<1>2. \A w \in Works : w \in Elems(b.works) <=> phase[w] \in Claimed /\ item[w].slot = b.slot
  BY BatchWorks
<1> QED BY <1>1, <1>2, PhaseFacts DEF Releases

\* ... and one that is completed, failed or cancelled ends as a whole.
LEMMA TerminalizeReleases ==
    ASSUME CoordinatorInv, NEW b, b.slot \in Slots, b = active[b.slot],
           NEW end \in Terminal, TerminalizeBatch(b, end)
    PROVE  Releases({b.slot}, Elems(b.works))
<1>1. /\ \A v \in Works : phase'[v] = IF v \in Elems(b.works) THEN end ELSE phase[v]
      /\ item' = item
  BY DEF TerminalizeBatch, MoveTo
<1>2. /\ Elems(b.works) \subseteq Works
      /\ \A w \in Works : w \in Elems(b.works) <=> phase[w] \in Claimed /\ item[w].slot = b.slot
  BY BatchWorks, InvFacts
<1> QED BY <1>1, <1>2, PhaseFacts DEF Releases

\* A cancellation takes the batches apart that hold work of the run.
LEMMA CancelRunReleases ==
    ASSUME CoordinatorInv, NEW r \in Runs, CancelRun(r)
    PROVE  Releases(CancelledSlots(r), CancelledWorks(r))
<1> DEFINE hit == CancelledSlots(r)
           cancelled == CancelledWorks(r)
           retained == RetainedWorks(r)
<1>1. hit \subseteq Slots
  BY InvFacts DEF CoordinatorTypeOK, CancelledSlots
<1>2. \A w \in Works : w \in ClaimedWorks(r) <=> phase[w] \in Claimed /\ item[w].slot \in hit
  BY <1>1, BatchWorks DEF ClaimedWorks
<1>3. ClaimedWorks(r) \subseteq Works
  BY <1>1, InvFacts DEF ClaimedWorks
<1>4. \A w \in Works : w \in cancelled <=>
         \/ phase[w] = "queued" /\ item[w].run = r
         \/ w \in ClaimedWorks(r) /\ item[w].run = r
  BY DEF CancelledWorks, RetainedWorks, OfRun
<1>5. \A w \in Works : w \in retained <=> w \in ClaimedWorks(r) /\ item[w].run # r
  BY DEF RetainedWorks
<1>6. cancelled \subseteq Works
  BY <1>3 DEF CancelledWorks, OfRun
<1>7. /\ \A v \in Works : phase'[v] = IF v \in cancelled THEN "cancelled"
                                      ELSE IF v \in retained THEN "queued"
                                      ELSE IF phase[v] = "leased" /\ item[v].run = r THEN "released"
                                      ELSE phase[v]
      /\ item' = item
  BY DEF CancelRun, OfRun
<1> HIDE DEF hit, cancelled, retained
<1>8. "cancelled" \in Terminal /\ "released" \in Unqueued /\ "leased" \in Unqueued
  BY DEF Terminal, Unqueued
<1>9. \A w \in Works : phase[w] \in Unqueued => phase'[w] \in Unqueued
  BY <1>2, <1>4, <1>5, <1>7, <1>8, PhaseFacts
<1>10. \A w \in cancelled : /\ phase[w] = "queued" \/ (phase[w] \in Claimed /\ item[w].slot \in hit)
                            /\ phase'[w] \in Terminal
  BY <1>2, <1>4, <1>6, <1>7, <1>8
<1>11. ASSUME NEW w \in Works \ cancelled
       PROVE  IF phase[w] \in Claimed /\ item[w].slot \in hit THEN phase'[w] = "queued"
              ELSE StageOf(phase'[w]) = StageOf(phase[w])
  <2>1. CASE phase[w] \in Claimed /\ item[w].slot \in hit
    BY <1>2, <1>4, <1>5, <1>7, <2>1
  <2>2. CASE ~(phase[w] \in Claimed /\ item[w].slot \in hit)
    BY <1>2, <1>5, <1>7, <1>8, <2>2, StageFacts
  <2> QED BY <2>1, <2>2
<1> QED BY <1>1, <1>6, <1>7, <1>9, <1>10, <1>11 DEF Releases, hit, cancelled

\* What does not survive a lost runtime ends; the rest of the slot waits again.
LEMMA LoseRuntimeReleases ==
    ASSUME CoordinatorInv, NEW s \in Slots, NEW c, LoseRuntime(s, c)
    PROVE  Releases({s}, OfSlot(s, Live) \ SurvivingWorks(s, c))
<1> DEFINE live == OfSlot(s, Live)
           survivors == SurvivingWorks(s, c)
<1>1. /\ \A w \in Works : phase'[w] = IF w \in survivors THEN "queued"
                                      ELSE IF w \notin live THEN phase[w]
                                      ELSE IF c = "failed" THEN "failed" ELSE "cancelled"
      /\ item' = item
  BY DEF LoseRuntime
<1>2. /\ survivors \subseteq live /\ live \subseteq Works
      /\ \A w \in Works : w \in live <=> phase[w] \in Live /\ item[w].slot = s
  BY DEF SurvivingWorks, OfSlot
<1>3. {"failed", "cancelled"} \subseteq Terminal
  BY DEF Terminal
<1> HIDE DEF live, survivors
<1>4. \A w \in Works : phase[w] \in Unqueued => phase'[w] \in Unqueued
  BY <1>1, <1>2, PhaseFacts
<1>5. \A w \in live \ survivors :
         /\ phase[w] = "queued" \/ (phase[w] \in Claimed /\ item[w].slot \in {s})
         /\ phase'[w] \in Terminal
  BY <1>1, <1>2, <1>3, PhaseFacts
<1>6. \A w \in Works \ (live \ survivors) :
         IF phase[w] \in Claimed /\ item[w].slot \in {s} THEN phase'[w] = "queued"
         ELSE StageOf(phase'[w]) = StageOf(phase[w])
  BY <1>1, <1>2, PhaseFacts
<1> QED BY <1>1, <1>2, <1>4, <1>5, <1>6 DEF Releases, live, survivors

\* All of a removed slot's work ends.
LEMMA RemoveSlotReleases ==
    ASSUME CoordinatorInv, NEW s \in Slots, RemoveSlot(s)
    PROVE  Releases({s}, OfSlot(s, Live))
<1>1. /\ \A w \in Works : phase'[w] = IF w \in OfSlot(s, Live) THEN "cancelled" ELSE phase[w]
      /\ item' = item
  BY DEF RemoveSlot, MoveTo
<1>2. /\ OfSlot(s, Live) \subseteq Works
      /\ \A w \in Works : w \in OfSlot(s, Live) <=> phase[w] \in Live /\ item[w].slot = s
  BY DEF OfSlot
<1>3. "cancelled" \in Terminal
  BY DEF Terminal
<1> QED BY <1>1, <1>2, <1>3, PhaseFacts DEF Releases

\* All work ends when the session stops.
LEMMA StopReleases ==
    ASSUME CoordinatorInv, Stop
    PROVE  Releases(Slots, {w \in Works : phase[w] \in Live})
<1>1. /\ \A v \in Works : phase'[v] = IF phase[v] \in Live THEN "cancelled"
                                      ELSE IF phase[v] = "leased" THEN "released"
                                      ELSE phase[v]
      /\ item' = item
  BY DEF Stop
<1>2. \A w \in Works : phase[w] \in Live => item[w].slot \in Slots
  BY InvFacts DEF Assigned, Live
<1>3. "released" \in Unqueued /\ "leased" \in Unqueued /\ "cancelled" \in Terminal
  BY DEF Unqueued, Terminal
<1> QED BY <1>1, <1>2, <1>3, PhaseFacts, StageFacts DEF Releases

\* In lane s the works in new start to wait, and the works in done, which waited there,
\* are done; nothing else changes.
LEMMA RefreshRefines ==
    ASSUME CoordinatorTypeOK, CoordinatorTypeOK', NEW s \in Slots,
           NEW new \in SUBSET Works, NEW done \in SUBSET Works,
           \A w \in new : phase[w] \in Unqueued /\ item'[w].slot = s,
           \A w \in done : phase[w] = "queued" /\ item[w].slot = s /\ phase'[w] \in Terminal,
           \A w \in new : phase'[w] = "queued",
           \A w \in Works \ (new \cup done) : phase'[w] = phase[w],
           \A w \in Works \ new : item'[w].slot = item[w].slot
    PROVE  Serial!Next
<1>1. \A w \in new : w \notin done
  BY PhaseFacts
<1>2. \A w \in Works : StageOf(phase'[w]) = IF w \in new THEN "waiting"
                                            ELSE IF w \in done THEN "done"
                                            ELSE StageOf(phase[w])
  BY <1>1, StageFacts
<1>3. \A w \in Works : (IF phase'[w] \in Unqueued THEN NoSlot ELSE item'[w].slot) =
                       IF w \in new THEN s
                       ELSE IF phase[w] \in Unqueued THEN NoSlot ELSE item[w].slot
  BY <1>1, PhaseFacts
<1>4. \A w \in new : [v \in Works |-> StageOf(phase[v])][w] = "none"
  BY StageFacts
<1>5. done \subseteq Serial!On(s, "waiting")
  BY LaneFacts
<1>6. [w \in Works |-> StageOf(phase[w])]' =
         [w \in Works |-> IF w \in new THEN "waiting"
                          ELSE IF w \in done THEN "done"
                          ELSE [v \in Works |-> StageOf(phase[v])][w]]
  BY <1>2
<1>7. [w \in Works |-> IF phase[w] \in Unqueued THEN NoSlot ELSE item[w].slot]' =
         [w \in Works |-> IF w \in new THEN s
                          ELSE [v \in Works |-> IF phase[v] \in Unqueued THEN NoSlot
                                                ELSE item[v].slot][w]]
  BY <1>3
<1>8. Serial!Refresh(s, new, done)
  BY <1>4, <1>5, <1>6, <1>7 DEF Serial!Refresh
<1> QED BY <1>8 DEF Serial!Next

\* A committed item starts to wait in the lane of its slot.
LEMMA CommitRefines ==
    ASSUME CoordinatorInv, CoordinatorInv', NEW w \in Works, NEW m, CommitEnqueue(w, m)
    PROVE  Serial!Next
<1>1. CoordinatorTypeOK /\ CoordinatorTypeOK' /\ Assigned
  BY InvFacts DEF CoordinatorInv
<1>2. phase[w] = "leased" /\ item[w].slot \in Slots /\ "leased" \in Unqueued
  BY <1>1 DEF CommitEnqueue, CanCommit, Assigned, Unqueued
<1>3. /\ \A v \in Works : item'[v].slot = item[v].slot
      /\ \A v \in Works : phase'[v] = IF v = w THEN "queued" ELSE phase[v]
  BY <1>1 DEF CoordinatorTypeOK, Item, CommitEnqueue
<1> DEFINE new == {w}
<1>4. /\ new \in SUBSET Works /\ {} \in SUBSET Works
      /\ \A v \in new : phase[v] \in Unqueued /\ item'[v].slot = item[w].slot /\ phase'[v] = "queued"
      /\ \A v \in Works \ (new \cup {}) : phase'[v] = phase[v]
      /\ \A v \in Works \ new : item'[v].slot = item[v].slot
  BY <1>2, <1>3
<1> HIDE DEF new
<1> QED BY <1>1, <1>2, <1>4, RefreshRefines

\* A reconciliation is a refresh of its slot's lane.
LEMMA ReconcileRefines ==
    ASSUME CoordinatorInv, CoordinatorInv', NEW s \in Slots, NEW unread \in Seq(Messages),
           ReconcileMailbox(s, unread)
    PROVE  Serial!Next
<1> DEFINE stale == Stale(s, unread)
           orphans == Orphans(s, unread)
<1>1. CoordinatorTypeOK /\ CoordinatorTypeOK'
  BY DEF CoordinatorInv
<1>2. orphans \in Seq(Messages)
  BY WithoutElems DEF Orphans
<1>3. PICK drains \in FreshWorks(Len(orphans)) :
         /\ \A w \in Works : phase'[w] = IF w \in stale THEN "completed"
                                         ELSE IF w \in Elems(drains) THEN "queued"
                                         ELSE phase[w]
         /\ \A w \in Works : w \notin Elems(drains) => item'[w] = item[w]
         /\ \A w \in Works : w \in Elems(drains) => item'[w].slot = s
  BY DEF ReconcileMailbox, Drain
<1> DEFINE fresh == Elems(drains)
<1>4. \A w \in fresh : w \in Works /\ phase[w] = "absent"
  BY <1>2 DEF FreshWorks, Elems
<1>5. \A w \in stale : w \in Works /\ phase[w] = "queued" /\ item[w].slot = s
  BY DEF Stale, OfSlot
<1>6. "absent" \in Unqueued /\ "completed" \in Terminal
  BY DEF Unqueued, Terminal
<1> HIDE DEF stale, orphans, fresh
<1>7. /\ fresh \in SUBSET Works /\ stale \in SUBSET Works
      /\ \A w \in fresh : phase[w] \in Unqueued /\ item'[w].slot = s /\ phase'[w] = "queued"
      /\ \A w \in stale : phase[w] = "queued" /\ item[w].slot = s /\ phase'[w] \in Terminal
      /\ \A w \in Works \ (fresh \cup stale) : phase'[w] = phase[w]
      /\ \A w \in Works \ fresh : item'[w].slot = item[w].slot
  BY <1>3, <1>4, <1>5, <1>6 DEF fresh
<1> QED BY <1>1, <1>7, RefreshRefines

\* A claim starts a batch in an idle lane.
LEMMA ClaimRefines ==
    ASSUME CoordinatorInv, NEW s \in Slots, Claim(s)
    PROVE  Serial!Next
<1> DEFINE taken == Elems(ClaimedBatch(s).works)
           q == MessageWorks(s)
           p == SelectedPriority(s)
<1>1. /\ CoordinatorTypeOK /\ QueuedWorkIsInItsDeque
      /\ \A t \in Slots, x \in Priorities : queue[t][x] \in Seq(Works)
  BY InvFacts
<1>2. p \in Priorities
  BY DEF SelectedPriority, Priorities
<1>3. q \in Seq(Works) /\ q # <<>> /\ Elems(q) \subseteq Elems(queue[s][p])
  BY <1>1, <1>2, WithoutElems DEF MessageWorks, Claim
<1>4. ClaimedBatch(s).works = LeadingWorks(q)
  BY DEF ClaimedBatch
<1>5. active[s] = NoBatch
  BY DEF Claim, Selectable
<1>6. /\ \A v \in Works : phase'[v] = IF v \in taken THEN "starting" ELSE phase[v]
      /\ item' = item
  BY DEF Claim, MoveTo
<1> HIDE DEF q, p
<1>7. taken # {} /\ taken \subseteq Elems(queue[s][p])
  <2>1. PICK n \in 1..Len(q) : LeadingWorks(q) = SubSeq(q, 1, n)
    BY <1>3, LeadingWorksPrefix
  <2>2. Len(SubSeq(q, 1, n)) = n /\ 1 \in 1..n
    BY <1>3
  <2>3. taken # {}
    BY <1>4, <2>1, <2>2 DEF Elems
  <2> QED BY <1>3, <1>4, <2>3, LeadingWorksElems
<1> HIDE DEF taken
<1>8. \A w \in taken : w \in Works /\ phase[w] = "queued" /\ item[w].slot = s
  BY <1>1, <1>2, <1>7, ElemsIn DEF QueuedWorkIsInItsDeque
<1>9. taken \subseteq Serial!On(s, "waiting")
  BY <1>1, <1>8, LaneFacts
<1>10. Serial!On(s, "working") = {}
  BY <1>1, <1>5, LaneFacts, BatchWorks, NoBatchType
<1>11. "starting" \in Claimed
  BY DEF Claimed
<1>12. [w \in Works |-> StageOf(phase[w])]' =
          [w \in Works |-> IF w \in taken THEN "working" ELSE [v \in Works |-> StageOf(phase[v])][w]]
  BY <1>6, <1>11, StageFacts
<1>13. [w \in Works |-> IF phase[w] \in Unqueued THEN NoSlot ELSE item[w].slot]' =
          [w \in Works |-> IF phase[w] \in Unqueued THEN NoSlot ELSE item[w].slot]
  BY <1>6, <1>8, <1>11, PhaseFacts
<1>14. Serial!Take(s, taken)
  BY <1>7, <1>9, <1>10, <1>12, <1>13 DEF Serial!Take
<1>15. taken \in SUBSET Works
  BY <1>8
<1> QED BY <1>14, <1>15 DEF Serial!Next

\* A commit, a reconciliation, a claim, or a step in which slots let go of their
\* batches, none perhaps.
StageStep ==
    \/ \E w \in Works : \E m : CommitEnqueue(w, m)
    \/ \E s \in Slots, unread \in Seq(Messages) : ReconcileMailbox(s, unread)
    \/ \E s \in Slots : Claim(s)
    \/ \E freed, done : Releases(freed, done)

\* Such a step is a step of SerialWork.
LEMMA StageStepRefines ==
    ASSUME CoordinatorInv, CoordinatorInv', StageStep
    PROVE  Serial!Next
<1>1. CoordinatorTypeOK /\ CoordinatorTypeOK'
  BY DEF CoordinatorInv
<1> QED BY <1>1, CommitRefines, ReconcileRefines, ClaimRefines, ReleaseRefines DEF StageStep
=============================================================================
