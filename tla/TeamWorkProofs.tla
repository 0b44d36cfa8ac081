-------------------------- MODULE TeamWorkProofs --------------------------
(***************************************************************************)
(* What a team session keeps true, for all slots, works, messages, runs,   *)
(* bounds, sources and faults: that an active batch is being executed,     *)
(* that an agent is given a row once, that a run is cancelled on request   *)
(* only, and that the work coordinator's own invariant survives the way    *)
(* the session uses it.                                                    *)
(*                                                                         *)
(* The argument: WorkCoordinatorProofs says what each operation of the     *)
(* coordinator preserves; CoordinatorStep adds that work which has begun   *)
(* keeps its slot and, once committed, its row, and that a batch is only   *)
(* ever given up.  On top of that BatchInv relates a loop's batch to the   *)
(* coordinator's, RowInv follows a row from its writing to the prompt, and *)
(* CancelInv relates the run record to the cancellations.                  *)
(***************************************************************************)
EXTENDS TeamWork, WorkCoordinatorProofs, TLAPS

\* Where a loop is while it has a batch.
WithBatch == {"prepare", "turn", "running", "cancelling", "read", "finish"}

\* An enqueue call that has begun has its work item.
CallsHaveTheirWork == \A w \in Producers : call[w] # "idle" => phase[w] # "absent"

\* A row is unread, or known as unread, in the slot of its call only, and once the
\* call has written it.
Written(m) == call[m] \notin {"idle", "leased"}

RowsAreHome ==
    \A s \in Slots : \A m \in Elems(unread[s]) \cup Elems(view[s]) :
        Written(m) /\ item[m].slot = s

\* A row that was given to a turn: it is not unread any more and no prompt will
\* be built from it, or the loop that gave it will mark it read.
RowIsSettled(m, s) ==
    \/ m \notin Elems(unread[s]) /\ (m \in Elems(view[s]) => loop[s] = "finish")
    \/ loop[s] \in {"running", "read"} /\ m \in Rows(batch[s])

RowsAreGivenOnce ==
    \A m \in Messages \ unmarked :
        /\ turns[m] <= 1
        /\ turns[m] = 1 => Written(m) /\ RowIsSettled(m, item[m].slot)

RowInv == CallsHaveTheirWork /\ RowsAreHome /\ RowsAreGivenOnce

\* The batch a loop remembers is one it claimed; its members have been asked for
\* and committed.
BatchIsOwn(s) ==
    /\ batch[s] # NoBatch => batch[s].slot = s /\ batch[s].op > 0
    /\ \A w \in Elems(batch[s].works) : phase[w] \notin {"absent", "leased"}

\* The active batch of a slot is the one its loop remembers, and unless the loop
\* forgot it, it is being executed.
BatchIsKnown(s) ==
    /\ loop[s] \in WithBatch => batch[s] # NoBatch
    /\ active[s] # NoBatch => batch[s] = active[s]
    /\ active[s] # NoBatch /\ s \notin forgotten => loop[s] \in WithBatch

BatchInv == \A s \in Slots : BatchIsOwn(s) /\ BatchIsKnown(s)

\* A run that is being cancelled, or was, has a cancellation.
CancelInv ==
    run.status \in {"cancelling", "cancelled"} => run.id \in Runs /\ cancel[run.id] # "idle"

TeamInv ==
    /\ CoordinatorInv
    /\ SessionTypeOK
    /\ RowInv
    /\ BatchInv
    /\ CancelInv

-----------------------------------------------------------------------------
(* The coordinator's operations.                                           *)

\* Work that has begun keeps its slot and, once it is committed, everything.
WorkPersists ==
    \A w \in Works : phase[w] # "absent" =>
        /\ phase'[w] # "absent"
        /\ item'[w].slot = item[w].slot
        /\ phase[w] # "leased" => phase'[w] # "leased" /\ item'[w] = item[w]

\* What the session relies on, of every operation but a claim.
CoordinatorStep ==
    /\ CoordinatorInv'
    /\ WorkPersists
    /\ \A s \in Slots : active'[s] \in {active[s], NoBatch}

\* A step that leaves the coordinator alone.
LEMMA UnchangedStep ==
    ASSUME CoordinatorInv, UNCHANGED coordinatorVars
    PROVE  CoordinatorStep
<1> USE DEF coordinatorVars
<1>1. CoordinatorTypeOK' /\ Assigned' /\ IdleSlotsHaveNotStarted'
  BY DEF CoordinatorInv, CoordinatorTypeOK, Assigned, IdleSlotsHaveNotStarted
<1>2. QueuedWorkIsInItsDeque'
  BY DEF CoordinatorInv, Ownership, QueuedWorkIsInItsDeque
<1>3. ClaimedWorkIsInItsBatch'
  BY DEF CoordinatorInv, Ownership, ClaimedWorkIsInItsBatch
<1> QED BY <1>1, <1>2, <1>3 DEF CoordinatorStep, CoordinatorInv, Ownership, WorkPersists

\* Moving work to a later phase changes nothing that persists.
LEMMA MoveToPersists ==
    ASSUME NEW S, NEW p, p \notin {"absent", "leased"}, MoveTo(S, p), item' = item
    PROVE  WorkPersists
  BY DEF MoveTo, WorkPersists

\* acquire_enqueue
LEMMA AcquireStep ==
    ASSUME CoordinatorInv, NEW w \in Works, NEW s \in Slots, NEW source \in WorkSource,
           NEW r \in Runs \cup {NoRun}, AcquireEnqueue(w, s, source, r)
    PROVE  CoordinatorStep /\ phase'[w] # "absent"
<1>1. CoordinatorInv'
  BY AcquirePreserves
<1>2. phase[w] = "absent" /\ phase' = [phase EXCEPT ![w] = "leased"] /\ active' = active
      /\ item' = [item EXCEPT ![w] = [slot |-> s, source |-> source, run |-> r,
                                      message |-> NoMessage]]
  BY DEF AcquireEnqueue
<1>3. phase \in [Works -> Phases] /\ item \in [Works -> Item]
  BY DEF CoordinatorInv, CoordinatorTypeOK
<1>4. WorkPersists
  BY <1>2, <1>3 DEF WorkPersists
<1> QED BY <1>1, <1>2, <1>3, <1>4 DEF CoordinatorStep

\* commit_enqueue
LEMMA CommitStep ==
    ASSUME CoordinatorInv, NEW w \in Works, NEW m \in Messages \cup {NoMessage},
           CommitEnqueue(w, m)
    PROVE  CoordinatorStep
<1>1. CoordinatorInv'
  BY CommitPreserves
<1>2. phase[w] = "leased" /\ phase' = [phase EXCEPT ![w] = "queued"] /\ active' = active
      /\ item' = [item EXCEPT ![w].message = m]
  BY DEF CommitEnqueue, CanCommit
<1>3. phase \in [Works -> Phases] /\ item \in [Works -> Item]
  BY DEF CoordinatorInv, CoordinatorTypeOK
<1>4. \A v \in Works : item'[v].slot = item[v].slot /\ (v # w => item'[v] = item[v])
  BY <1>2, <1>3 DEF Item
<1>5. WorkPersists
  BY <1>2, <1>3, <1>4 DEF WorkPersists
<1> QED BY <1>1, <1>2, <1>5 DEF CoordinatorStep

\* abort_enqueue
LEMMA AbortStep ==
    ASSUME CoordinatorInv, NEW w \in Works, AbortEnqueue(w)
    PROVE  CoordinatorStep
<1>1. CoordinatorInv'
  BY AbortPreserves
<1>2. phase[w] = "leased" /\ phase' = [phase EXCEPT ![w] = "released"] /\ active' = active
      /\ item' = item
  BY DEF AbortEnqueue
<1>3. phase \in [Works -> Phases]
  BY DEF CoordinatorInv, CoordinatorTypeOK
<1>4. WorkPersists
  BY <1>2, <1>3 DEF WorkPersists
<1> QED BY <1>1, <1>2, <1>4 DEF CoordinatorStep

\* mark_started
LEMMA MarkStartedStep ==
    ASSUME CoordinatorInv, NEW b, b.slot \in Slots, b = active[b.slot], b # NoBatch,
           MarkStarted(b)
    PROVE  CoordinatorStep
<1>1. CoordinatorInv'
  BY MarkStartedPreserves
<1>2. MoveTo(Elems(b.works), "running") /\ item' = item /\ active' = active
  BY DEF MarkStarted
<1>3. WorkPersists
  BY <1>2, MoveToPersists
<1> QED BY <1>1, <1>2, <1>3 DEF CoordinatorStep

\* complete_batch, fail_batch and cancel_batch give the batch up.
LEMMA TerminalizeStep ==
    ASSUME CoordinatorInv, NEW b, b.slot \in Slots, b = active[b.slot], b # NoBatch,
           NEW end \in Terminal, TerminalizeBatch(b, end)
    PROVE  CoordinatorStep /\ active'[b.slot] = NoBatch
<1>1. CoordinatorInv'
  BY TerminalizePreserves
<1>2. MoveTo(Elems(b.works), end) /\ item' = item
      /\ active' = [active EXCEPT ![b.slot] = NoBatch]
  BY DEF TerminalizeBatch
<1>3. WorkPersists
  BY <1>2, MoveToPersists DEF Terminal
<1>4. active \in [Slots -> Batch]
  BY DEF CoordinatorInv, CoordinatorTypeOK
<1>5. /\ \A t \in Slots : active'[t] \in {active[t], NoBatch}
      /\ active'[b.slot] = NoBatch
  BY <1>2, <1>4
<1> QED BY <1>1, <1>3, <1>5 DEF CoordinatorStep

\* retry_start gives it up, too.
LEMMA RetryStartStep ==
    ASSUME CoordinatorInv, NEW b, b.slot \in Slots, b = active[b.slot], b # NoBatch,
           RetryStart(b)
    PROVE  CoordinatorStep /\ active'[b.slot] = NoBatch
<1>1. CoordinatorInv'
  BY RetryStartPreserves
<1>2. MoveTo(Elems(b.works), "queued") /\ item' = item
      /\ active' = [active EXCEPT ![b.slot] = NoBatch]
  BY DEF RetryStart
<1>3. WorkPersists
  BY <1>2, MoveToPersists
<1>4. active \in [Slots -> Batch]
  BY DEF CoordinatorInv, CoordinatorTypeOK
<1>5. /\ \A t \in Slots : active'[t] \in {active[t], NoBatch}
      /\ active'[b.slot] = NoBatch
  BY <1>2, <1>4
<1> QED BY <1>1, <1>3, <1>5 DEF CoordinatorStep

\* complete_signals
LEMMA CompleteSignalsStep ==
    ASSUME CoordinatorInv, NEW s \in Slots, NEW S, CompleteSignals(s, S)
    PROVE  CoordinatorStep
<1>1. CoordinatorInv'
  BY CompleteSignalsPreserves
<1>2. MoveTo(S, "completed") /\ item' = item /\ active' = active
  BY DEF CompleteSignals
<1>3. WorkPersists
  BY <1>2, MoveToPersists
<1> QED BY <1>1, <1>2, <1>3 DEF CoordinatorStep

\* cancel_run
LEMMA CancelRunStep ==
    ASSUME CoordinatorInv, NEW r \in Runs, CancelRun(r)
    PROVE  CoordinatorStep
<1>1. CoordinatorInv'
  BY CancelRunPreserves
<1>2. /\ phase' = [w \in Works |->
                       IF w \in CancelledWorks(r) THEN "cancelled"
                       ELSE IF w \in RetainedWorks(r) THEN "queued"
                       ELSE IF w \in OfRun(r, {"leased"}) THEN "released"
                       ELSE phase[w]]
      /\ active' = [s \in Slots |-> IF s \in CancelledSlots(r) THEN NoBatch ELSE active[s]]
      /\ item' = item
  BY DEF CancelRun
<1>3. WorkPersists
  BY <1>2 DEF WorkPersists
<1>4. \A s \in Slots : active'[s] \in {active[s], NoBatch}
  BY <1>2
<1> QED BY <1>1, <1>3, <1>4 DEF CoordinatorStep

\* reconcile_mailbox creates work out of absent work only.
LEMMA ReconcileStep ==
    ASSUME CoordinatorInv, NEW s \in Slots, NEW rows \in Seq(Messages),
           ReconcileMailbox(s, rows)
    PROVE  CoordinatorStep
<1>1. CoordinatorInv'
  BY ReconcilePreserves
<1> DEFINE stale == Stale(s, rows)
           orphans == Orphans(s, rows)
<1>2. PICK drains \in FreshWorks(Len(orphans)) :
        /\ phase' = [w \in Works |->
                         IF w \in stale THEN "completed"
                         ELSE IF w \in Elems(drains) THEN "queued"
                         ELSE phase[w]]
        /\ item' = [w \in Works |->
                        IF w \in Elems(drains)
                        THEN Drain(s, orphans[CHOOSE i \in 1..Len(drains) :
                                                drains[i] = w])
                        ELSE item[w]]
        /\ active' = active
  BY DEF ReconcileMailbox
<1>3. orphans \in Seq(Messages)
  BY WithoutElems DEF Orphans
<1>4. Elems(drains) \subseteq {w \in Works : phase[w] = "absent"}
  BY <1>3 DEF FreshWorks, Elems
<1> HIDE DEF stale, orphans
<1>5. WorkPersists
  BY <1>2, <1>4 DEF WorkPersists
<1> QED BY <1>1, <1>2, <1>5 DEF CoordinatorStep

\* next: the slot was free, and its new batch has an operation id and members
\* that were queued.
LEMMA ClaimStep ==
    ASSUME CoordinatorInv, NEW s \in Slots, Claim(s)
    PROVE  /\ CoordinatorInv' /\ WorkPersists
           /\ ClaimedBatch(s) \in Batch
           /\ ClaimedBatch(s).slot = s /\ ClaimedBatch(s).op > 0
           /\ active[s] = NoBatch
           /\ \A t \in Slots : active'[t] = IF t = s THEN ClaimedBatch(s) ELSE active[t]
           /\ \A w \in Elems(ClaimedBatch(s).works) :
                 w \in Works /\ phase'[w] \notin {"absent", "leased"}
<1>1. CoordinatorInv' /\ ClaimedBatch(s) \in Batch
  BY ClaimPreserves
<1> DEFINE b == ClaimedBatch(s)
<1>2. MoveTo(Elems(b.works), "starting") /\ item' = item
      /\ active' = [active EXCEPT ![s] = b]
      /\ active[s] = NoBatch
  BY DEF Claim, Selectable
<1>3. b.slot = s /\ b.op > 0
  <2>1. nextOp \in Nat
    BY ConstantsAssumption DEF CoordinatorInv, CoordinatorTypeOK
  <2> QED BY <2>1 DEF ClaimedBatch, NextOperation
<1>4. active \in [Slots -> Batch]
  BY DEF CoordinatorInv, CoordinatorTypeOK
<1>5. Elems(b.works) \subseteq Works
  BY <1>1, ElemsIn DEF Batch
<1> HIDE DEF b
<1>6. WorkPersists
  BY <1>2, MoveToPersists
<1>7. \A w \in Elems(b.works) : w \in Works /\ phase'[w] \notin {"absent", "leased"}
  BY <1>2, <1>5 DEF MoveTo
<1>8. \A t \in Slots : active'[t] = IF t = s THEN b ELSE active[t]
  BY <1>2, <1>4
<1> QED BY <1>1, <1>2, <1>3, <1>6, <1>7, <1>8 DEF b

-----------------------------------------------------------------------------
(* What a step of the session needs to preserve.                           *)

SummaryRecord == [run: Runs, failed: BOOLEAN, running: BOOLEAN, work: BOOLEAN]

\* The invariant, taken apart.
LEMMA TeamFacts ==
    ASSUME TeamInv
    PROVE  /\ CoordinatorInv /\ SessionTypeOK /\ RowInv /\ BatchInv /\ CancelInv
           /\ phase \in [Works -> Phases] /\ item \in [Works -> Item]
           /\ active \in [Slots -> Batch]
           /\ Producers \subseteq Works /\ Messages = Producers
           /\ NoRun \notin Runs /\ NoSlot \notin Slots /\ NoMessage \notin Messages
  BY TeamAssumption, ConstantsAssumption DEF TeamInv, CoordinatorInv, CoordinatorTypeOK

\* The summaries a thread computes are summaries of runs.
LEMMA AnnounceType ==
    ASSUME SessionTypeOK, NEW t \in Threads, NEW runs \in SUBSET Runs, Announce(t, runs)
    PROVE  pending' \in [Threads -> SUBSET SummaryRecord]
<1>1. pending \in [Threads -> SUBSET SummaryRecord]
  BY DEF SessionTypeOK, SummaryRecord
<1>2. \A r \in runs : Summary(r)' \in SummaryRecord
  BY DEF Summary, SummaryRecord
<1>3. {Summary(r)' : r \in runs} \in SUBSET SummaryRecord
  BY <1>2
<1> QED BY <1>1, <1>3 DEF Announce

\* The runs of a batch.
LEMMA BatchRunsType ==
    ASSUME CoordinatorInv, NEW b \in Batch
    PROVE  BatchRuns(b) \in SUBSET Runs
<1>1. Elems(b.works) \subseteq Works
  BY ElemsIn DEF Batch
<1>2. \A w \in Works : item[w].run \in Runs \cup {NoRun}
  BY DEF CoordinatorInv, CoordinatorTypeOK, Item
<1> QED BY <1>1, <1>2 DEF BatchRuns

\* A loop that has a batch: its handle is the active batch of the slot, or the
\* slot is free.
LEMMA HandleFacts ==
    ASSUME TeamInv, NEW s \in Slots, loop[s] \in WithBatch
    PROVE  /\ batch[s] \in Batch /\ batch[s] # NoBatch /\ batch[s].slot = s
           /\ IsCurrent(batch[s]) => batch[s] = active[s]
           /\ ~IsCurrent(batch[s]) => active[s] = NoBatch
           /\ BatchRuns(batch[s]) \in SUBSET Runs
<1>1. batch[s] \in Batch
  BY DEF TeamInv, SessionTypeOK
<1>2. /\ batch[s] # NoBatch /\ batch[s].slot = s /\ batch[s].op > 0
      /\ active[s] # NoBatch => batch[s] = active[s]
  BY DEF TeamInv, BatchInv, BatchIsOwn, BatchIsKnown
<1>3. NoBatch.op = 0
  BY DEF NoBatch
<1>4. BatchRuns(batch[s]) \in SUBSET Runs
  BY <1>1, BatchRunsType DEF TeamInv
<1> QED BY <1>1, <1>2, <1>3, <1>4 DEF IsCurrent

\* The rows of a batch that has begun do not change.
LEMMA RowsStay ==
    ASSUME TeamInv, WorkPersists, NEW s \in Slots
    PROVE  \A w \in Elems(batch[s].works) :
              /\ w \in Works /\ item'[w] = item[w]
              /\ phase'[w] \notin {"absent", "leased"}
<1>1. batch[s] \in Batch
  BY DEF TeamInv, SessionTypeOK
<1>2. Elems(batch[s].works) \subseteq Works
  BY <1>1, ElemsIn DEF Batch
<1>3. \A w \in Elems(batch[s].works) : phase[w] \notin {"absent", "leased"}
  BY DEF TeamInv, BatchInv, BatchIsOwn
<1> QED BY <1>2, <1>3 DEF WorkPersists

\* A step that neither claims a batch nor takes up a row keeps BatchInv.
LEMMA BatchFrame ==
    ASSUME TeamInv, WorkPersists, batch' = batch, forgotten \subseteq forgotten',
           \A s \in Slots :
              /\ active'[s] \in {active[s], NoBatch}
              /\ loop'[s] \in WithBatch => loop[s] \in WithBatch
              /\ loop[s] \in WithBatch =>
                    loop'[s] \in WithBatch \/ active'[s] = NoBatch \/ s \in forgotten'
    PROVE  BatchInv'
<1> SUFFICES ASSUME NEW s \in Slots
             PROVE  BatchIsOwn(s)' /\ BatchIsKnown(s)'
  BY DEF BatchInv
<1>1. BatchIsOwn(s) /\ BatchIsKnown(s)
  BY DEF TeamInv, BatchInv
<1>2. BatchIsOwn(s)'
  BY <1>1, RowsStay DEF BatchIsOwn
<1>3. BatchIsKnown(s)'
  BY <1>1 DEF BatchIsKnown
<1> QED BY <1>2, <1>3

\* What the steps do to rows, with two exceptions: a call that writes its row
\* (WriteRow) and a turn that begins (TurnStarts).
RowStep ==
    /\ WorkPersists
    /\ turns' = turns
    /\ unmarked \subseteq unmarked'
    /\ \A w \in Producers :
          /\ Written(w) => call'[w] \notin {"idle", "leased"}
          /\ call'[w] # "idle" => call[w] # "idle" \/ phase'[w] # "absent"
    /\ \A s \in Slots :
          /\ Elems(unread'[s]) \subseteq Elems(unread[s])
          /\ Elems(view'[s]) \subseteq Elems(view[s]) \cup Elems(unread[s])
          /\ batch'[s] = batch[s] \/ loop[s] \notin {"running", "read"}
          /\ loop[s] = "finish" => loop'[s] = "finish" \/ Elems(view'[s]) = {}
          /\ loop[s] \in {"running", "read"} =>
                \/ loop'[s] \in {"running", "read"}
                \/ \A m \in Rows(batch[s]) \ unmarked' :
                      m \notin Elems(unread'[s]) /\ loop'[s] = "finish"

LEMMA RowFrame ==
    ASSUME TeamInv, RowStep
    PROVE  RowInv'
<1>1. /\ CallsHaveTheirWork /\ RowsAreHome /\ RowsAreGivenOnce
      /\ WorkPersists /\ Producers \subseteq Works /\ Messages = Producers
  BY TeamFacts DEF RowInv, RowStep
<1>2. CallsHaveTheirWork'
  BY <1>1 DEF CallsHaveTheirWork, RowStep, WorkPersists
<1>3. \A m \in Producers : Written(m) => Written(m)' /\ item'[m].slot = item[m].slot
  BY <1>1 DEF Written, CallsHaveTheirWork, RowStep, WorkPersists
<1>4. \A s \in Slots : \A m \in Elems(unread[s]) \cup Elems(view[s]) : m \in Producers
  <2>1. \A s \in Slots : unread[s] \in Seq(Messages) /\ view[s] \in Seq(Messages)
    BY DEF TeamInv, SessionTypeOK
  <2> QED BY <1>1, <2>1, ElemsIn
<1>5. RowsAreHome'
  <2> SUFFICES ASSUME NEW s \in Slots, NEW m \in Elems(unread'[s]) \cup Elems(view'[s])
               PROVE  Written(m)' /\ item'[m].slot = s
    BY DEF RowsAreHome
  <2>1. m \in Elems(unread[s]) \cup Elems(view[s])
    BY DEF RowStep
  <2> QED BY <1>1, <1>3, <1>4, <2>1 DEF RowsAreHome
<1>6. \A s \in Slots : batch'[s] = batch[s] => Rows(batch[s])' = Rows(batch[s])
  <2> SUFFICES ASSUME NEW s \in Slots, batch'[s] = batch[s]
               PROVE  Rows(batch[s])' = Rows(batch[s])
    OBVIOUS
  <2>1. \A w \in Elems(batch[s].works) : item'[w] = item[w]
    BY <1>1, RowsStay
  <2> QED BY <2>1 DEF Rows
<1>7. RowsAreGivenOnce'
  <2> SUFFICES ASSUME NEW m \in Messages \ unmarked'
               PROVE  /\ turns'[m] <= 1
                      /\ turns'[m] = 1 => Written(m)' /\ RowIsSettled(m, item[m].slot)'
    BY DEF RowsAreGivenOnce
  <2>1. /\ m \notin unmarked /\ turns[m] <= 1
        /\ turns[m] = 1 => Written(m) /\ RowIsSettled(m, item[m].slot)
    BY <1>1 DEF RowsAreGivenOnce, RowStep
  <2>2. turns' = turns
    BY DEF RowStep
  <2> SUFFICES ASSUME turns[m] = 1
               PROVE  RowIsSettled(m, item[m].slot)'
    BY <1>1, <1>3, <2>1, <2>2
  <2>3. item[m].slot \in Slots /\ item'[m].slot = item[m].slot
    <3>1. phase[m] # "absent"
      BY <1>1, <2>1 DEF CallsHaveTheirWork, Written
    <3> QED BY <1>1, <1>3, <2>1, <3>1 DEF TeamInv, CoordinatorInv, Assigned
  <2>4. PICK home \in Slots : home = item[m].slot /\ home = item'[m].slot
    BY <2>3
  <2>5. SUFFICES \/ m \notin Elems(unread'[home]) /\ (m \in Elems(view'[home]) => loop'[home] = "finish")
                 \/ loop'[home] \in {"running", "read"} /\ m \in Rows(batch[home])'
    BY <2>4 DEF RowIsSettled
  <2>6. CASE m \notin Elems(unread[home]) /\ (m \in Elems(view[home]) => loop[home] = "finish")
    BY <2>6 DEF RowStep
  <2>7. CASE loop[home] \in {"running", "read"} /\ m \in Rows(batch[home])
    <3>1. batch'[home] = batch[home] /\ Rows(batch[home])' = Rows(batch[home])
      BY <1>6, <2>7 DEF RowStep
    <3>2. \/ loop'[home] \in {"running", "read"}
          \/ \A n \in Rows(batch[home]) \ unmarked' :
                n \notin Elems(unread'[home]) /\ loop'[home] = "finish"
      BY <2>7 DEF RowStep
    <3>3. m \in Rows(batch[home]) \ unmarked'
      BY <2>7
    <3> QED BY <2>7, <3>1, <3>2, <3>3
  <2> QED BY <2>1, <2>4, <2>6, <2>7 DEF RowIsSettled
<1> QED BY <1>2, <1>5, <1>7 DEF RowInv

\* A step that leaves the run record alone and takes no cancellation back.
LEMMA CancelFrame ==
    ASSUME TeamInv, run' = run, \A r \in Runs : cancel[r] # "idle" => cancel'[r] # "idle"
    PROVE  CancelInv'
  BY DEF TeamInv, CancelInv

\* A step of a call or of a cancellation: the loops, their batches and what they
\* read stay, and no row appears.
LEMMA CallFrame ==
    ASSUME TeamInv, CoordinatorStep,
           UNCHANGED <<loop, view, batch, turns, forgotten>>,
           unmarked \subseteq unmarked',
           \A s \in Slots : Elems(unread'[s]) \subseteq Elems(unread[s]),
           \A w \in Producers :
              /\ Written(w) => call'[w] \notin {"idle", "leased"}
              /\ call'[w] # "idle" => call[w] # "idle" \/ phase'[w] # "absent"
    PROVE  RowInv' /\ BatchInv'
<1>1. RowStep
  BY DEF RowStep, CoordinatorStep
<1>2. BatchInv'
  BY BatchFrame DEF CoordinatorStep
<1> QED BY <1>1, <1>2, RowFrame

\* A step of the loop of slot s that leaves the rows and its batch alone.
LEMMA LoopFrame ==
    ASSUME TeamInv, CoordinatorStep, NEW s \in Slots, NEW from, NEW to,
           Step(s, from, to), from # "finish", from = "running" => to = "read", from # "read",
           to \in WithBatch => from \in WithBatch,
           from \in WithBatch =>
              to \in WithBatch \/ active'[s] = NoBatch \/ s \in forgotten',
           UNCHANGED <<call, unread, batch, turns>>,
           unmarked \subseteq unmarked', forgotten \subseteq forgotten',
           \A t \in Slots : Elems(view'[t]) \subseteq Elems(view[t]) \cup Elems(unread[t])
    PROVE  RowInv' /\ BatchInv'
<1>1. /\ loop[s] = from /\ loop'[s] = to
      /\ \A t \in Slots : t # s => loop'[t] = loop[t]
  BY DEF Step, TeamInv, SessionTypeOK
<1>2. RowStep
  <2>1. \A t \in Slots :
          /\ loop[t] = "finish" => loop'[t] = "finish"
          /\ loop[t] \in {"running", "read"} => loop'[t] \in {"running", "read"}
    BY <1>1
  <2>2. \A w \in Producers :
          /\ Written(w) => call'[w] \notin {"idle", "leased"}
          /\ call'[w] # "idle" => call[w] # "idle"
    BY DEF Written
  <2> QED BY <2>1, <2>2 DEF RowStep, CoordinatorStep
<1>3. BatchInv'
  BY <1>1, BatchFrame DEF CoordinatorStep
<1> QED BY <1>2, <1>3, RowFrame

-----------------------------------------------------------------------------
(* The steps of an enqueue call.                                           *)

\* The status of the run follows a published summary; only a run that is being
\* cancelled becomes cancelled.
LEMMA PublishInv == ASSUME TeamInv, NEW t \in Threads, Publish(t) PROVE TeamInv'
<1>1. PICK summary \in pending[t] :
         /\ run' = Record!ApplySummary(run, summary)
         /\ pending' = [pending EXCEPT ![t] = @ \ {summary}]
  BY DEF Publish
<1>2. /\ UNCHANGED <<coordinatorVars, usedRuns, unread, call, loop, view, batch, ran,
                     settling, notified, cancel, victims, turns, unmarked, forgotten>>
      /\ SessionTypeOK
  BY DEF Publish, TeamInv
<1>3. CoordinatorStep
  BY <1>2, UnchangedStep, TeamFacts
<1>4. /\ pending \in [Threads -> SUBSET SummaryRecord]
      /\ summary \in SummaryRecord
      /\ run \in Record!RunRecord
  BY <1>1, <1>2 DEF SessionTypeOK, SummaryRecord
<1>5. /\ run' \in Record!RunRecord
      /\ run'.id = run.id
      /\ run'.status = run.status \/ run'.status = Record!StatusAfter(run.status, summary)
  BY <1>1, <1>4 DEF Record!ApplySummary, Record!RunRecord, Record!StatusAfter, Record!Statuses
<1>6. SessionTypeOK'
  BY <1>1, <1>2, <1>4, <1>5 DEF SessionTypeOK, SummaryRecord
<1>7. CancelInv'
  BY <1>2, <1>5 DEF CancelInv, TeamInv, Record!StatusAfter
<1>8. RowInv' /\ BatchInv'
  BY <1>2, <1>3, CallFrame DEF Written
<1> QED BY <1>3, <1>6, <1>7, <1>8 DEF TeamInv, CoordinatorStep

\* The run an enqueue inherits.
LEMMA InheritedRunType ==
    ASSUME TeamInv, NEW caller \in Slots \cup {NoSlot}
    PROVE  InheritedRun(caller) \in Runs \cup {NoRun}
<1>1. CASE caller = NoSlot
  BY <1>1 DEF InheritedRun
<1>2. CASE caller # NoSlot
  <2> DEFINE bound == Only(active[caller].works, {w \in Works : item[w].run # NoRun})
  <2>1. active[caller].works \in Seq(Works)
    BY <1>2, TeamFacts DEF Batch
  <2>2. bound \in Seq(Works)
    BY <2>1, OnlyElems
  <2>3. bound # <<>> => bound[1] \in Works
    BY <2>2, EmptySeq
  <2>4. \A w \in Works : item[w].run \in Runs \cup {NoRun}
    BY TeamFacts DEF Item
  <2>5. FirstRun(active[caller]) = IF bound = <<>> THEN NoRun ELSE item[bound[1]].run
    BY DEF FirstRun
  <2> QED BY <1>2, <2>3, <2>4, <2>5 DEF InheritedRun
<1> QED BY <1>1, <1>2

\* An enqueue that opens a run opens it as accepted; one that joins an active run
\* leaves its status alone.
LEMMA BindNewFacts ==
    ASSUME run \in Record!RunRecord, NEW source, NEW r \in Runs
    PROVE  /\ BindNew(source, r) \in Record!RunRecord
           /\ \/ BindNew(source, r).id = run.id /\ BindNew(source, r).status = run.status
              \/ BindNew(source, r).status = "accepted"
<1>1. /\ [run EXCEPT !.intervention = TRUE] \in Record!RunRecord
      /\ [run EXCEPT !.intervention = TRUE].id = run.id
      /\ [run EXCEPT !.intervention = TRUE].status = run.status
  BY DEF Record!RunRecord
<1>2. \A byUser \in BOOLEAN :
        Record!Opened(r, byUser) \in Record!RunRecord /\ Record!Opened(r, byUser).status = "accepted"
  BY DEF Record!RunRecord, Record!Opened, Record!Statuses
<1> QED BY <1>1, <1>2 DEF BindNew, Record!BindUser, Record!BindSystem

\* acquire_enqueue and the binding of the run.
LEMMA AcquireInv == ASSUME TeamInv, NEW w \in Producers, Acquire(w) PROVE TeamInv'
<1>1. PICK s \in Slots, source \in Sources, caller \in Slots \cup {NoSlot} :
          /\ \/ /\ InheritedRun(caller) # NoRun
                /\ AcquireEnqueue(w, s, source, InheritedRun(caller))
                /\ UNCHANGED <<run, usedRuns>>
             \/ /\ InheritedRun(caller) = NoRun
                /\ \E r \in Runs :
                      /\ IF Record!IsActive(run) THEN r = run.id ELSE r \notin usedRuns
                      /\ run' = BindNew(source, r)
                      /\ usedRuns' = usedRuns \cup {r}
                      /\ AcquireEnqueue(w, s, source, r)
          /\ Goto(w, IF RequiresMailboxMessage(source) THEN "leased" ELSE "written")
  BY DEF Acquire
<1>2. /\ UNCHANGED <<unread, loop, view, batch, ran, settling, notified, cancel,
                     victims, pending, turns, unmarked, forgotten>>
      /\ SessionTypeOK /\ call[w] = "idle"
      /\ w \in Works /\ source \in WorkSource
  BY TeamFacts, TeamAssumption DEF Acquire
<1>3. /\ CoordinatorStep /\ phase'[w] # "absent"
      /\ run' \in Record!RunRecord /\ usedRuns' \subseteq Runs
      /\ \/ run'.id = run.id /\ run'.status = run.status
         \/ run'.status = "accepted"
  <2>1. CASE /\ AcquireEnqueue(w, s, source, InheritedRun(caller))
             /\ UNCHANGED <<run, usedRuns>>
    BY <1>2, <2>1, AcquireStep, InheritedRunType, TeamFacts DEF SessionTypeOK
  <2>2. CASE \E r \in Runs : /\ run' = BindNew(source, r)
                             /\ usedRuns' = usedRuns \cup {r}
                             /\ AcquireEnqueue(w, s, source, r)
    BY <1>2, <2>2, AcquireStep, BindNewFacts, TeamFacts DEF SessionTypeOK
  <2> QED BY <1>1, <2>1, <2>2
<1>4. /\ call' \in [Producers -> Calls]
      /\ \A v \in Producers : v # w => call'[v] = call[v]
  BY <1>1, <1>2 DEF Goto, SessionTypeOK, Calls
<1>5. SessionTypeOK'
  BY <1>2, <1>3, <1>4 DEF SessionTypeOK
<1>6. CancelInv'
  BY <1>2, <1>3 DEF CancelInv, TeamInv
<1>7. RowInv' /\ BatchInv'
  BY <1>2, <1>3, <1>4, CallFrame DEF Written
<1> QED BY <1>3, <1>5, <1>6, <1>7 DEF TeamInv, CoordinatorStep

\* The run of a work item, if any, is what its call announces.
LEMMA AnnounceOwnRun ==
    ASSUME TeamInv, NEW w \in Producers, Announce(w, {item[w].run} \ {NoRun})
    PROVE  pending' \in [Threads -> SUBSET SummaryRecord]
<1>1. ({item[w].run} \ {NoRun}) \in SUBSET Runs
  BY TeamFacts DEF Item
<1>2. w \in Threads
  BY DEF Threads
<1> QED BY <1>1, <1>2, AnnounceType, TeamFacts

\* The call writes its row: nobody knows it yet, and no turn was given it.
LEMMA WriteRowInv == ASSUME TeamInv, NEW w \in Producers, WriteRow(w) PROVE TeamInv'
<1>1. /\ call[w] = "leased"
      /\ unread' = [unread EXCEPT ![item[w].slot] = Append(@, w)]
      /\ Goto(w, "written")
      /\ UNCHANGED <<coordinatorVars, run, usedRuns, loop, view, batch, ran, settling,
                     notified, cancel, victims, pending, turns, unmarked, forgotten>>
      /\ SessionTypeOK /\ CoordinatorInv
      /\ CallsHaveTheirWork /\ RowsAreHome /\ RowsAreGivenOnce
      /\ Producers \subseteq Works /\ Messages = Producers
  BY TeamFacts DEF WriteRow, RowInv
<1>2. CoordinatorStep /\ phase' = phase /\ item' = item
  BY <1>1, UnchangedStep DEF coordinatorVars
<1>3. /\ call' \in [Producers -> Calls] /\ call'[w] = "written"
      /\ \A v \in Producers : v # w => call'[v] = call[v]
  BY <1>1 DEF Goto, SessionTypeOK, Calls
<1>4. item[w].slot \in Slots
  BY <1>1 DEF CallsHaveTheirWork, CoordinatorInv, Assigned
<1>5. PICK s \in Slots : s = item[w].slot
  BY <1>4
<1>6. /\ Append(unread[s], w) \in Seq(Messages)
      /\ Elems(Append(unread[s], w)) = Elems(unread[s]) \cup {w}
  BY <1>1, <1>5, AppendElems DEF SessionTypeOK
<1>7. /\ unread' \in [Slots -> Seq(Messages)]
      /\ Elems(unread'[s]) = Elems(unread[s]) \cup {w}
      /\ \A t \in Slots : t # s => unread'[t] = unread[t]
  BY <1>1, <1>5, <1>6 DEF SessionTypeOK
<1>8. SessionTypeOK'
  BY <1>1, <1>3, <1>7 DEF SessionTypeOK
<1>9. BatchInv'
  BY <1>1, <1>2, BatchFrame DEF CoordinatorStep
<1>10. CancelInv'
  BY <1>1, CancelFrame
<1>11. CallsHaveTheirWork'
  BY <1>1, <1>2, <1>3 DEF CallsHaveTheirWork
<1>12. \A v \in Producers : Written(v) => Written(v)' /\ v # w
  BY <1>1, <1>3 DEF Written
<1>13. \A t \in Slots : \A m \in Elems(unread[t]) \cup Elems(view[t]) : m \in Producers
  BY <1>1, ElemsIn DEF SessionTypeOK
<1>14. RowsAreHome'
  <2> SUFFICES ASSUME NEW t \in Slots, NEW m \in Elems(unread'[t]) \cup Elems(view'[t])
               PROVE  Written(m)' /\ item'[m].slot = t
    BY DEF RowsAreHome
  <2>1. CASE m \in Elems(unread[t]) \cup Elems(view[t])
    BY <1>1, <1>2, <1>12, <1>13, <2>1 DEF RowsAreHome
  <2>2. CASE m = w /\ t = s
    BY <1>2, <1>3, <1>5, <2>2 DEF Written
  <2> QED BY <1>1, <1>7, <2>1, <2>2
<1>15. RowsAreGivenOnce'
  <2> SUFFICES ASSUME NEW m \in Messages \ unmarked'
               PROVE  /\ turns'[m] <= 1
                      /\ turns'[m] = 1 => Written(m)' /\ RowIsSettled(m, item[m].slot)'
    BY DEF RowsAreGivenOnce
  <2>1. /\ turns[m] <= 1
        /\ turns[m] = 1 => Written(m) /\ RowIsSettled(m, item[m].slot)
    BY <1>1 DEF RowsAreGivenOnce
  <2> SUFFICES ASSUME turns[m] = 1
               PROVE  RowIsSettled(m, item[m].slot)'
    BY <1>1, <1>12, <2>1
  <2>2. PICK home \in Slots : home = item[m].slot
    BY <1>1, <2>1 DEF CallsHaveTheirWork, Written, CoordinatorInv, Assigned
  <2>3. m # w /\ m \in Producers
    BY <1>1, <1>12, <2>1
  <2>4. m \in Elems(unread'[home]) => m \in Elems(unread[home])
    BY <1>7, <2>2, <2>3
  <2>5. Rows(batch[home])' = Rows(batch[home])
    BY <1>1, <1>2 DEF Rows
  <2> QED BY <1>1, <1>2, <2>1, <2>2, <2>4, <2>5 DEF RowIsSettled
<1> QED BY <1>2, <1>8, <1>9, <1>10, <1>11, <1>14, <1>15 DEF TeamInv, CoordinatorStep, RowInv

\* Going on to another place after the first keeps the call begun and the row written.
LEMMA GotoFacts ==
    ASSUME SessionTypeOK, NEW w \in Producers, NEW place \in Calls, Goto(w, place)
    PROVE  /\ call' \in [Producers -> Calls]
           /\ call'[w] = place
           /\ \A v \in Producers : v # w => call'[v] = call[v]
  BY DEF Goto, SessionTypeOK

\* The row cannot be written.
LEMMA WriteFailsInv == ASSUME TeamInv, NEW w \in Producers, WriteFails(w) PROVE TeamInv'
<1>1. /\ call[w] = "leased"
      /\ UNCHANGED <<run, usedRuns, unread, loop, view, batch, ran, settling,
                     notified, cancel, victims, turns, unmarked, forgotten>>
      /\ SessionTypeOK /\ CoordinatorInv /\ w \in Works
  BY TeamFacts DEF WriteFails
<1>2. /\ CoordinatorStep
      /\ pending' \in [Threads -> SUBSET SummaryRecord]
      /\ \E place \in {"unbinding", "failed"} : Goto(w, place)
  <2>1. CASE /\ AbortEnqueue(w)
             /\ Goto(w, IF RunIsEmpty(w) THEN "unbinding" ELSE "failed")
             /\ Announce(w, {item[w].run} \ {NoRun})
    BY <1>1, <2>1, AbortStep, AnnounceOwnRun
  <2>2. CASE Goto(w, "failed") /\ UNCHANGED <<coordinatorVars, pending>>
    BY <1>1, <2>2, UnchangedStep DEF SessionTypeOK, SummaryRecord
  <2> QED BY <2>1, <2>2 DEF WriteFails
<1>3. PICK place \in {"unbinding", "failed"} : Goto(w, place)
  BY <1>2
<1>4. /\ call' \in [Producers -> Calls] /\ call'[w] = place
      /\ \A v \in Producers : v # w => call'[v] = call[v]
  BY <1>1, <1>3, GotoFacts DEF Calls
<1>5. SessionTypeOK'
  BY <1>1, <1>2, <1>4 DEF SessionTypeOK, SummaryRecord
<1>6. CancelInv'
  BY <1>1, CancelFrame
<1>7. \A v \in Producers : /\ Written(v) => call'[v] \notin {"idle", "leased"}
                           /\ call'[v] # "idle" => call[v] # "idle"
  BY <1>1, <1>4 DEF Written
<1>8. RowInv' /\ BatchInv'
  BY <1>1, <1>2, <1>7, CallFrame
<1> QED BY <1>2, <1>5, <1>6, <1>8 DEF TeamInv, CoordinatorStep

\* The run is given back with the lease: the record is empty again, or another's.
LEMMA UnbindInv == ASSUME TeamInv, NEW w \in Producers, Unbind(w) PROVE TeamInv'
<1>1. /\ call[w] = "unbinding"
      /\ run' = Record!AbortBinding(run, item[w].run)
      /\ Goto(w, "failed")
      /\ UNCHANGED <<coordinatorVars, usedRuns, unread, loop, view, batch, ran,
                     settling, notified, cancel, victims, pending, turns, unmarked, forgotten>>
      /\ SessionTypeOK /\ CoordinatorInv
  BY TeamFacts DEF Unbind
<1>2. CoordinatorStep
  BY <1>1, UnchangedStep
<1>3. run' = run \/ run' = Record!NoRecord
  BY <1>1 DEF Record!AbortBinding
<1>4. Record!NoRecord \in Record!RunRecord /\ Record!NoRecord.status = "completed"
  BY DEF Record!NoRecord, Record!RunRecord, Record!Statuses
<1>5. /\ call' \in [Producers -> Calls] /\ call'[w] = "failed"
      /\ \A v \in Producers : v # w => call'[v] = call[v]
  BY <1>1, GotoFacts DEF Calls
<1>6. SessionTypeOK'
  BY <1>1, <1>3, <1>4, <1>5 DEF SessionTypeOK
<1>7. CancelInv'
  BY <1>1, <1>3, <1>4 DEF CancelInv, TeamInv
<1>8. \A v \in Producers : /\ Written(v) => call'[v] \notin {"idle", "leased"}
                           /\ call'[v] # "idle" => call[v] # "idle"
  BY <1>1, <1>5 DEF Written
<1>9. RowInv' /\ BatchInv'
  BY <1>1, <1>2, <1>8, CallFrame
<1> QED BY <1>2, <1>6, <1>7, <1>9 DEF TeamInv, CoordinatorStep

\* commit_enqueue, or its rejection.
LEMMA CommitInv == ASSUME TeamInv, NEW w \in Producers, Commit(w) PROVE TeamInv'
<1>1. /\ call[w] = "written"
      /\ UNCHANGED <<run, usedRuns, unread, loop, view, batch, ran, settling,
                     notified, cancel, victims, turns, unmarked, forgotten>>
      /\ SessionTypeOK /\ CoordinatorInv /\ w \in Works /\ w \in Messages
  BY TeamFacts DEF Commit
<1>2. /\ CoordinatorStep
      /\ pending' \in [Threads -> SUBSET SummaryRecord]
      /\ \E place \in {"committed", "compensating", "failed"} : Goto(w, place)
  <2>1. CASE /\ CommitEnqueue(w, IF RequiresMailboxMessage(item[w].source)
                                 THEN w ELSE NoMessage)
             /\ Announce(w, {item[w].run} \ {NoRun})
             /\ Goto(w, "committed")
    <3>1. \E m \in Messages \cup {NoMessage} : CommitEnqueue(w, m)
      BY <1>1, <2>1
    <3> QED BY <1>1, <2>1, <3>1, CommitStep, AnnounceOwnRun
  <2>2. CASE /\ Goto(w, IF RequiresMailboxMessage(item[w].source)
                        THEN "compensating" ELSE "failed")
             /\ UNCHANGED <<coordinatorVars, pending>>
    BY <1>1, <2>2, UnchangedStep DEF SessionTypeOK, SummaryRecord
  <2> QED BY <2>1, <2>2 DEF Commit
<1>3. PICK place \in {"committed", "compensating", "failed"} : Goto(w, place)
  BY <1>2
<1>4. /\ call' \in [Producers -> Calls] /\ call'[w] = place
      /\ \A v \in Producers : v # w => call'[v] = call[v]
  BY <1>1, <1>3, GotoFacts DEF Calls
<1>5. SessionTypeOK'
  BY <1>1, <1>2, <1>4 DEF SessionTypeOK, SummaryRecord
<1>6. CancelInv'
  BY <1>1, CancelFrame
<1>7. \A v \in Producers : /\ Written(v) => call'[v] \notin {"idle", "leased"}
                           /\ call'[v] # "idle" => call[v] # "idle"
  BY <1>1, <1>4 DEF Written
<1>8. RowInv' /\ BatchInv'
  BY <1>1, <1>2, <1>7, CallFrame
<1> QED BY <1>2, <1>5, <1>6, <1>8 DEF TeamInv, CoordinatorStep

\* The row of a rejected commit is marked read, or remembered as unmarked.
LEMMA CompensateInv == ASSUME TeamInv, NEW w \in Producers, Compensate(w) PROVE TeamInv'
<1>1. /\ call[w] = "compensating"
      /\ Mark([unread EXCEPT ![item[w].slot] = Without(@, {w})], {w})
      /\ Goto(w, "failed")
      /\ UNCHANGED <<coordinatorVars, run, usedRuns, loop, view, batch, ran, settling,
                     notified, cancel, victims, pending, turns, forgotten>>
      /\ SessionTypeOK /\ CoordinatorInv /\ w \in Works /\ w \in Messages
  BY TeamFacts DEF Compensate
<1>2. CoordinatorStep
  BY <1>1, UnchangedStep
<1>3. \A s \in Slots : /\ Without(unread[s], {w}) \in Seq(Messages)
                       /\ Elems(Without(unread[s], {w})) \subseteq Elems(unread[s])
  BY <1>1, WithoutElems DEF SessionTypeOK
<1>4. /\ unread' \in [Slots -> Seq(Messages)]
      /\ \A s \in Slots : Elems(unread'[s]) \subseteq Elems(unread[s])
      /\ unmarked \subseteq unmarked' /\ unmarked' \subseteq Messages \cup {NoMessage}
  <2>1. unread \in [Slots -> Seq(Messages)] /\ unmarked \subseteq Messages \cup {NoMessage}
    BY <1>1 DEF SessionTypeOK
  <2>2. CASE /\ unread' = [unread EXCEPT ![item[w].slot] = Without(@, {w})]
             /\ unmarked' = unmarked
    BY <1>3, <2>1, <2>2
  <2>3. CASE unread' = unread /\ unmarked' = unmarked \cup {w}
    BY <1>1, <2>1, <2>3
  <2> QED BY <1>1, <2>2, <2>3 DEF Mark
<1>5. /\ call' \in [Producers -> Calls] /\ call'[w] = "failed"
      /\ \A v \in Producers : v # w => call'[v] = call[v]
  BY <1>1, GotoFacts DEF Calls
<1>6. SessionTypeOK'
  BY <1>1, <1>4, <1>5 DEF SessionTypeOK
<1>7. CancelInv'
  BY <1>1, CancelFrame
<1>8. \A v \in Producers : /\ Written(v) => call'[v] \notin {"idle", "leased"}
                           /\ call'[v] # "idle" => call[v] # "idle"
  BY <1>1, <1>5 DEF Written
<1>9. RowInv' /\ BatchInv'
  BY <1>1, <1>2, <1>4, <1>8, CallFrame
<1> QED BY <1>2, <1>6, <1>7, <1>9 DEF TeamInv, CoordinatorStep

\* The call has notified the loop.
LEMMA NotifyLoopInv == ASSUME TeamInv, NEW w \in Producers, NotifyLoop(w) PROVE TeamInv'
<1>1. /\ call[w] = "committed"
      /\ notified' = NotifyOne(item[w].slot)
      /\ Goto(w, "done")
      /\ UNCHANGED <<coordinatorVars, run, usedRuns, unread, loop, view, batch, ran, settling,
                     cancel, victims, pending, turns, unmarked, forgotten>>
      /\ SessionTypeOK /\ CoordinatorInv
  BY TeamFacts DEF NotifyLoop
<1>2. CoordinatorStep
  BY <1>1, UnchangedStep
<1>3. /\ call' \in [Producers -> Calls] /\ call'[w] = "done"
      /\ \A v \in Producers : v # w => call'[v] = call[v]
  BY <1>1, GotoFacts DEF Calls
<1>4. notified' \in [Slots -> BOOLEAN]
  BY <1>1 DEF NotifyOne, SessionTypeOK
<1>5. SessionTypeOK'
  BY <1>1, <1>3, <1>4 DEF SessionTypeOK
<1>6. CancelInv'
  BY <1>1, CancelFrame
<1>7. \A v \in Producers : /\ Written(v) => call'[v] \notin {"idle", "leased"}
                           /\ call'[v] # "idle" => call[v] # "idle"
  BY <1>1, <1>3 DEF Written
<1>8. RowInv' /\ BatchInv'
  BY <1>1, <1>2, <1>7, CallFrame
<1> QED BY <1>2, <1>5, <1>6, <1>8 DEF TeamInv, CoordinatorStep

\* A step of an enqueue call.
LEMMA EnqueueCallInv ==
    ASSUME TeamInv, NEW w \in Producers, EnqueueCall(w) PROVE TeamInv'
  BY AcquireInv, WriteRowInv, WriteFailsInv, UnbindInv, CommitInv, CompensateInv,
     NotifyLoopInv DEF EnqueueCall

-----------------------------------------------------------------------------
(* The steps of an event loop.                                             *)

\* A loop goes from one place to another.
LEMMA StepFacts ==
    ASSUME TeamInv, NEW s \in Slots, NEW from, NEW to \in Loops, Step(s, from, to)
    PROVE  /\ loop' \in [Slots -> Loops] /\ loop[s] = from /\ loop'[s] = to
           /\ \A t \in Slots : t # s => loop'[t] = loop[t]
           /\ s \in Threads
           /\ CoordinatorInv /\ SessionTypeOK
  BY DEF Step, TeamInv, SessionTypeOK, Threads

\* Steps that change nothing but the loop's place and what it has read.
LEMMA QuietStep ==
    ASSUME TeamInv, NEW s \in Slots, NEW from, NEW to \in Loops, Step(s, from, to),
           from # "finish", from = "running" => to = "read", from # "read",
           (from \in WithBatch) <=> (to \in WithBatch),
           UNCHANGED <<coordinatorVars, callVars, run, unread, batch, ran,
                       pending, turns, unmarked, forgotten>>,
           notified' \in [Slots -> BOOLEAN],
           settling' \in [Slots -> SUBSET Works],
           view' \in [Slots -> Seq(Messages)],
           \A t \in Slots : Elems(view'[t]) \subseteq Elems(view[t]) \cup Elems(unread[t])
    PROVE  TeamInv'
<1>1. /\ loop' \in [Slots -> Loops] /\ CoordinatorInv /\ SessionTypeOK
      /\ UNCHANGED <<usedRuns, call, cancel, victims>>
  BY StepFacts DEF callVars
<1>2. CoordinatorStep
  BY <1>1, UnchangedStep
<1>3. SessionTypeOK'
  BY <1>1 DEF SessionTypeOK
<1>4. CancelInv'
  BY <1>1, CancelFrame
<1>5. RowInv' /\ BatchInv'
  BY <1>1, <1>2, LoopFrame
<1> QED BY <1>2, <1>3, <1>4, <1>5 DEF TeamInv, CoordinatorStep

\* What a loop that has not moved on still knows.
LEMMA QuietTypes ==
    ASSUME TeamInv
    PROVE  /\ notified \in [Slots -> BOOLEAN] /\ settling \in [Slots -> SUBSET Works]
           /\ view \in [Slots -> Seq(Messages)] /\ unread \in [Slots -> Seq(Messages)]
  BY DEF TeamInv, SessionTypeOK

LEMMA WakeInv == ASSUME TeamInv, NEW s \in Slots, Wake(s) PROVE TeamInv'
<1>1. notified' \in [Slots -> BOOLEAN]
  BY QuietTypes DEF Wake
<1> QED BY <1>1, QuietStep, QuietTypes DEF Wake, Loops, WithBatch

LEMMA PeekInv == ASSUME TeamInv, NEW s \in Slots, Peek(s) PROVE TeamInv'
<1>1. CASE Step(s, "peek", "reconcile") /\ view' = [view EXCEPT ![s] = unread[s]]
  <2>1. /\ view' \in [Slots -> Seq(Messages)]
        /\ \A t \in Slots : Elems(view'[t]) \subseteq Elems(view[t]) \cup Elems(unread[t])
    BY <1>1, QuietTypes
  <2> QED BY <1>1, <2>1, QuietStep, QuietTypes DEF Peek, Loops, WithBatch
<1>2. CASE Step(s, "peek", "idle") /\ view' = view
  BY <1>2, QuietStep, QuietTypes DEF Peek, Loops, WithBatch
<1> QED BY <1>1, <1>2 DEF Peek

LEMMA ObserveSignalsInv == ASSUME TeamInv, NEW s \in Slots, ObserveSignals(s) PROVE TeamInv'
<1>1. SignalsToSettle(s) \subseteq Works
  <2>1. \A p \in Priorities : Elems(queue[s][p]) \subseteq Works
    BY InvFacts DEF TeamInv
  <2>2. SelectedPriority(s) \in Priorities
    BY DEF SelectedPriority, Priorities
  <2> QED BY <2>1, <2>2 DEF SignalsToSettle
<1>2. settling' \in [Slots -> SUBSET Works]
  BY <1>1, QuietTypes DEF ObserveSignals
<1> QED BY <1>2, QuietStep, QuietTypes DEF ObserveSignals, Loops, WithBatch

LEMMA QuiesceInv == ASSUME TeamInv, NEW s \in Slots, Quiesce(s) PROVE TeamInv'
<1>1. <<>> \in Seq(Messages) /\ Elems(<<>>) = {}
  BY EmptySeq DEF Elems
<1>2. /\ view' \in [Slots -> Seq(Messages)]
      /\ \A t \in Slots : Elems(view'[t]) \subseteq Elems(view[t]) \cup Elems(unread[t])
  BY <1>1, QuietTypes DEF Quiesce
<1> QED BY <1>2, QuietStep, QuietTypes DEF Quiesce, Loops, WithBatch

LEMMA TurnStartFailsInv == ASSUME TeamInv, NEW s \in Slots, TurnStartFails(s) PROVE TeamInv'
  BY QuietStep, QuietTypes DEF TurnStartFails, Loops, WithBatch

LEMMA TurnEndsInv == ASSUME TeamInv, NEW s \in Slots, TurnEnds(s) PROVE TeamInv'
  BY QuietStep, QuietTypes DEF TurnEnds, Loops, WithBatch

\* reconcile_mailbox with the rows read before.
LEMMA ReconcileInv == ASSUME TeamInv, NEW s \in Slots, Reconcile(s) PROVE TeamInv'
<1>1. /\ Step(s, "reconcile", "next") /\ ReconcileMailbox(s, view[s])
      /\ UNCHANGED <<usedRuns, call, cancel, victims>>
      /\ UNCHANGED <<run, unread, view, batch, ran, settling, notified,
                     pending, turns, unmarked, forgotten>>
  BY DEF Reconcile, callVars
<1>2. /\ loop' \in [Slots -> Loops] /\ CoordinatorInv /\ SessionTypeOK
      /\ view[s] \in Seq(Messages)
  BY <1>1, StepFacts, QuietTypes DEF Loops
<1>3. CoordinatorStep
  BY <1>1, <1>2, ReconcileStep
<1>4. SessionTypeOK'
  BY <1>1, <1>2 DEF SessionTypeOK
<1>5. CancelInv'
  BY <1>1, CancelFrame
<1>6. RowInv' /\ BatchInv'
  BY <1>1, <1>3, LoopFrame DEF WithBatch
<1> QED BY <1>3, <1>4, <1>5, <1>6 DEF TeamInv, CoordinatorStep

\* handle_signal_intents
LEMMA SettleSignalsInv == ASSUME TeamInv, NEW s \in Slots, SettleSignals(s) PROVE TeamInv'
<1>1. /\ Step(s, "settle", "peek") /\ settling' = [settling EXCEPT ![s] = {}]
      /\ UNCHANGED <<usedRuns, call, cancel, victims>>
      /\ UNCHANGED <<run, unread, view, batch, ran, notified, turns, unmarked, forgotten>>
  BY DEF SettleSignals, callVars
<1>2. /\ loop' \in [Slots -> Loops] /\ CoordinatorInv /\ SessionTypeOK /\ s \in Threads
      /\ settling' \in [Slots -> SUBSET Works]
  BY <1>1, StepFacts, QuietTypes DEF Loops
<1>3. CoordinatorStep /\ pending' \in [Threads -> SUBSET SummaryRecord]
  <2>1. CASE /\ CompleteSignals(s, settling[s])
             /\ Announce(s, {item[w].run : w \in settling[s]} \ {NoRun})
    <3>1. ({item[w].run : w \in settling[s]} \ {NoRun}) \in SUBSET Runs
      BY TeamFacts, QuietTypes DEF Item
    <3> QED BY <1>2, <2>1, <3>1, CompleteSignalsStep, AnnounceType
  <2>2. CASE UNCHANGED <<coordinatorVars, pending>>
    BY <1>2, <2>2, UnchangedStep DEF SessionTypeOK, SummaryRecord
  <2> QED BY <2>1, <2>2 DEF SettleSignals
<1>4. SessionTypeOK'
  BY <1>1, <1>2, <1>3 DEF SessionTypeOK, SummaryRecord
<1>5. CancelInv'
  BY <1>1, CancelFrame
<1>6. RowInv' /\ BatchInv'
  BY <1>1, <1>3, LoopFrame DEF WithBatch
<1> QED BY <1>3, <1>4, <1>5, <1>6 DEF TeamInv, CoordinatorStep

\* The batch is given back, if it still is the slot's: the slot is free.
LEMMA GiveBackInv ==
    ASSUME TeamInv, NEW s \in Slots, NEW from \in {"prepare", "turn"}, GiveBack(s, from)
    PROVE  TeamInv'
<1>1. /\ Step(s, from, "idle")
      /\ UNCHANGED <<usedRuns, call, cancel, victims>>
      /\ UNCHANGED <<run, unread, view, batch, ran, settling, notified,
                     turns, unmarked, forgotten>>
  BY DEF GiveBack, callVars
<1>2. /\ loop' \in [Slots -> Loops] /\ CoordinatorInv /\ SessionTypeOK /\ s \in Threads
      /\ loop[s] \in WithBatch
  BY <1>1, StepFacts DEF Loops, WithBatch
<1>3. /\ CoordinatorStep /\ pending' \in [Threads -> SUBSET SummaryRecord]
      /\ active'[s] = NoBatch
  <2>1. CASE RetryStart(batch[s]) /\ Announce(s, BatchRuns(batch[s]))
    <3>1. batch[s] = active[s] /\ batch[s].slot = s /\ batch[s] # NoBatch
          /\ BatchRuns(batch[s]) \in SUBSET Runs
      BY <1>2, <2>1, HandleFacts DEF RetryStart
    <3> QED BY <1>2, <2>1, <3>1, RetryStartStep, AnnounceType
  <2>2. CASE ~IsCurrent(batch[s]) /\ UNCHANGED <<coordinatorVars, pending>>
    <3>1. CoordinatorStep /\ active' = active /\ active[s] = NoBatch
      BY <1>2, <2>2, UnchangedStep, HandleFacts DEF coordinatorVars
    <3> QED BY <1>2, <2>2, <3>1 DEF SessionTypeOK, SummaryRecord
  <2> QED BY <2>1, <2>2 DEF GiveBack
<1>4. SessionTypeOK'
  BY <1>1, <1>2, <1>3 DEF SessionTypeOK, SummaryRecord
<1>5. CancelInv'
  BY <1>1, CancelFrame
<1>6. RowInv' /\ BatchInv'
  BY <1>1, <1>3, LoopFrame DEF WithBatch
<1> QED BY <1>3, <1>4, <1>5, <1>6 DEF TeamInv, CoordinatorStep

\* The prompt is built, or the batch given back, or forgotten.
LEMMA PrepareInv == ASSUME TeamInv, NEW s \in Slots, Prepare(s) PROVE TeamInv'
<1>1. CASE /\ Step(s, "prepare", "turn")
           /\ UNCHANGED <<coordinatorVars, callVars, run, unread, view, batch, ran,
                          settling, notified, pending, turns, unmarked, forgotten>>
  BY <1>1, QuietStep, QuietTypes DEF Loops, WithBatch
<1>2. CASE GiveBack(s, "prepare")
  BY <1>2, GiveBackInv
<1>3. CASE /\ Step(s, "prepare", "idle")
           /\ forgotten' = forgotten \cup {s}
           /\ UNCHANGED <<coordinatorVars, callVars, run, unread, view, batch, ran,
                          settling, notified, pending, turns, unmarked>>
  <2>1. /\ loop' \in [Slots -> Loops] /\ CoordinatorInv /\ SessionTypeOK
        /\ UNCHANGED <<usedRuns, call, cancel, victims>>
        /\ s \in forgotten' /\ forgotten \subseteq forgotten'
    BY <1>3, StepFacts DEF Loops, callVars
  <2>2. CoordinatorStep
    BY <1>3, <2>1, UnchangedStep
  <2>3. SessionTypeOK'
    BY <1>3, <2>1 DEF SessionTypeOK
  <2>4. CancelInv'
    BY <1>3, <2>1, CancelFrame
  <2>5. RowInv' /\ BatchInv'
    BY <1>3, <2>1, <2>2, LoopFrame DEF WithBatch
  <2> QED BY <2>2, <2>3, <2>4, <2>5 DEF TeamInv, CoordinatorStep
<1> QED BY <1>1, <1>2, <1>3 DEF Prepare

LEMMA TurnSkippedInv == ASSUME TeamInv, NEW s \in Slots, TurnSkipped(s) PROVE TeamInv'
  BY GiveBackInv DEF TurnSkipped

\* A turn that was told to end at once ends its batch.
LEMMA CancelLateStartInv == ASSUME TeamInv, NEW s \in Slots, CancelLateStart(s) PROVE TeamInv'
<1>1. /\ Step(s, "cancelling", "read")
      /\ UNCHANGED <<usedRuns, call, cancel, victims>>
      /\ UNCHANGED <<run, unread, view, batch, ran, settling, notified,
                     turns, unmarked, forgotten>>
  BY DEF CancelLateStart, callVars
<1>2. /\ loop' \in [Slots -> Loops] /\ CoordinatorInv /\ SessionTypeOK /\ s \in Threads
      /\ loop[s] \in WithBatch
  BY <1>1, StepFacts DEF Loops, WithBatch
<1>3. CoordinatorStep /\ pending' \in [Threads -> SUBSET SummaryRecord]
  <2>1. CASE TerminalizeBatch(batch[s], "cancelled") /\ Announce(s, BatchRuns(batch[s]))
    <3>1. batch[s] = active[s] /\ batch[s].slot = s /\ batch[s] # NoBatch
          /\ BatchRuns(batch[s]) \in SUBSET Runs
      BY <1>2, <2>1, HandleFacts DEF TerminalizeBatch
    <3>2. "cancelled" \in Terminal
      BY DEF Terminal
    <3> QED BY <1>2, <2>1, <3>1, <3>2, TerminalizeStep, AnnounceType
  <2>2. CASE UNCHANGED <<coordinatorVars, pending>>
    BY <1>2, <2>2, UnchangedStep DEF SessionTypeOK, SummaryRecord
  <2> QED BY <2>1, <2>2 DEF CancelLateStart
<1>4. SessionTypeOK'
  BY <1>1, <1>2, <1>3 DEF SessionTypeOK, SummaryRecord
<1>5. CancelInv'
  BY <1>1, CancelFrame
<1>6. RowInv' /\ BatchInv'
  BY <1>1, <1>3, LoopFrame DEF WithBatch
<1> QED BY <1>3, <1>4, <1>5, <1>6 DEF TeamInv, CoordinatorStep

\* next answers Claim: the loop remembers the batch it was given.
LEMMA ClaimNextInv == ASSUME TeamInv, NEW s \in Slots, ClaimNext(s) PROVE TeamInv'
<1>1. /\ Step(s, "next", "prepare") /\ Claim(s)
      /\ batch' = [batch EXCEPT ![s] = ClaimedBatch(s)]
      /\ ran' = [ran EXCEPT ![s] = FALSE]
      /\ Announce(s, BatchRuns(ClaimedBatch(s)))
      /\ UNCHANGED <<usedRuns, call, cancel, victims>>
      /\ UNCHANGED <<run, unread, view, settling, notified, turns, unmarked, forgotten>>
  BY DEF ClaimNext, callVars
<1>2. /\ loop' \in [Slots -> Loops] /\ CoordinatorInv /\ SessionTypeOK /\ s \in Threads
      /\ loop[s] = "next" /\ loop'[s] = "prepare"
      /\ \A t \in Slots : t # s => loop'[t] = loop[t]
  BY <1>1, StepFacts DEF Loops
<1>3. /\ CoordinatorInv' /\ WorkPersists
      /\ ClaimedBatch(s) \in Batch
      /\ ClaimedBatch(s).slot = s /\ ClaimedBatch(s).op > 0
      /\ active[s] = NoBatch
      /\ \A t \in Slots : active'[t] = IF t = s THEN ClaimedBatch(s) ELSE active[t]
      /\ \A w \in Elems(ClaimedBatch(s).works) :
            w \in Works /\ phase'[w] \notin {"absent", "leased"}
  BY <1>1, <1>2, ClaimStep
<1>4. PICK b \in Batch : b = ClaimedBatch(s)
  BY <1>3
<1>5. /\ batch' \in [Slots -> Batch] /\ batch'[s] = b
      /\ \A t \in Slots : t # s => batch'[t] = batch[t]
  BY <1>1, <1>2, <1>4 DEF SessionTypeOK
<1>6. pending' \in [Threads -> SUBSET SummaryRecord]
  BY <1>1, <1>2, <1>3, BatchRunsType, AnnounceType
<1>7. SessionTypeOK'
  BY <1>1, <1>2, <1>5, <1>6 DEF SessionTypeOK, SummaryRecord
<1>8. CancelInv'
  BY <1>1, CancelFrame
<1>9. RowInv'
  <2>1. \A w \in Producers :
          /\ Written(w) => call'[w] \notin {"idle", "leased"}
          /\ call'[w] # "idle" => call[w] # "idle"
    BY <1>1 DEF Written
  <2>2. RowStep
    BY <1>1, <1>2, <1>3, <1>5, <2>1 DEF RowStep
  <2> QED BY <2>2, RowFrame
<1>10. BatchInv'
  <2> SUFFICES ASSUME NEW t \in Slots
               PROVE  BatchIsOwn(t)' /\ BatchIsKnown(t)'
    BY DEF BatchInv
  <2>1. CASE t = s
    <3>1. b.slot = s /\ b.op > 0 /\ b # NoBatch /\ active'[s] = b
      BY <1>3, <1>4 DEF NoBatch
    <3>2. BatchIsOwn(s)'
      BY <1>3, <1>4, <1>5, <3>1 DEF BatchIsOwn
    <3>3. BatchIsKnown(s)'
      BY <1>2, <1>5, <3>1 DEF BatchIsKnown, WithBatch
    <3> QED BY <2>1, <3>2, <3>3
  <2>2. CASE t # s
    <3>1. BatchIsOwn(t) /\ BatchIsKnown(t)
      BY DEF TeamInv, BatchInv
    <3>2. batch'[t] = batch[t] /\ active'[t] = active[t] /\ loop'[t] = loop[t]
          /\ forgotten' = forgotten
      BY <1>1, <1>2, <1>3, <1>5, <2>2
    <3>3. BatchIsOwn(t)'
      BY <1>3, <3>1, <3>2, RowsStay DEF BatchIsOwn
    <3>4. BatchIsKnown(t)'
      BY <3>1, <3>2 DEF BatchIsKnown
    <3> QED BY <3>3, <3>4
  <2> QED BY <2>1, <2>2
<1> QED BY <1>3, <1>7, <1>8, <1>9, <1>10 DEF TeamInv

\* mark_batch_messages_read: the rows of the batch are unread no more, or they
\* are remembered as unmarked.
LEMMA MarkReadInv == ASSUME TeamInv, NEW s \in Slots, MarkRead(s) PROVE TeamInv'
<1>1. /\ Step(s, "read", "finish")
      /\ Mark([unread EXCEPT ![s] = Without(@, Rows(batch[s]))], Rows(batch[s]))
      /\ UNCHANGED <<usedRuns, call, cancel, victims>>
      /\ UNCHANGED <<coordinatorVars, run, view, batch, ran, settling,
                     notified, pending, turns, forgotten>>
  BY DEF MarkRead, callVars
<1>2. /\ loop' \in [Slots -> Loops] /\ CoordinatorInv /\ SessionTypeOK
      /\ loop[s] = "read" /\ loop'[s] = "finish"
      /\ \A t \in Slots : t # s => loop'[t] = loop[t]
  BY <1>1, StepFacts DEF Loops
<1>3. CoordinatorStep
  BY <1>1, <1>2, UnchangedStep
<1>4. PICK rows \in SUBSET (Messages \cup {NoMessage}) : rows = Rows(batch[s])
  <2>1. Elems(batch[s].works) \subseteq Works
    BY <1>2, ElemsIn DEF SessionTypeOK, Batch
  <2>2. \A w \in Works : item[w].message \in Messages \cup {NoMessage}
    BY TeamFacts DEF Item
  <2> QED BY <2>1, <2>2 DEF Rows
<1>5. /\ Without(unread[s], rows) \in Seq(Messages)
      /\ Elems(Without(unread[s], rows)) = Elems(unread[s]) \ rows
  BY QuietTypes, WithoutElems
<1>6. unread \in [Slots -> Seq(Messages)] /\ unmarked \subseteq Messages \cup {NoMessage}
  BY <1>2 DEF SessionTypeOK
<1>7. /\ unread' \in [Slots -> Seq(Messages)] /\ unmarked' \subseteq Messages \cup {NoMessage}
      /\ unmarked \subseteq unmarked'
      /\ \A t \in Slots : Elems(unread'[t]) \subseteq Elems(unread[t])
      /\ \A m \in rows \ unmarked' : m \notin Elems(unread'[s])
  <2>1. CASE /\ unread' = [unread EXCEPT ![s] = Without(@, rows)]
             /\ unmarked' = unmarked
    BY <1>5, <1>6, <2>1
  <2>2. CASE unread' = unread /\ unmarked' = unmarked \cup rows
    BY <1>6, <2>2
  <2> QED BY <1>1, <1>4, <2>1, <2>2 DEF Mark
<1>8. SessionTypeOK'
  BY <1>1, <1>2, <1>7 DEF SessionTypeOK
<1>9. CancelInv'
  BY <1>1, CancelFrame
<1>10. RowInv'
  <2>1. \A w \in Producers :
          /\ Written(w) => call'[w] \notin {"idle", "leased"}
          /\ call'[w] # "idle" => call[w] # "idle"
    BY <1>1 DEF Written
  <2>2. \A t \in Slots :
          /\ loop[t] = "finish" => loop'[t] = "finish"
          /\ loop[t] \in {"running", "read"} =>
                \/ loop'[t] \in {"running", "read"}
                \/ \A m \in Rows(batch[t]) \ unmarked' :
                      m \notin Elems(unread'[t]) /\ loop'[t] = "finish"
    BY <1>2, <1>4, <1>7
  <2>3. RowStep
    BY <1>1, <1>3, <1>7, <2>1, <2>2 DEF RowStep, CoordinatorStep
  <2> QED BY <2>3, RowFrame
<1>11. BatchInv'
  BY <1>1, <1>2, <1>3, BatchFrame DEF CoordinatorStep, WithBatch
<1> QED BY <1>3, <1>8, <1>9, <1>10, <1>11 DEF TeamInv, CoordinatorStep

\* complete_batch or fail_batch: the slot is free, and the loop forgets the batch
\* and the rows it had read.
LEMMA FinishInv == ASSUME TeamInv, NEW s \in Slots, Finish(s) PROVE TeamInv'
<1>1. /\ Step(s, "finish", "peek")
      /\ batch' = [batch EXCEPT ![s] = NoBatch]
      /\ ran' = [ran EXCEPT ![s] = FALSE]
      /\ view' = [view EXCEPT ![s] = <<>>]
      /\ UNCHANGED <<usedRuns, call, cancel, victims>>
      /\ UNCHANGED <<run, unread, settling, notified, turns, unmarked, forgotten>>
  BY DEF Finish, callVars
<1>2. /\ loop' \in [Slots -> Loops] /\ CoordinatorInv /\ SessionTypeOK /\ s \in Threads
      /\ loop[s] = "finish" /\ loop'[s] = "peek" /\ loop[s] \in WithBatch
      /\ \A t \in Slots : t # s => loop'[t] = loop[t]
  BY <1>1, StepFacts DEF Loops, WithBatch
<1>3. /\ CoordinatorStep /\ pending' \in [Threads -> SUBSET SummaryRecord]
      /\ active'[s] = NoBatch
  <2>1. CASE \E end \in {"completed", "failed"} :
               TerminalizeBatch(batch[s], end) /\ Announce(s, BatchRuns(batch[s]))
    <3>1. PICK end \in Terminal :
             TerminalizeBatch(batch[s], end) /\ Announce(s, BatchRuns(batch[s]))
      BY <2>1 DEF Terminal
    <3>2. batch[s] = active[s] /\ batch[s].slot = s /\ batch[s] # NoBatch
          /\ BatchRuns(batch[s]) \in SUBSET Runs
      BY <1>2, <3>1, HandleFacts DEF TerminalizeBatch
    <3> QED BY <1>2, <3>1, <3>2, TerminalizeStep, AnnounceType
  <2>2. CASE ~IsCurrent(batch[s]) /\ UNCHANGED <<coordinatorVars, pending>>
    <3>1. CoordinatorStep /\ active' = active /\ active[s] = NoBatch
      BY <1>2, <2>2, UnchangedStep, HandleFacts DEF coordinatorVars
    <3> QED BY <1>2, <2>2, <3>1 DEF SessionTypeOK, SummaryRecord
  <2> QED BY <2>1, <2>2 DEF Finish
<1>4. <<>> \in Seq(Messages) /\ Elems(<<>>) = {}
  BY EmptySeq DEF Elems
<1>5. /\ batch' \in [Slots -> Batch] /\ batch'[s] = NoBatch
      /\ view' \in [Slots -> Seq(Messages)] /\ view'[s] = <<>>
      /\ ran' \in [Slots -> BOOLEAN]
      /\ \A t \in Slots : t # s => batch'[t] = batch[t] /\ view'[t] = view[t]
  BY <1>1, <1>2, <1>4, NoBatchType DEF SessionTypeOK
<1>6. SessionTypeOK'
  BY <1>1, <1>2, <1>3, <1>5 DEF SessionTypeOK, SummaryRecord
<1>7. CancelInv'
  BY <1>1, CancelFrame
<1>8. RowInv'
  <2>1. \A w \in Producers :
          /\ Written(w) => call'[w] \notin {"idle", "leased"}
          /\ call'[w] # "idle" => call[w] # "idle"
    BY <1>1 DEF Written
  <2>2. \A t \in Slots :
          /\ Elems(view'[t]) \subseteq Elems(view[t]) \cup Elems(unread[t])
          /\ batch'[t] = batch[t] \/ loop[t] \notin {"running", "read"}
          /\ loop[t] = "finish" => loop'[t] = "finish" \/ Elems(view'[t]) = {}
          /\ loop[t] \in {"running", "read"} => loop'[t] \in {"running", "read"}
    BY <1>2, <1>4, <1>5
  <2>3. RowStep
    BY <1>1, <1>3, <2>1, <2>2 DEF RowStep, CoordinatorStep
  <2> QED BY <2>3, RowFrame
<1>9. BatchInv'
  <2> SUFFICES ASSUME NEW t \in Slots
               PROVE  BatchIsOwn(t)' /\ BatchIsKnown(t)'
    BY DEF BatchInv
  <2>1. CASE t = s
    <3>1. BatchIsOwn(s)'
      BY <1>5, NoBatchType DEF BatchIsOwn
    <3>2. BatchIsKnown(s)'
      BY <1>2, <1>3, <1>5 DEF BatchIsKnown, WithBatch
    <3> QED BY <2>1, <3>1, <3>2
  <2>2. CASE t # s
    <3>1. BatchIsOwn(t) /\ BatchIsKnown(t)
      BY DEF TeamInv, BatchInv
    <3>2. batch'[t] = batch[t] /\ active'[t] \in {active[t], NoBatch} /\ loop'[t] = loop[t]
          /\ forgotten' = forgotten
      BY <1>1, <1>2, <1>3, <1>5, <2>2 DEF CoordinatorStep
    <3>3. BatchIsOwn(t)'
      BY <1>3, <3>1, <3>2, RowsStay DEF BatchIsOwn, CoordinatorStep
    <3>4. BatchIsKnown(t)'
      BY <3>1, <3>2 DEF BatchIsKnown
    <3> QED BY <3>3, <3>4
  <2> QED BY <2>1, <2>2
<1> QED BY <1>3, <1>6, <1>7, <1>8, <1>9 DEF TeamInv, CoordinatorStep

\* The turn begins.  A row that it is given was never given before: it is still
\* in what the loop had read, so no turn took it up.
LEMMA TurnStartsInv == ASSUME TeamInv, NEW s \in Slots, TurnStarts(s) PROVE TeamInv'
<1> DEFINE given == IF StartVerdict(batch[s]) = "CancelImmediately" THEN {} ELSE WakeInput(s)
<1>1. PICK to \in {"cancelling", "running"} :
        /\ Step(s, "turn", to)
        /\ to = "cancelling" <=> StartVerdict(batch[s]) = "CancelImmediately"
        /\ ran' = [ran EXCEPT ![s] = TRUE]
        /\ turns' = [m \in Messages |-> IF m \in given THEN turns[m] + 1 ELSE turns[m]]
        /\ UNCHANGED <<usedRuns, call, cancel, victims>>
        /\ UNCHANGED <<run, unread, view, batch, settling, notified, unmarked, forgotten>>
  BY DEF TurnStarts, callVars
<1>2. PICK rows : rows = given
  OBVIOUS
<1>3. /\ rows \subseteq Elems(view[s]) /\ rows \subseteq Rows(batch[s])
      /\ to = "cancelling" => rows = {}
  BY <1>1, <1>2 DEF WakeInput
<1>4. turns' = [m \in Messages |-> IF m \in rows THEN turns[m] + 1 ELSE turns[m]]
  BY <1>1, <1>2
<1> HIDE DEF given
<1>5. /\ loop' \in [Slots -> Loops] /\ CoordinatorInv /\ SessionTypeOK /\ s \in Threads
      /\ loop[s] = "turn" /\ loop'[s] = to /\ loop[s] \in WithBatch
      /\ \A t \in Slots : t # s => loop'[t] = loop[t]
  BY <1>1, StepFacts DEF Loops, WithBatch
<1>6. CoordinatorStep /\ pending' \in [Threads -> SUBSET SummaryRecord]
  <2>1. CASE MarkStarted(batch[s]) /\ Announce(s, BatchRuns(batch[s]))
    <3>1. batch[s] = active[s] /\ batch[s].slot = s /\ batch[s] # NoBatch
          /\ BatchRuns(batch[s]) \in SUBSET Runs
      BY <1>5, <2>1, HandleFacts DEF MarkStarted
    <3> QED BY <1>5, <2>1, <3>1, MarkStartedStep, AnnounceType
  <2>2. CASE UNCHANGED <<coordinatorVars, pending>>
    BY <1>5, <2>2, UnchangedStep DEF SessionTypeOK, SummaryRecord
  <2> QED BY <2>1, <2>2 DEF TurnStarts
<1>7. SessionTypeOK'
  <2>1. turns' \in [Messages -> Nat]
    BY <1>4, <1>5 DEF SessionTypeOK
  <2> QED BY <1>1, <1>5, <1>6, <2>1 DEF SessionTypeOK, SummaryRecord
<1>8. CancelInv'
  BY <1>1, CancelFrame
<1>9. BatchInv'
  BY <1>1, <1>5, <1>6, BatchFrame DEF CoordinatorStep, WithBatch
<1>10. /\ CallsHaveTheirWork /\ RowsAreHome /\ RowsAreGivenOnce
       /\ WorkPersists /\ Producers \subseteq Works /\ Messages = Producers
       /\ turns \in [Messages -> Nat]
  BY <1>6, TeamFacts DEF RowInv, CoordinatorStep, SessionTypeOK
<1>11. CallsHaveTheirWork'
  BY <1>1, <1>10 DEF CallsHaveTheirWork, WorkPersists
<1>12. \A m \in Producers : Written(m) => /\ Written(m)' /\ item'[m].slot = item[m].slot
                                          /\ item[m].slot \in Slots
  BY <1>1, <1>5, <1>10 DEF Written, CallsHaveTheirWork, WorkPersists, CoordinatorInv, Assigned
<1>13. \A t \in Slots : \A m \in Elems(unread[t]) \cup Elems(view[t]) : m \in Producers
  BY <1>10, QuietTypes, ElemsIn
<1>14. RowsAreHome'
  BY <1>1, <1>10, <1>12, <1>13 DEF RowsAreHome
<1>15. \A t \in Slots : Rows(batch[t])' = Rows(batch[t])
  <2> SUFFICES ASSUME NEW t \in Slots
               PROVE  Rows(batch[t])' = Rows(batch[t])
    OBVIOUS
  <2>1. \A w \in Elems(batch[t].works) : item'[w] = item[w]
    BY <1>10, RowsStay
  <2> QED BY <1>1, <2>1 DEF Rows
<1>16. RowsAreGivenOnce'
  <2> SUFFICES ASSUME NEW m \in Messages \ unmarked'
               PROVE  /\ turns'[m] <= 1
                      /\ turns'[m] = 1 => Written(m)' /\ RowIsSettled(m, item[m].slot)'
    BY DEF RowsAreGivenOnce
  <2>1. /\ turns[m] \in Nat /\ turns[m] <= 1
        /\ turns[m] = 1 => Written(m) /\ RowIsSettled(m, item[m].slot)
    BY <1>1, <1>10 DEF RowsAreGivenOnce
  <2>2. CASE m \in rows
    <3>1. Written(m) /\ item[m].slot = s /\ m \in Elems(view[s])
      BY <1>3, <1>10, <2>2 DEF RowsAreHome
    <3>2. turns[m] # 1
      BY <1>5, <2>1, <3>1 DEF RowIsSettled
    <3>3. turns'[m] = 1
      BY <1>4, <2>1, <2>2, <3>2
    <3>4. Written(m)' /\ item'[m].slot = s
      BY <1>10, <1>12, <3>1
    <3>5. loop'[s] = "running" /\ m \in Rows(batch[s])'
      BY <1>1, <1>3, <1>5, <1>15, <2>2
    <3> QED BY <3>3, <3>4, <3>5 DEF RowIsSettled
  <2>3. CASE m \notin rows
    <3>1. turns'[m] = turns[m]
      BY <1>4, <2>3
    <3> SUFFICES ASSUME turns[m] = 1
                 PROVE  Written(m)' /\ RowIsSettled(m, item[m].slot)'
      BY <2>1, <3>1
    <3>2. Written(m)' /\ item'[m].slot = item[m].slot /\ item[m].slot \in Slots
      BY <1>10, <1>12, <2>1
    <3>3. PICK home \in Slots : home = item[m].slot /\ home = item'[m].slot
      BY <3>2
    <3>4. RowIsSettled(m, home)
      BY <2>1, <3>3
    <3>5. CASE m \notin Elems(unread[home]) /\ (m \in Elems(view[home]) => loop[home] = "finish")
      BY <1>1, <1>5, <3>2, <3>3, <3>5 DEF RowIsSettled
    <3>6. CASE loop[home] \in {"running", "read"} /\ m \in Rows(batch[home])
      <4>1. loop'[home] \in {"running", "read"} /\ m \in Rows(batch[home])'
        BY <1>5, <1>15, <3>6
      <4> QED BY <3>2, <3>3, <4>1 DEF RowIsSettled
    <3> QED BY <3>4, <3>5, <3>6 DEF RowIsSettled
  <2> QED BY <2>2, <2>3
<1> QED BY <1>6, <1>7, <1>8, <1>9, <1>11, <1>14, <1>16 DEF TeamInv, CoordinatorStep, RowInv

\* A step of an event loop.
LEMMA EventLoopInv == ASSUME TeamInv, NEW s \in Slots, EventLoop(s) PROVE TeamInv'
  BY WakeInv, PeekInv, ReconcileInv, ClaimNextInv, ObserveSignalsInv, QuiesceInv,
     SettleSignalsInv, PrepareInv, TurnSkippedInv, TurnStartFailsInv, TurnStartsInv,
     CancelLateStartInv, TurnEndsInv, MarkReadInv, FinishInv DEF EventLoop

-----------------------------------------------------------------------------
(* The steps of a cancellation.                                            *)

\* The user asks: from then on the run may be cancelled.
LEMMA BeginCancelInv == ASSUME TeamInv, NEW r \in Runs, BeginCancel(r) PROVE TeamInv'
<1>1. /\ cancel[r] = "idle" /\ Record!ActiveRunId(run) = r
      /\ run' = Record!BeginCancel(run)
      /\ cancel' = [cancel EXCEPT ![r] = "begun"]
      /\ UNCHANGED <<coordinatorVars, usedRuns, unread, call, loop, view, batch, ran,
                     settling, notified, victims, pending, turns, unmarked, forgotten>>
      /\ SessionTypeOK /\ CoordinatorInv /\ NoRun \notin Runs
  BY TeamFacts DEF BeginCancel
<1>2. CoordinatorStep
  BY <1>1, UnchangedStep
<1>3. run.id = r
  BY <1>1 DEF Record!ActiveRunId
<1>4. run' \in Record!RunRecord /\ run'.id = r
  BY <1>1, <1>3 DEF SessionTypeOK, Record!BeginCancel, Record!RunRecord, Record!Statuses
<1>5. /\ cancel' \in [Runs -> {"idle", "begun", "cancelled", "done"}]
      /\ cancel'[r] = "begun"
  BY <1>1 DEF SessionTypeOK
<1>6. SessionTypeOK'
  BY <1>1, <1>4, <1>5 DEF SessionTypeOK
<1>7. CancelInv'
  BY <1>4, <1>5 DEF CancelInv
<1>8. RowInv' /\ BatchInv'
  BY <1>1, <1>2, CallFrame DEF Written
<1> QED BY <1>2, <1>6, <1>7, <1>8 DEF TeamInv, CoordinatorStep

\* cancel_run of the coordinator.
LEMMA CancelWorkInv == ASSUME TeamInv, NEW r \in Runs, CancelWork(r) PROVE TeamInv'
<1>1. /\ cancel[r] = "begun" /\ CancelRun(r) /\ Announce(r, {r})
      /\ victims' = [victims EXCEPT ![r] = {item[w].message : w \in CancelledWorks(r)}]
      /\ cancel' = [cancel EXCEPT ![r] = "cancelled"]
      /\ UNCHANGED <<run, usedRuns, unread, call, loop, view, batch, ran, settling,
                     notified, turns, unmarked, forgotten>>
      /\ SessionTypeOK /\ CoordinatorInv
  BY TeamFacts DEF CancelWork
<1>2. CoordinatorStep
  BY <1>1, CancelRunStep
<1>3. pending' \in [Threads -> SUBSET SummaryRecord]
  <2>1. r \in Threads /\ {r} \in SUBSET Runs
    BY DEF Threads
  <2> QED BY <1>1, <2>1, AnnounceType
<1>4. {item[w].message : w \in CancelledWorks(r)} \subseteq Messages \cup {NoMessage}
  <2>1. CancelledWorks(r) \subseteq Works
    <3>1. CancelledSlots(r) \subseteq Slots
      BY <1>1 DEF CancelledSlots, CoordinatorInv, CoordinatorTypeOK
    <3>2. ClaimedWorks(r) \subseteq Works
      BY <1>1, <3>1, InvFacts DEF ClaimedWorks
    <3> QED BY <3>2 DEF CancelledWorks, OfRun
  <2> QED BY <2>1, TeamFacts DEF Item
<1>5. /\ victims' \in [Runs -> SUBSET (Messages \cup {NoMessage})]
      /\ cancel' \in [Runs -> {"idle", "begun", "cancelled", "done"}]
      /\ \A q \in Runs : cancel[q] # "idle" => cancel'[q] # "idle"
  BY <1>1, <1>4 DEF SessionTypeOK
<1>6. SessionTypeOK'
  BY <1>1, <1>3, <1>5 DEF SessionTypeOK, SummaryRecord
<1>7. CancelInv'
  BY <1>1, <1>5, CancelFrame
<1>8. RowInv' /\ BatchInv'
  BY <1>1, <1>2, CallFrame DEF Written
<1> QED BY <1>2, <1>6, <1>7, <1>8 DEF TeamInv, CoordinatorStep

\* The rows of the cancelled work are marked read, or remembered as unmarked.
LEMMA SettleVictimsInv == ASSUME TeamInv, NEW r \in Runs, SettleVictims(r) PROVE TeamInv'
<1>1. /\ cancel[r] = "cancelled"
      /\ Mark([s \in Slots |-> Without(unread[s], victims[r])], victims[r])
      /\ cancel' = [cancel EXCEPT ![r] = "done"]
      /\ UNCHANGED <<coordinatorVars, run, usedRuns, call, loop, view, batch, ran,
                     settling, notified, victims, pending, turns, forgotten>>
      /\ SessionTypeOK /\ CoordinatorInv
  BY TeamFacts DEF SettleVictims
<1>2. CoordinatorStep
  BY <1>1, UnchangedStep
<1>3. \A s \in Slots : /\ Without(unread[s], victims[r]) \in Seq(Messages)
                       /\ Elems(Without(unread[s], victims[r])) \subseteq Elems(unread[s])
  BY WithoutElems, QuietTypes
<1>4. /\ unread' \in [Slots -> Seq(Messages)]
      /\ \A s \in Slots : Elems(unread'[s]) \subseteq Elems(unread[s])
      /\ unmarked \subseteq unmarked' /\ unmarked' \subseteq Messages \cup {NoMessage}
  <2>1. /\ unread \in [Slots -> Seq(Messages)] /\ unmarked \subseteq Messages \cup {NoMessage}
        /\ victims[r] \subseteq Messages \cup {NoMessage}
    BY <1>1 DEF SessionTypeOK
  <2>2. CASE /\ unread' = [s \in Slots |-> Without(unread[s], victims[r])]
             /\ unmarked' = unmarked
    BY <1>3, <2>1, <2>2
  <2>3. CASE unread' = unread /\ unmarked' = unmarked \cup victims[r]
    BY <2>1, <2>3
  <2> QED BY <1>1, <2>2, <2>3 DEF Mark
<1>5. /\ cancel' \in [Runs -> {"idle", "begun", "cancelled", "done"}]
      /\ \A q \in Runs : cancel[q] # "idle" => cancel'[q] # "idle"
  BY <1>1 DEF SessionTypeOK
<1>6. SessionTypeOK'
  BY <1>1, <1>4, <1>5 DEF SessionTypeOK
<1>7. CancelInv'
  BY <1>1, <1>5, CancelFrame
<1>8. RowInv' /\ BatchInv'
  BY <1>1, <1>2, <1>4, CallFrame DEF Written
<1> QED BY <1>2, <1>6, <1>7, <1>8 DEF TeamInv, CoordinatorStep

-----------------------------------------------------------------------------
(* The invariant, and what follows from it.                                *)

\* Before anything happens nothing is known, claimed, given or cancelled.
LEMMA TeamInit == TeamWorkInit => TeamInv
<1> SUFFICES ASSUME TeamWorkInit PROVE TeamInv
  OBVIOUS
<1>1. <<>> \in Seq(Messages) /\ <<>> \in Seq(Works) /\ Elems(<<>>) = {}
  BY EmptySeq DEF Elems
<1>2. EmptyQueues \in [Priorities -> Seq(Works)] /\ \A p \in Priorities : EmptyQueues[p] = <<>>
  BY <1>1 DEF EmptyQueues
<1>3. Blank \in Item
  BY DEF Blank, Item, WorkSource
<1>4. CoordinatorInv
  <2>1. CoordinatorTypeOK
    BY <1>2, <1>3, NoBatchType, ConstantsAssumption
       DEF TeamWorkInit, CoordinatorTypeOK, Phases, Constraints
  <2>2. Assigned /\ IdleSlotsHaveNotStarted
    BY DEF TeamWorkInit, Assigned, IdleSlotsHaveNotStarted
  <2>3. QueuedWorkIsInItsDeque
    BY <1>1, <1>2 DEF TeamWorkInit, QueuedWorkIsInItsDeque
  <2>4. ClaimedWorkIsInItsBatch
    BY NoBatchType DEF TeamWorkInit, ClaimedWorkIsInItsBatch
  <2> QED BY <2>1, <2>2, <2>3, <2>4 DEF CoordinatorInv, Ownership
<1>5. Record!NoRecord \in Record!RunRecord /\ Record!NoRecord.status = "completed"
  BY DEF Record!NoRecord, Record!RunRecord, Record!Statuses
<1>6. SessionTypeOK
  BY <1>1, <1>5, NoBatchType DEF TeamWorkInit, SessionTypeOK, Calls, Loops
<1>7. RowInv
  BY <1>1 DEF TeamWorkInit, RowInv, CallsHaveTheirWork, RowsAreHome, RowsAreGivenOnce
<1>8. BatchInv
  BY NoBatchType DEF TeamWorkInit, BatchInv, BatchIsOwn, BatchIsKnown, WithBatch
<1>9. CancelInv
  BY <1>5 DEF TeamWorkInit, CancelInv
<1> QED BY <1>4, <1>6, <1>7, <1>8, <1>9 DEF TeamInv

\* Nothing happens.
LEMMA TeamStutter == ASSUME TeamInv, UNCHANGED vars PROVE TeamInv'
<1>1. UNCHANGED coordinatorVars
      /\ UNCHANGED <<run, usedRuns, unread, call, loop, view, batch, ran, settling,
                     notified, cancel, victims, pending, turns, unmarked, forgotten>>
      /\ SessionTypeOK /\ CoordinatorInv
  BY TeamFacts DEF vars, sessionVars
<1>2. CoordinatorStep
  BY <1>1, UnchangedStep
<1>3. SessionTypeOK'
  BY <1>1 DEF SessionTypeOK
<1>4. CancelInv'
  BY <1>1, CancelFrame
<1>5. RowInv' /\ BatchInv'
  BY <1>1, <1>2, CallFrame DEF Written
<1> QED BY <1>2, <1>3, <1>4, <1>5 DEF TeamInv, CoordinatorStep

\* The invariant holds in every reachable state.
THEOREM TeamInvHolds == Spec => []TeamInv
<1>1. TeamWorkInit => TeamInv
  BY TeamInit
<1>2. TeamInv /\ [Next]_vars => TeamInv'
  BY PublishInv, EnqueueCallInv, EventLoopInv, BeginCancelInv, CancelWorkInv,
     SettleVictimsInv, TeamStutter DEF Next, Cancellation
<1> QED BY <1>1, <1>2, PTL DEF Spec

\* The session's variables have their types.
THEOREM SessionTypeOKHolds == Spec => []SessionTypeOK
<1>1. TeamInv => SessionTypeOK
  BY DEF TeamInv
<1> QED BY <1>1, TeamInvHolds, PTL

\* What session.rs and event_loop.rs do with the coordinator keeps its promise:
\* queued work is in its deque, claimed work in its batch.  The handles that the
\* loops report are current whenever the coordinator acts on them.
THEOREM SessionKeepsOwnership == Spec => []Ownership
<1>1. TeamInv => Ownership
  BY DEF TeamInv, CoordinatorInv
<1> QED BY <1>1, TeamInvHolds, PTL

\* A batch the coordinator considers active is the one its slot's loop executes,
\* unless team_tool_transport_for_agent made the loop forget it.
THEOREM ActiveBatchIsBeingExecutedHolds == Spec => []ActiveBatchIsBeingExecuted
<1>1. TeamInv => ActiveBatchIsBeingExecuted
  BY DEF TeamInv, BatchInv, BatchIsKnown, ActiveBatchIsBeingExecuted, WithBatch
<1> QED BY <1>1, TeamInvHolds, PTL

\* An agent is given a mailbox row in one turn only, unless marking it as read
\* fails.
THEOREM OneTurnPerRowHolds == Spec => []OneTurnPerRow
<1>1. TeamInv => OneTurnPerRow
  BY DEF TeamInv, RowInv, RowsAreGivenOnce, OneTurnPerRow
<1> QED BY <1>1, TeamInvHolds, PTL

\* A run is only ever cancelled because the user asked for it.
THEOREM CancelledOnRequestHolds == Spec => []CancelledOnRequest
<1>1. TeamInv => CancelledOnRequest
  BY DEF TeamInv, CancelInv, CancelledOnRequest
<1> QED BY <1>1, TeamInvHolds, PTL

-----------------------------------------------------------------------------
(* The refinement of SerialWork.                                           *)

\* Making an enqueue call changes no stage, and a commit queues its work.
LEMMA EnqueueCallStages ==
    ASSUME TeamInv, NEW w \in Producers, EnqueueCall(w)
    PROVE  StageStep
<1>1. CoordinatorInv /\ w \in Works
  BY TeamFacts
<1>2. \/ \E s \in Slots : \E source, r : AcquireEnqueue(w, s, source, r)
      \/ \E m : CommitEnqueue(w, m)
      \/ AbortEnqueue(w)
      \/ UNCHANGED coordinatorVars
  BY DEF EnqueueCall, Acquire, WriteRow, WriteFails, Unbind, Commit, Compensate, NotifyLoop
<1> QED BY <1>1, <1>2, StagesKept DEF StageStep

\* What a loop reports of its batch it reports of the active one.
LEMMA ReportStages ==
    ASSUME TeamInv, NEW s \in Slots, loop[s] \in WithBatch,
           \/ MarkStarted(batch[s])
           \/ RetryStart(batch[s])
           \/ \E end \in Terminal : TerminalizeBatch(batch[s], end)
    PROVE  StageStep
<1> DEFINE b == batch[s]
<1>1. CoordinatorInv
  BY TeamFacts
<1>2. b.slot \in Slots /\ b = active[b.slot]
  BY HandleFacts DEF MarkStarted, RetryStart, TerminalizeBatch
<1> HIDE DEF b
<1>3. CASE MarkStarted(b)
  BY <1>1, <1>2, <1>3, StagesKept DEF StageStep
<1>4. CASE RetryStart(b)
  BY <1>1, <1>2, <1>4, RetryReleases DEF StageStep
<1>5. ASSUME NEW end \in Terminal, TerminalizeBatch(b, end)
      PROVE  StageStep
  BY <1>1, <1>2, <1>5, TerminalizeReleases DEF StageStep
<1> QED BY <1>3, <1>4, <1>5 DEF b

\* A loop reconciles, claims, settles signals, or reports.
LEMMA EventLoopStages ==
    ASSUME TeamInv, NEW s \in Slots, EventLoop(s)
    PROVE  StageStep
<1>1. CoordinatorInv /\ view[s] \in Seq(Messages)
  BY TeamFacts, QuietTypes
<1>2. CASE UNCHANGED coordinatorVars
  BY <1>1, <1>2, StagesKept DEF StageStep
<1>3. CASE Reconcile(s)
  BY <1>1, <1>3 DEF Reconcile, StageStep
<1>4. CASE ClaimNext(s)
  BY <1>4 DEF ClaimNext, StageStep
<1>5. CASE SettleSignals(s)
  <2>1. CASE CompleteSignals(s, settling[s])
    BY <1>1, <2>1, CompleteSignalsReleases DEF StageStep
  <2> QED BY <1>2, <1>5, <2>1 DEF SettleSignals
<1>6. CASE GiveBack(s, "prepare") \/ GiveBack(s, "turn")
  <2>1. loop[s] \in WithBatch
    BY <1>6 DEF GiveBack, Step, WithBatch
  <2>2. RetryStart(batch[s]) \/ UNCHANGED coordinatorVars
    BY <1>6 DEF GiveBack
  <2> QED BY <1>2, <2>1, <2>2, ReportStages
<1>7. CASE TurnStarts(s)
  <2>1. loop[s] \in WithBatch
    BY <1>7 DEF TurnStarts, Step, WithBatch
  <2>2. MarkStarted(batch[s]) \/ UNCHANGED coordinatorVars
    BY <1>7 DEF TurnStarts
  <2> QED BY <1>2, <2>1, <2>2, ReportStages
<1>8. CASE CancelLateStart(s) \/ Finish(s)
  <2>1. loop[s] \in WithBatch
    BY <1>8 DEF CancelLateStart, Finish, Step, WithBatch
  <2>2. \/ \E end \in Terminal : TerminalizeBatch(batch[s], end)
        \/ UNCHANGED coordinatorVars
    BY <1>8 DEF CancelLateStart, Finish, Terminal
  <2> QED BY <1>2, <2>1, <2>2, ReportStages
<1>9. CASE \/ Wake(s) \/ Peek(s) \/ ObserveSignals(s) \/ Quiesce(s)
           \/ TurnStartFails(s) \/ TurnEnds(s) \/ MarkRead(s)
  <2>1. UNCHANGED coordinatorVars
    BY <1>9 DEF Wake, Peek, ObserveSignals, Quiesce, TurnStartFails, TurnEnds, MarkRead
  <2> QED BY <1>2, <2>1
<1>10. CASE Prepare(s) \/ TurnSkipped(s)
  <2>1. GiveBack(s, "prepare") \/ GiveBack(s, "turn") \/ UNCHANGED coordinatorVars
    BY <1>10 DEF Prepare, TurnSkipped
  <2> QED BY <1>2, <1>6, <2>1
<1> QED BY <1>3, <1>4, <1>5, <1>7, <1>8, <1>9, <1>10 DEF EventLoop

\* Every step of the session.
LEMMA SessionIsStageStep ==
    ASSUME TeamInv, Next
    PROVE  StageStep
<1>1. CoordinatorInv
  BY TeamFacts
<1>2. CASE UNCHANGED coordinatorVars
  BY <1>1, <1>2, StagesKept DEF StageStep
<1>3. ASSUME NEW r \in Runs, Cancellation(r)
      PROVE  StageStep
  <2>1. CASE CancelWork(r)
    BY <1>1, <2>1, CancelRunReleases DEF CancelWork, StageStep
  <2>2. CASE BeginCancel(r) \/ SettleVictims(r)
    BY <1>2, <2>2 DEF BeginCancel, SettleVictims
  <2> QED BY <1>3, <2>1, <2>2 DEF Cancellation
<1>4. ASSUME NEW t \in Threads, Publish(t)
      PROVE  StageStep
  BY <1>2, <1>4 DEF Publish
<1> QED BY <1>3, <1>4, EnqueueCallStages, EventLoopStages DEF Next

\* A session of any number of members, calls and runs implements SerialWork: for all
\* that its threads, late turns and cancellations do to each other, a member works on
\* one batch at a time, whose messages leave together, each done or waiting again, and
\* work that has ended is not taken up again.
THEOREM SessionImplementsSerialWork == Spec => ImplementsSerialWork
<1>1. TeamWorkInit => Serial!Init
  BY StageFacts DEF TeamWorkInit, Serial!Init, Unqueued
<1>2. TeamInv /\ TeamInv' /\ [Next]_vars => [Serial!Next]_(Serial!vars)
  <2>1. UNCHANGED vars => UNCHANGED Serial!vars
    BY DEF vars, coordinatorVars, Serial!vars
  <2>2. TeamInv /\ TeamInv' => CoordinatorInv /\ CoordinatorInv'
    BY DEF TeamInv
  <2> QED BY <2>1, <2>2, SessionIsStageStep, StageStepRefines
<1> QED BY <1>1, <1>2, TeamInvHolds, PTL DEF Spec, ImplementsSerialWork, Serial!Spec
=============================================================================
