------------------------ MODULE MemberRuntimesProofs ------------------------
(***************************************************************************)
(* Proofs about MemberRuntimes, for any number of calls, sessions and      *)
(* operations.  First the ledger: an answer that is awaited is owed by the *)
(* operation that holds the entry, and an answer that was given stays.     *)
(* Then the types, who owns the operation that holds an entry, and last    *)
(* the event loops: none is left behind, and none misses its work.         *)
(***************************************************************************)
EXTENDS MemberRuntimes, TLAPS

(***************************************************************************)
(* What a session's registry keeps.                                        *)
(***************************************************************************)

\* The fields the proof looks at are there.
HasFields(s) ==
    {"entry", "next", "answer", "stopped", "loop", "closed", "notified", "reading", "late",
     "member", "slot", "work"} = DOMAIN s

\* The operation holds the entry.
Holds(s, o) == s.entry = State("attaching", o) \/ s.entry = State("removing", o)

\* The operations that are awaited are those that hold the entry, and the ids to
\* come have not been used.
Ledger(s) ==
    /\ HasFields(s)
    /\ s.next \in Nat
    /\ DOMAIN s.answer = Ops
    /\ \A o \in Ops : s.answer[o] = "pending" <=> Holds(s, o)
    /\ \A o \in Ops : s.answer[o] = "unused" <=> o >= s.next

LedgerInv == DOMAIN session = Sessions /\ \A g \in Sessions : Ledger(session[g])

\* Nothing that has been answered is answered again.
Lasting(s, t) ==
    \A o \in Ops : s.answer[o] \notin {"unused", "pending"} => t.answer[o] = s.answer[o]

\* The step t of a session s is what the proof asks for.
Good(s, t) == Ledger(t) /\ Lasting(s, t)

\* A state is its kind and its operation.
LEMMA StateFacts ==
    ASSUME NEW a, NEW b, NEW o, NEW p
    PROVE  /\ State(a, o).kind = a /\ State(a, o).op = o
           /\ State(a, o) = State(b, p) => a = b /\ o = p
<1>1. State(a, o).kind = a /\ State(a, o).op = o /\ State(b, p).kind = b /\ State(b, p).op = p
  BY DEF State
<1> QED
  BY <1>1

\* A step that leaves the registry alone.
Kept(s, t) == HasFields(t) /\ t.entry = s.entry /\ t.next = s.next /\ t.answer = s.answer

\* What leaves the registry alone is good.
LEMMA KeptIsGood ==
    ASSUME NEW s, NEW t, Ledger(s), Kept(s, t)
    PROVE  Good(s, t)
<1>1. \A o \in Ops : Holds(t, o) <=> Holds(s, o)
  BY DEF Kept, Holds
<1> QED
  BY <1>1 DEF Ledger, Kept, Good, Lasting

\* A session that stays is good.
LEMMA SameIsGood ==
    ASSUME NEW s, Ledger(s)
    PROVE  Good(s, s)
BY DEF Good, Lasting

\* The registry of a session to come.
LEMMA FreshIsGood ==
    ASSUME NEW member
    PROVE  Ledger(Fresh(member))
<1> DEFINE s == Fresh(member)
<1>1. HasFields(s) /\ s.next = 1 /\ s.answer = [o \in Ops |-> "unused"] /\ s.entry = Absent
  BY DEF Fresh, HasFields
<1>2. \A o \in Ops : ~Holds(s, o)
  BY <1>1, StateFacts DEF Holds, Absent
<1>3. \A o \in Ops : o >= 1
  BY DEF Ops
<1> QED
  BY <1>1, <1>2, <1>3 DEF Ledger

\* begin: the new operation is awaited, and an attach it replaces has been answered.
LEMMA BeginIsGood ==
    ASSUME NEW s, Ledger(s), NEW kind \in {"attaching", "removing"},
           s.next \in Ops, s.entry.kind # "removing"
    PROVE  Good(s, Begin(s, kind))
<1> DEFINE t == Begin(s, kind)
<1>1. HasFields(t)
  BY DEF Ledger, HasFields, Begin
<1>2. t.entry = State(kind, s.next)
  BY DEF Ledger, HasFields, Begin
<1>3. t.next = s.next + 1
  BY DEF Ledger, HasFields, Begin
<1>4. t.answer = [o \in Ops |-> IF o = s.next THEN "pending"
                                ELSE IF s.entry = State("attaching", o) THEN "removed" ELSE s.answer[o]]
  BY DEF Ledger, HasFields, Begin
<1> HIDE DEF t
<1>5. ASSUME NEW o \in Ops
      PROVE  t.answer[o] = "pending" <=> Holds(t, o)
  <2>1. Holds(t, o) <=> o = s.next
    BY <1>2, StateFacts DEF Holds
  <2>2. s.entry # State("removing", o)
    BY StateFacts
  <2>3. s.answer[o] = "pending" => s.entry = State("attaching", o)
    BY <2>2 DEF Ledger, Holds
  <2> QED
    BY <1>4, <2>1, <2>3
<1>6. ASSUME NEW o \in Ops
      PROVE  t.answer[o] = "unused" <=> o >= t.next
  <2>1. o >= t.next <=> o >= s.next /\ o # s.next
    BY <1>3 DEF Ledger, Ops
  <2>2. s.answer[o] = "unused" <=> o >= s.next
    BY DEF Ledger
  <2>3. s.answer[o] = "unused" => s.entry # State("attaching", o)
    BY DEF Ledger, Holds
  <2> QED
    BY <1>4, <2>1, <2>2, <2>3
<1>7. ASSUME NEW o \in Ops, s.answer[o] \notin {"unused", "pending"}
      PROVE  t.answer[o] = s.answer[o]
  <2>1. o # s.next
    BY <1>7 DEF Ledger, Ops
  <2>2. s.entry # State("attaching", o)
    BY <1>7 DEF Ledger, Holds
  <2> QED
    BY <1>4, <2>1, <2>2
<1>8. t.next \in Nat /\ DOMAIN t.answer = Ops
  BY <1>3, <1>4 DEF Ledger
<1> QED
  BY <1>1, <1>5, <1>6, <1>7, <1>8 DEF Good, Ledger, Lasting, t

\* An operation that holds the entry is answered and lets go of it.
LEMMA EndIsGood ==
    ASSUME NEW s, Ledger(s), NEW kind \in {"attaching", "removing"}, NEW op, Owns(s, kind, op),
           NEW entry, entry.kind \notin {"attaching", "removing"},
           NEW answer, answer \notin {"unused", "pending"}
    PROVE  Good(s, End(s, op, entry, answer))
<1> DEFINE t == End(s, op, entry, answer)
<1>1. HasFields(t) /\ t.entry = entry /\ t.next = s.next
  BY DEF Ledger, HasFields, End
<1>2. t.answer = [s.answer EXCEPT ![op] = answer]
  BY DEF Ledger, HasFields, End
<1> HIDE DEF t
<1>3. \A o \in Ops : ~Holds(t, o)
  BY <1>1, StateFacts DEF Holds
<1>4. \A o \in Ops : Holds(s, o) <=> o = op
  BY StateFacts DEF Owns, Holds
<1>5. \A o \in Ops : t.answer[o] = IF o = op THEN answer ELSE s.answer[o]
  BY <1>2 DEF Ledger
<1>6. \A o \in Ops : s.answer[o] = "pending" <=> o = op
  BY <1>4 DEF Ledger
<1>7. \A o \in Ops : t.answer[o] # "pending"
  BY <1>5, <1>6
<1>8. DOMAIN t.answer = Ops
  BY <1>2 DEF Ledger
<1>9. Lasting(s, t)
  BY <1>5, <1>6 DEF Lasting
<1>10. \A o \in Ops : t.answer[o] = "unused" <=> o >= t.next
  BY <1>1, <1>5, <1>6 DEF Ledger
<1> QED
  BY <1>1, <1>3, <1>7, <1>8, <1>9, <1>10 DEF Good, Ledger, t

\* stop: what was under way is answered.
LEMMA StopIsGood ==
    ASSUME NEW s, Ledger(s)
    PROVE  Good(s, StopEntries(s))
<1>1. CASE s.stopped
  BY <1>1, SameIsGood DEF StopEntries
<1>2. CASE ~s.stopped
  <2> DEFINE t == StopEntries(s)
  <2>1. HasFields(t) /\ t.entry = Absent /\ t.next = s.next
    BY <1>2 DEF Ledger, HasFields, StopEntries
  <2>2. t.answer = [o \in Ops |-> IF s.entry \in {State("attaching", o), State("removing", o)}
                                  THEN "stopped" ELSE s.answer[o]]
    BY <1>2 DEF Ledger, HasFields, StopEntries
  <2> HIDE DEF t
  <2>3. \A o \in Ops : ~Holds(t, o)
    BY <2>1, StateFacts DEF Holds, Absent
  <2>4. \A o \in Ops : t.answer[o] = IF s.answer[o] = "pending" THEN "stopped" ELSE s.answer[o]
    BY <2>2 DEF Ledger, Holds
  <2>5. DOMAIN t.answer = Ops
    BY <2>2
  <2> QED
    BY <2>1, <2>3, <2>4, <2>5 DEF Good, Ledger, Lasting, t
<1> QED
  BY <1>1, <1>2

(***************************************************************************)
(* What leaves the registry alone.                                         *)
(***************************************************************************)

\* What a loop and the work coordinator do leaves the registry alone.
LEMMA ConstrainKeeps ==
    ASSUME NEW s, HasFields(s), NEW constraint, NEW requeued
    PROVE  Kept(s, Constrain(s, constraint, requeued))
BY DEF HasFields, Kept, Constrain

\* The same of a stop of the work,
LEMMA StopWorkKeeps ==
    ASSUME NEW s, HasFields(s)
    PROVE  Kept(s, StopWork(s))
BY DEF HasFields, Kept, StopWork

\* of a loop that is spawned,
LEMMA SpawnLoopKeeps ==
    ASSUME NEW s, HasFields(s)
    PROVE  Kept(s, SpawnLoop(s))
BY DEF HasFields, Kept, SpawnLoop

\* of a loop that is removed,
LEMMA RemoveLoopKeeps ==
    ASSUME NEW s, HasFields(s)
    PROVE  Kept(s, RemoveLoop(s))
BY DEF HasFields, Kept, RemoveLoop

\* of a loop that is told,
LEMMA NotifyKeeps ==
    ASSUME NEW s, HasFields(s)
    PROVE  Kept(s, Notify(s))
BY DEF HasFields, Kept, Notify

\* and of what is done once more when an attach has succeeded.
LEMMA ReadyAgainKeeps ==
    ASSUME NEW s, HasFields(s)
    PROVE  Kept(s, ReadyAgain(s))
<1> DEFINE t == Constrain(s, Ready, FALSE)
<1>1. Kept(s, t)
  BY ConstrainKeeps
<1> HIDE DEF t
<1>2. Kept(t, Notify(t))
  BY <1>1, NotifyKeeps DEF Kept
<1> QED
  BY <1>1, <1>2 DEF Kept, ReadyAgain, t

(***************************************************************************)
(* Steps.                                                                  *)
(***************************************************************************)

\* What the proof asks of a step.
Final == \A g \in Sessions, o \in Ops :
             Answered(g, o) => session'[g].answer[o] = session[g].answer[o]

\* A step that changes no session.
LEMMA UnchangedIsGood ==
    ASSUME LedgerInv, session' = session
    PROVE  LedgerInv' /\ Final
BY DEF LedgerInv, Final

\* A step that changes one session is good if the change is.
LEMMA UpdateIsGood ==
    ASSUME LedgerInv, NEW g, NEW t, Update(g, t), g \in Sessions => Good(session[g], t)
    PROVE  LedgerInv' /\ Final
<1>1. DOMAIN session' = Sessions
  BY DEF LedgerInv, Update
<1>2. \A h \in Sessions : session'[h] = IF h = g THEN t ELSE session[h]
  BY DEF LedgerInv, Update
<1>3. \A h \in Sessions : Good(session[h], session'[h])
  BY <1>2, SameIsGood DEF LedgerInv
<1> QED
  BY <1>1, <1>3 DEF LedgerInv, Final, Good, Lasting, Answered

\* A step that changes one session, but not its registry.
LEMMA KeepIsGood ==
    ASSUME LedgerInv, NEW g, NEW t, Update(g, t), g \in Sessions => Kept(session[g], t)
    PROVE  LedgerInv' /\ Final
BY UpdateIsGood, KeptIsGood DEF LedgerInv

\* A session has its fields.
LEMMA FieldsOfSession ==
    ASSUME LedgerInv, NEW g \in Sessions
    PROVE  HasFields(session[g])
BY DEF LedgerInv, Ledger

\* A step that ends an operation which holds the entry.
LEMMA EndStepIsGood ==
    ASSUME LedgerInv, NEW g, NEW kind \in {"attaching", "removing"}, NEW op,
           Owns(session[g], kind, op),
           NEW entry, entry.kind \notin {"attaching", "removing"},
           NEW answer, answer \notin {"unused", "pending"},
           Update(g, End(session[g], op, entry, answer))
    PROVE  LedgerInv' /\ Final
<1>1. g \in Sessions => Good(session[g], End(session[g], op, entry, answer))
  BY EndIsGood DEF LedgerInv
<1> QED
  BY <1>1, UpdateIsGood

\* A reservation begins an operation where none is being removed, or begins none.
LEMMA TakeIsGood ==
    ASSUME LedgerInv, NEW g, NEW found, NEW kind \in {"attaching", "removing"},
           Take(g, found, kind), found = "start" => session[g].entry.kind # "removing"
    PROVE  LedgerInv' /\ Final
<1>1. CASE found = "start"
  <2>1. session[g].next \in Ops /\ Update(g, Begin(session[g], kind))
    BY <1>1 DEF Take
  <2>2. g \in Sessions => Good(session[g], Begin(session[g], kind))
    BY <1>1, <2>1, BeginIsGood DEF LedgerInv
  <2> QED
    BY <2>1, <2>2, UpdateIsGood
<1>2. CASE found # "start"
  BY <1>2, UnchangedIsGood DEF Take
<1> QED
  BY <1>1, <1>2

\* What a reservation to attach finds when it begins an operation.
LEMMA ReservationStarts ==
    ASSUME NEW s, NEW retryFailed
    PROVE  /\ Reservation(s, retryFailed) = "start" => s.entry.kind # "removing"
           /\ RepairReservation(s) = "start" => s.entry.kind # "removing"
BY DEF Reservation, RepairReservation

\* What a removal finds when it begins an operation.
LEMMA RemovalStarts ==
    ASSUME NEW g, Removal(g) = "start"
    PROVE  session[g].entry.kind # "removing"
BY DEF Removal

(***************************************************************************)
(* The steps of the attach task and of the event loop.                     *)
(***************************************************************************)

\* The attach tasks.
LEMMA AttachIsGood ==
    ASSUME LedgerInv, NEW g \in Sessions, NEW o \in Ops, Attach(g, o)
    PROVE  LedgerInv' /\ Final
<1> HasFields(session[g])
  BY FieldsOfSession
<1>1. CASE StartAttach(g, o)
  BY <1>1, ConstrainKeeps, KeepIsGood DEF StartAttach
<1>2. CASE WriteConfig(g, o) \/ KillOldAgent(g, o) \/ WarmUp(g, o) \/ CleanUpFailed(g, o)
  BY <1>2, UnchangedIsGood DEF WriteConfig, KillOldAgent, WarmUp, CleanUpFailed
<1>3. CASE CommitFailed(g, o)
  <2>1. CASE Owns(session[g], "attaching", o)
    <3>1. Update(g, End(session[g], o, State("failed", o), "failed"))
      BY <1>3, <2>1 DEF CommitFailed
    <3>2. (State("failed", o)).kind \notin {"attaching", "removing"}
      BY DEF State
    <3>3. Owns(session[g], "attaching", o)
      BY <2>1
    <3>4. "failed" \notin {"unused", "pending"}
      OBVIOUS
    <3> QED
      BY <3>1, <3>2, <3>3, <3>4, EndStepIsGood
  <2>2. CASE ~Owns(session[g], "attaching", o)
    BY <1>3, <2>2, UnchangedIsGood DEF CommitFailed
  <2> QED
    BY <2>1, <2>2
<1>4. CASE ConstrainFailed(g, o)
  BY <1>4, ConstrainKeeps, KeepIsGood DEF ConstrainFailed
<1>5. CASE CheckOwner(g, o) \/ CleanUpUnregistered(g, o) \/ PublishReady(g, o) \/ CleanUpStale(g, o)
           \/ EndAttach(g, o)
  BY <1>5, UnchangedIsGood DEF CheckOwner, CleanUpUnregistered, PublishReady, CleanUpStale, EndAttach
<1>6. CASE RegisterLoop(g, o)
  <2>1. CASE session' = session
    BY <2>1, UnchangedIsGood
  <2>2. CASE Update(g, SpawnLoop(session[g]))
    BY <2>2, SpawnLoopKeeps, KeepIsGood
  <2> QED
    BY <1>6, <2>1, <2>2 DEF RegisterLoop
<1>7. CASE FailUnregistered(g, o)
  <2>1. CASE Owns(session[g], "attaching", o)
    <3>1. Update(g, End(session[g], o, State("failed", o), "failed"))
      BY <1>7, <2>1 DEF FailUnregistered
    <3>2. (State("failed", o)).kind \notin {"attaching", "removing"}
      BY DEF State
    <3>3. Owns(session[g], "attaching", o)
      BY <2>1
    <3>4. "failed" \notin {"unused", "pending"}
      OBVIOUS
    <3> QED
      BY <3>1, <3>2, <3>3, <3>4, EndStepIsGood
  <2>2. CASE ~Owns(session[g], "attaching", o)
    <3>1. Update(g, session[g])
      BY <1>7, <2>2 DEF FailUnregistered
    <3> QED
      BY <3>1, KeepIsGood DEF Kept
  <2> QED
    BY <2>1, <2>2
<1>8. CASE CommitReady(g, o)
  <2>1. CASE Owns(session[g], "attaching", o)
    <3>1. Update(g, End(session[g], o, Ready, "ready"))
      BY <1>8, <2>1 DEF CommitReady
    <3>2. (Ready).kind \notin {"attaching", "removing"}
      BY DEF Ready, State
    <3>3. Owns(session[g], "attaching", o)
      BY <2>1
    <3>4. "ready" \notin {"unused", "pending"}
      OBVIOUS
    <3> QED
      BY <3>1, <3>2, <3>3, <3>4, EndStepIsGood
  <2>2. CASE ~Owns(session[g], "attaching", o)
    BY <1>8, <2>2, UnchangedIsGood DEF CommitReady
  <2> QED
    BY <2>1, <2>2
<1>9. CASE ConstrainReady(g, o)
  BY <1>9, ConstrainKeeps, KeepIsGood DEF ConstrainReady
<1>10. CASE NotifyReady(g, o)
  BY <1>10, NotifyKeeps, KeepIsGood DEF NotifyReady
<1>11. CASE Deregister(g, o)
  BY <1>11, RemoveLoopKeeps, KeepIsGood DEF Deregister
<1>12. CASE NotifyAgain(g, o)
  <2>1. CASE published = g
    BY <1>12, <2>1, ReadyAgainKeeps, KeepIsGood DEF NotifyAgain
  <2>2. CASE published # g
    <3>1. Update(g, session[g])
      BY <1>12, <2>2 DEF NotifyAgain
    <3> QED
      BY <3>1, KeepIsGood DEF Kept
  <2> QED
    BY <2>1, <2>2
<1> QED
  BY <1>1, <1>2, <1>3, <1>4, <1>5, <1>6, <1>7, <1>8, <1>9, <1>10, <1>11, <1>12 DEF Attach

\* The event loops.
LEMMA LoopIsGood ==
    ASSUME LedgerInv, NEW g \in Sessions, Loop(g)
    PROVE  LedgerInv' /\ Final
<1> HasFields(session[g])
  BY FieldsOfSession
<1>1. CASE LoopLooks(g)
  <2> DEFINE t == [session[g] EXCEPT !.notified = FALSE,
                                     !.reading = IF session[g].member
                                                 THEN Snapshot(session[g]) ELSE Nothing]
  <2>1. Update(g, t)
    BY <1>1 DEF LoopLooks
  <2>2. Kept(session[g], t)
    BY DEF Kept, HasFields
  <2> QED
    BY <2>1, <2>2, KeepIsGood
<1>2. CASE LoopClaims(g)
  <2>5. PICK requeued \in BOOLEAN :
           LET told == Constrain(session[g], session[g].reading, requeued)
           IN  Update(g, [told EXCEPT !.reading = Nothing,
                                      !.work = told.work /\ told.slot.kind # "ready"])
    BY <1>2 DEF LoopClaims
  <2> DEFINE told == Constrain(session[g], session[g].reading, requeued)
             t    == [told EXCEPT !.reading = Nothing,
                                  !.work = told.work /\ told.slot.kind # "ready"]
  <2>1. Update(g, t)
    BY <2>5
  <2>2. Kept(session[g], told)
    BY ConstrainKeeps
  <2> HIDE DEF told
  <2>3. Kept(session[g], t)
    BY <2>2 DEF Kept, HasFields
  <2> QED
    BY <2>1, <2>3, KeepIsGood DEF told
<1>3. CASE AbortedLoopTells(g)
  <2>1. PICK seen, requeued :
           Update(g, [Constrain(session[g], seen, requeued) EXCEPT !.late = session[g].late \ {seen}])
    BY <1>3 DEF AbortedLoopTells
  <2> DEFINE told == Constrain(session[g], seen, requeued)
             t    == [told EXCEPT !.late = session[g].late \ {seen}]
  <2>2. Kept(session[g], told)
    BY ConstrainKeeps
  <2>3. Update(g, t)
    BY <2>1
  <2> HIDE DEF told
  <2>4. Kept(session[g], t)
    BY <2>2 DEF Kept, HasFields
  <2> QED
    BY <2>3, <2>4, KeepIsGood
<1> QED
  BY <1>1, <1>2, <1>3 DEF Loop

(***************************************************************************)
(* The steps of the calls.                                                 *)
(***************************************************************************)

\* The calls that deliver.
LEMMA DeliveringIsGood ==
    ASSUME LedgerInv, NEW c \in Callers, Delivering(c)
    PROVE  LedgerInv' /\ Final
<1> DEFINE g == caller[c].gen
<1> g \in Sessions => HasFields(session[g])
  BY FieldsOfSession
<1>1. CASE Deliver(c) \/ LooksForLoop(c) \/ SpawnsLazily(c) \/ Looks(c) \/ EnqueueFails(c)
  BY <1>1, UnchangedIsGood DEF Deliver, LooksForLoop, SpawnsLazily, Looks, EnqueueFails
<1>2. CASE ReservesLazily(c)
  <2>1. Take(g, Reservation(session[g], FALSE), "attaching")
    BY <1>2 DEF ReservesLazily
  <2> QED
    BY <2>1, ReservationStarts, TakeIsGood
<1>3. CASE Tells(c)
  <2>1. PICK requeued : Update(g, Constrain(session[g], caller[c].seen, requeued))
    BY <1>3 DEF Tells, Mine
  <2> QED
    BY <2>1, ConstrainKeeps, KeepIsGood
<1>4. CASE Enqueues(c)
  <2>1. Update(g, [session[g] EXCEPT !.work = TRUE])
    BY <1>4 DEF Enqueues, Mine
  <2>2. g \in Sessions => Kept(session[g], [session[g] EXCEPT !.work = TRUE])
    BY DEF Kept, HasFields
  <2> QED
    BY <2>1, <2>2, KeepIsGood
<1>5. CASE Wakes(c)
  <2>1. Update(g, Notify(session[g]))
    BY <1>5 DEF Wakes, Mine
  <2> QED
    BY <2>1, NotifyKeeps, KeepIsGood
<1> QED
  BY <1>1, <1>2, <1>3, <1>4, <1>5 DEF Delivering

\* spawn_agent.
LEMMA AddingIsGood ==
    ASSUME LedgerInv, NEW c \in Callers, Adding(c)
    PROVE  LedgerInv' /\ Final
<1> DEFINE g == caller[c].gen
<1> g \in Sessions => HasFields(session[g])
  BY FieldsOfSession
<1>1. CASE Add(c) \/ Launches(c) \/ Joins(c)
  BY <1>1, UnchangedIsGood DEF Add, Launches, Joins
<1>2. CASE Introduces(c)
  <2>1. Take(g, Reservation(session[g], FALSE), "attaching")
    BY <1>2 DEF Introduces
  <2> QED
    BY <2>1, ReservationStarts, TakeIsGood
<1>3. CASE Schedules(c)
  <2>1. Update(g, [session[g] EXCEPT !.member = TRUE])
    BY <1>3 DEF Schedules, Mine
  <2>2. g \in Sessions => Kept(session[g], [session[g] EXCEPT !.member = TRUE])
    BY DEF Kept, HasFields
  <2> QED
    BY <2>1, <2>2, KeepIsGood
<1>4. CASE TellsAgain(c)
  <2>1. CASE published = g
    <3>1. Update(g, ReadyAgain(session[g]))
      BY <1>4, <2>1 DEF TellsAgain, Mine
    <3> QED
      BY <3>1, ReadyAgainKeeps, KeepIsGood
  <2>2. CASE published # g
    BY <1>4, <2>2, UnchangedIsGood DEF TellsAgain
  <2> QED
    BY <2>1, <2>2
<1> QED
  BY <1>1, <1>2, <1>3, <1>4 DEF Adding

\* ensure_session and retry.
LEMMA ReconcilingIsGood ==
    ASSUME LedgerInv, NEW c \in Callers, Reconciling(c)
    PROVE  LedgerInv' /\ Final
<1> DEFINE g == caller[c].gen
<1>1. CASE StartSession(c)
  <2> DEFINE h == created + 1
  <2>1. Update(h, [session[h] EXCEPT !.member = (roster = "in")])
    BY <1>1 DEF StartSession
  <2>2. h \in Sessions => HasFields(session[h])
    BY FieldsOfSession
  <2>3. h \in Sessions => Kept(session[h], [session[h] EXCEPT !.member = (roster = "in")])
    BY <2>2 DEF Kept, HasFields
  <2> QED
    BY <2>1, <2>3, KeepIsGood
<1>2. CASE LeadAttaches(c) \/ LeadFails(c) \/ Awaits(c) \/ Retry(c)
  BY <1>2, UnchangedIsGood DEF LeadAttaches, LeadFails, Awaits, Retry
<1>3. CASE Reconcile(c)
  <2> DEFINE h == published
  <2>1. CASE roster = "in"
    <3>1. Update(h, [session[h] EXCEPT !.member = TRUE])
      BY <1>3, <2>1 DEF Reconcile
    <3>2. h \in Sessions => HasFields(session[h])
      BY FieldsOfSession
    <3>3. h \in Sessions => Kept(session[h], [session[h] EXCEPT !.member = TRUE])
      BY <3>2 DEF Kept, HasFields
    <3> QED
      BY <3>1, <3>3, KeepIsGood
  <2>2. CASE roster # "in"
    BY <1>3, <2>2, UnchangedIsGood DEF Reconcile
  <2> QED
    BY <2>1, <2>2
<1>4. CASE ReservesAgain(c)
  <2> DEFINE found == IF On(c, "repair") THEN RepairReservation(session[g])
                      ELSE Reservation(session[g], TRUE)
  <2>1. Take(g, found, "attaching")
    BY <1>4 DEF ReservesAgain
  <2>2. found = "start" => session[g].entry.kind # "removing"
    BY ReservationStarts
  <2> HIDE DEF found
  <2> QED
    BY <2>1, <2>2, TakeIsGood
<1>5. CASE RetriesAttach(c)
  <2>1. Take(g, Reservation(session[g], TRUE), "attaching")
    BY <1>5 DEF RetriesAttach
  <2> QED
    BY <2>1, ReservationStarts, TakeIsGood
<1> QED
  BY <1>1, <1>2, <1>3, <1>4, <1>5 DEF Reconciling

\* remove_agent.
LEMMA RemovingIsGood ==
    ASSUME LedgerInv, NEW c \in Callers, Removing(c)
    PROVE  LedgerInv' /\ Final
<1> DEFINE g == caller[c].gen
           o == caller[c].op
<1> g \in Sessions => HasFields(session[g])
  BY FieldsOfSession
<1>1. CASE Remove(c) \/ AwaitsRemoval(c) \/ KillsAgent(c) \/ Persists(c) \/ KillsAgentAgain(c)
  BY <1>1, UnchangedIsGood DEF Remove, AwaitsRemoval, KillsAgent, Persists, KillsAgentAgain
<1>2. CASE BeginsRemoval(c)
  <2>1. CASE roster = "in"
    <3>1. Take(published, Removal(published), "removing")
      BY <1>2, <2>1 DEF BeginsRemoval
    <3> QED
      BY <3>1, RemovalStarts, TakeIsGood
  <2>2. CASE roster # "in"
    BY <1>2, <2>2, UnchangedIsGood DEF BeginsRemoval
  <2> QED
    BY <2>1, <2>2
<1>3. CASE StopsLoop(c)
  <2>1. CASE g = 0
    BY <1>3, <2>1, UnchangedIsGood DEF StopsLoop
  <2>2. CASE g # 0
    <3>1. Update(g, RemoveLoop(session[g]))
      BY <1>3, <2>2 DEF StopsLoop, Mine
    <3> QED
      BY <3>1, RemoveLoopKeeps, KeepIsGood
  <2> QED
    BY <2>1, <2>2
<1>4. CASE Restores(c)
  <2>1. CASE caller[c].found = "start" /\ Owns(session[g], "removing", o)
    <3>1. Update(g, End(session[g], o, State("failed", o), "failed"))
      BY <1>4, <2>1 DEF Restores, Mine
    <3>2. (State("failed", o)).kind \notin {"attaching", "removing"}
      BY DEF State
    <3>3. Owns(session[g], "removing", o)
      BY <2>1
    <3>4. "failed" \notin {"unused", "pending"}
      OBVIOUS
    <3> QED
      BY <3>1, <3>2, <3>3, <3>4, EndStepIsGood
  <2>2. CASE ~(caller[c].found = "start" /\ Owns(session[g], "removing", o))
    BY <1>4, <2>2, UnchangedIsGood DEF Restores, Mine
  <2> QED
    BY <2>1, <2>2
<1>5. CASE FindsSession(c)
  <2>1. CASE session' = session
    BY <2>1, UnchangedIsGood
  <2>2. CASE Take(published, Removal(published), "removing")
    BY <2>2, RemovalStarts, TakeIsGood
  <2> QED
    BY <1>5, <2>1, <2>2 DEF FindsSession
<1>6. CASE StopsLoopAgain(c)
  <2>1. Update(g, RemoveLoop(session[g]))
    BY <1>6 DEF StopsLoopAgain, Mine
  <2> QED
    BY <2>1, RemoveLoopKeeps, KeepIsGood
<1>7. CASE Unschedules(c)
  <2>1. Update(g, [session[g] EXCEPT !.member = FALSE])
    BY <1>7 DEF Unschedules, Mine
  <2>2. g \in Sessions => Kept(session[g], [session[g] EXCEPT !.member = FALSE])
    BY DEF Kept, HasFields
  <2> QED
    BY <2>1, <2>2, KeepIsGood
<1>8. CASE FinishesRemoval(c)
  <2>1. CASE caller[c].found = "start" /\ Owns(session[g], "removing", o)
    <3>1. Update(g, End(session[g], o, Absent, "removed"))
      BY <1>8, <2>1 DEF FinishesRemoval, Mine
    <3>2. (Absent).kind \notin {"attaching", "removing"}
      BY DEF Absent, State
    <3>3. Owns(session[g], "removing", o)
      BY <2>1
    <3>4. "removed" \notin {"unused", "pending"}
      OBVIOUS
    <3> QED
      BY <3>1, <3>2, <3>3, <3>4, EndStepIsGood
  <2>2. CASE ~(caller[c].found = "start" /\ Owns(session[g], "removing", o))
    BY <1>8, <2>2, UnchangedIsGood DEF FinishesRemoval, Mine
  <2> QED
    BY <2>1, <2>2
<1> QED
  BY <1>1, <1>2, <1>3, <1>4, <1>5, <1>6, <1>7, <1>8 DEF Removing

\* The stops of a session.
LEMMA StoppingIsGood ==
    ASSUME LedgerInv, NEW c \in Callers, Stopping(c)
    PROVE  LedgerInv' /\ Final
<1> DEFINE g == caller[c].gen
<1> g \in Sessions => HasFields(session[g])
  BY FieldsOfSession
<1>1. CASE Stop(c) \/ KillsIdle(c) \/ Unpublishes(c)
  BY <1>1, UnchangedIsGood DEF Stop, KillsIdle, Unpublishes
<1>2. CASE StopsWork(c)
  <2>1. Update(g, StopWork(session[g]))
    BY <1>2 DEF StopsWork, Mine
  <2> QED
    BY <2>1, StopWorkKeeps, KeepIsGood
<1>3. CASE StopsRegistry(c)
  <2>1. Update(g, StopEntries(session[g]))
    BY <1>3 DEF StopsRegistry, Mine
  <2>2. g \in Sessions => Good(session[g], StopEntries(session[g]))
    BY StopIsGood DEF LedgerInv
  <2> QED
    BY <2>1, <2>2, UpdateIsGood
<1>4. CASE StopsLoops(c)
  <2> DEFINE left == RemoveLoop(session[g])
             t    == [left EXCEPT !.closed = TRUE]
  <2>1. Update(g, t)
    BY <1>4 DEF StopsLoops, Mine
  <2>2. g \in Sessions => Kept(session[g], left)
    BY RemoveLoopKeeps
  <2> HIDE DEF left
  <2>3. g \in Sessions => Kept(session[g], t)
    BY <2>2 DEF Kept, HasFields
  <2> HIDE DEF t
  <2> QED
    BY <2>1, <2>3, KeepIsGood
<1> QED
  BY <1>1, <1>2, <1>3, <1>4 DEF Stopping

(***************************************************************************)
(* The types of the state.                                                 *)
(***************************************************************************)

Constraint == [kind : ConstraintKinds, op : 0..MaxOps]
Entry == [kind : EntryKinds, op : 0..MaxOps]

SessionState ==
    [entry : Entry, next : Nat, answer : [Ops -> Answers],
     stopped : BOOLEAN, loop : BOOLEAN, closed : BOOLEAN, notified : BOOLEAN,
     reading : Constraint, late : SUBSET Constraint, member : BOOLEAN,
     slot : Constraint, work : BOOLEAN]

AttachPcs ==
    {"unused", "start", "config", "kill", "build", "failed", "fail", "constrain", "check",
     "register", "unregistered", "unregister", "commit", "ready", "notify", "publish",
     "deregister", "stale", "wait", "again", "done"}

AttachState == [pc : AttachPcs, background : BOOLEAN, registered : BOOLEAN]

Founds == {"none", "start", "join", "ready", "stopped"}

CallNames == {"none", "deliver", "add", "ensure", "retry", "remove", "stop", "idle"}

CallPcs ==
    {"idle", "lazy", "reserve", "spawn", "look", "tell", "enqueue", "wake", "introduce", "schedule",
     "launch", "join", "again", "lead", "repair", "reattach", "await", "retry", "retry attach",
     "remove", "await removal", "await other", "stop loop", "kill", "persist", "restore",
     "find session", "stop loop again", "kill again", "unschedule", "finish", "stop work",
     "stop registry", "stop loops", "kill idle", "unpublish", "done"}

CallState ==
    [call : CallNames, pc : CallPcs, gen : 0..MaxSessions, found : Founds, op : 0..MaxOps,
     seen : Constraint]

\* Where a call uses the registry of its session.
Placed == {"lazy", "reserve", "spawn", "look", "introduce", "schedule", "repair", "reattach",
           "retry attach"}

\* A call is on a session that has been created, and what it has begun is there.
PlacedCall(r) ==
    /\ r.gen <= created
    /\ r.pc \in Placed => r.gen # 0
    /\ r.found = "start" => r.gen # 0 /\ r.op # 0

TypesInv ==
    /\ created \in 0..MaxSessions /\ published \in 0..created
    /\ roster \in {"in", "new", "out"}
    /\ membership \in Callers \cup {Nobody}
    /\ config \in 0..created /\ agent \in 0..created
    /\ session \in [Sessions -> SessionState]
    /\ attach \in [Sessions -> [Ops -> AttachState]]
    /\ caller \in [Callers -> CallState]
    /\ dropped \subseteq Sessions \X Ops /\ unguarded \in BOOLEAN
    /\ \A g \in Sessions, o \in Ops : attach[g][o].pc # "unused" => g <= created
    /\ \A c \in Callers : PlacedCall(caller[c])

\* Which calls come where.
Passes(call, pc) ==
    /\ pc \in {"lazy", "reserve", "spawn"} => call = "deliver"
    /\ pc \in {"introduce", "schedule", "launch"} => call = "add"
    /\ pc \in {"look", "tell", "enqueue", "wake"} => call \in {"deliver", "add"}
    /\ pc \in {"lead", "repair", "reattach", "await", "retry", "retry attach", "unpublish"} =>
          call \in Ensuring
    /\ pc \in {"stop work", "stop registry", "stop loops"} => call \in Ensuring \cup {"stop", "idle"}

Fits(r) == Passes(r.call, r.pc) /\ (r.pc = "spawn" => r.found = "start")

CallsInv == \A c \in Callers : Fits(caller[c])

\* The names of the calls, and of where they come.
LEMMA NamesOfCalls ==
    /\ "idle" \in CallPcs /\ "lazy" \in CallPcs /\ "reserve" \in CallPcs /\ "spawn" \in CallPcs
    /\ "look" \in CallPcs /\ "tell" \in CallPcs /\ "enqueue" \in CallPcs /\ "wake" \in CallPcs
    /\ "introduce" \in CallPcs /\ "schedule" \in CallPcs /\ "launch" \in CallPcs
    /\ "join" \in CallPcs /\ "again" \in CallPcs /\ "lead" \in CallPcs /\ "repair" \in CallPcs
    /\ "reattach" \in CallPcs /\ "await" \in CallPcs /\ "retry" \in CallPcs
    /\ "retry attach" \in CallPcs /\ "remove" \in CallPcs /\ "await removal" \in CallPcs
    /\ "await other" \in CallPcs /\ "stop loop" \in CallPcs /\ "kill" \in CallPcs
    /\ "persist" \in CallPcs /\ "restore" \in CallPcs /\ "find session" \in CallPcs
    /\ "stop loop again" \in CallPcs /\ "kill again" \in CallPcs /\ "unschedule" \in CallPcs
    /\ "finish" \in CallPcs /\ "stop work" \in CallPcs /\ "stop registry" \in CallPcs
    /\ "stop loops" \in CallPcs /\ "kill idle" \in CallPcs /\ "unpublish" \in CallPcs
    /\ "done" \in CallPcs
    /\ "none" \in CallNames /\ "deliver" \in CallNames /\ "add" \in CallNames
    /\ "ensure" \in CallNames /\ "retry" \in CallNames /\ "remove" \in CallNames
    /\ "stop" \in CallNames /\ "idle" \in CallNames
  BY DEF CallPcs, CallNames

\* The kinds of constraints and entries, and the answers.
LEMMA StateTypes ==
    /\ \A kind \in ConstraintKinds, o \in 0..MaxOps : State(kind, o) \in Constraint
    /\ \A kind \in EntryKinds, o \in 0..MaxOps : State(kind, o) \in Entry
    /\ Ready \in Constraint \cap Entry /\ Stopped \in Constraint /\ Nothing \in Constraint
    /\ Absent \in Entry /\ Ops \subseteq 0..MaxOps /\ State("starting", 0) \in Constraint
    /\ Sessions \subseteq 0..MaxSessions
  BY BoundsAssumption DEF State, Constraint, Entry, ConstraintKinds, EntryKinds, Ready, Stopped,
     Nothing, Absent, Ops, Sessions

\* What the steps make of a session is a session.
LEMMA SessionTypes ==
    ASSUME NEW s \in SessionState
    PROVE  /\ \A k \in Constraint, b \in BOOLEAN : Constrain(s, k, b) \in SessionState
           /\ StopWork(s) \in SessionState /\ SpawnLoop(s) \in SessionState
           /\ RemoveLoop(s) \in SessionState /\ Notify(s) \in SessionState
           /\ ReadyAgain(s) \in SessionState
           /\ StopEntries(s) \in SessionState
           /\ Snapshot(s) \in Constraint
           /\ \A kind \in {"attaching", "removing"} :
                 s.next \in Ops => Begin(s, kind) \in SessionState
           /\ \A o \in Ops, entry \in Entry, answer \in Answers :
                 End(s, o, entry, answer) \in SessionState
<1>1. \A r \in SessionState, k \in Constraint, b \in BOOLEAN : Constrain(r, k, b) \in SessionState
  BY DEF SessionState, Constrain
<1>2. StopWork(s) \in SessionState
  BY StateTypes DEF SessionState, StopWork
<1>3. SpawnLoop(s) \in SessionState
  BY StateTypes DEF SessionState, SpawnLoop
<1>4. RemoveLoop(s) \in SessionState
  BY StateTypes DEF SessionState, RemoveLoop
<1>5. \A r \in SessionState : Notify(r) \in SessionState
  BY DEF SessionState, Notify
<1>6. ReadyAgain(s) \in SessionState
  BY <1>1, <1>5, StateTypes DEF ReadyAgain
<1>7. StopEntries(s) \in SessionState
  <2>1. [o \in Ops |-> IF s.entry \in {State("attaching", o), State("removing", o)}
                       THEN "stopped" ELSE s.answer[o]] \in [Ops -> Answers]
    BY DEF SessionState, Answers
  <2> QED BY <2>1, StateTypes DEF SessionState, StopEntries
<1>8. Snapshot(s) \in Constraint
  <2>1. s.entry \in Entry /\ s.stopped \in BOOLEAN
    BY DEF SessionState
  <2>2. s.entry.op \in 0..MaxOps /\ s.entry.kind \in EntryKinds
    BY <2>1 DEF Entry
  <2>3. s.entry.kind \in {"ready", "failed", "removing"} => s.entry \in Constraint
    BY <2>1 DEF Entry, Constraint, ConstraintKinds
  <2>4. State("starting", s.entry.op) \in Constraint
    BY <2>2, StateTypes DEF ConstraintKinds
  <2>5. s.entry.kind \in {"absent", "attaching", "ready", "failed", "removing"}
    BY <2>2 DEF EntryKinds
  <2> QED BY <2>3, <2>4, <2>5, StateTypes DEF Snapshot
<1>9. ASSUME NEW kind \in {"attaching", "removing"}, s.next \in Ops
      PROVE  Begin(s, kind) \in SessionState
  <2>1. [o \in Ops |-> IF o = s.next THEN "pending"
                       ELSE IF s.entry = State("attaching", o) THEN "removed" ELSE s.answer[o]]
          \in [Ops -> Answers]
    BY DEF SessionState, Answers
  <2>2. State(kind, s.next) \in Entry
    BY <1>9, StateTypes DEF EntryKinds
  <2>3. s.next + 1 \in Nat
    BY DEF SessionState
  <2> QED BY <2>1, <2>2, <2>3 DEF SessionState, Begin
<1>10. ASSUME NEW o \in Ops, NEW entry \in Entry, NEW answer \in Answers
       PROVE  End(s, o, entry, answer) \in SessionState
  BY <1>10 DEF SessionState, End
<1> QED BY <1>1, <1>2, <1>3, <1>4, <1>5, <1>6, <1>7, <1>8, <1>9, <1>10

\* What a reservation finds.
LEMMA FoundTypes ==
    ASSUME NEW s \in SessionState
    PROVE  /\ \A retryFailed \in BOOLEAN : Reservation(s, retryFailed) \in Founds \ {"none"}
           /\ RepairReservation(s) \in Founds \ {"none"}
<1>1. s.entry.kind \in {"absent", "attaching", "ready", "failed", "removing"}
  BY DEF SessionState, Entry, EntryKinds
<1>2. ASSUME NEW retryFailed \in BOOLEAN
      PROVE  Reservation(s, retryFailed) \in Founds \ {"none"}
  BY <1>1 DEF Reservation, Founds
<1>3. RepairReservation(s) \in Founds \ {"none"}
  BY DEF RepairReservation, Founds
<1> QED BY <1>2, <1>3

\* One session changes.
LEMMA UpdateType ==
    ASSUME session \in [Sessions -> SessionState], NEW g, NEW t, Update(g, t),
           g \in Sessions => t \in SessionState
    PROVE  session' \in [Sessions -> SessionState]
  BY DEF Update

\* The registry begins an operation, or not.
LEMMA TakeType ==
    ASSUME session \in [Sessions -> SessionState], NEW g, NEW found,
           NEW kind \in {"attaching", "removing"}, Take(g, found, kind)
    PROVE  session' \in [Sessions -> SessionState]
<1>1. CASE found = "start"
  <2>1. session[g].next \in Ops /\ Update(g, Begin(session[g], kind))
    BY <1>1 DEF Take
  <2> QED BY <2>1, SessionTypes, UpdateType
<1>2. CASE found # "start"
  BY <1>2 DEF Take
<1> QED BY <1>1, <1>2

\* An attach task moves on.
LEMMA GoType ==
    ASSUME TypesInv, NEW g \in Sessions, NEW o \in Ops, NEW r \in AttachState,
           attach[g][o].pc # "unused",
           attach' = [attach EXCEPT ![g][o] = r]
    PROVE  /\ attach' \in [Sessions -> [Ops -> AttachState]]
           /\ \A h \in Sessions, p \in Ops : attach'[h][p].pc # "unused" => h <= created
  BY DEF TypesInv

\* The tasks that attach, and the event loops.
LEMMA AttachTypes ==
    ASSUME TypesInv, NEW g \in Sessions, NEW o \in Ops, Attach(g, o)
    PROVE  TypesInv'
<1>9. attach[g][o].pc # "unused"
  BY DEF Attach, StartAttach, WriteConfig, KillOldAgent, WarmUp, CleanUpFailed, CommitFailed,
         ConstrainFailed, CheckOwner, RegisterLoop, CleanUpUnregistered, FailUnregistered, CommitReady,
         ConstrainReady, NotifyReady, PublishReady, Deregister, CleanUpStale, EndAttach, NotifyAgain,
         At
<1>1. session[g] \in SessionState /\ g <= created /\ g \in 0..created /\ created \in Nat
      /\ attach[g][o].pc # "unused"
  BY <1>9 DEF TypesInv, Sessions
<1>2. /\ UNCHANGED <<published, created, roster, membership, caller, dropped, unguarded>>
      /\ config' \in {config, g}
  BY DEF Attach, StartAttach, WriteConfig, KillOldAgent, WarmUp, CleanUpFailed, CommitFailed,
         ConstrainFailed, CheckOwner, RegisterLoop, CleanUpUnregistered, FailUnregistered, CommitReady,
         ConstrainReady, NotifyReady, PublishReady, Deregister, CleanUpStale, EndAttach, NotifyAgain,
         service, process, history
<1>3. agent' \in {0, agent, config}
  BY DEF Attach, StartAttach, WriteConfig, KillOldAgent, WarmUp, CleanUpFailed, CommitFailed,
         ConstrainFailed, CheckOwner, RegisterLoop, CleanUpUnregistered, FailUnregistered, CommitReady,
         ConstrainReady, NotifyReady, PublishReady, Deregister, CleanUpStale, EndAttach, NotifyAgain,
         process, CleanUp
<1>4. \E r \in AttachState : attach' = [attach EXCEPT ![g][o] = r]
  <2> DEFINE task == attach[g][o]
  <2>1. task \in AttachState
    BY DEF TypesInv
  <2>2. \A pc \in AttachPcs : [task EXCEPT !.pc = pc] \in AttachState
                              /\ [task EXCEPT !.pc = pc, !.registered = TRUE] \in AttachState
    BY <2>1 DEF AttachState
  <2>3. [NoAttach EXCEPT !.pc = "done"] \in AttachState
    BY DEF NoAttach, AttachState, AttachPcs
  <2>4. \/ \E pc \in AttachPcs : attach' = [attach EXCEPT ![g][o].pc = pc]
        \/ attach' = [attach EXCEPT ![g][o] = [NoAttach EXCEPT !.pc = "done"]]
        \/ attach' = [attach EXCEPT ![g][o] = [@ EXCEPT !.pc = "commit", !.registered = TRUE]]
    BY DEF Attach, StartAttach, WriteConfig, KillOldAgent, WarmUp, CleanUpFailed, CommitFailed,
           ConstrainFailed, CheckOwner, RegisterLoop, CleanUpUnregistered, FailUnregistered, CommitReady,
           ConstrainReady, NotifyReady, PublishReady, Deregister, CleanUpStale, EndAttach, NotifyAgain,
           Go, Finish, AttachPcs
  <2>5. "commit" \in AttachPcs
    BY DEF AttachPcs
  <2> QED BY <2>2, <2>3, <2>4, <2>5 DEF TypesInv
<1>5. session' \in [Sessions -> SessionState]
  <2>1. State("starting", o) \in Constraint /\ State("failed", o) \in Constraint \cap Entry
        /\ Ready \in Constraint \cap Entry /\ "failed" \in Answers /\ "ready" \in Answers
    BY StateTypes DEF ConstraintKinds, EntryKinds, Answers
  <2>2. \/ session' = session
        \/ \E t \in SessionState : Update(g, t)
    BY <1>1, <2>1, SessionTypes
       DEF Attach, StartAttach, WriteConfig, KillOldAgent, WarmUp, CleanUpFailed, CommitFailed,
           ConstrainFailed, CheckOwner, RegisterLoop, CleanUpUnregistered, FailUnregistered, CommitReady,
           ConstrainReady, NotifyReady, PublishReady, Deregister, CleanUpStale, EndAttach, NotifyAgain
  <2> QED BY <2>2, UpdateType DEF TypesInv
<1>6. /\ attach' \in [Sessions -> [Ops -> AttachState]]
      /\ \A h \in Sessions, p \in Ops : attach'[h][p].pc # "unused" => h <= created
  BY <1>1, <1>4, GoType
<1> QED BY <1>1, <1>2, <1>3, <1>5, <1>6 DEF TypesInv, PlacedCall

\* The event loops.
LEMMA LoopTypes ==
    ASSUME TypesInv, NEW g \in Sessions, Loop(g)
    PROVE  TypesInv'
<1>1. UNCHANGED <<published, created, roster, membership, config, agent, attach, caller, dropped, unguarded>>
  BY DEF Loop, LoopLooks, LoopClaims, AbortedLoopTells, service, process, history
<1>2. session[g] \in SessionState
  BY DEF TypesInv
<1>3. session' \in [Sessions -> SessionState]
  <2>1. CASE LoopLooks(g)
    <3>1. \A k \in Constraint :
             [session[g] EXCEPT !.notified = FALSE, !.reading = k] \in SessionState
      BY <1>2 DEF SessionState
    <3>2. (IF session[g].member THEN Snapshot(session[g]) ELSE Nothing) \in Constraint
      BY <1>2, SessionTypes, StateTypes
    <3> QED BY <2>1, <3>1, <3>2, UpdateType DEF LoopLooks, TypesInv
  <2>2. CASE LoopClaims(g)
    <3>4. PICK requeued \in BOOLEAN :
             LET told == Constrain(session[g], session[g].reading, requeued)
             IN  Update(g, [told EXCEPT !.reading = Nothing,
                                        !.work = told.work /\ told.slot.kind # "ready"])
      BY <2>2 DEF LoopClaims
    <3> DEFINE told == Constrain(session[g], session[g].reading, requeued)
               t    == [told EXCEPT !.reading = Nothing,
                                    !.work = told.work /\ told.slot.kind # "ready"]
    <3>1. told \in SessionState
      BY <1>2, SessionTypes DEF SessionState
    <3>2. Update(g, t)
      BY <3>4
    <3> HIDE DEF told
    <3>3. t \in SessionState
      BY <3>1, StateTypes DEF SessionState
    <3> HIDE DEF t
    <3> QED BY <3>2, <3>3, UpdateType DEF TypesInv
  <2>3. CASE AbortedLoopTells(g)
    <3>1. PICK seen \in session[g].late, requeued \in BOOLEAN :
             Update(g, [Constrain(session[g], seen, requeued)
                           EXCEPT !.late = session[g].late \ {seen}])
      BY <2>3 DEF AbortedLoopTells
    <3> DEFINE told == Constrain(session[g], seen, requeued)
               t    == [told EXCEPT !.late = session[g].late \ {seen}]
    <3>6. seen \in Constraint
      BY <1>2 DEF SessionState
    <3>2. told \in SessionState
      BY <1>2, <3>6, SessionTypes
    <3>3. Update(g, t)
      BY <3>1
    <3>4. session[g].late \ {seen} \in SUBSET Constraint
      BY <1>2 DEF SessionState
    <3> HIDE DEF told
    <3>5. t \in SessionState
      BY <3>2, <3>4 DEF SessionState
    <3> HIDE DEF t
    <3> QED BY <3>3, <3>5, UpdateType DEF TypesInv
  <2> QED BY <2>1, <2>2, <2>3 DEF Loop
<1> QED BY <1>1, <1>3 DEF TypesInv, PlacedCall

\* One call changes.
LEMMA BecomeType ==
    ASSUME TypesInv, NEW c \in Callers, NEW r \in CallState, Become(c, r),
           r.gen <= created', r.pc \in Placed => r.gen # 0,
           r.found = "start" => r.gen # 0 /\ r.op # 0, created <= created', created' \in Nat
    PROVE  caller' \in [Callers -> CallState] /\ (\A d \in Callers : PlacedCall(caller[d]))'
<1>1. caller' \in [Callers -> CallState] /\ caller'[c] = r
      /\ \A d \in Callers : d # c => caller'[d] = caller[d]
  BY DEF Become, TypesInv
<1>2. ASSUME NEW d \in Callers, d # c PROVE PlacedCall(caller[d])'
  <2>1. PlacedCall(caller[d]) /\ caller[d].gen \in Nat /\ created \in Nat
    BY DEF TypesInv, CallState
  <2> QED BY <1>1, <1>2, <2>1 DEF PlacedCall
<1>3. PlacedCall(caller[c])'
  BY <1>1 DEF PlacedCall
<1> QED BY <1>1, <1>2, <1>3

\* A call that moves on, comes to its end or begins.
LEMMA CallTypes ==
    ASSUME TypesInv, NEW c \in Callers
    PROVE  /\ caller[c] \in CallState /\ PlacedCall(caller[c])
           /\ \A pc \in CallPcs :
                 /\ Moved(c, pc) \in CallState /\ Moved(c, pc).pc = pc
                 /\ Moved(c, pc).gen = caller[c].gen /\ Moved(c, pc).op = caller[c].op
                 /\ Moved(c, pc).found = caller[c].found /\ Moved(c, pc).call = caller[c].call
                 /\ pc \notin Placed \/ caller[c].gen # 0 => PlacedCall(Moved(c, pc))
           /\ [NoCall EXCEPT !.pc = "done"] \in CallState
           /\ PlacedCall([NoCall EXCEPT !.pc = "done"])
           /\ \A call \in CallNames, pc \in CallPcs, g \in 0..MaxSessions :
                 [NoCall EXCEPT !.call = call, !.pc = pc, !.gen = g] \in CallState
<1>1. caller[c] \in CallState /\ PlacedCall(caller[c])
  BY DEF TypesInv
<1>2. ASSUME NEW pc \in CallPcs
      PROVE  /\ Moved(c, pc) \in CallState /\ Moved(c, pc).pc = pc
             /\ Moved(c, pc).gen = caller[c].gen /\ Moved(c, pc).op = caller[c].op
             /\ Moved(c, pc).found = caller[c].found /\ Moved(c, pc).call = caller[c].call
  BY <1>1 DEF CallState, Moved
<1>3. \A pc \in CallPcs : pc \notin Placed \/ caller[c].gen # 0 => PlacedCall(Moved(c, pc))
  BY <1>1, <1>2 DEF PlacedCall
<1>4. NoCall \in CallState /\ created \in Nat
  <2>1. 0 \in 0..MaxSessions /\ 0 \in 0..MaxOps
    BY BoundsAssumption
  <2>2. NoCall \in CallState
    BY <2>1, StateTypes, NamesOfCalls DEF NoCall, CallState, Founds
  <2>3. created \in Nat
    BY BoundsAssumption DEF TypesInv
  <2> QED BY <2>2, <2>3
<1>5. [NoCall EXCEPT !.pc = "done"] \in CallState
  BY <1>4, NamesOfCalls DEF CallState
<1>6. PlacedCall([NoCall EXCEPT !.pc = "done"])
  BY <1>4 DEF PlacedCall, NoCall, Placed
<1>7. \A call \in CallNames, pc \in CallPcs, g \in 0..MaxSessions :
         [NoCall EXCEPT !.call = call, !.pc = pc, !.gen = g] \in CallState
  BY <1>4 DEF CallState
<1> QED BY <1>1, <1>2, <1>3, <1>5, <1>6, <1>7

\* A call that has made a reservation.
LEMMA ReservedType ==
    ASSUME TypesInv, NEW c \in Callers, NEW pc \in CallPcs, NEW g \in 0..MaxSessions, g <= created,
           NEW found \in Founds, found = "start" => session[g].next \in Ops,
           found \in {"start", "join"} \/ pc \in Placed => g # 0
    PROVE  Reserved(c, pc, g, found) \in CallState /\ PlacedCall(Reserved(c, pc, g, found))
<1> DEFINE op == CASE found = "start" -> session[g].next
                   [] found = "join" -> session[g].entry.op
                   [] found \notin {"start", "join"} -> 0
<1>1. op \in 0..MaxOps /\ (found = "start" => op # 0)
  <2>1. 0 \in 0..MaxOps /\ 0 \notin Ops
    BY BoundsAssumption DEF Ops
  <2>2. CASE found = "start"
    BY <2>1, <2>2, StateTypes
  <2>3. CASE found = "join"
    <3>1. g \in Sessions
      BY <2>3, BoundsAssumption DEF Sessions
    <3>2. session[g].entry \in Entry
      BY <3>1 DEF TypesInv, SessionState
    <3> QED BY <2>3, <3>2 DEF Entry
  <2>4. CASE found \notin {"start", "join"}
    BY <2>1, <2>4
  <2> QED BY <2>2, <2>3, <2>4
<1> HIDE DEF op
<1>2. Reserved(c, pc, g, found) = [caller[c] EXCEPT !.pc = pc, !.gen = g, !.found = found, !.op = op]
  BY DEF Reserved, op
<1>3. caller[c] \in CallState
  BY DEF TypesInv
<1>4. /\ Reserved(c, pc, g, found) \in CallState
      /\ Reserved(c, pc, g, found).pc = pc /\ Reserved(c, pc, g, found).gen = g
      /\ Reserved(c, pc, g, found).found = found /\ Reserved(c, pc, g, found).op = op
  BY <1>1, <1>2, <1>3 DEF CallState
<1> QED BY <1>1, <1>4 DEF PlacedCall

\* A reservation is made in session g, and the call goes on.
LEMMA ReserveType ==
    ASSUME TypesInv, NEW c \in Callers, NEW pc \in CallPcs, NEW g \in 0..MaxSessions, g <= created,
           NEW found \in Founds, NEW kind \in {"attaching", "removing"}, Take(g, found, kind),
           found \in {"start", "join"} \/ pc \in Placed => g # 0
    PROVE  /\ session' \in [Sessions -> SessionState]
           /\ Reserved(c, pc, g, found) \in CallState /\ PlacedCall(Reserved(c, pc, g, found))
<1>1. found = "start" => session[g].next \in Ops
  BY DEF Take
<1>2. session' \in [Sessions -> SessionState]
  BY TakeType DEF TypesInv
<1> QED BY <1>1, <1>2, ReservedType

\* The session of a call, if it has one.
LEMMA MineType ==
    ASSUME TypesInv, NEW c \in Callers, caller[c].gen # 0
    PROVE  caller[c].gen \in Sessions /\ caller[c].gen <= created /\ Mine(c) \in SessionState
  BY BoundsAssumption DEF TypesInv, CallState, PlacedCall, Sessions, Mine

\* An operation that is spawned: its task begins.
LEMMA SpawnType ==
    ASSUME TypesInv, NEW g \in Sessions, g <= created, NEW o \in Ops, NEW background \in BOOLEAN,
           Spawn(g, o, background)
    PROVE  /\ attach' \in [Sessions -> [Ops -> AttachState]]
           /\ \A h \in Sessions, p \in Ops : attach'[h][p].pc # "unused" => h <= created
<1>1. Spawned(background) \in AttachState
  BY DEF Spawned, AttachState, AttachPcs
<1> QED BY <1>1 DEF TypesInv, Spawn

\* The task of an operation that the call has begun.
LEMMA SpawnOfCallType ==
    ASSUME TypesInv, NEW c \in Callers, NEW background \in BOOLEAN, caller[c].gen # 0,
           Spawn(caller[c].gen, caller[c].op, background)
    PROVE  /\ attach' \in [Sessions -> [Ops -> AttachState]]
           /\ \A h \in Sessions, p \in Ops : attach'[h][p].pc # "unused" => h <= created
<1>1. Spawned(background) \in AttachState
  BY DEF Spawned, AttachState, AttachPcs
<1>2. caller[c].gen \in Sessions /\ caller[c].gen <= created
  BY MineType
<1> QED BY <1>1, <1>2 DEF TypesInv, Spawn

\* A reservation that is dropped.
LEMMA LetGoType ==
    ASSUME TypesInv, NEW c \in Callers, LetGo(c)
    PROVE  dropped' \subseteq Sessions \X Ops
<1>1. caller[c].found = "start" => caller[c].gen \in Sessions /\ caller[c].op \in Ops
  BY MineType, BoundsAssumption DEF TypesInv, PlacedCall, CallState, Ops
<1> QED BY <1>1 DEF LetGo, TypesInv

\* Nothing but the call, its session and its tasks changes.
LEMMA CallStepWithTypes ==
    ASSUME TypesInv, NEW c \in Callers, NEW r \in CallState, PlacedCall(r), Become(c, r),
           UNCHANGED <<service, process>>,
           UNCHANGED history \/ Drop(c),
           session' \in [Sessions -> SessionState],
           attach' \in [Sessions -> [Ops -> AttachState]],
           \A h \in Sessions, p \in Ops : attach'[h][p].pc # "unused" => h <= created
    PROVE  TypesInv'
<1>1. UNCHANGED <<published, created, roster, membership, config, agent>> /\ created \in Nat
  BY DEF service, process, TypesInv
<1>2. caller' \in [Callers -> CallState] /\ (\A d \in Callers : PlacedCall(caller[d]))'
  <2>1. /\ r.gen <= created' /\ (r.pc \in Placed => r.gen # 0)
        /\ r.found = "start" => r.gen # 0 /\ r.op # 0
    BY <1>1 DEF PlacedCall
  <2>2. created <= created' /\ created' \in Nat
    BY <1>1
  <2> QED BY <2>1, <2>2, BecomeType
<1>3. dropped' \subseteq Sessions \X Ops /\ unguarded' \in BOOLEAN
  BY LetGoType DEF history, Drop, TypesInv
<1> QED BY <1>1, <1>2, <1>3 DEF TypesInv

\* Nothing but the call and its session changes.
LEMMA CallStepType ==
    ASSUME TypesInv, NEW c \in Callers, NEW r \in CallState, PlacedCall(r), Become(c, r),
           UNCHANGED <<service, process, attach>>,
           UNCHANGED history \/ Drop(c),
           \/ UNCHANGED session
           \/ \E t : /\ Update(caller[c].gen, t)
                     /\ caller[c].gen # 0 => t \in SessionState
    PROVE  TypesInv'
<1>1. session' \in [Sessions -> SessionState]
  BY UpdateType DEF TypesInv, Sessions
<1>2. UNCHANGED <<service, process>> /\ created' = created
  BY DEF service, process
<1>3. /\ attach' \in [Sessions -> [Ops -> AttachState]]
      /\ \A h \in Sessions, p \in Ops : attach'[h][p].pc # "unused" => h <= created
  BY DEF TypesInv
<1> QED BY <1>1, <1>2, <1>3, CallStepWithTypes

\* The calls that deliver.
LEMMA DeliveringTypes ==
    ASSUME TypesInv, NEW c \in Callers, Delivering(c)
    PROVE  TypesInv'
<1>1. caller[c] \in CallState /\ PlacedCall(caller[c]) /\ caller[c].call \in CallNames
  BY CallTypes DEF CallState
<1>2. CASE Deliver(c)
  <2> DEFINE r == [NoCall EXCEPT !.call = "deliver", !.pc = "lazy", !.gen = published]
  <2>1. published \in 0..MaxSessions /\ published # 0 /\ published <= created
    BY <1>2, BoundsAssumption DEF TypesInv, Deliver
  <2>2. r \in CallState
    BY <2>1, CallTypes, NamesOfCalls
  <2>3. PlacedCall(r)
    BY <2>1 DEF PlacedCall, NoCall
  <2>4. Become(c, r) /\ UNCHANGED <<service, process, session, attach, history>>
    BY <1>2 DEF Deliver, Call
  <2> HIDE DEF r
  <2> QED BY <2>2, <2>3, <2>4, CallStepType
<1>3. CASE LooksForLoop(c)
  <2>1. caller[c].gen # 0
    BY <1>1, <1>3 DEF LooksForLoop, On, PlacedCall, Placed
  <2>2. \E pc \in CallPcs : Become(c, Moved(c, pc))
    BY <1>3, NamesOfCalls DEF LooksForLoop, Goto
  <2>3. UNCHANGED <<service, process, session, attach, history>>
    BY <1>3 DEF LooksForLoop
  <2> QED BY <2>1, <2>2, <2>3, CallTypes, CallStepType
<1>4. CASE ReservesLazily(c)
  <2> DEFINE g == caller[c].gen
             found == Reservation(session[g], FALSE)
  <2>1. g # 0
    BY <1>1, <1>4 DEF ReservesLazily, On, PlacedCall, Placed
  <2>2. g \in 0..MaxSessions /\ g <= created /\ session[g] \in SessionState
    BY <2>1, MineType, StateTypes DEF Mine
  <2>3. found \in Founds
    BY <2>2, FoundTypes
  <2>4. Take(g, found, "attaching") /\ UNCHANGED <<service, process, attach, history>>
        /\ \E pc \in CallPcs : Become(c, Reserved(c, pc, g, found))
    BY <1>4, NamesOfCalls DEF ReservesLazily
  <2> HIDE DEF found, g
  <2>5. PICK r \in CallState : Become(c, r) /\ PlacedCall(r)
    BY <2>1, <2>2, <2>3, <2>4, ReserveType
  <2>6. session' \in [Sessions -> SessionState]
    BY <2>4, TakeType DEF TypesInv
  <2>7. /\ attach' \in [Sessions -> [Ops -> AttachState]]
        /\ \A h \in Sessions, p \in Ops : attach'[h][p].pc # "unused" => h <= created
    BY <2>4 DEF TypesInv
  <2> QED BY <2>4, <2>5, <2>6, <2>7, CallStepWithTypes
<1>5. CASE SpawnsLazily(c)
  <2>1. caller[c].gen # 0
    BY <1>1, <1>5 DEF SpawnsLazily, On, PlacedCall, Placed
  <2>2. CASE Mine(c).member
    <3>1. Become(c, Moved(c, "look")) /\ Spawn(caller[c].gen, caller[c].op, TRUE)
          /\ UNCHANGED <<service, process, session, history>>
      BY <1>5, <2>2 DEF SpawnsLazily, Goto
    <3>2. Moved(c, "look") \in CallState /\ PlacedCall(Moved(c, "look"))
      BY <2>1, CallTypes, NamesOfCalls
    <3>3. /\ attach' \in [Sessions -> [Ops -> AttachState]]
          /\ \A h \in Sessions, p \in Ops : attach'[h][p].pc # "unused" => h <= created
      BY <2>1, <3>1, MineType, SpawnOfCallType
    <3> QED BY <3>1, <3>2, <3>3, CallStepWithTypes DEF TypesInv
  <2>3. CASE ~Mine(c).member
    BY <1>5, <2>3, CallTypes, CallStepType DEF SpawnsLazily, Return
  <2> QED BY <2>2, <2>3
<1>6. CASE Looks(c)
  <2>1. caller[c].gen # 0
    BY <1>1, <1>6 DEF Looks, On, PlacedCall, Placed
  <2> DEFINE r == [Moved(c, "tell") EXCEPT !.seen = Snapshot(Mine(c))]
  <2>2. Snapshot(Mine(c)) \in Constraint
    BY <2>1, MineType, SessionTypes
  <2>3. Moved(c, "tell") \in CallState /\ PlacedCall(Moved(c, "tell"))
    BY <2>1, CallTypes, NamesOfCalls
  <2>4. r \in CallState /\ PlacedCall(r)
    BY <2>2, <2>3 DEF CallState, PlacedCall
  <2>5. Become(c, r) /\ UNCHANGED <<service, process, session, attach, history>>
    BY <1>6 DEF Looks
  <2> HIDE DEF r
  <2> QED BY <2>4, <2>5, CallStepType
<1>7. CASE Tells(c)
  <2>1. PICK requeued \in BOOLEAN :
           /\ Become(c, Moved(c, "enqueue"))
           /\ Update(caller[c].gen, Constrain(Mine(c), caller[c].seen, requeued))
           /\ UNCHANGED <<service, process, attach, history>>
    BY <1>7 DEF Tells, Goto
  <2>2. Moved(c, "enqueue") \in CallState /\ PlacedCall(Moved(c, "enqueue"))
    BY CallTypes, NamesOfCalls DEF Placed
  <2>3. caller[c].gen # 0 => Constrain(Mine(c), caller[c].seen, requeued) \in SessionState
    BY <1>1, MineType, SessionTypes DEF CallState
  <2> QED BY <2>1, <2>2, <2>3, CallStepType
<1>8. CASE Enqueues(c)
  <2> DEFINE t == [Mine(c) EXCEPT !.work = TRUE]
  <2>1. Become(c, Moved(c, "wake")) /\ Update(caller[c].gen, t)
        /\ UNCHANGED <<service, process, attach, history>>
    BY <1>8 DEF Enqueues, Goto
  <2>2. Moved(c, "wake") \in CallState /\ PlacedCall(Moved(c, "wake"))
    BY CallTypes, NamesOfCalls DEF Placed
  <2>3. caller[c].gen # 0 => t \in SessionState
    BY <1>1, MineType DEF SessionState
  <2> HIDE DEF t
  <2> QED BY <2>1, <2>2, <2>3, CallStepType
<1>9. CASE EnqueueFails(c)
  <2>1. UNCHANGED history \/ Drop(c)
    BY <1>9 DEF EnqueueFails
  <2> QED BY <1>9, <2>1, CallTypes, CallStepType DEF EnqueueFails, Return
<1>10. CASE Wakes(c)
  <2>1. (\E pc \in {"launch", "done"} : Become(c, Moved(c, pc))) /\ Update(caller[c].gen, Notify(Mine(c)))
        /\ UNCHANGED <<service, process, attach, history>>
    BY <1>10 DEF Wakes, Goto
  <2>2. /\ Moved(c, "launch") \in CallState /\ PlacedCall(Moved(c, "launch"))
        /\ Moved(c, "done") \in CallState /\ PlacedCall(Moved(c, "done"))
    BY CallTypes, NamesOfCalls DEF Placed
  <2>3. caller[c].gen # 0 => Notify(Mine(c)) \in SessionState
    BY <1>1, MineType, SessionTypes
  <2> QED BY <2>1, <2>2, <2>3, CallStepType
<1> QED BY <1>2, <1>3, <1>4, <1>5, <1>6, <1>7, <1>8, <1>9, <1>10 DEF Delivering

\* A call changes, and with it what belongs to the service.
LEMMA ServiceStepType ==
    ASSUME TypesInv, NEW c \in Callers, NEW r \in CallState, Become(c, r),
           r.gen <= created', r.pc \in Placed => r.gen # 0,
           r.found = "start" => r.gen # 0 /\ r.op # 0,
           created' \in 0..MaxSessions, created <= created', published' \in 0..created',
           roster' \in {"in", "new", "out"}, membership' \in Callers \cup {Nobody},
           config' = config, agent' \in {0, agent},
           session' \in [Sessions -> SessionState],
           attach' \in [Sessions -> [Ops -> AttachState]],
           \A h \in Sessions, p \in Ops : attach'[h][p].pc # "unused" => h <= created,
           dropped' \subseteq Sessions \X Ops, unguarded' \in BOOLEAN
    PROVE  TypesInv'
<1>1. created \in 0..MaxSessions /\ created' \in Nat /\ created \in Nat
  BY BoundsAssumption DEF TypesInv
<1>2. caller' \in [Callers -> CallState] /\ (\A d \in Callers : PlacedCall(caller[d]))'
  BY <1>1, BecomeType
<1>3. config' \in 0..created' /\ agent' \in 0..created'
  BY <1>1 DEF TypesInv
<1>4. \A h \in Sessions, p \in Ops : attach'[h][p].pc # "unused" => h <= created'
  BY <1>1 DEF Sessions
<1> QED BY <1>2, <1>3, <1>4 DEF TypesInv

\* What a step keeps that leaves the tasks alone.
LEMMA SameTasksType ==
    ASSUME TypesInv, attach' = attach
    PROVE  /\ attach' \in [Sessions -> [Ops -> AttachState]]
           /\ \A h \in Sessions, p \in Ops : attach'[h][p].pc # "unused" => h <= created
  BY DEF TypesInv

\* spawn_agent.
LEMMA AddingTypes ==
    ASSUME TypesInv, NEW c \in Callers, Adding(c)
    PROVE  TypesInv'
<1>1. caller[c] \in CallState /\ PlacedCall(caller[c]) /\ caller[c].found \in Founds
  BY CallTypes DEF CallState
<1>2. CASE Add(c)
  <2> DEFINE r == [NoCall EXCEPT !.call = "add", !.pc = "introduce", !.gen = published]
  <2>1. published \in 0..MaxSessions /\ published # 0 /\ published <= created
    BY <1>2, BoundsAssumption DEF TypesInv, Add
  <2>2. r \in CallState
    BY <2>1, CallTypes, NamesOfCalls
  <2>3. Become(c, r) /\ roster' = "in"
        /\ UNCHANGED <<published, created, membership, process, session, attach, history>>
    BY <1>2 DEF Add, Call
  <2>4. /\ r.gen <= created' /\ (r.pc \in Placed => r.gen # 0)
        /\ r.found = "start" => r.gen # 0 /\ r.op # 0
    BY <2>1, <2>3 DEF NoCall
  <2> HIDE DEF r
  <2>5. /\ created' \in 0..MaxSessions /\ created <= created' /\ published' \in 0..created'
        /\ roster' \in {"in", "new", "out"} /\ membership' \in Callers \cup {Nobody}
        /\ config' = config /\ agent' \in {0, agent}
        /\ session' \in [Sessions -> SessionState]
        /\ dropped' \subseteq Sessions \X Ops /\ unguarded' \in BOOLEAN
    BY <2>3 DEF TypesInv, process, history
  <2>6. /\ attach' \in [Sessions -> [Ops -> AttachState]]
        /\ \A h \in Sessions, p \in Ops : attach'[h][p].pc # "unused" => h <= created
    BY <2>3, SameTasksType
  <2>7. Become(c, r)
    BY <2>3
  <2> QED BY <2>2, <2>4, <2>5, <2>6, <2>7, ServiceStepType
<1>3. CASE Introduces(c)
  <2> DEFINE g == caller[c].gen
             found == Reservation(session[g], FALSE)
  <2>1. g # 0
    BY <1>1, <1>3 DEF Introduces, On, PlacedCall, Placed
  <2>2. g \in 0..MaxSessions /\ g <= created /\ session[g] \in SessionState
    BY <2>1, MineType, StateTypes DEF Mine
  <2>3. found \in Founds
    BY <2>2, FoundTypes
  <2>4. Take(g, found, "attaching") /\ Become(c, Reserved(c, "schedule", g, found))
        /\ UNCHANGED <<service, process, attach, history>>
    BY <1>3 DEF Introduces
  <2> HIDE DEF found, g
  <2>5. /\ session' \in [Sessions -> SessionState]
        /\ Reserved(c, "schedule", g, found) \in CallState /\ PlacedCall(Reserved(c, "schedule", g, found))
    BY <2>1, <2>2, <2>3, <2>4, ReserveType, NamesOfCalls
  <2>6. attach' = attach
    BY <2>4
  <2> QED BY <2>4, <2>5, <2>6, SameTasksType, CallStepWithTypes
<1>4. CASE Schedules(c)
  <2> DEFINE t == [Mine(c) EXCEPT !.member = TRUE]
  <2>1. caller[c].gen # 0
    BY <1>1, <1>4 DEF Schedules, On, PlacedCall, Placed
  <2>2. Update(caller[c].gen, t) /\ UNCHANGED <<service, process, attach>>
    BY <1>4 DEF Schedules
  <2>3. \/ Become(c, Moved(c, "look")) /\ UNCHANGED history
        \/ Become(c, Moved(c, "remove")) /\ Drop(c)
    BY <1>4 DEF Schedules, Goto
  <2>4. t \in SessionState
    BY <2>1, MineType DEF SessionState
  <2>5. /\ Moved(c, "look") \in CallState /\ PlacedCall(Moved(c, "look"))
        /\ Moved(c, "remove") \in CallState /\ PlacedCall(Moved(c, "remove"))
    BY <2>1, CallTypes, NamesOfCalls
  <2> HIDE DEF t
  <2>6. CASE Become(c, Moved(c, "look")) /\ UNCHANGED history
    BY <2>2, <2>4, <2>5, <2>6, CallStepType
  <2>7. CASE Become(c, Moved(c, "remove")) /\ Drop(c)
    BY <2>2, <2>4, <2>5, <2>7, CallStepType
  <2> QED BY <2>3, <2>6, <2>7
<1>5. CASE Launches(c)
  <2>1. UNCHANGED <<service, process, session>>
    BY <1>5 DEF Launches
  <2>2. session' \in [Sessions -> SessionState]
    BY <2>1 DEF TypesInv
  <2>3. CASE published = caller[c].gen
    <3>1. Become(c, Moved(c, Afterwards(caller[c].found))) /\ UNCHANGED history
      BY <1>5, <2>3 DEF Launches, Goto
    <3>2. Afterwards(caller[c].found) \in CallPcs /\ Afterwards(caller[c].found) \notin Placed
      BY NamesOfCalls DEF Afterwards, Placed
    <3>3. /\ attach' \in [Sessions -> [Ops -> AttachState]]
          /\ \A h \in Sessions, p \in Ops : attach'[h][p].pc # "unused" => h <= created
      <4>1. CASE caller[c].found = "start"
        <5>1. Spawn(caller[c].gen, caller[c].op, TRUE) /\ caller[c].gen # 0
          BY <1>1, <1>5, <2>3, <4>1 DEF Launches, PlacedCall
        <5> QED BY <5>1, SpawnOfCallType
      <4>2. CASE caller[c].found # "start"
        BY <1>5, <2>3, <4>2, SameTasksType DEF Launches
      <4> QED BY <4>1, <4>2
    <3>4. /\ Moved(c, Afterwards(caller[c].found)) \in CallState
          /\ PlacedCall(Moved(c, Afterwards(caller[c].found)))
      BY <3>2, CallTypes
    <3> QED BY <2>1, <2>2, <3>1, <3>3, <3>4, CallStepWithTypes
  <2>4. CASE published # caller[c].gen
    <3>1. Drop(c) /\ Become(c, [NoCall EXCEPT !.pc = "done"]) /\ attach' = attach
      BY <1>5, <2>4 DEF Launches, Return
    <3> QED BY <2>1, <2>2, <3>1, SameTasksType, CallTypes, CallStepWithTypes
  <2> QED BY <2>3, <2>4
<1>6. CASE Joins(c)
  <2>1. UNCHANGED <<service, process, session, attach, history>>
    BY <1>6 DEF Joins
  <2>2. Become(c, Moved(c, "again")) \/ Become(c, Moved(c, "done"))
    BY <1>6 DEF Joins, Goto
  <2>3. /\ Moved(c, "again") \in CallState /\ PlacedCall(Moved(c, "again"))
        /\ Moved(c, "done") \in CallState /\ PlacedCall(Moved(c, "done"))
    BY CallTypes, NamesOfCalls DEF Placed
  <2> QED BY <2>1, <2>2, <2>3, CallStepType
<1>7. CASE TellsAgain(c)
  <2>1. UNCHANGED <<service, process, attach, history>> /\ Become(c, [NoCall EXCEPT !.pc = "done"])
    BY <1>7 DEF TellsAgain, Return
  <2>2. \/ UNCHANGED session
        \/ Update(caller[c].gen, ReadyAgain(Mine(c)))
    BY <1>7 DEF TellsAgain
  <2>3. caller[c].gen # 0 => ReadyAgain(Mine(c)) \in SessionState
    BY MineType, SessionTypes
  <2> QED BY <2>1, <2>2, <2>3, CallTypes, CallStepType
<1> QED BY <1>2, <1>3, <1>4, <1>5, <1>6, <1>7 DEF Adding

\* A call that begins on the published session, or moves to it.
LEMMA BeginningType ==
    ASSUME TypesInv, NEW call \in CallNames, NEW pc \in CallPcs, published # 0 \/ pc \notin Placed
    PROVE  LET r == [NoCall EXCEPT !.call = call, !.pc = pc, !.gen = published]
           IN  r \in CallState /\ PlacedCall(r)
<1> DEFINE r == [NoCall EXCEPT !.call = call, !.pc = pc, !.gen = published]
<1>1. published \in 0..MaxSessions /\ published <= created
  BY BoundsAssumption DEF TypesInv
<1>2. r \in CallState
  <2>1. 0 \in 0..MaxOps
    BY BoundsAssumption
  <2> QED BY <1>1, <2>1, StateTypes, NamesOfCalls DEF NoCall, CallState, Founds
<1>3. r.gen = published /\ r.pc = pc /\ r.found = "none"
  BY DEF NoCall
<1>4. PlacedCall(r)
  BY <1>1, <1>3 DEF PlacedCall
<1> QED BY <1>2, <1>4

\* ensure_session and retry.
LEMMA ReconcilingTypes ==
    ASSUME TypesInv, NEW c \in Callers, Reconciling(c)
    PROVE  TypesInv'
<1>1. caller[c] \in CallState /\ PlacedCall(caller[c])
  BY CallTypes
<1>2. CASE StartSession(c)
  <2>1. PICK call \in Ensuring : Become(c, [NoCall EXCEPT !.call = call, !.pc = "lead", !.gen = created + 1])
    BY <1>2 DEF StartSession
  <2> DEFINE r == [NoCall EXCEPT !.call = call, !.pc = "lead", !.gen = created + 1]
             h == created + 1
             t == [session[h] EXCEPT !.member = (roster = "in")]
  <2>2. /\ created' = h /\ published' = h /\ Update(h, t) /\ created < MaxSessions
        /\ UNCHANGED <<roster, membership, process, attach, history>>
    BY <1>2 DEF StartSession
  <2>3. h \in Sessions /\ h \in 0..MaxSessions /\ created \in Nat
    BY <2>2, BoundsAssumption DEF TypesInv, Sessions
  <2>4. call \in CallNames
    BY <2>1, NamesOfCalls DEF Ensuring
  <2>5. r \in CallState
    BY <2>3, <2>4, CallTypes, NamesOfCalls
  <2>6. r.gen = h /\ r.pc = "lead" /\ r.found = "none"
    BY DEF NoCall
  <2>7. session[h] \in SessionState
    BY <2>3 DEF TypesInv
  <2>8. t \in SessionState
    BY <2>7 DEF SessionState
  <2> HIDE DEF t
  <2>9. session' \in [Sessions -> SessionState]
    BY <2>2, <2>8, UpdateType DEF TypesInv
  <2> HIDE DEF r
  <2>10. /\ r.gen <= created' /\ (r.pc \in Placed => r.gen # 0)
         /\ r.found = "start" => r.gen # 0 /\ r.op # 0
    BY <2>2, <2>3, <2>6 DEF Placed
  <2>11. /\ created' \in 0..MaxSessions /\ created <= created' /\ published' \in 0..created'
         /\ roster' \in {"in", "new", "out"} /\ membership' \in Callers \cup {Nobody}
         /\ config' = config /\ agent' \in {0, agent}
         /\ dropped' \subseteq Sessions \X Ops /\ unguarded' \in BOOLEAN
    BY <2>2, <2>3 DEF TypesInv, process, history
  <2>12. /\ attach' \in [Sessions -> [Ops -> AttachState]]
         /\ \A k \in Sessions, p \in Ops : attach'[k][p].pc # "unused" => k <= created
    BY <2>2, SameTasksType
  <2>13. Become(c, r)
    BY <2>1 DEF r
  <2> QED BY <2>5, <2>9, <2>10, <2>11, <2>12, <2>13, ServiceStepType
<1>3. CASE LeadAttaches(c) \/ LeadFails(c) \/ Awaits(c)
  <2>1. UNCHANGED <<service, process, session, attach, history>>
    BY <1>3 DEF LeadAttaches, LeadFails, Awaits
  <2>2. \/ Become(c, Moved(c, "stop work")) \/ Become(c, Moved(c, "retry"))
        \/ Become(c, Moved(c, "done"))
    BY <1>3 DEF LeadAttaches, LeadFails, Awaits, AfterEnsure, Goto
  <2>3. /\ Moved(c, "stop work") \in CallState /\ PlacedCall(Moved(c, "stop work"))
        /\ Moved(c, "retry") \in CallState /\ PlacedCall(Moved(c, "retry"))
        /\ Moved(c, "done") \in CallState /\ PlacedCall(Moved(c, "done"))
    BY CallTypes, NamesOfCalls DEF Placed
  <2> QED BY <2>1, <2>2, <2>3, CallStepType
<1>4. CASE Reconcile(c)
  <2>1. PICK call \in Ensuring, pc \in {"await", "repair", "reattach"} :
           Become(c, [NoCall EXCEPT !.call = call, !.pc = pc, !.gen = published])
    BY <1>4 DEF Reconcile, Call, Plan
  <2> DEFINE r == [NoCall EXCEPT !.call = call, !.pc = pc, !.gen = published]
             t == [session[published] EXCEPT !.member = TRUE]
  <2>2. /\ UNCHANGED <<published, created, roster, process, attach, history>>
        /\ membership' \in {Nobody, c} /\ (Update(published, t) \/ UNCHANGED session)
        /\ published # 0
    BY <1>4 DEF Reconcile
  <2>3. call \in CallNames /\ pc \in CallPcs
    BY <2>1, NamesOfCalls DEF Ensuring
  <2>4. r \in CallState /\ PlacedCall(r)
    BY <2>2, <2>3, BeginningType
  <2>5. published \in Sessions
    BY <2>2, BoundsAssumption DEF TypesInv, Sessions
  <2>6. t \in SessionState
    <3>1. session[published] \in SessionState
      BY <2>5 DEF TypesInv
    <3> QED BY <3>1 DEF SessionState
  <2> HIDE DEF t, r
  <2>7. session' \in [Sessions -> SessionState]
    BY <2>2, <2>6, UpdateType DEF TypesInv
  <2>8. /\ r.gen <= created' /\ (r.pc \in Placed => r.gen # 0)
        /\ r.found = "start" => r.gen # 0 /\ r.op # 0
    BY <2>2, <2>4 DEF PlacedCall
  <2>9. /\ created' \in 0..MaxSessions /\ created <= created' /\ published' \in 0..created'
        /\ roster' \in {"in", "new", "out"} /\ membership' \in Callers \cup {Nobody}
        /\ config' = config /\ agent' \in {0, agent}
        /\ dropped' \subseteq Sessions \X Ops /\ unguarded' \in BOOLEAN
    BY <2>2 DEF TypesInv, process, history
  <2>10. /\ attach' \in [Sessions -> [Ops -> AttachState]]
         /\ \A k \in Sessions, p \in Ops : attach'[k][p].pc # "unused" => k <= created
    BY <2>2, SameTasksType
  <2>11. Become(c, r)
    BY <2>1 DEF r
  <2> QED BY <2>4, <2>7, <2>8, <2>9, <2>10, <2>11, ServiceStepType
<1>5. CASE ReservesAgain(c)
  <2> DEFINE g == caller[c].gen
             found == IF On(c, "repair") THEN RepairReservation(session[g])
                      ELSE Reservation(session[g], TRUE)
             pc == IF found = "stopped" THEN "done" ELSE "await"
             r == Reserved(c, pc, g, found)
  <2>1. g # 0
    BY <1>1, <1>5 DEF ReservesAgain, On, PlacedCall, Placed
  <2>2. g \in 0..MaxSessions /\ g <= created /\ session[g] \in SessionState /\ g \in Sessions
    BY <2>1, MineType, StateTypes DEF Mine
  <2>3. found \in Founds
    BY <2>2, FoundTypes
  <2>4. /\ Take(g, found, "attaching") /\ Become(c, r)
        /\ IF found = "start" THEN Spawn(g, session[g].next, FALSE) ELSE UNCHANGED attach
        /\ membership' = Nobody /\ UNCHANGED <<published, created, roster, process, history>>
    BY <1>5 DEF ReservesAgain
  <2>5. pc \in CallPcs
    BY NamesOfCalls
  <2> HIDE DEF found, pc
  <2>6. session' \in [Sessions -> SessionState] /\ r \in CallState /\ PlacedCall(r)
    BY <2>1, <2>2, <2>3, <2>4, <2>5, ReserveType
  <2> HIDE DEF r
  <2>7. /\ attach' \in [Sessions -> [Ops -> AttachState]]
        /\ \A k \in Sessions, p \in Ops : attach'[k][p].pc # "unused" => k <= created
    <3>1. CASE found = "start"
      BY <2>2, <2>4, <3>1, SpawnType DEF Take
    <3>2. CASE found # "start"
      BY <2>4, <3>2, SameTasksType
    <3> QED BY <3>1, <3>2
  <2>8. /\ r.gen <= created' /\ (r.pc \in Placed => r.gen # 0)
        /\ r.found = "start" => r.gen # 0 /\ r.op # 0
    BY <2>4, <2>6 DEF PlacedCall
  <2>9. /\ created' \in 0..MaxSessions /\ created <= created' /\ published' \in 0..created'
        /\ roster' \in {"in", "new", "out"} /\ membership' \in Callers \cup {Nobody}
        /\ config' = config /\ agent' \in {0, agent}
        /\ dropped' \subseteq Sessions \X Ops /\ unguarded' \in BOOLEAN
    BY <2>4 DEF TypesInv, process, history
  <2> QED BY <2>4, <2>6, <2>7, <2>8, <2>9, ServiceStepType
<1>6. CASE Retry(c)
  <2>1. UNCHANGED <<service, process, session, attach, history>>
    BY <1>6 DEF Retry
  <2>2. CASE published # 0 /\ session[published].member
    <3> DEFINE r == [Moved(c, "retry attach") EXCEPT !.gen = published]
    <3>1. Become(c, r)
      BY <1>6, <2>2 DEF Retry
    <3>2. r \in CallState /\ r.gen = published /\ r.op = caller[c].op /\ r.found = caller[c].found
      <4>1. published \in 0..MaxSessions
        BY BoundsAssumption DEF TypesInv
      <4>2. "retry attach" \in CallPcs
        BY NamesOfCalls
      <4> QED BY <1>1, <4>1, <4>2 DEF CallState, Moved
    <3>3. published <= created
      BY BoundsAssumption DEF TypesInv
    <3> HIDE DEF r
    <3>4. PlacedCall(r)
      BY <1>1, <2>2, <3>2, <3>3 DEF PlacedCall
    <3> QED BY <2>1, <3>1, <3>2, <3>4, CallStepType
  <2>3. CASE ~(published # 0 /\ session[published].member)
    <3>1. Become(c, [NoCall EXCEPT !.pc = "done"])
      BY <1>6, <2>3 DEF Retry, Return
    <3> QED BY <2>1, <3>1, CallTypes, CallStepType
  <2> QED BY <2>2, <2>3
<1>7. CASE RetriesAttach(c)
  <2> DEFINE g == caller[c].gen
             found == Reservation(session[g], TRUE)
             pc == Afterwards(found)
             r == Reserved(c, pc, g, found)
  <2>1. g # 0
    BY <1>1, <1>7 DEF RetriesAttach, On, PlacedCall, Placed
  <2>2. g \in 0..MaxSessions /\ g <= created /\ session[g] \in SessionState /\ g \in Sessions
    BY <2>1, MineType, StateTypes DEF Mine
  <2>3. found \in Founds
    BY <2>2, FoundTypes
  <2>4. /\ Take(g, found, "attaching") /\ Become(c, r)
        /\ IF found = "start" THEN Spawn(g, session[g].next, TRUE) ELSE UNCHANGED attach
        /\ UNCHANGED <<service, process, history>>
    BY <1>7 DEF RetriesAttach
  <2>5. pc \in CallPcs
    BY NamesOfCalls DEF Afterwards
  <2> HIDE DEF found, pc
  <2>6. session' \in [Sessions -> SessionState] /\ r \in CallState /\ PlacedCall(r)
    BY <2>1, <2>2, <2>3, <2>4, <2>5, ReserveType
  <2> HIDE DEF r
  <2>7. /\ attach' \in [Sessions -> [Ops -> AttachState]]
        /\ \A k \in Sessions, p \in Ops : attach'[k][p].pc # "unused" => k <= created
    <3>1. CASE found = "start"
      BY <2>2, <2>4, <3>1, SpawnType DEF Take
    <3>2. CASE found # "start"
      BY <2>4, <3>2, SameTasksType
    <3> QED BY <3>1, <3>2
  <2> QED BY <2>4, <2>6, <2>7, CallStepWithTypes
<1> QED BY <1>2, <1>3, <1>4, <1>5, <1>6, <1>7 DEF Reconciling

\* The agent is killed, and the call goes on.
LEMMA KillStepType ==
    ASSUME TypesInv, NEW c \in Callers, NEW r \in CallState, PlacedCall(r), Become(c, r),
           agent' = 0, UNCHANGED <<service, config, session, attach, history>>
    PROVE  TypesInv'
<1>1. /\ r.gen <= created' /\ (r.pc \in Placed => r.gen # 0)
      /\ r.found = "start" => r.gen # 0 /\ r.op # 0
  BY DEF PlacedCall, service
<1>2. /\ created' \in 0..MaxSessions /\ created <= created' /\ published' \in 0..created'
      /\ roster' \in {"in", "new", "out"} /\ membership' \in Callers \cup {Nobody}
      /\ config' = config /\ agent' \in {0, agent} /\ session' \in [Sessions -> SessionState]
  BY BoundsAssumption DEF TypesInv, service
<1>3. dropped' \subseteq Sessions \X Ops /\ unguarded' \in BOOLEAN
  BY DEF TypesInv, history
<1>4. /\ attach' \in [Sessions -> [Ops -> AttachState]]
      /\ \A h \in Sessions, p \in Ops : attach'[h][p].pc # "unused" => h <= created
  BY SameTasksType
<1> QED BY <1>1, <1>2, <1>3, <1>4, ServiceStepType

\* remove_agent.
LEMMA RemovingTypes ==
    ASSUME TypesInv, NEW c \in Callers, Removing(c)
    PROVE  TypesInv'
<1>1. caller[c] \in CallState /\ PlacedCall(caller[c]) /\ caller[c].gen \in 0..MaxSessions
  BY CallTypes DEF CallState
<1>2. /\ [NoCall EXCEPT !.pc = "done"] \in CallState /\ PlacedCall([NoCall EXCEPT !.pc = "done"])
  BY CallTypes
<1>3. CASE Remove(c)
  <2> DEFINE r == [NoCall EXCEPT !.call = "remove", !.pc = "remove", !.gen = published]
  <2>1. Become(c, r) /\ UNCHANGED <<service, process, session, attach, history>>
    BY <1>3 DEF Remove, Call
  <2>2. r \in CallState /\ PlacedCall(r)
    BY BeginningType, NamesOfCalls DEF Placed
  <2> HIDE DEF r
  <2> QED BY <2>1, <2>2, CallStepType
<1>4. CASE BeginsRemoval(c)
  <2>1. CASE roster = "in"
    <3> DEFINE found == Removal(published)
               pc == IF found = "join" THEN "await removal" ELSE "stop loop"
               r == Reserved(c, pc, published, found)
    <3>1. /\ Take(published, found, "removing") /\ Become(c, r)
          /\ unguarded' = (unguarded \/ found = "none")
          /\ UNCHANGED <<service, process, attach, dropped>>
      BY <1>4, <2>1 DEF BeginsRemoval
    <3>2. found \in Founds /\ (found \in {"start", "join"} => published # 0)
      BY DEF Removal, Founds
    <3>3. pc \in CallPcs /\ pc \notin Placed
      BY NamesOfCalls DEF Placed
    <3>4. published \in 0..MaxSessions /\ published <= created
      BY BoundsAssumption DEF TypesInv
    <3> HIDE DEF found, pc
    <3>5. session' \in [Sessions -> SessionState] /\ r \in CallState /\ PlacedCall(r)
      BY <3>1, <3>2, <3>3, <3>4, ReserveType
    <3> HIDE DEF r
    <3>6. /\ r.gen <= created' /\ (r.pc \in Placed => r.gen # 0)
          /\ r.found = "start" => r.gen # 0 /\ r.op # 0
      BY <3>1, <3>5 DEF PlacedCall, service
    <3>7. /\ created' \in 0..MaxSessions /\ created <= created' /\ published' \in 0..created'
          /\ roster' \in {"in", "new", "out"} /\ membership' \in Callers \cup {Nobody}
          /\ config' = config /\ agent' \in {0, agent}
      BY <3>1 DEF TypesInv, service, process
    <3>8. dropped' \subseteq Sessions \X Ops /\ unguarded' \in BOOLEAN
      BY <3>1 DEF TypesInv
    <3>9. /\ attach' \in [Sessions -> [Ops -> AttachState]]
          /\ \A h \in Sessions, p \in Ops : attach'[h][p].pc # "unused" => h <= created
      BY <3>1, SameTasksType
    <3> QED BY <3>1, <3>5, <3>6, <3>7, <3>8, <3>9, ServiceStepType
  <2>2. CASE roster # "in"
    <3>1. /\ Become(c, [NoCall EXCEPT !.pc = "done"]) /\ UNCHANGED <<service, process, attach>>
          /\ UNCHANGED session /\ UNCHANGED history
      BY <1>4, <2>2 DEF BeginsRemoval, Return, history
    <3> QED BY <1>2, <3>1, CallStepType
  <2> QED BY <2>1, <2>2
<1>5. CASE AwaitsRemoval(c)
  <2>1. UNCHANGED <<service, process, session, attach, history>>
    BY <1>5 DEF AwaitsRemoval
  <2>2. Become(c, Moved(c, "stop loop again")) \/ Become(c, [NoCall EXCEPT !.pc = "done"])
    BY <1>5 DEF AwaitsRemoval, Goto, Return
  <2>3. Moved(c, "stop loop again") \in CallState /\ PlacedCall(Moved(c, "stop loop again"))
    BY CallTypes, NamesOfCalls DEF Placed
  <2> QED BY <1>2, <2>1, <2>2, <2>3, CallStepType
<1>6. CASE StopsLoop(c) \/ StopsLoopAgain(c)
  <2>1. /\ Moved(c, "kill") \in CallState /\ PlacedCall(Moved(c, "kill"))
        /\ Moved(c, "kill again") \in CallState /\ PlacedCall(Moved(c, "kill again"))
    BY CallTypes, NamesOfCalls DEF Placed
  <2>2. \/ Become(c, Moved(c, "kill")) \/ Become(c, Moved(c, "kill again"))
    BY <1>6 DEF StopsLoop, StopsLoopAgain, Goto
  <2>3. UNCHANGED <<service, process, attach, history>>
        /\ (UNCHANGED session \/ Update(caller[c].gen, RemoveLoop(Mine(c))))
    BY <1>6 DEF StopsLoop, StopsLoopAgain
  <2>4. caller[c].gen # 0 => RemoveLoop(Mine(c)) \in SessionState
    BY MineType, SessionTypes
  <2> QED BY <2>1, <2>2, <2>3, <2>4, CallStepType
<1>7. CASE KillsAgent(c) \/ KillsAgentAgain(c)
  <2>1. /\ Moved(c, "persist") \in CallState /\ PlacedCall(Moved(c, "persist"))
        /\ Moved(c, "unschedule") \in CallState /\ PlacedCall(Moved(c, "unschedule"))
    BY CallTypes, NamesOfCalls DEF Placed
  <2>2. \/ Become(c, Moved(c, "persist")) \/ Become(c, Moved(c, "unschedule"))
    BY <1>7 DEF KillsAgent, KillsAgentAgain, Goto
  <2>3. agent' = 0 /\ UNCHANGED <<service, config, session, attach, history>>
    BY <1>7 DEF KillsAgent, KillsAgentAgain
  <2> QED BY <2>1, <2>2, <2>3, KillStepType
<1>8. CASE Persists(c)
  <2>1. /\ Moved(c, "find session") \in CallState /\ PlacedCall(Moved(c, "find session"))
        /\ Moved(c, "restore") \in CallState /\ PlacedCall(Moved(c, "restore"))
    BY CallTypes, NamesOfCalls DEF Placed
  <2>2. PICK r \in CallState : PlacedCall(r) /\ Become(c, r)
    BY <1>2, <1>8, <2>1 DEF Persists, Goto, Return
  <2>3. /\ UNCHANGED <<published, created, membership, process, session, attach>>
        /\ roster' \in {roster, "out"} /\ (UNCHANGED history \/ Drop(c))
    BY <1>8 DEF Persists
  <2>4. /\ r.gen <= created' /\ (r.pc \in Placed => r.gen # 0)
        /\ r.found = "start" => r.gen # 0 /\ r.op # 0
    BY <2>2, <2>3 DEF PlacedCall
  <2>5. /\ created' \in 0..MaxSessions /\ created <= created' /\ published' \in 0..created'
        /\ roster' \in {"in", "new", "out"} /\ membership' \in Callers \cup {Nobody}
        /\ config' = config /\ agent' \in {0, agent} /\ session' \in [Sessions -> SessionState]
    BY <2>3 DEF TypesInv, process
  <2>6. dropped' \subseteq Sessions \X Ops /\ unguarded' \in BOOLEAN
    BY <2>3, LetGoType DEF history, Drop, TypesInv
  <2>7. /\ attach' \in [Sessions -> [Ops -> AttachState]]
        /\ \A h \in Sessions, p \in Ops : attach'[h][p].pc # "unused" => h <= created
    BY <2>3, SameTasksType
  <2> QED BY <2>2, <2>4, <2>5, <2>6, <2>7, ServiceStepType
<1>9. CASE Restores(c)
  <2> DEFINE t == End(Mine(c), caller[c].op, State("failed", caller[c].op), "failed")
  <2>1. UNCHANGED <<service, process, attach, history>> /\ Become(c, [NoCall EXCEPT !.pc = "done"])
    BY <1>9 DEF Restores, Return
  <2>2. CASE caller[c].found = "start" /\ Owns(Mine(c), "removing", caller[c].op)
    <3>1. Update(caller[c].gen, t)
      BY <1>9, <2>2 DEF Restores
    <3>2. caller[c].op \in Ops /\ State("failed", caller[c].op) \in Entry
      BY <1>1, <2>2, BoundsAssumption, StateTypes DEF PlacedCall, CallState, Ops, EntryKinds
    <3>3. t \in SessionState
      BY <1>1, <2>2, <3>2, MineType, SessionTypes DEF PlacedCall, Answers
    <3> HIDE DEF t
    <3> QED BY <1>2, <2>1, <3>1, <3>3, CallStepType
  <2>3. CASE ~(caller[c].found = "start" /\ Owns(Mine(c), "removing", caller[c].op))
    <3>1. UNCHANGED session
      BY <1>9, <2>3 DEF Restores
    <3> QED BY <1>2, <2>1, <3>1, CallStepType
  <2> QED BY <2>2, <2>3
<1>10. CASE FindsSession(c)
  <2>1. UNCHANGED <<service, process, attach>>
    BY <1>10 DEF FindsSession
  <2>2. CASE published = 0 /\ Return(c) /\ Drop(c) /\ UNCHANGED session
    BY <1>2, <2>1, <2>2, CallStepType DEF Return
  <2>3. CASE Goto(c, "stop loop again") /\ UNCHANGED <<session, history>>
    <3>1. Moved(c, "stop loop again") \in CallState /\ PlacedCall(Moved(c, "stop loop again"))
      BY CallTypes, NamesOfCalls DEF Placed
    <3>2. UNCHANGED session /\ UNCHANGED history
      BY <2>3
    <3> QED BY <2>1, <2>3, <3>1, <3>2, CallStepType DEF Goto
  <2>4. CASE /\ published \notin {0, caller[c].gen}
             /\ LET found == Removal(published)
                IN  /\ Take(published, found, "removing")
                    /\ Become(c, Reserved(c, IF found = "join" THEN "await other"
                                             ELSE "stop loop again", published, found))
                    /\ LetGo(c)
                    /\ unguarded' = (unguarded \/ found = "none")
    <3> DEFINE found == Removal(published)
               pc == IF found = "join" THEN "await other" ELSE "stop loop again"
               r == Reserved(c, pc, published, found)
    <3>1. /\ Take(published, found, "removing") /\ Become(c, r) /\ LetGo(c) /\ published # 0
          /\ unguarded' = (unguarded \/ found = "none")
      BY <2>4
    <3>2. found \in Founds
      BY DEF Removal, Founds
    <3>3. pc \in CallPcs
      BY NamesOfCalls
    <3>4. published \in 0..MaxSessions /\ published <= created
      BY BoundsAssumption DEF TypesInv
    <3> HIDE DEF found, pc
    <3>5. session' \in [Sessions -> SessionState] /\ r \in CallState /\ PlacedCall(r)
      BY <3>1, <3>2, <3>3, <3>4, ReserveType
    <3> HIDE DEF r
    <3>6. /\ r.gen <= created' /\ (r.pc \in Placed => r.gen # 0)
          /\ r.found = "start" => r.gen # 0 /\ r.op # 0
      BY <2>1, <3>5 DEF PlacedCall, service
    <3>7. /\ created' \in 0..MaxSessions /\ created <= created' /\ published' \in 0..created'
          /\ roster' \in {"in", "new", "out"} /\ membership' \in Callers \cup {Nobody}
          /\ config' = config /\ agent' \in {0, agent}
      BY <2>1 DEF TypesInv, service, process
    <3>8. dropped' \subseteq Sessions \X Ops /\ unguarded' \in BOOLEAN
      BY <3>1, LetGoType DEF TypesInv
    <3>9. /\ attach' \in [Sessions -> [Ops -> AttachState]]
          /\ \A h \in Sessions, p \in Ops : attach'[h][p].pc # "unused" => h <= created
      BY <2>1, SameTasksType
    <3> QED BY <3>1, <3>5, <3>6, <3>7, <3>8, <3>9, ServiceStepType
  <2> QED BY <1>10, <2>2, <2>3, <2>4 DEF FindsSession
<1>11. CASE Unschedules(c)
  <2> DEFINE t == [Mine(c) EXCEPT !.member = FALSE]
  <2>1. Become(c, Moved(c, "finish")) /\ Update(caller[c].gen, t)
        /\ UNCHANGED <<service, process, attach, history>>
    BY <1>11 DEF Unschedules, Goto
  <2>2. Moved(c, "finish") \in CallState /\ PlacedCall(Moved(c, "finish"))
    BY CallTypes, NamesOfCalls DEF Placed
  <2>3. caller[c].gen # 0 => t \in SessionState
    BY MineType DEF SessionState
  <2> HIDE DEF t
  <2> QED BY <2>1, <2>2, <2>3, CallStepType
<1>12. CASE FinishesRemoval(c)
  <2> DEFINE t == End(Mine(c), caller[c].op, Absent, "removed")
  <2>1. UNCHANGED <<service, process, attach, history>> /\ Become(c, [NoCall EXCEPT !.pc = "done"])
    BY <1>12 DEF FinishesRemoval, Return
  <2>2. CASE caller[c].found = "start" /\ Owns(Mine(c), "removing", caller[c].op)
    <3>1. Update(caller[c].gen, t)
      BY <1>12, <2>2 DEF FinishesRemoval
    <3>2. caller[c].op \in Ops
      BY <1>1, <2>2, BoundsAssumption DEF PlacedCall, CallState, Ops
    <3>3. t \in SessionState
      BY <1>1, <2>2, <3>2, MineType, SessionTypes, StateTypes DEF PlacedCall, Answers
    <3> HIDE DEF t
    <3> QED BY <1>2, <2>1, <3>1, <3>3, CallStepType
  <2>3. CASE ~(caller[c].found = "start" /\ Owns(Mine(c), "removing", caller[c].op))
    <3>1. UNCHANGED session
      BY <1>12, <2>3 DEF FinishesRemoval
    <3> QED BY <1>2, <2>1, <3>1, CallStepType
  <2> QED BY <2>2, <2>3
<1> QED BY <1>3, <1>4, <1>5, <1>6, <1>7, <1>8, <1>9, <1>10, <1>11, <1>12 DEF Removing

\* Stopping a session.
LEMMA StoppingTypes ==
    ASSUME TypesInv, CallsInv, NEW c \in Callers, Stopping(c)
    PROVE  TypesInv'
<1>1. /\ [NoCall EXCEPT !.pc = "done"] \in CallState /\ PlacedCall([NoCall EXCEPT !.pc = "done"])
  BY CallTypes
<1>2. ASSUME NEW r \in CallState, PlacedCall(r), Become(c, r), published' = 0,
             UNCHANGED <<created, roster, membership, process, session, attach, history>>
      PROVE  TypesInv'
  <2>1. /\ r.gen <= created' /\ (r.pc \in Placed => r.gen # 0)
        /\ r.found = "start" => r.gen # 0 /\ r.op # 0
    BY <1>2 DEF PlacedCall
  <2>2. /\ created' \in 0..MaxSessions /\ created <= created' /\ published' \in 0..created'
        /\ roster' \in {"in", "new", "out"} /\ membership' \in Callers \cup {Nobody}
        /\ config' = config /\ agent' \in {0, agent} /\ session' \in [Sessions -> SessionState]
        /\ dropped' \subseteq Sessions \X Ops /\ unguarded' \in BOOLEAN
    BY <1>2, BoundsAssumption DEF TypesInv, process, history
  <2>3. /\ attach' \in [Sessions -> [Ops -> AttachState]]
        /\ \A h \in Sessions, p \in Ops : attach'[h][p].pc # "unused" => h <= created
    BY <1>2, SameTasksType
  <2> QED BY <1>2, <2>1, <2>2, <2>3, ServiceStepType
<1>3. CASE Stop(c)
  <2>1. PICK call \in {"stop", "idle"} : Become(c, [NoCall EXCEPT !.call = call, !.pc = "stop work", !.gen = published])
    BY <1>3 DEF Stop, Call
  <2> DEFINE r == [NoCall EXCEPT !.call = call, !.pc = "stop work", !.gen = published]
  <2>2. call \in CallNames
    BY NamesOfCalls
  <2>3. r \in CallState /\ PlacedCall(r)
    BY <2>2, BeginningType, NamesOfCalls DEF Placed
  <2> HIDE DEF r
  <2> QED BY <1>2, <1>3, <2>1, <2>3 DEF Stop, r
<1>4. CASE StopsWork(c)
  <2>1. Become(c, Moved(c, "stop registry")) /\ Update(caller[c].gen, StopWork(Mine(c)))
        /\ UNCHANGED <<service, process, attach, history>>
    BY <1>4 DEF StopsWork, Goto
  <2>2. Moved(c, "stop registry") \in CallState /\ PlacedCall(Moved(c, "stop registry"))
    BY CallTypes, NamesOfCalls DEF Placed
  <2>3. caller[c].gen # 0 => StopWork(Mine(c)) \in SessionState
    BY MineType, SessionTypes
  <2> QED BY <2>1, <2>2, <2>3, CallStepType
<1>5. CASE StopsRegistry(c)
  <2>1. Become(c, Moved(c, "stop loops")) /\ Update(caller[c].gen, StopEntries(Mine(c)))
        /\ UNCHANGED <<service, process, attach, history>>
    BY <1>5 DEF StopsRegistry, Goto
  <2>2. Moved(c, "stop loops") \in CallState /\ PlacedCall(Moved(c, "stop loops"))
    BY CallTypes, NamesOfCalls DEF Placed
  <2>3. caller[c].gen # 0 => StopEntries(Mine(c)) \in SessionState
    BY MineType, SessionTypes
  <2> QED BY <2>1, <2>2, <2>3, CallStepType
<1>6. CASE StopsLoops(c)
  <2> DEFINE left == RemoveLoop(Mine(c))
             t    == [left EXCEPT !.closed = TRUE]
             pc   == CASE caller[c].call = "stop" -> "done"
                       [] caller[c].call = "idle" -> "kill idle"
                       [] caller[c].call \in Ensuring -> "unpublish"
  <2>1. Become(c, Moved(c, pc)) /\ Update(caller[c].gen, t)
        /\ UNCHANGED <<service, process, attach, history>>
    BY <1>6 DEF StopsLoops, Goto
  <2>2. pc \in CallPcs /\ pc \notin Placed
    <3>1. On(c, "stop loops")
      BY <1>6 DEF StopsLoops
    <3>2. caller[c].call \in Ensuring \cup {"stop", "idle"}
      BY <3>1 DEF CallsInv, Fits, Passes, On
    <3> QED BY <3>2, NamesOfCalls DEF Placed
  <2>3. caller[c].gen # 0 => left \in SessionState
    BY MineType, SessionTypes
  <2> HIDE DEF left, pc
  <2>4. caller[c].gen # 0 => t \in SessionState
    BY <2>3 DEF SessionState
  <2> HIDE DEF t
  <2>5. Moved(c, pc) \in CallState /\ PlacedCall(Moved(c, pc))
    BY <2>2, CallTypes
  <2> QED BY <2>1, <2>4, <2>5, CallStepType
<1>7. CASE KillsIdle(c)
  <2>1. agent' = 0 /\ UNCHANGED <<service, config, session, attach, history>>
        /\ Become(c, [NoCall EXCEPT !.pc = "done"])
    BY <1>7 DEF KillsIdle, Return
  <2> QED BY <1>1, <2>1, KillStepType
<1>8. CASE Unpublishes(c)
  BY <1>1, <1>2, <1>8 DEF Unpublishes, Return
<1> QED BY <1>3, <1>4, <1>5, <1>6, <1>7, <1>8 DEF Stopping

\* The initial state.
LEMMA InitTypes ==
    ASSUME Init
    PROVE  TypesInv /\ CallsInv
<1>1. /\ 0 \in 0..MaxOps /\ 0 \in 0..MaxSessions /\ created \in 0..MaxSessions
      /\ published \in 0..created /\ created \in Nat /\ 0 \in 0..created
  BY BoundsAssumption DEF Init
<1>2. \A member \in BOOLEAN : Fresh(member) \in SessionState
  <2>1. [o \in Ops |-> "unused"] \in [Ops -> Answers]
    BY DEF Answers
  <2> QED BY <2>1, StateTypes DEF Fresh, SessionState
<1>3. NoAttach \in AttachState /\ NoAttach.pc = "unused"
  BY DEF NoAttach, AttachState, AttachPcs
<1>4. NoCall \in CallState
  BY <1>1, StateTypes, NamesOfCalls DEF NoCall, CallState, Founds
<1>5. PlacedCall(NoCall) /\ Fits(NoCall)
  BY <1>1 DEF NoCall, PlacedCall, Placed, Fits, Passes
<1>6. session \in [Sessions -> SessionState]
  BY <1>2 DEF Init
<1>7. attach \in [Sessions -> [Ops -> AttachState]]
      /\ \A g \in Sessions, o \in Ops : attach[g][o].pc = "unused"
  BY <1>3 DEF Init
<1>8. caller \in [Callers -> CallState] /\ \A c \in Callers : caller[c] = NoCall
  BY <1>4 DEF Init
<1> QED BY <1>1, <1>5, <1>6, <1>7, <1>8 DEF Init, TypesInv, CallsInv

\* Where any call may come, and what follows what.
LEMMA Passages ==
    ASSUME NEW call
    PROVE  /\ Passes(call, "join") /\ Passes(call, "again") /\ Passes(call, "remove")
           /\ Passes(call, "await removal") /\ Passes(call, "await other") /\ Passes(call, "stop loop")
           /\ Passes(call, "kill") /\ Passes(call, "persist") /\ Passes(call, "restore")
           /\ Passes(call, "find session") /\ Passes(call, "stop loop again")
           /\ Passes(call, "kill again") /\ Passes(call, "unschedule") /\ Passes(call, "finish")
           /\ Passes(call, "kill idle") /\ Passes(call, "done")
           /\ Passes(call, "lazy") => call = "deliver"
           /\ Passes(call, "reserve") => call = "deliver"
           /\ Passes(call, "spawn") => call = "deliver"
           /\ call = "deliver" => /\ Passes(call, "lazy") /\ Passes(call, "reserve")
                                 /\ Passes(call, "spawn") /\ Passes(call, "look")
           /\ Passes(call, "introduce") => call = "add"
           /\ Passes(call, "schedule") => call = "add"
           /\ call = "add" => /\ Passes(call, "introduce") /\ Passes(call, "schedule")
                             /\ Passes(call, "look") /\ Passes(call, "launch")
           /\ Passes(call, "look") => Passes(call, "tell")
           /\ Passes(call, "tell") => Passes(call, "enqueue")
           /\ Passes(call, "enqueue") => Passes(call, "wake")
           /\ Passes(call, "lead") => call \in Ensuring
           /\ Passes(call, "repair") => call \in Ensuring
           /\ Passes(call, "reattach") => call \in Ensuring
           /\ Passes(call, "await") => call \in Ensuring
           /\ Passes(call, "retry") => call \in Ensuring
           /\ Passes(call, "unpublish") => call \in Ensuring
           /\ call \in Ensuring =>
                 /\ Passes(call, "lead") /\ Passes(call, "repair") /\ Passes(call, "reattach")
                 /\ Passes(call, "await") /\ Passes(call, "retry") /\ Passes(call, "retry attach")
                 /\ Passes(call, "unpublish") /\ Passes(call, "stop work")
           /\ call \in {"stop", "idle"} => Passes(call, "stop work")
           /\ Passes(call, "stop work") => Passes(call, "stop registry")
           /\ Passes(call, "stop registry") => Passes(call, "stop loops")
           /\ Passes(call, "stop loops") => call \in Ensuring \cup {"stop", "idle"}
  BY DEF Passes, Ensuring

\* A call stays where calls of its kind come.
LEMMA CallStepFits ==
    ASSUME TypesInv, CallsInv, NEW c \in Callers, Acts(c)
    PROVE  CallsInv'
<1> DEFINE end  == [NoCall EXCEPT !.pc = "done"]
           call == caller[c].call
           Moves == \E r : Become(c, r) /\ Fits(r)
<1>1. caller[c] \in CallState /\ Passes(call, caller[c].pc)
  BY DEF TypesInv, CallsInv, Fits
<1>2. \A pc, g, found : Passes(call, pc) /\ (pc = "spawn" => found = "start") =>
                           Fits(Reserved(c, pc, g, found))
  BY <1>1 DEF CallState, Reserved, Fits
<1>3. \A pc : Passes(call, pc) /\ pc # "spawn" => Fits(Moved(c, pc))
  BY <1>1 DEF CallState, Moved, Fits
<1>4. \A name, pc, g : Passes(name, pc) /\ pc # "spawn" =>
                          Fits([NoCall EXCEPT !.call = name, !.pc = pc, !.gen = g])
  BY DEF NoCall, Fits
<1>5. Fits(end)
  BY Passages DEF NoCall, Fits
<1>6. \A pc : On(c, pc) => Passes(call, pc)
  BY <1>1 DEF On
<1> HIDE DEF end, call
<1>7. ASSUME Delivering(c) PROVE Moves
  <2>1. CASE Deliver(c)
    <3>1. Become(c, [NoCall EXCEPT !.call = "deliver", !.pc = "lazy", !.gen = published])
      BY <2>1 DEF Deliver, Call
    <3> QED BY <1>4, <3>1, Passages
  <2>2. CASE LooksForLoop(c)
    BY <1>3, <1>6, <2>2, Passages DEF LooksForLoop, Goto
  <2>3. CASE ReservesLazily(c)
    BY <1>2, <1>6, <2>3, Passages DEF ReservesLazily
  <2>4. CASE SpawnsLazily(c)
    BY <1>3, <1>5, <1>6, <2>4, Passages DEF SpawnsLazily, Goto, Return, end
  <2>5. CASE Looks(c)
    <3> DEFINE r == [Moved(c, "tell") EXCEPT !.seen = Snapshot(Mine(c))]
    <3>1. Become(c, r) /\ Passes(call, "tell")
      BY <1>6, <2>5, Passages DEF Looks
    <3>2. r.pc = "tell" /\ r.call = call
      BY <1>1 DEF CallState, Moved, call
    <3> HIDE DEF r
    <3> QED BY <3>1, <3>2 DEF Fits
  <2>6. CASE Tells(c)
    BY <1>3, <1>6, <2>6, Passages DEF Tells, Goto
  <2>7. CASE Enqueues(c)
    BY <1>3, <1>6, <2>7, Passages DEF Enqueues, Goto
  <2>8. CASE EnqueueFails(c)
    BY <1>5, <2>8 DEF EnqueueFails, Return, end
  <2>9. CASE Wakes(c)
    BY <1>3, <2>9, Passages DEF Wakes, Goto, call
  <2> QED BY <1>7, <2>1, <2>2, <2>3, <2>4, <2>5, <2>6, <2>7, <2>8, <2>9 DEF Delivering
<1>8. ASSUME Adding(c) PROVE Moves
  <2>1. CASE Add(c)
    <3>1. Become(c, [NoCall EXCEPT !.call = "add", !.pc = "introduce", !.gen = published])
      BY <2>1 DEF Add, Call
    <3> QED BY <1>4, <3>1, Passages
  <2>2. CASE Introduces(c)
    BY <1>2, <1>6, <2>2, Passages DEF Introduces
  <2>3. CASE Schedules(c)
    BY <1>3, <1>6, <2>3, Passages DEF Schedules, Goto
  <2>4. CASE Launches(c)
    BY <1>3, <1>5, <2>4, Passages DEF Launches, Afterwards, Goto, Return, end
  <2>5. CASE Joins(c)
    BY <1>3, <2>5, Passages DEF Joins, Goto
  <2>6. CASE TellsAgain(c)
    BY <1>5, <2>6 DEF TellsAgain, Return, end
  <2> QED BY <1>8, <2>1, <2>2, <2>3, <2>4, <2>5, <2>6 DEF Adding
<1>9. ASSUME Reconciling(c) PROVE Moves
  <2>1. CASE StartSession(c)
    <3>1. PICK name \in Ensuring :
             Become(c, [NoCall EXCEPT !.call = name, !.pc = "lead", !.gen = created + 1])
      BY <2>1 DEF StartSession
    <3> QED BY <1>4, <3>1, Passages
  <2>2. CASE LeadAttaches(c) \/ LeadFails(c)
    BY <1>3, <1>6, <2>2, Passages DEF LeadAttaches, LeadFails, AfterEnsure, Goto
  <2>3. CASE Awaits(c)
    BY <1>3, <1>6, <2>3, Passages DEF Awaits, AfterEnsure, Goto
  <2>4. CASE Reconcile(c)
    <3>1. PICK name \in Ensuring, pc \in {"await", "repair", "reattach"} :
             Become(c, [NoCall EXCEPT !.call = name, !.pc = pc, !.gen = published])
      BY <2>4 DEF Reconcile, Call, Plan
    <3>2. Passes(name, pc) /\ pc # "spawn"
      BY Passages
    <3> QED BY <1>4, <3>1, <3>2
  <2>5. CASE ReservesAgain(c)
    BY <1>2, <1>6, <2>5, Passages DEF ReservesAgain
  <2>6. CASE Retry(c)
    <3> DEFINE r == [Moved(c, "retry attach") EXCEPT !.gen = published]
    <3>1. (Become(c, r) \/ Become(c, end)) /\ Passes(call, "retry")
      BY <1>6, <2>6 DEF Retry, Return, end
    <3>2. r.pc = "retry attach" /\ r.call = call
      BY <1>1 DEF CallState, Moved, call
    <3> HIDE DEF r
    <3>3. Fits(r)
      BY <3>1, <3>2, Passages DEF Fits
    <3> QED BY <1>5, <3>1, <3>3
  <2>7. CASE RetriesAttach(c)
    BY <1>2, <2>7, Passages DEF RetriesAttach, Afterwards
  <2> QED BY <1>9, <2>1, <2>2, <2>3, <2>4, <2>5, <2>6, <2>7 DEF Reconciling
<1>10. ASSUME Removing(c) PROVE Moves
  <2>1. CASE Remove(c)
    <3>1. Become(c, [NoCall EXCEPT !.call = "remove", !.pc = "remove", !.gen = published])
      BY <2>1 DEF Remove, Call
    <3> QED BY <1>4, <3>1, Passages
  <2>2. CASE BeginsRemoval(c)
    BY <1>2, <1>5, <2>2, Passages DEF BeginsRemoval, Return, end
  <2>3. CASE FindsSession(c)
    BY <1>2, <1>3, <1>5, <2>3, Passages DEF FindsSession, Goto, Return, end
  <2>4. CASE AwaitsRemoval(c) \/ StopsLoop(c) \/ KillsAgent(c)
    BY <1>3, <1>5, <2>4, Passages DEF AwaitsRemoval, StopsLoop, KillsAgent, Goto, Return, end
  <2>5. CASE Persists(c) \/ Restores(c)
    BY <1>3, <1>5, <2>5, Passages DEF Persists, Restores, Goto, Return, end
  <2>6. CASE StopsLoopAgain(c) \/ KillsAgentAgain(c)
    BY <1>3, <2>6, Passages DEF StopsLoopAgain, KillsAgentAgain, Goto
  <2>7. CASE Unschedules(c) \/ FinishesRemoval(c)
    BY <1>3, <1>5, <2>7, Passages DEF Unschedules, FinishesRemoval, Goto, Return, end
  <2> QED BY <1>10, <2>1, <2>2, <2>3, <2>4, <2>5, <2>6, <2>7 DEF Removing
<1>11. ASSUME Stopping(c) PROVE Moves
  <2>1. CASE Stop(c)
    <3>1. PICK name \in {"stop", "idle"} :
             Become(c, [NoCall EXCEPT !.call = name, !.pc = "stop work", !.gen = published])
      BY <2>1 DEF Stop, Call
    <3> QED BY <1>4, <3>1, Passages
  <2>2. CASE StopsWork(c) \/ StopsRegistry(c)
    BY <1>3, <1>6, <2>2, Passages DEF StopsWork, StopsRegistry, Goto
  <2>3. CASE StopsLoops(c)
    <3>1. call \in Ensuring \cup {"stop", "idle"}
      BY <1>6, <2>3, Passages DEF StopsLoops
    <3> QED BY <1>3, <2>3, <3>1, Passages DEF StopsLoops, Goto, call
  <2>4. CASE KillsIdle(c) \/ Unpublishes(c)
    BY <1>5, <2>4 DEF KillsIdle, Unpublishes, Return, end
  <2> QED BY <1>11, <2>1, <2>2, <2>3, <2>4 DEF Stopping
<1>12. PICK r : Become(c, r) /\ Fits(r)
  BY <1>7, <1>8, <1>9, <1>10, <1>11 DEF Acts
<1>13. \A d \in Callers : Fits(caller'[d])
  BY <1>12 DEF Become, CallsInv, TypesInv
<1> QED BY <1>13 DEF CallsInv, Fits

\* Every step.
LEMMA NextTypes ==
    ASSUME TypesInv, CallsInv, [Next]_vars
    PROVE  TypesInv' /\ CallsInv'
<1>1. CASE \E g \in Sessions, o \in Ops : Attach(g, o)
  <2>1. PICK g \in Sessions, o \in Ops : Attach(g, o)
    BY <1>1
  <2>2. caller' = caller
    BY <2>1 DEF Attach, StartAttach, WriteConfig, KillOldAgent, WarmUp, CleanUpFailed, CommitFailed,
           ConstrainFailed, CheckOwner, RegisterLoop, CleanUpUnregistered, FailUnregistered, CommitReady,
           ConstrainReady, NotifyReady, PublishReady, Deregister, CleanUpStale, EndAttach, NotifyAgain
  <2> QED BY <2>1, <2>2, AttachTypes DEF CallsInv
<1>2. CASE \E g \in Sessions : Loop(g)
  <2>1. PICK g \in Sessions : Loop(g)
    BY <1>2
  <2>2. caller' = caller
    BY <2>1 DEF Loop, LoopLooks, LoopClaims, AbortedLoopTells
  <2> QED BY <2>1, <2>2, LoopTypes DEF CallsInv
<1>3. ASSUME NEW c \in Callers, Acts(c) PROVE TypesInv' /\ CallsInv'
  BY <1>3, DeliveringTypes, AddingTypes, ReconcilingTypes, RemovingTypes, StoppingTypes, CallStepFits
     DEF Acts
<1>4. CASE AgentDies
  <2>1. /\ agent' = 0
        /\ UNCHANGED <<published, created, roster, membership, config, session, attach, caller, dropped,
                       unguarded>>
    BY <1>4 DEF AgentDies, service, history
  <2>2. agent' \in 0..created
    BY <2>1, BoundsAssumption DEF TypesInv
  <2> QED BY <2>1, <2>2 DEF TypesInv, CallsInv, PlacedCall
<1>5. CASE UNCHANGED vars
  <2>1. UNCHANGED <<published, created, roster, membership, config, agent, session, attach, caller, dropped,
                    unguarded>>
    BY <1>5 DEF vars, service, process, history
  <2> QED BY <2>1 DEF TypesInv, CallsInv, PlacedCall
<1> QED BY <1>1, <1>2, <1>3, <1>4, <1>5 DEF Next

(***************************************************************************)
(* Who owns the entry.                                                     *)
(***************************************************************************)

\* Where an attach task has its operation yet to end.
HoldingPcs ==
    {"start", "config", "kill", "build", "failed", "fail", "check", "register",
     "unregistered", "unregister", "commit"}

\* Where a call has an attach to spawn, or a removal to finish.
AttachingAt(call, pc) ==
    \/ call = "deliver" /\ pc = "spawn"
    \/ call = "add" /\ pc \in {"schedule", "look", "tell", "enqueue", "wake", "launch"}

RemovingAt(pc) ==
    pc \in {"stop loop", "kill", "persist", "restore", "find session",
            "stop loop again", "kill again", "unschedule", "finish"}

Attaches(r, g, o) ==
    r.found = "start" /\ r.gen = g /\ r.op = o /\ AttachingAt(r.call, r.pc)

Removes(r, g, o) ==
    r.found = "start" /\ r.gen = g /\ r.op = o /\ RemovingAt(r.pc)

Attaching(o) == State("attaching", o)
BeingRemoved(o) == State("removing", o)

\* A stopped registry holds nothing; operations that have an owner have been begun;
\* an operation that a call is to spawn has no task yet, and only that call; and an
\* operation that holds the entry and was not dropped has an owner.
StoppedHoldsNothing == \A g \in Sessions : session[g].stopped => session[g].entry = Absent

TasksBegun == \A g \in Sessions, o \in Ops : attach[g][o].pc # "unused" => o < session[g].next

CallsBegun ==
    \A c \in Callers, g \in Sessions, o \in Ops :
       Attaches(caller[c], g, o) => o < session[g].next

OneSpawner ==
    \A c \in Callers, g \in Sessions, o \in Ops :
       Attaches(caller[c], g, o) =>
          /\ attach[g][o].pc = "unused"
          /\ \A d \in Callers : Attaches(caller[d], g, o) => d = c

Owned ==
    \A g \in Sessions, o \in Ops : <<g, o>> \notin dropped =>
       /\ session[g].entry = Attaching(o) =>
             \/ attach[g][o].pc \in HoldingPcs
             \/ \E c \in Callers : Attaches(caller[c], g, o)
       /\ session[g].entry = BeingRemoved(o) => \E c \in Callers : Removes(caller[c], g, o)

OwnInv == StoppedHoldsNothing /\ TasksBegun /\ CallsBegun /\ OneSpawner /\ Owned

\* The step t of a session s leaves the registry alone, or ends what holds the entry.
SameRegistry(s, t) == t.entry = s.entry /\ t.next = s.next /\ t.stopped = s.stopped
Settled(s, t) ==
    /\ t.next = s.next
    /\ t.stopped => t.entry = Absent
    /\ \A o \in Ops : t.entry # Attaching(o) /\ t.entry # BeingRemoved(o)
Settles(s, t) == SameRegistry(s, t) \/ Settled(s, t)

\* What leaves the registry alone, and what settles it.
LEMMA SettledStates ==
    ASSUME NEW s \in SessionState
    PROVE  /\ \A k, b : SameRegistry(s, Constrain(s, k, b))
           /\ SameRegistry(s, StopWork(s)) /\ SameRegistry(s, SpawnLoop(s))
           /\ SameRegistry(s, RemoveLoop(s)) /\ SameRegistry(s, Notify(s))
           /\ SameRegistry(s, ReadyAgain(s)) /\ SameRegistry(s, s)
           /\ (s.stopped => s.entry = Absent) => Settled(s, StopEntries(s))
           /\ \A kind \in {"attaching", "removing"} : \A o, k, answer :
                 Owns(s, kind, o) /\ k.kind \notin {"attaching", "removing"} =>
                    Settled(s, End(s, o, k, answer))
<1>1. \A k, b : SameRegistry(s, Constrain(s, k, b))
  BY DEF SameRegistry, Constrain, SessionState
<1>2. SameRegistry(s, StopWork(s)) /\ SameRegistry(s, SpawnLoop(s)) /\ SameRegistry(s, RemoveLoop(s))
      /\ SameRegistry(s, Notify(s)) /\ SameRegistry(s, s)
  BY DEF SameRegistry, SessionState, StopWork, SpawnLoop, RemoveLoop, Notify
<1>3. SameRegistry(s, ReadyAgain(s))
  BY DEF SameRegistry, SessionState, ReadyAgain, Notify, Constrain
<1>4. \A o : Absent # Attaching(o) /\ Absent # BeingRemoved(o)
  BY StateFacts DEF Absent, Attaching, BeingRemoved
<1>5. ASSUME s.stopped => s.entry = Absent PROVE Settled(s, StopEntries(s))
  <2>1. CASE s.stopped
    BY <1>4, <1>5, <2>1 DEF Settled, StopEntries
  <2>2. CASE ~s.stopped
    <3>1. StopEntries(s).entry = Absent /\ StopEntries(s).next = s.next
      BY <2>2 DEF StopEntries, SessionState
    <3> QED BY <1>4, <3>1 DEF Settled
  <2> QED BY <2>1, <2>2
<1>6. ASSUME NEW kind \in {"attaching", "removing"}, NEW o, NEW k, NEW answer,
             Owns(s, kind, o), k.kind \notin {"attaching", "removing"}
      PROVE  Settled(s, End(s, o, k, answer))
  <2>1. /\ End(s, o, k, answer).entry = k /\ End(s, o, k, answer).next = s.next
        /\ End(s, o, k, answer).stopped = s.stopped
    BY DEF End, SessionState
  <2>2. \A p : k # Attaching(p) /\ k # BeingRemoved(p)
    BY <1>6, StateFacts DEF Attaching, BeingRemoved
  <2> QED BY <1>6, <2>1, <2>2 DEF Settled, Owns
<1> QED BY <1>1, <1>2, <1>3, <1>5, <1>6

\* One session changes, and its registry is left alone or settled.
LEMMA UpdateSettles ==
    ASSUME TypesInv, NEW g, NEW t, Update(g, t), g \in Sessions => Settles(session[g], t)
    PROVE  \A h \in Sessions : Settles(session[h], session'[h])
<1>1. \A h \in Sessions : session'[h] = IF h = g THEN t ELSE session[h]
  BY DEF TypesInv, Update
<1> QED BY <1>1 DEF Settles, SameRegistry

\* A step that leaves the sessions alone settles nothing.
LEMMA SameSettles ==
    ASSUME session' = session
    PROVE  \A h \in Sessions : Settles(session[h], session'[h])
  BY DEF Settles, SameRegistry

\* A task that loses an operation leaves it ended or replaced.
LEMMA TaskKeepsOwn ==
    ASSUME TypesInv, OwnInv, NEW g \in Sessions, NEW o \in Ops, NEW r \in AttachState,
           attach[g][o].pc # "unused", r.pc # "unused",
           attach' = [attach EXCEPT ![g][o] = r], caller' = caller, dropped' = dropped,
           \A h \in Sessions : Settles(session[h], session'[h]),
           attach[g][o].pc \in HoldingPcs =>
              r.pc \in HoldingPcs \/ session'[g].entry # Attaching(o)
    PROVE  OwnInv'
<1>1. \A h \in Sessions, p \in Ops :
         attach'[h][p] = IF h = g /\ p = o THEN r ELSE attach[h][p]
  BY DEF TypesInv
<1>2. \A h \in Sessions : session'[h].stopped => session'[h].entry = Absent
  BY DEF OwnInv, StoppedHoldsNothing, Settles, SameRegistry, Settled
<1>3. \A h \in Sessions : session'[h].next = session[h].next
  BY DEF Settles, SameRegistry, Settled
<1>4. \A h \in Sessions, p \in Ops : attach'[h][p].pc # "unused" => p < session'[h].next
  BY <1>1, <1>3 DEF OwnInv, TasksBegun
<1>5. \A c \in Callers, h \in Sessions, p \in Ops :
         Attaches(caller'[c], h, p) => p < session'[h].next
  BY <1>3 DEF OwnInv, CallsBegun
<1>6. \A c \in Callers, h \in Sessions, p \in Ops :
         Attaches(caller'[c], h, p) =>
             /\ attach'[h][p].pc = "unused"
             /\ \A d \in Callers : Attaches(caller'[d], h, p) => d = c
  BY <1>1 DEF OwnInv, OneSpawner
<1>7. ASSUME NEW h \in Sessions, NEW p \in Ops, <<h, p>> \notin dropped',
             session'[h].entry = Attaching(p)
      PROVE  attach'[h][p].pc \in HoldingPcs \/ \E c \in Callers : Attaches(caller'[c], h, p)
  <2>1. session[h].entry = Attaching(p)
    BY <1>7 DEF Settles, SameRegistry, Settled
  <2>2. attach[h][p].pc \in HoldingPcs \/ \E c \in Callers : Attaches(caller[c], h, p)
    BY <1>7, <2>1 DEF OwnInv, Owned
  <2> QED BY <1>1, <1>7, <2>2
<1>8. ASSUME NEW h \in Sessions, NEW p \in Ops, <<h, p>> \notin dropped',
             session'[h].entry = BeingRemoved(p)
      PROVE  \E c \in Callers : Removes(caller'[c], h, p)
  <2>1. session[h].entry = BeingRemoved(p)
    BY <1>8 DEF Settles, SameRegistry, Settled
  <2> QED BY <1>8, <2>1 DEF OwnInv, Owned
<1>9. StoppedHoldsNothing' /\ TasksBegun' /\ CallsBegun'
  BY <1>2, <1>4, <1>5 DEF StoppedHoldsNothing, TasksBegun, CallsBegun
<1>10. OneSpawner'
  BY <1>6 DEF OneSpawner, Attaches
<1>11. Owned'
  BY <1>7, <1>8 DEF Owned
<1> QED BY <1>9, <1>10, <1>11 DEF OwnInv

\* A call that begins nothing, and what it no longer holds is dropped or ended.
LEMMA CallKeepsOwn ==
    ASSUME TypesInv, OwnInv, NEW c \in Callers, NEW r, Become(c, r), attach' = attach,
           dropped \subseteq dropped',
           \A h \in Sessions : Settles(session[h], session'[h]),
           \A h \in Sessions, p \in Ops :
              /\ Attaches(r, h, p) => Attaches(caller[c], h, p)
              /\ Attaches(caller[c], h, p) => Attaches(r, h, p) \/ <<h, p>> \in dropped'
              /\ Removes(caller[c], h, p) =>
                    \/ Removes(r, h, p) \/ <<h, p>> \in dropped'
                    \/ session'[h].entry # BeingRemoved(p)
    PROVE  OwnInv'
<1>1. \A d \in Callers : caller'[d] = IF d = c THEN r ELSE caller[d]
  BY DEF Become, TypesInv
<1>2. \A h \in Sessions : session'[h].stopped => session'[h].entry = Absent
  BY DEF OwnInv, StoppedHoldsNothing, Settles, SameRegistry, Settled
<1>3. \A h \in Sessions : session'[h].next = session[h].next
  BY DEF Settles, SameRegistry, Settled
<1>4. \A h \in Sessions, p \in Ops : attach'[h][p].pc # "unused" => p < session'[h].next
  BY <1>3 DEF OwnInv, TasksBegun
<1>5. \A d \in Callers, h \in Sessions, p \in Ops :
         Attaches(caller'[d], h, p) => p < session'[h].next
  <2>1. \A d \in Callers, h \in Sessions, p \in Ops :
           Attaches(caller'[d], h, p) => Attaches(caller[d], h, p)
    BY <1>1
  <2> QED BY <1>3, <2>1 DEF OwnInv, CallsBegun
<1>6. \A d \in Callers, h \in Sessions, p \in Ops :
         Attaches(caller'[d], h, p) =>
             /\ attach'[h][p].pc = "unused"
             /\ \A e \in Callers : Attaches(caller'[e], h, p) => e = d
  <2>1. \A d \in Callers, h \in Sessions, p \in Ops :
           Attaches(caller'[d], h, p) => Attaches(caller[d], h, p)
    BY <1>1
  <2> QED BY <2>1 DEF OwnInv, OneSpawner
<1>7. ASSUME NEW h \in Sessions, NEW p \in Ops, <<h, p>> \notin dropped',
             session'[h].entry = Attaching(p)
      PROVE  attach'[h][p].pc \in HoldingPcs \/ \E d \in Callers : Attaches(caller'[d], h, p)
  <2>1. session[h].entry = Attaching(p)
    BY <1>7 DEF Settles, SameRegistry, Settled
  <2>2. attach[h][p].pc \in HoldingPcs \/ \E d \in Callers : Attaches(caller[d], h, p)
    BY <1>7, <2>1 DEF OwnInv, Owned
  <2> QED BY <1>1, <1>7, <2>2
<1>8. ASSUME NEW h \in Sessions, NEW p \in Ops, <<h, p>> \notin dropped',
             session'[h].entry = BeingRemoved(p)
      PROVE  \E d \in Callers : Removes(caller'[d], h, p)
  <2>1. session[h].entry = BeingRemoved(p)
    BY <1>8 DEF Settles, SameRegistry, Settled
  <2>2. \E d \in Callers : Removes(caller[d], h, p)
    BY <1>8, <2>1 DEF OwnInv, Owned
  <2> QED BY <1>1, <1>8, <2>2
<1>9. StoppedHoldsNothing' /\ TasksBegun' /\ CallsBegun'
  BY <1>2, <1>4, <1>5 DEF StoppedHoldsNothing, TasksBegun, CallsBegun
<1>10. OneSpawner'
  BY <1>6 DEF OneSpawner, Attaches
<1>11. Owned'
  BY <1>7, <1>8 DEF Owned
<1> QED BY <1>9, <1>10, <1>11 DEF OwnInv

\* A call begins an operation: it is to spawn its attach, it removes, or the
\* attach has been spawned.
LEMMA BeginKeepsOwn ==
    ASSUME TypesInv, OwnInv, NEW c \in Callers, NEW r, NEW g \in Sessions,
           NEW kind \in {"attaching", "removing"}, NEW background \in BOOLEAN,
           session[g].next \in Ops, ~session[g].stopped,
           Update(g, Begin(session[g], kind)), Become(c, r),
           r.found = "start", r.gen = g, r.op = session[g].next,
           dropped \subseteq dropped',
           \A h \in Sessions, p \in Ops :
              ~Attaches(caller[c], h, p) /\ (Removes(caller[c], h, p) => <<h, p>> \in dropped'),
           \/ kind = "attaching" /\ attach' = attach /\ Attaches(r, g, session[g].next)
           \/ /\ kind = "removing" /\ attach' = attach /\ Removes(r, g, session[g].next)
              /\ \A h, p : ~Attaches(r, h, p)
           \/ /\ kind = "attaching" /\ Spawn(g, session[g].next, background)
              /\ \A h, p : ~Attaches(r, h, p)
    PROVE  OwnInv'
<1> DEFINE o == session[g].next
<1>1. \A d \in Callers : caller'[d] = IF d = c THEN r ELSE caller[d]
  BY DEF Become, TypesInv
<1>2. session[g] \in SessionState /\ o \in Nat
  BY DEF TypesInv, SessionState
<1>3. /\ session'[g].entry = State(kind, o) /\ session'[g].next = o + 1 /\ ~session'[g].stopped
      /\ \A h \in Sessions : h # g => session'[h] = session[h]
  <2>1. session'[g] = Begin(session[g], kind) /\ \A h \in Sessions : h # g => session'[h] = session[h]
    BY DEF TypesInv, Update
  <2> QED BY <1>2, <2>1 DEF SessionState, Begin
<1>4. \A h \in Sessions, p \in Ops : <<h, p>> # <<g, o>> => attach'[h][p] = attach[h][p]
  BY DEF Spawn, TypesInv
<1>5. \A d \in Callers : ~Attaches(caller[d], g, o)
  <2>1. \A d \in Callers : Attaches(caller[d], g, o) => o < o
    BY DEF OwnInv, CallsBegun
  <2> QED BY <1>2, <2>1
<1>6. attach[g][o].pc = "unused"
  BY <1>2 DEF OwnInv, TasksBegun
<1> HIDE DEF o
<1>7. o \in Ops
  BY DEF o
<1>8. StoppedHoldsNothing'
  BY <1>3 DEF OwnInv, StoppedHoldsNothing
<1>9. TasksBegun'
  <2>1. \A h \in Sessions, p \in Ops : attach'[h][p].pc # "unused" => p < session'[h].next
    <3> SUFFICES ASSUME NEW h \in Sessions, NEW p \in Ops, attach'[h][p].pc # "unused"
                 PROVE  p < session'[h].next
      OBVIOUS
    <3>1. CASE h = g /\ p = o
      BY <1>2, <1>3, <3>1
    <3>2. CASE <<h, p>> # <<g, o>>
      <4>1. p < session[h].next
        BY <1>4, <3>2 DEF OwnInv, TasksBegun
      <4> QED BY <1>2, <1>3, <4>1 DEF Ops, o
    <3> QED BY <3>1, <3>2
  <2> QED BY <2>1 DEF TasksBegun
<1>10. CallsBegun'
  <2>1. \A d \in Callers, h \in Sessions, p \in Ops :
           Attaches(caller'[d], h, p) => p < session'[h].next
    <3> SUFFICES ASSUME NEW d \in Callers, NEW h \in Sessions, NEW p \in Ops,
                        Attaches(caller'[d], h, p)
                 PROVE  p < session'[h].next
      OBVIOUS
    <3>1. CASE d = c
      <4>1. h = g /\ p = o
        BY <1>1, <3>1 DEF Attaches, o
      <4> QED BY <1>2, <1>3, <4>1
    <3>2. CASE d # c
      <4>1. p < session[h].next /\ p \in Nat
        BY <1>1, <3>2 DEF OwnInv, CallsBegun, Ops
      <4> QED BY <1>2, <1>3, <4>1 DEF o
    <3> QED BY <3>1, <3>2
  <2> QED BY <2>1 DEF CallsBegun
<1>11. OneSpawner'
  <2>1. \A d \in Callers, h \in Sessions, p \in Ops :
           Attaches(caller'[d], h, p) =>
              /\ attach'[h][p].pc = "unused"
              /\ \A e \in Callers : Attaches(caller'[e], h, p) => e = d
    <3> SUFFICES ASSUME NEW d \in Callers, NEW h \in Sessions, NEW p \in Ops,
                        Attaches(caller'[d], h, p)
                 PROVE  /\ attach'[h][p].pc = "unused"
                        /\ \A e \in Callers : Attaches(caller'[e], h, p) => e = d
      OBVIOUS
    <3>1. \A k, q : Attaches(r, k, q) => k = g /\ q = o /\ attach' = attach
      BY DEF Attaches, Removes, o
    <3>2. CASE d = c
      <4>1. h = g /\ p = o /\ attach' = attach
        BY <1>1, <3>1, <3>2
      <4> QED BY <1>1, <1>5, <1>6, <3>2, <4>1
    <3>3. CASE d # c
      <4>1. Attaches(caller[d], h, p) /\ <<h, p>> # <<g, o>>
        BY <1>1, <1>5, <3>3
      <4>2. attach[h][p].pc = "unused" /\ \A e \in Callers : Attaches(caller[e], h, p) => e = d
        BY <4>1 DEF OwnInv, OneSpawner
      <4> QED BY <1>1, <1>4, <3>1, <4>1, <4>2
    <3> QED BY <3>2, <3>3
  <2> QED BY <2>1 DEF OneSpawner
<1>12. Owned'
  <2>1. ASSUME NEW h \in Sessions, NEW p \in Ops, <<h, p>> \notin dropped',
               session'[h].entry = Attaching(p)
        PROVE  attach'[h][p].pc \in HoldingPcs \/ \E d \in Callers : Attaches(caller'[d], h, p)
    <3>1. CASE h = g
      <4>1. kind = "attaching" /\ p = o
        BY <1>3, <2>1, <3>1, StateFacts DEF Attaching
      <4>2. CASE attach' = attach /\ Attaches(r, g, o)
        BY <1>1, <3>1, <4>1, <4>2
      <4>3. CASE Spawn(g, o, background)
        <5>1. attach'[g][o].pc = "start"
          BY <1>7, <4>3 DEF Spawn, Spawned, TypesInv
        <5> QED BY <3>1, <4>1, <5>1 DEF HoldingPcs
      <4> QED BY <4>1, <4>2, <4>3 DEF o
    <3>2. CASE h # g
      <4>1. session[h].entry = Attaching(p) /\ attach'[h][p] = attach[h][p]
        BY <1>3, <1>4, <2>1, <3>2
      <4>2. attach[h][p].pc \in HoldingPcs \/ \E d \in Callers : Attaches(caller[d], h, p)
        BY <2>1, <4>1 DEF OwnInv, Owned
      <4> QED BY <1>1, <4>1, <4>2
    <3> QED BY <3>1, <3>2
  <2>2. ASSUME NEW h \in Sessions, NEW p \in Ops, <<h, p>> \notin dropped',
               session'[h].entry = BeingRemoved(p)
        PROVE  \E d \in Callers : Removes(caller'[d], h, p)
    <3>1. CASE h = g
      <4>1. kind = "removing" /\ p = o
        BY <1>3, <2>2, <3>1, StateFacts DEF BeingRemoved
      <4>2. Removes(r, g, o)
        BY <4>1 DEF o
      <4> QED BY <1>1, <3>1, <4>1, <4>2
    <3>2. CASE h # g
      <4>1. session[h].entry = BeingRemoved(p)
        BY <1>3, <2>2, <3>2
      <4>2. \E d \in Callers : Removes(caller[d], h, p)
        BY <2>2, <4>1 DEF OwnInv, Owned
      <4> QED BY <1>1, <2>2, <4>2
    <3> QED BY <3>1, <3>2
  <2> QED BY <2>1, <2>2 DEF Owned
<1> QED BY <1>8, <1>9, <1>10, <1>11, <1>12 DEF OwnInv

\* A call spawns the attach it was to spawn.
LEMMA SpawnKeepsOwn ==
    ASSUME TypesInv, OwnInv, NEW c \in Callers, NEW r, NEW g \in Sessions, NEW o \in Ops,
           NEW background \in BOOLEAN,
           Attaches(caller[c], g, o), Spawn(g, o, background), Become(c, r),
           session' = session, dropped' = dropped,
           \A h \in Sessions, p \in Ops : ~Attaches(r, h, p) /\ ~Removes(caller[c], h, p)
    PROVE  OwnInv'
<1>1. \A d \in Callers : caller'[d] = IF d = c THEN r ELSE caller[d]
  BY DEF Become, TypesInv
<1>2. \A h \in Sessions, p \in Ops :
         attach'[h][p] = IF h = g /\ p = o THEN Spawned(background) ELSE attach[h][p]
  BY DEF Spawn, TypesInv
<1>3. o < session[g].next
  BY DEF OwnInv, CallsBegun
<1>4. StoppedHoldsNothing' /\ TasksBegun'
  BY <1>2, <1>3 DEF OwnInv, StoppedHoldsNothing, TasksBegun
<1>5. CallsBegun'
  <2>1. \A d \in Callers, h \in Sessions, p \in Ops :
           Attaches(caller'[d], h, p) => p < session'[h].next
    BY <1>1 DEF OwnInv, CallsBegun
  <2> QED BY <2>1 DEF CallsBegun
<1>6. OneSpawner'
  <2>1. \A d \in Callers, h \in Sessions, p \in Ops :
           Attaches(caller'[d], h, p) =>
              /\ attach'[h][p].pc = "unused"
              /\ \A e \in Callers : Attaches(caller'[e], h, p) => e = d
    <3> SUFFICES ASSUME NEW d \in Callers, NEW h \in Sessions, NEW p \in Ops,
                        Attaches(caller'[d], h, p)
                 PROVE  /\ attach'[h][p].pc = "unused"
                        /\ \A e \in Callers : Attaches(caller'[e], h, p) => e = d
      OBVIOUS
    <3>1. d # c /\ Attaches(caller[d], h, p)
      BY <1>1
    <3>2. attach[h][p].pc = "unused" /\ \A e \in Callers : Attaches(caller[e], h, p) => e = d
      BY <3>1 DEF OwnInv, OneSpawner
    <3>3. ~(h = g /\ p = o)
      BY <3>1, <3>2
    <3> QED BY <1>1, <1>2, <3>2, <3>3
  <2> QED BY <2>1 DEF OneSpawner
<1>7. Owned'
  <2>1. ASSUME NEW h \in Sessions, NEW p \in Ops, <<h, p>> \notin dropped',
               session'[h].entry = Attaching(p)
        PROVE  attach'[h][p].pc \in HoldingPcs \/ \E d \in Callers : Attaches(caller'[d], h, p)
    <3>1. CASE h = g /\ p = o
      BY <1>2, <3>1 DEF Spawned, HoldingPcs
    <3>2. CASE ~(h = g /\ p = o)
      <4>1. attach[h][p].pc \in HoldingPcs \/ \E d \in Callers : Attaches(caller[d], h, p)
        BY <2>1 DEF OwnInv, Owned
      <4>2. ~Attaches(caller[c], h, p)
        BY <3>2 DEF Attaches
      <4> QED BY <1>1, <1>2, <3>2, <4>1, <4>2
    <3> QED BY <3>1, <3>2
  <2>2. ASSUME NEW h \in Sessions, NEW p \in Ops, <<h, p>> \notin dropped',
               session'[h].entry = BeingRemoved(p)
        PROVE  \E d \in Callers : Removes(caller'[d], h, p)
    <3>1. PICK d \in Callers : Removes(caller[d], h, p)
      BY <2>2 DEF OwnInv, Owned
    <3> QED BY <1>1, <3>1
  <2> QED BY <2>1, <2>2 DEF Owned
<1> QED BY <1>4, <1>5, <1>6, <1>7 DEF OwnInv

\* An operation that does not own the entry does not hold it.
LEMMA NotOwned ==
    ASSUME OwnInv, NEW g \in Sessions, NEW kind \in {"attaching", "removing"}, NEW o,
           ~Owns(session[g], kind, o)
    PROVE  session[g].entry # State(kind, o)
  BY StateFacts DEF OwnInv, StoppedHoldsNothing, Owns, Absent

\* A task goes on.
LEMMA GoKeepsOwn ==
    ASSUME TypesInv, OwnInv, NEW g \in Sessions, NEW o \in Ops, attach[g][o].pc # "unused",
           NEW pc \in AttachPcs \ {"unused"}, Go(g, o, pc),
           UNCHANGED caller, UNCHANGED history,
           \A h \in Sessions : Settles(session[h], session'[h]),
           attach[g][o].pc \in HoldingPcs => pc \in HoldingPcs \/ session'[g].entry # Attaching(o)
    PROVE  OwnInv'
<1> DEFINE r == [attach[g][o] EXCEPT !.pc = pc]
<1>1. r \in AttachState /\ r.pc = pc
  BY DEF TypesInv, AttachState
<1>2. attach' = [attach EXCEPT ![g][o] = r]
  BY DEF Go
<1> HIDE DEF r
<1> QED BY <1>1, <1>2, TaskKeepsOwn DEF history

\* A task ends.
LEMMA FinishKeepsOwn ==
    ASSUME TypesInv, OwnInv, NEW g \in Sessions, NEW o \in Ops, attach[g][o].pc # "unused",
           Finish(g, o), UNCHANGED caller, UNCHANGED history,
           \A h \in Sessions : Settles(session[h], session'[h]),
           attach[g][o].pc \notin HoldingPcs
    PROVE  OwnInv'
<1> DEFINE r == [NoAttach EXCEPT !.pc = "done"]
<1>1. r \in AttachState /\ r.pc = "done"
  BY DEF NoAttach, AttachState, AttachPcs
<1>2. attach' = [attach EXCEPT ![g][o] = r]
  BY DEF Finish
<1> HIDE DEF r
<1> QED BY <1>1, <1>2, TaskKeepsOwn DEF history

\* The tasks that attach: what they own they end, or pass on.
LEMMA AttachKeepsOwn ==
    ASSUME TypesInv, OwnInv, NEW g \in Sessions, NEW o \in Ops, Attach(g, o)
    PROVE  OwnInv'
<1> DEFINE s == session[g]
<1>1. s \in SessionState
  BY DEF TypesInv
<1>2. UNCHANGED caller /\ UNCHANGED history
  BY DEF Attach, StartAttach, WriteConfig, KillOldAgent, WarmUp, CleanUpFailed, CommitFailed,
         ConstrainFailed, CheckOwner, RegisterLoop, CleanUpUnregistered, FailUnregistered, CommitReady,
         ConstrainReady, NotifyReady, PublishReady, Deregister, CleanUpStale, EndAttach, NotifyAgain
<1>3. ASSUME NEW t, Update(g, t), Settles(s, t)
      PROVE  \A h \in Sessions : Settles(session[h], session'[h])
  BY <1>3, UpdateSettles
<1>4. ASSUME NEW pc, NEW next \in AttachPcs \ {"unused"}, At(g, o, pc), Go(g, o, next), pc # "unused",
             \A h \in Sessions : Settles(session[h], session'[h]),
             pc \in HoldingPcs => next \in HoldingPcs \/ session'[g].entry # Attaching(o)
      PROVE  OwnInv'
  BY <1>2, <1>4, GoKeepsOwn DEF At
<1>5. ~Owns(s, "attaching", o) => s.entry # Attaching(o)
  BY NotOwned DEF Attaching
<1>6. \A t : Settled(s, t) => t.entry # Attaching(o)
  BY DEF Settled
<1>7. /\ (State("failed", o)).kind \notin {"attaching", "removing"}
      /\ Ready.kind \notin {"attaching", "removing"}
  BY StateFacts DEF Ready
<1>8. Owns(s, "attaching", o) => /\ Settled(s, End(s, o, State("failed", o), "failed"))
                                 /\ Settled(s, End(s, o, Ready, "ready"))
  BY <1>1, <1>7, SettledStates
<1>9. \A t : Update(g, t) => session'[g] = t
  BY DEF Update, TypesInv
<1>10. CASE StartAttach(g, o)
  <2>1. Settles(s, Constrain(s, State("starting", o), FALSE))
    BY <1>1, SettledStates DEF Settles
  <2>2. \A h \in Sessions : Settles(session[h], session'[h])
    BY <1>3, <1>10, <2>1 DEF StartAttach
  <2> QED BY <1>4, <1>10, <2>2 DEF StartAttach, AttachPcs, HoldingPcs
<1>11. CASE \/ WriteConfig(g, o) \/ KillOldAgent(g, o) \/ WarmUp(g, o) \/ CleanUpFailed(g, o)
            \/ CleanUpUnregistered(g, o)
  <2>1. \A h \in Sessions : Settles(session[h], session'[h])
    BY <1>11, SameSettles DEF WriteConfig, KillOldAgent, WarmUp, CleanUpFailed, CleanUpUnregistered
  <2>2. \E pc \in HoldingPcs, next \in HoldingPcs : At(g, o, pc) /\ Go(g, o, next)
    BY <1>11 DEF WriteConfig, KillOldAgent, WarmUp, CleanUpFailed, CleanUpUnregistered, HoldingPcs
  <2>3. HoldingPcs \subseteq AttachPcs \ {"unused"}
    BY DEF HoldingPcs, AttachPcs
  <2> QED BY <1>4, <2>1, <2>2, <2>3
<1>12. CASE CommitFailed(g, o)
  <2>1. CASE Owns(s, "attaching", o)
    <3>1. Update(g, End(s, o, State("failed", o), "failed")) /\ Go(g, o, "constrain")
      BY <1>12, <2>1 DEF CommitFailed
    <3>2. \A h \in Sessions : Settles(session[h], session'[h])
      BY <1>3, <1>8, <2>1, <3>1 DEF Settles
    <3>3. session'[g].entry # Attaching(o)
      BY <1>6, <1>8, <1>9, <2>1, <3>1
    <3> QED BY <1>4, <1>12, <3>1, <3>2, <3>3 DEF CommitFailed, AttachPcs
  <2>2. CASE ~Owns(s, "attaching", o)
    <3>1. session' = session /\ Go(g, o, "wait")
      BY <1>12, <2>2 DEF CommitFailed
    <3> QED BY <1>4, <1>5, <1>12, <2>2, <3>1, SameSettles DEF CommitFailed, AttachPcs
  <2> QED BY <2>1, <2>2
<1>13. CASE ConstrainFailed(g, o) \/ ConstrainReady(g, o) \/ NotifyReady(g, o) \/ Deregister(g, o)
  <2>1. \E t : Update(g, t) /\ Settles(s, t)
    BY <1>1, <1>13, SettledStates DEF ConstrainFailed, ConstrainReady, NotifyReady, Deregister, Settles
  <2>2. \A h \in Sessions : Settles(session[h], session'[h])
    BY <1>3, <2>1
  <2>3. \E pc \in {"constrain", "ready", "notify", "deregister"},
            next \in {"wait", "notify", "publish", "stale"} : At(g, o, pc) /\ Go(g, o, next)
    BY <1>13 DEF ConstrainFailed, ConstrainReady, NotifyReady, Deregister
  <2> QED BY <1>4, <2>2, <2>3 DEF AttachPcs, HoldingPcs
<1>14. CASE CheckOwner(g, o)
  <2>1. session' = session
    BY <1>14 DEF CheckOwner
  <2>2. Go(g, o, "register") \/ (Go(g, o, "stale") /\ s.entry # Attaching(o))
    BY <1>5, <1>14 DEF CheckOwner
  <2> QED BY <1>4, <1>14, <2>1, <2>2, SameSettles DEF CheckOwner, AttachPcs, HoldingPcs
<1>15. CASE RegisterLoop(g, o)
  <2>1. Settles(s, SpawnLoop(s))
    BY <1>1, SettledStates DEF Settles
  <2>2. \A h \in Sessions : Settles(session[h], session'[h])
    BY <1>3, <1>15, <2>1, SameSettles DEF RegisterLoop
  <2>3. CASE Go(g, o, "commit") \/ Go(g, o, "unregistered")
    BY <1>4, <1>15, <2>2, <2>3 DEF RegisterLoop, AttachPcs, HoldingPcs
  <2>4. CASE attach' = [attach EXCEPT ![g][o] = [@ EXCEPT !.pc = "commit", !.registered = TRUE]]
    <3> DEFINE r == [attach[g][o] EXCEPT !.pc = "commit", !.registered = TRUE]
    <3>1. r \in AttachState /\ r.pc = "commit"
      <4>1. attach[g][o] \in AttachState
        BY DEF TypesInv
      <4> QED BY <4>1 DEF AttachState, AttachPcs
    <3>2. attach' = [attach EXCEPT ![g][o] = r] /\ attach[g][o].pc # "unused" /\ dropped' = dropped
      BY <1>2, <1>15, <2>4 DEF RegisterLoop, At, history
    <3> HIDE DEF r
    <3>3. r.pc # "unused" /\ r.pc \in HoldingPcs
      BY <3>1 DEF HoldingPcs
    <3> QED BY <1>2, <2>2, <3>1, <3>2, <3>3, TaskKeepsOwn
  <2> QED BY <1>15, <2>3, <2>4 DEF RegisterLoop
<1>16. CASE FailUnregistered(g, o)
  <2>1. CASE Owns(s, "attaching", o)
    <3>1. Update(g, End(s, o, State("failed", o), "failed")) /\ Go(g, o, "constrain")
      BY <1>16, <2>1 DEF FailUnregistered
    <3>2. \A h \in Sessions : Settles(session[h], session'[h])
      BY <1>3, <1>8, <2>1, <3>1 DEF Settles
    <3>3. session'[g].entry # Attaching(o)
      BY <1>6, <1>8, <1>9, <2>1, <3>1
    <3> QED BY <1>4, <1>16, <3>1, <3>2, <3>3 DEF FailUnregistered, AttachPcs
  <2>2. CASE ~Owns(s, "attaching", o)
    <3>1. Update(g, s) /\ Go(g, o, "constrain")
      BY <1>16, <2>2 DEF FailUnregistered
    <3>2. \A h \in Sessions : Settles(session[h], session'[h])
      BY <1>3, <3>1 DEF Settles, SameRegistry
    <3>3. session'[g].entry # Attaching(o)
      BY <1>5, <1>9, <2>2, <3>1
    <3> QED BY <1>4, <1>16, <3>1, <3>2, <3>3 DEF FailUnregistered, AttachPcs
  <2> QED BY <2>1, <2>2
<1>17. CASE CommitReady(g, o)
  <2>1. CASE Owns(s, "attaching", o)
    <3>1. Update(g, End(s, o, Ready, "ready")) /\ Go(g, o, "ready")
      BY <1>17, <2>1 DEF CommitReady
    <3>2. \A h \in Sessions : Settles(session[h], session'[h])
      BY <1>3, <1>8, <2>1, <3>1 DEF Settles
    <3>3. session'[g].entry # Attaching(o)
      BY <1>6, <1>8, <1>9, <2>1, <3>1
    <3> QED BY <1>4, <1>17, <3>1, <3>2, <3>3 DEF CommitReady, AttachPcs
  <2>2. CASE ~Owns(s, "attaching", o)
    <3>1. session' = session /\ (Go(g, o, "deregister") \/ Go(g, o, "stale"))
      BY <1>17, <2>2 DEF CommitReady
    <3> QED BY <1>4, <1>5, <1>17, <2>2, <3>1, SameSettles DEF CommitReady, AttachPcs
  <2> QED BY <2>1, <2>2
<1>18. CASE PublishReady(g, o) \/ CleanUpStale(g, o)
  <2>1. session' = session
    BY <1>18 DEF PublishReady, CleanUpStale
  <2>2. \E pc \in {"publish", "stale"}, next \in {"wait", "deregister", "stale"} :
           At(g, o, pc) /\ Go(g, o, next)
    BY <1>18 DEF PublishReady, CleanUpStale
  <2> QED BY <1>4, <2>1, <2>2, SameSettles DEF AttachPcs, HoldingPcs
<1>19. CASE EndAttach(g, o)
  <2>1. session' = session /\ At(g, o, "wait") /\ (Go(g, o, "again") \/ Finish(g, o))
    BY <1>19 DEF EndAttach
  <2>2. CASE Go(g, o, "again")
    BY <1>4, <2>1, <2>2, SameSettles DEF AttachPcs, HoldingPcs
  <2>3. CASE Finish(g, o)
    BY <1>2, <2>1, <2>3, SameSettles, FinishKeepsOwn DEF At, HoldingPcs
  <2> QED BY <2>1, <2>2, <2>3
<1>20. CASE NotifyAgain(g, o)
  <2>1. Settles(s, s) /\ Settles(s, ReadyAgain(s))
    BY <1>1, SettledStates DEF Settles
  <2>2. \A h \in Sessions : Settles(session[h], session'[h])
    BY <1>3, <1>20, <2>1 DEF NotifyAgain
  <2> QED BY <1>2, <1>20, <2>2, FinishKeepsOwn DEF NotifyAgain, At, HoldingPcs
<1> QED BY <1>10, <1>11, <1>12, <1>13, <1>14, <1>15, <1>16, <1>17, <1>18, <1>19, <1>20 DEF Attach

\* Nothing but the sessions changes, and their registries are left alone or settled.
LEMMA RestKeepsOwn ==
    ASSUME TypesInv, OwnInv, attach' = attach, caller' = caller, dropped' = dropped,
           \A h \in Sessions : Settles(session[h], session'[h])
    PROVE  OwnInv'
<1>1. \A h \in Sessions : /\ session'[h].stopped => session'[h].entry = Absent
                          /\ session'[h].next = session[h].next
  BY DEF OwnInv, StoppedHoldsNothing, Settles, SameRegistry, Settled
<1>2. \A c \in Callers, h \in Sessions, p \in Ops :
         Attaches(caller'[c], h, p) => p < session'[h].next
  BY <1>1 DEF OwnInv, CallsBegun
<1>3. StoppedHoldsNothing' /\ TasksBegun' /\ CallsBegun'
  BY <1>1, <1>2 DEF OwnInv, StoppedHoldsNothing, TasksBegun, CallsBegun
<1>4. OneSpawner'
  BY DEF OwnInv, OneSpawner
<1>5. \A h \in Sessions, p \in Ops :
         /\ session'[h].entry = Attaching(p) => session[h].entry = Attaching(p)
         /\ session'[h].entry = BeingRemoved(p) => session[h].entry = BeingRemoved(p)
  BY DEF Settles, SameRegistry, Settled
<1>6. Owned'
  BY <1>5 DEF OwnInv, Owned
<1> QED BY <1>3, <1>4, <1>6 DEF OwnInv

\* The event loops.
LEMMA LoopKeepsOwn ==
    ASSUME TypesInv, OwnInv, NEW g \in Sessions, Loop(g)
    PROVE  OwnInv'
<1>1. attach' = attach /\ caller' = caller /\ dropped' = dropped
  BY DEF Loop, LoopLooks, LoopClaims, AbortedLoopTells, history
<1>2. session[g] \in SessionState
  BY DEF TypesInv
<1>3. \E t : Update(g, t) /\ Settles(session[g], t)
  <2>1. CASE LoopLooks(g)
    <3> DEFINE seen == IF session[g].member THEN Snapshot(session[g]) ELSE Nothing
               t == [session[g] EXCEPT !.notified = FALSE, !.reading = seen]
    <3>1. Update(g, t)
      BY <2>1 DEF LoopLooks
    <3> HIDE DEF seen
    <3>2. Settles(session[g], t)
      BY <1>2 DEF SessionState, Settles, SameRegistry
    <3> QED BY <3>1, <3>2
  <2>2. CASE LoopClaims(g)
    <3>4. PICK requeued \in BOOLEAN :
             LET told == Constrain(session[g], session[g].reading, requeued)
             IN  Update(g, [told EXCEPT !.reading = Nothing,
                                        !.work = told.work /\ told.slot.kind # "ready"])
      BY <2>2 DEF LoopClaims
    <3> DEFINE told == Constrain(session[g], session[g].reading, requeued)
               t    == [told EXCEPT !.reading = Nothing,
                                    !.work = told.work /\ told.slot.kind # "ready"]
    <3>1. Update(g, t)
      BY <3>4
    <3>2. told \in SessionState /\ SameRegistry(session[g], told)
      BY <1>2, SessionTypes, SettledStates DEF SessionState
    <3> HIDE DEF told
    <3>3. Settles(session[g], t)
      BY <3>2 DEF SessionState, Settles, SameRegistry
    <3> QED BY <3>1, <3>3
  <2>3. CASE AbortedLoopTells(g)
    <3>1. PICK seen \in session[g].late, requeued \in BOOLEAN :
             Update(g, [Constrain(session[g], seen, requeued)
                           EXCEPT !.late = session[g].late \ {seen}])
      BY <2>3 DEF AbortedLoopTells
    <3> DEFINE told == Constrain(session[g], seen, requeued)
               t    == [told EXCEPT !.late = session[g].late \ {seen}]
    <3>2. Update(g, t)
      BY <3>1
    <3>3. told \in SessionState /\ SameRegistry(session[g], told)
      BY <1>2, SessionTypes, SettledStates DEF SessionState
    <3> HIDE DEF told
    <3>4. Settles(session[g], t)
      BY <3>3 DEF SessionState, Settles, SameRegistry
    <3> QED BY <3>2, <3>4
  <2> QED BY <2>1, <2>2, <2>3 DEF Loop
<1>4. \A h \in Sessions : Settles(session[h], session'[h])
  BY <1>3, UpdateSettles
<1> QED BY <1>1, <1>4, RestKeepsOwn

\* A call goes on with what it holds.
LEMMA GotoKeepsOwn ==
    ASSUME TypesInv, OwnInv, NEW c \in Callers, NEW r, Become(c, r), attach' = attach,
           r.call = caller[c].call, r.found = caller[c].found,
           r.gen = caller[c].gen \/ r.found # "start", r.op = caller[c].op,
           UNCHANGED history, \A h \in Sessions : Settles(session[h], session'[h]),
           AttachingAt(r.call, r.pc) <=> AttachingAt(caller[c].call, caller[c].pc),
           RemovingAt(caller[c].pc) => RemovingAt(r.pc)
    PROVE  OwnInv'
<1>1. \A h \in Sessions, p \in Ops :
         /\ Attaches(r, h, p) <=> Attaches(caller[c], h, p)
         /\ Removes(caller[c], h, p) => Removes(r, h, p)
  BY DEF Attaches, Removes
<1> QED BY <1>1, CallKeepsOwn DEF history

\* A call that holds nothing, or has dropped what it held, goes on or ends.
LEMMA RestingKeepsOwn ==
    ASSUME TypesInv, OwnInv, NEW c \in Callers, NEW r, Become(c, r), attach' = attach,
           dropped \subseteq dropped', \A h \in Sessions : Settles(session[h], session'[h]),
           r.found = "start" => ~AttachingAt(r.call, r.pc),
           caller[c].found = "start" =>
              \/ ~AttachingAt(caller[c].call, caller[c].pc) /\ ~RemovingAt(caller[c].pc)
              \/ <<caller[c].gen, caller[c].op>> \in dropped'
    PROVE  OwnInv'
<1>1. \A h \in Sessions, p \in Ops :
         /\ ~Attaches(r, h, p)
         /\ Attaches(caller[c], h, p) => <<h, p>> \in dropped'
         /\ Removes(caller[c], h, p) => <<h, p>> \in dropped'
  BY DEF Attaches, Removes
<1> QED BY <1>1, CallKeepsOwn

\* What a reservation that begins an operation is: the registry is not stopped, and
\* the call has the next operation.
LEMMA Starts ==
    ASSUME NEW c, NEW g \in Sessions, NEW pc, caller[c] \in CallState
    PROVE  /\ \A retryFailed : Reservation(session[g], retryFailed) = "start" => ~session[g].stopped
           /\ RepairReservation(session[g]) = "start" => ~session[g].stopped
           /\ Removal(g) = "start" => ~session[g].stopped
           /\ \A found : /\ Reserved(c, pc, g, found).found = found
                         /\ Reserved(c, pc, g, found).gen = g
                         /\ Reserved(c, pc, g, found).pc = pc
                         /\ Reserved(c, pc, g, found).call = caller[c].call
           /\ Reserved(c, pc, g, "start").op = session[g].next
<1>1. \A retryFailed : Reservation(session[g], retryFailed) = "start" => ~session[g].stopped
  BY DEF Reservation
<1>2. RepairReservation(session[g]) = "start" => ~session[g].stopped
  BY DEF RepairReservation
<1>3. Removal(g) = "start" => ~session[g].stopped
  BY DEF Removal
<1>4. \A found : /\ Reserved(c, pc, g, found).found = found
                 /\ Reserved(c, pc, g, found).gen = g
                 /\ Reserved(c, pc, g, found).pc = pc
                 /\ Reserved(c, pc, g, found).call = caller[c].call
  BY DEF Reserved, CallState
<1>5. Reserved(c, pc, g, "start").op = session[g].next
  BY DEF Reserved, CallState
<1> QED BY <1>1, <1>2, <1>3, <1>4, <1>5

\* A call makes a reservation to attach, and spawns the attach now or later.
LEMMA ReserveKeepsOwn ==
    ASSUME TypesInv, OwnInv, NEW c \in Callers, NEW g \in Sessions, NEW pc, NEW found,
           NEW background \in BOOLEAN, found = "start" => ~session[g].stopped,
           Take(g, found, "attaching"), Become(c, Reserved(c, pc, g, found)),
           ~AttachingAt(caller[c].call, caller[c].pc), ~RemovingAt(caller[c].pc),
           UNCHANGED history,
           found = "start" =>
              \/ attach' = attach /\ AttachingAt(caller[c].call, pc)
              \/ Spawn(g, session[g].next, background) /\ ~AttachingAt(caller[c].call, pc),
           found # "start" => attach' = attach
    PROVE  OwnInv'
<1> DEFINE r == Reserved(c, pc, g, found)
<1>1. caller[c] \in CallState
  BY DEF TypesInv
<1>2. r.found = found /\ r.gen = g /\ r.pc = pc /\ r.call = caller[c].call
      /\ (found = "start" => r.op = session[g].next)
  BY <1>1, Starts
<1>3. Become(c, r) /\ dropped' = dropped
  BY DEF history
<1> HIDE DEF r
<1>4. CASE found = "start"
  <2>1. session[g].next \in Ops /\ Update(g, Begin(session[g], "attaching"))
    BY <1>4 DEF Take
  <2>2. \A h, p : ~Attaches(caller[c], h, p) /\ ~Removes(caller[c], h, p)
    BY DEF Attaches, Removes
  <2>3. \/ attach' = attach /\ Attaches(r, g, session[g].next)
        \/ Spawn(g, session[g].next, background) /\ \A h, p : ~Attaches(r, h, p)
    BY <1>2, <1>4 DEF Attaches
  <2> QED BY <1>2, <1>3, <1>4, <2>1, <2>2, <2>3, BeginKeepsOwn
<1>5. CASE found # "start"
  <2>1. session' = session /\ attach' = attach
    BY <1>5 DEF Take
  <2> QED BY <1>2, <1>3, <1>5, <2>1, SameSettles, RestingKeepsOwn
<1> QED BY <1>4, <1>5

\* A call that begins does so for a caller that was idle.
LEMMA Comers ==
    ASSUME NEW c \in Callers, Comes(c)
    PROVE  On(c, "idle")
  BY CallersAssumption DEF Comes

\* A call begins, and has nothing yet.
LEMMA ComingKeepsOwn ==
    ASSUME TypesInv, OwnInv, NEW c \in Callers, Comes(c), NEW r, Become(c, r), r.found = "none",
           UNCHANGED attach, UNCHANGED history,
           \A h \in Sessions : Settles(session[h], session'[h])
    PROVE  OwnInv'
<1>1. ~AttachingAt(caller[c].call, caller[c].pc) /\ ~RemovingAt(caller[c].pc)
  BY Comers DEF On, AttachingAt, RemovingAt
<1> QED BY <1>1, RestingKeepsOwn DEF history

\* A call that has moved is what it was, elsewhere.
LEMMA MovedFacts ==
    ASSUME TypesInv, NEW c \in Callers, NEW pc
    PROVE  /\ Moved(c, pc).pc = pc /\ Moved(c, pc).call = caller[c].call
           /\ Moved(c, pc).gen = caller[c].gen /\ Moved(c, pc).op = caller[c].op
           /\ Moved(c, pc).found = caller[c].found
<1>1. caller[c] \in CallState
  BY DEF TypesInv
<1> QED BY <1>1 DEF CallState, Moved

\* A call that was holding nothing goes elsewhere, to hold nothing.
LEMMA PassingKeepsOwn ==
    ASSUME TypesInv, OwnInv, NEW c \in Callers, NEW pc, Goto(c, pc), UNCHANGED attach,
           UNCHANGED history, \A h \in Sessions : Settles(session[h], session'[h]),
           ~AttachingAt(caller[c].call, caller[c].pc), ~RemovingAt(caller[c].pc),
           ~AttachingAt(caller[c].call, pc)
    PROVE  OwnInv'
<1> DEFINE r == Moved(c, pc)
<1>1. /\ r.pc = pc /\ r.call = caller[c].call /\ r.gen = caller[c].gen /\ r.op = caller[c].op
      /\ r.found = caller[c].found
  BY MovedFacts
<1>2. Become(c, r) /\ dropped' = dropped
  BY DEF Goto, history
<1> HIDE DEF r
<1> QED BY <1>1, <1>2, RestingKeepsOwn

\* A call that has dropped what it held, or held nothing, ends.
LEMMA ReturnKeepsOwn ==
    ASSUME TypesInv, OwnInv, NEW c \in Callers, Return(c), UNCHANGED attach,
           \A h \in Sessions : Settles(session[h], session'[h]),
           \/ UNCHANGED history /\ ~AttachingAt(caller[c].call, caller[c].pc) /\ ~RemovingAt(caller[c].pc)
           \/ Drop(c)
    PROVE  OwnInv'
<1> DEFINE r == [NoCall EXCEPT !.pc = "done"]
<1>1. Become(c, r) /\ r.found = "none"
  BY DEF Return, NoCall
<1> HIDE DEF r
<1>2. dropped \subseteq dropped'
  BY DEF Drop, LetGo, history
<1>3. caller[c].found = "start" =>
         \/ ~AttachingAt(caller[c].call, caller[c].pc) /\ ~RemovingAt(caller[c].pc)
         \/ <<caller[c].gen, caller[c].op>> \in dropped'
  BY DEF Drop, LetGo
<1> QED BY <1>1, <1>2, <1>3, RestingKeepsOwn

\* A call tells the session it works on.
LEMMA MineSettles ==
    ASSUME TypesInv, NEW c, NEW t, Update(caller[c].gen, t),
           caller[c].gen \in Sessions => Settles(Mine(c), t)
    PROVE  \A h \in Sessions : Settles(session[h], session'[h])
  BY UpdateSettles DEF Mine

\* The calls that deliver: a call drops what it does not spawn.
LEMMA DeliveringKeepsOwn ==
    ASSUME TypesInv, CallsInv, OwnInv, NEW c \in Callers, Delivering(c)
    PROVE  OwnInv'
<1> DEFINE call == caller[c].call
           g == caller[c].gen
<1>1. caller[c] \in CallState /\ PlacedCall(caller[c]) /\ Fits(caller[c])
  BY DEF TypesInv, CallsInv
<1>2. \A pc : On(c, pc) => Passes(call, pc)
  BY <1>1 DEF Fits, On
<1>3. g \in Sessions => Mine(c) \in SessionState
  BY DEF TypesInv, Mine
<1>4. CASE Deliver(c)
  <2> DEFINE r == [NoCall EXCEPT !.call = "deliver", !.pc = "lazy", !.gen = published]
  <2>1. Become(c, r) /\ Comes(c) /\ UNCHANGED attach /\ UNCHANGED history /\ session' = session
    BY <1>4 DEF Deliver, Call
  <2>2. r.found = "none"
    BY DEF NoCall
  <2> HIDE DEF r
  <2> QED BY <2>1, <2>2, SameSettles, ComingKeepsOwn
<1>5. CASE LooksForLoop(c)
  <2>1. call = "deliver" /\ On(c, "lazy") /\ UNCHANGED attach /\ UNCHANGED history /\ session' = session
        /\ (Goto(c, "look") \/ Goto(c, "reserve"))
    BY <1>2, <1>5, Passages DEF LooksForLoop
  <2> QED BY <2>1, SameSettles, PassingKeepsOwn DEF On, AttachingAt, RemovingAt
<1>6. CASE ReservesLazily(c)
  <2> DEFINE found == Reservation(session[g], FALSE)
             pc == IF found = "start" THEN "spawn" ELSE "look"
  <2>1. call = "deliver" /\ On(c, "reserve")
    BY <1>2, <1>6, Passages DEF ReservesLazily
  <2>2. g \in Sessions
    BY <1>1, <2>1, MineType DEF On, PlacedCall, Placed
  <2>3. /\ Take(g, found, "attaching") /\ Become(c, Reserved(c, pc, g, found))
        /\ attach' = attach /\ UNCHANGED history
    BY <1>6 DEF ReservesLazily
  <2>4. found = "start" => ~session[g].stopped /\ AttachingAt(call, pc)
    BY <1>1, <2>1, <2>2, Starts DEF AttachingAt
  <2>5. ~AttachingAt(caller[c].call, caller[c].pc) /\ ~RemovingAt(caller[c].pc)
    BY <2>1 DEF On, AttachingAt, RemovingAt
  <2> HIDE DEF found, pc
  <2> QED BY <2>2, <2>3, <2>4, <2>5, ReserveKeepsOwn
<1>7. CASE SpawnsLazily(c)
  <2>1. call = "deliver" /\ On(c, "spawn") /\ session' = session
    BY <1>2, <1>7, Passages DEF SpawnsLazily
  <2>2. CASE Mine(c).member
    <3>1. Spawn(g, caller[c].op, TRUE) /\ Become(c, Moved(c, "look")) /\ dropped' = dropped
      BY <1>7, <2>2 DEF SpawnsLazily, Goto, history
    <3>2. caller[c].found = "start" /\ g \in Sessions /\ caller[c].op \in Ops
      BY <1>1, <2>1, MineType, BoundsAssumption DEF Fits, On, PlacedCall, CallState, Ops
    <3>3. Attaches(caller[c], g, caller[c].op)
      BY <2>1, <3>2 DEF Attaches, AttachingAt, On
    <3>4. \A h \in Sessions, p \in Ops : ~Attaches(Moved(c, "look"), h, p) /\ ~Removes(caller[c], h, p)
      BY <2>1, MovedFacts DEF Attaches, Removes, AttachingAt, RemovingAt, On
    <3>5. Moved(c, "look").gen = g /\ Moved(c, "look").op = caller[c].op
      BY MovedFacts
    <3> QED BY <2>1, <3>1, <3>2, <3>3, <3>4, <3>5, SpawnKeepsOwn
  <2>3. CASE ~Mine(c).member
    BY <1>7, <2>1, <2>3, SameSettles, ReturnKeepsOwn DEF SpawnsLazily
  <2> QED BY <2>2, <2>3
<1>8. CASE Looks(c)
  <2> DEFINE r == [Moved(c, "tell") EXCEPT !.seen = Snapshot(Mine(c))]
  <2>1. On(c, "look") /\ Become(c, r) /\ attach' = attach /\ UNCHANGED history /\ session' = session
    BY <1>8 DEF Looks
  <2>2. /\ r.pc = "tell" /\ r.call = call /\ r.gen = g /\ r.found = caller[c].found
        /\ r.op = caller[c].op
    BY <1>1 DEF CallState, Moved
  <2> HIDE DEF r
  <2>3. /\ AttachingAt(r.call, r.pc) <=> AttachingAt(caller[c].call, caller[c].pc)
        /\ ~RemovingAt(caller[c].pc)
    BY <2>1, <2>2 DEF On, AttachingAt, RemovingAt
  <2> QED BY <2>1, <2>2, <2>3, SameSettles, GotoKeepsOwn
<1>9. CASE Tells(c) \/ Enqueues(c)
  <2>1. \E t : Update(g, t) /\ (g \in Sessions => Settles(Mine(c), t))
    <3>1. CASE Tells(c)
      BY <1>3, <3>1, SettledStates DEF Tells, Settles
    <3>2. CASE Enqueues(c)
      <4>1. g \in Sessions => Settles(Mine(c), [Mine(c) EXCEPT !.work = TRUE])
        BY <1>3 DEF SessionState, Settles, SameRegistry
      <4> QED BY <3>2, <4>1 DEF Enqueues
    <3> QED BY <1>9, <3>1, <3>2
  <2>2. \A h \in Sessions : Settles(session[h], session'[h])
    BY <2>1, MineSettles
  <2>3. PICK pc \in {"enqueue", "wake"} : Become(c, Moved(c, pc))
    BY <1>9 DEF Tells, Enqueues, Goto
  <2>4. (On(c, "tell") \/ On(c, "enqueue")) /\ attach' = attach /\ UNCHANGED history
    BY <1>9 DEF Tells, Enqueues
  <2> DEFINE r == Moved(c, pc)
  <2>5. /\ r.pc = pc /\ r.call = call /\ r.gen = g /\ r.found = caller[c].found /\ r.op = caller[c].op
    BY MovedFacts
  <2> HIDE DEF r
  <2>6. /\ AttachingAt(r.call, r.pc) <=> AttachingAt(caller[c].call, caller[c].pc)
        /\ ~RemovingAt(caller[c].pc)
    BY <2>4, <2>5 DEF On, AttachingAt, RemovingAt
  <2> QED BY <2>2, <2>3, <2>4, <2>5, <2>6, GotoKeepsOwn DEF r
<1>10. CASE EnqueueFails(c)
  <2>1. /\ On(c, "look") \/ On(c, "enqueue")
        /\ Return(c) /\ UNCHANGED attach /\ session' = session
        /\ IF call = "add" THEN Drop(c) ELSE UNCHANGED history
    BY <1>10 DEF EnqueueFails
  <2>2. /\ call # "add" => ~AttachingAt(caller[c].call, caller[c].pc)
        /\ ~RemovingAt(caller[c].pc)
    BY <2>1 DEF On, AttachingAt, RemovingAt
  <2> QED BY <2>1, <2>2, SameSettles, ReturnKeepsOwn
<1>11. CASE Wakes(c)
  <2>1. Update(g, Notify(Mine(c))) /\ On(c, "wake") /\ attach' = attach /\ UNCHANGED history
        /\ Become(c, Moved(c, IF call = "add" THEN "launch" ELSE "done"))
    BY <1>11 DEF Wakes, Goto
  <2>2. \A h \in Sessions : Settles(session[h], session'[h])
    BY <1>3, <2>1, SettledStates, MineSettles DEF Settles
  <2> DEFINE pc == IF call = "add" THEN "launch" ELSE "done"
             r == Moved(c, pc)
  <2>3. /\ r.pc = pc /\ r.call = call /\ r.gen = g /\ r.found = caller[c].found /\ r.op = caller[c].op
    BY MovedFacts
  <2>4. Become(c, r)
    BY <2>1
  <2> HIDE DEF r
  <2>5. /\ AttachingAt(r.call, r.pc) <=> AttachingAt(caller[c].call, caller[c].pc)
        /\ ~RemovingAt(caller[c].pc)
    BY <2>1, <2>3 DEF On, AttachingAt, RemovingAt
  <2> QED BY <2>1, <2>2, <2>3, <2>4, <2>5, GotoKeepsOwn
<1> QED BY <1>4, <1>5, <1>6, <1>7, <1>8, <1>9, <1>10, <1>11 DEF Delivering

\* spawn_agent: its reservation is spawned, or dropped.
LEMMA AddingKeepsOwn ==
    ASSUME TypesInv, CallsInv, OwnInv, NEW c \in Callers, Adding(c)
    PROVE  OwnInv'
<1> DEFINE call == caller[c].call
           g == caller[c].gen
<1>1. caller[c] \in CallState /\ PlacedCall(caller[c]) /\ Fits(caller[c])
  BY DEF TypesInv, CallsInv
<1>2. \A pc : On(c, pc) => Passes(call, pc)
  BY <1>1 DEF Fits, On
<1>3. g \in Sessions => Mine(c) \in SessionState
  BY DEF TypesInv, Mine
<1>4. CASE Add(c)
  <2> DEFINE r == [NoCall EXCEPT !.call = "add", !.pc = "introduce", !.gen = published]
  <2>1. Become(c, r) /\ Comes(c) /\ UNCHANGED attach /\ UNCHANGED history /\ session' = session
    BY <1>4 DEF Add, Call
  <2>2. r.found = "none"
    BY DEF NoCall
  <2> HIDE DEF r
  <2> QED BY <2>1, <2>2, SameSettles, ComingKeepsOwn
<1>5. CASE Introduces(c)
  <2> DEFINE found == Reservation(session[g], FALSE)
  <2>1. call = "add" /\ On(c, "introduce")
    BY <1>2, <1>5, Passages DEF Introduces
  <2>2. g \in Sessions
    BY <1>1, <2>1, MineType DEF On, PlacedCall, Placed
  <2>3. /\ Take(g, found, "attaching") /\ Become(c, Reserved(c, "schedule", g, found))
        /\ attach' = attach /\ UNCHANGED history
    BY <1>5 DEF Introduces
  <2>4. found = "start" => ~session[g].stopped
    BY <1>1, <2>2, Starts
  <2>5. /\ ~AttachingAt(caller[c].call, caller[c].pc) /\ ~RemovingAt(caller[c].pc)
        /\ AttachingAt(caller[c].call, "schedule")
    BY <2>1 DEF On, AttachingAt, RemovingAt
  <2> HIDE DEF found
  <2> QED BY <2>2, <2>3, <2>4, <2>5, ReserveKeepsOwn
<1>6. CASE Schedules(c)
  <2> DEFINE t == [Mine(c) EXCEPT !.member = TRUE]
  <2>1. call = "add" /\ On(c, "schedule") /\ Update(g, t) /\ attach' = attach
    BY <1>2, <1>6, Passages DEF Schedules
  <2>2. g \in Sessions => Settles(Mine(c), t)
    BY <1>3 DEF SessionState, Settles, SameRegistry
  <2> HIDE DEF t
  <2>3. \A h \in Sessions : Settles(session[h], session'[h])
    BY <2>1, <2>2, MineSettles
  <2>4. CASE Goto(c, "look") /\ UNCHANGED history
    <3> DEFINE r == Moved(c, "look")
    <3>1. /\ r.pc = "look" /\ r.call = call /\ r.gen = g /\ r.found = caller[c].found
          /\ r.op = caller[c].op
      BY MovedFacts
    <3>2. Become(c, r)
      BY <2>4 DEF Goto
    <3> HIDE DEF r
    <3>3. /\ AttachingAt(r.call, r.pc) <=> AttachingAt(caller[c].call, caller[c].pc)
          /\ ~RemovingAt(caller[c].pc)
      BY <2>1, <3>1 DEF On, AttachingAt, RemovingAt
    <3> QED BY <2>1, <2>3, <2>4, <3>1, <3>2, <3>3, GotoKeepsOwn
  <2>5. CASE Drop(c) /\ Goto(c, "remove")
    <3> DEFINE r == Moved(c, "remove")
    <3>1. /\ r.pc = "remove" /\ r.call = call /\ r.gen = g /\ r.found = caller[c].found
          /\ r.op = caller[c].op
      BY MovedFacts
    <3>2. Become(c, r)
      BY <2>5 DEF Goto
    <3> HIDE DEF r
    <3>3. ~AttachingAt(r.call, r.pc)
      BY <3>1 DEF AttachingAt
    <3>4. /\ dropped \subseteq dropped'
          /\ caller[c].found = "start" => <<caller[c].gen, caller[c].op>> \in dropped'
      BY <2>5 DEF Drop, LetGo
    <3> QED BY <2>1, <2>3, <3>1, <3>2, <3>3, <3>4, RestingKeepsOwn
  <2> QED BY <1>6, <2>4, <2>5 DEF Schedules
<1>7. CASE Launches(c)
  <2>1. call = "add" /\ On(c, "launch") /\ session' = session
    BY <1>2, <1>7 DEF Launches, Passes
  <2> DEFINE pc == Afterwards(caller[c].found)
             r == Moved(c, pc)
  <2>2. CASE published = g
    <3>1. Become(c, r) /\ UNCHANGED history
          /\ IF caller[c].found = "start" THEN Spawn(g, caller[c].op, TRUE) ELSE UNCHANGED attach
      BY <1>7, <2>2 DEF Launches, Goto
    <3>2. /\ r.pc = pc /\ r.call = call /\ r.gen = g /\ r.found = caller[c].found
          /\ r.op = caller[c].op
      BY MovedFacts
    <3>3. pc \in {"join", "again", "done"}
      BY DEF Afterwards
    <3> HIDE DEF r, pc
    <3>4. ~AttachingAt(r.call, r.pc) /\ ~RemovingAt(caller[c].pc)
      BY <2>1, <3>2, <3>3 DEF AttachingAt, RemovingAt, On
    <3>5. CASE caller[c].found = "start"
      <4>1. g \in Sessions /\ caller[c].op \in Ops
        BY <1>1, <3>5, MineType, BoundsAssumption DEF PlacedCall, CallState, Ops
      <4>2. Attaches(caller[c], g, caller[c].op)
        BY <2>1, <3>5 DEF Attaches, AttachingAt, On
      <4>3. \A h \in Sessions, p \in Ops : ~Attaches(r, h, p) /\ ~Removes(caller[c], h, p)
        BY <3>4 DEF Attaches, Removes
      <4>4. dropped' = dropped
        BY <3>1 DEF history
      <4> QED BY <2>1, <3>1, <3>2, <3>5, <4>1, <4>2, <4>3, <4>4, SpawnKeepsOwn
    <3>6. CASE caller[c].found # "start"
      <4>1. attach' = attach /\ dropped' = dropped
        BY <3>1, <3>6 DEF history
      <4> QED BY <2>1, <3>1, <3>2, <3>4, <3>6, <4>1, SameSettles, RestingKeepsOwn
    <3> QED BY <3>5, <3>6
  <2>3. CASE published # g
    BY <1>7, <2>1, <2>3, SameSettles, ReturnKeepsOwn DEF Launches
  <2> QED BY <2>2, <2>3
<1>8. CASE Joins(c)
  <2>1. /\ On(c, "join") /\ attach' = attach /\ UNCHANGED history /\ session' = session
        /\ Goto(c, "again") \/ Goto(c, "done")
    BY <1>8 DEF Joins
  <2> QED BY <2>1, SameSettles, PassingKeepsOwn DEF On, AttachingAt, RemovingAt
<1>9. CASE TellsAgain(c)
  <2>1. On(c, "again") /\ attach' = attach /\ UNCHANGED history /\ Return(c)
    BY <1>9 DEF TellsAgain
  <2>2. \A h \in Sessions : Settles(session[h], session'[h])
    <3>1. CASE published = g
      BY <1>3, <1>9, <3>1, SettledStates, MineSettles DEF TellsAgain, Settles
    <3>2. CASE published # g
      BY <1>9, <3>2, SameSettles DEF TellsAgain
    <3> QED BY <3>1, <3>2
  <2>3. ~AttachingAt(caller[c].call, caller[c].pc) /\ ~RemovingAt(caller[c].pc)
    BY <2>1 DEF On, AttachingAt, RemovingAt
  <2> QED BY <2>1, <2>2, <2>3, ReturnKeepsOwn
<1> QED BY <1>4, <1>5, <1>6, <1>7, <1>8, <1>9 DEF Adding

\* ensure_session and retry: what they reserve they spawn at once.
LEMMA ReconcilingKeepsOwn ==
    ASSUME TypesInv, CallsInv, OwnInv, NEW c \in Callers, Reconciling(c)
    PROVE  OwnInv'
<1> DEFINE call == caller[c].call
           g == caller[c].gen
<1>1. caller[c] \in CallState /\ PlacedCall(caller[c]) /\ Fits(caller[c])
  BY DEF TypesInv, CallsInv
<1>2. \A pc : On(c, pc) => Passes(call, pc)
  BY <1>1 DEF Fits, On
<1>3. call \in Ensuring => \A pc : ~AttachingAt(call, pc)
  BY DEF Ensuring, AttachingAt
<1>4. CASE StartSession(c)
  <2>1. PICK name \in Ensuring : Become(c, [NoCall EXCEPT !.call = name, !.pc = "lead", !.gen = created + 1])
    BY <1>4 DEF StartSession
  <2> DEFINE r == [NoCall EXCEPT !.call = name, !.pc = "lead", !.gen = created + 1]
             h == created + 1
             t == [session[h] EXCEPT !.member = (roster = "in")]
  <2>2. Become(c, r) /\ Comes(c) /\ UNCHANGED attach /\ UNCHANGED history /\ Update(h, t)
    BY <1>4, <2>1 DEF StartSession
  <2>3. r.found = "none"
    BY DEF NoCall
  <2>4. h \in Sessions => Settles(session[h], t)
    BY DEF TypesInv, SessionState, Settles, SameRegistry
  <2> HIDE DEF r, t
  <2>5. \A k \in Sessions : Settles(session[k], session'[k])
    BY <2>2, <2>4, UpdateSettles
  <2> QED BY <2>2, <2>3, <2>5, ComingKeepsOwn
<1>5. CASE LeadAttaches(c) \/ LeadFails(c) \/ Awaits(c)
  <2>1. /\ On(c, "lead") \/ On(c, "await")
        /\ attach' = attach /\ UNCHANGED history /\ session' = session
        /\ \E pc : Goto(c, pc)
    BY <1>5 DEF LeadAttaches, LeadFails, Awaits
  <2>2. call \in Ensuring
    BY <1>2, <2>1, Passages
  <2>3. ~RemovingAt(caller[c].pc)
    BY <2>1 DEF On, RemovingAt
  <2> QED BY <1>3, <2>1, <2>2, <2>3, SameSettles, PassingKeepsOwn
<1>6. CASE Reconcile(c)
  <2>1. PICK name \in Ensuring, pc \in {"await", "repair", "reattach"} :
           Become(c, [NoCall EXCEPT !.call = name, !.pc = pc, !.gen = published])
    BY <1>6 DEF Reconcile, Call, Plan
  <2> DEFINE r == [NoCall EXCEPT !.call = name, !.pc = pc, !.gen = published]
             t == [session[published] EXCEPT !.member = TRUE]
  <2>2. Become(c, r) /\ Comes(c) /\ UNCHANGED attach /\ UNCHANGED history
        /\ (Update(published, t) \/ session' = session)
    BY <1>6, <2>1 DEF Reconcile, Call
  <2>3. r.found = "none"
    BY DEF NoCall
  <2>4. published \in Sessions => Settles(session[published], t)
    BY DEF TypesInv, SessionState, Settles, SameRegistry
  <2> HIDE DEF r, t
  <2>5. \A k \in Sessions : Settles(session[k], session'[k])
    BY <2>2, <2>4, UpdateSettles, SameSettles
  <2> QED BY <2>2, <2>3, <2>5, ComingKeepsOwn
<1>7. CASE ReservesAgain(c)
  <2> DEFINE found == IF On(c, "repair") THEN RepairReservation(session[g])
                      ELSE Reservation(session[g], TRUE)
             pc == IF found = "stopped" THEN "done" ELSE "await"
  <2>1. call \in Ensuring /\ (On(c, "repair") \/ On(c, "reattach"))
    BY <1>2, <1>7, Passages DEF ReservesAgain
  <2>2. g \in Sessions
    BY <1>1, <2>1, MineType DEF On, PlacedCall, Placed
  <2>3. /\ Take(g, found, "attaching") /\ Become(c, Reserved(c, pc, g, found)) /\ UNCHANGED history
        /\ IF found = "start" THEN Spawn(g, session[g].next, FALSE) ELSE UNCHANGED attach
    BY <1>7 DEF ReservesAgain
  <2>4. found = "start" => ~session[g].stopped
    BY <1>1, <2>2, Starts
  <2>5. /\ ~AttachingAt(caller[c].call, caller[c].pc) /\ ~RemovingAt(caller[c].pc)
        /\ ~AttachingAt(caller[c].call, pc)
    BY <1>3, <2>1 DEF On, RemovingAt
  <2> HIDE DEF found, pc
  <2> QED BY <2>2, <2>3, <2>4, <2>5, ReserveKeepsOwn
<1>8. CASE Retry(c)
  <2>1. /\ On(c, "retry") /\ attach' = attach /\ UNCHANGED history /\ session' = session
        /\ Become(c, [Moved(c, "retry attach") EXCEPT !.gen = published]) \/ Return(c)
    BY <1>8 DEF Retry
  <2>2. ~AttachingAt(caller[c].call, caller[c].pc) /\ ~RemovingAt(caller[c].pc)
    BY <2>1 DEF On, AttachingAt, RemovingAt
  <2>3. CASE Become(c, [Moved(c, "retry attach") EXCEPT !.gen = published])
    <3> DEFINE r == [Moved(c, "retry attach") EXCEPT !.gen = published]
    <3>1. /\ r.pc = "retry attach" /\ r.call = call /\ r.gen = published /\ r.found = caller[c].found
          /\ r.op = caller[c].op
      BY <1>1 DEF CallState, Moved
    <3>2. Become(c, r)
      BY <2>3
    <3> HIDE DEF r
    <3>3. ~AttachingAt(r.call, r.pc)
      BY <3>1 DEF AttachingAt
    <3>4. dropped \subseteq dropped'
      BY <2>1 DEF history
    <3> QED BY <2>1, <2>2, <3>2, <3>3, <3>4, SameSettles, RestingKeepsOwn
  <2>4. CASE Return(c)
    BY <2>1, <2>2, <2>4, SameSettles, ReturnKeepsOwn
  <2> QED BY <2>1, <2>3, <2>4
<1>9. CASE RetriesAttach(c)
  <2> DEFINE found == Reservation(session[g], TRUE)
             pc == Afterwards(found)
  <2>1. On(c, "retry attach")
    BY <1>9 DEF RetriesAttach
  <2>2. g \in Sessions
    BY <1>1, <2>1, MineType DEF On, PlacedCall, Placed
  <2>3. /\ Take(g, found, "attaching") /\ Become(c, Reserved(c, pc, g, found)) /\ UNCHANGED history
        /\ IF found = "start" THEN Spawn(g, session[g].next, TRUE) ELSE UNCHANGED attach
    BY <1>9 DEF RetriesAttach
  <2>4. found = "start" => ~session[g].stopped
    BY <1>1, <2>2, Starts
  <2>5. pc \in {"join", "again", "done"}
    BY DEF Afterwards
  <2> HIDE DEF found, pc
  <2>6. /\ ~AttachingAt(caller[c].call, caller[c].pc) /\ ~RemovingAt(caller[c].pc)
        /\ ~AttachingAt(caller[c].call, pc)
    BY <2>1, <2>5 DEF On, AttachingAt, RemovingAt
  <2> QED BY <2>2, <2>3, <2>4, <2>6, ReserveKeepsOwn
<1> QED BY <1>4, <1>5, <1>6, <1>7, <1>8, <1>9 DEF Reconciling

\* A removal that goes on holds what it held, and one that ends has ended its
\* operation, or no longer owns the entry, or has dropped it.
LEMMA RemovalGoesOn ==
    ASSUME TypesInv, OwnInv, NEW c \in Callers, NEW pc, Goto(c, pc), UNCHANGED attach,
           dropped \subseteq dropped', \A h \in Sessions : Settles(session[h], session'[h]),
           RemovingAt(caller[c].pc), RemovingAt(pc)
    PROVE  OwnInv'
<1> DEFINE r == Moved(c, pc)
<1>1. /\ r.pc = pc /\ r.call = caller[c].call /\ r.gen = caller[c].gen /\ r.op = caller[c].op
      /\ r.found = caller[c].found
  BY MovedFacts
<1>2. Become(c, r)
  BY DEF Goto
<1> HIDE DEF r
<1>3. ~AttachingAt(caller[c].call, caller[c].pc) /\ ~AttachingAt(r.call, r.pc)
  BY <1>1 DEF AttachingAt, RemovingAt
<1>4. \A h \in Sessions, p \in Ops :
         /\ ~Attaches(r, h, p) /\ ~Attaches(caller[c], h, p)
         /\ Removes(caller[c], h, p) => Removes(r, h, p)
  BY <1>1, <1>3 DEF Attaches, Removes
<1> QED BY <1>2, <1>4, CallKeepsOwn

\* A removal that holds the entry ends it; the call returns.
LEMMA RemovalEnds ==
    ASSUME TypesInv, OwnInv, NEW c \in Callers, Return(c), UNCHANGED attach, UNCHANGED history,
           RemovingAt(caller[c].pc), NEW entry, NEW answer, entry.kind \notin {"attaching", "removing"},
           caller[c].gen \in Sessions \/ caller[c].found # "start",
           IF caller[c].found = "start" /\ Owns(Mine(c), "removing", caller[c].op)
           THEN Update(caller[c].gen, End(Mine(c), caller[c].op, entry, answer))
           ELSE UNCHANGED session
    PROVE  OwnInv'
<1> DEFINE r == [NoCall EXCEPT !.pc = "done"]
           g == caller[c].gen
           o == caller[c].op
<1>1. Become(c, r) /\ r.found = "none" /\ dropped' = dropped
  BY DEF Return, NoCall, history
<1> HIDE DEF r
<1>2. ~AttachingAt(caller[c].call, caller[c].pc)
  BY DEF AttachingAt, RemovingAt
<1>3. \A h \in Sessions, p \in Ops : ~Attaches(r, h, p) /\ ~Attaches(caller[c], h, p)
  BY <1>1, <1>2 DEF Attaches
<1>4. CASE caller[c].found = "start" /\ Owns(Mine(c), "removing", o)
  <2>1. g \in Sessions /\ session[g] \in SessionState /\ Mine(c) = session[g]
    BY <1>4 DEF TypesInv, Mine
  <2>2. Settled(session[g], End(session[g], o, entry, answer))
    BY <1>4, <2>1, SettledStates
  <2>3. Update(g, End(session[g], o, entry, answer))
    BY <1>4, <2>1
  <2>4. \A h \in Sessions : Settles(session[h], session'[h])
    BY <2>2, <2>3, UpdateSettles DEF Settles
  <2>5. session'[g] = End(session[g], o, entry, answer)
    BY <2>1, <2>3 DEF TypesInv, Update
  <2>6. session'[g].entry # BeingRemoved(o)
    BY <2>1, <2>2, <2>5, BoundsAssumption DEF Settled, End, SessionState, BeingRemoved, State
  <2>7. \A h \in Sessions, p \in Ops :
           Removes(caller[c], h, p) => session'[h].entry # BeingRemoved(p)
    BY <2>6 DEF Removes
  <2> QED BY <1>1, <1>3, <2>4, <2>7, CallKeepsOwn
<1>5. CASE ~(caller[c].found = "start" /\ Owns(Mine(c), "removing", o))
  <2>1. session' = session
    BY <1>5
  <2>2. \A h \in Sessions, p \in Ops :
           Removes(caller[c], h, p) => session'[h].entry # BeingRemoved(p)
    <3> SUFFICES ASSUME NEW h \in Sessions, NEW p \in Ops, Removes(caller[c], h, p)
                 PROVE  session'[h].entry # BeingRemoved(p)
      OBVIOUS
    <3>1. h = g /\ p = o /\ ~Owns(session[g], "removing", o)
      BY <1>5 DEF Removes, Mine
    <3>2. session[g].entry # State("removing", o)
      BY <3>1, NotOwned
    <3> QED BY <2>1, <3>1, <3>2 DEF BeingRemoved
  <2> QED BY <1>1, <1>3, <2>1, <2>2, SameSettles, CallKeepsOwn
<1> QED BY <1>4, <1>5

\* A call begins a removal, joins one, or finds nothing to remove; what it held it
\* has dropped.
LEMMA RemovalBegins ==
    ASSUME TypesInv, OwnInv, NEW c \in Callers, NEW g, NEW pc, NEW found, attach' = attach,
           dropped \subseteq dropped', found = "start" => g \in Sessions /\ ~session[g].stopped,
           Take(g, found, "removing"), Become(c, Reserved(c, pc, g, found)),
           found = "start" => RemovingAt(pc), \A call : ~AttachingAt(call, pc),
           \A h \in Sessions, p \in Ops :
              ~Attaches(caller[c], h, p) /\ (Removes(caller[c], h, p) => <<h, p>> \in dropped')
    PROVE  OwnInv'
<1> DEFINE r == Reserved(c, pc, g, found)
<1>1. caller[c] \in CallState
  BY DEF TypesInv
<1>2. Become(c, r) /\ r.found = found /\ r.gen = g /\ r.pc = pc
  BY <1>1 DEF Reserved, CallState
<1>3. found = "start" => r.op = session[g].next
  BY <1>1 DEF Reserved, CallState
<1> HIDE DEF r
<1>4. \A h, p : ~Attaches(r, h, p)
  BY <1>2 DEF Attaches
<1>5. CASE found = "start"
  <2>1. session[g].next \in Ops /\ Update(g, Begin(session[g], "removing"))
    BY <1>5 DEF Take
  <2>2. Removes(r, g, session[g].next)
    BY <1>2, <1>3, <1>5 DEF Removes
  <2> DEFINE kind == "removing"
             background == FALSE
  <2>3. kind \in {"attaching", "removing"} /\ background \in BOOLEAN
    OBVIOUS
  <2>4. Update(g, Begin(session[g], kind))
    BY <2>1
  <2>5. kind = "removing" /\ attach' = attach
    OBVIOUS
  <2> HIDE DEF kind, background
  <2> QED BY <1>2, <1>3, <1>4, <1>5, <2>1, <2>2, <2>3, <2>4, <2>5, BeginKeepsOwn
<1>6. CASE found # "start"
  <2>1. session' = session
    BY <1>6 DEF Take
  <2>2. \A h \in Sessions, p \in Ops : ~Attaches(r, h, p)
    BY <1>4
  <2> QED BY <1>2, <2>1, <2>2, SameSettles, CallKeepsOwn
<1> QED BY <1>5, <1>6

\* remove_agent: its removal is finished or restored, or dropped.
LEMMA RemovingKeepsOwn ==
    ASSUME TypesInv, CallsInv, OwnInv, NEW c \in Callers, Removing(c)
    PROVE  OwnInv'
<1> DEFINE g == caller[c].gen
<1>1. caller[c] \in CallState /\ PlacedCall(caller[c])
  BY DEF TypesInv
<1>2. g \in Sessions => Mine(c) \in SessionState
  BY DEF TypesInv, Mine
<1>3. caller[c].found = "start" => g \in Sessions
  BY <1>1, MineType DEF PlacedCall
<1>4. published \in Sessions \cup {0}
  BY BoundsAssumption DEF TypesInv, Sessions
<1>5. UNCHANGED attach
  BY DEF Removing, Remove, BeginsRemoval, AwaitsRemoval, StopsLoop, KillsAgent, Persists, Restores,
         FindsSession, StopsLoopAgain, KillsAgentAgain, Unschedules, FinishesRemoval
<1>6. CASE Remove(c)
  <2> DEFINE r == [NoCall EXCEPT !.call = "remove", !.pc = "remove", !.gen = published]
  <2>1. Become(c, r) /\ Comes(c) /\ UNCHANGED history /\ session' = session
    BY <1>6 DEF Remove, Call
  <2>2. r.found = "none"
    BY DEF NoCall
  <2> HIDE DEF r
  <2> QED BY <1>5, <2>1, <2>2, SameSettles, ComingKeepsOwn
<1>7. CASE BeginsRemoval(c)
  <2>1. On(c, "remove") /\ dropped' = dropped
    BY <1>7 DEF BeginsRemoval
  <2>2. ~AttachingAt(caller[c].call, caller[c].pc) /\ ~RemovingAt(caller[c].pc)
    BY <2>1 DEF On, AttachingAt, RemovingAt
  <2>3. CASE roster = "in"
    <3> DEFINE found == Removal(published)
               pc == IF found = "join" THEN "await removal" ELSE "stop loop"
    <3>1. Take(published, found, "removing") /\ Become(c, Reserved(c, pc, published, found))
      BY <1>7, <2>3 DEF BeginsRemoval
    <3>2. /\ found = "start" => RemovingAt(pc)
          /\ \A call : ~AttachingAt(call, pc)
      BY DEF RemovingAt, AttachingAt
    <3>4. found = "start" => published \in Sessions /\ ~session[published].stopped
      BY <1>4 DEF Removal
    <3> HIDE DEF pc, found
    <3>3. \A h \in Sessions, p \in Ops : ~Attaches(caller[c], h, p) /\ ~Removes(caller[c], h, p)
      BY <2>2 DEF Attaches, Removes
    <3> QED BY <1>5, <2>1, <3>1, <3>2, <3>3, <3>4, RemovalBegins
  <2>4. CASE roster # "in"
    <3>1. Return(c) /\ session' = session /\ UNCHANGED history
      BY <1>7, <2>4 DEF BeginsRemoval, history
    <3> QED BY <1>5, <2>2, <3>1, SameSettles, ReturnKeepsOwn
  <2> QED BY <2>3, <2>4
<1>8. CASE AwaitsRemoval(c)
  <2>1. /\ On(c, "await removal") \/ On(c, "await other")
        /\ UNCHANGED history /\ session' = session
        /\ Goto(c, "stop loop again") \/ Return(c)
    BY <1>8 DEF AwaitsRemoval
  <2>2. ~AttachingAt(caller[c].call, caller[c].pc) /\ ~RemovingAt(caller[c].pc)
    BY <2>1 DEF On, AttachingAt, RemovingAt
  <2>3. CASE Goto(c, "stop loop again")
    BY <1>5, <2>1, <2>2, <2>3, SameSettles, PassingKeepsOwn DEF AttachingAt
  <2>4. CASE Return(c)
    BY <1>5, <2>1, <2>2, <2>4, SameSettles, ReturnKeepsOwn
  <2> QED BY <2>1, <2>3, <2>4
<1>9. CASE StopsLoop(c) \/ KillsAgent(c) \/ StopsLoopAgain(c) \/ KillsAgentAgain(c) \/ Unschedules(c)
  <2>1. g \in Sessions => /\ Settles(Mine(c), RemoveLoop(Mine(c)))
                          /\ Settles(Mine(c), [Mine(c) EXCEPT !.member = FALSE])
    <3>1. g \in Sessions => Settles(Mine(c), [Mine(c) EXCEPT !.member = FALSE])
      BY <1>2 DEF SessionState, Settles, SameRegistry
    <3> QED BY <1>2, <3>1, SettledStates DEF Settles
  <2>2. \/ session' = session \/ Update(g, RemoveLoop(Mine(c)))
        \/ Update(g, [Mine(c) EXCEPT !.member = FALSE])
    BY <1>9 DEF StopsLoop, KillsAgent, StopsLoopAgain, KillsAgentAgain, Unschedules
  <2>3. \A h \in Sessions : Settles(session[h], session'[h])
    BY <2>1, <2>2, SameSettles, MineSettles
  <2>4. /\ \E from \in {"stop loop", "kill", "stop loop again", "kill again", "unschedule"} : On(c, from)
        /\ \E pc \in {"kill", "persist", "kill again", "unschedule", "finish"} : Goto(c, pc)
        /\ dropped' = dropped
    BY <1>9 DEF StopsLoop, KillsAgent, StopsLoopAgain, KillsAgentAgain, Unschedules, history
  <2>5. RemovingAt(caller[c].pc)
    BY <2>4 DEF On, RemovingAt
  <2>6. PICK pc \in {"kill", "persist", "kill again", "unschedule", "finish"} : Goto(c, pc)
    BY <2>4
  <2>7. RemovingAt(pc)
    BY DEF RemovingAt
  <2> QED BY <1>5, <2>3, <2>4, <2>5, <2>6, <2>7, RemovalGoesOn
<1>10. CASE Persists(c)
  <2>1. On(c, "persist") /\ session' = session
    BY <1>10 DEF Persists
  <2>2. RemovingAt(caller[c].pc)
    BY <2>1 DEF On, RemovingAt
  <2>3. CASE \E pc \in {"find session", "restore"} : Goto(c, pc) /\ UNCHANGED history
    <3>1. PICK pc \in {"find session", "restore"} : Goto(c, pc) /\ UNCHANGED history
      BY <2>3
    <3>2. RemovingAt(pc) /\ dropped' = dropped
      BY <3>1 DEF RemovingAt, history
    <3> QED BY <1>5, <2>1, <2>2, <3>1, <3>2, SameSettles, RemovalGoesOn
  <2>4. CASE Drop(c) /\ Return(c)
    BY <1>5, <2>1, <2>4, SameSettles, ReturnKeepsOwn
  <2> QED BY <1>10, <2>3, <2>4 DEF Persists
<1>11. CASE Restores(c) \/ FinishesRemoval(c)
  <2>1. (On(c, "restore") \/ On(c, "finish")) /\ Return(c) /\ UNCHANGED history
    BY <1>11 DEF Restores, FinishesRemoval
  <2>2. RemovingAt(caller[c].pc)
    BY <2>1 DEF On, RemovingAt
  <2>3. /\ State("failed", caller[c].op).kind \notin {"attaching", "removing"}
        /\ Absent.kind \notin {"attaching", "removing"}
    BY StateFacts DEF Absent
  <2>4. CASE Restores(c)
    BY <1>3, <1>5, <2>1, <2>2, <2>3, <2>4, RemovalEnds DEF Restores
  <2>5. CASE FinishesRemoval(c)
    BY <1>3, <1>5, <2>1, <2>2, <2>3, <2>5, RemovalEnds DEF FinishesRemoval
  <2> QED BY <1>11, <2>4, <2>5
<1>12. CASE FindsSession(c)
  <2>1. On(c, "find session")
    BY <1>12 DEF FindsSession
  <2>2. RemovingAt(caller[c].pc) /\ ~AttachingAt(caller[c].call, caller[c].pc)
    BY <2>1 DEF On, RemovingAt, AttachingAt
  <2>3. CASE Return(c) /\ Drop(c) /\ session' = session
    BY <1>5, <2>3, SameSettles, ReturnKeepsOwn
  <2>4. CASE Goto(c, "stop loop again") /\ session' = session /\ UNCHANGED history
    <3>1. RemovingAt("stop loop again") /\ dropped' = dropped
      BY <2>4 DEF RemovingAt, history
    <3> QED BY <1>5, <2>2, <2>4, <3>1, SameSettles, RemovalGoesOn
  <2>5. CASE /\ Take(published, Removal(published), "removing")
             /\ Become(c, Reserved(c, IF Removal(published) = "join" THEN "await other"
                                      ELSE "stop loop again", published, Removal(published)))
             /\ LetGo(c)
    <3> DEFINE found == Removal(published)
               pc == IF found = "join" THEN "await other" ELSE "stop loop again"
    <3>1. Take(published, found, "removing") /\ Become(c, Reserved(c, pc, published, found))
      BY <2>5
    <3>2. /\ found = "start" => RemovingAt(pc)
          /\ \A call : ~AttachingAt(call, pc)
      BY DEF RemovingAt, AttachingAt
    <3>5. found = "start" => published \in Sessions /\ ~session[published].stopped
      BY <1>4 DEF Removal
    <3> HIDE DEF pc, found
    <3>3. \A h \in Sessions, p \in Ops :
             ~Attaches(caller[c], h, p) /\ (Removes(caller[c], h, p) => <<h, p>> \in dropped')
      BY <2>2, <2>5 DEF Attaches, Removes, LetGo
    <3>4. dropped \subseteq dropped'
      BY <2>5 DEF LetGo
    <3> QED BY <1>5, <3>1, <3>2, <3>3, <3>4, <3>5, RemovalBegins
  <2> QED BY <1>12, <2>3, <2>4, <2>5 DEF FindsSession
<1> QED BY <1>6, <1>7, <1>8, <1>9, <1>10, <1>11, <1>12 DEF Removing

\* The calls that stop a session hold nothing; the registry they stop holds nothing.
LEMMA StoppingKeepsOwn ==
    ASSUME TypesInv, CallsInv, OwnInv, NEW c \in Callers, Stopping(c)
    PROVE  OwnInv'
<1> DEFINE g == caller[c].gen
<1>1. g \in Sessions => Mine(c) \in SessionState /\ (Mine(c).stopped => Mine(c).entry = Absent)
  BY DEF TypesInv, OwnInv, StoppedHoldsNothing, Mine
<1>2. UNCHANGED attach /\ UNCHANGED history
  BY DEF Stopping, Stop, StopsWork, StopsRegistry, StopsLoops, KillsIdle, Unpublishes
<1>3. CASE Stop(c)
  <2>1. PICK name \in {"stop", "idle"} :
           Become(c, [NoCall EXCEPT !.call = name, !.pc = "stop work", !.gen = published])
    BY <1>3 DEF Stop, Call
  <2> DEFINE r == [NoCall EXCEPT !.call = name, !.pc = "stop work", !.gen = published]
  <2>2. Become(c, r) /\ Comes(c) /\ session' = session
    BY <1>3, <2>1 DEF Stop, Call
  <2>3. r.found = "none"
    BY DEF NoCall
  <2> HIDE DEF r
  <2> QED BY <1>2, <2>2, <2>3, SameSettles, ComingKeepsOwn
<1>4. CASE StopsWork(c) \/ StopsRegistry(c) \/ StopsLoops(c)
  <2>1. g \in Sessions => /\ Settles(Mine(c), StopWork(Mine(c)))
                          /\ Settles(Mine(c), StopEntries(Mine(c)))
                          /\ Settles(Mine(c), [RemoveLoop(Mine(c)) EXCEPT !.closed = TRUE])
    <3>1. g \in Sessions => Settles(Mine(c), [RemoveLoop(Mine(c)) EXCEPT !.closed = TRUE])
      BY <1>1 DEF RemoveLoop, SessionState, Settles, SameRegistry
    <3> QED BY <1>1, <3>1, SettledStates DEF Settles
  <2>2. \/ Update(g, StopWork(Mine(c))) \/ Update(g, StopEntries(Mine(c)))
        \/ Update(g, [RemoveLoop(Mine(c)) EXCEPT !.closed = TRUE])
    BY <1>4 DEF StopsWork, StopsRegistry, StopsLoops
  <2>3. \A h \in Sessions : Settles(session[h], session'[h])
    BY <2>1, <2>2, MineSettles
  <2>4. /\ On(c, "stop work") \/ On(c, "stop registry") \/ On(c, "stop loops")
        /\ Goto(c, "stop registry") \/ Goto(c, "stop loops") \/ \E pc : On(c, "stop loops") /\ Goto(c, pc)
    BY <1>4 DEF StopsWork, StopsRegistry, StopsLoops
  <2>5. ~AttachingAt(caller[c].call, caller[c].pc) /\ ~RemovingAt(caller[c].pc)
    BY <2>4 DEF On, AttachingAt, RemovingAt
  <2>6. CASE StopsWork(c)
    BY <1>2, <2>3, <2>5, <2>6, PassingKeepsOwn DEF StopsWork, AttachingAt
  <2>7. CASE StopsRegistry(c)
    BY <1>2, <2>3, <2>5, <2>7, PassingKeepsOwn DEF StopsRegistry, AttachingAt
  <2>8. CASE StopsLoops(c)
    <3>1. caller[c].call \in Ensuring \cup {"stop", "idle"}
      BY <2>8, Passages DEF StopsLoops, On, CallsInv, Fits
    <3>2. \A pc : ~AttachingAt(caller[c].call, pc)
      BY <3>1 DEF AttachingAt, Ensuring
    <3>3. \E pc : Goto(c, pc)
      BY <2>8 DEF StopsLoops
    <3> QED BY <1>2, <2>3, <2>5, <3>2, <3>3, PassingKeepsOwn
  <2> QED BY <1>4, <2>6, <2>7, <2>8
<1>5. CASE KillsIdle(c) \/ Unpublishes(c)
  <2>1. (On(c, "kill idle") \/ On(c, "unpublish")) /\ Return(c) /\ session' = session
    BY <1>5 DEF KillsIdle, Unpublishes
  <2>2. ~AttachingAt(caller[c].call, caller[c].pc) /\ ~RemovingAt(caller[c].pc)
    BY <2>1 DEF On, AttachingAt, RemovingAt
  <2> QED BY <1>2, <2>1, <2>2, SameSettles, ReturnKeepsOwn
<1> QED BY <1>3, <1>4, <1>5 DEF Stopping

\* Who owns the entry is kept by every step.
LEMMA NextKeepsOwn ==
    ASSUME TypesInv, CallsInv, OwnInv, [Next]_vars
    PROVE  OwnInv'
<1>1. CASE \E g \in Sessions, o \in Ops : Attach(g, o)
  BY <1>1, AttachKeepsOwn
<1>2. CASE \E g \in Sessions : Loop(g)
  BY <1>2, LoopKeepsOwn
<1>3. CASE \E c \in Callers : Acts(c)
  BY <1>3, DeliveringKeepsOwn, AddingKeepsOwn, ReconcilingKeepsOwn, RemovingKeepsOwn,
     StoppingKeepsOwn DEF Acts
<1>4. CASE AgentDies \/ UNCHANGED vars
  BY <1>4, RestKeepsOwn, SameSettles DEF AgentDies, vars, history
<1> QED BY <1>1, <1>2, <1>3, <1>4 DEF Next

\* At first no entry is owned and nobody owns one.
LEMMA InitOwn ==
    ASSUME Init
    PROVE  OwnInv
<1>1. \A g \in Sessions : session[g].entry = Absent
  BY DEF Init, Fresh
<1>2. \A g \in Sessions, o \in Ops : attach[g][o].pc = "unused"
  BY DEF Init, NoAttach
<1>3. \A c \in Callers, g \in Sessions, o \in Ops : ~Attaches(caller[c], g, o)
  BY DEF Init, NoCall, Attaches
<1>4. \A o : Absent # Attaching(o) /\ Absent # BeingRemoved(o)
  BY StateFacts DEF Absent, Attaching, BeingRemoved
<1> QED BY <1>1, <1>2, <1>3, <1>4 DEF OwnInv, StoppedHoldsNothing, TasksBegun, CallsBegun,
           OneSpawner, Owned

(***************************************************************************)
(* Loops and work.                                                         *)
(***************************************************************************)

\* A task that has registered a loop which it commits or removes again, and one that
\* is to tell the loop that the member is ready.
Registers(a) == a.registered /\ a.pc \in {"commit", "deregister"}
TellsReady(a) == a.pc \in {"ready", "notify"}

\* A call that is to wake the loop; one that has removed the loop of the member for the
\* last time; one that stops a session, or takes it back; and one that removes a
\* member which is no longer in the team.
WakesIn(r, g) == r.gen = g /\ r.pc = "wake"
LastRemoves(r, g, o) ==
    r.found = "start" /\ r.gen = g /\ r.op = o /\ r.pc \in {"kill again", "unschedule", "finish"}
BeganRemoval(r, g, o) ==
    r.found = "start" /\ r.gen = g /\ r.op = o /\ (RemovingAt(r.pc) \/ r.pc = "await other")
StopsIn(r, g) == r.gen = g /\ r.pc \in {"stop work", "stop registry", "stop loops"}
TakesBack(r, g) == r.gen = g /\ r.pc \in {"stop loops", "unpublish"}
LateAt(pc) ==
    pc \in {"find session", "await other", "stop loop again", "kill again", "unschedule", "finish"}

Registering(g) == \E o \in Ops : Registers(attach[g][o])
Telling(g) == \E o \in Ops : TellsReady(attach[g][o])
Waking(g) == \E c \in Callers : WakesIn(caller[c], g)
Cleared(g) ==
    \E c \in Callers, o \in Ops :
       LastRemoves(caller[c], g, o) /\ session[g].entry = BeingRemoved(o)

\* A session that is yet to be created runs nothing.
NotBegun(g) ==
    g > created => ~session[g].stopped /\ ~session[g].loop /\ ~session[g].work

\* The loop of a member that the registry does not know, or has all but removed, is
\* one that a task has just registered, and will remove again.
LoopIsKnown(g) ==
    session[g].loop /\ ~session[g].stopped /\ (session[g].entry = Absent \/ Cleared(g)) =>
       Registering(g)

\* The loop of a ready member has been told of its work, is looking, or will be told.
WorkIsTold(g) ==
    roster # "out" /\ session[g].work =>
       /\ session[g].member
       /\ session[g].loop /\ session[g].entry = Ready =>
             \/ session[g].notified \/ session[g].reading = Ready
             \/ Waking(g) \/ Telling(g) \/ Registering(g)

RunsWell(g) == NotBegun(g) /\ LoopIsKnown(g) /\ WorkIsTold(g)

\* A session that is stopped while it is published is taken back by the call that
\* stops it, an ensure; a removal has been begun; and the calls that remove the member
\* from a session for good find it out of the team.
StopsWell ==
    \A g \in Sessions :
       session[g].stopped /\ published = g => \E c \in Callers : TakesBack(caller[c], g)

CallWell(c) ==
    /\ \A g \in Sessions : StopsIn(caller[c], g) /\ published = g => caller[c].call \in Ensuring
    /\ \A g \in Sessions, o \in Ops : BeganRemoval(caller[c], g, o) => o < session[g].next
    /\ LateAt(caller[c].pc) => roster = "out"

RunInv ==
    /\ \A g \in Sessions : RunsWell(g)
    /\ StopsWell
    /\ \A c \in Callers : CallWell(c)

\* The step t of a session s starts no loop, forgets no member, gives no work, and
\* leaves the entry to a member that runs or is being attached.
Calm(s, t) ==
    /\ t.next >= s.next /\ t.stopped = s.stopped
    /\ t.loop => s.loop /\ (t.entry = s.entry \/ t.entry.kind \notin {"absent", "removing", "ready"})
    /\ t.work => s.work
    /\ s.member => t.member
    /\ \/ t.notified \/ ~t.loop
       \/ t.notified = s.notified /\ (s.reading = Ready => t.reading = Ready)

\* What is calm.
LEMMA CalmStates ==
    ASSUME NEW s \in SessionState
    PROVE  /\ \A k, b : Calm(s, Constrain(s, k, b))
           /\ Calm(s, StopWork(s)) /\ Calm(s, RemoveLoop(s)) /\ Calm(s, Notify(s))
           /\ Calm(s, ReadyAgain(s)) /\ Calm(s, s)
           /\ Calm(s, [s EXCEPT !.member = TRUE])
           /\ Calm(s, [RemoveLoop(s) EXCEPT !.closed = TRUE])
           /\ Calm(s, Begin(s, "attaching"))
           /\ \A o, p, answer : Calm(s, End(s, o, State("failed", p), answer))
<1>1. /\ s.next \in Nat /\ s.notified \in BOOLEAN /\ s.loop \in BOOLEAN /\ s.work \in BOOLEAN
      /\ s.member \in BOOLEAN /\ s.stopped \in BOOLEAN
  BY DEF SessionState
<1>2. \A k, b : Calm(s, Constrain(s, k, b))
  BY <1>1 DEF Calm, Constrain, SessionState
<1>3. Calm(s, StopWork(s))
  BY <1>1 DEF Calm, StopWork, SessionState
<1>4. Calm(s, RemoveLoop(s)) /\ Calm(s, s)
  BY <1>1 DEF Calm, RemoveLoop, SessionState
<1>5. Calm(s, Notify(s))
  BY <1>1 DEF Calm, Notify, SessionState
<1>6. Calm(s, ReadyAgain(s))
  BY <1>1 DEF Calm, ReadyAgain, Notify, Constrain, SessionState
<1>7. Calm(s, [s EXCEPT !.member = TRUE]) /\ Calm(s, [RemoveLoop(s) EXCEPT !.closed = TRUE])
  BY <1>1 DEF Calm, RemoveLoop, SessionState
<1>8. Calm(s, Begin(s, "attaching"))
  <2> DEFINE t == Begin(s, "attaching")
  <2>1. /\ t.next = s.next + 1 /\ t.stopped = s.stopped /\ t.loop = s.loop /\ t.work = s.work
        /\ t.member = s.member /\ t.notified = s.notified /\ t.reading = s.reading
        /\ t.entry.kind = "attaching"
    BY StateFacts DEF Begin, SessionState
  <2> HIDE DEF t
  <2>2. Calm(s, t)
    BY <1>1, <2>1 DEF Calm
  <2> QED BY <2>2 DEF t
<1>9. \A o, p, answer : Calm(s, End(s, o, State("failed", p), answer))
  <2> SUFFICES ASSUME NEW o, NEW p, NEW answer PROVE Calm(s, End(s, o, State("failed", p), answer))
    OBVIOUS
  <2> DEFINE t == End(s, o, State("failed", p), answer)
  <2>1. /\ t.next = s.next /\ t.stopped = s.stopped /\ t.loop = s.loop /\ t.work = s.work
        /\ t.member = s.member /\ t.notified = s.notified /\ t.reading = s.reading
        /\ t.entry.kind = "failed"
    BY StateFacts DEF End, SessionState
  <2> HIDE DEF t
  <2>2. Calm(s, t)
    BY <1>1, <2>1 DEF Calm
  <2> QED BY <2>2 DEF t
<1> QED BY <1>2, <1>3, <1>4, <1>5, <1>6, <1>7, <1>8, <1>9

\* A session that changes calmly runs well, if nobody leaves it who was to tell or to
\* remove its loop, and no removal joins that has not removed the loop.
LEMMA CalmRunsWell ==
    ASSUME NEW g \in Sessions, RunsWell(g), Calm(session[g], session'[g]),
           g > created' => g > created, roster' # "out" => roster # "out",
           Registering(g) => Registering(g)' \/ ~session'[g].loop,
           Telling(g) => Telling(g)' \/ session'[g].notified \/ ~session'[g].loop,
           Waking(g) => Waking(g)' \/ session'[g].notified \/ ~session'[g].loop,
           \A c \in Callers, o \in Ops :
              LastRemoves(caller'[c], g, o) => LastRemoves(caller[c], g, o) \/ ~session'[g].loop
    PROVE  RunsWell(g)'
<1> DEFINE s == session[g]
           t == session'[g]
<1>1. Calm(s, t)
  OBVIOUS
<1>2. NotBegun(g)'
  BY <1>1 DEF RunsWell, NotBegun, Calm
<1>3. ASSUME t.loop, ~t.stopped, t.entry = Absent \/ Cleared(g)' PROVE Registering(g)'
  <2>1. t.entry = Absent \/ \E o \in Ops : t.entry = BeingRemoved(o)
    BY <1>3 DEF Cleared
  <2>2. t.entry.kind \in {"absent", "removing"}
    BY <2>1, StateFacts DEF Absent, BeingRemoved
  <2>3. s.loop /\ ~s.stopped /\ t.entry = s.entry
    BY <1>1, <1>3, <2>2 DEF Calm
  <2>4. Cleared(g)' => Cleared(g)
    BY <1>3, <2>3 DEF Cleared
  <2>5. Registering(g)
    BY <1>3, <2>3, <2>4 DEF RunsWell, LoopIsKnown
  <2> QED BY <1>3, <2>5
<1>4. ASSUME roster' # "out", t.work PROVE t.member
  BY <1>1, <1>4 DEF RunsWell, WorkIsTold, Calm
<1>5. ASSUME roster' # "out", t.work, t.loop, t.entry = Ready
      PROVE  t.notified \/ t.reading = Ready \/ Waking(g)' \/ Telling(g)' \/ Registering(g)'
  <2>1. t.entry.kind = "ready"
    BY <1>5, StateFacts DEF Ready
  <2>2. s.loop /\ s.work /\ s.entry = Ready
    BY <1>1, <1>5, <2>1 DEF Calm
  <2>3. s.notified \/ s.reading = Ready \/ Waking(g) \/ Telling(g) \/ Registering(g)
    BY <1>5, <2>2 DEF RunsWell, WorkIsTold
  <2>4. t.notified \/ (t.notified = s.notified /\ (s.reading = Ready => t.reading = Ready))
    BY <1>1, <1>5 DEF Calm
  <2> QED BY <1>5, <2>3, <2>4
<1>6. LoopIsKnown(g)'
  BY <1>3 DEF LoopIsKnown
<1>7. WorkIsTold(g)'
  BY <1>4, <1>5 DEF WorkIsTold
<1> QED BY <1>2, <1>6, <1>7 DEF RunsWell

\* A step of no call keeps what the calls are, if registries only go on.
LEMMA SessionsRun ==
    ASSUME TypesInv, TypesInv', RunInv, UNCHANGED service, UNCHANGED caller,
           \A h \in Sessions : /\ RunsWell(h)' /\ session'[h].next >= session[h].next
                               /\ session'[h].stopped = session[h].stopped
    PROVE  RunInv'
<1>1. StopsWell'
  BY DEF RunInv, StopsWell, service
<1>2. \A h \in Sessions : session[h].next \in Nat /\ session'[h].next \in Nat
  BY DEF TypesInv, SessionState
<1>3. \A c \in Callers : CallWell(c)'
  <2> SUFFICES ASSUME NEW c \in Callers PROVE CallWell(c)'
    OBVIOUS
  <2>1. caller' = caller /\ published' = published /\ roster' = roster /\ CallWell(c)
    BY DEF service, RunInv
  <2>2. \A g \in Sessions, o \in Ops : BeganRemoval(caller[c], g, o) => o < session'[g].next
    BY <1>2, <2>1 DEF CallWell, Ops
  <2> QED BY <2>1, <2>2 DEF CallWell
<1> QED BY <1>1, <1>3 DEF RunInv

\* The sessions that a step leaves alone run well.
LEMMA OthersRunWell ==
    ASSUME TypesInv, RunInv, NEW g \in Sessions, session'[g] = session[g], attach'[g] = attach[g],
           UNCHANGED service, UNCHANGED caller
    PROVE  RunsWell(g)'
<1>1. RunsWell(g) /\ Calm(session[g], session'[g])
  BY CalmStates DEF RunInv, TypesInv
<1>2. created' = created /\ roster' = roster /\ caller' = caller
  BY DEF service
<1>3. (Registering(g) => Registering(g)') /\ (Telling(g) => Telling(g)')
  BY DEF Registering, Telling
<1>4. Waking(g) => Waking(g)'
  BY <1>2 DEF Waking
<1> QED BY <1>1, <1>2, <1>3, <1>4, CalmRunsWell

\* A task goes on calmly, or makes the session run well otherwise.
LEMMA TaskRuns ==
    ASSUME TypesInv, TypesInv', RunInv, NEW g \in Sessions, NEW o \in Ops, NEW r,
           attach' = [attach EXCEPT ![g][o] = r], UNCHANGED service, UNCHANGED caller,
           \A h \in Sessions \ {g} : session'[h] = session[h],
           session'[g].next >= session[g].next, session'[g].stopped = session[g].stopped,
           \/ RunsWell(g)'
           \/ /\ Calm(session[g], session'[g])
              /\ Registers(attach[g][o]) => Registers(r) \/ ~session'[g].loop
              /\ TellsReady(attach[g][o]) =>
                    TellsReady(r) \/ session'[g].notified \/ ~session'[g].loop
    PROVE  RunInv'
<1>1. \A h \in Sessions, p \in Ops :
         attach'[h][p] = IF h = g /\ p = o THEN r ELSE attach[h][p]
  BY DEF TypesInv
<1>2. \A h \in Sessions \ {g} : attach'[h] = attach[h]
  BY DEF TypesInv
<1>3. \A h \in Sessions \ {g} : RunsWell(h)'
  BY <1>2, OthersRunWell
<1>4. RunsWell(g)'
  <2>1. CASE /\ Calm(session[g], session'[g])
             /\ Registers(attach[g][o]) => Registers(r) \/ ~session'[g].loop
             /\ TellsReady(attach[g][o]) =>
                   TellsReady(r) \/ session'[g].notified \/ ~session'[g].loop
    <3>1. Registering(g) => Registering(g)' \/ ~session'[g].loop
      BY <1>1, <2>1 DEF Registering
    <3>2. Telling(g) => Telling(g)' \/ session'[g].notified \/ ~session'[g].loop
      BY <1>1, <2>1 DEF Telling
    <3>3. Waking(g) => Waking(g)'
      BY DEF Waking
    <3>4. created' = created /\ roster' = roster /\ RunsWell(g)
      BY DEF service, RunInv
    <3> QED BY <2>1, <3>1, <3>2, <3>3, <3>4, CalmRunsWell
  <2> QED BY <2>1
<1>5. \A h \in Sessions : session[h].next \in Nat /\ session'[h].next \in Nat
  BY DEF TypesInv, SessionState
<1>6. \A h \in Sessions : /\ RunsWell(h)' /\ session'[h].next >= session[h].next
                          /\ session'[h].stopped = session[h].stopped
  BY <1>3, <1>4, <1>5
<1> QED BY <1>6, SessionsRun

\* A task that is neither to remove its loop nor to tell it goes on, and the session
\* is updated calmly.
LEMMA GoRuns ==
    ASSUME TypesInv, TypesInv', RunInv, NEW g \in Sessions, NEW o \in Ops, NEW pc, Go(g, o, pc),
           UNCHANGED service, UNCHANGED caller,
           session' = session \/ \E t : Update(g, t) /\ Calm(session[g], t),
           attach[g][o].pc \in {"commit", "deregister"} =>
              \/ pc \in {"commit", "deregister"} \/ ~session'[g].loop \/ ~attach[g][o].registered,
           TellsReady(attach[g][o]) =>
              \/ pc \in {"ready", "notify"} \/ session'[g].notified \/ ~session'[g].loop
    PROVE  RunInv'
<1> DEFINE r == [attach[g][o] EXCEPT !.pc = pc]
<1>1. attach[g][o] \in AttachState
  BY DEF TypesInv
<1>2. r.pc = pc /\ r.registered = attach[g][o].registered
  BY <1>1 DEF AttachState
<1>3. attach' = [attach EXCEPT ![g][o] = r]
  BY DEF Go
<1> HIDE DEF r
<1>4. Registers(attach[g][o]) => Registers(r) \/ ~session'[g].loop
  BY <1>2 DEF Registers
<1>5. TellsReady(attach[g][o]) => TellsReady(r) \/ session'[g].notified \/ ~session'[g].loop
  BY <1>2 DEF TellsReady
<1>6. session[g] \in SessionState
  BY DEF TypesInv
<1>7. \A h \in Sessions \ {g} : session'[h] = session[h]
  BY DEF TypesInv, Update
<1>8. Calm(session[g], session'[g])
  BY <1>6, CalmStates DEF TypesInv, Update
<1>9. session'[g].next >= session[g].next /\ session'[g].stopped = session[g].stopped
  BY <1>8 DEF Calm
<1> QED BY <1>3, <1>4, <1>5, <1>7, <1>8, <1>9, TaskRuns

\* The tasks that attach.
LEMMA AttachRuns ==
    ASSUME TypesInv, TypesInv', OwnInv, RunInv, NEW g \in Sessions, NEW o \in Ops, Attach(g, o)
    PROVE  RunInv'
<1> DEFINE s == session[g]
           a == attach[g][o]
<1>1. s \in SessionState /\ a \in AttachState
  BY DEF TypesInv
<1>2. UNCHANGED service /\ UNCHANGED caller
  BY DEF Attach, StartAttach, WriteConfig, KillOldAgent, WarmUp, CleanUpFailed, CommitFailed,
         ConstrainFailed, CheckOwner, RegisterLoop, CleanUpUnregistered, FailUnregistered, CommitReady,
         ConstrainReady, NotifyReady, PublishReady, Deregister, CleanUpStale, EndAttach, NotifyAgain
<1>3. \A t : Update(g, t) => session'[g] = t
  BY DEF Update, TypesInv
<1>4. Calm(s, s) /\ \A k, b : Calm(s, Constrain(s, k, b))
  BY <1>1, CalmStates
<1>5. ASSUME NEW from, NEW pc, At(g, o, from), Go(g, o, pc),
             from \notin {"commit", "deregister", "ready", "notify"},
             session' = session \/ \E t : Update(g, t) /\ Calm(s, t)
      PROVE  RunInv'
  BY <1>2, <1>5, GoRuns DEF At, TellsReady
<1>6. CASE StartAttach(g, o) \/ ConstrainFailed(g, o)
  <2>1. \E t : Update(g, t) /\ Calm(s, t)
    BY <1>4, <1>6 DEF StartAttach, ConstrainFailed
  <2>2. \E from \in {"start", "constrain"}, pc \in {"config", "wait"} : At(g, o, from) /\ Go(g, o, pc)
    BY <1>6 DEF StartAttach, ConstrainFailed
  <2> QED BY <1>5, <2>1, <2>2
<1>7. CASE WriteConfig(g, o) \/ KillOldAgent(g, o) \/ WarmUp(g, o) \/ CleanUpFailed(g, o)
           \/ CheckOwner(g, o) \/ CleanUpUnregistered(g, o) \/ PublishReady(g, o) \/ CleanUpStale(g, o)
  <2>1. session' = session
    BY <1>7 DEF WriteConfig, KillOldAgent, WarmUp, CleanUpFailed, CheckOwner, CleanUpUnregistered,
       PublishReady, CleanUpStale
  <2>2. \E from \in {"config", "kill", "build", "failed", "check", "unregistered", "publish", "stale"} :
           At(g, o, from) /\ \E pc : Go(g, o, pc)
    BY <1>7 DEF WriteConfig, KillOldAgent, WarmUp, CleanUpFailed, CheckOwner, CleanUpUnregistered,
       PublishReady, CleanUpStale
  <2> QED BY <1>5, <2>1, <2>2
<1>8. CASE CommitFailed(g, o) \/ FailUnregistered(g, o)
  <2>1. session' = session \/ \E t : Update(g, t) /\ Calm(s, t)
    BY <1>1, <1>4, <1>8, CalmStates DEF CommitFailed, FailUnregistered
  <2>2. \E from \in {"fail", "unregister"} : At(g, o, from) /\ \E pc : Go(g, o, pc)
    BY <1>8 DEF CommitFailed, FailUnregistered
  <2> QED BY <1>5, <2>1, <2>2
<1>9. CASE RegisterLoop(g, o)
  <2>1. CASE session' = session /\ \E pc : Go(g, o, pc)
    BY <1>5, <1>9, <2>1 DEF RegisterLoop
  <2>2. CASE /\ Update(g, SpawnLoop(s)) /\ ~s.loop
             /\ attach' = [attach EXCEPT ![g][o] = [@ EXCEPT !.pc = "commit", !.registered = TRUE]]
    <3> DEFINE r == [a EXCEPT !.pc = "commit", !.registered = TRUE]
               t == SpawnLoop(s)
    <3>1. attach' = [attach EXCEPT ![g][o] = r]
      BY <2>2
    <3>2. Registers(r)
      BY <1>1 DEF AttachState, Registers
    <3>3. session'[g] = t /\ \A h \in Sessions \ {g} : session'[h] = session[h]
      BY <2>2 DEF Update, TypesInv
    <3>4. /\ t.stopped = s.stopped /\ t.work = s.work /\ t.member = s.member /\ t.next = s.next
          /\ s.next \in Nat
      BY <1>1 DEF SpawnLoop, SessionState
    <3> HIDE DEF r, t
    <3>5. Registering(g)'
      BY <3>1, <3>2 DEF Registering, TypesInv
    <3>6. RunsWell(g) /\ created' = created /\ roster' = roster
      BY <1>2 DEF RunInv, service
    <3>7. g <= created
      BY <1>9 DEF RegisterLoop, At, TypesInv
    <3>8. NotBegun(g)'
      BY <3>6, <3>7 DEF NotBegun, TypesInv, Sessions
    <3>9. RunsWell(g)'
      BY <3>3, <3>4, <3>5, <3>6, <3>8 DEF RunsWell, LoopIsKnown, WorkIsTold
    <3>10. session'[g].next >= s.next /\ session'[g].stopped = s.stopped
      BY <3>3, <3>4
    <3> QED BY <1>2, <3>1, <3>3, <3>9, <3>10, TaskRuns
  <2> QED BY <1>9, <2>1, <2>2 DEF RegisterLoop
<1>10. CASE CommitReady(g, o)
  <2>1. CASE Owns(s, "attaching", o)
    <3> DEFINE r == [a EXCEPT !.pc = "ready"]
               t == End(s, o, Ready, "ready")
    <3>1. attach' = [attach EXCEPT ![g][o] = r] /\ Update(g, t)
      BY <1>10, <2>1 DEF CommitReady, Go
    <3>2. TellsReady(r)
      BY <1>1 DEF AttachState, TellsReady
    <3>3. session'[g] = t /\ \A h \in Sessions \ {g} : session'[h] = session[h]
      BY <3>1 DEF Update, TypesInv
    <3>4. /\ t.stopped = s.stopped /\ t.work = s.work /\ t.member = s.member /\ t.next = s.next
          /\ t.loop = s.loop /\ t.entry = Ready /\ s.next \in Nat
      BY <1>1 DEF End, SessionState
    <3> HIDE DEF r, t
    <3>5. Telling(g)'
      BY <3>1, <3>2 DEF Telling, TypesInv
    <3>6. RunsWell(g) /\ created' = created /\ roster' = roster
      BY <1>2 DEF RunInv, service
    <3>7. NotBegun(g)'
      BY <3>3, <3>4, <3>6 DEF NotBegun, RunsWell
    <3>8. Ready # Absent /\ \A p : Ready # BeingRemoved(p)
      BY StateFacts DEF Ready, Absent, BeingRemoved
    <3>9. LoopIsKnown(g)'
      BY <3>3, <3>4, <3>8 DEF LoopIsKnown, Cleared
    <3>10. WorkIsTold(g)'
      BY <3>3, <3>4, <3>5, <3>6 DEF RunsWell, WorkIsTold
    <3>11. RunsWell(g)'
      BY <3>7, <3>9, <3>10 DEF RunsWell
    <3>12. session'[g].next >= s.next /\ session'[g].stopped = s.stopped
      BY <3>3, <3>4
    <3> QED BY <1>2, <3>1, <3>3, <3>11, <3>12, TaskRuns
  <2>2. CASE ~Owns(s, "attaching", o)
    <3>1. At(g, o, "commit") /\ session' = session /\ ~TellsReady(a)
      BY <1>10, <2>2 DEF CommitReady, At, TellsReady
    <3>2. CASE Go(g, o, "deregister")
      BY <1>2, <3>1, <3>2, GoRuns
    <3>3. CASE ~attach[g][o].registered /\ Go(g, o, "stale")
      BY <1>2, <3>1, <3>3, GoRuns
    <3> QED BY <1>10, <2>2, <3>2, <3>3 DEF CommitReady
  <2> QED BY <2>1, <2>2
<1>11. CASE ConstrainReady(g, o)
  <2>1. /\ At(g, o, "ready") /\ Go(g, o, "notify") /\ Update(g, Constrain(s, Ready, FALSE))
    BY <1>11 DEF ConstrainReady
  <2> QED BY <1>2, <1>4, <2>1, GoRuns DEF At
<1>12. CASE NotifyReady(g, o)
  <2>1. At(g, o, "notify") /\ Go(g, o, "publish") /\ Update(g, Notify(s))
    BY <1>12 DEF NotifyReady
  <2>2. Calm(s, Notify(s)) /\ (session'[g].notified \/ ~session'[g].loop)
    BY <1>1, <1>3, <2>1, CalmStates DEF Notify, SessionState
  <2> QED BY <1>2, <2>1, <2>2, GoRuns DEF At
<1>13. CASE Deregister(g, o)
  <2>1. At(g, o, "deregister") /\ Go(g, o, "stale") /\ Update(g, RemoveLoop(s))
    BY <1>13 DEF Deregister
  <2>2. Calm(s, RemoveLoop(s)) /\ ~session'[g].loop
    BY <1>1, <1>3, <2>1, CalmStates DEF RemoveLoop, SessionState
  <2> QED BY <1>2, <2>1, <2>2, GoRuns DEF At
<1>14. ASSUME NEW from \in {"wait", "again"}, At(g, o, from), Finish(g, o),
              session' = session \/ \E t : Update(g, t) /\ Calm(s, t)
       PROVE  RunInv'
  <2> DEFINE r == [NoAttach EXCEPT !.pc = "done"]
  <2>1. attach' = [attach EXCEPT ![g][o] = r]
    BY <1>14 DEF Finish
  <2>2. ~Registers(a) /\ ~TellsReady(a)
    BY <1>14 DEF At, Registers, TellsReady
  <2>3. Calm(s, session'[g]) /\ \A h \in Sessions \ {g} : session'[h] = session[h]
    BY <1>3, <1>4, <1>14 DEF TypesInv, Update
  <2>4. session'[g].next >= s.next /\ session'[g].stopped = s.stopped
    BY <2>3 DEF Calm
  <2> HIDE DEF r
  <2> QED BY <1>2, <2>1, <2>2, <2>3, <2>4, TaskRuns
<1>15. CASE EndAttach(g, o)
  <2>1. session' = session /\ At(g, o, "wait") /\ (Go(g, o, "again") \/ Finish(g, o))
    BY <1>15 DEF EndAttach
  <2> QED BY <1>5, <1>14, <2>1
<1>16. CASE NotifyAgain(g, o)
  <2>1. /\ At(g, o, "again") /\ Finish(g, o)
        /\ Update(g, ReadyAgain(s)) \/ Update(g, s)
    BY <1>16 DEF NotifyAgain
  <2> QED BY <1>1, <1>14, <2>1, CalmStates
<1> QED BY <1>6, <1>7, <1>8, <1>9, <1>10, <1>11, <1>12, <1>13, <1>15, <1>16 DEF Attach

\* The event loops: one that stops looking has claimed, or knows that the member is
\* ready.
LEMMA LoopRuns ==
    ASSUME TypesInv, TypesInv', OwnInv, RunInv, NEW g \in Sessions, Loop(g)
    PROVE  RunInv'
<1> DEFINE s == session[g]
<1>1. s \in SessionState /\ RunsWell(g)
  BY DEF TypesInv, RunInv
<1>2. UNCHANGED service /\ UNCHANGED caller /\ attach' = attach
  BY DEF Loop, LoopLooks, LoopClaims, AbortedLoopTells
<1>3. \A t : Update(g, t) => session'[g] = t /\ \A h \in Sessions \ {g} : session'[h] = session[h]
  BY DEF Update, TypesInv
<1>4. ASSUME \A h \in Sessions \ {g} : session'[h] = session[h], RunsWell(g)',
             session'[g].next = s.next, session'[g].stopped = s.stopped
      PROVE  RunInv'
  <2>1. \A h \in Sessions \ {g} : RunsWell(h)'
    BY <1>2, <1>4, OthersRunWell
  <2>2. \A h \in Sessions : session[h].next \in Nat
    BY DEF TypesInv, SessionState
  <2>3. \A h \in Sessions : /\ RunsWell(h)' /\ session'[h].next >= session[h].next
                            /\ session'[h].stopped = session[h].stopped
    BY <1>4, <2>1, <2>2
  <2> QED BY <1>2, <2>3, SessionsRun
<1>5. ASSUME session'[g].stopped = s.stopped, session'[g].loop = s.loop, session'[g].entry = s.entry,
             session'[g].work => s.work, session'[g].member = s.member,
             roster # "out" /\ session'[g].work /\ s.member /\ s.loop /\ s.entry = Ready =>
                \/ session'[g].notified \/ session'[g].reading = Ready
                \/ Waking(g) \/ Telling(g) \/ Registering(g)
      PROVE  RunsWell(g)'
  <2>1. created' = created /\ roster' = roster
    BY <1>2 DEF service
  <2>2. Registering(g)' = Registering(g) /\ Telling(g)' = Telling(g) /\ Waking(g)' = Waking(g)
    BY <1>2 DEF Registering, Telling, Waking
  <2>3. Cleared(g)' => Cleared(g)
    BY <1>2, <1>5 DEF Cleared
  <2>4. NotBegun(g)'
    BY <1>1, <1>5, <2>1 DEF RunsWell, NotBegun
  <2>5. LoopIsKnown(g)'
    BY <1>1, <1>5, <2>2, <2>3 DEF RunsWell, LoopIsKnown
  <2>6. WorkIsTold(g)'
    BY <1>1, <1>5, <2>1, <2>2 DEF RunsWell, WorkIsTold
  <2> QED BY <2>4, <2>5, <2>6 DEF RunsWell
<1>6. CASE LoopLooks(g)
  <2> DEFINE seen == IF s.member THEN Snapshot(s) ELSE Nothing
             t == [s EXCEPT !.notified = FALSE, !.reading = seen]
  <2>1. Update(g, t)
    BY <1>6 DEF LoopLooks
  <2>2. s.member /\ s.entry = Ready => seen = Ready
    <3>1. s.entry = Ready => ~s.stopped
      BY StateFacts DEF OwnInv, StoppedHoldsNothing, Ready, Absent
    <3>2. Ready.kind = "ready"
      BY StateFacts DEF Ready
    <3> QED BY <3>1, <3>2 DEF Snapshot
  <2> HIDE DEF seen
  <2>3. /\ t.next = s.next /\ t.stopped = s.stopped /\ t.loop = s.loop /\ t.entry = s.entry
        /\ t.work = s.work /\ t.member = s.member /\ t.reading = seen
    BY <1>1 DEF SessionState
  <2> HIDE DEF t
  <2>4. session'[g] = t /\ \A h \in Sessions \ {g} : session'[h] = session[h]
    BY <1>3, <2>1
  <2>5. RunsWell(g)'
    BY <1>5, <2>2, <2>3, <2>4
  <2> QED BY <1>4, <2>3, <2>4, <2>5
<1>7. CASE LoopClaims(g)
  <2>9. PICK requeued \in BOOLEAN :
           LET told == Constrain(s, s.reading, requeued)
           IN  Update(g, [told EXCEPT !.reading = Nothing,
                                      !.work = told.work /\ told.slot.kind # "ready"])
    BY <1>7 DEF LoopClaims
  <2> DEFINE told == Constrain(s, s.reading, requeued)
             t == [told EXCEPT !.reading = Nothing, !.work = told.work /\ told.slot.kind # "ready"]
  <2>1. Update(g, t)
    BY <2>9
  <2>8. told \in SessionState
    BY <1>1, SessionTypes DEF SessionState
  <2>2. /\ told \in SessionState /\ told.next = s.next /\ told.stopped = s.stopped /\ told.loop = s.loop
        /\ told.entry = s.entry /\ (told.work => s.work) /\ told.member = s.member
        /\ told.notified = s.notified /\ told.slot = s.reading
    BY <1>1, <2>8 DEF Constrain, SessionState
  <2> HIDE DEF told
  <2>3. /\ t.next = s.next /\ t.stopped = s.stopped /\ t.loop = s.loop /\ t.entry = s.entry
        /\ (t.work => s.work /\ s.reading.kind # "ready") /\ t.member = s.member
        /\ t.notified = s.notified
    BY <2>2 DEF SessionState
  <2> HIDE DEF t
  <2>4. session'[g] = t /\ \A h \in Sessions \ {g} : session'[h] = session[h]
    BY <1>3, <2>1
  <2>5. t.work => s.reading # Ready
    BY <2>3, StateFacts DEF Ready
  <2>6. roster # "out" /\ t.work /\ s.loop /\ s.entry = Ready =>
           t.notified \/ Waking(g) \/ Telling(g) \/ Registering(g)
    BY <1>1, <2>3, <2>5 DEF RunsWell, WorkIsTold
  <2>7. RunsWell(g)'
    BY <1>5, <2>3, <2>4, <2>6
  <2> QED BY <1>4, <2>3, <2>4, <2>7
<1>8. CASE AbortedLoopTells(g)
  <2>1. PICK seen \in s.late, requeued \in BOOLEAN :
           Update(g, [Constrain(s, seen, requeued) EXCEPT !.late = s.late \ {seen}])
    BY <1>8 DEF AbortedLoopTells
  <2> DEFINE t == [Constrain(s, seen, requeued) EXCEPT !.late = s.late \ {seen}]
  <2>2. Update(g, t)
    BY <2>1
  <2>3. /\ t.next = s.next /\ t.stopped = s.stopped /\ t.loop = s.loop /\ t.entry = s.entry
        /\ (t.work => s.work) /\ t.member = s.member /\ t.notified = s.notified
        /\ t.reading = s.reading
    BY <1>1 DEF Constrain, SessionState
  <2> HIDE DEF t
  <2>4. session'[g] = t /\ \A h \in Sessions \ {g} : session'[h] = session[h]
    BY <1>3, <2>2
  <2>5. roster # "out" /\ t.work /\ s.loop /\ s.entry = Ready =>
           t.notified \/ t.reading = Ready \/ Waking(g) \/ Telling(g) \/ Registering(g)
    BY <1>1, <2>3 DEF RunsWell, WorkIsTold
  <2>6. RunsWell(g)'
    BY <1>5, <2>3, <2>4, <2>5
  <2> QED BY <1>4, <2>3, <2>4, <2>6
<1> QED BY <1>6, <1>7, <1>8 DEF Loop

\* Where a call does none of the things above, but may be about to wake the loop.
StillAt(pc) ==
    pc \notin {"stop work", "stop registry", "stop loops", "unpublish", "stop loop", "kill",
               "persist", "restore", "find session", "await other", "stop loop again", "kill again",
               "unschedule", "finish"}

\* What a call is not, there.
LEMMA StillFacts ==
    ASSUME NEW r, StillAt(r.pc)
    PROVE  /\ ~LateAt(r.pc)
           /\ \A g, o : /\ ~LastRemoves(r, g, o) /\ ~StopsIn(r, g) /\ ~TakesBack(r, g)
                        /\ ~BeganRemoval(r, g, o)
  BY DEF StillAt, LastRemoves, StopsIn, TakesBack, LateAt, BeganRemoval, RemovingAt

\* A step of a call, when the sessions run well after it.
LEMMA CallRuns ==
    ASSUME TypesInv, TypesInv', RunInv, NEW c \in Callers, NEW r, Become(c, r),
           \A h \in Sessions : RunsWell(h)' /\ session'[h].next >= session[h].next,
           \A h \in Sessions : session'[h].stopped /\ published' = h =>
              \/ TakesBack(r, h)
              \/ session[h].stopped /\ published = h /\ ~TakesBack(caller[c], h),
           published' \in {published, 0, created + 1},
           published' = created + 1 => \A d \in Callers : d # c => caller[d].gen <= created,
           \A h \in Sessions : StopsIn(r, h) /\ published' = h => r.call \in Ensuring,
           \A h \in Sessions, o \in Ops :
              BeganRemoval(r, h, o) => BeganRemoval(caller[c], h, o) \/ o < session'[h].next,
           LateAt(r.pc) => roster' = "out", roster = "out" => roster' = "out"
    PROVE  RunInv'
<1>1. \A d \in Callers : caller'[d] = IF d = c THEN r ELSE caller[d]
  BY DEF Become, TypesInv
<1>2. \A h \in Sessions : session[h].next \in Nat /\ session'[h].next \in Nat
  BY DEF TypesInv, SessionState
<1>3. StopsWell'
  <2>1. ASSUME NEW h \in Sessions, session'[h].stopped, published' = h
        PROVE  \E d \in Callers : TakesBack(caller'[d], h)
    <3>1. CASE TakesBack(r, h)
      BY <1>1, <3>1
    <3>2. CASE session[h].stopped /\ published = h /\ ~TakesBack(caller[c], h)
      <4>1. PICK d \in Callers : TakesBack(caller[d], h)
        BY <3>2 DEF RunInv, StopsWell
      <4> QED BY <1>1, <3>2, <4>1
    <3> QED BY <2>1, <3>1, <3>2
  <2> QED BY <2>1 DEF StopsWell
<1>4. ASSUME NEW d \in Callers PROVE CallWell(d)'
  <2>1. CASE d = c
    <3>1. caller'[d] = r
      BY <1>1, <2>1
    <3>2. \A h \in Sessions, o \in Ops : BeganRemoval(r, h, o) => o < session'[h].next
      BY <1>2, <2>1 DEF RunInv, CallWell, Ops
    <3> QED BY <3>1, <3>2 DEF CallWell
  <2>2. CASE d # c
    <3>1. caller'[d] = caller[d] /\ CallWell(d)
      BY <1>1, <2>2 DEF RunInv
    <3>2. \A h \in Sessions, o \in Ops : BeganRemoval(caller[d], h, o) => o < session'[h].next
      BY <1>2, <3>1 DEF CallWell, Ops
    <3>3. \A h \in Sessions : StopsIn(caller[d], h) /\ published' = h => caller[d].call \in Ensuring
      <4> SUFFICES ASSUME NEW h \in Sessions, StopsIn(caller[d], h), published' = h
                   PROVE  caller[d].call \in Ensuring
        OBVIOUS
      <4>1. caller[d].gen = h
        BY DEF StopsIn
      <4>2. published' # created + 1
        BY <2>2, <4>1 DEF TypesInv, Sessions
      <4>3. published = h
        BY <4>2 DEF Sessions
      <4> QED BY <3>1, <4>3 DEF CallWell
    <3>4. LateAt(caller[d].pc) => roster' = "out"
      BY <3>1 DEF CallWell
    <3> QED BY <3>1, <3>2, <3>3, <3>4 DEF CallWell
  <2> QED BY <2>1, <2>2
<1> QED BY <1>3, <1>4 DEF RunInv

\* A task that is spawned replaces none that had begun.
LEMMA TasksStay ==
    ASSUME TypesInv, NEW g \in Sessions, NEW o \in Ops,
           \/ attach' = attach
           \/ attach[g][o].pc = "unused" /\ \E background \in BOOLEAN : Spawn(g, o, background)
    PROVE  \A h \in Sessions : (Registering(h) => Registering(h)') /\ (Telling(h) => Telling(h)')
<1>1. CASE attach' = attach
  BY <1>1 DEF Registering, Telling
<1>2. CASE attach[g][o].pc = "unused" /\ \E background \in BOOLEAN : Spawn(g, o, background)
  <2>1. \A h \in Sessions, p \in Ops : ~(h = g /\ p = o) => attach'[h][p] = attach[h][p]
    BY <1>2 DEF Spawn, TypesInv
  <2>2. ~Registers(attach[g][o]) /\ ~TellsReady(attach[g][o])
    BY <1>2 DEF Registers, TellsReady
  <2>3. \A h \in Sessions, p \in Ops :
           /\ Registers(attach[h][p]) => Registers(attach'[h][p])
           /\ TellsReady(attach[h][p]) => TellsReady(attach'[h][p])
    BY <2>1, <2>2
  <2>4. \A h \in Sessions : (Registering(h) => Registering(h)') /\ (Telling(h) => Telling(h)')
    BY <2>3 DEF Registering, Telling
  <2> QED BY <2>4
<1> QED BY <1>1, <1>2

\* One session changes, calmly, or none.
LEMMA UpdateCalm ==
    ASSUME TypesInv, NEW g,
           session' = session \/ \E t : Update(g, t) /\ (g \in Sessions => Calm(session[g], t))
    PROVE  \A h \in Sessions : Calm(session[h], session'[h])
<1>1. \A h \in Sessions : Calm(session[h], session[h])
  BY CalmStates DEF TypesInv
<1>2. CASE session' = session
  BY <1>1, <1>2
<1>3. ASSUME NEW t, Update(g, t), g \in Sessions => Calm(session[g], t)
      PROVE  \A h \in Sessions : Calm(session[h], session'[h])
  <2>1. \A h \in Sessions : session'[h] = IF h = g THEN t ELSE session[h]
    BY <1>3 DEF TypesInv, Update
  <2> QED BY <1>1, <1>3, <2>1
<1> QED BY <1>2, <1>3

\* A reservation to attach changes the session calmly.
LEMMA TakeCalm ==
    ASSUME TypesInv, NEW g \in Sessions, NEW found, Take(g, found, "attaching")
    PROVE  \A h \in Sessions : Calm(session[h], session'[h])
<1>1. session[g] \in SessionState
  BY DEF TypesInv
<1>2. session' = session \/ (Update(g, Begin(session[g], "attaching"))
                             /\ Calm(session[g], Begin(session[g], "attaching")))
  BY <1>1, CalmStates DEF Take
<1> QED BY <1>2, UpdateCalm

\* A call that does none of the things above goes on calmly.
LEMMA StillRuns ==
    ASSUME TypesInv, TypesInv', RunInv, NEW c \in Callers, NEW r, Become(c, r),
           StillAt(caller[c].pc), caller[c].pc # "wake", StillAt(r.pc),
           UNCHANGED <<published, created>>, roster' # "out" <=> roster # "out",
           \A h \in Sessions : /\ (Registering(h) => Registering(h)') /\ (Telling(h) => Telling(h)')
                               /\ Calm(session[h], session'[h])
    PROVE  RunInv'
<1>1. \A d \in Callers : caller'[d] = IF d = c THEN r ELSE caller[d]
  BY DEF Become, TypesInv
<1>2. \A h \in Sessions : Waking(h) => Waking(h)'
  BY <1>1 DEF Waking, WakesIn
<1>3. \A h \in Sessions, d \in Callers, o \in Ops :
         LastRemoves(caller'[d], h, o) => LastRemoves(caller[d], h, o)
  BY <1>1, StillFacts
<1>4. \A h \in Sessions : RunsWell(h)'
  BY <1>2, <1>3, CalmRunsWell DEF RunInv
<1>5. \A h \in Sessions : session'[h].next >= session[h].next /\ session'[h].stopped = session[h].stopped
  BY DEF Calm
<1>6. \A h \in Sessions : session'[h].stopped /\ published' = h =>
                             session[h].stopped /\ published = h /\ ~TakesBack(caller[c], h)
  BY <1>5, StillFacts
<1>7. ~LateAt(r.pc) /\ \A h, o : ~StopsIn(r, h) /\ ~BeganRemoval(r, h, o)
  BY StillFacts
<1>8. published' # created + 1
  BY DEF TypesInv
<1> QED BY <1>4, <1>5, <1>6, <1>7, <1>8, CallRuns

\* A call that does none of the things above goes elsewhere.
LEMMA PassingRuns ==
    ASSUME TypesInv, TypesInv', RunInv, NEW c \in Callers, NEW r, Become(c, r),
           StillAt(caller[c].pc), caller[c].pc # "wake", StillAt(r.pc),
           UNCHANGED <<published, created>>, roster' # "out" <=> roster # "out", attach' = attach,
           \A h \in Sessions : Calm(session[h], session'[h])
    PROVE  RunInv'
<1>1. \A h \in Sessions : (Registering(h) => Registering(h)') /\ (Telling(h) => Telling(h)')
  BY DEF Registering, Telling
<1> QED BY <1>1, StillRuns

\* A call that does none of the things above moves, or ends.
LEMMA GotoRuns ==
    ASSUME TypesInv, TypesInv', RunInv, NEW c \in Callers, NEW pc, Goto(c, pc),
           StillAt(caller[c].pc), caller[c].pc # "wake", StillAt(pc),
           UNCHANGED <<published, created>>, roster' # "out" <=> roster # "out", attach' = attach,
           \A h \in Sessions : Calm(session[h], session'[h])
    PROVE  RunInv'
<1> DEFINE r == Moved(c, pc)
<1>1. Become(c, r) /\ r.pc = pc
  BY MovedFacts DEF Goto
<1> HIDE DEF r
<1> QED BY <1>1, PassingRuns

\* A call that does none of the things above returns.
LEMMA ReturnRuns ==
    ASSUME TypesInv, TypesInv', RunInv, NEW c \in Callers, Return(c),
           StillAt(caller[c].pc), caller[c].pc # "wake",
           UNCHANGED <<published, created>>, roster' # "out" <=> roster # "out", attach' = attach,
           \A h \in Sessions : Calm(session[h], session'[h])
    PROVE  RunInv'
<1> DEFINE r == [NoCall EXCEPT !.pc = "done"]
<1>1. Become(c, r) /\ r.pc = "done"
  BY DEF Return, NoCall
<1> HIDE DEF r
<1>2. StillAt(r.pc)
  BY <1>1 DEF StillAt
<1> QED BY <1>1, <1>2, PassingRuns

\* The calls that deliver: work comes with a call that wakes the loop.
LEMMA DeliveringRuns ==
    ASSUME TypesInv, TypesInv', CallsInv, OwnInv, RunInv, NEW c \in Callers, Delivering(c)
    PROVE  RunInv'
<1> DEFINE call == caller[c].call
           g == caller[c].gen
<1>1. caller[c] \in CallState /\ PlacedCall(caller[c]) /\ Fits(caller[c])
  BY DEF TypesInv, CallsInv
<1>2. g \in Sessions => Mine(c) \in SessionState /\ Mine(c) = session[g]
  BY DEF TypesInv, Mine
<1>3. UNCHANGED service
  BY DEF Delivering, Deliver, LooksForLoop, ReservesLazily, SpawnsLazily, Looks, Tells, Enqueues,
         EnqueueFails, Wakes
<1>4. UNCHANGED <<published, created>> /\ (roster' # "out" <=> roster # "out")
  BY <1>3 DEF service
<1>5. session' = session => \A h \in Sessions : Calm(session[h], session'[h])
  BY UpdateCalm
<1>6. CASE Deliver(c)
  <2> DEFINE r == [NoCall EXCEPT !.call = "deliver", !.pc = "lazy", !.gen = published]
  <2>1. Become(c, r) /\ Comes(c) /\ attach' = attach /\ session' = session
    BY <1>6 DEF Deliver, Call
  <2>2. StillAt(r.pc) /\ StillAt(caller[c].pc) /\ caller[c].pc # "wake"
    BY <2>1, Comers DEF NoCall, StillAt, On
  <2> HIDE DEF r
  <2> QED BY <1>4, <1>5, <2>1, <2>2, PassingRuns
<1>7. CASE LooksForLoop(c) \/ EnqueueFails(c)
  <2>1. /\ On(c, "lazy") \/ On(c, "look") \/ On(c, "enqueue")
        /\ Goto(c, "look") \/ Goto(c, "reserve") \/ Return(c)
        /\ attach' = attach /\ session' = session
    BY <1>7 DEF LooksForLoop, EnqueueFails
  <2>2. StillAt(caller[c].pc) /\ caller[c].pc # "wake"
    BY <2>1 DEF StillAt, On
  <2>3. StillAt("look") /\ StillAt("reserve")
    BY DEF StillAt
  <2> QED BY <1>4, <1>5, <2>1, <2>2, <2>3, GotoRuns, ReturnRuns
<1>8. CASE ReservesLazily(c)
  <2> DEFINE found == Reservation(session[g], FALSE)
             pc == IF found = "start" THEN "spawn" ELSE "look"
             r == Reserved(c, pc, g, found)
  <2>1. On(c, "reserve") /\ Take(g, found, "attaching") /\ Become(c, r) /\ attach' = attach
    BY <1>8 DEF ReservesLazily
  <2>2. g \in Sessions
    BY <1>1, <2>1, MineType DEF On, PlacedCall, Placed
  <2>4. StillAt(pc) /\ StillAt(caller[c].pc) /\ caller[c].pc # "wake"
    BY <2>1 DEF StillAt, On
  <2> HIDE DEF found, pc
  <2>3. r.pc = pc
    BY <1>1, <2>2, Starts
  <2> HIDE DEF r
  <2>5. \A h \in Sessions : Calm(session[h], session'[h])
    BY <2>1, <2>2, TakeCalm
  <2> QED BY <1>4, <2>1, <2>3, <2>4, <2>5, PassingRuns
<1>9. CASE SpawnsLazily(c)
  <2>1. On(c, "spawn") /\ session' = session
    BY <1>9 DEF SpawnsLazily
  <2>2. StillAt(caller[c].pc) /\ caller[c].pc # "wake"
    BY <2>1 DEF StillAt, On
  <2>3. call = "deliver" /\ caller[c].found = "start"
    BY <1>1, <2>1 DEF Fits, Passes, On
  <2>4. g \in Sessions /\ caller[c].op \in Ops
    BY <1>1, <2>3, MineType, BoundsAssumption DEF PlacedCall, CallState, Ops
  <2>5. attach[g][caller[c].op].pc = "unused"
    BY <2>1, <2>3, <2>4 DEF OwnInv, OneSpawner, Attaches, AttachingAt, On
  <2>6. CASE Spawn(g, caller[c].op, TRUE) /\ Goto(c, "look")
    <3>1. \A h \in Sessions : (Registering(h) => Registering(h)') /\ (Telling(h) => Telling(h)')
      BY <2>4, <2>5, <2>6, TasksStay
    <3> DEFINE r == Moved(c, "look")
    <3>2. Become(c, r) /\ r.pc = "look"
      BY <2>6, MovedFacts DEF Goto
    <3> HIDE DEF r
    <3>3. StillAt(r.pc)
      BY <3>2 DEF StillAt
    <3> QED BY <1>4, <1>5, <2>1, <2>2, <3>1, <3>2, <3>3, StillRuns
  <2>7. CASE attach' = attach /\ Return(c)
    BY <1>4, <1>5, <2>1, <2>2, <2>7, ReturnRuns
  <2> QED BY <1>9, <2>6, <2>7 DEF SpawnsLazily
<1>10. CASE Looks(c)
  <2> DEFINE r == [Moved(c, "tell") EXCEPT !.seen = Snapshot(Mine(c))]
  <2>1. On(c, "look") /\ Become(c, r) /\ attach' = attach /\ session' = session
    BY <1>10 DEF Looks
  <2>2. StillAt(r.pc) /\ StillAt(caller[c].pc) /\ caller[c].pc # "wake"
    BY <1>1, <2>1 DEF CallState, Moved, StillAt, On
  <2> HIDE DEF r
  <2> QED BY <1>4, <1>5, <2>1, <2>2, PassingRuns
<1>11. CASE Tells(c)
  <2> DEFINE r == Moved(c, "enqueue")
  <2>1. /\ On(c, "tell") /\ Become(c, r) /\ attach' = attach
        /\ \E requeued \in BOOLEAN : Update(g, Constrain(Mine(c), caller[c].seen, requeued))
    BY <1>11 DEF Tells, Goto
  <2>2. r.pc = "enqueue"
    BY MovedFacts
  <2>3. StillAt(r.pc) /\ StillAt(caller[c].pc) /\ caller[c].pc # "wake"
    BY <2>1, <2>2 DEF StillAt, On
  <2>4. \A h \in Sessions : Calm(session[h], session'[h])
    BY <1>2, <2>1, CalmStates, UpdateCalm, ZenonT(30)
  <2> HIDE DEF r
  <2> QED BY <1>4, <2>1, <2>3, <2>4, PassingRuns
<1>12. CASE Enqueues(c)
  <2> DEFINE r == Moved(c, "wake")
             t == [Mine(c) EXCEPT !.work = TRUE]
  <2>1. On(c, "enqueue") /\ Become(c, r) /\ attach' = attach /\ Update(g, t) /\ Mine(c).member
    BY <1>12 DEF Enqueues, Goto
  <2>2. r.pc = "wake" /\ r.gen = g
    BY MovedFacts
  <2> HIDE DEF r
  <2>3. StillAt(r.pc) /\ StillAt(caller[c].pc) /\ caller[c].pc # "wake"
    BY <2>1, <2>2 DEF StillAt, On
  <2>4. \A d \in Callers : caller'[d] = IF d = c THEN r ELSE caller[d]
    BY <2>1 DEF Become, TypesInv
  <2>5. \A h \in Sessions : /\ (Registering(h) => Registering(h)') /\ (Telling(h) => Telling(h)')
                            /\ (Waking(h) => Waking(h)')
    BY <2>1, <2>3, <2>4 DEF Registering, Telling, Waking, WakesIn
  <2>6. \A h \in Sessions, d \in Callers, o \in Ops :
           LastRemoves(caller'[d], h, o) => LastRemoves(caller[d], h, o)
    BY <2>3, <2>4, StillFacts
  <2>7. \A h \in Sessions : h # g => session'[h] = session[h] /\ Calm(session[h], session'[h])
    BY <2>1, CalmStates DEF Update, TypesInv
  <2>8. \A h \in Sessions : h # g => RunsWell(h)'
    BY <1>4, <2>5, <2>6, <2>7, CalmRunsWell DEF RunInv
  <2>9. g \in Sessions => /\ session'[g].next = session[g].next /\ session'[g].stopped = session[g].stopped
                          /\ session'[g].loop = session[g].loop /\ session'[g].entry = session[g].entry
                          /\ session'[g].member
    BY <1>2, <2>1 DEF Update, TypesInv, SessionState
  <2>10. ASSUME NEW h \in Sessions, h = g PROVE RunsWell(h)'
    <3>1. RunsWell(h) /\ created' = created
      BY <1>4 DEF RunInv
    <3>2. h <= created
      BY <1>1, <2>10 DEF PlacedCall
    <3>3. NotBegun(h)'
      BY <3>1, <3>2 DEF NotBegun, TypesInv, Sessions
    <3>4. Cleared(h)' => Cleared(h)
      BY <2>6, <2>9, <2>10 DEF Cleared
    <3>5. LoopIsKnown(h)'
      BY <2>5, <2>9, <2>10, <3>1, <3>4 DEF RunsWell, LoopIsKnown
    <3>6. Waking(h)'
      BY <2>2, <2>4, <2>10 DEF Waking, WakesIn
    <3>7. WorkIsTold(h)'
      BY <2>9, <2>10, <3>6 DEF WorkIsTold
    <3> QED BY <3>3, <3>5, <3>7 DEF RunsWell
  <2>11. \A h \in Sessions : session[h].next \in Nat
    BY DEF TypesInv, SessionState
  <2>12. \A h \in Sessions : /\ session'[h].next >= session[h].next
                             /\ session'[h].stopped = session[h].stopped
    BY <2>7, <2>9, <2>11
  <2>13. \A h \in Sessions : session'[h].stopped /\ published' = h =>
                                session[h].stopped /\ published = h /\ ~TakesBack(caller[c], h)
    BY <1>4, <2>3, <2>12, StillFacts
  <2>14. ~LateAt(r.pc) /\ \A h, o : ~StopsIn(r, h) /\ ~BeganRemoval(r, h, o)
    BY <2>3, StillFacts
  <2>15. published' # created + 1 /\ published' = published
    BY <1>4 DEF TypesInv
  <2>16. \A h \in Sessions : RunsWell(h)' /\ session'[h].next >= session[h].next
    BY <2>8, <2>10, <2>12
  <2> QED BY <1>4, <2>1, <2>16, <2>13, <2>14, <2>15, CallRuns
<1>13. CASE Wakes(c)
  <2> DEFINE pc == IF call = "add" THEN "launch" ELSE "done"
             r == Moved(c, pc)
             t == Notify(Mine(c))
  <2>1. On(c, "wake") /\ Become(c, r) /\ attach' = attach /\ Update(g, t)
    BY <1>13 DEF Wakes, Goto
  <2>2. r.pc = pc
    BY MovedFacts
  <2>3. StillAt(r.pc) /\ StillAt(caller[c].pc)
    BY <2>1, <2>2 DEF StillAt, On
  <2>4. \A h \in Sessions : Calm(session[h], session'[h])
    BY <1>2, <2>1, CalmStates, UpdateCalm, ZenonT(30)
  <2> HIDE DEF r
  <2>5. \A d \in Callers : caller'[d] = IF d = c THEN r ELSE caller[d]
    BY <2>1 DEF Become, TypesInv
  <2>6. \A h \in Sessions : (Registering(h) => Registering(h)') /\ (Telling(h) => Telling(h)')
    BY <2>1 DEF Registering, Telling
  <2>7. \A h \in Sessions : Waking(h) => Waking(h)' \/ session'[h].notified \/ ~session'[h].loop
    <3> SUFFICES ASSUME NEW h \in Sessions, Waking(h)
                 PROVE  Waking(h)' \/ session'[h].notified \/ ~session'[h].loop
      OBVIOUS
    <3>1. CASE h = g
      BY <1>2, <2>1, <3>1 DEF Update, TypesInv, Notify, SessionState
    <3>2. CASE h # g
      <4>1. PICK d \in Callers : WakesIn(caller[d], h)
        BY DEF Waking
      <4>2. d # c
        BY <3>2, <4>1 DEF WakesIn
      <4> QED BY <2>5, <4>1, <4>2 DEF Waking
    <3> QED BY <3>1, <3>2
  <2>8. \A h \in Sessions, d \in Callers, o \in Ops :
           LastRemoves(caller'[d], h, o) => LastRemoves(caller[d], h, o)
    BY <2>3, <2>5, StillFacts
  <2>9. \A h \in Sessions : RunsWell(h)'
    BY <1>4, <2>4, <2>6, <2>7, <2>8, CalmRunsWell DEF RunInv
  <2>10. \A h \in Sessions : /\ session'[h].next >= session[h].next
                             /\ session'[h].stopped = session[h].stopped
    BY <2>4 DEF Calm
  <2>11. \A h \in Sessions : session'[h].stopped /\ published' = h =>
                                session[h].stopped /\ published = h /\ ~TakesBack(caller[c], h)
    BY <1>4, <2>3, <2>10, StillFacts
  <2>12. ~LateAt(r.pc) /\ \A h, o : ~StopsIn(r, h) /\ ~BeganRemoval(r, h, o)
    BY <2>3, StillFacts
  <2>13. published' # created + 1 /\ published' = published
    BY <1>4 DEF TypesInv
  <2> QED BY <1>4, <2>1, <2>9, <2>10, <2>11, <2>12, <2>13, CallRuns
<1> QED BY <1>6, <1>7, <1>8, <1>9, <1>10, <1>11, <1>12, <1>13 DEF Delivering

\* A call that makes a reservation to attach, and may spawn the attach at once.
LEMMA ReserveRuns ==
    ASSUME TypesInv, TypesInv', OwnInv, RunInv, NEW c \in Callers, NEW g \in Sessions, NEW pc,
           NEW found, Take(g, found, "attaching"), Become(c, Reserved(c, pc, g, found)),
           \/ attach' = attach
           \/ found = "start" /\ \E background \in BOOLEAN : Spawn(g, session[g].next, background),
           StillAt(caller[c].pc), caller[c].pc # "wake", StillAt(pc),
           UNCHANGED <<published, created>>, roster' # "out" <=> roster # "out"
    PROVE  RunInv'
<1> DEFINE r == Reserved(c, pc, g, found)
<1>1. caller[c] \in CallState /\ session[g].next \in Nat
  BY DEF TypesInv, SessionState
<1>2. r.pc = pc /\ Become(c, r)
  BY <1>1, Starts
<1> HIDE DEF r
<1>3. \A h \in Sessions : Calm(session[h], session'[h])
  BY TakeCalm
<1>4. CASE attach' = attach
  BY <1>2, <1>3, <1>4, PassingRuns
<1>5. CASE found = "start" /\ \E background \in BOOLEAN : Spawn(g, session[g].next, background)
  <2>1. session[g].next \in Ops
    BY <1>5 DEF Take
  <2>2. attach[g][session[g].next].pc = "unused"
    BY <1>1, <2>1 DEF OwnInv, TasksBegun
  <2>3. \A h \in Sessions : (Registering(h) => Registering(h)') /\ (Telling(h) => Telling(h)')
    BY <1>5, <2>1, <2>2, TasksStay
  <2> QED BY <1>2, <1>3, <2>3, StillRuns
<1> QED BY <1>4, <1>5

\* spawn_agent.
LEMMA AddingRuns ==
    ASSUME TypesInv, TypesInv', CallsInv, OwnInv, RunInv, NEW c \in Callers, Adding(c)
    PROVE  RunInv'
<1> DEFINE call == caller[c].call
           g == caller[c].gen
<1>1. caller[c] \in CallState /\ PlacedCall(caller[c]) /\ Fits(caller[c])
  BY DEF TypesInv, CallsInv
<1>2. g \in Sessions => Mine(c) \in SessionState /\ Mine(c) = session[g]
  BY DEF TypesInv, Mine
<1>3. UNCHANGED <<published, created>>
  BY DEF Adding, Add, Introduces, Schedules, Launches, Joins, TellsAgain, service
<1>4. roster' # "out" <=> roster # "out"
  BY DEF Adding, Add, Introduces, Schedules, Launches, Joins, TellsAgain, service
<1>5. session' = session => \A h \in Sessions : Calm(session[h], session'[h])
  BY UpdateCalm
<1>6. \A pc \in {"introduce", "schedule", "launch", "join", "again", "look", "remove", "done"} :
         StillAt(pc) /\ pc # "wake"
  BY DEF StillAt
<1>7. CASE Add(c)
  <2> DEFINE r == [NoCall EXCEPT !.call = "add", !.pc = "introduce", !.gen = published]
  <2>1. Become(c, r) /\ Comes(c) /\ attach' = attach /\ session' = session
    BY <1>7 DEF Add, Call
  <2>2. StillAt(r.pc) /\ StillAt(caller[c].pc) /\ caller[c].pc # "wake"
    BY <2>1, Comers DEF NoCall, StillAt, On
  <2> HIDE DEF r
  <2> QED BY <1>3, <1>4, <1>5, <2>1, <2>2, PassingRuns
<1>8. CASE Introduces(c)
  <2> DEFINE found == Reservation(session[g], FALSE)
  <2>1. /\ On(c, "introduce") /\ Take(g, found, "attaching") /\ attach' = attach
        /\ Become(c, Reserved(c, "schedule", g, found))
    BY <1>8 DEF Introduces
  <2>2. g \in Sessions
    BY <1>1, <2>1, MineType DEF On, PlacedCall, Placed
  <2> HIDE DEF found
  <2> QED BY <1>3, <1>4, <1>6, <2>1, <2>2, ReserveRuns DEF On
<1>9. CASE Schedules(c)
  <2>1. /\ On(c, "schedule") /\ attach' = attach
        /\ Goto(c, "look") \/ Goto(c, "remove")
        /\ Update(g, [Mine(c) EXCEPT !.member = TRUE])
    BY <1>9 DEF Schedules
  <2>2. \A h \in Sessions : Calm(session[h], session'[h])
    BY <1>2, <2>1, CalmStates, UpdateCalm, ZenonT(30)
  <2> QED BY <1>3, <1>4, <1>6, <2>1, <2>2, GotoRuns DEF On
<1>10. CASE Launches(c)
  <2>1. On(c, "launch") /\ session' = session
    BY <1>10 DEF Launches
  <2>2. call = "add"
    BY <1>1, <2>1 DEF Fits, Passes, On
  <2>3. Afterwards(caller[c].found) \in {"join", "again", "done"}
    BY DEF Afterwards
  <2>4. CASE caller[c].found = "start" /\ published = g
    <3>1. Spawn(g, caller[c].op, TRUE) /\ Goto(c, Afterwards(caller[c].found))
      BY <1>10, <2>4 DEF Launches
    <3>2. g \in Sessions /\ caller[c].op \in Ops
      BY <1>1, <2>4, MineType, BoundsAssumption DEF PlacedCall, CallState, Ops
    <3>3. attach[g][caller[c].op].pc = "unused"
      BY <2>1, <2>2, <2>4, <3>2 DEF OwnInv, OneSpawner, Attaches, AttachingAt, On
    <3>4. \A h \in Sessions : (Registering(h) => Registering(h)') /\ (Telling(h) => Telling(h)')
      BY <3>1, <3>2, <3>3, TasksStay
    <3> DEFINE pc == Afterwards(caller[c].found)
               r == Moved(c, pc)
    <3>5. Become(c, r) /\ r.pc = pc
      BY <3>1, MovedFacts DEF Goto
    <3>6. StillAt(pc)
      BY <1>6, <2>3
    <3> HIDE DEF r, pc
    <3> QED BY <1>3, <1>4, <1>5, <1>6, <2>1, <3>4, <3>5, <3>6, StillRuns DEF On
  <2>5. CASE ~(caller[c].found = "start" /\ published = g)
    <3>1. attach' = attach /\ (Goto(c, Afterwards(caller[c].found)) \/ Return(c))
      BY <1>10, <2>5 DEF Launches
    <3> QED BY <1>3, <1>4, <1>5, <1>6, <2>1, <2>3, <3>1, GotoRuns, ReturnRuns DEF On
  <2> QED BY <2>4, <2>5
<1>11. CASE Joins(c)
  <2>1. On(c, "join") /\ attach' = attach /\ session' = session /\ (Goto(c, "again") \/ Goto(c, "done"))
    BY <1>11 DEF Joins
  <2> QED BY <1>3, <1>4, <1>5, <1>6, <2>1, GotoRuns DEF On
<1>12. CASE TellsAgain(c)
  <2>1. /\ On(c, "again") /\ attach' = attach /\ Return(c)
        /\ session' = session \/ (published = g /\ Update(g, ReadyAgain(Mine(c))))
    BY <1>12 DEF TellsAgain
  <2>2. \A h \in Sessions : Calm(session[h], session'[h])
    BY <1>2, <2>1, CalmStates, UpdateCalm, ZenonT(30)
  <2> QED BY <1>3, <1>4, <1>6, <2>1, <2>2, ReturnRuns DEF On
<1> QED BY <1>7, <1>8, <1>9, <1>10, <1>11, <1>12 DEF Adding

\* ensure_session and retry: the session that is started has run nothing yet.
LEMMA ReconcilingRuns ==
    ASSUME TypesInv, TypesInv', CallsInv, OwnInv, RunInv, NEW c \in Callers, Reconciling(c)
    PROVE  RunInv'
<1> DEFINE call == caller[c].call
           g == caller[c].gen
<1>1. caller[c] \in CallState /\ PlacedCall(caller[c]) /\ Fits(caller[c])
  BY DEF TypesInv, CallsInv
<1>2. roster' = roster
  BY DEF Reconciling, StartSession, LeadAttaches, LeadFails, Reconcile, ReservesAgain, Awaits, Retry,
         RetriesAttach, service
<1>3. \/ StartSession(c)
      \/ UNCHANGED <<published, created>> /\ (roster' # "out" <=> roster # "out")
  BY <1>2 DEF Reconciling, LeadAttaches, LeadFails, Reconcile, ReservesAgain, Awaits, Retry,
         RetriesAttach, service
<1>4. session' = session => \A h \in Sessions : Calm(session[h], session'[h])
  BY UpdateCalm
<1>5. \A pc \in {"lead", "await", "repair", "reattach", "retry", "retry attach", "join", "again", "done"} :
         StillAt(pc) /\ pc # "wake"
  BY DEF StillAt
<1>6. \A name : AfterEnsure(name) \in {"retry", "done"}
  BY DEF AfterEnsure
<1>7. CASE StartSession(c)
  <2>1. PICK name \in Ensuring : Become(c, [NoCall EXCEPT !.call = name, !.pc = "lead", !.gen = created + 1])
    BY <1>7 DEF StartSession
  <2> DEFINE r == [NoCall EXCEPT !.call = name, !.pc = "lead", !.gen = created + 1]
             t == [session[created + 1] EXCEPT !.member = (roster = "in")]
  <2>2. /\ Become(c, r) /\ Comes(c) /\ attach' = attach /\ Update(created + 1, t)
        /\ created' = created + 1 /\ published' = created + 1 /\ created < MaxSessions
    BY <1>7, <2>1 DEF StartSession
  <2>3. r.pc = "lead"
    BY DEF NoCall
  <2>4. StillAt(r.pc) /\ StillAt(caller[c].pc) /\ caller[c].pc # "wake"
    BY <2>2, <2>3, Comers DEF StillAt, On
  <2>5. created \in Nat /\ created + 1 \in Sessions
    BY <2>2, BoundsAssumption DEF TypesInv, Sessions
  <2>6. session[created + 1] \in SessionState /\ NotBegun(created + 1)
    BY <2>5 DEF TypesInv, RunInv, RunsWell
  <2>7. /\ t.next = session[created + 1].next /\ ~t.stopped /\ ~t.loop /\ ~t.work
    BY <2>5, <2>6 DEF SessionState, NotBegun
  <2> HIDE DEF r, t
  <2>8. \A h \in Sessions : session'[h] = IF h = created + 1 THEN t ELSE session[h]
    BY <2>2 DEF Update, TypesInv
  <2>9. \A d \in Callers : caller'[d] = IF d = c THEN r ELSE caller[d]
    BY <2>2 DEF Become, TypesInv
  <2>10. \A h \in Sessions : /\ (Registering(h) => Registering(h)') /\ (Telling(h) => Telling(h)')
                             /\ (Waking(h) => Waking(h)')
    BY <2>2, <2>4, <2>9 DEF Registering, Telling, Waking, WakesIn
  <2>11. \A h \in Sessions, d \in Callers, o \in Ops :
            LastRemoves(caller'[d], h, o) => LastRemoves(caller[d], h, o)
    BY <2>4, <2>9, StillFacts
  <2>12. \A h \in Sessions : h # created + 1 => RunsWell(h)'
    <3> SUFFICES ASSUME NEW h \in Sessions, h # created + 1 PROVE RunsWell(h)'
      OBVIOUS
    <3>1. Calm(session[h], session'[h]) /\ RunsWell(h)
      BY <2>8, CalmStates DEF TypesInv, RunInv
    <3>2. h > created' => h > created
      BY <2>2, <2>5 DEF Sessions
    <3> QED BY <1>2, <2>10, <2>11, <3>1, <3>2, CalmRunsWell
  <2>13. \A h \in Sessions : h = created + 1 => RunsWell(h)'
    <3> SUFFICES ASSUME NEW h \in Sessions, h = created + 1 PROVE RunsWell(h)'
      OBVIOUS
    <3>1. ~session'[h].stopped /\ ~session'[h].loop /\ ~session'[h].work
      BY <2>7, <2>8
    <3> QED BY <3>1 DEF RunsWell, NotBegun, LoopIsKnown, WorkIsTold
  <2>14. \A h \in Sessions : session[h].next \in Nat
    BY DEF TypesInv, SessionState
  <2>15. \A h \in Sessions : RunsWell(h)' /\ session'[h].next >= session[h].next
    BY <2>7, <2>8, <2>12, <2>13, <2>14
  <2>16. \A d \in Callers : caller[d].gen <= created
    BY DEF TypesInv, PlacedCall
  <2>17. \A h \in Sessions : ~(session'[h].stopped /\ published' = h)
    BY <2>2, <2>7, <2>8
  <2>18. ~LateAt(r.pc) /\ \A h, o : ~StopsIn(r, h) /\ ~BeganRemoval(r, h, o)
    BY <2>4, StillFacts
  <2> QED BY <1>2, <2>2, <2>15, <2>16, <2>17, <2>18, CallRuns
<1>8. CASE LeadAttaches(c) \/ Awaits(c)
  <2>1. /\ On(c, "lead") \/ On(c, "await")
        /\ attach' = attach /\ session' = session
        /\ Goto(c, AfterEnsure(call)) \/ Goto(c, "done")
    BY <1>8 DEF LeadAttaches, Awaits
  <2>2. UNCHANGED <<published, created>>
    BY <1>8 DEF LeadAttaches, Awaits, service
  <2> QED BY <1>2, <1>4, <1>5, <1>6, <2>1, <2>2, GotoRuns DEF On
<1>9. CASE LeadFails(c)
  <2> DEFINE r == Moved(c, "stop work")
  <2>1. On(c, "lead") /\ Become(c, r) /\ attach' = attach /\ session' = session
    BY <1>9 DEF LeadFails, Goto
  <2>2. r.pc = "stop work" /\ r.call = call
    BY MovedFacts
  <2> HIDE DEF r
  <2>3. r.call \in Ensuring
    BY <1>1, <2>1, <2>2 DEF Fits, Passes, On
  <2>4. UNCHANGED <<published, created>>
    BY <1>9 DEF LeadFails, service
  <2>5. \A d \in Callers : caller'[d] = IF d = c THEN r ELSE caller[d]
    BY <2>1 DEF Become, TypesInv
  <2>6. \A h \in Sessions : /\ (Registering(h) => Registering(h)') /\ (Telling(h) => Telling(h)')
                            /\ (Waking(h) => Waking(h)')
    BY <2>1, <2>5 DEF Registering, Telling, Waking, WakesIn, On
  <2>7. \A h, o : ~LastRemoves(r, h, o) /\ ~BeganRemoval(r, h, o) /\ ~LateAt(r.pc)
    BY <2>2 DEF LastRemoves, BeganRemoval, RemovingAt, LateAt
  <2>8. \A h \in Sessions, d \in Callers, o \in Ops :
           LastRemoves(caller'[d], h, o) => LastRemoves(caller[d], h, o)
    BY <2>5, <2>7
  <2>9. \A h \in Sessions : RunsWell(h)'
    BY <1>2, <1>4, <2>1, <2>4, <2>6, <2>8, CalmRunsWell DEF RunInv
  <2>10. \A h \in Sessions : session[h].next \in Nat
    BY DEF TypesInv, SessionState
  <2>11. \A h \in Sessions : RunsWell(h)' /\ session'[h].next >= session[h].next
    BY <2>1, <2>9, <2>10
  <2>12. \A h : ~TakesBack(caller[c], h)
    BY <2>1 DEF On, TakesBack
  <2>13. published' # created + 1 /\ published' = published
    BY <2>4 DEF TypesInv
  <2>14. ~LateAt(r.pc)
    BY <2>2 DEF LateAt
  <2>15. \A h \in Sessions : session'[h].stopped /\ published' = h =>
                                session[h].stopped /\ published = h /\ ~TakesBack(caller[c], h)
    BY <2>1, <2>12, <2>13
  <2> QED BY <1>2, <2>1, <2>3, <2>7, <2>11, <2>13, <2>14, <2>15, CallRuns
<1>10. CASE Reconcile(c)
  <2>1. PICK name \in Ensuring, pc \in {"await", "repair", "reattach"} :
           Become(c, [NoCall EXCEPT !.call = name, !.pc = pc, !.gen = published])
    BY <1>10 DEF Reconcile, Call, Plan
  <2> DEFINE r == [NoCall EXCEPT !.call = name, !.pc = pc, !.gen = published]
             t == [session[published] EXCEPT !.member = TRUE]
  <2>2. Become(c, r) /\ Comes(c) /\ attach' = attach /\ (Update(published, t) \/ session' = session)
    BY <1>10, <2>1 DEF Reconcile, Call
  <2>3. r.pc = pc
    BY DEF NoCall
  <2>4. published \in Sessions => Calm(session[published], t)
    BY CalmStates DEF TypesInv
  <2> HIDE DEF r, t
  <2>5. StillAt(r.pc) /\ StillAt(caller[c].pc) /\ caller[c].pc # "wake"
    BY <1>5, <2>2, <2>3, Comers DEF StillAt, On
  <2>6. \A h \in Sessions : Calm(session[h], session'[h])
    BY <2>2, <2>4, UpdateCalm
  <2>7. UNCHANGED <<published, created>>
    BY <1>10 DEF Reconcile
  <2> QED BY <1>2, <2>2, <2>5, <2>6, <2>7, PassingRuns
<1>11. CASE ReservesAgain(c)
  <2> DEFINE found == IF On(c, "repair") THEN RepairReservation(session[g])
                      ELSE Reservation(session[g], TRUE)
             pc == IF found = "stopped" THEN "done" ELSE "await"
  <2>1. On(c, "repair") \/ On(c, "reattach")
    BY <1>11 DEF ReservesAgain
  <2>2. g \in Sessions
    BY <1>1, <2>1, MineType DEF On, PlacedCall, Placed
  <2>3. /\ Take(g, found, "attaching") /\ Become(c, Reserved(c, pc, g, found))
        /\ UNCHANGED <<published, created>>
        /\ IF found = "start" THEN Spawn(g, session[g].next, FALSE) ELSE UNCHANGED attach
    BY <1>11 DEF ReservesAgain
  <2>4. StillAt(pc) /\ StillAt(caller[c].pc) /\ caller[c].pc # "wake"
    BY <1>5, <2>1 DEF On
  <2> HIDE DEF found, pc
  <2> QED BY <1>2, <2>2, <2>3, <2>4, ReserveRuns
<1>12. CASE Retry(c)
  <2>1. /\ On(c, "retry") /\ attach' = attach /\ session' = session /\ UNCHANGED <<published, created>>
        /\ Become(c, [Moved(c, "retry attach") EXCEPT !.gen = published]) \/ Return(c)
    BY <1>12 DEF Retry, service
  <2>2. CASE Become(c, [Moved(c, "retry attach") EXCEPT !.gen = published])
    <3> DEFINE r == [Moved(c, "retry attach") EXCEPT !.gen = published]
    <3>1. r.pc = "retry attach"
      BY <1>1 DEF CallState, Moved
    <3>2. Become(c, r)
      BY <2>2
    <3> HIDE DEF r
    <3> QED BY <1>2, <1>4, <1>5, <2>1, <3>1, <3>2, PassingRuns DEF On
  <2>3. CASE Return(c)
    BY <1>2, <1>4, <1>5, <2>1, <2>3, ReturnRuns DEF On
  <2> QED BY <2>1, <2>2, <2>3
<1>13. CASE RetriesAttach(c)
  <2> DEFINE found == Reservation(session[g], TRUE)
             pc == Afterwards(found)
  <2>1. On(c, "retry attach") /\ UNCHANGED <<published, created>>
    BY <1>13 DEF RetriesAttach, service
  <2>2. g \in Sessions
    BY <1>1, <2>1, MineType DEF On, PlacedCall, Placed
  <2>3. /\ Take(g, found, "attaching") /\ Become(c, Reserved(c, pc, g, found))
        /\ IF found = "start" THEN Spawn(g, session[g].next, TRUE) ELSE UNCHANGED attach
    BY <1>13 DEF RetriesAttach
  <2>4. pc \in {"join", "again", "done"}
    BY DEF Afterwards
  <2> HIDE DEF found, pc
  <2>5. StillAt(pc) /\ StillAt(caller[c].pc) /\ caller[c].pc # "wake"
    BY <1>5, <2>1, <2>4 DEF On
  <2> QED BY <1>2, <2>1, <2>2, <2>3, <2>5, ReserveRuns
<1> QED BY <1>7, <1>8, <1>9, <1>10, <1>11, <1>12, <1>13 DEF Reconciling

\* A call that removes the member goes on calmly: it says that it has removed the loop for
\* the last time when it has, and that it removes an operation when it has begun it.
LEMMA RemovalRuns ==
    ASSUME TypesInv, TypesInv', RunInv, NEW c \in Callers, NEW r, Become(c, r),
           caller[c].pc # "wake", \A h \in Sessions : ~TakesBack(caller[c], h) /\ ~StopsIn(r, h),
           UNCHANGED <<published, created>>, roster = "out" => roster' = "out", attach' = attach,
           \A h \in Sessions : Calm(session[h], session'[h]),
           \A h \in Sessions, o \in Ops :
              /\ LastRemoves(r, h, o) => LastRemoves(caller[c], h, o) \/ ~session'[h].loop
              /\ BeganRemoval(r, h, o) => BeganRemoval(caller[c], h, o),
           LateAt(r.pc) => roster' = "out"
    PROVE  RunInv'
<1>1. \A d \in Callers : caller'[d] = IF d = c THEN r ELSE caller[d]
  BY DEF Become, TypesInv
<1>2. \A h \in Sessions : /\ (Registering(h) => Registering(h)') /\ (Telling(h) => Telling(h)')
                          /\ (Waking(h) => Waking(h)')
  BY <1>1 DEF Registering, Telling, Waking, WakesIn
<1>3. \A h \in Sessions, d \in Callers, o \in Ops :
         LastRemoves(caller'[d], h, o) => LastRemoves(caller[d], h, o) \/ ~session'[h].loop
  BY <1>1
<1>4. \A h \in Sessions : RunsWell(h)'
  BY <1>2, <1>3, CalmRunsWell DEF RunInv
<1>5. \A h \in Sessions : session'[h].next >= session[h].next /\ session'[h].stopped = session[h].stopped
  BY DEF Calm
<1>6. published' # created + 1 /\ published' = published
  BY DEF TypesInv
<1>7. \A h \in Sessions : session'[h].stopped /\ published' = h =>
                             session[h].stopped /\ published = h /\ ~TakesBack(caller[c], h)
  BY <1>5, <1>6
<1> QED BY <1>4, <1>5, <1>6, <1>7, CallRuns

\* Where a call comes that has asked for a removal.
BeginsAt(pc) == pc \in {"await removal", "stop loop", "await other", "stop loop again"}

\* A removal begins, waits for the one under way, or finds nothing: no call has removed
\* the loop for the operation that begins.
LEMMA RemovalBeginsRuns ==
    ASSUME TypesInv, TypesInv', RunInv, NEW c \in Callers, NEW pc, NEW found,
           Take(published, found, "removing"), Become(c, Reserved(c, pc, published, found)),
           found = "start" => published \in Sessions,
           caller[c].pc # "wake", \A h \in Sessions : ~TakesBack(caller[c], h),
           BeginsAt(pc),
           LateAt(pc) => roster = "out",
           UNCHANGED <<published, created, roster>>, attach' = attach
    PROVE  RunInv'
<1> DEFINE r == Reserved(c, pc, published, found)
<1>1. caller[c] \in CallState
  BY DEF TypesInv
<1>2. /\ r.pc = pc /\ r.gen = published /\ r.found = found
      /\ found = "start" => r.op = session[published].next
  BY <1>1 DEF Reserved, CallState
<1>3. Become(c, r)
  OBVIOUS
<1> HIDE DEF r
<1>4. \A h, o : ~StopsIn(r, h) /\ ~LastRemoves(r, h, o)
  BY <1>2 DEF StopsIn, LastRemoves, BeginsAt
<1>5. \A d \in Callers : caller'[d] = IF d = c THEN r ELSE caller[d]
  BY <1>3 DEF Become, TypesInv
<1>6. CASE found # "start"
  <2>1. session' = session /\ \A h, o : ~BeganRemoval(r, h, o)
    BY <1>2, <1>6 DEF Take, BeganRemoval
  <2>2. \A h \in Sessions : Calm(session[h], session'[h])
    BY <2>1, UpdateCalm
  <2> QED BY <1>2, <1>3, <1>4, <2>1, <2>2, RemovalRuns
<1>7. CASE found = "start"
  <2> DEFINE t == Begin(session[published], "removing")
  <2>1. published \in Sessions /\ session[published] \in SessionState
    BY <1>7 DEF TypesInv
  <2>2. Update(published, t)
    BY <1>7 DEF Take
  <2>3. \A h \in Sessions : session'[h] = IF h = published THEN t ELSE session[h]
    BY <2>2 DEF Update, TypesInv
  <2> DEFINE o == session[published].next
  <2>4. /\ o \in Nat /\ t.next = o + 1 /\ t.stopped = session[published].stopped
        /\ t.loop = session[published].loop /\ t.work = session[published].work
        /\ t.member = session[published].member /\ t.entry = BeingRemoved(o)
    BY <2>1 DEF Begin, SessionState, BeingRemoved
  <2> HIDE DEF t
  <2>5. \A h \in Sessions : /\ (Registering(h) => Registering(h)') /\ (Telling(h) => Telling(h)')
                            /\ (Waking(h) => Waking(h)')
    BY <1>5 DEF Registering, Telling, Waking, WakesIn
  <2>6. \A h \in Sessions, d \in Callers, p \in Ops :
           LastRemoves(caller'[d], h, p) => LastRemoves(caller[d], h, p)
    BY <1>4, <1>5
  <2>7. \A h \in Sessions : h # published => RunsWell(h)'
    <3> SUFFICES ASSUME NEW h \in Sessions, h # published PROVE RunsWell(h)'
      OBVIOUS
    <3>1. Calm(session[h], session'[h]) /\ RunsWell(h)
      BY <2>3, CalmStates DEF TypesInv, RunInv
    <3> QED BY <2>5, <2>6, <3>1, CalmRunsWell
  <2>8. ASSUME NEW h \in Sessions, h = published PROVE RunsWell(h)'
    <3>1. session'[h] = t /\ RunsWell(h) /\ created' = created
      BY <2>3, <2>8 DEF RunInv
    <3>2. NotBegun(h)'
      BY <2>4, <2>8, <3>1 DEF RunsWell, NotBegun
    <3>3. ~Cleared(h)'
      <4> SUFFICES ASSUME NEW d \in Callers, NEW p \in Ops, LastRemoves(caller'[d], h, p),
                          session'[h].entry = BeingRemoved(p)
                   PROVE  FALSE
        BY DEF Cleared
      <4>1. BeingRemoved(p) = BeingRemoved(o)
        BY <2>4, <3>1
      <4>2. p = o
        BY <4>1, StateFacts DEF BeingRemoved
      <4>3. LastRemoves(caller[d], h, p)
        BY <2>6
      <4>4. BeganRemoval(caller[d], h, p)
        BY <4>3 DEF LastRemoves, BeganRemoval, RemovingAt
      <4>5. p < session[h].next
        BY <4>4 DEF RunInv, CallWell
      <4> QED BY <2>4, <2>8, <4>2, <4>5 DEF Ops
    <3>4. session'[h].entry.kind = "removing"
      BY <2>4, <3>1, StateFacts DEF BeingRemoved
    <3>5. session'[h].entry # Absent /\ session'[h].entry # Ready
      BY <3>4, StateFacts DEF Absent, Ready
    <3>6. LoopIsKnown(h)'
      BY <3>3, <3>5 DEF LoopIsKnown
    <3>7. WorkIsTold(h)'
      BY <2>4, <2>8, <3>1, <3>5 DEF RunsWell, WorkIsTold
    <3> QED BY <3>2, <3>6, <3>7 DEF RunsWell
  <2>9. \A h \in Sessions : session[h].next \in Nat
    BY DEF TypesInv, SessionState
  <2>10. \A h \in Sessions : RunsWell(h)' /\ session'[h].next >= session[h].next
    BY <2>3, <2>4, <2>7, <2>8, <2>9
  <2>11. \A h \in Sessions : session'[h].stopped = session[h].stopped
    BY <2>3, <2>4
  <2>12. \A h \in Sessions : session'[h].stopped /\ published' = h =>
                                session[h].stopped /\ published = h /\ ~TakesBack(caller[c], h)
    BY <2>11
  <2>13. ASSUME NEW h \in Sessions, NEW p \in Ops, BeganRemoval(r, h, p)
         PROVE  p < session'[h].next
    <3>1. h = published /\ p = o
      BY <1>2, <1>7, <2>13 DEF BeganRemoval
    <3>2. session'[h].next = o + 1
      BY <2>3, <2>4, <3>1
    <3> QED BY <2>4, <3>1, <3>2
  <2>14. published' # created + 1 /\ published' = published
    BY DEF TypesInv
  <2> QED BY <1>2, <1>3, <1>4, <2>10, <2>12, <2>13, <2>14, CallRuns
<1> QED BY <1>6, <1>7

\* A call that takes the member out of a session for good finds it out of the team; it
\* ends its removal when the loop has gone.
LEMMA LateRemovalRuns ==
    ASSUME TypesInv, TypesInv', RunInv, NEW c \in Callers, NEW r, Become(c, r),
           LateAt(caller[c].pc), NEW g \in Sessions, NEW t, Update(g, t),
           (r = Moved(c, "finish") /\ caller[c].pc = "unschedule") \/ r.pc = "done",
           t.next = session[g].next, t.stopped = session[g].stopped, t.loop = session[g].loop,
           t.work = session[g].work,
           \/ t.entry = session[g].entry
           \/ t.entry = Absent /\ \E o \in Ops : LastRemoves(caller[c], g, o)
                                                 /\ session[g].entry = BeingRemoved(o),
           UNCHANGED <<service, attach>>
    PROVE  RunInv'
<1>1. UNCHANGED <<published, created, roster>> /\ roster = "out"
  BY DEF service, RunInv, CallWell
<1>2. \A d \in Callers : caller'[d] = IF d = c THEN r ELSE caller[d]
  BY DEF Become, TypesInv
<1>3. \A h \in Sessions : session'[h] = IF h = g THEN t ELSE session[h]
  BY DEF Update, TypesInv
<1>4. /\ \A h, o : /\ LastRemoves(r, h, o) => LastRemoves(caller[c], h, o)
                   /\ BeganRemoval(r, h, o) => BeganRemoval(caller[c], h, o)
      /\ \A h : ~StopsIn(r, h) /\ ~TakesBack(caller[c], h)
      /\ caller[c].pc # "wake"
  <2>1. Moved(c, "finish").pc = "finish" /\ Moved(c, "finish").gen = caller[c].gen
        /\ Moved(c, "finish").op = caller[c].op /\ Moved(c, "finish").found = caller[c].found
    BY MovedFacts
  <2> QED BY <2>1 DEF LastRemoves, BeganRemoval, RemovingAt, StopsIn, TakesBack, LateAt
<1>5. \A h \in Sessions : Registering(h) => Registering(h)'
  BY DEF Registering
<1>6. \A h \in Sessions : Cleared(h)' => Cleared(h) \/ session'[h].entry # session[h].entry
  BY <1>2, <1>4 DEF Cleared
<1>7. ASSUME NEW h \in Sessions PROVE RunsWell(h)'
  <2>1. RunsWell(h)
    BY DEF RunInv
  <2>2. /\ session'[h].stopped = session[h].stopped /\ session'[h].loop = session[h].loop
        /\ session'[h].work = session[h].work
    BY <1>3
  <2>3. NotBegun(h)'
    BY <1>1, <2>1, <2>2 DEF RunsWell, NotBegun
  <2>4. session'[h].entry = session[h].entry \/ Cleared(h)
    BY <1>3 DEF Cleared
  <2>5. LoopIsKnown(h)'
    BY <1>5, <1>6, <2>1, <2>2, <2>4 DEF RunsWell, LoopIsKnown
  <2>6. WorkIsTold(h)'
    BY <1>1 DEF WorkIsTold
  <2> QED BY <2>3, <2>5, <2>6 DEF RunsWell
<1>8. \A h \in Sessions : session[h].next \in Nat
  BY DEF TypesInv, SessionState
<1>9. \A h \in Sessions : RunsWell(h)' /\ session'[h].next >= session[h].next
  BY <1>3, <1>7, <1>8
<1>10. \A h \in Sessions : session'[h].stopped /\ published' = h =>
                              session[h].stopped /\ published = h /\ ~TakesBack(caller[c], h)
  BY <1>1, <1>3, <1>4
<1>11. published' # created + 1
  BY <1>1 DEF TypesInv
<1> QED BY <1>1, <1>4, <1>9, <1>10, <1>11, CallRuns

\* Where a call comes that removes a member, and where the loop has gone for the last time.
RemovalAt(pc) == RemovingAt(pc) \/ pc \in {"remove", "await removal", "await other"}
LastAt(pc) == pc \in {"kill again", "unschedule", "finish"}

\* A call that removes the member moves on calmly.
LEMMA RemovalMoves ==
    ASSUME TypesInv, TypesInv', RunInv, NEW c \in Callers, NEW pc, Goto(c, pc),
           RemovalAt(caller[c].pc), RemovingAt(caller[c].pc) \/ caller[c].pc = "await other",
           RemovingAt(pc), LateAt(pc) => roster' = "out",
           UNCHANGED <<published, created>>, roster = "out" => roster' = "out", attach' = attach,
           \A h \in Sessions : Calm(session[h], session'[h]),
           LastAt(pc) => \/ LastAt(caller[c].pc)
                         \/ \A h \in Sessions : h = caller[c].gen => ~session'[h].loop
    PROVE  RunInv'
<1> DEFINE r == Moved(c, pc)
<1>1. Become(c, r) /\ r.pc = pc /\ r.gen = caller[c].gen /\ r.op = caller[c].op
      /\ r.found = caller[c].found
  BY MovedFacts DEF Goto
<1> HIDE DEF r
<1>2. caller[c].pc # "wake" /\ \A h \in Sessions : ~TakesBack(caller[c], h) /\ ~StopsIn(r, h)
  BY <1>1 DEF RemovalAt, RemovingAt, TakesBack, StopsIn
<1>3. \A h \in Sessions, o \in Ops : BeganRemoval(r, h, o) => BeganRemoval(caller[c], h, o)
  BY <1>1 DEF BeganRemoval
<1>4. \A h \in Sessions, o \in Ops :
         LastRemoves(r, h, o) => LastRemoves(caller[c], h, o) \/ ~session'[h].loop
  BY <1>1 DEF LastRemoves, LastAt
<1> QED BY <1>1, <1>2, <1>3, <1>4, RemovalRuns

\* A call that removes the member returns.
LEMMA RemovalReturns ==
    ASSUME TypesInv, TypesInv', RunInv, NEW c \in Callers, Return(c), RemovalAt(caller[c].pc),
           UNCHANGED <<published, created>>, roster = "out" => roster' = "out", attach' = attach,
           \A h \in Sessions : Calm(session[h], session'[h])
    PROVE  RunInv'
<1> DEFINE r == [NoCall EXCEPT !.pc = "done"]
<1>1. Become(c, r) /\ r.pc = "done"
  BY DEF Return, NoCall
<1> HIDE DEF r
<1>2. caller[c].pc # "wake" /\ \A h \in Sessions : ~TakesBack(caller[c], h)
  BY DEF RemovalAt, RemovingAt, TakesBack
<1>3. StillAt(r.pc)
  BY <1>1 DEF StillAt
<1> QED BY <1>1, <1>2, <1>3, StillFacts, RemovalRuns

\* remove_agent.
LEMMA RemovingRuns ==
    ASSUME TypesInv, TypesInv', CallsInv, OwnInv, RunInv, NEW c \in Callers, Removing(c)
    PROVE  RunInv'
<1> DEFINE g == caller[c].gen
<1>1. caller[c] \in CallState /\ PlacedCall(caller[c]) /\ CallWell(c)
  BY DEF TypesInv, RunInv
<1>2. g \in Sessions => Mine(c) \in SessionState /\ Mine(c) = session[g]
  BY DEF TypesInv, Mine
<1>3. caller[c].found = "start" => g \in Sessions /\ caller[c].op \in Ops
  BY <1>1, MineType, BoundsAssumption DEF PlacedCall, CallState, Ops
<1>4. published \in Sessions \cup {0}
  BY BoundsAssumption DEF TypesInv, Sessions
<1>5. attach' = attach /\ UNCHANGED <<published, created>>
  BY DEF Removing, Remove, BeginsRemoval, AwaitsRemoval, StopsLoop, KillsAgent, Persists, Restores,
         FindsSession, StopsLoopAgain, KillsAgentAgain, Unschedules, FinishesRemoval, service
<1>6. roster = "out" => roster' = "out"
  BY DEF Removing, Remove, BeginsRemoval, AwaitsRemoval, StopsLoop, KillsAgent, Persists, Restores,
         FindsSession, StopsLoopAgain, KillsAgentAgain, Unschedules, FinishesRemoval, service
<1>7. session' = session => \A h \in Sessions : Calm(session[h], session'[h])
  BY UpdateCalm
<1>8. ASSUME NEW pc PROVE On(c, pc) => caller[c].pc = pc
  BY DEF On
<1>9. /\ \A pc \in {"remove", "await removal", "await other"} : RemovalAt(pc)
      /\ \A pc : RemovingAt(pc) => RemovalAt(pc)
      /\ \A pc : RemovingAt(pc) <=>
            pc \in {"stop loop", "kill", "persist", "restore", "find session",
                    "stop loop again", "kill again", "unschedule", "finish"}
  BY DEF RemovalAt, RemovingAt
<1>10. CASE Remove(c)
  <2> DEFINE r == [NoCall EXCEPT !.call = "remove", !.pc = "remove", !.gen = published]
  <2>1. Become(c, r) /\ Comes(c) /\ session' = session
    BY <1>10 DEF Remove, Call
  <2>2. StillAt(r.pc) /\ StillAt(caller[c].pc) /\ caller[c].pc # "wake"
    BY <2>1, Comers DEF NoCall, StillAt, On
  <2>3. roster' = roster
    BY <1>10 DEF Remove, service
  <2> HIDE DEF r
  <2> QED BY <1>5, <1>7, <2>1, <2>2, <2>3, PassingRuns
<1>11. CASE BeginsRemoval(c)
  <2>1. On(c, "remove") /\ roster' = roster
    BY <1>11 DEF BeginsRemoval, service
  <2>2. CASE roster = "in"
    <3> DEFINE found == Removal(published)
               pc == IF found = "join" THEN "await removal" ELSE "stop loop"
    <3>1. Take(published, found, "removing") /\ Become(c, Reserved(c, pc, published, found))
      BY <1>11, <2>2 DEF BeginsRemoval
    <3>2. BeginsAt(pc) /\ ~LateAt(pc)
      BY DEF BeginsAt, LateAt
    <3>3. found = "start" => published \in Sessions
      BY <1>4 DEF Removal
    <3>4. caller[c].pc # "wake" /\ \A h \in Sessions : ~TakesBack(caller[c], h)
      BY <2>1 DEF On, TakesBack
    <3> HIDE DEF pc, found
    <3> QED BY <1>5, <2>1, <3>1, <3>2, <3>3, <3>4, RemovalBeginsRuns
  <2>3. CASE roster # "in"
    <3>1. Return(c) /\ session' = session
      BY <1>11, <2>3 DEF BeginsRemoval
    <3> QED BY <1>5, <1>6, <1>7, <1>8, <1>9, <2>1, <3>1, RemovalReturns
  <2> QED BY <2>2, <2>3
<1>12. CASE AwaitsRemoval(c)
  <2>1. session' = session /\ roster' = roster
    BY <1>12 DEF AwaitsRemoval, service
  <2>2. CASE On(c, "await other") /\ Goto(c, "stop loop again")
    <3>1. caller[c].pc = "await other" /\ RemovalAt(caller[c].pc) /\ RemovingAt("stop loop again")
      BY <1>9, <2>2 DEF On
    <3>2. roster' = "out" /\ ~LastAt("stop loop again")
      BY <1>1, <2>1, <3>1 DEF CallWell, LateAt, LastAt
    <3> QED BY <1>5, <1>6, <1>7, <2>1, <2>2, <3>1, <3>2, RemovalMoves
  <2>3. CASE Return(c) /\ (On(c, "await removal") \/ On(c, "await other"))
    <3>1. RemovalAt(caller[c].pc)
      BY <1>9, <2>3 DEF On
    <3> QED BY <1>5, <1>6, <1>7, <2>1, <2>3, <3>1, RemovalReturns
  <2> QED BY <1>12, <2>2, <2>3 DEF AwaitsRemoval
<1>13. CASE StopsLoop(c) \/ KillsAgent(c)
  <2>1. /\ \E from \in {"stop loop", "kill"} : On(c, from)
        /\ session' = session \/ Update(g, RemoveLoop(Mine(c)))
    BY <1>13 DEF StopsLoop, KillsAgent
  <2>2. PICK pc \in {"kill", "persist"} : Goto(c, pc)
    BY <1>13 DEF StopsLoop, KillsAgent
  <2>3. \A h \in Sessions : Calm(session[h], session'[h])
    BY <1>2, <2>1, CalmStates, UpdateCalm, ZenonT(30)
  <2>4. RemovingAt(caller[c].pc) /\ RemovalAt(caller[c].pc) /\ RemovingAt(pc)
    BY <1>9, <2>1 DEF On
  <2>5. ~LateAt(pc) /\ ~LastAt(pc)
    BY DEF LateAt, LastAt
  <2> QED BY <1>5, <1>6, <2>2, <2>3, <2>4, <2>5, RemovalMoves
<1>14. CASE Persists(c)
  <2>1. On(c, "persist") /\ session' = session
    BY <1>14 DEF Persists
  <2>2. RemovingAt(caller[c].pc) /\ RemovalAt(caller[c].pc)
    BY <1>9, <2>1 DEF On
  <2>3. CASE roster' = "out" /\ Goto(c, "find session")
    <3>1. RemovingAt("find session") /\ ~LastAt("find session")
      BY <1>9 DEF LastAt
    <3> QED BY <1>5, <1>6, <1>7, <2>1, <2>2, <2>3, <3>1, RemovalMoves
  <2>4. CASE Return(c)
    BY <1>5, <1>6, <1>7, <2>1, <2>2, <2>4, RemovalReturns
  <2>5. CASE Goto(c, "restore")
    <3>1. RemovingAt("restore") /\ ~LateAt("restore") /\ ~LastAt("restore")
      BY <1>9 DEF LateAt, LastAt
    <3> QED BY <1>5, <1>6, <1>7, <2>1, <2>2, <2>5, <3>1, RemovalMoves
  <2> QED BY <1>14, <2>3, <2>4, <2>5 DEF Persists
<1>15. CASE Restores(c)
  <2> DEFINE o == caller[c].op
             t == End(Mine(c), o, State("failed", o), "failed")
  <2>1. On(c, "restore") /\ Return(c)
    BY <1>15 DEF Restores
  <2>2. session' = session \/ (g \in Sessions /\ Update(g, t))
    BY <1>3, <1>15 DEF Restores
  <2>3. g \in Sessions => Calm(session[g], t)
    BY <1>2, CalmStates
  <2> HIDE DEF t
  <2>4. \A h \in Sessions : Calm(session[h], session'[h])
    BY <2>2, <2>3, UpdateCalm
  <2>5. RemovalAt(caller[c].pc)
    BY <1>9, <2>1 DEF On
  <2> QED BY <1>5, <1>6, <2>1, <2>4, <2>5, RemovalReturns
<1>16. CASE FindsSession(c)
  <2>1. On(c, "find session") /\ roster' = roster
    BY <1>16 DEF FindsSession, service
  <2>2. RemovingAt(caller[c].pc) /\ RemovalAt(caller[c].pc) /\ roster = "out"
    BY <1>1, <1>9, <2>1 DEF On, CallWell, LateAt
  <2>3. CASE Return(c) /\ session' = session
    BY <1>5, <1>6, <1>7, <2>2, <2>3, RemovalReturns
  <2>4. CASE Goto(c, "stop loop again") /\ session' = session
    <3>1. RemovingAt("stop loop again") /\ ~LastAt("stop loop again")
      BY <1>9 DEF LastAt
    <3> QED BY <1>5, <1>6, <1>7, <2>1, <2>2, <2>4, <3>1, RemovalMoves
  <2>5. CASE /\ Take(published, Removal(published), "removing")
             /\ Become(c, Reserved(c, IF Removal(published) = "join" THEN "await other"
                                      ELSE "stop loop again", published, Removal(published)))
    <3> DEFINE found == Removal(published)
               pc == IF found = "join" THEN "await other" ELSE "stop loop again"
    <3>1. Take(published, found, "removing") /\ Become(c, Reserved(c, pc, published, found))
      BY <2>5
    <3>2. BeginsAt(pc)
      BY DEF BeginsAt
    <3>3. found = "start" => published \in Sessions
      BY <1>4 DEF Removal
    <3>4. caller[c].pc # "wake" /\ \A h \in Sessions : ~TakesBack(caller[c], h)
      BY <2>1 DEF On, TakesBack
    <3> HIDE DEF pc, found
    <3> QED BY <1>5, <2>1, <2>2, <3>1, <3>2, <3>3, <3>4, RemovalBeginsRuns
  <2> QED BY <1>16, <2>3, <2>4, <2>5 DEF FindsSession
<1>17. CASE StopsLoopAgain(c)
  <2>1. On(c, "stop loop again") /\ Goto(c, "kill again") /\ Update(g, RemoveLoop(Mine(c)))
        /\ roster' = roster
    BY <1>17 DEF StopsLoopAgain, service
  <2>2. \A h \in Sessions : Calm(session[h], session'[h])
    BY <1>2, <2>1, CalmStates, UpdateCalm, ZenonT(30)
  <2>3. RemovingAt(caller[c].pc) /\ RemovalAt(caller[c].pc) /\ RemovingAt("kill again")
    BY <1>9, <2>1 DEF On
  <2>4. roster' = "out"
    BY <1>1, <2>1 DEF On, CallWell, LateAt
  <2>5. \A h \in Sessions : h = g => ~session'[h].loop
    BY <1>2, <2>1 DEF Update, TypesInv, RemoveLoop, SessionState
  <2> QED BY <1>5, <1>6, <2>1, <2>2, <2>3, <2>4, <2>5, RemovalMoves
<1>18. CASE KillsAgentAgain(c)
  <2>1. On(c, "kill again") /\ Goto(c, "unschedule") /\ session' = session /\ roster' = roster
    BY <1>18 DEF KillsAgentAgain, service
  <2>2. RemovingAt(caller[c].pc) /\ RemovalAt(caller[c].pc) /\ RemovingAt("unschedule")
    BY <1>9, <2>1 DEF On
  <2>3. roster' = "out" /\ LastAt(caller[c].pc)
    BY <1>1, <2>1 DEF On, CallWell, LateAt, LastAt
  <2> QED BY <1>5, <1>6, <1>7, <2>1, <2>2, <2>3, RemovalMoves
<1>19. CASE Unschedules(c)
  <2> DEFINE t == [Mine(c) EXCEPT !.member = FALSE]
             r == Moved(c, "finish")
  <2>1. /\ On(c, "unschedule") /\ Become(c, r) /\ Update(g, t)
        /\ UNCHANGED service /\ UNCHANGED attach
    BY <1>19 DEF Unschedules, Goto
  <2>2. LateAt(caller[c].pc) /\ caller[c].pc = "unschedule" /\ ~StillAt(caller[c].pc)
    BY <2>1 DEF On, LateAt, StillAt
  <2>3. CASE g \in Sessions
    <3>1. /\ t.next = session[g].next /\ t.stopped = session[g].stopped /\ t.loop = session[g].loop
          /\ t.work = session[g].work /\ t.entry = session[g].entry
      BY <1>2, <2>3 DEF SessionState
    <3> HIDE DEF t
    <3> QED BY <2>1, <2>2, <2>3, <3>1, LateRemovalRuns
  <2>4. CASE g \notin Sessions
    <3>1. session' = session
      BY <2>1, <2>4 DEF Update, TypesInv
    <3>2. RemovingAt(caller[c].pc) /\ RemovalAt(caller[c].pc) /\ RemovingAt("finish")
      BY <1>9, <2>2
    <3>3. roster' = "out" /\ LastAt(caller[c].pc) /\ Goto(c, "finish")
      BY <1>1, <2>1, <2>2 DEF CallWell, LastAt, service, Goto
    <3> QED BY <1>5, <1>6, <1>7, <3>1, <3>2, <3>3, RemovalMoves
  <2> QED BY <2>3, <2>4
<1>20. CASE FinishesRemoval(c)
  <2> DEFINE o == caller[c].op
             t == End(Mine(c), o, Absent, "removed")
             r == [NoCall EXCEPT !.pc = "done"]
  <2>1. On(c, "finish") /\ Return(c) /\ UNCHANGED service
    BY <1>20 DEF FinishesRemoval
  <2>2. CASE caller[c].found = "start" /\ Owns(Mine(c), "removing", o)
    <3>1. g \in Sessions /\ o \in Ops /\ Update(g, t)
      BY <1>3, <1>20, <2>2 DEF FinishesRemoval
    <3>2. /\ t.next = session[g].next /\ t.stopped = session[g].stopped /\ t.loop = session[g].loop
          /\ t.work = session[g].work /\ t.entry = Absent
      BY <1>2, <3>1 DEF End, SessionState
    <3>3. LateAt(caller[c].pc)
      BY <2>1 DEF On, LateAt
    <3>4. LastRemoves(caller[c], g, o)
      BY <2>1, <2>2 DEF On, LastRemoves
    <3>5. session[g].entry = BeingRemoved(o)
      BY <1>2, <2>2, <3>1 DEF Owns, BeingRemoved
    <3>6. Become(c, r) /\ r.pc = "done"
      BY <2>1 DEF Return, NoCall
    <3> HIDE DEF t, r
    <3> QED BY <1>5, <2>1, <3>1, <3>2, <3>3, <3>4, <3>5, <3>6, LateRemovalRuns
  <2>3. CASE ~(caller[c].found = "start" /\ Owns(Mine(c), "removing", o))
    <3>1. session' = session
      BY <1>20, <2>3 DEF FinishesRemoval
    <3>2. RemovalAt(caller[c].pc)
      BY <1>9, <2>1 DEF On
    <3> QED BY <1>5, <1>6, <1>7, <2>1, <3>1, <3>2, RemovalReturns
  <2> QED BY <2>2, <2>3
<1> QED BY <1>10, <1>11, <1>12, <1>13, <1>14, <1>15, <1>16, <1>17, <1>18, <1>19, <1>20 DEF Removing

\* A step of a call that wakes nobody, between sessions that change calmly.
LEMMA OthersStayWell ==
    ASSUME TypesInv, RunInv, NEW c \in Callers, NEW r, Become(c, r), caller[c].pc # "wake",
           \A h \in Sessions, o \in Ops : ~LastRemoves(r, h, o),
           UNCHANGED <<created, roster>>, attach' = attach
    PROVE  \A h \in Sessions : Calm(session[h], session'[h]) => RunsWell(h)'
<1>1. \A d \in Callers : caller'[d] = IF d = c THEN r ELSE caller[d]
  BY DEF Become, TypesInv
<1>2. \A h \in Sessions : /\ (Registering(h) => Registering(h)') /\ (Telling(h) => Telling(h)')
                          /\ (Waking(h) => Waking(h)')
  BY <1>1 DEF Registering, Telling, Waking, WakesIn
<1>3. \A h \in Sessions, d \in Callers, o \in Ops :
         LastRemoves(caller'[d], h, o) => LastRemoves(caller[d], h, o)
  BY <1>1
<1> QED BY <1>2, <1>3, CalmRunsWell DEF RunInv

\* A session is stopped in the order that keeps its loop known.
LEMMA StoppingRuns ==
    ASSUME TypesInv, TypesInv', CallsInv, OwnInv, RunInv, NEW c \in Callers, Stopping(c)
    PROVE  RunInv'
<1> DEFINE g == caller[c].gen
<1>1. caller[c] \in CallState /\ PlacedCall(caller[c]) /\ Fits(caller[c]) /\ CallWell(c)
  BY DEF TypesInv, CallsInv, RunInv
<1>2. g \in Sessions => Mine(c) \in SessionState /\ Mine(c) = session[g]
  BY DEF TypesInv, Mine
<1>3. attach' = attach /\ UNCHANGED <<created, roster>>
  BY DEF Stopping, Stop, StopsWork, StopsRegistry, StopsLoops, KillsIdle, Unpublishes, service
<1>4. session' = session => \A h \in Sessions : Calm(session[h], session'[h])
  BY UpdateCalm
<1>6. \A h \in Sessions : session[h].next \in Nat /\ h # 0
  BY DEF TypesInv, SessionState, Sessions
<1>7. 0 # created + 1 /\ published # created + 1
  BY DEF TypesInv
<1>8. CASE Stop(c)
  <2>1. PICK name \in {"stop", "idle"} :
           Become(c, [NoCall EXCEPT !.call = name, !.pc = "stop work", !.gen = published])
    BY <1>8 DEF Stop, Call
  <2> DEFINE r == [NoCall EXCEPT !.call = name, !.pc = "stop work", !.gen = published]
  <2>2. Become(c, r) /\ Comes(c) /\ session' = session /\ published' = 0
    BY <1>8, <2>1 DEF Stop, Call
  <2>3. r.pc = "stop work"
    BY DEF NoCall
  <2> HIDE DEF r
  <2>4. caller[c].pc # "wake"
    BY <2>2, Comers DEF On
  <2>5. ~LateAt(r.pc) /\ \A h, o : ~LastRemoves(r, h, o) /\ ~BeganRemoval(r, h, o)
    BY <2>3 DEF LateAt, LastRemoves, BeganRemoval, RemovingAt
  <2>6. \A h \in Sessions : RunsWell(h)'
    BY <1>3, <1>4, <2>2, <2>4, <2>5, OthersStayWell
  <2>7. \A h \in Sessions : session'[h].next >= session[h].next /\ published' # h
    BY <1>6, <2>2
  <2> QED BY <1>3, <1>7, <2>2, <2>5, <2>6, <2>7, CallRuns
<1>9. CASE StopsWork(c)
  <2> DEFINE r == Moved(c, "stop registry")
  <2>1. On(c, "stop work") /\ Become(c, r) /\ Update(g, StopWork(Mine(c))) /\ published' = published
    BY <1>9 DEF StopsWork, Goto, service
  <2>2. r.pc = "stop registry" /\ r.gen = g /\ r.call = caller[c].call
    BY MovedFacts
  <2> HIDE DEF r
  <2>3. \A h \in Sessions : Calm(session[h], session'[h])
    BY <1>2, <2>1, CalmStates, UpdateCalm, ZenonT(30)
  <2>4. ~LateAt(r.pc) /\ \A h, o : ~LastRemoves(r, h, o) /\ ~BeganRemoval(r, h, o)
    BY <2>2 DEF LateAt, LastRemoves, BeganRemoval, RemovingAt
  <2>5. caller[c].pc # "wake" /\ \A h : ~TakesBack(caller[c], h)
    BY <2>1 DEF On, TakesBack
  <2>6. \A h \in Sessions : RunsWell(h)'
    BY <1>3, <2>1, <2>3, <2>4, <2>5, OthersStayWell
  <2>7. \A h \in Sessions : StopsIn(r, h) => StopsIn(caller[c], h)
    BY <2>1, <2>2 DEF StopsIn, On
  <2>8. \A h \in Sessions : StopsIn(r, h) /\ published' = h => r.call \in Ensuring
    BY <1>1, <2>1, <2>2, <2>7 DEF CallWell
  <2>9. \A h \in Sessions : session'[h].next >= session[h].next /\ session'[h].stopped = session[h].stopped
    BY <2>3 DEF Calm
  <2> QED BY <1>3, <1>7, <2>1, <2>4, <2>5, <2>6, <2>8, <2>9, CallRuns
<1>10. CASE StopsRegistry(c)
  <2> DEFINE r == Moved(c, "stop loops")
             t == StopEntries(Mine(c))
  <2>1. On(c, "stop registry") /\ Become(c, r) /\ Update(g, t) /\ published' = published
    BY <1>10 DEF StopsRegistry, Goto, service
  <2>2. r.pc = "stop loops" /\ r.gen = g /\ r.call = caller[c].call
    BY MovedFacts
  <2>3. g \in Sessions => /\ t.next = session[g].next /\ t.stopped /\ t.entry = Absent
                          /\ t.work = session[g].work /\ t.member = session[g].member
    BY <1>2 DEF StopEntries, SessionState, OwnInv, StoppedHoldsNothing
  <2> HIDE DEF r, t
  <2>4. \A h \in Sessions : session'[h] = IF h = g THEN t ELSE session[h]
    BY <2>1 DEF Update, TypesInv
  <2>5. ~LateAt(r.pc) /\ \A h, o : ~LastRemoves(r, h, o) /\ ~BeganRemoval(r, h, o)
    BY <2>2 DEF LateAt, LastRemoves, BeganRemoval, RemovingAt
  <2>6. caller[c].pc # "wake" /\ (\A h : ~TakesBack(caller[c], h)) /\ TakesBack(r, g)
    BY <2>1, <2>2 DEF On, TakesBack
  <2>7. \A h \in Sessions : h # g => RunsWell(h)'
    <3>1. \A h \in Sessions : h # g => Calm(session[h], session'[h])
      BY <2>4, CalmStates DEF TypesInv
    <3> QED BY <1>3, <2>1, <2>5, <2>6, <3>1, OthersStayWell
  <2>8. ASSUME NEW h \in Sessions, h = g PROVE RunsWell(h)'
    <3>1. session'[h] = t /\ RunsWell(h)
      BY <2>4, <2>8 DEF RunInv
    <3>2. h <= created
      BY <1>1, <2>8 DEF PlacedCall
    <3>3. NotBegun(h)'
      BY <1>3, <3>2 DEF NotBegun, TypesInv, Sessions
    <3>4. LoopIsKnown(h)'
      BY <2>3, <2>8, <3>1 DEF LoopIsKnown
    <3>5. session'[h].entry # Ready
      BY <2>3, <2>8, <3>1, StateFacts DEF Absent, Ready
    <3>6. WorkIsTold(h)'
      BY <1>3, <2>3, <2>8, <3>1, <3>5 DEF RunsWell, WorkIsTold
    <3> QED BY <3>3, <3>4, <3>6 DEF RunsWell
  <2>9. \A h \in Sessions : RunsWell(h)' /\ session'[h].next >= session[h].next
    BY <1>6, <2>3, <2>4, <2>7, <2>8
  <2>10. \A h \in Sessions : session'[h].stopped /\ published' = h =>
            TakesBack(r, h) \/ (session[h].stopped /\ published = h /\ ~TakesBack(caller[c], h))
    BY <2>1, <2>4, <2>6
  <2>11. \A h \in Sessions : StopsIn(r, h) => StopsIn(caller[c], h)
    BY <2>1, <2>2 DEF StopsIn, On
  <2>12. \A h \in Sessions : StopsIn(r, h) /\ published' = h => r.call \in Ensuring
    BY <1>1, <2>1, <2>2, <2>11 DEF CallWell
  <2> QED BY <1>3, <1>7, <2>1, <2>5, <2>9, <2>10, <2>12, CallRuns
<1>11. CASE StopsLoops(c)
  <2> DEFINE pc == CASE caller[c].call = "stop" -> "done"
                     [] caller[c].call = "idle" -> "kill idle"
                     [] caller[c].call \in Ensuring -> "unpublish"
             r == Moved(c, pc)
             t == [RemoveLoop(Mine(c)) EXCEPT !.closed = TRUE]
  <2>1. On(c, "stop loops") /\ Become(c, r) /\ Update(g, t) /\ published' = published
    BY <1>11 DEF StopsLoops, Goto, service
  <2>2. caller[c].call \in Ensuring \cup {"stop", "idle"}
    BY <1>1, <2>1, Passages DEF On, Fits
  <2>3. pc \in {"done", "kill idle", "unpublish"} /\ (caller[c].call \in Ensuring => pc = "unpublish")
    BY <2>2 DEF Ensuring
  <2> HIDE DEF pc
  <2>4. r.pc = pc /\ r.gen = g
    BY MovedFacts
  <2> HIDE DEF r
  <2>5. \A h \in Sessions : Calm(session[h], session'[h])
    BY <1>2, <2>1, CalmStates, UpdateCalm, ZenonT(30)
  <2>6. ~LateAt(r.pc) /\ \A h, o : ~LastRemoves(r, h, o) /\ ~BeganRemoval(r, h, o) /\ ~StopsIn(r, h)
    BY <2>3, <2>4 DEF LateAt, LastRemoves, BeganRemoval, RemovingAt, StopsIn
  <2>7. caller[c].pc # "wake"
    BY <2>1 DEF On
  <2>8. \A h \in Sessions : RunsWell(h)'
    BY <1>3, <2>1, <2>5, <2>6, <2>7, OthersStayWell
  <2>9. \A h \in Sessions : session'[h].next >= session[h].next /\ session'[h].stopped = session[h].stopped
    BY <2>5 DEF Calm
  <2>10. ASSUME NEW h \in Sessions, TakesBack(caller[c], h), published = h PROVE TakesBack(r, h)
    <3>1. g = h /\ StopsIn(caller[c], h)
      BY <2>1, <2>10 DEF On, TakesBack, StopsIn
    <3>2. caller[c].call \in Ensuring
      BY <1>1, <2>10, <3>1 DEF CallWell
    <3> QED BY <2>3, <2>4, <3>1, <3>2 DEF TakesBack
  <2>11. \A h \in Sessions : session'[h].stopped /\ published' = h =>
            TakesBack(r, h) \/ (session[h].stopped /\ published = h /\ ~TakesBack(caller[c], h))
    BY <2>1, <2>9, <2>10
  <2> QED BY <1>3, <1>7, <2>1, <2>6, <2>8, <2>9, <2>11, CallRuns
<1>12. CASE KillsIdle(c)
  <2>1. On(c, "kill idle") /\ Return(c) /\ session' = session /\ published' = published
    BY <1>12 DEF KillsIdle, service
  <2>2. StillAt(caller[c].pc) /\ caller[c].pc # "wake"
    BY <2>1 DEF On, StillAt
  <2> QED BY <1>3, <1>4, <2>1, <2>2, ReturnRuns
<1>13. CASE Unpublishes(c)
  <2> DEFINE r == [NoCall EXCEPT !.pc = "done"]
  <2>1. On(c, "unpublish") /\ Become(c, r) /\ session' = session /\ published' = 0
    BY <1>13 DEF Unpublishes, Return
  <2>2. r.pc = "done"
    BY DEF NoCall
  <2> HIDE DEF r
  <2>3. StillAt(r.pc) /\ caller[c].pc # "wake"
    BY <2>1, <2>2 DEF On, StillAt
  <2>4. \A h \in Sessions : RunsWell(h)'
    BY <1>3, <1>4, <2>1, <2>3, StillFacts, OthersStayWell
  <2>5. \A h \in Sessions : session'[h].next >= session[h].next /\ published' # h
    BY <1>6, <2>1
  <2> QED BY <1>3, <1>7, <2>1, <2>3, <2>4, <2>5, StillFacts, CallRuns
<1> QED BY <1>8, <1>9, <1>10, <1>11, <1>12, <1>13 DEF Stopping

\* At first no loop runs and no work waits.
LEMMA InitRuns ==
    ASSUME Init
    PROVE  RunInv
<1>1. \A g \in Sessions : /\ ~session[g].stopped /\ ~session[g].loop /\ ~session[g].work
  BY DEF Init, Fresh
<1>2. \A g \in Sessions : RunsWell(g)
  BY <1>1 DEF RunsWell, NotBegun, LoopIsKnown, WorkIsTold
<1>3. StopsWell
  BY <1>1 DEF StopsWell
<1>4. ASSUME NEW c \in Callers PROVE CallWell(c)
  <2>1. caller[c].pc = "idle" /\ StillAt(caller[c].pc)
    BY DEF Init, NoCall, StillAt
  <2> QED BY <2>1, StillFacts DEF CallWell
<1> QED BY <1>2, <1>3, <1>4 DEF RunInv

\* Every step keeps the loops known and the work told.
LEMMA NextRuns ==
    ASSUME TypesInv, TypesInv', CallsInv, OwnInv, RunInv, [Next]_vars
    PROVE  RunInv'
<1>1. CASE \E g \in Sessions, o \in Ops : Attach(g, o)
  BY <1>1, AttachRuns
<1>2. CASE \E g \in Sessions : Loop(g)
  BY <1>2, LoopRuns
<1>3. CASE \E c \in Callers : Acts(c)
  BY <1>3, DeliveringRuns, AddingRuns, ReconcilingRuns, RemovingRuns, StoppingRuns DEF Acts
<1>4. CASE AgentDies \/ UNCHANGED vars
  <2>1. session' = session /\ attach' = attach /\ UNCHANGED service /\ UNCHANGED caller
    BY <1>4 DEF AgentDies, vars
  <2>2. \A h \in Sessions : RunsWell(h)'
    BY <2>1, OthersRunWell
  <2>3. \A h \in Sessions : session'[h].next >= session[h].next /\ session'[h].stopped = session[h].stopped
    BY <2>1 DEF TypesInv, SessionState
  <2> QED BY <2>1, <2>2, <2>3, SessionsRun
<1> QED BY <1>1, <1>2, <1>3, <1>4 DEF Next
(***************************************************************************)
(* The theorems.                                                           *)
(***************************************************************************)

\* The registries of the sessions to come.
LEMMA InitLedger ==
    ASSUME Init
    PROVE  LedgerInv
BY FreshIsGood DEF Init, LedgerInv

\* Every step keeps the ledger and what has been answered.
LEMMA NextIsGood ==
    ASSUME LedgerInv, [Next]_vars
    PROVE  LedgerInv' /\ Final
<1>1. CASE \E g \in Sessions, o \in Ops : Attach(g, o)
  BY <1>1, AttachIsGood
<1>2. CASE \E g \in Sessions : Loop(g)
  BY <1>2, LoopIsGood
<1>3. CASE \E c \in Callers : Acts(c)
  BY <1>3, DeliveringIsGood, AddingIsGood, ReconcilingIsGood, RemovingIsGood, StoppingIsGood DEF Acts
<1>4. CASE AgentDies \/ UNCHANGED vars
  BY <1>4, UnchangedIsGood DEF AgentDies, vars
<1> QED
  BY <1>1, <1>2, <1>3, <1>4 DEF Next

\* The operations that are awaited are at any time those that hold the entry.
THEOREM LedgerTheorem == Spec => []LedgerInv
<1>1. Init => LedgerInv
  BY InitLedger
<1>2. LedgerInv /\ [Next]_vars => LedgerInv'
  BY NextIsGood
<1> QED
  BY <1>1, <1>2, PTL DEF Spec

\* The state has its types, and calls are where calls of their kind come.
LEMMA TypesHold == Spec => [](TypesInv /\ CallsInv)
<1>1. Init => TypesInv /\ CallsInv
  BY InitTypes
<1>2. TypesInv /\ CallsInv /\ [Next]_vars => (TypesInv /\ CallsInv)'
  BY NextTypes
<1> QED BY <1>1, <1>2, PTL DEF Spec

\* Every variable keeps its type, and the registry of a session has answers for the
\* operations it has begun and for no other (member_runtime.rs).
THEOREM RuntimeTypeOKHolds == Spec => []RuntimeTypeOK
<1>1. TypesInv /\ LedgerInv => RuntimeTypeOK
  <2> SUFFICES ASSUME TypesInv, LedgerInv PROVE RuntimeTypeOK
    OBVIOUS
  <2>1. ASSUME NEW g \in Sessions
        PROVE  /\ session[g].entry \in [kind : EntryKinds, op : 0..MaxOps]
               /\ session[g].slot \in [kind : ConstraintKinds, op : 0..MaxOps]
               /\ session[g].answer \in [Ops -> Answers]
               /\ \A o \in Ops : session[g].answer[o] = "unused" <=> o >= session[g].next
    <3>1. session[g] \in SessionState
      BY DEF TypesInv
    <3>2. \A o \in Ops : session[g].answer[o] = "unused" <=> o >= session[g].next
      BY DEF LedgerInv, Ledger
    <3> QED BY <3>1, <3>2 DEF SessionState, Entry, Constraint
  <2> QED BY <2>1 DEF RuntimeTypeOK, TypesInv
<1> QED BY <1>1, TypesHold, LedgerTheorem, PTL

\* Every state the program reaches keeps who owns the entry.
LEMMA OwnHolds == Spec => []OwnInv
<1>1. Init => OwnInv
  BY InitOwn
<1>2. TypesInv /\ CallsInv /\ OwnInv /\ [Next]_vars => OwnInv'
  BY NextKeepsOwn
<1> QED BY <1>1, <1>2, TypesHold, PTL DEF Spec

\* The entry that an attach or a removal holds has an owner that will end it: the
\* attach task, the call that is yet to spawn it, never both, or the removal; unless
\* an error path of the service went away with the reservation (session.rs,
\* service.rs).
THEOREM EntriesAreOwnedHolds == Spec => []EntriesAreOwned
<1>1. OwnInv => EntriesAreOwned
  <2> SUFFICES ASSUME OwnInv, NEW g \in Sessions, NEW o \in Ops, <<g, o>> \notin dropped
               PROVE  /\ session[g].entry = State("attaching", o) =>
                           AttachHolds(g, o) # \E c \in Callers : CallHolds(c, g, o)
                      /\ session[g].entry = State("removing", o) =>
                           \E c \in Callers : RemovalHolds(c, g, o)
    BY DEF EntriesAreOwned
  <2>1. \A c \in Callers : /\ CallHolds(c, g, o) <=> Attaches(caller[c], g, o)
                           /\ RemovalHolds(c, g, o) <=> Removes(caller[c], g, o)
    BY DEF CallHolds, RemovalHolds, Attaches, Removes, AttachingAt, RemovingAt
  <2>2. AttachHolds(g, o) <=> attach[g][o].pc \in HoldingPcs
    BY DEF AttachHolds, HoldingPcs
  <2>3. ASSUME session[g].entry = State("attaching", o)
        PROVE  AttachHolds(g, o) # \E c \in Callers : CallHolds(c, g, o)
    <3> DEFINE spawned == AttachHolds(g, o)
               waiting == \E c \in Callers : CallHolds(c, g, o)
    <3>1. spawned \/ waiting
      BY <2>1, <2>2, <2>3 DEF OwnInv, Owned, Attaching
    <3>2. ~(spawned /\ waiting)
      BY <2>1, <2>2 DEF OwnInv, OneSpawner, HoldingPcs
    <3>3. spawned \in BOOLEAN /\ waiting \in BOOLEAN
      BY DEF AttachHolds
    <3> HIDE DEF spawned, waiting
    <3>4. spawned # waiting
      BY <3>1, <3>2, <3>3
    <3> QED BY <3>4 DEF spawned, waiting
  <2>4. ASSUME session[g].entry = State("removing", o)
        PROVE  \E c \in Callers : RemovalHolds(c, g, o)
    BY <2>1, <2>4 DEF OwnInv, Owned, BeingRemoved
  <2> QED BY <2>3, <2>4
<1> QED BY <1>1, OwnHolds, PTL

\* Every state the program reaches keeps what the loops and the work need.
LEMMA RunHolds == Spec => []RunInv
<1>1. Init => RunInv
  BY InitRuns
<1>2. TypesInv /\ CallsInv /\ OwnInv /\ RunInv /\ [Next]_vars => RunInv'
  BY NextTypes, NextRuns
<1> QED BY <1>1, <1>2, TypesHold, OwnHolds, PTL DEF Spec

\* When nothing is under way for the member, no task and no call is where it would
\* still act.
LEMMA QuietFacts ==
    ASSUME NEW g \in Sessions, Quiet(g), RunInv, published = g
    PROVE  /\ ~session[g].stopped /\ ~Registering(g) /\ ~Telling(g) /\ ~Waking(g)
<1>1. ~Registering(g) /\ ~Telling(g)
  BY DEF Quiet, Registering, Telling, Registers, TellsReady
<1>2. ~Waking(g)
  BY DEF Quiet, Waking, WakesIn
<1>3. \A c \in Callers : ~TakesBack(caller[c], g)
  BY DEF Quiet, TakesBack
<1>4. ~session[g].stopped
  BY <1>3 DEF RunInv, StopsWell
<1> QED BY <1>1, <1>2, <1>4

\* An attach that was replaced leaves no event loop behind for a member that the
\* registry does not know (commit_ready and the deregistration after it, session.rs).
THEOREM AbsentHasNoLoopHolds == Spec => []AbsentHasNoLoop
<1>1. TypesInv /\ RunInv => AbsentHasNoLoop
  <2> SUFFICES ASSUME TypesInv, RunInv, published # 0, Quiet(published),
                      session[published].entry = Absent
               PROVE  ~session[published].loop
    BY DEF AbsentHasNoLoop
  <2>1. published \in Sessions
    BY BoundsAssumption DEF TypesInv, Sessions
  <2>2. LoopIsKnown(published)
    BY <2>1 DEF RunInv, RunsWell
  <2> QED BY <2>1, <2>2, QuietFacts DEF LoopIsKnown
<1> QED BY <1>1, TypesHold, RunHolds, PTL

\* Work that was accepted while the runtime of a member of the team was being attached
\* has reached its loop once the member is ready and nothing is under way (notify_ready
\* and the wake after an enqueue, session.rs and work_coordinator).
THEOREM QueuedWorkHasAWakeUpHolds == Spec => []QueuedWorkHasAWakeUp
<1>1. TypesInv /\ RunInv => QueuedWorkHasAWakeUp
  <2> SUFFICES ASSUME TypesInv, RunInv, published # 0, Quiet(published), roster # "out",
                      session[published].entry = Ready, session[published].loop,
                      session[published].work
               PROVE  session[published].notified \/ session[published].reading # Nothing
    BY DEF QueuedWorkHasAWakeUp
  <2>1. published \in Sessions
    BY BoundsAssumption DEF TypesInv, Sessions
  <2>2. WorkIsTold(published)
    BY <2>1 DEF RunInv, RunsWell
  <2>3. session[published].notified \/ session[published].reading = Ready
    BY <2>1, <2>2, QuietFacts DEF WorkIsTold
  <2>4. Ready # Nothing
    BY StateFacts DEF Ready, Nothing
  <2> QED BY <2>3, <2>4
<1> QED BY <1>1, TypesHold, RunHolds, PTL

\* Whoever waits for an attach or a removal waits for the operation that holds
\* the entry (member_runtime.rs): replaced, ended and stopped operations have told.
THEOREM PendingAnswersAreOwedTheorem == Spec => []PendingAnswersAreOwed
<1>1. LedgerInv => PendingAnswersAreOwed
  BY DEF LedgerInv, Ledger, Holds, PendingAnswersAreOwed
<1> QED
  BY <1>1, LedgerTheorem, PTL

\* The outcome of an operation is sent once (member_runtime.rs): neither a removal
\* nor a stop rewrites what a failed or finished attach has answered.
THEOREM AnswersAreFinalTheorem == Spec => AnswersAreFinal
<1>1. LedgerInv /\ [Next]_vars =>
          [\A g \in Sessions, o \in Ops :
               Answered(g, o) => session'[g].answer[o] = session[g].answer[o]]_vars
  BY NextIsGood DEF Final
<1> QED
  BY <1>1, LedgerTheorem, PTL DEF Spec, AnswersAreFinal
=============================================================================
