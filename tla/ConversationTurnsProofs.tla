----------------------- MODULE ConversationTurnsProofs -----------------------
(***************************************************************************)
(* What holds of ConversationTurns for any number of turns, cells and      *)
(* continuations, whatever calls come and whatever fails.                  *)
(*                                                                         *)
(* The argument: the claim of a conversation is only taken when nobody has *)
(* it, and only given up by its holder or by a revocation; a cell is built *)
(* by one thread at a time, which stands at "build" as long as the cell is *)
(* building; and an agent of the kind that is killed at once is out of the *)
(* slot only as long as a kill_and_wait still waits for it.                *)
(***************************************************************************)
EXTENDS ConversationTurns, TLAPS, WellFoundedInduction

PCs == {"new", "claim", "accept", "slot", "cell", "build", "send", "relay",
        "judge", "release", "complete", "done", "mark", "ask", "hooks", "row",
        "over", "kill", "clear"}

ThreadState ==
    [pc: PCs, cell: Cells \cup {NoCell}, turn: Turns \cup {NoTurn},
     lifecycle: {"active", "deleting", "cancelling"},
     terminal: {"none", "finish", "error"}, replayed: BOOLEAN,
     count: 0..MaxContinuations]

\* The types of the variables but thread.
VariablesTypeOK ==
    /\ exists \in BOOLEAN
    /\ kind \in Kinds
    /\ active \in Turns \cup {NoTurn}
    /\ flags \subseteq {"deleting", "cancelling"}
    /\ slot \in Cells \cup {NoCell}
    /\ agent \in [Cells -> {"empty", "building", "live", "dead", "asleep"}]
    /\ killing \subseteq Cells \X {"error", "timeout", "revoked", "idle"}
    /\ drains \in SUBSET Turns
    /\ accepted \in SUBSET Turns
    /\ stored \in SUBSET Turns
    /\ revoked \in SUBSET Turns
    /\ woken \in SUBSET Turns

\* The types of all variables; a cancel under way has a turn.
StateTypeOK ==
    /\ VariablesTypeOK
    /\ thread \in [Threads -> ThreadState]
    /\ thread[Cancel].pc \in {"mark", "ask"} => thread[Cancel].turn \in Turns

\* A thread that needs an agent, a build or a cell has one.
ThreadsHaveTheirCells ==
    \A t \in Threads :
        /\ thread[t].pc \in {"send", "relay", "judge"} => Initialised(thread[t].cell)
        /\ thread[t].pc = "cell" => thread[t].cell \in Cells
        /\ thread[t].pc = "build" => thread[t].cell \in Cells
                                     /\ agent[thread[t].cell] = "building"

\* A cell is built by one thread at a time.
OneBuilder ==
    \A t, u \in Threads :
        /\ thread[t].pc = "build" /\ thread[u].pc = "build"
        /\ thread[t].cell = thread[u].cell
        => t = u

\* A kill_and_wait waits for cell c.
KillPending(c) == \E k \in killing : k[1] = c

\* Until a delete kills without waiting, a cell with an agent, with a build, or
\* with a thread that will try to build one is in the slot, or a kill waits for
\* it: agents are killed at once.
AgentsAreFound ==
    kind = "acp" /\ thread[Delete].pc \in {"new", "hooks"} =>
        \A c \in Cells :
            \/ agent[c] \in {"live", "building"}
            \/ agent[c] = "empty" /\ \E t \in Threads : thread[t].pc = "cell"
                                                        /\ thread[t].cell = c
            => slot = c \/ KillPending(c)

\* What makes the agents right, together.
AgentsInv == ThreadsHaveTheirCells /\ OneBuilder /\ AgentsAreFound

\* The inductive invariant: NextIInv shows that every step preserves it.
IInv == StateTypeOK /\ AgentsInv /\ OneTurnAtATime

-----------------------------------------------------------------------------
(* One thread moves.                                                       *)

\* Only thread t has another place, cell or turn afterwards.
OneMoves(t) ==
    /\ thread' \in [Threads -> ThreadState]
    /\ \A u \in Threads \ {t} : /\ thread'[u].pc = thread[u].pc
                                /\ thread'[u].cell = thread[u].cell
                                /\ thread'[u].turn = thread[u].turn

\* The fields of a thread state that differs from another one in its place.
LEMMA PlaceChanged ==
    ASSUME NEW r \in ThreadState, NEW p \in PCs
    PROVE  /\ [r EXCEPT !.pc = p] \in ThreadState
           /\ [r EXCEPT !.pc = p].pc = p
           /\ [r EXCEPT !.pc = p].cell = r.cell
           /\ [r EXCEPT !.pc = p].turn = r.turn
  BY DEF ThreadState

\* The same of one that has another cell.
LEMMA CellChanged ==
    ASSUME NEW r \in ThreadState, NEW c \in Cells \cup {NoCell}
    PROVE  /\ [r EXCEPT !.cell = c] \in ThreadState
           /\ [r EXCEPT !.cell = c].pc = r.pc
           /\ [r EXCEPT !.cell = c].cell = c
           /\ [r EXCEPT !.cell = c].turn = r.turn
  BY DEF ThreadState

\* A turn that has sent its prompt keeps its cell and its turn.
LEMMA PromptedFacts ==
    ASSUME NEW r \in ThreadState, NEW l \in {"active", "deleting", "cancelling"},
           NEW e \in {"none", "finish", "error"}
    PROVE  /\ Prompted(r, l, e) \in ThreadState
           /\ Prompted(r, l, e).pc = "relay"
           /\ Prompted(r, l, e).cell = r.cell
           /\ Prompted(r, l, e).turn = r.turn
<1>1. \A s \in ThreadState : /\ [s EXCEPT !.terminal = e] \in ThreadState
                             /\ [s EXCEPT !.terminal = e].pc = s.pc
                             /\ [s EXCEPT !.terminal = e].cell = s.cell
                             /\ [s EXCEPT !.terminal = e].turn = s.turn
  BY DEF ThreadState
<1> DEFINE q == [r EXCEPT !.pc = "relay", !.lifecycle = l]
<1>2. q \in ThreadState /\ q.pc = "relay" /\ q.cell = r.cell /\ q.turn = r.turn
  BY DEF ThreadState, PCs
<1>3. Prompted(r, l, e) = [q EXCEPT !.terminal = e]
  BY DEF ThreadState, Prompted
<1> HIDE DEF q
<1> QED
  BY <1>1, <1>2, <1>3

\* The fields of a new thread.
LEMMA NewFacts ==
    /\ New \in ThreadState
    /\ New.pc = "new"
    /\ New.cell = NoCell
    /\ New.turn = NoTurn
  BY ConversationAssumption DEF New, ThreadState, PCs

\* A thread that starts anew at a place.
LEMMA NewAt ==
    ASSUME NEW p \in PCs
    PROVE  /\ [New EXCEPT !.pc = p] \in ThreadState
           /\ [New EXCEPT !.pc = p].pc = p
           /\ [New EXCEPT !.pc = p].cell = NoCell
           /\ [New EXCEPT !.pc = p].turn = NoTurn
  BY NewFacts, PlaceChanged

\* A thread that is over holds nothing.
LEMMA OverFacts ==
    ASSUME NEW t
    PROVE  /\ Over(t) \in ThreadState
           /\ Over(t).pc \in {"done", "new"}
           /\ Over(t).cell = NoCell
           /\ Over(t).turn = NoTurn
  BY NewAt DEF Over, PCs

\* Become moves one thread.
LEMMA BecomeFacts ==
    ASSUME StateTypeOK, NEW t \in Threads, NEW r \in ThreadState, Become(t, r)
    PROVE  OneMoves(t) /\ thread'[t] = r
  BY DEF StateTypeOK, Become, OneMoves

\* A thread that starts anew or is over.
LEMMA AnewFacts ==
    ASSUME StateTypeOK, NEW t \in Threads, NEW p \in PCs, Become(t, [New EXCEPT !.pc = p])
    PROVE  /\ OneMoves(t)
           /\ thread'[t].pc = p
           /\ thread'[t].cell = NoCell
           /\ thread'[t].turn = NoTurn
<1> DEFINE r == [New EXCEPT !.pc = p]
<1>1. r \in ThreadState /\ r.pc = p /\ r.cell = NoCell /\ r.turn = NoTurn
  BY NewAt
<1>2. Become(t, r)
  OBVIOUS
<1> HIDE DEF r
<1> QED
  BY <1>1, <1>2, BecomeFacts

\* A thread that is over.
LEMMA EndsFacts ==
    ASSUME StateTypeOK, NEW t \in Threads, Become(t, Over(t))
    PROVE  /\ OneMoves(t)
           /\ thread'[t].pc \in {"done", "new"}
           /\ thread'[t].cell = NoCell
           /\ thread'[t].turn = NoTurn
  BY OverFacts, BecomeFacts

\* So does Goto, which leaves the thread's cell and turn alone.
LEMMA GotoFacts ==
    ASSUME StateTypeOK, NEW t \in Threads, NEW p \in PCs, Goto(t, p)
    PROVE  /\ OneMoves(t)
           /\ thread'[t].pc = p
           /\ thread'[t].cell = thread[t].cell
           /\ thread'[t].turn = thread[t].turn
<1>1. thread[t] \in ThreadState
  BY DEF StateTypeOK
<1> DEFINE r == [thread[t] EXCEPT !.pc = p]
<1>2. r \in ThreadState /\ r.pc = p /\ r.cell = thread[t].cell /\ r.turn = thread[t].turn
  BY <1>1, PlaceChanged
<1>3. Become(t, r)
  BY DEF Goto
<1> HIDE DEF r
<1> QED
  BY <1>2, <1>3, BecomeFacts

\* The turns and the callers are threads, and are told apart.
LEMMA ThreadNames ==
    /\ Turns \subseteq Threads
    /\ Callers \subseteq Threads
    /\ \A k \in Turns : k # NoTurn /\ k \notin Callers
    /\ {Cancel, Delete, Revoke, Warm, Idler} = Callers
  BY ConversationAssumption DEF Threads, Callers

-----------------------------------------------------------------------------
(* Kills.                                                                  *)

\* Threads that differ from the present ones in terminal events at most.
SameThreads(new) ==
    /\ new \in [Threads -> ThreadState]
    /\ \A t \in Threads : /\ new[t].pc = thread[t].pc
                          /\ new[t].cell = thread[t].cell
                          /\ new[t].turn = thread[t].turn

\* A kill ends prompts and changes nothing else of the threads.
LEMMA KilledThreadsFacts ==
    ASSUME StateTypeOK, NEW c, NEW reason
    PROVE  SameThreads(KilledThreads(c, reason))
<1>1. \A t \in Threads, e \in {"finish", "error"} :
         [thread[t] EXCEPT !.terminal = e] \in ThreadState
  BY DEF StateTypeOK, ThreadState
<1>2. \A t \in Threads, e \in {"finish", "error"} :
         /\ [thread[t] EXCEPT !.terminal = e].pc = thread[t].pc
         /\ [thread[t] EXCEPT !.terminal = e].cell = thread[t].cell
         /\ [thread[t] EXCEPT !.terminal = e].turn = thread[t].turn
  BY DEF StateTypeOK, ThreadState
<1> QED
  BY <1>1, <1>2 DEF SameThreads, KilledThreads, StateTypeOK

\* So does the kill of the agent in the slot.
LEMMA ThreadsAfterKillFacts ==
    ASSUME StateTypeOK, NEW reason
    PROVE  SameThreads(ThreadsAfterKill(reason))
  BY KilledThreadsFacts DEF ThreadsAfterKill, SameThreads, StateTypeOK

\* One thread moves in a step that also kills.
LEMMA KilledAndMoved ==
    ASSUME NEW new, SameThreads(new), NEW t \in Threads, NEW r \in ThreadState,
           thread' = [new EXCEPT ![t] = r]
    PROVE  OneMoves(t) /\ thread'[t] = r
  BY DEF SameThreads, OneMoves

\* A kill may end or stop an agent, and an acp agent is dead after it.
DeadAfter(c, new) ==
    /\ new \in [Cells -> {"empty", "building", "live", "dead", "asleep"}]
    /\ \A d \in Cells : new[d] = agent[d] \/ (d = c /\ new[d] \in {"dead", "asleep"})
    /\ kind = "acp" => new[c] = "dead"

\* KilledAgents is such a step.
LEMMA KilledAgentsFacts ==
    ASSUME StateTypeOK, NEW c \in Cells, NEW reason
    PROVE  DeadAfter(c, KilledAgents(c, reason))
  BY ConversationAssumption
  DEF DeadAfter, KilledAgents, KillsAtOnce, StateTypeOK, VariablesTypeOK, AllKinds

\* No agent changes but those that end.
AgentsEnd ==
    /\ agent' \in [Cells -> {"empty", "building", "live", "dead", "asleep"}]
    /\ \A d \in Cells :
          agent'[d] = agent[d] \/ (/\ agent[d] \in {"live", "dead", "asleep"}
                                  /\ agent'[d] \in {"dead", "asleep"})

\* What both kills of the slot do to it and to its agent.
SlotKilled == slot' = NoCell /\ AgentsEnd

\* kill_and_wait leaves no acp agent and no build behind in the slot that no
\* kill waits for.
LEMMA KillSlotAndWaitFacts ==
    ASSUME StateTypeOK, NEW reason \in {"error", "timeout", "revoked", "idle"},
           KillSlotAndWait(reason)
    PROVE  /\ SlotKilled
           /\ killing \subseteq killing'
           /\ killing' \subseteq Cells \X {"error", "timeout", "revoked", "idle"}
           /\ kind = "acp" /\ slot \in Cells =>
                 agent'[slot] = "dead" \/ <<slot, reason>> \in killing'
<1>1. Initialised(slot) => slot \in Cells
  BY DEF Initialised, StateTypeOK, VariablesTypeOK
<1>2. SlotKilled
  BY <1>1, KilledAgentsFacts
  DEF SlotKilled, AgentsEnd, DeadAfter, KillSlotAndWait, StateTypeOK, VariablesTypeOK, Initialised
<1>3. kind = "acp" /\ slot \in Cells =>
         agent'[slot] = "dead" \/ <<slot, reason>> \in killing'
  BY <1>1, KilledAgentsFacts, ConversationAssumption
  DEF DeadAfter, KillSlotAndWait, StateTypeOK, VariablesTypeOK, Cells, NoCell
<1>4. /\ killing \subseteq killing'
      /\ killing' \subseteq Cells \X {"error", "timeout", "revoked", "idle"}
  BY DEF KillSlotAndWait, StateTypeOK, VariablesTypeOK, NoCell
<1> QED
  BY <1>2, <1>3, <1>4

\* kill does the same, and waits for nothing.
LEMMA KillSlotFacts ==
    ASSUME StateTypeOK, NEW reason, KillSlot(reason)
    PROVE  SlotKilled /\ killing' = killing
<1>1. Initialised(slot) => slot \in Cells
  BY DEF Initialised, StateTypeOK, VariablesTypeOK
<1> QED
  BY <1>1, KilledAgentsFacts
  DEF SlotKilled, AgentsEnd, DeadAfter, KillSlot, StateTypeOK, VariablesTypeOK, Initialised

-----------------------------------------------------------------------------
(* What a step that does not concern them leaves alone.                    *)

\* The types stay.
LEMMA TypeFrame ==
    ASSUME StateTypeOK, NEW t \in Threads, OneMoves(t), VariablesTypeOK',
           t = Cancel /\ thread'[t].pc \in {"mark", "ask"} => thread'[t].turn \in Turns
    PROVE  StateTypeOK'
  BY ThreadNames DEF StateTypeOK, OneMoves

\* The claim stays with its turn when none begins to need it.
LEMMA ClaimFrame ==
    ASSUME OneTurnAtATime, NEW t \in Threads, OneMoves(t),
           active' = active, revoked' = revoked,
           t \in Turns /\ thread'[t].pc \in Claimed => thread[t].pc \in Claimed
    PROVE  OneTurnAtATime'
  BY ThreadNames DEF OneTurnAtATime, OneMoves

\* A turn that gives its own claim back takes it from nobody else.
LEMMA ReleaseFrame ==
    ASSUME OneTurnAtATime, NEW t \in Turns, OneMoves(t), LeaveClaim(t),
           revoked' = revoked, thread'[t].pc \notin Claimed
    PROVE  OneTurnAtATime'
  BY ThreadNames DEF OneTurnAtATime, OneMoves, LeaveClaim, Release

\* Agents stay right when one thread comes to no cell it must build in.
LEMMA AgentFrame ==
    ASSUME AgentsInv, NEW t \in Threads, OneMoves(t),
           UNCHANGED <<kind, slot, agent, killing>>,
           thread'[t].pc \notin {"cell", "build"},
           thread'[t].pc \in {"send", "relay", "judge"} => Initialised(thread'[t].cell),
           t = Delete /\ thread'[t].pc \in {"new", "hooks"} => thread[t].pc \in {"new", "hooks"}
    PROVE  AgentsInv'
<1>1. ThreadsHaveTheirCells'
  BY DEF AgentsInv, ThreadsHaveTheirCells, OneMoves, Initialised
<1>2. OneBuilder'
  BY DEF AgentsInv, OneBuilder, OneMoves
<1>3. AgentsAreFound'
  BY DEF AgentsInv, AgentsAreFound, OneMoves, KillPending, Threads, Callers
<1> QED
  BY <1>1, <1>2, <1>3 DEF AgentsInv

\* Cells keep their threads, and builds their builders, when agents end and one
\* thread moves.
LEMMA CellFrame ==
    ASSUME StateTypeOK, AgentsInv, NEW t \in Threads, OneMoves(t), AgentsEnd,
           \/ thread'[t].pc \notin {"cell", "build", "send", "relay", "judge"}
           \/ thread'[t].pc = thread[t].pc /\ thread'[t].cell = thread[t].cell
    PROVE  ThreadsHaveTheirCells' /\ OneBuilder'
<1>1. ThreadsHaveTheirCells'
  <2> SUFFICES ASSUME NEW u \in Threads
               PROVE  /\ thread'[u].pc \in {"send", "relay", "judge"} =>
                            thread'[u].cell # NoCell /\ agent'[thread'[u].cell] \in {"live", "dead", "asleep"}
                      /\ thread'[u].pc = "cell" => thread'[u].cell \in Cells
                      /\ thread'[u].pc = "build" => /\ thread'[u].cell \in Cells
                                                    /\ agent'[thread'[u].cell] = "building"
    BY DEF ThreadsHaveTheirCells, Initialised
  <2>1. thread'[u].pc \in {"send", "relay", "judge", "cell", "build"} =>
           thread'[u].pc = thread[u].pc /\ thread'[u].cell = thread[u].cell
    BY DEF OneMoves
  <2>2. thread[u].cell \in Cells \cup {NoCell}
    BY DEF StateTypeOK, ThreadState
  <2>3. \A c \in Cells : /\ agent[c] = "building" => agent'[c] = "building"
                         /\ Initialised(c) => Initialised(c)'
    BY DEF AgentsEnd, Initialised
  <2>4. \A c : Initialised(c) => c # NoCell
    BY DEF Initialised
  <2>5. \A c : Initialised(c)' => c # NoCell /\ agent'[c] \in {"live", "dead", "asleep"}
    BY DEF Initialised
  <2>6. /\ thread[u].pc \in {"send", "relay", "judge"} => Initialised(thread[u].cell)
        /\ thread[u].pc = "cell" => thread[u].cell \in Cells
        /\ thread[u].pc = "build" => thread[u].cell \in Cells
                                     /\ agent[thread[u].cell] = "building"
    BY DEF AgentsInv, ThreadsHaveTheirCells
  <2>7. thread[u].pc \in {"send", "relay", "judge"} =>
            thread[u].cell # NoCell /\ agent'[thread[u].cell] \in {"live", "dead", "asleep"}
    BY <2>2, <2>3, <2>4, <2>5, <2>6
  <2> QED
    BY <2>1, <2>3, <2>6, <2>7
<1>2. OneBuilder'
  BY DEF AgentsInv, OneBuilder, OneMoves
<1> QED
  BY <1>1, <1>2

\* The acp agents, builds and waiters of cell c, of which AgentsAreFound speaks.
InUse(c) ==
    \/ agent[c] \in {"live", "building"}
    \/ agent[c] = "empty" /\ \E t \in Threads : thread[t].pc = "cell" /\ thread[t].cell = c

\* No cell comes into use then.
LEMMA InUseFrame ==
    ASSUME NEW t \in Threads, OneMoves(t), AgentsEnd, NEW c \in Cells, InUse(c)',
           \/ thread'[t].pc # "cell"
           \/ thread'[t].pc = thread[t].pc /\ thread'[t].cell = thread[t].cell
    PROVE  InUse(c) /\ agent'[c] = agent[c]
<1>1. agent'[c] = agent[c]
  BY DEF InUse, AgentsEnd
<1>2. (\E u \in Threads : thread'[u].pc = "cell" /\ thread'[u].cell = c) =>
         \E u \in Threads : thread[u].pc = "cell" /\ thread[u].cell = c
  BY DEF OneMoves
<1> QED
  BY <1>1, <1>2 DEF InUse

\* Agents stay right when a kill takes the slot and another kill waits for what
\* it leaves.
LEMMA KillFrame ==
    ASSUME StateTypeOK, AgentsInv, NEW t \in Threads, OneMoves(t),
           kind' = kind, SlotKilled, killing \subseteq killing',
           kind = "acp" /\ slot \in Cells /\ thread'[Delete].pc \in {"new", "hooks"} =>
              agent'[slot] = "dead" \/ \E k \in killing' : k[1] = slot,
           \/ thread'[t].pc \notin {"cell", "build", "send", "relay", "judge"}
           \/ thread'[t].pc = thread[t].pc /\ thread'[t].cell = thread[t].cell,
           t = Delete /\ thread'[t].pc \in {"new", "hooks"} => thread[t].pc \in {"new", "hooks"}
    PROVE  AgentsInv'
<1>1. ThreadsHaveTheirCells' /\ OneBuilder'
  BY CellFrame DEF SlotKilled
<1>2. AgentsAreFound'
  <2> SUFFICES ASSUME kind = "acp", thread'[Delete].pc \in {"new", "hooks"},
                      NEW c \in Cells, InUse(c)'
               PROVE  KillPending(c)'
    BY DEF AgentsAreFound, InUse, KillPending
  <2>1. thread[Delete].pc \in {"new", "hooks"}
    BY ThreadNames DEF OneMoves
  <2>2. InUse(c) /\ agent'[c] = agent[c]
    BY InUseFrame DEF SlotKilled
  <2>3. slot = c \/ KillPending(c)
    BY <2>1, <2>2 DEF AgentsInv, AgentsAreFound, InUse
  <2>4. CASE slot = c
    <3>1. agent'[c] \notin {"dead", "asleep"}
      BY DEF InUse
    <3> QED
      BY <2>4, <3>1 DEF KillPending
  <2>5. CASE KillPending(c)
    BY <2>5 DEF KillPending
  <2> QED
    BY <2>3, <2>4, <2>5
<1> QED
  BY <1>1, <1>2 DEF AgentsInv

\* So they do when agents end, and a kill is over that found its agent dead.
LEMMA EndFrame ==
    ASSUME StateTypeOK, AgentsInv, NEW t \in Threads, OneMoves(t),
           thread'[t].pc = thread[t].pc, thread'[t].cell = thread[t].cell,
           UNCHANGED <<kind, slot>>, AgentsEnd,
           \A c \in Cells : KillPending(c) /\ ~KillPending(c)' /\ kind = "acp" => ~InUse(c)'
    PROVE  AgentsInv'
<1>1. ThreadsHaveTheirCells' /\ OneBuilder'
  BY CellFrame
<1>2. AgentsAreFound'
  <2> SUFFICES ASSUME kind = "acp", thread'[Delete].pc \in {"new", "hooks"},
                      NEW c \in Cells, InUse(c)'
               PROVE  slot = c \/ KillPending(c)'
    BY DEF AgentsAreFound, InUse, KillPending
  <2>1. thread[Delete].pc \in {"new", "hooks"}
    BY ThreadNames DEF OneMoves
  <2>2. InUse(c)
    BY InUseFrame
  <2>3. slot = c \/ KillPending(c)
    BY <2>1, <2>2 DEF AgentsInv, AgentsAreFound, InUse
  <2> QED
    BY <2>3
<1> QED
  BY <1>1, <1>2 DEF AgentsInv

-----------------------------------------------------------------------------
(* The steps of a turn.                                                    *)

\* The invariant holds at the start.
LEMMA InitIInv == Init => IInv
<1> SUFFICES ASSUME Init PROVE IInv
  OBVIOUS
<1>1. \A t \in Threads : thread[t] = New
  BY DEF Init
<1>2. VariablesTypeOK
  BY DEF Init, VariablesTypeOK
<1>3. StateTypeOK
  BY <1>1, <1>2, NewFacts, ThreadNames DEF Init, StateTypeOK
<1>4. AgentsInv
  BY <1>1, NewFacts DEF Init, AgentsInv, ThreadsHaveTheirCells, OneBuilder, AgentsAreFound
<1>5. OneTurnAtATime
  BY <1>1, NewFacts, ThreadNames DEF OneTurnAtATime, Claimed
<1> QED
  BY <1>3, <1>4, <1>5 DEF IInv

\* A turn that starts has no claim and no cell yet.
LEMMA SendStartsPreserves ==
    ASSUME IInv, NEW k \in Turns, SendStarts(k)
    PROVE  IInv'
<1>1. OneMoves(k) /\ thread'[k].pc \in {"claim", "done", "new"}
  <2>1. Become(k, [New EXCEPT !.pc = "claim"]) \/ Become(k, Over(k))
    BY DEF SendStarts
  <2> QED
    BY <2>1, AnewFacts, EndsFacts, ThreadNames DEF IInv, PCs
<1>2. StateTypeOK'
  BY <1>1, TypeFrame, ThreadNames
  DEF IInv, SendStarts, StateTypeOK, VariablesTypeOK, claim, tasks, log
<1>3. AgentsInv'
  BY <1>1, AgentFrame, ThreadNames DEF IInv, SendStarts, tasks
<1>4. OneTurnAtATime'
  BY <1>1, ClaimFrame, ThreadNames DEF IInv, SendStarts, claim, log, Claimed
<1> QED
  BY <1>2, <1>3, <1>4 DEF IInv

\* The claim is taken when nobody has it.
LEMMA ClaimPreserves ==
    ASSUME IInv, NEW k \in Turns, Claim(k)
    PROVE  IInv'
<1>1. OneMoves(k) /\ thread'[k].pc \in {"complete", "accept", "done", "new"}
  BY NewAt, OverFacts, BecomeFacts, GotoFacts, ThreadNames DEF Claim, IInv, PCs
<1>2. StateTypeOK'
  BY <1>1, TypeFrame, ThreadNames
  DEF IInv, Claim, StateTypeOK, VariablesTypeOK, claim, tasks
<1>3. AgentsInv'
  BY <1>1, AgentFrame, ThreadNames DEF IInv, Claim, tasks
<1>4. OneTurnAtATime'
  <2>1. CASE active' = active
    <3>1. thread'[k].pc \notin Claimed
      BY <2>1, OverFacts, BecomeFacts, GotoFacts, ThreadNames DEF Claim, IInv, PCs, Claimed
    <3> QED
      BY <1>1, <2>1, <3>1, ClaimFrame, ThreadNames DEF IInv, Claim
  <2>2. CASE active = NoTurn /\ active' = k
    BY <1>1, <2>2, ThreadNames DEF IInv, Claim, OneTurnAtATime, OneMoves
  <2> QED
    BY <2>1, <2>2 DEF Claim, claim
<1> QED
  BY <1>2, <1>3, <1>4 DEF IInv

\* A turn that fails to start gives its claim back, another keeps it.
LEMMA AcceptPreserves ==
    ASSUME IInv, NEW k \in Turns, Accept(k)
    PROVE  IInv'
<1>1. OneMoves(k) /\ thread'[k].pc \in {"slot", "release", "done", "new"}
  BY OverFacts, BecomeFacts, GotoFacts, ThreadNames DEF Accept, IInv, PCs
<1>2. StateTypeOK'
  BY <1>1, TypeFrame, ThreadNames
  DEF IInv, Accept, LeaveClaim, Release, StateTypeOK, VariablesTypeOK, claim, tasks
<1>3. AgentsInv'
  BY <1>1, AgentFrame, ThreadNames DEF IInv, Accept, tasks
<1>4. OneTurnAtATime'
  <2>1. CASE UNCHANGED claim
    BY <1>1, <2>1, ClaimFrame, ThreadNames DEF IInv, Accept, claim, Claimed, At
  <2>2. CASE LeaveClaim(k) /\ Become(k, Over(k))
    <3>1. thread'[k].pc \notin Claimed
      BY <2>2, OverFacts, BecomeFacts, ThreadNames DEF IInv, Claimed
    <3> QED
      BY <1>1, <2>2, <3>1, ReleaseFrame DEF IInv, Accept
  <2> QED
    BY <2>1, <2>2 DEF Accept
<1> QED
  BY <1>2, <1>3, <1>4 DEF IInv

\* A turn that cannot prompt lets go of the agent it has.
LEMMA PrepareFailsPreserves ==
    ASSUME IInv, NEW k \in Turns, PrepareFails(k)
    PROVE  IInv'
<1>1. OneMoves(k) /\ thread'[k].pc = "release"
  BY AnewFacts, ThreadNames DEF IInv, PCs, PrepareFails
<1>2. StateTypeOK'
  BY <1>1, TypeFrame, ThreadNames
  DEF IInv, PrepareFails, StateTypeOK, VariablesTypeOK, claim, tasks, log
<1>3. AgentsInv'
  BY <1>1, AgentFrame, ThreadNames DEF IInv, PrepareFails, tasks
<1>4. OneTurnAtATime'
  BY <1>1, ClaimFrame, ThreadNames DEF IInv, PrepareFails, claim, log, Claimed, At
<1> QED
  BY <1>2, <1>3, <1>4 DEF IInv

\* A turn prompts the agent it has.
LEMMA PromptPreserves ==
    ASSUME IInv, NEW k \in Turns, Prompt(k)
    PROVE  IInv'
<1> DEFINE e == IF agent[thread[k].cell] = "live" THEN "none" ELSE "error"
           r == Prompted(thread[k], Lifecycle, e)
<1>1. r \in ThreadState /\ r.pc = "relay" /\ r.cell = thread[k].cell
  <2>1. Lifecycle \in {"active", "deleting", "cancelling"}
    BY DEF Lifecycle
  <2>2. thread[k] \in ThreadState
    BY ThreadNames DEF IInv, StateTypeOK
  <2>3. e \in {"none", "finish", "error"}
    OBVIOUS
  <2> HIDE DEF e
  <2> QED
    BY <2>1, <2>2, <2>3, PromptedFacts
<1>2. Become(k, r)
  BY DEF Prompt, Prompted
<1> HIDE DEF r
<1>3. OneMoves(k) /\ thread'[k] = r
  BY <1>1, <1>2, BecomeFacts, ThreadNames DEF IInv
<1>4. StateTypeOK'
  BY <1>3, TypeFrame, ThreadNames
  DEF IInv, Prompt, StateTypeOK, VariablesTypeOK, claim, tasks, log
<1>5. AgentsInv'
  <2>1. Initialised(thread[k].cell)
    BY ThreadNames DEF IInv, AgentsInv, ThreadsHaveTheirCells, Prompt, At
  <2> QED
    BY <1>1, <1>3, <2>1, AgentFrame, ThreadNames DEF IInv, Prompt, tasks
<1>6. OneTurnAtATime'
  BY <1>3, ClaimFrame, ThreadNames DEF IInv, Prompt, claim, log, Claimed, At
<1> QED
  BY <1>4, <1>5, <1>6 DEF IInv

\* A stopped agent that is started again is one of a kind that no kill waits for.
LEMMA WakePreserves ==
    ASSUME IInv, NEW k \in Turns, Wake(k)
    PROVE  IInv'
<1>1. thread[k] \in ThreadState /\ thread[k].pc = "send" /\ Initialised(thread[k].cell)
  BY ThreadNames DEF IInv, StateTypeOK, AgentsInv, ThreadsHaveTheirCells, Wake, At
<1>2. PICK e \in {"none", "error"} : Become(k, Prompted(thread[k], Lifecycle, e))
  BY DEF Wake
<1> DEFINE r == Prompted(thread[k], Lifecycle, e)
<1>3. r \in ThreadState /\ r.pc = "relay" /\ r.cell = thread[k].cell
  <2>1. Lifecycle \in {"active", "deleting", "cancelling"}
    BY DEF Lifecycle
  <2> QED
    BY <1>1, <2>1, PromptedFacts
<1>4. Become(k, r)
  BY <1>2
<1> HIDE DEF r
<1>5. OneMoves(k) /\ thread'[k] = r
  BY <1>3, <1>4, BecomeFacts, ThreadNames DEF IInv
<1>6. /\ agent' \in [Cells -> {"empty", "building", "live", "dead", "asleep"}]
      /\ woken' \in SUBSET Turns
      /\ \A c \in Cells : agent'[c] = agent[c] \/ (agent[c] = "asleep" /\ agent'[c] = "live")
  BY <1>1 DEF Wake, IInv, StateTypeOK, VariablesTypeOK
<1>7. StateTypeOK'
  BY <1>3, <1>5, <1>6, TypeFrame, ThreadNames
  DEF IInv, Wake, StateTypeOK, VariablesTypeOK, claim
<1>8. ThreadsHaveTheirCells'
  <2>1. \A c \in Cells : agent[c] = "building" => agent'[c] = "building"
    BY <1>6
  <2>2. \A c \in Cells : agent[c] \in {"live", "dead", "asleep"} =>
                             agent'[c] \in {"live", "dead", "asleep"}
    BY <1>6
  <2>3. \A t \in Threads : thread[t].cell \in Cells \cup {NoCell}
    BY DEF IInv, StateTypeOK, ThreadState
  <2>4. ASSUME NEW t \in Threads, t # k
        PROVE  /\ thread'[t].pc \in {"send", "relay", "judge"} =>
                     /\ thread'[t].cell # NoCell
                     /\ agent'[thread'[t].cell] \in {"live", "dead", "asleep"}
               /\ thread'[t].pc = "cell" => thread'[t].cell \in Cells
               /\ thread'[t].pc = "build" => /\ thread'[t].cell \in Cells
                                             /\ agent'[thread'[t].cell] = "building"
    <3>1. thread'[t].pc = thread[t].pc /\ thread'[t].cell = thread[t].cell
      BY <1>5, <2>4 DEF OneMoves
    <3>2. thread[t].pc = "cell" => thread[t].cell \in Cells
      BY DEF IInv, AgentsInv, ThreadsHaveTheirCells
    <3>3. thread[t].pc = "build" => /\ thread[t].cell \in Cells
                                   /\ agent'[thread[t].cell] = "building"
      BY <2>1 DEF IInv, AgentsInv, ThreadsHaveTheirCells
    <3>4. thread[t].pc \in {"send", "relay", "judge"} =>
             /\ thread[t].cell # NoCell
             /\ agent'[thread[t].cell] \in {"live", "dead", "asleep"}
      BY <2>3, <2>2 DEF IInv, AgentsInv, ThreadsHaveTheirCells, Initialised
    <3> QED
      BY <3>1, <3>2, <3>3, <3>4
  <2>5. /\ thread'[k].cell # NoCell
        /\ agent'[thread'[k].cell] \in {"live", "dead", "asleep"}
    BY <1>1, <1>3, <1>5, <2>3, <2>2, ThreadNames DEF Initialised
  <2> QED
    BY <1>3, <1>5, <2>4, <2>5 DEF ThreadsHaveTheirCells, Initialised
<1>9. OneBuilder'
  BY <1>3, <1>5 DEF IInv, AgentsInv, OneBuilder, OneMoves
<1>10. AgentsAreFound'
  BY DEF Wake, AgentsAreFound
<1>11. OneTurnAtATime'
  BY <1>1, <1>3, <1>5, ClaimFrame, ThreadNames DEF IInv, Wake, claim, Claimed
<1> QED
  BY <1>7, <1>8, <1>9, <1>10, <1>11 DEF IInv, AgentsInv

\* It keeps the agent for a continuation.
LEMMA RelayPreserves ==
    ASSUME IInv, NEW k \in Turns, Relay(k)
    PROVE  IInv'
<1> DEFINE r == [thread[k] EXCEPT !.pc = "send", !.count = @ + 1]
<1>1. OneMoves(k) /\ thread'[k].pc \in {"send", "judge"} /\ thread'[k].cell = thread[k].cell
  <2>1. CASE Goto(k, "judge")
    BY <2>1, GotoFacts, ThreadNames DEF IInv, PCs
  <2>2. CASE thread[k].count < MaxContinuations /\ Become(k, r)
    <3>1. thread[k] \in ThreadState
      BY ThreadNames DEF IInv, StateTypeOK
    <3>2. r \in ThreadState /\ r.pc = "send" /\ r.cell = thread[k].cell
      <4>1. \A s \in ThreadState, n \in 0..MaxContinuations :
               LET p == [s EXCEPT !.pc = "send", !.count = n] IN
               p \in ThreadState /\ p.pc = "send" /\ p.cell = s.cell
        BY DEF ThreadState, PCs
      <4>2. thread[k].count + 1 \in 0..MaxContinuations
        BY <2>2, <3>1, ConversationAssumption DEF ThreadState
      <4>3. r = [thread[k] EXCEPT !.pc = "send", !.count = thread[k].count + 1]
        BY <3>1 DEF ThreadState
      <4> QED
        BY <3>1, <4>1, <4>2, <4>3
    <3>3. Become(k, r)
      BY <2>2
    <3> HIDE DEF r
    <3> QED
      BY <3>2, <3>3, BecomeFacts, ThreadNames DEF IInv
  <2> QED
    BY <2>1, <2>2 DEF Relay
<1>2. StateTypeOK'
  BY <1>1, TypeFrame, ThreadNames
  DEF IInv, Relay, StateTypeOK, VariablesTypeOK, claim, tasks, log
<1>3. AgentsInv'
  <2>1. Initialised(thread[k].cell)
    BY ThreadNames DEF IInv, AgentsInv, ThreadsHaveTheirCells, Relay, At
  <2> QED
    BY <1>1, <2>1, AgentFrame, ThreadNames DEF IInv, Relay, tasks
<1>4. OneTurnAtATime'
  BY <1>1, ClaimFrame, ThreadNames DEF IInv, Relay, claim, log, Claimed, At
<1> QED
  BY <1>2, <1>3, <1>4 DEF IInv

\* The end of a turn gives its own claim back.
LEMMA EndTurnPreserves ==
    ASSUME IInv, NEW k \in Turns, EndTurn(k)
    PROVE  IInv'
<1>1. OneMoves(k) /\ thread'[k].pc \in {"complete", "done", "new"}
  <2>1. Become(k, [New EXCEPT !.pc = "complete"]) \/ Become(k, Over(k))
    BY DEF EndTurn
  <2> QED
    BY <2>1, AnewFacts, EndsFacts, ThreadNames DEF IInv, PCs
<1>2. StateTypeOK'
  BY <1>1, TypeFrame, ThreadNames
  DEF IInv, EndTurn, LeaveClaim, Release, StateTypeOK, VariablesTypeOK, tasks, log
<1>3. AgentsInv'
  BY <1>1, AgentFrame, ThreadNames DEF IInv, EndTurn, tasks
<1>4. OneTurnAtATime'
  BY <1>1, ReleaseFrame DEF IInv, EndTurn, log, Claimed
<1> QED
  BY <1>2, <1>3, <1>4 DEF IInv

\* The completion comes after the claim.
LEMMA CompletePreserves ==
    ASSUME IInv, NEW k \in Turns, Complete(k)
    PROVE  IInv'
<1>1. OneMoves(k) /\ thread'[k].pc \in {"done", "new"}
  BY OverFacts, BecomeFacts, ThreadNames DEF Complete, IInv
<1>2. StateTypeOK'
  BY <1>1, TypeFrame, ThreadNames
  DEF IInv, Complete, StateTypeOK, VariablesTypeOK, claim, tasks, log
<1>3. AgentsInv'
  BY <1>1, AgentFrame, ThreadNames DEF IInv, Complete, tasks
<1>4. OneTurnAtATime'
  BY <1>1, ClaimFrame, ThreadNames DEF IInv, Complete, claim, log, Claimed
<1> QED
  BY <1>2, <1>3, <1>4 DEF IInv

\* The fields of a thread that waits for a kill in cell c, or does not wait.
WaitsAt(p, c) == [New EXCEPT !.pc = p, !.cell = c]
Replays(c) == [New EXCEPT !.pc = "slot", !.replayed = TRUE, !.cell = c]

\* The first of them.
LEMMA WaitsAtFacts ==
    ASSUME NEW p \in PCs, NEW c \in Cells \cup {NoCell}
    PROVE  /\ WaitsAt(p, c) \in ThreadState
           /\ WaitsAt(p, c).pc = p
           /\ WaitsAt(p, c).turn = NoTurn
<1> DEFINE q == [New EXCEPT !.pc = p]
<1>1. q \in ThreadState /\ q.pc = p /\ q.turn = NoTurn
  BY NewAt
<1>2. WaitsAt(p, c) = [q EXCEPT !.cell = c]
  BY DEF WaitsAt
<1> HIDE DEF q
<1> QED
  BY <1>1, <1>2, CellChanged

\* The second.
LEMMA ReplaysFacts ==
    ASSUME NEW c \in Cells \cup {NoCell}
    PROVE  /\ Replays(c) \in ThreadState
           /\ Replays(c).pc = "slot"
           /\ Replays(c).turn = NoTurn
<1> DEFINE q == [New EXCEPT !.pc = "slot", !.replayed = TRUE]
<1>1. q \in ThreadState /\ q.pc = "slot" /\ q.turn = NoTurn
  BY NewFacts DEF ThreadState, PCs
<1>2. Replays(c) = [q EXCEPT !.cell = c]
  BY DEF Replays
<1> HIDE DEF q
<1> QED
  BY <1>1, <1>2, CellChanged

\* A step that does kill_and_wait and moves one thread.
LEMMA KillAndWaitPreserves ==
    ASSUME IInv, NEW t \in Threads, OneMoves(t),
           NEW reason \in {"error", "timeout", "revoked", "idle"}, KillSlotAndWait(reason),
           UNCHANGED <<exists, kind, claim, log>>, drains' \in SUBSET Turns,
           \/ /\ thread'[t].pc \notin {"cell", "build", "send", "relay", "judge", "mark", "ask"}
              /\ thread'[t].pc \in Claimed => thread[t].pc \in Claimed
              /\ t # Delete
           \/ /\ thread'[t].pc = thread[t].pc
              /\ thread'[t].cell = thread[t].cell
              /\ thread'[t].turn = thread[t].turn
    PROVE  IInv'
<1>1. StateTypeOK'
  <2>1. VariablesTypeOK'
    BY KillSlotAndWaitFacts
    DEF IInv, StateTypeOK, VariablesTypeOK, SlotKilled, AgentsEnd, claim, log
  <2> QED
    BY <2>1, TypeFrame DEF IInv, StateTypeOK
<1>2. AgentsInv'
  <2>1. /\ SlotKilled
        /\ killing \subseteq killing'
        /\ kind = "acp" /\ slot \in Cells =>
              agent'[slot] = "dead" \/ \E k \in killing' : k[1] = slot
    BY KillSlotAndWaitFacts DEF IInv
  <2> QED
    BY <2>1, KillFrame DEF IInv
<1>3. OneTurnAtATime'
  BY ClaimFrame DEF IInv, claim, log
<1> QED
  BY <1>1, <1>2, <1>3 DEF IInv

\* The eviction of the agent waits for a build it finds in the slot.
LEMMA JudgePreserves ==
    ASSUME IInv, NEW k \in Turns, Judge(k)
    PROVE  IInv'
<1> DEFINE c == IF killing' = killing THEN NoCell ELSE slot
<1>1. c \in Cells \cup {NoCell}
  BY DEF IInv, StateTypeOK, VariablesTypeOK
<1>2. \/ Become(k, [New EXCEPT !.pc = "release"]) /\ UNCHANGED tasks
      \/ /\ KillSlotAndWait("error")
         /\ \/ thread' = [ThreadsAfterKill("error") EXCEPT ![k] = WaitsAt("release", c)]
            \/ thread' = [ThreadsAfterKill("error") EXCEPT ![k] = Replays(c)]
  BY DEF Judge, WaitsAt, Replays
<1> HIDE DEF c
<1>3. OneMoves(k) /\ thread'[k].pc \in {"release", "slot"}
  <2>1. SameThreads(ThreadsAfterKill("error"))
    BY ThreadsAfterKillFacts DEF IInv
  <2>2. CASE Become(k, [New EXCEPT !.pc = "release"])
    BY <2>2, AnewFacts, ThreadNames DEF IInv, PCs
  <2>3. CASE thread' = [ThreadsAfterKill("error") EXCEPT ![k] = WaitsAt("release", c)]
    BY <1>1, <2>1, <2>3, WaitsAtFacts, KilledAndMoved, ThreadNames DEF PCs
  <2>4. CASE thread' = [ThreadsAfterKill("error") EXCEPT ![k] = Replays(c)]
    BY <1>1, <2>1, <2>4, ReplaysFacts, KilledAndMoved, ThreadNames
  <2> QED
    BY <1>2, <2>2, <2>3, <2>4
<1>4. CASE UNCHANGED tasks
  <2>1. StateTypeOK'
    BY <1>3, <1>4, TypeFrame, ThreadNames
    DEF IInv, Judge, StateTypeOK, VariablesTypeOK, claim, tasks, log
  <2>2. AgentsInv'
    BY <1>3, <1>4, AgentFrame, ThreadNames DEF IInv, Judge, tasks
  <2>3. OneTurnAtATime'
    BY <1>3, ClaimFrame, ThreadNames DEF IInv, Judge, claim, log, Claimed, At
  <2> QED
    BY <2>1, <2>2, <2>3 DEF IInv
<1>5. CASE KillSlotAndWait("error")
  <2>1. /\ thread'[k].pc \notin {"cell", "build", "send", "relay", "judge", "mark", "ask"}
        /\ thread[k].pc \in Claimed
    BY <1>3 DEF Judge, At, Claimed
  <2>2. /\ UNCHANGED <<exists, kind, claim, log>>
        /\ drains' \in SUBSET Turns
    BY DEF Judge, IInv, StateTypeOK, VariablesTypeOK
  <2> QED
    BY <1>3, <1>5, <2>1, <2>2, KillAndWaitPreserves, ThreadNames
<1> QED
  BY <1>2, <1>4, <1>5

\* The drain timer moves no thread.
LEMMA DrainFiresPreserves ==
    ASSUME IInv, NEW k \in Turns, DrainFires(k)
    PROVE  IInv'
<1>1. CASE KillSlotAndWait("timeout") /\ thread' = ThreadsAfterKill("timeout")
  <2>1. /\ OneMoves(k)
        /\ thread'[k].pc = thread[k].pc
        /\ thread'[k].cell = thread[k].cell
        /\ thread'[k].turn = thread[k].turn
    BY <1>1, ThreadsAfterKillFacts, ThreadNames DEF IInv, SameThreads, OneMoves
  <2>2. /\ UNCHANGED <<exists, kind, claim, log>>
        /\ drains' \in SUBSET Turns
    BY DEF DrainFires, IInv, StateTypeOK, VariablesTypeOK
  <2> QED
    BY <1>1, <2>1, <2>2, KillAndWaitPreserves, ThreadNames
<1>2. CASE UNCHANGED <<tasks, thread>>
  <2>1. StateTypeOK'
    BY <1>2 DEF DrainFires, IInv, StateTypeOK, VariablesTypeOK, claim, tasks, log
  <2>2. AgentsInv'
    BY <1>2 DEF DrainFires, IInv, AgentsInv, ThreadsHaveTheirCells, OneBuilder,
                AgentsAreFound, KillPending, Initialised, tasks
  <2>3. OneTurnAtATime'
    BY <1>2 DEF DrainFires, IInv, OneTurnAtATime, claim, log
  <2> QED
    BY <2>1, <2>2, <2>3 DEF IInv
<1> QED
  BY <1>1, <1>2 DEF DrainFires

-----------------------------------------------------------------------------
(* Agents and cells.                                                       *)

\* A thread state with another terminal event.
LEMMA TerminalChanged ==
    ASSUME NEW r \in ThreadState, NEW e \in {"none", "finish", "error"}
    PROVE  /\ [r EXCEPT !.terminal = e] \in ThreadState
           /\ [r EXCEPT !.terminal = e].pc = r.pc
           /\ [r EXCEPT !.terminal = e].cell = r.cell
           /\ [r EXCEPT !.terminal = e].turn = r.turn
  BY DEF ThreadState

\* An agent that ends changes nothing that others have.
LEMMA AgentEndsPreserves ==
    ASSUME IInv, NEW k \in Turns, AgentEnds(k)
    PROVE  IInv'
<1>1. thread[k] \in ThreadState /\ thread[k].cell \in Cells /\ Initialised(thread[k].cell)
  BY ThreadNames DEF IInv, StateTypeOK, ThreadState, AgentsInv, ThreadsHaveTheirCells,
                     AgentEnds, Prompting, Initialised
<1>2. PICK e \in {"finish", "error"} : Become(k, [thread[k] EXCEPT !.terminal = e])
  BY DEF AgentEnds
<1> DEFINE r == [thread[k] EXCEPT !.terminal = e]
<1>3. /\ r \in ThreadState
      /\ r.pc = thread[k].pc
      /\ r.cell = thread[k].cell
      /\ r.turn = thread[k].turn
  BY <1>1, TerminalChanged
<1>4. Become(k, r)
  BY <1>2
<1> HIDE DEF r
<1>5. OneMoves(k) /\ thread'[k] = r
  BY <1>3, <1>4, BecomeFacts, ThreadNames DEF IInv
<1>6. AgentsEnd
  BY <1>1 DEF AgentEnds, AgentsEnd, Initialised, IInv, StateTypeOK, VariablesTypeOK
<1>7. StateTypeOK'
  BY <1>5, <1>6, TypeFrame, ThreadNames
  DEF IInv, AgentEnds, StateTypeOK, VariablesTypeOK, AgentsEnd, claim, log
<1>8. AgentsInv'
  BY <1>3, <1>5, <1>6, EndFrame, ThreadNames DEF IInv, AgentEnds, KillPending
<1>9. OneTurnAtATime'
  BY <1>3, <1>5, ClaimFrame, ThreadNames DEF IInv, AgentEnds, claim, log
<1> QED
  BY <1>7, <1>8, <1>9 DEF IInv

\* A wait ends when its agent is dead or when nobody will build one.
LEMMA KillBuiltPreserves ==
    ASSUME IInv, NEW k \in killing, KillBuilt(k)
    PROVE  IInv'
<1>1. /\ k[1] \in Cells
      /\ killing' \subseteq killing
      /\ \A m \in killing : m # k => m \in killing'
  BY DEF KillBuilt, IInv, StateTypeOK, VariablesTypeOK
<1>2. /\ OneMoves(Cancel)
      /\ thread'[Cancel].pc = thread[Cancel].pc
      /\ thread'[Cancel].cell = thread[Cancel].cell
      /\ thread'[Cancel].turn = thread[Cancel].turn
  BY KilledThreadsFacts, ThreadNames DEF KillBuilt, IInv, SameThreads, OneMoves, StateTypeOK
<1>3. AgentsEnd /\ (kind = "acp" /\ Initialised(k[1]) => agent'[k[1]] = "dead")
  BY <1>1, KilledAgentsFacts
  DEF KillBuilt, IInv, AgentsEnd, DeadAfter, Initialised, StateTypeOK, VariablesTypeOK
<1>4. StateTypeOK'
  BY <1>1, <1>2, <1>3, TypeFrame, ThreadNames
  DEF IInv, KillBuilt, StateTypeOK, VariablesTypeOK, AgentsEnd, claim, log
<1>5. AgentsInv'
  <2>1. ASSUME NEW c \in Cells, KillPending(c), ~KillPending(c)', kind = "acp"
        PROVE  ~InUse(c)'
    <3>1. c = k[1]
      BY <1>1, <2>1 DEF KillPending
    <3>2. CASE Initialised(c)
      BY <1>3, <2>1, <3>1, <3>2 DEF InUse
    <3>3. CASE ~Initialised(c)
      <4>1. agent[c] \notin {"live", "building", "dead", "asleep"} /\ c # NoCell
        BY <3>1, <3>3 DEF Initialised, KillBuilt, Cells, NoCell
      <4>2. agent[c] = "empty" /\ UNCHANGED <<agent, thread>>
        BY <2>1, <3>1, <3>3, <4>1 DEF KillBuilt, IInv, StateTypeOK, VariablesTypeOK
      <4> QED
        BY <3>1, <4>2 DEF InUse, KillBuilt, At
    <3> QED
      BY <3>2, <3>3
  <2> QED
    BY <1>2, <1>3, <2>1, EndFrame, ThreadNames DEF IInv, KillBuilt
<1>6. OneTurnAtATime'
  BY <1>2, ClaimFrame, ThreadNames DEF IInv, KillBuilt, claim, log
<1> QED
  BY <1>4, <1>5, <1>6 DEF IInv

\* A thread state at another place with another cell.
PlacedIn(r, p, c) == [r EXCEPT !.pc = p, !.cell = c]

\* It has that place and that cell.
LEMMA PlacedInFacts ==
    ASSUME NEW r \in ThreadState, NEW p \in PCs, NEW c \in Cells
    PROVE  /\ PlacedIn(r, p, c) \in ThreadState
           /\ PlacedIn(r, p, c).pc = p
           /\ PlacedIn(r, p, c).cell = c
  BY DEF PlacedIn, ThreadState

\* A thread that takes a cell is over, or has it: an agent, a build of somebody
\* else, or an empty cell that it now builds in.
LEMMA TakeCellFacts ==
    ASSUME StateTypeOK, NEW t \in Turns \cup {Warm}, NEW c \in Cells, TakeCell(t, c)
    PROVE  /\ OneMoves(t)
           /\ \/ thread'[t].pc \in {"new", "done"} /\ agent' = agent
              \/ /\ thread'[t].cell = c
                 /\ \/ thread'[t].pc = "send" /\ Initialised(c) /\ agent' = agent
                    \/ thread'[t].pc = "cell" /\ agent[c] = "building" /\ agent' = agent
                    \/ /\ thread'[t].pc = "build" /\ agent[c] = "empty"
                       /\ agent' = [agent EXCEPT ![c] = "building"]
<1>1. t \in Threads /\ thread[t] \in ThreadState
  BY ThreadNames DEF StateTypeOK
<1>2. \/ Become(t, Over(t)) /\ agent' = agent
      \/ Become(t, PlacedIn(thread[t], "send", c)) /\ Initialised(c) /\ agent' = agent
      \/ Become(t, PlacedIn(thread[t], "cell", c)) /\ agent[c] = "building" /\ agent' = agent
      \/ /\ Become(t, PlacedIn(thread[t], "build", c)) /\ agent[c] = "empty"
         /\ agent' = [agent EXCEPT ![c] = "building"]
  <2>1. c # NoCell /\ agent[c] \in {"empty", "building", "live", "dead", "asleep"}
    BY DEF StateTypeOK, VariablesTypeOK, Cells, NoCell
  <2>2. CASE Initialised(c)
    BY <2>1, <2>2 DEF TakeCell, PlacedIn, Initialised
  <2>3. CASE agent[c] = "building"
    BY <2>1, <2>3 DEF TakeCell, PlacedIn, Initialised
  <2>4. CASE agent[c] = "empty"
    BY <2>1, <2>4 DEF TakeCell, PlacedIn, Initialised
  <2> QED
    BY <2>1, <2>2, <2>3, <2>4 DEF Initialised
<1>3. CASE Become(t, Over(t)) /\ agent' = agent
  BY <1>1, <1>3, EndsFacts
<1>4. ASSUME NEW p \in {"send", "cell", "build"}, Become(t, PlacedIn(thread[t], p, c))
      PROVE  OneMoves(t) /\ thread'[t].pc = p /\ thread'[t].cell = c
  <2> DEFINE r == PlacedIn(thread[t], p, c)
  <2>1. r \in ThreadState /\ r.pc = p /\ r.cell = c
    <3>1. p \in PCs
      BY DEF PCs
    <3>2. PlacedIn(thread[t], p, c) \in ThreadState
      BY <1>1, <3>1, PlacedInFacts
    <3>3. PlacedIn(thread[t], p, c).pc = p
      BY <1>1, <3>1, PlacedInFacts
    <3>4. PlacedIn(thread[t], p, c).cell = c
      BY <1>1, <3>1, PlacedInFacts
    <3> QED
      BY <3>2, <3>3, <3>4
  <2>2. Become(t, r)
    BY <1>4
  <2> HIDE DEF r
  <2> QED
    BY <1>1, <2>1, <2>2, BecomeFacts
<1> QED
  BY <1>2, <1>3, <1>4

\* Agents stay right when a thread takes a cell in which it finds an agent or a
\* build, or the empty cell that is in the slot or that it has waited for.
LEMMA TakeFrame ==
    ASSUME StateTypeOK, AgentsInv, NEW t \in Turns \cup {Warm}, NEW c \in Cells, TakeCell(t, c),
           UNCHANGED <<kind, slot, killing>>,
           slot = c \/ (thread[t].pc = "cell" /\ thread[t].cell = c)
    PROVE  AgentsInv'
<1>1. t \in Threads /\ t # Delete
  BY ThreadNames DEF Warm, Delete
<1>2. OneMoves(t)
  BY TakeCellFacts
<1>3. CASE agent' = agent /\ thread'[t].pc \in {"new", "done"}
  BY <1>1, <1>2, <1>3, AgentFrame
<1>4. CASE agent' = agent /\ thread'[t].pc = "send" /\ thread'[t].cell = c /\ Initialised(c)
  BY <1>1, <1>2, <1>4, AgentFrame
<1>5. CASE /\ agent' = agent
           /\ thread'[t].pc = "cell" /\ thread'[t].cell = c /\ agent[c] = "building"
  <2>1. ThreadsHaveTheirCells'
    BY <1>2, <1>5 DEF AgentsInv, ThreadsHaveTheirCells, OneMoves, Initialised
  <2>2. OneBuilder'
    BY <1>2, <1>5 DEF AgentsInv, OneBuilder, OneMoves
  <2>3. AgentsAreFound'
    BY <1>1, <1>2, <1>5, ThreadNames DEF AgentsInv, AgentsAreFound, OneMoves, KillPending
  <2> QED
    BY <2>1, <2>2, <2>3 DEF AgentsInv
<1>6. CASE /\ agent[c] = "empty" /\ agent' = [agent EXCEPT ![c] = "building"]
           /\ thread'[t].pc = "build" /\ thread'[t].cell = c
  <2>1. /\ agent'[c] = "building"
        /\ \A d \in Cells : d # c => agent'[d] = agent[d]
    BY <1>6 DEF StateTypeOK, VariablesTypeOK
  <2>2. \A u \in Threads : thread[u].pc \in {"send", "relay", "judge", "build"} =>
                              thread[u].cell \in Cells /\ thread[u].cell # c
    BY <1>6 DEF AgentsInv, ThreadsHaveTheirCells, Initialised, StateTypeOK, ThreadState
  <2>3. ThreadsHaveTheirCells'
    BY <1>2, <1>6, <2>1, <2>2 DEF AgentsInv, ThreadsHaveTheirCells, OneMoves, Initialised
  <2>4. OneBuilder'
    BY <1>2, <1>6, <2>2 DEF AgentsInv, OneBuilder, OneMoves
  <2>5. AgentsAreFound'
    <3> SUFFICES ASSUME kind = "acp", thread'[Delete].pc \in {"new", "hooks"},
                        NEW d \in Cells,
                        \/ agent'[d] \in {"live", "building"}
                        \/ agent'[d] = "empty" /\ \E u \in Threads : thread'[u].pc = "cell"
                                                                     /\ thread'[u].cell = d
                 PROVE  slot = d \/ KillPending(d)
      BY DEF AgentsAreFound, KillPending
    <3>1. thread[Delete].pc \in {"new", "hooks"}
      BY <1>1, <1>2, ThreadNames DEF OneMoves
    <3>2. CASE d = c
      <4>1. CASE slot = c
        BY <3>2, <4>1
      <4>2. CASE thread[t].pc = "cell" /\ thread[t].cell = c
        BY <1>1, <1>6, <3>1, <3>2, <4>2 DEF AgentsInv, AgentsAreFound
      <4> QED
        BY <4>1, <4>2
    <3>3. CASE d # c
      <4>1. agent'[d] = agent[d]
        BY <2>1, <3>3
      <4>2. (\E u \in Threads : thread'[u].pc = "cell" /\ thread'[u].cell = d) =>
               \E u \in Threads : thread[u].pc = "cell" /\ thread[u].cell = d
        BY <1>2, <1>6 DEF OneMoves
      <4> QED
        BY <3>1, <4>1, <4>2 DEF AgentsInv, AgentsAreFound
    <3> QED
      BY <3>2, <3>3
  <2> QED
    BY <2>3, <2>4, <2>5 DEF AgentsInv
<1> QED
  BY <1>3, <1>4, <1>5, <1>6, TakeCellFacts

\* A new slot gets a cell that is not in use.
LEMMA UnusedCell ==
    ASSUME Unused # {}
    PROVE  (CHOOSE c \in Unused : \A d \in Unused : c <= d) \in Unused
<1>1. Unused \subseteq Nat
  BY ConversationAssumption DEF Unused, Cells
<1>2. PICK c \in Unused : \A d \in Unused : <<d, c>> \notin OpToRel(<, Nat)
  BY <1>1, NatLessThanWellFounded, WFMin, Zenon
<1>3. \A d \in Unused : d \in Nat /\ c \in Nat /\ ~(d < c)
  BY <1>1, <1>2, Zenon DEF OpToRel
<1>4. \A d \in Unused : c <= d
  BY <1>3
<1> QED
  BY <1>4, Zenon

\* The slot's cell, or a new one that nobody has.
LEMMA TakeSlotPreserves ==
    ASSUME IInv, NEW t \in Turns \cup {Warm}, TakeSlot(t)
    PROVE  IInv'
<1>1. t \in Threads /\ t # Delete /\ t # Cancel /\ thread[t] \in ThreadState
  BY ThreadNames DEF Warm, Delete, Cancel, IInv, StateTypeOK
<1>2. CASE slot # NoCell /\ TakeCell(t, slot) /\ UNCHANGED slot
  <2>1. slot \in Cells
    BY <1>2 DEF IInv, StateTypeOK, VariablesTypeOK
  <2>2. OneMoves(t) /\ agent' \in [Cells -> {"empty", "building", "live", "dead", "asleep"}]
    BY <1>2, <2>1, TakeCellFacts DEF IInv, StateTypeOK, VariablesTypeOK
  <2>3. StateTypeOK'
    BY <1>1, <1>2, <2>2, TypeFrame
    DEF IInv, TakeSlot, StateTypeOK, VariablesTypeOK, claim, log
  <2>4. AgentsInv'
    BY <1>2, <2>1, TakeFrame DEF IInv, TakeSlot
  <2>5. OneTurnAtATime'
    BY <1>1, <2>2, ClaimFrame DEF IInv, TakeSlot, claim, log, Claimed, At
  <2> QED
    BY <2>3, <2>4, <2>5 DEF IInv
<1>3. CASE slot = NoCell /\ slot' # NoCell
  <2> DEFINE c == slot'
             r == PlacedIn(thread[t], "build", c)
  <2>1. /\ c \in Unused
        /\ agent' = [agent EXCEPT ![c] = "building"]
        /\ Become(t, r)
    BY <1>3, UnusedCell DEF TakeSlot, PlacedIn
  <2>2. c \in Cells /\ ~Held(c)
    BY <2>1 DEF Unused
  <2>3. r \in ThreadState /\ r.pc = "build" /\ r.cell = c
    <3>1. "build" \in PCs
      BY DEF PCs
    <3>2. PlacedIn(thread[t], "build", c) \in ThreadState
      BY <1>1, <2>2, <3>1, PlacedInFacts
    <3>3. PlacedIn(thread[t], "build", c).pc = "build"
      BY <1>1, <2>2, <3>1, PlacedInFacts
    <3>4. PlacedIn(thread[t], "build", c).cell = c
      BY <1>1, <2>2, <3>1, PlacedInFacts
    <3> QED
      BY <3>2, <3>3, <3>4
  <2> HIDE DEF c, r
  <2>4. OneMoves(t) /\ thread'[t].pc = "build" /\ thread'[t].cell = c
    BY <1>1, <2>1, <2>3, BecomeFacts DEF IInv
  <2>5. /\ agent' \in [Cells -> {"empty", "building", "live", "dead", "asleep"}]
        /\ agent'[c] = "building"
        /\ \A d \in Cells : d # c => agent'[d] = agent[d]
        /\ slot' = c
    BY <2>1, <2>2 DEF c, IInv, StateTypeOK, VariablesTypeOK
  <2>6. \A u \in Threads : thread[u].cell # c
    BY <2>2 DEF Held
  <2>7. StateTypeOK'
    BY <1>1, <2>2, <2>4, <2>5, TypeFrame
    DEF IInv, TakeSlot, StateTypeOK, VariablesTypeOK, claim, log
  <2>8. ThreadsHaveTheirCells'
    BY <2>2, <2>4, <2>5, <2>6
    DEF IInv, AgentsInv, ThreadsHaveTheirCells, OneMoves, Initialised, StateTypeOK, ThreadState
  <2>9. OneBuilder'
    BY <2>4, <2>6 DEF IInv, AgentsInv, OneBuilder, OneMoves
  <2>10. AgentsAreFound'
    <3> SUFFICES ASSUME kind = "acp", thread'[Delete].pc \in {"new", "hooks"},
                        NEW d \in Cells, d # c,
                        \/ agent'[d] \in {"live", "building"}
                        \/ agent'[d] = "empty" /\ \E u \in Threads : thread'[u].pc = "cell"
                                                                     /\ thread'[u].cell = d
                 PROVE  KillPending(d)
      BY <2>5 DEF AgentsAreFound, KillPending, TakeSlot
    <3>1. thread[Delete].pc \in {"new", "hooks"}
      BY <1>1, <2>4, ThreadNames DEF OneMoves
    <3>2. agent'[d] = agent[d]
      BY <2>5
    <3>3. (\E u \in Threads : thread'[u].pc = "cell" /\ thread'[u].cell = d) =>
             \E u \in Threads : thread[u].pc = "cell" /\ thread[u].cell = d
      BY <2>4 DEF OneMoves
    <3>4. slot # d
      BY <1>3 DEF Cells, NoCell
    <3> QED
      BY <3>1, <3>2, <3>3, <3>4 DEF IInv, AgentsInv, AgentsAreFound
  <2>11. OneTurnAtATime'
    BY <1>1, <2>4, ClaimFrame DEF IInv, TakeSlot, claim, log, Claimed, At
  <2> QED
    BY <2>7, <2>8, <2>9, <2>10, <2>11 DEF IInv, AgentsInv
<1>4. slot = NoCell => slot' # NoCell
  <2>1. slot = NoCell => slot' \in Unused
    BY UnusedCell, Zenon DEF TakeSlot
  <2> QED
    BY <2>1 DEF Unused, Cells, NoCell
<1> QED
  BY <1>2, <1>3, <1>4 DEF TakeSlot

\* A cell that was waited for is still found when a build is tried again in it.
LEMMA WaitForCellPreserves ==
    ASSUME IInv, NEW t \in Turns \cup {Warm}, WaitForCell(t)
    PROVE  IInv'
<1>1. t \in Threads /\ t # Delete /\ t # Cancel
  BY ThreadNames DEF Warm, Delete, Cancel
<1> DEFINE c == thread[t].cell
<1>2. c \in Cells /\ TakeCell(t, c) /\ thread[t].pc = "cell"
  BY <1>1 DEF IInv, AgentsInv, ThreadsHaveTheirCells, WaitForCell, At
<1>3. thread[t].cell = c
  OBVIOUS
<1> HIDE DEF c
<1>4. OneMoves(t) /\ agent' \in [Cells -> {"empty", "building", "live", "dead", "asleep"}]
  BY <1>2, TakeCellFacts DEF IInv, StateTypeOK, VariablesTypeOK
<1>5. StateTypeOK'
  BY <1>1, <1>4, TypeFrame
  DEF IInv, WaitForCell, StateTypeOK, VariablesTypeOK, claim, log
<1>6. AgentsInv'
  BY <1>2, <1>3, TakeFrame DEF IInv, WaitForCell
<1>7. OneTurnAtATime'
  BY <1>1, <1>2, <1>4, ClaimFrame DEF IInv, WaitForCell, claim, log, Claimed
<1> QED
  BY <1>5, <1>6, <1>7 DEF IInv

\* The one builder of a cell ends its build.
LEMMA BuildPreserves ==
    ASSUME IInv, NEW t \in Turns \cup {Warm}, Build(t)
    PROVE  IInv'
<1>1. t \in Threads /\ t # Delete /\ t # Cancel /\ thread[t].pc = "build"
  BY ThreadNames DEF Warm, Delete, Cancel, Build, At
<1> DEFINE c == thread[t].cell
<1>2. /\ c \in Cells /\ agent[c] = "building"
      /\ c # NoCell
  BY <1>1 DEF IInv, AgentsInv, ThreadsHaveTheirCells, Cells, NoCell
<1>3. /\ OneMoves(t)
      /\ \/ thread'[t].pc \in {"new", "done", "release"}
         \/ thread'[t].pc = "send" /\ thread'[t].cell = c /\ agent' = [agent EXCEPT ![c] = "live"]
  <2>1. CASE Become(t, Over(t))
    BY <1>1, <2>1, EndsFacts DEF IInv
  <2>2. CASE Goto(t, "send") /\ agent' = [agent EXCEPT ![c] = "live"]
    BY <1>1, <2>2, GotoFacts DEF IInv, PCs
  <2>3. CASE Become(t, [New EXCEPT !.pc = "release"])
    BY <1>1, <2>3, AnewFacts DEF IInv, PCs
  <2> QED
    BY <2>1, <2>2, <2>3 DEF Build
<1>4. \E a \in {"live", "empty"} : agent' = [agent EXCEPT ![c] = a]
  BY DEF Build, EmptiedCell
<1>5. thread[t].cell = c
  OBVIOUS
<1> HIDE DEF c
<1>6. /\ agent' \in [Cells -> {"empty", "building", "live", "dead", "asleep"}]
      /\ agent'[c] \in {"live", "empty"}
      /\ \A d \in Cells : d # c => agent'[d] = agent[d]
  BY <1>2, <1>4 DEF IInv, StateTypeOK, VariablesTypeOK
<1>7. \A u \in Threads : thread[u].pc = "build" /\ thread[u].cell = c => u = t
  BY <1>1, <1>5 DEF IInv, AgentsInv, OneBuilder
<1>8. \A u \in Threads : thread[u].pc \in {"send", "relay", "judge"} =>
                            thread[u].cell \in Cells /\ thread[u].cell # c
  BY <1>2 DEF IInv, AgentsInv, ThreadsHaveTheirCells, Initialised, StateTypeOK, ThreadState
<1>9. StateTypeOK'
  BY <1>1, <1>3, <1>6, TypeFrame
  DEF IInv, Build, StateTypeOK, VariablesTypeOK, claim, log
<1>10. ThreadsHaveTheirCells'
  <2>1. ASSUME NEW u \in Threads, u # t
        PROVE  /\ thread'[u].pc \in {"send", "relay", "judge"} =>
                     thread'[u].cell # NoCell /\ agent'[thread'[u].cell] \in {"live", "dead", "asleep"}
               /\ thread'[u].pc = "cell" => thread'[u].cell \in Cells
               /\ thread'[u].pc = "build" => thread'[u].cell \in Cells
                                             /\ agent'[thread'[u].cell] = "building"
    BY <1>3, <1>6, <1>7, <1>8, <2>1
    DEF IInv, AgentsInv, ThreadsHaveTheirCells, OneMoves, Initialised
  <2>2. /\ thread'[t].pc \in {"send", "relay", "judge"} =>
              thread'[t].cell # NoCell /\ agent'[thread'[t].cell] \in {"live", "dead", "asleep"}
        /\ thread'[t].pc \notin {"cell", "build"}
    BY <1>2, <1>3, <1>4 DEF IInv, StateTypeOK, VariablesTypeOK
  <2> QED
    BY <2>1, <2>2 DEF ThreadsHaveTheirCells, Initialised
<1>11. OneBuilder'
  BY <1>3 DEF IInv, AgentsInv, OneBuilder, OneMoves
<1>12. AgentsAreFound'
  <2> SUFFICES ASSUME kind = "acp", thread'[Delete].pc \in {"new", "hooks"},
                      NEW d \in Cells, InUse(d)'
               PROVE  slot = d \/ KillPending(d)
    BY DEF AgentsAreFound, KillPending, InUse, Build
  <2>1. thread[Delete].pc \in {"new", "hooks"}
    BY <1>1, <1>3, ThreadNames DEF OneMoves
  <2>2. (\E u \in Threads : thread'[u].pc = "cell" /\ thread'[u].cell = d) =>
           \E u \in Threads : thread[u].pc = "cell" /\ thread[u].cell = d
    BY <1>3 DEF OneMoves
  <2>3. InUse(d)
    BY <1>2, <1>6, <2>2 DEF InUse
  <2> QED
    BY <2>1, <2>3 DEF IInv, AgentsInv, AgentsAreFound, InUse
<1>13. OneTurnAtATime'
  BY <1>1, <1>3, ClaimFrame DEF IInv, Build, claim, log, Claimed
<1> QED
  BY <1>9, <1>10, <1>11, <1>12, <1>13 DEF IInv, AgentsInv

-----------------------------------------------------------------------------
(* The calls.                                                              *)

\* A caller never has the claim of a turn.
LEMMA CallerClaimFrame ==
    ASSUME OneTurnAtATime, NEW t \in Callers, OneMoves(t), active' = active, revoked' = revoked
    PROVE  OneTurnAtATime'
  BY ClaimFrame, ThreadNames

\* A caller that neither kills nor builds disturbs no agent.
LEMMA CallerFrame ==
    ASSUME IInv, NEW t \in Callers, OneMoves(t), UNCHANGED <<kind, active, tasks, log>>,
           exists' \in BOOLEAN, flags' \subseteq {"deleting", "cancelling"},
           drains' \in SUBSET Turns,
           thread'[t].pc \notin {"cell", "build", "send", "relay", "judge"},
           t = Delete /\ thread'[t].pc \in {"new", "hooks"} => thread[t].pc \in {"new", "hooks"},
           t = Cancel /\ thread'[t].pc \in {"mark", "ask"} => thread'[t].turn \in Turns
    PROVE  IInv'
<1>1. VariablesTypeOK'
  BY DEF IInv, StateTypeOK, VariablesTypeOK, tasks, log
<1>2. StateTypeOK'
  BY <1>1, TypeFrame, ThreadNames DEF IInv
<1>3. AgentsInv'
  BY AgentFrame, ThreadNames DEF IInv, tasks
<1>4. OneTurnAtATime'
  BY CallerClaimFrame DEF IInv, log
<1> QED
  BY <1>2, <1>3, <1>4 DEF IInv

\* The callers have different names.
LEMMA CallerNames ==
    /\ {Cancel, Delete, Revoke, Warm, Idler} \subseteq Callers
    /\ Callers \subseteq Threads
    /\ Cancel # Delete /\ Cancel # Revoke /\ Cancel # Warm /\ Cancel # Idler
    /\ Delete # Revoke /\ Delete # Warm /\ Delete # Idler
  BY ThreadNames DEF Cancel, Delete, Revoke, Warm, Idler

\* The fields of a thread of a call that starts for a turn.
StartedFor(p, u, c) == [New EXCEPT !.pc = p, !.turn = u, !.cell = c]
HooksFor(u) == [New EXCEPT !.pc = "hooks", !.turn = u]

\* A delete that starts.
LEMMA HooksForFacts ==
    ASSUME NEW u \in Turns \cup {NoTurn}
    PROVE  HooksFor(u) \in ThreadState /\ HooksFor(u).pc = "hooks" /\ HooksFor(u).turn = u
  BY NewFacts DEF HooksFor, ThreadState, PCs

\* A cancel that starts.
LEMMA StartedForFacts ==
    ASSUME NEW p \in PCs, NEW u \in Turns \cup {NoTurn}, NEW c \in Cells \cup {NoCell}
    PROVE  /\ StartedFor(p, u, c) \in ThreadState
           /\ StartedFor(p, u, c).pc = p
           /\ StartedFor(p, u, c).turn = u
<1> DEFINE q == [New EXCEPT !.pc = p, !.turn = u]
<1>1. q \in ThreadState /\ q.pc = p /\ q.turn = u
  BY NewFacts DEF ThreadState, PCs
<1>2. StartedFor(p, u, c) = [q EXCEPT !.cell = c]
  BY DEF StartedFor
<1> HIDE DEF q
<1> QED
  BY <1>1, <1>2, CellChanged

\* A cancel starts for a turn.
LEMMA CancelStartsPreserves ==
    ASSUME IInv, CancelStarts
    PROVE  IInv'
<1> DEFINE r == StartedFor("mark", active, slot)
<1>1. r \in ThreadState /\ r.pc = "mark" /\ r.turn \in Turns
  <2>1. "mark" \in PCs /\ active \in Turns /\ slot \in Cells \cup {NoCell}
    BY DEF PCs, CancelStarts, IInv, StateTypeOK, VariablesTypeOK
  <2>2. StartedFor("mark", active, slot) \in ThreadState
    BY <2>1, StartedForFacts
  <2>3. StartedFor("mark", active, slot).pc = "mark"
    BY <2>1, StartedForFacts
  <2>4. StartedFor("mark", active, slot).turn = active
    BY <2>1, StartedForFacts
  <2> QED
    BY <2>1, <2>2, <2>3, <2>4
<1>2. Become(Cancel, r)
  BY DEF CancelStarts, StartedFor
<1> HIDE DEF r
<1>3. OneMoves(Cancel) /\ thread'[Cancel] = r
  BY <1>1, <1>2, BecomeFacts, CallerNames DEF IInv
<1> QED
  BY <1>1, <1>3, CallerFrame, CallerNames
  DEF CancelStarts, IInv, StateTypeOK, VariablesTypeOK, claim

\* It marks the conversation.
LEMMA CancelMarksPreserves ==
    ASSUME IInv, CancelMarks
    PROVE  IInv'
<1>1. OneMoves(Cancel) /\ thread'[Cancel].pc = "ask" /\ thread'[Cancel].turn \in Turns
  BY GotoFacts, CallerNames DEF CancelMarks, IInv, StateTypeOK, At, PCs
<1> QED
  BY <1>1, CallerFrame, CallerNames DEF CancelMarks, IInv, StateTypeOK, VariablesTypeOK

\* Its timer starts for that turn.
LEMMA CancelAsksPreserves ==
    ASSUME IInv, CancelAsks
    PROVE  IInv'
<1>1. OneMoves(Cancel) /\ thread'[Cancel].pc \in {"done", "new"}
  BY EndsFacts, CallerNames DEF CancelAsks, IInv
<1>2. thread[Cancel].turn \in Turns
  BY DEF CancelAsks, IInv, StateTypeOK, At
<1> QED
  BY <1>1, <1>2, CallerFrame, CallerNames DEF CancelAsks, IInv, StateTypeOK, VariablesTypeOK

\* A delete marks the conversation.
LEMMA DeleteStartsPreserves ==
    ASSUME IInv, DeleteStarts
    PROVE  IInv'
<1>1. HooksFor(active) \in ThreadState
  BY HooksForFacts DEF IInv, StateTypeOK, VariablesTypeOK
<1>2. HooksFor(active).pc = "hooks"
  BY HooksForFacts DEF IInv, StateTypeOK, VariablesTypeOK
<1>3. Become(Delete, HooksFor(active))
  BY DEF DeleteStarts, HooksFor
<1>4. OneMoves(Delete) /\ thread'[Delete].pc = "hooks" /\ thread[Delete].pc = "new"
  BY <1>1, <1>2, <1>3, BecomeFacts, CallerNames DEF IInv, DeleteStarts, At
<1> QED
  BY <1>4, CallerFrame, CallerNames DEF DeleteStarts, IInv, StateTypeOK, VariablesTypeOK

\* The hooks of a delete kill what is in the slot and do not wait: AgentsAreFound
\* ends here.
LEMMA DeleteHooksPreserves ==
    ASSUME IInv, DeleteHooks
    PROVE  IInv'
<1>1. SlotKilled /\ killing' = killing
  BY KillSlotFacts DEF IInv, DeleteHooks
<1>2. OneMoves(Delete) /\ thread'[Delete].pc = "row"
  <2> DEFINE new == ThreadsAfterKill("deleted")
             r == [new[Delete] EXCEPT !.pc = "row"]
  <2>1. SameThreads(new)
    BY ThreadsAfterKillFacts DEF IInv
  <2>2. thread' = [new EXCEPT ![Delete] = r]
    BY DEF DeleteHooks
  <2> HIDE DEF new
  <2>3. r \in ThreadState /\ r.pc = "row"
    BY <2>1, PlaceChanged, CallerNames DEF SameThreads, PCs
  <2> HIDE DEF r
  <2> QED
    BY <2>1, <2>2, <2>3, KilledAndMoved, CallerNames
<1>3. VariablesTypeOK'
  BY <1>1 DEF DeleteHooks, IInv, StateTypeOK, VariablesTypeOK, SlotKilled, AgentsEnd, claim, log
<1>4. StateTypeOK'
  BY <1>2, <1>3, TypeFrame, CallerNames DEF IInv
<1>5. AgentsInv'
  BY <1>1, <1>2, KillFrame, CallerNames DEF IInv, DeleteHooks
<1>6. OneTurnAtATime'
  BY <1>2, CallerClaimFrame, CallerNames DEF IInv, DeleteHooks, claim, log
<1> QED
  BY <1>4, <1>5, <1>6 DEF IInv

\* The row goes; no agent does.
LEMMA DeleteRowPreserves ==
    ASSUME IInv, DeleteRow
    PROVE  IInv'
<1>1. OneMoves(Delete) /\ thread'[Delete].pc = "over"
  BY GotoFacts, CallerNames DEF DeleteRow, IInv, PCs
<1> QED
  BY <1>1, CallerFrame, CallerNames DEF DeleteRow, IInv, StateTypeOK, VariablesTypeOK

\* A revocation looks at the slot.
LEMMA RevokeStartsPreserves ==
    ASSUME IInv, RevokeStarts
    PROVE  IInv'
<1>1. OneMoves(Revoke) /\ thread'[Revoke].pc = "kill"
  BY AnewFacts, CallerNames DEF RevokeStarts, IInv, PCs
<1> QED
  BY <1>1, CallerFrame, CallerNames DEF RevokeStarts, IInv, StateTypeOK, VariablesTypeOK, claim

\* It kills and waits.
LEMMA RevokeKillsPreserves ==
    ASSUME IInv, RevokeKills
    PROVE  IInv'
<1> DEFINE c == IF killing' = killing THEN NoCell ELSE slot
<1>1. c \in Cells \cup {NoCell}
  BY DEF IInv, StateTypeOK, VariablesTypeOK
<1>2. thread' = [ThreadsAfterKill("revoked") EXCEPT ![Revoke] = WaitsAt("clear", c)]
  BY DEF RevokeKills, WaitsAt
<1> HIDE DEF c
<1>3. SameThreads(ThreadsAfterKill("revoked"))
  BY ThreadsAfterKillFacts DEF IInv
<1>4. OneMoves(Revoke) /\ thread'[Revoke].pc = "clear"
  BY <1>1, <1>2, <1>3, WaitsAtFacts, KilledAndMoved, CallerNames DEF PCs
<1>5. /\ KillSlotAndWait("revoked")
      /\ UNCHANGED <<exists, kind, claim, log>>
      /\ drains' \in SUBSET Turns
  BY DEF RevokeKills, IInv, StateTypeOK, VariablesTypeOK
<1>6. Revoke \in Threads /\ Revoke # Delete /\ "clear" \notin Claimed
  BY CallerNames DEF Claimed
<1> QED
  BY <1>4, <1>5, <1>6, KillAndWaitPreserves

\* A revocation takes the claim away from whoever has it.
LEMMA RevokeClearsPreserves ==
    ASSUME IInv, RevokeClears
    PROVE  IInv'
<1>1. OneMoves(Revoke) /\ thread'[Revoke].pc \in {"done", "new"}
  BY EndsFacts, CallerNames DEF RevokeClears, IInv
<1>2. VariablesTypeOK'
  BY DEF RevokeClears, IInv, StateTypeOK, VariablesTypeOK, tasks
<1>3. StateTypeOK'
  BY <1>1, <1>2, TypeFrame, CallerNames DEF IInv
<1>4. AgentsInv'
  BY <1>1, AgentFrame, CallerNames DEF IInv, RevokeClears, tasks
<1>5. OneTurnAtATime'
  BY <1>1, ThreadNames, CallerNames DEF IInv, RevokeClears, OneTurnAtATime, OneMoves
<1> QED
  BY <1>3, <1>4, <1>5 DEF IInv

\* A warmup starts like a turn that needs an agent.
LEMMA WarmStartsPreserves ==
    ASSUME IInv, WarmStarts
    PROVE  IInv'
<1>1. OneMoves(Warm) /\ thread'[Warm].pc = "slot"
  BY AnewFacts, CallerNames DEF WarmStarts, IInv, PCs
<1> QED
  BY <1>1, CallerFrame, CallerNames DEF WarmStarts, IInv, StateTypeOK, VariablesTypeOK, claim

\* The idle scanner looks at the slot.
LEMMA IdleCollectsPreserves ==
    ASSUME IInv, IdleCollects
    PROVE  IInv'
<1>1. OneMoves(Idler) /\ thread'[Idler].pc = "kill"
  BY AnewFacts, CallerNames DEF IdleCollects, IInv, PCs
<1> QED
  BY <1>1, CallerFrame, CallerNames DEF IdleCollects, IInv, StateTypeOK, VariablesTypeOK, claim

\* It kills and waits, in a task of its own.
LEMMA IdleKillsPreserves ==
    ASSUME IInv, IdleKills
    PROVE  IInv'
<1>1. SameThreads(ThreadsAfterKill("idle"))
  BY ThreadsAfterKillFacts DEF IInv
<1>2. OneMoves(Idler) /\ thread'[Idler].pc \in {"done", "new"}
  BY <1>1, OverFacts, KilledAndMoved, CallerNames DEF IdleKills
<1>3. /\ KillSlotAndWait("idle")
      /\ UNCHANGED <<exists, kind, claim, log>>
      /\ drains' \in SUBSET Turns
  BY DEF IdleKills, IInv, StateTypeOK, VariablesTypeOK
<1>4. Idler \in Threads /\ Idler # Delete /\ "done" \notin Claimed /\ "new" \notin Claimed
  BY CallerNames DEF Claimed
<1> QED
  BY <1>2, <1>3, <1>4, KillAndWaitPreserves

-----------------------------------------------------------------------------
(* The theorems.                                                           *)

\* Every step preserves the invariant.
LEMMA NextIInv == IInv /\ [Next]_vars => IInv'
<1> SUFFICES ASSUME IInv, [Next]_vars PROVE IInv'
  OBVIOUS
<1>1. ASSUME NEW k \in Turns, SendStarts(k) \/ Turning(k) \/ AgentEnds(k) \/ DrainFires(k)
      PROVE  IInv'
  BY <1>1, SendStartsPreserves, ClaimPreserves, AcceptPreserves, PrepareFailsPreserves,
     PromptPreserves, WakePreserves,
     RelayPreserves, JudgePreserves, EndTurnPreserves, CompletePreserves,
     AgentEndsPreserves, DrainFiresPreserves DEF Turning
<1>2. ASSUME NEW t \in Turns \cup {Warm}, Building(t)
      PROVE  IInv'
  BY <1>2, TakeSlotPreserves, WaitForCellPreserves, BuildPreserves DEF Building
<1>3. ASSUME NEW k \in killing, KillBuilt(k)
      PROVE  IInv'
  BY <1>3, KillBuiltPreserves
<1>4. ASSUME Calling
      PROVE  IInv'
  BY <1>4, CancelStartsPreserves, CancelMarksPreserves, CancelAsksPreserves,
     DeleteStartsPreserves, DeleteHooksPreserves, DeleteRowPreserves,
     RevokeStartsPreserves, RevokeKillsPreserves, RevokeClearsPreserves,
     WarmStartsPreserves, IdleCollectsPreserves, IdleKillsPreserves DEF Calling
<1>5. CASE UNCHANGED vars
  <2>1. StateTypeOK'
    BY <1>5 DEF IInv, StateTypeOK, VariablesTypeOK, vars, claim, tasks, log
  <2>2. AgentsInv'
    BY <1>5 DEF IInv, AgentsInv, ThreadsHaveTheirCells, OneBuilder, AgentsAreFound,
                KillPending, Initialised, vars, tasks
  <2>3. OneTurnAtATime'
    BY <1>5 DEF IInv, OneTurnAtATime, vars, claim, log
  <2> QED
    BY <2>1, <2>2, <2>3 DEF IInv
<1> QED
  BY <1>1, <1>2, <1>3, <1>4, <1>5 DEF Next

\* So the invariant holds of every behaviour.
LEMMA SpecIInv == Spec => []IInv
  BY InitIInv, NextIInv, PTL DEF Spec

\* A conversation has one turn at a time unless a revocation cleared the claim:
\* try_claim_turn and release of the runtime state (runtime_state.rs), whatever
\* cancels, deletes, failures and drain timers come between.
THEOREM OneTurnAtATimeHolds == Spec => []OneTurnAtATime
<1>1. IInv => OneTurnAtATime
  BY DEF IInv
<1> QED
  BY <1>1, SpecIInv, PTL

\* No agent process is lost: as long as no delete has run its hooks, an agent
\* that lives is in the slot of the task manager, or in the hands of a thread or
\* of a kill_and_wait (task_manager.rs).
THEOREM NoStrayAgentsHolds == Spec => []NoStrayAgents
<1>1. IInv => NoStrayAgents
  BY ConversationAssumption
  DEF IInv, AgentsInv, AgentsAreFound, NoStrayAgents, Live, Held, KillPending, At,
      StateTypeOK, VariablesTypeOK, AllKinds
<1> QED
  BY <1>1, SpecIInv, PTL

\* The types, and that a turn that prompts has an agent that was built, a builder
\* a cell that is being built.
THEOREM ConversationTypeOKHolds == Spec => []ConversationTypeOK
<1>1. IInv => ConversationTypeOK
  BY DEF IInv, AgentsInv, ThreadsHaveTheirCells, ConversationTypeOK, StateTypeOK,
         VariablesTypeOK, ThreadState
<1> QED
  BY <1>1, SpecIInv, PTL

=============================================================================
