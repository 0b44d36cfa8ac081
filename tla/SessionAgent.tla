---------------------------- MODULE SessionAgent ----------------------------
(***************************************************************************)
(* A session agent (fool-ai-agent, session_agent.rs) over its claude       *)
(* backend (fool-session, claude_conn.rs and suspend.rs): the prompts that *)
(* a conversation sends it one after the other, the command line program   *)
(* that answers them, the reader of its output, the pump that translates   *)
(* what was read, and the relay of the prompt that waits for its end       *)
(* (fool-conversation, stream_relay.rs).                                   *)
(*                                                                         *)
(* The program is external: it reads prompts from its standard input, may  *)
(* call a tool, may start a workflow that outlives the result in which it  *)
(* says so, and owes no answer.  It says the end of an answer twice: the   *)
(* stop of its last message, in real time, and the result frame, which may *)
(* be much later; the adapter (claude.rs) makes a result of each.  Reading *)
(* its output is one step with its output.  Of what it says only tool      *)
(* calls and results are kept.                                             *)
(***************************************************************************)
EXTENDS Naturals, Sequences, WorkQueue

CONSTANTS
    MaxPrompts,  \* bound: how many prompts are sent
    MaxWire,     \* bound: how many events wait for the pump
    Faults,      \* what may go wrong, a subset of AllFaults
    Cancels      \* whether the user cancels

AllFaults == {"fail",   \* a prompt ends with an error result
              "crash",  \* the program dies
              "exit",   \* the program ends with exit code 0
              "hang",   \* the reader gives up while the program lives
              "wake"}   \* the program cannot be started again

ASSUME SessionAgentAssumption ==
    /\ MaxPrompts \in Nat
    /\ MaxWire \in Nat
    /\ Faults \subseteq AllFaults
    /\ Cancels \in BOOLEAN

VARIABLES
    sent,      \* the prompt whose relay was started last, 0 at first
    sender,    \* sender[k]: where the task that sends prompt k is
    refused,   \* the prompts whose send has returned an error
    outcome,   \* outcome[k]: the terminal event that the relay of k has returned
    row,       \* row[k]: the persisted row of the tool call of prompt k
    status,    \* the status of the agent
    slot,      \* whether the suspend controller has a process
    process,   \* whether it runs and is read: "up", "mute" or "gone"
    program,   \* what the program does
    wire,      \* events that were read and not yet taken by the pump
    pump,      \* what the pump remembers
    inbox,     \* frames for the relay of the last prompt
    kill,      \* the user's cancel and the kill by its timer
    fate,      \* history: what became of prompt k
    called,    \* history: the prompts that have called their tool
    strayed    \* history: a result of an earlier prompt has come to a later one

sending == <<sent, sender, refused>>
relayed == <<outcome, row>>
backend == <<slot, process, program>>
streams == <<wire, pump, inbox>>
vars == <<sending, relayed, status, backend, streams, kill, fate, called, strayed>>

Prompts == 1..MaxPrompts
None == 0

Idle == [stdin |-> <<>>, doing |-> None, call |-> "none", workflow |-> "none",
         interrupted |-> FALSE, replied |-> FALSE]

-----------------------------------------------------------------------------
(* Frames on the broadcast channel of the agent.                           *)

\* The relay of the last prompt listens: a relay that has returned does not.
Subscribed == sent # None /\ outcome[sent] = "none"

Posted(frames) == IF Subscribed THEN inbox \o frames ELSE inbox

\* What is said of prompt k.  Only tools name their prompt in the code; of results
\* and ends the name is history.
Of(k, type) == [type |-> type, prompt |-> k]
Plain(type) == [type |-> type, prompt |-> None]

\* What belongs to another prompt than the one the relay waits for.
Stray(said) == Subscribed /\ said.prompt \notin {sent, None}

-----------------------------------------------------------------------------
(* run_attempt: one prompt after the other.                                *)

\* The relay subscribes, and the send is a task of its own.  After an error the
\* agent is evicted.
Subscribe ==
    /\ sent < MaxPrompts
    /\ sent # None => outcome[sent] = "finish"
    /\ sent' = sent + 1
    /\ sender' = [sender EXCEPT ![sent + 1] = "ready"]
    /\ inbox' = <<>>
    /\ UNCHANGED <<refused, relayed, status, backend, wire, pump, kill, fate, called, strayed>>

\* send_message before its dispatch.
SetRunning(k) ==
    /\ sender[k] = "ready"
    /\ status' = "running"
    /\ sender' = [sender EXCEPT ![k] = "wake"]
    /\ UNCHANGED <<sent, refused, relayed, backend, streams, kill, fate, called, strayed>>

Refuse(k) ==
    /\ refused' = refused \cup {k}
    /\ sender' = [sender EXCEPT ![k] = "over"]
    /\ fate' = [fate EXCEPT ![k] = "unsent"]

\* ensure_awake: the program is started again if it was stopped.
EnsureAwake(k) ==
    /\ sender[k] = "wake"
    /\ \/ /\ slot = "active"
          /\ sender' = [sender EXCEPT ![k] = "deliver"]
          /\ UNCHANGED <<refused, fate, backend>>
       \/ /\ slot = "dormant"
          /\ slot' = "active" /\ process' = "up" /\ program' = Idle
          /\ sender' = [sender EXCEPT ![k] = "deliver"]
          /\ UNCHANGED <<refused, fate>>
       \/ /\ slot = "dormant" /\ "wake" \in Faults
          /\ Refuse(k)
          /\ UNCHANGED backend
    /\ UNCHANGED <<sent, relayed, status, streams, kill, called, strayed>>

\* The prompt is written to the program's input, which fails when it is gone.
\* Nobody reads what a mute program answers.
Deliver(k) ==
    /\ sender[k] = "deliver"
    /\ IF process = "gone"
         THEN Refuse(k) /\ UNCHANGED program
         ELSE /\ program' = [program EXCEPT !.stdin = Append(@, k)]
              /\ sender' = [sender EXCEPT ![k] = "over"]
              /\ fate' = [fate EXCEPT ![k] = IF process = "up" THEN "sent" ELSE "left"]
              /\ UNCHANGED refused
    /\ UNCHANGED <<sent, relayed, status, slot, process, streams, kill, called, strayed>>

-----------------------------------------------------------------------------
(* The program, and the reader of its output.                              *)

Says(event) == Len(wire) < MaxWire /\ wire' = Append(wire, event)
Works == process = "up" /\ program.doing # None /\ ~program.replied
InWorkflow == program.workflow \in {"running", "launched"}

External == UNCHANGED <<sending, relayed, status, pump, inbox, kill, strayed>>

Begin ==
    /\ process = "up" /\ program.doing = None /\ program.stdin # <<>>
    /\ program' = [program EXCEPT !.stdin = Tail(@), !.doing = Head(program.stdin),
                                  !.call = "none",
                                  !.workflow = IF InWorkflow THEN "running" ELSE "none"]
    /\ External /\ UNCHANGED <<slot, process, wire, fate, called>>

CallTool ==
    /\ Works /\ program.call = "none"
    /\ program' = [program EXCEPT !.call = "open"]
    /\ Says(Of(program.doing, "call"))
    /\ called' = called \cup {program.doing}
    /\ External /\ UNCHANGED <<slot, process, fate>>

EndTool ==
    /\ Works /\ program.call = "open"
    /\ program' = [program EXCEPT !.call = "ended"]
    /\ Says(Of(program.doing, "result"))
    /\ External /\ UNCHANGED <<slot, process, fate, called>>

StartWorkflow ==
    /\ Works /\ program.workflow = "none"
    /\ program' = [program EXCEPT !.workflow = "running"]
    /\ Says(Plain("task"))
    /\ External /\ UNCHANGED <<slot, process, fate, called>>

\* The end of the message in which the program says that its workflow has been
\* launched, and a result frame that it does not keep back until the workflow ends.
Launch ==
    /\ Works /\ InWorkflow
    /\ program' = [program EXCEPT !.workflow = "launched"]
    /\ Says(Of(program.doing, "clean"))
    /\ External /\ UNCHANGED <<slot, process, fate, called>>

EndWorkflow ==
    /\ process = "up" /\ InWorkflow
    /\ program' = [program EXCEPT !.workflow = "over"]
    /\ Says(Plain("taskend"))
    /\ External /\ UNCHANGED <<slot, process, fate, called>>

\* The last message of an answer stops: message_delta, the result in real time.
\* An answer is complete when no workflow runs any more.
Reply ==
    /\ Works /\ ~InWorkflow
    /\ program' = [program EXCEPT !.replied = TRUE]
    /\ Says(Of(program.doing, "clean"))
    /\ fate' = [fate EXCEPT ![program.doing] = "answered"]
    /\ External /\ UNCHANGED <<slot, process, called>>

\* The result frame: the program has done with the prompt.  How it ends counts
\* when there was no reply.
Ends(result, end) ==
    /\ process = "up" /\ program.doing # None
    /\ program' = [program EXCEPT !.doing = None, !.interrupted = FALSE, !.replied = FALSE]
    /\ Says(Of(program.doing, result))
    /\ fate' = [fate EXCEPT ![program.doing] = IF program.replied THEN @ ELSE end]
    /\ External /\ UNCHANGED <<slot, process, called>>

Answer == ~InWorkflow /\ Ends("clean", "answered")
Fail == "fail" \in Faults /\ Ends("error", "failed")
Interrupted == program.interrupted /\ Ends("cancelled", "cancelled")

\* The prompts that the program has or that wait in its input.
Delivered == {k \in Prompts : fate[k] = "sent"}
Losing(end) == [k \in Prompts |-> IF k \in Delivered THEN end ELSE fate[k]]

\* The reader ends: the program has died, or it says nothing for too long when
\* it starts, or what it says cannot be read.
ReaderEnds(fault, state, event) ==
    /\ fault \in Faults
    /\ process = "up"
    /\ process' = state
    /\ program' = Idle
    /\ Says(Plain(event))
    /\ fate' = Losing("lost")
    /\ External /\ UNCHANGED <<slot, called>>

Crash == ReaderEnds("crash", "gone", "crash")
Exit == ReaderEnds("exit", "gone", "exit")
Hang == ReaderEnds("hang", "mute", "crash")

-----------------------------------------------------------------------------
(* The pump.                                                               *)

Results == {"clean", "error", "cancelled"}
Exits == {"crash", "exit"}

\* Mutant: every result ends the prompt.
NeverIntermediate(event) == FALSE

\* Mutant: while a workflow is known to run no result ends the prompt.
AlwaysIntermediate(event) == event.type \in Results /\ pump.inflight

\* A clean result while a workflow is known to run is not the end of the prompt.
Intermediate(event) == event.type = "clean" /\ pump.inflight

\* Whether the event ends the prompt for the pump.
Terminal(event) == event.type \in Results \cup Exits /\ ~Intermediate(event)

\* Mutant: any result sets the status.
FinishedByAnyResult(event) ==
    IF event.type \in Results \cup Exits THEN "finished" ELSE status

StatusAfter(event) == IF Terminal(event) THEN "finished" ELSE status

\* Mutant: only an answer closes the tools that are still open.
ClosesIfAnswered(event) == IF event.type = "clean" THEN pump.open ELSE {}

\* The tools that are open at the end of the prompt are closed.
Closes(event) == IF Terminal(event) THEN pump.open ELSE {}

\* Mutant: a crash is an error, and then the end.
TranslationWithFinish(event, seen) ==
    CASE event.type \in {"call", "result"} -> <<event>>
      [] event.type \in {"task", "taskend"} \/ Intermediate(event) -> <<>>
      [] event.type = "error" -> <<Of(event.prompt, "error")>>
      [] event.type = "crash" /\ ~seen -> <<Plain("error"), Plain("finish")>>
      [] OTHER -> <<Of(event.prompt, "finish")>>

\* translate_event: what the relay is told; seen says whether any result was seen
\* before.
Translation(event, seen) ==
    CASE event.type \in {"call", "result"} -> <<event>>
      [] event.type \in {"task", "taskend"} \/ Intermediate(event) -> <<>>
      [] event.type = "error" \/ (event.type = "crash" /\ ~seen) -> <<Of(event.prompt, "error")>>
      [] OTHER -> <<Of(event.prompt, "finish")>>

\* Before it persists what it has to, the pump keeps its books, sets the status
\* and closes the tools that are open at the end: it drains a hash map.
Take ==
    LET event == Head(wire)
        seen == pump.seen \/ (Terminal(event) /\ event.type \in Results)
        closes == Closes(event) \cup (IF event.type = "result" THEN {event.prompt} ELSE {})
        opens == IF event.type = "call" THEN {event.prompt} ELSE {} IN
    /\ pump.hand = <<>> /\ wire # <<>>
    /\ wire' = Tail(wire)
    /\ pump' = [hand |-> Translation(event, seen),
                seen |-> seen,
                inflight |-> event.type = "task" \/ (pump.inflight /\ event.type # "taskend"),
                open |-> (pump.open \ closes) \cup opens]
    /\ status' = StatusAfter(event)
    /\ \E closed \in Orders(Closes(event)) :
          inbox' = Posted([i \in DOMAIN closed |-> Of(closed[i], "result")])
    /\ strayed' = (strayed \/ (Terminal(event) /\ Stray(event)))
    /\ UNCHANGED <<sending, relayed, backend, kill, fate, called>>

Send ==
    /\ pump.hand # <<>>
    /\ inbox' = Posted(pump.hand)
    /\ pump' = [pump EXCEPT !.hand = <<>>]
    /\ strayed' = (strayed \/ (Head(pump.hand).type \in {"finish", "error"} /\ Stray(Head(pump.hand))))
    /\ UNCHANGED <<sending, relayed, status, backend, wire, kill, fate, called>>

-----------------------------------------------------------------------------
(* The relay of the last prompt.                                           *)

Return(end) == outcome' = [outcome EXCEPT ![sent] = end]

Read ==
    /\ inbox # <<>>
    /\ LET frame == Head(inbox) IN
       \/ /\ frame.type \in {"call", "result"}
          /\ row' = [row EXCEPT ![frame.prompt] =
                        IF frame.type = "call" THEN "work" ELSE "closed"]
          /\ inbox' = Tail(inbox)
          /\ UNCHANGED outcome
       \/ /\ frame.type \in {"finish", "error"}
          /\ Return(frame.type)
          /\ inbox' = <<>>
          /\ UNCHANGED row
    /\ UNCHANGED <<sending, status, backend, wire, pump, kill, fate, called, strayed>>

\* The error of the send is taken for the end when no frame is there.
ReturnSendError ==
    /\ sent \in refused /\ outcome[sent] = "none"
    /\ inbox = <<>>
    /\ Return("error")
    /\ UNCHANGED <<sending, row, status, backend, streams, kill, fate, called, strayed>>

-----------------------------------------------------------------------------
(* The user's cancel and the kill by its timer.                            *)

\* cancel: an interrupt is written to the program.
Cancel ==
    /\ Cancels /\ kill = "none"
    /\ sent # None /\ outcome[sent] = "none"
    /\ kill' = "asked"
    /\ program' = [program EXCEPT !.interrupted =
                      process = "up" /\ (program.doing # None \/ program.stdin # <<>>)]
    /\ UNCHANGED <<sending, relayed, status, slot, process, streams, fate, called, strayed>>

\* kill_and_wait(UserCancelTimeout): emit_finish_once, then terminate.  Of the
\* turn it is only known here that it was cancelled.
KillEmits ==
    /\ kill = "asked"
    /\ kill' = "emitted"
    /\ IF status = "finished" THEN UNCHANGED <<status, inbox>>
                              ELSE status' = "finished" /\ inbox' = Posted(<<Plain("finish")>>)
    /\ UNCHANGED <<sending, relayed, backend, wire, pump, fate, called, strayed>>

\* The reader is stopped first: nobody is told of the end of the program.
Terminate ==
    /\ kill = "emitted"
    /\ kill' = "over"
    /\ slot' = "dormant" /\ process' = "gone" /\ program' = Idle
    /\ fate' = Losing("killed")
    /\ UNCHANGED <<sending, relayed, status, streams, called, strayed>>

-----------------------------------------------------------------------------

Init ==
    /\ sent = None
    /\ sender = [k \in Prompts |-> "none"]
    /\ refused = {}
    /\ outcome = [k \in Prompts |-> "none"]
    /\ row = [k \in Prompts |-> "none"]
    /\ status = "none"
    /\ slot = "active" /\ process = "up" /\ program = Idle
    /\ wire = <<>>
    /\ pump = [hand |-> <<>>, seen |-> FALSE, inflight |-> FALSE, open |-> {}]
    /\ inbox = <<>>
    /\ kill = "none"
    /\ fate = [k \in Prompts |-> "none"]
    /\ called = {}
    /\ strayed = FALSE

Sender(k) == SetRunning(k) \/ EnsureAwake(k) \/ Deliver(k)
Pump == Take \/ Send
Relay == Read \/ ReturnSendError

Program ==
    \/ Begin \/ CallTool \/ EndTool \/ StartWorkflow \/ Launch \/ EndWorkflow
    \/ Reply \/ Answer \/ Fail \/ Interrupted
    \/ Crash \/ Exit \/ Hang

Next ==
    \/ Subscribe \/ (\E k \in Prompts : Sender(k))
    \/ Program \/ Pump \/ Relay
    \/ Cancel \/ KillEmits \/ Terminate

Spec == Init /\ [][Next]_vars

\* The tasks of the agent go on; nothing is assumed of the program.
Fairness == WF_vars(Pump) /\ WF_vars(Relay) /\ \A k \in Prompts : WF_vars(Sender(k))

FairSpec == Spec /\ Fairness

-----------------------------------------------------------------------------

Killed == kill \in {"emitted", "over"}

SessionAgentTypeOK ==
    /\ sent \in 0..MaxPrompts
    /\ sender \in [Prompts -> {"none", "ready", "wake", "deliver", "over"}]
    /\ refused \subseteq Prompts
    /\ outcome \in [Prompts -> {"none", "finish", "error"}]
    /\ row \in [Prompts -> {"none", "work", "closed"}]
    /\ status \in {"none", "running", "finished"}
    /\ slot \in {"active", "dormant"} /\ (slot = "dormant" => process = "gone")
    /\ process \in {"up", "mute", "gone"}
    /\ program.doing \in Prompts \cup {None}
    /\ process # "up" => program.doing = None
    /\ Len(pump.hand) <= 1
    /\ fate \in [Prompts -> {"none", "sent", "left", "unsent", "answered", "failed",
                             "cancelled", "lost", "killed"}]
    /\ called \subseteq Prompts
    /\ strayed \in BOOLEAN

\* Neither the user's cancel had to kill, nor has the result frame of an earlier
\* prompt come to a later one.
Undisturbed == ~Killed /\ ~strayed

\* While the program that was started first runs, a prompt ends as the program
\* has first ended it: by the stop of a last message or by a result frame of its
\* own, and by no message or frame about the launch of a workflow.
EndsAreOwn ==
    process = "up" /\ Undisturbed =>
        \A k \in Prompts :
            /\ outcome[k] = "finish" => fate[k] \in {"answered", "cancelled"}
            /\ outcome[k] = "error" => fate[k] = "failed"

\* When a prompt has ended, however it has, the row of its tool call is there and
\* does not say that the tool runs.
ToolRowsAreClosed ==
    Undisturbed => \A k \in called : outcome[k] # "none" => row[k] = "closed"

\* An agent that has a prompt to work on is not taken for idle, also by what the
\* pump does late.
BusyAgentsAreNotIdle ==
    process = "up" /\ Undisturbed /\ Delivered # {} => status = "running"

\* A prompt that could not be sent, or that the program has ended or lost, ends
\* for its relay, unless the user's cancel had to kill.
PromptsEnd ==
    \A k \in Prompts :
        fate[k] \in {"unsent", "answered", "failed", "cancelled", "lost"}
            ~> outcome[k] # "none" \/ Killed

\* "A CLI that dies mid-reply used to render as a normal (empty) completion": a
\* prompt that the program has lost by dying does not look answered.
CrashesAreReported ==
    \A k \in Prompts : outcome[k] = "finish" => fate[k] # "lost"

\* "The later `result` TurnResult is harmlessly absorbed": no prompt that the
\* program still has, and has said no end of, has ended for its relay.
LaterResultsAreAbsorbed ==
    process = "up" /\ ~Killed => \A k \in Prompts : outcome[k] # "none" => fate[k] # "sent"

\* The answer to a prompt is its end, also after a kill.
AnswersEnd == \A k \in Prompts : fate[k] = "answered" ~> outcome[k] # "none"

=============================================================================
