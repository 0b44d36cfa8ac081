--------------------------- MODULE SessionAgentProofs ---------------------------
(***************************************************************************)
(* What holds of a session agent, its pump and its relay, for any number   *)
(* of prompts, any bound on the events that wait and any set of faults,    *)
(* with proofs.                                                            *)
(*                                                                         *)
(* The argument: as long as nobody had to kill and no late result has come *)
(* to a later prompt, whatever tells the relay of the last prompt anything *)
(* (on the wire, in the pump's hand, in the relay's inbox) is of this      *)
(* prompt, its tools are ahead of its first end, and its first end says    *)
(* how the program has ended it.  A later end of an earlier prompt may be  *)
(* anywhere: it is not an own end of the last prompt (OwnEnd, OwnEnding),  *)
(* and the step that would bring it to the relay is one after which the    *)
(* properties claim nothing any more.  The inductive invariant IInv says   *)
(* so place by place; what makes it hold is that the pump, when it comes   *)
(* to an event, knows of a workflow what the program knew when it said it  *)
(* (WireInv).                                                              *)
(***************************************************************************)
EXTENDS SessionAgent, WorkQueueProofs, FiniteSetTheorems, TLAPS

ToolTypes == {"call", "result"}
EndTypes == {"finish", "error"}
OtherTypes == {"task", "taskend"} \cup Results \cup Exits

ToolFrame == [type : ToolTypes, prompt : Prompts]
Frame == ToolFrame \cup [type : EndTypes, prompt : Prompts \cup {None}]
Event == ToolFrame \cup [type : OtherTypes, prompt : Prompts \cup {None}]

\* Nothing has gone wrong with the program, and no late result has come to a prompt.
Healthy == process = "up" /\ Undisturbed

\* The ends that the program gives to a prompt.
Ended == {"answered", "failed", "cancelled"}

\* What the pump will know of a workflow when it has taken n events from the wire.
InflightAfter(n) ==
    \E j \in 0..n : /\ IF j = 0 THEN pump.inflight ELSE wire[j].type = "task"
                    /\ \A m \in (j + 1)..n : wire[m].type # "taskend"

\* What is said of the last prompt or of no prompt in particular.
Own(said) == said.prompt \in {None, sent}

\* A frame that will end the last prompt.
OwnEnd(frame) == frame.type \in EndTypes /\ Own(frame)

\* The event at the place i of the wire will end a prompt, and the last one.
Ending(i) ==
    /\ wire[i].type \in Results \cup Exits
    /\ wire[i].type = "clean" => ~InflightAfter(i - 1)

OwnEnding(i) == Ending(i) /\ Own(wire[i])

\* No end of the last prompt is on its way: place by place.
InboxClear == \A j \in 1..Len(inbox) : inbox[j].type \notin EndTypes
HandClear == \A j \in 1..Len(pump.hand) : ~OwnEnd(pump.hand[j])
WireClear == \A j \in 1..Len(wire) : ~OwnEnding(j)
NoEnd == InboxClear /\ HandClear /\ WireClear

ProgramState ==
    [stdin : Seq(Prompts), doing : Prompts \cup {None}, call : {"none", "open", "ended"},
     workflow : {"none", "running", "launched", "over"}, interrupted : BOOLEAN,
     replied : BOOLEAN]
PumpState ==
    [hand : Seq(Frame), seen : BOOLEAN, inflight : BOOLEAN, open : SUBSET Prompts]

StateTypes ==
    /\ SessionAgentTypeOK
    /\ program \in ProgramState
    /\ pump \in PumpState
    /\ wire \in Seq(Event)
    /\ inbox \in Seq(Frame)
    /\ kill \in {"none", "asked", "emitted", "over"}

\* Prompts are sent one after the other.
PromptsInv ==
    /\ slot = "active"
    /\ ~Subscribed => inbox = <<>>
    /\ \A k \in Prompts : k > sent =>
          sender[k] = "none" /\ fate[k] = "none" /\ outcome[k] = "none"
    /\ \A k \in Prompts : k < sent => outcome[k] = "finish"
    /\ \A k \in Prompts : fate[k] = "none" <=> sender[k] # "over"
    /\ \A k \in Prompts : k \in refused <=> fate[k] = "unsent"
    /\ \A k \in called : fate[k] \in Ended \cup {"sent", "lost"}
    /\ process # "up" => \A k \in Prompts : fate[k] # "sent"

\* A running program has the last prompt in its input or works on it, or it has said
\* the end of what it works on.
ProgramInv ==
    /\ refused = {}
    /\ \A k \in Prompts : fate[k] \in Ended \cup {"none", "sent"}
    /\ program.stdin # <<>> =>
          program.stdin = <<sent>> /\ sent \in Prompts /\ fate[sent] = "sent" /\ sent \notin called
    /\ program.replied => program.doing # None /\ fate[program.doing] \in Ended
    /\ program.doing # None /\ ~program.replied =>
          /\ program.doing = sent /\ fate[sent] = "sent" /\ program.stdin = <<>>
          /\ sent \in called <=> program.call # "none"
    /\ \A k \in Prompts : fate[k] = "sent" =>
          program.stdin # <<>> \/ (program.doing = k /\ ~program.replied)
    /\ \A k \in Prompts : k = sent /\ sender[k] \notin {"none", "ready"}
                          /\ fate[k] \in {"none", "sent"} => status = "running"

\* Between the program and the relay there are only tools of the prompt that the
\* relay waits for, and only before its first end.
ToolsInv ==
    /\ \A i \in 1..Len(inbox) : inbox[i].type \in ToolTypes =>
          /\ inbox[i].prompt = sent /\ Subscribed /\ sent \in called
          /\ \A j \in 1..(i - 1) : inbox[j].type \notin EndTypes
    /\ \A i \in 1..Len(pump.hand) : pump.hand[i].type \in ToolTypes =>
          /\ pump.hand[i].prompt = sent /\ Subscribed /\ sent \in called
          /\ InboxClear
    /\ \A i \in 1..Len(wire) : wire[i].type \in ToolTypes =>
          /\ wire[i].prompt = sent /\ Subscribed /\ sent \in called
          /\ InboxClear /\ HandClear
          /\ \A j \in 1..(i - 1) : ~OwnEnding(j)
    /\ \A k \in pump.open :
          /\ k = sent /\ Subscribed /\ sent \in called
          /\ InboxClear /\ HandClear

\* What the wire says of the program: of a workflow, and of prompts that it had.
WireInv ==
    /\ \A i \in 1..Len(wire) : wire[i].type \notin Exits
    /\ \A i \in 1..Len(wire) : wire[i].type \in Results =>
          wire[i].prompt \in Prompts /\ fate[wire[i].prompt] # "none"
    /\ \A i \in 1..Len(pump.hand) : pump.hand[i].type \in EndTypes =>
          pump.hand[i].prompt \in Prompts /\ fate[pump.hand[i].prompt] # "none"
    /\ InflightAfter(Len(wire)) <=> InWorkflow

FateOfEvent(event) ==
    CASE event.type = "clean" -> {"answered"}
      [] event.type = "error" -> {"failed"}
      [] event.type = "cancelled" -> {"cancelled"}
      [] event.type = "finish" -> {"answered", "cancelled"}

\* An end of the last prompt is on its way if, and only if, the program has ended it,
\* and the first one says how.
EndsInv == Subscribed =>
    /\ NoEnd <=> fate[sent] \notin Ended
    /\ \A i \in 1..Len(inbox) :
          inbox[i].type \in EndTypes /\ (\A j \in 1..(i - 1) : inbox[j].type \notin EndTypes)
             => fate[sent] \in FateOfEvent(inbox[i])
    /\ \A i \in 1..Len(pump.hand) :
          OwnEnd(pump.hand[i]) /\ InboxClear => fate[sent] \in FateOfEvent(pump.hand[i])
    /\ \A i \in 1..Len(wire) :
          OwnEnding(i) /\ InboxClear /\ HandClear /\ (\A j \in 1..(i - 1) : ~OwnEnding(j))
             => fate[sent] \in FateOfEvent(wire[i])

\* The last prompt has closed its tool, or the result is ahead of the end.
RowInv ==
    Subscribed /\ sent \in called =>
       /\ \A i \in 1..Len(inbox) : inbox[i].type = "call" =>
             /\ row[sent] # "closed"
             /\ \A j \in 1..(i - 1) : inbox[j].type # "result"
       /\ \A i \in 1..Len(pump.hand) : pump.hand[i].type = "call" =>
             /\ row[sent] # "closed"
             /\ \A j \in 1..Len(inbox) : inbox[j].type # "result"
       /\ \A i \in 1..Len(wire) : wire[i].type = "call" =>
             /\ row[sent] # "closed"
             /\ \A j \in 1..Len(inbox) : inbox[j].type # "result"
             /\ \A j \in 1..Len(pump.hand) : pump.hand[j].type # "result"
             /\ \A j \in 1..(i - 1) : wire[j].type # "result"
       /\ \/ row[sent] = "closed"
          \/ sent \in pump.open
          \/ \E i \in 1..Len(inbox) : inbox[i].type = "result"
          \/ \E i \in 1..Len(pump.hand) : pump.hand[i].type = "result"
          \/ \E i \in 1..Len(wire) : wire[i].type = "call"
       /\ \A i \in 1..Len(inbox) : inbox[i].type \in EndTypes =>
             row[sent] = "closed" \/ \E j \in 1..(i - 1) : inbox[j].type = "result"

\* The prompts that have ended have closed their tools.
RowsAreClosed == \A k \in called : outcome[k] # "none" => row[k] = "closed"

\* There is no row of a tool that was not called.
RowsAreOfCalls == \A k \in Prompts \ called : row[k] = "none"

\* What holds of tools between the program and the relay.
TracksInv == ToolsInv /\ RowInv /\ RowsAreClosed /\ RowsAreOfCalls

IInv ==
    /\ StateTypes
    /\ Undisturbed => PromptsInv /\ TracksInv
    /\ Healthy => ProgramInv /\ WireInv /\ EndsInv /\ EndsAreOwn

-----------------------------------------------------------------------------
(* Types.                                                                  *)

\* What is posted to the relay are frames.
LEMMA PostedType ==
    ASSUME StateTypes, NEW frames \in Seq(Frame)
    PROVE  Posted(frames) \in Seq(Frame)
  BY DEF Posted, StateTypes

\* What is said of a prompt or of none is a frame or an event; a program that has
\* just been started is one.
LEMMA PlainTypes ==
    /\ \A type, k : Of(k, type).type = type /\ Of(k, type).prompt = k
    /\ \A type : Plain(type) = Of(None, type)
    /\ \A type \in EndTypes, k \in Prompts \cup {None} : Of(k, type) \in Frame
    /\ \A type \in OtherTypes, k \in Prompts \cup {None} : Of(k, type) \in Event
    /\ \A type \in ToolTypes, k \in Prompts : Of(k, type) \in Frame \cap Event
    /\ Idle \in ProgramState
<1>1. /\ \A type, k : Of(k, type).type = type /\ Of(k, type).prompt = k
      /\ \A type : Plain(type) = Of(None, type)
  BY DEF Of, Plain
<1>2. \A type \in EndTypes, k \in Prompts \cup {None} : Of(k, type) \in Frame
  BY DEF Of, Frame
<1>3. \A type \in OtherTypes, k \in Prompts \cup {None} : Of(k, type) \in Event
  BY DEF Of, Event
<1>4. \A type \in ToolTypes, k \in Prompts : Of(k, type) \in Frame \cap Event
  BY DEF Of, Frame, Event, ToolFrame
<1>5. Idle \in ProgramState
  BY EmptySeq DEF None, Idle, ProgramState
<1> QED BY <1>1, <1>2, <1>3, <1>4, <1>5

\* Which frames and events are of a tool.
LEMMA ToolFrames ==
    /\ \A frame \in Frame : frame.type \in ToolTypes \/ frame.type \in EndTypes
    /\ \A frame \in Frame : frame.type \in ToolTypes <=> frame \in ToolFrame
    /\ \A event \in Event : event.type \in ToolTypes \/ event.type \in OtherTypes
    /\ \A event \in Event : event.type \in ToolTypes <=> event \in ToolFrame
    /\ \A event \in Frame \cup Event : event.prompt \in Prompts \cup {None}
    /\ \A frame \in ToolFrame : frame \in Frame \cap Event /\ frame.prompt \in Prompts
  BY DEF Frame, Event, ToolFrame, ToolTypes, EndTypes, OtherTypes, Results, Exits

\* The frames of the tools that the pump closes: the results of exactly these tools.
LEMMA ClosingFrames ==
    ASSUME NEW S \in SUBSET Prompts, NEW closed \in Orders(S)
    PROVE  LET frames == [i \in DOMAIN closed |-> Of(closed[i], "result")] IN
           /\ frames \in Seq(Frame)
           /\ \A i \in 1..Len(frames) : \E k \in S : frames[i] = Of(k, "result")
           /\ \A k \in S : \E i \in 1..Len(frames) : frames[i] = Of(k, "result")
<1> DEFINE frames == [i \in DOMAIN closed |-> Of(closed[i], "result")]
<1>1. IsFiniteSet(Prompts)
  BY SessionAgentAssumption, FS_Interval DEF Prompts
<1>2. IsFiniteSet(S)
  BY <1>1, FS_Subset
<1>3. closed \in Seq(S) /\ Elems(closed) = S
  BY <1>2, OrdersElems, FS_CardinalityType
<1>4. DOMAIN closed = 1..Len(closed) /\ Len(closed) \in Nat
  BY <1>3
<1>5. \A i \in 1..Len(closed) : closed[i] \in S /\ Of(closed[i], "result") \in Frame
  BY <1>3, PlainTypes DEF ToolTypes
<1>6. frames \in Seq(Frame) /\ Len(frames) = Len(closed)
  BY <1>4, <1>5
<1>7. \A i \in 1..Len(frames) : frames[i] = Of(closed[i], "result")
  BY <1>4, <1>6
<1> QED BY <1>3, <1>5, <1>6, <1>7 DEF Elems

\* The types of the state, in parts: the prompts and what is known of them, the
\* program, the streams.
LEMMA InitTypes == Init => StateTypes
<1> SUFFICES ASSUME Init PROVE StateTypes
  OBVIOUS
<1>1. SessionAgentTypeOK
  <2>1. program.doing \in Prompts \cup {None} /\ Len(pump.hand) <= 1
    BY DEF Init, Idle
  <2>2. sent \in 0..MaxPrompts
    BY SessionAgentAssumption DEF Init, None
  <2> QED BY <2>1, <2>2 DEF Init, SessionAgentTypeOK
<1>2. program \in ProgramState /\ pump \in PumpState /\ wire = <<>> /\ inbox = <<>>
  BY PlainTypes, EmptySeq DEF Init, PumpState
<1> QED BY <1>1, <1>2, EmptySeq DEF StateTypes, Init

\* The tasks that send prompts.
LEMMA SenderTypes ==
    ASSUME StateTypes, Subscribe \/ \E k \in Prompts : Sender(k)
    PROVE  StateTypes'
<1> USE DEF StateTypes, SessionAgentTypeOK, streams, backend, relayed
<1>1. CASE Subscribe
  <2>1. sent + 1 \in Prompts /\ sent + 1 \in 0..MaxPrompts
    BY <1>1, SessionAgentAssumption DEF Subscribe, Prompts
  <2> QED BY <1>1, <2>1, EmptySeq DEF Subscribe
<1>2. ASSUME NEW k \in Prompts, SetRunning(k) PROVE StateTypes'
  BY <1>2 DEF SetRunning
<1>3. ASSUME NEW k \in Prompts, EnsureAwake(k) PROVE StateTypes'
  <2>1. program' \in ProgramState
    BY <1>3, PlainTypes DEF EnsureAwake
  <2>2. program'.doing \in Prompts \cup {None} /\ slot' \in {"active", "dormant"}
        /\ process' \in {"up", "mute", "gone"}
        /\ (slot' = "dormant" => process' = "gone")
        /\ (process' # "up" => program'.doing = None)
    BY <1>3 DEF EnsureAwake, Idle
  <2>3. sender' \in [Prompts -> {"none", "ready", "wake", "deliver", "over"}]
        /\ refused' \subseteq Prompts
        /\ fate' \in [Prompts -> {"none", "sent", "left", "unsent", "answered", "failed",
                                  "cancelled", "lost", "killed"}]
    BY <1>3 DEF EnsureAwake, Refuse
  <2> QED BY <1>3, <2>1, <2>2, <2>3 DEF EnsureAwake
<1>4. ASSUME NEW k \in Prompts, Deliver(k) PROVE StateTypes'
  <2>1. program' \in ProgramState /\ program'.doing = program.doing
    <3>1. program \in ProgramState
      OBVIOUS
    <3>2. program' = program \/ program' = [program EXCEPT !.stdin = Append(@, k)]
      BY <1>4 DEF Deliver
    <3> HIDE DEF StateTypes, SessionAgentTypeOK
    <3>3. Append(program.stdin, k) \in Seq(Prompts)
      BY <3>1 DEF ProgramState
    <3> QED BY <3>1, <3>2, <3>3 DEF ProgramState
  <2>2. sender' \in [Prompts -> {"none", "ready", "wake", "deliver", "over"}]
        /\ refused' \subseteq Prompts
        /\ fate' \in [Prompts -> {"none", "sent", "left", "unsent", "answered", "failed",
                                  "cancelled", "lost", "killed"}]
    <3>1. fate' = [fate EXCEPT ![k] = "unsent"] \/ fate' = [fate EXCEPT ![k] = "sent"]
             \/ fate' = [fate EXCEPT ![k] = "left"]
      BY <1>4 DEF Deliver, Refuse
    <3>2. sender' = [sender EXCEPT ![k] = "over"] /\ refused' \subseteq refused \cup {k}
      BY <1>4 DEF Deliver, Refuse
    <3> QED BY <3>1, <3>2
  <2>3. UNCHANGED <<sent, outcome, row, status, slot, process, wire, pump, inbox, kill, called,
                    strayed>>
    BY <1>4 DEF Deliver
  <2> QED BY <2>1, <2>2, <2>3
<1> QED BY <1>1, <1>2, <1>3, <1>4 DEF Sender

\* The program and its reader.
LEMMA SaysTypes ==
    ASSUME StateTypes, NEW event \in Event, Says(event)
    PROVE  wire' \in Seq(Event)
  BY DEF Says, StateTypes

\* Every step of the program keeps the types.
LEMMA ProgramTypes ==
    ASSUME StateTypes, Program
    PROVE  StateTypes'
<1> USE DEF StateTypes, SessionAgentTypeOK, External, sending, relayed
<1>1. CASE Begin
  <2>1. Head(program.stdin) \in Prompts /\ Tail(program.stdin) \in Seq(Prompts)
    BY <1>1 DEF Begin, ProgramState
  <2>2. program' \in ProgramState
    BY <1>1, <2>1 DEF Begin, ProgramState
  <2> QED BY <1>1, <2>1, <2>2 DEF Begin, ProgramState
<1>2. CASE CallTool
  <2>1. program.doing \in Prompts
    BY <1>2 DEF CallTool, Works
  <2>2. program' \in ProgramState /\ program'.doing = program.doing
    BY <1>2 DEF CallTool, ProgramState
  <2>3. Of(program.doing, "call") \in Event
    BY <2>1, PlainTypes DEF ToolTypes
  <2> QED BY <1>2, <2>1, <2>2, <2>3, SaysTypes DEF CallTool
<1>3. CASE EndTool
  <2>1. program.doing \in Prompts
    BY <1>3 DEF EndTool, Works
  <2>2. program' \in ProgramState /\ program'.doing = program.doing
    BY <1>3 DEF EndTool, ProgramState
  <2>3. Of(program.doing, "result") \in Event
    BY <2>1, PlainTypes DEF ToolTypes
  <2> QED BY <1>3, <2>1, <2>2, <2>3, SaysTypes DEF EndTool
<1>4. \A type \in OtherTypes, k \in Prompts \cup {None} :
         Says(Of(k, type)) => wire' \in Seq(Event)
  BY PlainTypes, SaysTypes
<1>5. OtherTypes = {"task", "taskend", "clean", "error", "cancelled", "crash", "exit"}
  BY DEF OtherTypes, Results, Exits
<1>6. CASE StartWorkflow
  <2>1. program' \in ProgramState /\ program'.doing = program.doing
    BY <1>6 DEF StartWorkflow, ProgramState
  <2> QED BY <1>4, <1>5, <1>6, <2>1, PlainTypes DEF StartWorkflow
<1>7. CASE Launch
  <2>1. program' \in ProgramState /\ program'.doing = program.doing
    BY <1>7 DEF Launch, ProgramState
  <2> QED BY <1>4, <1>5, <1>7, <2>1 DEF Launch
<1>8. CASE EndWorkflow
  <2>1. program' \in ProgramState /\ program'.doing = program.doing
    BY <1>8 DEF EndWorkflow, ProgramState
  <2> QED BY <1>4, <1>5, <1>8, <2>1, PlainTypes DEF EndWorkflow
<1>9. ASSUME NEW result \in Results, NEW end \in Ended, Ends(result, end) PROVE StateTypes'
  <2>1. program' \in ProgramState /\ program'.doing = None
    BY <1>9 DEF Ends, ProgramState, None
  <2>2. fate' \in [Prompts -> {"none", "sent", "left", "unsent", "answered", "failed",
                               "cancelled", "lost", "killed"}]
    BY <1>9 DEF Ends, Ended
  <2>3. result \in OtherTypes
    BY DEF OtherTypes
  <2> QED BY <1>4, <1>9, <2>1, <2>2, <2>3 DEF Ends
<1>10. ASSUME NEW fault, NEW state \in {"gone", "mute"}, NEW event \in Exits,
              ReaderEnds(fault, state, event)
       PROVE  StateTypes'
  <2>1. program' \in ProgramState /\ program'.doing = None
    BY <1>10, PlainTypes DEF ReaderEnds, Idle
  <2>2. fate' \in [Prompts -> {"none", "sent", "left", "unsent", "answered", "failed",
                               "cancelled", "lost", "killed"}]
    BY <1>10 DEF ReaderEnds, Losing
  <2>3. event \in OtherTypes
    BY DEF OtherTypes
  <2>4. slot' = slot /\ process' = state /\ process = "up"
    BY <1>10 DEF ReaderEnds
  <2> QED BY <1>4, <1>10, <2>1, <2>2, <2>3, <2>4, PlainTypes DEF ReaderEnds
<1>11. CASE Reply
  <2>1. program' \in ProgramState /\ program'.doing = program.doing
    BY <1>11 DEF Reply, ProgramState
  <2>2. fate' \in [Prompts -> {"none", "sent", "left", "unsent", "answered", "failed",
                               "cancelled", "lost", "killed"}]
    BY <1>11 DEF Reply
  <2> QED BY <1>4, <1>5, <1>11, <2>1, <2>2 DEF Reply
<1> QED BY <1>1, <1>2, <1>3, <1>6, <1>7, <1>8, <1>9, <1>10, <1>11
        DEF Program, Answer, Fail, Interrupted, Crash, Exit, Hang, Results, Ended, Exits

\* What the pump makes of an event is one frame at most: the event of a tool
\* itself, an end, or nothing.
LEMMA TranslationIs ==
    ASSUME NEW event \in Event, NEW seen \in BOOLEAN
    PROVE  /\ event.type \in ToolTypes => Translation(event, seen) = <<event>>
           /\ Terminal(event) =>
                 \/ /\ Translation(event, seen) = <<Of(event.prompt, "error")>>
                    /\ event.type \notin {"clean", "cancelled"}
                 \/ /\ Translation(event, seen) = <<Of(event.prompt, "finish")>>
                    /\ event.type # "error"
           /\ event.type \notin ToolTypes /\ ~Terminal(event) => Translation(event, seen) = <<>>
           /\ Translation(event, seen) \in Seq(Frame) /\ Len(Translation(event, seen)) <= 1
<1>1. event.type \in ToolTypes => Translation(event, seen) = <<event>> /\ event \in Frame
  BY ToolFrames DEF Translation, ToolTypes, Intermediate
<1>2. Terminal(event) =>
         \/ /\ Translation(event, seen) = <<Of(event.prompt, "error")>>
            /\ event.type \notin {"clean", "cancelled"}
         \/ /\ Translation(event, seen) = <<Of(event.prompt, "finish")>>
            /\ event.type # "error"
  BY DEF Terminal, Translation, Results, Exits, EndTypes
<1>3. event.type \notin ToolTypes /\ ~Terminal(event) => Translation(event, seen) = <<>>
  <2> SUFFICES ASSUME event.type \notin ToolTypes, ~Terminal(event)
               PROVE  Translation(event, seen) = <<>>
    OBVIOUS
  <2>1. event.type \in OtherTypes
    BY ToolFrames
  <2>2. event.type \in {"task", "taskend"} \/ Intermediate(event)
    BY <2>1 DEF Terminal, OtherTypes
  <2>3. event.type \notin {"call", "result"}
    BY DEF ToolTypes
  <2>4. CASE event.type \in {"task", "taskend"}
    BY <2>3, <2>4 DEF Translation, Intermediate
  <2>5. CASE Intermediate(event)
    BY <2>3, <2>5 DEF Translation, Intermediate
  <2> QED BY <2>2, <2>4, <2>5
<1>6. <<>> \in Seq(Frame) /\ Len(<<>>) = 0
  BY EmptySeq
<1>7. Translation(event, seen) \in Seq(Frame) /\ Len(Translation(event, seen)) <= 1
  <2>1. CASE event.type \in ToolTypes
    <3>1. Translation(event, seen) = <<event>> /\ event \in Frame
      BY <1>1, <2>1
    <3>2. <<event>> \in Seq(Frame) /\ Len(<<event>>) = 1
      BY <3>1
    <3> HIDE DEF Translation
    <3> QED BY <3>1, <3>2
  <2>2. CASE Terminal(event)
    <3>1. \/ Translation(event, seen) = <<Of(event.prompt, "error")>>
          \/ Translation(event, seen) = <<Of(event.prompt, "finish")>>
      BY <1>2, <2>2
    <3>2. Of(event.prompt, "error") \in Frame /\ Of(event.prompt, "finish") \in Frame
      BY PlainTypes, ToolFrames DEF EndTypes
    <3>3. CASE Translation(event, seen) = <<Of(event.prompt, "error")>>
      BY <3>2, <3>3
    <3>4. CASE Translation(event, seen) = <<Of(event.prompt, "finish")>>
      BY <3>2, <3>4
    <3> QED BY <3>1, <3>3, <3>4
  <2>3. CASE event.type \notin ToolTypes /\ ~Terminal(event)
    BY <2>3, <1>3, <1>6
  <2> QED BY <2>1, <2>2, <2>3
<1> QED BY <1>1, <1>2, <1>3, <1>7

\* The pump.
LEMMA TakeTypes ==
    ASSUME StateTypes, Take
    PROVE  StateTypes'
<1> DEFINE event == Head(wire)
<1>1. event \in Event /\ wire' \in Seq(Event)
  BY DEF Take, StateTypes
<1>2. event.type = "call" => event.prompt \in Prompts
  BY <1>1, ToolFrames DEF ToolTypes
<1> HIDE DEF event
<1>5. pump.open \subseteq Prompts /\ pump.inflight \in BOOLEAN /\ pump.seen \in BOOLEAN
  BY DEF StateTypes, PumpState
<1> DEFINE seen == pump.seen \/ (Terminal(event) /\ event.type \in Results)
           closes == Closes(event) \cup (IF event.type = "result" THEN {event.prompt} ELSE {})
           opens == IF event.type = "call" THEN {event.prompt} ELSE {}
           open == (pump.open \ closes) \cup opens
           inflight == event.type = "task" \/ (pump.inflight /\ event.type # "taskend")
<1>6. seen \in BOOLEAN /\ inflight \in BOOLEAN /\ open \subseteq Prompts
  BY <1>2, <1>5
<1>7. pump' = [hand |-> Translation(event, seen), seen |-> seen, inflight |-> inflight,
               open |-> open]
  BY DEF Take, event
<1> HIDE DEF seen, closes, opens, open, inflight
<1>8. pump' \in PumpState /\ Len(pump'.hand) <= 1
  BY <1>1, <1>6, <1>7, TranslationIs DEF PumpState
<1>10. inbox' \in Seq(Frame)
  <2>1. PICK closed \in Orders(Closes(event)) :
           inbox' = Posted([i \in DOMAIN closed |-> Of(closed[i], "result")])
    BY DEF Take, event
  <2>2. Closes(event) \in SUBSET Prompts
    BY <1>5 DEF Closes
  <2> QED BY <2>1, <2>2, ClosingFrames, PostedType
<1>11. status' \in {"none", "running", "finished"}
  BY DEF Take, StatusAfter, StateTypes, SessionAgentTypeOK
<1>13. strayed' \in BOOLEAN
  BY DEF Take, StateTypes, SessionAgentTypeOK
<1>12. UNCHANGED <<sent, sender, refused, outcome, row, slot, process, program, kill, fate, called>>
  BY DEF Take, sending, relayed, backend
<1> QED BY <1>1, <1>8, <1>10, <1>11, <1>12, <1>13 DEF StateTypes, SessionAgentTypeOK

\* The pump sends, the relay reads.
LEMMA RelayTypes ==
    ASSUME StateTypes, Send \/ Relay
    PROVE  StateTypes'
<1>1. CASE Send
  <2>1. inbox' = Posted(pump.hand) /\ pump' = [pump EXCEPT !.hand = <<>>]
    BY <1>1 DEF Send
  <2>2. inbox' \in Seq(Frame)
    BY <2>1, PostedType DEF StateTypes, PumpState
  <2>3. pump' \in PumpState /\ pump'.hand = <<>>
    BY <2>1, EmptySeq DEF StateTypes, PumpState
  <2>4. UNCHANGED <<sent, sender, refused, outcome, row, status, slot, process, program, wire,
                    kill, fate, called>>
    BY <1>1 DEF Send, sending, relayed, backend
  <2>5. strayed' \in BOOLEAN
    BY <1>1 DEF Send, StateTypes, SessionAgentTypeOK
  <2> QED BY <2>2, <2>3, <2>4, <2>5, EmptySeq DEF StateTypes, SessionAgentTypeOK
<1>2. CASE Read
  <2>1. Head(inbox) \in Frame /\ Tail(inbox) \in Seq(Frame)
    BY <1>2 DEF Read, StateTypes
  <2>2. Head(inbox).type \in ToolTypes => Head(inbox).prompt \in Prompts
    BY <2>1, ToolFrames
  <2>3. inbox' \in Seq(Frame)
    BY <1>2, <2>1, EmptySeq DEF Read
  <2>4. row' \in [Prompts -> {"none", "work", "closed"}]
        /\ outcome' \in [Prompts -> {"none", "finish", "error"}]
    BY <1>2, <2>2 DEF Read, Return, ToolTypes, StateTypes, SessionAgentTypeOK
  <2>5. UNCHANGED <<sent, sender, refused, status, slot, process, program, wire, pump, kill, fate,
                    called, strayed>>
    BY <1>2 DEF Read, sending, backend
  <2> QED BY <2>3, <2>4, <2>5 DEF StateTypes, SessionAgentTypeOK
<1>3. CASE ReturnSendError
  BY <1>3 DEF ReturnSendError, Return, sending, backend, streams, StateTypes, SessionAgentTypeOK
<1> QED BY <1>1, <1>2, <1>3 DEF Relay

\* The user's cancel and the kill.
LEMMA KillTypes ==
    ASSUME StateTypes, Cancel \/ KillEmits \/ Terminate
    PROVE  StateTypes'
<1> USE DEF StateTypes, SessionAgentTypeOK, sending, relayed, backend, streams
<1>1. CASE Cancel
  <2>1. program' \in ProgramState /\ program'.doing = program.doing
    BY <1>1 DEF Cancel, ProgramState
  <2> QED BY <1>1, <2>1 DEF Cancel
<1>2. CASE KillEmits
  <2>1. <<Plain("finish")>> \in Seq(Frame)
    BY PlainTypes DEF EndTypes, None
  <2>2. Posted(<<Plain("finish")>>) \in Seq(Frame)
    BY <2>1, PostedType
  <2> QED BY <1>2, <2>2 DEF KillEmits
<1>3. CASE Terminate
  BY <1>3, PlainTypes DEF Terminate, Losing, Idle, None
<1> QED BY <1>1, <1>2, <1>3

\* Every step keeps the types.
LEMMA NextTypes ==
    ASSUME StateTypes, [Next]_vars
    PROVE  StateTypes'
<1>1. CASE UNCHANGED vars
  BY <1>1 DEF vars, sending, relayed, backend, streams, StateTypes, SessionAgentTypeOK
<1>2. CASE Next
  BY <1>2, SenderTypes, ProgramTypes, TakeTypes, RelayTypes, KillTypes DEF Next, Pump
<1> QED BY <1>1, <1>2

-----------------------------------------------------------------------------
(* What the pump will know.                                                *)

\* What the pump will know after n events, one event at a time.
LEMMA InflightRec ==
    ASSUME StateTypes
    PROVE  /\ InflightAfter(0) <=> pump.inflight
           /\ \A n \in 1..Len(wire) :
                 InflightAfter(n) <=> \/ wire[n].type = "task"
                                      \/ InflightAfter(n - 1) /\ wire[n].type # "taskend"
<1>1. InflightAfter(0) <=> pump.inflight
  BY DEF InflightAfter
<1>2. ASSUME NEW n \in 1..Len(wire)
      PROVE  InflightAfter(n) <=> \/ wire[n].type = "task"
                                  \/ InflightAfter(n - 1) /\ wire[n].type # "taskend"
  <2> DEFINE Since(j, m) == /\ IF j = 0 THEN pump.inflight ELSE wire[j].type = "task"
                            /\ \A i \in (j + 1)..m : wire[i].type # "taskend"
  <2>1. Len(wire) \in Nat /\ n \in Nat /\ n >= 1 /\ 0..n = (0..(n - 1)) \cup {n}
    BY DEF StateTypes
  <2>2. Since(n, n) <=> wire[n].type = "task"
    BY <2>1
  <2>3. \A j \in 0..(n - 1) : Since(j, n) <=> Since(j, n - 1) /\ wire[n].type # "taskend"
    <3> SUFFICES ASSUME NEW j \in 0..(n - 1)
                 PROVE  (\A i \in (j + 1)..n : wire[i].type # "taskend")
                        <=> (\A i \in (j + 1)..(n - 1) : wire[i].type # "taskend")
                            /\ wire[n].type # "taskend"
      OBVIOUS
    <3>1. (j + 1)..n = ((j + 1)..(n - 1)) \cup {n}
      BY <2>1
    <3> QED BY <3>1
  <2>4. InflightAfter(n) <=> \E j \in 0..n : Since(j, n)
    BY DEF InflightAfter
  <2>5. InflightAfter(n - 1) <=> \E j \in 0..(n - 1) : Since(j, n - 1)
    BY DEF InflightAfter
  <2> HIDE DEF Since
  <2> QED BY <2>1, <2>2, <2>3, <2>4, <2>5
<1> QED BY <1>1, <1>2

\* As long as the pump takes nothing and nothing is said, it knows the same.
LEMMA SameBooks ==
    ASSUME UNCHANGED wire, pump'.inflight = pump.inflight
    PROVE  /\ \A n \in Nat : InflightAfter(n)' <=> InflightAfter(n)
           /\ \A i \in 1..Len(wire) : Ending(i)' <=> Ending(i)
           /\ UNCHANGED sent => \A i \in 1..Len(wire) : OwnEnding(i)' <=> OwnEnding(i)
<1>1. \A n : InflightAfter(n)' <=> InflightAfter(n)
  BY DEF InflightAfter
<1>2. \A i : Ending(i)' <=> Ending(i)
  BY <1>1 DEF Ending
<1> QED BY <1>1, <1>2 DEF OwnEnding, Own

\* What is said changes nothing of what comes before it.
LEMMA SaidBooks ==
    ASSUME StateTypes, NEW event, Says(event), UNCHANGED pump
    PROVE  /\ \A n \in 0..Len(wire) : InflightAfter(n)' <=> InflightAfter(n)
           /\ \A i \in 1..Len(wire) : wire'[i] = wire[i] /\ (Ending(i)' <=> Ending(i))
           /\ Len(wire') = Len(wire) + 1 /\ wire'[Len(wire) + 1] = event
           /\ \A n \in Nat : n = Len(wire) + 1 =>
                 /\ InflightAfter(n)' <=> \/ event.type = "task"
                                          \/ InflightAfter(Len(wire)) /\ event.type # "taskend"
                 /\ Ending(n)' <=> /\ event.type \in Results \cup Exits
                                   /\ event.type = "clean" => ~InflightAfter(Len(wire))
                 /\ UNCHANGED sent => (OwnEnding(n)' <=> Ending(n)' /\ Own(event))
           /\ UNCHANGED sent => \A i \in 1..Len(wire) : OwnEnding(i)' <=> OwnEnding(i)
<1>1. Len(wire) \in Nat /\ Len(wire') = Len(wire) + 1 /\ wire'[Len(wire) + 1] = event
      /\ \A i \in 1..Len(wire) : wire'[i] = wire[i]
  BY DEF Says, StateTypes
<1>2. ASSUME NEW n \in 0..Len(wire) PROVE InflightAfter(n)' <=> InflightAfter(n)
  <2>1. \A j \in 0..n : j # 0 => wire'[j] = wire[j]
    BY <1>1
  <2>2. \A j \in 0..n : \A m \in (j + 1)..n : wire'[m] = wire[m]
    BY <1>1
  <2> QED BY <2>1, <2>2 DEF InflightAfter
<1>3. \A i \in 1..Len(wire) : Ending(i)' <=> Ending(i)
  <2> SUFFICES ASSUME NEW i \in 1..Len(wire) PROVE Ending(i)' <=> Ending(i)
    OBVIOUS
  <2>1. i - 1 \in 0..Len(wire)
    BY <1>1
  <2> QED BY <1>1, <1>2, <2>1 DEF Ending
<1>4. ASSUME NEW n \in Nat, n = Len(wire) + 1
      PROVE  /\ InflightAfter(n)' <=> \/ event.type = "task"
                                      \/ InflightAfter(Len(wire)) /\ event.type # "taskend"
             /\ Ending(n)' <=> /\ event.type \in Results \cup Exits
                               /\ event.type = "clean" => ~InflightAfter(Len(wire))
  <2>1. n - 1 = Len(wire) /\ wire'[n] = event /\ Len(wire) \in 0..Len(wire)
    BY <1>1, <1>4
  <2>2. InflightAfter(n - 1)' <=> InflightAfter(Len(wire))
    BY <1>2, <2>1
  <2>3. Ending(n)' <=> /\ event.type \in Results \cup Exits
                       /\ event.type = "clean" => ~InflightAfter(Len(wire))
    BY <2>1, <2>2 DEF Ending
  <2> DEFINE Since(j, m) == /\ IF j = 0 THEN pump.inflight ELSE wire'[j].type = "task"
                            /\ \A i \in (j + 1)..m : wire'[i].type # "taskend"
  <2>4. InflightAfter(n)' <=> \E j \in 0..n : Since(j, n)
    BY DEF InflightAfter
  <2>5. InflightAfter(n - 1)' <=> \E j \in 0..(n - 1) : Since(j, n - 1)
    BY DEF InflightAfter
  <2>6. 0..n = (0..(n - 1)) \cup {n} /\ n >= 1
    BY <1>1, <1>4
  <2>7. Since(n, n) <=> event.type = "task"
    BY <2>1, <2>6
  <2>8. \A j \in 0..(n - 1) : Since(j, n) <=> Since(j, n - 1) /\ event.type # "taskend"
    <3> SUFFICES ASSUME NEW j \in 0..(n - 1)
                 PROVE  (\A i \in (j + 1)..n : wire'[i].type # "taskend")
                        <=> (\A i \in (j + 1)..(n - 1) : wire'[i].type # "taskend")
                            /\ event.type # "taskend"
      OBVIOUS
    <3>1. (j + 1)..n = ((j + 1)..(n - 1)) \cup {n}
      BY <2>6
    <3> QED BY <2>1, <3>1
  <2> HIDE DEF Since
  <2>9. InflightAfter(n)' <=> \/ event.type = "task"
                              \/ InflightAfter(Len(wire)) /\ event.type # "taskend"
    BY <2>2, <2>4, <2>5, <2>6, <2>7, <2>8
  <2> QED BY <2>3, <2>9
<1>5. UNCHANGED sent => \A i \in 1..Len(wire) : OwnEnding(i)' <=> OwnEnding(i)
  BY <1>1, <1>3 DEF OwnEnding, Own
<1>6. \A n \in Nat : n = Len(wire) + 1 /\ UNCHANGED sent =>
         (OwnEnding(n)' <=> Ending(n)' /\ Own(event))
  BY <1>1 DEF OwnEnding, Own
<1> QED BY <1>1, <1>2, <1>3, <1>4, <1>5, <1>6

\* Taking an event moves the others forward, and what is known there with them.
LEMMA TakenBooks ==
    ASSUME StateTypes, Take
    PROVE  /\ Len(wire) \in Nat /\ Len(wire) >= 1 /\ Len(wire') = Len(wire) - 1
           /\ \A i \in 1..Len(wire') : wire'[i] = wire[i + 1]
           /\ \A n \in 0..Len(wire') : InflightAfter(n)' <=> InflightAfter(n + 1)
           /\ \A i \in 1..Len(wire') : Ending(i)' <=> Ending(i + 1)
           /\ Ending(1) <=> Terminal(Head(wire))
           /\ \A i \in 1..Len(wire') : OwnEnding(i)' <=> OwnEnding(i + 1)
           /\ OwnEnding(1) <=> Terminal(Head(wire)) /\ Own(Head(wire))
<1>1. /\ Len(wire) \in Nat /\ Len(wire) >= 1 /\ Len(wire') = Len(wire) - 1
      /\ \A i \in 1..Len(wire') : wire'[i] = wire[i + 1]
      /\ Head(wire) = wire[1]
  BY DEF Take, StateTypes
<1>2. pump'.inflight <=> wire[1].type = "task" \/ (pump.inflight /\ wire[1].type # "taskend")
  BY <1>1 DEF Take
<1>3. InflightAfter(0) <=> pump.inflight
  BY InflightRec
<1>4. InflightAfter(1) <=> pump'.inflight
  BY <1>1, <1>2, <1>3, InflightRec
<1>5. ASSUME NEW n \in 0..Len(wire') PROVE InflightAfter(n)' <=> InflightAfter(n + 1)
  <2> DEFINE Since(j, m) == /\ IF j = 0 THEN pump.inflight ELSE wire[j].type = "task"
                            /\ \A i \in (j + 1)..m : wire[i].type # "taskend"
             SinceThen(j, m) == /\ IF j = 0 THEN pump'.inflight ELSE wire'[j].type = "task"
                                /\ \A i \in (j + 1)..m : wire'[i].type # "taskend"
             Quiet(j, m) == \A i \in j..m : wire[i].type # "taskend"
  <2>1. InflightAfter(n + 1) <=> \E j \in 0..(n + 1) : Since(j, n + 1)
    BY DEF InflightAfter
  <2>2. InflightAfter(n)' <=> \E j \in 0..n : SinceThen(j, n)
    BY DEF InflightAfter
  <2>3. \A j \in 0..n :
           (\A i \in (j + 1)..n : wire'[i].type # "taskend") <=> Quiet(j + 2, n + 1)
    <3> SUFFICES ASSUME NEW j \in 0..n
                 PROVE  (\A i \in (j + 1)..n : wire'[i].type # "taskend")
                        <=> (\A i \in (j + 2)..(n + 1) : wire[i].type # "taskend")
      OBVIOUS
    <3>1. \A i \in (j + 1)..n : wire'[i] = wire[i + 1] /\ i + 1 \in (j + 2)..(n + 1)
      BY <1>1
    <3>2. \A i \in (j + 2)..(n + 1) : i - 1 \in (j + 1)..n /\ wire'[i - 1] = wire[i]
      BY <1>1
    <3> QED BY <3>1, <3>2
  <2>4. \A j \in 1..n : SinceThen(j, n) <=> Since(j + 1, n + 1)
    <3> SUFFICES ASSUME NEW j \in 1..n PROVE SinceThen(j, n) <=> Since(j + 1, n + 1)
      OBVIOUS
    <3>1. wire'[j] = wire[j + 1] /\ j # 0 /\ j + 1 # 0 /\ j + 1 + 1 = j + 2 /\ j \in 0..n
      BY <1>1
    <3> QED BY <2>3, <3>1
  <2>5. SinceThen(0, n) <=> pump'.inflight /\ Quiet(2, n + 1)
    BY <2>3
  <2>6. (pump'.inflight /\ Quiet(2, n + 1)) <=> Since(0, n + 1) \/ Since(1, n + 1)
    <3>1. Since(1, n + 1) <=> wire[1].type = "task" /\ Quiet(2, n + 1)
      OBVIOUS
    <3>2. 1..(n + 1) = {1} \cup (2..(n + 1))
      BY <1>1
    <3>3. Since(0, n + 1) <=> pump.inflight /\ wire[1].type # "taskend" /\ Quiet(2, n + 1)
      <4>1. Quiet(1, n + 1) <=> wire[1].type # "taskend" /\ Quiet(2, n + 1)
        BY <3>2
      <4> QED BY <4>1
    <3> HIDE DEF Since, Quiet
    <3> QED BY <1>2, <3>1, <3>3
  <2> HIDE DEF Since, SinceThen, Quiet
  <2>7. (\E j \in 0..n : SinceThen(j, n)) <=> (\E j \in 0..(n + 1) : Since(j, n + 1))
    <3>1. n \in Nat /\ 0..n = {0} \cup (1..n)
      BY <1>1
    <3>2. ASSUME NEW j \in 0..n, SinceThen(j, n) PROVE \E i \in 0..(n + 1) : Since(i, n + 1)
      <4>1. CASE j = 0
        BY <2>5, <2>6, <3>1, <3>2, <4>1
      <4>2. CASE j \in 1..n
        BY <2>4, <3>1, <3>2, <4>2
      <4> QED BY <3>1, <4>1, <4>2
    <3>3. ASSUME NEW j \in 0..(n + 1), Since(j, n + 1) PROVE \E i \in 0..n : SinceThen(i, n)
      <4>1. CASE j \in {0, 1}
        BY <2>5, <2>6, <3>1, <3>3, <4>1
      <4>2. CASE j \notin {0, 1}
        <5>1. j - 1 \in 1..n /\ (j - 1) + 1 = j
          BY <3>1, <4>2
        <5>2. SinceThen(j - 1, n)
          BY <2>4, <3>3, <5>1
        <5> QED BY <3>1, <5>1, <5>2
      <4> QED BY <4>1, <4>2
    <3> QED BY <3>2, <3>3
  <2> QED BY <2>1, <2>2, <2>7
<1>6. \A i \in 1..Len(wire') : Ending(i)' <=> Ending(i + 1)
  <2> SUFFICES ASSUME NEW i \in 1..Len(wire') PROVE Ending(i)' <=> Ending(i + 1)
    OBVIOUS
  <2>1. i - 1 \in 0..Len(wire') /\ (i - 1) + 1 = (i + 1) - 1
    BY <1>1
  <2>2. InflightAfter(i - 1)' <=> InflightAfter((i + 1) - 1)
    BY <1>5, <2>1
  <2> QED BY <1>1, <2>2 DEF Ending
<1>7. Ending(1) <=> Terminal(Head(wire))
  BY <1>1, <1>3 DEF Ending, Terminal, Intermediate, Results
<1>8. UNCHANGED sent
  BY DEF Take, sending
<1>9. \A i \in 1..Len(wire') : OwnEnding(i)' <=> OwnEnding(i + 1)
  BY <1>1, <1>6, <1>8 DEF OwnEnding, Own
<1>10. OwnEnding(1) <=> Terminal(Head(wire)) /\ Own(Head(wire))
  BY <1>1, <1>7 DEF OwnEnding
<1> QED BY <1>1, <1>5, <1>6, <1>7, <1>9, <1>10
-----------------------------------------------------------------------------
(* Tools and their rows.                                                   *)

\* Nothing that TracksInv speaks of changes.
LEMMA QuietTracks ==
    ASSUME StateTypes, TracksInv, UNCHANGED <<sent, outcome, row, wire, pump, inbox, called>>
    PROVE  TracksInv'
<1>1. \A i \in 1..Len(wire) : OwnEnding(i)' <=> OwnEnding(i)
  BY SameBooks
<1>2. Subscribed' <=> Subscribed
  BY DEF Subscribed
<1>5. (InboxClear' <=> InboxClear) /\ (HandClear' <=> HandClear)
  BY DEF InboxClear, HandClear, OwnEnd, Own
<1>3. ToolsInv'
  <2> USE <1>1, <1>2, <1>5 DEF TracksInv, ToolsInv
  <2>1. \A i \in 1..Len(wire) : \A j \in 1..(i - 1) : j \in 1..Len(wire)
    BY DEF StateTypes
  <2> QED BY <2>1
<1>4. RowInv' /\ RowsAreClosed' /\ RowsAreOfCalls'
  BY <1>2 DEF TracksInv, RowInv, RowsAreClosed, RowsAreOfCalls
<1> QED BY <1>3, <1>4 DEF TracksInv

\* The program says something that is not of a tool.
LEMMA SaidTracks ==
    ASSUME StateTypes, TracksInv, NEW event, event.type \notin ToolTypes, Says(event),
           UNCHANGED <<sent, outcome, row, pump, inbox, called>>
    PROVE  TracksInv'
<1>1. /\ \A i \in 1..Len(wire) : wire'[i] = wire[i] /\ (OwnEnding(i)' <=> OwnEnding(i))
      /\ Len(wire') = Len(wire) + 1 /\ wire'[Len(wire) + 1] = event /\ Len(wire) \in Nat
  BY SaidBooks DEF StateTypes
<1>2. Subscribed' <=> Subscribed
  BY DEF Subscribed
<1>3. \A i \in 1..Len(wire') : wire'[i].type \in ToolTypes =>
         /\ i \in 1..Len(wire) /\ wire'[i] = wire[i]
         /\ \A j \in 1..(i - 1) : j \in 1..Len(wire) /\ wire'[j] = wire[j]
                                  /\ (OwnEnding(j)' <=> OwnEnding(j))
  BY <1>1
<1>7. (InboxClear' <=> InboxClear) /\ (HandClear' <=> HandClear)
  BY DEF InboxClear, HandClear, OwnEnd, Own
<1>4. ToolsInv'
  BY <1>2, <1>3, <1>7 DEF TracksInv, ToolsInv
<1>5. RowInv'
  <2> SUFFICES ASSUME Subscribed, sent \in called PROVE RowInv'
    BY <1>2 DEF RowInv
  <2>1. \A i \in 1..Len(wire') : wire'[i].type = "call" =>
           /\ row[sent] # "closed"
           /\ \A j \in 1..Len(inbox) : inbox[j].type # "result"
           /\ \A j \in 1..Len(pump.hand) : pump.hand[j].type # "result"
           /\ \A j \in 1..(i - 1) : wire'[j].type # "result"
    BY <1>3 DEF TracksInv, RowInv, ToolTypes
  <2>2. \A i \in 1..Len(wire) : i \in 1..Len(wire') /\ wire'[i] = wire[i]
    BY <1>1
  <2> QED BY <2>1, <2>2 DEF TracksInv, RowInv
<1>6. RowsAreClosed' /\ RowsAreOfCalls'
  BY DEF TracksInv, RowsAreClosed, RowsAreOfCalls
<1> QED BY <1>4, <1>5, <1>6 DEF TracksInv

\* The program calls or ends a tool of the prompt that it works on.
LEMMA ToolSaidTracks ==
    ASSUME StateTypes, TracksInv, NEW type \in ToolTypes, Says(Of(sent, type)),
           Subscribed, sent \in Prompts, NoEnd,
           UNCHANGED <<sent, outcome, row, pump, inbox>>,
           called' = called \cup {sent},
           type = "call" => sent \notin called,
           type = "result" => sent \in called
    PROVE  TracksInv'
<1> DEFINE event == Of(sent, type)
<1>1. /\ \A i \in 1..Len(wire) : wire'[i] = wire[i] /\ (OwnEnding(i)' <=> OwnEnding(i))
      /\ Len(wire') = Len(wire) + 1 /\ wire'[Len(wire) + 1] = event /\ Len(wire) \in Nat
  BY SaidBooks DEF StateTypes
<1>2. Subscribed' /\ sent' \in called'
  BY DEF Subscribed
<1>3. event.type = type /\ event.prompt = sent
  BY DEF Of
<1> HIDE DEF event
<1>4. \A i \in 1..Len(wire') : i \in 1..Len(wire) \/ i = Len(wire) + 1
  BY <1>1
<1>5. \A i \in 1..Len(wire') : \A j \in 1..(i - 1) :
         j \in 1..Len(wire) /\ wire'[j] = wire[j] /\ (OwnEnding(j)' <=> OwnEnding(j))
  BY <1>1
<1>6. ToolsInv'
  <2>1. \A i \in 1..Len(wire') : wire'[i].type \in ToolTypes => wire'[i].prompt = sent
    BY <1>1, <1>3, <1>4 DEF TracksInv, ToolsInv
  <2>2. \A i \in 1..Len(wire') : \A j \in 1..(i - 1) : ~OwnEnding(j)'
    BY <1>5 DEF NoEnd, WireClear
  <2>3. InboxClear /\ InboxClear' /\ HandClear'
    BY DEF NoEnd, InboxClear, HandClear, OwnEnd, Own
  <2>4. /\ \A i \in 1..Len(inbox) : inbox[i].type \in ToolTypes => inbox[i].prompt = sent
        /\ \A i \in 1..Len(pump.hand) :
              pump.hand[i].type \in ToolTypes => pump.hand[i].prompt = sent
        /\ \A k \in pump.open : k = sent
    BY DEF TracksInv, ToolsInv
  <2>5. \A i \in 1..Len(inbox) : \A j \in 1..(i - 1) : inbox[j].type \notin EndTypes
    BY <2>3 DEF StateTypes, InboxClear
  <2> QED BY <1>2, <2>1, <2>2, <2>3, <2>4, <2>5 DEF ToolsInv
<1>7. CASE type = "call"
  <2>1. sent \notin called
    BY <1>7
  <2>2. /\ \A i \in 1..Len(inbox) : inbox[i].type \notin ToolTypes
        /\ \A i \in 1..Len(pump.hand) : pump.hand[i].type \notin ToolTypes
        /\ \A i \in 1..Len(wire) : wire[i].type \notin ToolTypes
    BY <2>1 DEF TracksInv, ToolsInv
  <2>3. \A i \in 1..Len(wire') : \A j \in 1..(i - 1) : wire'[j].type # "result"
    BY <1>5, <2>2 DEF ToolTypes
  <2>4. row[sent] = "none"
    BY <2>1 DEF TracksInv, RowsAreOfCalls
  <2>5. Len(wire) + 1 \in 1..Len(wire') /\ wire'[Len(wire) + 1].type = "call"
    BY <1>1, <1>3, <1>7
  <2>6. RowInv'
    BY <2>2, <2>3, <2>4, <2>5 DEF RowInv, ToolTypes, NoEnd, InboxClear, EndTypes
  <2>7. (RowsAreClosed /\ RowsAreOfCalls)'
    BY <2>1 DEF TracksInv, RowsAreClosed, RowsAreOfCalls, Subscribed
  <2> QED BY <1>6, <2>6, <2>7 DEF TracksInv
<1>8. CASE type = "result"
  <2>1. sent \in called /\ called' = called
    BY <1>8
  <2>2. \A i \in 1..Len(wire') : wire'[i].type = "call" => i \in 1..Len(wire) /\ wire'[i] = wire[i]
    BY <1>1, <1>3, <1>4, <1>8
  <2>3. \A i \in 1..Len(wire) : i \in 1..Len(wire') /\ wire'[i] = wire[i]
    BY <1>1
  <2>4. \A i \in 1..Len(wire') : wire'[i].type = "call" =>
           /\ row[sent] # "closed"
           /\ \A j \in 1..Len(inbox) : inbox[j].type # "result"
           /\ \A j \in 1..Len(pump.hand) : pump.hand[j].type # "result"
           /\ \A j \in 1..(i - 1) : wire'[j].type # "result"
    BY <1>5, <2>1, <2>2 DEF TracksInv, RowInv
  <2>5. RowInv'
    BY <2>1, <2>3, <2>4 DEF TracksInv, RowInv, Subscribed
  <2>6. (RowsAreClosed /\ RowsAreOfCalls)'
    BY <2>1 DEF TracksInv, RowsAreClosed, RowsAreOfCalls
  <2> QED BY <1>6, <2>5, <2>6 DEF TracksInv
<1> QED BY <1>7, <1>8 DEF ToolTypes

\* The relay of the next prompt finds nothing of an earlier tool.
LEMMA SubscribeTracks ==
    ASSUME StateTypes, PromptsInv, TracksInv, Subscribe
    PROVE  TracksInv'
<1>1. sent + 1 \in Prompts /\ sent' = sent + 1 /\ sent < sent + 1 /\ ~Subscribed
  BY SessionAgentAssumption DEF Subscribe, Prompts, StateTypes, SessionAgentTypeOK, Subscribed
<1>2. sent' \notin called
  BY <1>1 DEF PromptsInv, Ended
<1>3. /\ \A i \in 1..Len(pump.hand) : pump.hand[i].type \notin ToolTypes
      /\ \A i \in 1..Len(wire) : wire[i].type \notin ToolTypes
      /\ pump.open = {}
  BY <1>1 DEF TracksInv, ToolsInv
<1>4. Len(inbox') = 0 /\ UNCHANGED <<outcome, row, wire, pump, called>>
  BY DEF Subscribe, relayed
<1>5. ToolsInv'
  BY <1>3, <1>4 DEF ToolsInv
<1>6. RowInv' /\ RowsAreClosed' /\ RowsAreOfCalls'
  BY <1>2, <1>4 DEF TracksInv, RowInv, RowsAreClosed, RowsAreOfCalls
<1> QED BY <1>5, <1>6 DEF TracksInv

\* What the pump has in hand goes to the end of the inbox.
LEMMA SendTracks ==
    ASSUME StateTypes, TracksInv, Send, ~strayed'
    PROVE  TracksInv'
<1>1. /\ UNCHANGED <<sent, outcome, row, wire, called>>
      /\ pump'.hand = <<>> /\ pump'.open = pump.open /\ pump'.inflight = pump.inflight
      /\ Len(pump.hand) = 1 /\ pump.hand = <<pump.hand[1]>>
      /\ Len(inbox) \in Nat /\ inbox \in Seq(Frame) /\ pump.hand[1] \in Frame
  <2>1. pump.hand \in Seq(Frame) /\ pump.hand # <<>> /\ Len(pump.hand) <= 1
        /\ pump' = [pump EXCEPT !.hand = <<>>] /\ pump \in PumpState
    BY DEF Send, StateTypes, SessionAgentTypeOK, PumpState
  <2>2. Len(pump.hand) = 1
    <3> DEFINE n == Len(pump.hand)
    <3>1. n \in Nat \ {0} /\ n <= 1
      BY <2>1, EmptySeq
    <3> HIDE DEF n
    <3>2. n = 1
      BY <3>1
    <3> QED BY <3>2 DEF n
  <2>4. pump.hand[1] \in Frame
    BY <2>1, <2>2
  <2>5. pump.hand = <<pump.hand[1]>>
    BY <2>1, <2>2, <2>4
  <2>3. pump'.hand = <<>> /\ pump'.open = pump.open /\ pump'.inflight = pump.inflight
    BY <2>1 DEF PumpState
  <2> QED BY <2>2, <2>3, <2>4, <2>5 DEF Send, sending, relayed, StateTypes
<1>2. \A i \in 1..Len(wire) : OwnEnding(i)' <=> OwnEnding(i)
  BY <1>1, SameBooks
<1>3. \A i \in 1..Len(wire) : \A j \in 1..(i - 1) : j \in 1..Len(wire)
  BY DEF StateTypes
<1>4. Subscribed' <=> Subscribed
  BY <1>1 DEF Subscribed
<1>5. Len(pump'.hand) = 0 /\ HandClear'
  BY <1>1 DEF HandClear
<1>6. (RowsAreClosed /\ RowsAreOfCalls)'
  BY <1>1 DEF TracksInv, RowsAreClosed, RowsAreOfCalls
<1>7. CASE Subscribed
  <2> DEFINE frame == pump.hand[1]
             n == Len(inbox) + 1
  <2>1. inbox' = Append(inbox, frame)
    <3>1. inbox' = inbox \o <<frame>>
      BY <1>1, <1>7 DEF Send, Posted, Subscribed
    <3> QED BY <1>1, <3>1, AppendIsConcat
  <2>2. /\ Len(inbox') = n /\ inbox'[n] = frame /\ \A i \in 1..Len(inbox) : inbox'[i] = inbox[i]
        /\ \A i \in 1..n : i \in 1..Len(inbox) \/ i = n
        /\ \A i \in 1..n : \A j \in 1..(i - 1) : j \in 1..Len(inbox) /\ inbox'[j] = inbox[j]
        /\ \A i \in 1..Len(inbox) : i \in 1..n
        /\ n \in 1..n
    BY <1>1, <2>1
  <2>3. 1 \in 1..Len(pump.hand) /\ \A i \in 1..Len(pump.hand) : i = 1
    BY <1>1
  <2>8. frame.type \in EndTypes => OwnEnd(frame)
    <3>1. Head(pump.hand) = frame
      BY <1>1
    <3>2. ~(Head(pump.hand).type \in {"finish", "error"} /\ Stray(Head(pump.hand)))
      BY DEF Send
    <3> QED BY <1>7, <3>1, <3>2 DEF Stray, EndTypes, OwnEnd, Own
  <2> HIDE DEF n, frame
  <2>4. \A i \in 1..Len(inbox') : inbox'[i].type \in ToolTypes =>
           /\ inbox'[i].prompt = sent /\ sent \in called
           /\ \A j \in 1..(i - 1) : inbox'[j].type \notin EndTypes
    <3> SUFFICES ASSUME NEW i \in 1..n, inbox'[i].type \in ToolTypes
                 PROVE  /\ inbox'[i].prompt = sent /\ sent \in called
                        /\ \A j \in 1..(i - 1) : inbox[j].type \notin EndTypes
      BY <2>2
    <3>1. CASE i \in 1..Len(inbox)
      BY <2>2, <3>1 DEF TracksInv, ToolsInv
    <3>2. CASE i = n
      BY <2>2, <2>3, <3>2 DEF TracksInv, ToolsInv, InboxClear, frame
    <3> QED BY <2>2, <3>1, <3>2
  <2>5. InboxClear /\ HandClear => InboxClear'
    BY <2>2, <2>3, <2>8 DEF InboxClear, HandClear, frame
  <2>6. ToolsInv'
    BY <1>1, <1>2, <1>3, <1>4, <1>5, <1>7, <2>4, <2>5 DEF TracksInv, ToolsInv
  <2>7. RowInv'
    <3> SUFFICES ASSUME sent \in called PROVE RowInv'
      BY <1>1 DEF RowInv
    <3>1. \A i \in 1..Len(inbox') : inbox'[i].type = "call" =>
             /\ row[sent] # "closed"
             /\ \A j \in 1..(i - 1) : inbox'[j].type # "result"
      <4> SUFFICES ASSUME NEW i \in 1..n, inbox'[i].type = "call"
                   PROVE  /\ row[sent] # "closed"
                          /\ \A j \in 1..(i - 1) : inbox[j].type # "result"
        BY <2>2
      <4>1. CASE i \in 1..Len(inbox)
        BY <1>7, <2>2, <4>1 DEF TracksInv, RowInv
      <4>2. CASE i = n
        BY <1>7, <2>2, <2>3, <4>2 DEF TracksInv, RowInv, frame
      <4> QED BY <2>2, <4>1, <4>2
    <3>2. \A j \in 1..Len(inbox') : inbox'[j].type = "result" =>
             \/ \E i \in 1..Len(inbox) : inbox[i].type = "result"
             \/ \E i \in 1..Len(pump.hand) : pump.hand[i].type = "result"
      BY <2>2, <2>3 DEF frame
    <3>3. \A i \in 1..Len(wire) : wire[i].type = "call" =>
             /\ row[sent] # "closed"
             /\ \A j \in 1..Len(inbox') : inbox'[j].type # "result"
             /\ \A j \in 1..(i - 1) : wire[j].type # "result"
      BY <1>7, <3>2 DEF TracksInv, RowInv
    <3>4. \/ row[sent] = "closed"
          \/ sent \in pump.open
          \/ \E i \in 1..Len(inbox') : inbox'[i].type = "result"
          \/ \E i \in 1..Len(wire) : wire[i].type = "call"
      BY <1>7, <2>2, <2>3 DEF TracksInv, RowInv, frame
    <3>5. \A i \in 1..Len(inbox') : inbox'[i].type \in EndTypes =>
             row[sent] = "closed" \/ \E j \in 1..(i - 1) : inbox'[j].type = "result"
      <4> SUFFICES ASSUME NEW i \in 1..n, inbox'[i].type \in EndTypes, row[sent] # "closed"
                   PROVE  \E j \in 1..(i - 1) : inbox[j].type = "result"
        BY <2>2
      <4>1. CASE i \in 1..Len(inbox)
        BY <1>7, <2>2, <4>1 DEF TracksInv, RowInv
      <4>2. CASE i = n
        <5>1. pump.hand[1].type \in EndTypes /\ ~HandClear
          BY <2>2, <2>3, <2>8, <4>2 DEF frame, HandClear
        <5>2. sent \notin pump.open /\ (\A j \in 1..Len(wire) : wire[j].type # "call")
              /\ (\A j \in 1..Len(pump.hand) : pump.hand[j].type # "result")
          BY <2>3, <5>1 DEF TracksInv, ToolsInv, ToolTypes, EndTypes
        <5>3. PICK j \in 1..Len(inbox) : inbox[j].type = "result"
          BY <1>7, <5>2 DEF TracksInv, RowInv
        <5>4. j \in 1..(i - 1)
          BY <1>1, <4>2 DEF n
        <5> QED BY <5>3, <5>4
      <4> QED BY <2>2, <4>1, <4>2
    <3> QED BY <1>1, <1>5, <3>1, <3>3, <3>4, <3>5 DEF RowInv
  <2> QED BY <1>6, <2>6, <2>7 DEF TracksInv
<1>8. CASE ~Subscribed
  <2>1. inbox' = inbox
    BY <1>8 DEF Send, Posted, Subscribed
  <2>2. ToolsInv'
    BY <1>1, <1>4, <1>5, <1>8, <2>1 DEF TracksInv, ToolsInv
  <2> QED BY <1>4, <1>6, <1>8, <2>2 DEF TracksInv, RowInv
<1> QED BY <1>7, <1>8

\* The relay reads the first frame: of a tool, or the end.
LEMMA ReadTracks ==
    ASSUME StateTypes, PromptsInv, TracksInv, Read
    PROVE  TracksInv'
<1>1. /\ UNCHANGED <<sent, wire, pump, called>>
      /\ inbox \in Seq(Frame) /\ Len(inbox) \in Nat /\ 1 \in 1..Len(inbox) /\ Head(inbox) = inbox[1]
  BY DEF Read, sending, StateTypes
<1>2. Subscribed /\ sent \in Prompts
  BY <1>1 DEF PromptsInv, Read, Subscribed, StateTypes, SessionAgentTypeOK, Prompts, None
<1>3. \A i \in 1..Len(wire) : OwnEnding(i)' <=> OwnEnding(i)
  BY <1>1, SameBooks
<1>4. \A i \in 1..Len(wire) : \A j \in 1..(i - 1) : j \in 1..Len(wire)
  BY DEF StateTypes
<1>5. CASE inbox[1].type \in ToolTypes
  <2> DEFINE frame == inbox[1]
  <2>1. /\ row' = [row EXCEPT ![frame.prompt] = IF frame.type = "call" THEN "work" ELSE "closed"]
        /\ inbox' = Tail(inbox) /\ outcome' = outcome
    BY <1>1, <1>5 DEF Read, ToolTypes
  <2>2. frame.prompt = sent /\ sent \in called
    BY <1>1, <1>5 DEF TracksInv, ToolsInv
  <2>3. /\ Len(inbox') = Len(inbox) - 1 /\ \A i \in 1..Len(inbox') : inbox'[i] = inbox[i + 1]
        /\ \A i \in 1..Len(inbox') : i + 1 \in 1..Len(inbox)
                                     /\ \A j \in 1..(i - 1) : /\ j + 1 \in 1..((i + 1) - 1)
                                                              /\ inbox'[j] = inbox[j + 1]
        /\ \A i \in 1..Len(inbox) : i # 1 => /\ i - 1 \in 1..Len(inbox')
                                             /\ inbox'[i - 1] = inbox[i]
        /\ \A i \in 1..Len(inbox') : \A j \in 1..((i + 1) - 1) :
              j # 1 => j - 1 \in 1..(i - 1) /\ inbox'[j - 1] = inbox[j]
    BY <1>1, <2>1
  <2>4. /\ row'[sent] = IF frame.type = "call" THEN "work" ELSE "closed"
        /\ \A k \in Prompts : k # sent => row'[k] = row[k]
    BY <1>2, <2>1, <2>2 DEF StateTypes, SessionAgentTypeOK
  <2>5. Subscribed'
    BY <1>1, <1>2, <2>1 DEF Subscribed
  <2>6. ToolsInv'
    <3>1. \A i \in 1..Len(inbox') : inbox'[i].type \in ToolTypes =>
             /\ inbox'[i].prompt = sent
             /\ \A j \in 1..(i - 1) : inbox'[j].type \notin EndTypes
      <4> SUFFICES ASSUME NEW i \in 1..Len(inbox'), inbox'[i].type \in ToolTypes
                   PROVE  /\ inbox'[i].prompt = sent
                          /\ \A j \in 1..(i - 1) : inbox'[j].type \notin EndTypes
        OBVIOUS
      <4>1. /\ inbox[i + 1].prompt = sent
            /\ \A j \in 1..((i + 1) - 1) : inbox[j].type \notin EndTypes
        BY <2>3 DEF TracksInv, ToolsInv
      <4> QED BY <2>3, <4>1
    <3>2. (InboxClear => InboxClear') /\ (HandClear' <=> HandClear)
      BY <1>1, <2>3 DEF InboxClear, HandClear, OwnEnd, Own
    <3> QED BY <1>1, <1>3, <1>4, <2>2, <2>5, <3>1, <3>2 DEF TracksInv, ToolsInv
  <2>7. (RowsAreClosed /\ RowsAreOfCalls)'
    BY <1>1, <1>2, <2>1, <2>2, <2>4 DEF TracksInv, RowsAreClosed, RowsAreOfCalls, Subscribed,
                                        StateTypes, SessionAgentTypeOK
  <2>8. CASE frame.type = "call"
    <3>1. row'[sent] = "work" /\ row[sent] # "closed"
      BY <1>1, <1>2, <2>2, <2>4, <2>8 DEF TracksInv, RowInv
    <3>2. \A i \in 1..Len(inbox') : inbox'[i].type = "call" =>
             \A j \in 1..(i - 1) : inbox'[j].type # "result"
      <4> SUFFICES ASSUME NEW i \in 1..Len(inbox'), inbox'[i].type = "call"
                   PROVE  \A j \in 1..(i - 1) : inbox'[j].type # "result"
        OBVIOUS
      <4>1. \A j \in 1..((i + 1) - 1) : inbox[j].type # "result"
        BY <1>2, <2>2, <2>3 DEF TracksInv, RowInv
      <4>2. \A j \in 1..(i - 1) : j + 1 \in 1..((i + 1) - 1) /\ inbox'[j] = inbox[j + 1]
        BY <2>3
      <4> QED BY <4>1, <4>2
    <3>3. (\A j \in 1..Len(inbox) : inbox[j].type # "result")
             => (\A j \in 1..Len(inbox') : inbox'[j].type # "result")
      BY <2>3
    <3>4. (\E j \in 1..Len(inbox) : inbox[j].type = "result")
             => (\E j \in 1..Len(inbox') : inbox'[j].type = "result")
      BY <2>3, <2>8
    <3>5. \A i \in 1..Len(inbox') : inbox'[i].type \in EndTypes =>
             \E j \in 1..(i - 1) : inbox'[j].type = "result"
      <4> SUFFICES ASSUME NEW i \in 1..Len(inbox'), inbox'[i].type \in EndTypes
                   PROVE  \E j \in 1..(i - 1) : inbox'[j].type = "result"
        OBVIOUS
      <4>1. PICK j \in 1..((i + 1) - 1) : inbox[j].type = "result"
        BY <1>2, <2>2, <2>3, <3>1 DEF TracksInv, RowInv
      <4> QED BY <2>3, <2>8, <4>1
    <3>6. RowInv'
      BY <1>1, <1>2, <2>2, <3>1, <3>2, <3>3, <3>4, <3>5 DEF TracksInv, RowInv
    <3> QED BY <2>6, <2>7, <3>6 DEF TracksInv
  <2>9. CASE frame.type = "result"
    <3>1. row'[sent] = "closed"
      BY <2>4, <2>9
    <3>2. /\ \A i \in 1..Len(inbox) : inbox[i].type = "call" => FALSE
          /\ \A i \in 1..Len(pump.hand) : pump.hand[i].type # "call"
          /\ \A i \in 1..Len(wire) : wire[i].type # "call"
      <4>1. \A i \in 1..Len(inbox) : inbox[i].type = "call" => 1 \in 1..(i - 1)
        BY <2>9
      <4> QED BY <1>1, <1>2, <2>2, <2>9, <4>1 DEF TracksInv, RowInv
    <3>3. \A i \in 1..Len(inbox') : inbox'[i].type # "call"
      BY <2>3, <3>2
    <3>4. RowInv'
      BY <1>1, <3>1, <3>2, <3>3 DEF RowInv
    <3> QED BY <2>6, <2>7, <3>4 DEF TracksInv
  <2> QED BY <1>5, <2>8, <2>9 DEF ToolTypes
<1>6. CASE inbox[1].type \in EndTypes
  <2>1. /\ outcome' = [outcome EXCEPT ![sent] = inbox[1].type]
        /\ inbox' = <<>> /\ row' = row
    BY <1>1, <1>6 DEF Read, Return, EndTypes
  <2>2. ~Subscribed' /\ Len(inbox') = 0
    BY <1>1, <1>2, <1>6, <2>1 DEF Subscribed, EndTypes, StateTypes, SessionAgentTypeOK
  <2>3. /\ \A i \in 1..Len(pump.hand) : pump.hand[i].type \notin ToolTypes
        /\ \A i \in 1..Len(wire) : wire[i].type \notin ToolTypes
        /\ pump.open = {}
    BY <1>1, <1>6 DEF TracksInv, ToolsInv, InboxClear
  <2>4. ToolsInv' /\ RowInv'
    BY <1>1, <2>2, <2>3 DEF ToolsInv, RowInv
  <2>5. sent \in called => row[sent] = "closed"
    BY <1>1, <1>2, <1>6 DEF TracksInv, RowInv
  <2>6. (RowsAreClosed /\ RowsAreOfCalls)'
    BY <1>1, <2>1, <2>5 DEF TracksInv, RowsAreClosed, RowsAreOfCalls, StateTypes, SessionAgentTypeOK
  <2> QED BY <2>4, <2>6 DEF TracksInv
<1>7. inbox[1] \in Frame
  BY <1>1
<1> QED BY <1>5, <1>6, <1>7, ToolFrames

\* A prompt that could not be sent has called no tool.
LEMMA SendErrorTracks ==
    ASSUME StateTypes, PromptsInv, TracksInv, ReturnSendError
    PROVE  TracksInv'
<1>1. /\ UNCHANGED <<sent, row, wire, pump, inbox, called>> /\ sent \in refused /\ sent \in Prompts
      /\ Len(inbox) = 0 /\ outcome' = [outcome EXCEPT ![sent] = "error"]
  BY EmptySeq DEF ReturnSendError, Return, sending, streams, StateTypes, SessionAgentTypeOK
<1>2. sent \notin called
  BY <1>1 DEF PromptsInv, Ended
<1>3. /\ \A i \in 1..Len(pump.hand) : pump.hand[i].type \notin ToolTypes
      /\ \A i \in 1..Len(wire) : wire[i].type \notin ToolTypes
      /\ pump.open = {}
  BY <1>2 DEF TracksInv, ToolsInv
<1>4. ToolsInv' /\ RowInv'
  BY <1>1, <1>2, <1>3 DEF ToolsInv, RowInv
<1>5. (RowsAreClosed /\ RowsAreOfCalls)'
  BY <1>1, <1>2 DEF TracksInv, RowsAreClosed, RowsAreOfCalls, StateTypes, SessionAgentTypeOK
<1> QED BY <1>4, <1>5 DEF TracksInv

\* Taking an event puts results behind what the relay has: of the tool that is
\* open, and only at an end.
LEMMA TakenInbox ==
    ASSUME StateTypes, ToolsInv, Take
    PROVE  /\ Len(inbox) \in Nat /\ Len(inbox') \in Nat /\ Len(inbox') >= Len(inbox)
           /\ \A i \in 1..Len(inbox) : i \in 1..Len(inbox') /\ inbox'[i] = inbox[i]
           /\ \A i \in 1..Len(inbox') : i \notin 1..Len(inbox) =>
                 /\ inbox'[i] = Of(sent, "result")
                 /\ sent \in pump.open /\ Terminal(Head(wire))
           /\ Terminal(Head(wire)) /\ sent \in pump.open =>
                 \E i \in 1..Len(inbox') : inbox'[i] = Of(sent, "result")
<1> DEFINE S == Closes(Head(wire))
<1>1. PICK closed \in Orders(S) :
         inbox' = Posted([i \in DOMAIN closed |-> Of(closed[i], "result")])
  BY DEF Take
<1> DEFINE frames == [i \in DOMAIN closed |-> Of(closed[i], "result")]
<1>2. S \in SUBSET Prompts
  BY DEF Closes, StateTypes, PumpState
<1>3. S = IF Terminal(Head(wire)) THEN pump.open ELSE {}
  BY DEF Closes
<1> HIDE DEF S
<1>4. /\ frames \in Seq(Frame)
      /\ \A i \in 1..Len(frames) : \E k \in S : frames[i] = Of(k, "result")
      /\ \A k \in S : \E i \in 1..Len(frames) : frames[i] = Of(k, "result")
  BY <1>2, ClosingFrames
<1>5. inbox' = Posted(frames)
  BY <1>1
<1> HIDE DEF frames
<1>6. \A k \in S : k = sent /\ Subscribed /\ sent \in pump.open /\ Terminal(Head(wire))
  BY <1>3 DEF ToolsInv
<1>7. \A i \in 1..Len(frames) : /\ frames[i] = Of(sent, "result") /\ Subscribed
                                /\ sent \in pump.open /\ Terminal(Head(wire))
  BY <1>4, <1>6
<1>8. inbox \in Seq(Frame) /\ Len(inbox) \in Nat /\ Len(frames) \in Nat
  BY <1>4 DEF StateTypes
<1>9. CASE Subscribed
  <2>1. inbox' = inbox \o frames
    BY <1>5, <1>9 DEF Posted, Subscribed
  <2>2. Len(inbox') = Len(inbox) + Len(frames)
        /\ \A i \in 1..Len(inbox) : inbox'[i] = inbox[i]
    BY <1>4, <1>8, <2>1
  <2>5. \A i \in 1..Len(inbox') : i \notin 1..Len(inbox) =>
           inbox'[i] = frames[i - Len(inbox)] /\ i - Len(inbox) \in 1..Len(frames)
    BY <1>4, <1>8, <2>1
  <2>6. \A i \in 1..Len(frames) : i + Len(inbox) \in 1..Len(inbox')
                                 /\ inbox'[i + Len(inbox)] = frames[i]
    BY <1>4, <1>8, <2>1
  <2>3. Terminal(Head(wire)) /\ sent \in pump.open =>
           \E i \in 1..Len(inbox') : inbox'[i] = Of(sent, "result")
    <3> SUFFICES ASSUME Terminal(Head(wire)), sent \in pump.open
                 PROVE  \E i \in 1..Len(inbox') : inbox'[i] = Of(sent, "result")
      OBVIOUS
    <3>1. PICK i \in 1..Len(frames) : frames[i] = Of(sent, "result")
      BY <1>3, <1>4
    <3>2. i + Len(inbox) \in 1..Len(inbox') /\ inbox'[i + Len(inbox)] = frames[i]
      BY <2>6
    <3> QED BY <3>1, <3>2
  <2>4. \A i \in 1..Len(inbox') : i \notin 1..Len(inbox) =>
                 /\ inbox'[i] = Of(sent, "result")
                 /\ sent \in pump.open /\ Terminal(Head(wire))
    <3> SUFFICES ASSUME NEW i \in 1..Len(inbox'), i \notin 1..Len(inbox)
                 PROVE  /\ inbox'[i] = Of(sent, "result")
                        /\ sent \in pump.open /\ Terminal(Head(wire))
      OBVIOUS
    <3>1. i - Len(inbox) \in 1..Len(frames) /\ inbox'[i] = frames[i - Len(inbox)]
      BY <2>5
    <3> QED BY <1>7, <3>1
  <2> QED BY <1>8, <2>2, <2>3, <2>4
<1>10. CASE ~Subscribed
  <2>1. inbox' = inbox
    BY <1>5, <1>10 DEF Posted, Subscribed
  <2>2. pump.open = {}
    BY <1>10 DEF ToolsInv
  <2> QED BY <1>8, <2>1, <2>2
<1> QED BY <1>9, <1>10

\* What the pump remembers after an event.
LEMMA TakenPump ==
    ASSUME StateTypes, Take
    PROVE  /\ Head(wire) = wire[1] /\ wire[1] \in Event /\ Len(pump.hand) = 0
           /\ wire[1].type \in ToolTypes => pump'.hand = <<wire[1]>>
           /\ Terminal(wire[1]) =>
                 \/ pump'.hand = <<Of(wire[1].prompt, "error")>> /\ wire[1].type \notin {"clean", "cancelled"}
                 \/ pump'.hand = <<Of(wire[1].prompt, "finish")>> /\ wire[1].type # "error"
           /\ wire[1].type \notin ToolTypes /\ ~Terminal(wire[1]) => pump'.hand = <<>>
           /\ pump'.open = (pump.open \ (Closes(wire[1]) \cup
                                            (IF wire[1].type = "result" THEN {wire[1].prompt} ELSE {})))
                             \cup (IF wire[1].type = "call" THEN {wire[1].prompt} ELSE {})
           /\ UNCHANGED <<sent, outcome, row, called>>
           /\ ~strayed' /\ Subscribed /\ Terminal(wire[1]) => Own(wire[1])
<1>1. Head(wire) = wire[1] /\ wire[1] \in Event
  BY DEF Take, StateTypes
<1> DEFINE seen == pump.seen \/ (Terminal(wire[1]) /\ wire[1].type \in Results)
<1>2. seen \in BOOLEAN
  OBVIOUS
<1>3. pump'.hand = Translation(wire[1], seen)
  BY <1>1 DEF Take
<1> HIDE DEF seen
<1>4. pump'.open = (pump.open \ (Closes(wire[1]) \cup
                                            (IF wire[1].type = "result" THEN {wire[1].prompt} ELSE {})))
                             \cup (IF wire[1].type = "call" THEN {wire[1].prompt} ELSE {})
  BY <1>1 DEF Take
<1>5. Len(pump.hand) = 0 /\ UNCHANGED <<sent, outcome, row, called>>
  BY DEF Take, sending, relayed
<1>6. ~strayed' /\ Subscribed /\ Terminal(wire[1]) => Own(wire[1])
  BY <1>1 DEF Take, Stray, Own
<1> QED BY <1>1, <1>2, <1>3, <1>4, <1>5, <1>6, TranslationIs

\* The pump takes an event: of a tool, an end that closes the open tool, or
\* something that the relay is not told.
LEMMA TakeTracks ==
    ASSUME StateTypes, TracksInv, Take, ~strayed'
    PROVE  TracksInv'
<1> DEFINE event == wire[1]
<1>1. /\ Head(wire) = event /\ event \in Event /\ Len(pump.hand) = 0
      /\ UNCHANGED <<sent, outcome, row, called>>
      /\ pump'.open = (pump.open \ (Closes(event) \cup
                                      (IF event.type = "result" THEN {event.prompt} ELSE {})))
                             \cup (IF event.type = "call" THEN {event.prompt} ELSE {})
  BY TakenPump
<1>2. /\ Len(wire') = Len(wire) - 1 /\ Len(wire) \in Nat /\ 1 \in 1..Len(wire)
      /\ \A i \in 1..Len(wire') :
            /\ i + 1 \in 1..Len(wire) /\ wire'[i] = wire[i + 1] /\ 1 \in 1..((i + 1) - 1)
            /\ OwnEnding(i)' <=> OwnEnding(i + 1)
            /\ \A j \in 1..(i - 1) : j + 1 \in 1..((i + 1) - 1) /\ wire'[j] = wire[j + 1]
                                     /\ (OwnEnding(j)' <=> OwnEnding(j + 1))
      /\ \A i \in 1..Len(wire) : i # 1 => i - 1 \in 1..Len(wire') /\ wire'[i - 1] = wire[i]
      /\ OwnEnding(1) <=> Terminal(event) /\ Own(event)
  <2>1. /\ Len(wire) \in Nat /\ Len(wire) >= 1 /\ Len(wire') = Len(wire) - 1
        /\ \A i \in 1..Len(wire') : wire'[i] = wire[i + 1]
        /\ \A i \in 1..Len(wire') : OwnEnding(i)' <=> OwnEnding(i + 1)
        /\ OwnEnding(1) <=> Terminal(event) /\ Own(event)
    BY <1>1, TakenBooks
  <2>2. ASSUME NEW i \in 1..Len(wire')
        PROVE  /\ i + 1 \in 1..Len(wire) /\ 1 \in 1..((i + 1) - 1)
               /\ \A j \in 1..(i - 1) : j + 1 \in 1..((i + 1) - 1) /\ j \in 1..Len(wire')
    BY <2>1
  <2>3. \A i \in 1..Len(wire) : i # 1 => i - 1 \in 1..Len(wire') /\ wire'[i - 1] = wire[i]
    BY <2>1
  <2> QED BY <2>1, <2>2, <2>3
<1>3. /\ Len(inbox) \in Nat /\ Len(inbox') \in Nat /\ Len(inbox') >= Len(inbox)
      /\ \A i \in 1..Len(inbox) : i \in 1..Len(inbox') /\ inbox'[i] = inbox[i]
      /\ \A i \in 1..Len(inbox') : i \notin 1..Len(inbox) =>
            /\ inbox'[i].type = "result" /\ inbox'[i].prompt = sent
            /\ sent \in pump.open /\ Terminal(event)
      /\ Terminal(event) /\ sent \in pump.open =>
            \E i \in 1..Len(inbox') : inbox'[i].type = "result"
  BY <1>1, TakenInbox DEF TracksInv, Of
<1>4. Subscribed' <=> Subscribed
  BY <1>1 DEF Subscribed
<1>5. (RowsAreClosed /\ RowsAreOfCalls)'
  BY <1>1 DEF TracksInv, RowsAreClosed, RowsAreOfCalls
<1>6. sent \in called => sent \in Prompts /\ sent # None
  BY DEF StateTypes, SessionAgentTypeOK, Prompts, None
\* What the relay has, in every case.
<1>7. ASSUME NEW i \in 1..Len(inbox'), inbox'[i].type \in ToolTypes
      PROVE  /\ inbox'[i].prompt = sent /\ Subscribed /\ sent \in called
             /\ \A j \in 1..(i - 1) : inbox'[j].type \notin EndTypes
  <2>1. CASE i \in 1..Len(inbox)
    <3>1. \A j \in 1..(i - 1) : j \in 1..Len(inbox)
      BY <1>3, <2>1
    <3> QED BY <1>3, <1>7, <2>1, <3>1 DEF TracksInv, ToolsInv
  <2>2. CASE i \notin 1..Len(inbox)
    <3>1. sent \in pump.open
      BY <1>3, <2>2
    <3>2. \A j \in 1..Len(inbox) : inbox[j].type \notin EndTypes
      BY <3>1 DEF TracksInv, ToolsInv, InboxClear
    <3>3. \A j \in 1..Len(inbox') : inbox'[j].type \notin EndTypes
      BY <1>3, <3>2 DEF EndTypes
    <3>4. \A j \in 1..(i - 1) : j \in 1..Len(inbox')
      BY <1>3
    <3> QED BY <1>3, <2>2, <3>1, <3>3, <3>4 DEF TracksInv, ToolsInv
  <2> QED BY <2>1, <2>2
<1>8. InboxClear => InboxClear'
  BY <1>3 DEF EndTypes, InboxClear
<1>9. ~Terminal(event) /\ (\A j \in 1..Len(inbox) : inbox[j].type # "result")
         => (\A j \in 1..Len(inbox') : inbox'[j].type # "result")
  BY <1>3
<1>10. ASSUME Subscribed, sent \in called
       PROVE  /\ \A i \in 1..Len(inbox') : inbox'[i].type = "call" =>
                   /\ row[sent] # "closed"
                   /\ \A j \in 1..(i - 1) : inbox'[j].type # "result"
              /\ \A i \in 1..Len(inbox') : inbox'[i].type \in EndTypes =>
                   row[sent] = "closed" \/ \E j \in 1..(i - 1) : inbox'[j].type = "result"
  <2>1. \A i \in 1..Len(inbox) : \A j \in 1..(i - 1) : inbox'[j] = inbox[j]
    BY <1>3
  <2>2. \A i \in 1..Len(inbox') : inbox'[i].type # "result" => i \in 1..Len(inbox)
    BY <1>3
  <2>3. ASSUME NEW i \in 1..Len(inbox), inbox'[i].type = "call"
        PROVE  /\ row[sent] # "closed"
               /\ \A j \in 1..(i - 1) : inbox'[j].type # "result"
    BY <1>3, <1>10, <2>1, <2>3 DEF TracksInv, RowInv
  <2>4. ASSUME NEW i \in 1..Len(inbox), inbox'[i].type \in EndTypes
        PROVE  row[sent] = "closed" \/ \E j \in 1..(i - 1) : inbox'[j].type = "result"
    BY <1>3, <1>10, <2>1, <2>4 DEF TracksInv, RowInv
  <2> QED BY <2>2, <2>3, <2>4 DEF EndTypes
\* The result of the tool that the relay has, it has still.
<1>11. (\E i \in 1..Len(inbox) : inbox[i].type = "result")
          => (\E i \in 1..Len(inbox') : inbox'[i].type = "result")
  BY <1>3
<1> HIDE DEF event
<1>12. CASE event.type \in ToolTypes
  <2>1. pump'.hand = <<event>>
    BY <1>12, TakenPump DEF event
  <2>2. Len(pump'.hand) = 1 /\ pump'.hand[1] = event /\ \A i \in 1..Len(pump'.hand) : i = 1
    BY <2>1
  <2>3. event.prompt = sent /\ Subscribed /\ sent \in called /\ InboxClear
    BY <1>2, <1>12 DEF TracksInv, ToolsInv, event
  <2>4. ~Terminal(event)
    BY <1>12 DEF Terminal, ToolTypes, Results, Exits
  <2>5. pump'.open \subseteq {sent} /\ (event.type = "call" => sent \in pump'.open)
    BY <1>1, <2>3 DEF TracksInv, ToolsInv
  <2>6. \A i \in 1..Len(wire') : wire'[i].type \in ToolTypes =>
           wire'[i].prompt = sent /\ \A j \in 1..(i - 1) : ~OwnEnding(j)'
    <3> SUFFICES ASSUME NEW i \in 1..Len(wire'), wire'[i].type \in ToolTypes
                 PROVE  wire'[i].prompt = sent /\ \A j \in 1..(i - 1) : ~OwnEnding(j)'
      OBVIOUS
    <3>1. wire[i + 1].prompt = sent /\ \A j \in 1..((i + 1) - 1) : ~OwnEnding(j)
      BY <1>2 DEF TracksInv, ToolsInv
    <3> QED BY <1>2, <3>1
  <2>7. event.type \notin EndTypes
    BY <1>12 DEF ToolTypes, EndTypes
  <2>14. HandClear'
    BY <2>2, <2>7 DEF HandClear, OwnEnd
  <2>8. ToolsInv'
    BY <1>1, <1>4, <1>7, <1>8, <2>2, <2>3, <2>5, <2>6, <2>14 DEF ToolsInv
  <2>9. \A i \in 1..Len(wire') : wire'[i].type = "call" =>
           /\ row[sent] # "closed"
           /\ \A j \in 1..Len(inbox) : inbox[j].type # "result"
           /\ event.type # "result"
           /\ \A j \in 1..(i - 1) : wire'[j].type # "result"
    <3> SUFFICES ASSUME NEW i \in 1..Len(wire'), wire'[i].type = "call"
                 PROVE  /\ row[sent] # "closed"
                        /\ \A j \in 1..Len(inbox) : inbox[j].type # "result"
                        /\ event.type # "result"
                        /\ \A j \in 1..(i - 1) : wire'[j].type # "result"
      OBVIOUS
    <3>1. /\ row[sent] # "closed"
          /\ \A j \in 1..Len(inbox) : inbox[j].type # "result"
          /\ \A j \in 1..((i + 1) - 1) : wire[j].type # "result"
      BY <1>2, <2>3 DEF TracksInv, RowInv
    <3>2. event.type # "result"
      BY <1>2, <3>1 DEF event
    <3>3. \A j \in 1..(i - 1) : wire'[j].type # "result"
      BY <1>2, <3>1
    <3> QED BY <3>1, <3>2, <3>3
  <2>10. event.type = "call" => /\ row[sent] # "closed"
                                /\ \A j \in 1..Len(inbox) : inbox[j].type # "result"
    BY <1>2, <2>3 DEF TracksInv, RowInv, event
  <2>11. event.type = "call" \/ event.type = "result"
    BY <1>12 DEF ToolTypes
  <2>12. RowInv'
    BY <1>1, <1>9, <1>10, <2>2, <2>3, <2>4, <2>5, <2>9, <2>10, <2>11 DEF RowInv
  <2> QED BY <1>5, <2>8, <2>12 DEF TracksInv
<1>13. CASE Terminal(event)
  <2>1. \/ pump'.hand = <<Of(event.prompt, "error")>>
        \/ pump'.hand = <<Of(event.prompt, "finish")>>
    BY <1>13, TakenPump DEF event
  <2>2. \A i \in 1..Len(pump'.hand) : pump'.hand[i].type \notin ToolTypes
    BY <2>1 DEF Of, ToolTypes
  <2>3. event.type \notin ToolTypes
    BY <1>13 DEF Terminal, ToolTypes, Results, Exits
  <2>4. \A i \in 1..Len(wire) : wire[i].type \notin ToolTypes
    <3>1. CASE Subscribed
      <4>1. OwnEnding(1)
        BY <1>2, <1>13, <3>1, TakenPump DEF event
      <4> QED BY <1>2, <2>3, <4>1 DEF TracksInv, ToolsInv, event
    <3>2. CASE ~Subscribed
      BY <3>2 DEF TracksInv, ToolsInv
    <3> QED BY <3>1, <3>2
  <2>5. \A i \in 1..Len(wire') : wire'[i].type \notin ToolTypes
    BY <1>2, <2>4
  <2>6. pump'.open = {}
    BY <1>1, <1>13, <2>3 DEF Closes, ToolTypes
  <2>7. ToolsInv'
    BY <1>1, <1>4, <1>7, <2>2, <2>5, <2>6 DEF ToolsInv
  <2>8. Subscribed /\ sent \in called =>
           \/ row[sent] = "closed"
           \/ \E i \in 1..Len(inbox') : inbox'[i].type = "result"
    BY <1>1, <1>3, <1>11, <1>13, <2>4 DEF TracksInv, RowInv, ToolTypes
  <2>9. RowInv'
    BY <1>1, <1>4, <1>10, <2>2, <2>5, <2>8 DEF RowInv, ToolTypes
  <2> QED BY <1>5, <2>7, <2>9 DEF TracksInv
<1>14. CASE event.type \notin ToolTypes /\ ~Terminal(event)
  <2>1. Len(pump'.hand) = 0
    BY <1>14, TakenPump DEF event
  <2>2. event.type # "call" /\ event.type # "result"
    BY <1>14 DEF ToolTypes
  <2>3. pump'.open = pump.open
    BY <1>1, <1>14, <2>2 DEF Closes
  <2>4. \A i \in 1..Len(wire') : wire'[i].type \in ToolTypes =>
           /\ wire'[i].prompt = sent /\ Subscribed /\ sent \in called
           /\ InboxClear
           /\ \A j \in 1..(i - 1) : ~OwnEnding(j)'
    <3> SUFFICES ASSUME NEW i \in 1..Len(wire'), wire'[i].type \in ToolTypes
                 PROVE  /\ wire'[i].prompt = sent /\ Subscribed /\ sent \in called
                        /\ InboxClear
                        /\ \A j \in 1..(i - 1) : ~OwnEnding(j)'
      OBVIOUS
    <3>1. /\ wire[i + 1].prompt = sent /\ Subscribed /\ sent \in called
          /\ InboxClear
          /\ \A j \in 1..((i + 1) - 1) : ~OwnEnding(j)
      BY <1>2 DEF TracksInv, ToolsInv
    <3> QED BY <1>2, <3>1
  <2>5. ToolsInv'
    <3>1. \A k \in pump.open : /\ k = sent /\ Subscribed /\ sent \in called
                               /\ InboxClear
      BY DEF TracksInv, ToolsInv
    <3>2. (\A i : i \notin 1..Len(pump'.hand)) /\ HandClear'
      BY <2>1 DEF HandClear
    <3>3. \A i \in 1..Len(wire') : wire'[i].type \in ToolTypes =>
             InboxClear'
      BY <1>8, <2>4
    <3>4. \A k \in pump'.open : /\ k = sent /\ Subscribed /\ sent \in called
                                /\ InboxClear'
      BY <1>8, <2>3, <3>1
    <3> QED BY <1>1, <1>4, <1>7, <2>4, <3>2, <3>3, <3>4 DEF ToolsInv
  <2>6. ASSUME Subscribed, sent \in called PROVE RowInv'
    <3>1. \A i \in 1..Len(wire') : wire'[i].type = "call" =>
             /\ row[sent] # "closed"
             /\ \A j \in 1..Len(inbox) : inbox[j].type # "result"
             /\ \A j \in 1..(i - 1) : wire'[j].type # "result"
      <4> SUFFICES ASSUME NEW i \in 1..Len(wire'), wire'[i].type = "call"
                   PROVE  /\ row[sent] # "closed"
                          /\ \A j \in 1..Len(inbox) : inbox[j].type # "result"
                          /\ \A j \in 1..(i - 1) : wire'[j].type # "result"
        OBVIOUS
      <4>1. /\ row[sent] # "closed"
            /\ \A j \in 1..Len(inbox) : inbox[j].type # "result"
            /\ \A j \in 1..((i + 1) - 1) : wire[j].type # "result"
        BY <1>2, <2>6 DEF TracksInv, RowInv
      <4> QED BY <1>2, <4>1
    <3>2. (\E i \in 1..Len(wire) : wire[i].type = "call")
             => (\E i \in 1..Len(wire') : wire'[i].type = "call")
      BY <1>2, <2>2 DEF event
    <3>3. \/ row[sent] = "closed"
          \/ sent \in pump.open
          \/ \E i \in 1..Len(inbox') : inbox'[i].type = "result"
          \/ \E i \in 1..Len(wire') : wire'[i].type = "call"
      <4>1. \/ row[sent] = "closed"
            \/ sent \in pump.open
            \/ \E i \in 1..Len(inbox) : inbox[i].type = "result"
            \/ \E i \in 1..Len(pump.hand) : pump.hand[i].type = "result"
            \/ \E i \in 1..Len(wire) : wire[i].type = "call"
        BY <2>6 DEF TracksInv, RowInv
      <4>2. ~\E i \in 1..Len(pump.hand) : pump.hand[i].type = "result"
        BY <1>1
      <4> QED BY <1>11, <3>2, <4>1, <4>2
    <3>4. /\ \A i \in 1..Len(inbox') : inbox'[i].type = "call" =>
               /\ row[sent] # "closed"
               /\ \A j \in 1..(i - 1) : inbox'[j].type # "result"
          /\ \A i \in 1..Len(inbox') : inbox'[i].type \in EndTypes =>
               row[sent] = "closed" \/ \E j \in 1..(i - 1) : inbox'[j].type = "result"
      BY <1>10, <2>6
    <3>5. \A i \in 1..Len(wire') : wire'[i].type = "call" =>
             \A j \in 1..Len(inbox') : inbox'[j].type # "result"
      BY <1>9, <1>14, <3>1
    <3>6. (\A i : i \notin 1..Len(pump'.hand)) /\ UNCHANGED <<sent, row>> /\ pump'.open = pump.open
      BY <1>1, <2>1, <2>3
    <3> QED BY <3>1, <3>3, <3>4, <3>5, <3>6 DEF RowInv
  <2>7. RowInv'
    BY <1>1, <1>4, <2>6 DEF RowInv
  <2> QED BY <1>5, <2>5, <2>7 DEF TracksInv
<1> QED BY <1>12, <1>13, <1>14
-----------------------------------------------------------------------------
(* Prompts, and what a running program has of them.                        *)

\* What holds as long as the program that was started first runs.
HealthyInv == ProgramInv /\ WireInv /\ EndsInv /\ EndsAreOwn

\* The prompt before the last one, or the last one after its end, has ended.
LEMMA ReturnedIsEnded ==
    ASSUME StateTypes, Healthy, HealthyInv, ~Subscribed, sent \in Prompts
    PROVE  fate[sent] \in Ended
<1>1. outcome[sent] \in {"finish", "error"}
  BY DEF Subscribed, Prompts, None, StateTypes, SessionAgentTypeOK
<1> QED BY <1>1 DEF HealthyInv, EndsAreOwn, Healthy, Ended

\* A prompt that the program has and has not answered is the last one, its relay
\* waits for it and no end of it is on its way.
LEMMA SentIsLast ==
    ASSUME StateTypes, PromptsInv, Healthy, HealthyInv,
           NEW k \in Prompts, fate[k] = "sent"
    PROVE  /\ k = sent /\ Subscribed /\ NoEnd /\ status = "running"
           /\ \/ /\ program.stdin = <<k>> /\ k \notin called
                 /\ program.doing = None \/ program.replied
              \/ /\ program.stdin = <<>> /\ program.doing = k /\ ~program.replied
                 /\ k \in called <=> program.call # "none"
<1>1. outcome[k] = "none"
  BY DEF HealthyInv, EndsAreOwn, Healthy, StateTypes, SessionAgentTypeOK
<1>2. k = sent
  BY <1>1 DEF PromptsInv, StateTypes, SessionAgentTypeOK, Prompts
<1>3. Subscribed
  BY <1>1, <1>2 DEF Subscribed, Prompts, None
<1>4. NoEnd
  BY <1>2, <1>3 DEF HealthyInv, EndsInv, Ended
<1>5. status = "running"
  BY <1>2 DEF HealthyInv, ProgramInv, PromptsInv
<1>6. CASE program.stdin # <<>>
  <2>1. program.stdin = <<k>> /\ k \notin called
    BY <1>2, <1>6 DEF HealthyInv, ProgramInv
  <2>2. program.doing # None /\ ~program.replied => program.stdin = <<>>
    BY DEF HealthyInv, ProgramInv
  <2> QED BY <1>2, <1>3, <1>4, <1>5, <1>6, <2>1, <2>2
<1>7. CASE program.stdin = <<>>
  <2>1. program.doing = k /\ ~program.replied
    BY <1>7 DEF HealthyInv, ProgramInv
  <2>2. k # None
    BY DEF Prompts, None
  <2>3. k \in called <=> program.call # "none"
    BY <1>2, <2>1, <2>2 DEF HealthyInv, ProgramInv
  <2> QED BY <1>2, <1>3, <1>4, <1>5, <1>7, <2>1, <2>3
<1> QED BY <1>6, <1>7

\* What the program works on is the last prompt.
LEMMA WorksOnLast ==
    ASSUME StateTypes, PromptsInv, Healthy, HealthyInv,
           program.doing # None, ~program.replied
    PROVE  /\ program.doing = sent /\ sent \in Prompts /\ fate[sent] = "sent"
           /\ Subscribed /\ NoEnd /\ program.stdin = <<>>
           /\ sent \in called <=> program.call # "none"
<1>1. /\ program.doing = sent /\ fate[sent] = "sent" /\ program.stdin = <<>>
      /\ sent \in called <=> program.call # "none"
  BY DEF HealthyInv, ProgramInv
<1>2. sent \in Prompts
  BY <1>1 DEF StateTypes, SessionAgentTypeOK
<1> QED BY <1>1, <1>2, SentIsLast

\* What the program has said the end of, it has ended.
LEMMA RepliedIsEnded ==
    ASSUME StateTypes, HealthyInv, program.replied
    PROVE  program.doing \in Prompts /\ fate[program.doing] \in Ended
  BY DEF StateTypes, SessionAgentTypeOK, HealthyInv, ProgramInv

\* A prompt whose sender has not finished is the last one.
LEMMA SenderIsLast ==
    ASSUME StateTypes, PromptsInv, Healthy, HealthyInv,
           NEW k \in Prompts, sender[k] \in {"ready", "wake", "deliver"}
    PROVE  k = sent /\ fate[k] = "none" /\ k \notin called
<1>1. fate[k] = "none"
  BY DEF PromptsInv
<1>2. outcome[k] # "finish"
  BY <1>1 DEF HealthyInv, EndsAreOwn, Healthy
<1> QED BY <1>1, <1>2 DEF PromptsInv, StateTypes, SessionAgentTypeOK, Prompts, Ended

\* Whose task, program or relay does a step: prompts go one after the other.
LEMMA PromptsStep ==
    ASSUME StateTypes, PromptsInv, Undisturbed, Undisturbed', process = "up" => HealthyInv, Next
    PROVE  PromptsInv'
<1> USE DEF PromptsInv
<1>1. Prompts \subseteq Nat /\ None \notin Prompts /\ sent \in Nat
  BY DEF Prompts, None, StateTypes, SessionAgentTypeOK
<1>2. CASE Subscribe
  <2>1. sent + 1 \in Prompts /\ sent' = sent + 1
    BY <1>2, SessionAgentAssumption DEF Subscribe, Prompts, StateTypes, SessionAgentTypeOK
  <2>2. sender' = [sender EXCEPT ![sent + 1] = "ready"] /\ inbox' = <<>>
        /\ UNCHANGED <<refused, outcome, slot, process, fate, called>>
        /\ (sent # None => outcome[sent] = "finish")
    BY <1>2 DEF Subscribe, relayed, backend
  <2>3. \A k \in Prompts : k > sent' => k > sent /\ k # sent + 1
    BY <1>1, <2>1
  <2>4. \A k \in Prompts : k < sent' => outcome'[k] = "finish"
    BY <1>1, <2>1, <2>2
  <2>5. \A k \in Prompts : fate[k] = "none" <=> sender'[k] # "over"
    BY <1>1, <2>1, <2>2 DEF StateTypes, SessionAgentTypeOK
  <2>6. \A k \in Prompts : k > sent' =>
          sender'[k] = "none" /\ fate[k] = "none" /\ outcome[k] = "none"
    BY <2>1, <2>2, <2>3 DEF StateTypes, SessionAgentTypeOK
  <2> QED BY <2>2, <2>4, <2>5, <2>6
<1>3. ASSUME NEW k \in Prompts, SetRunning(k) PROVE PromptsInv'
  <2>1. UNCHANGED <<sent, refused, outcome, slot, process, inbox, fate, called>>
        /\ sender' = [sender EXCEPT ![k] = "wake"] /\ sender[k] = "ready"
    BY <1>3 DEF SetRunning, relayed, backend, streams
  <2> QED BY <2>1 DEF Subscribed, StateTypes, SessionAgentTypeOK
<1>4. ASSUME NEW k \in Prompts, EnsureAwake(k) PROVE PromptsInv'
  <2>1. UNCHANGED <<sent, refused, outcome, slot, process, inbox, fate, called>>
        /\ sender' = [sender EXCEPT ![k] = "deliver"] /\ sender[k] = "wake"
    BY <1>4 DEF EnsureAwake, relayed, backend, streams
  <2> QED BY <2>1 DEF Subscribed, StateTypes, SessionAgentTypeOK
<1>5. ASSUME NEW k \in Prompts, Deliver(k) PROVE PromptsInv'
  <2>1. UNCHANGED <<sent, outcome, slot, process, inbox, called>>
        /\ sender' = [sender EXCEPT ![k] = "over"] /\ sender[k] = "deliver"
    BY <1>5 DEF Deliver, Refuse, relayed, streams
  <2>2. \/ /\ fate' = [fate EXCEPT ![k] = "unsent"] /\ refused' = refused \cup {k}
        \/ /\ fate' = [fate EXCEPT ![k] = "left"] /\ refused' = refused
        \/ /\ fate' = [fate EXCEPT ![k] = "sent"] /\ refused' = refused /\ process = "up"
    BY <1>5 DEF Deliver, Refuse
  <2>3. fate[k] = "none" /\ k \notin called /\ k <= sent
    BY <1>1, <2>1 DEF Ended
  <2>4. \A j \in Prompts : j # k => fate'[j] = fate[j] /\ sender'[j] = sender[j]
    BY <2>1, <2>2 DEF StateTypes, SessionAgentTypeOK
  <2>5. sender'[k] = "over" /\ fate'[k] \in {"unsent", "left", "sent"}
        /\ (fate'[k] = "sent" => process = "up")
        /\ refused' = (IF fate'[k] = "unsent" THEN refused \cup {k} ELSE refused)
    BY <2>1, <2>2 DEF StateTypes, SessionAgentTypeOK
  <2>6. \A j \in Prompts : j > sent => j # k
    BY <1>1, <2>3
  <2>7. called \subseteq Prompts
    BY DEF StateTypes, SessionAgentTypeOK
  <2> HIDE <1>5
  <2> QED BY <2>1, <2>3, <2>4, <2>5, <2>6, <2>7 DEF Subscribed
<1>6. ASSUME UNCHANGED <<sent, sender, refused, outcome, slot, process, inbox, fate, called>>
      PROVE  PromptsInv'
  BY <1>6 DEF Subscribed
<1>7. CASE Begin \/ StartWorkflow \/ Launch \/ EndWorkflow \/ EndTool \/ Cancel
  BY <1>6, <1>7 DEF Begin, StartWorkflow, Launch, EndWorkflow, EndTool, Cancel, External, sending,
                    relayed, backend, streams
<1>8. CASE CallTool
  <2>1. called' = called \cup {program.doing} /\ process = "up" /\ program.doing # None
        /\ UNCHANGED <<sent, sender, refused, outcome, slot, process, inbox, fate>>
    BY <1>8 DEF CallTool, Works, External, sending, relayed
  <2>2. fate[program.doing] = "sent"
    BY <1>8, <2>1, WorksOnLast DEF CallTool, Works, Healthy
  <2> QED BY <2>1, <2>2 DEF Subscribed
<1>9. ASSUME NEW end \in Ended, process = "up", program.doing # None,
             fate' = [fate EXCEPT ![program.doing] = IF program.replied THEN @ ELSE end],
             UNCHANGED <<sent, sender, refused, outcome, slot, process, inbox, called>>
      PROVE  PromptsInv'
  <2>1. CASE program.replied
    <3>1. fate' = fate
      BY <1>9, <2>1 DEF StateTypes, SessionAgentTypeOK
    <3> QED BY <1>6, <1>9, <3>1
  <2>2. CASE ~program.replied
    <3>1. program.doing = sent /\ sent \in Prompts /\ fate[sent] = "sent"
      BY <1>9, <2>2, WorksOnLast DEF Healthy
    <3>2. fate'[sent] = end /\ \A k \in Prompts : k # sent => fate'[k] = fate[k]
      BY <1>9, <2>2, <3>1 DEF StateTypes, SessionAgentTypeOK
    <3>3. end \notin {"none", "unsent", "sent"}
      BY DEF Ended
    <3>4. \A k \in Prompts : k > sent => k # sent
      BY <1>1
    <3>5. called \subseteq Prompts
      BY DEF StateTypes, SessionAgentTypeOK
    <3> QED BY <1>9, <3>1, <3>2, <3>3, <3>4, <3>5 DEF Subscribed
  <2> QED BY <2>1, <2>2
<1>14. ASSUME NEW result, NEW end \in Ended, Ends(result, end) PROVE PromptsInv'
  <2>1. /\ fate' = [fate EXCEPT ![program.doing] = IF program.replied THEN @ ELSE end]
        /\ process = "up" /\ program.doing # None
        /\ UNCHANGED <<sent, sender, refused, outcome, slot, process, inbox, called>>
    BY <1>14 DEF Ends, External, sending, relayed
  <2> QED BY <1>9, <2>1
<1>15. CASE Reply
  <2>1. /\ fate' = [fate EXCEPT ![program.doing] = IF program.replied THEN @ ELSE "answered"]
        /\ process = "up" /\ program.doing # None
        /\ UNCHANGED <<sent, sender, refused, outcome, slot, process, inbox, called>>
    BY <1>15 DEF Reply, Works, External, sending, relayed
  <2>2. "answered" \in Ended
    BY DEF Ended
  <2> QED BY <1>9, <2>1, <2>2
<1>10. ASSUME NEW fault, NEW state, NEW event, ReaderEnds(fault, state, event) PROVE PromptsInv'
  <2>1. fate' = [k \in Prompts |-> IF fate[k] = "sent" THEN "lost" ELSE fate[k]]
        /\ UNCHANGED <<sent, sender, refused, outcome, slot, inbox, called>>
    BY <1>10 DEF ReaderEnds, Losing, Delivered, External, sending, relayed
  <2>2. called \subseteq Prompts
    BY DEF StateTypes, SessionAgentTypeOK
  <2> QED BY <2>1, <2>2 DEF Subscribed
<1>11. CASE Take \/ Send
  <2>1. UNCHANGED <<sent, sender, refused, outcome, slot, process, fate, called>>
    BY <1>11 DEF Take, Send, sending, relayed, backend
  <2>2. ~Subscribed => inbox' = inbox
    BY <1>11 DEF Take, Send, Posted, Subscribed
  <2> QED BY <2>1, <2>2 DEF Subscribed
<1>12. CASE Relay
  <2>1. UNCHANGED <<sent, sender, refused, slot, process, fate, called>>
    BY <1>12 DEF Relay, Read, ReturnSendError, sending, backend
  <2>2. outcome' = outcome \/ \E end : outcome' = [outcome EXCEPT ![sent] = end] /\ inbox' = <<>>
    BY <1>12 DEF Relay, Read, ReturnSendError, Return, streams
  <2>3. \A k \in Prompts : k # sent => outcome'[k] = outcome[k]
    BY <2>2 DEF StateTypes, SessionAgentTypeOK
  <2>4. Subscribed
    BY <1>12 DEF Relay, Read, ReturnSendError, Subscribed, StateTypes, SessionAgentTypeOK, Prompts,
                 None
  <2>5. ~Subscribed' => inbox' = <<>>
    BY <2>1, <2>2, <2>4 DEF Subscribed
  <2>6. \A k \in Prompts : k > sent \/ k < sent => k # sent
    BY <1>1
  <2> QED BY <2>1, <2>3, <2>5, <2>6
<1>13. CASE KillEmits \/ Terminate
  BY <1>13 DEF KillEmits, Terminate, Undisturbed, Killed
<1> QED BY <1>2, <1>3, <1>4, <1>5, <1>7, <1>8, <1>10, <1>11, <1>12, <1>13, <1>14, <1>15
        DEF Next, Sender, Program, Pump, Answer, Fail, Interrupted, Crash, Exit, Hang, Ended

\* The program says something that is no own end, or there was one before.
LEMMA SaidEnds ==
    ASSUME StateTypes, EndsInv, NEW event, Says(event),
           UNCHANGED <<sent, outcome, pump, inbox, fate>>,
           \/ event.type \notin Results \cup Exits
           \/ event.type = "clean" /\ InflightAfter(Len(wire))
           \/ ~Own(event)
           \/ fate[sent] \in Ended
    PROVE  EndsInv'
<1>0. PICK n \in Nat : n = Len(wire) + 1
  BY DEF StateTypes
<1>1. /\ \A i \in 1..Len(wire) : wire'[i] = wire[i] /\ (OwnEnding(i)' <=> OwnEnding(i))
      /\ Len(wire') = n /\ n = Len(wire) + 1 /\ Len(wire) \in Nat /\ wire'[n] = event
      /\ OwnEnding(n)' => /\ event.type \in Results \cup Exits /\ Own(event)
                          /\ event.type = "clean" => ~InflightAfter(Len(wire))
  <2>1. Len(wire) \in Nat
    BY DEF StateTypes
  <2> QED BY <1>0, <2>1, SaidBooks
<1>2. \A i \in 1..n : i \in 1..Len(wire) \/ i = n
  BY <1>1
<1>3. (InboxClear' <=> InboxClear) /\ (HandClear' <=> HandClear) /\ (Subscribed' <=> Subscribed)
  BY DEF InboxClear, HandClear, OwnEnd, Own, Subscribed
<1> SUFFICES ASSUME Subscribed PROVE EndsInv'
  BY <1>3 DEF EndsInv
<1>4. OwnEnding(n)' => fate[sent] \in Ended
  BY <1>1
<1>5. NoEnd' <=> NoEnd
  <2>1. WireClear' => WireClear
    BY <1>1 DEF WireClear
  <2>2. NoEnd => WireClear'
    BY <1>1, <1>2, <1>4 DEF WireClear, NoEnd, EndsInv
  <2> QED BY <1>3, <2>1, <2>2 DEF NoEnd
<1>6. ASSUME NEW i \in 1..Len(wire'), OwnEnding(i)', InboxClear, HandClear,
             \A j \in 1..(i - 1) : ~OwnEnding(j)'
      PROVE  fate[sent] \in FateOfEvent(wire'[i])
  <2>1. \A j \in 1..(i - 1) : j \in 1..Len(wire)
    BY <1>1
  <2>2. CASE i \in 1..Len(wire)
    BY <1>1, <1>6, <2>1, <2>2 DEF EndsInv
  <2>3. CASE i = n
    <3>1. WireClear
      BY <1>1, <1>6, <2>3 DEF WireClear
    <3> QED BY <1>4, <1>6, <2>3, <3>1 DEF EndsInv, NoEnd
  <2> QED BY <1>1, <1>2, <2>2, <2>3
<1>7. /\ \A i \in 1..Len(inbox) :
            inbox[i].type \in EndTypes /\ (\A j \in 1..(i - 1) : inbox[j].type \notin EndTypes)
               => fate[sent] \in FateOfEvent(inbox[i])
      /\ \A i \in 1..Len(pump.hand) :
            OwnEnd(pump.hand[i]) /\ InboxClear => fate[sent] \in FateOfEvent(pump.hand[i])
  BY DEF EndsInv
<1>8. \A i \in 1..Len(pump.hand) : OwnEnd(pump.hand[i])' <=> OwnEnd(pump.hand[i])
  BY DEF OwnEnd, Own
<1>9. NoEnd <=> fate[sent] \notin Ended
  BY DEF EndsInv
<1>10. /\ \A i \in 1..Len(inbox') :
             inbox'[i].type \in EndTypes /\ (\A j \in 1..(i - 1) : inbox'[j].type \notin EndTypes)
                => fate'[sent'] \in FateOfEvent(inbox'[i])
       /\ \A i \in 1..Len(pump'.hand) :
             OwnEnd(pump.hand[i])' /\ InboxClear' => fate'[sent'] \in FateOfEvent(pump'.hand[i])
  BY <1>3, <1>7, <1>8
<1>11. \A i \in 1..Len(wire') :
          OwnEnding(i)' /\ InboxClear' /\ HandClear' /\ (\A j \in 1..(i - 1) : ~OwnEnding(j)')
             => fate'[sent'] \in FateOfEvent(wire'[i])
  BY <1>3, <1>6
<1> QED BY <1>5, <1>9, <1>10, <1>11 DEF EndsInv

\* The program says the first end of the last prompt.
LEMMA SaidEnd ==
    ASSUME StateTypes, NoEnd, NEW event, Says(event), UNCHANGED <<sent, outcome, pump, inbox>>,
           event.type \in Results, event.type = "clean" => ~InflightAfter(Len(wire)), Own(event),
           fate'[sent] \in Ended, fate'[sent] \in FateOfEvent(event)
    PROVE  EndsInv'
<1>0. PICK n \in Nat : n = Len(wire) + 1
  BY DEF StateTypes
<1>1. /\ \A i \in 1..Len(wire) : wire'[i] = wire[i] /\ (OwnEnding(i)' <=> OwnEnding(i))
      /\ Len(wire') = n /\ n = Len(wire) + 1 /\ Len(wire) \in Nat /\ wire'[n] = event
      /\ OwnEnding(n)'
  <2>1. Len(wire) \in Nat
    BY DEF StateTypes
  <2> QED BY <1>0, <2>1, SaidBooks
<1>2. \A i \in 1..n : i \in 1..Len(wire) \/ i = n
  BY <1>1
<1>3. InboxClear' /\ HandClear'
  BY DEF NoEnd, InboxClear, HandClear, OwnEnd, Own
<1>4. ~WireClear'
  BY <1>1 DEF WireClear
<1>5. \A i \in 1..Len(wire') : OwnEnding(i)' => wire'[i] = event
  BY <1>1, <1>2 DEF NoEnd, WireClear
<1>6. /\ \A i \in 1..Len(inbox') : inbox'[i].type \notin EndTypes
      /\ \A i \in 1..Len(pump.hand)' : ~OwnEnd(pump.hand[i])'
  BY <1>3 DEF InboxClear, HandClear
<1> QED BY <1>3, <1>4, <1>5, <1>6 DEF EndsInv, NoEnd, FateOfEvent

\* What is said of a workflow is what the pump will know.
LEMMA SaidWire ==
    ASSUME StateTypes, WireInv, NEW event, Says(event), UNCHANGED pump, event.type \notin Exits,
           InWorkflow' <=> event.type = "task" \/ (InWorkflow /\ event.type # "taskend"),
           \A k \in Prompts : fate[k] # "none" => fate'[k] # "none",
           event.type \in Results => event.prompt \in Prompts /\ fate'[event.prompt] # "none"
    PROVE  WireInv'
<1>1. /\ \A i \in 1..Len(wire) : wire'[i] = wire[i]
      /\ Len(wire') = Len(wire) + 1 /\ Len(wire) \in Nat /\ wire'[Len(wire) + 1] = event
      /\ \A n \in Nat : n = Len(wire) + 1 =>
            (InflightAfter(n)' <=> \/ event.type = "task"
                                   \/ InflightAfter(Len(wire)) /\ event.type # "taskend")
  BY SaidBooks DEF StateTypes
<1>2. \A i \in 1..Len(wire') : i \in 1..Len(wire) \/ i = Len(wire) + 1
  BY <1>1
<1>3. \A i \in 1..Len(wire') : wire'[i].type \notin Exits
  BY <1>1, <1>2 DEF WireInv
<1>4. \A n \in Nat : n = Len(wire') => (InflightAfter(n)' <=> InWorkflow')
  BY <1>1 DEF WireInv
<1>5. InflightAfter(Len(wire))' <=> InWorkflow'
  BY <1>1, <1>4
<1>6. \A i \in 1..Len(wire') : wire'[i].type \in Results =>
         wire'[i].prompt \in Prompts /\ fate'[wire'[i].prompt] # "none"
  BY <1>1, <1>2 DEF WireInv
<1>7. \A i \in 1..Len(pump'.hand) : pump'.hand[i].type \in EndTypes =>
         pump'.hand[i].prompt \in Prompts /\ fate'[pump'.hand[i].prompt] # "none"
  BY DEF WireInv
<1> QED BY <1>3, <1>5, <1>6, <1>7 DEF WireInv

\* Nothing between the program and the relay changes, and no prompt ends or has ended.
LEMMA QuietEnds ==
    ASSUME StateTypes, Healthy, HealthyInv, UNCHANGED <<sent, outcome, wire, pump, inbox>>,
           \A k \in Prompts : fate'[k] # fate[k] =>
              fate[k] = "none" /\ outcome[k] = "none" /\ fate'[k] \notin Ended,
           InWorkflow' <=> InWorkflow
    PROVE  WireInv' /\ EndsInv' /\ EndsAreOwn'
<1>1. \A i \in 1..Len(wire) : OwnEnding(i)' <=> OwnEnding(i)
  BY SameBooks
<1>2. Len(wire) \in Nat /\ (Subscribed' <=> Subscribed)
  BY DEF StateTypes, Subscribed
<1>3. InflightAfter(Len(wire))' <=> InflightAfter(Len(wire))
  BY <1>2 DEF InflightAfter
<1>4. WireInv'
  BY <1>3 DEF HealthyInv, WireInv
<1>7. EndsAreOwn'
  BY DEF HealthyInv, EndsAreOwn, Healthy
<1>5. /\ InboxClear' <=> InboxClear
      /\ HandClear' <=> HandClear
      /\ \A i \in 1..Len(pump.hand) : OwnEnd(pump.hand[i])' <=> OwnEnd(pump.hand[i])
      /\ WireClear' <=> WireClear
  BY <1>1 DEF InboxClear, HandClear, WireClear, OwnEnd, Own
<1>6. EndsInv'
  <2> SUFFICES ASSUME Subscribed PROVE EndsInv'
    BY <1>2 DEF EndsInv
  <2>1. sent \in Prompts
    BY DEF Subscribed, StateTypes, SessionAgentTypeOK, Prompts, None
  <2>2. CASE fate'[sent] # fate[sent]
    <3>1. fate[sent] \notin Ended /\ fate'[sent] \notin Ended
      BY <2>1, <2>2 DEF Ended
    <3>2. NoEnd
      BY <3>1 DEF HealthyInv, EndsInv
    <3>3. NoEnd'
      BY <1>5, <3>2 DEF NoEnd
    <3> QED BY <3>1, <3>3 DEF EndsInv, NoEnd, InboxClear, HandClear, WireClear
  <2>3. CASE fate'[sent] = fate[sent]
    <3>1. \A i \in 1..Len(wire) : \A j \in 1..(i - 1) : j \in 1..Len(wire)
      BY <1>2
    <3> QED BY <1>1, <1>5, <2>3, <3>1 DEF HealthyInv, EndsInv, NoEnd, FateOfEvent
  <2> QED BY <2>2, <2>3
<1> QED BY <1>4, <1>6, <1>7

\* What the senders do to a running program.
LEMMA SendersStep ==
    ASSUME StateTypes, PromptsInv, Healthy, Healthy', HealthyInv,
           Subscribe \/ \E k \in Prompts : Sender(k)
    PROVE  HealthyInv'
<1>1. CASE Subscribe
  <2>1. /\ sent' = sent + 1 /\ inbox' = <<>> /\ ~Subscribed /\ sent' \in Prompts /\ sent' # None
        /\ sender' = [sender EXCEPT ![sent + 1] = "ready"]
        /\ UNCHANGED <<refused, outcome, status, program, process, wire, pump, kill, fate, called>>
    BY <1>1, SessionAgentAssumption
       DEF Subscribe, Subscribed, relayed, backend, StateTypes, SessionAgentTypeOK, Prompts, None
  <2>2. fate[sent'] = "none"
    BY <2>1 DEF PromptsInv, StateTypes, SessionAgentTypeOK
  <2>3. HandClear'
    BY <2>1, <2>2 DEF HealthyInv, WireInv, HandClear, OwnEnd, Own, Prompts, None
  <2>4. WireClear'
    <3>1. \A i \in 1..Len(wire) : Ending(i)' <=> Ending(i)
      BY <2>1, SameBooks
    <3>2. \A i \in 1..Len(wire) : Ending(i) => wire[i].prompt \notin {None, sent'}
      BY <2>1, <2>2 DEF HealthyInv, WireInv, Ending, Prompts, None
    <3> QED BY <2>1, <3>1, <3>2 DEF WireClear, OwnEnding, Own
  <2>5. InflightAfter(Len(wire))' <=> InflightAfter(Len(wire))
    BY <2>1 DEF InflightAfter
  <2>6. WireInv'
    BY <2>1, <2>5 DEF HealthyInv, WireInv, InWorkflow
  <2>7. sender'[sent'] = "ready"
    BY <2>1 DEF StateTypes, SessionAgentTypeOK
  <2>8. ProgramInv'
    <3>1. sent \in Prompts => fate[sent] # "sent"
      BY <2>1, ReturnedIsEnded DEF Ended
    <3>2. program.stdin = <<>> /\ (program.doing # None => program.replied)
      BY <3>1 DEF HealthyInv, ProgramInv, StateTypes, SessionAgentTypeOK
    <3> QED BY <2>1, <2>7, <3>2 DEF HealthyInv, ProgramInv
  <2>9. EndsAreOwn'
    BY <2>1 DEF HealthyInv, EndsAreOwn, Healthy
  <2>10. EndsInv'
    BY <2>1, <2>2, <2>3, <2>4 DEF EndsInv, NoEnd, InboxClear, HandClear, WireClear, Ended
  <2> QED BY <2>6, <2>8, <2>9, <2>10 DEF HealthyInv
<1>2. ASSUME NEW k \in Prompts, SetRunning(k) PROVE HealthyInv'
  <2>1. /\ status' = "running"
        /\ UNCHANGED <<sent, refused, outcome, program, wire, pump, inbox, fate, called>>
    BY <1>2 DEF SetRunning, relayed, backend, streams
  <2>2. WireInv' /\ EndsInv' /\ EndsAreOwn'
    BY <2>1, QuietEnds DEF InWorkflow
  <2>3. ProgramInv'
    BY <2>1 DEF HealthyInv, ProgramInv
  <2> QED BY <2>2, <2>3 DEF HealthyInv
<1>3. ASSUME NEW k \in Prompts, EnsureAwake(k) PROVE HealthyInv'
  <2>1. /\ sender[k] = "wake" /\ sender' = [sender EXCEPT ![k] = "deliver"]
        /\ UNCHANGED <<sent, refused, outcome, status, program, wire, pump, inbox, fate, called>>
    BY <1>3 DEF EnsureAwake, relayed, backend, streams, PromptsInv
  <2>2. WireInv' /\ EndsInv' /\ EndsAreOwn'
    BY <2>1, QuietEnds DEF InWorkflow
  <2>3. \A j \in Prompts : j = sent /\ sender'[j] \notin {"none", "ready"}
                            /\ fate[j] \in {"none", "sent"} => status = "running"
    <3>1. \A j \in Prompts : sender'[j] \notin {"none", "ready"} => sender[j] \notin {"none", "ready"}
      BY <2>1 DEF StateTypes, SessionAgentTypeOK
    <3> QED BY <3>1 DEF HealthyInv, ProgramInv
  <2>4. ProgramInv'
    BY <2>1, <2>3 DEF HealthyInv, ProgramInv
  <2> QED BY <2>2, <2>4 DEF HealthyInv
<1>4. ASSUME NEW k \in Prompts, Deliver(k) PROVE HealthyInv'
  <2>1. k = sent /\ fate[k] = "none" /\ k \notin called /\ sender[k] = "deliver"
    BY <1>4, SenderIsLast DEF Deliver
  <2>2. \A j \in Prompts : fate[j] # "sent"
    BY <2>1, SentIsLast
  <2>3. program.stdin = <<>> /\ (program.doing # None => program.replied)
    BY <2>1, <2>2 DEF HealthyInv, ProgramInv
  <2>4. /\ program' = [program EXCEPT !.stdin = Append(@, k)]
        /\ fate' = [fate EXCEPT ![k] = "sent"]
        /\ sender' = [sender EXCEPT ![k] = "over"]
        /\ UNCHANGED <<sent, refused, outcome, status, wire, pump, inbox, called>>
    BY <1>4 DEF Deliver, Healthy, relayed, streams
  <2>5. program'.stdin = <<k>> /\ program'.doing = program.doing
        /\ program'.replied = program.replied /\ program'.workflow = program.workflow
    BY <2>3, <2>4 DEF StateTypes, ProgramState
  <2>6. fate'[k] = "sent" /\ \A j \in Prompts : j # k => fate'[j] = fate[j]
    BY <2>4 DEF StateTypes, SessionAgentTypeOK
  <2>7. outcome[k] = "none"
    BY <2>1 DEF HealthyInv, EndsAreOwn, Healthy, StateTypes, SessionAgentTypeOK
  <2>8. WireInv' /\ EndsInv' /\ EndsAreOwn'
    BY <2>1, <2>4, <2>5, <2>6, <2>7, QuietEnds DEF InWorkflow, Ended
  <2>9. status = "running"
    BY <2>1 DEF HealthyInv, ProgramInv
  <2>11. program.replied => program.doing \in Prompts /\ program.doing # k
                            /\ fate[program.doing] \in Ended
    BY <2>1, RepliedIsEnded DEF Ended
  <2>10. ProgramInv'
    <3>1. program'.replied => program'.doing # None /\ fate'[program'.doing] \in Ended
      BY <2>5, <2>6, <2>11 DEF Prompts, None
    <3>2. program'.stdin # <<>>
      BY <2>5
    <3>3. \A j \in Prompts : fate'[j] \in Ended \cup {"none", "sent"}
      BY <2>6 DEF HealthyInv, ProgramInv
    <3> QED BY <2>1, <2>3, <2>4, <2>5, <2>6, <2>9, <3>1, <3>2, <3>3 DEF HealthyInv, ProgramInv
  <2> QED BY <2>8, <2>10 DEF HealthyInv
<1> QED BY <1>1, <1>2, <1>3, <1>4 DEF Sender

\* What a running program does.
LEMMA ProgramStep ==
    ASSUME StateTypes, PromptsInv, Healthy, Healthy', HealthyInv, Program
    PROVE  HealthyInv'
<1>1. CASE Begin
  <2>1. /\ program.stdin # <<>> /\ program.doing = None
        /\ program' = [program EXCEPT !.stdin = Tail(@), !.doing = Head(program.stdin),
                                      !.call = "none",
                                      !.workflow = IF InWorkflow THEN "running" ELSE "none"]
        /\ UNCHANGED <<sent, sender, refused, outcome, status, wire, pump, inbox, fate, called>>
    BY <1>1 DEF Begin, External, sending, relayed
  <2>2. /\ program.stdin = <<sent>> /\ sent \in Prompts /\ fate[sent] = "sent"
        /\ sent \notin called /\ ~program.replied
    BY <2>1 DEF HealthyInv, ProgramInv
  <2>3. Head(program.stdin) = sent /\ Tail(program.stdin) = <<>>
    BY <2>2
  <2>4. program'.stdin = <<>> /\ program'.doing = sent /\ program'.call = "none"
        /\ program'.replied = program.replied /\ (InWorkflow' <=> InWorkflow)
    BY <2>1, <2>3 DEF StateTypes, ProgramState, InWorkflow
  <2>5. WireInv' /\ EndsInv' /\ EndsAreOwn'
    BY <2>1, <2>4, QuietEnds
  <2>6. \A j \in Prompts : fate[j] = "sent" => j = sent
    BY SentIsLast
  <2>7. ProgramInv'
    BY <2>1, <2>2, <2>4, <2>6 DEF HealthyInv, ProgramInv
  <2> QED BY <2>5, <2>7 DEF HealthyInv
\* What is said while the program works on the last prompt, and is no end.
<1>2. ASSUME NEW event, Says(event), program.doing # None, ~program.replied,
             UNCHANGED <<sent, sender, refused, outcome, status, pump, inbox, fate>>,
             event.type \notin Exits,
             \/ event.type \notin Results
             \/ event.type = "clean" /\ InWorkflow /\ event.prompt = program.doing,
             InWorkflow' <=> event.type = "task" \/ (InWorkflow /\ event.type # "taskend"),
             program'.stdin = program.stdin, program'.doing = program.doing,
             program'.replied = program.replied,
             \/ UNCHANGED called /\ program'.call = program.call
             \/ called' = called \cup {program.doing} /\ program'.call # "none"
      PROVE  HealthyInv'
  <2>1. /\ program.doing = sent /\ sent \in Prompts /\ fate[sent] = "sent" /\ Subscribed
        /\ program.stdin = <<>>
        /\ sent \in called <=> program.call # "none"
    BY <1>2, WorksOnLast
  <2>2. InflightAfter(Len(wire)) <=> InWorkflow
    BY DEF HealthyInv, WireInv
  <2>3. EndsInv'
    BY <1>2, <2>2, SaidEnds DEF HealthyInv
  <2>4. WireInv'
    BY <1>2, <2>1, SaidWire DEF HealthyInv
  <2>5. EndsAreOwn'
    BY <1>2 DEF HealthyInv, EndsAreOwn, Healthy
  <2>6. sent \in called' <=> program'.call # "none"
    BY <1>2, <2>1
  <2>7. ProgramInv'
    BY <1>2, <2>1, <2>6 DEF HealthyInv, ProgramInv
  <2> QED BY <2>3, <2>4, <2>5, <2>7 DEF HealthyInv
<1>3. CASE CallTool \/ EndTool
  <2>1. PICK type \in ToolTypes :
           /\ Says(Of(program.doing, type)) /\ program.doing # None /\ ~program.replied
           /\ program' = [program EXCEPT !.call = IF type = "call" THEN "open" ELSE "ended"]
           /\ called' = called \cup {program.doing}
           /\ UNCHANGED <<sent, sender, refused, outcome, status, pump, inbox, fate>>
    <3>1. CASE CallTool
      <4>1. program' = [program EXCEPT !.call = IF "call" = "call" THEN "open" ELSE "ended"]
        BY <3>1 DEF CallTool
      <4> QED BY <3>1, <4>1 DEF CallTool, Works, External, sending, relayed, ToolTypes
    <3>2. CASE EndTool
      <4>1. program' = [program EXCEPT !.call = IF "result" = "call" THEN "open" ELSE "ended"]
        BY <3>2 DEF EndTool
      <4>2. program.doing \in called
        BY <3>2, WorksOnLast DEF EndTool, Works
      <4>3. called' = called \cup {program.doing}
        BY <3>2, <4>2 DEF EndTool
      <4> QED BY <3>2, <4>1, <4>3 DEF EndTool, Works, External, sending, relayed, ToolTypes
    <3> QED BY <1>3, <3>1, <3>2
  <2>2. Of(program.doing, type).type = type
    BY DEF Of
  <2>3. type \notin Results \cup Exits /\ type \notin {"task", "taskend"}
    BY DEF ToolTypes, Results, Exits
  <2>4. program'.stdin = program.stdin /\ program'.doing = program.doing
        /\ program'.replied = program.replied /\ program'.call # "none"
        /\ (InWorkflow' <=> InWorkflow)
    BY <2>1 DEF StateTypes, ProgramState, InWorkflow
  <2> QED BY <1>2, <2>1, <2>2, <2>3, <2>4
<1>4. CASE StartWorkflow
  <2>1. program' = [program EXCEPT !.workflow = "running"]
        /\ Says(Plain("task")) /\ program.doing # None /\ ~program.replied
        /\ UNCHANGED <<sent, sender, refused, outcome, status, pump, inbox, fate, called>>
    BY <1>4 DEF StartWorkflow, Works, External, sending, relayed
  <2>2. program'.stdin = program.stdin /\ program'.doing = program.doing
        /\ program'.replied = program.replied /\ program'.call = program.call /\ InWorkflow'
    BY <2>1 DEF StateTypes, ProgramState, InWorkflow
  <2>3. Plain("task").type = "task" /\ "task" \notin Results \cup Exits
    BY DEF Plain, Results, Exits
  <2> QED BY <1>2, <2>1, <2>2, <2>3
<1>5. CASE Launch
  <2>1. program' = [program EXCEPT !.workflow = "launched"] /\ InWorkflow
        /\ Says(Of(program.doing, "clean")) /\ program.doing # None /\ ~program.replied
        /\ UNCHANGED <<sent, sender, refused, outcome, status, pump, inbox, fate, called>>
    BY <1>5 DEF Launch, Works, External, sending, relayed
  <2>2. program'.stdin = program.stdin /\ program'.doing = program.doing
        /\ program'.replied = program.replied /\ program'.call = program.call /\ InWorkflow'
    BY <2>1 DEF StateTypes, ProgramState, InWorkflow
  <2>3. /\ Of(program.doing, "clean").type = "clean" /\ "clean" \notin Exits
        /\ Of(program.doing, "clean").prompt = program.doing
    BY DEF Of, Exits
  <2> QED BY <1>2, <2>1, <2>2, <2>3
<1>6. CASE EndWorkflow
  <2> DEFINE event == Plain("taskend")
  <2>1. program' = [program EXCEPT !.workflow = "over"] /\ Says(event)
        /\ UNCHANGED <<sent, sender, refused, outcome, status, pump, inbox, fate, called>>
    BY <1>6 DEF EndWorkflow, External, sending, relayed
  <2>2. program'.stdin = program.stdin /\ program'.doing = program.doing
        /\ program'.replied = program.replied /\ program'.call = program.call /\ ~InWorkflow'
    BY <2>1 DEF StateTypes, ProgramState, InWorkflow
  <2>3. event.type = "taskend" /\ event.type \notin Results \cup Exits
    BY DEF Plain, Results, Exits
  <2> HIDE DEF event
  <2>4. WireInv'
    BY <2>1, <2>2, <2>3, SaidWire DEF HealthyInv
  <2>5. EndsInv'
    BY <2>1, <2>3, SaidEnds DEF HealthyInv
  <2>6. EndsAreOwn'
    BY <2>1 DEF HealthyInv, EndsAreOwn, Healthy
  <2>7. ProgramInv'
    BY <2>1, <2>2 DEF HealthyInv, ProgramInv
  <2> QED BY <2>4, <2>5, <2>6, <2>7 DEF HealthyInv
\* The first end of the last prompt.
<1>7. ASSUME NEW type \in Results, NEW end, end \in FateOfEvent(Of(sent, type)),
             program.doing # None, ~program.replied,
             Says(Of(program.doing, type)), type = "clean" => ~InWorkflow,
             fate' = [fate EXCEPT ![program.doing] = end],
             UNCHANGED <<sent, sender, refused, outcome, status, pump, inbox, called>>,
             program'.stdin = program.stdin, InWorkflow' <=> InWorkflow,
             \/ program'.doing = None /\ ~program'.replied
             \/ program'.doing = program.doing /\ program'.replied
      PROVE  HealthyInv'
  <2> DEFINE event == Of(program.doing, type)
  <2>1. /\ program.doing = sent /\ sent \in Prompts /\ fate[sent] = "sent" /\ Subscribed /\ NoEnd
        /\ program.stdin = <<>>
    BY <1>7, WorksOnLast
  <2>2. event.type = type /\ event.prompt = sent /\ Own(event) /\ event = Of(sent, type)
    BY <2>1 DEF Of, Own
  <2>3. end \in Ended
    BY <1>7 DEF FateOfEvent, Of, Results, Ended
  <2> HIDE DEF event
  <2>4. fate'[sent] = end /\ \A k \in Prompts : k # sent => fate'[k] = fate[k]
    BY <1>7, <2>1 DEF StateTypes, SessionAgentTypeOK
  <2>5. InflightAfter(Len(wire)) <=> InWorkflow
    BY DEF HealthyInv, WireInv
  <2>6. type \notin Exits /\ type \notin {"task", "taskend"}
    BY DEF Results, Exits
  <2>7. EndsInv'
    <3>1. Says(event)
      BY <1>7 DEF event
    <3>2. fate'[sent] \in FateOfEvent(event) /\ fate'[sent] \in Ended
      BY <1>7, <2>2, <2>3, <2>4
    <3> QED BY <1>7, <2>1, <2>2, <2>5, <3>1, <3>2, SaidEnd
  <2>8. WireInv'
    <3>1. Says(event)
      BY <1>7 DEF event
    <3>2. \A k \in Prompts : fate[k] # "none" => fate'[k] # "none"
      BY <2>3, <2>4 DEF Ended
    <3>3. fate'[sent] # "none"
      BY <2>3, <2>4 DEF Ended
    <3> QED BY <1>7, <2>1, <2>2, <2>6, <3>1, <3>2, <3>3, SaidWire DEF HealthyInv
  <2>9. EndsAreOwn'
    BY <1>7, <2>1, <2>4 DEF HealthyInv, EndsAreOwn, Healthy, Subscribed
  <2>10. \A j \in Prompts : fate'[j] # "sent"
    <3>1. \A j \in Prompts : fate[j] = "sent" => j = sent
      BY SentIsLast
    <3> QED BY <2>3, <2>4, <3>1 DEF Ended
  <2>11. \A j \in Prompts : fate'[j] \in Ended \cup {"none"}
    BY <2>3, <2>4, <2>10 DEF HealthyInv, ProgramInv
  <2>12. /\ program'.stdin = <<>>
         /\ program'.replied => program'.doing # None /\ fate'[program'.doing] \in Ended
         /\ program'.doing # None => program'.replied
    BY <1>7, <2>1, <2>3, <2>4
  <2>13. \A k \in Prompts : ~(k = sent /\ fate'[k] \in {"none", "sent"})
    BY <2>3, <2>4 DEF Ended
  <2>14. ProgramInv'
    BY <1>7, <2>10, <2>11, <2>12, <2>13 DEF HealthyInv, ProgramInv
  <2> QED BY <2>7, <2>8, <2>9, <2>14 DEF HealthyInv
<1>8. CASE Reply
  <2>1. /\ program.doing # None /\ ~program.replied /\ ~InWorkflow
        /\ program' = [program EXCEPT !.replied = TRUE]
        /\ Says(Of(program.doing, "clean"))
        /\ fate' = [fate EXCEPT ![program.doing] = "answered"]
        /\ UNCHANGED <<sent, sender, refused, outcome, status, pump, inbox, called>>
    BY <1>8 DEF Reply, Works, External, sending, relayed
  <2>2. program'.stdin = program.stdin /\ program'.doing = program.doing /\ program'.replied
        /\ (InWorkflow' <=> InWorkflow)
    BY <2>1 DEF StateTypes, ProgramState, InWorkflow
  <2>3. "clean" \in Results /\ "answered" \in FateOfEvent(Of(sent, "clean"))
    BY DEF Results, FateOfEvent, Of
  <2> QED BY <1>7, <2>1, <2>2, <2>3
\* The result frame: the first end, or a late one.
<1>9. ASSUME NEW type \in Results, NEW end, end \in FateOfEvent(Of(sent, type)), Ends(type, end),
             type = "clean" => ~InWorkflow
      PROVE  HealthyInv'
  <2> DEFINE event == Of(program.doing, type)
  <2>1. /\ program.doing # None
        /\ program' = [program EXCEPT !.doing = None, !.interrupted = FALSE, !.replied = FALSE]
        /\ Says(event)
        /\ fate' = [fate EXCEPT ![program.doing] = IF program.replied THEN @ ELSE end]
        /\ UNCHANGED <<sent, sender, refused, outcome, status, pump, inbox, called>>
    BY <1>9 DEF Ends, External, sending, relayed
  <2>2. program'.stdin = program.stdin /\ program'.doing = None /\ ~program'.replied
        /\ (InWorkflow' <=> InWorkflow)
    BY <2>1 DEF StateTypes, ProgramState, InWorkflow
  <2>3. CASE ~program.replied
    <3>1. fate' = [fate EXCEPT ![program.doing] = end]
      BY <2>1, <2>3
    <3> QED BY <1>7, <1>9, <2>1, <2>2, <2>3, <3>1
  <2>4. CASE program.replied
    <3>1. program.doing \in Prompts /\ fate[program.doing] \in Ended
      BY <2>4, RepliedIsEnded
    <3>2. event.type = type /\ event.prompt = program.doing
      BY DEF Of
    <3> HIDE DEF event
    <3>3. fate' = fate
      BY <2>1, <2>4 DEF StateTypes, SessionAgentTypeOK
    <3>4. Own(event) => fate[sent] \in Ended
      BY <3>1, <3>2 DEF Own, Prompts, None
    <3>5. EndsInv'
      BY <2>1, <3>3, <3>4, SaidEnds DEF HealthyInv
    <3>6. type \notin Exits /\ type \notin {"task", "taskend"}
      BY DEF Results, Exits
    <3>7. fate[program.doing] # "none"
      BY <3>1 DEF Ended
    <3>8. WireInv'
      BY <2>1, <2>2, <3>1, <3>2, <3>3, <3>6, <3>7, SaidWire DEF HealthyInv
    <3>9. EndsAreOwn'
      BY <2>1, <3>3 DEF HealthyInv, EndsAreOwn, Healthy
    <3>10. \A k \in Prompts : fate[k] = "sent" => program.stdin # <<>>
      BY <2>4 DEF HealthyInv, ProgramInv
    <3>11. ProgramInv'
      BY <2>1, <2>2, <3>3, <3>10 DEF HealthyInv, ProgramInv
    <3> QED BY <3>5, <3>8, <3>9, <3>11 DEF HealthyInv
  <2> QED BY <2>3, <2>4
<1>10. CASE Answer
  <2>1. "clean" \in Results /\ "answered" \in FateOfEvent(Of(sent, "clean"))
    BY DEF Results, FateOfEvent, Of
  <2> QED BY <1>9, <1>10, <2>1 DEF Answer
<1>11. CASE Fail
  <2>1. "error" \in Results /\ "failed" \in FateOfEvent(Of(sent, "error"))
    BY DEF Results, FateOfEvent, Of
  <2> QED BY <1>9, <1>11, <2>1 DEF Fail
<1>12. CASE Interrupted
  <2>1. "cancelled" \in Results /\ "cancelled" \in FateOfEvent(Of(sent, "cancelled"))
    BY DEF Results, FateOfEvent, Of
  <2> QED BY <1>9, <1>12, <2>1 DEF Interrupted
<1>13. CASE Crash \/ Exit \/ Hang
  BY <1>13 DEF Crash, Exit, Hang, ReaderEnds, Healthy
<1> QED BY <1>1, <1>3, <1>4, <1>5, <1>6, <1>8, <1>10, <1>11, <1>12, <1>13 DEF Program

\* The pump takes an event from the wire: an end goes to its hand.
LEMMA TakeStep ==
    ASSUME StateTypes, PromptsInv, TracksInv, Healthy, HealthyInv, Take, ~strayed'
    PROVE  HealthyInv'
<1> DEFINE event == wire[1]
<1>1. /\ Head(wire) = event /\ event \in Event /\ Len(pump.hand) = 0
      /\ UNCHANGED <<sent, outcome, refused, sender, program, process, kill, fate, called>>
      /\ status' = StatusAfter(event)
  BY TakenPump DEF Take, sending, relayed, backend
<1>2. /\ Len(wire') = Len(wire) - 1 /\ Len(wire) \in Nat /\ 1 \in 1..Len(wire)
      /\ \A i \in 1..Len(wire') :
            /\ i + 1 \in 1..Len(wire) /\ wire'[i] = wire[i + 1]
            /\ OwnEnding(i)' <=> OwnEnding(i + 1)
      /\ \A i \in 1..Len(wire) : i # 1 => i - 1 \in 1..Len(wire') /\ (i - 1) + 1 = i
      /\ OwnEnding(1) <=> Terminal(event) /\ Own(event)
  BY <1>1, TakenBooks
<1>3. InflightAfter(Len(wire))' <=> InflightAfter(Len(wire))
  <2>1. \A n \in 0..Len(wire') : n = Len(wire') => (InflightAfter(n)' <=> InflightAfter(n + 1))
    BY TakenBooks
  <2>2. Len(wire') \in 0..Len(wire') /\ Len(wire') + 1 = Len(wire)
    BY <1>2
  <2>3. \A n : n = Len(wire') => (InflightAfter(n)' <=> InflightAfter(Len(wire))')
    BY DEF InflightAfter
  <2> QED BY <2>1, <2>2, <2>3
<1>4. /\ \A i \in 1..Len(inbox') : inbox'[i].type \in EndTypes =>
            i \in 1..Len(inbox) /\ inbox'[i] = inbox[i]
      /\ \A i \in 1..Len(inbox) : i \in 1..Len(inbox') /\ inbox'[i] = inbox[i]
      /\ Len(inbox) \in Nat
  BY TakenInbox DEF TracksInv, Of, EndTypes
<1>5. /\ Subscribed' <=> Subscribed
      /\ InboxClear' <=> InboxClear
      /\ \A frame : OwnEnd(frame)' <=> OwnEnd(frame)
  <2>1. InboxClear' <=> InboxClear
    BY <1>4 DEF InboxClear
  <2> QED BY <1>1, <2>1 DEF Subscribed, OwnEnd, Own
<1>6. HandClear
  BY <1>1 DEF HandClear
<1>7. EndsAreOwn'
  BY <1>1 DEF HealthyInv, EndsAreOwn, Healthy
<1> HIDE DEF event
\* The frames that the relay has.
<1>8. ASSUME Subscribed, NEW i \in 1..Len(inbox'), inbox'[i].type \in EndTypes,
             \A j \in 1..(i - 1) : inbox'[j].type \notin EndTypes
      PROVE  fate[sent] \in FateOfEvent(inbox'[i])
  <2>1. i \in 1..Len(inbox) /\ inbox'[i] = inbox[i]
    BY <1>4, <1>8
  <2>2. \A j \in 1..(i - 1) : inbox[j].type \notin EndTypes
    BY <1>4, <1>8, <2>1
  <2> QED BY <1>8, <2>1, <2>2 DEF HealthyInv, EndsInv
<1>9. CASE Terminal(event)
  <2>1. event.type \in Results /\ event.prompt \in Prompts /\ fate[event.prompt] # "none"
    BY <1>2, <1>9 DEF HealthyInv, WireInv, Terminal, event
  <2>2. PICK end \in EndTypes :
           /\ pump'.hand = <<Of(event.prompt, end)>>
           /\ FateOfEvent(event) \subseteq FateOfEvent(Of(event.prompt, end))
    <3>1. \/ /\ pump'.hand = <<Of(event.prompt, "error")>>
             /\ event.type \notin {"clean", "cancelled"}
          \/ pump'.hand = <<Of(event.prompt, "finish")>> /\ event.type # "error"
      BY <1>9, TakenPump DEF event
    <3> QED BY <2>1, <3>1 DEF FateOfEvent, Of, Results, EndTypes
  <2>3. Of(event.prompt, end).type = end /\ Of(event.prompt, end).prompt = event.prompt
    BY DEF Of
  <2>4. /\ Len(pump'.hand) = 1 /\ pump'.hand[1] = Of(event.prompt, end)
        /\ \A i \in 1..Len(pump'.hand) : i = 1
    BY <2>2
  <2>5. WireInv'
    <3>1. ASSUME NEW i \in 1..Len(wire')
          PROVE  /\ wire'[i].type \notin Exits
                 /\ wire'[i].type \in Results =>
                       wire'[i].prompt \in Prompts /\ fate[wire'[i].prompt] # "none"
      <4>1. i + 1 \in 1..Len(wire) /\ wire'[i] = wire[i + 1]
        BY <1>2
      <4> QED BY <4>1 DEF HealthyInv, WireInv
    <3>2. \A i \in 1..Len(pump'.hand) : pump'.hand[i].prompt \in Prompts
                                        /\ fate[pump'.hand[i].prompt] # "none"
      BY <2>1, <2>3, <2>4
    <3>3. InflightAfter(Len(wire))' <=> InWorkflow'
      BY <1>1, <1>3 DEF HealthyInv, WireInv, InWorkflow
    <3> QED BY <1>1, <3>1, <3>2, <3>3 DEF WireInv
  <2>6. Subscribed => Own(event) /\ OwnEnding(1)
    BY <1>2, <1>9, TakenPump DEF event
  <2>7. Subscribed => fate[sent] \in Ended
    BY <1>2, <2>6 DEF HealthyInv, EndsInv, NoEnd, WireClear
  <2>8. EndsInv'
    <3> SUFFICES ASSUME Subscribed PROVE EndsInv'
      BY <1>5 DEF EndsInv
    <3>1. OwnEnd(Of(event.prompt, end))
      BY <2>3, <2>6 DEF OwnEnd, Own
    <3>2. ~HandClear'
      <4>1. \E i \in 1..Len(pump'.hand) : OwnEnd(pump'.hand[i])
        BY <2>4, <3>1
      <4> QED BY <1>5, <4>1 DEF HandClear
    <3>3. InboxClear => fate[sent] \in FateOfEvent(Of(event.prompt, end))
      <4>1. InboxClear => fate[sent] \in FateOfEvent(event)
        BY <1>2, <1>6, <2>6 DEF HealthyInv, EndsInv, event
      <4> QED BY <2>2, <4>1
    <3>4. \A i \in 1..Len(pump'.hand) : InboxClear => fate[sent] \in FateOfEvent(pump'.hand[i])
      BY <2>4, <3>3
    <3> QED BY <1>1, <1>5, <1>8, <2>7, <3>2, <3>4 DEF EndsInv, NoEnd, FateOfEvent
  <2>9. \A k \in Prompts : k = sent => fate[k] \in Ended
    BY <2>7, ReturnedIsEnded
  <2>10. ProgramInv'
    BY <1>1, <2>9 DEF HealthyInv, ProgramInv, Ended
  <2> QED BY <1>7, <2>5, <2>8, <2>10 DEF HealthyInv
<1>10. CASE ~Terminal(event)
  <2>1. \A i \in 1..Len(pump'.hand) : pump'.hand[i].type \notin EndTypes
    <3>1. \/ event.type \in ToolTypes /\ pump'.hand = <<event>>
          \/ pump'.hand = <<>>
      BY <1>10, TakenPump DEF event
    <3> QED BY <3>1 DEF ToolTypes, EndTypes
  <2>2. HandClear'
    BY <2>1 DEF HandClear, OwnEnd
  <2>3. ~OwnEnding(1)
    BY <1>2, <1>10
  <2>4. WireInv'
    <3>1. ASSUME NEW i \in 1..Len(wire')
          PROVE  /\ wire'[i].type \notin Exits
                 /\ wire'[i].type \in Results =>
                       wire'[i].prompt \in Prompts /\ fate[wire'[i].prompt] # "none"
      <4>1. i + 1 \in 1..Len(wire) /\ wire'[i] = wire[i + 1]
        BY <1>2
      <4> QED BY <4>1 DEF HealthyInv, WireInv
    <3>2. InflightAfter(Len(wire))' <=> InWorkflow'
      BY <1>1, <1>3 DEF HealthyInv, WireInv, InWorkflow
    <3> QED BY <1>1, <2>1, <3>1, <3>2 DEF WireInv
  <2>5. WireClear' <=> WireClear
    <3>1. WireClear => WireClear'
      BY <1>2 DEF WireClear
    <3>2. WireClear' => WireClear
      BY <1>2, <2>3 DEF WireClear
    <3> QED BY <3>1, <3>2
  <2>6. EndsInv'
    <3> SUFFICES ASSUME Subscribed PROVE EndsInv'
      BY <1>5 DEF EndsInv
    <3>1. NoEnd' <=> fate[sent] \notin Ended
      BY <1>5, <1>6, <2>2, <2>5 DEF HealthyInv, EndsInv, NoEnd
    <3>2. ASSUME NEW i \in 1..Len(wire'), OwnEnding(i)', InboxClear,
                 \A j \in 1..(i - 1) : ~OwnEnding(j)'
          PROVE  fate[sent] \in FateOfEvent(wire'[i])
      <4>1. i + 1 \in 1..Len(wire) /\ wire'[i] = wire[i + 1] /\ OwnEnding(i + 1)
        BY <1>2, <3>2
      <4>2. ASSUME NEW j \in 1..((i + 1) - 1) PROVE ~OwnEnding(j)
        <5>1. CASE j = 1
          BY <2>3, <5>1
        <5>2. CASE j # 1
          <6>1. j - 1 \in 1..(i - 1) /\ j - 1 \in 1..Len(wire') /\ (j - 1) + 1 = j
            BY <1>2, <5>2
          <6> QED BY <1>2, <3>2, <6>1
        <5> QED BY <5>1, <5>2
      <4> QED BY <1>6, <3>2, <4>1, <4>2 DEF HealthyInv, EndsInv
    <3>3. \A i \in 1..Len(pump'.hand) : ~OwnEnd(pump'.hand[i])
      BY <2>1 DEF OwnEnd
    <3> QED BY <1>1, <1>5, <1>8, <3>1, <3>2, <3>3 DEF EndsInv, FateOfEvent
  <2>7. ProgramInv'
    BY <1>1, <1>10 DEF HealthyInv, ProgramInv, StatusAfter
  <2> QED BY <1>7, <2>4, <2>6, <2>7 DEF HealthyInv
<1> QED BY <1>9, <1>10

\* The pump tells the relay: the frame in its hand goes to the inbox.
LEMMA SendStep ==
    ASSUME StateTypes, PromptsInv, Healthy, HealthyInv, Send, ~strayed'
    PROVE  HealthyInv'
<1>1. /\ UNCHANGED <<sent, outcome, refused, sender, status, program, process, wire, kill, fate, called>>
      /\ pump' = [pump EXCEPT !.hand = <<>>] /\ inbox' = Posted(pump.hand)
      /\ pump.hand # <<>>
  BY DEF Send, sending, relayed, backend
<1>2. /\ Len(pump'.hand) = 0 /\ pump'.inflight = pump.inflight
      /\ pump.hand = <<pump.hand[1]>> /\ 1 \in 1..Len(pump.hand)
      /\ \A i \in 1..Len(pump.hand) : i = 1
      /\ Len(inbox) \in Nat /\ inbox \in Seq(Frame) /\ pump.hand[1] \in Frame
  <2>1. pump.hand \in Seq(Frame) /\ pump.hand # <<>> /\ Len(pump.hand) <= 1 /\ pump \in PumpState
    BY <1>1 DEF StateTypes, SessionAgentTypeOK, PumpState
  <2>2. Len(pump.hand) = 1
    <3> DEFINE n == Len(pump.hand)
    <3>1. n \in Nat /\ n # 0 /\ n <= 1
      BY <2>1, EmptySeq
    <3> HIDE DEF n
    <3>2. n = 1
      BY <3>1
    <3> QED BY <3>2 DEF n
  <2>3. pump'.hand = <<>> /\ pump'.inflight = pump.inflight
    BY <1>1, <2>1 DEF PumpState
  <2> QED BY <2>1, <2>2, <2>3 DEF StateTypes
<1>3. /\ \A i \in 1..Len(wire) : OwnEnding(i)' <=> OwnEnding(i)
      /\ WireClear' <=> WireClear
  <2>1. \A i \in 1..Len(wire) : OwnEnding(i)' <=> OwnEnding(i)
    BY <1>1, <1>2, SameBooks
  <2> QED BY <1>1, <2>1 DEF WireClear
<1>4. InflightAfter(Len(wire))' <=> InflightAfter(Len(wire))
  BY <1>1, <1>2 DEF InflightAfter
<1>5. WireInv'
  BY <1>1, <1>2, <1>4 DEF HealthyInv, WireInv, InWorkflow
<1>6. EndsAreOwn'
  BY <1>1 DEF HealthyInv, EndsAreOwn, Healthy
<1>7. ProgramInv'
  BY <1>1 DEF HealthyInv, ProgramInv
<1>8. (Subscribed' <=> Subscribed) /\ HandClear'
  BY <1>1, <1>2 DEF Subscribed, HandClear
<1>9. EndsInv'
  <2> SUFFICES ASSUME Subscribed PROVE EndsInv'
    BY <1>8 DEF EndsInv
  <2> DEFINE frame == pump.hand[1]
  <2>1. inbox' = Append(inbox, frame)
    <3>1. inbox' = inbox \o <<frame>>
      <4>1. inbox' = inbox \o pump.hand
        BY <1>1 DEF Posted
      <4> QED BY <1>2, <4>1
    <3>2. Append(inbox, frame) = inbox \o <<frame>>
      BY <1>2, AppendIsConcat
    <3> QED BY <3>1, <3>2
  <2>2. /\ Len(inbox') = Len(inbox) + 1 /\ inbox'[Len(inbox) + 1] = frame
        /\ \A i \in 1..Len(inbox) : inbox'[i] = inbox[i]
    BY <1>2, <2>1
  <2>3. \A i \in 1..Len(inbox') : i \in 1..Len(inbox) \/ i = Len(inbox) + 1
    BY <1>2, <2>2
  <2>4. frame.type \in EndTypes <=> OwnEnd(frame)
    <3>1. Head(pump.hand) = frame
      BY <1>2
    <3>2. ~(Head(pump.hand).type \in {"finish", "error"} /\ Stray(Head(pump.hand)))
      BY DEF Send
    <3> QED BY <3>1, <3>2 DEF Stray, EndTypes, OwnEnd, Own
  <2>5. HandClear <=> ~OwnEnd(frame)
    BY <1>2 DEF HandClear
  <2> HIDE DEF frame
  <2>6. InboxClear' <=> InboxClear /\ HandClear
    <3>1. \A i \in 1..Len(inbox) : i \in 1..Len(inbox') /\ inbox'[i] = inbox[i]
      BY <1>2, <2>2
    <3>2. Len(inbox) + 1 \in 1..Len(inbox') /\ inbox'[Len(inbox) + 1] = frame
      BY <1>2, <2>2
    <3>3. InboxClear' => InboxClear
      BY <3>1 DEF InboxClear
    <3>4. InboxClear' => HandClear
      BY <2>4, <2>5, <3>2 DEF InboxClear
    <3>5. InboxClear /\ HandClear => InboxClear'
      BY <2>2, <2>3, <2>4, <2>5 DEF InboxClear
    <3> QED BY <3>3, <3>4, <3>5
  <2>7. NoEnd' <=> fate[sent] \notin Ended
    BY <1>3, <1>8, <2>6 DEF HealthyInv, EndsInv, NoEnd
  <2>8. ASSUME NEW i \in 1..Len(inbox'), inbox'[i].type \in EndTypes,
               \A j \in 1..(i - 1) : inbox'[j].type \notin EndTypes
        PROVE  fate[sent] \in FateOfEvent(inbox'[i])
    <3>1. \A j \in 1..(i - 1) : j \in 1..Len(inbox) /\ inbox'[j] = inbox[j]
      BY <1>2, <2>2, <2>3
    <3>2. CASE i \in 1..Len(inbox)
      BY <2>2, <2>8, <3>1, <3>2 DEF HealthyInv, EndsInv
    <3>3. CASE i = Len(inbox) + 1
      <4>1. InboxClear
        <5>1. \A j \in 1..Len(inbox) : j \in 1..(i - 1)
          BY <1>2, <3>3
        <5> QED BY <2>8, <3>1, <5>1 DEF InboxClear
      <4>2. inbox'[i] = frame /\ OwnEnd(frame)
        BY <2>2, <2>4, <2>8, <3>3
      <4> QED BY <1>2, <4>1, <4>2 DEF HealthyInv, EndsInv, frame
    <3> QED BY <2>3, <3>2, <3>3
  <2>9. \A i \in 1..Len(wire) : \A j \in 1..(i - 1) : j \in 1..Len(wire)
    BY DEF StateTypes
  <2>10. \A i \in 1..Len(wire) :
            OwnEnding(i)' /\ InboxClear' /\ (\A j \in 1..(i - 1) : ~OwnEnding(j)')
               => fate[sent] \in FateOfEvent(wire[i])
    BY <1>3, <2>6, <2>9 DEF HealthyInv, EndsInv
  <2>11. \A i : i \notin 1..Len(pump'.hand)
    BY <1>2
  <2> QED BY <1>1, <2>7, <2>8, <2>10, <2>11 DEF EndsInv, FateOfEvent
<1> QED BY <1>5, <1>6, <1>7, <1>9 DEF HealthyInv

\* The relay reads a frame: an end that it reads is the end of its prompt.
LEMMA ReadStep ==
    ASSUME StateTypes, PromptsInv, Healthy, HealthyInv, Read
    PROVE  HealthyInv'
<1>1. /\ UNCHANGED <<sent, refused, sender, status, program, process, wire, pump, kill, fate, called>>
      /\ inbox \in Seq(Frame) /\ Len(inbox) \in Nat /\ 1 \in 1..Len(inbox) /\ Head(inbox) = inbox[1]
  BY DEF Read, sending, backend, StateTypes
<1>2. Subscribed /\ sent \in Prompts
  BY <1>1 DEF PromptsInv, Read, Subscribed, StateTypes, SessionAgentTypeOK, Prompts, None
<1>3. /\ \A i \in 1..Len(wire) : OwnEnding(i)' <=> OwnEnding(i)
      /\ WireClear' <=> WireClear
      /\ HandClear' <=> HandClear
      /\ \A i \in 1..Len(pump.hand) : OwnEnd(pump.hand[i])' <=> OwnEnd(pump.hand[i])
  <2>1. \A i \in 1..Len(wire) : OwnEnding(i)' <=> OwnEnding(i)
    BY <1>1, SameBooks
  <2> QED BY <1>1, <2>1 DEF WireClear, HandClear, OwnEnd, Own
<1>4. InflightAfter(Len(wire))' <=> InflightAfter(Len(wire))
  BY <1>1 DEF InflightAfter
<1>5. WireInv'
  BY <1>1, <1>4 DEF HealthyInv, WireInv, InWorkflow
<1>6. ProgramInv'
  BY <1>1 DEF HealthyInv, ProgramInv
<1>7. CASE inbox[1].type \in ToolTypes
  <2>1. inbox' = Tail(inbox) /\ UNCHANGED outcome
    BY <1>1, <1>7 DEF Read, ToolTypes
  <2>2. /\ Len(inbox') = Len(inbox) - 1
        /\ \A i \in 1..Len(inbox') : i + 1 \in 1..Len(inbox) /\ inbox'[i] = inbox[i + 1]
        /\ \A i \in 1..Len(inbox) : i # 1 => i - 1 \in 1..Len(inbox') /\ inbox'[i - 1] = inbox[i]
        /\ inbox[1].type \notin EndTypes
    BY <1>1, <1>7, <2>1 DEF ToolTypes, EndTypes
  <2>3. Subscribed' <=> Subscribed
    BY <1>1, <2>1 DEF Subscribed
  <2>4. InboxClear' <=> InboxClear
    <3>1. InboxClear => InboxClear'
      BY <2>2 DEF InboxClear
    <3>2. InboxClear' => InboxClear
      BY <2>2 DEF InboxClear
    <3> QED BY <3>1, <3>2
  <2>5. ASSUME NEW i \in 1..Len(inbox'), inbox'[i].type \in EndTypes,
               \A j \in 1..(i - 1) : inbox'[j].type \notin EndTypes
        PROVE  fate[sent] \in FateOfEvent(inbox'[i])
    <3>1. i + 1 \in 1..Len(inbox) /\ inbox'[i] = inbox[i + 1]
      BY <2>2
    <3>2. ASSUME NEW j \in 1..((i + 1) - 1) PROVE inbox[j].type \notin EndTypes
      <4>1. CASE j = 1
        BY <2>2, <4>1
      <4>2. CASE j # 1
        <5>1. j - 1 \in 1..(i - 1) /\ j \in 1..Len(inbox)
          BY <1>1, <2>2, <4>2
        <5> QED BY <2>2, <2>5, <4>2, <5>1
      <4> QED BY <4>1, <4>2
    <3> QED BY <1>2, <2>5, <3>1, <3>2 DEF HealthyInv, EndsInv
  <2>6. \A i \in 1..Len(wire) : \A j \in 1..(i - 1) : j \in 1..Len(wire)
    BY DEF StateTypes
  <2>7. NoEnd' <=> fate[sent] \notin Ended
    BY <1>2, <1>3, <2>4 DEF HealthyInv, EndsInv, NoEnd
  <2>8. EndsInv'
    BY <1>1, <1>2, <1>3, <2>4, <2>5, <2>6, <2>7 DEF HealthyInv, EndsInv, FateOfEvent
  <2>9. EndsAreOwn'
    BY <1>1, <2>1 DEF HealthyInv, EndsAreOwn, Healthy
  <2> QED BY <1>5, <1>6, <2>8, <2>9 DEF HealthyInv
<1>8. CASE inbox[1].type \notin ToolTypes
  <2>1. inbox[1].type \in EndTypes
    BY <1>1, <1>8, ToolFrames
  <2>2. outcome' = [outcome EXCEPT ![sent] = inbox[1].type]
    BY <1>1, <1>8, <2>1 DEF Read, Return, ToolTypes
  <2>3. fate[sent] \in FateOfEvent(inbox[1])
    <3>1. \A j \in 1..(1 - 1) : inbox[j].type \notin EndTypes
      OBVIOUS
    <3> QED BY <1>1, <1>2, <2>1, <3>1 DEF HealthyInv, EndsInv
  <2>4. /\ inbox[1].type = "finish" => fate[sent] \in {"answered", "cancelled"}
        /\ inbox[1].type = "error" => fate[sent] = "failed"
    BY <2>3 DEF FateOfEvent
  <2>5. outcome'[sent] = inbox[1].type /\ \A k \in Prompts : k # sent => outcome'[k] = outcome[k]
    BY <1>2, <2>2 DEF StateTypes, SessionAgentTypeOK
  <2>6. EndsAreOwn'
    BY <1>1, <1>2, <2>4, <2>5 DEF HealthyInv, EndsAreOwn, Healthy
  <2>7. ~Subscribed'
    BY <1>1, <2>1, <2>5 DEF Subscribed, EndTypes
  <2>8. EndsInv'
    BY <2>7 DEF EndsInv
  <2> QED BY <1>5, <1>6, <2>6, <2>8 DEF HealthyInv
<1> QED BY <1>7, <1>8

\* Every step, while the program runs and nothing has disturbed it.
LEMMA HealthyStep ==
    ASSUME StateTypes, PromptsInv, TracksInv, Undisturbed, Healthy => HealthyInv, Healthy', Next
    PROVE  HealthyInv'
<1>1. CASE Cancel
  <2>1. Healthy
    BY <1>1 DEF Cancel, Healthy, Undisturbed, Killed
  <2>2. /\ UNCHANGED <<sent, refused, sender, outcome, status, wire, pump, inbox, fate, called>>
        /\ program'.stdin = program.stdin /\ program'.doing = program.doing
        /\ program'.call = program.call /\ program'.workflow = program.workflow
        /\ program'.replied = program.replied
    BY <1>1 DEF Cancel, sending, relayed, streams, StateTypes, ProgramState
  <2>3. WireInv' /\ EndsInv' /\ EndsAreOwn'
    BY <2>1, <2>2, QuietEnds DEF InWorkflow
  <2>4. ProgramInv'
    BY <2>1, <2>2 DEF HealthyInv, ProgramInv
  <2> QED BY <2>3, <2>4 DEF HealthyInv
<1>2. CASE KillEmits \/ Terminate
  BY <1>2 DEF KillEmits, Terminate, Healthy, Undisturbed, Killed
<1>3. CASE Subscribe \/ \E k \in Prompts : Sender(k)
  <2>1. Healthy
    BY <1>3 DEF Subscribe, Sender, SetRunning, EnsureAwake, Deliver, Healthy, backend,
                PromptsInv
  <2> QED BY <1>3, <2>1, SendersStep
<1>4. CASE Program
  <2>1. Healthy
    BY <1>4 DEF Program, Begin, CallTool, EndTool, StartWorkflow, Launch, EndWorkflow, Reply,
                Answer, Fail, Interrupted, Ends, Crash, Exit, Hang, ReaderEnds, Works, Healthy
  <2> QED BY <1>4, <2>1, ProgramStep
<1>5. CASE Pump
  <2>1. Healthy
    BY <1>5 DEF Pump, Take, Send, backend, Healthy
  <2>2. ~strayed'
    BY DEF Healthy, Undisturbed
  <2> QED BY <1>5, <2>1, <2>2, TakeStep, SendStep DEF Pump
<1>6. CASE Relay
  <2>1. Healthy
    BY <1>6 DEF Relay, Read, ReturnSendError, backend, Healthy
  <2>2. ~ReturnSendError
    BY <2>1 DEF ReturnSendError, HealthyInv, ProgramInv
  <2> QED BY <1>6, <2>1, <2>2, ReadStep DEF Relay
<1> QED BY <1>1, <1>2, <1>3, <1>4, <1>5, <1>6 DEF Next

\* Every step, as far as the tools between the program and the relay go.
LEMMA TracksStep ==
    ASSUME StateTypes, PromptsInv, TracksInv, Undisturbed, Undisturbed', Healthy => HealthyInv,
           Next
    PROVE  TracksInv'
<1>1. CASE Subscribe
  BY <1>1, SubscribeTracks
<1>2. CASE \E k \in Prompts : Sender(k)
  <2>1. UNCHANGED <<sent, outcome, row, wire, pump, inbox, called>>
    BY <1>2 DEF Sender, SetRunning, EnsureAwake, Deliver, relayed, streams
  <2> QED BY <2>1, QuietTracks
<1>3. CASE Pump \/ Relay
  BY <1>3, TakeTracks, SendTracks, ReadTracks, SendErrorTracks DEF Pump, Relay, Undisturbed
<1>4. CASE Cancel
  <2>1. UNCHANGED <<sent, outcome, row, wire, pump, inbox, called>>
    BY <1>4 DEF Cancel, sending, relayed, streams
  <2> QED BY <2>1, QuietTracks
<1>5. CASE KillEmits \/ Terminate
  BY <1>5 DEF KillEmits, Terminate, Undisturbed, Killed
<1>6. CASE Begin
  <2>1. UNCHANGED <<sent, outcome, row, wire, pump, inbox, called>>
    BY <1>6 DEF Begin, External, sending, relayed
  <2> QED BY <2>1, QuietTracks
<1>7. CASE CallTool
  <2>1. Healthy /\ program.doing # None /\ ~program.replied /\ program.call = "none"
    BY <1>7 DEF CallTool, Works, Healthy
  <2>2. /\ program.doing = sent /\ sent \in Prompts /\ Subscribed /\ NoEnd
        /\ sent \notin called
    BY <2>1, WorksOnLast
  <2>3. /\ Says(Of(sent, "call")) /\ called' = called \cup {sent}
        /\ UNCHANGED <<sent, outcome, row, pump, inbox>>
    BY <1>7, <2>2 DEF CallTool, External, sending, relayed
  <2>4. "call" \in ToolTypes
    BY DEF ToolTypes
  <2> QED BY <2>2, <2>3, <2>4, ToolSaidTracks
<1>8. CASE EndTool
  <2>1. Healthy /\ program.doing # None /\ ~program.replied /\ program.call = "open"
    BY <1>8 DEF EndTool, Works, Healthy
  <2>2. /\ program.doing = sent /\ sent \in Prompts /\ Subscribed /\ NoEnd
        /\ sent \in called
    BY <2>1, WorksOnLast
  <2>3. /\ Says(Of(sent, "result")) /\ called' = called \cup {sent}
        /\ UNCHANGED <<sent, outcome, row, pump, inbox>>
    BY <1>8, <2>2 DEF EndTool, External, sending, relayed
  <2>4. "result" \in ToolTypes
    BY DEF ToolTypes
  <2> QED BY <2>2, <2>3, <2>4, ToolSaidTracks
<1>9. ASSUME NEW type \in OtherTypes, NEW k, Says(Of(k, type)),
             UNCHANGED <<sent, outcome, row, pump, inbox, called>>
      PROVE  TracksInv'
  <2>1. Of(k, type).type \notin ToolTypes
    BY PlainTypes DEF OtherTypes, ToolTypes, Results, Exits
  <2> QED BY <1>9, <2>1, SaidTracks
<1>10. CASE StartWorkflow \/ Launch \/ EndWorkflow
  <2>1. /\ UNCHANGED <<sent, outcome, row, pump, inbox, called>>
        /\ \/ Says(Of(None, "task")) \/ Says(Of(None, "taskend"))
           \/ Says(Of(program.doing, "clean"))
    BY <1>10, PlainTypes DEF StartWorkflow, Launch, EndWorkflow, External, sending, relayed
  <2> QED BY <1>9, <2>1 DEF OtherTypes, Results
<1>11. CASE Reply \/ Answer \/ Fail \/ Interrupted
  <2>1. /\ UNCHANGED <<sent, outcome, row, pump, inbox, called>>
        /\ \/ Says(Of(program.doing, "clean")) \/ Says(Of(program.doing, "error"))
           \/ Says(Of(program.doing, "cancelled"))
    BY <1>11 DEF Reply, Answer, Fail, Interrupted, Ends, External, sending, relayed
  <2> QED BY <1>9, <2>1 DEF OtherTypes, Results
<1>12. CASE Crash \/ Exit \/ Hang
  <2>1. /\ UNCHANGED <<sent, outcome, row, pump, inbox, called>>
        /\ Says(Of(None, "crash")) \/ Says(Of(None, "exit"))
    BY <1>12, PlainTypes DEF Crash, Exit, Hang, ReaderEnds, External, sending, relayed
  <2> QED BY <1>9, <2>1 DEF OtherTypes, Exits
<1> QED BY <1>1, <1>2, <1>3, <1>4, <1>5, <1>6, <1>7, <1>8, <1>10, <1>11, <1>12 DEF Next, Program

\* What is disturbed stays so: nobody takes a kill or a late result back.
LEMMA DisturbedStaysDisturbed == ~Undisturbed /\ Next => ~Undisturbed'
<1>1. Killed /\ Next => Killed'
  BY DEF Killed, Next, Subscribe, Sender, SetRunning, EnsureAwake, Deliver, Program, Begin, CallTool,
         EndTool, StartWorkflow, Launch, EndWorkflow, Reply, Answer, Fail, Interrupted, Ends, Crash,
         Exit, Hang, ReaderEnds, External, Pump, Take, Send, Relay, Read, ReturnSendError, Cancel,
         KillEmits, Terminate
<1>2. strayed /\ Next => strayed'
  BY DEF Next, Subscribe, Sender, SetRunning, EnsureAwake, Deliver, Program, Begin, CallTool,
         EndTool, StartWorkflow, Launch, EndWorkflow, Reply, Answer, Fail, Interrupted, Ends, Crash,
         Exit, Hang, ReaderEnds, External, Pump, Take, Send, Relay, Read, ReturnSendError, Cancel,
         KillEmits, Terminate
<1> QED BY <1>1, <1>2 DEF Undisturbed

\* IInv holds in the initial state.
LEMMA InitIInv == Init => IInv
<1> SUFFICES ASSUME Init PROVE IInv
  OBVIOUS
<1>1. StateTypes
  BY InitTypes
<1>2. PromptsInv
  BY DEF Init, PromptsInv, Subscribed, Prompts, None, Ended
<1>3. /\ \A i : i \notin 1..Len(inbox) /\ i \notin 1..Len(wire) /\ i \notin 1..Len(pump.hand)
      /\ pump.open = {} /\ called = {} /\ Len(wire) = 0 /\ pump.inflight = FALSE
  BY DEF Init
<1>4. TracksInv
  BY <1>3 DEF Init, TracksInv, ToolsInv, RowInv, RowsAreClosed, RowsAreOfCalls
<1>5. ProgramInv
  BY DEF Init, ProgramInv, Idle
<1>6. ~InflightAfter(0)
  BY <1>1, <1>3, InflightRec
<1>7. WireInv
  BY <1>3, <1>6 DEF Init, WireInv, InWorkflow, Idle
<1>8. EndsInv
  BY DEF Init, EndsInv, Subscribed
<1>9. EndsAreOwn
  BY DEF Init, EndsAreOwn
<1> QED BY <1>1, <1>2, <1>4, <1>5, <1>7, <1>8, <1>9 DEF IInv

\* Every step keeps IInv.
LEMMA NextIInv == IInv /\ [Next]_vars => IInv'
<1> SUFFICES ASSUME IInv, [Next]_vars PROVE IInv'
  OBVIOUS
<1>1. StateTypes /\ StateTypes'
  BY NextTypes DEF IInv
<1>2. CASE UNCHANGED vars
  <2>1. UNCHANGED <<sent, sender, refused, outcome, row, status, slot, process, program, wire, pump,
                    inbox, kill, fate, called, strayed>>
    BY <1>2 DEF vars, sending, relayed, backend, streams
  <2>2. Undisturbed' = Undisturbed /\ Healthy' = Healthy
    BY <2>1 DEF Undisturbed, Killed, Healthy
  <2>3. PromptsInv => PromptsInv'
    BY <2>1 DEF PromptsInv, Subscribed
  <2>4. TracksInv => TracksInv'
    BY <1>1, <2>1, QuietTracks
  <2>5. ASSUME Healthy PROVE HealthyInv'
    <3>1. HealthyInv
      BY <2>5 DEF IInv, HealthyInv
    <3>2. ProgramInv'
      BY <2>1, <3>1 DEF HealthyInv, ProgramInv
    <3>3. WireInv' /\ EndsInv' /\ EndsAreOwn'
      BY <1>1, <2>1, <2>5, <3>1, QuietEnds DEF InWorkflow
    <3> QED BY <3>2, <3>3 DEF HealthyInv
  <2> QED BY <1>1, <2>2, <2>3, <2>4, <2>5 DEF IInv, HealthyInv
<1>3. CASE Next
  <2>1. Undisturbed' => Undisturbed
    BY <1>3, DisturbedStaysDisturbed
  <2>2. Healthy => HealthyInv
    BY DEF IInv, HealthyInv
  <2>3. ASSUME Undisturbed' PROVE PromptsInv' /\ TracksInv'
    <3>1. Undisturbed /\ PromptsInv /\ TracksInv
      BY <2>1, <2>3 DEF IInv
    <3>2. process = "up" => HealthyInv
      BY <2>2, <3>1 DEF Healthy
    <3> QED BY <1>1, <1>3, <2>2, <2>3, <3>1, <3>2, PromptsStep, TracksStep
  <2>4. ASSUME Healthy' PROVE HealthyInv'
    <3>1. Undisturbed /\ PromptsInv /\ TracksInv
      BY <2>1, <2>4 DEF IInv, Healthy
    <3> QED BY <1>1, <1>3, <2>2, <2>4, <3>1, HealthyStep
  <2> QED BY <1>1, <2>3, <2>4 DEF IInv, HealthyInv
<1> QED BY <1>2, <1>3

\* IInv is an invariant.
LEMMA SpecIInv == Spec => []IInv
  BY InitIInv, NextIInv, PTL DEF Spec

\* The types of the state.
THEOREM SessionAgentTypeOKHolds == Spec => []SessionAgentTypeOK
<1>1. IInv => SessionAgentTypeOK
  BY DEF IInv, StateTypes
<1> QED BY <1>1, SpecIInv, PTL

\* While the first program runs, the relay of a prompt returns the end that the
\* program has first given to this prompt, and not the message or the result frame
\* in which a workflow is launched; until the cancel had to kill or the result frame
\* of an earlier prompt came to a later one.
THEOREM EndsAreOwnHolds == Spec => []EndsAreOwn
<1>1. IInv => EndsAreOwn
  BY DEF IInv, Healthy, EndsAreOwn
<1> QED BY <1>1, SpecIInv, PTL

\* However a prompt has ended, and whatever has happened to the program, the row of
\* its tool call is there and closed; until the cancel had to kill or the result
\* frame of an earlier prompt came to a later one.
THEOREM ToolRowsAreClosedHolds == Spec => []ToolRowsAreClosed
<1>1. IInv => ToolRowsAreClosed
  BY DEF IInv, TracksInv, RowsAreClosed, ToolRowsAreClosed
<1> QED BY <1>1, SpecIInv, PTL

\* An agent that has a prompt to work on is "running" for the scan for idle agents,
\* also when the pump comes late to what an earlier prompt left behind; until the
\* cancel had to kill or such a result came to a prompt that waits.
THEOREM BusyAgentsAreNotIdleHolds == Spec => []BusyAgentsAreNotIdle
<1>1. ASSUME IInv, Healthy, NEW k \in Delivered PROVE status = "running"
  <2>1. k \in Prompts /\ fate[k] = "sent"
    BY <1>1 DEF Delivered
  <2> QED BY <1>1, <2>1, SentIsLast DEF IInv, HealthyInv, Healthy
<1>2. IInv => BusyAgentsAreNotIdle
  BY <1>1 DEF BusyAgentsAreNotIdle, Healthy
<1> QED BY <1>2, SpecIInv, PTL
=============================================================================
