------------------------- MODULE FrameworkAdapters -------------------------
(***************************************************************************)
(* Turns of a thread whose agent is a LangChain runnable or a LangGraph    *)
(* graph: the adapters' invoke() and stream() (src/agent_runtime/adapters  *)
(* langchain.py, langgraph.py, framework_streaming.py) and the translation *)
(* of messages (framework_messages.py, mapping.py).                        *)
(*                                                                         *)
(* The framework is external: it adds messages to those it was given, an   *)
(* assistant's text in pieces, and returns them all, or one message.  It   *)
(* may drop the first one it was given, misbehave or raise.  A step is one *)
(* thing it does with what the adapter makes of it.                        *)
(*                                                                         *)
(* A text is the sequence of its pieces; ids are numbers, given in order.  *)
(* The JSON of a tool's result stands for that result.  A state that has   *)
(* tool_results, usage or metadata of its own besides its messages, which  *)
(* the mappers pass on, and a stream mapper of the host are left out.      *)
(***************************************************************************)
EXTENDS Integers, Sequences, SequencesExt, Functions

CONSTANTS MaxTurns,   \* bound: turns of the thread
          MaxMade,    \* bound: messages added in a turn
          MaxPieces   \* bound: pieces of a message

VARIABLES
    adapter,      \* "runnable" or "graph"
    returns,      \* what the framework returns: "message" or "state"
    form,         \* of the messages it takes and returns: "native" or "canonical"
    streaming,    \* it is made with streaming=True
    how,          \* this turn is asked for: by "invoke" or "stream"
    turn, born,   \* turns so far, and the last id given
    history,      \* request.messages
    phase,        \* "ask", "run", "emit" or "over"
    state,        \* the framework's messages
    draft,        \* the message it is writing: its pieces, and whether the filter passes
    made,         \* the messages it has added: id, text, whether shown
    fault,        \* "none", "trimmed" or "broken"
    accumulated,  \* a runnable's message, from its chunks
    finalState,   \* the last state a graph has streamed
    events,       \* what the reader got
    pending,      \* what it is still to get
    outcome       \* of the call

framework == <<state, draft, made, born, fault>>
agent == <<adapter, returns, form, streaming>>
vars == <<agent, how, turn, history, phase, framework, accumulated, finalState, events,
          pending, outcome>>

-----------------------------------------------------------------------------
(* Messages                                                                 *)

Part(type, of) == [type |-> type, of |-> of]
Message(id, role, parts) == [id |-> id, role |-> role, parts |-> parts]
PartsOf(message, type) == SelectSeq(message.parts, LAMBDA part : part.type = type)
Values(parts) == [n \in DOMAIN parts |-> parts[n].of]
CallsIn(messages) ==
  UNION {ToSet(Values(PartsOf(messages[n], "call"))) : n \in DOMAIN messages}

\* to_framework_message(), of a message with one result or none: text and calls apart.
ToFramework(message) ==
  [id |-> message.id, type |-> message.role, blocks |-> Values(PartsOf(message, "text")),
   calls |-> Values(PartsOf(message, IF message.role = "tool" THEN "result" ELSE "call")),
   named |-> FALSE]
Translatable(message) == message.role = "tool" => Len(message.parts) = 1
\* from_framework_message(): text that is not empty, then the calls; or a tool's result.
FromFramework(native) ==
  Message(native.id, native.type,
    IF native.type = "tool" THEN <<Part("result", native.calls[1])>>
    ELSE LET said == SelectSeq(native.blocks, LAMBDA block : block # <<>>)
         IN [n \in DOMAIN said |-> Part("text", said[n])]
              \o [n \in DOMAIN native.calls |-> Part("call", native.calls[n])])
\* A message has content; an image has no canonical form.
Valid(message) ==
  message.parts # <<>> /\ \A n \in DOMAIN message.parts :
     message.parts[n].type = "text" => "image" \notin ToSet(message.parts[n].of)

Given(messages) ==
  IF form = "canonical" THEN messages ELSE [n \in DOMAIN messages |-> ToFramework(messages[n])]
Canonical(messages) ==
  IF form = "canonical" THEN messages ELSE [n \in DOMAIN messages |-> FromFramework(messages[n])]

Failed == [kind |-> "failed"]
\* Fault: what the framework was given is returned with what it made.
NewIsAll(messages) == messages
\* What follows the request's messages, when they come back as they were.
New(messages) == IF IsPrefix(history, messages)
                 THEN SubSeq(messages, Len(history) + 1, Len(messages)) ELSE messages
\* framework_output() and messages_output(): canonical states carry no results.  An
\* output has a message.
Output(value) ==
  LET converted == Canonical(value)
      prefix == IF IsPrefix(history, converted) THEN Len(history) ELSE 0
      tools == IF form = "canonical" THEN <<>>
               ELSE SelectSeq(SubSeq(value, prefix + 1, Len(value)),
                              LAMBDA native : native.type = "tool")
  IN IF \/ New(converted) = <<>> \/ \E n \in DOMAIN converted : ~ Valid(converted[n])
        \/ \E n \in DOMAIN tools :
             ~ tools[n].named /\ tools[n].calls[1] \notin CallsIn(history \o converted)
     THEN Failed
     ELSE [kind |-> "result", messages |-> New(converted),
           results |-> [n \in DOMAIN tools |-> tools[n].calls[1]]]
-----------------------------------------------------------------------------
User(id) == Message(id, "user", <<Part("text", <<"q">>)>>)
\* A question alone, or after an exchange another agent recorded: with its call before
\* its text, or with two results in one message.
Histories ==
  {<<User(1)>>,
   <<Message(1, "assistant", <<Part("call", <<1, 1>>), Part("text", <<"a">>)>>),
     Message(2, "tool", <<Part("result", <<1, 1>>)>>), User(3)>>,
   <<Message(1, "assistant", <<Part("call", <<1, 1>>), Part("call", <<1, 2>>)>>),
     Message(2, "tool", <<Part("result", <<1, 1>>), Part("result", <<1, 2>>)>>), User(3)>>}

NoChunks == [pieces |-> <<>>, calls |-> <<>>]
NoDraft == [pieces |-> <<>>, shown |-> TRUE]
Fresh == /\ phase = "ask" /\ state = <<>> /\ draft = NoDraft /\ made = <<>> /\ fault = "none"
         /\ accumulated = NoChunks /\ finalState = <<>> /\ events = <<>> /\ pending = <<>>
         /\ outcome = [kind |-> "none"]
Init ==
  /\ adapter \in {"runnable", "graph"} /\ returns \in {"message", "state"}
  /\ form \in {"native", "canonical"} /\ streaming \in BOOLEAN
  /\ how \in {"invoke", "stream"}
  /\ adapter = "graph" \/ form = "canonical" => returns = "state"
  /\ turn = 1 /\ history \in Histories /\ born = Len(history) /\ Fresh

\* The framework streams; if it is not to, stream() does as invoke() does and shows the end.
Streams == how = "stream" /\ streaming
Over(end) == phase' = "over" /\ outcome' = end
GoesOn == UNCHANGED <<phase, outcome>>
\* The call is cut off, and its locals are gone.
Dropped == /\ state' = <<>> /\ draft' = NoDraft /\ made' = <<>>
           /\ accumulated' = NoChunks /\ finalState' = <<>>
Turn == UNCHANGED <<agent, how, turn, history, pending>>

\* framework_input() or messages_input(), and the framework is called.
Ask ==
  /\ phase = "ask"
  /\ IF form = "native" /\ \E n \in DOMAIN history : ~ Translatable(history[n])
     THEN Over(Failed) /\ UNCHANGED <<state, finalState>>
     ELSE /\ phase' = "run" /\ state' = Given(history) /\ UNCHANGED outcome
          /\ finalState' = IF adapter = "graph" THEN state' ELSE finalState
  /\ UNCHANGED <<draft, made, born, fault, accumulated, events>> /\ Turn

\* Fault: a graph's first state is kept.
FirstValues(messages) == IF finalState = <<>> THEN messages ELSE finalState
\* A graph's "values" event.
StateValues(messages) == IF adapter = "graph" THEN messages ELSE finalState

Writing == phase = "run" /\ Len(made) < MaxMade /\ ~ (returns = "message" /\ made # <<>>)
\* The reader of the stream sees the framework's chunks.
Chunked == Streams /\ (adapter = "graph" \/ returns = "message")
\* A chunk of text: a delta, unless it is empty or the graph's filter hides it.  Only
\* chunks are empty.
Write ==
  /\ Writing /\ Len(draft.pieces) < MaxPieces
  /\ \E piece \in {"a", "image"} \cup (IF Chunked THEN {""} ELSE {}),
        shown \in IF Chunked /\ adapter = "graph" THEN BOOLEAN ELSE {TRUE} :
       /\ draft.pieces # <<>> => shown = draft.shown
       /\ draft' = [pieces |-> Append(draft.pieces, piece), shown |-> shown]
       /\ accumulated' = IF adapter = "runnable" /\ Chunked
                            THEN [accumulated EXCEPT !.pieces = draft'.pieces] ELSE accumulated
       /\ IF Chunked /\ shown /\ piece = "image" THEN Over(Failed) ELSE GoesOn
       /\ events' = IF Chunked /\ shown /\ piece = "a" THEN Append(events, Part("delta", piece))
                    ELSE events
  /\ UNCHANGED <<state, made, born, fault, finalState>> /\ Turn

Text(pieces) == SelectSeq(pieces, LAMBDA piece : piece # "")
\* A message of the framework is complete; a graph streams its state.
Adds(native, shown) ==
  /\ born' = native.id
  /\ state' = Append(state, IF form = "canonical" THEN FromFramework(native) ELSE native)
  /\ made' = Append(made, [message |-> FromFramework(native), shown |-> shown])
  /\ finalState' = StateValues(state')
  /\ draft' = NoDraft /\ UNCHANGED <<fault, events>> /\ GoesOn /\ Turn
Say ==
  /\ Writing
  /\ \E asks \in 0 .. 1 :
       LET calls == [n \in 1 .. asks |-> <<born + 1, n>>]
       IN /\ Adds([id |-> born + 1, type |-> "assistant", blocks |-> <<Text(draft.pieces)>>,
                   calls |-> calls, named |-> FALSE], draft.shown)
          /\ accumulated' = [accumulated EXCEPT !.calls = calls]
\* A tool's answer, to a call or to none, with its name or without.
Answer ==
  /\ Writing /\ draft = NoDraft /\ returns = "state"
  /\ \E call \in CallsIn(history) \cup {<<born, 1>>}, named \in BOOLEAN :
       Adds([id |-> born + 1, type |-> "tool", blocks |-> <<>>, calls |-> <<call>>,
             named |-> named], TRUE)
  /\ UNCHANGED accumulated
\* The first message of its state is removed.
Trim ==
  /\ phase = "run" /\ fault = "none" /\ draft = NoDraft /\ returns = "state"
  /\ fault' = "trimmed" /\ state' = Tail(state) /\ finalState' = StateValues(state')
  /\ UNCHANGED <<draft, made, born, accumulated, events>> /\ GoesOn /\ Turn
\* It raises, or streams what the mapper refuses: another shape or mode, two messages, two
\* values or both, or nothing.
Break ==
  /\ phase = "run" /\ fault' = "broken" /\ Over(Failed)
  /\ Dropped /\ UNCHANGED <<born, events>> /\ Turn

\* The value the mapper is given: the state or message ainvoke() returns, a graph's last
\* state, or the message of a runnable's chunks.
Value ==
  CASE Streams /\ adapter = "graph" -> finalState
    [] Streams /\ adapter = "runnable" /\ returns = "message" ->
         <<[id |-> born, type |-> "assistant", blocks |-> <<Text(accumulated.pieces)>>,
            calls |-> accumulated.calls, named |-> FALSE]>>
    [] ~ Streams /\ returns = "message" -> <<Last(state)>>
    [] OTHER -> state
\* The framework is done: its value is mapped, and a stream goes on with the tools' results
\* if the framework streamed.
End ==
  /\ phase = "run" /\ draft = NoDraft /\ (returns = "message" => made # <<>>)
  /\ LET output == Output(Value)
         shown == IF Streams /\ output # Failed THEN output.results ELSE <<>>
     IN IF how = "invoke" \/ output = Failed THEN Over(output) /\ UNCHANGED pending
        ELSE /\ phase' = "emit" /\ UNCHANGED outcome
             /\ pending' = [n \in DOMAIN shown |-> Part("result", shown[n])]
                             \o <<Part("completed", output)>>
  /\ UNCHANGED <<agent, how, turn, history, framework, accumulated, finalState, events>>
\* The next event is read; the completed one ends the stream.
Emit ==
  /\ phase = "emit"
  /\ events' = Append(events, Head(pending)) /\ pending' = Tail(pending)
  /\ IF pending' = <<>> THEN Over(Head(pending).of) ELSE GoesOn
  /\ UNCHANGED <<agent, how, turn, history, framework, accumulated, finalState>>
\* The reader closes the stream, or is cancelled while it waits.
Close ==
  /\ phase \in {"run", "emit"} /\ Over([kind |-> "closed"])
  /\ Dropped /\ UNCHANGED <<born, fault, events>> /\ Turn

\* The primary key of agent_messages.
Ids(messages) == {messages[n].id : n \in DOMAIN messages}
\* The request's message and the output are recorded together, if the output has an
\* assistant's message and none that is recorded already.
Recorded ==
  /\ outcome.kind = "result" /\ Ids(outcome.messages) \cap Ids(history) = {}
  /\ \E n \in DOMAIN outcome.messages : outcome.messages[n].role = "assistant"
\* The next turn, with what has been recorded.
NextTurn ==
  /\ phase = "over" /\ turn < MaxTurns
  /\ turn' = turn + 1 /\ how' \in {"invoke", "stream"} /\ UNCHANGED agent
  /\ born' = born + 1
  /\ history' = Append(IF Recorded THEN history \o outcome.messages ELSE Front(history),
                       User(born + 1))
  /\ phase' = "ask" /\ state' = <<>> /\ draft' = NoDraft /\ made' = <<>> /\ fault' = "none"
  /\ accumulated' = NoChunks /\ finalState' = <<>> /\ events' = <<>> /\ pending' = <<>>
  /\ outcome' = [kind |-> "none"]

Next == Ask \/ Write \/ Say \/ Answer \/ Trim \/ Break \/ End \/ Emit \/ Close \/ NextTurn
Spec == Init /\ [][Next]_vars
-----------------------------------------------------------------------------
(* Properties.                                                              *)

\* A stream completes with what invoke() would have returned: what the framework's own
\* messages are worth.  Its completed event comes once, last, and alone unless the adapter
\* is made to stream; then its deltas are the text of the messages the filter shows, and
\* its results those of the tools.
StreamAsInvoked ==
  outcome.kind = "result" =>
    /\ outcome = Output(IF returns = "message" THEN <<Last(state)>> ELSE state)
    /\ how = "stream" =>
         LET of(type) == Values(SelectSeq(events, LAMBDA event : event.type = type))
             said == SelectSeq(made, LAMBDA one : one.shown /\ one.message.role = "assistant")
         IN /\ of("completed") = <<outcome>> /\ Last(events).type = "completed"
            /\ IF streaming THEN of("result") = outcome.results ELSE Len(events) = 1
            /\ Chunked => of("delta") = FlattenSeq(FlattenSeq(
                 [n \in DOMAIN said |-> Values(PartsOf(said[n].message, "text"))]))

\* The output is what was made in this turn, and its tool results are the tools' answers
\* among them, turn after turn and however messages are translated back and forth.  If it
\* is not, because the framework has removed a message or another agent's message comes
\* back with its text before its call, it has a message of the history, and the turn is
\* refused: nothing is recorded a second time.
OnlyNew ==
  /\ IsInjective([n \in DOMAIN history |-> history[n].id])
  /\ outcome.kind = "result" =>
       LET changed == form = "native" /\ \E n \in DOMAIN history :
                        FromFramework(ToFramework(history[n])) # history[n]
           answers == FlattenSeq([n \in DOMAIN made |->
                        Values(PartsOf(made[n].message, "result"))])
       IN \/ /\ outcome.messages = [n \in DOMAIN made |-> made[n].message]
             /\ form = "native" => outcome.results = answers
             /\ Ids(outcome.messages) \cap Ids(history) = {}
          \/ /\ Ids(outcome.messages) \cap Ids(history) # {} /\ ~ Recorded
             /\ changed \/ fault = "trimmed"
=============================================================================
