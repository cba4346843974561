--------------------------- MODULE ModelRequests ---------------------------
(***************************************************************************)
(* How a conversation is put to a provider: _message_payload() and         *)
(* _payload() of the three model clients (src/agent_runtime/models_clients)*)
(*                                                                         *)
(* A conversation grows as the agent loops and their callers let it grow:  *)
(* a result's calls are answered before anything else is said, in their    *)
(* order.  "n" stands for the arguments of a call and for the result of    *)
(* its tool, so that who belongs to whom can be told without ids or names. *)
(*                                                                         *)
(* OpenAI and Anthropic bind a result to its call by id.  Gemini has no    *)
(* ids: a result names its tool, and answers the first call of that tool   *)
(* not yet answered.                                                       *)
(***************************************************************************)
EXTENDS Integers, Sequences, SequencesExt

CONSTANTS CallIds, ToolNames,    \* of tool calls
          MaxMessages    \* bound: messages of a conversation

VARIABLES conversation, open, made

Dialects == {"openai", "anthropic", "gemini"}
-----------------------------------------------------------------------------
Text(n) == [type |-> "text", id |-> "", name |-> "", n |-> n]
Call(id, name, n) == [type |-> "call", id |-> id, name |-> name, n |-> n]
Result(call) == [type |-> "result", id |-> call.id, name |-> "", n |-> call.n]

Init == conversation = <<>> /\ open = <<>> /\ made = 0

Message(role, parts) == conversation' = Append(conversation, [role |-> role, parts |-> parts])

\* A user or the system speaks, or the assistant without calls, in one part or two.
Speaks ==
  /\ open = <<>> /\ Len(conversation) < MaxMessages
  /\ \E role \in {"system", "user", "assistant"}, parts \in 1 .. 2 :
       /\ Message(role, [k \in 1 .. parts |-> Text(made + k)])
       /\ made' = made + parts
  /\ UNCHANGED open

\* The assistant calls one tool, or two with a word between; a result's ids are unique.
Calls ==
  /\ open = <<>> /\ Len(conversation) < MaxMessages
  /\ \E id \in CallIds, name \in ToolNames :
       LET first == Call(id, name, made + 1) IN
       \/ /\ Message("assistant", <<first>>) /\ open' = <<first>> /\ made' = made + 1
       \/ \E other \in CallIds \ {id}, with \in ToolNames :
            LET second == Call(other, with, made + 3) IN
            /\ Message("assistant", <<first, Text(made + 2), second>>)
            /\ open' = <<first, second>> /\ made' = made + 3

\* A tool message: the next result, or all of them.
Answers ==
  /\ open # <<>> /\ Len(conversation) < MaxMessages
  /\ \E n \in {1, Len(open)} :
       /\ Message("tool", [k \in 1 .. n |-> Result(open[k])])
       /\ open' = SubSeq(open, n + 1, Len(open))
  /\ UNCHANGED made

Next == Speaks \/ Calls \/ Answers
Spec == Init /\ [][Next]_<<conversation, open, made>>
-----------------------------------------------------------------------------
(* The three payloads: what the system is told, and the messages.            *)

OfType(parts, type) == SelectSeq(parts, LAMBDA part : part.type = type)
Parts(messages) == FlattenSeq([k \in 1 .. Len(messages) |-> messages[k].parts])
Spoken(c) == SelectSeq(c, LAMBDA m : m.role # "system")

\* OpenAiCompatible: a message of its own for each, the system's too; the texts are
\* joined and stand before the calls, and a tool message sends its first result.
OpenAiMessage(m) ==
  [role |-> m.role,
   parts |-> IF m.role = "tool" THEN <<m.parts[1]>>
             ELSE OfType(m.parts, "text") \o OfType(m.parts, "call")]

\* Fault: only the last system message is sent.
SystemLast(c) ==
  LET said == SelectSeq(c, LAMBDA m : m.role = "system")
  IN IF said = <<>> THEN <<>> ELSE Last(said).parts
\* Anthropic and Gemini: the system's texts are taken out of the conversation.
System(c) == Parts(SelectSeq(c, LAMBDA m : m.role = "system"))

AnthropicMessage(m) ==
  [role |-> IF m.role = "tool" THEN "user" ELSE m.role, parts |-> m.parts]

\* call_names: of all calls with an id, the last gives the name.
CallName(c, id) == Last(SelectSeq(OfType(Parts(c), "call"), LAMBDA call : call.id = id)).name
GeminiPart(c, part) ==
  [part EXCEPT !.id = "", !.name = IF part.type = "result" THEN CallName(c, part.id) ELSE @]
GeminiMessage(c, m) ==
  [role |-> IF m.role = "assistant" THEN "model" ELSE "user",
   parts |-> [k \in 1 .. Len(m.parts) |-> GeminiPart(c, m.parts[k])]]

Payload(dialect, c) ==
  LET spoken == Spoken(c)
  IN CASE dialect = "openai" ->
            [system |-> <<>>, messages |-> [k \in 1 .. Len(c) |-> OpenAiMessage(c[k])]]
       [] dialect = "anthropic" ->
            [system |-> System(c),
             messages |-> [k \in 1 .. Len(spoken) |-> AnthropicMessage(spoken[k])]]
       [] dialect = "gemini" ->
            [system |-> System(c),
             messages |-> [k \in 1 .. Len(spoken) |-> GeminiMessage(c, spoken[k])]]
-----------------------------------------------------------------------------
(* Properties.                                                               *)

\* How the provider binds a result to its call.
Key(dialect, part) == IF dialect = "gemini" THEN part.name ELSE part.id
Under(dialect, messages, type, key) ==
  SelectSeq(OfType(Parts(messages), type), LAMBDA part : Key(dialect, part) = key)
Keys(dialect) == IF dialect = "gemini" THEN ToolNames ELSE CallIds
Carries(dialect, messages, key) ==
  LET calls == Under(dialect, messages, "call", key)
      results == Under(dialect, messages, "result", key)
  IN /\ Len(results) <= Len(calls)
     /\ \A k \in DOMAIN results : results[k].n = calls[k].n

\* What a dialect has a place for: OpenAI one result in a message, Gemini one tool to
\* an id.
Expressible(dialect) ==
  LET calls == OfType(Parts(conversation), "call") IN
  /\ dialect = "openai" =>
       \A k \in DOMAIN conversation :
         conversation[k].role = "tool" => Len(conversation[k].parts) = 1
  /\ dialect = "gemini" =>
       \A j, k \in DOMAIN calls : calls[j].id = calls[k].id => calls[j].name = calls[k].name

\* Nothing said is lost, doubled or put into another order on its way to a provider,
\* whatever roles, joins and system prompts it makes of it: texts, calls and results
\* arrive in their order, and each result at the call it answers.
RequestsWhole ==
  \A dialect \in {d \in Dialects : Expressible(d)} :
    LET payload == Payload(dialect, conversation)
        given == IF dialect = "openai" THEN conversation ELSE Spoken(conversation)
        In(messages, type) ==
          [k \in 1 .. Len(OfType(Parts(messages), type)) |-> OfType(Parts(messages), type)[k].n]
    IN /\ \A type \in {"text", "call", "result"} :
            In(payload.messages, type) = In(given, type)
       /\ dialect # "openai" =>
            payload.system = Parts(SelectSeq(conversation, LAMBDA m : m.role = "system"))
       /\ open = <<>> => \A key \in Keys(dialect) : Carries(dialect, payload.messages, key)

\* A result reaches the call it answers also when its id has been used before, for
\* another tool: ids need only be unique within one result.
ResultsReachTheirCalls ==
  \A dialect \in Dialects \ {"openai"} :
    \A key \in Keys(dialect) : Carries(dialect, Payload(dialect, conversation).messages, key)
=============================================================================
