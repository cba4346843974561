----------------------------- MODULE MCAdapters -----------------------------
(***************************************************************************)
(* What TLC sends through the adapters: threads through the frameworks',   *)
(* responses through the model clients, their bytes through the decoder,   *)
(* and conversations through the clients' payloads.  The four share        *)
(* nothing, and are explored side by side: while one runs, the others rest.*)
(***************************************************************************)
EXTENDS FrameworkAdapters, FiniteSets

CONSTANTS MaxBlocks, MaxWire, MaxEvent, MaxTotal, CallIds, ToolNames, MaxMessages
VARIABLES part, dialect, body, sent, stage, broken, text, tools, usage, deltas, result,
          wire, total, buffer, eventBytes, fields, decoded, at,
          conversation, open, said

client == <<dialect, body, sent, stage, broken, text, tools, usage, deltas, result>>
sse == <<wire, total, buffer, eventBytes, fields, decoded, at>>
request == <<conversation, open, said>>
-----------------------------------------------------------------------------
Texts == {[type |-> "text", pieces |-> p] : p \in {<<"a">>, <<"a", "b">>}}
\* A call without an id, two ids that may be repeated, and arguments that are an
\* object, nothing, or cut off.
Calls == {[type |-> "call", id |-> id, args |-> args] :
            id \in {<<>>, <<"c1">>, <<"c2">>}, args \in {<<"{", "}">>, <<>>, <<"{">>}}
Counts == {[input |-> 5, output |-> 7], [input |-> 5, output |-> -1],
           [input |-> -1, output |-> -1]}
Bodies ==
  {[blocks |-> blocks, finish |-> finish, usage |-> counts] :
     blocks \in UNION {[1 .. n -> Texts \cup Calls] : n \in 0 .. MaxBlocks},
     finish \in {"none", "stop", "length"}, counts \in Counts}
\* Up to the limits, and shorter with bytes that are no text.
Wires == UNION {[1 .. n -> {"D", "x", "r", "n"}] : n \in 1 .. MaxWire}
           \cup UNION {[1 .. n -> {"D", "x", "r", "n", "b"}] : n \in 1 .. MaxWire - 2}

Clients == INSTANCE ModelClients WITH fault <- broken, outcome <- result
Sse == INSTANCE SseDecoder WITH events <- decoded
Requests == INSTANCE ModelRequests WITH made <- said

\* A stream's result is generate()'s.
StreamAsGenerated == part = "clients" => Clients!StreamAsGenerated
\* No part of a response is taken for a whole one.
NoUnfinishedResult == part = "clients" => Clients!NoUnfinishedResult
\* The events and the verdict of a response do not depend on how its bytes are cut.
DecodedAsSent == part = "bytes" => Sse!DecodedAsSent
\* A conversation reaches the provider whole.
RequestsWhole == part = "requests" => Requests!RequestsWhole
-----------------------------------------------------------------------------
\* The rest that a part is at while another runs.
FrameworksRest ==
  /\ adapter = "graph" /\ returns = "state" /\ form = "native" /\ how = "invoke" /\ turn = 0
  /\ streaming = FALSE
  /\ born = 0 /\ history = <<>> /\ phase = "over" /\ state = <<>> /\ draft = NoDraft
  /\ made = <<>> /\ fault = "none" /\ accumulated = NoChunks /\ finalState = NoChunks
  /\ events = <<>> /\ pending = <<>> /\ outcome = [kind |-> "none"]
ClientsRest ==
  /\ dialect = "openai" /\ body = [blocks |-> <<>>, finish |-> "stop",
                                   usage |-> [input |-> -1, output |-> -1]]
  /\ sent = <<>> /\ stage = "ended" /\ broken = "none" /\ text = <<>> /\ tools = <<>>
  /\ usage = [input |-> -1, output |-> -1] /\ deltas = <<>> /\ result = [kind |-> "closed"]
SseRests == wire = <<>> /\ total = 0 /\ buffer = <<>> /\ eventBytes = 0 /\ fields = <<>>
            /\ decoded = <<>> /\ at = "ended"

MCInit ==
  /\ Requests!Init
  /\ \/ part = "frameworks" /\ Init /\ ClientsRest /\ SseRests
     \/ part = "clients" /\ FrameworksRest /\ Clients!Init /\ SseRests
     \/ part = "bytes" /\ FrameworksRest /\ ClientsRest /\ Sse!Init
     \/ part = "requests" /\ FrameworksRest /\ ClientsRest /\ SseRests
MCNext ==
  \/ part = "frameworks" /\ Next /\ UNCHANGED <<part, client, sse, request>>
  \/ part = "clients" /\ Clients!Next /\ UNCHANGED <<part, vars, sse, request>>
  \/ part = "bytes" /\ Sse!Next /\ UNCHANGED <<part, vars, client, request>>
  \/ part = "requests" /\ Requests!Next /\ UNCHANGED <<part, vars, client, sse>>
MCSpec == MCInit /\ [][MCNext]_<<part, vars, client, sse, request>>
=============================================================================
