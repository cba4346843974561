---------------------------- MODULE ModelClients ----------------------------
(***************************************************************************)
(* The model clients for three HTTP APIs (src/agent_runtime/models_clients *)
(* openai_compatible.py, anthropic.py, gemini.py, with _canonical.py and   *)
(* _http.py): what generate() makes of a provider's response, and what     *)
(* stream() makes of the same response sent in pieces.                     *)
(*                                                                         *)
(* A response is a sequence of blocks, text or tool calls.  Text is a      *)
(* sequence of pieces; a call has an id, which may be empty, and           *)
(* arguments: pieces of JSON, an object when they are {}.  The names of    *)
(* tools are checked as their ids are, and left out.                       *)
(*                                                                         *)
(* The provider sends a response by the rules of its API, in any pieces    *)
(* they allow, and may break them once.  A step is one event sent and      *)
(* handled: nothing else happens between an event and its handler.         *)
(***************************************************************************)
EXTENDS Integers, Sequences, SequencesExt, FiniteSets, Functions

CONSTANT Bodies      \* the responses: blocks, finish and usage

VARIABLES
    dialect,  \* "openai", "anthropic" or "gemini"
    body,     \* the response the provider has
    sent,     \* how much of each block it has sent
    stage,    \* of its stream: "start", "blocks", "finished" or "ended"
    fault,    \* the rule it has broken, or "none"
    text,     \* text_chunks
    tools,    \* tool_chunks, by index; gemini's list of calls
    usage,    \* the counts heard so far
    deltas,   \* the text yielded to the reader
    outcome   \* of stream(): pending, failed, closed or a result

provider == <<dialect, body, sent, stage, fault>>
client == <<text, tools, usage, deltas, outcome>>
vars == <<provider, client>>

-----------------------------------------------------------------------------
Unknown == -1
NoUsage == [input |-> Unknown, output |-> Unknown]
\* token_usage(): counts are only usage when both are known.
Counted(counts) == IF Unknown \in {counts.input, counts.output} THEN NoUsage ELSE counts

Pending == [kind |-> "pending"]
Failed(retryable) == [kind |-> "failed", retryable |-> retryable]
IsObject(args) == args = <<"{", "}">>
\* json.loads(arguments or "{}").
Accepted(args) == args = <<>> \/ IsObject(args)

\* assembled_result(), behind the ToolCall of every call: text first, then the calls.
Assembled(pieces, calls, counts) ==
  IF \/ \E n \in DOMAIN calls : calls[n].id = <<>> \/ ~ Accepted(calls[n].args)
     \/ ~ IsInjective([n \in DOMAIN calls |-> calls[n].id])
     \/ pieces = <<>> /\ calls = <<>>
  THEN Failed(FALSE)
  ELSE [kind |-> "result", text |-> pieces, usage |-> counts,
        calls |-> [n \in DOMAIN calls |-> calls[n].id]]

TextOf(blocks) == FlattenSeq([n \in DOMAIN blocks |->
                    IF blocks[n].type = "text" THEN blocks[n].pieces ELSE <<>>])
CallsOf(blocks) == SelectSeq(blocks, LAMBDA block : block.type = "call")
\* Gemini names no calls: each gets an id of its own.
Named(api, calls) ==
  [n \in DOMAIN calls |->
     IF api = "gemini" THEN [calls[n] EXCEPT !.id = <<n>>] ELSE calls[n]]

\* generate(): the whole response at once.  OpenAI's arguments must be JSON as they
\* stand; the other two send an object.
Generated(api, response) ==
  LET calls == Named(api, CallsOf(response.blocks))
  IN IF \/ response.finish \notin {"none", "stop"}
        \/ api = "openai" /\ \E n \in DOMAIN calls : ~ IsObject(calls[n].args)
     THEN Failed(FALSE)
     ELSE Assembled(TextOf(response.blocks), calls, Counted(response.usage))

Init ==
  /\ dialect \in {"openai", "anthropic", "gemini"}
  /\ body \in Bodies
  /\ sent = [n \in DOMAIN body.blocks |-> 0]
  /\ stage = IF dialect = "anthropic" THEN "start" ELSE "blocks"
  /\ fault = "none"
  /\ text = <<>> /\ tools = <<>> /\ usage = NoUsage /\ deltas = <<>> /\ outcome = Pending
-----------------------------------------------------------------------------
(* The provider                                                             *)

Block(n) == body.blocks[n]
Units(n) == CASE Block(n).type = "text" -> Len(Block(n).pieces)
              [] dialect = "gemini" -> 1
              [] OTHER -> 1 + Len(Block(n).args)
Whole(n) == sent[n] = Units(n)
\* Blocks follow each other; OpenAI keeps text and calls apart, and may interleave the
\* arguments of calls it has begun.
Sendable(n) ==
  /\ stage = "blocks" /\ ~ Whole(n)
  /\ \A m \in 1 .. n - 1 :
       \/ Whole(m)
       \/ dialect = "openai" /\ Block(m).type # Block(n).type
       \/ dialect = "openai" /\ Block(n).type = "call" /\ sent[m] > 0
\* The index of a call in a stream.
Index(n) == IF dialect = "openai" THEN Len(CallsOf(SubSeq(body.blocks, 1, n - 1))) ELSE n - 1

Sends(n, units) == /\ sent' = [sent EXCEPT ![n] = @ + units]
                   /\ UNCHANGED <<dialect, body, stage, fault>>
Reading == outcome = Pending
\* The client gives up.
Refuse(retryable) == /\ outcome' = Failed(retryable)
                     /\ UNCHANGED <<text, tools, usage, deltas>>
\* Counts that come with an event replace those before, once they are complete.
Running == IF Counted(body.usage) = NoUsage THEN {usage}
           ELSE {usage, [body.usage EXCEPT !.output = 0]}
-----------------------------------------------------------------------------
(* stream()                                                                 *)

\* Anthropic's message_start.
Start ==
  /\ Reading /\ stage = "start"
  /\ stage' = "blocks" /\ UNCHANGED <<dialect, body, sent, fault>>
  /\ \E output \in IF body.usage.output = Unknown THEN {Unknown} ELSE {Unknown, 0} :
       usage' = [body.usage EXCEPT !.output = output]
  /\ UNCHANGED <<text, tools, deltas, outcome>>

\* A piece of text, yielded as it comes.
TextDelta ==
  /\ Reading
  /\ \E n \in DOMAIN body.blocks :
       /\ Block(n).type = "text" /\ Sendable(n) /\ Sends(n, 1)
       /\ LET piece == Block(n).pieces[sent[n] + 1]
          IN text' = Append(text, piece) /\ deltas' = Append(deltas, piece)
  /\ usage' \in (IF dialect = "anthropic" THEN {usage} ELSE Running)
  /\ UNCHANGED <<tools, outcome>>

With(index, chunk) ==
  [i \in DOMAIN tools \cup {index} |-> IF i = index THEN chunk ELSE tools[i]]
\* The fields of a fragment are appended to those of its index.
Extended(index, id, args) ==
  LET old == IF index \in DOMAIN tools THEN tools[index] ELSE [id |-> <<>>, args |-> <<>>]
  IN With(index, [id |-> old.id \o id, args |-> old.args \o args])

\* A call begins: OpenAI's first fragment may hold arguments; Anthropic's block starts
\* empty or with its input; Gemini sends it whole.
CallBegins ==
  /\ Reading
  /\ \E n \in DOMAIN body.blocks :
       LET args == Block(n).args
           id == IF dialect = "gemini" THEN <<n>> ELSE Block(n).id
       IN /\ Block(n).type = "call" /\ sent[n] = 0 /\ Sendable(n)
          /\ \E units \in IF dialect = "gemini" THEN {Len(args)}
                          ELSE IF dialect = "anthropic" THEN {0, Len(args)}
                          ELSE 0 .. Len(args) :
               /\ Sends(n, IF dialect = "gemini" THEN 1 ELSE 1 + units)
               /\ IF \/ dialect = "gemini" /\ ~ Accepted(args)
                     \/ dialect = "anthropic" /\ units > 0 /\ ~ IsObject(args)
                  THEN Refuse(FALSE)
                  ELSE /\ tools' = Extended(Index(n), id, SubSeq(args, 1, units))
                       /\ UNCHANGED <<text, usage, deltas, outcome>>

\* More of its arguments.
CallDelta ==
  /\ Reading
  /\ \E n \in DOMAIN body.blocks :
       /\ Block(n).type = "call" /\ sent[n] > 0 /\ Sendable(n) /\ Sends(n, 1)
       /\ tools' = Extended(Index(n), <<>>, <<Block(n).args[sent[n]]>>)
  /\ UNCHANGED <<text, usage, deltas, outcome>>

\* Fault: a response cut off at its length limit passes.
FinishesAnyhow ==
  /\ Reading /\ stage = "blocks" /\ \A n \in DOMAIN sent : Whole(n)
  /\ stage' = "finished" /\ UNCHANGED <<dialect, body, sent, fault>>
  /\ usage' = body.usage /\ UNCHANGED <<text, tools, deltas, outcome>>
\* The finish reason, with the final counts.
Finishes ==
  /\ Reading /\ stage = "blocks" /\ \A n \in DOMAIN sent : Whole(n)
  /\ stage' = "finished" /\ UNCHANGED <<dialect, body, sent, fault>>
  /\ IF body.finish \notin {"none", "stop"} THEN Refuse(FALSE)
     ELSE /\ usage' = IF dialect = "anthropic" /\ body.usage.output # Unknown
                      THEN [usage EXCEPT !.output = body.usage.output]
                      ELSE IF Counted(body.usage) = NoUsage THEN usage ELSE body.usage
          /\ UNCHANGED <<text, tools, deltas, outcome>>

\* What stream() yields last: the calls by their index.
Completed ==
  LET calls == [n \in 1 .. Cardinality(DOMAIN tools) |->
                  tools[CHOOSE i \in DOMAIN tools :
                          Cardinality({j \in DOMAIN tools : j < i}) = n - 1]]
  IN /\ outcome' = Assembled(text, Named(dialect, calls), Counted(usage))
     /\ UNCHANGED <<text, tools, usage, deltas>>

\* [DONE], message_stop, or the end of a stream that has said STOP.
Ends ==
  /\ Reading /\ stage = "finished"
  /\ stage' = "ended" /\ UNCHANGED <<dialect, body, sent, fault>>
  /\ IF dialect = "gemini" /\ body.finish = "none" THEN Refuse(TRUE) ELSE Completed

\* Fault: the end of the stream completes it.
TruncatedPasses ==
  /\ Reading
  /\ stage \in {"start", "blocks", "finished"} /\ fault = "none"
  /\ fault' = "truncated" /\ UNCHANGED <<dialect, body, sent, stage>>
  /\ Completed
\* The stream ends before its end marker.
Truncated ==
  /\ Reading
  /\ stage \in {"start", "blocks"} \/ (stage = "finished" /\ dialect # "gemini")
  /\ fault = "none"
  /\ fault' = "truncated" /\ UNCHANGED <<dialect, body, sent, stage>>
  /\ Refuse(TRUE)

\* Failures, with whether a retry may help: a status (of a busy server, or another), a
\* broken connection, an error event; a wrong event, index, count or second candidate,
\* and an event beyond its limit.
Broken == [busy |-> TRUE, rejected |-> FALSE, transport |-> TRUE, error |-> TRUE,
           malformed |-> FALSE, candidate |-> FALSE, index |-> FALSE, counts |-> FALSE,
           oversized |-> FALSE]
Breaks ==
  /\ Reading /\ fault = "none"
  /\ \E what \in DOMAIN Broken :
       /\ what \in {"busy", "rejected"} => \A n \in DOMAIN sent : sent[n] = 0
       /\ fault' = what /\ Refuse(Broken[what])
  /\ UNCHANGED <<dialect, body, sent, stage>>

\* A call begins again: Anthropic is refused, OpenAI's fields are appended.
BeginsAgain ==
  /\ Reading /\ fault = "none" /\ dialect # "gemini" /\ stage = "blocks"
  /\ fault' = "again" /\ UNCHANGED <<dialect, body, sent, stage>>
  /\ \E n \in DOMAIN body.blocks :
       /\ Block(n).type = "call" /\ sent[n] > 0
       /\ IF dialect = "anthropic" THEN Refuse(FALSE)
          ELSE /\ tools' = Extended(Index(n), Block(n).id, <<>>)
               /\ UNCHANGED <<text, usage, deltas, outcome>>

\* Gemini goes on after STOP; nobody reads what follows the others' end marker.
GoesOn ==
  /\ Reading /\ fault = "none" /\ dialect = "gemini"
  /\ stage = "finished" /\ body.finish = "stop"
  /\ fault' = "after" /\ UNCHANGED <<dialect, body, sent, stage>>
  /\ Refuse(FALSE)

\* The reader closes the generator at a delta.
Closes ==
  /\ Reading /\ deltas # <<>>
  /\ outcome' = [kind |-> "closed"]
  /\ UNCHANGED <<provider, text, tools, usage, deltas>>

Next == \/ Start \/ TextDelta \/ CallBegins \/ CallDelta \/ Finishes \/ Ends
        \/ Truncated \/ Breaks \/ BeginsAgain \/ GoesOn \/ Closes
Spec == Init /\ [][Next]_vars
-----------------------------------------------------------------------------
(* Properties.                                                              *)

\* Whatever pieces a response comes in, stream() ends as generate() does: the same
\* result, having yielded its text, or the same refusal.  A stream alone accepts an
\* OpenAI call whose arguments are empty, and alone asks Gemini for a finish reason.
StreamAsGenerated ==
  /\ fault = "none" /\ outcome.kind \in {"failed", "result"}
  /\ ~ (dialect = "openai" /\ \E n \in DOMAIN body.blocks :
          Block(n).type = "call" /\ Block(n).args = <<>>)
  /\ ~ (dialect = "gemini" /\ body.finish = "none")
  => /\ outcome = Generated(dialect, body)
     /\ outcome.kind = "result" => deltas = outcome.text

\* A result is only ever made of a response that was sent to its end marker and broke
\* no rule the client could see; each text it holds was yielded, and each call in it
\* was sent whole, under the id it was begun with.
NoUnfinishedResult ==
  outcome.kind = "result" =>
    /\ stage = "ended" /\ fault \in {"none", "again"}
    /\ deltas = outcome.text
    /\ fault = "none" =>
         /\ \A n \in DOMAIN sent : Whole(n)
         /\ outcome.calls = [n \in DOMAIN CallsOf(body.blocks) |->
                               Named(dialect, CallsOf(body.blocks))[n].id]
=============================================================================
