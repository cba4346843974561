----------------------------- MODULE AgentLoop -----------------------------
(***************************************************************************)
(* NativeAgentInvoker: the loop of model calls and tool calls an agent     *)
(* runs in one invocation (src/agent_runtime/adapters/native.py), with the *)
(* checked streams it reads its model through (_streams.py) and the tool   *)
(* registry (tools/registry.py).                                           *)
(*                                                                         *)
(* The generators are nested and pulled by one task, the runtime's: a step *)
(* is what runs between two awaits: of the model, of a tool or its hooks,  *)
(* and of the runtime's emit(), which waits while the reader's queue is    *)
(* full.  Cancellation and the invocation's deadline may reach any await.  *)
(*                                                                         *)
(* A model result is the ids of its tool calls and whether it reports its  *)
(* usage.  A tool is a coroutine, or a function that runs in a thread,     *)
(* which nothing can stop.                                                 *)
(***************************************************************************)
EXTENDS Integers, FiniteSets, Sequences, SequencesExt

CONSTANTS CallIds,        \* tool call ids the model uses, again in each round
          Threaded,       \* those whose tool is a synchronous function
          MaxCalls,       \* bound: tool calls in one result
          MaxIterations,  \* max_tool_iterations
          MaxDeltas       \* bound: deltas the model streams in an invocation

ASSUME LoopAssumption == /\ Threaded \subseteq CallIds
                         /\ MaxCalls \in Nat
                         /\ MaxIterations \in Nat \ {0}
                         /\ MaxDeltas \in Nat

VARIABLES
    mode,       \* invoke(); stream() with a model that streams, or that does not
    phase,      \* "model", "stream", "tools" or "over"
    source,     \* the model's stream: "none", "open", read to its end, or closed early
    held,       \* results checked_stream() withholds until the stream ends
    iteration,
    todo,       \* tool calls of this round still to make; the first is at "stage"
    stage,      \* "before", "handler", "after", or "emit" once recorded
    generated,  \* generated_messages
    results,    \* tool_results
    usage,      \* model calls accounted for, or Unknown
    pending,    \* the event the runtime is emitting
    emitted,    \* events the runtime has emitted
    started,    \* the calls whose handlers have been started
    threads,    \* calls of the handlers abandoned in their thread
    asked,      \* calls made to the model
    outcome     \* "none", "completed", "failed" or "cancelled"

progress == <<mode, iteration, todo, stage, generated, results, usage, emitted, started,
              asked>>
vars == <<progress, phase, source, held, pending, threads, outcome>>

-----------------------------------------------------------------------------
Unknown == -1
Result == [ids : SeqOf(CallIds, MaxCalls), usage : BOOLEAN]
\* checked_result(): the ids of a result are unique.
Valid(result) == IsInjective(result.ids)
Call(id) == [round |-> iteration, id |-> id]

Init ==
  /\ mode \in {"invoke", "generate", "stream"}
  /\ phase = "model" /\ source = "none" /\ held = <<>> /\ iteration = 0
  /\ todo = <<>> /\ stage = "before" /\ generated = <<>> /\ results = <<>> /\ usage = 0
  /\ pending = <<>> /\ emitted = <<>> /\ started = <<>> /\ threads = {} /\ asked = 0
  /\ outcome = "none"

Closed == IF source = "open" THEN "closed" ELSE source
\* The loop is left, by an exception or a cancellation: every generator is closed, a
\* coroutine handler cancelled; a handler in its thread goes on.
Over(why) ==
  /\ phase' = "over" /\ outcome' = why
  /\ source' = Closed
  /\ held' = <<>> /\ pending' = <<>>
  /\ threads' = IF phase = "tools" /\ stage = "handler" /\ todo[1] \in Threaded
                THEN threads \cup {Call(todo[1])} ELSE threads
  /\ UNCHANGED progress
-----------------------------------------------------------------------------
(* The model                                                                 *)

Combined(known) == IF usage = Unknown \/ ~ known THEN Unknown ELSE usage + 1

Exhausted == iteration = MaxIterations

\* A result is taken: checked, recorded, and the answer if it calls no tool.
Accept(result) ==
  \/ ~ Valid(result) /\ Over("failed")
  \/ /\ Valid(result)
     /\ generated' = Append(generated, [role |-> "assistant", ids |-> result.ids])
     /\ usage' = Combined(result.usage)
     /\ source' = IF source = "open" THEN "ended" ELSE source
     /\ held' = <<>>
     /\ IF result.ids # <<>> /\ ~ Exhausted
        THEN /\ phase' = "tools" /\ todo' = result.ids /\ stage' = "before"
             /\ UNCHANGED outcome
        ELSE /\ phase' = "over"
             /\ outcome' = IF result.ids = <<>> THEN "completed" ELSE "failed"
             /\ UNCHANGED <<todo, stage>>
     /\ UNCHANGED <<mode, iteration, results, pending, emitted, started, threads, asked>>

\* generate(), awaited.
Generate ==
  /\ phase = "model" /\ mode # "stream"
  /\ asked' = asked + 1
  /\ phase' = "stream"
  /\ UNCHANGED <<mode, source, held, iteration, todo, stage, generated, results, usage,
                 pending, emitted, started, threads, outcome>>
Returns == /\ phase = "stream" /\ mode # "stream"
           /\ \E result \in Result : Accept(result)

\* stream(): opened, and read through checked_stream().
OpenStream ==
  /\ phase = "model" /\ mode = "stream"
  /\ asked' = asked + 1
  /\ phase' = "stream" /\ source' = "open"
  /\ UNCHANGED <<mode, held, iteration, todo, stage, generated, results, usage, pending,
                 emitted, started, threads, outcome>>

Reading == phase = "stream" /\ mode = "stream" /\ pending = <<>>

\* A delta goes through, unless the model has completed.
Delta ==
  /\ Reading
  /\ \/ held # <<>> /\ Over("failed")
     \/ /\ held = <<>>
        /\ Len(SelectSeq(emitted, LAMBDA e : e.type = "delta")) < MaxDeltas
        /\ pending' = <<[type |-> "delta", call |-> Call("")]>>
        /\ UNCHANGED <<progress, phase, source, held, threads, outcome>>

\* The completed event is withheld; a second one is refused.
Completes ==
  /\ Reading
  /\ \/ held # <<>> /\ Over("failed")
     \/ /\ held = <<>>
        /\ \E result \in Result : held' = <<result>>
        /\ UNCHANGED <<progress, phase, source, pending, threads, outcome>>

\* The stream ends.
Ends ==
  /\ Reading
  /\ \/ held = <<>> /\ Over("failed")
     \/ held # <<>> /\ Accept(held[1])

\* The request fails, is refused, or its stream breaks off.
ModelFails == phase = "stream" /\ pending = <<>> /\ Over("failed")
-----------------------------------------------------------------------------
(* ToolRegistry.invoke()                                                     *)

\* The tool is looked up, its arguments validated, the before_tool hooks run.
Prepare ==
  /\ phase = "tools" /\ stage = "before"
  /\ stage' = "handler"
  /\ started' = Append(started, Call(todo[1]))
  /\ UNCHANGED <<mode, phase, source, held, iteration, todo, generated, results, usage,
                 pending, emitted, threads, asked, outcome>>

ToolResult == [type |-> "tool_result", call |-> Call(todo[1])]

\* Fault: the event leaves with the handler's output, before this is checked.
ReturnedSeen ==
  /\ phase = "tools" /\ stage = "handler"
  /\ stage' = "after"
  /\ emitted' = IF mode = "invoke" THEN emitted ELSE Append(emitted, ToolResult)
  /\ UNCHANGED <<mode, phase, source, held, iteration, todo, generated, results, usage,
                 pending, started, threads, asked, outcome>>
Returned ==
  /\ phase = "tools" /\ stage = "handler"
  /\ stage' = "after"
  /\ UNCHANGED <<mode, phase, source, held, iteration, todo, generated, results, usage,
                 pending, emitted, started, threads, asked, outcome>>

\* Fault: only the last result of a round becomes a message.
ProceedAtLast ==
  /\ generated' = IF Len(todo) > 1 THEN generated
                  ELSE Append(generated, [role |-> "tool", ids |-> <<todo[1]>>])
  /\ todo' = Tail(todo) /\ stage' = "before"
  /\ IF Len(todo) = 1 THEN phase' = "model" /\ iteration' = iteration + 1
                      ELSE UNCHANGED <<phase, iteration>>
\* The result becomes a message; the next call, or the next round, follows.
Proceed ==
  /\ generated' = Append(generated, [role |-> "tool", ids |-> <<todo[1]>>])
  /\ todo' = Tail(todo) /\ stage' = "before"
  /\ IF Len(todo) = 1 THEN phase' = "model" /\ iteration' = iteration + 1
                      ELSE UNCHANGED <<phase, iteration>>

\* The output and the after_tool hooks pass: the result is recorded, and emitted by a
\* stream before anything else happens.
Record ==
  /\ phase = "tools" /\ stage = "after"
  /\ results' = Append(results, Call(todo[1]))
  /\ IF mode = "invoke"
     THEN Proceed /\ UNCHANGED pending
     ELSE /\ pending' = <<ToolResult>> /\ stage' = "emit"
          /\ UNCHANGED <<phase, iteration, todo, generated>>
  /\ UNCHANGED <<mode, source, held, usage, emitted, started, threads, asked, outcome>>

\* The reader's queue takes the event, and the loop goes on behind its yield.
Emit ==
  /\ pending # <<>>
  /\ emitted' = emitted \o pending
  /\ pending' = <<>>
  /\ IF stage = "emit" THEN Proceed
     ELSE UNCHANGED <<phase, iteration, todo, stage, generated>>
  /\ UNCHANGED <<mode, source, held, results, usage, started, threads, asked, outcome>>

\* Fault: a failed tool is passed over.
ToolPassedOver ==
  /\ phase = "tools" /\ pending = <<>>
  /\ todo' = Tail(todo) /\ stage' = "before"
  /\ IF Len(todo) = 1 THEN phase' = "model" /\ iteration' = iteration + 1
                      ELSE UNCHANGED <<phase, iteration>>
  /\ UNCHANGED <<mode, source, held, generated, results, usage, pending, emitted, started,
                 threads, asked, outcome>>
\* Unknown tool, invalid arguments or output, a hook, the handler, or its timeout.
ToolFails == phase = "tools" /\ pending = <<>> /\ Over("failed")

\* A handler left in its thread returns to nobody.
ThreadEnds ==
  /\ \E call \in threads : threads' = threads \ {call}
  /\ UNCHANGED <<progress, phase, source, held, pending, outcome>>

\* The invocation is cancelled or reaches its deadline.
Cancelled == phase # "over" /\ Over("cancelled")

Next == \/ Generate \/ Returns \/ OpenStream \/ Delta \/ Completes \/ Ends \/ ModelFails
        \/ Prepare \/ Returned \/ Record \/ Emit \/ ToolFails \/ ThreadEnds \/ Cancelled

Spec == Init /\ [][Next]_vars
-----------------------------------------------------------------------------
(* Properties.                                                               *)

\* A completed run's messages are whole exchanges: each result's calls are answered
\* right after it, one message per call in their order, and the last message calls no
\* tool.  Such a transcript is never refused as context of a later turn.
ExchangesWhole ==
  LET size == Len(generated)
      At(role) == {n \in 1 .. size : generated[n].role = role}
      Until(n) == Cardinality({m \in 1 .. n : generated[m].role = "tool"})
  IN outcome = "completed" =>
       /\ generated # <<>> /\ Last(generated) = [role |-> "assistant", ids |-> <<>>]
       /\ Until(size) = Len(results)
       /\ \A n \in At("assistant") : \A k \in 1 .. Len(generated[n].ids) :
            /\ n + k <= size
            /\ generated[n + k] = [role |-> "tool", ids |-> <<generated[n].ids[k]>>]
       /\ \A n \in At("tool") :
            /\ generated[n].ids = <<results[Until(n)].id>>
            /\ \E m \in At("assistant") : n \in m + 1 .. m + Len(generated[m].ids)

\* Every handler that was started has its result recorded, but for the one at which
\* the run was cut off, the only one that may go on in a thread; no call is made twice,
\* and a completed run misses none.  The last round allowed starts none, and usage is
\* only reported when every call made to the model reported its own.
EffectsAccounted ==
  /\ IsPrefix(results, started)
  /\ Len(started) <= Len(results) + 1
  /\ outcome = "completed" => started = results
  /\ IsInjective(started)
  /\ \A call \in threads : outcome \in {"failed", "cancelled"} /\ call \notin ToSet(results)
  /\ asked <= MaxIterations + 1 /\ \A call \in ToSet(started) : call.round < MaxIterations
  /\ outcome = "completed" /\ usage # Unknown => usage = asked

\* What a stream's reader has seen of the tools is what the run records, in order, but
\* for a last one whose event was cut off; and no delta of a round follows its tools.
\* No stream of the model's is left open by a loop that has ended or gone on to its tools,
\* and a result only counts once its stream has been read to the end.
StreamAgrees ==
  mode # "invoke" =>
    /\ LET Seen(n) == Cardinality({m \in 1 .. n : emitted[m].type = "tool_result"})
           missing == Len(results) - Seen(Len(emitted))
       IN /\ missing \in {0, 1}
          /\ outcome = "completed" => missing = 0
          /\ \A n \in 1 .. Len(emitted) :
               emitted[n].type = "tool_result" => emitted[n].call = results[Seen(n)]
    /\ \A n \in 1 .. Len(emitted) - 1 :
         \/ emitted[n].call.round < emitted[n + 1].call.round
         \/ /\ emitted[n].call.round = emitted[n + 1].call.round
            /\ emitted[n + 1].type = "delta" => emitted[n].type = "delta"
    /\ source = "open" => phase = "stream"
    /\ mode = "stream" /\ (phase = "tools" \/ outcome = "completed") => source = "ended"
=============================================================================
