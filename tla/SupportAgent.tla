---------------------------- MODULE SupportAgent ----------------------------
(***************************************************************************)
(* The support agent's own loop (src/examples/support_agent/agent.py): one *)
(* model step and one tool step, run by a LangChain runnable or as the     *)
(* nodes of a LangGraph graph, in place of the library's native loop.  The *)
(* three are registered as interchangeable; that this loop implements the  *)
(* native one is the refinement below.                                     *)
(*                                                                         *)
(* A node changes the state only when it returns; what it has done so far  *)
(* is in its locals.  A model result is the ids of its calls and whether   *)
(* it reports usage, as in AgentLoop.                                      *)
(***************************************************************************)
EXTENDS Integers, Sequences, SequencesExt

CONSTANTS CallIds, Threaded,     \* as in AgentLoop
          MaxCalls,              \* bound: tool calls in one result
          max_tool_iterations

VARIABLES
    kind,      \* "runnable" or "graph"
    model,     \* FakeSupportModel, or a provider's
    named,     \* the thread's users have named an order
    node,      \* the next step: "model", its call, "route" or "tools"
    steps,     \* steps the graph has taken
    state,     \* SupportState: messages generated, tool_iterations, tool_results
    local,     \* of tool_step: messages, results, calls left, and where the first is
    account,   \* auxiliary: what the native loop would report as usage
    started, threads, asked,  \* as in AgentLoop
    outcome

vars == <<kind, model, named, node, steps, state, local, account, started, threads, asked,
          outcome>>

-----------------------------------------------------------------------------
Assistant(ids) == [role |-> "assistant", ids |-> ids]
Tool(id) == [role |-> "tool", ids |-> <<id>>]
NoLocals == [messages |-> <<>>, results |-> <<>>, calls |-> <<>>, stage |-> "before"]
Lookup == CHOOSE id \in CallIds : TRUE

Init ==
  /\ kind \in {"runnable", "graph"} /\ model \in {"fake", "provider"} /\ named \in BOOLEAN
  /\ node = "model" /\ steps = 0
  /\ state = [messages |-> <<>>, tool_iterations |-> 0, tool_results |-> <<>>, usage |-> FALSE]
  /\ local = NoLocals /\ account = 0 /\ started = <<>> /\ threads = {} /\ asked = 0
  /\ outcome = "none"

Call(id) == [round |-> state.tool_iterations, id |-> id]
Running == outcome = "none"

\* The loop is left; a handler in its thread goes on.
Over(why) ==
  /\ outcome' = why
  /\ threads' = IF node = "tools" /\ local.stage = "handler" /\ local.calls[1] \in Threaded
                THEN threads \cup {Call(local.calls[1])} ELSE threads
  /\ UNCHANGED <<kind, model, named, node, steps, state, local, account, started, asked>>

\* Fault: room for the rounds of tools, but not for the answer after them.
RoundsOnly == 2 * max_tool_iterations
\* The steps a compiled graph may take.
RecursionLimit == 2 * max_tool_iterations + 5
MayStep == kind = "graph" => steps < RecursionLimit
Stepped == steps' = IF kind = "graph" THEN steps + 1 ELSE 0
-----------------------------------------------------------------------------
\* model_step: the model is called with all that has been said.
ModelStep ==
  /\ Running /\ node = "model"
  /\ IF ~ MayStep THEN Over("failed")
     ELSE /\ node' = "asking" /\ Stepped
          /\ asked' = asked + 1
          /\ UNCHANGED <<kind, model, named, state, local, account, started, threads, outcome>>

\* FakeSupportModel.generate(): an order is looked up, then its status is told.
FakeCalls == IF state.messages = <<>> /\ named THEN <<Lookup>> ELSE <<>>
Results == IF model = "fake" THEN {[ids |-> FakeCalls, usage |-> FALSE]}
           ELSE {r \in [ids : SeqOf(CallIds, MaxCalls), usage : BOOLEAN] : IsInjective(r.ids)}

\* The result is appended, and the state returned; its usage replaces the last one's.
ModelReturns ==
  /\ Running /\ node = "asking"
  /\ \E r \in Results :
       state' = [state EXCEPT !.messages = Append(@, Assistant(r.ids)), !.usage = r.usage]
  /\ node' = "route"
  /\ UNCHANGED <<kind, model, named, steps, local, account, started, threads, asked, outcome>>

\* The model fails, or returns what is no ModelResult.
ModelFails == Running /\ node = "asking" /\ Over("failed")

\* Fault: one round of tools too many.
ExhaustedLate == state.tool_iterations > max_tool_iterations
Exhausted == state.tool_iterations >= max_tool_iterations

\* route(), and the first check of tool_step: the end, the tools, or too many rounds.
Route ==
  /\ Running /\ node = "route"
  /\ account' = IF account = -1 \/ ~ state.usage THEN -1 ELSE account + 1
  /\ LET calls == Last(state.messages).ids IN
     /\ node' = IF calls = <<>> THEN "end" ELSE "tools"
     /\ outcome' = IF calls = <<>> THEN "completed"
                   ELSE IF Exhausted \/ ~ MayStep THEN "failed" ELSE "none"
     /\ local' = [messages |-> state.messages, results |-> state.tool_results,
                  calls |-> IF Exhausted THEN <<>> ELSE calls, stage |-> "before"]
     /\ IF calls = <<>> THEN UNCHANGED steps ELSE Stepped
  /\ UNCHANGED <<kind, model, named, state, started, threads, asked>>

\* tool_step: ToolRegistry.invoke() of one call after the other.
Invokes ==
  /\ Running /\ node = "tools" /\ local.stage = "before"
  /\ local' = [local EXCEPT !.stage = "handler"]
  /\ started' = Append(started, Call(local.calls[1]))
  /\ UNCHANGED <<kind, model, named, node, steps, state, account, threads, asked, outcome>>

Returned ==
  /\ Running /\ node = "tools" /\ local.stage = "handler"
  /\ local' = [local EXCEPT !.stage = "after"]
  /\ UNCHANGED <<kind, model, named, node, steps, state, account, started, threads, asked, outcome>>

\* A result is recorded; after the last one the node returns the new state.
Record ==
  /\ Running /\ node = "tools" /\ local.stage = "after"
  /\ LET messages == Append(local.messages, Tool(local.calls[1]))
         results == Append(local.results, Call(local.calls[1]))
     IN IF Len(local.calls) > 1
        THEN /\ local' = [messages |-> messages, results |-> results,
                          calls |-> Tail(local.calls), stage |-> "before"]
             /\ UNCHANGED <<node, state>>
        ELSE /\ state' = [state EXCEPT !.messages = messages, !.tool_results = results,
                                       !.tool_iterations = @ + 1]
             /\ local' = NoLocals /\ node' = "model"
  /\ UNCHANGED <<kind, model, named, steps, account, started, threads, asked, outcome>>

ToolFails == Running /\ node = "tools" /\ Over("failed")

\* A handler left in its thread returns to nobody.
ThreadEnds ==
  /\ \E call \in threads : threads' = threads \ {call}
  /\ UNCHANGED <<kind, model, named, node, steps, state, local, account, started, asked, outcome>>

\* Between the model's return and the tools there is no await in the runnable.
Cancelled == Running /\ (node = "route" => kind = "graph") /\ Over("cancelled")

Next == \/ ModelStep \/ ModelReturns \/ ModelFails \/ Route \/ Invokes \/ Returned \/ Record
        \/ ToolFails \/ ThreadEnds \/ Cancelled
Spec == Init /\ [][Next]_vars
-----------------------------------------------------------------------------
(* The native loop.  A result counts there once it has been routed here, and *)
(* a node's locals once it has begun.                                        *)

InTools == node = "tools"
Loop == INSTANCE AgentLoop WITH
  MaxIterations <- max_tool_iterations, MaxDeltas <- 0,
  mode <- "invoke", source <- "none", held <- <<>>, pending <- <<>>, emitted <- <<>>,
  phase <- IF outcome # "none" THEN "over"
           ELSE IF node \in {"asking", "route"} THEN "stream" ELSE node,
  iteration <- state.tool_iterations,
  todo <- local.calls, stage <- local.stage,
  generated <- IF InTools THEN local.messages
               ELSE IF node = "route" THEN Front(state.messages) ELSE state.messages,
  results <- IF InTools THEN local.results ELSE state.tool_results,
  usage <- account

\* An agent that is moved from the native loop to the runnable or the graph makes the
\* same calls in the same order, records the same messages and results, and ends after
\* as many rounds: the graph's limit on steps never ends it first.
RunsTheNativeLoop == Loop!Spec
=============================================================================
