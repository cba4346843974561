----------------------------- MODULE MCAgentLoop -----------------------------
(* The native loop, and the support agent's own, which implements it, on the *)
(* same small instance: two call ids, of which one tool runs in a thread,    *)
(* and three rounds of tools.  While one loop runs, the other rests.         *)
EXTENDS AgentLoop

VARIABLES part, kind, model, named, node, steps, state, local, account,
          made, left, requests, ending

graph == <<kind, model, named, node, steps, state, local, account, made, left, requests,
           ending>>
Graph == INSTANCE SupportAgent WITH
           max_tool_iterations <- MaxIterations, started <- made, threads <- left,
           asked <- requests, outcome <- ending

\* The runnable and the graph of the example run the native loop.
RunsTheNativeLoop == Graph!RunsTheNativeLoop
-----------------------------------------------------------------------------
MCInit == /\ Init /\ Graph!Init /\ part \in {"native", "graph"}
          /\ part = "native" => kind = "graph" /\ model = "fake" /\ named
          /\ part = "graph" => mode = "invoke"
MCNext == \/ part = "native" /\ Next /\ UNCHANGED <<part, graph>>
          \/ part = "graph" /\ Graph!Next /\ UNCHANGED <<part, vars>>
MCSpec == MCInit /\ [][MCNext]_<<part, vars, graph>>
=============================================================================
