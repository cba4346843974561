------------------------- MODULE SupportAgentProofs -------------------------
(***************************************************************************)
(* The support agent's own loop (module SupportAgent) implements the       *)
(* native one (module AgentLoop), for any call ids, any limit on rounds    *)
(* and any bound on calls, and so does what is proved of that one.         *)
(***************************************************************************)
EXTENDS SupportAgent, SequenceTheorems, TLAPS

\* The limit is positive (config.py, native.py), and there is a tool to call.
Settings == /\ max_tool_iterations \in Nat \ {0}
            /\ CallIds # {} /\ MaxCalls \in Nat \ {0}
            /\ Threaded \subseteq CallIds

Message == [role : {"assistant", "tool"}, ids : Seq(CallIds)]
Calls == [round : Nat, id : CallIds]
Ids == {ids \in SeqOf(CallIds, MaxCalls) : IsInjective(ids)}

TypeOK ==
  /\ node \in {"model", "asking", "route", "tools", "end"}
  /\ outcome \in {"none", "completed", "failed", "cancelled"}
  /\ state \in [messages : Seq(Message), tool_iterations : 0 .. max_tool_iterations,
                tool_results : Seq(Calls), usage : BOOLEAN]
  /\ local \in [messages : Seq(Message), results : Seq(Calls), calls : Seq(CallIds),
                stage : {"before", "handler", "after"}]

\* What the loop holds where it is.
Holds ==
  /\ node = "end" => ~ Running
  /\ node # "tools" => local.calls = <<>> /\ local.stage = "before"
  /\ node = "tools" /\ Running =>
       local.calls # <<>> /\ state.tool_iterations < max_tool_iterations
  /\ node = "route" => /\ state.messages # <<>>
                       /\ \E ids \in Ids : Last(state.messages) = Assistant(ids)

\* The steps of a graph: two a round, and those of the round it is in.
Counted ==
  kind = "graph" /\ Running =>
    /\ node = "model" => steps = 2 * state.tool_iterations
    /\ node \in {"asking", "route"} => steps = 2 * state.tool_iterations + 1
    /\ node = "tools" => steps = 2 * state.tool_iterations + 2

Inv == TypeOK /\ Holds /\ Counted
-----------------------------------------------------------------------------
(* The invariant.                                                            *)

LEMMA IdsAreSeqs == ASSUME Settings PROVE \A ids \in SeqOf(CallIds, MaxCalls) : ids \in Seq(CallIds)
BY DEF SeqOf, Settings

LEMMA ResultIds ==
  ASSUME Settings, NEW result \in Results
  PROVE  result.ids \in Ids /\ result.usage \in BOOLEAN
<1>1. Lookup \in CallIds
  BY DEF Lookup, Settings
<1>2. <<>> \in Ids
  <2>1. <<>> \in [1 .. 0 -> CallIds] /\ 0 \in 0 .. MaxCalls
    BY DEF Settings
  <2>2. IsInjective(<<>>)
    BY DEF IsInjective
  <2>3. QED BY <2>1, <2>2 DEF Ids, SeqOf
<1>3. <<Lookup>> \in Ids
  <2>1. <<Lookup>> \in [1 .. 1 -> CallIds] /\ 1 \in 0 .. MaxCalls
    BY <1>1 DEF Settings
  <2>2. IsInjective(<<Lookup>>)
    BY DEF IsInjective
  <2>3. QED BY <2>1, <2>2 DEF Ids, SeqOf
<1>4. CASE model = "fake"
  <2>1. result = [ids |-> FakeCalls, usage |-> FALSE]
    BY <1>4 DEF Results
  <2>2. FakeCalls \in Ids
    BY <1>2, <1>3 DEF FakeCalls
  <2>3. QED BY <2>1, <2>2
<1>5. CASE model # "fake"
  BY <1>5 DEF Results, Ids
<1>6. QED BY <1>4, <1>5

LEMMA Starts == ASSUME Settings PROVE Init => Inv
BY DEF Settings, Init, Inv, TypeOK, Holds, Counted, Running, NoLocals

\* The graph's limit is never reached.
LEMMA LimitIsFar ==
  ASSUME Settings, Inv, Running, node \in {"model", "route"}
  PROVE  MayStep
BY DEF Settings, Inv, TypeOK, Counted, Running, MayStep, RecursionLimit

LEMMA OverKeeps == ASSUME Inv, NEW why \in {"failed", "cancelled"}, Over(why) PROVE Inv'
BY DEF Over, Inv, TypeOK, Holds, Counted, Running

LEMMA ModelStepKeeps == ASSUME Settings, Inv, ModelStep PROVE Inv'
BY LimitIsFar DEF ModelStep, Stepped, Settings, Inv, TypeOK, Holds, Counted, Running

LEMMA ModelReturnsKeeps == ASSUME Settings, Inv, ModelReturns PROVE Inv'
<1>1. PICK result \in Results : state' =
        [state EXCEPT !.messages = Append(@, Assistant(result.ids)), !.usage = result.usage]
  BY DEF ModelReturns
<1>2. result.ids \in Ids /\ result.ids \in Seq(CallIds) /\ result.usage \in BOOLEAN
  BY ResultIds, IdsAreSeqs DEF Ids
<1>3. Assistant(result.ids) \in Message
  BY <1>2 DEF Assistant, Message
<1> PICK messages : messages = Append(state.messages, Assistant(result.ids))
  OBVIOUS
<1>4. /\ messages \in Seq(Message) /\ messages # <<>>
      /\ Last(messages) = Assistant(result.ids)
  <2>1. state.messages \in Seq(Message)
    BY DEF Inv, TypeOK
  <2>2. /\ messages \in Seq(Message) /\ Len(messages) = Len(state.messages) + 1
        /\ messages[Len(state.messages) + 1] = Assistant(result.ids)
    BY <1>3, <2>1, AppendProperties
  <2>3. Len(state.messages) \in Nat
    BY <2>1
  <2>4. QED BY <2>2, <2>3 DEF Last
<1>5. /\ state' = [state EXCEPT !.messages = messages, !.usage = result.usage]
      /\ state'.messages = messages /\ state'.tool_iterations = state.tool_iterations
      /\ TypeOK'
  BY <1>1, <1>2, <1>4 DEF ModelReturns, Inv, TypeOK
<1>6. QED BY <1>2, <1>4, <1>5 DEF ModelReturns, Inv, Holds, Counted, Running

LEMMA RouteKeeps == ASSUME Settings, Inv, Route PROVE Inv'
<1>1. PICK ids \in Ids : Last(state.messages) = Assistant(ids)
  BY DEF Route, Inv, Holds
<1>2. ids \in Seq(CallIds) /\ Last(state.messages).ids = ids
  BY <1>1, IdsAreSeqs DEF Ids, Assistant
<1>3. MayStep
  BY LimitIsFar DEF Route
<1>4. QED BY <1>2, <1>3 DEF Route, Exhausted, Stepped, Settings, Inv, TypeOK, Holds, Counted,
             Running

LEMMA CallsKeep == ASSUME Settings, Inv, Invokes \/ Returned PROVE Inv'
BY DEF Invokes, Returned, Inv, TypeOK, Holds, Counted, Running

LEMMA FirstAndRest ==
  ASSUME NEW S, NEW s \in Seq(S), s # <<>>
  PROVE  /\ s[1] \in S /\ Tail(s) \in Seq(S)
         /\ Len(s) > 1 => Tail(s) # <<>> /\ Len(s) # 1
         /\ ~ Len(s) > 1 => Tail(s) = <<>> /\ Len(s) = 1
<1>1. Len(s) \in Nat /\ Len(s) # 0
  BY EmptySeq
<1>2. s[1] \in S /\ Tail(s) \in Seq(S) /\ Len(Tail(s)) = Len(s) - 1
  BY <1>1
<1>3. Tail(s) = <<>> <=> Len(Tail(s)) = 0
  BY <1>2, EmptySeq
<1>4. QED BY <1>1, <1>2, <1>3

LEMMA Recorded ==
  ASSUME Inv, Running, node = "tools"
  PROVE  /\ local.calls[1] \in CallIds /\ Tail(local.calls) \in Seq(CallIds)
         /\ Len(local.calls) > 1 => Tail(local.calls) # <<>> /\ Len(local.calls) # 1
         /\ ~ Len(local.calls) > 1 => Tail(local.calls) = <<>> /\ Len(local.calls) = 1
         /\ Append(local.messages, Tool(local.calls[1])) \in Seq(Message)
         /\ Append(local.results, Call(local.calls[1])) \in Seq(Calls)
<1>1. local.calls \in Seq(CallIds) /\ local.calls # <<>>
  BY DEF Inv, TypeOK, Holds
<1>2. /\ local.calls[1] \in CallIds /\ Tail(local.calls) \in Seq(CallIds)
      /\ Len(local.calls) > 1 => Tail(local.calls) # <<>> /\ Len(local.calls) # 1
      /\ ~ Len(local.calls) > 1 => Tail(local.calls) = <<>> /\ Len(local.calls) = 1
  BY <1>1, FirstAndRest
<1>3. /\ Tool(local.calls[1]) \in Message /\ Call(local.calls[1]) \in Calls
      /\ local.messages \in Seq(Message) /\ local.results \in Seq(Calls)
  <2>1. state.tool_iterations \in Nat
    BY DEF Inv, TypeOK
  <2>2. QED BY <1>2, <2>1 DEF Tool, Call, Message, Calls, Inv, TypeOK
<1>4. /\ Append(local.messages, Tool(local.calls[1])) \in Seq(Message)
      /\ Append(local.results, Call(local.calls[1])) \in Seq(Calls)
  BY <1>3
<1>5. QED BY <1>2, <1>4

LEMMA RecordKeeps == ASSUME Settings, Inv, Record PROVE Inv'
<1>1. Running /\ node = "tools"
  BY DEF Record
<1> PICK messages : messages = Append(local.messages, Tool(local.calls[1]))
  OBVIOUS
<1> PICK results : results = Append(local.results, Call(local.calls[1]))
  OBVIOUS
<1> PICK rest : rest = Tail(local.calls)
  OBVIOUS
<1> PICK rounds : rounds = state.tool_iterations + 1
  OBVIOUS
<1>2. /\ messages \in Seq(Message) /\ results \in Seq(Calls) /\ rest \in Seq(CallIds)
      /\ Len(local.calls) > 1 => rest # <<>>
  BY <1>1, Recorded
<1>3. CASE Len(local.calls) > 1
  <2>1. /\ local' = [messages |-> messages, results |-> results, calls |-> rest,
                     stage |-> "before"]
        /\ UNCHANGED <<node, state, kind, steps, outcome>>
    BY <1>3 DEF Record
  <2>2. QED BY <1>1, <1>2, <1>3, <2>1 DEF Inv, TypeOK, Holds, Counted, Running
<1>4. CASE ~ Len(local.calls) > 1
  <2>1. /\ state' = [state EXCEPT !.messages = messages, !.tool_results = results,
                                  !.tool_iterations = rounds]
        /\ local' = NoLocals /\ node' = "model" /\ UNCHANGED <<kind, steps, outcome>>
    BY <1>4 DEF Record, Inv, TypeOK
  <2>2. rounds \in 0 .. max_tool_iterations /\ state.tool_iterations \in Nat
    BY <1>1 DEF Inv, TypeOK, Holds, Settings
  <2>3. state' = [messages |-> messages, tool_iterations |-> rounds, tool_results |-> results,
                  usage |-> state.usage] /\ state.usage \in BOOLEAN
    BY <2>1 DEF Inv, TypeOK
  <2>4. state'.tool_iterations = rounds /\ TypeOK'
    <3>1. local' \in [messages : Seq(Message), results : Seq(Calls), calls : Seq(CallIds),
                     stage : {"before", "handler", "after"}]
      BY <2>1 DEF NoLocals
    <3>2. QED BY <1>2, <2>1, <2>2, <2>3, <3>1 DEF Inv, TypeOK
  <2>5. QED BY <1>1, <2>1, <2>2, <2>4 DEF Inv, Holds, Counted, Running, NoLocals
<1>5. QED BY <1>3, <1>4

LEMMA StepKeeps == ASSUME Settings, Inv, [Next]_vars PROVE Inv'
<1>1. CASE UNCHANGED vars \/ ThreadEnds
  BY <1>1 DEF vars, ThreadEnds, Inv, TypeOK, Holds, Counted, Running
<1>2. CASE ModelFails \/ ToolFails \/ Cancelled
  BY <1>2, OverKeeps DEF ModelFails, ToolFails, Cancelled
<1>3. QED BY <1>1, <1>2, ModelStepKeeps, ModelReturnsKeeps, RouteKeeps, CallsKeep, RecordKeeps
             DEF Next
-----------------------------------------------------------------------------
(* The steps of the native loop.                                             *)

LEMMA LoopStarts == Init => Loop!Init
BY DEF Init, Loop!Init, NoLocals

LEMMA LoopOver ==
  ASSUME Inv, Running, NEW why \in {"failed", "cancelled"}, Over(why)
  PROVE  Loop!Over(why)
BY DEF Over, Running, Call, Loop!Over, Loop!Closed, Loop!Call, Loop!progress, Inv, TypeOK,
       Holds, InTools

LEMMA LoopAsks == ASSUME Settings, Inv, ModelStep PROVE Loop!Generate
BY LimitIsFar DEF ModelStep, Running, Inv, TypeOK, Holds, Loop!Generate, InTools

\* A result is taken when it is routed.
LEMMA LoopWaits == ASSUME Settings, Inv, ModelReturns PROVE UNCHANGED Loop!vars
<1>1. PICK result \in Results : state' =
        [state EXCEPT !.messages = Append(@, Assistant(result.ids)), !.usage = result.usage]
  BY DEF ModelReturns
<1>2. Assistant(result.ids) \in Message
  BY ResultIds, IdsAreSeqs DEF Ids, Assistant, Message
<1>3. /\ state'.messages = Append(state.messages, Assistant(result.ids))
      /\ state'.tool_iterations = state.tool_iterations
      /\ state'.tool_results = state.tool_results
  BY <1>1 DEF Inv, TypeOK
<1>4. Front(state'.messages) = state.messages
  BY <1>2, <1>3, AppendProperties DEF Inv, TypeOK, Front
<1>5. QED BY <1>3, <1>4 DEF ModelReturns, Running, Loop!vars, Loop!progress, InTools

LEMMA LoopAccepts == ASSUME Settings, Inv, Route PROVE Loop!Returns
<1>1. PICK ids \in Ids : Last(state.messages) = Assistant(ids)
  BY DEF Route, Inv, Holds
<1>2. ids \in Seq(CallIds) /\ Last(state.messages).ids = ids
  BY <1>1, IdsAreSeqs DEF Ids, Assistant
<1>3. MayStep
  BY LimitIsFar DEF Route
<1>4. state.messages = Append(Front(state.messages), Assistant(ids))
  BY <1>1 DEF Route, Inv, TypeOK, Holds, Front, Last
<1> DEFINE result == [ids |-> ids, usage |-> state.usage]
<1>5. result \in Loop!Result /\ Loop!Valid(result)
  <2>1. ids \in SeqOf(CallIds, MaxCalls) /\ IsInjective(ids) /\ state.usage \in BOOLEAN
    BY <1>1 DEF Ids, Inv, TypeOK
  <2>2. QED BY <2>1 DEF Loop!Result, Loop!Valid, SeqOf, Loop!SeqOf, IsInjective,
              Loop!IsInjective
<1>6. Loop!Accept(result)
  BY <1>2, <1>3, <1>4, <1>5 DEF Route, Running, Exhausted, Loop!Accept, Loop!Combined,
     Loop!Exhausted, Loop!Unknown, Assistant, Inv, TypeOK, Holds, InTools, Settings
<1>7. QED BY <1>5, <1>6 DEF Route, Running, Loop!Returns

LEMMA LoopCalls ==
  ASSUME Inv
  PROVE  (Invokes => Loop!Prepare) /\ (Returned => Loop!Returned)
BY DEF Invokes, Returned, Running, Call, Loop!Prepare, Loop!Returned, Loop!Call, InTools,
       Inv, TypeOK

LEMMA LoopRecords == ASSUME Settings, Inv, Record PROVE Loop!Record
<1>1. Running /\ node = "tools" /\ local.stage = "after"
  BY DEF Record
<1> PICK messages : messages = Append(local.messages, Tool(local.calls[1]))
  OBVIOUS
<1> PICK results : results = Append(local.results, Call(local.calls[1]))
  OBVIOUS
<1>2. /\ messages = Append(local.messages, [role |-> "tool", ids |-> <<local.calls[1]>>])
      /\ results = Append(local.results, Loop!Call(local.calls[1]))
  BY DEF Tool, Call, Loop!Call
<1>3. CASE Len(local.calls) > 1
  <2>1. /\ local' = [messages |-> messages, results |-> results, calls |-> Tail(local.calls),
                     stage |-> "before"]
        /\ UNCHANGED <<node, state, outcome, account, started, threads, asked>>
    BY <1>3 DEF Record
  <2>2. /\ local'.messages = messages /\ local'.results = results
        /\ local'.calls = Tail(local.calls) /\ local'.stage = "before" /\ Len(local.calls) # 1
    <3>1. Len(local.calls) # 1
      BY <1>1, <1>3, Recorded
    <3>2. QED BY <2>1, <3>1
  <2>3. QED BY <1>1, <1>2, <2>1, <2>2 DEF Running, Loop!Record, Loop!Proceed, InTools
<1>4. CASE ~ Len(local.calls) > 1
  <2>1. /\ state' = [state EXCEPT !.messages = messages, !.tool_results = results,
                                  !.tool_iterations = @ + 1]
        /\ local' = NoLocals /\ node' = "model"
        /\ UNCHANGED <<outcome, account, started, threads, asked>>
    BY <1>4 DEF Record
  <2>2. /\ state'.tool_iterations = state.tool_iterations + 1
        /\ state'.messages = messages /\ state'.tool_results = results
    BY <2>1 DEF Inv, TypeOK
  <2>3. Tail(local.calls) = <<>> /\ Len(local.calls) = 1
    BY <1>1, <1>4, Recorded DEF Inv, TypeOK
  <2>4. QED BY <1>1, <1>2, <2>1, <2>2, <2>3 DEF Running, NoLocals, Loop!Record,
              Loop!Proceed, InTools
<1>5. QED BY <1>3, <1>4

LEMMA LoopStep == ASSUME Settings, Inv, [Next]_vars PROVE [Loop!Next]_Loop!vars
<1>1. CASE UNCHANGED vars
  BY <1>1 DEF vars, Loop!vars, Loop!progress, InTools
<1>2. CASE ModelFails \/ ToolFails \/ Cancelled
  BY <1>2, LoopOver DEF ModelFails, ToolFails, Cancelled, Running, Loop!Next, Loop!ModelFails,
     Loop!ToolFails, Loop!Cancelled, Inv, TypeOK, Holds
<1>3. CASE ThreadEnds
  BY <1>3 DEF ThreadEnds, Loop!Next, Loop!ThreadEnds, Loop!progress, InTools
<1>4. QED BY <1>1, <1>2, <1>3, LoopAsks, LoopWaits, LoopAccepts, LoopCalls, LoopRecords
             DEF Next, Loop!Next

\* An agent moved from the native loop to the runnable or the graph makes the same calls,
\* records the same and ends after as many rounds; the graph's recursion limit, of
\* 2 * max_tool_iterations + 5 steps, never ends it first.
THEOREM NativeLoop == Settings => (Spec => RunsTheNativeLoop)
<1> SUFFICES ASSUME Settings PROVE Spec => RunsTheNativeLoop
  OBVIOUS
<1>1. Init => Inv
  BY Starts
<1>2. Inv /\ [Next]_vars => Inv'
  BY StepKeeps
<1>3. Inv /\ [Next]_vars => [Loop!Next]_Loop!vars
  BY LoopStep
<1>4. QED BY <1>1, <1>2, <1>3, LoopStarts, PTL DEF Spec, RunsTheNativeLoop, Loop!Spec
-----------------------------------------------------------------------------
(* The theorems of the native loop are the agent's as well.                  *)

Native == INSTANCE AgentLoopProofs WITH
  MaxIterations <- max_tool_iterations, MaxDeltas <- 0,
  mode <- "invoke", source <- "none", held <- <<>>, pending <- <<>>, emitted <- <<>>,
  phase <- IF outcome # "none" THEN "over"
           ELSE IF node \in {"asking", "route"} THEN "stream" ELSE node,
  iteration <- state.tool_iterations,
  todo <- local.calls, stage <- local.stage,
  generated <- IF InTools THEN local.messages
               ELSE IF node = "route" THEN Front(state.messages) ELSE state.messages,
  results <- IF InTools THEN local.results ELSE state.tool_results,
  usage <- account

LEMMA SameAssumption == Settings => Native!LoopAssumption
BY DEF Settings, Native!LoopAssumption

LEMMA SameStart == Loop!Init => Native!Init
BY DEF Loop!Init, Native!Init

LEMMA SameStep == [Loop!Next]_Loop!vars => [Native!Next]_Native!vars
<1> USE Zenon DEF Loop!Over, Native!Over, Loop!Closed, Native!Closed, Loop!Call, Native!Call,
        Loop!progress, Native!progress
<1>1. Loop!Returns \/ Loop!Ends => Native!Returns \/ Native!Ends
  BY DEF Loop!Returns, Native!Returns, Loop!Ends, Native!Ends, Loop!Reading, Native!Reading,
     Loop!Accept, Native!Accept, Loop!Valid, Native!Valid, Loop!Combined, Native!Combined,
     Loop!Exhausted, Native!Exhausted, Loop!Result, Native!Result, Loop!Unknown, Native!Unknown,
     Loop!SeqOf, Native!SeqOf, Loop!IsInjective, Native!IsInjective
<1>2. Loop!Generate \/ Loop!OpenStream \/ Loop!Delta \/ Loop!Completes \/ Loop!ModelFails =>
        \/ Native!Generate \/ Native!OpenStream \/ Native!Delta \/ Native!Completes
        \/ Native!ModelFails
  BY DEF Loop!Generate, Native!Generate, Loop!OpenStream, Native!OpenStream, Loop!Delta,
     Native!Delta, Loop!Completes, Native!Completes, Loop!ModelFails, Native!ModelFails,
     Loop!Reading, Native!Reading, Loop!Result, Native!Result, Loop!SeqOf, Native!SeqOf
<1>3. Loop!Prepare \/ Loop!Returned \/ Loop!Record \/ Loop!Emit \/ Loop!ToolFails =>
        Native!Prepare \/ Native!Returned \/ Native!Record \/ Native!Emit \/ Native!ToolFails
  BY DEF Loop!Prepare, Native!Prepare, Loop!Returned, Native!Returned, Loop!Record,
     Native!Record, Loop!Emit, Native!Emit, Loop!ToolFails, Native!ToolFails, Loop!Proceed,
     Native!Proceed, Loop!ToolResult, Native!ToolResult
<1>4. Loop!ThreadEnds \/ Loop!Cancelled => Native!ThreadEnds \/ Native!Cancelled
  BY DEF Loop!ThreadEnds, Native!ThreadEnds, Loop!Cancelled, Native!Cancelled
<1>5. QED BY <1>1, <1>2, <1>3, <1>4 DEF Loop!Next, Native!Next, Loop!vars, Native!vars

LEMMA SameExchanges == Loop!ExchangesWhole <=> Native!ExchangesWhole
BY DEF Loop!ExchangesWhole, Native!ExchangesWhole, Loop!Last, Native!Last, Loop!Cardinality,
       Native!Cardinality

\* What is proved of the native loop's effects holds of the runnable and the graph: a
\* started call is recorded unless the run was cut off at it, none is made twice, and
\* usage is only reported when every model call reported its own.
THEOREM AgentAccountsForEffects == Settings => (Spec => []Loop!EffectsAccounted)
<1> SUFFICES ASSUME Settings PROVE Spec => []Loop!EffectsAccounted
  OBVIOUS
<1>1. Native!Spec => []Native!EffectsAccounted
  BY SameAssumption, Native!EffectsAreAccounted
<1>2. Native!EffectsAccounted => Loop!EffectsAccounted
  BY Zenon DEF Loop!EffectsAccounted, Native!EffectsAccounted, Loop!ToSet, Native!ToSet,
     Loop!IsPrefix, Native!IsPrefix, Loop!IsInjective, Native!IsInjective, Loop!Unknown,
     Native!Unknown
<1>3. QED BY <1>1, <1>2, NativeLoop, SameStart, SameStep, PTL
             DEF RunsTheNativeLoop, Loop!Spec, Native!Spec

\* And a run the runnable or the graph completes records whole exchanges, so that what it
\* stores is never refused as context of a later turn.
THEOREM AgentExchangesAreWhole == Settings => (Spec => []Loop!ExchangesWhole)
<1> SUFFICES ASSUME Settings PROVE Spec => []Loop!ExchangesWhole
  OBVIOUS
<1>1. Native!Spec => []Native!ExchangesWhole
  BY SameAssumption, Native!ExchangesAreWhole
<1>2. QED BY <1>1, SameExchanges, NativeLoop, SameStart, SameStep, PTL
             DEF RunsTheNativeLoop, Loop!Spec, Native!Spec
=============================================================================
