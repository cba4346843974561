--------------------------- MODULE AgentLoopProofs ---------------------------
(***************************************************************************)
(* Proofs about the loop of model and tool calls (module AgentLoop), for   *)
(* any call ids and any bounds.                                            *)
(***************************************************************************)
EXTENDS AgentLoop, SequenceTheorems, FiniteSetTheorems, TLAPS

Calls == [round : Nat, id : CallIds]

TypeOK ==
  /\ mode \in {"invoke", "generate", "stream"}
  /\ phase \in {"model", "stream", "tools", "over"}
  /\ stage \in {"before", "handler", "after", "emit"}
  /\ outcome \in {"none", "completed", "failed", "cancelled"}
  /\ held \in Seq(Result) /\ todo \in Seq(CallIds)
  /\ results \in Seq(Calls) /\ started \in Seq(Calls) /\ threads \subseteq Calls
  /\ iteration \in 0 .. MaxIterations /\ asked \in Nat /\ usage \in Nat \cup {Unknown}

\* The phases of the loop and what it holds in each.
Phases ==
  /\ phase = "over" <=> outcome # "none"
  /\ outcome = "completed" => stage = "before"
  /\ phase \in {"model", "stream"} => stage = "before"
  /\ phase = "tools" => todo # <<>> /\ ~ Exhausted
  /\ pending # <<>> => \/ phase = "stream" /\ mode = "stream"
                       \/ phase = "tools" /\ stage = "emit"
  /\ phase = "tools" /\ stage = "emit" => pending # <<>>

\* A started call is recorded before the next one starts.
Recorded ==
  /\ Len(started) = IF stage \in {"handler", "after"} THEN Len(results) + 1 ELSE Len(results)
  /\ \A n \in 1 .. Len(results) : results[n] = started[n]
  /\ phase = "tools" /\ stage # "before" => started[Len(started)] = Call(todo[1])

\* A call still to make has not been started.
Distinct ==
  /\ \A n, m \in 1 .. Len(started) : started[n] = started[m] => n = m
  /\ \A n \in 1 .. Len(started) :
       /\ started[n].round <= iteration /\ started[n].round < MaxIterations
       /\ phase \in {"model", "stream"} => started[n].round < iteration
  /\ phase = "tools" =>
       /\ \A k, l \in 1 .. Len(todo) : todo[k] = todo[l] => k = l
       /\ \A k \in 1 .. Len(todo) : k > 1 \/ stage = "before" =>
            \A n \in 1 .. Len(started) : started[n] # Call(todo[k])

Accounted ==
  /\ asked = CASE phase = "model" -> iteration
               [] phase \in {"stream", "tools"} -> iteration + 1
               [] phase = "over" -> asked
  /\ asked <= iteration + 1
  /\ usage # Unknown =>
       /\ phase \in {"model", "stream"} => usage = iteration
       /\ phase = "tools" \/ outcome = "completed" => usage = asked

Abandoned ==
  /\ threads # {} => outcome \in {"failed", "cancelled"}
  /\ \A call \in threads, n \in 1 .. Len(results) : results[n] # call

Inv == TypeOK /\ Phases /\ Recorded /\ Distinct /\ Accounted /\ Abandoned

\* How many of the first n positions are in a set of positions.
UpTo(S, n) == Cardinality({m \in 1 .. n : m \in S})

Message == [role : {"assistant", "tool"}, ids : Seq(CallIds)]
Tools == {n \in 1 .. Len(generated) : generated[n].role = "tool"}
Unanswered == IF stage = "emit" THEN 1 ELSE 0

\* The message whose calls the loop is making: those still to make are its last ones.
Answering(n) ==
  /\ n + Len(generated[n].ids) = Len(generated) + Len(todo)
  /\ \A k \in 1 .. Len(todo) : todo[k] = generated[n].ids[Len(generated) - n + k]

\* Each call is answered right behind its message, as far as the loop has come.
Answers ==
  \A n \in 1 .. Len(generated) : generated[n].role = "assistant" =>
    /\ \A k \in 1 .. Len(generated[n].ids) : n + k <= Len(generated) =>
         generated[n + k] = [role |-> "tool", ids |-> <<generated[n].ids[k]>>]
    /\ \/ n + Len(generated[n].ids) <= Len(generated)
       \/ phase = "tools" /\ Answering(n)
Awaited ==
  phase = "tools" =>
    \E n \in 1 .. Len(generated) : generated[n].role = "assistant" /\ Answering(n)
\* The tool messages are the recorded results, each an answer to a call.
Answered ==
  /\ \A n \in Tools :
       /\ generated[n].ids = <<results[UpTo(Tools, n)].id>>
       /\ \E m \in 1 .. Len(generated) :
            generated[m].role = "assistant" /\ n \in m + 1 .. m + Len(generated[m].ids)
  /\ Len(results) = UpTo(Tools, Len(generated)) + Unanswered
Finished ==
  outcome = "completed" =>
    /\ Len(generated) > 0
    /\ generated[Len(generated)] = [role |-> "assistant", ids |-> <<>>]

Transcript ==
  /\ generated \in Seq(Message)
  /\ outcome \in {"none", "completed"} => Answers /\ Awaited /\ Answered /\ Finished

Event == [type : {"delta", "tool_result"}, call : [round : Nat, id : CallIds \cup {""}]]
Shown == {n \in 1 .. Len(emitted) : emitted[n].type = "tool_result"}

\* What follows an event: one of a later round, or of its own round after the deltas.
Before(event, next) ==
  \/ event.call.round < next.call.round
  \/ /\ event.call.round = next.call.round
     /\ next.type = "delta" => event.type = "delta"

\* The reader has the recorded results, but for one in the emit() that is waiting or was
\* cut off.
Told ==
  /\ Len(results) = UpTo(Shown, Len(emitted)) + Unanswered
  /\ \A n \in Shown : emitted[n].call = results[UpTo(Shown, n)]
\* No event is ahead of the loop.
Rounds ==
  \A n \in 1 .. Len(emitted) :
    /\ phase = "model" => emitted[n].call.round < iteration
    /\ phase = "stream" => \/ emitted[n].call.round < iteration
                           \/ emitted[n].call.round = iteration /\ emitted[n].type = "delta"
    /\ phase = "tools" => emitted[n].call.round <= iteration
Waiting ==
  /\ pending # <<>> /\ phase = "stream" => pending = <<[type |-> "delta", call |-> Call("")]>>
  /\ pending # <<>> /\ phase = "tools" => pending = <<ToolResult>>
Streamed ==
  /\ emitted \in Seq(Event)
  /\ \A n \in 1 .. Len(emitted) - 1 : Before(emitted[n], emitted[n + 1])
  /\ Told /\ Rounds /\ Waiting

\* The model's stream is open while it is read, and read to its end if it counts.
Sources ==
  /\ source = "open" <=> phase = "stream" /\ mode = "stream"
  /\ mode = "stream" /\ (phase = "tools" \/ outcome = "completed") => source = "ended"

FullInv == /\ Inv /\ Transcript /\ Sources
           /\ mode # "invoke" => Streamed

LEMMA CallIsCall ==
  ASSUME TypeOK, NEW id \in CallIds
  PROVE  Call(id) \in Calls /\ Call(id).round = iteration /\ Call(id).id = id
BY LoopAssumption DEF TypeOK, Calls, Call

LEMMA ResultIds ==
  ASSUME NEW result \in Result
  PROVE  result.ids \in Seq(CallIds)
BY LoopAssumption DEF Result, SeqOf

\* The loop is left, at whatever it waits for.
LEMMA OverKeeps ==
  ASSUME Inv, phase # "over", NEW why \in {"failed", "cancelled"}, Over(why)
  PROVE  Inv'
<1>1. /\ phase' = "over" /\ outcome' = why /\ held' = <<>> /\ pending' = <<>>
      /\ UNCHANGED <<mode, iteration, todo, stage, results, usage, started, asked>>
  BY DEF Over, progress
<1>2. outcome = "none" /\ threads = {}
  BY DEF Inv, Phases, Abandoned
<1>3. \/ threads' = {}
      \/ /\ phase = "tools" /\ stage = "handler" /\ threads' = {Call(todo[1])}
  BY <1>2 DEF Over
<1>4. phase = "tools" => todo[1] \in CallIds
  BY DEF Inv, TypeOK, Phases
<1>5. TypeOK'
  BY <1>1, <1>3, <1>4, CallIsCall DEF Inv, TypeOK
<1>6. Phases' /\ Recorded' /\ Distinct' /\ Accounted'
  BY <1>1 DEF Inv, Phases, Recorded, Distinct, Accounted, Call, Exhausted
<1>7. Abandoned'
  <2>1. CASE threads' = {}
    BY <2>1 DEF Abandoned
  <2>2. CASE phase = "tools" /\ stage = "handler" /\ threads' = {Call(todo[1])}
    <3>1. /\ Len(started) = Len(results) + 1 /\ Len(results) \in Nat
          /\ started[Len(started)] = Call(todo[1])
          /\ \A n \in 1 .. Len(results) : results[n] = started[n]
      BY <2>2 DEF Inv, Recorded, TypeOK
    <3>2. \A n \in 1 .. Len(results) : results[n] # Call(todo[1])
      BY <3>1 DEF Inv, Distinct
    <3>3. QED BY <1>1, <2>2, <3>2 DEF Abandoned
  <2>3. QED BY <1>3, <2>1, <2>2
<1>8. QED BY <1>5, <1>6, <1>7 DEF Inv

LEMMA AcceptKeeps ==
  ASSUME Inv, phase = "stream", pending = <<>>, NEW result \in Result, Accept(result)
  PROVE  Inv'
<1>1. CASE Over("failed")
  BY <1>1, OverKeeps
<1>2. CASE /\ Valid(result) /\ ~ Over("failed")
  <2>1. /\ usage' = Combined(result.usage) /\ held' = <<>>
        /\ UNCHANGED <<mode, iteration, results, pending, started, threads, asked>>
        /\ \/ /\ result.ids # <<>> /\ ~ Exhausted /\ phase' = "tools" /\ todo' = result.ids
              /\ stage' = "before" /\ UNCHANGED outcome
           \/ /\ phase' = "over" /\ outcome' \in {"completed", "failed"}
              /\ UNCHANGED <<todo, stage>>
    BY <1>2 DEF Accept
  <2>2. /\ stage = "before" /\ outcome = "none" /\ asked = iteration + 1 /\ threads = {}
        /\ usage # Unknown => usage = iteration
    BY DEF Inv, Phases, Accounted, Abandoned
  <2>3. result.ids \in Seq(CallIds)
    BY ResultIds
  <2>4. TypeOK'
    BY <2>1, <2>3 DEF Inv, TypeOK, Combined, Unknown
  <2>5. Phases' /\ Recorded' /\ Abandoned'
    BY <2>1, <2>2 DEF Inv, Phases, Recorded, Abandoned, Call, Exhausted
  <2>6. Distinct'
    <3>1. CASE phase' = "over"
      BY <2>1, <3>1 DEF Inv, Distinct
    <3>2. CASE phase' = "tools" /\ todo' = result.ids
      <4>1. \A k, l \in 1 .. Len(result.ids) : result.ids[k] = result.ids[l] => k = l
        BY <1>2, <2>3 DEF Valid, IsInjective
      <4>2. \A n \in 1 .. Len(started) : started[n].round < iteration
        BY DEF Inv, Distinct
      <4>3. \A k \in 1 .. Len(result.ids) : Call(result.ids[k])'.round = iteration
        BY <2>1 DEF Call
      <4>4. \A k \in 1 .. Len(result.ids), n \in 1 .. Len(started) :
              started[n] # Call(result.ids[k])'
        BY <4>2, <4>3 DEF Inv, TypeOK
      <4>5. QED BY <2>1, <3>2, <4>1, <4>4 DEF Inv, Distinct, Call
    <3>3. QED BY <2>1, <3>1, <3>2
  <2>7. Accounted'
    <3>1. usage' # Unknown => usage' = iteration + 1
      BY <2>1, <2>2 DEF Combined, Unknown
    <3>2. QED BY <2>1, <2>2, <3>1 DEF Inv, Accounted, TypeOK
  <2>8. QED BY <2>4, <2>5, <2>6, <2>7 DEF Inv
<1>3. QED BY <1>1, <1>2 DEF Accept

\* The model is called, or its stream goes on.
LEMMA ModelKeeps ==
  ASSUME Inv,
         \/ /\ phase = "model" /\ phase' = "stream" /\ asked' = asked + 1
            /\ UNCHANGED <<held, pending>>
         \/ /\ phase = "stream" /\ mode = "stream" /\ held' \in Seq(Result)
            /\ UNCHANGED <<phase, asked>>,
         UNCHANGED <<mode, iteration, todo, stage, results, usage, started, threads, outcome>>
  PROVE  Inv'
<1>1. TypeOK' /\ Phases'
  BY DEF Inv, TypeOK, Phases, Exhausted
<1>2. Recorded' /\ Abandoned' /\ Distinct'
  BY DEF Inv, Phases, Recorded, Abandoned, Distinct, Call
<1>3. Accounted'
  BY DEF Inv, TypeOK, Phases, Accounted
<1>4. QED BY <1>1, <1>2, <1>3 DEF Inv

LEMMA PrepareKeeps == ASSUME Inv, Prepare PROVE Inv'
<1>1. /\ phase = "tools" /\ stage = "before" /\ stage' = "handler"
      /\ started' = Append(started, Call(todo[1]))
      /\ UNCHANGED <<mode, phase, held, iteration, todo, results, usage, pending, threads,
                     asked, outcome>>
  BY DEF Prepare
<1>2. /\ todo \in Seq(CallIds) /\ todo # <<>> /\ todo[1] \in CallIds
      /\ Call(todo[1]) \in Calls /\ Call(todo[1]).round = iteration
      /\ started \in Seq(Calls) /\ results \in Seq(Calls)
      /\ iteration \in 0 .. MaxIterations /\ iteration < MaxIterations /\ MaxIterations \in Nat
  BY <1>1, CallIsCall, LoopAssumption DEF Inv, TypeOK, Phases, Exhausted
<1>3. /\ Len(started) = Len(results) /\ Len(started) \in Nat /\ Len(todo) \in Nat \ {0}
      /\ \A n \in 1 .. Len(started) : started[n] # Call(todo[1])
  <2>1. Len(started) = Len(results) /\ Len(started) \in Nat /\ Len(todo) \in Nat \ {0}
    BY <1>1, <1>2 DEF Inv, Recorded
  <2>2. 1 \in 1 .. Len(todo)
    BY <2>1
  <2>3. QED BY <1>1, <2>1, <2>2 DEF Inv, Distinct
<1>4. /\ started' \in Seq(Calls) /\ Len(started') = Len(started) + 1
      /\ started'[Len(started) + 1] = Call(todo[1])
      /\ \A n \in 1 .. Len(started) : started'[n] = started[n]
  BY <1>1, <1>2
<1>5. TypeOK' /\ Phases' /\ Accounted' /\ Abandoned'
  BY <1>1, <1>4 DEF Inv, TypeOK, Phases, Accounted, Abandoned, Exhausted
<1>6. Recorded'
  BY <1>1, <1>3, <1>4 DEF Inv, Recorded, Call
<1>7. Distinct'
  <2>1. \A n, m \in 1 .. Len(started') : started'[n] = started'[m] => n = m
    BY <1>3, <1>4 DEF Inv, Distinct
  <2>2. \A n \in 1 .. Len(started') :
          started'[n].round <= iteration /\ started'[n].round < MaxIterations
    <3>1. \A n \in 1 .. Len(started) :
            started[n].round <= iteration /\ started[n].round < MaxIterations
      BY DEF Inv, Distinct
    <3>2. \A n \in 1 .. Len(started') : n \in 1 .. Len(started) \/ n = Len(started) + 1
      BY <1>3, <1>4
    <3>3. started'[Len(started) + 1].round = iteration /\ iteration <= iteration
      BY <1>2, <1>4
    <3>4. QED BY <1>2, <1>4, <3>1, <3>2, <3>3
  <2>3. /\ \A k, l \in 1 .. Len(todo) : todo[k] = todo[l] => k = l
        /\ \A k \in 1 .. Len(todo), n \in 1 .. Len(started) : started[n] # Call(todo[k])
    BY <1>1, ZenonT(30) DEF Inv, Distinct
  <2>4. \A k \in 1 .. Len(todo) : k > 1 => Call(todo[1]) # Call(todo[k])
    BY <1>3, <2>3 DEF Call
  <2>5. \A k \in 1 .. Len(todo) : k > 1 =>
          \A n \in 1 .. Len(started') : started'[n] # Call(todo[k])
    BY <1>3, <1>4, <2>3, <2>4
  <2>6. QED BY <1>1, <2>1, <2>2, <2>3, <2>5 DEF Distinct, Call
<1>8. QED BY <1>5, <1>6, <1>7 DEF Inv

LEMMA ReturnedKeeps == ASSUME Inv, Returned PROVE Inv'
<1>1. /\ phase = "tools" /\ stage = "handler" /\ stage' = "after"
      /\ UNCHANGED <<mode, phase, held, iteration, todo, results, usage, pending, started,
                     threads, asked, outcome>>
  BY DEF Returned
<1>2. TypeOK' /\ Phases' /\ Recorded' /\ Accounted' /\ Abandoned'
  BY <1>1 DEF Inv, TypeOK, Phases, Recorded, Accounted, Abandoned, Call, Exhausted
<1>3. Distinct'
  BY <1>1 DEF Inv, Distinct, Call
<1>4. QED BY <1>2, <1>3 DEF Inv

\* Proceed takes the first call away, which is started and recorded.
LEMMA ProceedKeeps ==
  ASSUME Inv, phase = "tools", Proceed,
         UNCHANGED <<mode, held, usage, started, threads, asked, outcome>>,
         pending' = <<>>, results' \in Seq(Calls), Len(results') = Len(started),
         \A n \in 1 .. Len(results') : results'[n] = started[n]
  PROVE  Inv'
<1>1. /\ todo' = Tail(todo) /\ stage' = "before"
      /\ IF Len(todo) = 1 THEN phase' = "model" /\ iteration' = iteration + 1
                          ELSE UNCHANGED <<phase, iteration>>
  BY DEF Proceed
<1>2. /\ todo \in Seq(CallIds) /\ todo # <<>> /\ Len(todo) \in Nat \ {0}
      /\ iteration \in 0 .. MaxIterations /\ iteration < MaxIterations /\ MaxIterations \in Nat
      /\ outcome = "none" /\ threads = {} /\ asked = iteration + 1
      /\ usage # Unknown => usage = asked
  BY LoopAssumption DEF Inv, TypeOK, Phases, Exhausted, Abandoned, Accounted
<1>3. /\ todo' \in Seq(CallIds) /\ Len(todo') = Len(todo) - 1
      /\ \A k \in 1 .. Len(todo') : todo'[k] = todo[k + 1]
  BY <1>1, <1>2
<1>4. TypeOK'
  BY <1>1, <1>2, <1>3 DEF Inv, TypeOK
<1>5. Phases' /\ Abandoned'
  <2>1. Len(todo) # 1 => UNCHANGED <<phase, iteration>> /\ todo' # <<>>
    <3>1. Len(todo) # 1 => Len(todo') # 0
      BY <1>2, <1>3
    <3>2. Len(todo') # 0 => todo' # <<>>
      OBVIOUS
    <3>3. QED BY <1>1, <3>1, <3>2
  <2>2. Len(todo) = 1 => phase' = "model"
    BY <1>1
  <2>3. Phases'
    BY <1>1, <1>2, <2>1, <2>2 DEF Inv, Phases, Exhausted
  <2>4. QED BY <1>2, <2>3 DEF Abandoned
<1>6. Recorded'
  BY <1>1 DEF Recorded
<1>7. Accounted'
  BY <1>1, <1>2 DEF Inv, Accounted
<1>8. Distinct'
  <2>1. /\ \A n, m \in 1 .. Len(started) : started[n] = started[m] => n = m
        /\ \A n \in 1 .. Len(started) :
             started[n].round <= iteration /\ started[n].round < MaxIterations
        /\ \A k, l \in 1 .. Len(todo) : todo[k] = todo[l] => k = l
        /\ \A k \in 1 .. Len(todo), n \in 1 .. Len(started) : k > 1 => started[n] # Call(todo[k])
    BY DEF Inv, Distinct
  <2>2. \A n \in 1 .. Len(started) : started[n].round \in Nat
    <3>1. started \in Seq(Calls)
      BY DEF Inv, TypeOK
    <3>2. \A n \in 1 .. Len(started) : started[n] \in Calls
      BY <3>1
    <3>3. QED BY <3>2 DEF Calls
  <2>3. CASE Len(todo) = 1
    BY <1>1, <1>2, <2>1, <2>2, <2>3 DEF Distinct
  <2>4. CASE Len(todo) # 1
    <3>1. UNCHANGED <<phase, iteration>>
      BY <1>1, <2>4
    <3>2. \A k, l \in 1 .. Len(todo') : todo'[k] = todo'[l] => k = l
      BY <1>2, <1>3, <2>1
    <3>3. \A k \in 1 .. Len(todo'), n \in 1 .. Len(started) : started[n] # Call(todo'[k])
      BY <1>2, <1>3, <2>1
    <3>4. QED BY <2>1, <3>1, <3>2, <3>3 DEF Distinct, Call
  <2>5. QED BY <2>3, <2>4
<1>9. QED BY <1>4, <1>5, <1>6, <1>7, <1>8 DEF Inv

LEMMA RecordKeeps == ASSUME Inv, Record PROVE Inv'
<1>1. /\ phase = "tools" /\ stage = "after" /\ results' = Append(results, Call(todo[1]))
      /\ UNCHANGED <<mode, held, usage, started, threads, asked, outcome>>
  BY DEF Record
<1>2. /\ results \in Seq(Calls) /\ started \in Seq(Calls) /\ Len(results) \in Nat
      /\ Call(todo[1]) \in Calls /\ pending = <<>>
      /\ Len(started) = Len(results) + 1 /\ started[Len(started)] = Call(todo[1])
      /\ \A n \in 1 .. Len(results) : results[n] = started[n]
  BY <1>1, CallIsCall DEF Inv, TypeOK, Phases, Recorded
<1>3. /\ results' \in Seq(Calls) /\ Len(results') = Len(started)
      /\ \A n \in 1 .. Len(results') : results'[n] = started[n]
  BY <1>1, <1>2
<1>4. CASE mode = "invoke"
  <2>1. Proceed /\ pending' = <<>>
    BY <1>2, <1>4 DEF Record
  <2>2. QED BY <1>1, <1>2, <1>3, <2>1, ProceedKeeps
<1>5. CASE mode # "invoke"
  <2>1. /\ pending' = <<ToolResult>> /\ stage' = "emit"
        /\ UNCHANGED <<phase, iteration, todo>>
    BY <1>5 DEF Record
  <2>2. TypeOK' /\ Recorded'
    <3>1. TypeOK'
      BY <1>1, <1>3, <2>1 DEF Inv, TypeOK
    <3>2. Call(todo[1])' = Call(todo[1])
      BY <2>1 DEF Call
    <3>3. QED BY <1>1, <1>2, <1>3, <2>1, <3>1, <3>2 DEF Recorded
  <2>3. Phases'
    BY <1>1, <2>1 DEF Inv, Phases, Exhausted
  <2>4. Accounted'
    BY <1>1, <2>1 DEF Inv, Accounted
  <2>5. Abandoned'
    BY <1>1 DEF Inv, Phases, Abandoned
  <2>6. Distinct'
    BY <1>1, <2>1 DEF Inv, Distinct, Call
  <2>7. QED BY <2>2, <2>3, <2>4, <2>5, <2>6 DEF Inv
<1>6. QED BY <1>4, <1>5

LEMMA EmitKeeps == ASSUME Inv, Emit PROVE Inv'
<1>1. /\ pending # <<>> /\ pending' = <<>>
      /\ UNCHANGED <<mode, held, results, usage, started, threads, asked, outcome>>
  BY DEF Emit
<1>2. CASE stage = "emit"
  <2>1. phase = "tools" /\ Proceed
    BY <1>1, <1>2 DEF Emit, Inv, Phases
  <2>2. /\ results' \in Seq(Calls) /\ Len(results') = Len(started)
        /\ \A n \in 1 .. Len(results') : results'[n] = started[n]
    BY <1>1, <1>2 DEF Inv, TypeOK, Recorded
  <2>3. QED BY <1>1, <2>1, <2>2, ProceedKeeps
<1>3. CASE stage # "emit"
  <2>1. phase = "stream" /\ mode = "stream" /\ UNCHANGED <<phase, iteration, todo, stage>>
    BY <1>1, <1>3 DEF Emit, Inv, Phases
  <2>2. held' \in Seq(Result)
    BY <1>1 DEF Inv, TypeOK
  <2>3. QED BY <1>1, <2>1, <2>2, ModelKeeps
<1>4. QED BY <1>2, <1>3

LEMMA StepKeeps == ASSUME Inv, [Next]_vars PROVE Inv'
<1>1. CASE UNCHANGED vars
  BY <1>1 DEF vars, progress, Inv, TypeOK, Phases, Recorded, Distinct, Accounted, Abandoned,
              Call, Exhausted
<1>2. CASE Generate \/ OpenStream
  BY <1>2, ModelKeeps DEF Generate, OpenStream
<1>3. CASE Returns
  <2>1. phase = "stream" /\ pending = <<>>
    BY <1>3 DEF Returns, Inv, Phases
  <2>2. QED BY <1>3, <2>1, AcceptKeeps DEF Returns
<1>4. CASE Delta \/ Completes
  <2>1. phase = "stream" /\ mode = "stream"
    BY <1>4 DEF Delta, Completes, Reading
  <2>2. CASE Over("failed")
    BY <2>1, <2>2, OverKeeps
  <2>3. CASE /\ held' \in Seq(Result) /\ UNCHANGED <<progress, phase, source, threads, outcome>>
    BY <2>1, <2>3, ModelKeeps DEF progress
  <2>4. \A result \in Result : <<result>> \in Seq(Result)
    OBVIOUS
  <2>5. held \in Seq(Result)
    BY DEF Inv, TypeOK
  <2>6. QED BY <1>4, <2>2, <2>3, <2>4, <2>5 DEF Delta, Completes
<1>5. CASE Ends
  <2>1. phase = "stream" /\ pending = <<>>
    BY <1>5 DEF Ends, Reading
  <2>2. held # <<>> => held[1] \in Result
    BY DEF Inv, TypeOK
  <2>3. QED BY <1>5, <2>1, <2>2, AcceptKeeps, OverKeeps DEF Ends
<1>6. CASE ModelFails \/ ToolFails \/ Cancelled
  BY <1>6, OverKeeps DEF ModelFails, ToolFails, Cancelled
<1>7. CASE ThreadEnds
  BY <1>7 DEF ThreadEnds, progress, Inv, TypeOK, Phases, Recorded, Distinct, Accounted,
              Abandoned, Call, Exhausted
<1>8. QED BY <1>1, <1>2, <1>3, <1>4, <1>5, <1>6, <1>7, PrepareKeeps, ReturnedKeeps,
             RecordKeeps, EmitKeeps DEF Next

\* Counting positions: a further one counts if it is in the set, and the others count as
\* before.
LEMMA UpToCounts ==
  ASSUME NEW S, NEW n \in Nat
  PROVE  /\ UpTo(S, n) \in Nat
         /\ \A k \in 0 .. n : UpTo(S, k) \in 0 .. UpTo(S, n)
         /\ n \in S /\ n > 0 => UpTo(S, n) > 0
<1> DEFINE In(k) == {m \in 1 .. k : m \in S}
<1>1. \A k \in 0 .. n : IsFiniteSet(In(k)) /\ In(k) \in SUBSET In(n)
  <2> SUFFICES ASSUME NEW k \in 0 .. n PROVE IsFiniteSet(In(k)) /\ In(k) \in SUBSET In(n)
    OBVIOUS
  <2>1. IsFiniteSet(1 .. k) /\ In(k) \in SUBSET (1 .. k)
    BY FS_Interval
  <2>2. IsFiniteSet(In(k))
    BY <2>1, FS_Subset
  <2>3. QED BY <2>2
<1>2. \A k \in 0 .. n : Cardinality(In(k)) \in Nat /\ Cardinality(In(k)) <= Cardinality(In(n))
  <2>1. n \in 0 .. n
    OBVIOUS
  <2>2. QED BY <1>1, <2>1, FS_CardinalityType, FS_Subset
<1>3. ASSUME n \in S, n > 0 PROVE Cardinality(In(n)) > 0
  <2>1. {n} \in SUBSET In(n) /\ n \in 0 .. n
    BY <1>3
  <2>2. IsFiniteSet(In(n)) /\ Cardinality(In(n)) \in Nat
    BY <1>1, <1>2, <2>1
  <2>3. Cardinality({n}) = 1
    BY FS_Singleton
  <2>4. Cardinality({n}) <= Cardinality(In(n))
    BY <2>1, <2>2, FS_Subset
  <2>5. QED BY <2>2, <2>3, <2>4
<1>4. n \in 0 .. n /\ \A k \in 0 .. n : UpTo(S, k) = Cardinality(In(k))
  BY DEF UpTo
<1>5. \A k \in 0 .. n : UpTo(S, k) \in Nat /\ UpTo(S, k) <= UpTo(S, n)
  BY <1>2, <1>4
<1>6. n \in S /\ n > 0 => UpTo(S, n) > 0
  BY <1>3, <1>4
<1>7. QED BY <1>4, <1>5, <1>6

LEMMA UpToGrows ==
  ASSUME NEW n \in Nat, NEW S \in SUBSET (1 .. n)
  PROVE  /\ \A k \in 0 .. n : UpTo(S \cup {n + 1}, k) = UpTo(S, k)
         /\ UpTo(S \cup {n + 1}, n + 1) = UpTo(S, n) + 1
         /\ UpTo(S, n + 1) = UpTo(S, n)
<1>1. \A k \in 0 .. n : {m \in 1 .. k : m \in S \cup {n + 1}} = {m \in 1 .. k : m \in S}
  OBVIOUS
<1>2. \A m \in S : m \in 1 .. n /\ m \in 1 .. n + 1 /\ m # n + 1
  OBVIOUS
<1>3. {m \in 1 .. n + 1 : m \in S} = S /\ {m \in 1 .. n : m \in S} = S
  BY <1>2, Zenon
<1>4. n + 1 \in 1 .. n + 1 /\ n + 1 \notin S
  BY <1>2
<1>5. {m \in 1 .. n + 1 : m \in S \cup {n + 1}} = S \cup {n + 1}
  <2>1. \A m \in S \cup {n + 1} : m \in 1 .. n + 1
    BY <1>2, <1>4
  <2>2. QED BY <2>1, Zenon
<1>6. IsFiniteSet(1 .. n)
  BY FS_Interval
<1>7. IsFiniteSet(S)
  BY <1>6, FS_Subset
<1>8. Cardinality(S \cup {n + 1}) = Cardinality(S) + 1
  BY <1>4, <1>7, FS_AddElement
<1>9. QED BY <1>1, <1>3, <1>5, <1>8 DEF UpTo

LEMMA TranscriptRests ==
  ASSUME Transcript, UNCHANGED <<generated, results, todo, outcome>>,
         Unanswered' = Unanswered, phase' = "tools" <=> phase = "tools"
  PROVE  Transcript'
<1>1. Answers => Answers'
  BY DEF Answers, Answering
<1>2. Awaited => Awaited'
  BY DEF Awaited, Answering
<1>3. Answered => Answered'
  <2>1. Tools' = Tools
    BY DEF Tools
  <2>2. QED BY <2>1 DEF Answered
<1>4. QED BY <1>1, <1>2, <1>3 DEF Transcript, Finished

\* A model's result opens its block, and closes the transcript if it calls no tool.
LEMMA AcceptExtends ==
  ASSUME Inv, Transcript, phase = "stream", NEW result \in Result, Accept(result)
  PROVE  Transcript'
<1>1. generated \in Seq(Message) /\ Len(generated) \in Nat /\ result.ids \in Seq(CallIds)
  BY ResultIds DEF Transcript
<1> PICK G \in Nat : G = Len(generated)
  BY <1>1
<1> PICK T : T = Tools
  OBVIOUS
<1>2. CASE Over("failed")
  BY <1>1, <1>2 DEF Over, progress, Transcript
<1>3. CASE Valid(result) /\ ~ Over("failed")
  <2> DEFINE said == [role |-> "assistant", ids |-> result.ids]
  <2>1. /\ generated' = Append(generated, said)
        /\ UNCHANGED results /\ stage' = stage /\ stage = "before" /\ outcome = "none"
        /\ \/ phase' = "tools" /\ todo' = result.ids /\ outcome' = "none"
           \/ phase' = "over" /\ outcome' = "completed" /\ result.ids = <<>>
           \/ phase' = "over" /\ outcome' = "failed"
    BY <1>3 DEF Accept, Inv, Phases
  <2>2. /\ said \in Message /\ generated' \in Seq(Message) /\ Len(generated') = G + 1
        /\ generated'[G + 1] = said
        /\ \A n \in 1 .. G : generated'[n] = generated[n]
    BY <1>1, <2>1 DEF Message
  <2>3. Tools' = T
    BY <1>1, <2>2 DEF Tools
  <2>4. T \in SUBSET (1 .. G)
    BY DEF Tools
  <2>5. UpTo(T, G + 1) = UpTo(T, G)
    BY <1>1, <2>4, UpToGrows
  <2>6. /\ Answers /\ Answered /\ Unanswered = 0 /\ Unanswered' = 0
        /\ \A n \in 1 .. G : generated[n].role = "assistant" => n + Len(generated[n].ids) <= G
    BY <2>1 DEF Transcript, Unanswered, Answers
  <2>7. ASSUME phase' = "tools" PROVE Answering(G + 1)'
    <3>1. /\ todo' = result.ids /\ Len(generated') = G + 1 /\ Len(todo') \in Nat
          /\ generated'[G + 1].ids = result.ids
      BY <1>1, <2>1, <2>2, <2>7
    <3>2. \A k \in 1 .. Len(todo') : Len(generated') - (G + 1) + k = k
      BY <3>1
    <3>3. /\ G + 1 + Len(generated'[G + 1].ids) = Len(generated') + Len(todo')
          /\ \A k \in 1 .. Len(todo') :
               todo'[k] = generated'[G + 1].ids[Len(generated') - (G + 1) + k]
      BY <3>1, <3>2
    <3>4. QED BY <3>3 DEF Answering
  <2>8. ASSUME phase' = "over", result.ids = <<>> PROVE Len(result.ids) = 0
    BY <2>8
  <2>9. ASSUME outcome' # "failed" PROVE Answers' /\ Awaited'
    <3>1. generated'[G + 1] = said /\ said.role = "assistant" /\ said.ids = result.ids
      BY <2>2
    <3>2. \A n \in 1 .. Len(generated') : n \in 1 .. G \/ n = G + 1
      BY <2>2
    <3>3. \A n \in 1 .. Len(generated') : generated'[n].role = "assistant" =>
            \A k \in 1 .. Len(generated'[n].ids) : n + k <= Len(generated') =>
              generated'[n + k] = [role |-> "tool", ids |-> <<generated'[n].ids[k]>>]
      <4>1. \A n \in 1 .. G : generated[n].role = "assistant" =>
              \A k \in 1 .. Len(generated[n].ids) :
                /\ n + k \in 1 .. G
                /\ generated[n + k] = [role |-> "tool", ids |-> <<generated[n].ids[k]>>]
        <5>1. \A n \in 1 .. G : generated[n] \in Message
          BY <1>1
        <5>2. \A n \in 1 .. G : Len(generated[n].ids) \in Nat
          BY <5>1 DEF Message
        <5>3. QED BY <2>6, <5>2 DEF Answers
      <4>2. \A k \in 1 .. Len(said.ids) : ~ (G + 1 + k <= Len(generated'))
        BY <1>1, <2>2
      <4>3. QED BY <2>2, <3>1, <3>2, <4>1, <4>2
    <3>4. \A n \in 1 .. Len(generated') : generated'[n].role = "assistant" =>
            \/ n + Len(generated'[n].ids) <= Len(generated')
            \/ phase' = "tools" /\ Answering(n)'
      <4>1. \A n \in 1 .. G : generated'[n].role = "assistant" =>
              n + Len(generated'[n].ids) <= Len(generated')
        <5>1. \A n \in 1 .. G : generated[n] \in Message
          BY <1>1
        <5>2. \A n \in 1 .. G : Len(generated[n].ids) \in Nat
          BY <5>1 DEF Message
        <5>3. QED BY <2>2, <2>6, <5>2
      <4>2. CASE phase' = "tools"
        BY <2>7, <3>2, <4>1, <4>2
      <4>3. CASE result.ids = <<>>
        <5>1. Len(said.ids) = 0
          BY <4>3
        <5>2. QED BY <2>2, <3>1, <3>2, <4>1, <5>1
      <4>4. QED BY <2>1, <2>9, <4>2, <4>3
    <3>5. Awaited'
      BY <2>1, <2>2, <2>7, <3>1 DEF Awaited
    <3>6. QED BY <3>3, <3>4, <3>5 DEF Answers
  <2>10. Answered'
    BY <1>1, <2>1, <2>2, <2>3, <2>4, <2>5, <2>6 DEF Answered
  <2>11. outcome' = "completed" => Finished'
    BY <1>1, <2>1, <2>2 DEF Finished
  <2>12. QED BY <2>1, <2>2, <2>9, <2>10, <2>11 DEF Transcript, Finished
<1>4. QED BY <1>2, <1>3 DEF Accept

\* The tool messages recorded so far name results that stay where they are.
LEMMA ResultsStay ==
  ASSUME Transcript, Answered, results' = Append(results, Call(todo[1])),
         results \in Seq(Calls), Call(todo[1]) \in Calls
  PROVE  \A n \in Tools : generated[n].ids = <<results'[UpTo(Tools, n)].id>>
<1> SUFFICES ASSUME NEW n \in Tools PROVE generated[n].ids = <<results'[UpTo(Tools, n)].id>>
  OBVIOUS
<1>1. Len(generated) \in Nat /\ n \in 1 .. Len(generated)
  BY DEF Transcript, Tools
<1>2. UpTo(Tools, n) \in 1 .. UpTo(Tools, Len(generated))
  <2>1. n \in Nat /\ n > 0 /\ n \in 0 .. Len(generated)
    BY <1>1
  <2>2. UpTo(Tools, n) \in Nat /\ UpTo(Tools, n) > 0
    BY <2>1, UpToCounts
  <2>3. UpTo(Tools, n) \in 0 .. UpTo(Tools, Len(generated))
    BY <1>1, <2>1, UpToCounts
  <2>4. QED BY <2>2, <2>3
<1>3. UpTo(Tools, n) \in 1 .. Len(results)
  <2>1. UpTo(Tools, Len(generated)) \in Nat
    BY <1>1, UpToCounts
  <2>2. QED BY <1>2, <2>1 DEF Answered, Unanswered
<1>4. results'[UpTo(Tools, n)] = results[UpTo(Tools, n)]
  BY <1>3
<1>5. QED BY <1>4 DEF Answered

\* A recorded result becomes a message: the answer to the first call still to make.
LEMMA ProceedExtends ==
  ASSUME Inv, Transcript, phase = "tools", outcome' = "none", Proceed,
         Len(results') = UpTo(Tools, Len(generated)) + 1,
         results'[Len(results')].id = todo[1],
         \A n \in Tools : generated[n].ids = <<results'[UpTo(Tools, n)].id>>
  PROVE  Transcript'
<1>1. /\ generated \in Seq(Message) /\ Len(generated) \in Nat
      /\ todo \in Seq(CallIds) /\ Len(todo) \in Nat /\ Len(todo) > 0 /\ todo[1] \in CallIds
  BY DEF Transcript, Inv, Phases, TypeOK
<1>2. Answers /\ Awaited /\ Answered
  BY DEF Transcript, Inv, Phases
<1> PICK G \in Nat : G = Len(generated)
  BY <1>1
<1> DEFINE answer == [role |-> "tool", ids |-> <<todo[1]>>]
<1>3. /\ answer \in Message /\ generated' \in Seq(Message) /\ Len(generated') = G + 1
      /\ generated'[G + 1] = answer
      /\ \A n \in 1 .. G : generated'[n] = generated[n]
  <2>1. generated' = Append(generated, answer)
    BY DEF Proceed
  <2>2. answer \in Message
    BY <1>1 DEF Message
  <2>3. QED BY <1>1, <2>1, <2>2
<1>4. /\ todo' = Tail(todo) /\ Len(todo') = Len(todo) - 1
      /\ \A k \in 1 .. Len(todo') : todo'[k] = todo[k + 1]
      /\ phase' = "tools" => Len(todo') > 0
      /\ phase' # "tools" => Len(todo') = 0
      /\ stage' = "before"
  BY <1>1 DEF Proceed
<1>5. \A n \in 1 .. G : Len(generated[n].ids) \in Nat
  <2>1. \A n \in 1 .. G : generated[n] \in Message
    BY <1>1
  <2>2. QED BY <2>1 DEF Message
<1>6. \A n \in 1 .. G + 1 : n \in 1 .. G \/ n = G + 1
  OBVIOUS
<1>7. ASSUME NEW n \in 1 .. G, Answering(n)
      PROVE  /\ G + 1 - n \in 1 .. Len(generated[n].ids)
             /\ todo[1] = generated[n].ids[G + 1 - n]
             /\ n + Len(generated'[n].ids) = Len(generated') + Len(todo')
             /\ \A k \in 1 .. Len(todo') :
                  todo'[k] = generated'[n].ids[Len(generated') - n + k]
  <2>1. /\ n + Len(generated[n].ids) = G + Len(todo)
        /\ \A k \in 1 .. Len(todo) : todo[k] = generated[n].ids[G - n + k]
    BY <1>7 DEF Answering
  <2>2. 1 \in 1 .. Len(todo) /\ G - n + 1 = G + 1 - n
    BY <1>1
  <2>3. \A k \in 1 .. Len(todo') : k + 1 \in 1 .. Len(todo) /\ G - n + (k + 1) = G + 1 - n + k
    BY <1>1, <1>4
  <2>4. generated'[n] = generated[n] /\ Len(generated[n].ids) \in Nat
    BY <1>3, <1>5
  <2>5. G + 1 - n \in 1 .. Len(generated[n].ids)
    BY <1>1, <2>1, <2>4
  <2>6. todo[1] = generated[n].ids[G + 1 - n]
    BY <2>1, <2>2
  <2>7. n + Len(generated'[n].ids) = Len(generated') + Len(todo')
    <3>1. n + Len(generated[n].ids) = G + 1 + (Len(todo) - 1)
      BY <1>1, <2>1, <2>4
    <3>2. Len(generated'[n].ids) = Len(generated[n].ids)
      BY <2>4
    <3>3. QED BY <1>3, <1>4, <3>1, <3>2
  <2>8. \A k \in 1 .. Len(todo') : todo'[k] = generated[n].ids[G + 1 - n + k]
    BY <1>4, <2>1, <2>3
  <2>9. QED BY <1>3, <2>4, <2>5, <2>6, <2>7, <2>8
<1>8. Answers'
  <2>1. ASSUME NEW n \in 1 .. G + 1, generated'[n].role = "assistant"
        PROVE  n \in 1 .. G /\ generated'[n] = generated[n] /\ generated[n].role = "assistant"
    BY <1>3, <1>6, <2>1
  <2>2. ASSUME NEW n \in 1 .. G, generated[n].role = "assistant",
               NEW k \in 1 .. Len(generated[n].ids), n + k <= G + 1
        PROVE  generated'[n + k] = [role |-> "tool", ids |-> <<generated[n].ids[k]>>]
    <3>1. CASE n + k <= G
      <4>1. generated[n + k] = [role |-> "tool", ids |-> <<generated[n].ids[k]>>]
        BY <1>2, <2>2, <3>1 DEF Answers
      <4>2. n + k \in 1 .. G
        BY <1>5, <3>1
      <4>3. QED BY <1>3, <4>1, <4>2
    <3>2. CASE n + k = G + 1
      <4>1. Answering(n)
        BY <1>2, <1>5, <2>2, <3>2 DEF Answers
      <4>2. k = G + 1 - n
        BY <1>5, <3>2
      <4>3. generated[n].ids[k] = todo[1]
        BY <1>7, <4>1, <4>2
      <4>4. QED BY <1>3, <3>2, <4>3
    <3>3. n + k <= G \/ n + k = G + 1
      BY <1>5, <2>2
    <3>4. QED BY <3>1, <3>2, <3>3
  <2>3. ASSUME NEW n \in 1 .. G, generated[n].role = "assistant"
        PROVE  \/ n + Len(generated'[n].ids) <= G + 1
               \/ phase' = "tools" /\ Answering(n)'
    <3>1. CASE n + Len(generated[n].ids) <= G
      BY <1>3, <1>5, <3>1
    <3>2. CASE Answering(n)
      <4>1. CASE phase' = "tools"
        BY <1>7, <3>2, <4>1 DEF Answering
      <4>2. CASE phase' # "tools"
        <5>1. Len(todo') = 0 /\ n + Len(generated'[n].ids) = G + 1 + Len(todo')
          BY <1>3, <1>4, <1>7, <3>2, <4>2
        <5>2. QED BY <5>1
      <4>3. QED BY <4>1, <4>2
    <3>3. QED BY <1>2, <2>3, <3>1, <3>2 DEF Answers
  <2>4. SUFFICES ASSUME NEW n \in 1 .. G + 1, generated'[n].role = "assistant"
                 PROVE  /\ \A k \in 1 .. Len(generated'[n].ids) : n + k <= G + 1 =>
                             generated'[n + k] =
                               [role |-> "tool", ids |-> <<generated'[n].ids[k]>>]
                        /\ \/ n + Len(generated'[n].ids) <= G + 1
                           \/ phase' = "tools" /\ Answering(n)'
    BY <1>3 DEF Answers
  <2>5. QED BY <2>1, <2>2, <2>3, <2>4
<1>9. Awaited'
  <2>1. PICK n \in 1 .. G : generated[n].role = "assistant" /\ Answering(n)
    BY <1>2 DEF Awaited
  <2>2. Answering(n)'
    BY <1>7, <2>1 DEF Answering
  <2>3. n \in 1 .. Len(generated') /\ generated'[n].role = "assistant"
    BY <1>3, <2>1
  <2>4. QED BY <2>2, <2>3 DEF Awaited
<1>10. Answered'
  <2> PICK T : T = Tools
    OBVIOUS
  <2>1. T \in SUBSET (1 .. G)
    BY DEF Tools
  <2>2. Tools' = T \cup {G + 1}
    <3>1. \A n \in 1 .. G + 1 : generated'[n].role = "tool" <=> n \in T \cup {G + 1}
      BY <1>3, <1>6 DEF Tools
    <3>2. \A n \in T \cup {G + 1} : n \in 1 .. G + 1
      BY <2>1
    <3>3. QED BY <1>3, <3>1, <3>2 DEF Tools
  <2>3. /\ \A n \in 1 .. G : UpTo(T \cup {G + 1}, n) = UpTo(T, n)
        /\ UpTo(T \cup {G + 1}, G + 1) = UpTo(T, G) + 1
    BY <2>1, UpToGrows
  <2>4. ASSUME NEW n \in T
        PROVE  /\ generated'[n].ids = <<results'[UpTo(T \cup {G + 1}, n)].id>>
               /\ \E m \in 1 .. G + 1 :
                    generated'[m].role = "assistant" /\ n \in m + 1 .. m + Len(generated'[m].ids)
    <3>1. n \in 1 .. G
      BY <2>1
    <3>2. generated'[n].ids = <<results'[UpTo(T \cup {G + 1}, n)].id>>
      BY <1>3, <2>3, <3>1
    <3>3. PICK m \in 1 .. G :
            generated[m].role = "assistant" /\ n \in m + 1 .. m + Len(generated[m].ids)
      BY <1>2 DEF Answered
    <3>4. m \in 1 .. G + 1 /\ generated'[m] = generated[m]
      BY <1>3
    <3>5. QED BY <3>2, <3>3, <3>4
  <2>5. generated'[G + 1].ids = <<results'[UpTo(T \cup {G + 1}, G + 1)].id>>
    BY <1>3, <2>3
  <2>6. \E m \in 1 .. G + 1 :
          generated'[m].role = "assistant" /\ G + 1 \in m + 1 .. m + Len(generated'[m].ids)
    <3>1. PICK n \in 1 .. G : generated[n].role = "assistant" /\ Answering(n)
      BY <1>2 DEF Awaited
    <3>2. G + 1 - n \in 1 .. Len(generated[n].ids) /\ n \in 1 .. G + 1
      BY <1>7, <3>1
    <3>3. generated'[n] = generated[n] /\ G + 1 \in n + 1 .. n + Len(generated[n].ids)
      BY <1>3, <1>5, <3>2
    <3>4. QED BY <3>1, <3>2, <3>3
  <2>7. Len(results') = UpTo(Tools', Len(generated')) + 0
    <3>1. UpTo(T, G) \in Nat
      BY UpToCounts
    <3>2. Len(generated') = G + 1 /\ Len(results') = UpTo(T, G) + 1
      BY <1>3
    <3>3. QED BY <2>2, <2>3, <3>1, <3>2
  <2>8. Unanswered' = 0
    BY <1>4 DEF Unanswered
  <2>9. ASSUME NEW n \in Tools'
        PROVE  /\ generated'[n].ids = <<results'[UpTo(Tools', n)].id>>
               /\ \E m \in 1 .. Len(generated') :
                    generated'[m].role = "assistant" /\ n \in m + 1 .. m + Len(generated'[m].ids)
    <3>1. Len(generated') = G + 1
      BY <1>3
    <3>2. CASE n \in T
      BY <2>2, <2>4, <3>1, <3>2
    <3>3. CASE n = G + 1
      BY <2>2, <2>5, <2>6, <3>1, <3>3
    <3>4. QED BY <2>2, <3>2, <3>3
  <2>10. QED BY <2>7, <2>8, <2>9 DEF Answered
<1>11. Finished'
  BY DEF Finished
<1>12. QED BY <1>3, <1>8, <1>9, <1>10, <1>11 DEF Transcript

LEMMA TranscriptKeeps == ASSUME Inv, Transcript, [Next]_vars PROVE Transcript'
<1>1. CASE \/ UNCHANGED vars
           \/ Generate \/ OpenStream \/ Prepare \/ Returned \/ ThreadEnds
           \/ (Delta /\ ~ Over("failed")) \/ (Completes /\ ~ Over("failed"))
           \/ Emit /\ stage # "emit"
  <2>1. /\ UNCHANGED <<generated, results, todo, outcome>> /\ Unanswered' = Unanswered
        /\ phase' = "tools" <=> phase = "tools"
    BY <1>1 DEF vars, progress, Generate, OpenStream, Prepare, Returned, ThreadEnds, Delta,
                Completes, Emit, Unanswered
  <2>2. QED BY <2>1, TranscriptRests
<1>2. ASSUME Over("failed") \/ Over("cancelled") PROVE Transcript'
  <2>1. outcome' \in {"failed", "cancelled"} /\ generated' = generated
    BY <1>2 DEF Over, progress
  <2>2. QED BY <2>1 DEF Transcript
<1>3. CASE (Delta /\ Over("failed")) \/ (Completes /\ Over("failed")) \/ ModelFails \/ ToolFails
           \/ Cancelled
  BY <1>2, <1>3 DEF ModelFails, ToolFails, Cancelled
<1>4. CASE Returns
  BY <1>4, AcceptExtends DEF Returns
<1>5. CASE Ends
  <2>1. held # <<>> => held[1] \in Result
    BY DEF Inv, TypeOK
  <2>2. QED BY <1>2, <1>5, <2>1, AcceptExtends DEF Ends, Reading
<1>6. CASE Record
  <2>1. /\ results' = Append(results, Call(todo[1])) /\ phase = "tools" /\ stage = "after"
        /\ UNCHANGED outcome /\ outcome = "none" /\ Answered /\ generated \in Seq(Message)
        /\ results \in Seq(Calls) /\ Call(todo[1]) \in Calls /\ Call(todo[1]).id = todo[1]
        /\ Len(results) = UpTo(Tools, Len(generated)) /\ Len(results) \in Nat
    <3>1. phase = "tools" /\ stage = "after" /\ outcome = "none" /\ todo[1] \in CallIds
      BY <1>6 DEF Record, Inv, Phases, TypeOK
    <3>2. Answered /\ generated \in Seq(Message) /\ Unanswered = 0
      BY <3>1 DEF Transcript, Unanswered
    <3>3. UpTo(Tools, Len(generated)) \in Nat
      BY <3>2, UpToCounts
    <3>4. Len(results) = UpTo(Tools, Len(generated))
      BY <3>2, <3>3 DEF Answered
    <3>5. QED BY <1>6, <3>1, <3>2, <3>3, <3>4, CallIsCall DEF Record, Inv, TypeOK
  <2>2. Len(results') = Len(results) + 1 /\ results'[Len(results')] = Call(todo[1])
    BY <2>1
  <2>3. \A n \in Tools : generated[n].ids = <<results'[UpTo(Tools, n)].id>>
    BY <2>1, ResultsStay
  <2>4. CASE mode = "invoke"
    BY <1>6, <2>1, <2>2, <2>3, <2>4, ProceedExtends DEF Record
  <2>5. CASE mode # "invoke"
    <3>1. UNCHANGED <<phase, todo, generated, outcome>> /\ stage' = "emit"
      BY <1>6, <2>5 DEF Record
    <3>2. Tools' = Tools /\ Unanswered' = 1
      BY <3>1 DEF Tools, Unanswered
    <3>3. Answered'
      BY <2>1, <2>2, <2>3, <3>1, <3>2 DEF Answered
    <3>4. QED BY <2>1, <3>1, <3>3 DEF Transcript, Answers, Awaited, Answering, Finished
  <2>6. QED BY <2>4, <2>5
<1>7. CASE Emit /\ stage = "emit"
  <2>1. /\ phase = "tools" /\ Proceed /\ outcome = "none" /\ UNCHANGED <<results, outcome>>
        /\ todo[1] \in CallIds /\ results[Len(results)] = Call(todo[1])
    BY <1>7 DEF Emit, Inv, Phases, TypeOK, Recorded
  <2>2. Answered /\ Unanswered = 1
    BY <1>7, <2>1 DEF Transcript, Unanswered
  <2>3. /\ Len(results') = UpTo(Tools, Len(generated)) + 1
        /\ results'[Len(results')].id = todo[1]
        /\ \A n \in Tools : generated[n].ids = <<results'[UpTo(Tools, n)].id>>
    BY <2>1, <2>2, CallIsCall DEF Answered, Inv
  <2>4. QED BY <2>1, <2>3, ProceedExtends
<1>8. QED BY <1>1, <1>3, <1>4, <1>5, <1>6, <1>7 DEF Next

LEMMA InvIsWhole == ASSUME Inv, Transcript PROVE ExchangesWhole
<1> SUFFICES ASSUME outcome = "completed" PROVE ExchangesWhole
  BY DEF ExchangesWhole
<1>1. generated \in Seq(Message) /\ Len(generated) \in Nat
  BY DEF Transcript
<1>2. Answers /\ Answered /\ Finished /\ phase = "over" /\ Unanswered = 0
  BY DEF Transcript, Inv, Phases, Unanswered
<1>3. generated # <<>> /\ Last(generated) = [role |-> "assistant", ids |-> <<>>]
  BY <1>1, <1>2 DEF Finished, Last
<1>4. \A n \in 1 .. Len(generated) :
        /\ UpTo(Tools, n) = Cardinality({m \in 1 .. n : generated[m].role = "tool"})
        /\ UpTo(Tools, Len(generated))
             = Cardinality({m \in 1 .. Len(generated) : generated[m].role = "tool"})
  <2>1. \A n \in 1 .. Len(generated) :
          {m \in 1 .. n : m \in Tools} = {m \in 1 .. n : generated[m].role = "tool"}
    BY DEF Tools
  <2>2. {m \in 1 .. Len(generated) : m \in Tools}
          = {m \in 1 .. Len(generated) : generated[m].role = "tool"}
    BY DEF Tools
  <2>3. QED BY <2>1, <2>2 DEF UpTo
<1>5. UpTo(Tools, Len(generated)) = Len(results)
  <2>1. UpTo(Tools, Len(generated)) \in Nat
    BY <1>1, UpToCounts
  <2>2. QED BY <1>2, <2>1 DEF Answered
<1>6. \A n \in 1 .. Len(generated) : generated[n].role = "assistant" =>
        \A k \in 1 .. Len(generated[n].ids) :
          /\ n + k <= Len(generated)
          /\ generated[n + k] = [role |-> "tool", ids |-> <<generated[n].ids[k]>>]
  <2>1. \A n \in 1 .. Len(generated) : generated[n] \in Message
    BY <1>1
  <2>2. \A n \in 1 .. Len(generated) : Len(generated[n].ids) \in Nat
    BY <2>1 DEF Message
  <2>3. QED BY <1>1, <1>2, <2>2 DEF Answers
<1>7. \A n \in 1 .. Len(generated) : generated[n].role = "tool" =>
        /\ generated[n].ids = <<results[UpTo(Tools, n)].id>>
        /\ \E m \in 1 .. Len(generated) :
             generated[m].role = "assistant" /\ n \in m + 1 .. m + Len(generated[m].ids)
  BY <1>2 DEF Answered, Tools
<1>8. Len(generated) > 0
  BY <1>2 DEF Finished
<1>9. Len(generated) \in 1 .. Len(generated)
  BY <1>1, <1>8
<1>10. QED BY <1>3, <1>4, <1>5, <1>6, <1>7, <1>9 DEF ExchangesWhole

\* The streams: closed when the loop is left, and read to the end when it goes on.
LEMMA SourcesKeep == ASSUME Inv, Sources, [Next]_vars PROVE Sources'
<1>1. CASE \/ UNCHANGED vars
           \/ Generate \/ OpenStream \/ Prepare \/ Returned \/ ThreadEnds
           \/ (Delta /\ ~ Over("failed")) \/ (Completes /\ ~ Over("failed"))
  BY <1>1 DEF vars, progress, Generate, OpenStream, Prepare, Returned, ThreadEnds, Delta,
              Completes, Sources, Inv, Phases
<1>2. ASSUME Over("failed") \/ Over("cancelled") PROVE Sources'
  BY <1>2 DEF Over, Closed, Sources
<1>3. CASE (Delta /\ Over("failed")) \/ (Completes /\ Over("failed")) \/ ModelFails \/ ToolFails
           \/ Cancelled
  BY <1>2, <1>3 DEF ModelFails, ToolFails, Cancelled
<1>4. ASSUME NEW result, phase = "stream", Accept(result) PROVE Sources'
  BY <1>2, <1>4 DEF Accept, Sources, Inv, Phases
<1>5. CASE Returns \/ Ends
  BY <1>2, <1>4, <1>5 DEF Returns, Ends, Reading
<1>6. CASE Record \/ Emit
  BY <1>6 DEF Record, Emit, Proceed, Sources, Inv, Phases
<1>7. QED BY <1>1, <1>3, <1>5, <1>6 DEF Next

\* What the reader sees stays in order, whatever the loop does without it.
LEMMA StreamRests ==
  ASSUME Streamed, UNCHANGED <<emitted, results>>, Unanswered' = Unanswered, Rounds', Waiting'
  PROVE  Streamed'
<1>1. Shown' = Shown
  BY DEF Shown
<1>2. Told'
  BY <1>1 DEF Streamed, Told
<1>3. QED BY <1>2 DEF Streamed

\* The reader's queue takes an event.
LEMMA EmitStreams == ASSUME Inv, Streamed, Emit, mode # "invoke" PROVE Streamed'
<1>1. /\ emitted \in Seq(Event) /\ Len(emitted) \in Nat /\ iteration \in Nat
      /\ emitted' = emitted \o pending /\ pending # <<>> /\ pending' = <<>>
      /\ UNCHANGED results
  BY LoopAssumption DEF Streamed, Emit, Inv, TypeOK
<1> PICK L \in Nat : L = Len(emitted)
  BY <1>1
<1> PICK S : S = Shown
  OBVIOUS
<1>2. PICK event \in Event :
        /\ pending = <<event>> /\ event.call.round = iteration
        /\ \/ phase = "stream" /\ event.type = "delta" /\ stage # "emit" /\ iteration' = iteration
              /\ phase' = phase /\ stage' = stage
           \/ /\ phase = "tools" /\ event.type = "tool_result" /\ stage = "emit"
              /\ event.call = Call(todo[1]) /\ stage' = "before"
              /\ \/ phase' = "tools" /\ iteration' = iteration
                 \/ phase' = "model" /\ iteration' = iteration + 1
  <2>1. CASE phase = "stream"
    <3>1. stage # "emit" /\ UNCHANGED <<phase, iteration, stage>>
      BY <2>1 DEF Inv, Phases, Emit
    <3>2. pending = <<[type |-> "delta", call |-> Call("")]>>
      BY <1>1, <2>1 DEF Streamed, Waiting
    <3>3. [type |-> "delta", call |-> Call("")] \in Event
      BY <1>1 DEF Event, Call
    <3>4. QED BY <2>1, <3>1, <3>2, <3>3 DEF Call
  <2>2. CASE phase = "tools"
    <3>1. stage = "emit" /\ todo[1] \in CallIds
      BY <1>1, <2>2 DEF Inv, Phases, TypeOK
    <3>2. pending = <<ToolResult>>
      BY <1>1, <2>2 DEF Streamed, Waiting
    <3>3. ToolResult \in Event
      BY <1>1, <3>1 DEF ToolResult, Event, Call
    <3>4. stage' = "before" /\ \/ phase' = "tools" /\ iteration' = iteration
                               \/ phase' = "model" /\ iteration' = iteration + 1
      BY <2>2, <3>1 DEF Emit, Proceed
    <3>5. QED BY <2>2, <3>1, <3>2, <3>3, <3>4 DEF ToolResult, Call
  <2>3. QED BY <1>1, <2>1, <2>2 DEF Inv, Phases
<1>3. /\ emitted' \in Seq(Event) /\ Len(emitted') = L + 1 /\ emitted'[L + 1] = event
      /\ \A n \in 1 .. L : emitted'[n] = emitted[n]
  BY <1>1, <1>2
<1>4. \A n \in 1 .. L + 1 : n \in 1 .. L \/ n = L + 1
  OBVIOUS
<1>5. \A n \in 1 .. L : emitted[n].call.round \in Nat
  <2>1. \A n \in 1 .. L : emitted[n] \in Event
    BY <1>1
  <2>2. QED BY <2>1 DEF Event
<1>6. \A n \in 1 .. Len(emitted') - 1 : Before(emitted'[n], emitted'[n + 1])
  <2>1. \A n \in 1 .. L - 1 : n \in 1 .. L /\ n + 1 \in 1 .. L /\ Before(emitted[n], emitted[n + 1])
    BY DEF Streamed
  <2>2. L > 0 => Before(emitted[L], event)
    <3>1. L > 0 => L \in 1 .. L
      OBVIOUS
    <3>2. QED BY <1>1, <1>2, <1>5, <3>1 DEF Streamed, Rounds, Before
  <2>3. \A n \in 1 .. L : n \in 1 .. L - 1 \/ n = L
    OBVIOUS
  <2>4. QED BY <1>3, <2>1, <2>2, <2>3
<1>7. Rounds'
  BY <1>1, <1>2, <1>3, <1>4, <1>5 DEF Streamed, Rounds
<1>8. Waiting'
  BY <1>1 DEF Waiting
<1>9. S \in SUBSET (1 .. L)
  BY DEF Shown
<1>10. UpTo(S, L) \in Nat
  BY UpToCounts
<1>11. Told'
  <2>1. CASE event.type = "delta"
    <3>1. Shown' = S
      BY <1>3, <1>4, <2>1 DEF Shown
    <3>2. UpTo(S, L + 1) = UpTo(S, L)
      BY <1>9, UpToGrows
    <3>3. Unanswered' = Unanswered
      BY <1>2, <2>1 DEF Unanswered
    <3>4. QED BY <1>1, <1>3, <1>9, <1>10, <3>1, <3>2, <3>3 DEF Streamed, Told
  <2>2. CASE event.type = "tool_result"
    <3>1. Shown' = S \cup {L + 1}
      <4>1. \A n \in 1 .. L + 1 : emitted'[n].type = "tool_result" <=> n \in S \cup {L + 1}
        BY <1>3, <1>4, <2>2 DEF Shown
      <4>2. \A n \in S \cup {L + 1} : n \in 1 .. L + 1
        BY <1>9
      <4>3. QED BY <1>3, <4>1, <4>2 DEF Shown
    <3>2. /\ \A n \in 1 .. L : UpTo(S \cup {L + 1}, n) = UpTo(S, n)
          /\ UpTo(S \cup {L + 1}, L + 1) = UpTo(S, L) + 1
      BY <1>9, UpToGrows
    <3>3. phase = "tools" /\ Unanswered = 1 /\ Unanswered' = 0 /\ event.call = Call(todo[1])
      BY <1>2, <2>2 DEF Unanswered
    <3>4. Len(results) = UpTo(S, L) + 1 /\ results[Len(results)] = Call(todo[1])
      <4>1. Len(results) = UpTo(S, L) + 1
        BY <1>10, <3>3 DEF Streamed, Told
      <4>2. results[Len(results)] = started[Len(started)] /\ started[Len(started)] = Call(todo[1])
        <5>1. stage = "emit" /\ Len(results) = Len(started)
          BY <1>2, <2>2 DEF Inv, Recorded
        <5>2. Len(results) \in 1 .. Len(results)
          BY <1>10, <4>1
        <5>3. QED BY <3>3, <5>1, <5>2 DEF Inv, Recorded
      <4>3. QED BY <4>1, <4>2
    <3>5. \A n \in S : /\ n \in 1 .. L /\ emitted'[n] = emitted[n]
                      /\ emitted[n].call = results[UpTo(Shown', n)]
      BY <1>3, <1>9, <3>1, <3>2 DEF Streamed, Told
    <3>6. emitted'[L + 1].call = results[UpTo(Shown', L + 1)]
      BY <1>3, <3>1, <3>2, <3>3, <3>4
    <3>7. Len(results) = UpTo(Shown', Len(emitted')) + Unanswered'
      BY <1>3, <1>10, <3>1, <3>2, <3>3, <3>4
    <3>8. \A n \in Shown' : emitted'[n].call = results'[UpTo(Shown', n)]
      <4>1. UNCHANGED results /\ Shown' = S \cup {L + 1}
        BY <1>1, <3>1
      <4>2. \A n \in S : emitted'[n].call = results[UpTo(Shown', n)]
        BY <3>5
      <4>3. QED BY <3>6, <4>1, <4>2
    <3>9. QED BY <1>1, <3>7, <3>8 DEF Told
  <2>3. QED BY <1>2, <2>1, <2>2
<1>12. QED BY <1>3, <1>6, <1>7, <1>8, <1>11 DEF Streamed

LEMMA RecordStreams == ASSUME Inv, Streamed, Record, mode # "invoke" PROVE Streamed'
<1>1. /\ results' = Append(results, Call(todo[1])) /\ pending' = <<ToolResult>>
      /\ phase = "tools" /\ stage = "after" /\ stage' = "emit"
      /\ UNCHANGED <<phase, iteration, todo, emitted>>
  BY DEF Record
<1>2. /\ results \in Seq(Calls) /\ Call(todo[1]) \in Calls /\ Len(emitted) \in Nat
      /\ emitted \in Seq(Event)
  BY <1>1, CallIsCall DEF Inv, TypeOK, Phases, Streamed
<1> PICK S : S = Shown
  OBVIOUS
<1>3. S \in SUBSET (1 .. Len(emitted)) /\ Shown' = S /\ UpTo(S, Len(emitted)) \in Nat
  BY <1>1, <1>2, UpToCounts DEF Shown
<1>4. Len(results) = UpTo(S, Len(emitted)) /\ Unanswered' = 1
  BY <1>1, <1>3 DEF Streamed, Told, Unanswered
<1>5. \A n \in S : UpTo(S, n) \in 1 .. Len(results)
  <2> SUFFICES ASSUME NEW n \in S PROVE UpTo(S, n) \in 1 .. Len(results)
    OBVIOUS
  <2>1. n \in Nat /\ n > 0 /\ n \in 0 .. Len(emitted)
    BY <1>2, <1>3
  <2>2. UpTo(S, n) \in Nat /\ UpTo(S, n) > 0
    BY <2>1, UpToCounts
  <2>3. UpTo(S, n) \in 0 .. UpTo(S, Len(emitted))
    BY <1>2, <2>1, UpToCounts
  <2>4. QED BY <1>4, <2>2, <2>3
<1>6. /\ Len(results') = Len(results) + 1
      /\ \A n \in 1 .. Len(results) : results'[n] = results[n]
  BY <1>1, <1>2
<1>7. Told'
  BY <1>1, <1>3, <1>4, <1>5, <1>6 DEF Streamed, Told
<1>8. Rounds'
  BY <1>1 DEF Streamed, Rounds
<1>9. Waiting'
  BY <1>1 DEF Waiting, ToolResult, Call
<1>10. QED BY <1>1, <1>7, <1>8, <1>9 DEF Streamed

LEMMA StreamedKeeps == ASSUME Inv, Streamed, [Next]_vars, mode # "invoke" PROVE Streamed'
<1>1. emitted \in Seq(Event) /\ iteration \in Nat
  BY LoopAssumption DEF Streamed, Inv, TypeOK
<1>2. ASSUME Over("failed") \/ Over("cancelled") PROVE Streamed'
  <2>1. /\ UNCHANGED <<emitted, results>> /\ phase' = "over" /\ pending' = <<>>
        /\ Unanswered' = Unanswered
    BY <1>2 DEF Over, progress, Unanswered
  <2>2. QED BY <2>1, StreamRests DEF Rounds, Waiting
<1>3. CASE UNCHANGED vars \/ ThreadEnds
  <2>1. /\ UNCHANGED <<emitted, results, phase, pending, iteration, todo>>
        /\ Unanswered' = Unanswered
    BY <1>3 DEF vars, progress, ThreadEnds, Unanswered
  <2>2. Rounds' /\ Waiting'
    BY <2>1 DEF Streamed, Rounds, Waiting, ToolResult, Call
  <2>3. QED BY <2>1, <2>2, StreamRests
<1>4. CASE Generate \/ OpenStream
  <2>1. /\ UNCHANGED <<emitted, results, pending, iteration>> /\ Unanswered' = Unanswered
        /\ phase = "model" /\ phase' = "stream" /\ pending = <<>>
    BY <1>4 DEF Generate, OpenStream, Unanswered, Inv, Phases
  <2>2. Rounds' /\ Waiting'
    BY <2>1 DEF Streamed, Rounds, Waiting
  <2>3. QED BY <2>1, <2>2, StreamRests
<1>5. CASE Delta
  <2>1. CASE Over("failed")
    BY <1>2, <2>1
  <2>2. CASE ~ Over("failed")
    <3>1. /\ UNCHANGED <<emitted, results, phase, iteration>> /\ Unanswered' = Unanswered
          /\ pending' = <<[type |-> "delta", call |-> Call("")]>> /\ phase = "stream"
      BY <1>5, <2>2 DEF Delta, Reading, progress, Unanswered
    <3>2. Rounds' /\ Waiting'
      BY <3>1 DEF Streamed, Rounds, Waiting, Call
    <3>3. QED BY <3>1, <3>2, StreamRests
  <2>3. QED BY <2>1, <2>2
<1>6. CASE Completes
  <2>1. CASE Over("failed")
    BY <1>2, <2>1
  <2>2. CASE ~ Over("failed")
    <3>1. /\ UNCHANGED <<emitted, results, phase, iteration, pending>>
          /\ Unanswered' = Unanswered /\ pending = <<>>
      BY <1>6, <2>2 DEF Completes, Reading, progress, Unanswered
    <3>2. Rounds' /\ Waiting'
      BY <3>1 DEF Streamed, Rounds, Waiting
    <3>3. QED BY <3>1, <3>2, StreamRests
  <2>3. QED BY <2>1, <2>2
<1>7. ASSUME NEW result, Accept(result), phase = "stream", pending = <<>> PROVE Streamed'
  <2>1. CASE Over("failed")
    BY <1>2, <2>1
  <2>2. CASE ~ Over("failed")
    <3>1. /\ UNCHANGED <<emitted, results, iteration, pending>> /\ phase' \in {"tools", "over"}
          /\ stage = "before" /\ stage' = "before"
      BY <1>7, <2>2 DEF Accept, Inv, Phases
    <3>2. pending' = <<>>
      BY <1>7, <3>1
    <3>3. Rounds'
      <4>1. \A n \in 1 .. Len(emitted) : emitted[n] \in Event
        BY <1>1
      <4>2. \A n \in 1 .. Len(emitted) : emitted[n].call.round \in Nat
        BY <4>1 DEF Event
      <4>3. QED BY <1>1, <1>7, <3>1, <4>2 DEF Streamed, Rounds
    <3>4. Waiting' /\ Unanswered' = Unanswered
      BY <3>1, <3>2 DEF Waiting, Unanswered
    <3>5. QED BY <3>1, <3>3, <3>4, StreamRests
  <2>3. QED BY <2>1, <2>2
<1>8. CASE Returns \/ Ends
  BY <1>2, <1>7, <1>8 DEF Returns, Ends, Reading, Inv, Phases
<1>9. CASE Prepare \/ Returned
  <2>1. /\ UNCHANGED <<emitted, results, phase, iteration, pending>>
        /\ Unanswered' = Unanswered /\ pending = <<>>
    BY <1>9 DEF Prepare, Returned, Unanswered, Inv, Phases
  <2>2. Rounds' /\ Waiting'
    BY <2>1 DEF Streamed, Rounds, Waiting
  <2>3. QED BY <2>1, <2>2, StreamRests
<1>10. CASE ModelFails \/ ToolFails \/ Cancelled
  BY <1>2, <1>10 DEF ModelFails, ToolFails, Cancelled
<1>11. QED BY <1>3, <1>4, <1>5, <1>6, <1>8, <1>9, <1>10, EmitStreams, RecordStreams DEF Next

LEMMA InvAgrees == ASSUME Inv, Sources, mode # "invoke" => Streamed PROVE StreamAgrees
<1> SUFFICES ASSUME mode # "invoke" PROVE StreamAgrees
  BY DEF StreamAgrees
<1>1. emitted \in Seq(Event) /\ Len(emitted) \in Nat
  BY DEF Streamed
<1>2. \A n \in 0 .. Len(emitted) :
        Cardinality({m \in 1 .. n : emitted[m].type = "tool_result"}) = UpTo(Shown, n)
  <2>1. \A n \in 0 .. Len(emitted) :
          {m \in 1 .. n : m \in Shown} = {m \in 1 .. n : emitted[m].type = "tool_result"}
    BY DEF Shown
  <2>2. QED BY <2>1 DEF UpTo
<1>3. Len(emitted) \in 0 .. Len(emitted) /\ UpTo(Shown, Len(emitted)) \in Nat
  BY <1>1, UpToCounts
<1>4. /\ Len(results) - UpTo(Shown, Len(emitted)) \in {0, 1}
      /\ outcome = "completed" => Len(results) - UpTo(Shown, Len(emitted)) = 0
  BY <1>3 DEF Streamed, Told, Unanswered, Inv, Phases
<1>5. \A n \in 1 .. Len(emitted) :
        emitted[n].type = "tool_result" => emitted[n].call = results[UpTo(Shown, n)]
  BY DEF Streamed, Told, Shown
<1>6. \A n \in 1 .. Len(emitted) - 1 :
        \/ emitted[n].call.round < emitted[n + 1].call.round
        \/ /\ emitted[n].call.round = emitted[n + 1].call.round
           /\ emitted[n + 1].type = "delta" => emitted[n].type = "delta"
  BY DEF Streamed, Before
<1>7. /\ source = "open" => phase = "stream"
      /\ mode = "stream" /\ (phase = "tools" \/ outcome = "completed") => source = "ended"
  BY DEF Sources
<1>8. \A n \in 1 .. Len(emitted) : n \in 0 .. Len(emitted)
  OBVIOUS
<1>9. QED BY <1>2, <1>3, <1>4, <1>5, <1>6, <1>7, <1>8 DEF StreamAgrees

LEMMA Starts == Init => Inv
<1> SUFFICES ASSUME Init PROVE Inv
  OBVIOUS
<1>1. TypeOK
  BY LoopAssumption DEF Init, TypeOK
<1>2. QED BY <1>1 DEF Init, Inv, Phases, Recorded, Distinct, Accounted, Abandoned

LEMMA InvAccounts == Inv => EffectsAccounted
<1> SUFFICES ASSUME Inv PROVE EffectsAccounted
  OBVIOUS
<1>1. /\ results \in Seq(Calls) /\ started \in Seq(Calls)
      /\ Len(results) \in Nat /\ Len(started) \in Len(results) .. Len(results) + 1
      /\ \A n \in 1 .. Len(results) : results[n] = started[n]
      /\ DOMAIN started = 1 .. Len(started) /\ DOMAIN results = 1 .. Len(results)
  BY DEF Inv, TypeOK, Recorded
<1>2. IsPrefix(results, started)
  <2>1. SubSeq(results, 1, Len(results)) = SubSeq(started, 1, Len(results))
    BY <1>1
  <2>2. QED BY <1>1, <2>1 DEF IsPrefix
<1>3. outcome = "completed" => started = results
  <2>1. outcome = "completed" => Len(started) = Len(results)
    BY DEF Inv, Phases, Recorded
  <2>2. QED BY <1>1, <2>1, SeqEqual
<1>4. IsInjective(started)
  BY <1>1 DEF Inv, Distinct, IsInjective
<1>5. \A call \in threads : outcome \in {"failed", "cancelled"} /\ call \notin ToSet(results)
  BY <1>1 DEF Inv, Abandoned, ToSet
<1>6. asked <= MaxIterations + 1
  BY LoopAssumption DEF Inv, TypeOK, Accounted
<1>7. \A call \in ToSet(started) : call.round < MaxIterations
  BY <1>1 DEF Inv, Distinct, ToSet
<1>8. outcome = "completed" /\ usage # Unknown => usage = asked
  BY DEF Inv, Accounted
<1>9. QED BY <1>1, <1>2, <1>3, <1>4, <1>5, <1>6, <1>7, <1>8 DEF EffectsAccounted

LEMMA FullStarts == Init => FullInv
<1> SUFFICES ASSUME Init PROVE FullInv
  OBVIOUS
<1>1. \A S : UpTo(S, 0) = 0
  <2>1. \A S : {m \in 1 .. 0 : m \in S} = {}
    OBVIOUS
  <2>2. QED BY <2>1, FS_EmptySet DEF UpTo
<1>2. Transcript
  BY <1>1 DEF Init, Transcript, Answers, Awaited, Answered, Finished, Tools, Unanswered
<1>3. Streamed
  BY <1>1 DEF Init, Streamed, Told, Rounds, Waiting, Shown, Unanswered
<1>4. QED BY <1>2, <1>3, Starts DEF FullInv, Init, Sources

LEMMA FullKeeps == FullInv /\ [Next]_vars => FullInv'
<1> SUFFICES ASSUME FullInv, [Next]_vars PROVE FullInv'
  OBVIOUS
<1>1. mode' = mode
  BY DEF Next, vars, progress, Generate, OpenStream, Delta, Completes, Ends, Returns, ModelFails,
         Prepare, Returned, Record, Emit, ToolFails, ThreadEnds, Cancelled, Over, Accept
<1>2. QED BY <1>1, StepKeeps, TranscriptKeeps, SourcesKeep, StreamedKeeps DEF FullInv

LEMMA FullInvariance == Spec => []FullInv
BY FullStarts, FullKeeps, PTL DEF Spec

\* Every handler the loop starts is accounted for, wherever the invocation is cut off: no
\* call is made twice, no result is lost, and a thread that goes on has none recorded.
THEOREM EffectsAreAccounted == Spec => []EffectsAccounted
<1>1. FullInv => EffectsAccounted
  BY InvAccounts DEF FullInv
<1>2. QED BY <1>1, FullInvariance, PTL

\* A completed run hands on whole exchanges only: each call answered once, in order, by its
\* own recorded result, and nothing left open at the end.
THEOREM ExchangesAreWhole == Spec => []ExchangesWhole
<1>1. FullInv => ExchangesWhole
  BY InvIsWhole DEF FullInv
<1>2. QED BY <1>1, FullInvariance, PTL

\* A stream's reader sees the recorded tool results in their order and the deltas before
\* the tools of their round, and no stream of the model's is left open.
THEOREM StreamsAgree == Spec => []StreamAgrees
<1>1. FullInv => StreamAgrees
  BY InvAgrees DEF FullInv
<1>2. QED BY <1>1, FullInvariance, PTL
=============================================================================
