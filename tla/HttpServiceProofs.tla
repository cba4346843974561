-------------------------- MODULE HttpServiceProofs --------------------------
(***************************************************************************)
(* Proofs about event streams (module StreamBridge) and the HTTP service   *)
(* that sends them (module HttpService), for every size of the queue and   *)
(* every number of events.                                                 *)
(***************************************************************************)
EXTENDS HttpService, SequenceTheorems, TLAPS

Events == {"started", "delta"} \cup Terminals
Items == Events \cup {"sentinel"}

BridgeTypeOK ==
  /\ producer \in {"new", "emit", "finish", "cleanup", "put", "end", "done"}
  /\ sent \in 0 .. Deltas + 1
  /\ run \in {"open", "succeeded", "failed"}
  /\ last \in Terminals
  /\ queue \in Seq(Items)
  /\ reader \in {"get", "yield", "closing", "closed"}
  /\ received \in Seq(Events)

\* Everything the producer has put so far, taken or not.
Said == received \o queue

\* It is the script as far as it was sent, then the terminal item, then the sentinel,
\* of which the reader takes the sentinel away.
InOrder ==
  /\ \A n \in 1 .. Len(Said) :
       Said[n] = IF n <= sent THEN Script[n] ELSE IF n = sent + 1 THEN last ELSE "sentinel"
  /\ producer \notin {"end", "done"} => Len(Said) = sent
  /\ producer = "end" => Len(Said) = sent + 1
  /\ producer = "done" => Len(Said) \in sent .. sent + 2

\* The run succeeds after the whole script, and "completed" says so.
Stored ==
  /\ producer \in {"new", "emit", "finish"} => run = "open"
  /\ producer \in {"new", "emit"} => sent <= Deltas
  /\ producer = "finish" => sent = Deltas + 1
  /\ run = "succeeded" => sent = Deltas + 1
  /\ last = "completed" => run = "succeeded"

\* A stored run that the cleanup has not lost sight of is not called an error: the task
\* is still at its cleanup, or was cancelled there and says no more.
Told ==
  last = "error" /\ run = "succeeded" /\ cause # "lost" =>
    producer \in {"cleanup", "done"} /\ Len(Said) = sent

BridgeInv == BridgeTypeOK /\ InOrder /\ Stored /\ Told

LEMMA ScriptItems == \A n \in 1 .. Deltas + 1 : Script[n] \in {"started", "delta"}
BY SizeAssumption DEF Script

LEMMA PutItem ==
  ASSUME BridgeTypeOK, NEW item \in Items, queue' = Append(queue, item), received' = received
  PROVE  /\ queue' \in Seq(Items) /\ Len(Said) \in Nat /\ Len(Said') = Len(Said) + 1
         /\ Said'[Len(Said) + 1] = item
         /\ \A n \in 1 .. Len(Said) : Said'[n] = Said[n]
BY DEF BridgeTypeOK, Said, Items

\* A step that neither puts nor takes an item.
LEMMA NoItem ==
  ASSUME BridgeInv, BridgeTypeOK', UNCHANGED <<sent, queue, received>>,
         last' = last \/ (producer = "finish" \/ producer = "cleanup"),
         \/ producer' = producer
         \/ producer \notin {"end", "done"} /\ producer' # "end"
         \/ producer' = "done"
  PROVE  InOrder'
<1>1. Said' = Said /\ Len(Said) \in Nat /\ sent \in Nat
  BY DEF Said, BridgeInv, BridgeTypeOK
<1>2. producer \in {"new", "emit", "finish", "cleanup", "put"} => Len(Said) = sent
  BY DEF BridgeInv, InOrder
<1>3. \A n \in 1 .. Len(Said) :
        Said[n] = IF n <= sent THEN Script[n] ELSE IF n = sent + 1 THEN last' ELSE "sentinel"
  BY <1>1, <1>2 DEF BridgeInv, InOrder
<1>4. /\ producer' \notin {"end", "done"} => Len(Said) = sent
      /\ producer' = "end" => Len(Said) = sent + 1
      /\ producer' = "done" => Len(Said) \in sent .. sent + 2
  BY <1>1 DEF BridgeInv, BridgeTypeOK, InOrder
<1>5. QED BY <1>1, <1>3, <1>4 DEF InOrder

LEMMA ProducerKeeps ==
  ASSUME BridgeInv, Begin \/ Finish \/ Fails \/ CleanedUp \/ Cancelled
  PROVE  BridgeInv'
<1>1. UNCHANGED <<sent, queue, received>>
  BY DEF Begin, Finish, Fails, CleanedUp, Cancelled, Produces
<1>2. BridgeTypeOK'
  BY DEF BridgeInv, BridgeTypeOK, Begin, Finish, Fails, CleanedUp, Settles, Cancelled,
         Produces, Abort, At, Terminals
<1>3. Stored'
  BY DEF BridgeInv, BridgeTypeOK, Stored, Begin, Finish, Fails, CleanedUp, Settles,
         Cancelled, Produces, Abort, At, Terminals
<1>4. InOrder'
  <2>1. last' = last \/ (producer = "finish" \/ producer = "cleanup")
    BY DEF Begin, Finish, Fails, CleanedUp, Cancelled, At
  <2>2. \/ producer' = producer
        \/ producer \notin {"end", "done"} /\ producer' # "end"
        \/ producer' = "done"
    BY DEF Begin, Finish, Fails, CleanedUp, Cancelled, At, Abort
  <2>3. QED BY <1>1, <1>2, <2>1, <2>2, NoItem
<1>5. Told'
  <2>1. Said' = Said /\ (producer \notin {"end", "done"} => Len(Said) = sent)
    BY <1>1 DEF Said, BridgeInv, InOrder
  <2>2. CASE Begin \/ Finish \/ Fails \/ Cancelled
    BY <1>1, <2>1, <2>2 DEF BridgeInv, Stored, Told, Begin, Finish, Fails, Cancelled, Abort, At
  <2>3. CASE CleanedUp
    BY <1>1, <2>1, <2>3 DEF BridgeInv, Told, CleanedUp, Settles, At
  <2>4. QED BY <2>2, <2>3
<1>6. QED BY <1>2, <1>3, <1>4, <1>5 DEF BridgeInv

LEMMA EmitKeeps == ASSUME BridgeInv, Emit PROVE BridgeInv'
<1>1. /\ producer = "emit" /\ sent <= Deltas /\ sent \in Nat /\ Len(Said) = sent
      /\ Deltas \in Nat
  BY SizeAssumption DEF Emit, At, BridgeInv, BridgeTypeOK, Stored, InOrder
<1>2. Script[sent + 1] \in Items
  BY <1>1, ScriptItems DEF Items, Events
<1>3. /\ queue' = Append(queue, Script[sent + 1]) /\ sent' = sent + 1
      /\ producer' = IF sent = Deltas THEN "finish" ELSE "emit"
      /\ UNCHANGED <<run, cause, last, reader, received>>
  BY DEF Emit, Produces
<1>4. /\ queue' \in Seq(Items) /\ Len(Said') = sent + 1 /\ Said'[sent + 1] = Script[sent + 1]
      /\ \A n \in 1 .. sent : Said'[n] = Script[n]
  <2>1. /\ queue' \in Seq(Items) /\ Len(Said') = Len(Said) + 1
        /\ Said'[Len(Said) + 1] = Script[sent + 1]
        /\ \A n \in 1 .. Len(Said) : Said'[n] = Said[n]
    BY <1>2, <1>3, PutItem DEF BridgeInv
  <2>2. \A n \in 1 .. sent : Said[n] = Script[n]
    BY <1>1 DEF BridgeInv, InOrder
  <2>3. QED BY <1>1, <2>1, <2>2
<1>5. BridgeTypeOK'
  BY <1>1, <1>3, <1>4 DEF BridgeInv, BridgeTypeOK
<1>6. InOrder'
  BY <1>1, <1>3, <1>4 DEF InOrder
<1>7. Stored' /\ Told'
  BY <1>1, <1>3 DEF BridgeInv, Stored, Told
<1>8. QED BY <1>5, <1>6, <1>7 DEF BridgeInv

LEMMA PutKeeps == ASSUME BridgeInv, Put \/ End PROVE BridgeInv'
<1> DEFINE item == IF producer = "put" THEN last ELSE "sentinel"
<1>1. /\ producer \in {"put", "end"} /\ queue' = Append(queue, item)
      /\ producer' = IF producer = "put" THEN "end" ELSE "done"
      /\ UNCHANGED <<sent, run, cause, last, reader, received>>
  BY DEF Put, End, At, Produces
<1>2. item \in Items
  BY DEF BridgeInv, BridgeTypeOK, Items, Events
<1>3. /\ sent \in Nat /\ Len(Said) = (IF producer = "put" THEN sent ELSE sent + 1)
      /\ \A n \in 1 .. Len(Said) : Said[n] = IF n <= sent THEN Script[n] ELSE last
  BY <1>1 DEF BridgeInv, BridgeTypeOK, InOrder
<1>4. /\ queue' \in Seq(Items) /\ Len(Said') = Len(Said) + 1
      /\ Said'[Len(Said) + 1] = item
      /\ \A n \in 1 .. Len(Said) : Said'[n] = Said[n]
  BY <1>1, <1>2, PutItem DEF BridgeInv
<1>5. BridgeTypeOK'
  BY <1>1, <1>4 DEF BridgeInv, BridgeTypeOK
<1>6. InOrder'
  <2>1. \A n \in 1 .. Len(Said') :
          Said'[n] = IF n <= sent THEN Script[n] ELSE IF n = sent + 1 THEN last ELSE "sentinel"
    BY <1>3, <1>4
  <2>2. QED BY <1>1, <1>3, <1>4, <2>1 DEF InOrder
<1>7. Stored' /\ Told'
  BY <1>1 DEF BridgeInv, Stored, Told
<1>8. QED BY <1>5, <1>6, <1>7 DEF BridgeInv

\* The sentinel is the last item, and the terminal one has been received.
LEMMA SentinelIsLast ==
  ASSUME BridgeInv, queue # <<>>, Head(queue) = "sentinel"
  PROVE  /\ producer = "done" /\ Len(received) = sent + 1 /\ Len(queue) = 1
         /\ received[sent + 1] = last
<1> DEFINE n == Len(received) + 1
<1>1. /\ queue \in Seq(Items) /\ received \in Seq(Events)
      /\ Len(queue) \in Nat \ {0} /\ Len(received) \in Nat /\ sent \in Nat
      /\ sent \in 0 .. Deltas + 1 /\ Deltas \in Nat
  BY SizeAssumption DEF BridgeInv, BridgeTypeOK
<1>2. n \in 1 .. Len(Said) /\ Said[n] = "sentinel" /\ Len(Said) = Len(received) + Len(queue)
  BY <1>1 DEF Said
<1>3. n > sent + 1
  <2>1. Said[n] = IF n <= sent THEN Script[n] ELSE IF n = sent + 1 THEN last ELSE "sentinel"
    BY <1>2 DEF BridgeInv, InOrder
  <2>2. last # "sentinel"
    BY DEF BridgeInv, BridgeTypeOK, Terminals
  <2>3. n <= sent => Script[n] # "sentinel"
    BY <1>1, ScriptItems
  <2>4. QED BY <1>1, <1>2, <2>1, <2>2, <2>3
<1>4. producer = "done" /\ Len(Said) = sent + 2
  <2>1. n \in Nat /\ Len(Said) \in Nat /\ Len(Said) >= sent + 2
    BY <1>1, <1>2, <1>3
  <2>2. /\ producer \notin {"end", "done"} => Len(Said) = sent
        /\ producer = "end" => Len(Said) = sent + 1
        /\ producer = "done" => Len(Said) \in sent .. sent + 2
    BY DEF BridgeInv, InOrder
  <2>3. Len(Said) # sent /\ Len(Said) # sent + 1
    BY <1>1, <2>1
  <2>4. producer = "done"
    BY <2>2, <2>3
  <2>5. Len(Said) \in sent .. sent + 2
    BY <2>2, <2>4
  <2>6. QED BY <1>1, <2>1, <2>4, <2>5
<1>5. Len(queue) = 1 /\ Len(received) = sent + 1
  <2>1. /\ Len(received) \in Nat /\ Len(queue) \in Nat /\ Len(queue) >= 1 /\ sent \in Nat
        /\ Len(received) + 1 > sent + 1 /\ sent + 2 = Len(received) + Len(queue)
    BY <1>1, <1>2, <1>3, <1>4
  <2>2. QED BY <2>1, SMTT(30)
<1>6. received[sent + 1] = last
  <2>1. sent + 1 \in 1 .. Len(Said) /\ Said[sent + 1] = received[sent + 1]
    BY <1>1, <1>4, <1>5 DEF Said
  <2>2. Said[sent + 1] = last
    BY <1>1, <2>1 DEF BridgeInv, InOrder
  <2>3. QED BY <2>1, <2>2
<1>7. QED BY <1>4, <1>5, <1>6

LEMMA GetKeeps == ASSUME BridgeInv, Get PROVE BridgeInv'
<1>1. /\ queue # <<>> /\ queue' = Tail(queue) /\ UNCHANGED <<producer, sent, run, cause, last>>
      /\ received' = IF Head(queue) = "sentinel" THEN received
                     ELSE Append(received, Head(queue))
      /\ reader' \in {"closed", "closing", "yield"}
  BY DEF Get, Consumes, Close
<1>2. /\ queue \in Seq(Items) /\ received \in Seq(Events) /\ Head(queue) \in Items
      /\ Len(queue) \in Nat \ {0} /\ Len(received) \in Nat /\ Tail(queue) \in Seq(Items)
      /\ sent \in Nat
  BY <1>1 DEF BridgeInv, BridgeTypeOK
<1>3. received' \in Seq(Events)
  BY <1>1, <1>2 DEF Items
<1>4. BridgeTypeOK'
  BY <1>1, <1>2, <1>3 DEF BridgeInv, BridgeTypeOK
<1>5. Stored'
  BY <1>1 DEF BridgeInv, Stored
<1>6. CASE Head(queue) # "sentinel"
  <2>1. /\ Len(Said') = Len(Said)
        /\ \A n \in 1 .. Len(Said) : Said'[n] = Said[n]
    BY <1>1, <1>2, <1>6 DEF Said
  <2>2. InOrder' /\ Told'
    BY <1>1, <2>1 DEF BridgeInv, InOrder, Told
  <2>3. QED BY <1>4, <1>5, <2>2 DEF BridgeInv
<1>7. CASE Head(queue) = "sentinel"
  <2>1. /\ producer = "done" /\ Len(received) = sent + 1 /\ Len(queue) = 1
        /\ Len(Said) = sent + 2
    BY <1>1, <1>2, <1>7, SentinelIsLast DEF Said
  <2>2. /\ Len(Said') = sent + 1
        /\ \A m \in 1 .. Len(Said') : Said'[m] = Said[m]
    BY <1>1, <1>2, <1>7, <2>1 DEF Said
  <2>3. InOrder'
    BY <1>1, <1>2, <2>1, <2>2 DEF BridgeInv, InOrder
  <2>4. Told'
    BY <1>1, <1>2, <2>1 DEF BridgeInv, Told
  <2>5. QED BY <1>4, <1>5, <2>3, <2>4 DEF BridgeInv
<1>8. QED BY <1>6, <1>7

LEMMA ReaderKeeps ==
  ASSUME BridgeInv, \/ Resume \/ Leave \/ Closed \/ Shutdown
                    \/ /\ reader' = reader
                       /\ UNCHANGED <<producer, sent, run, cause, last, queue, received>>
  PROVE  BridgeInv'
<1>1. /\ UNCHANGED <<producer, sent, run, cause, last, queue, received>>
      /\ reader' \in {"get", "yield", "closing", "closed"}
  BY DEF Resume, Leave, Closed, Shutdown, Close, Consumes, BridgeInv, BridgeTypeOK
<1>2. BridgeTypeOK' /\ Stored' /\ Told'
  BY <1>1 DEF BridgeInv, BridgeTypeOK, Stored, Told, Said
<1>3. QED BY <1>1, <1>2, NoItem DEF BridgeInv

LEMMA BridgeStarts == Init => BridgeInv
<1> SUFFICES ASSUME Init PROVE BridgeInv
  OBVIOUS
<1>1. BridgeTypeOK /\ Stored /\ Told
  BY SizeAssumption DEF Init, BridgeTypeOK, Stored, Told, Terminals
<1>2. Said = <<>> /\ Len(Said) = 0
  BY DEF Init, Said
<1>3. QED BY <1>1, <1>2 DEF Init, InOrder, BridgeInv

LEMMA BridgeStep == ASSUME BridgeInv, [Next]_vars PROVE BridgeInv'
<1>1. CASE UNCHANGED vars
  BY <1>1, ReaderKeeps DEF vars
<1>2. CASE Next
  BY <1>2, ProducerKeeps, EmitKeeps, PutKeeps, GetKeeps, ReaderKeeps DEF Next
<1>3. QED BY <1>1, <1>2

\* What has been received, of what was said.
LEMMA ReceivedInOrder ==
  ASSUME BridgeInv
  PROVE  /\ Len(received) \in 0 .. sent + 1 /\ sent \in 0 .. Deltas + 1
         /\ \A n \in 1 .. Len(received) :
              received[n] = IF n <= sent THEN Script[n] ELSE last
<1>1. /\ received \in Seq(Events) /\ queue \in Seq(Items) /\ sent \in 0 .. Deltas + 1
      /\ Deltas \in Nat
  BY SizeAssumption DEF BridgeInv, BridgeTypeOK
<1>2. /\ Len(received) \in Nat /\ Len(Said) >= Len(received) /\ Len(Said) \in Nat
      /\ \A n \in 1 .. Len(received) : Said[n] = received[n] /\ received[n] \in Events
  BY <1>1 DEF Said, Items
<1>3. "sentinel" \notin Events
  BY DEF Events, Terminals
<1>4. \A n \in 1 .. Len(received) : n <= sent + 1
  BY <1>1, <1>2, <1>3 DEF BridgeInv, InOrder
<1>5. Len(received) <= sent + 1
  BY <1>1, <1>2, <1>4
<1>6. QED BY <1>1, <1>2, <1>4, <1>5 DEF BridgeInv, InOrder

LEMMA InvWhole == BridgeInv => WholeOrPartial
<1> SUFFICES ASSUME BridgeInv PROVE WholeOrPartial
  OBVIOUS
<1> DEFINE n == Len(received)
           ended == n > 0 /\ received[n] \in Terminals
           events == IF ended THEN n - 1 ELSE n
<1>1. /\ n \in 0 .. sent + 1 /\ sent \in 0 .. Deltas + 1 /\ Deltas \in Nat
      /\ \A m \in 1 .. n : received[m] = IF m <= sent THEN Script[m] ELSE last
  BY SizeAssumption, ReceivedInOrder
<1>2. \A m \in 1 .. Deltas + 1 : Script[m] \notin Terminals
  BY ScriptItems DEF Terminals
<1>3. CASE ended
  <2>1. n = sent + 1 /\ received[n] = last
    BY <1>1, <1>2, <1>3
  <2>2. received[n] = "completed" => sent = Deltas + 1 /\ run = "succeeded"
    BY <2>1 DEF BridgeInv, Stored
  <2>3. QED BY <1>1, <1>3, <2>1, <2>2 DEF WholeOrPartial
<1>4. CASE ~ ended
  <2>1. n # sent + 1
    BY <1>1, <1>4 DEF BridgeInv, BridgeTypeOK
  <2>2. QED BY <1>1, <1>4, <2>1 DEF WholeOrPartial
<1>5. QED BY <1>3, <1>4

\* Whatever fails, is cancelled or closed, and however small the queue, the reader of a
\* stream gets its events in order and from the first, with at most one terminal event,
\* and "completed" only after all of them and a stored run.
THEOREM StreamIsWholeOrPartial == Spec => []WholeOrPartial
<1>1. BridgeInv /\ [Next]_vars => BridgeInv'
  BY BridgeStep
<1>2. QED BY <1>1, BridgeStarts, InvWhole, PTL DEF Spec
-----------------------------------------------------------------------------
(* The service                                                              *)

ServiceTypeOK ==
  /\ request \in Requests
  /\ http \in {"request", "working", "answered", "streaming", "dropped", "ended"}
  /\ body \in Seq(Events)

\* What is received up to now is, but for a final error, in the response.
Failed == received # <<>> /\ Last(received) = "error"
Relayed(length) == Len(body) = length /\ \A n \in 1 .. length : body[n] = received[n]

Admitted ==
  http \notin {"request", "answered"} =>
    /\ request.size = "small" /\ request.valid
    /\ request.route = "stream" => request.known
Untouched ==
  http \in {"request", "working"} => received = <<>> /\ body = <<>> /\ reader = "get"
Streaming ==
  http = "streaming" =>
    /\ Relayed(IF Failed THEN Len(received) - 1 ELSE Len(received))
    /\ Failed => reader \in {"closing", "closed"}
    /\ reader \in {"closing", "closed"} => received # <<>> /\ Last(received) \in Terminals
Ended ==
  http = "ended" =>
    /\ Relayed(Len(received))
    /\ received # <<>> /\ Last(received) \in Terminals
Honest ==
  http = "answered" =>
    /\ retry => status \in {409, 502, 503, 504}
    /\ status = 504 => retry

ServiceInv == /\ BridgeInv /\ ServiceTypeOK
              /\ Admitted /\ Untouched /\ Streaming /\ Ended /\ Honest

\* _status_code() and the retryable errors agree.
LEMMA StatusesAgree ==
  ASSUME NEW error \in Errors, NEW retryable \in Retryable(error)
  PROVE  /\ retryable => StatusCode(error) \in {409, 502, 503, 504}
         /\ StatusCode(error) = 504 => retryable
<1>1. CASE error = "provider_failure"
  BY <1>1 DEF StatusCode
<1>2. CASE error \in {"tool_timeout", "invocation_timeout", "run_in_progress", "thread_busy",
                      "runtime_closing"}
  BY <1>2 DEF StatusCode, Retryable
<1>3. CASE error \notin {"provider_failure", "tool_timeout", "invocation_timeout",
                         "run_in_progress", "thread_busy", "runtime_closing"}
  <2>1. ~ retryable
    BY <1>3 DEF Retryable
  <2>2. StatusCode(error) # 504
    BY <1>3 DEF StatusCode, Errors
  <2>3. QED BY <2>1, <2>2
<1>4. QED BY <1>1, <1>2, <1>3

LEMMA ErrorAnswers ==
  ASSUME ServiceInv, NEW error \in Errors, AnswersError(error), UNCHANGED vars
  PROVE  ServiceTypeOK' /\ http' = "answered" /\ Honest'
<1>1. PICK retryable \in Retryable(error) : Answers(StatusCode(error), retryable)
  BY DEF AnswersError
<1>2. QED BY <1>1, StatusesAgree DEF Answers, Honest, ServiceInv, ServiceTypeOK

\* A step of the service keeps what the stream relies on.
LEMMA BridgeUnder == ASSUME BridgeInv, [ServiceNext]_<<vars, service>> PROVE BridgeInv'
<1>1. CASE UNCHANGED vars
  BY <1>1, BridgeStep
<1>2. CASE Sends \/ Taken \/ Collected
  BY <1>2, BridgeStep DEF Sends, Taken, Collected, Next
<1>3. CASE Disconnects
  <2>1. CASE reader = "get"
    BY <1>3, <2>1, BridgeStep DEF Disconnects, Next
  <2>2. CASE reader = "closing"
    BY <1>3, <2>2, ReaderKeeps DEF Disconnects
  <2>3. CASE reader \notin {"get", "closing"}
    BY <1>1, <1>3, <2>3 DEF Disconnects
  <2>4. QED BY <2>1, <2>2, <2>3
<1>4. CASE \/ Runtime(Begin) \/ Runtime(Emit) \/ Runtime(Finish) \/ Runtime(Fails)
           \/ Runtime(CleanedUp) \/ Runtime(Put) \/ Runtime(End) \/ Runtime(Cancelled)
           \/ Runtime(Closed) \/ Runtime(Shutdown)
  BY <1>4, BridgeStep DEF Runtime, Next
<1>5. QED BY <1>1, <1>2, <1>3, <1>4 DEF ServiceNext, Receive, Works, StreamEnds

LEMMA ServiceStarts == ServiceInit => ServiceInv
<1> SUFFICES ASSUME ServiceInit PROVE ServiceInv
  OBVIOUS
<1>1. BridgeInv
  BY BridgeStarts DEF ServiceInit
<1>2. QED BY <1>1 DEF ServiceInit, Init, ServiceInv, ServiceTypeOK, Admitted, Untouched,
                      Streaming, Ended, Honest

LEMMA ReceiveKeeps == ASSUME ServiceInv, Receive PROVE ServiceInv'
<1>1. BridgeInv' /\ UNCHANGED vars /\ http = "request"
  BY BridgeUnder DEF ServiceInv, ServiceNext, Receive
<1>2. /\ received = <<>> /\ body = <<>> /\ reader = "get"
  BY <1>1 DEF ServiceInv, Untouched
<1>3. \A code \in {400, 413, 200, 503, 422} :
        Answers(code, FALSE) => ServiceTypeOK' /\ http' = "answered" /\ Honest'
  BY DEF Answers, ServiceInv, ServiceTypeOK, Honest
<1>4. Refusal \in {0, 400, 413}
  BY DEF Refusal
<1>5. Refusal = 0 => request.size = "small"
  BY DEF Refusal, ServiceInv, ServiceTypeOK, Requests
<1>6. \/ ServiceTypeOK' /\ http' = "answered" /\ Honest'
      \/ /\ Refusal = 0 /\ request.valid /\ request' = request /\ body' = body
         /\ \/ http' = "streaming" /\ request.known
            \/ http' = "working" /\ request.route # "stream"
  <2>1. CASE Refusal # 0 /\ Answers(Refusal, FALSE)
    <3>1. /\ http' = "answered" /\ status' \in {400, 413} /\ retry' = FALSE
          /\ UNCHANGED <<request, body>>
      BY <1>4, <2>1 DEF Answers
    <3>2. ServiceTypeOK' /\ Honest'
      BY <3>1 DEF ServiceInv, ServiceTypeOK, Honest
    <3>3. QED BY <3>1, <3>2
  <2>2. CASE \E ready \in BOOLEAN : Answers(IF ready THEN 200 ELSE 503, FALSE)
    <3>1. /\ http' = "answered" /\ status' \in {200, 503} /\ retry' = FALSE
          /\ UNCHANGED <<request, body>>
      BY <2>2 DEF Answers
    <3>2. ServiceTypeOK' /\ Honest'
      BY <3>1 DEF ServiceInv, ServiceTypeOK, Honest
    <3>3. QED BY <3>1, <3>2
  <2>3. CASE Answers(422, FALSE)
    BY <1>3, <2>3
  <2>4. CASE AnswersError("idempotency_conflict") \/ AnswersError("unknown_agent")
    BY <1>1, <2>4, ErrorAnswers DEF Errors
  <2>5. CASE /\ Refusal = 0 /\ request.valid /\ request.known
             /\ http' = "streaming" /\ UNCHANGED <<request, retry, body>>
    BY <2>5
  <2>6. CASE /\ Refusal = 0 /\ request.valid
             /\ request.route = "invoke" \/ (request.route = "feedback" /\ request.keysMatch)
             /\ http' = "working" /\ UNCHANGED <<request, status, retry, body>>
    BY <2>6
  <2>7. QED BY <2>1, <2>2, <2>3, <2>4, <2>5, <2>6 DEF Receive
<1>7. CASE ServiceTypeOK' /\ http' = "answered" /\ Honest'
  BY <1>1, <1>7 DEF ServiceInv, Admitted, Untouched, Streaming, Ended
<1>8. CASE /\ Refusal = 0 /\ request.valid /\ request' = request /\ body' = body
           /\ \/ http' = "streaming" /\ request.known
              \/ http' = "working" /\ request.route # "stream"
  <2>1. Admitted'
    BY <1>5, <1>8 DEF Admitted
  <2>2. UNCHANGED <<received, reader>>
    BY <1>1 DEF vars
  <2>3. Streaming'
    BY <1>2, <1>8, <2>2 DEF Streaming, Relayed, Failed
  <2>4. ServiceTypeOK' /\ Untouched' /\ Ended' /\ Honest'
    BY <1>2, <1>8, <2>2 DEF ServiceInv, ServiceTypeOK, Untouched, Ended, Honest
  <2>5. QED BY <1>1, <2>1, <2>3, <2>4 DEF ServiceInv
<1>9. QED BY <1>6, <1>7, <1>8

LEMMA WorksKeeps == ASSUME ServiceInv, Works PROVE ServiceInv'
<1>1. BridgeInv' /\ UNCHANGED vars
  BY BridgeUnder DEF ServiceInv, ServiceNext, Works
<1>2. ServiceTypeOK' /\ http' = "answered" /\ Honest'
  <2>1. CASE Answers(IF request.route = "feedback" THEN 201 ELSE 200, FALSE)
    BY <2>1 DEF Answers, ServiceInv, ServiceTypeOK, Honest
  <2>2. CASE \E error \in Errors : AnswersError(error)
    BY <1>1, <2>2, ErrorAnswers
  <2>3. QED BY <2>1, <2>2 DEF Works
<1>3. QED BY <1>1, <1>2 DEF ServiceInv, Admitted, Untouched, Streaming, Ended

LEMMA SendsKeeps == ASSUME ServiceInv, Sends PROVE ServiceInv'
<1> DEFINE item == Head(queue)
           n == Len(received)
<1>1. /\ BridgeInv' /\ http = "streaming" /\ queue # <<>> /\ reader = "get"
      /\ UNCHANGED <<request, http, status, retry>>
      /\ body' = IF item \in {"error", "sentinel"} THEN body ELSE Append(body, item)
      /\ received' = IF item = "sentinel" THEN received ELSE Append(received, item)
      /\ reader' = "yield" \/ (item \in {"error", "sentinel"} /\ reader' \in {"closing", "closed"})
  BY BridgeUnder DEF ServiceInv, ServiceNext, Sends, Get, Close
<1>2. /\ received \in Seq(Events) /\ body \in Seq(Events) /\ item \in Items /\ n \in Nat
      /\ ~ Failed /\ Relayed(n)
  BY <1>1 DEF ServiceInv, BridgeInv, BridgeTypeOK, ServiceTypeOK, Streaming
<1>3. ServiceTypeOK'
  BY <1>1, <1>2 DEF ServiceInv, ServiceTypeOK, Items
<1>4. Streaming'
  <2>1. CASE item = "sentinel"
    <3>1. received # <<>> /\ Last(received) = last /\ last \in Terminals
      BY <1>1, <1>2, <2>1, SentinelIsLast DEF Last, ServiceInv, BridgeInv, BridgeTypeOK
    <3>2. QED BY <1>1, <1>2, <2>1, <3>1 DEF Streaming, Relayed, Failed
  <2>2. CASE item # "sentinel"
    <3>1. /\ Len(received') = n + 1 /\ received' # <<>> /\ Last(received') = item
          /\ \A m \in 1 .. n : received'[m] = received[m]
          /\ received'[n + 1] = item
      BY <1>1, <1>2, <2>2 DEF Last, Items
    <3>2. CASE item = "error"
      <4>1. Failed' /\ Last(received') \in Terminals
        BY <3>1, <3>2 DEF Failed, Terminals
      <4>2. Relayed(Len(received) - 1)'
        BY <1>1, <1>2, <3>1, <3>2 DEF Relayed
      <4>3. reader' \in {"yield", "closing", "closed"} /\ reader' # "yield"
        BY <1>1, <3>2 DEF Get, Sends, Close
      <4>4. QED BY <3>1, <4>1, <4>2, <4>3 DEF Streaming
    <3>3. CASE item # "error"
      <4>1. /\ Len(body') = n + 1 /\ body'[n + 1] = item
            /\ \A m \in 1 .. n : body'[m] = body[m]
        BY <1>1, <1>2, <2>2, <3>3 DEF Relayed, Items
      <4>2. ~ Failed' /\ Relayed(Len(received))'
        BY <1>2, <3>1, <3>3, <4>1 DEF Failed, Relayed
      <4>3. reader' = "yield"
        BY <1>1, <2>2, <3>3
      <4>4. QED BY <3>1, <4>2, <4>3 DEF Streaming
    <3>4. QED BY <3>2, <3>3
  <2>3. QED BY <2>1, <2>2
<1>5. QED BY <1>1, <1>3, <1>4 DEF ServiceInv, Admitted, Untouched, Ended, Honest

\* A step that takes no event and changes nothing of the response.
LEMMA AsideKeeps ==
  ASSUME ServiceInv, BridgeInv', Open, UNCHANGED service, received' = received,
         reader' = reader \/ (reader = "yield" /\ reader' = "get")
           \/ (reader = "closing" /\ reader' = "closed")
           \/ http = "dropped"
  PROVE  ServiceInv'
<1>1. http \in {"streaming", "dropped"} /\ UNCHANGED <<request, http, status, retry, body>>
  BY DEF Open, service
<1>2. ServiceTypeOK' /\ Admitted' /\ Untouched' /\ Ended' /\ Honest'
  BY <1>1 DEF ServiceInv, ServiceTypeOK, Admitted, Untouched, Ended, Honest
<1>3. Streaming'
  BY <1>1 DEF ServiceInv, Streaming, Relayed, Failed
<1>4. QED BY <1>2, <1>3 DEF ServiceInv

LEMMA StreamEndsKeeps == ASSUME ServiceInv, StreamEnds PROVE ServiceInv'
<1>1. /\ BridgeInv' /\ http = "streaming" /\ reader = "closed" /\ http' = "ended"
      /\ body' = (IF Failed THEN Append(body, "error") ELSE body)
      /\ UNCHANGED <<request, status, retry, received>>
  BY BridgeUnder DEF ServiceInv, ServiceNext, StreamEnds, Failed, vars
<1>2. /\ received \in Seq(Events) /\ body \in Seq(Events) /\ Len(received) \in Nat
      /\ received # <<>> /\ Last(received) \in Terminals
      /\ Relayed(IF Failed THEN Len(received) - 1 ELSE Len(received))
  BY <1>1 DEF ServiceInv, BridgeInv, BridgeTypeOK, ServiceTypeOK, Streaming
<1>3. body' \in Seq(Events) /\ Relayed(Len(received))'
  <2>1. CASE ~ Failed
    BY <1>1, <1>2, <2>1 DEF Relayed
  <2>2. CASE Failed
    <3>1. /\ Len(received) >= 1 /\ received[Len(received)] = "error"
          /\ Len(body) = Len(received) - 1
          /\ \A n \in 1 .. Len(received) - 1 : body[n] = received[n]
      BY <1>2, <2>2 DEF Failed, Relayed, Last
    <3>2. /\ body' = Append(body, "error") /\ body' \in Seq(Events)
          /\ Len(body') = Len(received) /\ body'[Len(received)] = "error"
          /\ \A n \in 1 .. Len(received) - 1 : body'[n] = body[n]
      BY <1>1, <1>2, <2>2, <3>1 DEF Events, Terminals
    <3>3. QED BY <1>1, <1>2, <3>1, <3>2 DEF Relayed
  <2>3. QED BY <2>1, <2>2
<1>4. QED BY <1>1, <1>2, <1>3 DEF ServiceInv, ServiceTypeOK, Admitted, Untouched, Streaming,
                                  Ended, Honest

LEMMA DisconnectsKeeps == ASSUME ServiceInv, Disconnects PROVE ServiceInv'
<1>1. BridgeInv' /\ http = "streaming" /\ http' = "dropped" /\ UNCHANGED <<request, body>>
  BY BridgeUnder DEF ServiceInv, ServiceNext, Disconnects
<1>2. QED BY <1>1 DEF ServiceInv, ServiceTypeOK, Admitted, Untouched, Streaming, Ended, Honest

LEMMA ServiceStep ==
  ASSUME ServiceInv, [ServiceNext]_<<vars, service>>
  PROVE  ServiceInv'
<1>1. BridgeInv'
  BY BridgeUnder DEF ServiceInv
<1>2. CASE UNCHANGED <<vars, service>>
  BY <1>1, <1>2 DEF vars, service, ServiceInv, ServiceTypeOK, Admitted, Untouched, Streaming,
                    Ended, Honest, Relayed, Failed
<1>3. CASE Receive \/ Works \/ Sends \/ StreamEnds \/ Disconnects
  BY <1>3, ReceiveKeeps, WorksKeeps, SendsKeeps, StreamEndsKeeps, DisconnectsKeeps
<1>4. CASE Taken \/ Collected
  BY <1>1, <1>4, AsideKeeps DEF Taken, Collected, Resume, Leave, Open
<1>5. CASE \/ Runtime(Begin) \/ Runtime(Emit) \/ Runtime(Finish) \/ Runtime(Fails)
           \/ Runtime(CleanedUp) \/ Runtime(Put) \/ Runtime(End) \/ Runtime(Cancelled)
           \/ Runtime(Closed) \/ Runtime(Shutdown)
  BY <1>1, <1>5, AsideKeeps DEF Runtime, Begin, Emit, Finish, Fails, CleanedUp, Put, End,
                                Cancelled, Closed, Shutdown, Produces
<1>6. QED BY <1>2, <1>3, <1>4, <1>5 DEF ServiceNext

LEMMA InvAnswers == ServiceInv => ServiceAnswers
<1> SUFFICES ASSUME ServiceInv PROVE ServiceAnswers
  OBVIOUS
<1>1. ASSUME http = "ended"
      PROVE  /\ body # <<>> /\ Last(body) \in Terminals
             /\ \A n \in 1 .. Len(body) - 1 : body[n] \notin Terminals
             /\ Last(body) = "completed" => run = "succeeded"
             /\ Last(body) = "error" => run # "succeeded" \/ cause = "lost"
  <2>1. /\ body \in Seq(Events) /\ received \in Seq(Events)
        /\ Relayed(Len(received)) /\ received # <<>> /\ Last(received) \in Terminals
    BY <1>1 DEF ServiceInv, ServiceTypeOK, Ended, BridgeInv, BridgeTypeOK
  <2>2. /\ Len(body) = Len(received) /\ Len(received) \in Nat \ {0}
        /\ \A n \in 1 .. Len(received) : body[n] = received[n]
    BY <2>1 DEF Relayed
  <2>3. body # <<>> /\ Last(body) = Last(received) /\ Last(received) = received[Len(received)]
    BY <2>1, <2>2 DEF Last
  <2>4. /\ Len(received) - 1 <= Deltas + 1
        /\ \A m \in 1 .. Len(received) - 1 : received[m] = Script[m]
        /\ received[Len(received)] = "completed" => run = "succeeded"
    BY <2>1, <2>2, <2>3, InvWhole DEF ServiceInv, WholeOrPartial
  <2>5. \A m \in 1 .. Len(received) - 1 : received[m] \notin Terminals
    BY <2>2, <2>4, ScriptItems, SizeAssumption DEF Terminals
  <2>6. ASSUME Last(received) = "error" PROVE run # "succeeded" \/ cause = "lost"
    <3>1. BridgeInv
      BY DEF ServiceInv
    <3>2. /\ Len(received) \in 0 .. sent + 1 /\ sent \in 0 .. Deltas + 1 /\ Deltas \in Nat
          /\ received[Len(received)] = IF Len(received) <= sent THEN Script[Len(received)]
                                       ELSE last
      BY <2>2, <3>1, ReceivedInOrder, SizeAssumption
    <3>3. last = "error" /\ Len(received) = sent + 1
      <4>1. received[Len(received)] = "error"
        BY <2>3, <2>6
      <4>2. CASE Len(received) <= sent
        <5>1. Len(received) \in 1 .. Deltas + 1
          BY <2>2, <3>2, <4>2
        <5>2. QED BY <3>2, <4>1, <4>2, <5>1, ScriptItems
      <4>3. QED BY <3>2, <4>1, <4>2
    <3>4. Len(Said) >= Len(received)
      BY <3>1 DEF Said, BridgeInv, BridgeTypeOK
    <3>5. Len(Said) # sent
      BY <3>2, <3>3, <3>4
    <3>6. QED BY <3>1, <3>3, <3>5 DEF BridgeInv, Told
  <2>7. QED BY <2>1, <2>2, <2>3, <2>4, <2>5, <2>6
<1>2. QED BY <1>1 DEF ServiceInv, Admitted, Honest, ServiceAnswers

\* Nothing inadmissible reaches the runtime, a stream that ends has sent one terminal
\* event, its last, that agrees with the store unless the cleanup did not reach it, and
\* "retryable" agrees with the status: for every request, every
\* interleaving of the response with the runtime, and every disconnect.
THEOREM ServiceAnswersAsPromised == ServiceSpec => []ServiceAnswers
<1>1. ServiceInv /\ [ServiceNext]_<<vars, service>> => ServiceInv'
  BY ServiceStep
<1>2. QED BY <1>1, ServiceStarts, InvAnswers, PTL DEF ServiceSpec

\* The response, which reads only as fast as its client, does not change what its stream
\* promises: it is whole, or an initial part with at most one terminal event.
THEOREM ServedStreamIsWholeOrPartial == ServiceSpec => []WholeOrPartial
<1>1. ServiceInv /\ [ServiceNext]_<<vars, service>> => ServiceInv'
  BY ServiceStep
<1>2. ServiceInv => WholeOrPartial
  BY InvWhole DEF ServiceInv
<1>3. QED BY <1>1, <1>2, ServiceStarts, PTL DEF ServiceSpec
=============================================================================
