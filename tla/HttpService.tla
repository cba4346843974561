---------------------------- MODULE HttpService ----------------------------
(***************************************************************************)
(* One request to the HTTP service (src/agent_runtime/service/app.py), and *)
(* the event stream of a streaming one on top of StreamBridge: the reader  *)
(* of the generator is the response that sends its events.                 *)
(*                                                                         *)
(* A client may stall, or disconnect: the response's task is cancelled     *)
(* where it waits.  Waiting for an event, it closes the generator; while   *)
(* it sends one, the generator is left suspended, and closed when it is    *)
(* collected.                                                              *)
(***************************************************************************)
EXTENDS StreamBridge, SequencesExt

VARIABLES
    request,  \* what the client sent
    http,     \* where the request stands
    status,   \* of the response, 0 before it
    retry,    \* its envelope says retryable
    body      \* the events sent
service == <<request, http, status, retry, body>>

\* errors.py
Errors == {"unknown_agent", "thread_not_found", "tool_not_found", "idempotency_conflict",
  "run_in_progress", "idempotent_run_unavailable", "thread_busy", "guardrail_blocked",
  "invalid_tool_arguments", "invocation_timeout", "tool_timeout", "provider_failure",
  "tool_execution_failed", "agent_invocation_failed", "runtime_closing",
  "context_selection_failed", "context_budget_exceeded", "max_tool_iterations_exceeded",
  "invalid_run_transition", "run_not_found", "invalid_feedback_target",
  "run_ownership_lost", "internal_error"}
\* A provider's failure says itself whether a retry may help.
Retryable(error) ==
  CASE error = "provider_failure" -> BOOLEAN
    [] error \in {"tool_timeout", "invocation_timeout", "run_in_progress", "thread_busy",
                  "runtime_closing"} -> {TRUE}
    [] OTHER -> {FALSE}
\* _status_code(), and internal_error_handler()
StatusCode(error) ==
  CASE error = "runtime_closing" -> 503
    [] error \in {"unknown_agent", "thread_not_found", "tool_not_found"} -> 404
    [] error \in {"idempotency_conflict", "run_in_progress", "idempotent_run_unavailable",
                  "thread_busy"} -> 409
    [] error \in {"guardrail_blocked", "invalid_tool_arguments"} -> 422
    [] error \in {"invocation_timeout", "tool_timeout"} -> 504
    [] error \in {"provider_failure", "tool_execution_failed", "agent_invocation_failed"} -> 502
    [] error = "internal_error" -> 500
    [] OTHER -> 400

\* declared: the Content-Length header, and size: of the body, against the limit.
Requests == [route : {"invoke", "stream", "feedback", "ready"},
             declared : {"none", "malformed", "small", "large"}, size : {"small", "large"},
             valid : BOOLEAN, known : BOOLEAN, keysMatch : BOOLEAN]
ServiceInit == /\ Init /\ request \in Requests /\ http = "request"
               /\ status = 0 /\ retry = FALSE /\ body = <<>>

Answers(code, retryable) == /\ http' = "answered" /\ status' = code /\ retry' = retryable
                            /\ UNCHANGED <<request, body>>
AnswersError(error) == \E retryable \in Retryable(error) : Answers(StatusCode(error), retryable)

\* Fault: a body is believed to be as long as its header says.
RefusalTrusting ==
  CASE request.declared = "malformed" -> 400
    [] request.declared = "large" -> 413
    [] request.declared = "none" /\ request.size = "large" -> 413
    [] OTHER -> 0
\* BodyLimitMiddleware: the status of a refusal, or 0.
Refusal ==
  CASE request.declared = "malformed" -> 400
    [] request.declared = "large" \/ request.size = "large" -> 413
    [] OTHER -> 0

\* The request is admitted and handled up to the runtime or the feedback store; a
\* stream's agent is looked up before its headers are sent.
Receive ==
  /\ http = "request" /\ UNCHANGED vars
  /\ \/ Refusal # 0 /\ Answers(Refusal, FALSE)
     \/ Refusal = 0 /\ request.route = "ready"
          /\ \E ready \in BOOLEAN : Answers(IF ready THEN 200 ELSE 503, FALSE)
     \/ Refusal = 0 /\ request.route # "ready" /\ ~ request.valid /\ Answers(422, FALSE)
     \/ /\ Refusal = 0 /\ request.valid
        /\ \/ /\ request.route = "feedback" /\ ~ request.keysMatch
              /\ AnswersError("idempotency_conflict")
           \/ request.route = "stream" /\ ~ request.known /\ AnswersError("unknown_agent")
           \/ /\ request.route = "stream" /\ request.known
              /\ http' = "streaming" /\ status' = 200 /\ UNCHANGED <<request, retry, body>>
           \/ /\ request.route = "invoke" \/ (request.route = "feedback" /\ request.keysMatch)
              /\ http' = "working" /\ UNCHANGED <<request, status, retry, body>>

\* runtime.invoke() or feedback.record() returns or raises.
Works ==
  /\ http = "working" /\ UNCHANGED vars
  /\ \/ Answers(IF request.route = "feedback" THEN 201 ELSE 200, FALSE)
     \/ \E error \in Errors : AnswersError(error)
-----------------------------------------------------------------------------
(* events()                                                                 *)

Open == http \in {"streaming", "dropped"}
\* A step of the runtime, which the response does not see.
Runtime(step) == Open /\ step /\ UNCHANGED service

\* An event is taken and sent; what ends the stream is seen when the generator closed.
Sends ==
  /\ http = "streaming" /\ Get
  /\ body' = IF Head(queue) \in {"error", "sentinel"} THEN body ELSE Append(body, Head(queue))
  /\ UNCHANGED <<request, http, status, retry>>
\* The client has taken it.
Taken == http = "streaming" /\ Resume /\ UNCHANGED service

\* The stream ends; an exception is sent as its last event.
StreamEnds ==
  /\ http = "streaming" /\ reader = "closed" /\ http' = "ended"
  /\ body' = IF received # <<>> /\ Last(received) = "error" THEN Append(body, "error") ELSE body
  /\ UNCHANGED <<request, status, retry, vars>>

\* The client disconnects.  A cancellation that arrives while the generator waits for its
\* task is passed on to the task and suppressed.
Disconnects ==
  /\ http = "streaming" /\ http' = "dropped" /\ UNCHANGED <<request, status, retry, body>>
  /\ CASE reader = "get" -> Leave
       [] reader = "closing" ->
            /\ asked' = (producer # "done")
            /\ UNCHANGED <<producer, sent, run, cause, last, queue, reader, received, stopped>>
       [] OTHER -> UNCHANGED vars
\* The suspended generator is collected, and so closed.
Collected == http = "dropped" /\ reader = "yield" /\ Leave /\ UNCHANGED service

ServiceNext ==
  \/ Receive \/ Works \/ Sends \/ Taken \/ StreamEnds \/ Disconnects \/ Collected
  \/ Runtime(Begin) \/ Runtime(Emit) \/ Runtime(Finish) \/ Runtime(Fails)
  \/ Runtime(CleanedUp) \/ Runtime(Put) \/ Runtime(End) \/ Runtime(Cancelled)
  \/ Runtime(Closed) \/ Runtime(Shutdown)
\* As for StreamBridge; abandoned generators are collected, and clients need not read.
ServiceFairness ==
  LET all == <<vars, service>>
  IN /\ WF_all(Sends) /\ WF_all(StreamEnds) /\ WF_all(Collected)
     /\ WF_all(Runtime(Begin)) /\ WF_all(Runtime(Fails)) /\ WF_all(Runtime(CleanedUp))
     /\ WF_all(Runtime(Put)) /\ WF_all(Runtime(End)) /\ WF_all(Runtime(Cancelled))
     /\ WF_all(Runtime(Closed))
ServiceSpec == ServiceInit /\ [][ServiceNext]_<<vars, service>> /\ ServiceFairness
-----------------------------------------------------------------------------
(* Properties.                                                              *)

\* What is too large, invalid or for no agent never reaches the runtime, whatever its
\* headers say.  A stream that ends has sent one terminal event, its last: completed only
\* for a stored run, and an error for none, unless the cleanup did not reach the store.
\* And a caller is told to retry by the envelope only where the status does not ask it to
\* correct the request, and always after a timeout.
ServiceAnswers ==
  /\ http \notin {"request", "answered"} =>
       /\ request.size = "small" /\ request.valid
       /\ request.route = "stream" => request.known
  /\ http = "ended" =>
       /\ body # <<>> /\ Last(body) \in Terminals
       /\ \A n \in 1 .. Len(body) - 1 : body[n] \notin Terminals
       /\ Last(body) = "completed" => run = "succeeded"
       /\ Last(body) = "error" => run # "succeeded" \/ cause = "lost"
  /\ http = "answered" =>
       /\ retry => status \in {409, 502, 503, 504}
       /\ status = 504 => retry

\* A stream that ends, and a client that disconnects, whenever it does, leave no task
\* behind for long, however full the queue is and whoever else cancels.
DisconnectCleansUp ==
  (http = "dropped" \/ reader = "closing") ~> (producer = "done" /\ reader = "closed")

\* A response waiting for an event sends one or ends, unless the runtime shuts down.
StreamServed == (http = "streaming" /\ reader = "get")
                  ~> (http # "streaming" \/ reader # "get" \/ stopped)
=============================================================================
