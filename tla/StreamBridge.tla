---------------------------- MODULE StreamBridge ----------------------------
(***************************************************************************)
(* AgentRuntime.stream(): the task that runs one invocation and produces   *)
(* its events, the bounded queue, and the generator its reader consumes    *)
(* (src/agent_runtime/runtime.py).                                         *)
(*                                                                         *)
(* The invocation is seen from the stream: it emits "started" and its      *)
(* deltas, then completes its run, unless it fails, reaches its deadline   *)
(* or is cancelled, which a bounded, shielded cleanup follows (all in      *)
(* RuntimeInvocation).  A stored reply is replayed as "started" alone,     *)
(* as does an agent that does not stream: Deltas = 0.                      *)
(*                                                                         *)
(* The reader is the host: it may stop reading, close the generator, or be *)
(* cancelled while it waits.                                               *)
(***************************************************************************)
EXTENDS Naturals, Sequences

CONSTANTS QueueSize,  \* asyncio.Queue(maxsize=64)
          Deltas      \* deltas and tool results of the agent

ASSUME SizeAssumption == QueueSize \in Nat \ {0} /\ Deltas \in Nat

VARIABLES
    producer,  \* where the produce() task stands
    sent,      \* events the invocation has emitted
    run,       \* its durable run: "open", "succeeded" or "failed"
    cause,     \* why its cleanup runs: "none", "error" or "cancelled"; and that it was
               \* "lost": it has not reached the store
    last,      \* the terminal item to put
    asked,     \* the task's CancelledError is still to be raised
    queue,     \* the events on their way
    reader,    \* where the generator stands
    received,  \* what the reader got
    stopped    \* shutdown() has been called

vars == <<producer, sent, run, cause, last, asked, queue, reader, received, stopped>>

-----------------------------------------------------------------------------
Invoking == {"emit", "finish", "cleanup"}   \* in _active_invocations
Terminals == {"completed", "error"}
Script == [n \in 1 .. Deltas + 1 |-> IF n = 1 THEN "started" ELSE "delta"]

Init ==
  /\ producer = "new" /\ sent = 0 /\ run = "open" /\ cause = "none" /\ last = "error"
  /\ asked = FALSE /\ queue = <<>> /\ reader = "get" /\ received = <<>>
  /\ stopped = FALSE

At(label) == producer = label /\ ~ asked
Room == Len(queue) < QueueSize
\* Leaves the reader's side alone.
Produces == UNCHANGED <<reader, received, stopped>>

\* An exception leaves _execute(); the cleanup starts.  A complete() in progress
\* may have had its effect.
Abort(why) ==
  /\ producer' = "cleanup"
  /\ cause' = why
  /\ \/ UNCHANGED run
     \/ producer = "finish" /\ run' = "succeeded"

\* task.cancelling(): its cleanup already runs because of a cancellation.
Cancelling == producer = "cleanup" /\ cause = "cancelled"
-----------------------------------------------------------------------------
(* produce()                                                                *)

\* _invoke() refuses when the runtime is closing.
Begin ==
  /\ At("new")
  /\ producer' = IF stopped THEN "put" ELSE "emit"
  /\ UNCHANGED <<sent, run, cause, last, asked, queue>> /\ Produces

\* Fault: an event is dropped when the queue is full.
EmitOrDrop ==
  /\ At("emit")
  /\ queue' = IF Room THEN Append(queue, Script[sent + 1]) ELSE queue
  /\ sent' = sent + 1
  /\ producer' = IF sent = Deltas THEN "finish" ELSE "emit"
  /\ UNCHANGED <<run, cause, last, asked>> /\ Produces

\* emit(): waits for room.
Emit ==
  /\ At("emit") /\ Room
  /\ queue' = Append(queue, Script[sent + 1])
  /\ sent' = sent + 1
  /\ producer' = IF sent = Deltas THEN "finish" ELSE "emit"
  /\ UNCHANGED <<run, cause, last, asked>> /\ Produces

\* complete(): the response is stored and StreamCompleted follows.
Finish ==
  /\ At("finish")
  /\ run' = "succeeded" /\ last' = "completed" /\ producer' = "put"
  /\ UNCHANGED <<sent, cause, asked, queue>> /\ Produces

\* The invocation fails, or its deadline hits, also while it waits for room.
Fails ==
  /\ At("emit") \/ At("finish")
  /\ Abort("error")
  /\ UNCHANGED <<sent, last, asked, queue>> /\ Produces

\* The cleanup settles the run unless that is settled, and learns which; it may have no
\* time or no connection to do so.
Settles ==
  \/ /\ run' = IF run = "open" THEN "failed" ELSE run
     /\ last' = (IF run = "succeeded" THEN "completed" ELSE "error") /\ UNCHANGED cause
  \/ last' = "error" /\ cause' = "lost" /\ UNCHANGED run

\* Fault: an exception ends the task as a cancellation does.
CleanedUpSilently ==
  /\ At("cleanup") /\ Settles
  /\ producer' = "done"
  /\ UNCHANGED <<sent, asked, queue>> /\ Produces

\* The cleanup has returned: its record is the answer if it is a success, and the
\* exception is raised otherwise; a cancelled task ends without another event.
CleanedUp ==
  /\ At("cleanup") /\ Settles
  /\ producer' = IF cause = "cancelled" THEN "done" ELSE "put"
  /\ UNCHANGED <<sent, asked, queue>> /\ Produces

\* The terminal item, then the sentinel; neither has a deadline.
Put ==
  /\ At("put") /\ Room
  /\ queue' = Append(queue, last) /\ producer' = "end"
  /\ UNCHANGED <<sent, run, cause, last, asked>> /\ Produces

End ==
  /\ At("end") /\ Room
  /\ queue' = Append(queue, "sentinel") /\ producer' = "done"
  /\ UNCHANGED <<sent, run, cause, last, asked>> /\ Produces

\* Fault: the sentinel is also put by a task that is cancelled.
CancelledPuts ==
  /\ asked
  /\ asked' = FALSE
  /\ \/ producer \in {"emit", "finish"} /\ Abort("cancelled")
     \/ /\ producer \notin {"emit", "finish", "done"} /\ producer' = "end"
        /\ UNCHANGED <<run, cause>>
  /\ UNCHANGED <<sent, last, queue>> /\ Produces

\* CancelledError is raised where the task stands: in the invocation it is
\* cleaned up after, waiting for the shielded cleanup or for room the task ends,
\* and before its first step it never runs.
Cancelled ==
  /\ asked
  /\ asked' = FALSE
  /\ \/ producer \in {"emit", "finish"} /\ Abort("cancelled")
     \/ /\ producer \notin {"emit", "finish", "done"} /\ producer' = "done"
        /\ UNCHANGED <<run, cause>>
  /\ UNCHANGED <<sent, last, queue>> /\ Produces
-----------------------------------------------------------------------------
(* The generator and its reader                                             *)

Consumes == UNCHANGED <<producer, sent, run, cause, last, stopped>>

\* The generator's finally: an unfinished task is cancelled and awaited.
Close == IF producer = "done"
         THEN reader' = "closed" /\ UNCHANGED asked
         ELSE reader' = "closing" /\ asked' = TRUE

\* queue.get(): an event is yielded, an exception raised, a sentinel ends.
Get ==
  /\ reader = "get" /\ queue # <<>>
  /\ queue' = Tail(queue)
  /\ LET item == Head(queue)
     IN /\ received' = IF item = "sentinel" THEN received ELSE Append(received, item)
        /\ IF item \in {"error", "sentinel"}
           THEN Close ELSE reader' = "yield" /\ UNCHANGED asked
  /\ Consumes

\* The host asks for the next event.
Resume == /\ reader = "yield" /\ reader' = "get"
          /\ UNCHANGED <<asked, queue, received>> /\ Consumes

\* It closes the generator at a yield, or is cancelled while it waits.
Leave == /\ reader \in {"yield", "get"} /\ Close
         /\ UNCHANGED <<queue, received>> /\ Consumes

Closed == /\ reader = "closing" /\ producer = "done" /\ reader' = "closed"
          /\ UNCHANGED <<asked, queue, received>> /\ Consumes

\* shutdown() cancels the task while it is an active invocation, once.
Shutdown ==
  /\ ~ stopped /\ stopped' = TRUE
  /\ asked' = (asked \/ (producer \in Invoking /\ ~ Cancelling))
  /\ UNCHANGED <<producer, sent, run, cause, last, queue, reader, received>>

Next == \/ Begin \/ Emit \/ Finish \/ Fails \/ CleanedUp \/ Put \/ End \/ Cancelled
        \/ Get \/ Resume \/ Leave \/ Closed \/ Shutdown

Spec == Init /\ [][Next]_vars

\* The event loop runs tasks that can run, the invocation has its deadline and
\* its cleanup one of its own.  The reader need not ask, leave or close.
Fairness == /\ WF_vars(Begin) /\ WF_vars(Fails) /\ WF_vars(CleanedUp)
            /\ WF_vars(Put)   /\ WF_vars(End)   /\ WF_vars(Cancelled)
            /\ WF_vars(Get)   /\ WF_vars(Closed)
LiveSpec == Spec /\ Fairness
-----------------------------------------------------------------------------
(* Properties.                                                              *)

\* What the reader gets is the script up to some point, then at most one terminal
\* event; "completed" comes after all of the script and only from a stored run.
WholeOrPartial ==
  LET n == Len(received)
      ended == n > 0 /\ received[n] \in Terminals
      events == IF ended THEN n - 1 ELSE n
  IN /\ events <= Deltas + 1
     /\ \A m \in 1 .. events : received[m] = Script[m]
     /\ ended /\ received[n] = "completed" => events = Deltas + 1 /\ run = "succeeded"

\* "After HTTP 200 headers are sent, failures use event: error": whatever happens,
\* a waiting reader gets an event or the end of the stream.
ReaderAlwaysServed == (reader = "get") ~> (reader # "get")
=============================================================================
