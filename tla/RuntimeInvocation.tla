------------------------- MODULE RuntimeInvocation -------------------------
(***************************************************************************)
(* AgentRuntime: invocations, their deadline, cancellation, idempotent     *)
(* replay, shielded cleanup and the runtime's shutdown                     *)
(* (src/agent_runtime/runtime.py), over the ledger the run store           *)
(* implements (RunLedger).                                                 *)
(*                                                                         *)
(* An invocation is an asyncio task.  Its steps are what happens between   *)
(* two awaits: one step per store call that returns.  A store call whose   *)
(* caller was cancelled, timed out or lost its connection is left in       *)
(* "late": its transaction may still commit, or not.  The run id of an     *)
(* invocation is a fresh uuid, so invocations are named by it.  Threads    *)
(* exist before they are used and belong to the runtime's namespace.       *)
(*                                                                         *)
(* The deadline is the event loop's and the lease is the database's; both  *)
(* are read off one clock.  LoopLag is how long blocking code may keep the *)
(* loop from serving a deadline.                                           *)
(***************************************************************************)
EXTENDS RunLedger

CONSTANTS
    Requests,        \* [thread, key, hash] of each call to invoke()
    Timeout,         \* invocation_timeout_seconds
    CleanupTimeout,  \* cleanup_timeout_seconds
    LeaseSlack,      \* the 5 seconds added to both for the lease
    LoopLag          \* bound: ticks a due deadline can wait for the loop

ASSUME InvocationAssumption ==
    /\ Requests \subseteq [thread : Threads, key : Keys \cup {NoKey}, hash : Hashes]
    /\ {Timeout, CleanupTimeout, LeaseSlack} \subseteq Nat \ {0}
    /\ LoopLag \in Nat

VARIABLES
    pc,       \* where each invocation's task stands
    req,      \* its request
    due,      \* its deadline, while _execute() runs
    prior,    \* the run a retry found under its key, until it is recovered
    failure,  \* why its error handler runs
    cleanup,  \* its shielded cleanup task, and what that returned
    late,     \* the store call it abandoned
    answer,   \* what the caller got
    ran,      \* invocations whose agent has been invoked
    asked,    \* tasks shutdown() has cancelled, their CancelledError to come
    host      \* "up", or how far shutdown() is

tasks == <<pc, req, due, prior, failure, cleanup, late, answer, ran>>
vars == <<rows, turns, now, tasks, asked, host>>

-----------------------------------------------------------------------------
\* Steps of _execute(), in the budget; the error handler; the end.
Executing == {"lookup", "recover", "thread", "claim", "begin", "work", "finish"}
\* state.run_id is set, so that an error starts a cleanup.
Owning == {"claim", "begin", "work", "finish"}
StoreCalls == {"claim", "begin", "finish"}

NoRequest == [thread |-> "none"]
Raised == [kind |-> "raised"]
CancelledError == [kind |-> "cancelled"]
Response(r) == [kind |-> "response", run |-> r]

ActiveInvocations == {i \in Runs : pc[i] \notin {"new", "over"}}
CleanupTasks == {i \in Runs : cleanup[i] = "running"}
\* Fault: the cleanup tasks are forgotten.
PendingCalls == ActiveInvocations
\* The tasks shutdown() waits for.
Pending == ActiveInvocations \cup CleanupTasks
\* task.cancelling(): the handler runs because of a cancellation.
Cancelling == {i \in Runs : pc[i] = "settle" /\ failure[i] = "cancelled"}

\* Fault: the invocation's own budget is left out.
LeaseForCleanup == CleanupTimeout + LeaseSlack
LeaseLength == Timeout + CleanupTimeout + LeaseSlack

\* The task runs on from an await: no cancellation is waiting for it.
At(i, label) == pc[i] = label /\ i \notin asked
InBudget(i) == pc[i] \in Executing /\ i \notin asked
Goto(i, label) == pc' = [pc EXCEPT ![i] = label]

Init ==
  /\ LedgerInit
  /\ pc = [i \in Runs |-> "new"]
  /\ req = [i \in Runs |-> NoRequest]
  /\ due = [i \in Runs |-> 0]
  /\ prior = [i \in Runs |-> {}]
  /\ failure = [i \in Runs |-> "none"]
  /\ cleanup = [i \in Runs |-> "none"]
  /\ late = [i \in Runs |-> "none"]
  /\ answer = [i \in Runs |-> [kind |-> "none"]]
  /\ ran = {}
  /\ asked = {}
  /\ host = "up"

\* A step inside _execute() that goes on to the next await.
GoOn(i, label) ==
  /\ Goto(i, label)
  /\ UNCHANGED <<req, due, prior, failure, cleanup, late, answer, asked, host>>

\* The locals of _execute() go out of scope.
LeaveBudget(i) == /\ due' = [due EXCEPT ![i] = 0]
                  /\ prior' = [prior EXCEPT ![i] = {}]

\* The task ends.
Answer(i, a) ==
  /\ Goto(i, "over")
  /\ answer' = [answer EXCEPT ![i] = a]
  /\ asked' = asked \ {i}
  /\ LeaveBudget(i)
  /\ UNCHANGED <<req, failure, cleanup, late, ran, host>>

\* An exception leaves _execute(): _record_failure() starts the cleanup task if
\* the invocation may own a run.
Handle(i, why) ==
  IF pc[i] \in Owning
  THEN /\ Goto(i, "settle")
       /\ failure' = [failure EXCEPT ![i] =
            IF why \in {"blocked", "cancelled"} THEN why ELSE "error"]
       /\ cleanup' = [cleanup EXCEPT ![i] = "running"]
       /\ asked' = asked \ {i}
       /\ LeaveBudget(i)
       /\ late' = [late EXCEPT ![i] =
            IF why # "refused" /\ pc[i] \in StoreCalls THEN pc[i] ELSE "none"]
       /\ UNCHANGED <<rows, turns, now, req, answer, ran, host>>
  ELSE /\ Answer(i, IF why = "cancelled" THEN CancelledError ELSE Raised)
       /\ UNCHANGED ledger

-----------------------------------------------------------------------------
(* _invoke(), _execute()                                                    *)

\* A closing runtime refuses; the bound on the clock lets the deadline pass.
Start(i) ==
  /\ pc[i] = "new"
  /\ \/ host # "up" /\ Answer(i, Raised)
     \/ /\ host = "up"
        /\ now + Timeout <= MaxClock
        /\ \E q \in Requests :
             /\ req' = [req EXCEPT ![i] = q]
             /\ Goto(i, IF q.key = NoKey THEN "thread" ELSE "lookup")
        /\ due' = [due EXCEPT ![i] = now + Timeout]
        /\ UNCHANGED <<prior, failure, cleanup, late, answer, ran, asked, host>>
  /\ UNCHANGED ledger

\* _replay() of a run under an equal request.
Replay(i, r) == Answer(i, IF rows[r].status = "succeeded" THEN Response(r) ELSE Raised)

\* Fault: the request hash is not compared.
FoundByKey(i, r) ==
  \/ ~ ActiveRow(rows[r]) /\ Replay(i, r)
  \/ /\ ActiveRow(rows[r])
     /\ Goto(i, "recover")
     /\ prior' = [prior EXCEPT ![i] = {r}]
     /\ UNCHANGED <<req, due, failure, cleanup, late, answer, ran, asked, host>>

\* A run was found under the key.  Another hash is a conflict; an active run is
\* first recovered, a settled one replayed.
Found(i, r) ==
  \/ rows[r].hash # req[i].hash /\ Answer(i, Raised)
  \/ /\ rows[r].hash = req[i].hash /\ ~ ActiveRow(rows[r])
     /\ Replay(i, r)
  \/ /\ rows[r].hash = req[i].hash /\ ActiveRow(rows[r])
     /\ Goto(i, "recover")
     /\ prior' = [prior EXCEPT ![i] = {r}]
     /\ UNCHANGED <<req, due, failure, cleanup, late, answer, ran, asked, host>>

\* get_by_idempotency()
Lookup(i) ==
  /\ At(i, "lookup")
  /\ \/ WithKey(req[i].key) = {} /\ GoOn(i, "thread") /\ UNCHANGED ran
     \/ \E r \in WithKey(req[i].key) : Found(i, r)
  /\ UNCHANGED ledger

\* recover(): an expired owner is failed; a live one is still in progress.
Reconcile(i) ==
  /\ At(i, "recover")
  /\ \E r \in prior[i] :
       \/ Expire(r, now) /\ Answer(i, Raised)
       \/ ~ Lapsed(rows[r], now) /\ Replay(i, r) /\ UNCHANGED ledger

\* get_thread() or create_thread(); from here on state.run_id is set.
Thread(i) == At(i, "thread") /\ GoOn(i, "claim") /\ UNCHANGED <<ledger, ran>>

\* claim(): the run is created; or another run has the key, and state.run_id is
\* reset; or the key conflicts or the thread is busy.  A claim that meets the key
\* only at its insert still commits the expiry of the thread's old owner.
Claim(i) ==
  LET q == req[i]
      same == WithKey(q.key)
  IN /\ At(i, "claim")
     /\ \/ /\ Take(i, q.thread, q.key, q.hash, LeaseLength, now)
           /\ GoOn(i, "begin")
           /\ UNCHANGED ran
        \/ \E r \in same :
             /\ rows[r].hash = q.hash
             /\ Found(i, r)
             /\ UNCHANGED ledger \/ \E o \in Occupants(q.thread) : Expire(o, now)
        \/ (\E r \in same : rows[r].hash # q.hash) /\ Handle(i, "refused")
        \/ /\ same = {}
           /\ \E o \in Occupants(q.thread) : ~ Lapsed(rows[o], now)
           /\ Handle(i, "refused")

\* transition(run_id, "running"), after which the agent may be invoked.
Begin(i) ==
  /\ At(i, "begin")
  /\ \/ Run(i, now) /\ GoOn(i, "work") /\ ran' = ran \cup {i}
     \/ ~ ActiveRow(rows[i]) /\ Handle(i, "refused")
     \/ Lapsed(rows[i], now) /\ Handle(i, "refused")

\* History, hooks, the agent, its model and tools.
Work(i) == At(i, "work") /\ GoOn(i, "finish") /\ UNCHANGED <<ledger, ran>>

\* complete(), then the response is returned.
Complete(i) ==
  /\ At(i, "finish")
  /\ \/ Finish(i, now) /\ Answer(i, Response(i))
     \/ ~ ActiveRow(rows[i]) /\ Handle(i, "refused")
     \/ Lapsed(rows[i], now) /\ Handle(i, "refused")

\* Anything awaited fails: a guardrail, a provider, a hook, a tool, or the
\* connection of a store call, with or without its effect.
Fails(i) == /\ InBudget(i)
            /\ \/ Handle(i, "error")
               \/ pc[i] = "work" /\ Handle(i, "blocked")

\* Fault: the budget does not cover the agent.
DeadlineOfCalls(i) ==
  InBudget(i) /\ pc[i] # "work" /\ due[i] <= now /\ Handle(i, "timeout")

\* asyncio.timeout() turns its own cancellation into InvocationTimeoutError.
Deadline(i) == InBudget(i) /\ due[i] <= now /\ Handle(i, "timeout")

\* Fault: the cleanup is awaited without a shield, and cancelled with its caller.
CancelledUnshielded(i) ==
  \/ pc[i] \in Executing /\ Handle(i, "cancelled")
  \/ /\ pc[i] = "settle"
     /\ Goto(i, "over")
     /\ answer' = [answer EXCEPT ![i] = CancelledError]
     /\ cleanup' = [cleanup EXCEPT ![i] = "none"]
     /\ asked' = asked \ {i}
     /\ UNCHANGED <<rows, turns, now, req, due, prior, failure, late, ran, host>>

\* CancelledError is raised at the await the task stands at.  The cleanup that a
\* handler was waiting for is shielded: it goes on without the task.
Cancelled(i) == \/ pc[i] \in Executing /\ Handle(i, "cancelled")
                \/ pc[i] = "settle" /\ Answer(i, CancelledError) /\ UNCHANGED ledger

\* The caller cancels the task, or closes its stream; or shutdown() has.
Cancel(i) == i \notin asked /\ Cancelled(i)
Cut(i) == i \in asked /\ Cancelled(i)
-----------------------------------------------------------------------------
(* _settle_failure(), and what _invoke_with_deadline() makes of it          *)

Return(i, result) == cleanup' = [cleanup EXCEPT ![i] = result]

\* What fail_if_running() does to the owner's unfinished run.
SettleOwn(i) ==
  \/ Expire(i, now)
  \/ Settle(i, IF failure[i] = "blocked" THEN "blocked" ELSE "failed", now)

\* RunNotFoundError while the claim has not committed; otherwise the call waits
\* behind the abandoned one's lock on the thread.
CleanUp(i) ==
  /\ cleanup[i] = "running"
  /\ \/ rows[i] = NoRow /\ Return(i, "missing") /\ UNCHANGED ledger
     \/ /\ rows[i] # NoRow /\ late[i] = "none"
        /\ \/ /\ ~ ActiveRow(rows[i])
              /\ Return(i, IF rows[i].status = "succeeded" THEN "succeeded" ELSE "settled")
              /\ UNCHANGED ledger
           \/ SettleOwn(i) /\ Return(i, "settled")
  /\ UNCHANGED <<pc, req, due, prior, failure, late, answer, ran, asked, host>>

\* Fault: the cleanup waits for the abandoned call without a timeout.
CleanUpWaits(i) ==
  /\ cleanup[i] = "running" /\ late[i] = "none"
  /\ Return(i, "unavailable")
  /\ UNCHANGED <<rows, turns, now, pc, req, due, prior, failure, late, answer, ran,
                 asked, host>>

\* The cleanup's own timeout, or an error of its store call, which may have had
\* its effect.
CleanUpFails(i) ==
  /\ cleanup[i] = "running"
  /\ Return(i, "unavailable")
  /\ \/ UNCHANGED late
     \/ /\ rows[i] # NoRow /\ late[i] = "none"
        /\ late' = [late EXCEPT ![i] = "settle"]
  /\ UNCHANGED <<rows, turns, now, pc, req, due, prior, failure, answer, ran, asked,
                 host>>

\* Fault: the record the cleanup returns is ignored.
DeliverError(i) ==
  /\ At(i, "settle")
  /\ cleanup[i] # "running"
  /\ Answer(i, IF failure[i] = "cancelled" THEN CancelledError ELSE Raised)
  /\ UNCHANGED ledger

\* The handler ends: a durable success is the answer after all, unless the task
\* was cancelled.
Deliver(i) ==
  /\ At(i, "settle")
  /\ cleanup[i] # "running"
  /\ Answer(i, IF failure[i] = "cancelled" THEN CancelledError
               ELSE IF cleanup[i] = "succeeded" THEN Response(i) ELSE Raised)
  /\ UNCHANGED ledger

\* The transaction of an abandoned call commits, or is rolled back.
LateEffect(i) ==
  LET q == req[i]
  IN \/ late[i] = "claim" /\ Take(i, q.thread, q.key, q.hash, LeaseLength, now)
     \/ late[i] = "begin" /\ Run(i, now)
     \/ late[i] = "finish" /\ Finish(i, now)
     \/ late[i] = "settle" /\ SettleOwn(i)

LateEnd(i) ==
  /\ late[i] # "none"
  /\ LateEffect(i) \/ UNCHANGED ledger
  /\ late' = [late EXCEPT ![i] = "none"]
  /\ UNCHANGED <<pc, req, due, prior, failure, cleanup, answer, ran, asked, host>>
-----------------------------------------------------------------------------
(* shutdown() and the world around it                                       *)

\* Also a second call, after one that ran out of its budget.
Shutdown ==
  /\ host \in {"up", "timed_out"}
  /\ host' = "closing"
  /\ asked' = asked \cup (ActiveInvocations \ Cancelling)
  /\ UNCHANGED <<rows, turns, now, tasks>>

\* It returns true when nothing is pending, false when its budget runs out.
ShutdownReturns ==
  /\ host = "closing"
  /\ host' = IF Pending = {} THEN "clean" ELSE "timed_out"
  /\ UNCHANGED <<rows, turns, now, tasks, asked>>

\* recover_expired(), run by the host.
Sweep == (\E r \in Runs : Expire(r, now)) /\ UNCHANGED <<tasks, asked, host>>

\* Time, as far as a due deadline lets it pass.
Tick == /\ \A i \in Runs : pc[i] \in Executing => now < due[i] + LoopLag
        /\ Pass
        /\ UNCHANGED <<tasks, asked, host>>

Step(i) == \/ Start(i)     \/ Lookup(i)       \/ Reconcile(i) \/ Thread(i)
           \/ Claim(i)     \/ Begin(i)        \/ Work(i)      \/ Complete(i)
           \/ Fails(i)     \/ Deadline(i)     \/ Cancel(i)    \/ Cut(i)
           \/ CleanUp(i)   \/ CleanUpFails(i) \/ Deliver(i)   \/ LateEnd(i)

Next == \/ \E i \in Runs : Step(i)
        \/ Shutdown \/ ShutdownReturns \/ Sweep \/ Tick

Spec == Init /\ [][Next]_vars

\* The event loop serves its timers, cancellations and finished cleanups, and the
\* clock runs; no store, agent, hook or model is assumed ever to return.
Fairness ==
  /\ WF_vars(Tick)
  /\ \A i \in Runs : /\ WF_vars(Deadline(i))
                     /\ WF_vars(Cut(i))
                     /\ WF_vars(CleanUpFails(i))
                     /\ WF_vars(Deliver(i))
LiveSpec == Spec /\ Fairness
-----------------------------------------------------------------------------
(* Properties.                                                              *)

\* A response is only ever the stored one of a succeeded run, whose turn is in its
\* thread, once; it answers the caller's own run, or an equal request under the
\* caller's own key.
DurableAnswer ==
  \A i \in Runs : answer[i].kind = "response" =>
    LET r == answer[i].run
        said == turns[rows[r].thread]
    IN /\ rows[r].status = "succeeded"
       /\ \E n \in 1 .. Len(said) : \A m \in 1 .. Len(said) : said[m] = r <=> m = n
       /\ r = i \/ (req[i].key # NoKey /\ rows[r].key = req[i].key)
       /\ rows[r].hash = req[i].hash

\* Whatever fails, is cancelled, retried or recovered, a key's agent runs once:
\* external effects are never repeated under the same key.
OneExecution ==
  \A i, j \in ran : req[i].key # NoKey /\ req[i].key = req[j].key => i = j

\* The agents of two turns of a thread run at the same time only after the event loop
\* has kept a due deadline waiting for as long as the lease outlives it.
TurnsExclusive ==
  \A i, j \in Runs :
    /\ i # j /\ {pc[i], pc[j]} \subseteq {"work", "finish"}
    /\ req[i].thread = req[j].thread
    => \E n \in {i, j} : now >= due[n] + CleanupTimeout + LeaseSlack

\* An error, other than cancellation, is only reported for a run that is not and
\* will not be succeeded, unless its cleanup could not reach the store.
NoFalseFailure ==
  \A i \in Runs :
    answer[i].kind = "raised" /\ rows[i].status = "succeeded"
      => cleanup[i] = "unavailable"

\* An active run that no task looks after any more is one whose cleanup could not
\* reach the store, or looked before the claim had committed.
OrphansExplained ==
  \A i \in Runs :
    ActiveRow(rows[i]) /\ pc[i] = "over" =>
      \/ cleanup[i] \in {"running", "unavailable"}
      \/ cleanup[i] = "missing" /\ i \notin ran

Quiet == ActiveInvocations = {} /\ CleanupTasks = {}

\* Once shutdown() has returned true no task of the runtime is left and none
\* begins, so that the host may dispose of the stores.
ShutdownIsClean ==
  [][host = "clean" => host' = "clean" /\ Quiet /\ Quiet']_vars

\* Every invocation is answered, whatever its store, agent or model does.
Answered == \A i \in Runs : (i \in ActiveInvocations) ~> (pc[i] = "over")

\* After shutdown() has been called the runtime falls quiet.
Quiesces == (host # "up") ~> Quiet
=============================================================================
