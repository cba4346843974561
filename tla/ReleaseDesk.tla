---------------------------- MODULE ReleaseDesk ----------------------------
(***************************************************************************)
(* The release desk, a host of the runtime: a command line that reviews a  *)
(* release on a thread and may be run again with the same idempotency key  *)
(* (src/applications/release_desk).  It gives its agent a context window   *)
(* and, in front of the model, a budget of its own for all of a call's     *)
(* input.                                                                  *)
(*                                                                         *)
(* One process runs at a time.  It is interrupted, or loses its output, at *)
(* any await, fails, or is killed; what the runtime then leaves in the     *)
(* store is what RunStore and RuntimeInvocation allow.                     *)
(***************************************************************************)
EXTENDS Integers, Sequences, SequencesExt

CONSTANTS Keys,          \* idempotency keys, one for each review
          ContextBytes,  \* settings.context_max_bytes
          InputLimits,   \* values of settings.model_input_max_bytes
          CallBytes, AnswerBytes,  \* sizes of encoded messages of the model
          RequestBytes, ReportBytes, \* and of requests and reports
          MaxStarts      \* bound: processes started

\* Sizes are counted in bytes, and ids are strings.
Settings == /\ Keys \subseteq STRING /\ InputLimits \subseteq Nat
            /\ ContextBytes \in Nat /\ ContextBytes >= 2
            /\ {CallBytes, AnswerBytes} \cup RequestBytes \cup ReportBytes \subseteq Nat
            /\ ReportBytes # {}
ASSUME DeskAssumption == Settings

VARIABLES
    limit,     \* ModelInputBudget.message_bytes
    runs,      \* agent_runs by key: status, report, and why it failed
    thread,    \* messages stored
    fetches,   \* requests made to the release source, by key
    desk,      \* the process: where it is, its key, its model input, and its exit code
    started,   \* processes started
    exits      \* what processes have told their callers

desk_vars == <<limit, runs, thread, fetches, desk, started, exits>>

Window == INSTANCE ContextWindow WITH
            Messages <- {}, MaxBytes <- ContextBytes, MaxMessages <- 0,
            history <- thread, current <- <<>>, w <- 0, result <- 0
-----------------------------------------------------------------------------
Reports == [ready : BOOLEAN, bytes : ReportBytes]
NoReport == [ready |-> FALSE, bytes |-> 0]
NoRun == [status |-> "none", report |-> NoReport, why |-> "none"]

Encoded(role, ids, bytes) == [role |-> role, ids |-> ids, size |-> bytes, plain |-> TRUE]
Request(bytes) == Encoded("user", <<>>, bytes)
Off == [at |-> "off", key |-> "none", input |-> <<>>, turn |-> <<>>, report |-> NoReport,
        code |-> 0]

DeskInit ==
  /\ limit \in InputLimits
  /\ runs = [k \in Keys |-> NoRun] /\ thread = <<>> /\ fetches = [k \in Keys |-> 0]
  /\ desk = Off /\ started = 0 /\ exits = {}

Active(k) == runs[k].status = "active"
Settled(k, status, why) == [runs EXCEPT ![k].status = status, ![k].why = why]
\* The application is left with this exit code.
Leaves(code) == desk' = [desk EXCEPT !.at = "closing", !.code = code]
-----------------------------------------------------------------------------
(* application(): readiness, then the runtime's lifetime.                    *)

Start ==
  /\ desk.at = "off" /\ started < MaxStarts
  /\ started' = started + 1
  /\ \E k \in Keys : desk' = [Off EXCEPT !.at = "opening", !.key = k]
  /\ UNCHANGED <<limit, runs, thread, fetches, exits>>

Opens ==
  /\ desk.at = "opening"
  /\ \/ desk' = [desk EXCEPT !.at = "claiming"]
     \/ Leaves(2)
  /\ UNCHANGED <<limit, runs, thread, fetches, started, exits>>

\* Fault: a review that has failed is taken up again.
RunsAgain(k) == runs[k].status \in {"none", "failed"}
\* A key whose run has ended is never executed again.
Unclaimed(k) == runs[k].status = "none"

\* A successful run is replayed; one that failed, or is active, is refused.  The lease
\* of an active run may have run out, which fails it; another's may free the thread.
Claim ==
  /\ desk.at = "claiming"
  /\ LET k == desk.key IN
     \/ /\ runs[k].status = "succeeded"
        /\ desk' = [desk EXCEPT !.at = "printing", !.report = runs[k].report]
        /\ UNCHANGED runs
     \/ /\ ~ Unclaimed(k) /\ runs[k].status # "succeeded"
        /\ runs' \in {runs} \cup (IF Active(k) THEN {Settled(k, "failed", "other")} ELSE {})
        /\ Leaves(2)
     \/ /\ Unclaimed(k) /\ (\E other \in Keys : Active(other))
        /\ Leaves(2) /\ UNCHANGED runs
     \/ /\ Unclaimed(k)
        /\ runs' = [other \in Keys |->
                      IF other = k THEN [NoRun EXCEPT !.status = "active"]
                      ELSE IF Active(other) THEN [runs[other] EXCEPT !.status = "failed",
                                                                     !.why = "other"]
                      ELSE runs[other]]
        /\ desk' = [desk EXCEPT !.at = "selecting"]
  /\ UNCHANGED <<limit, thread, fetches, started, exits>>

\* The invocation fails and its cleanup settles the run, or cannot.
Fails(why, code) ==
  /\ Leaves(code)
  /\ runs' \in {runs, Settled(desk.key, "failed", why)}

Selects ==
  /\ desk.at = "selecting"
  /\ \E bytes \in RequestBytes :
     LET request == <<Request(bytes)>>
         selected == Window!Select(thread, request)
     IN IF selected.kind = "raised" THEN Fails("other", 2)
        ELSE /\ desk' = [desk EXCEPT !.at = "asking", !.turn = request,
                           !.input = Window!Chosen(thread \o request, selected.places)]
             /\ UNCHANGED runs
  /\ UNCHANGED <<limit, thread, fetches, started, exits>>
-----------------------------------------------------------------------------
(* The agent: ReviewRouter behind its budget, and one tool                   *)

\* canonical_size() of a list of messages.
CanonicalSize(messages) == Window!Bytes(messages, DOMAIN messages)

\* ModelInputBudget.check(): equality is admitted.
Check(messages) == CanonicalSize(messages) <= limit

\* ReviewRouter.generate(): an answer to a report, a call for anything else.
Route(messages) ==
  IF Last(messages).role = "tool" THEN Encoded("assistant", <<>>, AnswerBytes)
  ELSE Encoded("assistant", <<desk.key>>, CallBytes)

Says(message, next) ==
  desk' = [desk EXCEPT !.at = next, !.input = Append(@, message), !.turn = Append(@, message)]
Answered == Last(desk.input).role = "tool"

\* The budget is checked before each call is dispatched; a refusal fails the run.  A call
\* sends a request to the release source, in a thread.
Ask ==
  /\ desk.at = "asking"
  /\ \/ ~ Check(desk.input) /\ Fails("refused", 2) /\ UNCHANGED fetches
     \/ /\ Check(desk.input)
        /\ Says(Route(desk.input), IF Answered THEN "saving" ELSE "fetching")
        /\ fetches' = IF Answered THEN fetches ELSE [fetches EXCEPT ![desk.key] = @ + 1]
        /\ UNCHANGED runs
  /\ UNCHANGED <<limit, thread, started, exits>>

\* inspect_release: the release's metadata become a report; or they cannot be had, are
\* too large, or late.
Fetch ==
  /\ desk.at = "fetching"
  /\ \/ /\ \E report \in Reports :
             desk' = [desk EXCEPT !.at = "asking", !.report = report,
                        !.input = Append(@, Encoded("tool", <<desk.key>>, report.bytes)),
                        !.turn = Append(@, Encoded("tool", <<desk.key>>, report.bytes))]
        /\ UNCHANGED runs
     \/ Fails("other", 2)
  /\ UNCHANGED <<limit, thread, fetches, started, exits>>

\* complete(): the run and its messages, in one transaction.
Saved == /\ runs' = [runs EXCEPT ![desk.key].status = "succeeded", ![desk.key].report = desk.report]
         /\ thread' = thread \o desk.turn
Save ==
  /\ desk.at = "saving"
  /\ \/ Saved /\ desk' = [desk EXCEPT !.at = "printing"]
     \/ Fails("other", 2) /\ UNCHANGED thread
  /\ UNCHANGED <<limit, fetches, started, exits>>
-----------------------------------------------------------------------------
(* The end of a process                                                      *)

Report ==
  /\ desk.at = "printing"
  /\ Leaves(IF desk.report.ready THEN 0 ELSE 1)
  /\ UNCHANGED <<limit, runs, thread, fetches, started, exits>>

\* A keyboard interrupt, or output that nobody reads: the invocation is cancelled, and
\* its cleanup fails the run, cannot, or finds it completed.  Outside an invocation only
\* the exit code changes.
Interrupted ==
  /\ desk.at # "off" /\ desk.code # 130
  /\ IF desk.at \in {"selecting", "asking", "fetching", "saving"}
     THEN \/ Fails("other", 130) /\ UNCHANGED thread
          \/ desk.at = "saving" /\ Saved /\ Leaves(130)
     ELSE Leaves(130) /\ UNCHANGED <<runs, thread>>
  /\ UNCHANGED <<limit, fetches, started, exits>>

\* The runtime is shut down and the engine disposed; a shutdown that takes too long
\* replaces an interruption.
Close ==
  /\ desk.at = "closing"
  /\ \E code \in {desk.code} \cup (IF desk.code = 130 THEN {2} ELSE {}) :
       exits' = exits \cup {[key |-> desk.key, code |-> code]}
  /\ desk' = Off
  /\ UNCHANGED <<limit, runs, thread, fetches, started>>

\* The process is killed.
Crash == /\ desk.at # "off" /\ desk' = Off
         /\ UNCHANGED <<limit, runs, thread, fetches, started, exits>>

DeskNext == \/ Start \/ Opens \/ Claim \/ Selects \/ Ask \/ Fetch \/ Save \/ Report
            \/ Interrupted \/ Close \/ Crash
DeskSpec == DeskInit /\ [][DeskNext]_desk_vars
-----------------------------------------------------------------------------
(* Properties.                                                               *)

\* However often a review is started, interrupted and started again, its release is
\* fetched at most once, an exit code 0 or 1 is the report of a run that has succeeded,
\* and the thread holds that run's turn once and nothing of any other.
\* And a host whose model input has room for its context window and one exchange never
\* has a review refused, so none is fetched and then thrown away for its size.
ReviewedOnce ==
  /\ \A k \in Keys : fetches[k] <= 1
  /\ \A e \in exits : e.code \in {0, 1} =>
       runs[e.key].status = "succeeded" /\ (e.code = 0 <=> runs[e.key].report.ready)
  /\ \A k \in Keys :
       LET exchange == {n \in DOMAIN thread : thread[n].ids = <<k>>}
       IN IF runs[k].status = "succeeded"
          THEN \E n \in exchange : /\ exchange = {n, n + 1}
                                   /\ thread[n].role = "assistant" /\ thread[n + 1].role = "tool"
          ELSE exchange = {}
  /\ (\A bytes \in ReportBytes : limit >= ContextBytes + CallBytes + bytes + 2)
       => \A k \in Keys : runs[k].why # "refused"
=============================================================================
