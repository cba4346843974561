--------------------------- MODULE FeedbackStore ---------------------------
(***************************************************************************)
(* PostgresFeedbackStore.record() (src/agent_runtime/feedback/postgres.py):*)
(* feedback on a finished run, once per idempotency key, perhaps in place  *)
(* of feedback on the same target.                                         *)
(*                                                                         *)
(* A call is one transaction of up to five statements under READ COMMITTED.*)
(* created_at is its now(): the time its transaction began.  A submission's*)
(* payload hash stands for all of it, so two submissions have the same     *)
(* hash when they are equal.                                               *)
(***************************************************************************)
EXTENDS Integers, FiniteSets

CONSTANTS Callers, Runs,
          Submissions,  \* what is submitted: id, key, run, target ("run", "message",
                        \* "result" or "foreign": not of that run), superseded id
          None,      \* supersedes_feedback_id=None
          MaxTime   \* bound: time

VARIABLES
    status,    \* of the runs: "running", "succeeded" or "failed"
    rows,      \* committed feedback: submissions with their created_at
    time,
    asked,     \* the call of each caller
    answers    \* submissions with the rows they were answered by

feedback == <<status, rows, time, asked, answers>>

NoCall == [at |-> "idle"]
FeedbackInit == /\ status = [run \in Runs |-> "running"] /\ rows = {} /\ time = 0
        /\ asked = [c \in Callers |-> NoCall] /\ answers = {}

At(c, at) == asked[c].at = at
Moves(c, at) == /\ asked' = [asked EXCEPT ![c].at = at]
                /\ UNCHANGED <<status, rows, time, answers>>
\* The call ends: refused, failed or lost, and nothing is stored.
Gives(c) == asked' = [asked EXCEPT ![c] = NoCall] /\ UNCHANGED <<status, rows, time, answers>>
\* The call ends with a row, unless the reply is lost.
Answers(c, sub, row) == answers' \in {answers, answers \cup {<<sub, row>>}}
SameKey(sub) == {row \in rows : row.sub.key = sub.key}
Replays(c) ==
  LET sub == asked[c].sub
  IN \E row \in SameKey(sub) :
       IF row.sub # sub THEN Gives(c)   \* IdempotencyConflictError
       ELSE /\ asked' = [asked EXCEPT ![c] = NoCall] /\ Answers(c, sub, row)
            /\ UNCHANGED <<status, rows, time>>

Submit(c, sub) == /\ At(c, "idle")
                  /\ asked' = [asked EXCEPT ![c] = [at |-> "lookup", sub |-> sub]]
                  /\ UNCHANGED <<status, rows, time, answers>>
\* The transaction begins, and looks the key up.
Lookup(c) ==
  /\ At(c, "lookup")
  /\ IF SameKey(asked[c].sub) # {} THEN Replays(c)
     ELSE /\ asked' = [asked EXCEPT ![c] = [at |-> "target", sub |-> asked[c].sub,
                                             created |-> time]]
          /\ UNCHANGED <<status, rows, time, answers>>
\* _validate_target()
Target(c) ==
  /\ At(c, "target")
  /\ IF /\ asked[c].sub.run \in Runs /\ status[asked[c].sub.run] = "succeeded"
        /\ asked[c].sub.target # "foreign"
     THEN Moves(c, "parent") ELSE Gives(c)
\* Fault: what is superseded is only looked for.
ParentUnrelated(c) ==
  /\ At(c, "parent")
  /\ IF asked[c].sub.supersedes \in {None} \cup {row.sub.id : row \in rows}
     THEN Moves(c, "insert") ELSE Gives(c)
\* What is superseded is committed feedback on the same target.
Parent(c) ==
  LET sub == asked[c].sub
  IN /\ At(c, "parent")
     /\ IF \/ sub.supersedes = None
           \/ \E row \in rows : /\ row.sub.id = sub.supersedes
                                /\ <<row.sub.run, row.sub.target>> = <<sub.run, sub.target>>
        THEN Moves(c, "insert") ELSE Gives(c)
\* INSERT ... ON CONFLICT (idempotency_key) DO NOTHING waits for uncommitted rows of the
\* same key or id.  The id has a unique index too, without a conflict clause: when both
\* collide, PostgreSQL may report either.
Insert(c) ==
  LET sub == asked[c].sub
  IN /\ At(c, "insert")
     /\ \A other \in Callers \ {c} : At(other, "commit") =>
          asked[other].sub.key # sub.key /\ asked[other].sub.id # sub.id
     /\ \/ SameKey(sub) # {} /\ Moves(c, "reread")
        \/ \E row \in rows : row.sub.id = sub.id /\ Gives(c)   \* IntegrityError
        \/ /\ \A row \in rows : row.sub.key # sub.key /\ row.sub.id # sub.id
           /\ Moves(c, "commit")
Reread(c) == At(c, "reread") /\ Replays(c)
Commit(c) ==
  /\ At(c, "commit")
  /\ LET row == [sub |-> asked[c].sub, created |-> asked[c].created]
     IN rows' = rows \cup {row} /\ Answers(c, asked[c].sub, row)
  /\ asked' = [asked EXCEPT ![c] = NoCall] /\ UNCHANGED <<status, time>>
\* A call is cancelled, or its connection lost, before it commits.
Lost(c) == asked[c] # NoCall /\ Gives(c)

\* A run ends.
RunEnds(run) == /\ status[run] = "running"
                /\ \E end \in {"succeeded", "failed"} : status' = [status EXCEPT ![run] = end]
                /\ UNCHANGED <<rows, time, asked, answers>>
Passes == time < MaxTime /\ time' = time + 1 /\ UNCHANGED <<status, rows, asked, answers>>

FeedbackNext ==
  \/ \E c \in Callers :
       \/ \E sub \in Submissions : Submit(c, sub)
       \/ Lookup(c) \/ Target(c) \/ Parent(c) \/ Insert(c) \/ Reread(c) \/ Commit(c) \/ Lost(c)
  \/ \E run \in Runs : RunEnds(run)
  \/ Passes
FeedbackSpec == FeedbackInit /\ [][FeedbackNext]_feedback
-----------------------------------------------------------------------------
(* Properties.                                                              *)

\* Feedback is kept once per key and id, on a target of a succeeded run; a correction
\* follows a chain of feedback on that target back to a first one; and each answer,
\* however often a submission is sent, is its own stored row.
FeedbackConsistent ==
  /\ \A one, other \in rows :
       one.sub.key = other.sub.key \/ one.sub.id = other.sub.id => one = other
  /\ \A row \in rows :
       /\ status[row.sub.run] = "succeeded" /\ row.sub.target # "foreign"
       /\ row.sub.supersedes # None =>
            \E parent \in rows \ {row} :
              /\ parent.sub.id = row.sub.supersedes
              /\ parent.sub.run = row.sub.run /\ parent.sub.target = row.sub.target
  /\ \A answer \in answers : answer[2] \in rows /\ answer[2].sub = answer[1]

\* search(created_to=cutoff)
Exported(cutoff) == {row \in rows : row.created < cutoff}

\* docs/runbooks/feedback.md: "Offset pagination is not a snapshot; use a fixed
\* created_to cutoff for repeatable exports while submissions continue."  What an
\* export up to a time that has passed shows does not change.
RepeatableExport == [][\A cutoff \in 0 .. time : Exported(cutoff)' = Exported(cutoff)]_feedback
=============================================================================
