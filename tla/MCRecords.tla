----------------------------- MODULE MCRecords -----------------------------
(***************************************************************************)
(* MemoryStore and FeedbackStore for TLC.  Threads, memory records, the    *)
(* history and feedback share nothing, and are explored one at a time.     *)
(***************************************************************************)
EXTENDS MemoryStore, FeedbackStore, TLC

CONSTANTS s1, s2, k1, run1, run2, f1, f2, f3

Space == {<<"a", 1>>, <<"a", 2>>, <<"a", 3>>, <<"b", 1>>}
\* An original, a conflicting copy, a foreign one, a correction and a correction's
\* correction on another run.
Feedbacks ==
  {[id |-> f1, key |-> 1, run |-> run1, target |-> "message", supersedes |-> None],
   [id |-> f1, key |-> 1, run |-> run1, target |-> "run", supersedes |-> None],
   [id |-> f1, key |-> 2, run |-> run2, target |-> "foreign", supersedes |-> None],
   [id |-> f2, key |-> 2, run |-> run1, target |-> "message", supersedes |-> f1],
   [id |-> f3, key |-> 3, run |-> run2, target |-> "message", supersedes |-> f2]}

MCInit == Init /\ FeedbackInit
MCNext == \/ Next /\ UNCHANGED feedback
          \/ FeedbackNext /\ UNCHANGED vars
MCSpec == MCInit /\ [][MCNext]_<<vars, feedback>>

Symmetry == Permutations(Sessions)
Calling(ops) == \E s \in Sessions : call[s].op \in ops
\* One part at a time.
OnePart ==
  Cardinality({part \in {"threads", "records", "history", "feedback"} :
    CASE part = "threads" -> Calling({"create"}) \/ threads # <<>>
      [] part = "records" -> Calling({"put", "delete", "sweep"}) \/ Stored # {} \/ pages # NoPages
      [] part = "history" -> history # <<>> \/ cursor # NoCursor
      [] part = "feedback" -> ~ FeedbackInit}) <= 1
=============================================================================
