------------------------ MODULE MCRuntimeInvocation ------------------------
(* RuntimeInvocation on small instances: invocations that share a key on     *)
(* one thread and across threads, one without a key, and one that conflicts. *)
EXTENDS RuntimeInvocation, TLC

CONSTANTS i1, i2, i3, t1, t2, k1, h1, h2

RetriedRequests == {[thread |-> t1, key |-> k1, hash |-> h1],
                    [thread |-> t1, key |-> NoKey, hash |-> h1]}
KeyedRequests == RetriedRequests \cup {[thread |-> t2, key |-> k1, hash |-> h1],
                                       [thread |-> t2, key |-> k1, hash |-> h2]}
OneRequest == {[thread |-> t1, key |-> k1, hash |-> h1]}

\* What later steps and the properties depend on: not the history in a row, nor
\* the lease of a settled one.
Shown(row) == IF row = NoRow THEN <<>>
              ELSE <<row.status, row.key, row.hash, row.thread,
                     IF ActiveRow(row) THEN row.lease ELSE 0>>
View == <<now, turns, pc, req, due, prior, failure, cleanup, late, answer, ran, asked,
          host, [r \in Runs |-> Shown(rows[r])]>>

\* Leave shutdown() out.
Serving == host' = "up"

Symmetry == Permutations(Runs)
=============================================================================
