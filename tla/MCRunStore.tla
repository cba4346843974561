---------------------------- MODULE MCRunStore ----------------------------
(* RunStore on small instances: two threads, requests that share a key     *)
(* across threads, leases that expire inside the clock's range.            *)
EXTENDS RunStore, TLC

CONSTANTS r1, r2, r3, t1, t2, k1, h1, h2, s1, s2, b1

KeyedRequests ==
  {[thread |-> t1, key |-> k1, hash |-> h1], [thread |-> t2, key |-> k1, hash |-> h1],
   [thread |-> t2, key |-> k1, hash |-> h2], [thread |-> t1, key |-> NoKey, hash |-> h1]}
PlainRequests == {[thread |-> t1, key |-> NoKey, hash |-> h1]}

\* Only the calls that contend for keys and threads.
ClaimTraffic == \A s \in Sessions : call'[s].op \in {"none", "claim", "recover", "sweep"}

Symmetry == Permutations(Sessions) \cup Permutations(Runs)
=============================================================================
