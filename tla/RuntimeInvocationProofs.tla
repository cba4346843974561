----------------------- MODULE RuntimeInvocationProofs -----------------------
(***************************************************************************)
(* Proofs about invocations (module RuntimeInvocation) for every number of *)
(* invocations, threads and keys, every request, timeout and lag of the    *)
(* event loop.                                                             *)
(***************************************************************************)
EXTENDS RuntimeInvocation, TLAPS

-----------------------------------------------------------------------------
(* What every operation of the ledger (module RunLedger) keeps true, for    *)
(* every number of runs, threads and keys.  The ledger is what              *)
(* PostgresRunStore implements and what the runtime is built on.            *)

Statuses == Active \cup Settled \cup {"succeeded"}
Row == [status : Statuses, thread : Threads, key : Keys \cup {NoKey}, hash : Hashes,
        claimed : Nat, lease : Nat, done : Nat \cup {Null},
        code : {"none", "caller", "owner_lease_expired"}]
Authors == Runs \cup HostBatches

LedgerTypeOK == /\ rows \in [Runs -> Row \cup {NoRow}]
                /\ turns \in [Threads -> Seq(Authors)]
                /\ now \in Nat

\* A thread has at most one active run.
OneActive == \A p, q \in Runs :
  ActiveRow(rows[p]) /\ ActiveRow(rows[q]) /\ rows[p].thread = rows[q].thread => p = q

\* A key names at most one run.
OneKey == \A p, q \in Runs, key \in Keys :
  OwnsKey(rows[p], key) /\ OwnsKey(rows[q], key) => p = q

\* A run is claimed in the past, for a while; an active one is not done, and one
\* that succeeded or was settled by its owner was done within its lease.
Punctual == \A r \in Runs : rows[r] # NoRow =>
  /\ rows[r].claimed <= now /\ rows[r].claimed < rows[r].lease
  /\ ActiveRow(rows[r]) <=> rows[r].done = Null
  /\ rows[r].done # Null => rows[r].claimed <= rows[r].done /\ rows[r].done <= now
  /\ rows[r].status = "succeeded" \/ rows[r].code = "caller"
       => rows[r].done < rows[r].lease

\* Batch n of thread t is the only one of its author.
Sole(t, n) == \A x \in Threads : \A m \in 1 .. Len(turns[x]) :
                turns[x][m] = turns[t][n] => x = t /\ m = n
\* No author has two batches, a run's batch is in its own thread, and exactly the
\* runs that succeeded have one.
Conversations ==
  /\ \A t \in Threads : \A n \in 1 .. Len(turns[t]) :
       /\ Sole(t, n)
       /\ turns[t][n] \in Runs => /\ rows[turns[t][n]].status = "succeeded"
                                  /\ rows[turns[t][n]].thread = t
  /\ \A r \in Runs : rows[r].status = "succeeded" =>
       \E n \in 1 .. Len(turns[rows[r].thread]) : turns[rows[r].thread][n] = r

LedgerInv == LedgerTypeOK /\ OneActive /\ OneKey /\ Punctual /\ Conversations

\* What becomes of a run no operation is about: its lease may be found to have run
\* out.
Aged(r, at) == \/ rows'[r] = rows[r]
               \/ Lapsed(rows[r], at) /\ rows'[r] = Lapse(rows[r], at)
\* What no operation changes in a run that exists.
Kept(r) == rows[r] # NoRow =>
  /\ rows'[r] # NoRow
  /\ rows'[r].thread = rows[r].thread /\ rows'[r].key = rows[r].key
  /\ rows'[r].hash = rows[r].hash
  /\ rows'[r].claimed = rows[r].claimed /\ rows'[r].lease = rows[r].lease
  /\ ActiveRow(rows[r]) \/ rows'[r] = rows[r]
-----------------------------------------------------------------------------
(* Rows.                                                                    *)

LEMMA RowFields ==
  ASSUME LedgerTypeOK, NEW r \in Runs
  PROVE  /\ rows[r] = NoRow \/ rows[r] \in Row
         /\ rows[r] = NoRow <=> rows[r].status = "absent"
         /\ ActiveRow(rows[r]) => rows[r] \in Row
BY DEF LedgerTypeOK, Row, NoRow, Statuses, Active, Settled, ActiveRow

LEMMA RowFieldsNext ==
  ASSUME LedgerTypeOK', NEW r \in Runs
  PROVE  /\ rows'[r] = NoRow \/ rows'[r] \in Row
         /\ rows'[r] = NoRow <=> rows'[r].status = "absent"
         /\ ActiveRow(rows'[r]) => rows'[r] \in Row
BY DEF LedgerTypeOK, Row, NoRow, Statuses, Active, Settled, ActiveRow

LEMMA LapseRow ==
  ASSUME NEW row \in Row, NEW at \in Nat
  PROVE  LET new == Lapse(row, at)
         IN /\ new \in Row
            /\ new.status = "failed" /\ new.done = at
            /\ new.code = "owner_lease_expired"
            /\ new.thread = row.thread /\ new.key = row.key /\ new.hash = row.hash
            /\ new.claimed = row.claimed /\ new.lease = row.lease
BY DEF Row, Lapse, Statuses, Active, Settled

\* A row with another end.
Rewritten(row, status, code, at) ==
  [row EXCEPT !.status = status, !.code = code, !.done = at]

LEMMA RewrittenRow ==
  ASSUME NEW row \in Row, NEW status \in Statuses, NEW at \in Nat,
         NEW code \in {"none", "caller", "owner_lease_expired"}
  PROVE  LET new == Rewritten(row, status, code, at)
         IN /\ new \in Row
            /\ new.status = status /\ new.done = at /\ new.code = code
            /\ new.thread = row.thread /\ new.key = row.key /\ new.hash = row.hash
            /\ new.claimed = row.claimed /\ new.lease = row.lease
BY DEF Row, Rewritten

\* What the rewrite of a run that exists changes in a row, if it changes it at all.
LEMMA KeptRow ==
  ASSUME LedgerTypeOK, NEW r \in Runs, NEW at \in Nat, Aged(r, at)
  PROVE  /\ Kept(r) /\ rows'[r] \in Row \cup {NoRow}
         /\ rows[r] = NoRow => rows'[r] = NoRow
         /\ ActiveRow(rows'[r]) => rows'[r] = rows[r]
         /\ rows'[r].status = "succeeded" => rows'[r] = rows[r]
<1>1. CASE rows'[r] = rows[r]
  BY <1>1 DEF Kept, LedgerTypeOK
<1>2. CASE Lapsed(rows[r], at) /\ rows'[r] = Lapse(rows[r], at)
  <2>1. rows[r] \in Row /\ ActiveRow(rows[r])
    BY <1>2, RowFields DEF Lapsed
  <2>2. rows'[r] \in Row /\ rows'[r].status = "failed" /\ rows'[r] # NoRow
    BY <1>2, <2>1, LapseRow DEF NoRow
  <2>3. Kept(r)
    BY <1>2, <2>1, <2>2, LapseRow DEF Kept
  <2>4. QED BY <2>1, <2>2, <2>3, RowFields DEF ActiveRow, Active
<1>3. QED BY <1>1, <1>2 DEF Aged

\* An operation that creates no run, makes none active and none succeed.
LEMMA Rewriting ==
  ASSUME LedgerInv, LedgerTypeOK', UNCHANGED <<turns, now>>,
         \A q \in Runs : /\ Kept(q)
                         /\ rows[q] = NoRow => rows'[q] = NoRow
                         /\ ActiveRow(rows'[q]) => ActiveRow(rows[q])
                         /\ rows'[q].status = "succeeded" <=> rows[q].status = "succeeded"
  PROVE  OneActive' /\ OneKey' /\ Conversations'
<1>0. \A q \in Runs : /\ rows'[q] = NoRow <=> rows[q] = NoRow
                      /\ rows[q] # NoRow => /\ rows'[q].thread = rows[q].thread
                                            /\ rows'[q].key = rows[q].key
  BY DEF Kept
<1>1. \A q \in Runs : rows'[q].status # "absent" <=> rows[q].status # "absent"
  BY <1>0, RowFields, RowFieldsNext DEF LedgerInv
<1>2. \A q \in Runs : ActiveRow(rows[q]) => rows[q] # NoRow
  BY DEF ActiveRow, Active, NoRow
<1>3. OneActive'
  BY <1>0, <1>2 DEF OneActive, LedgerInv, ActiveRow
<1>4. OneKey'
  BY <1>0, <1>1, RowFields DEF OneKey, LedgerInv, OwnsKey
<1>5. Conversations'
  <2>1. \A r \in Runs : rows'[r].status = "succeeded"
            => rows[r].status = "succeeded" /\ rows'[r].thread = rows[r].thread
    BY <1>0 DEF NoRow
  <2>2. \A r \in Runs : rows[r].status = "succeeded"
            => rows'[r].status = "succeeded" /\ rows'[r].thread = rows[r].thread
    BY <1>0 DEF NoRow
  <2>3. \A t \in Threads : \A n \in 1 .. Len(turns[t]) : Sole(t, n) => Sole(t, n)'
    BY DEF Sole
  <2>4. \A t \in Threads : \A n \in 1 .. Len(turns'[t]) :
           /\ Sole(t, n)'
           /\ turns'[t][n] \in Runs => /\ rows'[turns'[t][n]].status = "succeeded"
                                       /\ rows'[turns'[t][n]].thread = t
    BY <2>2, <2>3 DEF Conversations, LedgerInv
  <2>5. \A r \in Runs : rows'[r].status = "succeeded" =>
           \E n \in 1 .. Len(turns'[rows'[r].thread]) : turns'[rows'[r].thread][n] = r
    BY <2>1 DEF Conversations, LedgerInv
  <2>6. QED BY <2>4, <2>5 DEF Conversations
<1>6. QED BY <1>3, <1>4, <1>5

LEMMA LapsePunctual ==
  ASSUME LedgerInv, NEW r \in Runs, NEW at \in 0 .. now, Aged(r, at), now' = now,
         rows'[r] # NoRow
  PROVE  /\ rows'[r].claimed <= now /\ rows'[r].claimed < rows'[r].lease
         /\ ActiveRow(rows'[r]) <=> rows'[r].done = Null
         /\ rows'[r].done # Null => /\ rows'[r].claimed <= rows'[r].done
                                    /\ rows'[r].done <= now
         /\ rows'[r].status = "succeeded" \/ rows'[r].code = "caller"
              => rows'[r].done < rows'[r].lease
<1>1. CASE rows'[r] = rows[r]
  BY <1>1 DEF LedgerInv, Punctual
<1>2. CASE Lapsed(rows[r], at) /\ rows'[r] = Lapse(rows[r], at)
  <2>1. /\ rows[r] \in Row /\ rows[r] # NoRow /\ rows[r].lease <= at /\ at \in Nat
        /\ now \in Nat
    BY <1>2, RowFields DEF Lapsed, LedgerInv, LedgerTypeOK, NoRow, ActiveRow, Active
  <2>2. rows[r].claimed <= now /\ rows[r].claimed < rows[r].lease
    BY <2>1 DEF LedgerInv, Punctual
  <2>3. /\ rows'[r].claimed = rows[r].claimed /\ rows'[r].lease = rows[r].lease
        /\ rows'[r].done = at /\ rows'[r].status = "failed"
        /\ rows'[r].code = "owner_lease_expired"
    BY <1>2, <2>1, LapseRow
  <2>4. rows[r].claimed \in Nat /\ rows[r].lease \in Nat
    BY <2>1 DEF Row
  <2>5. QED BY <2>1, <2>2, <2>3, <2>4 DEF ActiveRow, Active, Null
<1>3. QED BY <1>1, <1>2 DEF Aged
-----------------------------------------------------------------------------
(* Operations.                                                              *)

LEMMA RunKeeps ==
  ASSUME LedgerInv, NEW r \in Runs, NEW at \in 0 .. now, Run(r, at)
  PROVE  /\ LedgerInv' /\ rows'[r].status = "running" /\ Kept(r)
         /\ \A q \in Runs \ {r} : rows'[q] = rows[q]
<1>1. rows[r] \in Row /\ ActiveRow(rows[r]) /\ rows[r] # NoRow
  BY RowFields DEF Run, ActiveRow, Active, LedgerInv
<1>2. /\ rows'[r] = [rows[r] EXCEPT !.status = "running"]
      /\ \A q \in Runs \ {r} : rows'[q] = rows[q]
  BY DEF Run, LedgerInv, LedgerTypeOK
<1>3. /\ rows'[r] \in Row /\ rows'[r].status = "running"
      /\ rows'[r].thread = rows[r].thread /\ rows'[r].key = rows[r].key
      /\ rows'[r].hash = rows[r].hash /\ rows'[r].claimed = rows[r].claimed
      /\ rows'[r].lease = rows[r].lease /\ rows'[r].done = rows[r].done
      /\ rows'[r].code = rows[r].code
  BY <1>1, <1>2 DEF Row, Statuses, Active
<1>4. ActiveRow(rows'[r]) /\ rows'[r] # NoRow
  BY <1>3 DEF ActiveRow, Active, NoRow
<1>5. LedgerTypeOK'
  BY <1>2, <1>3 DEF Run, LedgerInv, LedgerTypeOK
<1>6. Punctual'
  BY <1>1, <1>2, <1>3, <1>4 DEF Run, LedgerInv, Punctual
<1>7. Kept(r)
  BY <1>1, <1>3, <1>4 DEF Kept
<1>8. \A q \in Runs : /\ Kept(q) /\ (rows[q] = NoRow => rows'[q] = NoRow)
                      /\ ActiveRow(rows'[q]) => ActiveRow(rows[q])
                      /\ rows'[q].status = "succeeded" <=> rows[q].status = "succeeded"
  BY <1>1, <1>2, <1>3, <1>7 DEF Kept, Run
<1>9. QED BY <1>2, <1>3, <1>5, <1>6, <1>7, <1>8, Rewriting DEF Run, LedgerInv

LEMMA SettleKeeps ==
  ASSUME LedgerInv, NEW r \in Runs, NEW status \in Settled, NEW at \in 0 .. now,
         Settle(r, status, at)
  PROVE  /\ LedgerInv' /\ rows'[r].status = status /\ Kept(r)
         /\ \A q \in Runs \ {r} : rows'[q] = rows[q]
<1>1. /\ rows[r] \in Row /\ ActiveRow(rows[r]) /\ rows[r] # NoRow
      /\ rows[r].claimed <= at /\ at < rows[r].lease
  BY RowFields DEF Settle, ActiveRow, Active, LedgerInv, NoRow
<1>2. /\ rows'[r] = [rows[r] EXCEPT !.status = status, !.code = "caller", !.done = at]
      /\ \A q \in Runs \ {r} : rows'[q] = rows[q]
  BY DEF Settle, LedgerInv, LedgerTypeOK
<1>3. /\ rows'[r] \in Row /\ rows'[r].status = status
      /\ rows'[r].thread = rows[r].thread /\ rows'[r].key = rows[r].key
      /\ rows'[r].hash = rows[r].hash /\ rows'[r].claimed = rows[r].claimed
      /\ rows'[r].lease = rows[r].lease /\ rows'[r].done = at
      /\ rows'[r].code = "caller"
  <2>1. at \in Nat
    BY DEF LedgerInv, LedgerTypeOK
  <2>2. rows'[r] = Rewritten(rows[r], status, "caller", at)
    BY <1>2 DEF Rewritten
  <2>3. rows[r] \in Row /\ status \in Statuses
    BY <1>1 DEF Statuses
  <2>4. QED BY <2>1, <2>2, <2>3, RewrittenRow
<1>4. /\ ~ ActiveRow(rows'[r]) /\ rows'[r] # NoRow /\ rows'[r].status # "succeeded"
      /\ rows[r].status # "succeeded" /\ at # Null /\ at \in Nat /\ at <= now
  BY <1>1, <1>3 DEF ActiveRow, Active, NoRow, Settled, Null, LedgerInv, LedgerTypeOK
<1>5. LedgerTypeOK'
  BY <1>2, <1>3 DEF Settle, LedgerInv, LedgerTypeOK
<1>6. Punctual'
  <2>1. SUFFICES ASSUME NEW q \in Runs, rows'[q] # NoRow
        PROVE  /\ rows'[q].claimed <= now /\ rows'[q].claimed < rows'[q].lease
               /\ ActiveRow(rows'[q]) <=> rows'[q].done = Null
               /\ rows'[q].done # Null => /\ rows'[q].claimed <= rows'[q].done
                                          /\ rows'[q].done <= now
               /\ rows'[q].status = "succeeded" \/ rows'[q].code = "caller"
                    => rows'[q].done < rows'[q].lease
    BY DEF Punctual, Settle
  <2>2. CASE q = r
    BY <1>1, <1>3, <1>4, <2>2 DEF LedgerInv, Punctual
  <2>3. CASE q # r
    BY <1>2, <2>1, <2>3 DEF LedgerInv, Punctual
  <2>4. QED BY <2>2, <2>3
<1>7. Kept(r)
  BY <1>1, <1>3, <1>4 DEF Kept
<1>8. \A q \in Runs : /\ Kept(q) /\ (rows[q] = NoRow => rows'[q] = NoRow)
                      /\ ActiveRow(rows'[q]) => ActiveRow(rows[q])
                      /\ rows'[q].status = "succeeded" <=> rows[q].status = "succeeded"
  BY <1>1, <1>2, <1>4, <1>7 DEF Kept
<1>9. QED BY <1>2, <1>3, <1>5, <1>6, <1>7, <1>8, Rewriting DEF Settle, LedgerInv

LEMMA ExpireKeeps ==
  ASSUME LedgerInv, NEW r \in Runs, NEW at \in 0 .. now, Expire(r, at)
  PROVE  /\ LedgerInv' /\ \A q \in Runs : Aged(q, at) /\ Kept(q)
         /\ \A q \in Runs \ {r} : rows'[q] = rows[q]
         /\ rows'[r].status = "failed"
<1>1. /\ \A q \in Runs : Aged(q, at)
      /\ \A q \in Runs \ {r} : rows'[q] = rows[q]
  BY DEF Expire, Aged, LedgerInv, LedgerTypeOK
<1>2. at \in Nat /\ UNCHANGED <<turns, now>>
  BY DEF Expire, LedgerInv, LedgerTypeOK
<1>3. /\ \A q \in Runs : /\ Kept(q) /\ rows'[q] \in Row \cup {NoRow}
                         /\ (rows[q] = NoRow => rows'[q] = NoRow)
                         /\ ActiveRow(rows'[q]) => ActiveRow(rows[q])
                         /\ rows'[q].status = "succeeded" => rows[q].status = "succeeded"
  BY <1>1, KeptRow DEF LedgerInv
<1>4. \A q \in Runs : rows[q].status = "succeeded" => rows'[q].status = "succeeded"
  BY <1>1 DEF Aged, Lapsed, ActiveRow, Active
<1>5. LedgerTypeOK'
  BY <1>2, <1>3 DEF Expire, LedgerInv, LedgerTypeOK
<1>6. Punctual'
  BY <1>1, <1>2, LapsePunctual DEF Punctual
<1>7. rows'[r].status = "failed"
  BY <1>2, LapseRow, RowFields DEF Expire, Lapsed, LedgerInv, LedgerTypeOK
<1>8. QED BY <1>1, <1>2, <1>3, <1>4, <1>5, <1>6, <1>7, Rewriting DEF LedgerInv

\* The row of a run that has just taken its thread.
TakenRow(t, key, hash, ttl, at) ==
  [status |-> "accepted", thread |-> t, key |-> key, hash |-> hash,
   claimed |-> at, lease |-> at + ttl, done |-> Null, code |-> "none"]

LEMMA TakeKeeps ==
  ASSUME LedgerInv, NEW r \in Runs, NEW t \in Threads, NEW key \in Keys \cup {NoKey},
         NEW hash \in Hashes, NEW ttl \in Nat \ {0}, NEW at \in 0 .. now,
         Take(r, t, key, hash, ttl, at)
  PROVE  /\ LedgerInv' /\ rows'[r] = TakenRow(t, key, hash, ttl, at)
         /\ \A q \in Runs \ {r} : Aged(q, at)
         /\ \A q \in Runs : Kept(q)
<1> DEFINE new == TakenRow(t, key, hash, ttl, at)
<1>1. at \in Nat /\ at + ttl \in Nat /\ at < at + ttl /\ now \in Nat /\ at <= now
  BY DEF LedgerInv, LedgerTypeOK
<1>2. /\ new \in Row /\ new # NoRow /\ ActiveRow(new) /\ new.thread = t
      /\ new.key = key /\ new.status = "accepted" /\ new.code = "none"
      /\ new.done = Null /\ new.claimed = at /\ new.lease = at + ttl
  BY <1>1 DEF TakenRow, Row, Statuses, Active, NoRow, ActiveRow
<1>3. /\ rows'[r] = new
      /\ \A q \in Runs \ {r} :
           rows'[q] = IF q \in Occupants(t) THEN Lapse(rows[q], at) ELSE rows[q]
      /\ UNCHANGED <<turns, now>> /\ DOMAIN rows' = Runs
      /\ rows' = [q \in Runs |-> rows'[q]]
  BY DEF Take, TakenRow
<1>4. \A q \in Runs \ {r} : Aged(q, at)
  BY <1>3 DEF Take, Aged
<1>5. \A q \in Runs \ {r} :
         /\ Kept(q) /\ rows'[q] \in Row \cup {NoRow}
         /\ rows[q] = NoRow => rows'[q] = NoRow
         /\ ActiveRow(rows'[q]) => rows'[q] = rows[q]
         /\ rows'[q].status = "succeeded" => rows'[q] = rows[q]
  BY <1>1, <1>4, KeptRow DEF LedgerInv
<1>6. rows[r] = NoRow /\ Kept(r)
  BY DEF Take, Kept
<1>7. LedgerTypeOK'
  BY <1>2, <1>3, <1>5 DEF LedgerInv, LedgerTypeOK
<1>8. Punctual'
  <2>1. SUFFICES ASSUME NEW q \in Runs, rows'[q] # NoRow
        PROVE  /\ rows'[q].claimed <= now /\ rows'[q].claimed < rows'[q].lease
               /\ ActiveRow(rows'[q]) <=> rows'[q].done = Null
               /\ rows'[q].done # Null => /\ rows'[q].claimed <= rows'[q].done
                                          /\ rows'[q].done <= now
               /\ rows'[q].status = "succeeded" \/ rows'[q].code = "caller"
                    => rows'[q].done < rows'[q].lease
    BY <1>3 DEF Punctual
  <2>2. CASE q = r
    BY <1>1, <1>2, <1>3, <2>2
  <2>3. CASE q # r
    BY <1>1, <1>3, <1>4, <2>1, <2>3, LapsePunctual
  <2>4. QED BY <2>2, <2>3
<1>9. OneActive'
  <2>1. SUFFICES ASSUME NEW p \in Runs, NEW q \in Runs, ActiveRow(rows'[p]),
                        ActiveRow(rows'[q]), rows'[p].thread = rows'[q].thread
        PROVE  p = q
    BY DEF OneActive
  <2>2. ASSUME NEW o \in Runs, o # r, ActiveRow(rows'[o])
        PROVE  rows'[o] = rows[o] /\ rows[o].thread # t
    <3>1. rows'[o] = rows[o] /\ ActiveRow(rows[o])
      BY <1>5, <2>2
    <3>2. o \in Occupants(t) => rows'[o].status = "failed"
      BY <1>1, <1>3, <2>2, <3>1, LapseRow, RowFields DEF LedgerInv
    <3>3. QED BY <2>2, <3>1, <3>2 DEF Occupants, ActiveRow, Active
  <2>3. CASE p = r \/ q = r
    BY <1>2, <1>3, <2>1, <2>2, <2>3
  <2>4. CASE p # r /\ q # r
    BY <2>1, <2>2, <2>4 DEF LedgerInv, OneActive
  <2>5. QED BY <2>3, <2>4
<1>10. OneKey'
  <2>1. SUFFICES ASSUME NEW p \in Runs, NEW q \in Runs, NEW k \in Keys,
                        OwnsKey(rows'[p], k), OwnsKey(rows'[q], k)
        PROVE  p = q
    BY DEF OneKey
  <2>2. ASSUME NEW o \in Runs, o # r, OwnsKey(rows'[o], k)
        PROVE  OwnsKey(rows[o], k)
    <3>1. rows'[o] # NoRow
      BY <2>2 DEF OwnsKey, NoRow
    <3>2. rows[o] # NoRow /\ rows'[o].key = rows[o].key
      BY <1>5, <2>2, <3>1 DEF Kept
    <3>3. QED BY <2>2, <3>2, RowFields DEF OwnsKey, LedgerInv
  <2>3. ASSUME NEW o \in Runs, o # r, OwnsKey(rows'[o], k)
        PROVE  ~ OwnsKey(rows'[r], k)
    <3>1. OwnsKey(rows[o], key) => FALSE
      BY DEF Take, WithKey
    <3>2. rows'[r].key = key
      BY <1>2, <1>3
    <3>3. QED BY <2>2, <2>3, <3>1, <3>2 DEF OwnsKey
  <2>4. CASE p = r \/ q = r
    BY <2>1, <2>3, <2>4
  <2>5. CASE p # r /\ q # r
    BY <2>1, <2>2, <2>5 DEF LedgerInv, OneKey
  <2>6. QED BY <2>4, <2>5
<1>11. Conversations'
  <2>1. \A q \in Runs : rows'[q].status = "succeeded" => rows'[q] = rows[q]
    BY <1>2, <1>3, <1>5
  <2>2. \A q \in Runs : rows[q].status = "succeeded" => rows'[q] = rows[q]
    BY <1>4, <1>6 DEF Aged, Lapsed, ActiveRow, Active, NoRow
  <2>3. \A x \in Threads : \A n \in 1 .. Len(turns[x]) : Sole(x, n) => Sole(x, n)'
    BY <1>3 DEF Sole
  <2>4. \A x \in Threads : \A n \in 1 .. Len(turns'[x]) :
           /\ Sole(x, n)'
           /\ turns'[x][n] \in Runs => /\ rows'[turns'[x][n]].status = "succeeded"
                                       /\ rows'[turns'[x][n]].thread = x
    BY <1>3, <2>2, <2>3 DEF Conversations, LedgerInv
  <2>5. \A q \in Runs : rows'[q].status = "succeeded" =>
           \E n \in 1 .. Len(turns'[rows'[q].thread]) : turns'[rows'[q].thread][n] = q
    BY <1>3, <2>1 DEF Conversations, LedgerInv
  <2>6. QED BY <2>4, <2>5 DEF Conversations
<1>12. QED BY <1>3, <1>4, <1>5, <1>6, <1>7, <1>8, <1>9, <1>10, <1>11 DEF LedgerInv

\* Another batch at the end of one thread, by an author that has none.
Appended(t, b) ==
  /\ turns' \in [Threads -> Seq(Authors)]
  /\ \A x \in Threads : \A n \in 1 .. Len(turns'[x]) :
       /\ Sole(x, n)'
       /\ \/ n \in 1 .. Len(turns[x]) /\ turns'[x][n] = turns[x][n]
          \/ x = t /\ turns'[x][n] = b
  /\ \A x \in Threads : \A n \in 1 .. Len(turns[x]) :
       n \in 1 .. Len(turns'[x]) /\ turns'[x][n] = turns[x][n]
  /\ \E n \in 1 .. Len(turns'[t]) : turns'[t][n] = b

LEMMA AppendBatch ==
  ASSUME LedgerInv, NEW t \in Threads, NEW b \in Authors,
         \A x \in Threads : \A n \in 1 .. Len(turns[x]) : turns[x][n] # b,
         turns' = [turns EXCEPT ![t] = Append(@, b)]
  PROVE  Appended(t, b)
<1> DEFINE last == Len(turns[t]) + 1
<1>1. turns \in [Threads -> Seq(Authors)]
  BY DEF LedgerInv, LedgerTypeOK
<1>2. \A x \in Threads : /\ turns[x] \in Seq(Authors) /\ Len(turns[x]) \in Nat
  BY <1>1
<1>3. /\ turns'[t] = Append(turns[t], b)
      /\ \A x \in Threads \ {t} : turns'[x] = turns[x]
  BY <1>1
<1>4. /\ turns'[t] \in Seq(Authors) /\ Len(turns'[t]) = last /\ turns'[t][last] = b
      /\ \A n \in 1 .. Len(turns[t]) : turns'[t][n] = turns[t][n]
  BY <1>2, <1>3
<1>5. turns' \in [Threads -> Seq(Authors)]
  BY <1>1, <1>4
<1>6. \A x \in Threads : \A n \in 1 .. Len(turns'[x]) :
        \/ n \in 1 .. Len(turns[x]) /\ turns'[x][n] = turns[x][n]
        \/ x = t /\ n = last /\ turns'[x][n] = b
  BY <1>2, <1>3, <1>4
<1>7. \A x \in Threads : \A n \in 1 .. Len(turns[x]) :
        n \in 1 .. Len(turns'[x]) /\ turns'[x][n] = turns[x][n]
  BY <1>2, <1>3, <1>4
<1>8. \A x \in Threads : \A n \in 1 .. Len(turns'[x]) : Sole(x, n)'
  <2>1. SUFFICES ASSUME NEW x \in Threads, NEW n \in 1 .. Len(turns'[x]),
                        NEW y \in Threads, NEW m \in 1 .. Len(turns'[y]),
                        turns'[y][m] = turns'[x][n]
        PROVE  y = x /\ m = n
    BY DEF Sole
  <2>2. CASE n \in 1 .. Len(turns[x]) /\ turns'[x][n] = turns[x][n]
    BY <1>6, <2>1, <2>2 DEF LedgerInv, Conversations, Sole
  <2>3. CASE x = t /\ n = last /\ turns'[x][n] = b
    BY <1>6, <2>1, <2>3
  <2>4. QED BY <1>6, <2>2, <2>3
<1>9. last \in 1 .. Len(turns'[t])
  BY <1>2, <1>4
<1>10. QED BY <1>4, <1>5, <1>6, <1>7, <1>8, <1>9 DEF Appended

LEMMA FinishKeeps ==
  ASSUME LedgerInv, NEW r \in Runs, NEW at \in 0 .. now, Finish(r, at)
  PROVE  /\ LedgerInv' /\ rows'[r].status = "succeeded" /\ Kept(r)
         /\ \A q \in Runs \ {r} : rows'[q] = rows[q]
<1> DEFINE t == rows[r].thread
<1>1. /\ rows[r] \in Row /\ ActiveRow(rows[r]) /\ rows[r] # NoRow
      /\ rows[r].claimed <= at /\ at < rows[r].lease /\ rows[r].status = "running"
  BY RowFields DEF Finish, ActiveRow, Active, LedgerInv, NoRow
<1>2. /\ rows'[r] = [rows[r] EXCEPT !.status = "succeeded", !.done = at]
      /\ \A q \in Runs \ {r} : rows'[q] = rows[q]
      /\ rows' = [q \in Runs |-> rows'[q]]
  BY DEF Finish, LedgerInv, LedgerTypeOK
<1>3. at \in Nat /\ now \in Nat /\ at <= now /\ at # Null /\ now' = now
  BY DEF LedgerInv, LedgerTypeOK, Null, Finish
<1>4. /\ rows'[r] \in Row /\ rows'[r].status = "succeeded"
      /\ rows'[r].thread = rows[r].thread /\ rows'[r].key = rows[r].key
      /\ rows'[r].hash = rows[r].hash /\ rows'[r].claimed = rows[r].claimed
      /\ rows'[r].lease = rows[r].lease /\ rows'[r].done = at
  <2>1. rows'[r] = Rewritten(rows[r], "succeeded", rows[r].code, at)
    BY <1>1, <1>2 DEF Rewritten, Row
  <2>2. /\ "succeeded" \in Statuses
        /\ rows[r].code \in {"none", "caller", "owner_lease_expired"}
    BY <1>1 DEF Statuses, Row
  <2>3. at \in Nat /\ rows[r] \in Row
    BY <1>1, <1>3
  <2>4. QED BY <2>1, <2>2, <2>3, RewrittenRow
<1>5. ~ ActiveRow(rows'[r]) /\ rows'[r] # NoRow
  BY <1>4 DEF ActiveRow, Active, NoRow
<1>6. Kept(r)
  BY <1>1, <1>4, <1>5 DEF Kept
<1>7. \A q \in Runs : Kept(q) /\ (rows[q] = NoRow => rows'[q] = NoRow)
  BY <1>1, <1>2, <1>6 DEF Kept
<1>8. Punctual'
  <2>1. SUFFICES ASSUME NEW q \in Runs, rows'[q] # NoRow
        PROVE  /\ rows'[q].claimed <= now /\ rows'[q].claimed < rows'[q].lease
               /\ ActiveRow(rows'[q]) <=> rows'[q].done = Null
               /\ rows'[q].done # Null => /\ rows'[q].claimed <= rows'[q].done
                                          /\ rows'[q].done <= now
               /\ rows'[q].status = "succeeded" \/ rows'[q].code = "caller"
                    => rows'[q].done < rows'[q].lease
    BY <1>3 DEF Punctual
  <2>2. CASE q = r
    BY <1>1, <1>3, <1>4, <1>5, <2>2 DEF LedgerInv, Punctual
  <2>3. CASE q # r
    BY <1>2, <2>1, <2>3 DEF LedgerInv, Punctual
  <2>4. QED BY <2>2, <2>3
<1>9. OneActive'
  BY <1>2, <1>5 DEF OneActive, LedgerInv
<1>10. OneKey'
  <2>1. \A q \in Runs, k \in Keys : OwnsKey(rows'[q], k) => OwnsKey(rows[q], k)
    BY <1>1, <1>2, <1>4 DEF OwnsKey
  <2>2. QED BY <2>1 DEF OneKey, LedgerInv
<1>11. t \in Threads /\ r \in Authors /\ turns' = [turns EXCEPT ![t] = Append(@, r)]
  BY <1>1 DEF Row, Authors, Finish
<1>12. \A x \in Threads : \A n \in 1 .. Len(turns[x]) : turns[x][n] # r
  BY <1>1 DEF LedgerInv, Conversations
<1>13. Appended(t, r)
  BY <1>11, <1>12, AppendBatch
<1>14. LedgerTypeOK'
  BY <1>2, <1>3, <1>4, <1>13 DEF LedgerInv, LedgerTypeOK, Appended
<1>15. Conversations'
  <2>1. \A x \in Threads : \A n \in 1 .. Len(turns'[x]) :
           /\ Sole(x, n)'
           /\ turns'[x][n] \in Runs => /\ rows'[turns'[x][n]].status = "succeeded"
                                       /\ rows'[turns'[x][n]].thread = x
    <3>1. SUFFICES ASSUME NEW x \in Threads, NEW n \in 1 .. Len(turns'[x])
          PROVE  /\ Sole(x, n)'
                 /\ turns'[x][n] \in Runs => /\ rows'[turns'[x][n]].status = "succeeded"
                                             /\ rows'[turns'[x][n]].thread = x
      OBVIOUS
    <3>2. /\ Sole(x, n)'
          /\ \/ n \in 1 .. Len(turns[x]) /\ turns'[x][n] = turns[x][n]
             \/ x = t /\ turns'[x][n] = r
      BY <1>13 DEF Appended
    <3>3. CASE n \in 1 .. Len(turns[x]) /\ turns'[x][n] = turns[x][n]
      <4>1. turns[x][n] \in Runs => /\ rows[turns[x][n]].status = "succeeded"
                                    /\ rows[turns[x][n]].thread = x
        BY <3>3 DEF LedgerInv, Conversations
      <4>2. QED BY <1>2, <1>12, <3>2, <3>3, <4>1
    <3>4. CASE x = t /\ turns'[x][n] = r
      BY <1>4, <3>2, <3>4
    <3>5. QED BY <3>2, <3>3, <3>4
  <2>2. ASSUME NEW q \in Runs, rows'[q].status = "succeeded"
        PROVE  \E n \in 1 .. Len(turns'[rows'[q].thread]) : turns'[rows'[q].thread][n] = q
    <3>1. CASE q = r
      BY <1>4, <1>13, <3>1 DEF Appended
    <3>2. CASE q # r
      <4>1. rows'[q] = rows[q] /\ rows[q] # NoRow /\ rows[q].thread \in Threads
        BY <1>2, <2>2, <3>2, RowFields DEF LedgerInv, NoRow, Row
      <4>2. PICK n \in 1 .. Len(turns[rows[q].thread]) : turns[rows[q].thread][n] = q
        BY <2>2, <4>1 DEF LedgerInv, Conversations
      <4>3. QED BY <1>13, <4>1, <4>2 DEF Appended
    <3>3. QED BY <3>1, <3>2
  <2>3. QED BY <2>1, <2>2 DEF Conversations
<1>16. QED BY <1>2, <1>4, <1>6, <1>8, <1>9, <1>10, <1>14, <1>15 DEF LedgerInv

LEMMA PostKeeps ==
  ASSUME LedgerInv, NEW t \in Threads, NEW b \in HostBatches, Post(t, b)
  PROVE  LedgerInv'
<1>1. /\ b \in Authors /\ turns' = [turns EXCEPT ![t] = Append(@, b)]
      /\ UNCHANGED <<rows, now>>
      /\ \A x \in Threads : \A n \in 1 .. Len(turns[x]) : turns[x][n] # b
  BY DEF Post, Authors
<1>2. b \notin Runs /\ Appended(t, b)
  BY <1>1, LedgerAssumption, AppendBatch
<1>3. LedgerTypeOK' /\ OneActive' /\ OneKey' /\ Punctual'
  BY <1>1, <1>2 DEF Appended, LedgerInv, LedgerTypeOK, OneActive, OneKey, Punctual
<1>4. \A x \in Threads : \A n \in 1 .. Len(turns'[x]) :
         /\ Sole(x, n)'
         /\ turns'[x][n] \in Runs => /\ rows'[turns'[x][n]].status = "succeeded"
                                     /\ rows'[turns'[x][n]].thread = x
  <2>1. SUFFICES ASSUME NEW x \in Threads, NEW n \in 1 .. Len(turns'[x])
        PROVE  /\ Sole(x, n)'
               /\ turns'[x][n] \in Runs => /\ rows'[turns'[x][n]].status = "succeeded"
                                           /\ rows'[turns'[x][n]].thread = x
    OBVIOUS
  <2>2. /\ Sole(x, n)'
        /\ \/ n \in 1 .. Len(turns[x]) /\ turns'[x][n] = turns[x][n]
           \/ x = t /\ turns'[x][n] = b
    BY <1>2 DEF Appended
  <2>3. QED BY <1>1, <1>2, <2>2 DEF LedgerInv, Conversations
<1>5. ASSUME NEW q \in Runs, rows'[q].status = "succeeded"
      PROVE  \E n \in 1 .. Len(turns'[rows'[q].thread]) : turns'[rows'[q].thread][n] = q
  <2>1. rows'[q] = rows[q] /\ rows[q].thread \in Threads
    BY <1>1, <1>5, RowFields DEF LedgerInv, NoRow, Row
  <2>2. PICK n \in 1 .. Len(turns[rows[q].thread]) : turns[rows[q].thread][n] = q
    BY <1>5, <2>1 DEF LedgerInv, Conversations
  <2>3. QED BY <1>1, <1>2, <2>1, <2>2 DEF Appended
<1>6. QED BY <1>3, <1>4, <1>5 DEF LedgerInv, Conversations

LEMMA PassKeeps == ASSUME LedgerInv, Pass PROVE LedgerInv'
<1>1. now \in Nat /\ now' = now + 1 /\ now <= now' /\ UNCHANGED <<rows, turns>>
  BY DEF Pass, LedgerInv, LedgerTypeOK
<1>2. LedgerTypeOK' /\ OneActive' /\ OneKey' /\ Conversations'
  BY <1>1 DEF LedgerInv, LedgerTypeOK, OneActive, OneKey, Conversations, Sole
<1>3. \A r \in Runs : rows[r] # NoRow =>
        rows[r].claimed \in Nat /\ rows[r].done \in Nat \cup {Null}
  BY RowFields DEF LedgerInv, Row
<1>4. Punctual'
  BY <1>1, <1>3 DEF LedgerInv, Punctual, Null
<1>5. QED BY <1>2, <1>4 DEF LedgerInv
-----------------------------------------------------------------------------
LEMMA LedgerStarts == LedgerInit => LedgerInv
<1> SUFFICES ASSUME LedgerInit PROVE LedgerInv
  OBVIOUS
<1>1. \A r \in Runs : rows[r] = NoRow /\ ~ ActiveRow(rows[r])
                      /\ rows[r].status = "absent"
  BY DEF LedgerInit, NoRow, ActiveRow, Active
<1>2. \A t \in Threads : turns[t] = <<>> /\ Len(turns[t]) = 0
  BY DEF LedgerInit
<1>3. LedgerTypeOK
  BY DEF LedgerInit, LedgerTypeOK
<1>4. OneActive /\ OneKey /\ Punctual
  BY <1>1 DEF OneActive, OneKey, Punctual, OwnsKey
<1>5. Conversations
  BY <1>1, <1>2 DEF Conversations
<1>6. QED BY <1>3, <1>4, <1>5 DEF LedgerInv

\* The abstract store keeps its promises in every state it can reach: one active
\* run in a thread, one run under a key, no operation outside its lease, and each
\* success in its own thread's conversation exactly once (claim(), complete() and
\* fail_if_running() of the RunStore protocol).
THEOREM LedgerInvariance == LedgerSpec => []LedgerInv
<1>1. LedgerInv /\ [LedgerNext]_ledger => LedgerInv'
  <2> SUFFICES ASSUME LedgerInv, [LedgerNext]_ledger PROVE LedgerInv'
    OBVIOUS
  <2>1. CASE Pass
    BY <2>1, PassKeeps
  <2>2. ASSUME NEW t \in Threads, NEW b \in HostBatches, Post(t, b) PROVE LedgerInv'
    BY <2>2, PostKeeps
  <2>3. ASSUME NEW r \in Runs, NEW at \in 0 .. now, NEW t \in Threads,
               NEW key \in Keys \cup {NoKey}, NEW hash \in Hashes, NEW ttl \in LeaseTimes,
               Take(r, t, key, hash, ttl, at)
        PROVE  LedgerInv'
    <3>1. ttl \in Nat \ {0}
      BY LedgerAssumption
    <3>2. QED BY <2>3, <3>1, TakeKeeps
  <2>4. ASSUME NEW r \in Runs, NEW at \in 0 .. now,
               \/ Run(r, at) \/ Finish(r, at) \/ Expire(r, at)
               \/ \E status \in Settled : Settle(r, status, at)
        PROVE  LedgerInv'
    BY <2>4, RunKeeps, FinishKeeps, ExpireKeeps, SettleKeeps
  <2>5. CASE UNCHANGED ledger
    BY <2>5 DEF ledger, LedgerInv, LedgerTypeOK, OneActive, OneKey, Punctual,
                Conversations, Sole
  <2>6. QED BY <2>1, <2>2, <2>3, <2>4, <2>5 DEF LedgerNext
<1>2. QED BY <1>1, LedgerStarts, PTL DEF LedgerSpec

-----------------------------------------------------------------------------
(* The inductive invariant: the ledger's, and of each invocation what its  *)
(* task, its run, its cleanup and its abandoned store call have to do with *)
(* each other.                                                             *)

Labels == Executing \cup {"new", "settle", "over"}
Answers == {[kind |-> "none"], Raised, CancelledError} \cup {Response(r) : r \in Runs}

TaskTypeOK ==
  /\ pc \in [Runs -> Labels]
  /\ req \in [Runs -> Requests \cup {NoRequest}]
  /\ due \in [Runs -> Nat]
  /\ prior \in [Runs -> SUBSET Runs]
  /\ failure \in [Runs -> {"none", "error", "blocked", "cancelled"}]
  /\ cleanup \in [Runs -> {"none", "running", "missing", "settled", "succeeded",
                           "unavailable"}]
  /\ late \in [Runs -> StoreCalls \cup {"none", "settle"}]
  /\ answer \in [Runs -> Answers]
  /\ ran \in SUBSET Runs

\* A task that has begun has a request, and so has one whose run or abandoned call
\* is left.
Requested(i) ==
  pc[i] \notin {"new", "over"} \/ rows[i] # NoRow \/ late[i] # "none"
    => req[i] \in Requests

\* A run is the one its task asked for; it exists from its claim on, and stays
\* active until the task has handled its end, unless its lease ran out.
OwnRow(i) ==
  /\ rows[i] # NoRow =>
       /\ pc[i] \in {"begin", "work", "finish", "settle", "over"}
       /\ rows[i].thread = req[i].thread /\ rows[i].key = req[i].key
       /\ rows[i].hash = req[i].hash /\ rows[i].lease = rows[i].claimed + LeaseLength
  /\ pc[i] \in {"begin", "work", "finish"} =>
       rows[i] # NoRow /\ (ActiveRow(rows[i]) \/ rows[i].lease <= now)
  /\ pc[i] \in {"work", "finish"} => i \in ran
  /\ i \in ran => rows[i] # NoRow /\ rows[i].status # "accepted"

\* The deadline was set before the run was claimed.
OnTime(i) ==
  /\ pc[i] \in Executing => due[i] <= now + Timeout
  /\ pc[i] \in {"begin", "work", "finish"} => due[i] <= rows[i].claimed + Timeout

\* A store call is abandoned to a cleanup; only a claim may yet create the run.
Abandoned(i) ==
  /\ pc[i] = "settle" => cleanup[i] # "none"
  /\ cleanup[i] # "none" => pc[i] \in {"settle", "over"}
  /\ late[i] # "none" => cleanup[i] # "none"
  /\ late[i] = "claim" => rows[i] = NoRow
  /\ late[i] \in {"begin", "finish", "settle"} => rows[i] # NoRow

\* What a cleanup has returned is still so: a run it missed never begins, and the
\* others have ended.
Returned(i) ==
  /\ cleanup[i] = "missing" =>
       /\ i \notin ran /\ late[i] \in {"none", "claim"}
       /\ rows[i] = NoRow \/ rows[i].status \in {"accepted", "failed"}
  /\ cleanup[i] = "settled" => rows[i].status \in Settled
  /\ cleanup[i] = "succeeded" => rows[i].status = "succeeded"

\* A retry's earlier run has its key and its hash.
Prior(i) ==
  /\ pc[i] # "recover" => prior[i] = {}
  /\ \A r \in prior[i] : OwnsKey(rows[r], req[i].key) /\ rows[r].hash = req[i].hash

\* A task that ended without a cleanup has finished its run or has none, and an
\* error is never what a run that may still succeed ends with.
Outcome(i) ==
  /\ pc[i] = "over" <=> answer[i].kind # "none"
  /\ pc[i] = "over" /\ cleanup[i] = "none"
       => rows[i] = NoRow \/ rows[i].status = "succeeded"
  /\ answer[i].kind = "raised" =>
       \/ cleanup[i] \in {"missing", "settled", "unavailable"}
       \/ cleanup[i] = "none" /\ rows[i] = NoRow
  /\ answer[i].kind = "response" =>
       LET r == answer[i].run
       IN /\ rows[r].status = "succeeded" /\ rows[r].hash = req[i].hash
          /\ r = i \/ OwnsKey(rows[r], req[i].key)

TaskInv(i) == /\ Requested(i) /\ OwnRow(i) /\ OnTime(i) /\ Abandoned(i)
              /\ Returned(i) /\ Prior(i) /\ Outcome(i)

Inv == /\ LedgerInv /\ TaskTypeOK
       /\ \A i \in Runs : TaskInv(i)
       /\ host = "clean" => Quiet

-----------------------------------------------------------------------------
(* Frames.                                                                  *)

\* What a step leaves of the invocations it is not about.
Untouched(j) ==
  /\ pc'[j] = pc[j] /\ req'[j] = req[j] /\ due'[j] = due[j] /\ prior'[j] = prior[j]
  /\ cleanup'[j] = cleanup[j] /\ late'[j] = late[j] /\ answer'[j] = answer[j]
  /\ j \in ran' <=> j \in ran

\* What time and the other runs do to a run.
Watched(j) ==
  /\ rows'[j] = NoRow <=> rows[j] = NoRow
  /\ rows[j] # NoRow =>
       /\ rows'[j].thread = rows[j].thread /\ rows'[j].key = rows[j].key
       /\ rows'[j].hash = rows[j].hash
       /\ rows'[j].claimed = rows[j].claimed /\ rows'[j].lease = rows[j].lease
  /\ \/ rows'[j].status = rows[j].status
     \/ /\ ActiveRow(rows[j]) /\ rows[j].lease <= now
        /\ rows'[j].status = "failed"

\* What no step changes in a run somebody has found.
Referred == \A r \in Runs :
  /\ \A key \in Keys \cup {NoKey} : OwnsKey(rows[r], key) => OwnsKey(rows'[r], key)
  /\ rows[r] # NoRow => rows'[r].hash = rows[r].hash
  /\ rows[r].status = "succeeded" => rows'[r].status = "succeeded"

LEMMA ConstantTypes ==
  /\ Timeout \in Nat /\ LeaseLength \in Nat \ {0} /\ CleanupTimeout \in Nat
  /\ LeaseSlack \in Nat
  /\ LeaseLength = Timeout + CleanupTimeout + LeaseSlack
  /\ \A q \in Requests : /\ q.thread \in Threads /\ q.key \in Keys \cup {NoKey}
                         /\ q.hash \in Hashes
BY InvocationAssumption DEF LeaseLength

LEMMA KeptReferred ==
  ASSUME LedgerInv, LedgerInv', \A r \in Runs : Kept(r) PROVE Referred
<1>1. ASSUME NEW r \in Runs, rows[r] # NoRow
      PROVE  /\ rows[r].status # "absent" /\ rows'[r].status # "absent"
             /\ rows'[r].key = rows[r].key /\ rows'[r].hash = rows[r].hash
  BY <1>1, RowFields, RowFieldsNext DEF Kept, LedgerInv
<1>2. \A r \in Runs : rows[r].status = "succeeded" => rows'[r].status = "succeeded"
  BY DEF Kept, NoRow, ActiveRow, Active
<1>3. \A r \in Runs : rows[r].status # "absent" => rows[r] # NoRow
  BY DEF NoRow
<1>4. QED BY <1>1, <1>2, <1>3 DEF Referred, OwnsKey

LEMMA AgedWatched ==
  ASSUME LedgerInv, NEW j \in Runs, Aged(j, now) PROVE Watched(j)
<1>1. CASE rows'[j] = rows[j]
  BY <1>1 DEF Watched
<1>2. CASE Lapsed(rows[j], now) /\ rows'[j] = Lapse(rows[j], now)
  <2>1. rows[j] \in Row /\ now \in Nat /\ rows[j] # NoRow /\ rows[j].lease <= now
        /\ ActiveRow(rows[j])
    BY <1>2, RowFields DEF LedgerInv, LedgerTypeOK, Lapsed, ActiveRow, Active, NoRow
  <2>2. rows'[j] # NoRow
    BY <1>2, <2>1, LapseRow DEF NoRow
  <2>3. QED BY <1>2, <2>1, <2>2, LapseRow DEF Watched
<1>3. QED BY <1>1, <1>2 DEF Aged

LEMMA UnchangedLedger ==
  ASSUME LedgerInv, UNCHANGED ledger
  PROVE  LedgerInv' /\ Referred /\ \A j \in Runs : Watched(j) /\ now' = now
BY DEF ledger, LedgerInv, LedgerTypeOK, OneActive, OneKey, Punctual, Conversations,
       Sole, Referred, Watched

\* A response given earlier still is the one of a succeeded run.
Stands(j) == LET r == answer[j].run
             IN /\ rows'[r].status = "succeeded" /\ rows'[r].hash = req[j].hash
                /\ r = j \/ OwnsKey(rows'[r], req[j].key)

LEMMA AnswerStands ==
  ASSUME Inv, Referred, NEW j \in Runs, answer[j].kind = "response"
  PROVE  Stands(j)
<1>1. PICK r \in Runs : answer[j] = [kind |-> "response", run |-> r]
  BY DEF Inv, TaskTypeOK, Answers, Raised, CancelledError, Response
<1>2. answer[j].run = r
  BY <1>1
<1>3. /\ rows[r].status = "succeeded" /\ rows[r].hash = req[j].hash
      /\ r = j \/ OwnsKey(rows[r], req[j].key)
  BY <1>2 DEF Inv, TaskInv, Outcome
<1>4. rows[r] # NoRow /\ rows[r] \in Row
  BY <1>3, RowFields DEF Inv, LedgerInv, NoRow
<1>5. OwnsKey(rows[r], req[j].key) => req[j].key \in Keys \cup {NoKey}
  BY <1>4 DEF OwnsKey, Row
<1>6. QED BY <1>2, <1>3, <1>4, <1>5 DEF Referred, Stands

\* An invocation another one's step, or time, has nothing to do with.
LEMMA Bystander ==
  ASSUME Inv, LedgerInv', Referred, NEW j \in Runs, Untouched(j), Watched(j),
         now <= now'
  PROVE  TaskInv(j)'
<1>1. /\ TaskInv(j) /\ now \in Nat /\ now' \in Nat /\ TaskTypeOK
      /\ rows[j] = NoRow \/ rows[j] \in Row
  BY RowFields DEF Inv, LedgerInv, LedgerTypeOK
<1>2. /\ rows[j] = NoRow <=> rows[j].status = "absent"
      /\ rows'[j] = NoRow <=> rows'[j].status = "absent"
  BY RowFields, RowFieldsNext DEF Inv, LedgerInv
<1>3. Requested(j)' /\ Abandoned(j)'
  BY <1>1 DEF Untouched, Watched, TaskInv, Requested, Abandoned
<1>4. OwnRow(j)'
  <2>1. rows[j] # NoRow => rows[j].lease \in Nat
    BY <1>1 DEF Row
  <2>2. rows'[j] # NoRow =>
       /\ pc'[j] \in {"begin", "work", "finish", "settle", "over"}
       /\ rows'[j].thread = req'[j].thread /\ rows'[j].key = req'[j].key
       /\ rows'[j].hash = req'[j].hash /\ rows'[j].lease = rows'[j].claimed + LeaseLength
    BY <1>1 DEF Untouched, Watched, TaskInv, OwnRow
  <2>3. pc'[j] \in {"begin", "work", "finish"} =>
         rows'[j] # NoRow /\ (ActiveRow(rows'[j]) \/ rows'[j].lease <= now')
    BY <1>1, <2>1 DEF Untouched, Watched, TaskInv, OwnRow, ActiveRow
  <2>4. /\ pc'[j] \in {"work", "finish"} => j \in ran'
        /\ j \in ran' => rows'[j] # NoRow /\ rows'[j].status # "accepted"
    BY <1>1 DEF Untouched, Watched, TaskInv, OwnRow, ActiveRow, Active
  <2>5. QED BY <2>2, <2>3, <2>4 DEF OwnRow
<1>5. OnTime(j)'
  <2>1. due[j] \in Nat /\ Timeout \in Nat
    BY <1>1, ConstantTypes DEF TaskTypeOK
  <2>2. pc[j] \in {"begin", "work", "finish"} => rows[j] # NoRow
    BY <1>1 DEF TaskInv, OwnRow
  <2>3. QED BY <1>1, <2>1, <2>2 DEF Untouched, Watched, TaskInv, OnTime
<1>6. Returned(j)'
  BY <1>1, <1>2 DEF Untouched, Watched, TaskInv, Returned, ActiveRow, Active, Settled
<1>7. Prior(j)'
  <2>1. SUFFICES ASSUME NEW r \in Runs, r \in prior[j]
        PROVE  OwnsKey(rows'[r], req[j].key) /\ rows'[r].hash = req[j].hash
    BY <1>1 DEF Untouched, TaskInv, Prior, TaskTypeOK
  <2>2. OwnsKey(rows[r], req[j].key) /\ rows[r].hash = req[j].hash
    BY <1>1, <2>1 DEF TaskInv, Prior
  <2>3. rows[r] # NoRow /\ req[j].key \in Keys \cup {NoKey}
    <3>1. rows[r].status # "absent" /\ rows[r].key = req[j].key
      BY <2>2 DEF OwnsKey
    <3>2. rows[r] \in Row
      BY <3>1, RowFields DEF Inv, LedgerInv
    <3>3. QED BY <3>1, <3>2, RowFields DEF Row, NoRow
  <2>4. QED BY <2>2, <2>3 DEF Referred
<1>8. Outcome(j)'
  <2> USE DEF Untouched
  <2>1. Outcome(j)
    BY <1>1 DEF TaskInv
  <2>3. pc'[j] = "over" <=> answer'[j].kind # "none"
    BY <2>1 DEF Outcome
  <2>4. pc'[j] = "over" /\ cleanup'[j] = "none"
             => rows'[j] = NoRow \/ rows'[j].status = "succeeded"
    BY <2>1, <1>2 DEF Outcome, Watched, ActiveRow, Active
  <2>5. answer'[j].kind = "raised" =>
           \/ cleanup'[j] \in {"missing", "settled", "unavailable"}
           \/ cleanup'[j] = "none" /\ rows'[j] = NoRow
    BY <2>1 DEF Outcome, Watched
  <2>2. answer[j].kind = "response" => Stands(j)
    BY AnswerStands
  <2>6. QED BY <2>2, <2>3, <2>4, <2>5 DEF Outcome, Stands
<1>9. QED BY <1>3, <1>4, <1>5, <1>6, <1>7, <1>8 DEF TaskInv

\* A step of one invocation keeps the invariant if it keeps it for that one.
LEMMA OneStep ==
  ASSUME Inv, NEW i \in Runs, LedgerInv', TaskTypeOK', Referred, UNCHANGED <<now, host>>,
         \A j \in Runs \ {i} : Untouched(j) /\ Watched(j),
         TaskInv(i)',
         \/ pc[i] \notin {"new", "over"} \/ cleanup[i] = "running"
         \/ pc'[i] \in {"new", "over"} /\ cleanup'[i] # "running"
  PROVE  Inv'
<1>1. \A j \in Runs : TaskInv(j)'
  BY Bystander DEF Inv, LedgerInv, LedgerTypeOK
<1>2. host' = "clean" => Quiet'
  BY DEF Inv, Quiet, ActiveInvocations, CleanupTasks, Untouched
<1>3. QED BY <1>1, <1>2 DEF Inv

\* The end of a task whose run is as good as its answer.
EndsAs(i, a) ==
  /\ a.kind # "none"
  /\ cleanup[i] = "none" => rows'[i] = NoRow \/ rows'[i].status = "succeeded"
  /\ a.kind = "raised" =>
       \/ cleanup[i] \in {"missing", "settled", "unavailable"}
       \/ cleanup[i] = "none" /\ rows'[i] = NoRow
  /\ a.kind = "response" =>
       /\ rows'[a.run].status = "succeeded" /\ rows'[a.run].hash = req[i].hash
       /\ a.run = i \/ OwnsKey(rows'[a.run], req[i].key)

\* The run its own completion has made succeed.
Succeeded(i) == /\ cleanup[i] = "none" /\ late[i] = "none"
                /\ rows[i] # NoRow /\ Kept(i) /\ rows'[i].status = "succeeded"

LEMMA AnswerFrame ==
  ASSUME TaskTypeOK, NEW i \in Runs, NEW a \in Answers, Answer(i, a)
  PROVE  /\ TaskTypeOK' /\ host' = host
         /\ \A j \in Runs \ {i} : Untouched(j)
         /\ pc'[i] = "over" /\ answer'[i] = a /\ prior'[i] = {}
         /\ req'[i] = req[i] /\ cleanup'[i] = cleanup[i] /\ late'[i] = late[i]
         /\ ran' = ran
<1>1. "over" \in Labels BY DEF Labels
<1>2. TaskTypeOK'
  BY <1>1 DEF Answer, Goto, LeaveBudget, TaskTypeOK
<1>3. \A j \in Runs \ {i} : Untouched(j)
  BY DEF Answer, Goto, LeaveBudget, TaskTypeOK, Untouched
<1>4. QED BY <1>2, <1>3 DEF Answer, Goto, LeaveBudget, TaskTypeOK

LEMMA AnswerKeeps ==
  ASSUME Inv, LedgerInv', Referred, now' = now, NEW i \in Runs, NEW a \in Answers,
         \A j \in Runs \ {i} : Watched(j), Watched(i) \/ Succeeded(i),
         Answer(i, a), EndsAs(i, a)
  PROVE  Inv'
<1>1. /\ TaskTypeOK' /\ host' = host
      /\ \A j \in Runs \ {i} : Untouched(j)
      /\ pc'[i] = "over" /\ answer'[i] = a /\ prior'[i] = {}
      /\ req'[i] = req[i] /\ cleanup'[i] = cleanup[i] /\ late'[i] = late[i]
      /\ ran' = ran
  BY AnswerFrame DEF Inv
<1>2. TaskInv(i)
  BY DEF Inv
<1>3. /\ rows[i] = NoRow <=> rows'[i] = NoRow
      /\ rows[i] # NoRow =>
           /\ rows'[i].thread = rows[i].thread /\ rows'[i].key = rows[i].key
           /\ rows'[i].hash = rows[i].hash
           /\ rows'[i].claimed = rows[i].claimed /\ rows'[i].lease = rows[i].lease
      /\ rows'[i].status \in {rows[i].status, "failed", "succeeded"}
  BY DEF Watched, Succeeded, Kept
<1>4. Requested(i)'
  BY <1>1, <1>2, <1>3 DEF TaskInv, Requested, Abandoned
<1>5. OwnRow(i)'
  BY <1>1, <1>2, <1>3 DEF TaskInv, OwnRow
<1>6. OnTime(i)' /\ Prior(i)'
  BY <1>1 DEF OnTime, Prior, Executing
<1>7. Abandoned(i)'
  BY <1>1, <1>2, <1>3 DEF TaskInv, Abandoned
<1>8. Returned(i)'
  BY <1>1, <1>2, <1>3 DEF TaskInv, Returned, Watched, Succeeded, ActiveRow, Active, Settled
<1>9. Outcome(i)'
  BY <1>1 DEF Outcome, EndsAs
<1>10. TaskInv(i)'
  BY <1>4, <1>5, <1>6, <1>7, <1>8, <1>9 DEF TaskInv
<1>11. \/ pc[i] \notin {"new", "over"} \/ cleanup[i] = "running"
       \/ pc'[i] \in {"new", "over"} /\ cleanup'[i] # "running"
  BY <1>1
<1>12. QED BY <1>1, <1>10, <1>11, OneStep

\* Before its claim a task has no run, no cleanup and no abandoned call.
LEMMA NotYetClaimed ==
  ASSUME Inv, NEW i \in Runs, pc[i] \in {"new", "lookup", "recover", "thread", "claim"}
  PROVE  rows[i] = NoRow /\ cleanup[i] = "none" /\ late[i] = "none" /\ i \notin ran
BY DEF Inv, TaskInv, OwnRow, Abandoned

LEMMA RaisedTypes ==
  /\ Raised \in Answers /\ CancelledError \in Answers
  /\ \A r \in Runs : Response(r) \in Answers
  /\ Raised.kind = "raised" /\ CancelledError.kind = "cancelled"
  /\ \A r \in Runs : Response(r).kind = "response" /\ Response(r).run = r
BY DEF Answers, Raised, CancelledError, Response

\* An error of _execute(), however it came, and a cancellation.
LEMMA HandleKeeps ==
  ASSUME Inv, NEW i \in Runs, pc[i] \in Executing,
         NEW why \in {"refused", "error", "blocked", "timeout", "cancelled"},
         Handle(i, why)
  PROVE  Inv'
<1>1. CASE pc[i] \notin Owning
  <2> DEFINE a == IF why = "cancelled" THEN CancelledError ELSE Raised
  <2>1. Answer(i, a) /\ UNCHANGED ledger
    BY <1>1 DEF Handle
  <2>2. rows[i] = NoRow /\ cleanup[i] = "none"
    BY <1>1, NotYetClaimed DEF Executing, Owning
  <2>3. EndsAs(i, a)
    BY <2>1, <2>2, RaisedTypes DEF EndsAs, ledger
  <2>4. a \in Answers
    BY RaisedTypes
  <2>5. QED BY <2>1, <2>3, <2>4, UnchangedLedger, AnswerKeeps DEF Inv
<1>2. CASE pc[i] \in Owning
  <2>1. /\ pc' = [pc EXCEPT ![i] = "settle"]
        /\ failure' = [failure EXCEPT ![i] =
             IF why \in {"blocked", "cancelled"} THEN why ELSE "error"]
        /\ cleanup' = [cleanup EXCEPT ![i] = "running"]
        /\ due' = [due EXCEPT ![i] = 0] /\ prior' = [prior EXCEPT ![i] = {}]
        /\ late' = [late EXCEPT ![i] =
             IF why # "refused" /\ pc[i] \in StoreCalls THEN pc[i] ELSE "none"]
        /\ UNCHANGED <<rows, turns, now, req, answer, ran, host>>
    BY <1>2 DEF Handle, Goto, LeaveBudget
  <2>2. TaskTypeOK
    BY DEF Inv
  <2>3. TaskTypeOK'
    BY <2>1, <2>2 DEF TaskTypeOK, Labels, StoreCalls
  <2>4. UNCHANGED ledger
    BY <2>1 DEF ledger
  <2>5. LedgerInv' /\ Referred /\ \A j \in Runs : Watched(j)
    BY <2>4, UnchangedLedger DEF Inv
  <2>6. \A j \in Runs \ {i} : Untouched(j)
    BY <2>1, <2>2 DEF TaskTypeOK, Untouched
  <2>7. /\ pc'[i] = "settle" /\ cleanup'[i] = "running" /\ prior'[i] = {}
        /\ req'[i] = req[i] /\ answer'[i] = answer[i] /\ rows' = rows /\ ran' = ran
        /\ late'[i] = "none" \/ (late'[i] = pc[i] /\ pc[i] \in StoreCalls)
    BY <2>1, <2>2 DEF TaskTypeOK
  <2>8. TaskInv(i)
    BY DEF Inv
  <2>9. TaskInv(i)'
    <3>1. Requested(i)' /\ Prior(i)' /\ OnTime(i)'
      BY <2>7, <2>8 DEF TaskInv, Requested, Prior, OnTime, Executing
    <3>2. OwnRow(i)' /\ Abandoned(i)' /\ Returned(i)'
      BY <2>7, <2>8 DEF TaskInv, OwnRow, Abandoned, Returned, StoreCalls
    <3>3. Outcome(i)'
      BY <2>7, <2>8 DEF TaskInv, Outcome, Executing
    <3>4. QED BY <3>1, <3>2, <3>3 DEF TaskInv
  <2>10. pc[i] \notin {"new", "over"}
    BY DEF Executing
  <2>11. QED BY <2>1, <2>3, <2>5, <2>6, <2>9, <2>10, OneStep
<1>3. QED BY <1>1, <1>2

\* The task goes on to its next await.
LEMMA GoOnKeeps ==
  ASSUME Inv, LedgerInv', Referred, now' = now, NEW i \in Runs,
         pc[i] \in Executing \ {"recover"}, NEW label \in Executing, GoOn(i, label),
         ran' \in {ran, ran \cup {i}},
         \A j \in Runs \ {i} : Watched(j),
         OwnRow(i)', OnTime(i)'
  PROVE  Inv'
<1>1. /\ pc' = [pc EXCEPT ![i] = label]
      /\ UNCHANGED <<req, due, prior, failure, cleanup, late, answer, host>>
  BY DEF GoOn, Goto
<1>2. TaskTypeOK /\ TaskInv(i) /\ pc'[i] = label
  BY <1>1 DEF Inv, TaskTypeOK
<1>3. TaskTypeOK'
  BY <1>1, <1>2 DEF TaskTypeOK, Labels
<1>4. \A j \in Runs \ {i} : Untouched(j)
  BY <1>1, <1>2 DEF TaskTypeOK, Untouched
<1>5. cleanup[i] = "none" /\ late[i] = "none" /\ req[i] \in Requests
  BY <1>2 DEF TaskInv, Abandoned, Executing, Requested
<1>6. Requested(i)' /\ Abandoned(i)' /\ Returned(i)'
  BY <1>1, <1>2, <1>5 DEF Requested, Abandoned, Returned, Executing
<1>7. Prior(i)'
  BY <1>1, <1>2 DEF TaskInv, Prior
<1>8. Outcome(i)'
  BY <1>1, <1>2 DEF TaskInv, Outcome, Executing
<1>9. TaskInv(i)'
  BY <1>6, <1>7, <1>8 DEF TaskInv
<1>10. QED BY <1>1, <1>3, <1>4, <1>9, OneStep DEF Executing
-----------------------------------------------------------------------------
(* Steps of an invocation.                                                  *)

LEMMA StartKeeps == ASSUME Inv, NEW i \in Runs, Start(i) PROVE Inv'
<1>1. LedgerInv' /\ Referred /\ now' = now /\ \A j \in Runs : Watched(j)
  BY UnchangedLedger DEF Start, Inv, ledger
<1>2. rows[i] = NoRow /\ rows'[i] = NoRow /\ cleanup[i] = "none" /\ late[i] = "none"
  BY <1>1, NotYetClaimed DEF Start, Watched
<1>3. CASE Answer(i, Raised)
  <2>1. EndsAs(i, Raised)
    BY <1>2, RaisedTypes DEF EndsAs
  <2>2. QED BY <1>1, <1>3, <2>1, RaisedTypes, AnswerKeeps
<1>4. CASE ~ Answer(i, Raised)
  <2>1. PICK q \in Requests :
          /\ req' = [req EXCEPT ![i] = q]
          /\ pc' = [pc EXCEPT ![i] = IF q.key = NoKey THEN "thread" ELSE "lookup"]
    BY <1>4 DEF Start, Goto
  <2>2. /\ due' = [due EXCEPT ![i] = now + Timeout] /\ host = "up"
        /\ UNCHANGED <<prior, failure, cleanup, late, answer, ran, asked, host>>
    BY <1>4 DEF Start
  <2>3. TaskTypeOK /\ TaskInv(i) /\ now \in Nat /\ now + Timeout \in Nat /\ pc[i] = "new"
    BY ConstantTypes DEF Inv, LedgerInv, LedgerTypeOK, Start
  <2>4. TaskTypeOK'
    BY <2>1, <2>2, <2>3 DEF TaskTypeOK, Labels, Executing
  <2>5. \A j \in Runs \ {i} : Untouched(j)
    BY <2>1, <2>2, <2>3 DEF TaskTypeOK, Untouched
  <2>6. /\ pc'[i] \in {"thread", "lookup"} /\ req'[i] \in Requests
        /\ due'[i] = now + Timeout /\ i \notin ran' /\ prior'[i] = {}
    <3>1. prior[i] = {}
      BY <2>3 DEF TaskInv, Prior
    <3>2. QED BY <1>2, <2>1, <2>2, <2>3, <3>1, NotYetClaimed DEF TaskTypeOK, Start
  <2>7. TaskInv(i)'
    <3>1. Requested(i)' /\ Prior(i)' /\ OnTime(i)'
      BY <1>1, <2>3, <2>6 DEF Requested, Prior, OnTime
    <3>2. OwnRow(i)' /\ Abandoned(i)' /\ Returned(i)'
      BY <1>2, <2>2, <2>6 DEF OwnRow, Abandoned, Returned
    <3>3. Outcome(i)'
      BY <2>2, <2>3, <2>6 DEF TaskInv, Outcome
    <3>4. QED BY <3>1, <3>2, <3>3 DEF TaskInv
  <2>8. host' # "clean" /\ host # "clean"
    BY <2>2
  <2>9. \A j \in Runs : TaskInv(j)'
    BY <1>1, <2>5, <2>7, Bystander DEF Inv, LedgerInv, LedgerTypeOK
  <2>10. QED BY <1>1, <2>4, <2>8, <2>9 DEF Inv
<1>5. QED BY <1>3, <1>4

\* The request of a task at work, and the runs under its key.
LEMMA RequestTypes ==
  ASSUME Inv, NEW i \in Runs, pc[i] \in Executing
  PROVE  /\ req[i] \in Requests /\ req[i].thread \in Threads
         /\ req[i].key \in Keys \cup {NoKey} /\ req[i].hash \in Hashes
         /\ cleanup[i] = "none" /\ late[i] = "none"
BY ConstantTypes DEF Inv, TaskInv, Requested, Abandoned, Executing

LEMMA ReplayKeeps ==
  ASSUME Inv, LedgerInv', Referred, now' = now, NEW i \in Runs, pc[i] \in Executing,
         rows[i] = NoRow, \A j \in Runs : Watched(j), NEW r \in Runs,
         OwnsKey(rows[r], req[i].key), rows[r].hash = req[i].hash, Replay(i, r)
  PROVE  Inv'
<1> DEFINE a == IF rows[r].status = "succeeded" THEN Response(r) ELSE Raised
<1>1. Answer(i, a) /\ a \in Answers
  BY RaisedTypes DEF Replay
<1>2. cleanup[i] = "none" /\ rows'[i] = NoRow /\ req[i].key \in Keys \cup {NoKey}
  BY RequestTypes DEF Watched
<1>3. rows[r] # NoRow
  BY DEF OwnsKey, NoRow
<1>4. OwnsKey(rows'[r], req[i].key) /\ rows'[r].hash = req[i].hash
  BY <1>2, <1>3 DEF Referred
<1>5. CASE rows[r].status = "succeeded"
  <2>1. rows'[r].status = "succeeded"
    BY <1>5 DEF Referred
  <2>2. EndsAs(i, a)
    BY <1>2, <1>4, <1>5, <2>1, RaisedTypes DEF EndsAs
  <2>3. QED BY <1>1, <2>2, AnswerKeeps
<1>6. CASE rows[r].status # "succeeded"
  <2>1. EndsAs(i, a)
    BY <1>2, <1>6, RaisedTypes DEF EndsAs
  <2>2. QED BY <1>1, <2>1, AnswerKeeps
<1>7. QED BY <1>5, <1>6

LEMMA FoundKeeps ==
  ASSUME Inv, LedgerInv', Referred, now' = now, NEW i \in Runs,
         pc[i] \in {"lookup", "claim"}, \A j \in Runs : Watched(j),
         NEW r \in WithKey(req[i].key), Found(i, r)
  PROVE  Inv'
<1>1. pc[i] \in Executing /\ rows[i] = NoRow /\ r \in Runs /\ OwnsKey(rows[r], req[i].key)
  BY NotYetClaimed DEF Executing, WithKey
<1>2. /\ cleanup[i] = "none" /\ late[i] = "none" /\ rows'[i] = NoRow
      /\ req[i].key \in Keys \cup {NoKey} /\ req[i] \in Requests
  BY <1>1, RequestTypes DEF Watched
<1>3. CASE rows[r].hash # req[i].hash /\ Answer(i, Raised)
  <2>1. EndsAs(i, Raised)
    BY <1>2, RaisedTypes DEF EndsAs
  <2>2. QED BY <1>3, <2>1, RaisedTypes, AnswerKeeps
<1>4. CASE rows[r].hash = req[i].hash /\ Replay(i, r)
  BY <1>1, <1>4, ReplayKeeps
<1>5. CASE /\ rows[r].hash = req[i].hash
           /\ Goto(i, "recover")
           /\ prior' = [prior EXCEPT ![i] = {r}]
           /\ UNCHANGED <<req, due, failure, cleanup, late, answer, ran, asked, host>>
  <2>1. TaskTypeOK /\ TaskInv(i) /\ rows[r] # NoRow
    BY <1>1 DEF Inv, OwnsKey, NoRow
  <2>2. pc' = [pc EXCEPT ![i] = "recover"]
    BY <1>5 DEF Goto
  <2>3. TaskTypeOK'
    BY <1>1, <1>5, <2>1, <2>2 DEF TaskTypeOK, Labels, Executing
  <2>4. \A j \in Runs \ {i} : Untouched(j)
    BY <1>5, <2>1, <2>2 DEF TaskTypeOK, Untouched
  <2>5. pc'[i] = "recover" /\ prior'[i] = {r} /\ i \notin ran'
    BY <1>1, <1>5, <2>1, <2>2, NotYetClaimed DEF TaskTypeOK
  <2>6. OwnsKey(rows'[r], req[i].key) /\ rows'[r].hash = req[i].hash
    BY <1>1, <1>2, <1>5, <2>1 DEF Referred
  <2>7. TaskInv(i)'
    <3>1. Requested(i)' /\ Prior(i)' /\ OwnRow(i)' /\ Abandoned(i)' /\ Returned(i)'
      BY <1>2, <1>5, <2>5, <2>6 DEF Requested, Prior, OwnRow, Abandoned, Returned
    <3>2. OnTime(i)' /\ Outcome(i)'
      BY <1>1, <1>5, <2>1, <2>5 DEF TaskInv, OnTime, Outcome, Executing
    <3>3. QED BY <3>1, <3>2 DEF TaskInv
  <2>8. QED BY <1>5, <2>3, <2>4, <2>7, OneStep
<1>6. QED BY <1>3, <1>4, <1>5 DEF Found

LEMMA LookupKeeps == ASSUME Inv, NEW i \in Runs, Lookup(i) PROVE Inv'
<1>1. LedgerInv' /\ Referred /\ now' = now /\ \A j \in Runs : Watched(j)
  BY UnchangedLedger DEF Lookup, Inv, ledger
<1>2. pc[i] = "lookup" /\ rows'[i] = NoRow /\ i \notin ran
  BY <1>1, NotYetClaimed DEF Lookup, At, Watched
<1>3. CASE GoOn(i, "thread") /\ UNCHANGED ran
  <2>1. pc'[i] = "thread" /\ due' = due
    BY <1>3 DEF GoOn, Goto, Inv, TaskTypeOK
  <2>2. OwnRow(i)' /\ OnTime(i)'
    BY <1>1, <1>2, <1>3, <2>1 DEF OwnRow, OnTime, Inv, TaskInv, Executing
  <2>3. QED BY <1>1, <1>2, <1>3, <2>2, GoOnKeeps DEF Executing
<1>4. CASE \E r \in WithKey(req[i].key) : Found(i, r)
  BY <1>1, <1>2, <1>4, FoundKeeps
<1>5. QED BY <1>3, <1>4 DEF Lookup

LEMMA ReconcileKeeps == ASSUME Inv, NEW i \in Runs, Reconcile(i) PROVE Inv'
<1>1. pc[i] = "recover" /\ pc[i] \in Executing /\ rows[i] = NoRow /\ cleanup[i] = "none"
  BY NotYetClaimed DEF Reconcile, At, Executing
<1>2. PICK r \in prior[i] :
        \/ Expire(r, now) /\ Answer(i, Raised)
        \/ Replay(i, r) /\ UNCHANGED ledger
  BY DEF Reconcile
<1>3. r \in Runs /\ OwnsKey(rows[r], req[i].key) /\ rows[r].hash = req[i].hash
  BY <1>2 DEF Inv, TaskTypeOK, TaskInv, Prior
<1>4. CASE Expire(r, now) /\ Answer(i, Raised)
  <2>1. now \in 0 .. now
    BY DEF Inv, LedgerInv, LedgerTypeOK
  <2>2. LedgerInv' /\ \A q \in Runs : Aged(q, now) /\ Kept(q)
    BY <1>3, <1>4, <2>1, ExpireKeeps DEF Inv
  <2>3. Referred /\ \A j \in Runs : Watched(j)
    BY <2>2, KeptReferred, AgedWatched DEF Inv
  <2>4. now' = now
    BY <1>4 DEF Expire
  <2>5. EndsAs(i, Raised)
    BY <1>1, <2>3, RaisedTypes DEF EndsAs, Watched
  <2>6. QED BY <1>4, <2>2, <2>3, <2>4, <2>5, RaisedTypes, AnswerKeeps
<1>5. CASE Replay(i, r) /\ UNCHANGED ledger
  <2>1. LedgerInv' /\ Referred /\ now' = now /\ \A j \in Runs : Watched(j)
    BY <1>5, UnchangedLedger DEF Inv, ledger
  <2>2. QED BY <1>1, <1>3, <1>5, <2>1, ReplayKeeps
<1>6. QED BY <1>2, <1>4, <1>5

LEMMA ThreadKeeps == ASSUME Inv, NEW i \in Runs, Thread(i) PROVE Inv'
<1>1. LedgerInv' /\ Referred /\ now' = now /\ \A j \in Runs : Watched(j)
  BY UnchangedLedger DEF Thread, Inv, ledger
<1>2. pc[i] = "thread" /\ rows'[i] = NoRow /\ i \notin ran
  BY <1>1, NotYetClaimed DEF Thread, At, Watched
<1>3. GoOn(i, "claim") /\ ran' = ran
  BY DEF Thread
<1>4. pc'[i] = "claim" /\ due' = due
  BY <1>3 DEF GoOn, Goto, Inv, TaskTypeOK
<1>5. OwnRow(i)' /\ OnTime(i)'
  BY <1>1, <1>2, <1>3, <1>4 DEF OwnRow, OnTime, Inv, TaskInv, Executing
<1>6. QED BY <1>1, <1>2, <1>3, <1>5, GoOnKeeps DEF Executing

\* Taking the thread, by the call itself or by what is left of it.
LEMMA TakeWatched ==
  ASSUME Inv, NEW i \in Runs, req[i] \in Requests,
         Take(i, req[i].thread, req[i].key, req[i].hash, LeaseLength, now)
  PROVE  /\ LedgerInv' /\ Referred /\ now' = now /\ now \in Nat
         /\ \A j \in Runs \ {i} : Watched(j)
         /\ rows'[i] = TakenRow(req[i].thread, req[i].key, req[i].hash, LeaseLength, now)
<1>1. now \in 0 .. now /\ now \in Nat
  BY DEF Inv, LedgerInv, LedgerTypeOK
<1>2. /\ LedgerInv' /\ \A q \in Runs : Kept(q)
      /\ rows'[i] = TakenRow(req[i].thread, req[i].key, req[i].hash, LeaseLength, now)
      /\ \A q \in Runs \ {i} : Aged(q, now)
  BY <1>1, ConstantTypes, TakeKeeps DEF Inv
<1>3. Referred /\ \A j \in Runs \ {i} : Watched(j)
  BY <1>2, KeptReferred, AgedWatched DEF Inv
<1>4. QED BY <1>1, <1>2, <1>3 DEF Take

LEMMA ClaimKeeps == ASSUME Inv, NEW i \in Runs, Claim(i) PROVE Inv'
<1>1. /\ pc[i] = "claim" /\ pc[i] \in Executing /\ rows[i] = NoRow /\ i \notin ran
      /\ req[i] \in Requests
  BY NotYetClaimed, RequestTypes DEF Claim, At, Executing
<1>2. CASE /\ Take(i, req[i].thread, req[i].key, req[i].hash, LeaseLength, now)
           /\ GoOn(i, "begin") /\ UNCHANGED ran
  <2>1. /\ LedgerInv' /\ Referred /\ now' = now /\ now \in Nat
        /\ \A j \in Runs \ {i} : Watched(j)
        /\ rows'[i] = TakenRow(req[i].thread, req[i].key, req[i].hash, LeaseLength, now)
    BY <1>1, <1>2, TakeWatched
  <2>2. pc'[i] = "begin" /\ due'[i] = due[i] /\ req' = req
    BY <1>2 DEF GoOn, Goto, Inv, TaskTypeOK
  <2>3. /\ rows'[i] # NoRow /\ ActiveRow(rows'[i]) /\ rows'[i].claimed = now
        /\ rows'[i].thread = req[i].thread /\ rows'[i].key = req[i].key
        /\ rows'[i].hash = req[i].hash /\ rows'[i].lease = now + LeaseLength
    BY <2>1 DEF TakenRow, NoRow, ActiveRow, Active
  <2>4. OwnRow(i)'
    BY <1>1, <1>2, <2>2, <2>3 DEF OwnRow
  <2>5. OnTime(i)'
    BY <1>1, <2>1, <2>2, <2>3 DEF OnTime, Inv, TaskInv
  <2>6. QED BY <1>1, <1>2, <2>1, <2>4, <2>5, GoOnKeeps DEF Executing
<1>3. ASSUME NEW r \in WithKey(req[i].key), Found(i, r),
             UNCHANGED ledger \/ \E o \in Occupants(req[i].thread) : Expire(o, now)
      PROVE  Inv'
  <2>1. CASE UNCHANGED ledger
    <3>1. LedgerInv' /\ Referred /\ now' = now /\ \A j \in Runs : Watched(j)
      BY <2>1, UnchangedLedger DEF Inv, ledger
    <3>2. QED BY <1>1, <1>3, <3>1, FoundKeeps
  <2>2. ASSUME NEW o \in Runs, Expire(o, now) PROVE Inv'
    <3>1. now \in 0 .. now /\ now' = now
      BY <2>2 DEF Inv, LedgerInv, LedgerTypeOK, Expire
    <3>2. LedgerInv' /\ \A q \in Runs : Aged(q, now) /\ Kept(q)
      BY <2>2, <3>1, ExpireKeeps DEF Inv
    <3>3. Referred /\ \A j \in Runs : Watched(j)
      BY <3>2, KeptReferred, AgedWatched DEF Inv
    <3>4. QED BY <1>1, <1>3, <3>1, <3>2, <3>3, FoundKeeps
  <2>3. QED BY <1>3, <2>1, <2>2 DEF Occupants
<1>4. CASE Handle(i, "refused")
  BY <1>1, <1>4, HandleKeeps
<1>5. QED BY <1>2, <1>3, <1>4 DEF Claim

LEMMA BeginKeeps == ASSUME Inv, NEW i \in Runs, Begin(i) PROVE Inv'
<1>1. pc[i] = "begin" /\ pc[i] \in Executing /\ now \in 0 .. now
  BY DEF Begin, At, Executing, Inv, LedgerInv, LedgerTypeOK
<1>2. CASE Run(i, now) /\ GoOn(i, "work") /\ ran' = ran \cup {i}
  <2>1. /\ LedgerInv' /\ rows'[i].status = "running" /\ Kept(i)
        /\ \A q \in Runs \ {i} : rows'[q] = rows[q]
    BY <1>1, <1>2, RunKeeps DEF Inv
  <2>2. \A q \in Runs : Kept(q)
    BY <2>1 DEF Kept
  <2>3. Referred /\ now' = now /\ \A j \in Runs \ {i} : Watched(j)
    BY <1>2, <2>1, <2>2, KeptReferred DEF Inv, Run, Watched
  <2>4. pc'[i] = "work" /\ due'[i] = due[i] /\ req' = req
    BY <1>2 DEF GoOn, Goto, Inv, TaskTypeOK
  <2>5. TaskInv(i) /\ rows[i] # NoRow
    BY <1>1 DEF Inv, TaskInv, OwnRow
  <2>6. OwnRow(i)'
    BY <1>2, <2>1, <2>4, <2>5 DEF TaskInv, OwnRow, Kept, ActiveRow, Active
  <2>7. OnTime(i)'
    BY <1>1, <2>1, <2>3, <2>4, <2>5 DEF TaskInv, OnTime, Kept
  <2>8. QED BY <1>1, <1>2, <2>1, <2>3, <2>6, <2>7, GoOnKeeps DEF Executing
<1>3. CASE Handle(i, "refused")
  BY <1>1, <1>3, HandleKeeps
<1>4. QED BY <1>2, <1>3 DEF Begin

LEMMA WorkKeeps == ASSUME Inv, NEW i \in Runs, Work(i) PROVE Inv'
<1>1. LedgerInv' /\ Referred /\ now' = now /\ \A j \in Runs : Watched(j)
  BY UnchangedLedger DEF Work, Inv, ledger
<1>2. pc[i] = "work" /\ GoOn(i, "finish") /\ ran' = ran /\ rows' = rows
  BY DEF Work, At, ledger
<1>3. pc'[i] = "finish" /\ due' = due /\ req' = req
  BY <1>2 DEF GoOn, Goto, Inv, TaskTypeOK
<1>4. OwnRow(i)' /\ OnTime(i)'
  BY <1>1, <1>2, <1>3 DEF OwnRow, OnTime, Inv, TaskInv, Executing
<1>5. QED BY <1>1, <1>2, <1>4, GoOnKeeps DEF Executing

LEMMA CompleteKeeps == ASSUME Inv, NEW i \in Runs, Complete(i) PROVE Inv'
<1>1. pc[i] = "finish" /\ pc[i] \in Executing /\ now \in 0 .. now
  BY DEF Complete, At, Executing, Inv, LedgerInv, LedgerTypeOK
<1>2. CASE Finish(i, now) /\ Answer(i, Response(i))
  <2>1. /\ LedgerInv' /\ rows'[i].status = "succeeded" /\ Kept(i)
        /\ \A q \in Runs \ {i} : rows'[q] = rows[q]
    BY <1>1, <1>2, FinishKeeps DEF Inv
  <2>2. \A q \in Runs : Kept(q)
    BY <2>1 DEF Kept
  <2>3. Referred /\ now' = now /\ \A j \in Runs \ {i} : Watched(j)
    BY <1>2, <2>1, <2>2, KeptReferred DEF Inv, Finish, Watched
  <2>4. /\ TaskInv(i) /\ rows[i] # NoRow /\ rows[i].hash = req[i].hash
        /\ cleanup[i] = "none" /\ late[i] = "none"
    BY <1>1, RequestTypes DEF Inv, TaskInv, OwnRow
  <2>5. Succeeded(i)
    BY <2>1, <2>4 DEF Succeeded
  <2>6. EndsAs(i, Response(i))
    BY <2>1, <2>4, RaisedTypes DEF EndsAs, Kept
  <2>7. QED BY <1>2, <2>1, <2>3, <2>5, <2>6, RaisedTypes, AnswerKeeps
<1>3. CASE Handle(i, "refused")
  BY <1>1, <1>3, HandleKeeps
<1>4. QED BY <1>2, <1>3 DEF Complete

LEMMA InterruptedKeeps ==
  ASSUME Inv, NEW i \in Runs, Fails(i) \/ Deadline(i) \/ Cancel(i) \/ Cut(i)
  PROVE  Inv'
<1>1. ASSUME NEW why \in {"error", "blocked", "timeout", "cancelled"},
             pc[i] \in Executing, Handle(i, why)
      PROVE  Inv'
  BY <1>1, HandleKeeps
<1>2. CASE pc[i] = "settle" /\ Answer(i, CancelledError) /\ UNCHANGED ledger
  <2>1. LedgerInv' /\ Referred /\ now' = now /\ \A j \in Runs : Watched(j)
    BY <1>2, UnchangedLedger DEF Inv, ledger
  <2>2. cleanup[i] # "none"
    BY <1>2 DEF Inv, TaskInv, Abandoned
  <2>3. EndsAs(i, CancelledError)
    BY <2>2, RaisedTypes DEF EndsAs
  <2>4. QED BY <1>2, <2>1, <2>3, RaisedTypes, AnswerKeeps
<1>3. QED BY <1>1, <1>2 DEF Fails, Deadline, Cancel, Cut, Cancelled, InBudget

LEMMA DeliverKeeps == ASSUME Inv, NEW i \in Runs, Deliver(i) PROVE Inv'
<1> DEFINE a == IF failure[i] = "cancelled" THEN CancelledError
                ELSE IF cleanup[i] = "succeeded" THEN Response(i) ELSE Raised
<1>1. pc[i] = "settle" /\ cleanup[i] # "running" /\ Answer(i, a) /\ UNCHANGED ledger
  BY DEF Deliver, At
<1>2. LedgerInv' /\ Referred /\ now' = now /\ \A j \in Runs : Watched(j) /\ rows' = rows
  BY <1>1, UnchangedLedger DEF Inv, ledger
<1>3. cleanup[i] \in {"missing", "settled", "succeeded", "unavailable"}
  BY <1>1 DEF Inv, TaskTypeOK, TaskInv, Abandoned
<1>4. a \in Answers
  BY RaisedTypes
<1>5. cleanup[i] = "succeeded" => rows[i].status = "succeeded" /\ rows[i].hash = req[i].hash
  BY DEF Inv, TaskInv, Returned, OwnRow, NoRow
<1>6. EndsAs(i, a)
  BY <1>2, <1>3, <1>5, RaisedTypes DEF EndsAs
<1>7. QED BY <1>1, <1>2, <1>4, <1>6, AnswerKeeps
-----------------------------------------------------------------------------
(* Cleanups and abandoned calls.                                            *)

\* A step of i's cleanup, or of the call it abandoned, after which what is known of
\* i's run still holds.
LEMMA AsideKeeps ==
  ASSUME Inv, LedgerInv', Referred, now' = now, NEW i \in Runs,
         cleanup[i] # "none", \A j \in Runs \ {i} : Watched(j),
         cleanup' = [cleanup EXCEPT ![i] = cleanup'[i]],
         cleanup'[i] \in {"running", "missing", "settled", "succeeded", "unavailable"},
         late' = [late EXCEPT ![i] = late'[i]], late'[i] \in StoreCalls \cup {"none", "settle"},
         cleanup'[i] # cleanup[i] => cleanup[i] = "running",
         UNCHANGED <<pc, req, due, prior, failure, answer, ran, asked, host>>,
         OwnRow(i)', Returned(i)', Abandoned(i)', Requested(i)'
  PROVE  Inv'
<1>1. TaskTypeOK /\ TaskInv(i)
  BY DEF Inv
<1>2. TaskTypeOK'
  BY <1>1 DEF TaskTypeOK
<1>3. \A j \in Runs \ {i} : Untouched(j)
  BY <1>1 DEF TaskTypeOK, Untouched
<1>4. pc[i] \in {"settle", "over"} /\ pc[i] \notin Executing
  BY <1>1 DEF TaskInv, Abandoned, Executing
<1>5. OnTime(i)' /\ Prior(i)'
  BY <1>1, <1>4 DEF OnTime, TaskInv, Prior
<1>6. Outcome(i)'
  <2>1. answer[i].kind = "raised" => cleanup'[i] \in {"missing", "settled", "unavailable"}
    BY <1>1 DEF TaskInv, Outcome
  <2>2. answer[i].kind = "response" => Stands(i)
    BY AnswerStands
  <2>3. QED BY <1>1, <2>1, <2>2 DEF TaskInv, Outcome, Stands
<1>7. TaskInv(i)'
  BY <1>5, <1>6 DEF TaskInv
<1>8. \/ pc[i] \notin {"new", "over"} \/ cleanup[i] = "running"
      \/ pc'[i] \in {"new", "over"} /\ cleanup'[i] # "running"
  OBVIOUS
<1>9. QED BY <1>2, <1>3, <1>7, <1>8, OneStep

\* The owner's own end, or that of its lease.
LEMMA SettleOwnKeeps ==
  ASSUME Inv, NEW i \in Runs, SettleOwn(i)
  PROVE  /\ LedgerInv' /\ Referred /\ now' = now /\ rows[i] # NoRow /\ Kept(i)
         /\ \A j \in Runs \ {i} : Watched(j)
         /\ rows'[i].status \in Settled /\ ActiveRow(rows[i])
<1>1. now \in 0 .. now
  BY DEF Inv, LedgerInv, LedgerTypeOK
<1>2. CASE Expire(i, now)
  <2>1. /\ LedgerInv' /\ \A q \in Runs : Aged(q, now) /\ Kept(q)
        /\ rows'[i].status = "failed"
    BY <1>1, <1>2, ExpireKeeps DEF Inv
  <2>2. Referred /\ \A j \in Runs : Watched(j)
    BY <2>1, KeptReferred, AgedWatched DEF Inv
  <2>3. QED BY <1>2, <2>1, <2>2 DEF Expire, Lapsed, ActiveRow, Active, NoRow, Settled
<1>3. CASE ~ Expire(i, now)
  <2>1. PICK status \in Settled : Settle(i, status, now)
    BY <1>3 DEF SettleOwn, Settled
  <2>2. /\ LedgerInv' /\ rows'[i].status = status /\ Kept(i)
        /\ \A q \in Runs \ {i} : rows'[q] = rows[q]
    BY <1>1, <2>1, SettleKeeps DEF Inv
  <2>3. \A q \in Runs : Kept(q)
    BY <2>2 DEF Kept
  <2>4. Referred /\ \A j \in Runs \ {i} : Watched(j)
    BY <2>2, <2>3, KeptReferred DEF Inv, Watched
  <2>5. QED BY <2>1, <2>2, <2>4 DEF Settle, ActiveRow, Active, NoRow
<1>4. QED BY <1>2, <1>3

LEMMA CleanUpKeeps == ASSUME Inv, NEW i \in Runs, CleanUp(i) PROVE Inv'
<1>1. /\ cleanup[i] = "running" /\ late' = late
      /\ UNCHANGED <<pc, req, due, prior, failure, late, answer, ran, asked, host>>
  BY DEF CleanUp
<1>2. TaskTypeOK /\ TaskInv(i) /\ pc[i] \in {"settle", "over"}
  BY <1>1 DEF Inv, TaskInv, Abandoned
<1>3. ASSUME NEW result \in {"missing", "settled", "succeeded"}, Return(i, result),
             LedgerInv', Referred, now' = now, \A j \in Runs \ {i} : Watched(j),
             OwnRow(i)', rows'[i] = NoRow <=> rows[i] = NoRow,
             result = "missing" => rows'[i] = NoRow,
             result = "settled" => rows'[i].status \in Settled,
             result = "succeeded" => rows'[i].status = "succeeded"
      PROVE  Inv'
  <2>1. cleanup' = [cleanup EXCEPT ![i] = result] /\ cleanup'[i] = result
    BY <1>2, <1>3 DEF Return, TaskTypeOK
  <2>2. late' = [late EXCEPT ![i] = late'[i]] /\ late'[i] \in StoreCalls \cup {"none", "settle"}
    BY <1>1, <1>2 DEF TaskTypeOK
  <2>3. Requested(i)' /\ Abandoned(i)'
    BY <1>1, <1>2, <1>3, <2>1 DEF TaskInv, Requested, Abandoned
  <2>4. Returned(i)'
    <3>1. result = "missing" => i \notin ran /\ late[i] \in {"none", "claim"}
      BY <1>2, <1>3 DEF TaskInv, OwnRow, Abandoned, TaskTypeOK, StoreCalls
    <3>2. QED BY <1>1, <1>3, <2>1, <3>1 DEF Returned
  <2>5. QED BY <1>1, <1>3, <2>1, <2>2, <2>3, <2>4, AsideKeeps
<1>4. CASE rows[i] = NoRow /\ Return(i, "missing") /\ UNCHANGED ledger
  <2>1. LedgerInv' /\ Referred /\ now' = now /\ rows' = rows /\ \A j \in Runs : Watched(j)
    BY <1>4, UnchangedLedger DEF Inv, ledger
  <2>2. OwnRow(i)'
    BY <1>1, <1>2, <2>1 DEF TaskInv, OwnRow
  <2>3. QED BY <1>3, <1>4, <2>1, <2>2
<1>5. CASE /\ rows[i] # NoRow /\ ~ ActiveRow(rows[i]) /\ UNCHANGED ledger
           /\ Return(i, IF rows[i].status = "succeeded" THEN "succeeded" ELSE "settled")
  <2>1. LedgerInv' /\ Referred /\ now' = now /\ rows' = rows /\ \A j \in Runs : Watched(j)
    BY <1>5, UnchangedLedger DEF Inv, ledger
  <2>2. OwnRow(i)'
    BY <1>1, <1>2, <2>1 DEF TaskInv, OwnRow
  <2>3. rows[i].status = "succeeded" \/ rows[i].status \in Settled
    BY <1>5, RowFields DEF Inv, LedgerInv, Row, Statuses, ActiveRow
  <2>4. QED BY <1>3, <1>5, <2>1, <2>2, <2>3
<1>6. CASE SettleOwn(i) /\ Return(i, "settled")
  <2>1. /\ LedgerInv' /\ Referred /\ now' = now /\ rows[i] # NoRow /\ Kept(i)
        /\ \A j \in Runs \ {i} : Watched(j)
        /\ rows'[i].status \in Settled
    BY <1>6, SettleOwnKeeps
  <2>2. OwnRow(i)'
    BY <1>1, <1>2, <2>1 DEF TaskInv, OwnRow, Kept, Settled
  <2>3. QED BY <1>3, <1>6, <2>1, <2>2 DEF Kept
<1>7. QED BY <1>4, <1>5, <1>6 DEF CleanUp

LEMMA CleanUpFailsKeeps == ASSUME Inv, NEW i \in Runs, CleanUpFails(i) PROVE Inv'
<1>1. /\ cleanup[i] = "running" /\ cleanup' = [cleanup EXCEPT ![i] = "unavailable"]
      /\ UNCHANGED <<rows, turns, now, pc, req, due, prior, failure, answer, ran, asked,
                     host>>
  BY DEF CleanUpFails, Return
<1>2. TaskTypeOK /\ TaskInv(i) /\ pc[i] \in {"settle", "over"} /\ UNCHANGED ledger
  BY <1>1 DEF Inv, TaskInv, Abandoned, ledger
<1>3. LedgerInv' /\ Referred /\ \A j \in Runs : Watched(j)
  BY <1>2, UnchangedLedger DEF Inv
<1>4. /\ late' = [late EXCEPT ![i] = late'[i]] /\ cleanup'[i] = "unavailable"
      /\ late'[i] = late[i] \/ (late'[i] = "settle" /\ rows[i] # NoRow)
      /\ late'[i] \in StoreCalls \cup {"none", "settle"}
  BY <1>1, <1>2 DEF CleanUpFails, TaskTypeOK
<1>5. Requested(i)' /\ Abandoned(i)' /\ OwnRow(i)' /\ Returned(i)'
  BY <1>1, <1>2, <1>4 DEF TaskInv, Requested, Abandoned, OwnRow, Returned
<1>6. QED BY <1>1, <1>3, <1>4, <1>5, AsideKeeps

LEMMA LateEndKeeps == ASSUME Inv, NEW i \in Runs, LateEnd(i) PROVE Inv'
<1>1. /\ late[i] # "none" /\ late' = [late EXCEPT ![i] = "none"]
      /\ UNCHANGED <<pc, req, due, prior, failure, cleanup, answer, ran, asked, host>>
  BY DEF LateEnd
<1>2. /\ TaskTypeOK /\ TaskInv(i) /\ cleanup[i] # "none" /\ pc[i] \in {"settle", "over"}
      /\ req[i] \in Requests
  BY <1>1 DEF Inv, TaskInv, Abandoned, Requested
<1>3. late'[i] = "none" /\ cleanup' = [cleanup EXCEPT ![i] = cleanup'[i]]
  BY <1>1, <1>2 DEF TaskTypeOK
<1>4. ASSUME LedgerInv', Referred, now' = now, \A j \in Runs \ {i} : Watched(j),
             OwnRow(i)', Returned(i)'
      PROVE  Inv'
  <2>1. Requested(i)' /\ Abandoned(i)'
    BY <1>1, <1>2, <1>3 DEF TaskInv, Requested, Abandoned
  <2>2. cleanup[i] \in {"running", "missing", "settled", "succeeded", "unavailable"}
    BY <1>2 DEF TaskTypeOK
  <2>3. QED BY <1>1, <1>2, <1>3, <1>4, <2>1, <2>2, AsideKeeps
<1>5. CASE UNCHANGED ledger
  <2>1. LedgerInv' /\ Referred /\ now' = now /\ rows' = rows /\ \A j \in Runs : Watched(j)
    BY <1>5, UnchangedLedger DEF Inv, ledger
  <2>2. OwnRow(i)' /\ Returned(i)'
    BY <1>1, <1>2, <1>3, <2>1 DEF TaskInv, OwnRow, Returned
  <2>3. QED BY <1>4, <2>1, <2>2
<1>6. CASE /\ late[i] = "claim"
           /\ Take(i, req[i].thread, req[i].key, req[i].hash, LeaseLength, now)
  <2>1. /\ LedgerInv' /\ Referred /\ now' = now /\ now \in Nat
        /\ \A j \in Runs \ {i} : Watched(j)
        /\ rows'[i] = TakenRow(req[i].thread, req[i].key, req[i].hash, LeaseLength, now)
    BY <1>2, <1>6, TakeWatched
  <2>2. rows[i] = NoRow /\ i \notin ran
    BY <1>2, <1>6 DEF TaskInv, Abandoned, OwnRow
  <2>3. OwnRow(i)'
    BY <1>1, <1>2, <2>1, <2>2 DEF OwnRow, TakenRow
  <2>4. cleanup[i] \notin {"settled", "succeeded"}
    BY <1>2, <2>2 DEF TaskInv, Returned, NoRow, Settled
  <2>5. Returned(i)'
    BY <1>1, <1>3, <2>1, <2>2, <2>4 DEF Returned, TakenRow
  <2>6. QED BY <1>4, <2>1, <2>3, <2>5
<1>7. CASE late[i] \in {"begin", "finish", "settle"} /\ ~ UNCHANGED ledger
  <2>1. Run(i, now) \/ Finish(i, now) \/ SettleOwn(i)
    BY <1>7 DEF LateEnd, LateEffect
  <2>2. now \in 0 .. now
    BY DEF Inv, LedgerInv, LedgerTypeOK
  <2>3. /\ LedgerInv' /\ Referred /\ now' = now /\ Kept(i)
        /\ \A j \in Runs \ {i} : Watched(j)
        /\ rows'[i].status \in Settled \cup {"running", "succeeded"}
        /\ ActiveRow(rows[i])
    <3>1. CASE Run(i, now) \/ Finish(i, now)
      <4>1. /\ LedgerInv' /\ rows'[i].status \in {"running", "succeeded"} /\ Kept(i)
            /\ \A q \in Runs \ {i} : rows'[q] = rows[q]
        BY <2>2, <3>1, RunKeeps, FinishKeeps DEF Inv
      <4>2. \A q \in Runs : Kept(q)
        BY <4>1 DEF Kept
      <4>3. Referred /\ \A j \in Runs \ {i} : Watched(j)
        BY <4>1, <4>2, KeptReferred DEF Inv, Watched
      <4>4. QED BY <3>1, <4>1, <4>3 DEF Run, Finish, ActiveRow, Active
    <3>2. CASE SettleOwn(i)
      BY <3>2, SettleOwnKeeps
    <3>3. QED BY <2>1, <3>1, <3>2
  <2>4. rows[i] # NoRow
    BY <2>3 DEF ActiveRow, Active, NoRow
  <2>5. OwnRow(i)'
    BY <1>1, <1>2, <2>3, <2>4 DEF TaskInv, OwnRow, Kept, Settled
  <2>6. cleanup[i] \notin {"missing", "settled", "succeeded"}
    BY <1>2, <1>7, <2>3 DEF TaskInv, Returned, ActiveRow, Active, Settled
  <2>7. Returned(i)'
    BY <1>1, <2>6 DEF Returned
  <2>8. QED BY <1>4, <2>3, <2>5, <2>7
<1>8. QED BY <1>2, <1>5, <1>6, <1>7 DEF LateEnd, LateEffect, TaskTypeOK, StoreCalls
-----------------------------------------------------------------------------
(* shutdown(), the sweep and the clock.                                     *)

\* Nothing happens to any invocation but what time and the ledger do.
LEMMA WorldKeeps ==
  ASSUME Inv, LedgerInv', Referred, \A j \in Runs : Watched(j), now <= now',
         UNCHANGED tasks, host' = "clean" => Quiet'
  PROVE  Inv'
<1>1. \A j \in Runs : Untouched(j)
  BY DEF tasks, Untouched
<1>2. TaskTypeOK'
  BY DEF tasks, Inv, TaskTypeOK
<1>3. QED BY <1>1, <1>2, Bystander DEF Inv

LEMMA ShutdownKeeps == ASSUME Inv, Shutdown \/ ShutdownReturns PROVE Inv'
<1>1. UNCHANGED ledger /\ UNCHANGED tasks
  BY DEF Shutdown, ShutdownReturns, ledger
<1>2. LedgerInv' /\ Referred /\ now' = now /\ now \in Nat /\ \A j \in Runs : Watched(j)
  BY <1>1, UnchangedLedger DEF Inv, ledger, LedgerInv, LedgerTypeOK
<1>3. host' = "clean" => Quiet'
  BY <1>1 DEF Shutdown, ShutdownReturns, Pending, Quiet, ActiveInvocations, CleanupTasks,
              tasks
<1>4. QED BY <1>1, <1>2, <1>3, WorldKeeps

LEMMA SweepKeeps == ASSUME Inv, Sweep PROVE Inv'
<1>1. now \in 0 .. now /\ now \in Nat
  BY DEF Inv, LedgerInv, LedgerTypeOK
<1>2. PICK r \in Runs : Expire(r, now)
  BY DEF Sweep
<1>3. LedgerInv' /\ now' = now /\ \A q \in Runs : Aged(q, now) /\ Kept(q)
  BY <1>1, <1>2, ExpireKeeps DEF Inv, Expire
<1>4. Referred /\ \A j \in Runs : Watched(j)
  BY <1>3, KeptReferred, AgedWatched DEF Inv
<1>5. host' = "clean" => Quiet'
  BY DEF Sweep, Inv, tasks, Quiet, ActiveInvocations, CleanupTasks
<1>6. QED BY <1>1, <1>3, <1>4, <1>5, WorldKeeps DEF Sweep

LEMMA TickKeeps == ASSUME Inv, Tick PROVE Inv'
<1>1. LedgerInv' /\ now <= now' /\ rows' = rows
  BY PassKeeps DEF Tick, Pass, Inv, LedgerInv, LedgerTypeOK
<1>2. Referred /\ \A j \in Runs : Watched(j)
  BY <1>1 DEF Referred, Watched
<1>3. host' = "clean" => Quiet'
  BY DEF Tick, Inv, tasks, Quiet, ActiveInvocations, CleanupTasks
<1>4. QED BY <1>1, <1>2, <1>3, WorldKeeps DEF Tick

LEMMA Starts == Init => Inv
<1> SUFFICES ASSUME Init PROVE Inv
  OBVIOUS
<1>1. LedgerInv
  BY LedgerStarts DEF Init
<1>2. TaskTypeOK
  BY DEF Init, TaskTypeOK, Labels, Answers
<1>3. ASSUME NEW i \in Runs PROVE TaskInv(i)
  BY DEF Init, LedgerInit, TaskInv, Requested, OwnRow, OnTime, Abandoned, Returned,
         Prior, Outcome, Executing
<1>4. QED BY <1>1, <1>2, <1>3 DEF Init, Inv

\* Every step of every invocation, of shutdown() and of the world keeps the ledger in
\* order and each invocation's task, run, cleanup and abandoned call in agreement.
THEOREM Invariance == Spec => []Inv
<1>1. ASSUME Inv, [Next]_vars PROVE Inv'
  <2>1. CASE UNCHANGED vars
    <3>1. UNCHANGED ledger /\ UNCHANGED tasks /\ host' = host
      BY <2>1 DEF vars, ledger
    <3>2. LedgerInv' /\ Referred /\ now' = now /\ now \in Nat /\ \A j \in Runs : Watched(j)
      BY <1>1, <3>1, UnchangedLedger DEF Inv, ledger, LedgerInv, LedgerTypeOK
    <3>3. host' = "clean" => Quiet'
      BY <1>1, <3>1 DEF Inv, tasks, Quiet, ActiveInvocations, CleanupTasks
    <3>4. QED BY <1>1, <3>1, <3>2, <3>3, WorldKeeps
  <2>2. ASSUME NEW i \in Runs, Step(i) PROVE Inv'
    BY <1>1, <2>2, StartKeeps, LookupKeeps, ReconcileKeeps, ThreadKeeps, ClaimKeeps,
       BeginKeeps, WorkKeeps, CompleteKeeps, InterruptedKeeps, DeliverKeeps,
       CleanUpKeeps, CleanUpFailsKeeps, LateEndKeeps DEF Step
  <2>3. CASE Shutdown \/ ShutdownReturns \/ Sweep \/ Tick
    BY <1>1, <2>3, ShutdownKeeps, SweepKeeps, TickKeeps
  <2>4. QED BY <1>1, <2>1, <2>2, <2>3 DEF Next
<1>2. QED BY <1>1, Starts, PTL DEF Spec
-----------------------------------------------------------------------------
(* What follows.                                                            *)

\* The answer a caller gets from invoke() is durable, its own and said once, however
\* its invocation was retried, replayed, cancelled or timed out.
THEOREM DurableAnswers == Spec => []DurableAnswer
<1>1. Inv => DurableAnswer
  <2> SUFFICES ASSUME Inv, NEW i \in Runs, answer[i].kind = "response"
               PROVE  LET r == answer[i].run
                          said == turns[rows[r].thread]
                      IN /\ rows[r].status = "succeeded"
                         /\ \E n \in 1 .. Len(said) :
                              \A m \in 1 .. Len(said) : said[m] = r <=> m = n
                         /\ r = i \/ (req[i].key # NoKey /\ rows[r].key = req[i].key)
                         /\ rows[r].hash = req[i].hash
    BY DEF DurableAnswer
  <2>1. PICK r \in Runs : answer[i] = [kind |-> "response", run |-> r]
    BY DEF Inv, TaskTypeOK, Answers, Raised, CancelledError, Response
  <2>2. answer[i].run = r
    BY <2>1
  <2>3. /\ rows[r].status = "succeeded" /\ rows[r].hash = req[i].hash
        /\ r = i \/ OwnsKey(rows[r], req[i].key)
    BY <2>2 DEF Inv, TaskInv, Outcome
  <2>4. rows[r].thread \in Threads
    BY <2>3, RowFields DEF Inv, LedgerInv, NoRow, Row
  <2>5. PICK n \in 1 .. Len(turns[rows[r].thread]) : turns[rows[r].thread][n] = r
    BY <2>3 DEF Inv, LedgerInv, Conversations
  <2>6. \A m \in 1 .. Len(turns[rows[r].thread]) : turns[rows[r].thread][m] = r <=> m = n
    BY <2>4, <2>5 DEF Inv, LedgerInv, Conversations, Sole
  <2>7. QED BY <2>2, <2>3, <2>5, <2>6 DEF OwnsKey
<1>2. QED BY Invariance, <1>1, PTL

\* However often a request is retried under its key, its agent is invoked once.
THEOREM OneExecutionPerKey == Spec => []OneExecution
<1>1. Inv => OneExecution
  <2> SUFFICES ASSUME Inv, NEW i \in ran, NEW j \in ran,
                      req[i].key # NoKey, req[i].key = req[j].key
               PROVE  i = j
    BY DEF OneExecution
  <2>1. /\ i \in Runs /\ j \in Runs /\ rows[i] # NoRow /\ rows[j] # NoRow
        /\ rows[i].key = req[i].key /\ rows[j].key = req[j].key
        /\ req[i].key \in Keys
    BY ConstantTypes DEF Inv, TaskTypeOK, TaskInv, OwnRow, Requested
  <2>2. OwnsKey(rows[i], req[i].key) /\ OwnsKey(rows[j], req[i].key)
    BY <2>1, RowFields DEF OwnsKey, Inv, LedgerInv
  <2>3. QED BY <2>1, <2>2 DEF Inv, LedgerInv, OneKey
<1>2. QED BY Invariance, <1>1, PTL

\* An error that reaches the caller, other than its cancellation, is not about a run
\* that succeeded, unless the store could not be reached to find out.
THEOREM ErrorsAreTrue == Spec => []NoFalseFailure
<1>1. Inv => NoFalseFailure
  BY DEF Inv, TaskInv, Outcome, Returned, NoFalseFailure, NoRow, Settled
<1>2. QED BY Invariance, <1>1, PTL

\* A run left active by its task is one whose cleanup could not reach the store, or
\* looked before its claim had committed.
THEOREM OrphansHaveCauses == Spec => []OrphansExplained
<1>1. Inv => OrphansExplained
  <2> SUFFICES ASSUME Inv, NEW i \in Runs, ActiveRow(rows[i]), pc[i] = "over"
               PROVE  \/ cleanup[i] \in {"running", "unavailable"}
                      \/ cleanup[i] = "missing" /\ i \notin ran
    BY DEF OrphansExplained
  <2>1. /\ cleanup[i] # "none" /\ cleanup[i] # "settled" /\ cleanup[i] # "succeeded"
        /\ cleanup[i] = "missing" => i \notin ran
    BY DEF Inv, TaskInv, Outcome, Returned, ActiveRow, Active, Settled, NoRow
  <2>2. QED BY <2>1 DEF Inv, TaskTypeOK
<1>2. QED BY Invariance, <1>1, PTL

\* Two turns of a thread overlap only when the event loop has kept one past its
\* deadline for as long as its lease outlives that.
THEOREM TurnsAreExclusive == Spec => []TurnsExclusive
<1>1. Inv => TurnsExclusive
  <2> SUFFICES ASSUME Inv, NEW i \in Runs, NEW j \in Runs, i # j,
                      pc[i] \in {"work", "finish"}, pc[j] \in {"work", "finish"},
                      req[i].thread = req[j].thread
               PROVE  \E n \in {i, j} : now >= due[n] + CleanupTimeout + LeaseSlack
    BY DEF TurnsExclusive
  <2>1. ASSUME NEW n \in {i, j}
        PROVE  /\ rows[n] # NoRow /\ rows[n].thread = req[n].thread
               /\ ActiveRow(rows[n]) \/ now >= due[n] + CleanupTimeout + LeaseSlack
    <3>1. /\ rows[n] # NoRow /\ rows[n].thread = req[n].thread
          /\ rows[n].lease = rows[n].claimed + LeaseLength
          /\ ActiveRow(rows[n]) \/ rows[n].lease <= now
          /\ due[n] <= rows[n].claimed + Timeout
      BY <2>1 DEF Inv, TaskInv, OwnRow, OnTime
    <3>2. rows[n].claimed \in Nat /\ due[n] \in Nat /\ now \in Nat
      BY <3>1, RowFields DEF Inv, LedgerInv, LedgerTypeOK, Row, TaskTypeOK
    <3>3. QED BY <3>1, <3>2, ConstantTypes
  <2>2. ~ (ActiveRow(rows[i]) /\ ActiveRow(rows[j]))
    BY <2>1 DEF Inv, LedgerInv, OneActive
  <2>3. QED BY <2>1, <2>2
<1>2. QED BY Invariance, <1>1, PTL

\* After shutdown() has returned true no task of the runtime is left, and none ever
\* begins.
THEOREM ShutdownLeavesNothing == Spec => ShutdownIsClean
<1>1. Inv /\ Inv' /\ [Next]_vars => [host = "clean" => host' = "clean" /\ Quiet /\ Quiet']_vars
  <2> SUFFICES ASSUME Inv, Inv', Next, host = "clean"
               PROVE  host' = "clean" /\ Quiet /\ Quiet'
    BY DEF vars
  <2>1. ASSUME NEW i \in Runs, Step(i) PROVE host' = host
    <3>1. ASSUME NEW a, Answer(i, a) PROVE host' = host
      BY <3>1 DEF Answer
    <3>2. ASSUME NEW why, Handle(i, why) PROVE host' = host
      BY <3>1, <3>2 DEF Handle
    <3>3. ASSUME NEW label, GoOn(i, label) PROVE host' = host
      BY <3>3 DEF GoOn
    <3>4. CASE Start(i) \/ Lookup(i) \/ Reconcile(i) \/ Thread(i)
      BY <3>1, <3>3, <3>4 DEF Start, Lookup, Reconcile, Thread, Found, Replay
    <3>5. CASE Claim(i) \/ Begin(i) \/ Work(i) \/ Complete(i)
      BY <3>1, <3>2, <3>3, <3>5 DEF Claim, Begin, Work, Complete, Found, Replay
    <3>6. CASE Fails(i) \/ Deadline(i) \/ Cancel(i) \/ Cut(i)
      BY <3>1, <3>2, <3>6 DEF Fails, Deadline, Cancel, Cut, Cancelled
    <3>7. CASE CleanUp(i) \/ CleanUpFails(i) \/ Deliver(i) \/ LateEnd(i)
      BY <3>1, <3>7 DEF CleanUp, CleanUpFails, Deliver, LateEnd
    <3>8. QED BY <2>1, <3>4, <3>5, <3>6, <3>7 DEF Step
  <2>2. host' = "clean"
    BY <2>1 DEF Next, Shutdown, ShutdownReturns, Sweep, Tick
  <2>3. QED BY <2>2 DEF Inv
<1>2. QED BY Invariance, <1>1, PTL DEF Spec, ShutdownIsClean
=============================================================================
