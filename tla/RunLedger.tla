----------------------------- MODULE RunLedger -----------------------------
(***************************************************************************)
(* What the durable run store promises its callers, without transactions,  *)
(* locks or sessions: a ledger in which every operation is one step.       *)
(*                                                                         *)
(* A run takes a thread's turn, begins, and is finished or settled by its  *)
(* owner, or fails because its lease ran out.  Finishing a run is the only *)
(* way a run adds to its thread's conversation, and it adds its whole turn *)
(* at once.  "at" is the moment of the database clock an operation was     *)
(* decided at: it becomes visible then or later.  PostgresRunStore         *)
(* (RunStore) implements this module; RuntimeInvocation is built on it.    *)
(***************************************************************************)
EXTENDS Integers, Sequences

CONSTANTS Runs, Threads, Keys, NoKey, Hashes, HostBatches, LeaseTimes, MaxClock

ASSUME LedgerAssumption == /\ NoKey \notin Keys
                           /\ HostBatches \cap Runs = {}
                           /\ LeaseTimes \subseteq Nat \ {0}
                           /\ MaxClock \in Nat

VARIABLES
    rows,   \* the run rows
    turns,  \* the conversation of each thread: who wrote each batch, in order
    now     \* database clock

ledger == <<rows, turns, now>>

Null == -1
Active == {"accepted", "running"}
Settled == {"failed", "blocked"}
NoRow == [status |-> "absent"]

ActiveRow(row) == row.status \in Active
OwnsKey(row, key) == row.status # "absent" /\ key # NoKey /\ row.key = key
Occupants(t) == {r \in Runs : ActiveRow(rows[r]) /\ rows[r].thread = t}
\* Fault: a key whose run failed may be claimed again.
WithLiveKey(key) ==
  {r \in Runs : OwnsKey(rows[r], key) /\ rows[r].status \notin Settled}
WithKey(key) == {r \in Runs : OwnsKey(rows[r], key)}
Lapsed(row, at) == ActiveRow(row) /\ row.lease <= at
Lapse(row, at) == [row EXCEPT !.status = "failed", !.done = at,
                              !.code = "owner_lease_expired"]

LedgerInit == /\ rows = [r \in Runs |-> NoRow]
              /\ turns = [t \in Threads |-> <<>>]
              /\ now = 0

\* r becomes the thread's one active run; an occupant whose lease ran out is
\* failed in the same step.
Take(r, t, key, hash, ttl, at) ==
  /\ rows[r] = NoRow
  /\ WithKey(key) = {}
  /\ \A q \in Occupants(t) : Lapsed(rows[q], at)
  /\ rows' = [q \in Runs |->
       IF q = r
       THEN [status |-> "accepted", thread |-> t, key |-> key, hash |-> hash,
             claimed |-> at, lease |-> at + ttl, done |-> Null, code |-> "none"]
       ELSE IF q \in Occupants(t) THEN Lapse(rows[q], at) ELSE rows[q]]
  /\ UNCHANGED <<turns, now>>

\* The owner, its lease alive, moves its run on.
Run(r, at) ==
  /\ rows[r].status = "accepted" /\ at < rows[r].lease
  /\ rows' = [rows EXCEPT ![r].status = "running"]
  /\ UNCHANGED <<turns, now>>

Settle(r, status, at) ==
  /\ ActiveRow(rows[r]) /\ rows[r].claimed <= at /\ at < rows[r].lease
  /\ rows' = [rows EXCEPT ![r] = [@ EXCEPT !.status = status, !.code = "caller",
                                           !.done = at]]
  /\ UNCHANGED <<turns, now>>

Finish(r, at) ==
  /\ rows[r].status = "running"
  /\ rows[r].claimed <= at /\ at < rows[r].lease
  /\ rows' = [rows EXCEPT ![r] = [@ EXCEPT !.status = "succeeded", !.done = at]]
  /\ turns' = [turns EXCEPT ![rows[r].thread] = Append(@, r)]
  /\ UNCHANGED now

Expire(r, at) ==
  /\ Lapsed(rows[r], at)
  /\ rows' = [rows EXCEPT ![r] = Lapse(@, at)]
  /\ UNCHANGED <<turns, now>>

Post(t, b) ==
  /\ \A x \in Threads : \A i \in 1 .. Len(turns[x]) : turns[x][i] # b
  /\ turns' = [turns EXCEPT ![t] = Append(@, b)]
  /\ UNCHANGED <<rows, now>>

Pass == /\ now < MaxClock
        /\ now' = now + 1
        /\ UNCHANGED <<rows, turns>>

LedgerNext ==
  \/ Pass
  \/ \E t \in Threads, b \in HostBatches : Post(t, b)
  \/ \E r \in Runs, at \in 0 .. now :
       \/ \E t \in Threads, key \in Keys \cup {NoKey}, hash \in Hashes,
             ttl \in LeaseTimes : Take(r, t, key, hash, ttl, at)
       \/ Run(r, at)
       \/ \E status \in Settled : Settle(r, status, at)
       \/ Finish(r, at)
       \/ Expire(r, at)

LedgerSpec == LedgerInit /\ [][LedgerNext]_ledger
=============================================================================
