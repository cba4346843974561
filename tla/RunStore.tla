------------------------------ MODULE RunStore ------------------------------
(***************************************************************************)
(* PostgresRunStore: durable runs, fenced ownership and thread             *)
(* arbitration (src/agent_runtime/runs/postgres.py), with the message      *)
(* batch writer it shares with the memory store (memory/_message_batch.py) *)
(* and the tables both write (memory/tables.py).                           *)
(*                                                                         *)
(* Each session is one database connection running one store call at a     *)
(* time.  A call is a transaction of several statements; its writes are    *)
(* buffered in wrows/wmsgs and reach runs/messages only at Commit.  Reads  *)
(* are READ COMMITTED.  Every call but the sweep's first read begins by    *)
(* locking the thread row (SELECT ... FOR UPDATE).  The clock is the       *)
(* database's clock_timestamp().  Rollback (error, cancellation, crash of  *)
(* the client, lost connection) may hit any open transaction.              *)
(*                                                                         *)
(* The two partial unique indexes of runtime_runs are not guards of the    *)
(* insert: that no insert meets the active-thread index is a property      *)
(* (OneActivePerThread), and the key index is what ON CONFLICT waits on.   *)
(***************************************************************************)
EXTENDS Integers, FiniteSets

CONSTANTS
    Runs,         \* run ids; one uuid4 per invocation, so also owner tokens
    Threads,      \* conversation threads (never deleted by the runtime)
    Keys, NoKey,  \* (agent_id, idempotency_key) pairs, and the absent key
    Hashes,       \* request hashes
    Requests,     \* what callers claim: [thread, key, hash] records
    Sessions,     \* database connections
    HostBatches,  \* batches a host appends through the memory store
    BatchLen,     \* messages in a batch
    LeaseTimes,   \* lease lengths callers ask for
    SweepLimit,   \* recover_expired(limit)
    MaxClock,     \* bound: the clock stops here
    None          \* no lock holder / no row

ASSUME RequestsAssumption ==
    Requests \subseteq [thread : Threads, key : Keys \cup {NoKey}, hash : Hashes]
ASSUME KeyAssumption == NoKey \notin Keys
ASSUME LengthAssumption == /\ BatchLen \in Nat \ {0}
                           /\ SweepLimit \in Nat \ {0}
                           /\ MaxClock \in Nat
ASSUME LeaseAssumption == LeaseTimes \subseteq Nat \ {0}
ASSUME NoneAssumption == None \notin Sessions
ASSUME HostAssumption == HostBatches \cap Runs = {}

VARIABLES
    runs,      \* committed runtime_runs rows (or NoRow), by run id
    messages,  \* committed agent_messages rows
    clock,     \* database clock
    lock,      \* holder of each thread's row lock
    pc,        \* where each session's call stands
    call,      \* the call a session is executing
    todo,      \* run ids a sweep has read and not yet visited
    wrows,     \* uncommitted runtime_runs writes of each session
    wmsgs      \* uncommitted agent_messages inserts of each session

vars == <<runs, messages, clock, lock, pc, call, todo, wrows, wmsgs>>

-----------------------------------------------------------------------------
(* Rows and calls.                                                          *)

Null == -1                          \* SQL NULL in completed_at
Active == {"accepted", "running"}
Settled == {"failed", "blocked"}
Terminal == Settled \cup {"succeeded"}
Statuses == Active \cup Terminal

\* claimed is the clock reading lease_expires_at was computed from.
Row == [status : Statuses, thread : Threads, key : Keys \cup {NoKey},
        hash : Hashes, claimed : Nat, lease : Nat, done : Nat \cup {Null},
        code : {"none", "owner_lease_expired", "caller"}]
NoRow == [status |-> "absent"]

Message == [thread : Threads, seq : Nat, from : Runs \cup HostBatches,
            part : 1 .. BatchLen]

Calls ==
       [op : {"none"}]
  \cup [op : {"claim"}, run : Runs, thread : Threads,
        key : Keys \cup {NoKey}, hash : Hashes, ttl : LeaseTimes]
  \cup [op : {"transition"}, run : Runs, thread : Threads, token : Runs,
        status : {"running"} \cup Settled]
  \cup [op : {"complete"}, run : Runs, thread : Threads, token : Runs,
        matches : BOOLEAN]
  \cup [op : {"fail"}, run : Runs, thread : Threads, token : Runs,
        status : Settled]
  \cup [op : {"recover", "sweep"}, run : Runs, thread : Threads]
  \cup [op : {"append"}, thread : Threads, batch : HostBatches]
NoCall == [op |-> "none"]

PCs == {"idle", "sweep", "lock", "locked", "decide", "insert", "append",
        "recheck", "commit"}

NoWrites == [r \in Runs |-> NoRow]

IsActive(row) == row.status \in Active
IsTerminal(row) == row.status \in Terminal
\* Fault: the lease is compared without looking at the status.
LeaseOver(row) == row.status # "absent" /\ row.lease <= clock
Expired(row) == IsActive(row) /\ row.lease <= clock
ExpireRow(row) == [row EXCEPT !.status = "failed", !.done = clock,
                              !.code = "owner_lease_expired"]

\* Fault: only the token is compared, not the lease.
TokenMatches(row, c) == c.token = c.run
\* _check_owner: the token is the run's, and a live lease backs an active row.
OwnerHolds(row, c) == c.token = c.run /\ ~ Expired(row)

\* Fault: the hash is taken for a part of the key.
SameRequest(row, c) == /\ row.status # "absent" /\ c.key # NoKey
                       /\ row.key = c.key /\ row.hash = c.hash
SameKey(row, c) == row.status # "absent" /\ c.key # NoKey /\ row.key = c.key

Valid(from, to) == \/ from = "accepted" /\ to = "running"
                   \/ from = "running" /\ to \in Settled

Seqs(t) == {m.seq : m \in {x \in messages : x.thread = t}}
LastSeq(t) == CHOOSE n \in Seqs(t) \cup {0} : \A k \in Seqs(t) : k <= n
\* Fault: ordinals are counted from the last message, not after it.
BatchFromLast(t, from) == {[thread |-> t, seq |-> LastSeq(t) + i - 1, from |-> from,
                            part |-> i] : i \in 1 .. BatchLen}
Batch(t, from) == {[thread |-> t, seq |-> LastSeq(t) + i, from |-> from,
                    part |-> i] : i \in 1 .. BatchLen}

\* The session's INSERT of a new run has been executed but not committed.
Inserted(s) == /\ pc[s] = "commit"
               /\ call[s].op = "claim"
               /\ wrows[s][call[s].run] # NoRow
-----------------------------------------------------------------------------
Init == /\ runs = [r \in Runs |-> NoRow]
        /\ messages = {}
        /\ clock = 0
        /\ lock = [t \in Threads |-> None]
        /\ pc = [s \in Sessions |-> "idle"]
        /\ call = [s \in Sessions |-> NoCall]
        /\ todo = [s \in Sessions |-> {}]
        /\ wrows = [s \in Sessions |-> NoWrites]
        /\ wmsgs = [s \in Sessions |-> {}]

Goto(s, label) == pc' = [pc EXCEPT ![s] = label]

\* Leave the transaction: drop the buffered writes and the locks; a sweep goes
\* on to its next id.
End(s) ==
  /\ Goto(s, IF todo[s] = {} THEN "idle" ELSE "sweep")
  /\ call' = [call EXCEPT ![s] = NoCall]
  /\ lock' = [t \in Threads |-> IF lock[t] = s THEN None ELSE lock[t]]
  /\ wrows' = [wrows EXCEPT ![s] = NoWrites]
  /\ wmsgs' = [wmsgs EXCEPT ![s] = {}]
  /\ UNCHANGED todo

\* The code raises: nothing of the transaction survives.
Reject(s) == End(s) /\ UNCHANGED <<runs, messages, clock>>

\* Buffer an update of one row and go on to the commit.
Write(s, r, row) ==
  /\ wrows' = [wrows EXCEPT ![s][r] = row]
  /\ Goto(s, "commit")
  /\ UNCHANGED <<runs, messages, clock, lock, call, todo, wmsgs>>

\* Nothing to write: the transaction commits as it is.
WriteNothing(s) ==
  /\ Goto(s, "commit")
  /\ UNCHANGED <<runs, messages, clock, lock, call, todo, wrows, wmsgs>>
-----------------------------------------------------------------------------
(* Starting a call.                                                         *)

Begin(s, c) ==
  /\ pc[s] = "idle"
  /\ Goto(s, "lock")
  /\ call' = [call EXCEPT ![s] = c]
  /\ UNCHANGED <<runs, messages, clock, lock, todo, wrows, wmsgs>>

\* claim() is called once per run id, freshly minted with its token.
BeginClaim(s) ==
  \E r \in Runs, q \in Requests, l \in LeaseTimes :
    /\ runs[r] = NoRow
    /\ \A x \in Sessions : call[x].op = "claim" => call[x].run # r
    /\ Begin(s, [op |-> "claim", run |-> r, thread |-> q.thread,
                 key |-> q.key, hash |-> q.hash, ttl |-> l])

\* The other calls read the run's thread without a lock; no row, no call
\* (RunNotFoundError).
BeginTransition(s) ==
  \E r, token \in Runs, st \in {"running"} \cup Settled :
    /\ runs[r] # NoRow
    /\ Begin(s, [op |-> "transition", run |-> r, thread |-> runs[r].thread,
                 token |-> token, status |-> st])

BeginComplete(s) ==
  \E r, token \in Runs, ok \in BOOLEAN :
    /\ runs[r] # NoRow
    /\ Begin(s, [op |-> "complete", run |-> r, thread |-> runs[r].thread,
                 token |-> token, matches |-> ok])

BeginFail(s) ==
  \E r, token \in Runs, st \in Settled :
    /\ runs[r] # NoRow
    /\ Begin(s, [op |-> "fail", run |-> r, thread |-> runs[r].thread,
                 token |-> token, status |-> st])

BeginRecover(s) ==
  \E r \in Runs :
    /\ runs[r] # NoRow
    /\ Begin(s, [op |-> "recover", run |-> r, thread |-> runs[r].thread])

\* append_messages(): a host writes a batch to a thread outside any run.
BeginAppend(s) ==
  \E t \in Threads, b \in HostBatches :
    /\ \A m \in messages : m.from # b
    /\ \A x \in Sessions : call[x].op = "append" => call[x].batch # b
    /\ Begin(s, [op |-> "append", thread |-> t, batch |-> b])

\* Fault: a plain SELECT, which waits for nobody.
LockNothing(s) ==
  /\ pc[s] = "lock"
  /\ lock' = [lock EXCEPT ![call[s].thread] = s]
  /\ Goto(s, "locked")
  /\ UNCHANGED <<runs, messages, clock, call, todo, wrows, wmsgs>>

\* SELECT ... FOR UPDATE on the thread row: waits for the holder to finish.
Lock(s) ==
  /\ pc[s] = "lock"
  /\ lock[call[s].thread] = None
  /\ lock' = [lock EXCEPT ![call[s].thread] = s]
  /\ Goto(s, "locked")
  /\ UNCHANGED <<runs, messages, clock, call, todo, wrows, wmsgs>>

At(s, label, op) == pc[s] = label /\ call[s].op = op
-----------------------------------------------------------------------------
(* claim()                                                                  *)

\* Fault: an existing row is recovered before it is returned, from inside the
\* transaction that holds the claimed thread.
LookupRecovers(s) ==
  /\ At(s, "locked", "claim")
  /\ LET same == {r \in Runs : SameKey(runs[r], call[s])}
     IN IF same = {}
        THEN Goto(s, "decide") /\ UNCHANGED call
        ELSE \E r \in same :
               /\ Goto(s, "lock")
               /\ call' = [call EXCEPT ![s] = [op |-> "recover", run |-> r,
                                               thread |-> runs[r].thread]]
  /\ UNCHANGED <<runs, messages, clock, lock, todo, wrows, wmsgs>>

\* The key lookup: an existing row is returned (created=False, nothing
\* written) or, under another hash, rejected with IdempotencyConflictError.
\* It is not recovered here: its thread may not be the one locked.
ClaimLookup(s) ==
  /\ At(s, "locked", "claim")
  /\ IF \E r \in Runs : SameKey(runs[r], call[s])
     THEN Reject(s)
     ELSE /\ Goto(s, "decide")
          /\ UNCHANGED <<runs, messages, clock, lock, call, todo, wrows, wmsgs>>

NewRow(c) == [status |-> "accepted", thread |-> c.thread, key |-> c.key,
              hash |-> c.hash, claimed |-> clock, lease |-> clock + c.ttl,
              done |-> Null, code |-> "none"]

\* Fault: a claimed run that has not started yet is overlooked.
RunningOn(t) == {r \in Runs : runs[r].status = "running" /\ runs[r].thread = t}

ActiveOn(t) == {r \in Runs : runs[r] # NoRow /\ IsActive(runs[r]) /\ runs[r].thread = t}

\* A live owner is never displaced (ThreadBusyError); an expired one is failed
\* in the transaction that inserts its successor.
ClaimDecide(s) ==
  /\ At(s, "decide", "claim")
  /\ LET c == call[s]
         active == ActiveOn(c.thread)
     IN \/ /\ \E r \in active : ~ Expired(runs[r])
           /\ Reject(s)
        \/ /\ \A r \in active : Expired(runs[r])
           /\ wrows' = [wrows EXCEPT ![s] =
                [r \in Runs |-> IF r \in active THEN ExpireRow(runs[r])
                                ELSE IF r = c.run THEN NewRow(c) ELSE NoRow]]
           /\ Goto(s, "insert")
           /\ UNCHANGED <<runs, messages, clock, lock, call, todo, wmsgs>>

\* INSERT ... ON CONFLICT (agent_id, idempotency_key) DO NOTHING: waits for an
\* uncommitted insert of the key.  After a conflict the predecessor's expiry is
\* still committed, unless the hash differs and the transaction rolls back.
ClaimInsert(s) ==
  /\ At(s, "insert", "claim")
  /\ LET c == call[s]
         same == {r \in Runs : SameKey(runs[r], c)}
     IN /\ \A x \in Sessions : Inserted(x) /\ c.key # NoKey => call[x].key # c.key
        /\ \/ same = {} /\ WriteNothing(s)
           \/ same # {} /\ (\E r \in same : runs[r].hash # c.hash) /\ Reject(s)
           \/ /\ same # {}
              /\ \A r \in same : runs[r].hash = c.hash
              /\ Write(s, c.run, NoRow)
-----------------------------------------------------------------------------
(* transition(), complete(), fail_if_running(), recover(), append           *)

Transition(s) ==
  /\ At(s, "locked", "transition")
  /\ LET c == call[s]
         row == runs[c.run]
     IN IF OwnerHolds(row, c) /\ Valid(row.status, c.status)
        THEN Write(s, c.run,
               [row EXCEPT !.status = c.status,
                           !.code = IF c.status \in Settled THEN "caller" ELSE "none",
                           !.done = IF c.status \in Settled THEN clock ELSE @])
        ELSE Reject(s)

\* First check of complete(): ownership, status, and that the response and the
\* final assistant message are the run's.
CompleteCheck(s) ==
  /\ At(s, "locked", "complete")
  /\ LET c == call[s]
         row == runs[c.run]
     IN IF OwnerHolds(row, c) /\ row.status = "running" /\ c.matches
        THEN /\ Goto(s, "append")
             /\ UNCHANGED <<runs, messages, clock, lock, call, todo, wrows, wmsgs>>
        ELSE Reject(s)

\* append_message_batch(): ordinals continue after the thread's last message.
CompleteAppend(s) ==
  /\ At(s, "append", "complete")
  /\ wmsgs' = [wmsgs EXCEPT ![s] = Batch(call[s].thread, call[s].run)]
  /\ Goto(s, "recheck")
  /\ UNCHANGED <<runs, messages, clock, lock, call, todo, wrows>>

\* Fault: a lost lease leaves the run alone but keeps the messages written.
RecheckCommits(s) ==
  /\ At(s, "recheck", "complete")
  /\ LET c == call[s]
         row == runs[c.run]
     IN IF OwnerHolds(row, c)
        THEN Write(s, c.run, [row EXCEPT !.status = "succeeded", !.done = clock])
        ELSE WriteNothing(s)

\* The lease is read again after the message writes, which may have blocked.
CompleteRecheck(s) ==
  /\ At(s, "recheck", "complete")
  /\ LET c == call[s]
         row == runs[c.run]
     IN IF OwnerHolds(row, c)
        THEN Write(s, c.run, [row EXCEPT !.status = "succeeded", !.done = clock,
                                         !.code = "none"])
        ELSE Reject(s)

\* Settle the owner's unfinished row; an expired one is failed as expired, a
\* terminal one is returned as it is.
FailIfRunning(s) ==
  /\ At(s, "locked", "fail")
  /\ LET c == call[s]
         row == runs[c.run]
     IN \/ c.token # c.run /\ Reject(s)
        \/ c.token = c.run /\ IsTerminal(row) /\ WriteNothing(s)
        \/ c.token = c.run /\ Expired(row) /\ Write(s, c.run, ExpireRow(row))
        \/ /\ c.token = c.run /\ IsActive(row) /\ ~ Expired(row)
           /\ Write(s, c.run, [row EXCEPT !.status = c.status, !.code = "caller",
                                          !.done = clock])

Recover(s) ==
  /\ pc[s] = "locked" /\ call[s].op \in {"recover", "sweep"}
  /\ LET r == call[s].run
     IN IF Expired(runs[r]) THEN Write(s, r, ExpireRow(runs[r])) ELSE WriteNothing(s)

HostAppend(s) ==
  /\ At(s, "locked", "append")
  /\ wmsgs' = [wmsgs EXCEPT ![s] = Batch(call[s].thread, call[s].batch)]
  /\ Goto(s, "commit")
  /\ UNCHANGED <<runs, messages, clock, lock, call, todo, wrows>>
-----------------------------------------------------------------------------
(* recover_expired()                                                        *)

ExpiredRuns == {r \in Runs : runs[r] # NoRow /\ Expired(runs[r])}

\* The unlocked read of the SweepLimit oldest expired leases.
SweepRead(s) ==
  /\ pc[s] = "idle"
  /\ \E ids \in (SUBSET ExpiredRuns) \ {{}} :
       /\ Cardinality(ids) <= SweepLimit
       /\ ids # ExpiredRuns => Cardinality(ids) = SweepLimit
       /\ \A r \in ids, x \in ExpiredRuns \ ids : runs[r].lease <= runs[x].lease
       /\ todo' = [todo EXCEPT ![s] = ids]
  /\ Goto(s, "sweep")
  /\ UNCHANGED <<runs, messages, clock, lock, call, wrows, wmsgs>>

\* One transaction per id, oldest lease first: FOR UPDATE SKIP LOCKED passes
\* over a thread another session holds.
SweepTake(s) ==
  /\ pc[s] = "sweep"
  /\ \E r \in todo[s] :
       /\ \A x \in todo[s] : runs[r].lease <= runs[x].lease
       /\ todo' = [todo EXCEPT ![s] = @ \ {r}]
       /\ IF lock[runs[r].thread] # None
          THEN /\ Goto(s, IF todo[s] = {r} THEN "idle" ELSE "sweep")
               /\ UNCHANGED <<lock, call>>
          ELSE /\ Goto(s, "locked")
               /\ lock' = [lock EXCEPT ![runs[r].thread] = s]
               /\ call' = [call EXCEPT ![s] = [op |-> "sweep", run |-> r,
                                               thread |-> runs[r].thread]]
  /\ UNCHANGED <<runs, messages, clock, wrows, wmsgs>>
-----------------------------------------------------------------------------
Commit(s) ==
  /\ pc[s] = "commit"
  /\ runs' = [r \in Runs |-> IF wrows[s][r] # NoRow THEN wrows[s][r] ELSE runs[r]]
  /\ messages' = messages \cup wmsgs[s]
  /\ End(s)
  /\ UNCHANGED clock

\* The transaction fails or its client disappears; a sweep is abandoned.
Rollback(s) ==
  /\ pc[s] # "idle"
  /\ Goto(s, "idle")
  /\ call' = [call EXCEPT ![s] = NoCall]
  /\ lock' = [t \in Threads |-> IF lock[t] = s THEN None ELSE lock[t]]
  /\ todo' = [todo EXCEPT ![s] = {}]
  /\ wrows' = [wrows EXCEPT ![s] = NoWrites]
  /\ wmsgs' = [wmsgs EXCEPT ![s] = {}]
  /\ UNCHANGED <<runs, messages, clock>>

Tick == /\ clock < MaxClock
        /\ clock' = clock + 1
        /\ UNCHANGED <<runs, messages, lock, pc, call, todo, wrows, wmsgs>>

Start(s) == \/ BeginClaim(s)   \/ BeginTransition(s) \/ BeginComplete(s)
            \/ BeginFail(s)    \/ BeginRecover(s)    \/ BeginAppend(s)
            \/ SweepRead(s)

\* The statements of an open transaction.
Statement(s) == \/ ClaimLookup(s)    \/ ClaimDecide(s)   \/ ClaimInsert(s)
                \/ Transition(s)     \/ CompleteCheck(s) \/ CompleteAppend(s)
                \/ CompleteRecheck(s) \/ FailIfRunning(s) \/ Recover(s)
                \/ HostAppend(s)     \/ SweepTake(s)     \/ Commit(s)

Next == \/ Tick
        \/ \E s \in Sessions : Start(s) \/ Lock(s) \/ Statement(s) \/ Rollback(s)

Spec == Init /\ [][Next]_vars

\* A client and its server keep executing an open transaction, and PostgreSQL
\* serves the waiters of a row lock or of an uncommitted key in turn.
Fairness == \A s \in Sessions : /\ WF_vars(Statement(s))
                                /\ SF_vars(Lock(s))
                                /\ SF_vars(ClaimInsert(s))
LiveSpec == Spec /\ Fairness
-----------------------------------------------------------------------------
(* Properties.                                                              *)

\* Every variable stays within its declared type.
TypeOK ==
  /\ runs \in [Runs -> Row \cup {NoRow}]
  /\ messages \subseteq Message
  /\ clock \in Nat
  /\ lock \in [Threads -> Sessions \cup {None}]
  /\ pc \in [Sessions -> PCs]
  /\ call \in [Sessions -> Calls]
  /\ todo \in [Sessions -> SUBSET Runs]
  /\ wrows \in [Sessions -> [Runs -> Row \cup {NoRow}]]
  /\ wmsgs \in [Sessions -> SUBSET Message]

OneActive(rows) ==
  \A r, q \in Runs :
    /\ rows[r] # NoRow /\ rows[q] # NoRow
    /\ IsActive(rows[r]) /\ IsActive(rows[q])
    /\ rows[r].thread = rows[q].thread
    => r = q
After(s) == [r \in Runs |-> IF wrows[s][r] # NoRow THEN wrows[s][r] ELSE runs[r]]

\* At most one accepted or running row per thread, in the committed table and
\* in the table a claim is about to commit: arbitration never has to fall back
\* on the unique index uq_runtime_runs_active_thread.
OneActivePerThread ==
  /\ OneActive(runs)
  /\ \A s \in Sessions : Inserted(s) => OneActive(After(s))

\* An (agent, idempotency key) names at most one run, however many threads the
\* concurrent claims of the key lock.
OneRunPerKey ==
  \A r, q \in Runs :
    /\ runs[r] # NoRow /\ runs[q] # NoRow
    /\ runs[r].key = runs[q].key /\ runs[r].key # NoKey
    => r = q

\* completed_at against the lease: an owner (success, failure, block) settles a
\* run strictly inside its lease, even when the commit lands after it; only an
\* expired lease is recovered as owner_lease_expired.
SettledAgainstLease ==
  \A r \in Runs : runs[r] # NoRow =>
    LET row == runs[r] IN
    /\ IsActive(row) <=> row.done = Null
    /\ row.status = "succeeded" \/ row.code = "caller"
         => row.claimed <= row.done /\ row.done < row.lease
    /\ row.code = "owner_lease_expired"
         => row.status = "failed" /\ row.lease <= row.done

\* Two turns of a thread never overlap on the database clock: the later one was
\* claimed only after the earlier one had been settled.
TurnsSerialized ==
  \A r, q \in Runs :
    /\ r # q
    /\ runs[r] # NoRow /\ runs[q] # NoRow
    /\ runs[r].thread = runs[q].thread
    => \/ runs[r].done # Null /\ runs[r].done <= runs[q].claimed
       \/ runs[q].done # Null /\ runs[q].done <= runs[r].claimed

Of(from) == {m \in messages : m.from = from}

\* Atomic finalization: a run's messages are in its thread exactly when the run
\* succeeded; no crash, expiry or lost lease leaves one without the other.
AtomicFinalization ==
  \A r \in Runs : /\ Of(r) # {} <=> runs[r].status = "succeeded"
                  /\ \A m \in Of(r) : m.thread = runs[r].thread

\* A thread's conversation: its ordinals have no gap and no duplicate, each
\* batch is whole and contiguous, and turns stand in the order they were taken.
HistoryIsOrdered ==
  /\ \A m \in messages : \A i \in 1 .. BatchLen :
       [m EXCEPT !.seq = m.seq - m.part + i, !.part = i] \in messages
  /\ \A t \in Threads :
       LET rows == {m \in messages : m.thread = t}
       IN {m.seq : m \in rows} = 1 .. Cardinality(rows)
  /\ \A m, n \in messages :
       /\ {m.from, n.from} \subseteq Runs /\ m.from # n.from
       /\ m.thread = n.thread /\ m.seq < n.seq
       => runs[m.from].done <= runs[n.from].claimed

\* The conversation a thread's rows spell out: who wrote each of its batches, in the order
\* of their first messages.
Firsts(t) == {m \in messages : m.thread = t /\ m.part = 1}
Nth(rows, n) == CHOOSE m \in rows : Cardinality({x \in rows : x.seq <= m.seq}) = n
TurnsOf(t) == [n \in 1 .. Cardinality(Firsts(t)) |-> Nth(Firsts(t), n).from]
Ledger == INSTANCE RunLedger WITH
            rows <- runs, turns <- [t \in Threads |-> TurnsOf(t)], now <- clock

\* The store implements the ledger: each commit is one operation of it, decided while the
\* lease it depends on was alive or over, and no other step of a transaction shows.
ImplementsLedger == Ledger!LedgerSpec

\* s waits for the thread lock, or for the uncommitted key, that x holds.
WaitsFor(s, x) ==
  \/ pc[s] = "lock" /\ lock[call[s].thread] = x
  \/ /\ pc[s] = "insert" /\ Inserted(x)
     /\ call[s].key # NoKey /\ call[s].key = call[x].key

\* No circle of transactions each waiting for the next: the thread -> run lock
\* order, and not recovering another thread's run from inside claim().
NoWaitCycle ==
  \A X \in (SUBSET Sessions) \ {{}} :
    \E s \in X : \A x \in X : ~ WaitsFor(s, x)

\* A settled run is never rewritten, nor its messages: not by a late owner, a
\* cleanup, a recovery or a successor.
TerminalIsFinal ==
  [][\A r \in Runs : runs[r] # NoRow /\ IsTerminal(runs[r])
       => runs'[r] = runs[r] /\ Of(r)' = Of(r)]_vars

\* Every transaction ends: no lock is kept by a call that has returned or
\* raised, and no waiter is left behind.
TransactionsEnd == \A s \in Sessions : (pc[s] # "idle") ~> (pc[s] = "idle")
=============================================================================
