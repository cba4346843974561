--------------------------- MODULE RunStoreProofs ---------------------------
(***************************************************************************)
(* Proofs about PostgresRunStore (module RunStore) for every number of     *)
(* runs, threads, keys and sessions, and every batch and lease length; and *)
(* that it implements the ledger it promises its callers (module           *)
(* RunLedger), which is what RuntimeInvocation relies on.                  *)
(***************************************************************************)
EXTENDS RunStore, FiniteSetTheorems, SequenceTheorems, TLAPS

-----------------------------------------------------------------------------
(* The inductive invariant.                                                 *)

\* A thread's ordinals have a largest one, so the next batch has a place.
HasLast == \A t \in Threads : \E n \in Seqs(t) \cup {0} : \A k \in Seqs(t) : k <= n

RowCalls == {"transition", "complete", "fail", "recover", "sweep"}
InTransaction == {"locked", "decide", "insert", "append", "recheck", "commit"}

\* The run a call or a sweep is about exists, on the call's thread: rows are
\* never deleted or moved.
KnownRun(s) ==
  /\ call[s].op \in RowCalls => /\ runs[call[s].run] # NoRow
                                /\ runs[call[s].run].thread = call[s].thread
  /\ \A r \in todo[s] : runs[r] # NoRow
KnownRuns == \A s \in Sessions : KnownRun(s)

\* A session past its lock statement holds its thread's row.
LockInv(s) ==
  /\ pc[s] \in InTransaction => lock[call[s].thread] = s
  /\ \A t \in Threads : lock[t] = s => pc[s] \in InTransaction
  /\ pc[s] \notin {"idle", "sweep"} => call[s].op # "none"
  /\ pc[s] \in {"idle", "sweep"} => call[s].op = "none"
  /\ pc[s] \in {"decide", "insert"} => call[s].op = "claim"
  /\ pc[s] \in {"append", "recheck"} => call[s].op = "complete"

\* A buffered batch continues the thread its session has locked.
Author(c) == IF c.op = "complete" THEN c.run ELSE c.batch
BatchInv(s) ==
  wmsgs[s] # {} => /\ pc[s] \in {"recheck", "commit"}
                   /\ call[s].op \in {"complete", "append"}
                   /\ wmsgs[s] = Batch(call[s].thread, Author(call[s]))

\* A claimed run does not exist before the claim commits.
FreshClaim(s) == call[s].op = "claim" => runs[call[s].run] = NoRow

\* A row's moments on the database clock, and how it came to its status.
RowTimes(row) ==
  /\ row.claimed <= clock /\ row.claimed < row.lease
  /\ row.done # Null => row.claimed <= row.done /\ row.done <= clock
  /\ IsActive(row) <=> row.done = Null
  /\ row.status = "succeeded" \/ row.code = "caller" => row.done < row.lease
  /\ row.code = "caller" => row.status \in Settled
  /\ row.code = "owner_lease_expired" => row.status = "failed" /\ row.lease <= row.done

\* Only an active row is rewritten, and its identity and lease stay.
Rewrites(old, new) ==
  /\ IsActive(old)
  /\ new.thread = old.thread /\ new.key = old.key
  /\ new.claimed = old.claimed /\ new.lease = old.lease

\* Buffered rows: the claimed run's first row, or a rewrite under the lock.
WriteInv(s) ==
  \A r \in Runs : wrows[s][r] # NoRow =>
    /\ pc[s] \in {"insert", "commit"}
    /\ call[s].op \in RowCalls \cup {"claim"}
    /\ call[s].op \in RowCalls => r = call[s].run
    /\ wrows[s][r].thread = call[s].thread
    /\ RowTimes(wrows[s][r])
    /\ wrows[s][r].status = "succeeded" => call[s].op = "complete"
    /\ IF runs[r] = NoRow
       THEN /\ call[s].op = "claim" /\ r = call[s].run
            /\ wrows[s][r].key = call[s].key /\ IsActive(wrows[s][r])
       ELSE Rewrites(runs[r], wrows[s][r])

\* Everything else on the thread was settled before a claim's new row.
SuccessorInv(s) ==
  call[s].op = "claim" /\ wrows[s][call[s].run] # NoRow =>
    \A q \in Runs :
      q # call[s].run /\ runs[q] # NoRow /\ runs[q].thread = call[s].thread =>
        /\ After(s)[q].done # Null
        /\ After(s)[q].done <= wrows[s][call[s].run].claimed

\* A completion that has got this far is of a running run, and its success
\* and its batch are committed together.
CompleteInv(s) ==
  call[s].op = "complete" =>
    /\ pc[s] \in {"append", "recheck"} => runs[call[s].run].status = "running"
    /\ pc[s] \in {"recheck", "commit"} => wmsgs[s] # {}
    /\ pc[s] = "commit" => wrows[s][call[s].run].status = "succeeded"

SessionInv(s) == /\ KnownRun(s) /\ LockInv(s) /\ BatchInv(s) /\ FreshClaim(s)
                 /\ WriteInv(s) /\ SuccessorInv(s) /\ CompleteInv(s)

\* An inserted key is in no committed row and in no other open insert.
KeyInv ==
  /\ \A s \in Sessions : Inserted(s) /\ call[s].key # NoKey =>
       \A q \in Runs : runs[q] # NoRow => runs[q].key # call[s].key
  /\ \A s, x \in Sessions :
       s # x /\ Inserted(s) /\ Inserted(x) /\ call[s].key # NoKey
         => call[s].key # call[x].key
ClaimsApart ==
  \A s, x \in Sessions :
    s # x /\ call[s].op = "claim" /\ call[x].op = "claim" => call[s].run # call[x].run

AllRowTimes == \A r \in Runs : runs[r] # NoRow => RowTimes(runs[r])

Inv == /\ TypeOK /\ HasLast
       /\ \A s \in Sessions : SessionInv(s)
       /\ ClaimsApart /\ KeyInv
       /\ AllRowTimes /\ TurnsSerialized /\ OneRunPerKey /\ AtomicFinalization
-----------------------------------------------------------------------------
(* Types.                                                                   *)

LEMMA RowTypes ==
  ASSUME TypeOK, NEW s \in Sessions, NEW r \in Runs
  PROVE  /\ runs[r] = NoRow \/ runs[r] \in Row
         /\ wrows[s][r] = NoRow \/ wrows[s][r] \in Row
         /\ NoRow \notin Row
BY DEF TypeOK, Row, NoRow, Statuses, Active, Terminal, Settled

LEMMA EndType == ASSUME TypeOK, NEW s \in Sessions, End(s)
  PROVE /\ lock' \in [Threads -> Sessions \cup {None}]
        /\ pc' \in [Sessions -> PCs]
        /\ call' \in [Sessions -> Calls]
        /\ todo' \in [Sessions -> SUBSET Runs]
        /\ wrows' \in [Sessions -> [Runs -> Row \cup {NoRow}]]
        /\ wmsgs' \in [Sessions -> SUBSET Message]
<1>1. NoCall \in Calls BY DEF NoCall, Calls
<1>2. NoWrites \in [Runs -> Row \cup {NoRow}] BY DEF NoWrites
<1>3. QED BY <1>1, <1>2 DEF TypeOK, End, Goto, PCs

LEMMA RejectType == ASSUME TypeOK, NEW s \in Sessions, Reject(s) PROVE TypeOK'
  BY EndType DEF Reject, TypeOK

LEMMA WriteType == ASSUME TypeOK, NEW s \in Sessions, NEW r \in Runs,
     NEW row \in Row \cup {NoRow}, Write(s, r, row) PROVE TypeOK'
  BY DEF Write, TypeOK, Goto, PCs

LEMMA WriteNothingType == ASSUME TypeOK, NEW s \in Sessions, WriteNothing(s)
   PROVE TypeOK'
  BY DEF WriteNothing, TypeOK, Goto, PCs

LEMMA BeginType == ASSUME TypeOK, NEW s \in Sessions, NEW c \in Calls, Begin(s, c)
   PROVE TypeOK'
  BY DEF Begin, TypeOK, Goto, PCs

LEMMA StartType == ASSUME TypeOK, NEW s \in Sessions, Start(s)
   PROVE TypeOK'
<1>1. CASE BeginClaim(s)
  BY <1>1, RequestsAssumption, BeginType DEF BeginClaim, Calls
<1>2. CASE BeginTransition(s)
  BY <1>2, BeginType, RowTypes DEF BeginTransition, Calls, Row
<1>3. CASE BeginComplete(s)
  BY <1>3, BeginType, RowTypes DEF BeginComplete, Calls, Row
<1>4. CASE BeginFail(s)
  BY <1>4, BeginType, RowTypes DEF BeginFail, Calls, Row
<1>5. CASE BeginRecover(s)
  BY <1>5, BeginType, RowTypes DEF BeginRecover, Calls, Row
<1>6. CASE BeginAppend(s)
  BY <1>6, BeginType DEF BeginAppend, Calls
<1>7. CASE SweepRead(s)
  BY <1>7 DEF SweepRead, TypeOK, Goto, PCs, ExpiredRuns
<1>8. QED BY <1>1, <1>2, <1>3, <1>4, <1>5, <1>6, <1>7 DEF Start

LEMMA LastSeqIsMax ==
  ASSUME TypeOK, HasLast, NEW t \in Threads
  PROVE  /\ LastSeq(t) \in Nat
         /\ \A k \in Seqs(t) : k \in Nat /\ k <= LastSeq(t)
<1>1. PICK n \in Seqs(t) \cup {0} : \A k \in Seqs(t) : k <= n
  BY DEF HasLast
<1>2. /\ LastSeq(t) \in Seqs(t) \cup {0}
      /\ \A k \in Seqs(t) : k <= LastSeq(t)
  BY <1>1 DEF LastSeq
<1>3. \A k \in Seqs(t) : k \in Nat
  BY DEF Seqs, TypeOK, Message
<1>4. QED BY <1>2, <1>3

LEMMA BatchType ==
  ASSUME TypeOK, HasLast, NEW t \in Threads, NEW from \in Runs \cup HostBatches
  PROVE  LastSeq(t) \in Nat /\ Batch(t, from) \in SUBSET Message
<1>1. LastSeq(t) \in Nat
  BY LastSeqIsMax
<1>2. \A i \in 1 .. BatchLen : LastSeq(t) + i \in Nat
  BY <1>1, LengthAssumption
<1>3. \A i \in 1 .. BatchLen :
        [thread |-> t, seq |-> LastSeq(t) + i, from |-> from, part |-> i] \in Message
  BY <1>2 DEF Message
<1>4. QED BY <1>1, <1>3 DEF Batch

\* The row a call in transaction is about, and the rows it may become.
LEMMA CallRowType ==
  ASSUME TypeOK, KnownRuns, NEW s \in Sessions, call[s].op \in RowCalls
  PROVE  /\ call[s].run \in Runs /\ call[s].thread \in Threads
         /\ runs[call[s].run] \in Row
<1>1. call[s].run \in Runs /\ call[s].thread \in Threads
  <2>1. call[s] \in Calls BY DEF TypeOK
  <2>2. QED BY <2>1 DEF RowCalls, Calls
<1>2. runs[call[s].run] # NoRow
  BY DEF KnownRuns, KnownRun
<1>3. QED BY <1>1, <1>2, RowTypes

LEMMA ExpireRowType == ASSUME TypeOK, NEW row \in Row PROVE ExpireRow(row) \in Row
BY DEF TypeOK, ExpireRow, Row, Statuses, Active, Terminal, Settled

LEMMA StatementType ==
  ASSUME TypeOK, HasLast, KnownRuns, NEW s \in Sessions, Statement(s)
  PROVE  TypeOK'
<1>1. CASE ClaimLookup(s)
  BY <1>1, RejectType DEF ClaimLookup, At, TypeOK, Goto, PCs
<1>2. CASE ClaimDecide(s)
  <2>1. CASE Reject(s)
    BY <2>1, RejectType
  <2>2. CASE ~ Reject(s)
    <3>1. NewRow(call[s]) \in Row
      <4>1. /\ call[s].thread \in Threads /\ call[s].key \in Keys \cup {NoKey}
            /\ call[s].hash \in Hashes /\ call[s].ttl \in LeaseTimes
        BY <1>2 DEF ClaimDecide, At, TypeOK, Calls
      <4>2. clock \in Nat /\ clock + call[s].ttl \in Nat
        <5>1. call[s].ttl \in Nat BY <4>1, LeaseAssumption
        <5>2. QED BY <5>1 DEF TypeOK
      <4>3. QED BY <4>1, <4>2 DEF NewRow, Row, Statuses, Active
    <3>2. \A r \in ActiveOn(call[s].thread) : ExpireRow(runs[r]) \in Row
      BY RowTypes, ExpireRowType DEF ActiveOn
    <3>3. [r \in Runs |-> IF r \in ActiveOn(call[s].thread) THEN ExpireRow(runs[r])
                         ELSE IF r = call[s].run THEN NewRow(call[s]) ELSE NoRow]
          \in [Runs -> Row \cup {NoRow}]
      BY <3>1, <3>2
    <3>4. /\ pc' \in [Sessions -> PCs]
          /\ wrows' \in [Sessions -> [Runs -> Row \cup {NoRow}]]
          /\ UNCHANGED <<runs, messages, clock, lock, call, todo, wmsgs>>
      <4>1. wrows \in [Sessions -> [Runs -> Row \cup {NoRow}]] /\ pc \in [Sessions -> PCs]
        BY DEF TypeOK
      <4>2. QED BY <1>2, <2>2, <3>3, <4>1, ZenonT(30) DEF ClaimDecide, Goto, PCs
    <3>5. QED BY <3>4 DEF TypeOK
  <2>3. QED BY <2>1, <2>2
<1>3. CASE ClaimInsert(s)
  <2>1. call[s].run \in Runs
    BY <1>3 DEF ClaimInsert, At, TypeOK, Calls
  <2>2. Reject(s) \/ WriteNothing(s) \/ Write(s, call[s].run, NoRow)
    BY <1>3 DEF ClaimInsert
  <2>3. QED BY <2>1, <2>2, RejectType, WriteNothingType, WriteType
<1>4. CASE Transition(s)
  <2>1. /\ call[s].run \in Runs /\ runs[call[s].run] \in Row
        /\ call[s].status \in Statuses
    BY <1>4, CallRowType
    DEF Transition, At, RowCalls, TypeOK, Calls, Statuses, Active, Terminal, Settled
  <2>2. [runs[call[s].run] EXCEPT
          !.status = call[s].status,
          !.code = IF call[s].status \in Settled THEN "caller" ELSE "none",
          !.done = IF call[s].status \in Settled THEN clock ELSE @] \in Row
    BY <2>1 DEF Row, TypeOK
  <2>3. QED BY <1>4, <2>1, <2>2, RejectType, WriteType DEF Transition
<1>5. CASE CompleteCheck(s)
  BY <1>5, RejectType DEF CompleteCheck, At, TypeOK, Goto, PCs
<1>6. CASE CompleteAppend(s)
  <2>1. call[s].thread \in Threads /\ call[s].run \in Runs
    BY <1>6 DEF CompleteAppend, At, TypeOK, Calls
  <2>2. Batch(call[s].thread, call[s].run) \in SUBSET Message
    BY <2>1, BatchType
  <2>3. QED BY <1>6, <2>2 DEF CompleteAppend, TypeOK, Goto, PCs
<1>7. CASE CompleteRecheck(s)
  <2>1. call[s].run \in Runs /\ runs[call[s].run] \in Row
    BY <1>7, CallRowType DEF CompleteRecheck, At, RowCalls
  <2>2. [runs[call[s].run] EXCEPT !.status = "succeeded", !.done = clock,
                                  !.code = "none"] \in Row
    BY <2>1 DEF Row, TypeOK, Statuses, Terminal
  <2>3. QED BY <1>7, <2>1, <2>2, RejectType, WriteType DEF CompleteRecheck
<1>8. CASE FailIfRunning(s)
  <2>1. /\ call[s].run \in Runs /\ runs[call[s].run] \in Row
        /\ call[s].status \in Statuses
    BY <1>8, CallRowType DEF FailIfRunning, At, RowCalls, TypeOK, Calls, Statuses, Terminal
  <2>2. [runs[call[s].run] EXCEPT !.status = call[s].status, !.code = "caller",
                                  !.done = clock] \in Row
    BY <2>1 DEF Row, TypeOK
  <2>3. QED
    BY <1>8, <2>1, <2>2, RejectType, WriteType, WriteNothingType, ExpireRowType
    DEF FailIfRunning
<1>9. CASE Recover(s)
  <2>1. call[s].run \in Runs /\ runs[call[s].run] \in Row
    BY <1>9, CallRowType DEF Recover, RowCalls
  <2>2. QED
    BY <1>9, <2>1, WriteType, WriteNothingType, ExpireRowType DEF Recover
<1>10. CASE HostAppend(s)
  <2>1. call[s].thread \in Threads /\ call[s].batch \in HostBatches
    BY <1>10 DEF HostAppend, At, TypeOK, Calls
  <2>2. Batch(call[s].thread, call[s].batch) \in SUBSET Message
    BY <2>1, BatchType
  <2>3. QED BY <1>10, <2>2 DEF HostAppend, TypeOK, Goto, PCs
<1>11. CASE SweepTake(s)
  <2>1. \A r \in todo[s] : r \in Runs /\ runs[r].thread \in Threads
    BY RowTypes DEF KnownRuns, KnownRun, TypeOK, Row
  <2>2. PICK r \in todo[s] : SweepTake(s)!2!(r)
    BY <1>11 DEF SweepTake
  <2>3. [op |-> "sweep", run |-> r, thread |-> runs[r].thread] \in Calls
    BY <2>1 DEF Calls
  <2>4. /\ todo' \in [Sessions -> SUBSET Runs]
        /\ pc' \in [Sessions -> PCs]
    BY <2>2 DEF Goto, TypeOK, PCs
  <2>5. /\ lock' \in [Threads -> Sessions \cup {None}]
        /\ call' \in [Sessions -> Calls]
    BY <2>1, <2>2, <2>3 DEF TypeOK
  <2>6. QED BY <1>11, <2>4, <2>5 DEF SweepTake, TypeOK
<1>12. CASE Commit(s)
  BY <1>12, EndType DEF Commit, TypeOK
<1>13. QED BY <1>1, <1>2, <1>3, <1>4, <1>5, <1>6, <1>7, <1>8, <1>9, <1>10, <1>11, <1>12
           DEF Statement
-----------------------------------------------------------------------------
(* What a step of one session leaves alone.                                 *)

Step(s) == Start(s) \/ Lock(s) \/ Statement(s) \/ Rollback(s)

LEMMA Frame ==
  ASSUME TypeOK, NEW s \in Sessions, Step(s)
  PROVE  /\ \A x \in Sessions \ {s} :
              /\ pc'[x] = pc[x] /\ call'[x] = call[x] /\ todo'[x] = todo[x]
              /\ wrows'[x] = wrows[x] /\ wmsgs'[x] = wmsgs[x]
              /\ \A t \in Threads : lock[t] = x <=> lock'[t] = x
         /\ clock' = clock
         /\ Commit(s) \/ UNCHANGED <<runs, messages>>
<1> DEFINE Framed == /\ \A x \in Sessions \ {s} :
                          /\ pc'[x] = pc[x] /\ call'[x] = call[x] /\ todo'[x] = todo[x]
                          /\ wrows'[x] = wrows[x] /\ wmsgs'[x] = wmsgs[x]
                          /\ \A t \in Threads : lock[t] = x <=> lock'[t] = x
                     /\ clock' = clock
                     /\ Commit(s) \/ UNCHANGED <<runs, messages>>
<1> USE DEF TypeOK, Goto
<1>1. ASSUME NEW c \in Calls, Begin(s, c) PROVE Framed
  BY <1>1 DEF Begin
<1>2. CASE Reject(s)
  BY <1>2, NoneAssumption DEF Reject, End
<1>3. CASE WriteNothing(s)
  BY <1>3 DEF WriteNothing
<1>4. ASSUME NEW r \in Runs, NEW row, Write(s, r, row) PROVE Framed
  BY <1>4 DEF Write
<1>5. CASE Start(s)
  BY <1>5 DEF Start, BeginClaim, BeginTransition, BeginComplete, BeginFail,
              BeginRecover, BeginAppend, SweepRead, Begin
<1>6. CASE Lock(s)
  BY <1>6, NoneAssumption DEF Lock
<1>7. CASE Rollback(s)
  BY <1>7, NoneAssumption DEF Rollback
<1>8. CASE Commit(s)
  BY <1>8, NoneAssumption DEF Commit, End
<1>9. CASE ClaimLookup(s)
  BY <1>9, <1>2 DEF ClaimLookup
<1>10. CASE ClaimDecide(s)
  BY <1>10, <1>2 DEF ClaimDecide
<1>11. CASE ClaimInsert(s)
  BY <1>11, <1>2, <1>3 DEF ClaimInsert, Write
<1>12. CASE Transition(s)
  BY <1>12, <1>2 DEF Transition, Write
<1>13. CASE CompleteCheck(s)
  BY <1>13, <1>2 DEF CompleteCheck
<1>14. CASE CompleteAppend(s)
  BY <1>14 DEF CompleteAppend
<1>15. CASE CompleteRecheck(s)
  BY <1>15, <1>2 DEF CompleteRecheck, Write
<1>16. CASE FailIfRunning(s)
  BY <1>16, <1>2, <1>3 DEF FailIfRunning, Write
<1>17. CASE Recover(s)
  BY <1>17, <1>3 DEF Recover, Write
<1>18. CASE HostAppend(s)
  BY <1>18 DEF HostAppend
<1>19. CASE SweepTake(s)
  BY <1>19, NoneAssumption DEF SweepTake
<1>20. QED
  BY <1>5, <1>6, <1>7, <1>8, <1>9, <1>10, <1>11, <1>12, <1>13, <1>14, <1>15,
     <1>16, <1>17, <1>18, <1>19 DEF Step, Statement

\* Two sessions past their lock statements are on different threads.
LEMMA Exclusive ==
  ASSUME NEW s \in Sessions, NEW x \in Sessions, s # x, LockInv(s), LockInv(x),
         pc[s] \in InTransaction, pc[x] \in InTransaction
  PROVE  call[s].thread # call[x].thread
BY DEF LockInv

LEMMA ThreadOfCall ==
  ASSUME TypeOK, NEW s \in Sessions, call[s].op # "none"
  PROVE  call[s].thread \in Threads
<1>1. call[s] \in Calls BY DEF TypeOK
<1>2. QED BY <1>1 DEF Calls

LEMMA RunOfCall ==
  ASSUME TypeOK, NEW s \in Sessions, call[s].op \in RowCalls \cup {"claim"}
  PROVE  call[s].run \in Runs
<1>1. call[s] \in Calls BY DEF TypeOK
<1>2. QED BY <1>1 DEF Calls, RowCalls

\* What a commit does to the tables: rows and messages of one thread, which the
\* committing session has locked.
LEMMA CommitEffect ==
  ASSUME Inv, NEW s \in Sessions, Commit(s)
  PROVE  /\ call[s].op # "none" /\ call[s].thread \in Threads
         /\ lock[call[s].thread] = s
         /\ \A r \in Runs :
              \/ wrows[s][r] = NoRow /\ runs'[r] = runs[r]
              \/ /\ wrows[s][r] # NoRow /\ runs'[r] = wrows[s][r]
                 /\ runs'[r].thread = call[s].thread
                 /\ RowTimes(runs'[r])
                 /\ \/ /\ runs[r] = NoRow /\ call[s].op = "claim" /\ r = call[s].run
                       /\ runs'[r].key = call[s].key /\ IsActive(runs'[r])
                    \/ runs[r] # NoRow /\ Rewrites(runs[r], runs'[r])
         /\ messages' = messages \cup wmsgs[s]
         /\ \A m \in wmsgs[s] : m.thread = call[s].thread
         /\ clock' = clock
<1>1. SessionInv(s) BY DEF Inv
<1>2. call[s].op # "none" /\ lock[call[s].thread] = s
  BY <1>1 DEF SessionInv, LockInv, Commit, InTransaction
<1>3. call[s].thread \in Threads
  BY <1>2, ThreadOfCall DEF Inv
<1>4. \A m \in wmsgs[s] : m.thread = call[s].thread
  BY <1>1 DEF SessionInv, BatchInv, Batch
<1>5. ASSUME NEW r \in Runs
      PROVE  \/ wrows[s][r] = NoRow /\ runs'[r] = runs[r]
             \/ /\ wrows[s][r] # NoRow /\ runs'[r] = wrows[s][r]
                /\ runs'[r].thread = call[s].thread
                /\ RowTimes(runs'[r])
                /\ \/ /\ runs[r] = NoRow /\ call[s].op = "claim" /\ r = call[s].run
                      /\ runs'[r].key = call[s].key /\ IsActive(runs'[r])
                   \/ runs[r] # NoRow /\ Rewrites(runs[r], runs'[r])
  <2>1. CASE wrows[s][r] = NoRow
    BY <2>1 DEF Commit
  <2>2. CASE wrows[s][r] # NoRow
    <3>1. runs'[r] = wrows[s][r]
      BY <2>2 DEF Commit
    <3>2. WriteInv(s) BY <1>1 DEF SessionInv
    <3>3. QED BY <2>2, <3>1, <3>2 DEF WriteInv
  <2>3. QED BY <2>1, <2>2
<1>6. QED BY <1>2, <1>3, <1>4, <1>5 DEF Commit

\* A commit leaves the rows and messages of every other thread as they were.
LEMMA CommitElsewhere ==
  ASSUME Inv, NEW s \in Sessions, Commit(s), NEW t \in Threads, t # call[s].thread
  PROVE  /\ \A r \in Runs : runs[r] # NoRow /\ runs[r].thread = t => runs'[r] = runs[r]
         /\ \A r \in Runs : runs'[r] # NoRow /\ runs'[r].thread = t => runs'[r] = runs[r]
         /\ Seqs(t)' = Seqs(t)
         /\ \A from : Batch(t, from)' = Batch(t, from)
<1>1. \A r \in Runs : runs[r] # NoRow /\ runs[r].thread = t => runs'[r] = runs[r]
  BY CommitEffect DEF Rewrites
<1>2. \A r \in Runs : runs'[r] # NoRow /\ runs'[r].thread = t => runs'[r] = runs[r]
  BY CommitEffect DEF Rewrites
<1>3. Seqs(t)' = Seqs(t)
  BY CommitEffect DEF Seqs
<1>4. \A from : Batch(t, from)' = Batch(t, from)
  BY <1>3 DEF Batch, LastSeq
<1>5. QED BY <1>1, <1>2, <1>3, <1>4

-----------------------------------------------------------------------------
(* A step of one session preserves what every other session relies on.      *)

LEMMA OthersStay ==
  ASSUME Inv, NEW s \in Sessions, Step(s), NEW x \in Sessions \ {s}
  PROVE  SessionInv(x)'
<1> DEFINE Same == /\ pc'[x] = pc[x] /\ call'[x] = call[x] /\ todo'[x] = todo[x]
                   /\ wrows'[x] = wrows[x] /\ wmsgs'[x] = wmsgs[x]
                   /\ clock' = clock
<1>1. Same /\ \A t \in Threads : lock[t] = x <=> lock'[t] = x
  BY Frame DEF Inv
<1>2. SessionInv(x) /\ SessionInv(s) BY DEF Inv
<1>3. LockInv(x)'
  <2>1. call[x].op # "none" => call[x].thread \in Threads
    BY ThreadOfCall DEF Inv
  <2>2. QED BY <1>1, <1>2, <2>1 DEF SessionInv, LockInv, InTransaction
<1>4. CASE UNCHANGED <<runs, messages>>
  <2>1. KnownRun(x)' /\ FreshClaim(x)' /\ CompleteInv(x)'
    BY <1>1, <1>2, <1>4 DEF SessionInv, KnownRun, FreshClaim, CompleteInv
  <2>2. BatchInv(x)'
    <3>1. \A t, from : Batch(t, from)' = Batch(t, from)
      BY <1>4 DEF Batch, LastSeq, Seqs
    <3>2. QED BY <1>1, <1>2, <3>1 DEF SessionInv, BatchInv
  <2>3. WriteInv(x)'
    BY <1>1, <1>2, <1>4 DEF SessionInv, WriteInv, RowTimes
  <2>4. SuccessorInv(x)'
    BY <1>1, <1>2, <1>4 DEF SessionInv, SuccessorInv, After
  <2>5. QED BY <1>3, <2>1, <2>2, <2>3, <2>4 DEF SessionInv
<1>5. CASE Commit(s)
  <2> DEFINE t == call[x].thread
  <2>1. pc[x] \in InTransaction => t \in Threads /\ t # call[s].thread
    <3>1. pc[s] \in InTransaction
      BY <1>5 DEF Commit, InTransaction
    <3>2. QED BY <1>2, <3>1, Exclusive, ThreadOfCall DEF SessionInv, LockInv, Inv, InTransaction
  <2>2. \A r \in Runs : runs[r] # NoRow => runs'[r] # NoRow /\ runs'[r].thread = runs[r].thread
    <3>1. NoRow \notin Row BY DEF NoRow, Row, Statuses, Active, Terminal, Settled
    <3>2. wrows \in [Sessions -> [Runs -> Row \cup {NoRow}]] BY DEF Inv, TypeOK
    <3>3. QED BY <1>5, CommitEffect, <3>1, <3>2 DEF Rewrites
  <2>3. KnownRun(x)'
    <3>1. call[x].op \in RowCalls => call[x].run \in Runs
      BY RunOfCall DEF Inv
    <3>2. todo[x] \subseteq Runs BY DEF Inv, TypeOK
    <3>3. QED BY <1>1, <1>2, <2>2, <3>1, <3>2 DEF SessionInv, KnownRun
  <2>4. FreshClaim(x)'
    <3>1. SUFFICES ASSUME call[x].op = "claim" PROVE runs'[call[x].run] = NoRow
      BY <1>1 DEF FreshClaim
    <3>2. call[x].run \in Runs BY <3>1, RunOfCall DEF Inv
    <3>3. runs[call[x].run] = NoRow BY <1>2, <3>1 DEF SessionInv, FreshClaim
    <3>4. call[s].op = "claim" => call[s].run # call[x].run
      BY <3>1 DEF Inv, ClaimsApart
    <3>5. QED BY <1>5, <3>2, <3>3, <3>4, CommitEffect
  <2>5. BatchInv(x)'
    BY <1>1, <1>2, <1>5, <2>1, CommitElsewhere DEF SessionInv, BatchInv, InTransaction
  <2>6. WriteInv(x)'
    <3>1. SUFFICES ASSUME NEW r \in Runs, wrows[x][r] # NoRow
                   PROVE  runs'[r] = runs[r]
      BY <1>1, <1>2 DEF SessionInv, WriteInv, RowTimes
    <3>2. /\ pc[x] \in InTransaction /\ wrows[x][r].thread = t
          /\ IF runs[r] = NoRow THEN call[x].op = "claim" /\ r = call[x].run
             ELSE runs[r].thread = t
      BY <1>2, <3>1 DEF SessionInv, WriteInv, Rewrites, InTransaction
    <3>3. CASE runs[r] = NoRow
      BY <2>4, <3>2, <3>3, <1>1 DEF FreshClaim
    <3>4. CASE runs[r] # NoRow
      BY <1>5, <2>1, <3>2, <3>4, CommitElsewhere
    <3>5. QED BY <3>3, <3>4
  <2>7. SuccessorInv(x)'
    <3>1. SUFFICES ASSUME call[x].op = "claim", wrows[x][call[x].run] # NoRow,
                          NEW q \in Runs, q # call[x].run,
                          runs'[q] # NoRow, runs'[q].thread = t
                   PROVE  After(x)'[q].done # Null
                          /\ After(x)'[q].done <= wrows[x][call[x].run].claimed
      BY <1>1 DEF SuccessorInv
    <3>2. call[x].run \in Runs BY <3>1, RunOfCall DEF Inv
    <3>3. pc[x] \in InTransaction
      BY <1>2, <3>1, <3>2 DEF SessionInv, WriteInv, InTransaction
    <3>4. runs'[q] = runs[q]
      BY <1>5, <2>1, <3>1, <3>3, CommitElsewhere
    <3>5. After(x)'[q] = After(x)[q]
      BY <1>1, <3>4 DEF After
    <3>6. QED BY <1>2, <3>1, <3>4, <3>5 DEF SessionInv, SuccessorInv
  <2>8. CompleteInv(x)'
    <3>1. SUFFICES ASSUME call[x].op = "complete", pc[x] \in {"append", "recheck"}
                   PROVE  runs'[call[x].run] = runs[call[x].run]
      BY <1>1, <1>2 DEF SessionInv, CompleteInv
    <3>2. /\ call[x].run \in Runs /\ runs[call[x].run] # NoRow
          /\ runs[call[x].run].thread = t
      BY <1>2, <3>1, RunOfCall DEF SessionInv, KnownRun, RowCalls, Inv
    <3>3. QED BY <1>5, <2>1, <3>1, <3>2, CommitElsewhere DEF InTransaction
  <2>9. QED BY <1>3, <2>3, <2>4, <2>5, <2>6, <2>7, <2>8 DEF SessionInv
<1>6. QED BY <1>4, <1>5, Frame DEF Inv

-----------------------------------------------------------------------------
(* A step of a session re-establishes its own part of the invariant.        *)

LEMMA Cleared ==
  ASSUME Inv, NEW s \in Sessions,
         pc'[s] \in {"idle", "sweep"}, call'[s] = NoCall, wrows'[s] = NoWrites,
         wmsgs'[s] = {}, \A t \in Threads : lock'[t] # s, \A r \in todo'[s] : runs'[r] # NoRow
  PROVE  SessionInv(s)'
<1> USE DEF NoCall, NoWrites
<1>1. KnownRun(s)' /\ LockInv(s)' /\ FreshClaim(s)' /\ CompleteInv(s)'
  BY DEF KnownRun, LockInv, FreshClaim, CompleteInv, RowCalls, InTransaction
<1>2. BatchInv(s)' /\ WriteInv(s)' /\ SuccessorInv(s)'
  BY DEF BatchInv, WriteInv, SuccessorInv
<1>3. QED BY <1>1, <1>2 DEF SessionInv

LEMMA RejectSelf ==
  ASSUME Inv, NEW s \in Sessions, Reject(s) \/ Rollback(s)
  PROVE  SessionInv(s)'
<1>1. /\ pc'[s] \in {"idle", "sweep"} /\ call'[s] = NoCall /\ wrows'[s] = NoWrites
      /\ wmsgs'[s] = {} /\ \A t \in Threads : lock'[t] # s
  BY NoneAssumption DEF Inv, TypeOK, Reject, Rollback, End, Goto
<1>2. \A r \in todo'[s] : runs'[r] # NoRow
  BY DEF Inv, TypeOK, Reject, Rollback, End, SessionInv, KnownRun
<1>3. QED BY <1>1, <1>2, Cleared

\* A call starts, or a statement leaves the buffers and the tables alone.
LEMMA QuietSelf ==
  ASSUME Inv, TypeOK', NEW s \in Sessions, pc[s] \notin {"insert", "commit"},
         UNCHANGED <<runs, messages, clock, wrows, wmsgs>>
  PROVE  /\ \A r \in Runs : wrows[s][r] = NoRow
         /\ WriteInv(s)' /\ SuccessorInv(s)'
<1>1. \A r \in Runs : wrows[s][r] = NoRow
  BY DEF Inv, SessionInv, WriteInv
<1>2. WriteInv(s)'
  BY <1>1 DEF WriteInv
<1>3. SuccessorInv(s)'
  <2>1. call'[s] \in Calls BY DEF TypeOK
  <2>2. call'[s].op = "claim" => call'[s].run \in Runs BY <2>1 DEF Calls
  <2>3. QED BY <1>1, <2>2 DEF SuccessorInv
<1>4. QED BY <1>1, <1>2, <1>3

LEMMA StartSelf ==
  ASSUME Inv, TypeOK', NEW s \in Sessions, Start(s)
  PROVE  SessionInv(s)'
<1>1. SessionInv(s) BY DEF Inv
<1>2. pc[s] = "idle" /\ UNCHANGED <<runs, messages, clock, lock, wrows, wmsgs>>
  BY DEF Start, BeginClaim, BeginTransition, BeginComplete, BeginFail,
         BeginRecover, BeginAppend, SweepRead, Begin
<1>3. WriteInv(s)' /\ SuccessorInv(s)'
  BY <1>2, QuietSelf
<1>4. BatchInv(s)'
  BY <1>1, <1>2 DEF SessionInv, BatchInv
<1>5. CASE SweepRead(s)
  <2>1. pc'[s] = "sweep" /\ call'[s] = call[s]
    BY <1>5 DEF SweepRead, Goto, Inv, TypeOK
  <2>2. \A r \in todo'[s] : runs'[r] # NoRow
    BY <1>5 DEF SweepRead, ExpiredRuns, Inv, TypeOK
  <2>3. call[s].op = "none"
    BY <1>1, <1>2 DEF SessionInv, LockInv
  <2>4. KnownRun(s)' /\ LockInv(s)' /\ FreshClaim(s)' /\ CompleteInv(s)'
    BY <1>1, <1>2, <2>1, <2>2, <2>3 DEF SessionInv, KnownRun, LockInv, FreshClaim,
                            CompleteInv, RowCalls, InTransaction
  <2>5. QED BY <1>3, <1>4, <2>4 DEF SessionInv
<1>6. ASSUME NEW c \in Calls, Begin(s, c),
             /\ c.op \in RowCalls => runs[c.run] # NoRow /\ runs[c.run].thread = c.thread
             /\ c.op = "claim" => runs[c.run] = NoRow
             /\ c.op # "none"
      PROVE  SessionInv(s)'
  <2>1. pc'[s] = "lock" /\ call'[s] = c /\ todo'[s] = todo[s]
    BY <1>6 DEF Begin, Goto, Inv, TypeOK
  <2>2. KnownRun(s)' /\ LockInv(s)' /\ FreshClaim(s)' /\ CompleteInv(s)'
    BY <1>1, <1>2, <1>6, <2>1 DEF SessionInv, KnownRun, LockInv, FreshClaim, CompleteInv,
                            RowCalls, InTransaction
  <2>3. QED BY <1>3, <1>4, <2>2 DEF SessionInv
<1>7. CASE BeginClaim(s)
  <2>1. PICK r \in Runs, q \in Requests, l \in LeaseTimes : BeginClaim(s)!(r, q, l)
    BY <1>7 DEF BeginClaim
  <2> DEFINE c == [op |-> "claim", run |-> r, thread |-> q.thread,
                   key |-> q.key, hash |-> q.hash, ttl |-> l]
  <2>2. c \in Calls BY RequestsAssumption DEF Calls
  <2>3. QED BY <1>6, <2>1, <2>2 DEF RowCalls
<1>8. CASE BeginTransition(s)
  <2>1. PICK r, token \in Runs, st \in {"running"} \cup Settled :
          BeginTransition(s)!(r, token, st)
    BY <1>8 DEF BeginTransition
  <2> DEFINE c == [op |-> "transition", run |-> r, thread |-> runs[r].thread,
                   token |-> token, status |-> st]
  <2>2. c \in Calls BY <2>1, RowTypes DEF Inv, Calls, Row
  <2>3. QED BY <1>6, <2>1, <2>2 DEF RowCalls
<1>9. CASE BeginComplete(s)
  <2>1. PICK r, token \in Runs, ok \in BOOLEAN : BeginComplete(s)!(r, token, ok)
    BY <1>9 DEF BeginComplete
  <2> DEFINE c == [op |-> "complete", run |-> r, thread |-> runs[r].thread,
                   token |-> token, matches |-> ok]
  <2>2. c \in Calls BY <2>1, RowTypes DEF Inv, Calls, Row
  <2>3. QED BY <1>6, <2>1, <2>2 DEF RowCalls
<1>10. CASE BeginFail(s)
  <2>1. PICK r, token \in Runs, st \in Settled : BeginFail(s)!(r, token, st)
    BY <1>10 DEF BeginFail
  <2> DEFINE c == [op |-> "fail", run |-> r, thread |-> runs[r].thread,
                   token |-> token, status |-> st]
  <2>2. c \in Calls BY <2>1, RowTypes DEF Inv, Calls, Row
  <2>3. QED BY <1>6, <2>1, <2>2 DEF RowCalls
<1>11. CASE BeginRecover(s)
  <2>1. PICK r \in Runs : BeginRecover(s)!(r)
    BY <1>11 DEF BeginRecover
  <2> DEFINE c == [op |-> "recover", run |-> r, thread |-> runs[r].thread]
  <2>2. c \in Calls BY <2>1, RowTypes DEF Inv, Calls, Row
  <2>3. QED BY <1>6, <2>1, <2>2 DEF RowCalls
<1>12. CASE BeginAppend(s)
  <2>1. PICK t \in Threads, b \in HostBatches : BeginAppend(s)!(t, b)
    BY <1>12 DEF BeginAppend
  <2> DEFINE c == [op |-> "append", thread |-> t, batch |-> b]
  <2>2. c \in Calls BY DEF Calls
  <2>3. QED BY <1>6, <2>1, <2>2 DEF RowCalls
<1>13. QED BY <1>5, <1>7, <1>8, <1>9, <1>10, <1>11, <1>12 DEF Start

LEMMA LockSelf ==
  ASSUME Inv, TypeOK', NEW s \in Sessions, Lock(s)
  PROVE  SessionInv(s)'
<1>1. SessionInv(s) /\ pc[s] = "lock" BY DEF Inv, Lock
<1>2. call[s].op # "none"
  BY <1>1 DEF SessionInv, LockInv
<1>3. /\ pc'[s] = "locked" /\ UNCHANGED <<runs, messages, clock, call, todo, wrows, wmsgs>>
      /\ wmsgs[s] = {} /\ lock'[call[s].thread] = s
  BY <1>1, <1>2, ThreadOfCall DEF Lock, Goto, Inv, TypeOK, SessionInv, BatchInv
<1>4. WriteInv(s)' /\ SuccessorInv(s)'
  BY <1>1, <1>3, QuietSelf
<1>5. QED
  BY <1>1, <1>2, <1>3, <1>4 DEF SessionInv, KnownRun, LockInv, BatchInv, FreshClaim,
                                CompleteInv, InTransaction

\* Statements that only move on, the lock held.
LEMMA MoveSelf ==
  ASSUME Inv, TypeOK', NEW s \in Sessions,
         UNCHANGED <<runs, messages, clock, lock, call, todo, wrows, wmsgs>>,
         \/ At(s, "locked", "claim") /\ pc' = [pc EXCEPT ![s] = "decide"]
         \/ /\ At(s, "locked", "complete") /\ pc' = [pc EXCEPT ![s] = "append"]
            /\ runs[call[s].run].status = "running"
  PROVE  SessionInv(s)'
<1>1. SessionInv(s) BY DEF Inv
<1>2. \/ pc'[s] = "decide" /\ call[s].op = "claim"
      \/ /\ pc'[s] = "append" /\ call[s].op = "complete"
         /\ runs[call[s].run].status = "running"
  BY DEF At, Inv, TypeOK
<1>3. pc[s] = "locked" /\ wmsgs[s] = {}
  BY <1>1 DEF At, SessionInv, BatchInv
<1>4. WriteInv(s)' /\ SuccessorInv(s)'
  BY <1>3, QuietSelf
<1>5. QED
  BY <1>1, <1>2, <1>3, <1>4 DEF SessionInv, KnownRun, LockInv, BatchInv, FreshClaim,
                                CompleteInv, InTransaction

\* Statements that write the call's own row and go on to the commit.
LEMMA WriteSelf ==
  ASSUME Inv, NEW s \in Sessions, call[s].op \in RowCalls, pc[s] \in {"locked", "recheck"},
         pc[s] = "recheck" <=> call[s].op = "complete",
         NEW row \in Row, Write(s, call[s].run, row),
         Rewrites(runs[call[s].run], row), RowTimes(row),
         row.status = "succeeded" <=> call[s].op = "complete"
  PROVE  SessionInv(s)'
<1> DEFINE r == call[s].run
<1>1. SessionInv(s) /\ r \in Runs
  BY RunOfCall DEF Inv
<1>2. /\ pc'[s] = "commit" /\ UNCHANGED <<runs, messages, clock, lock, call, todo, wmsgs>>
      /\ wrows'[s] = [wrows[s] EXCEPT ![r] = row]
  BY DEF Write, Goto, Inv, TypeOK
<1>3. \A q \in Runs : wrows[s][q] = NoRow
  BY <1>1 DEF SessionInv, WriteInv
<1>4. wrows'[s][r] = row /\ \A q \in Runs \ {r} : wrows'[s][q] = NoRow
  <2>1. wrows[s] \in [Runs -> Row \cup {NoRow}] BY DEF Inv, TypeOK
  <2>2. QED BY <1>1, <1>2, <1>3, <2>1
<1>5. KnownRun(s)' /\ LockInv(s)' /\ FreshClaim(s)'
  BY <1>1, <1>2 DEF SessionInv, KnownRun, LockInv, FreshClaim, RowCalls, InTransaction
<1>6. BatchInv(s)' /\ CompleteInv(s)'
  <2>1. \A t, from : Batch(t, from)' = Batch(t, from)
    BY <1>2 DEF Batch, LastSeq, Seqs
  <2>2. QED BY <1>1, <1>2, <1>4, <2>1 DEF SessionInv, BatchInv, CompleteInv
<1>7. WriteInv(s)'
  <2>1. runs[r] # NoRow /\ runs[r].thread = call[s].thread
    BY <1>1 DEF SessionInv, KnownRun
  <2>2. row.thread = call[s].thread
    BY <2>1 DEF Rewrites
  <2>3. RowTimes(row)'
    BY <1>2 DEF RowTimes
  <2>4. QED BY <1>2, <1>4, <2>1, <2>2, <2>3 DEF WriteInv, RowTimes, Rewrites
<1>8. SuccessorInv(s)'
  BY <1>2 DEF SuccessorInv, RowCalls
<1>9. QED BY <1>5, <1>6, <1>7, <1>8 DEF SessionInv

\* Statements that find nothing to write.
LEMMA WriteNothingSelf ==
  ASSUME Inv, TypeOK', NEW s \in Sessions, pc[s] = "locked",
         call[s].op \in RowCalls \ {"complete"}, WriteNothing(s)
  PROVE  SessionInv(s)'
<1>1. SessionInv(s) BY DEF Inv
<1>2. /\ pc'[s] = "commit"
      /\ UNCHANGED <<runs, messages, clock, lock, call, todo, wrows, wmsgs>>
  BY DEF WriteNothing, Goto, Inv, TypeOK
<1>3. WriteInv(s)' /\ SuccessorInv(s)'
  BY <1>2, QuietSelf
<1>4. QED
  BY <1>1, <1>2, <1>3 DEF SessionInv, KnownRun, LockInv, BatchInv, FreshClaim,
                          CompleteInv, InTransaction, RowCalls

\* Failing an expired row: a legal rewrite, settled at the present moment.
LEMMA ExpireRowTimes ==
  ASSUME TypeOK, NEW row \in Row, RowTimes(row), Expired(row)
  PROVE  LET new == ExpireRow(row)
         IN /\ new.done = clock /\ new.done # Null /\ new.status = "failed"
            /\ new.thread = row.thread
            /\ RowTimes(new) /\ Rewrites(row, new)
<1>1. clock \in Nat /\ row.claimed \in Nat /\ row.lease \in Nat
  BY DEF TypeOK, Row
<1>2. QED
  BY <1>1 DEF ExpireRow, Row, RowTimes, Rewrites, Expired, IsActive, Active, Settled, Null

LEMMA ClaimDecideSelf ==
  ASSUME Inv, TypeOK', NEW s \in Sessions, ClaimDecide(s)
  PROVE  SessionInv(s)'
<1> DEFINE c == call[s]
           active == ActiveOn(c.thread)
<1>1. SessionInv(s) /\ pc[s] = "decide" /\ c.op = "claim"
  BY DEF Inv, ClaimDecide, At
<1>2. /\ c.run \in Runs /\ c.ttl \in Nat /\ c.ttl > 0 /\ runs[c.run] = NoRow
      /\ clock \in Nat
  <2>1. c \in Calls /\ clock \in Nat BY DEF Inv, TypeOK
  <2>2. c.run \in Runs /\ c.ttl \in LeaseTimes BY <1>1, <2>1 DEF Calls
  <2>3. c.ttl \in Nat /\ c.ttl > 0 BY <2>2, LeaseAssumption
  <2>4. QED BY <1>1, <2>1, <2>2, <2>3 DEF SessionInv, FreshClaim
<1>3. CASE Reject(s)
  BY <1>3, RejectSelf
<1>4. CASE ~ Reject(s)
  <2> DEFINE buffer == [r \in Runs |-> IF r \in active THEN ExpireRow(runs[r])
                                       ELSE IF r = c.run THEN NewRow(c) ELSE NoRow]
  <2>1. /\ \A r \in active : Expired(runs[r])
        /\ wrows'[s] = buffer /\ pc'[s] = "insert"
        /\ UNCHANGED <<runs, messages, clock, lock, call, todo, wmsgs>>
    BY <1>4 DEF ClaimDecide, Goto, Inv, TypeOK
  <2>2. NoRow \notin Row /\ c.run \notin active
    BY <1>2 DEF ActiveOn, NoRow, Row, Statuses, Active, Terminal, Settled
  <2>3. KnownRun(s)' /\ LockInv(s)' /\ FreshClaim(s)' /\ BatchInv(s)' /\ CompleteInv(s)'
    BY <1>1, <2>1 DEF SessionInv, KnownRun, LockInv, FreshClaim, BatchInv, CompleteInv,
                      InTransaction, RowCalls
  <2>4. \A r \in active :
          /\ runs[r] \in Row /\ RowTimes(runs[r]) /\ runs[r].thread = c.thread
          /\ runs[r] # NoRow
    BY RowTypes DEF ActiveOn, Inv, AllRowTimes
  <2>5. ASSUME NEW r \in active
        PROVE  /\ buffer[r] = ExpireRow(runs[r]) /\ buffer[r].done = clock
               /\ buffer[r].done # Null
               /\ buffer[r].status = "failed" /\ buffer[r].thread = c.thread
               /\ RowTimes(buffer[r]) /\ Rewrites(runs[r], buffer[r])
    <3>1. r \in Runs /\ Expired(runs[r]) /\ IsActive(runs[r])
      BY <2>1 DEF ActiveOn
    <3>2. buffer[r] = ExpireRow(runs[r])
      BY <3>1
    <3>3. QED BY <1>2, <2>4, <3>1, <3>2, ExpireRowTimes DEF Inv
  <2>6. /\ buffer[c.run] = NewRow(c)
        /\ NewRow(c).thread = c.thread /\ NewRow(c).key = c.key
        /\ NewRow(c).claimed = clock
        /\ RowTimes(NewRow(c)) /\ IsActive(NewRow(c)) /\ NewRow(c).status # "succeeded"
    BY <1>2, <2>2 DEF NewRow, RowTimes, IsActive, Active, Settled, Null
  <2>7. WriteInv(s)'
    <3>1. SUFFICES ASSUME NEW r \in Runs, buffer[r] # NoRow
                   PROVE  /\ buffer[r].thread = c.thread /\ RowTimes(buffer[r])
                          /\ buffer[r].status # "succeeded"
                          /\ IF runs[r] = NoRow
                             THEN /\ r = c.run /\ buffer[r].key = c.key
                                  /\ IsActive(buffer[r])
                             ELSE Rewrites(runs[r], buffer[r])
      BY <1>1, <2>1 DEF WriteInv, RowTimes, RowCalls
    <3>2. CASE r \in active
      BY <2>4, <2>5, <3>2
    <3>3. CASE r \notin active
      <4>1. r = c.run BY <3>1, <3>3
      <4>2. QED BY <1>2, <2>6, <4>1
    <3>4. QED BY <3>2, <3>3
  <2>8. SuccessorInv(s)'
    <3>1. SUFFICES ASSUME NEW q \in Runs, q # c.run, runs[q] # NoRow,
                          runs[q].thread = c.thread
                   PROVE  LET row == IF buffer[q] # NoRow THEN buffer[q] ELSE runs[q]
                          IN row.done # Null /\ row.done <= clock
      BY <2>1, <2>6 DEF SuccessorInv, After
    <3>2. CASE q \in active
      <4>1. ExpireRow(runs[q]) \in Row BY <2>4, <3>2, ExpireRowType DEF Inv
      <4>2. buffer[q] # NoRow BY <2>2, <2>5, <3>2, <4>1
      <4> HIDE DEF buffer, active
      <4>3. buffer[q].done = clock /\ buffer[q].done # Null
        BY <2>5, <3>2
      <4>4. clock <= clock
        BY <1>2
      <4>5. QED BY <4>2, <4>3, <4>4
    <3>3. CASE q \notin active
      <4>1. buffer[q] = NoRow BY <3>1, <3>3
      <4>2. ~ IsActive(runs[q]) /\ RowTimes(runs[q])
        BY <3>1, <3>3 DEF ActiveOn, Inv, AllRowTimes
      <4>3. QED BY <4>1, <4>2 DEF RowTimes
    <3>4. QED BY <3>2, <3>3
  <2>9. QED BY <2>3, <2>7, <2>8 DEF SessionInv
<1>5. QED BY <1>3, <1>4

LEMMA ClaimInsertSelf ==
  ASSUME Inv, TypeOK', NEW s \in Sessions, ClaimInsert(s)
  PROVE  SessionInv(s)'
<1> DEFINE c == call[s]
<1>1. SessionInv(s) /\ pc[s] = "insert" /\ c.op = "claim"
  BY DEF Inv, ClaimInsert, At
<1>2. c.run \in Runs /\ runs[c.run] = NoRow
  BY <1>1, RunOfCall DEF Inv, SessionInv, FreshClaim
<1>3. CASE Reject(s)
  BY <1>3, RejectSelf
<1>4. CASE WriteNothing(s)
  <2>1. /\ pc'[s] = "commit"
        /\ UNCHANGED <<runs, messages, clock, lock, call, todo, wrows, wmsgs>>
    BY <1>4 DEF WriteNothing, Goto, Inv, TypeOK
  <2>2. KnownRun(s)' /\ LockInv(s)' /\ FreshClaim(s)' /\ BatchInv(s)' /\ CompleteInv(s)'
    BY <1>1, <2>1 DEF SessionInv, KnownRun, LockInv, FreshClaim, BatchInv, CompleteInv,
                      InTransaction, RowCalls
  <2>3. WriteInv(s)' /\ SuccessorInv(s)'
    BY <1>1, <2>1 DEF SessionInv, WriteInv, RowTimes, SuccessorInv, After
  <2>4. QED BY <2>2, <2>3 DEF SessionInv
<1>5. CASE Write(s, c.run, NoRow)
  <2>1. /\ pc'[s] = "commit"
        /\ UNCHANGED <<runs, messages, clock, lock, call, todo, wmsgs>>
        /\ wrows'[s] = [wrows[s] EXCEPT ![c.run] = NoRow]
    BY <1>5 DEF Write, Goto, Inv, TypeOK
  <2>2. wrows'[s][c.run] = NoRow /\ \A r \in Runs \ {c.run} : wrows'[s][r] = wrows[s][r]
    <3>1. wrows[s] \in [Runs -> Row \cup {NoRow}] BY DEF Inv, TypeOK
    <3>2. QED BY <1>2, <2>1, <3>1
  <2>3. KnownRun(s)' /\ LockInv(s)' /\ FreshClaim(s)' /\ BatchInv(s)' /\ CompleteInv(s)'
    BY <1>1, <2>1 DEF SessionInv, KnownRun, LockInv, FreshClaim, BatchInv, CompleteInv,
                      InTransaction, RowCalls
  <2>4. WriteInv(s)'
    BY <1>1, <2>1, <2>2 DEF SessionInv, WriteInv, RowTimes
  <2>5. SuccessorInv(s)'
    BY <2>1, <2>2 DEF SuccessorInv
  <2>6. QED BY <2>3, <2>4, <2>5 DEF SessionInv
<1>6. QED BY <1>3, <1>4, <1>5 DEF ClaimInsert

\* A row the call is about, as the invariant knows it.
LEMMA OwnRow ==
  ASSUME Inv, NEW s \in Sessions, call[s].op \in RowCalls
  PROVE  /\ call[s].run \in Runs /\ runs[call[s].run] \in Row
         /\ RowTimes(runs[call[s].run]) /\ clock \in Nat
         /\ runs[call[s].run].claimed \in Nat /\ runs[call[s].run].lease \in Nat
<1>1. call[s].run \in Runs /\ runs[call[s].run] # NoRow
  BY RunOfCall DEF Inv, SessionInv, KnownRun
<1>2. QED BY <1>1, RowTypes DEF Inv, AllRowTimes, TypeOK, Row

LEMMA TransitionSelf ==
  ASSUME Inv, TypeOK', NEW s \in Sessions, Transition(s)
  PROVE  SessionInv(s)'
<1> DEFINE c == call[s]
           row == runs[c.run]
           new == [row EXCEPT !.status = c.status,
                              !.code = IF c.status \in Settled THEN "caller" ELSE "none",
                              !.done = IF c.status \in Settled THEN clock ELSE @]
<1>1. c.op = "transition" /\ pc[s] = "locked" /\ c.op \in RowCalls
  BY DEF Transition, At, RowCalls
<1>2. c.status \in {"running", "failed", "blocked"}
  <2>1. c \in Calls BY DEF Inv, TypeOK
  <2>2. QED BY <1>1, <2>1 DEF Calls, Settled
<1>3. CASE Reject(s)
  BY <1>3, RejectSelf
<1>4. CASE ~ Reject(s)
  <2>1. ~ Expired(row) /\ Valid(row.status, c.status) /\ Write(s, c.run, new)
    BY <1>4 DEF Transition, OwnerHolds
  <2>2. row \in Row /\ RowTimes(row) /\ clock \in Nat /\ row.claimed \in Nat /\ row.lease \in Nat
    BY <1>1, OwnRow
  <2>3. /\ new.status = c.status /\ new.thread = row.thread /\ new.key = row.key
        /\ new.claimed = row.claimed /\ new.lease = row.lease
        /\ new.code = (IF c.status \in Settled THEN "caller" ELSE "none")
        /\ new.done = (IF c.status \in Settled THEN clock ELSE row.done)
        /\ new \in Row
    <3>1. c.status \in Statuses
      BY <1>2 DEF Statuses, Active, Terminal, Settled
    <3>2. QED BY <2>2, <3>1, ZenonT(30) DEF Row
  <2>4. IsActive(row)
    BY <2>1 DEF Valid, IsActive, Active
  <2>5. Rewrites(row, new)
    BY <2>3, <2>4 DEF Rewrites
  <2>6. RowTimes(new)
    <3> HIDE DEF new, row
    <3>1. clock < row.lease BY <2>1, <2>2, <2>4 DEF Expired
    <3>2. QED BY <1>2, <2>2, <2>3, <2>4, <3>1 DEF RowTimes, IsActive, Active, Settled, Null
  <2>7. QED
    BY <1>1, <1>2, <2>1, <2>3, <2>5, <2>6, WriteSelf
<1>5. QED BY <1>3, <1>4

LEMMA CompleteSelf ==
  ASSUME Inv, TypeOK', NEW s \in Sessions,
         CompleteCheck(s) \/ CompleteAppend(s) \/ CompleteRecheck(s)
  PROVE  SessionInv(s)'
<1> DEFINE c == call[s]
           row == runs[c.run]
           new == [row EXCEPT !.status = "succeeded", !.done = clock, !.code = "none"]
<1>1. SessionInv(s) /\ c.op = "complete" /\ c.op \in RowCalls
  BY DEF Inv, CompleteCheck, CompleteAppend, CompleteRecheck, At, RowCalls
<1>2. CASE Reject(s)
  BY <1>2, RejectSelf
<1>3. CASE CompleteCheck(s) /\ ~ Reject(s)
  <2>1. /\ UNCHANGED <<runs, messages, clock, lock, call, todo, wrows, wmsgs>>
        /\ At(s, "locked", "complete") /\ pc' = [pc EXCEPT ![s] = "append"]
        /\ runs[call[s].run].status = "running"
    BY <1>3 DEF CompleteCheck, Goto
  <2>2. QED BY <2>1, MoveSelf
<1>4. CASE CompleteAppend(s)
  <2>1. /\ pc[s] = "append" /\ pc'[s] = "recheck"
        /\ wmsgs'[s] = Batch(c.thread, c.run)
        /\ UNCHANGED <<runs, messages, clock, lock, call, todo, wrows>>
    BY <1>4 DEF CompleteAppend, At, Goto, Inv, TypeOK
  <2>2. Batch(c.thread, c.run) # {}
    <3>1. 1 \in 1 .. BatchLen BY LengthAssumption
    <3>2. QED BY <3>1 DEF Batch
  <2>3. Batch(c.thread, c.run)' = Batch(c.thread, c.run)
    BY <2>1 DEF Batch, LastSeq, Seqs
  <2>4. BatchInv(s)' /\ CompleteInv(s)'
    BY <1>1, <2>1, <2>2, <2>3 DEF BatchInv, Author, SessionInv, CompleteInv
  <2>5. KnownRun(s)' /\ LockInv(s)' /\ FreshClaim(s)'
    BY <1>1, <2>1 DEF SessionInv, KnownRun, LockInv, FreshClaim, InTransaction
  <2>6. WriteInv(s)' /\ SuccessorInv(s)'
    BY <1>1, <2>1 DEF SessionInv, WriteInv, RowTimes, SuccessorInv
  <2>7. QED BY <2>4, <2>5, <2>6 DEF SessionInv
<1>5. CASE CompleteRecheck(s) /\ ~ Reject(s)
  <2>1. pc[s] = "recheck" /\ ~ Expired(row) /\ Write(s, c.run, new)
    BY <1>5 DEF CompleteRecheck, At, OwnerHolds
  <2>2. row \in Row /\ RowTimes(row) /\ clock \in Nat /\ row.claimed \in Nat /\ row.lease \in Nat
    BY <1>1, OwnRow
  <2>3. /\ new.status = "succeeded" /\ new.thread = row.thread /\ new.key = row.key
        /\ new.claimed = row.claimed /\ new.lease = row.lease
        /\ new.code = "none" /\ new.done = clock
        /\ new \in Row
    BY <2>2 DEF Row, Statuses, Active, Terminal, Settled
  <2>4. IsActive(row)
    BY <1>1, <2>1 DEF SessionInv, CompleteInv, IsActive, Active
  <2>5. Rewrites(row, new)
    BY <2>3, <2>4 DEF Rewrites
  <2>6. RowTimes(new)
    <3> HIDE DEF new, row
    <3>1. clock < row.lease BY <2>1, <2>2, <2>4 DEF Expired
    <3>2. QED BY <2>2, <2>3, <2>4, <3>1 DEF RowTimes, IsActive, Active, Settled, Null
  <2>7. QED
    BY <1>1, <2>1, <2>3, <2>5, <2>6, WriteSelf
<1>6. QED BY <1>2, <1>3, <1>4, <1>5

LEMMA FailSelf ==
  ASSUME Inv, TypeOK', NEW s \in Sessions, FailIfRunning(s)
  PROVE  SessionInv(s)'
<1> DEFINE c == call[s]
           row == runs[c.run]
           new == [row EXCEPT !.status = c.status, !.code = "caller", !.done = clock]
<1>1. c.op = "fail" /\ pc[s] = "locked" /\ c.op \in RowCalls \ {"complete"}
  BY DEF FailIfRunning, At, RowCalls
<1>2. row \in Row /\ RowTimes(row) /\ clock \in Nat /\ row.claimed \in Nat /\ row.lease \in Nat
  BY <1>1, OwnRow
<1>3. c.status \in {"failed", "blocked"}
  <2>1. c \in Calls BY DEF Inv, TypeOK
  <2>2. QED BY <1>1, <2>1 DEF Calls, Settled
<1>4. CASE Reject(s)
  BY <1>4, RejectSelf
<1>5. CASE WriteNothing(s)
  BY <1>1, <1>5, WriteNothingSelf
<1>6. CASE Expired(row) /\ Write(s, c.run, ExpireRow(row))
  BY <1>1, <1>2, <1>6, ExpireRowTimes, ExpireRowType, WriteSelf DEF Inv
<1>7. CASE IsActive(row) /\ ~ Expired(row) /\ Write(s, c.run, new)
  <2>1. /\ new.status = c.status /\ new.thread = row.thread /\ new.key = row.key
        /\ new.claimed = row.claimed /\ new.lease = row.lease
        /\ new.code = "caller" /\ new.done = clock
        /\ new \in Row
    BY <1>2, <1>3 DEF Row, Statuses, Active, Terminal, Settled
  <2>2. Rewrites(row, new)
    BY <1>7, <2>1 DEF Rewrites
  <2>3. RowTimes(new)
    <3> HIDE DEF new, row
    <3>1. clock < row.lease BY <1>2, <1>7 DEF Expired
    <3>2. QED BY <1>2, <1>3, <1>7, <2>1, <3>1 DEF RowTimes, IsActive, Active, Settled, Null
  <2>4. QED
    BY <1>1, <1>3, <1>7, <2>1, <2>2, <2>3, WriteSelf
<1>8. QED BY <1>4, <1>5, <1>6, <1>7 DEF FailIfRunning

LEMMA RecoverSelf ==
  ASSUME Inv, TypeOK', NEW s \in Sessions, Recover(s)
  PROVE  SessionInv(s)'
<1> DEFINE row == runs[call[s].run]
<1>1. pc[s] = "locked" /\ call[s].op \in RowCalls \ {"complete"}
  BY DEF Recover, RowCalls
<1>2. row \in Row /\ RowTimes(row)
  BY <1>1, OwnRow
<1>3. CASE WriteNothing(s)
  BY <1>1, <1>3, WriteNothingSelf
<1>4. CASE Expired(row) /\ Write(s, call[s].run, ExpireRow(row))
  BY <1>1, <1>2, <1>4, ExpireRowTimes, ExpireRowType, WriteSelf DEF Inv
<1>5. QED BY <1>3, <1>4 DEF Recover

LEMMA HostAppendSelf ==
  ASSUME Inv, TypeOK', NEW s \in Sessions, HostAppend(s)
  PROVE  SessionInv(s)'
<1>1. SessionInv(s) /\ call[s].op = "append" /\ pc[s] = "locked"
  BY DEF Inv, HostAppend, At
<1>2. /\ pc'[s] = "commit" /\ wmsgs'[s] = Batch(call[s].thread, call[s].batch)
      /\ UNCHANGED <<runs, messages, clock, lock, call, todo, wrows>>
  BY DEF HostAppend, Goto, Inv, TypeOK
<1>3. \A t, from : Batch(t, from)' = Batch(t, from)
  BY <1>2 DEF Batch, LastSeq, Seqs
<1>4. KnownRun(s)' /\ LockInv(s)' /\ FreshClaim(s)' /\ BatchInv(s)' /\ CompleteInv(s)'
  BY <1>1, <1>2, <1>3 DEF SessionInv, KnownRun, LockInv, FreshClaim, BatchInv, CompleteInv,
                    Author, InTransaction, RowCalls
<1>5. WriteInv(s)' /\ SuccessorInv(s)'
  BY <1>1, <1>2 DEF SessionInv, WriteInv, RowTimes, SuccessorInv
<1>6. QED BY <1>4, <1>5 DEF SessionInv

LEMMA SweepTakeSelf ==
  ASSUME Inv, TypeOK', NEW s \in Sessions, SweepTake(s)
  PROVE  SessionInv(s)'
<1>1. SessionInv(s) /\ pc[s] = "sweep" BY DEF Inv, SweepTake
<1>2. /\ \A r \in Runs : wrows[s][r] = NoRow
      /\ WriteInv(s)' /\ SuccessorInv(s)'
  BY <1>1, QuietSelf DEF SweepTake
<1>3. wmsgs'[s] = {} /\ UNCHANGED <<runs, messages, wmsgs>>
  BY <1>1 DEF SessionInv, BatchInv, SweepTake
<1>4. PICK r \in todo[s] : SweepTake(s)!2!(r)
  BY DEF SweepTake
<1>5. r \in Runs /\ runs[r] # NoRow /\ todo'[s] \subseteq todo[s]
  BY <1>1, <1>4 DEF SessionInv, KnownRun, Inv, TypeOK
<1>6. CASE lock[runs[r].thread] # None
  <2>1. pc'[s] \in {"idle", "sweep"} /\ call'[s] = call[s] /\ call[s].op = "none"
        /\ \A t \in Threads : lock'[t] # s
    BY <1>1, <1>4, <1>6 DEF InTransaction, Goto, Inv, TypeOK, SessionInv, LockInv
  <2>2. KnownRun(s)' /\ LockInv(s)' /\ FreshClaim(s)' /\ BatchInv(s)' /\ CompleteInv(s)'
    BY <1>1, <1>3, <1>5, <2>1 DEF SessionInv, KnownRun, LockInv, FreshClaim, BatchInv,
                     CompleteInv, InTransaction, RowCalls
  <2>3. QED BY <1>2, <2>2 DEF SessionInv
<1>7. CASE lock[runs[r].thread] = None
  <2>1. runs[r].thread \in Threads
    BY <1>5, RowTypes DEF Inv, Row
  <2>2. /\ pc'[s] = "locked"
        /\ call'[s] = [op |-> "sweep", run |-> r, thread |-> runs[r].thread]
        /\ lock'[runs[r].thread] = s
    BY <1>4, <1>7, <2>1 DEF Goto, Inv, TypeOK
  <2>3. KnownRun(s)' /\ LockInv(s)' /\ FreshClaim(s)' /\ BatchInv(s)' /\ CompleteInv(s)'
    BY <1>1, <1>3, <1>5, <2>2 DEF SessionInv, KnownRun, LockInv, FreshClaim, BatchInv,
                     CompleteInv, InTransaction, RowCalls
  <2>4. QED BY <1>2, <2>3 DEF SessionInv
<1>8. QED BY <1>6, <1>7

LEMMA CommitSelf ==
  ASSUME Inv, NEW s \in Sessions, Commit(s)
  PROVE  SessionInv(s)'
<1>1. /\ pc'[s] \in {"idle", "sweep"} /\ call'[s] = NoCall /\ wrows'[s] = NoWrites
      /\ wmsgs'[s] = {} /\ todo'[s] = todo[s] /\ \A t \in Threads : lock'[t] # s
  BY NoneAssumption DEF Inv, TypeOK, Commit, End, Goto
<1>2. \A r \in todo'[s] : runs'[r] # NoRow
  <2>1. \A r \in todo[s] : r \in Runs /\ runs[r] # NoRow
    BY DEF Inv, TypeOK, SessionInv, KnownRun
  <2>2. QED BY <1>1, <2>1, CommitEffect
<1>3. QED BY <1>1, <1>2, Cleared

LEMMA SelfStep ==
  ASSUME Inv, TypeOK', NEW s \in Sessions, Step(s)
  PROVE  SessionInv(s)'
<1>1. CASE ClaimLookup(s)
  <2>1. CASE Reject(s) BY <2>1, RejectSelf
  <2>2. CASE ~ Reject(s)
    BY <1>1, <2>2, MoveSelf DEF ClaimLookup, Goto
  <2>3. QED BY <2>1, <2>2
<1>2. QED
  BY <1>1, StartSelf, LockSelf, RejectSelf, ClaimDecideSelf, ClaimInsertSelf,
     TransitionSelf, CompleteSelf, FailSelf, RecoverSelf, HostAppendSelf,
     SweepTakeSelf, CommitSelf DEF Step, Statement

-----------------------------------------------------------------------------
(* The tables after a step.                                                 *)

LEMMA TypeStep ==
  ASSUME Inv, NEW s \in Sessions, Step(s)
  PROVE  TypeOK'
<1>1. KnownRuns BY DEF Inv, SessionInv, KnownRuns
<1>2. CASE Lock(s)
  <2>1. pc' \in [Sessions -> PCs] /\ lock' \in [Threads -> Sessions \cup {None}]
    BY <1>2 DEF Inv, TypeOK, Lock, Goto, PCs
  <2>2. QED BY <1>2, <2>1 DEF Inv, TypeOK, Lock
<1>3. CASE Rollback(s)
  <2>1. /\ NoCall \in Calls /\ NoWrites \in [Runs -> Row \cup {NoRow}]
    BY DEF NoCall, Calls, NoWrites
  <2>2. QED BY <1>3, <2>1 DEF Inv, TypeOK, Rollback, Goto, PCs
<1>4. QED
  BY <1>1, <1>2, <1>3, StartType, StatementType DEF Inv, Step

\* The committing session's batch goes after the last message of its thread.
LEMMA LastStep ==
  ASSUME Inv, NEW s \in Sessions, Step(s)
  PROVE  HasLast'
<1>1. CASE UNCHANGED messages
  BY <1>1 DEF Inv, HasLast, Seqs
<1>2. CASE Commit(s) /\ wmsgs[s] = {}
  <2>1. messages' = messages BY <1>2 DEF Commit
  <2>2. QED BY <1>1, <2>1
<1>3. CASE Commit(s) /\ wmsgs[s] # {}
  <2> SUFFICES ASSUME NEW t \in Threads
               PROVE  \E n \in Seqs(t)' \cup {0} : \A k \in Seqs(t)' : k <= n
    BY DEF HasLast
  <2> DEFINE last == LastSeq(t)
             own == call[s].thread
             author == Author(call[s])
  <2>1. CASE t # own
    BY <1>3, <2>1, CommitElsewhere DEF Inv, HasLast
  <2>2. CASE t = own
    <3>1. last \in Nat /\ \A k \in Seqs(t) : k \in Nat /\ k <= last
      BY LastSeqIsMax DEF Inv
    <3>2. wmsgs[s] = Batch(t, author)
      BY <1>3, <2>2 DEF Inv, SessionInv, BatchInv
    <3>3. Seqs(t)' = Seqs(t) \cup {last + i : i \in 1 .. BatchLen}
      <4>1. messages' = messages \cup Batch(t, author)
        BY <1>3, <3>2 DEF Commit
      <4> DEFINE line(i) == [thread |-> t, seq |-> last + i, from |-> author, part |-> i]
      <4>2. /\ \A i \in 1 .. BatchLen :
                 line(i) \in Batch(t, author) /\ line(i).seq = last + i /\ line(i).thread = t
            /\ \A m \in Batch(t, author) : \E i \in 1 .. BatchLen : m.seq = last + i
        BY DEF Batch
      <4>3. \A m \in Batch(t, author) : m.thread = t
        BY DEF Batch
      <4> HIDE DEF line, last, author
      <4>4. \A k \in Seqs(t)' : k \in Seqs(t) \/ \E i \in 1 .. BatchLen : k = last + i
        BY <4>1, <4>2 DEF Seqs
      <4>5. \A k \in Seqs(t) : k \in Seqs(t)'
        BY <4>1 DEF Seqs
      <4>6. \A i \in 1 .. BatchLen : last + i \in Seqs(t)'
        BY <4>1, <4>2 DEF Seqs
      <4>7. QED BY <4>4, <4>5, <4>6
    <3>4. /\ last + BatchLen \in Seqs(t)'
          /\ \A k \in Seqs(t)' : k <= last + BatchLen
      BY <3>1, <3>3, LengthAssumption
    <3>5. QED BY <3>4
  <2>3. QED BY <2>1, <2>2
<1>4. QED BY <1>1, <1>2, <1>3, Frame DEF Inv

LEMMA RowTimesStep ==
  ASSUME Inv, NEW s \in Sessions, Step(s)
  PROVE  AllRowTimes'
<1>1. clock' = clock BY Frame DEF Inv
<1>2. CASE UNCHANGED runs
  BY <1>1, <1>2 DEF Inv, AllRowTimes, RowTimes
<1>3. CASE Commit(s)
  <2>1. \A r \in Runs : runs'[r] # NoRow => RowTimes(runs'[r])
    BY <1>3, CommitEffect DEF Inv, AllRowTimes
  <2>2. QED BY <1>1, <2>1 DEF AllRowTimes, RowTimes
<1>4. QED BY <1>2, <1>3, Frame DEF Inv

LEMMA ClaimsApartStep ==
  ASSUME Inv, NEW s \in Sessions, Step(s)
  PROVE  ClaimsApart'
<1>1. \A x \in Sessions \ {s} : call'[x] = call[x]
  BY Frame DEF Inv
<1>2. ASSUME call'[s].op = "claim", call[s].op # "claim" \/ call'[s].run # call[s].run
      PROVE  \A x \in Sessions : call[x].op = "claim" => call[x].run # call'[s].run
  <2>1. Start(s)
    <3>1. call'[s] # NoCall /\ call'[s] # call[s]
      BY <1>2 DEF NoCall
    <3>2. UNCHANGED call \/ call'[s] = NoCall
            \/ Start(s) \/ (SweepTake(s) /\ call'[s].op = "sweep")
      <4>1. \/ Rollback(s) \/ Commit(s) \/ Reject(s) => call'[s] = NoCall
        BY DEF Rollback, Commit, Reject, End, Inv, TypeOK
      <4>2. SweepTake(s) => UNCHANGED call \/ call'[s].op = "sweep"
        BY DEF SweepTake, Inv, TypeOK
      <4>3. Lock(s) \/ ClaimLookup(s) \/ ClaimDecide(s) \/ ClaimInsert(s)
              => UNCHANGED call \/ Reject(s) \/ call'[s] = NoCall
        BY DEF Lock, ClaimLookup, ClaimDecide, ClaimInsert, Reject, End, Write, WriteNothing,
               Inv, TypeOK
      <4>4. Transition(s) \/ CompleteCheck(s) \/ CompleteAppend(s) \/ CompleteRecheck(s)
              => UNCHANGED call \/ Reject(s)
        BY DEF Transition, CompleteCheck, CompleteAppend, CompleteRecheck, Write
      <4>5. FailIfRunning(s) \/ Recover(s) \/ HostAppend(s) => UNCHANGED call \/ Reject(s)
        BY DEF FailIfRunning, Recover, HostAppend, Write, WriteNothing
      <4>6. QED BY <4>1, <4>2, <4>3, <4>4, <4>5 DEF Step, Statement
    <3>3. QED BY <1>2, <3>1, <3>2
  <2>2. BeginClaim(s)
    BY <1>2, <2>1, SMTT(30) DEF Start, BeginTransition, BeginComplete, BeginFail,
         BeginRecover, BeginAppend, SweepRead, Begin, Inv, TypeOK
  <2>3. PICK r \in Runs, q \in Requests, l \in LeaseTimes : BeginClaim(s)!(r, q, l)
    BY <2>2 DEF BeginClaim
  <2>4. call'[s].run = r
    BY <2>3 DEF Begin, Inv, TypeOK
  <2>5. QED BY <2>3, <2>4
<1>3. QED BY <1>1, <1>2 DEF Inv, ClaimsApart

\* The only step after which a session has a new insert outstanding.
LEMMA InsertStep ==
  ASSUME Inv, NEW s \in Sessions, Step(s), Inserted(s)'
  PROVE  /\ UNCHANGED <<runs, call>>
         /\ call[s].key # NoKey =>
              /\ \A q \in Runs : runs[q] # NoRow => runs[q].key # call[s].key
              /\ \A x \in Sessions : Inserted(x) => call[x].key # call[s].key
<1>1. pc'[s] = "commit" /\ call'[s].op = "claim" /\ wrows'[s][call'[s].run] # NoRow
  BY DEF Inserted
<1>2. ClaimInsert(s)
  <2> USE DEF Inv, TypeOK, Goto
  <2>1. ~ Start(s) /\ ~ Lock(s) /\ ~ Rollback(s)
    BY <1>1 DEF Start, BeginClaim, BeginTransition, BeginComplete, BeginFail,
         BeginRecover, BeginAppend, SweepRead, Begin, Lock, Rollback
  <2>2. ~ Commit(s) /\ ~ Reject(s)
    BY <1>1 DEF Commit, Reject, End, NoCall
  <2>3. ~ ClaimLookup(s) /\ ~ ClaimDecide(s) /\ ~ CompleteCheck(s) /\ ~ CompleteAppend(s)
    BY <1>1, <2>2 DEF ClaimLookup, ClaimDecide, CompleteCheck, CompleteAppend
  <2>4. ~ Transition(s) /\ ~ CompleteRecheck(s) /\ ~ FailIfRunning(s) /\ ~ Recover(s)
    BY <1>1, <2>2 DEF Transition, CompleteRecheck, FailIfRunning, Recover, Write,
                      WriteNothing, At
  <2>5. ~ HostAppend(s) /\ ~ SweepTake(s)
    BY <1>1 DEF HostAppend, SweepTake, At
  <2>6. QED BY <2>1, <2>2, <2>3, <2>4, <2>5 DEF Step, Statement
<1>3. ~ Reject(s) /\ ~ Write(s, call[s].run, NoRow)
  <2>1. call[s].run \in Runs /\ wrows[s] \in [Runs -> Row \cup {NoRow}]
    BY <1>2, RunOfCall DEF ClaimInsert, At, Inv, TypeOK
  <2>2. QED BY <1>1, <2>1 DEF Reject, End, Write, NoCall, Inv, TypeOK
<1>4. WriteNothing(s) /\ {r \in Runs : SameKey(runs[r], call[s])} = {}
  BY <1>2, <1>3 DEF ClaimInsert
<1>5. \A q \in Runs : call[s].key # NoKey /\ runs[q] # NoRow => runs[q].key # call[s].key
  <2>1. ASSUME NEW q \in Runs, runs[q] # NoRow PROVE runs[q].status # "absent"
    BY <2>1, RowTypes DEF Inv, Row, Statuses, Active, Terminal, Settled
  <2>2. QED BY <1>4, <2>1 DEF SameKey
<1>6. QED BY <1>2, <1>4, <1>5 DEF ClaimInsert, WriteNothing

LEMMA KeyStep ==
  ASSUME Inv, NEW s \in Sessions, Step(s)
  PROVE  KeyInv'
<1>1. \A x \in Sessions \ {s} : call'[x] = call[x] /\ (Inserted(x)' <=> Inserted(x))
  BY Frame DEF Inserted, Inv
<1>2. ASSUME NEW x \in Sessions, Inserted(x)', call'[x].key # NoKey,
             NEW q \in Runs, runs'[q] # NoRow
      PROVE  runs'[q].key # call'[x].key
  <2>1. CASE x = s
    BY <1>2, <2>1, InsertStep
  <2>2. CASE x # s /\ runs'[q] = runs[q]
    BY <1>1, <1>2, <2>2 DEF Inv, KeyInv
  <2>3. CASE x # s /\ runs'[q] # runs[q]
    <3>1. Commit(s) BY <2>3, Frame DEF Inv
    <3>2. CASE runs[q] # NoRow
      BY <1>1, <1>2, <2>3, <3>1, <3>2, CommitEffect DEF Rewrites, Inv, KeyInv
    <3>3. CASE runs[q] = NoRow
      <4>1. /\ wrows[s][q] # NoRow /\ call[s].op = "claim" /\ q = call[s].run
            /\ runs'[q].key = call[s].key
        BY <1>2, <2>3, <3>1, <3>3, CommitEffect
      <4>2. Inserted(s) BY <3>1, <4>1 DEF Inserted, Commit
      <4>3. QED BY <1>1, <1>2, <2>3, <4>1, <4>2 DEF Inv, KeyInv
    <3>4. QED BY <3>2, <3>3
  <2>4. QED BY <2>1, <2>2, <2>3
<1>3. ASSUME NEW x \in Sessions, NEW y \in Sessions, x # y, Inserted(x)', Inserted(y)',
             call'[x].key # NoKey
      PROVE  call'[x].key # call'[y].key
  <2>1. CASE x # s /\ y # s
    BY <1>1, <1>3, <2>1 DEF Inv, KeyInv
  <2>2. CASE x = s
    BY <1>1, <1>3, <2>2, InsertStep
  <2>3. CASE y = s
    BY <1>1, <1>3, <2>3, InsertStep
  <2>4. QED BY <2>1, <2>2, <2>3
<1>4. QED BY <1>2, <1>3 DEF KeyInv

LEMMA OneRunPerKeyStep ==
  ASSUME Inv, NEW s \in Sessions, Step(s)
  PROVE  OneRunPerKey'
<1>1. CASE UNCHANGED runs
  BY <1>1 DEF Inv, OneRunPerKey
<1>2. CASE Commit(s)
  <2>1. ASSUME NEW r \in Runs, runs[r] = NoRow, runs'[r] # NoRow
        PROVE  Inserted(s) /\ r = call[s].run /\ runs'[r].key = call[s].key
    BY <1>2, <2>1, CommitEffect DEF Inserted, Commit
  <2>2. \A r \in Runs : runs[r] # NoRow => runs'[r].key = runs[r].key
    BY <1>2, CommitEffect DEF Rewrites
  <2>3. QED BY <2>1, <2>2 DEF Inv, KeyInv, OneRunPerKey
<1>3. QED BY <1>1, <1>2, Frame DEF Inv

\* Turns stay serialized: a claim's new row comes after everything on its thread
\* is settled, and only active rows are rewritten.
LEMMA SerialStep ==
  ASSUME Inv, NEW s \in Sessions, Step(s)
  PROVE  TurnsSerialized'
<1>1. CASE UNCHANGED runs
  BY <1>1 DEF Inv, TurnsSerialized
<1>2. CASE Commit(s)
  <2> DEFINE Before(a, b, f) == f[a].done # Null /\ f[a].done <= f[b].claimed
  <2> SUFFICES ASSUME NEW r \in Runs, NEW q \in Runs, r # q,
                      runs'[r] # NoRow, runs'[q] # NoRow,
                      runs'[r].thread = runs'[q].thread
               PROVE  Before(r, q, runs') \/ Before(q, r, runs')
    BY DEF TurnsSerialized
  <2>1. ASSUME NEW a \in Runs, NEW b \in Runs, a # b,
               runs[a] = NoRow, runs'[a] # NoRow, runs'[b] # NoRow,
               runs'[a].thread = runs'[b].thread
        PROVE  Before(b, a, runs')
    <3>1. /\ call[s].op = "claim" /\ a = call[s].run
          /\ runs'[a] = wrows[s][a] /\ wrows[s][a] # NoRow
          /\ runs'[a].thread = call[s].thread
      BY <1>2, <2>1, CommitEffect
    <3>2. runs[b] # NoRow /\ runs[b].thread = call[s].thread
      BY <1>2, <2>1, <3>1, CommitEffect DEF Rewrites
    <3>3. runs'[b] = After(s)[b]
      BY <1>2 DEF Commit, After
    <3>4. SuccessorInv(s) BY DEF Inv, SessionInv
    <3>5. QED BY <2>1, <3>1, <3>2, <3>3, <3>4 DEF SuccessorInv
  <2>2. ASSUME NEW a \in Runs, NEW b \in Runs, runs[a] # NoRow, runs[b] # NoRow,
               Before(a, b, runs)
        PROVE  Before(a, b, runs')
    <3>1. ~ IsActive(runs[a])
      BY <2>2 DEF Inv, AllRowTimes, RowTimes
    <3>2. runs'[a] = runs[a]
      BY <1>2, <2>2, <3>1, CommitEffect DEF Rewrites
    <3>3. runs'[b].claimed = runs[b].claimed
      BY <1>2, <2>2, CommitEffect DEF Rewrites
    <3>4. QED BY <2>2, <3>2, <3>3
  <2>3. CASE runs[r] = NoRow BY <2>1, <2>3
  <2>4. CASE runs[q] = NoRow BY <2>1, <2>4
  <2>5. CASE runs[r] # NoRow /\ runs[q] # NoRow
    <3>1. runs[r].thread = runs[q].thread
      BY <1>2, <2>5, CommitEffect DEF Rewrites
    <3>2. Before(r, q, runs) \/ Before(q, r, runs)
      BY <2>5, <3>1 DEF Inv, TurnsSerialized
    <3>3. QED BY <2>2, <2>5, <3>2
  <2>6. QED BY <2>3, <2>4, <2>5
<1>3. QED BY <1>1, <1>2, Frame DEF Inv

LEMMA AtomicStep ==
  ASSUME Inv, NEW s \in Sessions, Step(s)
  PROVE  AtomicFinalization'
<1>1. CASE UNCHANGED <<runs, messages>>
  BY <1>1 DEF Inv, AtomicFinalization, Of
<1>2. CASE Commit(s)
  <2> SUFFICES ASSUME NEW r \in Runs
               PROVE  /\ Of(r)' # {} <=> runs'[r].status = "succeeded"
                      /\ \A m \in Of(r)' : m.thread = runs'[r].thread
    BY DEF AtomicFinalization
  <2>1. SessionInv(s) /\ pc[s] = "commit"
    BY <1>2 DEF Inv, Commit
  <2>2. Of(r)' = Of(r) \cup {m \in wmsgs[s] : m.from = r}
    BY <1>2 DEF Commit, Of
  <2>3. CASE call[s].op = "complete" /\ r = call[s].run
    <3>1. /\ wrows[s][r].status = "succeeded" /\ wmsgs[s] # {}
          /\ wmsgs[s] = Batch(call[s].thread, r)
      BY <2>1, <2>3 DEF SessionInv, CompleteInv, BatchInv, Author
    <3>2. /\ wrows[s][r] # NoRow /\ runs'[r] = wrows[s][r]
          /\ runs'[r].thread = call[s].thread
      BY <1>2, <3>1, CommitEffect DEF NoRow
    <3>3. \A m \in wmsgs[s] : m.from = r /\ m.thread = call[s].thread
      BY <3>1 DEF Batch
    <3>4. runs[r].thread = call[s].thread
      BY <2>1, <2>3 DEF SessionInv, KnownRun, RowCalls
    <3>5. QED BY <2>2, <3>1, <3>2, <3>3, <3>4 DEF Inv, AtomicFinalization
  <2>4. CASE ~ (call[s].op = "complete" /\ r = call[s].run)
    <3>1. {m \in wmsgs[s] : m.from = r} = {}
      <4>1. wmsgs[s] # {} => call[s].op \in {"complete", "append"}
                             /\ \A m \in wmsgs[s] : m.from = Author(call[s])
        BY <2>1 DEF SessionInv, BatchInv, Batch
      <4>2. call[s].op = "append" => call[s].batch \in HostBatches
        <5>1. call[s] \in Calls BY DEF Inv, TypeOK
        <5>2. QED BY <5>1 DEF Calls
      <4>3. QED BY <2>4, <4>1, <4>2, HostAssumption DEF Author
    <3>2. wrows[s][r] # NoRow => wrows[s][r].status # "succeeded"
      <4>1. wrows[s][r] # NoRow /\ call[s].op = "complete" => r = call[s].run
        BY <2>1, <2>4 DEF SessionInv, WriteInv
      <4>2. QED BY <2>1, <2>4, <4>1 DEF SessionInv, WriteInv
    <3>3. runs[r].status = "succeeded" => wrows[s][r] = NoRow
      BY <1>2, CommitEffect DEF Rewrites, IsActive, Active, NoRow
    <3>4. runs'[r].status = "succeeded" <=> runs[r].status = "succeeded"
      BY <1>2, <3>2, <3>3, CommitEffect
    <3>5. runs[r] # NoRow => runs'[r].thread = runs[r].thread
      BY <1>2, CommitEffect DEF Rewrites
    <3>6. Of(r) # {} => runs[r] # NoRow
      BY DEF Inv, AtomicFinalization, NoRow
    <3>7. QED BY <2>2, <3>1, <3>4, <3>5, <3>6 DEF Inv, AtomicFinalization
  <2>5. QED BY <2>3, <2>4
<1>3. QED BY <1>1, <1>2, Frame DEF Inv

-----------------------------------------------------------------------------
(* Theorems.                                                                *)

LEMMA InvInit == Init => Inv
<1> SUFFICES ASSUME Init PROVE Inv
  OBVIOUS
<1>1. TypeOK
  BY DEF Init, TypeOK, NoCall, Calls, NoWrites, PCs
<1>2. HasLast
  BY DEF Init, HasLast, Seqs
<1>3. ASSUME NEW s \in Sessions PROVE SessionInv(s)
  <2>1. pc[s] = "idle" /\ call[s] = NoCall /\ wrows[s] = NoWrites /\ wmsgs[s] = {}
        /\ todo[s] = {} /\ \A t \in Threads : lock[t] # s
    BY NoneAssumption DEF Init
  <2> USE DEF NoCall, NoWrites
  <2>2. KnownRun(s) /\ LockInv(s) /\ FreshClaim(s) /\ CompleteInv(s)
    BY <2>1 DEF KnownRun, LockInv, FreshClaim, CompleteInv, RowCalls, InTransaction
  <2>3. BatchInv(s) /\ WriteInv(s) /\ SuccessorInv(s)
    BY <2>1 DEF BatchInv, WriteInv, SuccessorInv
  <2>4. QED BY <2>2, <2>3 DEF SessionInv
<1>4. ClaimsApart /\ KeyInv
  BY DEF Init, ClaimsApart, KeyInv, Inserted, NoCall
<1>5. AllRowTimes /\ TurnsSerialized /\ OneRunPerKey /\ AtomicFinalization
  BY DEF Init, AllRowTimes, TurnsSerialized, OneRunPerKey, AtomicFinalization, Of, NoRow
<1>6. QED BY <1>1, <1>2, <1>3, <1>4, <1>5 DEF Inv

LEMMA InvTick ==
  ASSUME Inv, Tick PROVE Inv'
<1>1. /\ UNCHANGED <<runs, messages, lock, pc, call, todo, wrows, wmsgs>>
      /\ clock \in Nat /\ clock' = clock + 1
  BY DEF Inv, TypeOK, Tick
<1>2. TypeOK' /\ HasLast'
  BY <1>1 DEF Inv, TypeOK, HasLast, Seqs
<1>3. ASSUME NEW row \in Row, RowTimes(row) PROVE RowTimes(row)'
  <2>1. row.claimed \in Nat /\ row.done \in Nat \cup {Null} BY DEF Row
  <2>2. QED BY <1>1, <1>3, <2>1 DEF RowTimes, Null
<1>4. AllRowTimes'
  BY <1>1, <1>3, RowTypes DEF Inv, AllRowTimes, TypeOK, RowTimes
<1>5. ASSUME NEW s \in Sessions PROVE SessionInv(s)'
  <2>1. SessionInv(s) BY DEF Inv
  <2>2. \A t, from : Batch(t, from)' = Batch(t, from)
    BY <1>1 DEF Batch, LastSeq, Seqs
  <2>3. WriteInv(s)'
    <3>1. \A r \in Runs : wrows[s][r] # NoRow => wrows[s][r] \in Row
      BY DEF Inv, TypeOK
    <3>2. ASSUME NEW r \in Runs, wrows[s][r] # NoRow
          PROVE  /\ wrows[s][r] \in Row /\ RowTimes(wrows[s][r])
      BY <2>1, <3>1, <3>2 DEF SessionInv, WriteInv
    <3>3. ASSUME NEW r \in Runs, wrows[s][r] # NoRow
          PROVE  /\ wrows[s][r].claimed <= clock'
                 /\ wrows[s][r].done # Null => wrows[s][r].done <= clock'
      <4>1. wrows[s][r].claimed \in Nat /\ wrows[s][r].done \in Nat \cup {Null}
        BY <3>2, <3>3 DEF Row
      <4>2. QED BY <1>1, <3>2, <3>3, <4>1 DEF RowTimes, Null
    <3>4. ASSUME NEW r \in Runs, wrows'[s][r] # NoRow
          PROVE  RowTimes(wrows[s][r])'
      BY <1>1, <3>2, <3>3, <3>4 DEF RowTimes
    <3>5. QED BY <1>1, <2>1, <3>4 DEF SessionInv, WriteInv
  <2>4. KnownRun(s)' /\ LockInv(s)' /\ FreshClaim(s)' /\ CompleteInv(s)'
    BY <1>1, <2>1 DEF SessionInv, KnownRun, LockInv, FreshClaim, CompleteInv
  <2>5. BatchInv(s)' /\ SuccessorInv(s)'
    BY <1>1, <2>1, <2>2 DEF SessionInv, BatchInv, SuccessorInv, After
  <2>6. QED BY <2>3, <2>4, <2>5 DEF SessionInv
<1>6. ClaimsApart' /\ KeyInv'
  BY <1>1 DEF Inv, ClaimsApart, KeyInv, Inserted
<1>7. TurnsSerialized' /\ OneRunPerKey' /\ AtomicFinalization'
  BY <1>1 DEF Inv, TurnsSerialized, OneRunPerKey, AtomicFinalization, Of
<1>8. QED BY <1>2, <1>4, <1>5, <1>6, <1>7 DEF Inv

LEMMA InvStep == Inv /\ [Next]_vars => Inv'
<1> SUFFICES ASSUME Inv, [Next]_vars PROVE Inv'
  OBVIOUS
<1>1. ASSUME NEW s \in Sessions, Step(s) PROVE Inv'
  <2>1. TypeOK' /\ HasLast' BY <1>1, TypeStep, LastStep
  <2>2. \A x \in Sessions : SessionInv(x)'
    BY <1>1, <2>1, SelfStep, OthersStay
  <2>3. ClaimsApart' /\ KeyInv' BY <1>1, ClaimsApartStep, KeyStep
  <2>4. AllRowTimes' /\ TurnsSerialized' /\ OneRunPerKey' /\ AtomicFinalization'
    BY <1>1, RowTimesStep, SerialStep, OneRunPerKeyStep, AtomicStep
  <2>5. QED BY <2>1, <2>2, <2>3, <2>4 DEF Inv
<1>2. CASE UNCHANGED vars
  <2>1. \A t, from : Batch(t, from)' = Batch(t, from)
    BY <1>2 DEF vars, Batch, LastSeq, Seqs
  <2>2. ASSUME NEW s \in Sessions PROVE SessionInv(s)'
    <3>1. SessionInv(s) BY DEF Inv
    <3>2. KnownRun(s)' /\ LockInv(s)' /\ FreshClaim(s)' /\ CompleteInv(s)'
      BY <1>2, <3>1 DEF vars, SessionInv, KnownRun, LockInv, FreshClaim, CompleteInv
    <3>3. BatchInv(s)' /\ SuccessorInv(s)'
      BY <1>2, <2>1, <3>1 DEF vars, SessionInv, BatchInv, SuccessorInv, After
    <3>4. WriteInv(s)'
      BY <1>2, <3>1 DEF vars, SessionInv, WriteInv, RowTimes
    <3>5. QED BY <3>2, <3>3, <3>4 DEF SessionInv
  <2>3. TypeOK' /\ HasLast' /\ ClaimsApart' /\ KeyInv'
    BY <1>2 DEF vars, Inv, TypeOK, HasLast, Seqs, ClaimsApart, KeyInv, Inserted
  <2>4. AllRowTimes' /\ TurnsSerialized' /\ OneRunPerKey' /\ AtomicFinalization'
    BY <1>2 DEF vars, Inv, AllRowTimes, RowTimes, TurnsSerialized, OneRunPerKey,
                AtomicFinalization, Of
  <2>5. QED BY <2>2, <2>3, <2>4 DEF Inv
<1>3. QED BY <1>1, <1>2, InvTick DEF Next, Step

THEOREM Invariance == Spec => []Inv
BY InvInit, InvStep, PTL DEF Spec

\* Every variable of the store keeps its type.
THEOREM TypeCorrect == Spec => []TypeOK
<1>1. Inv => TypeOK BY DEF Inv
<1>2. QED BY Invariance, <1>1, PTL

\* claim() arbitrates by the thread lock alone: one active run per thread, and no
\* insert that the unique index on active threads would have to refuse.
THEOREM ThreadArbitration == Spec => []OneActivePerThread
<1>1. ASSUME Inv PROVE OneActivePerThread
  <2>1. OneActive(runs)
    BY <1>1 DEF Inv, AllRowTimes, RowTimes, TurnsSerialized, OneActive
  <2>2. ASSUME NEW s \in Sessions, Inserted(s) PROVE OneActive(After(s))
    <3> DEFINE new == call[s].run
    <3>1. SessionInv(s) BY <1>1 DEF Inv
    <3>2. new \in Runs /\ wrows[s][new] # NoRow /\ call[s].op = "claim"
      BY <1>1, <2>2, RunOfCall DEF Inserted, Inv
    <3>3. \A q \in Runs : After(s)[q] # NoRow /\ q # new => runs[q] # NoRow
      BY <3>1 DEF After, SessionInv, WriteInv
    <3>4. After(s)[new] = wrows[s][new] /\ After(s)[new].thread = call[s].thread
      BY <3>1, <3>2 DEF After, SessionInv, WriteInv
    <3>5. ASSUME NEW q \in Runs, q # new, After(s)[q] # NoRow
          PROVE  /\ After(s)[q].thread = runs[q].thread /\ RowTimes(After(s)[q])
                 /\ IsActive(After(s)[q]) => IsActive(runs[q])
                 /\ runs[q].thread = call[s].thread => ~ IsActive(After(s)[q])
      <4>1. runs[q] # NoRow BY <3>3, <3>5
      <4>2. /\ After(s)[q].thread = runs[q].thread /\ RowTimes(After(s)[q])
            /\ IsActive(After(s)[q]) => IsActive(runs[q])
        BY <1>1, <3>1, <3>5, <4>1 DEF After, SessionInv, WriteInv, Rewrites, Inv, AllRowTimes
      <4>3. runs[q].thread = call[s].thread => After(s)[q].done # Null
        BY <3>1, <3>2, <3>5, <4>1 DEF SessionInv, SuccessorInv
      <4>4. QED BY <4>2, <4>3 DEF RowTimes
    <3>6. QED BY <2>1, <3>3, <3>4, <3>5 DEF OneActive
  <2>3. QED BY <2>1, <2>2 DEF OneActivePerThread
<1>2. QED BY Invariance, <1>1, PTL

\* Concurrent claims of a key, on whatever threads, create one run.
THEOREM KeyArbitration == Spec => []OneRunPerKey
<1>1. Inv => OneRunPerKey BY DEF Inv
<1>2. QED BY Invariance, <1>1, PTL

\* Owners settle strictly inside their lease; recovery acts only after it.
THEOREM LeaseFencing == Spec => []SettledAgainstLease
<1>1. ASSUME Inv PROVE SettledAgainstLease
  <2> SUFFICES ASSUME NEW r \in Runs, runs[r] # NoRow
               PROVE  /\ IsActive(runs[r]) <=> runs[r].done = Null
                      /\ runs[r].status = "succeeded" \/ runs[r].code = "caller"
                           => runs[r].claimed <= runs[r].done /\ runs[r].done < runs[r].lease
                      /\ runs[r].code = "owner_lease_expired"
                           => runs[r].status = "failed" /\ runs[r].lease <= runs[r].done
    BY DEF SettledAgainstLease
  <2>1. RowTimes(runs[r]) BY <1>1 DEF Inv, AllRowTimes
  <2>2. QED BY <2>1 DEF RowTimes, IsActive, Active, Settled
<1>2. QED BY Invariance, <1>1, PTL

\* The turns of a thread do not overlap on the database clock.
THEOREM SerialTurns == Spec => []TurnsSerialized
<1>1. Inv => TurnsSerialized BY DEF Inv
<1>2. QED BY Invariance, <1>1, PTL

\* A run's messages and its success are committed together or not at all.
THEOREM AtomicCompletion == Spec => []AtomicFinalization
<1>1. Inv => AtomicFinalization BY DEF Inv
<1>2. QED BY Invariance, <1>1, PTL

\* A settled run, and what it said, never changes again.
THEOREM TerminalRunsStay == Spec => TerminalIsFinal
<1> DEFINE Stay == \A r \in Runs : runs[r] # NoRow /\ IsTerminal(runs[r])
                     => runs'[r] = runs[r] /\ Of(r)' = Of(r)
<1>1. ASSUME Inv, Inv', [Next]_vars PROVE [Stay]_vars
  <2>1. ASSUME UNCHANGED <<runs, messages>> PROVE Stay
    BY <2>1 DEF Of
  <2>2. ASSUME NEW s \in Sessions, Commit(s) PROVE Stay
    <3> SUFFICES ASSUME NEW r \in Runs, runs[r] # NoRow, IsTerminal(runs[r])
                 PROVE  runs'[r] = runs[r] /\ Of(r)' = Of(r)
      OBVIOUS
    <3>1. ~ IsActive(runs[r])
      BY DEF IsTerminal, IsActive, Active, Terminal, Settled
    <3>2. wrows[s][r] = NoRow /\ runs'[r] = runs[r]
      BY <1>1, <2>2, <3>1, CommitEffect DEF Rewrites
    <3>3. SessionInv(s) /\ pc[s] = "commit" BY <1>1, <2>2 DEF Inv, Commit
    <3>4. call[s].op = "complete" => call[s].run # r
      BY <3>2, <3>3 DEF SessionInv, CompleteInv, NoRow
    <3>5. \A m \in wmsgs[s] : m.from # r
      <4>1. wmsgs[s] # {} => /\ call[s].op \in {"complete", "append"}
                             /\ \A m \in wmsgs[s] : m.from = Author(call[s])
        BY <3>3 DEF SessionInv, BatchInv, Batch
      <4>2. call[s].op = "append" => call[s].batch \in HostBatches
        <5>1. call[s] \in Calls BY <1>1 DEF Inv, TypeOK
        <5>2. QED BY <5>1 DEF Calls
      <4>3. QED BY <3>4, <4>1, <4>2, HostAssumption DEF Author
    <3>6. Of(r)' = Of(r) BY <2>2, <3>5 DEF Commit, Of
    <3>7. QED BY <3>2, <3>6
  <2>3. ASSUME NEW s \in Sessions, Step(s) PROVE Stay
    BY <1>1, <2>1, <2>2, <2>3, Frame DEF Inv
  <2>4. CASE Tick BY <2>1, <2>4 DEF Tick
  <2>5. CASE UNCHANGED vars BY <2>5
  <2>6. QED BY <1>1, <2>3, <2>4, <2>5 DEF Next, Step
<1>2. QED BY Invariance, <1>1, PTL DEF Spec, TerminalIsFinal

\* Transactions never wait for each other in a circle: a session waiting for a
\* thread holds nothing, and a key is held only by a session about to commit.
THEOREM NoDeadlock == Spec => []NoWaitCycle
<1>1. ASSUME Inv PROVE NoWaitCycle
  <2> SUFFICES ASSUME NEW X \in (SUBSET Sessions) \ {{}}
               PROVE  \E s \in X : \A x \in X : ~ WaitsFor(s, x)
    BY Zenon DEF NoWaitCycle
  <2> SUFFICES ASSUME \A s \in X : \E x \in X : WaitsFor(s, x)
               PROVE  FALSE
    OBVIOUS
  <2>1. ASSUME NEW s \in X, NEW x \in X, WaitsFor(s, x)
        PROVE  pc[x] \in InTransaction
    <3>1. CASE pc[s] = "lock" /\ lock[call[s].thread] = x
      <4>1. call[s].thread \in Threads
        BY <1>1, <3>1, ThreadOfCall DEF Inv, SessionInv, LockInv
      <4>2. QED BY <1>1, <3>1, <4>1 DEF Inv, SessionInv, LockInv
    <3>2. CASE Inserted(x)
      BY <3>2 DEF Inserted, InTransaction
    <3>3. QED BY <2>1, <3>1, <3>2 DEF WaitsFor
  <2>2. ASSUME NEW s \in X, NEW x \in X, WaitsFor(s, x), pc[s] \in InTransaction
        PROVE  pc[x] = "commit"
    BY <2>2 DEF WaitsFor, InTransaction, Inserted
  <2>3. PICK s \in X : TRUE OBVIOUS
  <2>4. PICK x \in X : WaitsFor(s, x) BY <2>3
  <2>5. PICK y \in X : WaitsFor(x, y) BY <2>4
  <2>6. pc[y] = "commit" BY <2>1, <2>2, <2>4, <2>5
  <2>7. QED BY <2>6 DEF WaitsFor
<1>2. QED BY Invariance, <1>1, PTL
-----------------------------------------------------------------------------
(* The conversation of a thread.                                            *)

RowsOf(t) == {m \in messages : m.thread = t}
Line(t, last, from, i) == [thread |-> t, seq |-> last + i, from |-> from, part |-> i]

HistoryInv == IsFiniteSet(messages) /\ HistoryIsOrdered

LEMMA Renumbered ==
  ASSUME NEW m \in Message, NEW n \in Nat, NEW i \in 1 .. BatchLen
  PROVE  [m EXCEPT !.seq = n, !.part = i]
           = [thread |-> m.thread, seq |-> n, from |-> m.from, part |-> i]
<1> PICK x : x = [m EXCEPT !.seq = n, !.part = i]
  OBVIOUS
<1> PICK y : y = [thread |-> m.thread, seq |-> n, from |-> m.from, part |-> i]
  OBVIOUS
<1>1. x \in Message /\ y \in Message
  BY DEF Message
<1>2. x.thread = y.thread /\ x.seq = y.seq /\ x.from = y.from /\ x.part = y.part
  BY DEF Message
<1>3. x = y
  BY <1>1, <1>2 DEF Message
<1>4. QED BY <1>3

LEMMA BatchSize ==
  ASSUME NEW t, NEW from, LastSeq(t) \in Nat
  PROVE  /\ IsFiniteSet(Batch(t, from)) /\ Cardinality(Batch(t, from)) = BatchLen
         /\ \A m \in Batch(t, from) : /\ m.part \in 1 .. BatchLen
                                     /\ m = Line(t, LastSeq(t), from, m.part)
         /\ \A i \in 1 .. BatchLen : Line(t, LastSeq(t), from, i) \in Batch(t, from)
<1> DEFINE f == [i \in 1 .. BatchLen |-> Line(t, LastSeq(t), from, i)]
<1>1. /\ \A m \in Batch(t, from) : m.part \in 1 .. BatchLen /\ m = Line(t, LastSeq(t), from, m.part)
      /\ \A i \in 1 .. BatchLen : Line(t, LastSeq(t), from, i) \in Batch(t, from)
  BY DEF Batch, Line
<1>2. f \in [1 .. BatchLen -> Batch(t, from)]
  BY <1>1
<1>3. \A i, j \in 1 .. BatchLen : f[i] = f[j] => i = j
  BY DEF Line
<1>4. \A m \in Batch(t, from) : \E i \in 1 .. BatchLen : f[i] = m
  BY <1>1
<1>5. f \in Bijection(1 .. BatchLen, Batch(t, from))
  BY <1>2, <1>3, <1>4 DEF Bijection, Injection, Surjection, IsInjective
<1>6. ExistsBijection(1 .. BatchLen, Batch(t, from))
  BY <1>5 DEF ExistsBijection
<1>7. IsFiniteSet(1 .. BatchLen) /\ Cardinality(1 .. BatchLen) = BatchLen
  BY FS_Interval, LengthAssumption
<1>8. IsFiniteSet(Batch(t, from)) /\ Cardinality(Batch(t, from)) = BatchLen
  BY <1>6, <1>7, FS_Bijection
<1>9. QED BY <1>1, <1>8

\* A batch is added at the end of its thread: behind every message that is there.
LEMMA BatchJoins ==
  ASSUME Inv, HistoryInv, NEW s \in Sessions, Commit(s), wmsgs[s] # {}, NEW t,
         t = call[s].thread
  PROVE  /\ messages' = messages \cup Batch(t, Author(call[s]))
         /\ LastSeq(t) = Cardinality(RowsOf(t)) /\ LastSeq(t) \in Nat
         /\ \A m \in RowsOf(t) : m.seq \in 1 .. LastSeq(t)
         /\ t \in Threads
<1>1. t \in Threads /\ messages' = messages \cup wmsgs[s]
  BY CommitEffect
<1>2. wmsgs[s] = Batch(t, Author(call[s]))
  BY DEF Inv, SessionInv, BatchInv
<1>3. LastSeq(t) \in Nat /\ \A k \in Seqs(t) : k \in Nat /\ k <= LastSeq(t)
  BY <1>1, LastSeqIsMax DEF Inv
<1>4. Seqs(t) = 1 .. Cardinality(RowsOf(t))
  <2>1. Seqs(t) = {m.seq : m \in RowsOf(t)}
    BY DEF Seqs, RowsOf
  <2>2. QED BY <1>1, <2>1 DEF HistoryInv, HistoryIsOrdered, RowsOf
<1>5. Cardinality(RowsOf(t)) \in Nat
  BY FS_Subset, FS_CardinalityType DEF RowsOf, HistoryInv
<1>6. LastSeq(t) \in Seqs(t) \cup {0}
  <2>1. \E n \in Seqs(t) \cup {0} : \A k \in Seqs(t) : k <= n
    BY <1>1 DEF Inv, HasLast
  <2>2. QED BY <2>1 DEF LastSeq
<1>7. LastSeq(t) = Cardinality(RowsOf(t))
  <2>1. CASE Cardinality(RowsOf(t)) = 0
    BY <1>4, <1>6, <2>1
  <2>2. CASE Cardinality(RowsOf(t)) # 0
    <3>1. Cardinality(RowsOf(t)) \in Seqs(t)
      BY <1>4, <1>5, <2>2
    <3>2. QED BY <1>3, <1>4, <1>5, <1>6, <3>1
  <2>3. QED BY <2>1, <2>2
<1>8. \A m \in RowsOf(t) : m.seq \in Seqs(t)
  BY DEF Seqs, RowsOf
<1>9. QED BY <1>1, <1>2, <1>3, <1>4, <1>7, <1>8

LEMMA HistoryCommits ==
  ASSUME Inv, HistoryInv, NEW s \in Sessions, Commit(s), wmsgs[s] # {}
  PROVE  HistoryInv'
<1> PICK t : t = call[s].thread
  OBVIOUS
<1> PICK author : author = Author(call[s])
  OBVIOUS
<1> PICK last : last = LastSeq(t)
  OBVIOUS
<1> PICK new : new = Batch(t, author)
  OBVIOUS
<1>1. /\ messages' = messages \cup new /\ t \in Threads
      /\ last = Cardinality(RowsOf(t)) /\ last \in Nat
      /\ \A m \in RowsOf(t) : m.seq \in 1 .. last
  BY BatchJoins
<1>2. /\ IsFiniteSet(new) /\ Cardinality(new) = BatchLen
      /\ \A m \in new : m.part \in 1 .. BatchLen /\ m = Line(t, last, author, m.part)
      /\ \A i \in 1 .. BatchLen : Line(t, last, author, i) \in new
  <2>1. LastSeq(t) \in Nat
    BY <1>1
  <2>2. /\ IsFiniteSet(Batch(t, author)) /\ Cardinality(Batch(t, author)) = BatchLen
        /\ \A m \in Batch(t, author) :
             m.part \in 1 .. BatchLen /\ m = Line(t, LastSeq(t), author, m.part)
        /\ \A i \in 1 .. BatchLen : Line(t, LastSeq(t), author, i) \in Batch(t, author)
    BY <2>1, BatchSize
  <2>3. QED BY <2>2
<1>3. IsFiniteSet(messages')
  BY <1>1, <1>2, FS_Union DEF HistoryInv
<1>4. \A m \in new : m.thread = t /\ m.seq = last + m.part /\ m.from = author
  BY <1>2 DEF Line
<1>5. new \subseteq Message
  <2>1. author \in Runs \cup HostBatches
    <3>1. call[s] \in Calls /\ call[s].op \in {"complete", "append"}
      BY DEF Inv, TypeOK, SessionInv, BatchInv
    <3>2. QED BY <3>1 DEF Calls, Author
  <2>2. QED BY <1>1, <2>1, BatchType DEF Inv
<1>6. \A m \in messages' : \A i \in 1 .. BatchLen :
        [m EXCEPT !.seq = m.seq - m.part + i, !.part = i] \in messages'
  <2>1. ASSUME NEW m \in messages, NEW i \in 1 .. BatchLen
        PROVE  [m EXCEPT !.seq = m.seq - m.part + i, !.part = i] \in messages'
    BY <1>1 DEF HistoryInv, HistoryIsOrdered
  <2>2. ASSUME NEW m \in new, NEW i \in 1 .. BatchLen
        PROVE  [m EXCEPT !.seq = m.seq - m.part + i, !.part = i] \in messages'
    <3>1. /\ m.thread = t /\ m.from = author /\ m.part \in 1 .. BatchLen
          /\ m.seq - m.part + i = last + i /\ m.seq - m.part + i \in Nat
      BY <1>1, <1>2, <1>4, LengthAssumption
    <3>2. m \in Message
      BY <1>5, BatchType DEF Inv
    <3>3. [m EXCEPT !.seq = m.seq - m.part + i, !.part = i] = Line(t, last, author, i)
      BY <3>1, <3>2, Renumbered DEF Line
    <3>4. QED BY <1>1, <1>2, <3>3
  <2>3. QED BY <1>1, <2>1, <2>2
<1>7. ASSUME NEW u \in Threads
      PROVE  {m.seq : m \in RowsOf(u)'} = 1 .. Cardinality(RowsOf(u)')
  <2>1. {m.seq : m \in RowsOf(u)} = 1 .. Cardinality(RowsOf(u))
    BY DEF HistoryInv, HistoryIsOrdered, RowsOf
  <2>2. CASE u # t
    <3>1. RowsOf(u)' = RowsOf(u)
      BY <1>1, <1>4, <2>2 DEF RowsOf
    <3>2. QED BY <2>1, <3>1
  <2>3. CASE u = t
    <3>1. RowsOf(t)' = RowsOf(t) \cup new
      BY <1>1, <1>4 DEF RowsOf
    <3>2. RowsOf(t) \cap new = {}
      BY <1>1, <1>2, <1>4, LengthAssumption
    <3>3. IsFiniteSet(RowsOf(t))
      BY FS_Subset DEF HistoryInv, RowsOf
    <3>4. Cardinality(RowsOf(t) \cup new) = last + BatchLen
      <4>1. Cardinality(RowsOf(t) \cap new) = 0
        BY <3>2, FS_EmptySet
      <4>2. Cardinality(RowsOf(t) \cup new)
              = Cardinality(RowsOf(t)) + Cardinality(new) - Cardinality(RowsOf(t) \cap new)
        BY <1>2, <3>3, FS_Union
      <4>3. QED BY <1>1, <1>2, <4>1, <4>2, LengthAssumption
    <3>5. \A m \in RowsOf(t) \cup new : m.seq \in 1 .. last + BatchLen
      BY <1>1, <1>2, <1>4, LengthAssumption
    <3>6. ASSUME NEW n \in 1 .. last + BatchLen PROVE \E m \in RowsOf(t) \cup new : m.seq = n
      <4>1. CASE n <= last
        BY <1>1, <2>1, <2>3, <4>1
      <4>2. CASE n > last
        <5>1. n - last \in 1 .. BatchLen /\ last + (n - last) = n
          BY <1>1, <4>2, LengthAssumption
        <5>2. Line(t, last, author, n - last) \in new
          BY <1>2, <5>1
        <5>3. Line(t, last, author, n - last).seq = n
          BY <5>1 DEF Line
        <5>4. QED BY <5>2, <5>3
      <4>3. QED BY <1>1, <4>1, <4>2, LengthAssumption
    <3>7. QED BY <2>3, <3>1, <3>4, <3>5, <3>6
  <2>4. QED BY <2>2, <2>3
<1>8. ASSUME NEW m \in messages', NEW n \in messages', {m.from, n.from} \subseteq Runs,
             m.from # n.from, m.thread = n.thread, m.seq < n.seq
      PROVE  runs'[m.from].done <= runs'[n.from].claimed
  <2>1. ASSUME NEW x \in messages, x.from \in Runs
        PROVE  /\ runs'[x.from] = runs[x.from] /\ runs[x.from] # NoRow
               /\ x.thread = runs[x.from].thread /\ runs[x.from].done # Null
    <3>1. x \in Of(x.from)
      BY DEF Of
    <3>2. runs[x.from].status = "succeeded" /\ x.thread = runs[x.from].thread
      BY <2>1, <3>1 DEF Inv, AtomicFinalization
    <3>3. runs[x.from] # NoRow /\ ~ IsActive(runs[x.from])
      BY <3>2 DEF NoRow, IsActive, Active
    <3>4. runs[x.from].done # Null
      BY <2>1, <3>3 DEF Inv, AllRowTimes, RowTimes
    <3>5. runs'[x.from] = runs[x.from]
      BY <2>1, <3>3, CommitEffect DEF Rewrites
    <3>6. QED BY <3>2, <3>3, <3>4, <3>5
  <2>2. CASE m \in messages /\ n \in messages
    <3>1. runs[m.from].done <= runs[n.from].claimed
      BY <1>8, <2>2 DEF HistoryInv, HistoryIsOrdered
    <3>2. QED BY <1>8, <2>1, <2>2, <3>1
  <2>3. CASE m \in new /\ n \in new
    BY <1>4, <1>8, <2>3
  <2>4. CASE m \in new /\ n \in messages
    <3>1. n \in RowsOf(t) /\ m.seq = last + m.part /\ m.part \in 1 .. BatchLen
      BY <1>2, <1>4, <1>8, <2>4 DEF RowsOf
    <3>2. n.seq \in 1 .. last
      BY <1>1, <3>1
    <3>3. QED BY <1>1, <1>8, <3>1, <3>2, LengthAssumption
  <2>5. CASE m \in messages /\ n \in new
    <3>1. n.from = author /\ author \in Runs /\ m.thread = t
      BY <1>4, <1>8, <2>5
    <3>2. SessionInv(s) /\ pc[s] = "commit" /\ call[s] \in Calls
      BY DEF Inv, Commit, TypeOK
    <3>3. call[s].op = "complete" /\ author = call[s].run
      <4>1. call[s].op \in {"complete", "append"}
        BY <3>2 DEF SessionInv, BatchInv
      <4>2. call[s].op = "append" => call[s].batch \in HostBatches
        BY <3>2 DEF Calls
      <4>3. QED BY <3>1, <4>1, <4>2, HostAssumption DEF Author
    <3>4. /\ runs[author] # NoRow /\ runs[author].thread = t /\ wrows[s][author] # NoRow
      BY <3>2, <3>3 DEF SessionInv, KnownRun, RowCalls, CompleteInv, NoRow
    <3>5. /\ IsActive(runs[author]) /\ runs'[author].claimed = runs[author].claimed
      BY <3>1, <3>4, CommitEffect DEF Rewrites
    <3>6. runs[author].done = Null
      BY <3>1, <3>4, <3>5 DEF Inv, AllRowTimes, RowTimes
    <3>7. /\ runs[m.from] # NoRow /\ runs[m.from].thread = t /\ runs[m.from].done # Null
          /\ runs'[m.from] = runs[m.from]
      BY <1>8, <2>1, <2>5, <3>1
    <3>8. runs[m.from].done <= runs[author].claimed
      BY <1>8, <3>1, <3>4, <3>6, <3>7 DEF Inv, TurnsSerialized
    <3>9. QED BY <3>1, <3>5, <3>7, <3>8
  <2>6. QED BY <1>1, <2>2, <2>3, <2>4, <2>5
<1>9. QED BY <1>3, <1>6, <1>7, <1>8 DEF HistoryInv, HistoryIsOrdered, RowsOf

LEMMA HistoryStep == ASSUME Inv, HistoryInv, [Next]_vars PROVE HistoryInv'
<1>1. CASE UNCHANGED <<runs, messages>>
  BY <1>1 DEF HistoryInv, HistoryIsOrdered
<1>2. ASSUME NEW s \in Sessions, Commit(s), wmsgs[s] = {} PROVE HistoryInv'
  <2>1. messages' = messages
    BY <1>2 DEF Commit
  <2>2. ASSUME NEW m \in messages, m.from \in Runs PROVE runs'[m.from] = runs[m.from]
    <3>1. m \in Of(m.from)
      BY DEF Of
    <3>2. runs[m.from].status = "succeeded"
      BY <2>2, <3>1 DEF Inv, AtomicFinalization
    <3>3. runs[m.from] # NoRow /\ ~ IsActive(runs[m.from])
      BY <3>2 DEF NoRow, IsActive, Active
    <3>4. QED BY <1>2, <2>2, <3>3, CommitEffect DEF Rewrites
  <2>3. QED BY <2>1, <2>2 DEF HistoryInv, HistoryIsOrdered
<1>3. ASSUME NEW s \in Sessions, Step(s) PROVE HistoryInv'
  BY <1>1, <1>2, <1>3, HistoryCommits, Frame DEF Inv
<1>4. CASE Tick \/ UNCHANGED vars
  BY <1>1, <1>4 DEF Tick, vars
<1>5. QED BY <1>3, <1>4 DEF Next, Step

\* Every reader of a thread finds whole turns in the order they were taken, with no ordinal
\* missing or doubled, however the transactions that wrote them interleaved.
THEOREM OrderedHistory == Spec => []HistoryIsOrdered
<1>1. Init => HistoryInv
  <2>1. IsFiniteSet({}) /\ Cardinality({}) = 0
    BY FS_EmptySet
  <2>2. 1 .. 0 = {}
    OBVIOUS
  <2>3. QED BY <2>1, <2>2 DEF Init, HistoryInv, HistoryIsOrdered
<1>2. Inv /\ HistoryInv /\ [Next]_vars => HistoryInv'
  BY HistoryStep
<1>3. HistoryInv => HistoryIsOrdered
  BY DEF HistoryInv
<1>4. QED BY <1>1, <1>2, <1>3, Invariance, PTL DEF Spec
-----------------------------------------------------------------------------
(* The store implements the ledger: the invariant this needs on top of Inv.  *)

\* A host's batch is written once.
PostInv(s) ==
  call[s].op = "append" =>
    /\ \A m \in messages : m.from # call[s].batch
    /\ \A x \in Sessions \ {s} : call[x].op = "append" => call[x].batch # call[s].batch

\* The operation of the ledger a buffered row is, at the moment it was decided at.
MovesTo(op, old, new, at) ==
  \/ Ledger!Lapsed(old, at) /\ new = Ledger!Lapse(old, at)
  \/ /\ IsActive(old) /\ old.claimed <= at /\ at < old.lease
     /\ \E status \in Settled :
          new = [old EXCEPT !.status = status, !.code = "caller", !.done = at]
  \/ /\ old.status = "accepted" /\ at < old.lease
     /\ new = [old EXCEPT !.status = "running"]
  \/ /\ op = "complete"
     /\ old.status = "running" /\ old.claimed <= at /\ at < old.lease
     /\ new = [old EXCEPT !.status = "succeeded", !.done = at]
Moves(s, at) == MovesTo(call[s].op, runs[call[s].run], wrows[s][call[s].run], at)

Accepted(c, at) ==
  [status |-> "accepted", thread |-> c.thread, key |-> c.key, hash |-> c.hash,
   claimed |-> at, lease |-> at + c.ttl, done |-> Null, code |-> "none"]

\* A claim buffers its row and the expiry of the thread's active one, or the expiry alone.
Takes(s, at) ==
  /\ \A q \in Runs \ {call[s].run} :
       IF q \in ActiveOn(call[s].thread)
       THEN Ledger!Lapsed(runs[q], at) /\ wrows[s][q] = Ledger!Lapse(runs[q], at)
       ELSE wrows[s][q] = NoRow
  /\ wrows[s][call[s].run] \in {NoRow, Accepted(call[s], at)}

\* Every buffered write is an operation of the ledger that was open at some moment so far:
\* the one its session read the clock at, which may be well before the commit.
MoveInv(s) ==
  /\ call[s].op \in RowCalls /\ wrows[s][call[s].run] # NoRow =>
       \E at \in 0 .. clock : Moves(s, at)
  /\ call[s].op = "claim" /\ pc[s] \in {"insert", "commit"} =>
       \E at \in 0 .. clock : Takes(s, at)

\* Each turn of a conversation is a message of it.
RanksInv ==
  \A t \in Threads : \A n \in 1 .. Cardinality(Firsts(t)) : Nth(Firsts(t), n) \in Firsts(t)

RefInv == /\ Inv /\ HistoryInv /\ RanksInv
          /\ \A s \in Sessions : PostInv(s) /\ MoveInv(s)
-----------------------------------------------------------------------------
LEMMA LedgerStarts == Init => Ledger!LedgerInit
<1> SUFFICES ASSUME Init PROVE Ledger!LedgerInit
  OBVIOUS
<1>1. runs = [r \in Runs |-> Ledger!NoRow]
  BY DEF Init, NoRow, Ledger!NoRow
<1>2. ASSUME NEW t \in Threads PROVE TurnsOf(t) = <<>>
  <2>1. Cardinality(Firsts(t)) = 0
    BY FS_EmptySet DEF Init, Firsts
  <2>2. QED BY <2>1 DEF TurnsOf
<1>3. QED BY <1>1, <1>2 DEF Init, Ledger!LedgerInit

LEMMA LedgerTick == ASSUME Tick PROVE Ledger!Pass
BY DEF Tick, Ledger!Pass, TurnsOf, Firsts

LEMMA NthJoins ==
  ASSUME NEW S, IsFiniteSet(S), NEW x, x.seq \in Nat,
         \A y \in S : y.seq \in Nat /\ y.seq < x.seq
  PROVE  /\ Cardinality(S) \in Nat /\ Cardinality(S \cup {x}) = Cardinality(S) + 1
         /\ \A n \in 1 .. Cardinality(S) : Nth(S \cup {x}, n) = Nth(S, n)
         /\ Nth(S \cup {x}, Cardinality(S) + 1) = x
<1>1. x \notin S
  OBVIOUS
<1>2. Cardinality(S) \in Nat /\ Cardinality(S \cup {x}) = Cardinality(S) + 1
  BY <1>1, FS_AddElement, FS_CardinalityType
<1>3. \A m \in S : {y \in S \cup {x} : y.seq <= m.seq} = {y \in S : y.seq <= m.seq}
  OBVIOUS
<1>4. {y \in S \cup {x} : y.seq <= x.seq} = S \cup {x}
  OBVIOUS
<1>5. \A m \in S : Cardinality({y \in S : y.seq <= m.seq}) \in 0 .. Cardinality(S)
  <2> SUFFICES ASSUME NEW m \in S
               PROVE  Cardinality({y \in S : y.seq <= m.seq}) \in 0 .. Cardinality(S)
    OBVIOUS
  <2>1. {y \in S : y.seq <= m.seq} \in SUBSET S
    OBVIOUS
  <2>2. /\ IsFiniteSet({y \in S : y.seq <= m.seq})
        /\ Cardinality({y \in S : y.seq <= m.seq}) <= Cardinality(S)
    BY <2>1, FS_Subset
  <2>3. Cardinality({y \in S : y.seq <= m.seq}) \in Nat
    BY <2>2, FS_CardinalityType
  <2>4. QED BY <1>2, <2>2, <2>3
<1>6. ASSUME NEW n \in 1 .. Cardinality(S) PROVE Nth(S \cup {x}, n) = Nth(S, n)
  <2>1. \A m : m \in S /\ Cardinality({y \in S : y.seq <= m.seq}) = n
            <=> m \in S \cup {x} /\ Cardinality({y \in S \cup {x} : y.seq <= m.seq}) = n
    <3>1. \A m \in S : Cardinality({y \in S \cup {x} : y.seq <= m.seq})
                          = Cardinality({y \in S : y.seq <= m.seq})
      BY <1>3
    <3>2. Cardinality({y \in S \cup {x} : y.seq <= x.seq}) # n
      BY <1>2, <1>4
    <3>3. QED BY <1>1, <3>1, <3>2, Zenon
  <2>2. QED BY <2>1, Zenon DEF Nth
<1>7. Nth(S \cup {x}, Cardinality(S) + 1) = x
  <2>1. \A m \in S \cup {x} :
          Cardinality({y \in S \cup {x} : y.seq <= m.seq}) = Cardinality(S) + 1 <=> m = x
    BY <1>1, <1>2, <1>3, <1>4, <1>5
  <2>2. QED BY <2>1 DEF Nth
<1>8. QED BY <1>2, <1>6, <1>7

LEMMA FunctionIsSeq ==
  ASSUME NEW S, NEW n \in Nat, NEW f \in [1 .. n -> S]
  PROVE  f \in Seq(S) /\ Len(f) = n
OBVIOUS

LEMMA OneMore ==
  ASSUME NEW S, NEW n \in Nat, NEW f \in [1 .. n -> S], NEW e \in S, NEW g,
         g \in [1 .. n + 1 -> S], \A i \in 1 .. n : g[i] = f[i], g[n + 1] = e
  PROVE  g = Append(f, e)
<1>1. n + 1 \in Nat /\ \A i \in 1 .. n + 1 : i \in 1 .. n \/ i = n + 1
  OBVIOUS
<1>5. /\ f \in Seq(S) /\ Len(f) = n
      /\ g \in Seq(S) /\ Len(g) = n + 1
  BY <1>1, FunctionIsSeq
<1>6. /\ Append(f, e) \in Seq(S) /\ Len(Append(f, e)) = n + 1
      /\ \A i \in 1 .. n : Append(f, e)[i] = f[i]
      /\ Append(f, e)[n + 1] = e
  BY <1>5, AppendProperties
<1>7. \A i \in 1 .. n + 1 : g[i] = Append(f, e)[i]
  BY <1>1, <1>6, Zenon
<1>8. QED BY <1>5, <1>6, <1>7, SeqEqual

\* A committed batch is the next turn of its thread's conversation, and no other's.
LEMMA TurnAppended ==
  ASSUME RefInv, NEW s \in Sessions, Commit(s), wmsgs[s] # {}, NEW t, t = call[s].thread
  PROVE  /\ t \in Threads
         /\ TurnsOf(t)' = Append(TurnsOf(t), Author(call[s]))
         /\ \A u \in Threads \ {t} : TurnsOf(u)' = TurnsOf(u)
         /\ RanksInv'
<1> PICK author : author = Author(call[s])
  OBVIOUS
<1> PICK last : last = LastSeq(t)
  OBVIOUS
<1> PICK first : first = Line(t, last, author, 1)
  OBVIOUS
<1> PICK S : S = Firsts(t)
  OBVIOUS
<1>1. /\ messages' = messages \cup Batch(t, author) /\ t \in Threads /\ last \in Nat
      /\ \A m \in RowsOf(t) : m.seq \in 1 .. last
      /\ IsFiniteSet(messages)
  BY BatchJoins DEF RefInv, HistoryInv
<1>2. /\ \A m \in Batch(t, author) : m.part \in 1 .. BatchLen /\ m = Line(t, last, author, m.part)
      /\ \A i \in 1 .. BatchLen : Line(t, last, author, i) \in Batch(t, author)
  <2>1. LastSeq(t) \in Nat
    BY <1>1
  <2>2. /\ \A m \in Batch(t, author) :
             m.part \in 1 .. BatchLen /\ m = Line(t, LastSeq(t), author, m.part)
        /\ \A i \in 1 .. BatchLen : Line(t, LastSeq(t), author, i) \in Batch(t, author)
    BY <2>1, BatchSize
  <2>3. QED BY <2>2
<1>3. first \in Batch(t, author) /\ first.part = 1 /\ first.thread = t /\ first.from = author
      /\ first.seq = last + 1
  BY <1>2, LengthAssumption DEF Line
<1>4. \A m \in Batch(t, author) : m.thread = t /\ (m.part = 1 => m = first)
  BY <1>2 DEF Line
<1>5. Firsts(t)' = S \cup {first}
  BY <1>1, <1>3, <1>4 DEF Firsts
<1>6. \A u \in Threads \ {t} : Firsts(u)' = Firsts(u)
  BY <1>1, <1>4 DEF Firsts
<1>7. IsFiniteSet(S)
  BY <1>1, FS_Subset DEF Firsts
<1>8. \A m \in S : m.seq \in Nat /\ m.seq < first.seq
  BY <1>1, <1>3 DEF Firsts, RowsOf
<1> PICK k : k = Cardinality(S)
  OBVIOUS
<1>9. /\ k \in Nat /\ Cardinality(S \cup {first}) = k + 1
      /\ \A n \in 1 .. k : Nth(S \cup {first}, n) = Nth(S, n)
      /\ Nth(S \cup {first}, k + 1) = first
  <2>1. first.seq \in Nat
    BY <1>1, <1>3
  <2>2. QED BY <1>7, <1>8, <2>1, NthJoins
<1>10. \A n \in 1 .. k : Nth(S, n) \in S
  BY <1>1 DEF RefInv, RanksInv
<1>11. TurnsOf(t)' = [n \in 1 .. k + 1 |-> Nth(S \cup {first}, n).from]
  BY <1>5, <1>9 DEF TurnsOf
<1>12. /\ \A n \in 1 .. k + 1 : n \in 1 .. k \/ n = k + 1
       /\ \A n \in 1 .. k : n \in 1 .. k + 1
       /\ k + 1 \in 1 .. k + 1
  BY <1>9
<1> PICK old : old = TurnsOf(t)
  OBVIOUS
<1> PICK new : new = TurnsOf(t)'
  OBVIOUS
<1>13. author \in Runs \cup HostBatches
  <2>1. call[s] \in Calls /\ call[s].op \in {"complete", "append"}
    BY DEF RefInv, Inv, TypeOK, SessionInv, BatchInv
  <2>2. QED BY <2>1 DEF Calls, Author
<1>14. /\ old \in [1 .. k -> Runs \cup HostBatches]
       /\ \A n \in 1 .. k : old[n] = Nth(S, n).from
  <2>1. \A m \in S : m.from \in Runs \cup HostBatches
    BY DEF Firsts, RefInv, Inv, TypeOK, Message
  <2>2. old = [n \in 1 .. k |-> Nth(S, n).from]
    BY DEF TurnsOf
  <2>3. QED BY <1>10, <2>1, <2>2
<1>15. new = Append(old, author)
  <2>1. /\ \A n \in 1 .. k : new[n] = old[n]
        /\ new[k + 1] = author
    <3>1. \A n \in 1 .. k + 1 : new[n] = Nth(S \cup {first}, n).from
      BY <1>11
    <3>2. new[k + 1] = author
      BY <1>3, <1>9, <1>12, <3>1, ZenonT(30)
    <3>3. ASSUME NEW n \in 1 .. k PROVE new[n] = old[n]
      <4>1. n \in 1 .. k + 1 /\ Nth(S \cup {first}, n) = Nth(S, n)
        BY <1>9, <1>12
      <4>2. new[n] = Nth(S \cup {first}, n).from
        BY <3>1, <4>1
      <4>3. old[n] = Nth(S, n).from
        BY <1>14
      <4>4. QED BY <4>1, <4>2, <4>3
    <3>4. QED BY <3>2, <3>3
  <2>2. new \in [1 .. k + 1 -> Runs \cup HostBatches]
    <3>1. \A n \in 1 .. k : old[n] \in Runs \cup HostBatches
      BY <1>14
    <3>2. \A n \in 1 .. k + 1 : new[n] \in Runs \cup HostBatches
      BY <1>12, <1>13, <2>1, <3>1, ZenonT(30)
    <3>3. QED BY <1>11, <3>2
  <2>3. QED BY <1>9, <1>13, <1>14, <2>1, <2>2, OneMore
<1>16. TurnsOf(t)' = Append(TurnsOf(t), author)
  BY <1>15
<1>17. \A u \in Threads \ {t} : TurnsOf(u)' = TurnsOf(u)
  BY <1>6 DEF TurnsOf
<1>18. RanksInv'
  <2>1. \A n \in 1 .. k + 1 : Nth(S \cup {first}, n) \in S \cup {first}
    BY <1>9, <1>10, <1>12
  <2>2. ASSUME NEW u \in Threads
        PROVE  \A n \in 1 .. Cardinality(Firsts(u)') : Nth(Firsts(u)', n) \in Firsts(u)'
    <3>1. CASE u = t
      BY <1>5, <1>9, <2>1, <3>1, ZenonT(30)
    <3>2. CASE u # t
      BY <1>6, <3>2 DEF RefInv, RanksInv
    <3>3. QED BY <3>1, <3>2
  <2>3. QED BY <2>2 DEF RanksInv
<1>19. QED BY <1>1, <1>16, <1>17, <1>18
-----------------------------------------------------------------------------
(* The invariant is inductive.                                              *)

LEMMA AppendBegins ==
  ASSUME Inv, NEW s \in Sessions, Step(s), call'[s].op = "append"
  PROVE  call'[s] = call[s] \/ BeginAppend(s)
<1> USE DEF Inv, TypeOK
<1>1. CASE Start(s)
  BY <1>1 DEF Start, BeginClaim, BeginTransition, BeginComplete, BeginFail, BeginRecover,
              SweepRead, Begin
<1>2. CASE Lock(s) \/ Rollback(s)
  BY <1>2 DEF Lock, Rollback, NoCall
<1>3. ~ Reject(s) /\ ~ Commit(s)
  BY DEF Reject, Commit, End, NoCall
<1>4. CASE SweepTake(s)
  <2>1. PICK r \in todo[s] : SweepTake(s)!2!(r)
    BY <1>4 DEF SweepTake
  <2>2. call' = call \/ call'[s].op = "sweep"
    BY <2>1
  <2>3. QED BY <2>2
<1>5. CASE \/ ClaimLookup(s) \/ ClaimDecide(s) \/ ClaimInsert(s) \/ Transition(s)
           \/ CompleteCheck(s) \/ CompleteAppend(s) \/ CompleteRecheck(s)
           \/ FailIfRunning(s) \/ Recover(s) \/ HostAppend(s)
  BY <1>3, <1>5 DEF ClaimLookup, ClaimDecide, ClaimInsert, Transition, Write, WriteNothing,
                    CompleteCheck, CompleteAppend, CompleteRecheck, FailIfRunning, Recover,
                    HostAppend
<1>6. QED BY <1>1, <1>2, <1>3, <1>4, <1>5 DEF Step, Statement

LEMMA PostStep ==
  ASSUME Inv, \A x \in Sessions : PostInv(x), NEW s \in Sessions, Step(s)
  PROVE  \A x \in Sessions : PostInv(x)'
<1>1. \A x \in Sessions \ {s} : call'[x] = call[x]
  BY Frame DEF Inv
<1>2. /\ call'[s].op = "append" => call'[s] = call[s] \/ BeginAppend(s)
      /\ Commit(s) => call'[s].op # "append"
  <2>1. NoCall.op # "append"
    BY DEF NoCall
  <2>2. Commit(s) => call'[s] = NoCall
    BY DEF Commit, End, Inv, TypeOK
  <2>3. QED BY <2>1, <2>2, AppendBegins
<1>3. ASSUME NEW m \in messages', m \notin messages
      PROVE  /\ Commit(s)
             /\ m.from \notin Runs => call[s].op = "append" /\ m.from = call[s].batch
  <2>1. Commit(s) /\ m \in wmsgs[s]
    BY <1>3, Frame DEF Inv, Commit
  <2>2. call[s].op \in {"complete", "append"} /\ m.from = Author(call[s])
    BY <2>1 DEF Inv, SessionInv, BatchInv, Batch
  <2>3. call[s].op = "complete" => call[s].run \in Runs
    BY RunOfCall DEF Inv, RowCalls
  <2>4. QED BY <2>1, <2>2, <2>3 DEF Author
<1>4. BeginAppend(s) =>
        /\ \A m \in messages : m.from # call'[s].batch
        /\ \A x \in Sessions : call[x].op = "append" => call[x].batch # call'[s].batch
  BY DEF BeginAppend, Begin, Inv, TypeOK
<1>5. \A x \in Sessions : call[x].op = "append" => call[x].batch \in HostBatches
  BY DEF Inv, TypeOK, Calls
<1>6. ASSUME NEW x \in Sessions, call'[x].op = "append",
             NEW m \in messages'
      PROVE  m.from # call'[x].batch
  <2>1. CASE x = s
    <3>1. m \in messages
      BY <1>2, <1>3, <1>6, <2>1
    <3>2. QED BY <1>2, <1>4, <1>6, <2>1, <3>1 DEF PostInv
  <2>2. CASE x # s
    <3>1. call'[x] = call[x] /\ call[x].batch \in HostBatches
      BY <1>1, <1>5, <1>6, <2>2
    <3>2. CASE m \in messages
      BY <1>6, <3>1, <3>2 DEF PostInv
    <3>3. CASE m \notin messages
      BY <1>3, <1>6, <2>2, <3>1, <3>3, HostAssumption DEF PostInv
    <3>4. QED BY <3>2, <3>3
  <2>3. QED BY <2>1, <2>2
<1>7. ASSUME NEW x \in Sessions, NEW y \in Sessions \ {x},
             call'[x].op = "append", call'[y].op = "append"
      PROVE  call'[y].batch # call'[x].batch
  <2>1. CASE x # s /\ y # s
    BY <1>1, <1>7, <2>1 DEF PostInv
  <2>2. CASE x = s
    BY <1>1, <1>2, <1>4, <1>7, <2>2 DEF PostInv
  <2>3. CASE y = s
    BY <1>1, <1>2, <1>4, <1>7, <2>3 DEF PostInv
  <2>4. QED BY <2>1, <2>2, <2>3
<1>8. QED BY <1>6, <1>7 DEF PostInv

\* What a session has decided stays decided: its rows are under its thread's lock.
LEMMA MoveOthers ==
  ASSUME Inv, NEW s \in Sessions, Step(s), NEW x \in Sessions \ {s}, MoveInv(x)
  PROVE  MoveInv(x)'
<1>1. /\ pc'[x] = pc[x] /\ call'[x] = call[x] /\ wrows'[x] = wrows[x] /\ clock' = clock
      /\ Commit(s) \/ UNCHANGED runs
  BY Frame DEF Inv
<1>2. CASE UNCHANGED runs
  BY <1>1, <1>2 DEF MoveInv, Moves, Takes, ActiveOn
<1>3. CASE Commit(s)
  <2> PICK t : t = call[x].thread
    OBVIOUS
  <2>1. pc[x] \in {"insert", "commit"} => t \in Threads /\ t # call[s].thread
    <3>1. pc[s] \in InTransaction
      BY <1>3 DEF Commit, InTransaction
    <3>2. QED BY <3>1, Exclusive, ThreadOfCall DEF Inv, SessionInv, LockInv, InTransaction
  <2>2. \A r \in Runs : wrows[x][r] # NoRow => pc[x] \in {"insert", "commit"}
    BY DEF Inv, SessionInv, WriteInv
  <2>3. pc[x] \in {"insert", "commit"} =>
          \A r \in Runs : /\ runs[r] # NoRow /\ runs[r].thread = t => runs'[r] = runs[r]
                          /\ runs'[r] # NoRow /\ runs'[r].thread = t => runs'[r] = runs[r]
    BY <1>3, <2>1, CommitElsewhere
  <2>4. call[x].op \in RowCalls /\ wrows[x][call[x].run] # NoRow
          => runs'[call[x].run] = runs[call[x].run]
    <3> SUFFICES ASSUME call[x].op \in RowCalls, wrows[x][call[x].run] # NoRow
                 PROVE  runs'[call[x].run] = runs[call[x].run]
      OBVIOUS
    <3>1. call[x].run \in Runs
      BY RunOfCall DEF Inv
    <3>2. runs[call[x].run] # NoRow /\ runs[call[x].run].thread = t
      BY DEF Inv, SessionInv, KnownRun
    <3>3. QED BY <2>2, <2>3, <3>1, <3>2
  <2>5. call[x].op = "claim" /\ pc[x] \in {"insert", "commit"} =>
          /\ ActiveOn(t)' = ActiveOn(t)
          /\ \A q \in ActiveOn(t) : runs'[q] = runs[q]
    BY <2>3 DEF ActiveOn
  <2>6. ASSUME call[x].op \in RowCalls, wrows[x][call[x].run] # NoRow, NEW at, Moves(x, at)
        PROVE  Moves(x, at)'
    BY <1>1, <2>4, <2>6 DEF Moves
  <2>7. ASSUME call[x].op = "claim", pc[x] \in {"insert", "commit"}, NEW at, Takes(x, at)
        PROVE  Takes(x, at)'
    BY <1>1, <2>5, <2>7 DEF Takes
  <2>8. QED BY <1>1, <2>6, <2>7 DEF MoveInv
<1>4. QED BY <1>1, <1>2, <1>3

\* A call that has reached no write, or has ended, has decided nothing.
LEMMA MoveIdle ==
  ASSUME TypeOK', NEW s \in Sessions, WriteInv(s)', pc'[s] \notin {"insert", "commit"}
  PROVE  MoveInv(s)'
<1>1. \A r \in Runs : wrows'[s][r] = NoRow
  BY DEF WriteInv
<1>2. call'[s] \in Calls
  BY DEF TypeOK
<1>3. call'[s].op \in RowCalls => call'[s].run \in Runs
  BY <1>2 DEF Calls, RowCalls
<1>4. QED BY <1>1, <1>3 DEF MoveInv

LEMMA Claimed ==
  ASSUME Inv, NEW s \in Sessions, ClaimDecide(s), ~ Reject(s)
  PROVE  MoveInv(s)'
<1>1. /\ call[s].op = "claim" /\ UNCHANGED <<runs, call, clock>>
      /\ call[s].run \in Runs /\ runs[call[s].run] = NoRow /\ clock \in Nat
  BY RunOfCall DEF ClaimDecide, At, Inv, TypeOK, SessionInv, FreshClaim
<1>2. /\ \A r \in ActiveOn(call[s].thread) : Expired(runs[r])
      /\ wrows'[s] = [r \in Runs |->
           IF r \in ActiveOn(call[s].thread) THEN ExpireRow(runs[r])
           ELSE IF r = call[s].run THEN NewRow(call[s]) ELSE NoRow]
  BY DEF ClaimDecide, Inv, TypeOK
<1>3. call[s].run \notin ActiveOn(call[s].thread)
  BY <1>1 DEF ActiveOn
<1>4. NewRow(call[s]) = Accepted(call[s], clock)
  BY DEF NewRow, Accepted
<1>5. ASSUME NEW q \in Runs \ {call[s].run}
      PROVE  IF q \in ActiveOn(call[s].thread)
             THEN /\ Ledger!Lapsed(runs[q], clock)
                  /\ wrows'[s][q] = Ledger!Lapse(runs[q], clock)
             ELSE wrows'[s][q] = NoRow
  BY <1>2 DEF Expired, IsActive, ExpireRow, Ledger!Lapsed, Ledger!Lapse, Ledger!ActiveRow,
              Active, Ledger!Active
<1>6. wrows'[s][call[s].run] = Accepted(call[s], clock)
  BY <1>1, <1>2, <1>3, <1>4
<1>7. ActiveOn(call[s].thread)' = ActiveOn(call[s].thread)
  BY <1>1 DEF ActiveOn
<1>8. clock \in 0 .. clock /\ Takes(s, clock)'
  BY <1>1, <1>5, <1>6, <1>7 DEF Takes
<1>9. call'[s].op \notin RowCalls
  BY <1>1 DEF RowCalls
<1>10. QED BY <1>1, <1>8, <1>9 DEF MoveInv

LEMMA InsertKeeps ==
  ASSUME Inv, NEW s \in Sessions, MoveInv(s), ClaimInsert(s), ~ Reject(s)
  PROVE  MoveInv(s)'
<1>1. /\ call[s].op = "claim" /\ pc[s] = "insert" /\ UNCHANGED <<runs, call, clock>>
      /\ call[s].run \in Runs /\ call[s].op \notin RowCalls
  BY RunOfCall DEF ClaimInsert, At, Inv, WriteNothing, Write, RowCalls
<1>2. \/ wrows'[s] = wrows[s]
      \/ wrows'[s] = [wrows[s] EXCEPT ![call[s].run] = NoRow]
  BY DEF ClaimInsert, WriteNothing, Write, Inv, TypeOK
<1>3. PICK at \in 0 .. clock : Takes(s, at)
  BY <1>1 DEF MoveInv
<1>4. /\ \A q \in Runs \ {call[s].run} : wrows'[s][q] = wrows[s][q]
      /\ wrows'[s][call[s].run] \in {NoRow, wrows[s][call[s].run]}
  BY <1>1, <1>2 DEF Inv, TypeOK
<1>5. ActiveOn(call[s].thread)' = ActiveOn(call[s].thread)
  BY <1>1 DEF ActiveOn
<1>6. Takes(s, at)'
  BY <1>1, <1>3, <1>4, <1>5 DEF Takes
<1>7. QED BY <1>1, <1>3, <1>6 DEF MoveInv

LEMMA Decided ==
  ASSUME Inv, NEW s \in Sessions, call[s].op \in RowCalls, NEW row,
         Write(s, call[s].run, row),
         MovesTo(call[s].op, runs[call[s].run], row, clock)
  PROVE  MoveInv(s)'
<1>1. call[s].run \in Runs /\ clock \in Nat
  BY OwnRow
<1>2. UNCHANGED <<runs, call, clock>> /\ wrows'[s][call[s].run] = row
  BY <1>1 DEF Write, Inv, TypeOK
<1>3. Moves(s, clock)' /\ clock \in 0 .. clock
  BY <1>1, <1>2 DEF Moves
<1>4. call'[s].op # "claim"
  BY <1>2 DEF RowCalls
<1>5. QED BY <1>2, <1>3, <1>4 DEF MoveInv

LEMMA NothingDecided ==
  ASSUME Inv, NEW s \in Sessions, pc[s] = "locked", call[s].op \in RowCalls, WriteNothing(s)
  PROVE  MoveInv(s)'
<1>1. call[s].run \in Runs
  BY OwnRow
<1>2. UNCHANGED <<call, wrows>>
  BY DEF WriteNothing
<1>3. wrows[s][call[s].run] = NoRow
  BY <1>1 DEF Inv, SessionInv, WriteInv
<1>4. QED BY <1>2, <1>3 DEF MoveInv, RowCalls

\* An active row has no outcome yet.
LEMMA NoCode ==
  ASSUME NEW row \in Row, RowTimes(row), IsActive(row)
  PROVE  row.code = "none"
BY DEF Row, RowTimes, IsActive, Active, Settled

LEMMA Transitioned ==
  ASSUME Inv, NEW s \in Sessions, Transition(s), ~ Reject(s)
  PROVE  MoveInv(s)'
<1> PICK c : c = call[s]
  OBVIOUS
<1> PICK row : row = runs[c.run]
  OBVIOUS
<1> PICK new : new = [row EXCEPT !.status = c.status,
                                 !.code = IF c.status \in Settled THEN "caller" ELSE "none",
                                 !.done = IF c.status \in Settled THEN clock ELSE @]
  OBVIOUS
<1>1. /\ c.op \in RowCalls /\ Write(s, c.run, new)
      /\ OwnerHolds(row, c) /\ Valid(row.status, c.status)
  BY DEF Transition, At, RowCalls
<1>2. /\ row \in Row /\ RowTimes(row) /\ clock \in Nat
      /\ row.claimed \in Nat /\ row.lease \in Nat
  BY <1>1, OwnRow
<1>3. IsActive(row) /\ row.claimed <= clock /\ clock < row.lease /\ row.code = "none"
  <2>1. IsActive(row)
    BY <1>1 DEF Valid, IsActive, Active
  <2>2. row.code = "none"
    BY <1>2, <2>1, NoCode
  <2>3. QED BY <1>1, <1>2, <2>1, <2>2 DEF OwnerHolds, Expired, RowTimes
<1>4. CASE c.status \in Settled
  <2>1. new = [row EXCEPT !.status = c.status, !.code = "caller", !.done = clock]
    BY <1>4
  <2>2. MovesTo(c.op, row, new, clock)
    BY <1>3, <1>4, <2>1 DEF MovesTo
  <2>3. QED BY <1>1, <2>2, Decided
<1>5. CASE c.status \notin Settled
  <2>1. row.status = "accepted" /\ c.status = "running"
    BY <1>1, <1>5 DEF Valid
  <2>2. new = [row EXCEPT !.status = "running"]
    BY <1>2, <1>3, <1>5, <2>1 DEF Row
  <2>3. MovesTo(c.op, row, new, clock)
    BY <1>3, <2>1, <2>2 DEF MovesTo
  <2>4. QED BY <1>1, <2>3, Decided
<1>6. QED BY <1>4, <1>5

LEMMA Completed ==
  ASSUME Inv, NEW s \in Sessions, CompleteRecheck(s), ~ Reject(s)
  PROVE  MoveInv(s)'
<1> PICK c : c = call[s]
  OBVIOUS
<1> PICK row : row = runs[c.run]
  OBVIOUS
<1> PICK new : new = [row EXCEPT !.status = "succeeded", !.done = clock, !.code = "none"]
  OBVIOUS
<1>1. /\ c.op = "complete" /\ c.op \in RowCalls /\ Write(s, c.run, new)
      /\ OwnerHolds(row, c) /\ row.status = "running"
  BY DEF CompleteRecheck, At, RowCalls, Inv, SessionInv, CompleteInv
<1>2. /\ row \in Row /\ RowTimes(row) /\ clock \in Nat
      /\ row.claimed \in Nat /\ row.lease \in Nat
  BY <1>1, OwnRow
<1>3. IsActive(row) /\ row.claimed <= clock /\ clock < row.lease /\ row.code = "none"
  <2>1. IsActive(row)
    BY <1>1 DEF IsActive, Active
  <2>2. QED BY <1>1, <1>2, <2>1, NoCode DEF OwnerHolds, Expired, RowTimes
<1>4. new = [row EXCEPT !.status = "succeeded", !.done = clock]
  BY <1>2, <1>3 DEF Row
<1>5. MovesTo(c.op, row, new, clock)
  BY <1>1, <1>3, <1>4 DEF MovesTo
<1>6. QED BY <1>1, <1>5, Decided

LEMMA Lapses ==
  ASSUME NEW op, NEW row, Expired(row)
  PROVE  MovesTo(op, row, ExpireRow(row), clock)
BY DEF MovesTo, Expired, IsActive, Active, ExpireRow, Ledger!Lapsed, Ledger!Lapse,
       Ledger!ActiveRow, Ledger!Active

LEMMA FailedOrRecovered ==
  ASSUME Inv, NEW s \in Sessions, FailIfRunning(s) \/ Recover(s), ~ Reject(s)
  PROVE  MoveInv(s)'
<1> PICK c : c = call[s]
  OBVIOUS
<1> PICK row : row = runs[c.run]
  OBVIOUS
<1>1. c.op \in RowCalls /\ pc[s] = "locked"
  BY DEF FailIfRunning, Recover, At, RowCalls
<1>2. CASE WriteNothing(s)
  BY <1>1, <1>2, NothingDecided
<1>3. CASE Expired(row) /\ Write(s, c.run, ExpireRow(row))
  BY <1>1, <1>3, Lapses, Decided
<1>4. CASE /\ FailIfRunning(s) /\ IsActive(row) /\ ~ Expired(row)
           /\ Write(s, c.run, [row EXCEPT !.status = c.status, !.code = "caller", !.done = clock])
  <2>1. /\ RowTimes(row) /\ clock \in Nat /\ row.claimed \in Nat /\ row.lease \in Nat
    BY <1>1, OwnRow
  <2>2. row.claimed <= clock /\ clock < row.lease
    BY <1>4, <2>1 DEF Expired, RowTimes
  <2>3. c.status \in Settled
    BY <1>4 DEF FailIfRunning, At, Inv, TypeOK, Calls
  <2>4. MovesTo(c.op, row, [row EXCEPT !.status = c.status, !.code = "caller",
                                       !.done = clock], clock)
    BY <1>4, <2>2, <2>3 DEF MovesTo
  <2>5. QED BY <1>1, <1>4, <2>4, Decided
<1>5. QED BY <1>2, <1>3, <1>4 DEF FailIfRunning, Recover

LEMMA MoveSelfStep ==
  ASSUME Inv, NEW s \in Sessions, Step(s), MoveInv(s)
  PROVE  MoveInv(s)'
<1>1. TypeOK' /\ WriteInv(s)'
  BY TypeStep, SelfStep DEF SessionInv
<1>2. CASE pc'[s] \notin {"insert", "commit"}
  BY <1>1, <1>2, MoveIdle
<1>3. CASE pc'[s] \in {"insert", "commit"}
  <2> USE DEF Inv, TypeOK, Goto
  <2>1. ~ Start(s) /\ ~ Lock(s) /\ ~ Rollback(s)
    BY <1>3 DEF Start, BeginClaim, BeginTransition, BeginComplete, BeginFail,
         BeginRecover, BeginAppend, SweepRead, Begin, Lock, Rollback
  <2>2. ~ Commit(s) /\ ~ Reject(s)
    BY <1>3 DEF Commit, Reject, End
  <2>3. ~ SweepTake(s)
    BY <1>3 DEF SweepTake
  <2>4. ~ ClaimLookup(s) /\ ~ CompleteCheck(s) /\ ~ CompleteAppend(s)
    BY <1>3, <2>2 DEF ClaimLookup, CompleteCheck, CompleteAppend
  <2>5. CASE HostAppend(s)
    <3>1. call'[s].op = "append"
      BY <2>5 DEF HostAppend, At
    <3>2. QED BY <3>1 DEF MoveInv, RowCalls
  <2>6. QED
    BY <2>1, <2>2, <2>3, <2>4, <2>5, Claimed, InsertKeeps, Transitioned, Completed,
       FailedOrRecovered DEF Step, Statement
<1>4. QED BY <1>2, <1>3
-----------------------------------------------------------------------------
(* Each commit is one operation of the ledger, or shows nothing.            *)

LEMMA SameTurns == ASSUME UNCHANGED messages PROVE /\ \A t : TurnsOf(t)' = TurnsOf(t)
                                                   /\ RanksInv => RanksInv'
<1>1. \A t : Firsts(t)' = Firsts(t)
  BY DEF Firsts
<1>2. QED BY <1>1 DEF TurnsOf, RanksInv

\* A commit that writes no message shows as an operation on one row.
LEMMA RowCommits ==
  ASSUME RefInv, NEW s \in Sessions, Commit(s), call[s].op \in RowCalls,
         call[s].op # "complete"
  PROVE  /\ UNCHANGED messages
         /\ Ledger!LedgerNext \/ UNCHANGED Ledger!ledger
<1> PICK r : r = call[s].run
  OBVIOUS
<1>1. /\ r \in Runs /\ Inv /\ SessionInv(s) /\ pc[s] = "commit" /\ clock' = clock
      /\ clock \in Nat
  BY RunOfCall DEF RefInv, Inv, Commit, TypeOK
<1>2. UNCHANGED messages
  <2>1. wmsgs[s] = {}
    BY <1>1 DEF SessionInv, BatchInv, RowCalls
  <2>2. QED BY <2>1 DEF Commit
<1>3. \A q \in Runs : q # r => wrows[s][q] = NoRow
  BY <1>1 DEF SessionInv, WriteInv
<1>4. [t \in Threads |-> TurnsOf(t)]' = [t \in Threads |-> TurnsOf(t)]
  BY <1>2, SameTurns
<1>5. runs \in [Runs -> Row \cup {NoRow}]
  BY <1>1 DEF Inv, TypeOK
<1>6. CASE wrows[s][r] = NoRow
  <2>1. runs' = runs
    BY <1>3, <1>5, <1>6 DEF Commit
  <2>2. QED BY <1>1, <1>2, <1>4, <2>1 DEF Ledger!ledger
<1>7. CASE wrows[s][r] # NoRow
  <2> PICK new : new = wrows[s][r]
    OBVIOUS
  <2>1. runs' = [runs EXCEPT ![r] = new]
    BY <1>1, <1>3, <1>5, <1>7 DEF Commit
  <2>2. PICK at \in 0 .. clock : MovesTo(call[s].op, runs[r], new, at)
    BY <1>7 DEF RefInv, MoveInv, Moves
  <2>3. CASE Ledger!Lapsed(runs[r], at) /\ new = Ledger!Lapse(runs[r], at)
    <3>1. Ledger!Expire(r, at)
      BY <1>1, <1>4, <2>1, <2>3 DEF Ledger!Expire
    <3>2. QED BY <1>1, <1>2, <3>1 DEF Ledger!LedgerNext
  <2>4. ASSUME NEW status \in Settled, IsActive(runs[r]), runs[r].claimed <= at,
               at < runs[r].lease,
               new = [runs[r] EXCEPT !.status = status, !.code = "caller", !.done = at]
        PROVE  /\ UNCHANGED messages
               /\ Ledger!LedgerNext \/ UNCHANGED Ledger!ledger
    <3>1. Ledger!Settle(r, status, at)
      BY <1>1, <1>4, <2>1, <2>4 DEF Ledger!Settle, IsActive, Active, Ledger!ActiveRow,
                                    Ledger!Active
    <3>2. status \in Ledger!Settled
      BY DEF Settled, Ledger!Settled
    <3>3. QED BY <1>1, <1>2, <3>1, <3>2 DEF Ledger!LedgerNext
  <2>5. CASE /\ runs[r].status = "accepted" /\ at < runs[r].lease
             /\ new = [runs[r] EXCEPT !.status = "running"]
    <3>1. Ledger!Run(r, at)
      BY <1>1, <1>4, <2>1, <2>5 DEF Ledger!Run
    <3>2. QED BY <1>1, <1>2, <3>1 DEF Ledger!LedgerNext
  <2>6. QED BY <2>2, <2>3, <2>4, <2>5 DEF MovesTo
<1>8. QED BY <1>6, <1>7

LEMMA TurnsExtended ==
  ASSUME NEW t \in Threads, NEW from, TurnsOf(t)' = Append(TurnsOf(t), from),
         \A u \in Threads \ {t} : TurnsOf(u)' = TurnsOf(u)
  PROVE  [u \in Threads |-> TurnsOf(u)]'
           = [[u \in Threads |-> TurnsOf(u)] EXCEPT ![t] = Append(@, from)]
<1> PICK new : new = [u \in Threads |-> TurnsOf(u)']
  OBVIOUS
<1> PICK old : old = [u \in Threads |-> TurnsOf(u)]
  OBVIOUS
<1>1. [old EXCEPT ![t] = Append(@, from)]
        = [u \in Threads |-> IF u = t THEN Append(TurnsOf(t), from) ELSE TurnsOf(u)]
  OBVIOUS
<1>2. QED BY <1>1

\* A completion commits the run's success and its turn together.
LEMMA CompletionCommits ==
  ASSUME RefInv, NEW s \in Sessions, Commit(s), call[s].op = "complete"
  PROVE  RanksInv' /\ Ledger!LedgerNext
<1> PICK r : r = call[s].run
  OBVIOUS
<1> PICK new : new = wrows[s][r]
  OBVIOUS
<1>1. /\ r \in Runs /\ Inv /\ SessionInv(s) /\ pc[s] = "commit" /\ clock' = clock
      /\ clock \in Nat
  BY RunOfCall DEF RefInv, Inv, Commit, TypeOK, RowCalls
<1>2. wmsgs[s] # {} /\ new.status = "succeeded" /\ new # NoRow
  BY <1>1 DEF SessionInv, CompleteInv, NoRow
<1>3. runs[r].thread = call[s].thread
  BY <1>1 DEF SessionInv, KnownRun, RowCalls
<1> PICK t : t = call[s].thread
  OBVIOUS
<1>4. /\ t \in Threads
      /\ TurnsOf(t)' = Append(TurnsOf(t), r)
      /\ \A u \in Threads \ {t} : TurnsOf(u)' = TurnsOf(u)
      /\ RanksInv'
  <2>1. Author(call[s]) = r
    BY DEF Author
  <2>2. /\ t \in Threads
        /\ TurnsOf(t)' = Append(TurnsOf(t), Author(call[s]))
        /\ \A u \in Threads \ {t} : TurnsOf(u)' = TurnsOf(u)
        /\ RanksInv'
    BY <1>2, TurnAppended
  <2>3. QED BY <2>1, <2>2
<1>5. \A q \in Runs : q # r => wrows[s][q] = NoRow
  BY <1>1 DEF SessionInv, WriteInv, RowCalls
<1>6. runs' = [runs EXCEPT ![r] = new]
  <2>1. runs \in [Runs -> Row \cup {NoRow}]
    BY <1>1 DEF Inv, TypeOK
  <2>2. QED BY <1>1, <1>2, <1>5, <2>1 DEF Commit
<1>7. PICK at \in 0 .. clock : MovesTo(call[s].op, runs[r], new, at)
  BY <1>2 DEF RefInv, MoveInv, Moves, RowCalls
<1>8. runs[r] \in Row
  <2>1. call[s].op \in RowCalls
    BY DEF RowCalls
  <2>2. QED BY <1>1, <2>1, OwnRow
<1>9. /\ runs[r].status = "running" /\ runs[r].claimed <= at /\ at < runs[r].lease
      /\ new = [runs[r] EXCEPT !.status = "succeeded", !.done = at]
  BY <1>2, <1>7, <1>8 DEF MovesTo, Settled, Ledger!Lapse, Row
<1>10. [u \in Threads |-> TurnsOf(u)]'
         = [[u \in Threads |-> TurnsOf(u)] EXCEPT ![runs[r].thread] = Append(@, r)]
  <2>1. runs[r].thread = t
    BY <1>3
  <2>2. t \in Threads /\ TurnsOf(t)' = Append(TurnsOf(t), r)
        /\ \A u \in Threads \ {t} : TurnsOf(u)' = TurnsOf(u)
    BY <1>4
  <2>3. [u \in Threads |-> TurnsOf(u)]'
          = [[u \in Threads |-> TurnsOf(u)] EXCEPT ![t] = Append(@, r)]
    BY <2>2, TurnsExtended, ZenonT(30)
  <2>4. QED BY <2>1, <2>3
<1>11. Ledger!Finish(r, at)
  BY <1>1, <1>6, <1>9, <1>10 DEF Ledger!Finish
<1>12. QED BY <1>1, <1>4, <1>11 DEF Ledger!LedgerNext

\* A claim's commit is the run taking the thread's turn; when the key turned out to be
\* taken, it is at most the expiry of the run it would have followed.
LEMMA ClaimCommits ==
  ASSUME RefInv, NEW s \in Sessions, Commit(s), call[s].op = "claim"
  PROVE  /\ UNCHANGED messages
         /\ Ledger!LedgerNext \/ UNCHANGED Ledger!ledger
<1> PICK c : c = call[s]
  OBVIOUS
<1>1. /\ Inv /\ SessionInv(s) /\ pc[s] = "commit" /\ clock' = clock /\ clock \in Nat
      /\ runs \in [Runs -> Row \cup {NoRow}]
  BY DEF RefInv, Inv, Commit, TypeOK
<1>2. /\ c.run \in Runs /\ c.thread \in Threads /\ c.key \in Keys \cup {NoKey}
      /\ c.hash \in Hashes /\ c.ttl \in LeaseTimes
  BY <1>1 DEF Inv, TypeOK, Calls
<1>3. UNCHANGED messages
  <2>1. wmsgs[s] = {}
    BY <1>1 DEF SessionInv, BatchInv
  <2>2. QED BY <2>1 DEF Commit
<1>4. [t \in Threads |-> TurnsOf(t)]' = [t \in Threads |-> TurnsOf(t)]
  BY <1>3, SameTurns
<1>5. PICK at \in 0 .. clock : Takes(s, at)
  BY <1>1 DEF RefInv, MoveInv
<1>6. runs[c.run] = NoRow
  BY <1>1 DEF SessionInv, FreshClaim
<1>7. Ledger!Occupants(c.thread) = ActiveOn(c.thread)
  <2>1. \A r \in Runs : IsActive(runs[r]) => runs[r] # NoRow
    BY DEF IsActive, Active, NoRow
  <2>2. QED BY <2>1 DEF Ledger!Occupants, ActiveOn, Ledger!ActiveRow, IsActive, Active,
                        Ledger!Active
<1>8. runs' = [q \in Runs |-> IF wrows[s][q] # NoRow THEN wrows[s][q] ELSE runs[q]]
  BY DEF Commit
<1>9. CASE wrows[s][c.run] = Accepted(c, at)
  <2>1. Inserted(s)
    BY <1>1, <1>9 DEF Inserted, Accepted, NoRow
  <2>2. Ledger!WithKey(c.key) = {}
    BY <1>1, <2>1 DEF Inv, KeyInv, Ledger!WithKey, Ledger!OwnsKey, NoRow
  <2>3. \A q \in ActiveOn(c.thread) : Ledger!Lapsed(runs[q], at)
    BY <1>5, <1>6 DEF Takes, ActiveOn
  <2>4. ASSUME NEW q \in Runs
        PROVE  runs'[q] = IF q = c.run THEN Accepted(c, at)
                          ELSE IF q \in ActiveOn(c.thread) THEN Ledger!Lapse(runs[q], at)
                          ELSE runs[q]
    <3>1. CASE q = c.run
      BY <1>8, <1>9, <3>1 DEF Accepted, NoRow
    <3>2. CASE q # c.run /\ q \in ActiveOn(c.thread)
      <4>1. wrows[s][q] = Ledger!Lapse(runs[q], at)
        BY <1>5, <3>2 DEF Takes
      <4>2. runs[q] \in Row
        BY <1>1, <3>2 DEF ActiveOn
      <4>3. wrows[s][q] # NoRow
        BY <4>1, <4>2 DEF Ledger!Lapse, Row, NoRow
      <4>4. QED BY <1>8, <3>2, <4>1, <4>3
    <3>3. CASE q # c.run /\ q \notin ActiveOn(c.thread)
      BY <1>5, <1>8, <3>3 DEF Takes
    <3>4. QED BY <3>1, <3>2, <3>3
  <2>5. runs' = [q \in Runs |->
                  IF q = c.run THEN Accepted(c, at)
                  ELSE IF q \in ActiveOn(c.thread) THEN Ledger!Lapse(runs[q], at)
                  ELSE runs[q]]
    BY <1>8, <2>4
  <2>6. Ledger!Take(c.run, c.thread, c.key, c.hash, c.ttl, at)
    BY <1>1, <1>4, <1>6, <1>7, <2>2, <2>3, <2>5
    DEF Ledger!Take, Accepted, NoRow, Ledger!NoRow, Null, Ledger!Null
  <2>7. QED BY <1>1, <1>2, <1>3, <2>6 DEF Ledger!LedgerNext
<1>10. CASE wrows[s][c.run] = NoRow
  <2>1. CASE ActiveOn(c.thread) = {}
    <3>1. \A q \in Runs : runs'[q] = runs[q]
      BY <1>5, <1>8, <1>10, <2>1 DEF Takes
    <3>2. runs' = runs
      BY <1>1, <1>8, <3>1
    <3>3. QED BY <1>1, <1>3, <1>4, <3>2 DEF Ledger!ledger
  <2>2. ASSUME NEW r \in ActiveOn(c.thread)
        PROVE  Ledger!Expire(r, at)
    <3>1. \A q \in ActiveOn(c.thread) : q = r
      BY <1>1, <2>2 DEF ActiveOn, Inv, AllRowTimes, RowTimes, TurnsSerialized
    <3>2. r \in Runs /\ r # c.run /\ Ledger!Lapsed(runs[r], at) /\ runs[r] \in Row
      BY <1>1, <1>5, <1>6, <2>2 DEF Takes, ActiveOn
    <3>3. wrows[s][r] = Ledger!Lapse(runs[r], at) /\ wrows[s][r] # NoRow
      <4>1. wrows[s][r] = Ledger!Lapse(runs[r], at)
        BY <1>5, <2>2, <3>2 DEF Takes
      <4>2. QED BY <3>2, <4>1 DEF Ledger!Lapse, Row, NoRow
    <3>4. \A q \in Runs : q # r => wrows[s][q] = NoRow
      BY <1>5, <1>10, <3>1 DEF Takes
    <3>5. runs' = [runs EXCEPT ![r] = Ledger!Lapse(runs[r], at)]
      BY <1>1, <1>8, <3>2, <3>3, <3>4
    <3>6. QED BY <1>1, <1>4, <3>2, <3>5 DEF Ledger!Expire
  <2>3. CASE ActiveOn(c.thread) # {}
    <3>1. PICK r \in ActiveOn(c.thread) : TRUE
      BY <2>3
    <3>2. r \in Runs /\ Ledger!Expire(r, at)
      BY <2>2, <3>1 DEF ActiveOn
    <3>3. QED BY <1>1, <1>3, <3>2 DEF Ledger!LedgerNext
  <2>4. QED BY <2>1, <2>3
<1>11. QED BY <1>5, <1>9, <1>10 DEF Takes

\* A host's append commits one batch that was not in any conversation.
LEMMA AppendCommits ==
  ASSUME RefInv, NEW s \in Sessions, Commit(s), call[s].op = "append"
  PROVE  RanksInv' /\ (Ledger!LedgerNext \/ UNCHANGED Ledger!ledger)
<1> PICK b : b = call[s].batch
  OBVIOUS
<1> PICK t : t = call[s].thread
  OBVIOUS
<1>1. /\ Inv /\ SessionInv(s) /\ clock' = clock /\ b \in HostBatches
      /\ runs \in [Runs -> Row \cup {NoRow}]
  BY DEF RefInv, Inv, Commit, TypeOK, Calls
<1>2. runs' = runs
  <2>1. \A q \in Runs : wrows[s][q] = NoRow
    BY <1>1 DEF SessionInv, WriteInv, RowCalls
  <2>2. QED BY <1>1, <2>1 DEF Commit
<1>3. CASE wmsgs[s] = {}
  <2>1. UNCHANGED messages
    BY <1>3 DEF Commit
  <2>2. [u \in Threads |-> TurnsOf(u)]' = [u \in Threads |-> TurnsOf(u)]
    BY <2>1, SameTurns
  <2>3. QED BY <1>1, <1>2, <2>1, <2>2, SameTurns DEF Ledger!ledger, RefInv
<1>4. CASE wmsgs[s] # {}
  <2>1. /\ t \in Threads /\ TurnsOf(t)' = Append(TurnsOf(t), b)
        /\ \A u \in Threads \ {t} : TurnsOf(u)' = TurnsOf(u)
        /\ RanksInv'
    <3>1. Author(call[s]) = b
      BY DEF Author
    <3>2. /\ t \in Threads /\ TurnsOf(t)' = Append(TurnsOf(t), Author(call[s]))
          /\ \A u \in Threads \ {t} : TurnsOf(u)' = TurnsOf(u)
          /\ RanksInv'
      BY <1>4, TurnAppended
    <3>3. QED BY <3>1, <3>2
  <2>2. ASSUME NEW x \in Threads, NEW i \in 1 .. Len(TurnsOf(x))
        PROVE  TurnsOf(x)[i] # b
    <3> PICK k : k = Cardinality(Firsts(x))
      OBVIOUS
    <3>1. k \in Nat
      BY FS_Subset, FS_CardinalityType DEF RefInv, HistoryInv, Firsts
    <3>2. TurnsOf(x) = [n \in 1 .. k |-> Nth(Firsts(x), n).from]
      BY DEF TurnsOf
    <3>3. Len(TurnsOf(x)) = k
      BY <3>1, <3>2
    <3>4. i \in 1 .. k /\ TurnsOf(x)[i] = Nth(Firsts(x), i).from
      BY <2>2, <3>2, <3>3
    <3>5. Nth(Firsts(x), i) \in messages
      BY <3>4 DEF RefInv, RanksInv, Firsts
    <3>6. QED BY <3>4, <3>5 DEF RefInv, PostInv
  <2>3. [u \in Threads |-> TurnsOf(u)]'
          = [[u \in Threads |-> TurnsOf(u)] EXCEPT ![t] = Append(@, b)]
    BY <2>1, TurnsExtended
  <2>4. Ledger!Post(t, b)
    BY <1>1, <1>2, <2>2, <2>3 DEF Ledger!Post
  <2>5. QED BY <1>1, <2>1, <2>4 DEF Ledger!LedgerNext
<1>5. QED BY <1>3, <1>4

LEMMA SessionRefines ==
  ASSUME RefInv, NEW s \in Sessions, Step(s)
  PROVE  RanksInv' /\ (Ledger!LedgerNext \/ UNCHANGED Ledger!ledger)
<1>1. CASE Commit(s)
  <2>1. call[s].op # "none" /\ call[s] \in Calls
    BY <1>1, CommitEffect DEF RefInv, Inv, TypeOK
  <2>2. call[s].op \in RowCalls \cup {"claim", "append"}
    BY <2>1 DEF Calls, RowCalls
  <2>3. CASE call[s].op \in (RowCalls \ {"complete"}) \cup {"claim"}
    <3>1. UNCHANGED messages /\ (Ledger!LedgerNext \/ UNCHANGED Ledger!ledger)
      BY <1>1, <2>3, RowCommits, ClaimCommits
    <3>2. QED BY <3>1, SameTurns DEF RefInv
  <2>4. QED BY <1>1, <2>2, <2>3, CompletionCommits, AppendCommits
<1>2. CASE ~ Commit(s)
  <2>1. UNCHANGED <<runs, messages, clock>>
    BY <1>2, Frame DEF RefInv, Inv
  <2>2. [t \in Threads |-> TurnsOf(t)]' = [t \in Threads |-> TurnsOf(t)]
    BY <2>1, SameTurns
  <2>3. QED BY <2>1, <2>2, SameTurns DEF RefInv, Ledger!ledger
<1>3. QED BY <1>1, <1>2

LEMMA RefinesStep ==
  ASSUME RefInv, [Next]_vars
  PROVE  RefInv' /\ [Ledger!LedgerNext]_(Ledger!ledger)
<1>1. Inv' /\ HistoryInv'
  BY InvStep, HistoryStep DEF RefInv
<1>2. ASSUME NEW s \in Sessions, Step(s)
      PROVE  RefInv' /\ [Ledger!LedgerNext]_(Ledger!ledger)
  <2>1. RanksInv' /\ (Ledger!LedgerNext \/ UNCHANGED Ledger!ledger)
    BY <1>2, SessionRefines
  <2>2. \A x \in Sessions : PostInv(x)'
    BY <1>2, PostStep DEF RefInv
  <2>3. \A x \in Sessions : MoveInv(x)'
    BY <1>2, MoveOthers, MoveSelfStep DEF RefInv
  <2>4. QED BY <1>1, <2>1, <2>2, <2>3 DEF RefInv
<1>3. CASE Tick \/ UNCHANGED vars
  <2>1. /\ UNCHANGED <<runs, messages, pc, call, wrows>>
        /\ clock' = clock \/ (Tick /\ clock' = clock + 1)
    BY <1>3 DEF Tick, vars
  <2>2. RanksInv' /\ \A t : TurnsOf(t)' = TurnsOf(t)
    BY <2>1, SameTurns DEF RefInv
  <2>3. [t \in Threads |-> TurnsOf(t)]' = [t \in Threads |-> TurnsOf(t)]
    BY <2>2
  <2>4. [Ledger!LedgerNext]_(Ledger!ledger)
    BY <2>1, <2>3, LedgerTick DEF Ledger!LedgerNext, Ledger!ledger
  <2>5. ASSUME NEW x \in Sessions PROVE PostInv(x)' /\ MoveInv(x)'
    <3>1. PostInv(x)'
      BY <2>1 DEF RefInv, PostInv
    <3>2. clock \in Nat /\ \A at \in 0 .. clock : at \in 0 .. clock'
      BY <2>1 DEF RefInv, Inv, TypeOK
    <3>3. /\ \A at : Moves(x, at) => Moves(x, at)'
          /\ \A at : Takes(x, at) => Takes(x, at)'
      BY <2>1 DEF Moves, Takes, ActiveOn
    <3>4. MoveInv(x)'
      BY <2>1, <3>2, <3>3 DEF RefInv, MoveInv
    <3>5. QED BY <3>1, <3>4
  <2>6. QED BY <1>1, <2>2, <2>4, <2>5 DEF RefInv
<1>4. QED BY <1>2, <1>3 DEF Next, Step

LEMMA RefInvInit == Init => RefInv
<1> SUFFICES ASSUME Init PROVE RefInv
  OBVIOUS
<1>1. HistoryInv
  <2>1. IsFiniteSet({}) /\ Cardinality({}) = 0
    BY FS_EmptySet
  <2>2. 1 .. 0 = {}
    OBVIOUS
  <2>3. QED BY <2>1, <2>2 DEF Init, HistoryInv, HistoryIsOrdered
<1>2. RanksInv
  <2>1. \A t : Cardinality(Firsts(t)) = 0
    BY FS_EmptySet DEF Init, Firsts
  <2>2. QED BY <2>1 DEF RanksInv
<1>3. \A s \in Sessions : PostInv(s) /\ MoveInv(s)
  BY DEF Init, PostInv, MoveInv, NoCall, RowCalls
<1>4. QED BY <1>1, <1>2, <1>3, InvInit DEF RefInv

\* PostgresRunStore implements the ledger: whatever the interleaving of its transactions,
\* their rollbacks and crashes, what is committed changes only by whole operations, each
\* decided at a moment of the database clock when its lease was alive (or over, for an
\* expiry), and a run's success shows together with its turn of the conversation.
THEOREM Refinement == Spec => ImplementsLedger
<1>1. Init => Ledger!LedgerInit
  BY LedgerStarts
<1>2. RefInv /\ [Next]_vars => RefInv' /\ [Ledger!LedgerNext]_(Ledger!ledger)
  BY RefinesStep
<1>3. QED BY <1>1, <1>2, RefInvInit, PTL DEF Spec, ImplementsLedger, Ledger!LedgerSpec
=============================================================================
