---------------------------- MODULE MemoryStore ----------------------------
(***************************************************************************)
(* PostgresMemoryStore (src/agent_runtime/memory/postgres.py): threads by  *)
(* external key, expiring memory records, and a thread's history read by a *)
(* cursor while turns are appended.                                        *)
(*                                                                         *)
(* A call is a transaction of statements under READ COMMITTED: a statement *)
(* sees what is committed and what its own transaction wrote; a write      *)
(* waits for the lock of another's uncommitted write of the same row or    *)
(* unique key, and then judges the row as it has become.  A transaction    *)
(* may be lost at any step, or its reply after it has committed.           *)
(*                                                                         *)
(* Names of records are <<namespace, key>> with keys as numbers, for one   *)
(* user.  Values, tags and metadata are left out but for a record's        *)
(* version, which tells one write of it from another.                      *)
(***************************************************************************)
EXTENDS Integers, Sequences, SequencesExt, FiniteSets, FiniteSetsExt

CONSTANTS Sessions,      \* the connections
          ThreadKeys,    \* external keys
          Names,         \* of memory records: <<namespace, key>>
          NoKey,         \* external_key=None
          Never,         \* expires_at=None
          PageSize,      \* limit of search()
          FetchSize,     \* rows a cursor fetches at once
          MaxClock,      \* bound: time
          MaxWrites,     \* bound: transactions that write
          MaxTurns       \* bound: turns appended

ASSUME Sizes == {PageSize, FetchSize} \subseteq Nat \ {0}
ASSUME NamesAssumption == \A name \in Names : name = <<name[1], name[2]>> /\ name[2] \in Nat

VARIABLES
    threads,   \* committed threads by id: their external key
    records,   \* committed records by name: version and expiry
    history,   \* committed messages of one thread: their turns
    clock,
    writes,    \* how many writing calls have begun: their number names what they write
    call,      \* the call of each session
    replies,   \* the answers of create_thread(): external key and id
    pages,     \* a search by offset
    cursor     \* a stream of the history

vars == <<threads, records, history, clock, writes, call, replies, pages, cursor>>

Absent == [version |-> 0, expires |-> Never]
Idle == [op |-> "none"]
NoPages == [at |-> "none"]
NoCursor == [at |-> "none"]
Stored == {name \in Names : records[name] # Absent}

Init ==
  /\ threads = [id \in {} |-> NoKey] /\ records = [name \in Names |-> Absent]
  /\ history = <<>> /\ clock = 0 /\ writes = 0
  /\ call = [s \in Sessions |-> Idle] /\ replies = {}
  /\ pages = NoPages /\ cursor = NoCursor

\* A call that writes, whose number is the id of its thread.
Begins(s, new) ==
  /\ call[s] = Idle /\ writes < MaxWrites
  /\ writes' = writes + 1
  /\ call' = [call EXCEPT ![s] = new]
  /\ UNCHANGED <<threads, records, history, clock, replies, pages, cursor>>
\* wrote: the uncommitted rows of its transaction.
Goes(s, at, wrote) ==
  /\ call' = [call EXCEPT ![s].at = at, ![s].wrote = wrote]
  /\ UNCHANGED <<threads, records, history, clock, writes, replies, pages, cursor>>
\* Another transaction has written the row, or the unique key, and is not over.
Locked(s, row) == \E other \in Sessions \ {s} : call[other] # Idle /\ row \in call[other].wrote
Running(s, op, at) == call[s].op = op /\ call[s].at = at
-----------------------------------------------------------------------------
(* create_thread()                                                          *)

Named(key) == {id \in DOMAIN threads : key # NoKey /\ threads[id] = key}

Create(s, key) == Begins(s, [op |-> "create", at |-> "insert", id |-> writes + 1,
                             wrote |-> {}, key |-> key])
\* Fault: without ON CONFLICT and its index.
InsertsAlways(s) ==
  /\ Running(s, "create", "insert")
  /\ Goes(s, "select", {<<"thread", call[s].id>>})
\* INSERT ... ON CONFLICT DO NOTHING
Inserts(s) ==
  /\ Running(s, "create", "insert")
  /\ call[s].key # NoKey => ~ Locked(s, <<"key", call[s].key>>)
  /\ Goes(s, "select", IF Named(call[s].key) # {} THEN {}
                       ELSE {<<"thread", call[s].id>>}
                            \cup (IF call[s].key = NoKey THEN {} ELSE {<<"key", call[s].key>>}))
\* SELECT of the thread by key, or by id; the transaction commits, and answers unless
\* the reply is lost.
Created(s) ==
  /\ Running(s, "create", "select")
  /\ LET mine == IF call[s].wrote = {} THEN {} ELSE {call[s].id}
         found == CHOOSE id \in mine \cup Named(call[s].key) : TRUE
     IN /\ threads' = [id \in DOMAIN threads \cup mine |->
                         IF id \in mine THEN call[s].key ELSE threads[id]]
        /\ replies' \in {replies, replies \cup {<<call[s].key, found>>}}
  /\ call' = [call EXCEPT ![s] = Idle]
  /\ UNCHANGED <<records, history, clock, writes, pages, cursor>>
-----------------------------------------------------------------------------
(* put(), delete() and cleanup_expired()                                    *)

Row(name) == <<"record", name>>
\* Not expired at a time: get() and search() show it.
Live(record, now) == record.expires = Never \/ record.expires > now
Expired(record, cutoff) == record.expires # Never /\ record.expires <= cutoff

Put(s, name, expires) ==
  Begins(s, [op |-> "put", at |-> "upsert", id |-> writes + 1, wrote |-> {},
             name |-> name, expires |-> expires])
\* INSERT ... ON CONFLICT DO UPDATE
Upserts(s) == /\ Running(s, "put", "upsert") /\ ~ Locked(s, Row(call[s].name))
              /\ Goes(s, "commit", {Row(call[s].name)})

Delete(s, name) == Begins(s, [op |-> "delete", at |-> "delete", id |-> writes + 1,
                              wrote |-> {}, name |-> name])
\* DELETE of a row that is there; one not yet committed is not seen, nor waited for.
Deletes(s) ==
  /\ Running(s, "delete", "delete")
  /\ records[call[s].name] # Absent => ~ Locked(s, Row(call[s].name))
  /\ Goes(s, "commit", IF records[call[s].name] = Absent THEN {} ELSE {Row(call[s].name)})

\* cleanup_expired(): before now or a given time, of all namespaces or one.
Sweep(s, cutoff, spaces) ==
  Begins(s, [op |-> "sweep", at |-> "scan", id |-> writes + 1, wrote |-> {}, todo |-> {},
             cutoff |-> cutoff, spaces |-> spaces])
\* DELETE: its snapshot finds rows, ...
Scans(s) ==
  /\ Running(s, "sweep", "scan")
  /\ call' = [call EXCEPT ![s].at = "rows",
                ![s].todo = {name \in Stored : /\ name[1] \in call[s].spaces
                                               /\ Expired(records[name], call[s].cutoff)}]
  /\ UNCHANGED <<threads, records, history, clock, writes, replies, pages, cursor>>
\* Fault: rows are deleted by what the scan saw of them.
SweepsUnchecked(s) ==
  /\ Running(s, "sweep", "rows")
  /\ \E name \in call[s].todo :
       /\ ~ Locked(s, Row(name))
       /\ call' = [call EXCEPT ![s].todo = @ \ {name}, ![s].wrote = @ \cup {Row(name)}]
  /\ UNCHANGED <<threads, records, history, clock, writes, replies, pages, cursor>>
\* ... and each is locked in turn, and deleted if it is still expired.
Sweeps(s) ==
  /\ Running(s, "sweep", "rows")
  /\ \E name \in call[s].todo :
       /\ ~ Locked(s, Row(name))
       /\ call' = [call EXCEPT ![s].todo = @ \ {name},
                     ![s].wrote = IF Expired(records[name], call[s].cutoff)
                                  THEN @ \cup {Row(name)} ELSE @]
  /\ UNCHANGED <<threads, records, history, clock, writes, replies, pages, cursor>>
Swept(s) == /\ Running(s, "sweep", "rows") /\ call[s].todo = {}
            /\ Goes(s, "commit", call[s].wrote)

Commits(s) ==
  /\ call[s] # Idle /\ call[s].at = "commit"
  /\ records' = [name \in Names |->
                   IF Row(name) \notin call[s].wrote THEN records[name]
                   ELSE IF call[s].op = "put"
                        THEN [version |-> call[s].id, expires |-> call[s].expires] ELSE Absent]
  /\ call' = [call EXCEPT ![s] = Idle]
  /\ UNCHANGED <<threads, history, clock, writes, replies, pages, cursor>>

\* A transaction is lost before it commits.
Aborts(s) ==
  /\ call[s] # Idle /\ call' = [call EXCEPT ![s] = Idle]
  /\ UNCHANGED <<threads, records, history, clock, writes, replies, pages, cursor>>
-----------------------------------------------------------------------------
(* search() from offset to next_offset                                      *)

\* The records a search shows, ordered by their keys.
Found(space) ==
  LET shown == {name \in Stored : name[1] = space /\ Live(records[name], clock)}
  IN [n \in 1 .. Cardinality(shown) |->
        CHOOSE name \in shown : Cardinality({one \in shown : one[2] <= name[2]}) = n]
PageOf(space, offset) ==
  SubSeq(Found(space), offset + 1, Min({offset + PageSize + 1, Len(Found(space))}))
\* The records of a search up to an offset.
UpTo(offset, found) == {found[n] : n \in 1 .. Min({offset, Len(found)})}
\* found: all that could be seen now, kept: by every page.  came, went: a record has
\* appeared, or gone, before the offset since the page before.
NextPage(space, offset, rows, step) ==
  LET found == Found(space)
      before == IF pages = NoPages THEN found ELSE pages.found
  IN [at |-> IF Len(rows) > PageSize THEN "more" ELSE "done", space |-> space,
      offset |-> offset + step,
      seen |-> (IF pages = NoPages THEN <<>> ELSE pages.seen)
                 \o SubSeq(rows, 1, Min({PageSize, Len(rows)})),
      found |-> found,
      kept |-> IF pages = NoPages THEN Range(found) ELSE pages.kept \cap Range(found),
      came |-> (pages # NoPages /\ pages.came) \/ ~ (UpTo(offset, found) \subseteq Range(before)),
      went |-> (pages # NoPages /\ pages.went) \/ ~ (UpTo(offset, before) \subseteq Range(found))]
\* Fault: the row peeked at is not read again.
PageSkips(space) ==
  LET offset == IF pages = NoPages THEN 0 ELSE pages.offset
  IN /\ pages = NoPages \/ (pages.at = "more" /\ pages.space = space)
     /\ pages' = NextPage(space, offset, PageOf(space, offset), PageSize + 1)
     /\ UNCHANGED <<threads, records, history, clock, writes, call, replies, cursor>>
\* A page, read with one row more to know whether to go on.
Page(space) ==
  LET offset == IF pages = NoPages THEN 0 ELSE pages.offset
  IN /\ pages = NoPages \/ (pages.at = "more" /\ pages.space = space)
     /\ pages' = NextPage(space, offset, PageOf(space, offset), PageSize)
     /\ UNCHANGED <<threads, records, history, clock, writes, call, replies, cursor>>
-----------------------------------------------------------------------------
(* append_messages() and stream_messages()                                  *)

Turns == Cardinality(Range(history))
\* A turn is appended in one transaction, as RunStore has it in detail.
Appends(size) ==
  /\ Turns < MaxTurns
  /\ history' = history \o [n \in 1 .. size |-> Turns + 1]
  /\ UNCHANGED <<threads, records, clock, writes, call, replies, pages, cursor>>

\* The cursor is opened on one snapshot.
Opens ==
  /\ cursor = NoCursor
  /\ cursor' = [at |-> "open", rows |-> history, seen |-> <<>>, before |-> Len(history)]
  /\ UNCHANGED <<threads, records, history, clock, writes, call, replies, pages>>
\* A partition of its rows is fetched and yielded.
Fetches ==
  /\ cursor.at = "open"
  /\ LET next == Min({Len(cursor.seen) + FetchSize, Len(cursor.rows)})
     IN cursor' = [cursor EXCEPT !.seen = SubSeq(cursor.rows, 1, next),
                     !.at = IF next = Len(cursor.seen) THEN "done" ELSE @]
  /\ UNCHANGED <<threads, records, history, clock, writes, call, replies, pages>>
\* The caller closes the generator early.
ClosesCursor == /\ cursor.at = "open" /\ cursor' = [cursor EXCEPT !.at = "closed"]
                /\ UNCHANGED <<threads, records, history, clock, writes, call, replies, pages>>

Tick == /\ clock < MaxClock /\ clock' = clock + 1
        /\ UNCHANGED <<threads, records, history, writes, call, replies, pages, cursor>>

Spaces == {name[1] : name \in Names}
Next ==
  \/ \E s \in Sessions :
       \/ \E key \in ThreadKeys \cup {NoKey} : Create(s, key)
       \/ Inserts(s) \/ Created(s)
       \/ \E name \in Names, expires \in {Never} \cup 1 .. MaxClock : Put(s, name, expires)
       \/ \E name \in Names : Delete(s, name)
       \/ \E cutoff \in {clock, MaxClock}, spaces \in {Spaces} \cup {{space} : space \in Spaces} :
            Sweep(s, cutoff, spaces)
       \/ Upserts(s) \/ Deletes(s) \/ Scans(s) \/ Sweeps(s) \/ Swept(s)
       \/ Commits(s) \/ Aborts(s)
  \/ \E space \in Spaces : Page(space)
  \/ \E size \in 1 .. 3 : Appends(size)
  \/ Opens \/ Fetches \/ ClosesCursor \/ Tick
Spec == Init /\ [][Next]_vars
-----------------------------------------------------------------------------
(* Properties.                                                              *)

\* Whoever creates a thread for an external key, at the same time or after a lost
\* reply, is given one and the same, and it is stored.
OneThreadPerKey ==
  /\ \A one, other \in DOMAIN threads :
       threads[one] = threads[other] /\ threads[one] # NoKey => one = other
  /\ \A reply, again \in replies :
       /\ reply[2] \in DOMAIN threads /\ threads[reply[2]] = reply[1]
       /\ reply[1] = again[1] /\ reply[1] # NoKey => reply = again

\* A sweep only takes records of its namespaces that are expired when it commits: one
\* renewed since the sweep began stays.
RenewedStays ==
  [][\A s \in Sessions, name \in Names :
       /\ records[name] # Absent /\ records'[name] = Absent
       /\ call[s].op = "sweep" /\ call'[s] = Idle
       => name[1] \in call[s].spaces /\ Expired(records[name], call[s].cutoff)]_vars

\* A reader sees the history as it was when it opened its cursor, in whole turns,
\* whatever is appended meanwhile.  And over the pages of a search, while records come,
\* go and expire between them, one that every page could have shown is left out only if
\* another has gone from before the place where a page begins, and one is shown twice
\* only if another has come in there.
ReadsHoldTogether ==
  /\ cursor.at = "done" =>
       /\ cursor.seen = SubSeq(history, 1, cursor.before)
       /\ \A n \in DOMAIN history : n > cursor.before => history[n] \notin Range(cursor.seen)
  /\ pages.at = "done" =>
       /\ ~ pages.went => pages.kept \subseteq Range(pages.seen)
       /\ ~ pages.came => IsInjective(pages.seen)
=============================================================================
