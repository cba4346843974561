---------------------------- MODULE RecordsProofs ----------------------------
(***************************************************************************)
(* Proofs about the memory store (module MemoryStore) and the feedback     *)
(* store (module FeedbackStore) for any sessions, callers, keys, records,  *)
(* submissions and bounds: what is stored stays consistent under every     *)
(* interleaving of their statements, and every lost call.                  *)
(***************************************************************************)
EXTENDS MemoryStore, FeedbackStore, SequenceTheorems, FiniteSetTheorems, TLAPS

-----------------------------------------------------------------------------
(* Threads and memory records: the unique index of the external keys and the row   *)
(* locks do what create_thread() and cleanup_expired() rely on.                    *)

\* A call in progress has a number of its own, and writes the thread of that number.
CallOK(s) ==
  /\ {"op", "at", "id", "wrote"} \subseteq DOMAIN call[s]
  /\ call[s].op \in {"create", "put", "delete", "sweep"}
  /\ call[s].id \in 1 .. writes /\ call[s].id \notin DOMAIN threads
  /\ \A row \in call[s].wrote : row[1] = "thread" => row = <<"thread", call[s].id>>

\* create_thread() has inserted its thread under a key no committed thread has, or has
\* found a committed one.
CreateOK(s) ==
  call[s].op = "create" =>
    /\ "key" \in DOMAIN call[s]
    /\ call[s].at \in {"insert", "select"}
    /\ call[s].at = "insert" => call[s].wrote = {}
    /\ call[s].at = "select" =>
         \/ call[s].wrote = {} /\ Named(call[s].key) # {}
         \/ /\ Named(call[s].key) = {}
            /\ <<"thread", call[s].id>> \in call[s].wrote
            /\ call[s].key # NoKey => <<"key", call[s].key>> \in call[s].wrote

\* cleanup_expired() has only locked records that are expired, and stay so.
SweepOK(s) ==
  call[s].op = "sweep" =>
    /\ {"todo", "cutoff", "spaces"} \subseteq DOMAIN call[s]
    /\ \A name \in call[s].todo : name \in Names /\ name[1] \in call[s].spaces
    /\ \A name \in Names : Row(name) \in call[s].wrote =>
         name[1] \in call[s].spaces /\ Expired(records[name], call[s].cutoff)

SessionInv(s) == call[s] = Idle \/ (CallOK(s) /\ CreateOK(s) /\ SweepOK(s))

\* No row or key is written by two transactions at a time, and no number is given twice.
Exclusive ==
  \A s, other \in Sessions :
    s # other /\ call[s] # Idle /\ call[other] # Idle =>
      call[s].id # call[other].id /\ call[s].wrote \cap call[other].wrote = {}

ThreadsOK ==
  /\ writes \in Nat /\ DOMAIN threads \subseteq 1 .. writes
  /\ \A one, other \in DOMAIN threads :
       threads[one] = threads[other] /\ threads[one] # NoKey => one = other
  /\ \A reply \in replies :
       /\ reply = <<reply[1], reply[2]>>
       /\ reply[2] \in DOMAIN threads /\ threads[reply[2]] = reply[1]

Inv == /\ call = [s \in Sessions |-> call[s]]
       /\ \A s \in Sessions : SessionInv(s)
       /\ Exclusive /\ ThreadsOK

LEMMA IdleIsNone == Idle.op = "none"
BY DEF Idle

\* What a step does not touch of another session's call stays true of it.
LEMMA OtherKeeps ==
  ASSUME NEW s \in Sessions, SessionInv(s), call'[s] = call[s], writes' \in Nat, writes \in Nat,
         writes' >= writes, threads' = threads, records' = records
  PROVE  SessionInv(s)'
BY DEF SessionInv, CallOK, CreateOK, SweepOK, Named, Expired

\* A session begins a call, or its call moves, and only what it has written of its own.
LEMMA SessionMoves ==
  ASSUME Inv, NEW s \in Sessions, NEW new, call' = [call EXCEPT ![s] = new],
         UNCHANGED <<threads, records, replies>>, writes' \in Nat, writes' >= writes,
         SessionInv(s)',
         new = Idle \/
           \A other \in Sessions \ {s} : call[other] # Idle =>
             new.id # call[other].id /\ new.wrote \cap call[other].wrote = {}
  PROVE  Inv'
<1>1. /\ call' = [t \in Sessions |-> call'[t]]
      /\ call'[s] = new /\ \A other \in Sessions \ {s} : call'[other] = call[other]
  BY DEF Inv
<1>2. \A other \in Sessions \ {s} : SessionInv(other)'
  BY <1>1, OtherKeeps DEF Inv, ThreadsOK
<1>3. Exclusive'
  BY <1>1 DEF Inv, Exclusive
<1>4. ThreadsOK'
  BY DEF Inv, ThreadsOK
<1>5. QED BY <1>1, <1>2, <1>3, <1>4 DEF Inv

LEMMA BeginKeeps ==
  ASSUME Inv, NEW s \in Sessions, NEW new, Begins(s, new),
         new.id = writes + 1, new.wrote = {}, new.op \in {"create", "put", "delete", "sweep"},
         {"op", "at", "id", "wrote"} \subseteq DOMAIN new,
         new.op = "create" => "key" \in DOMAIN new /\ new.at = "insert",
         new.op = "sweep" => {"todo", "cutoff", "spaces"} \subseteq DOMAIN new /\ new.todo = {}
  PROVE  Inv'
<1>1. /\ writes \in Nat /\ writes' = writes + 1 /\ writes' \in Nat /\ writes' >= writes
      /\ call' = [call EXCEPT ![s] = new]
      /\ call'[s] = new /\ UNCHANGED <<threads, records, replies>>
      /\ DOMAIN threads \subseteq 1 .. writes
  BY DEF Begins, Inv, ThreadsOK
<1>2. SessionInv(s)'
  BY <1>1 DEF SessionInv, CallOK, CreateOK, SweepOK
<1>3. \A other \in Sessions \ {s} : call[other] # Idle =>
        new.id # call[other].id /\ new.wrote \cap call[other].wrote = {}
  BY <1>1 DEF Inv, SessionInv, CallOK
<1>4. QED BY <1>1, <1>2, <1>3, SessionMoves

\* A step of a sweep changes neither what it looks for nor, but for its own, what is left.
SameTerms(s) == call'[s].spaces = call[s].spaces /\ call'[s].cutoff = call[s].cutoff
SameSweep(s) == SameTerms(s) /\ call'[s].todo = call[s].todo

\* What Goes() changes of a call in progress, and what it does not.
LEMMA GoneTo ==
  ASSUME Inv, NEW s \in Sessions, call[s] # Idle, NEW at, NEW wrote, Goes(s, at, wrote)
  PROVE  /\ call' = [call EXCEPT ![s] = call'[s]]
         /\ call'[s].op = call[s].op /\ call'[s].id = call[s].id
         /\ call[s].op = "create" => call'[s].key = call[s].key
         /\ call[s].op = "sweep" => SameSweep(s)
         /\ DOMAIN call'[s] = DOMAIN call[s] /\ call'[s].at = at /\ call'[s].wrote = wrote
         /\ UNCHANGED <<threads, records, replies, writes>> /\ writes \in Nat
<1>1. /\ call = [t \in Sessions |-> call[t]] /\ writes \in Nat
      /\ {"op", "at", "id", "wrote"} \subseteq DOMAIN call[s]
      /\ call[s].op = "create" => "key" \in DOMAIN call[s]
      /\ call[s].op = "sweep" => {"todo", "cutoff", "spaces"} \subseteq DOMAIN call[s]
  BY DEF Inv, ThreadsOK, SessionInv, CallOK, CreateOK, SweepOK
<1>2. call'[s] = [call[s] EXCEPT !.at = at, !.wrote = wrote]
  BY <1>1 DEF Goes
<1>3. call' = [call EXCEPT ![s] = call'[s]]
  BY <1>1 DEF Goes
<1>4. /\ call'[s].op = call[s].op /\ call'[s].id = call[s].id
      /\ call[s].op = "create" => call'[s].key = call[s].key
      /\ DOMAIN call'[s] = DOMAIN call[s] /\ call'[s].at = at /\ call'[s].wrote = wrote
  BY <1>1, <1>2
<1>5. call[s].op = "sweep" => SameSweep(s)
  BY <1>1, <1>2 DEF SameTerms, SameSweep
<1>6. QED BY <1>1, <1>3, <1>4, <1>5 DEF Goes

LEMMA InsertsKeeps == ASSUME Inv, NEW s \in Sessions, Inserts(s) PROVE Inv'
<1> DEFINE key == call[s].key
           wrote == IF Named(key) # {} THEN {}
                    ELSE {<<"thread", call[s].id>>}
                           \cup (IF key = NoKey THEN {} ELSE {<<"key", key>>})
<1>1. /\ call[s] # Idle /\ call[s].op = "create" /\ call[s].at = "insert"
      /\ Goes(s, "select", wrote) /\ (key # NoKey => ~ Locked(s, <<"key", key>>))
  BY IdleIsNone DEF Inserts, Running
<1>2. CallOK(s) /\ call[s].wrote = {}
  BY <1>1 DEF Inv, SessionInv, CreateOK
<1>3. /\ call' = [call EXCEPT ![s] = call'[s]] /\ DOMAIN call'[s] = DOMAIN call[s]
      /\ call'[s].op = "create" /\ call'[s].id = call[s].id /\ call'[s].key = key
      /\ call'[s].at = "select" /\ call'[s].wrote = wrote
      /\ UNCHANGED <<threads, records, replies, writes>> /\ writes \in Nat
  BY <1>1, GoneTo
<1>4. SessionInv(s)'
  <2>1. CallOK(s)'
    BY <1>2, <1>3 DEF CallOK
  <2>2. Named(key)' = Named(key)
    BY <1>3 DEF Named
  <2>3. "key" \in DOMAIN call[s]
    BY <1>1 DEF Inv, SessionInv, CreateOK
  <2>4. CreateOK(s)'
    BY <1>3, <2>2, <2>3 DEF CreateOK, Named
  <2>5. QED BY <1>3, <2>1, <2>4 DEF SessionInv, SweepOK
<1>5. ASSUME NEW other \in Sessions \ {s}, call[other] # Idle
      PROVE  call'[s].id # call[other].id /\ call'[s].wrote \cap call[other].wrote = {}
  <2>1. call[s].id # call[other].id
    BY <1>1, <1>5 DEF Inv, Exclusive
  <2>2. <<"thread", call[s].id>> \notin call[other].wrote
    BY <1>5, <2>1 DEF Inv, SessionInv, CallOK
  <2>3. key # NoKey => <<"key", key>> \notin call[other].wrote
    BY <1>1, <1>5 DEF Locked
  <2>4. QED BY <1>3, <2>1, <2>2, <2>3
<1>6. QED BY <1>3, <1>4, <1>5, SessionMoves

\* The commit of create_thread(): what its SELECT finds is the thread of its key.
LEMMA CreatedKeeps == ASSUME Inv, NEW s \in Sessions, Created(s) PROVE Inv'
<1> DEFINE key == call[s].key
           id == call[s].id
           mine == IF call[s].wrote = {} THEN {} ELSE {id}
           found == CHOOSE x \in mine \cup Named(key) : TRUE
<1>1. /\ call[s] # Idle /\ call[s].op = "create" /\ call[s].at = "select"
      /\ threads' = [x \in DOMAIN threads \cup mine |-> IF x \in mine THEN key ELSE threads[x]]
      /\ replies' \in {replies, replies \cup {<<key, found>>}}
      /\ call' = [call EXCEPT ![s] = Idle] /\ UNCHANGED <<records, writes>>
  BY IdleIsNone DEF Created, Running
<1>2. /\ call = [t \in Sessions |-> call[t]] /\ writes \in Nat
      /\ CallOK(s) /\ id \in 1 .. writes /\ id \notin DOMAIN threads
      /\ DOMAIN threads \subseteq 1 .. writes
  BY <1>1 DEF Inv, SessionInv, CallOK, ThreadsOK
<1>3. \/ call[s].wrote = {} /\ Named(key) # {}
      \/ /\ Named(key) = {} /\ call[s].wrote # {}
         /\ <<"thread", id>> \in call[s].wrote
         /\ key # NoKey => <<"key", key>> \in call[s].wrote
  BY <1>1 DEF Inv, SessionInv, CreateOK
<1>4. found \in mine \cup Named(key)
  <2>1. mine \cup Named(key) # {}
    BY <1>3
  <2>2. QED BY <2>1
<1>5. found \in DOMAIN threads' /\ threads'[found] = key
  BY <1>1, <1>2, <1>4 DEF Named
<1>6. /\ DOMAIN threads' = DOMAIN threads \cup mine
      /\ \A x \in DOMAIN threads : x \in DOMAIN threads' /\ threads'[x] = threads[x]
      /\ \A x \in mine : x = id /\ threads'[x] = key
  BY <1>1, <1>2
<1>7. ThreadsOK'
  <2>1. \A one, other \in DOMAIN threads' :
          threads'[one] = threads'[other] /\ threads'[one] # NoKey => one = other
    BY <1>3, <1>6 DEF Inv, ThreadsOK, Named
  <2>2. \A reply \in replies' :
          /\ reply = <<reply[1], reply[2]>>
          /\ reply[2] \in DOMAIN threads' /\ threads'[reply[2]] = reply[1]
    <3> HIDE DEF found
    <3>1. \A reply \in replies : /\ reply = <<reply[1], reply[2]>>
                                 /\ reply[2] \in DOMAIN threads /\ threads[reply[2]] = reply[1]
      BY DEF Inv, ThreadsOK
    <3>2. \A reply \in replies' : reply \in replies \/ reply = <<key, found>>
      BY <1>1
    <3>3. QED BY <1>5, <1>6, <3>1, <3>2
  <2>3. QED BY <1>1, <1>2, <1>6, <2>1, <2>2 DEF ThreadsOK
<1>8. call' = [t \in Sessions |-> call'[t]] /\ Exclusive'
  BY <1>1, <1>2 DEF Inv, Exclusive
<1>9. ASSUME NEW other \in Sessions PROVE SessionInv(other)'
  <2>1. CASE other = s \/ call[other] = Idle
    BY <1>1, <1>2, <2>1 DEF SessionInv
  <2>2. CASE other # s /\ call[other] # Idle
    <3>1. call'[other] = call[other] /\ SessionInv(other)
      BY <1>1, <1>2, <2>2 DEF Inv
    <3>2. call[other].id # id /\ call[s].wrote \cap call[other].wrote = {}
      BY <1>1, <2>2 DEF Inv, Exclusive
    <3>3. CallOK(other)'
      BY <1>1, <1>6, <2>2, <3>1, <3>2 DEF SessionInv, CallOK
    <3>4. CreateOK(other)'
      <4>1. CASE call[other].wrote = {} /\ Named(call[other].key) # {}
        BY <1>6, <2>2, <3>1, <4>1 DEF SessionInv, CreateOK, Named
      <4>2. CASE /\ call[other].op = "create" /\ Named(call[other].key) = {}
                 /\ call[other].key # NoKey => <<"key", call[other].key>> \in call[other].wrote
        <5>1. Named(call[other].key)' = {}
          BY <1>3, <1>6, <3>1, <3>2, <4>2 DEF Named
        <5>2. QED BY <2>2, <3>1, <4>2, <5>1 DEF SessionInv, CreateOK
      <4>3. QED BY <2>2, <3>1, <4>1, <4>2 DEF SessionInv, CreateOK
    <3>5. SweepOK(other)'
      BY <1>1, <2>2, <3>1 DEF SessionInv, SweepOK, Expired
    <3>6. QED BY <3>3, <3>4, <3>5 DEF SessionInv
  <2>3. QED BY <2>1, <2>2
<1>10. QED BY <1>7, <1>8, <1>9 DEF Inv

\* A statement that writes a record: its lock is free, and it is its only row.
LEMMA WritesRecord ==
  ASSUME Inv, NEW s \in Sessions, call[s] # Idle, call[s].op \in {"put", "delete"},
         NEW wrote, wrote = {} \/ (wrote = {Row(call[s].name)} /\ ~ Locked(s, Row(call[s].name))),
         Goes(s, "commit", wrote)
  PROVE  Inv'
<1>1. /\ call' = [call EXCEPT ![s] = call'[s]] /\ DOMAIN call'[s] = DOMAIN call[s]
      /\ call'[s].op = call[s].op /\ call'[s].id = call[s].id /\ call'[s].wrote = wrote
      /\ UNCHANGED <<threads, records, replies, writes>> /\ writes \in Nat
  BY GoneTo
<1>2. CallOK(s)
  BY DEF Inv, SessionInv
<1>3. SessionInv(s)'
  <2>1. CallOK(s)'
    BY <1>1, <1>2 DEF CallOK, Row
  <2>2. QED BY <1>1, <2>1 DEF SessionInv, CreateOK, SweepOK
<1>4. \A other \in Sessions \ {s} : call[other] # Idle =>
        call'[s].id # call[other].id /\ call'[s].wrote \cap call[other].wrote = {}
  BY <1>1 DEF Inv, Exclusive, Locked
<1>5. QED BY <1>1, <1>3, <1>4, SessionMoves

LEMMA ScansKeeps == ASSUME Inv, NEW s \in Sessions, Scans(s) PROVE Inv'
<1> DEFINE todo == {name \in Stored : /\ name[1] \in call[s].spaces
                                      /\ Expired(records[name], call[s].cutoff)}
<1>1. /\ call[s] # Idle /\ call[s].op = "sweep"
      /\ call' = [call EXCEPT ![s].at = "rows", ![s].todo = todo]
      /\ UNCHANGED <<threads, records, replies, writes>>
  BY IdleIsNone DEF Scans, Running
<1>2. call = [t \in Sessions |-> call[t]] /\ writes \in Nat /\ CallOK(s) /\ SweepOK(s)
  BY <1>1 DEF Inv, ThreadsOK, SessionInv
<1>3. call'[s] = [call[s] EXCEPT !.at = "rows", !.todo = todo]
  BY <1>1, <1>2
<1>4. call' = [call EXCEPT ![s] = call'[s]]
  BY <1>1, <1>2
<1> HIDE DEF todo
<1>5. /\ DOMAIN call'[s] = DOMAIN call[s] /\ call'[s].todo = todo
      /\ call'[s].op = "sweep" /\ call'[s].id = call[s].id /\ call'[s].wrote = call[s].wrote
      /\ SameTerms(s)
  BY <1>1, <1>2, <1>3 DEF CallOK, SweepOK, SameTerms
<1>6. \A name \in todo : name \in Names /\ name[1] \in call[s].spaces
  BY DEF Stored, todo
<1>7. SessionInv(s)'
  BY <1>1, <1>2, <1>5, <1>6 DEF SessionInv, CallOK, CreateOK, SweepOK, Expired, SameTerms
<1>8. \A other \in Sessions \ {s} : call[other] # Idle =>
        call'[s].id # call[other].id /\ call'[s].wrote \cap call[other].wrote = {}
  BY <1>1, <1>5 DEF Inv, Exclusive
<1>9. UNCHANGED <<threads, records, replies>> /\ writes' \in Nat /\ writes' >= writes
  BY <1>1, <1>2
<1>10. QED BY <1>4, <1>7, <1>8, <1>9, SessionMoves

\* A row locked by a sweep is judged as it is then.
LEMMA SweepsKeeps == ASSUME Inv, NEW s \in Sessions, Sweeps(s) PROVE Inv'
<1>1. PICK name \in call[s].todo :
        /\ ~ Locked(s, Row(name))
        /\ call' = [call EXCEPT ![s].todo = @ \ {name},
                      ![s].wrote = IF Expired(records[name], call[s].cutoff)
                                   THEN @ \cup {Row(name)} ELSE @]
        /\ UNCHANGED <<threads, records, replies, writes>>
  BY DEF Sweeps
<1> DEFINE wrote == IF Expired(records[name], call[s].cutoff)
                    THEN call[s].wrote \cup {Row(name)} ELSE call[s].wrote
<1>2. call[s] # Idle /\ call[s].op = "sweep"
  BY IdleIsNone DEF Sweeps, Running
<1>3. call = [t \in Sessions |-> call[t]] /\ writes \in Nat /\ CallOK(s) /\ SweepOK(s)
  BY <1>2 DEF Inv, ThreadsOK, SessionInv
<1>4. call'[s] = [call[s] EXCEPT !.todo = call[s].todo \ {name}, !.wrote = wrote]
  BY <1>1, <1>3
<1>5. call' = [call EXCEPT ![s] = call'[s]]
  BY <1>1, <1>3
<1>6. /\ DOMAIN call'[s] = DOMAIN call[s]
      /\ call'[s].todo = call[s].todo \ {name} /\ call'[s].wrote = wrote
      /\ call'[s].op = "sweep" /\ call'[s].id = call[s].id /\ SameTerms(s)
  BY <1>2, <1>3, <1>4 DEF CallOK, SweepOK, SameTerms
<1>7. name \in Names /\ name[1] \in call[s].spaces
  BY <1>2, <1>3 DEF SweepOK
<1>8. SweepOK(s)'
  <2>1. \A one \in wrote : one \in call[s].wrote \/ one = Row(name)
    OBVIOUS
  <2>2. \A one \in Names : Row(one) = Row(name) => one = name
    BY <1>7 DEF Row
  <2>3. QED BY <1>1, <1>2, <1>3, <1>6, <1>7, <2>1, <2>2, SMTT(30) DEF SweepOK, Expired, SameTerms
<1>9. CallOK(s)'
  BY <1>1, <1>3, <1>6 DEF CallOK, Row
<1>10. SessionInv(s)'
  BY <1>2, <1>6, <1>8, <1>9 DEF SessionInv, CreateOK
<1>11. \A other \in Sessions \ {s} : call[other] # Idle =>
         call'[s].id # call[other].id /\ call'[s].wrote \cap call[other].wrote = {}
  BY <1>1, <1>2, <1>6 DEF Inv, Exclusive, Locked
<1>12. UNCHANGED <<threads, records, replies>> /\ writes' \in Nat /\ writes' >= writes
  BY <1>1, <1>3
<1>13. QED BY <1>5, <1>10, <1>11, <1>12, SessionMoves

LEMMA SweptKeeps == ASSUME Inv, NEW s \in Sessions, Swept(s) PROVE Inv'
<1>1. call[s] # Idle /\ call[s].op = "sweep" /\ Goes(s, "commit", call[s].wrote)
  BY IdleIsNone DEF Swept, Running
<1>2. /\ call' = [call EXCEPT ![s] = call'[s]] /\ DOMAIN call'[s] = DOMAIN call[s]
      /\ call'[s].op = "sweep" /\ call'[s].id = call[s].id /\ SameSweep(s)
      /\ call'[s].wrote = call[s].wrote
      /\ UNCHANGED <<threads, records, replies, writes>> /\ writes \in Nat
  BY <1>1, GoneTo
<1>3. SessionInv(s)'
  <2>1. CallOK(s) /\ SweepOK(s)
    BY <1>1 DEF Inv, SessionInv
  <2>2. CallOK(s)' /\ CreateOK(s)'
    BY <1>2, <2>1 DEF CallOK, CreateOK
  <2>3. SweepOK(s)'
    BY <1>1, <1>2, <2>1 DEF SweepOK, Expired, SameTerms, SameSweep
  <2>4. QED BY <2>2, <2>3 DEF SessionInv
<1>4. \A other \in Sessions \ {s} : call[other] # Idle =>
        call'[s].id # call[other].id /\ call'[s].wrote \cap call[other].wrote = {}
  BY <1>1, <1>2 DEF Inv, Exclusive
<1>5. QED BY <1>2, <1>3, <1>4, SessionMoves

\* A record changes under its lock only, so what another's sweep has judged stays so.
LEMMA CommitsKeeps == ASSUME Inv, NEW s \in Sessions, Commits(s) PROVE Inv'
<1>1. /\ call[s] # Idle /\ call' = [call EXCEPT ![s] = Idle]
      /\ \A name \in Names : Row(name) \notin call[s].wrote => records'[name] = records[name]
      /\ UNCHANGED <<threads, writes, replies>>
  BY DEF Commits
<1>2. call = [t \in Sessions |-> call[t]]
  BY DEF Inv
<1>3. ASSUME NEW other \in Sessions PROVE SessionInv(other)'
  <2>1. CASE other = s \/ call[other] = Idle
    BY <1>1, <1>2, <2>1 DEF SessionInv
  <2>2. CASE other # s /\ call[other] # Idle
    <3>1. /\ call'[other] = call[other] /\ SessionInv(other)
          /\ call[s].wrote \cap call[other].wrote = {}
      BY <1>1, <1>2, <2>2 DEF Inv, Exclusive
    <3>2. SweepOK(other)'
      BY <1>1, <2>2, <3>1 DEF SessionInv, SweepOK, Expired
    <3>3. CallOK(other)' /\ CreateOK(other)'
      BY <1>1, <2>2, <3>1 DEF SessionInv, CallOK, CreateOK, Named
    <3>4. QED BY <3>2, <3>3 DEF SessionInv
  <2>3. QED BY <2>1, <2>2
<1>4. call' = [t \in Sessions |-> call'[t]] /\ Exclusive' /\ ThreadsOK'
  BY <1>1, <1>2 DEF Inv, Exclusive, ThreadsOK
<1>5. QED BY <1>3, <1>4 DEF Inv

LEMMA AbortsKeeps == ASSUME Inv, NEW s \in Sessions, Aborts(s) PROVE Inv'
<1>1. /\ call' = [call EXCEPT ![s] = Idle] /\ UNCHANGED <<threads, records, replies, writes>>
      /\ writes' \in Nat /\ writes' >= writes /\ call'[s] = Idle
  BY DEF Aborts, Inv, ThreadsOK
<1>2. SessionInv(s)'
  BY <1>1 DEF SessionInv
<1>3. QED BY <1>1, <1>2, SessionMoves

LEMMA AsideKeeps ==
  ASSUME Inv, UNCHANGED <<threads, records, writes, call, replies>>
  PROVE  Inv'
<1>1. \A s \in Sessions : SessionInv(s)'
  BY OtherKeeps DEF Inv, ThreadsOK
<1>2. QED BY <1>1 DEF Inv, Exclusive, ThreadsOK

LEMMA StepKeeps == ASSUME Inv, [Next]_vars PROVE Inv'
<1>1. CASE UNCHANGED vars
  BY <1>1, AsideKeeps DEF vars
<1>2. CASE (\E space \in Spaces : Page(space)) \/ (\E size \in 1 .. 3 : Appends(size))
           \/ Opens \/ Fetches \/ ClosesCursor \/ Tick
  BY <1>2, AsideKeeps DEF Page, Appends, Opens, Fetches, ClosesCursor, Tick
<1>3. ASSUME NEW s \in Sessions, NEW key, Create(s, key) PROVE Inv'
  BY <1>3, BeginKeeps DEF Create
<1>4. ASSUME NEW s \in Sessions, NEW name, NEW expires, Put(s, name, expires) PROVE Inv'
  BY <1>4, BeginKeeps DEF Put
<1>5. ASSUME NEW s \in Sessions, NEW name, Delete(s, name) PROVE Inv'
  BY <1>5, BeginKeeps DEF Delete
<1>6. ASSUME NEW s \in Sessions, NEW cutoff, NEW spaces, Sweep(s, cutoff, spaces) PROVE Inv'
  BY <1>6, BeginKeeps DEF Sweep
<1>7. ASSUME NEW s \in Sessions, Upserts(s) \/ Deletes(s) PROVE Inv'
  BY <1>7, IdleIsNone, WritesRecord DEF Upserts, Deletes, Running
<1>8. ASSUME NEW s \in Sessions,
             \/ Inserts(s) \/ Created(s) \/ Scans(s) \/ Sweeps(s) \/ Swept(s)
             \/ Commits(s) \/ Aborts(s)
      PROVE  Inv'
  BY <1>8, InsertsKeeps, CreatedKeeps, ScansKeeps, SweepsKeeps, SweptKeeps, CommitsKeeps,
     AbortsKeeps
<1>9. QED BY <1>1, <1>2, <1>3, <1>4, <1>5, <1>6, <1>7, <1>8 DEF Next

LEMMA Starts == Init => Inv
BY DEF Init, Inv, SessionInv, Exclusive, ThreadsOK

\* However many callers create a thread for one external key, at the same time, after a
\* lost transaction or a lost reply, one thread is stored and every answer names it.
THEOREM ThreadsAreUnique == Spec => []OneThreadPerKey
<1>1. Inv /\ [Next]_vars => Inv'
  BY StepKeeps
<1>2. Inv => OneThreadPerKey
  BY DEF Inv, ThreadsOK, OneThreadPerKey
<1>3. QED BY <1>1, <1>2, Starts, PTL DEF Spec

\* What a committing sweep removes is expired at that moment and of its namespaces.
LEMMA SweptIsExpired ==
  ASSUME Inv, Next, NEW s \in Sessions, NEW name \in Names, records[name] # Absent,
         records'[name] = Absent, call[s].op = "sweep", call'[s] = Idle
  PROVE  name[1] \in call[s].spaces /\ Expired(records[name], call[s].cutoff)
<1>1. PICK other \in Sessions : Commits(other)
  BY DEF Next, Begins, Goes, Create, Inserts, Created, Put, Delete, Sweep, Upserts, Deletes,
         Scans, Sweeps, Swept, Aborts, Page, Appends, Opens, Fetches, ClosesCursor, Tick
<1>2. call[s] # Idle /\ call = [t \in Sessions |-> call[t]]
  BY IdleIsNone DEF Inv
<1>3. other = s
  BY <1>1, <1>2 DEF Commits
<1>4. Row(name) \in call[s].wrote
  BY <1>1, <1>3 DEF Commits
<1>5. QED BY <1>2, <1>4 DEF Inv, SessionInv, SweepOK

\* A sweep never removes a record that has been renewed since the sweep began, or one of
\* a namespace it was not asked for, whatever writes of others it interleaves with.
THEOREM SweepsSpareTheRenewed == Spec => RenewedStays
<1>1. Inv /\ [Next]_vars => Inv'
  BY StepKeeps
<1>2. ASSUME Inv, [Next]_vars
      PROVE  [\A s \in Sessions, name \in Names :
                /\ records[name] # Absent /\ records'[name] = Absent
                /\ call[s].op = "sweep" /\ call'[s] = Idle
                => name[1] \in call[s].spaces /\ Expired(records[name], call[s].cutoff)]_vars
  BY <1>2, SweptIsExpired
<1>3. QED BY <1>1, <1>2, Starts, PTL DEF Spec, RenewedStays
-----------------------------------------------------------------------------
(* Readers: a history by a cursor, and a search by pages.                          *)

\* The history is made of whole turns, numbered as they come.
HistoryOK == /\ history \in Seq(Nat)
             /\ Turns \in Nat /\ Range(history) = 1 .. Turns

\* A cursor's rows are the history up to where it was opened, which no turn straddles,
\* and what it has yielded is their beginning.
CursorOK ==
  cursor = NoCursor \/
    /\ {"at", "rows", "seen", "before"} = DOMAIN cursor
    /\ cursor.before \in 0 .. Len(history)
    /\ cursor.rows = SubSeq(history, 1, cursor.before)
    /\ \A n \in DOMAIN history : n > cursor.before => history[n] \notin Range(cursor.rows)
    /\ \E count \in 0 .. cursor.before :
         /\ cursor.seen = SubSeq(cursor.rows, 1, count)
         /\ cursor.at = "done" => count = cursor.before

\* Records in the order of their keys.
Ordered(s) == /\ s \in Seq(Names)
              /\ \A m, n \in 1 .. Len(s) : m < n => s[m][2] < s[n][2]

\* What every page could see and none has shown is still to come, behind the offset.
NoneSkipped ==
  \A name \in pages.kept \ Range(pages.seen) :
    /\ pages.at = "more"
    /\ \E n \in 1 .. Len(pages.found) : n > pages.offset /\ pages.found[n] = name
\* From the offset on there is nothing in front of what was shown.
NoneAgain ==
  /\ IsInjective(pages.seen)
  /\ \A name \in Range(pages.seen), n \in 1 .. Len(pages.found) :
       n >= pages.offset => pages.found[n][2] >= name[2]
PagesOK ==
  pages = NoPages \/
    /\ pages.at \in {"more", "done"} /\ pages.offset \in Nat \ {0}
    /\ Ordered(pages.found) /\ pages.seen \in Seq(Names)
    /\ pages.went \/ NoneSkipped
    /\ pages.came \/ NoneAgain

\* Finitely many records are stored, and finitely many rows are being written.
Finite == /\ IsFiniteSet(Stored)
          /\ \A s \in Sessions : call[s] # Idle => IsFiniteSet(call[s].wrote)

ReadInv == HistoryOK /\ CursorOK /\ PagesOK /\ Finite

LEMMA MinOfTwo ==
  ASSUME NEW a \in Int, NEW b \in Int PROVE Min({a, b}) = IF a <= b THEN a ELSE b
<1>1. \E x \in {a, b} : \A y \in {a, b} : x <= y
  OBVIOUS
<1>2. Min({a, b}) \in {a, b} /\ \A y \in {a, b} : Min({a, b}) <= y
  BY <1>1 DEF Min
<1>3. QED BY <1>2

\* In a finite set of records with different keys there is one of each rank.
LEMMA Ranks ==
  ASSUME NEW S, IsFiniteSet(S), \A x \in S : x[2] \in Nat,
         \A x, y \in S : x[2] = y[2] => x = y,
         NEW n \in 1 .. Cardinality(S)
  PROVE  \E x \in S : Cardinality({y \in S : y[2] <= x[2]}) = n
<1> DEFINE below(x) == {y \in S : y[2] <= x[2]}
           rank == [x \in S |-> Cardinality(below(x))]
<1>1. Cardinality(S) \in Nat
  BY FS_CardinalityType
<1>2. ASSUME NEW x \in S
      PROVE  IsFiniteSet(below(x)) /\ Cardinality(below(x)) \in 1 .. Cardinality(S)
  <2>1. IsFiniteSet(below(x)) /\ Cardinality(below(x)) <= Cardinality(S)
    BY FS_Subset
  <2>2. x \in below(x) /\ Cardinality(below(x)) \in Nat
    BY <2>1, FS_CardinalityType
  <2>3. Cardinality(below(x)) # 0
    BY <2>1, <2>2, FS_EmptySet
  <2>4. QED BY <1>1, <2>1, <2>2, <2>3
<1>3. ASSUME NEW x \in S, NEW y \in S, x[2] < y[2]
      PROVE  Cardinality(below(x)) # Cardinality(below(y))
  <2>1. below(x) \in SUBSET below(y)
    BY <1>3
  <2>2. y \in below(y) /\ y \notin below(x)
    BY <1>3
  <2>3. QED BY <1>2, <2>1, <2>2, FS_Subset
<1>4. \A x, y \in S : Cardinality(below(x)) = Cardinality(below(y)) => x = y
  <2>1. \A x, y \in S : x[2] < y[2] \/ y[2] < x[2] \/ x[2] = y[2]
    OBVIOUS
  <2>2. QED BY <1>3, <2>1
<1> HIDE DEF below
<1>5. rank \in Injection(S, 1 .. Cardinality(S))
  BY <1>2, <1>4 DEF Injection, IsInjective
<1>6. IsFiniteSet(1 .. Cardinality(S)) /\ Cardinality(1 .. Cardinality(S)) = Cardinality(S)
  BY <1>1, FS_Interval
<1>7. rank \in Surjection(S, 1 .. Cardinality(S))
  BY <1>5, <1>6, FS_Injection
<1>8. PICK x \in S : rank[x] = n
  BY <1>7 DEF Surjection
<1>9. QED BY <1>8 DEF below

LEMMA FoundIsOrdered ==
  ASSUME Finite, NEW space PROVE Ordered(Found(space))
<1> DEFINE shown == {name \in Stored : name[1] = space /\ Live(records[name], clock)}
           upto(name) == {one \in shown : one[2] <= name[2]}
           nth(n) == CHOOSE name \in shown : Cardinality(upto(name)) = n
<1>1. IsFiniteSet(shown) /\ Cardinality(shown) \in Nat
  BY FS_Subset, FS_CardinalityType DEF Finite
<1>2. Found(space) = [n \in 1 .. Cardinality(shown) |-> nth(n)]
  BY DEF Found
<1>3. /\ \A name \in shown : name \in Names /\ name[2] \in Nat
      /\ \A name, other \in shown : name[2] = other[2] => name = other
  BY NamesAssumption DEF Stored
<1> HIDE DEF shown
<1>4. ASSUME NEW n \in 1 .. Cardinality(shown)
      PROVE  nth(n) \in shown /\ Cardinality(upto(nth(n))) = n
  <2>1. \E name \in shown : Cardinality(upto(name)) = n
    BY <1>1, <1>3, Ranks
  <2>2. QED BY <2>1
<1>5. ASSUME NEW x \in shown, NEW y \in shown, x[2] <= y[2]
      PROVE  Cardinality(upto(x)) <= Cardinality(upto(y)) /\ Cardinality(upto(x)) \in Nat
  <2>1. upto(x) \in SUBSET upto(y)
    BY <1>3, <1>5
  <2>2. IsFiniteSet(upto(y))
    BY <1>1, FS_Subset
  <2>3. QED BY <2>1, <2>2, FS_Subset, FS_CardinalityType
<1> HIDE DEF nth, upto
<1>6. ASSUME NEW m \in 1 .. Cardinality(shown), NEW n \in 1 .. Cardinality(shown), m < n
      PROVE  nth(m)[2] < nth(n)[2]
  <2>1. ~ (nth(n)[2] <= nth(m)[2])
    <3>1. m \in Nat /\ n \in Nat
      BY <1>1
    <3>2. QED BY <1>4, <1>5, <1>6, <3>1
  <2>2. nth(m)[2] \in Nat /\ nth(n)[2] \in Nat
    BY <1>3, <1>4
  <2>3. QED BY <2>1, <2>2
<1>7. \A n \in 1 .. Cardinality(shown) : nth(n) \in Names
  BY <1>3, <1>4
<1>8. Found(space) \in [1 .. Cardinality(shown) -> Names]
  BY <1>2, <1>7
<1>9. Found(space) \in Seq(Names) /\ Len(Found(space)) = Cardinality(shown)
  BY <1>1, <1>8
<1>10. \A n \in 1 .. Cardinality(shown) : Found(space)[n] = nth(n)
  BY <1>2
<1>11. QED BY <1>6, <1>9, <1>10 DEF Ordered

\* An order gives one name one place.
LEMMA OnePlace ==
  ASSUME NEW s, Ordered(s)
  PROVE  /\ Len(s) \in Nat /\ DOMAIN s = 1 .. Len(s)
         /\ \A n \in 1 .. Len(s) : s[n] \in Names /\ s[n][2] \in Nat
         /\ \A m, n \in 1 .. Len(s) : s[m] = s[n] => m = n
         /\ \A m, n \in 1 .. Len(s) : m <= n => s[m][2] <= s[n][2]
<1>1. s \in Seq(Names) /\ Len(s) \in Nat /\ DOMAIN s = 1 .. Len(s)
  BY LenProperties DEF Ordered
<1>2. \A n \in 1 .. Len(s) : s[n] \in Names /\ s[n][2] \in Nat
  BY <1>1, ElementOfSeq, NamesAssumption
<1>3. ASSUME NEW m \in 1 .. Len(s), NEW n \in 1 .. Len(s)
      PROVE  (s[m] = s[n] => m = n) /\ (m <= n => s[m][2] <= s[n][2])
  <2>1. m < n \/ n < m \/ m = n
    BY <1>1
  <2>2. m < n => s[m][2] < s[n][2]
    BY DEF Ordered
  <2>3. n < m => s[n][2] < s[m][2]
    BY DEF Ordered
  <2>4. QED BY <1>1, <1>2, <2>1, <2>2, <2>3
<1>4. QED BY <1>1, <1>2, <1>3

\* The first so many records of one order take at least as many places in another.
Within(s, a, t, b) == \A n \in 1 .. a : \E m \in 1 .. Len(t) : m <= b /\ t[m] = s[n]

LEMMA Places ==
  ASSUME NEW s, NEW t, Ordered(s), Ordered(t), NEW a \in 0 .. Len(s), NEW b \in Nat,
         Within(s, a, t, b)
  PROVE  a <= b
<1> DEFINE f == [n \in 1 .. a |-> CHOOSE m \in 1 .. Len(t) : m <= b /\ t[m] = s[n]]
<1>1. Len(s) \in Nat /\ a \in Nat /\ Len(t) \in Nat
  BY OnePlace
<1>2. \A n \in 1 .. a : f[n] \in 1 .. Len(t) /\ f[n] <= b /\ t[f[n]] = s[n]
  BY DEF Within
<1>3. DOMAIN f = 1 .. a
  OBVIOUS
<1>4. SUFFICES ASSUME b < a PROVE FALSE
  BY <1>1
<1> HIDE DEF f
<1>5. f \in [1 .. a -> 1 .. b]
  <2>1. \A n \in 1 .. a : f[n] \in 1 .. b
    BY <1>1, <1>2
  <2>2. f = [n \in 1 .. a |-> f[n]]
    BY DEF f
  <2>3. QED BY <2>1, <2>2
<1>6. /\ IsFiniteSet(1 .. a) /\ Cardinality(1 .. a) = a
      /\ IsFiniteSet(1 .. b) /\ Cardinality(1 .. b) = b
  <2>1. \A n \in Nat : IsFiniteSet(1 .. n) /\ Cardinality(1 .. n) = n
    <3>1. \A n \in Nat : Cardinality(1 .. n) = (IF 1 > n THEN 0 ELSE n - 1 + 1)
                         /\ IsFiniteSet(1 .. n)
      BY FS_Interval
    <3>2. QED BY <3>1
  <2>2. QED BY <1>1, <2>1
<1>7. \E x, y \in 1 .. a : x # y /\ f[x] = f[y]
  <2>1. Cardinality(1 .. b) < Cardinality(1 .. a)
    BY <1>4, <1>6
  <2>2. QED BY <1>5, <1>6, <2>1, FS_PigeonHole
<1> PICK x \in 1 .. a, y \in 1 .. a : x # y /\ f[x] = f[y]
  BY <1>7
<1>8. s[x] = s[y] /\ x \in 1 .. Len(s) /\ y \in 1 .. Len(s) /\ x # y
  BY <1>1, <1>2
<1>9. QED BY <1>8, OnePlace

\* What stands before an offset, when as much as the offset does.
LEMMA UpToIs ==
  ASSUME NEW s, Ordered(s), NEW offset \in Nat, NEW n \in 1 .. Len(s), n <= offset
  PROVE  s[n] \in UpTo(offset, s)
<1>1. Len(s) \in Nat
  BY OnePlace
<1>2. n \in 1 .. Min({offset, Len(s)})
  BY <1>1, MinOfTwo
<1>3. QED BY <1>2 DEF UpTo

\* If nothing before the offset has gone, nothing behind it has moved to its front.
LEMMA Ahead ==
  ASSUME NEW before, NEW now, Ordered(before), Ordered(now), NEW offset \in Nat,
         UpTo(offset, before) \subseteq Range(now),
         NEW p \in 1 .. Len(before), p > offset, NEW q \in 1 .. Len(now), now[q] = before[p]
  PROVE  q > offset
<1>1. /\ Len(before) \in Nat /\ Len(now) \in Nat /\ DOMAIN now = 1 .. Len(now)
      /\ offset \in 0 .. Len(before) /\ q - 1 \in Nat
  BY OnePlace
<1>2. ASSUME NEW n \in 1 .. offset
      PROVE  \E m \in 1 .. Len(now) : m <= q - 1 /\ now[m] = before[n]
  <2>1. n \in 1 .. Len(before) /\ n <= offset /\ n < p
    BY <1>1
  <2>2. PICK m \in 1 .. Len(now) : now[m] = before[n]
    BY <1>1, <2>1, UpToIs DEF Range
  <2>3. before[n][2] < before[p][2] /\ before[n][2] \in Nat /\ before[p][2] \in Nat
    BY <2>1, OnePlace DEF Ordered
  <2>4. q <= m => now[q][2] <= now[m][2]
    BY OnePlace
  <2>5. m < q
    BY <1>1, <2>2, <2>3, <2>4
  <2>6. QED BY <1>1, <2>2, <2>5
<1>3. offset <= q - 1
  <2>1. Within(before, offset, now, q - 1)
    BY <1>2 DEF Within
  <2>2. QED BY <1>1, <2>1, Places
<1>4. QED BY <1>1, <1>3

\* If nothing has come before the offset, what was behind a record stays behind it.
LEMMA Behind ==
  ASSUME NEW before, NEW now, Ordered(before), Ordered(now), NEW offset \in Nat \ {0},
         UpTo(offset, now) \subseteq Range(before), NEW key \in Nat,
         \A p \in 1 .. Len(before) : p >= offset => before[p][2] >= key,
         NEW q \in 1 .. Len(now), q >= offset
  PROVE  now[q][2] >= key
<1>1. /\ Len(before) \in Nat /\ Len(now) \in Nat /\ DOMAIN before = 1 .. Len(before)
      /\ offset \in 0 .. Len(now) /\ offset - 1 \in Nat /\ now[q][2] \in Nat
  BY OnePlace
<1>2. SUFFICES ASSUME now[q][2] < key PROVE FALSE
  BY <1>1
<1>3. ASSUME NEW n \in 1 .. offset
      PROVE  \E m \in 1 .. Len(before) : m <= offset - 1 /\ before[m] = now[n]
  <2>1. n \in 1 .. Len(now) /\ n <= offset /\ n <= q
    BY <1>1
  <2>2. PICK m \in 1 .. Len(before) : before[m] = now[n]
    BY <1>1, <2>1, UpToIs DEF Range
  <2>3. now[n][2] <= now[q][2] /\ now[n][2] \in Nat
    BY <2>1, OnePlace
  <2>4. before[m][2] < key
    BY <1>1, <1>2, <2>2, <2>3
  <2>5. ~ (m >= offset)
    BY <1>1, <2>2, <2>3, <2>4
  <2>6. QED BY <1>1, <2>2, <2>5
<1>4. offset <= offset - 1
  <2>1. Within(now, offset, before, offset - 1)
    BY <1>3 DEF Within
  <2>2. QED BY <1>1, <2>1, Places
<1>5. QED BY <1>1, <1>4

\* The rows of a page, and those of them that are shown.
PageShows(got, shown, found, offset, size) ==
  /\ got \in Seq(Names) /\ shown \in Seq(Names) /\ Len(shown) <= size
  /\ \A n \in 1 .. Len(shown) :
       offset + n \in 1 .. Len(found) /\ shown[n] = found[offset + n]
  /\ \A p \in 1 .. Len(found) :
       /\ p > offset /\ p <= offset + size => \E n \in 1 .. Len(shown) : shown[n] = found[p]
       /\ p > offset + size => Len(got) > size

LEMMA PageRows ==
  ASSUME NEW found, Ordered(found), NEW offset \in Nat, NEW size \in Nat \ {0}
  PROVE  LET got == SubSeq(found, offset + 1, Min({offset + size + 1, Len(found)}))
         IN PageShows(got, SubSeq(got, 1, Min({size, Len(got)})), found, offset, size)
<1> DEFINE upto == Min({offset + size + 1, Len(found)})
           got == SubSeq(found, offset + 1, upto)
           count == Min({size, Len(got)})
           shown == SubSeq(got, 1, count)
<1>1. Len(found) \in Nat /\ \A n \in 1 .. Len(found) : found[n] \in Names
  BY OnePlace
<1>2. upto = IF offset + size + 1 <= Len(found) THEN offset + size + 1 ELSE Len(found)
  BY <1>1, MinOfTwo
<1>3. upto \in 0 .. Len(found)
  BY <1>1, <1>2
<1>4. /\ got \in Seq(Names)
      /\ Len(got) = IF offset + 1 <= upto THEN upto - offset ELSE 0
      /\ \A n \in 1 .. Len(got) : got[n] = found[offset + n] /\ offset + n \in 1 .. Len(found)
  <2>1. \A n \in offset + 1 .. upto : found[n] \in Names
    BY <1>1, <1>3
  <2>2. /\ got \in Seq(Names)
        /\ Len(got) = IF offset + 1 <= upto THEN upto - (offset + 1) + 1 ELSE 0
        /\ \A n \in 1 .. upto - (offset + 1) + 1 : got[n] = found[offset + 1 + n - 1]
    <3> HIDE DEF upto
    <3>1. offset + 1 \in Int /\ upto \in Int
      BY <1>3
    <3>2. QED BY <2>1, <3>1, SubSeqProperties
  <2> HIDE DEF upto, got
  <2>3. ASSUME NEW n \in 1 .. Len(got)
        PROVE  got[n] = found[offset + n] /\ offset + n \in 1 .. Len(found)
    <3>1. n \in 1 .. upto - (offset + 1) + 1 /\ offset + 1 + n - 1 = offset + n
      BY <1>1, <1>3, <2>2
    <3>2. QED BY <1>1, <1>3, <2>2, <3>1
  <2>4. QED BY <1>1, <1>3, <2>2, <2>3
<1> HIDE DEF upto, got
<1>5. Len(got) \in Nat
  BY <1>4, LenProperties
<1>6. count = IF size <= Len(got) THEN size ELSE Len(got)
  BY <1>5, MinOfTwo
<1> HIDE DEF count
<1>7. /\ shown \in Seq(Names) /\ Len(shown) = count
      /\ \A n \in 1 .. count : shown[n] = got[n]
  <2>1. \A n \in 1 .. count : got[n] \in Names
    BY <1>4, <1>5, <1>6, ElementOfSeq
  <2>2. /\ shown \in Seq(Names)
        /\ Len(shown) = IF 1 <= count THEN count - 1 + 1 ELSE 0
        /\ \A n \in 1 .. count - 1 + 1 : shown[n] = got[1 + n - 1]
    BY <1>5, <1>6, <2>1, SubSeqProperties
  <2>3. QED BY <1>5, <1>6, <2>2
<1> HIDE DEF shown
<1>8. /\ Len(shown) <= size
      /\ \A n \in 1 .. Len(shown) : offset + n \in 1 .. Len(found) /\ shown[n] = found[offset + n]
  BY <1>4, <1>5, <1>6, <1>7
<1>9. ASSUME NEW p \in 1 .. Len(found), p > offset, p <= offset + size
      PROVE  \E n \in 1 .. Len(shown) : shown[n] = found[p]
  <2>1. p - offset \in 1 .. Len(got) /\ p - offset \in 1 .. count
    BY <1>1, <1>2, <1>4, <1>5, <1>6, <1>9
  <2>2. offset + (p - offset) = p
    BY <1>9, <1>1
  <2>3. QED BY <1>4, <1>7, <2>1, <2>2
<1>10. ASSUME NEW p \in 1 .. Len(found), p > offset + size PROVE Len(got) > size
  BY <1>1, <1>2, <1>4, <1>10
<1>11. PageShows(got, shown, found, offset, size)
  BY <1>4, <1>7, <1>8, <1>9, <1>10 DEF PageShows
<1>12. QED BY <1>11 DEF shown, count, got, upto

\* What a page leaves: the pages before it are nothing, or more was to come.
LEMMA PageKeeps ==
  ASSUME ReadInv, NEW space, Page(space) PROVE ReadInv'
<1> DEFINE offset == IF pages = NoPages THEN 0 ELSE pages.offset
           found == Found(space)
           before == IF pages = NoPages THEN found ELSE pages.found
           got == SubSeq(found, offset + 1, Min({offset + PageSize + 1, Len(found)}))
           seen == IF pages = NoPages THEN <<>> ELSE pages.seen
           shown == SubSeq(got, 1, Min({PageSize, Len(got)}))
<1>1. /\ pages = NoPages \/ (pages # NoPages /\ pages.at = "more")
      /\ pages' = NextPage(space, offset, got, PageSize)
      /\ UNCHANGED <<threads, records, history, clock, writes, call, replies, cursor>>
  BY DEF Page, PageOf, NoPages
<1>2. /\ pages'.at = IF Len(got) > PageSize THEN "more" ELSE "done"
      /\ pages'.offset = offset + PageSize /\ pages'.seen = seen \o shown
      /\ pages'.found = found
      /\ pages'.kept = IF pages = NoPages THEN Range(found) ELSE pages.kept \cap Range(found)
      /\ ~ pages'.came =>
           /\ pages # NoPages => ~ pages.came
           /\ UpTo(offset, found) \subseteq Range(before)
      /\ ~ pages'.went =>
           /\ pages # NoPages => ~ pages.went
           /\ UpTo(offset, before) \subseteq Range(found)
  BY <1>1 DEF NextPage
<1>3. PageSize \in Nat \ {0} /\ offset \in Nat /\ (pages # NoPages => offset \in Nat \ {0})
  BY Sizes DEF ReadInv, PagesOK
<1>4. Ordered(found) /\ Ordered(before) /\ seen \in Seq(Names)
  <2>1. Ordered(found)
    BY FoundIsOrdered DEF ReadInv
  <2>2. QED BY <2>1 DEF ReadInv, PagesOK
<1>5. PageShows(got, shown, found, offset, PageSize)
  <2> HIDE DEF offset, found, before, seen
  <2>1. QED BY <1>3, <1>4, PageRows
<1>6. /\ pages # NoPages /\ ~ pages.went =>
           \A name \in pages.kept \ Range(seen) :
             \E n \in 1 .. Len(before) : n > offset /\ before[n] = name
      /\ pages # NoPages /\ ~ pages.came =>
           /\ IsInjective(seen)
           /\ \A name \in Range(seen), n \in 1 .. Len(before) :
                n >= offset => before[n][2] >= name[2]
  BY DEF ReadInv, PagesOK, NoneSkipped, NoneAgain
<1>7. pages = NoPages => offset = 0 /\ before = found /\ seen = <<>>
  OBVIOUS
<1>8. pages'.offset \in Nat \ {0} /\ pages'.at \in {"more", "done"}
  BY <1>2, <1>3
<1> HIDE DEF offset, found, before, got, seen, shown
<1>9. /\ Len(found) \in Nat /\ DOMAIN found = 1 .. Len(found)
      /\ shown \in Seq(Names) /\ Len(shown) \in Nat /\ DOMAIN shown = 1 .. Len(shown)
      /\ Len(seen) \in Nat /\ DOMAIN seen = 1 .. Len(seen)
  BY <1>4, <1>5, OnePlace, LenProperties DEF PageShows
<1>10. /\ pages'.seen \in Seq(Names) /\ DOMAIN pages'.seen = 1 .. Len(seen) + Len(shown)
       /\ \A n \in 1 .. Len(seen) : pages'.seen[n] = seen[n]
       /\ \A n \in 1 .. Len(shown) : pages'.seen[Len(seen) + n] = shown[n]
       /\ Range(pages'.seen) = Range(seen) \cup Range(shown)
  <2>1. /\ seen \o shown \in Seq(Names) /\ Len(seen \o shown) = Len(seen) + Len(shown)
        /\ \A n \in 1 .. Len(seen) + Len(shown) :
             (seen \o shown)[n] = IF n <= Len(seen) THEN seen[n] ELSE shown[n - Len(seen)]
    BY <1>4, <1>9, ConcatProperties
  <2>2. DOMAIN (seen \o shown) = 1 .. Len(seen) + Len(shown)
    BY <2>1, LenProperties
  <2>3. \A n \in 1 .. Len(seen) : (seen \o shown)[n] = seen[n]
    BY <1>9, <2>1
  <2>4. ASSUME NEW n \in 1 .. Len(shown) PROVE (seen \o shown)[Len(seen) + n] = shown[n]
    <3>1. /\ Len(seen) + n \in 1 .. Len(seen) + Len(shown) /\ ~ (Len(seen) + n <= Len(seen))
          /\ Len(seen) + n - Len(seen) = n
      BY <1>9
    <3>2. QED BY <2>1, <3>1
  <2>5. Range(seen \o shown) = Range(seen) \cup Range(shown)
    BY <1>4, <1>9, RangeConcatenation
  <2>6. QED BY <1>2, <2>1, <2>2, <2>3, <2>4, <2>5
<1>11. ASSUME ~ pages'.went PROVE NoneSkipped'
  <2>1. SUFFICES ASSUME NEW name \in pages'.kept \ Range(pages'.seen)
                 PROVE  /\ pages'.at = "more"
                        /\ \E n \in 1 .. Len(pages'.found) :
                             n > pages'.offset /\ pages'.found[n] = name
    BY DEF NoneSkipped
  <2>2. PICK q \in 1 .. Len(found) : found[q] = name
    BY <1>2, <1>9, <2>1 DEF Range
  <2>3. q > offset
    <3>1. CASE pages = NoPages
      BY <1>7, <3>1
    <3>2. CASE pages # NoPages
      <4>1. name \in pages.kept \ Range(seen)
        BY <1>2, <1>10, <2>1, <3>2
      <4>2. PICK p \in 1 .. Len(before) : p > offset /\ before[p] = name
        BY <1>2, <1>6, <1>11, <3>2, <4>1
      <4>3. QED BY <1>2, <1>3, <1>4, <1>11, <2>2, <4>2, Ahead
    <3>3. QED BY <3>1, <3>2
  <2>4. ~ (q <= offset + PageSize)
    <3>1. name \notin Range(shown)
      BY <1>10, <2>1
    <3>2. QED BY <1>5, <1>9, <2>2, <2>3, <3>1 DEF PageShows, Range
  <2>5. q > offset + PageSize
    BY <1>3, <2>4
  <2>6. Len(got) > PageSize
    BY <1>5, <2>5 DEF PageShows
  <2>7. QED BY <1>2, <2>2, <2>5, <2>6
<1>12. ASSUME ~ pages'.came PROVE NoneAgain'
  <2>1. ASSUME pages # NoPages, NEW name \in Range(seen), NEW n \in 1 .. Len(found), n >= offset
        PROVE  found[n][2] >= name[2]
    <3>1. \A p \in 1 .. Len(before) : p >= offset => before[p][2] >= name[2]
      BY <1>2, <1>6, <1>12, <2>1
    <3>2. name[2] \in Nat
      <4>1. name \in Names
        BY <1>4, <1>9, <2>1, ElementOfSeq DEF Range
      <4>2. QED BY <4>1, NamesAssumption
    <3>3. UpTo(offset, found) \subseteq Range(before) /\ offset \in Nat \ {0}
      BY <1>2, <1>3, <1>12, <2>1
    <3>4. \A key \in Nat :
            (\A p \in 1 .. Len(before) : p >= offset => before[p][2] >= key)
              => found[n][2] >= key
      BY <1>4, <2>1, <3>3, Behind
    <3>5. QED BY <3>1, <3>2, <3>4
  <2>2. ASSUME NEW n \in 1 .. Len(shown)
        PROVE  shown[n] = found[offset + n] /\ offset + n \in 1 .. Len(found) /\ n <= PageSize
    BY <1>3, <1>5, <1>9 DEF PageShows
  <2>3. ASSUME NEW m \in 1 .. Len(seen), NEW n \in 1 .. Len(shown) PROVE seen[m] # shown[n]
    <3>1. pages # NoPages
      BY <1>7, <1>9, <2>3
    <3>2. offset \in 1 .. Len(found) /\ offset < offset + n /\ offset + n \in 1 .. Len(found)
      BY <1>3, <1>9, <2>2, <3>1
    <3>3. found[offset][2] < found[offset + n][2]
      BY <1>4, <3>2 DEF Ordered
    <3>4. seen[m] \in Range(seen) /\ found[offset][2] >= seen[m][2]
      BY <1>9, <2>1, <3>1, <3>2 DEF Range
    <3>5. seen[m][2] \in Nat
      BY <1>4, <2>3, ElementOfSeq, NamesAssumption
    <3>6. found[offset][2] \in Nat /\ found[offset + n][2] \in Nat
      BY <1>4, <3>2, OnePlace
    <3>7. QED BY <2>2, <3>3, <3>4, <3>5, <3>6
  <2>4. \A m, n \in 1 .. Len(seen) : seen[m] = seen[n] => m = n
    <3>1. CASE pages = NoPages
      BY <1>7, <1>9, <3>1
    <3>2. CASE pages # NoPages
      BY <1>2, <1>6, <1>9, <1>12, <3>2 DEF IsInjective
    <3>3. QED BY <3>1, <3>2
  <2>5. \A m, n \in 1 .. Len(shown) : shown[m] = shown[n] => m = n
    <3>1. SUFFICES ASSUME NEW m \in 1 .. Len(shown), NEW n \in 1 .. Len(shown),
                          shown[m] = shown[n]
                   PROVE  m = n
      OBVIOUS
    <3>2. offset + m = offset + n
      BY <1>4, <2>2, <3>1, OnePlace
    <3>3. QED BY <1>3, <3>2
  <2>6. IsInjective(pages'.seen)
    <3>1. SUFFICES ASSUME NEW m \in DOMAIN pages'.seen, NEW n \in DOMAIN pages'.seen,
                          pages'.seen[m] = pages'.seen[n]
                   PROVE  m = n
      BY DEF IsInjective
    <3>2. ASSUME NEW k \in DOMAIN pages'.seen
          PROVE  \/ k \in 1 .. Len(seen) /\ pages'.seen[k] = seen[k]
                 \/ \E j \in 1 .. Len(shown) : k = Len(seen) + j /\ pages'.seen[k] = shown[j]
      <4>1. k \in 1 .. Len(seen) \/ (k - Len(seen) \in 1 .. Len(shown))
        BY <1>9, <1>10, <3>2
      <4>2. k = Len(seen) + (k - Len(seen))
        BY <1>9, <1>10, <3>2
      <4>3. QED BY <1>10, <4>1, <4>2
    <3>3. QED BY <2>3, <2>4, <2>5, <3>1, <3>2, SMTT(40)
  <2>7. ASSUME NEW name \in Range(pages'.seen), NEW n \in 1 .. Len(found), n >= offset + PageSize
        PROVE  found[n][2] >= name[2]
    <3>1. CASE name \in Range(seen)
      <4>1. pages # NoPages
        BY <1>7, <1>9, <3>1 DEF Range
      <4>2. n >= offset
        BY <1>3, <1>9, <2>7
      <4>3. QED BY <2>1, <3>1, <4>1, <4>2
    <3>2. CASE name \in Range(shown)
      <4>1. PICK j \in 1 .. Len(shown) : shown[j] = name
        BY <1>9, <3>2 DEF Range
      <4>2. offset + j \in 1 .. Len(found) /\ name = found[offset + j] /\ offset + j <= n
        BY <1>3, <1>9, <2>2, <2>7, <4>1
      <4>3. found[offset + j][2] <= found[n][2]
        BY <1>4, <4>2, OnePlace
      <4>4. found[offset + j][2] \in Nat /\ found[n][2] \in Nat
        BY <1>4, <4>2, OnePlace
      <4>5. QED BY <4>2, <4>3, <4>4
    <3>3. QED BY <1>10, <2>7, <3>1, <3>2
  <2>8. QED BY <1>2, <2>6, <2>7 DEF NoneAgain
<1>13. PagesOK'
  BY <1>2, <1>4, <1>8, <1>10, <1>11, <1>12 DEF PagesOK
<1>14. HistoryOK' /\ CursorOK' /\ Finite'
  BY <1>1 DEF ReadInv, HistoryOK, Turns, CursorOK, Finite, Stored
<1>15. QED BY <1>13, <1>14 DEF ReadInv

\* The first rows of a sequence.
Beginning(s, count) ==
  LET first == SubSeq(s, 1, count)
  IN first \in Seq(Nat) /\ Len(first) = count /\ \A n \in 1 .. count : first[n] = s[n]

LEMMA Beginnings ==
  ASSUME NEW s \in Seq(Nat), NEW count \in 0 .. Len(s) PROVE Beginning(s, count)
<1>1. count \in Nat /\ Len(s) \in Nat
  BY LenProperties
<1>2. \A n \in 1 .. count : s[n] \in Nat
  BY <1>1, ElementOfSeq
<1>3. /\ SubSeq(s, 1, count) \in Seq(Nat)
      /\ Len(SubSeq(s, 1, count)) = IF 1 <= count THEN count - 1 + 1 ELSE 0
      /\ \A n \in 1 .. count - 1 + 1 : SubSeq(s, 1, count)[n] = s[1 + n - 1]
  BY <1>1, <1>2, SubSeqProperties
<1>4. QED BY <1>1, <1>3 DEF Beginning

\* A turn has a number no message had before.
LEMMA AppendsKeeps ==
  ASSUME ReadInv, NEW size \in 1 .. 3, Appends(size) PROVE ReadInv'
<1> DEFINE turn == [n \in 1 .. size |-> Turns + 1]
<1>1. /\ history' = history \o turn
      /\ UNCHANGED <<threads, records, clock, writes, call, replies, pages, cursor>>
  BY DEF Appends
<1>2. /\ history \in Seq(Nat) /\ Turns \in Nat /\ Range(history) = 1 .. Turns
      /\ Len(history) \in Nat /\ DOMAIN history = 1 .. Len(history)
  BY LenProperties DEF ReadInv, HistoryOK
<1>3. turn \in Seq(Nat) /\ Len(turn) = size /\ \A n \in 1 .. size : turn[n] = Turns + 1
  BY <1>2
<1> HIDE DEF turn
<1>4. /\ history' \in Seq(Nat) /\ Len(history') = Len(history) + size
      /\ DOMAIN history' = 1 .. Len(history) + size
      /\ \A n \in 1 .. Len(history) : history'[n] = history[n]
      /\ \A n \in Len(history) + 1 .. Len(history) + size : history'[n] = Turns + 1
  <2>1. /\ history' \in Seq(Nat) /\ Len(history') = Len(history) + Len(turn)
        /\ \A n \in 1 .. Len(history) + Len(turn) :
             history'[n] = IF n <= Len(history) THEN history[n] ELSE turn[n - Len(history)]
    BY <1>1, <1>2, <1>3, ConcatProperties
  <2>2. DOMAIN history' = 1 .. Len(history')
    BY <2>1, LenProperties
  <2>3. /\ Len(history') = Len(history) + size
        /\ \A n \in 1 .. Len(history) + size :
             history'[n] = IF n <= Len(history) THEN history[n] ELSE turn[n - Len(history)]
    BY <1>3, <2>1
  <2>4. \A n \in 1 .. Len(history) : history'[n] = history[n]
    BY <1>2, <2>3
  <2>5. ASSUME NEW n \in Len(history) + 1 .. Len(history) + size
        PROVE  history'[n] = Turns + 1
    <3>1. n - Len(history) \in 1 .. size /\ n \in 1 .. Len(history) + size
      BY <1>2
    <3>2. QED BY <1>2, <1>3, <2>3, <3>1
  <2>6. QED BY <2>1, <2>2, <2>3, <2>4, <2>5
<1>5. /\ \A n \in 1 .. Len(history) : history[n] \in 1 .. Turns
      /\ \A t \in 1 .. Turns : \E n \in 1 .. Len(history) : history[n] = t
      /\ Turns \in Nat /\ Len(history) \in Nat
  BY <1>2 DEF Range
<1>6. /\ \A n \in DOMAIN history' :
           \/ n \in 1 .. Len(history) /\ history'[n] = history[n]
           \/ n > Len(history) /\ history'[n] = Turns + 1
      /\ 1 .. Len(history) \subseteq DOMAIN history' /\ Len(history) + 1 \in DOMAIN history'
      /\ history'[Len(history) + 1] = Turns + 1
  <2>1. size \in Nat /\ size >= 1 /\ Len(history) \in Nat
    BY <1>5
  <2>2. ASSUME NEW n \in DOMAIN history'
        PROVE  \/ n \in 1 .. Len(history) /\ history'[n] = history[n]
               \/ n > Len(history) /\ history'[n] = Turns + 1
    <3>1. \/ n \in 1 .. Len(history)
          \/ n > Len(history) /\ n \in Len(history) + 1 .. Len(history) + size
      BY <1>4, <2>1
    <3>2. QED BY <1>4, <3>1
  <2>3. /\ 1 .. Len(history) \subseteq 1 .. Len(history) + size
        /\ Len(history) + 1 \in 1 .. Len(history) + size
        /\ Len(history) + 1 \in Len(history) + 1 .. Len(history) + size
    BY <2>1
  <2>4. QED BY <1>4, <2>2, <2>3
<1>7. HistoryOK'
  <2>1. Range(history') = 1 .. Turns + 1
    <3>1. \A n \in DOMAIN history' : history'[n] \in 1 .. Turns + 1
      BY <1>5, <1>6
    <3>2. ASSUME NEW t \in 1 .. Turns PROVE \E n \in DOMAIN history' : history'[n] = t
      <4>1. PICK n \in 1 .. Len(history) : history[n] = t
        BY <1>5
      <4>2. n \in DOMAIN history' /\ history'[n] = history[n]
        BY <1>4, <1>6
      <4>3. QED BY <4>1, <4>2
    <3>3. \E n \in DOMAIN history' : history'[n] = Turns + 1
      BY <1>6
    <3>4. 1 .. Turns + 1 = 1 .. Turns \cup {Turns + 1}
      BY <1>5
    <3>5. QED BY <3>1, <3>2, <3>3, <3>4 DEF Range
  <2>2. Cardinality(1 .. Turns + 1) = Turns + 1
    BY <1>2, FS_Interval
  <2>3. Turns' = Turns + 1
    BY <2>1, <2>2 DEF Turns
  <2>4. QED BY <1>2, <1>4, <2>1, <2>3 DEF HistoryOK
<1>8. CursorOK'
  <2>1. CASE cursor = NoCursor
    BY <1>1, <2>1 DEF CursorOK
  <2>2. CASE cursor # NoCursor
    <3>1. /\ {"at", "rows", "seen", "before"} = DOMAIN cursor
          /\ cursor.before \in 0 .. Len(history)
          /\ cursor.rows = SubSeq(history, 1, cursor.before)
          /\ \A n \in DOMAIN history : n > cursor.before => history[n] \notin Range(cursor.rows)
          /\ \E count \in 0 .. cursor.before :
               /\ cursor.seen = SubSeq(cursor.rows, 1, count)
               /\ cursor.at = "done" => count = cursor.before
      BY <2>2 DEF ReadInv, CursorOK
    <3>2. cursor.before \in 0 .. Len(history')
      BY <1>2, <1>4, <3>1
    <3>3. Beginning(history, cursor.before) /\ Beginning(history', cursor.before)
      BY <1>2, <1>4, <3>1, <3>2, Beginnings
    <3>4. cursor.rows = SubSeq(history', 1, cursor.before)
      <4>1. SubSeq(history, 1, cursor.before) \in Seq(Nat)
            /\ SubSeq(history', 1, cursor.before) \in Seq(Nat)
            /\ Len(SubSeq(history, 1, cursor.before)) = cursor.before
            /\ Len(SubSeq(history', 1, cursor.before)) = cursor.before
        BY <3>3 DEF Beginning
      <4>2. \A n \in 1 .. cursor.before :
              SubSeq(history, 1, cursor.before)[n] = SubSeq(history', 1, cursor.before)[n]
        BY <1>2, <1>4, <3>1, <3>3 DEF Beginning
      <4>3. QED BY <3>1, <4>1, <4>2, SeqEqual
    <3>5. \A n \in DOMAIN history' : n > cursor.before => history'[n] \notin Range(cursor.rows)
      <4>1. Range(cursor.rows) \subseteq 1 .. Turns
        <5>1. /\ DOMAIN cursor.rows = 1 .. cursor.before
              /\ \A n \in 1 .. cursor.before : cursor.rows[n] = history[n]
              /\ cursor.before \in 0 .. Len(history)
          BY <3>1, <3>3, LenProperties DEF Beginning
        <5>2. 1 .. cursor.before \subseteq 1 .. Len(history)
          BY <1>5, <5>1
        <5>3. QED BY <1>5, <5>1, <5>2 DEF Range
      <4>2. \A n \in 1 .. Len(history) : n > cursor.before => history[n] \notin Range(cursor.rows)
        BY <1>2, <3>1
      <4>3. Turns + 1 \notin 1 .. Turns
        BY <1>5
      <4>4. QED BY <1>6, <4>1, <4>2, <4>3
    <3>6. QED BY <1>1, <3>1, <3>2, <3>4, <3>5 DEF CursorOK
  <2>3. QED BY <2>1, <2>2
<1>9. PagesOK' /\ Finite'
  BY <1>1 DEF ReadInv, PagesOK, NoneSkipped, NoneAgain, Finite, Stored
<1>10. QED BY <1>7, <1>8, <1>9 DEF ReadInv

LEMMA OpensKeeps == ASSUME ReadInv, Opens PROVE ReadInv'
<1>1. /\ cursor' = [at |-> "open", rows |-> history, seen |-> <<>>, before |-> Len(history)]
      /\ UNCHANGED <<threads, records, history, clock, writes, call, replies, pages>>
  BY DEF Opens
<1>2. /\ history \in Seq(Nat) /\ Len(history) \in Nat /\ DOMAIN history = 1 .. Len(history)
      /\ SubSeq(history, 1, Len(history)) = history /\ SubSeq(history, 1, 0) = <<>>
  BY LenProperties, SubSeqFull, SubSeqEmpty DEF ReadInv, HistoryOK
<1>3. CursorOK'
  <2>1. /\ {"at", "rows", "seen", "before"} = DOMAIN cursor'
        /\ cursor'.before = Len(history) /\ cursor'.rows = history
        /\ cursor'.seen = <<>> /\ cursor'.at = "open"
    BY <1>1
  <2>2. \A n \in DOMAIN history : ~ (n > Len(history))
    BY <1>2
  <2>3. \E count \in 0 .. Len(history) :
          /\ cursor'.seen = SubSeq(history, 1, count)
          /\ cursor'.at = "done" => count = Len(history)
    BY <1>2, <2>1
  <2>4. QED BY <1>1, <1>2, <2>1, <2>2, <2>3 DEF CursorOK
<1>4. HistoryOK' /\ PagesOK' /\ Finite'
  BY <1>1 DEF ReadInv, HistoryOK, Turns, PagesOK, NoneSkipped, NoneAgain, Finite, Stored
<1>5. QED BY <1>3, <1>4 DEF ReadInv

LEMMA FetchesKeeps == ASSUME ReadInv, Fetches PROVE ReadInv'
<1> DEFINE next == Min({Len(cursor.seen) + FetchSize, Len(cursor.rows)})
<1>1. /\ cursor.at = "open"
      /\ cursor' = [cursor EXCEPT !.seen = SubSeq(cursor.rows, 1, next),
                      !.at = IF next = Len(cursor.seen) THEN "done" ELSE @]
      /\ UNCHANGED <<threads, records, history, clock, writes, call, replies, pages>>
  BY DEF Fetches
<1>2. cursor # NoCursor
  BY <1>1 DEF NoCursor
<1>3. /\ {"at", "rows", "seen", "before"} = DOMAIN cursor
      /\ cursor.before \in 0 .. Len(history)
      /\ cursor.rows = SubSeq(history, 1, cursor.before)
      /\ \A n \in DOMAIN history : n > cursor.before => history[n] \notin Range(cursor.rows)
  BY <1>2 DEF ReadInv, CursorOK
<1>4. PICK count \in 0 .. cursor.before : cursor.seen = SubSeq(cursor.rows, 1, count)
  BY <1>2 DEF ReadInv, CursorOK
<1>5. history \in Seq(Nat) /\ Len(history) \in Nat /\ FetchSize \in Nat /\ FetchSize > 0
  BY Sizes, LenProperties DEF ReadInv, HistoryOK
<1>6. cursor.rows \in Seq(Nat) /\ Len(cursor.rows) = cursor.before
  BY <1>3, <1>5, Beginnings DEF Beginning
<1>7. Len(cursor.seen) = count
  BY <1>3, <1>4, <1>5, <1>6, Beginnings DEF Beginning
<1>8. /\ cursor.before \in Nat /\ count \in Nat /\ count <= cursor.before
      /\ next = Min({count + FetchSize, cursor.before})
  <2>1. cursor.before \in 0 .. Len(history) /\ Len(history) \in Nat
    BY <1>3, <1>5
  <2>2. QED BY <1>6, <1>7, <2>1
<1>9. next \in 0 .. cursor.before /\ (next = count => count = cursor.before)
  BY <1>5, <1>8, MinOfTwo
<1> HIDE DEF next
<1>10. /\ DOMAIN cursor' = DOMAIN cursor /\ cursor'.before = cursor.before
       /\ cursor'.rows = cursor.rows /\ cursor'.seen = SubSeq(cursor.rows, 1, next)
       /\ cursor'.at = "done" => next = count
  BY <1>1, <1>3, <1>7
<1>11. CursorOK'
  BY <1>1, <1>3, <1>9, <1>10 DEF CursorOK
<1>12. HistoryOK' /\ PagesOK' /\ Finite'
  BY <1>1 DEF ReadInv, HistoryOK, Turns, PagesOK, NoneSkipped, NoneAgain, Finite, Stored
<1>13. QED BY <1>11, <1>12 DEF ReadInv

LEMMA ClosesKeeps == ASSUME ReadInv, ClosesCursor PROVE ReadInv'
<1>1. /\ cursor.at = "open" /\ cursor' = [cursor EXCEPT !.at = "closed"]
      /\ UNCHANGED <<threads, records, history, clock, writes, call, replies, pages>>
  BY DEF ClosesCursor
<1>2. cursor # NoCursor
  BY <1>1 DEF NoCursor
<1>3. {"at", "rows", "seen", "before"} = DOMAIN cursor
  BY <1>2 DEF ReadInv, CursorOK
<1>4. /\ DOMAIN cursor' = DOMAIN cursor /\ cursor'.before = cursor.before
      /\ cursor'.rows = cursor.rows /\ cursor'.seen = cursor.seen /\ cursor'.at = "closed"
  BY <1>1, <1>3
<1>5. CursorOK'
  BY <1>1, <1>2, <1>4 DEF ReadInv, CursorOK
<1>6. HistoryOK' /\ PagesOK' /\ Finite'
  BY <1>1 DEF ReadInv, HistoryOK, Turns, PagesOK, NoneSkipped, NoneAgain, Finite, Stored
<1>7. QED BY <1>5, <1>6 DEF ReadInv

\* A call begins, moves or ends, and stores nothing; readers see nothing of it.
LEMMA MovesFinitely ==
  ASSUME Inv, ReadInv, NEW s \in Sessions, NEW new, call' = [call EXCEPT ![s] = new],
         UNCHANGED <<records, history, pages, cursor>>, new = Idle \/ IsFiniteSet(new.wrote)
  PROVE  ReadInv'
<1>1. \A other \in Sessions : call'[other] = IF other = s THEN new ELSE call[other]
  BY DEF Inv
<1>2. Finite'
  BY <1>1 DEF ReadInv, Finite, Stored
<1>3. QED BY <1>2 DEF ReadInv, HistoryOK, Turns, CursorOK, PagesOK, NoneSkipped, NoneAgain

LEMMA GoesFinitely ==
  ASSUME Inv, ReadInv, NEW s \in Sessions, call[s] # Idle, NEW at, NEW wrote,
         Goes(s, at, wrote), IsFiniteSet(wrote)
  PROVE  ReadInv'
<1>1. call' = [call EXCEPT ![s] = call'[s]] /\ call'[s].wrote = wrote
  BY GoneTo
<1>2. UNCHANGED <<records, history, pages, cursor>>
  BY DEF Goes
<1>3. QED BY <1>1, <1>2, MovesFinitely

LEMMA BeginsFinitely ==
  ASSUME Inv, ReadInv, NEW s \in Sessions, NEW new, Begins(s, new), new.wrote = {}
  PROVE  ReadInv'
BY MovesFinitely, FS_EmptySet DEF Begins

\* What a transaction stores are rows it has written.
LEMMA CommitsFinitely ==
  ASSUME Inv, ReadInv, NEW s \in Sessions, Commits(s) PROVE ReadInv'
<1> DEFINE new == {name \in Names : Row(name) \in call[s].wrote}
<1>1. /\ call[s] # Idle /\ call' = [call EXCEPT ![s] = Idle]
      /\ \A name \in Names : Row(name) \notin call[s].wrote => records'[name] = records[name]
      /\ UNCHANGED <<threads, history, clock, writes, replies, pages, cursor>>
  BY DEF Commits
<1>2. IsFiniteSet(new)
  <2> DEFINE row == [name \in new |-> Row(name)]
  <2>1. \A name, other \in new : Row(name) = Row(other) => name = other
    BY DEF Row
  <2>2. row \in Injection(new, call[s].wrote)
    BY <2>1 DEF Injection, IsInjective
  <2>3. QED BY <1>1, <2>2, FS_Injection DEF ReadInv, Finite
<1>3. Stored' \subseteq Stored \cup new
  BY <1>1 DEF Stored
<1>4. IsFiniteSet(Stored')
  <2>1. IsFiniteSet(Stored \cup new)
    BY <1>2, FS_Union DEF ReadInv, Finite
  <2>2. QED BY <1>3, <2>1, FS_Subset
<1>5. \A other \in Sessions : call'[other] = IF other = s THEN Idle ELSE call[other]
  BY <1>1 DEF Inv
<1>6. Finite'
  BY <1>4, <1>5 DEF ReadInv, Finite
<1>7. QED BY <1>1, <1>6 DEF ReadInv, HistoryOK, Turns, CursorOK, PagesOK, NoneSkipped, NoneAgain

LEMMA SweepFinitely ==
  ASSUME Inv, ReadInv, NEW s \in Sessions, Scans(s) \/ Sweeps(s) PROVE ReadInv'
<1>1. call[s] # Idle /\ call[s].op = "sweep"
  BY IdleIsNone DEF Scans, Sweeps, Running
<1>2. /\ call = [t \in Sessions |-> call[t]] /\ CallOK(s) /\ SweepOK(s)
      /\ IsFiniteSet(call[s].wrote)
  BY <1>1 DEF Inv, SessionInv, ReadInv, Finite
<1>3. CASE Scans(s)
  <2>1. /\ call' = [call EXCEPT ![s] = call'[s]] /\ call'[s].wrote = call[s].wrote
        /\ UNCHANGED <<records, history, pages, cursor>>
    BY <1>1, <1>2, <1>3 DEF Scans, CallOK, SweepOK
  <2>2. QED BY <1>2, <2>1, MovesFinitely
<1>4. CASE Sweeps(s)
  <2>1. PICK name \in call[s].todo :
          call' = [call EXCEPT ![s].todo = @ \ {name},
                     ![s].wrote = IF Expired(records[name], call[s].cutoff)
                                  THEN @ \cup {Row(name)} ELSE @]
    BY <1>4 DEF Sweeps
  <2>2. /\ call' = [call EXCEPT ![s] = call'[s]]
        /\ call'[s].wrote \in {call[s].wrote, call[s].wrote \cup {Row(name)}}
    BY <1>1, <1>2, <2>1 DEF CallOK, SweepOK
  <2>3. IsFiniteSet(call'[s].wrote)
    BY <1>2, <2>2, FS_AddElement
  <2>4. QED BY <1>4, <2>2, <2>3, MovesFinitely DEF Sweeps
<1>5. QED BY <1>3, <1>4

LEMMA WritesFinitely ==
  ASSUME Inv, ReadInv, NEW s \in Sessions,
         Inserts(s) \/ Upserts(s) \/ Deletes(s) \/ Swept(s)
  PROVE  ReadInv'
<1>1. call[s] # Idle
  BY IdleIsNone DEF Inserts, Upserts, Deletes, Swept, Running
<1>2. \A x, y : IsFiniteSet({}) /\ IsFiniteSet({x}) /\ IsFiniteSet({x} \cup {y})
                /\ IsFiniteSet({x} \cup {})
  BY FS_EmptySet, FS_Singleton, FS_AddElement, FS_Union
<1>3. CASE Inserts(s)
  <2>1. PICK wrote : IsFiniteSet(wrote) /\ Goes(s, "select", wrote)
    BY <1>2, <1>3 DEF Inserts
  <2>2. QED BY <1>1, <2>1, GoesFinitely
<1>4. CASE Upserts(s)
  BY <1>1, <1>2, <1>4, GoesFinitely DEF Upserts
<1>5. CASE Deletes(s)
  <2>1. PICK wrote : IsFiniteSet(wrote) /\ Goes(s, "commit", wrote)
    BY <1>2, <1>5 DEF Deletes
  <2>2. QED BY <1>1, <2>1, GoesFinitely
<1>6. CASE Swept(s)
  BY <1>1, <1>6, GoesFinitely DEF Swept, ReadInv, Finite
<1>7. QED BY <1>3, <1>4, <1>5, <1>6

LEMMA ReadStep == ASSUME Inv, ReadInv, [Next]_vars PROVE ReadInv'
<1>1. CASE UNCHANGED vars \/ Tick
  BY <1>1 DEF vars, Tick, ReadInv, HistoryOK, Turns, CursorOK, PagesOK, NoneSkipped, NoneAgain,
                  Finite, Stored
<1>2. ASSUME NEW s \in Sessions, Inserts(s) \/ Upserts(s) \/ Deletes(s) \/ Swept(s) PROVE ReadInv'
  BY <1>2, WritesFinitely
<1>3. ASSUME NEW s \in Sessions, Scans(s) \/ Sweeps(s) \/ Commits(s) PROVE ReadInv'
  BY <1>3, SweepFinitely, CommitsFinitely
<1>4. ASSUME NEW s \in Sessions, Created(s) \/ Aborts(s) PROVE ReadInv'
  BY <1>4, MovesFinitely DEF Created, Aborts
<1>5. ASSUME NEW s \in Sessions, NEW key, Create(s, key) PROVE ReadInv'
  BY <1>5, BeginsFinitely DEF Create
<1>6. ASSUME NEW s \in Sessions, NEW name, NEW expires, Put(s, name, expires) PROVE ReadInv'
  BY <1>6, BeginsFinitely DEF Put
<1>7. ASSUME NEW s \in Sessions, NEW name, Delete(s, name) PROVE ReadInv'
  BY <1>7, BeginsFinitely DEF Delete
<1>8. ASSUME NEW s \in Sessions, NEW cutoff, NEW spaces, Sweep(s, cutoff, spaces) PROVE ReadInv'
  BY <1>8, BeginsFinitely DEF Sweep
<1>9. CASE (\E space \in Spaces : Page(space)) \/ (\E size \in 1 .. 3 : Appends(size))
           \/ Opens \/ Fetches \/ ClosesCursor
  BY <1>9, PageKeeps, AppendsKeeps, OpensKeeps, FetchesKeeps, ClosesKeeps
<1>10. QED BY <1>1, <1>2, <1>3, <1>4, <1>5, <1>6, <1>7, <1>8, <1>9 DEF Next

LEMMA ReadStarts == Init => ReadInv
<1> SUFFICES ASSUME Init PROVE ReadInv
  OBVIOUS
<1>1. HistoryOK
  <2>1. Range(<<>>) = {} /\ 1 .. 0 = {}
    BY DEF Range
  <2>2. QED BY <2>1, FS_EmptySet DEF Init, HistoryOK, Turns
<1>2. Stored = {} /\ \A s \in Sessions : call[s] = Idle
  BY DEF Init, Stored
<1>3. QED BY <1>1, <1>2, FS_EmptySet DEF Init, ReadInv, CursorOK, PagesOK, Finite

\* A reader that drains its cursor has the history as it was when it was opened, in whole
\* turns, whatever is appended meanwhile; and a search skips a record it could see all the
\* time only if one before the offset has gone, and shows one again only if one has come.
THEOREM ReadersSeeWholes == Spec => []ReadsHoldTogether
<1>1. Inv /\ ReadInv /\ [Next]_vars => Inv' /\ ReadInv'
  BY StepKeeps, ReadStep
<1>2. ASSUME ReadInv PROVE ReadsHoldTogether
  <2>1. ASSUME cursor.at = "done"
        PROVE  /\ cursor.seen = SubSeq(history, 1, cursor.before)
               /\ \A n \in DOMAIN history :
                    n > cursor.before => history[n] \notin Range(cursor.seen)
    <3>1. cursor # NoCursor
      BY <2>1 DEF NoCursor
    <3>2. /\ cursor.before \in 0 .. Len(history)
          /\ cursor.rows = SubSeq(history, 1, cursor.before)
          /\ \A n \in DOMAIN history : n > cursor.before => history[n] \notin Range(cursor.rows)
          /\ cursor.seen = SubSeq(cursor.rows, 1, cursor.before)
      BY <1>2, <2>1, <3>1 DEF ReadInv, CursorOK
    <3>3. cursor.rows \in Seq(Nat) /\ Len(cursor.rows) = cursor.before
      BY <1>2, <3>2, Beginnings DEF ReadInv, HistoryOK, Beginning
    <3>4. cursor.seen = cursor.rows
      BY <3>2, <3>3, SubSeqFull
    <3>5. QED BY <3>2, <3>4
  <2>2. ASSUME pages.at = "done"
        PROVE  /\ ~ pages.went => pages.kept \subseteq Range(pages.seen)
               /\ ~ pages.came => IsInjective(pages.seen)
    <3>1. pages # NoPages
      BY <2>2 DEF NoPages
    <3>2. QED BY <1>2, <2>2, <3>1 DEF ReadInv, PagesOK, NoneSkipped, NoneAgain
  <2>3. QED BY <2>1, <2>2 DEF ReadsHoldTogether
<1>3. QED BY <1>1, <1>2, Starts, ReadStarts, PTL DEF Spec
-----------------------------------------------------------------------------
(* Feedback.                                                                       *)

\* A target record() accepts; the run stays as it is.
Accepted(sub) == sub.run \in Runs /\ status[sub.run] = "succeeded" /\ sub.target # "foreign"
\* Feedback a submission corrects.
Corrects(sub, row) ==
  row.sub.id = sub.supersedes /\ row.sub.run = sub.run /\ row.sub.target = sub.target
Shares(sub, other) == sub.key = other.key \/ sub.id = other.id

AskedOK(c) ==
  /\ {"at", "sub"} \subseteq DOMAIN asked[c]
  /\ asked[c].at \in {"lookup", "target", "parent", "insert", "reread", "commit"}
  /\ asked[c].at \in {"parent", "insert", "reread", "commit"} => Accepted(asked[c].sub)
  /\ asked[c].at \in {"insert", "reread", "commit"} =>
       asked[c].sub.supersedes = None \/ \E row \in rows : Corrects(asked[c].sub, row)
  /\ asked[c].at = "commit" => \A row \in rows : ~ Shares(asked[c].sub, row.sub)

\* Uncommitted rows share no key and no id: their indexes made one of them wait.
Apart ==
  \A c, other \in Callers :
    c # other /\ At(c, "commit") /\ At(other, "commit") => ~ Shares(asked[c].sub, asked[other].sub)

RowsOK ==
  /\ \A row, other \in rows : Shares(row.sub, other.sub) => row = other
  /\ \A row \in rows :
       /\ Accepted(row.sub)
       /\ row.sub.supersedes # None =>
            \E parent \in rows \ {row} : Corrects(row.sub, parent)
  /\ \A answer \in answers : answer[2] \in rows /\ answer[2].sub = answer[1]

FeedbackInv == /\ asked = [c \in Callers |-> asked[c]]
               /\ status = [run \in Runs |-> status[run]]
               /\ \A c \in Callers : asked[c] = NoCall \/ AskedOK(c)
               /\ Apart /\ RowsOK

LEMMA NoCallIsIdle == NoCall.at = "idle"
BY DEF NoCall

\* The call of one caller moves or ends, and nothing is stored.
LEMMA CallMoves ==
  ASSUME FeedbackInv, NEW c \in Callers, NEW new, asked' = [asked EXCEPT ![c] = new],
         UNCHANGED <<status, rows>>,
         \A answer \in answers' :
           answer \in answers \/ (answer[2] \in rows /\ answer[2].sub = answer[1]),
         asked'[c] = NoCall \/ AskedOK(c)',
         new.at = "commit" => \A other \in Callers \ {c} :
           At(other, "commit") => ~ Shares(new.sub, asked[other].sub)
  PROVE  FeedbackInv'
<1>1. /\ asked' = [other \in Callers |-> asked'[other]]
      /\ asked'[c] = new /\ \A other \in Callers \ {c} : asked'[other] = asked[other]
  BY DEF FeedbackInv
<1>2. ASSUME NEW other \in Callers \ {c} PROVE asked'[other] = NoCall \/ AskedOK(other)'
  BY <1>1, ZenonT(30) DEF FeedbackInv, AskedOK, Accepted, Corrects
<1>3. Apart'
  <2>1. \A one, other \in Callers \ {c} :
          one # other /\ At(one, "commit")' /\ At(other, "commit")' =>
            ~ Shares(asked'[one].sub, asked'[other].sub)
    BY <1>1 DEF FeedbackInv, Apart, At
  <2>2. \A other \in Callers \ {c} : At(other, "commit")' /\ At(c, "commit")' =>
          /\ ~ Shares(asked'[c].sub, asked'[other].sub)
          /\ ~ Shares(asked'[other].sub, asked'[c].sub)
    BY <1>1 DEF At, Shares
  <2>3. QED BY <2>1, <2>2 DEF Apart
<1>4. RowsOK'
  <2>1. \A row \in rows : Accepted(row.sub)' = Accepted(row.sub)
    BY DEF Accepted
  <2>2. QED BY <2>1 DEF FeedbackInv, RowsOK
<1>5. QED BY <1>1, <1>2, <1>3, <1>4 DEF FeedbackInv

LEMMA EndKeeps == ASSUME FeedbackInv, NEW c \in Callers, Gives(c) PROVE FeedbackInv'
<1>1. /\ asked' = [asked EXCEPT ![c] = NoCall] /\ UNCHANGED <<status, rows, answers>>
      /\ asked'[c] = NoCall /\ NoCall.at # "commit"
  BY NoCallIsIdle DEF Gives, FeedbackInv
<1>2. QED BY <1>1, CallMoves

\* Once a call is under way it keeps its submission, whatever statement it moves to.
LEMMA MovesTo ==
  ASSUME FeedbackInv, NEW c \in Callers, asked[c] # NoCall, NEW at, Moves(c, at)
  PROVE  /\ AskedOK(c) /\ asked' = [asked EXCEPT ![c] = asked'[c]]
         /\ DOMAIN asked'[c] = DOMAIN asked[c]
         /\ asked'[c].at = at /\ asked'[c].sub = asked[c].sub
         /\ UNCHANGED <<status, rows, answers>>
<1>1. asked = [other \in Callers |-> asked[other]] /\ AskedOK(c)
  BY DEF FeedbackInv
<1>2. asked'[c] = [asked[c] EXCEPT !.at = at]
  BY <1>1 DEF Moves
<1>3. asked' = [asked EXCEPT ![c] = asked'[c]]
  BY <1>1 DEF Moves
<1>4. QED BY <1>1, <1>2, <1>3 DEF Moves, AskedOK

LEMMA ReplaysKeep == ASSUME FeedbackInv, NEW c \in Callers, Replays(c) PROVE FeedbackInv'
<1> DEFINE sub == asked[c].sub
<1>1. PICK row \in rows :
        \/ Gives(c)
        \/ /\ row.sub = sub /\ asked' = [asked EXCEPT ![c] = NoCall]
           /\ Answers(c, sub, row) /\ UNCHANGED <<status, rows, time>>
  BY DEF Replays, SameKey
<1>2. CASE Gives(c)
  BY <1>2, EndKeeps
<1>3. CASE /\ row.sub = sub /\ asked' = [asked EXCEPT ![c] = NoCall]
           /\ Answers(c, sub, row) /\ UNCHANGED <<status, rows, time>>
  <2>1. asked'[c] = NoCall /\ NoCall.at # "commit" /\ UNCHANGED <<status, rows>>
    BY <1>3, NoCallIsIdle DEF FeedbackInv
  <2>2. \A answer \in answers' :
          answer \in answers \/ (answer[2] \in rows /\ answer[2].sub = answer[1])
    BY <1>3 DEF Answers
  <2>3. QED BY <1>3, <2>1, <2>2, CallMoves
<1>4. QED BY <1>1, <1>2, <1>3

LEMMA SubmitKeeps ==
  ASSUME FeedbackInv, NEW c \in Callers, NEW sub, Submit(c, sub) PROVE FeedbackInv'
<1>1. /\ asked' = [asked EXCEPT ![c] = [at |-> "lookup", sub |-> sub]]
      /\ asked'[c] = [at |-> "lookup", sub |-> sub] /\ UNCHANGED <<status, rows, answers>>
  BY DEF Submit, FeedbackInv
<1>2. AskedOK(c)'
  BY <1>1 DEF AskedOK
<1>3. QED BY <1>1, <1>2, CallMoves

LEMMA LookupKeeps == ASSUME FeedbackInv, NEW c \in Callers, Lookup(c) PROVE FeedbackInv'
<1>1. CASE Replays(c)
  BY <1>1, ReplaysKeep
<1>2. CASE /\ asked' = [asked EXCEPT ![c] = [at |-> "target", sub |-> asked[c].sub,
                                              created |-> time]]
           /\ UNCHANGED <<status, rows, time, answers>>
  <2>1. /\ asked'[c] = [at |-> "target", sub |-> asked[c].sub, created |-> time]
        /\ UNCHANGED <<status, rows, answers>>
    BY <1>2 DEF FeedbackInv
  <2>2. AskedOK(c)'
    BY <2>1 DEF AskedOK
  <2>3. QED BY <1>2, <2>1, <2>2, CallMoves
<1>3. QED BY <1>1, <1>2 DEF Lookup

LEMMA TargetKeeps == ASSUME FeedbackInv, NEW c \in Callers, Target(c) PROVE FeedbackInv'
<1>1. CASE Gives(c)
  BY <1>1, EndKeeps
<1>2. CASE Accepted(asked[c].sub) /\ Moves(c, "parent")
  <2>1. asked[c] # NoCall
    BY NoCallIsIdle DEF Target, At
  <2>2. /\ AskedOK(c) /\ asked' = [asked EXCEPT ![c] = asked'[c]]
        /\ DOMAIN asked'[c] = DOMAIN asked[c]
        /\ asked'[c].at = "parent" /\ asked'[c].sub = asked[c].sub
        /\ UNCHANGED <<status, rows, answers>>
    BY <1>2, <2>1, MovesTo
  <2>3. AskedOK(c)'
    BY <1>2, <2>2 DEF AskedOK, Accepted
  <2>4. QED BY <2>2, <2>3, CallMoves
<1>3. QED BY <1>1, <1>2 DEF Target, Accepted

LEMMA ParentKeeps == ASSUME FeedbackInv, NEW c \in Callers, Parent(c) PROVE FeedbackInv'
<1> DEFINE sub == asked[c].sub
<1>1. CASE Gives(c)
  BY <1>1, EndKeeps
<1>2. CASE /\ sub.supersedes = None \/ \E row \in rows : Corrects(sub, row)
           /\ Moves(c, "insert")
  <2>1. asked[c] # NoCall /\ asked[c].at = "parent"
    BY NoCallIsIdle DEF Parent, At
  <2>2. /\ AskedOK(c) /\ asked' = [asked EXCEPT ![c] = asked'[c]]
        /\ DOMAIN asked'[c] = DOMAIN asked[c]
        /\ asked'[c].at = "insert" /\ asked'[c].sub = sub
        /\ UNCHANGED <<status, rows, answers>>
    BY <1>2, <2>1, MovesTo
  <2>3. AskedOK(c)'
    BY <1>2, <2>1, <2>2 DEF AskedOK, Accepted
  <2>4. QED BY <2>2, <2>3, CallMoves
<1>3. QED BY <1>1, <1>2 DEF Parent, Corrects

LEMMA InsertKeeps == ASSUME FeedbackInv, NEW c \in Callers, Insert(c) PROVE FeedbackInv'
<1> DEFINE sub == asked[c].sub
<1>1. /\ asked[c] # NoCall /\ asked[c].at = "insert"
      /\ \A other \in Callers \ {c} : At(other, "commit") => ~ Shares(sub, asked[other].sub)
  BY NoCallIsIdle DEF Insert, At, Shares
<1>2. CASE Gives(c)
  BY <1>2, EndKeeps
<1>3. ASSUME NEW at \in {"reread", "commit"}, Moves(c, at),
             at = "commit" => \A row \in rows : ~ Shares(sub, row.sub)
      PROVE  FeedbackInv'
  <2>1. /\ AskedOK(c) /\ asked' = [asked EXCEPT ![c] = asked'[c]]
        /\ DOMAIN asked'[c] = DOMAIN asked[c]
        /\ asked'[c].at = at /\ asked'[c].sub = sub
        /\ UNCHANGED <<status, rows, answers>>
    BY <1>1, <1>3, MovesTo
  <2>2. AskedOK(c)'
    BY <1>1, <1>3, <2>1 DEF AskedOK, Accepted
  <2>3. QED BY <1>1, <2>1, <2>2, CallMoves
<1>4. QED BY <1>2, <1>3 DEF Insert, Shares

\* The row that is committed shares nothing with those there, so a correction of it is
\* none of itself, and the corrections that others have checked stay.
LEMMA CommitKeeps == ASSUME FeedbackInv, NEW c \in Callers, Commit(c) PROVE FeedbackInv'
<1> DEFINE sub == asked[c].sub
           row == [sub |-> sub, created |-> asked[c].created]
<1>1. /\ asked[c] # NoCall /\ asked[c].at = "commit" /\ rows' = rows \cup {row}
      /\ answers' \in {answers, answers \cup {<<sub, row>>}}
      /\ asked' = [asked EXCEPT ![c] = NoCall] /\ UNCHANGED status
  BY NoCallIsIdle DEF Commit, At, Answers
<1>2. asked = [other \in Callers |-> asked[other]] /\ AskedOK(c) /\ row.sub = sub
  BY <1>1 DEF FeedbackInv
<1> HIDE DEF row
<1>3. RowsOK'
  <2>1. \A one, other \in rows' : Shares(one.sub, other.sub) => one = other
    BY <1>1, <1>2 DEF FeedbackInv, RowsOK, AskedOK, Shares
  <2>2. \A one \in rows' : Accepted(one.sub)'
    BY <1>1, <1>2 DEF FeedbackInv, RowsOK, AskedOK, Accepted
  <2>3. ASSUME NEW one \in rows', one.sub.supersedes # None
        PROVE  \E parent \in rows' \ {one} : Corrects(one.sub, parent)
    <3>1. CASE one \in rows
      BY <1>1, <2>3, <3>1 DEF FeedbackInv, RowsOK
    <3>2. CASE one = row /\ row \notin rows
      BY <1>1, <1>2, <2>3, <3>2 DEF AskedOK
    <3>3. QED BY <1>1, <3>1, <3>2
  <2>4. \A answer \in answers' : answer[2] \in rows' /\ answer[2].sub = answer[1]
    BY <1>1, <1>2 DEF FeedbackInv, RowsOK
  <2>5. QED BY <2>1, <2>2, <2>3, <2>4 DEF RowsOK
<1>4. asked' = [other \in Callers |-> asked'[other]] /\ asked'[c] = NoCall
  BY <1>1, <1>2
<1>5. ASSUME NEW other \in Callers \ {c}, asked[other] # NoCall PROVE AskedOK(other)'
  <2>1. asked'[other] = asked[other] /\ AskedOK(other)
    BY <1>1, <1>2, <1>5 DEF FeedbackInv
  <2>2. asked[other].at = "commit" => ~ Shares(asked[other].sub, sub)
    BY <1>1, <1>5 DEF FeedbackInv, Apart, At
  <2>3. QED BY <1>1, <1>2, <2>1, <2>2 DEF AskedOK, Accepted
<1>6. Apart'
  BY <1>1, <1>2, NoCallIsIdle DEF FeedbackInv, Apart, At
<1>7. QED BY <1>1, <1>2, <1>3, <1>4, <1>5, <1>6 DEF FeedbackInv

LEMMA RunEndsKeeps == ASSUME FeedbackInv, NEW run \in Runs, RunEnds(run) PROVE FeedbackInv'
<1>1. /\ status[run] = "running" /\ UNCHANGED <<rows, asked, answers>>
      /\ status' = [other \in Runs |-> status'[other]]
      /\ \A other \in Runs \ {run} : status'[other] = status[other]
  BY DEF RunEnds, FeedbackInv
<1>2. ASSUME NEW sub, Accepted(sub) PROVE Accepted(sub)'
  BY <1>1, <1>2 DEF Accepted
<1>3. \A c \in Callers : AskedOK(c) => AskedOK(c)'
  BY <1>1, <1>2 DEF AskedOK
<1>4. RowsOK' /\ Apart'
  BY <1>1, <1>2 DEF FeedbackInv, RowsOK, Apart, At
<1>5. QED BY <1>1, <1>3, <1>4 DEF FeedbackInv

LEMMA FeedbackStep == ASSUME FeedbackInv, [FeedbackNext]_feedback PROVE FeedbackInv'
<1>1. CASE UNCHANGED <<status, rows, asked, answers>>
  BY <1>1 DEF FeedbackInv, AskedOK, Accepted, Apart, At, RowsOK
<1>2. ASSUME NEW c \in Callers, NEW sub, Submit(c, sub) PROVE FeedbackInv'
  BY <1>2, SubmitKeeps
<1>3. ASSUME NEW c \in Callers,
             \/ Lookup(c) \/ Target(c) \/ Parent(c) \/ Insert(c)
             \/ Reread(c) \/ Commit(c) \/ Lost(c)
      PROVE  FeedbackInv'
  BY <1>3, LookupKeeps, TargetKeeps, ParentKeeps, InsertKeeps, ReplaysKeep, CommitKeeps,
     EndKeeps DEF Reread, Lost
<1>4. QED BY <1>1, <1>2, <1>3, RunEndsKeeps DEF FeedbackNext, Passes, feedback

LEMMA FeedbackStarts == FeedbackInit => FeedbackInv
BY NoCallIsIdle DEF FeedbackInit, FeedbackInv, Apart, RowsOK, At

\* However submissions of one key or id race, and wherever a call is lost, feedback is
\* kept once per key and id, on accepted targets, in chains of corrections that end at a
\* first one, and every answer is the row its own submission is stored as.
THEOREM FeedbackStaysConsistent == FeedbackSpec => []FeedbackConsistent
<1>1. FeedbackInv /\ [FeedbackNext]_feedback => FeedbackInv'
  BY FeedbackStep
<1>2. FeedbackInv => FeedbackConsistent
  BY DEF FeedbackInv, RowsOK, Shares, Accepted, Corrects, FeedbackConsistent
<1>3. QED BY <1>1, <1>2, FeedbackStarts, PTL DEF FeedbackSpec
=============================================================================
