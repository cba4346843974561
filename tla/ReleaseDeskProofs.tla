-------------------------- MODULE ReleaseDeskProofs --------------------------
(***************************************************************************)
(* Proofs about the release desk (module ReleaseDesk) for any keys, sizes, *)
(* windows, budgets and number of processes: a review is made once, told   *)
(* truly, and never refused by a budget that has room for it.              *)
(***************************************************************************)
EXTENDS ReleaseDesk, SequenceTheorems, FiniteSetTheorems, TLAPS

-----------------------------------------------------------------------------
(* What is proved of the context window holds of the desk's.                 *)

Picked == INSTANCE ContextWindowProofs WITH
            Messages <- {}, MaxBytes <- ContextBytes, MaxMessages <- 0,
            history <- thread, current <- <<>>, w <- 0, result <- 0

LEMMA SameBytes ==
  ASSUME NEW s, NEW P PROVE Window!Bytes(s, P) = Picked!Bytes(s, P)
BY Zenon DEF Window!Bytes, Picked!Bytes, Window!Sized, Picked!Sized, Window!Total, Picked!Total,
   Window!Cardinality, Picked!Cardinality

LEMMA SameChosen ==
  ASSUME NEW s, NEW P PROVE Window!Chosen(s, P) = Picked!Chosen(s, P)
BY Zenon DEF Window!Chosen, Picked!Chosen

LEMMA SameScan ==
  ASSUME NEW s, NEW given PROVE Window!Scan(s, given) = Picked!Scan(s, given)
BY Zenon DEF Window!Scan, Picked!Scan, Window!Unscanned, Picked!Unscanned,
   Window!Scanned, Picked!Scanned, Window!Closes, Picked!Closes, Window!Closed, Picked!Closed,
   Window!Broken, Picked!Broken, Window!Open, Picked!Open, Window!ToSet, Picked!ToSet,
   Window!IsInjective, Picked!IsInjective

LEMMA SameGroups ==
  ASSUME NEW a PROVE Window!Groups(a) = Picked!Groups(a)
BY Zenon DEF Window!Groups, Picked!Groups, Window!Closed, Picked!Closed

LEMMA SameBase ==
  ASSUME NEW s, NEW groups, NEW asked
  PROVE  Window!Base(s, groups, asked) = Picked!Base(s, groups, asked)
BY Zenon DEF Window!Base, Picked!Base, Window!Mandatory, Picked!Mandatory,
   Window!Spoken, Picked!Spoken

LEMMA SameTaken ==
  ASSUME NEW s, NEW groups, NEW asked
  PROVE  Window!Taken(s, groups, asked) = Picked!Taken(s, groups, asked)
BY Zenon DEF Window!Taken, Picked!Taken, Window!Take, Picked!Take, Window!Base, Picked!Base,
   Window!Mandatory, Picked!Mandatory, Window!Spoken, Picked!Spoken, Window!Bytes, Picked!Bytes,
   Window!Sized, Picked!Sized, Window!Total, Picked!Total,
   Window!Cardinality, Picked!Cardinality

LEMMA SameSelect ==
  ASSUME NEW before, NEW request
  PROVE  Window!Select(before, request) = Picked!Select(before, request)
<1> DEFINE s == before \o request
           given == Len(before)
           n == Len(s)
           asked == given + 1 .. n
<1>1. Window!Select(before, request)
        = IF Window!Scan(s, given)[n].error # "none"
          THEN Window!Raise(Window!Scan(s, given)[n].error)
          ELSE IF Window!Scan(s, given)[n].open # {} THEN Window!Raise("exchange")
          ELSE IF Window!Bytes(s, Window!Base(s, Window!Groups(Window!Scan(s, given)[n]), asked))
                    > ContextBytes
          THEN Window!Raise("budget")
          ELSE Window!Selection(
                 Window!Taken(s, Window!Groups(Window!Scan(s, given)[n]), asked).places,
                 Window!Bytes(s, DOMAIN s),
                 Window!Taken(s, Window!Groups(Window!Scan(s, given)[n]), asked).bytes,
                 given, Len(request),
                 Window!Cardinality((1 .. given)
                   \ Window!Taken(s, Window!Groups(Window!Scan(s, given)[n]), asked).places),
                 Len(Window!Groups(Window!Scan(s, given)[n]))
                   - Window!Taken(s, Window!Groups(Window!Scan(s, given)[n]), asked).chosen)
  BY Zenon DEF Window!Select
<1>2. Picked!Select(before, request)
        = IF Picked!Scan(s, given)[n].error # "none"
          THEN Picked!Raise(Picked!Scan(s, given)[n].error)
          ELSE IF Picked!Scan(s, given)[n].open # {} THEN Picked!Raise("exchange")
          ELSE IF Picked!Bytes(s, Picked!Base(s, Picked!Groups(Picked!Scan(s, given)[n]), asked))
                    > ContextBytes
          THEN Picked!Raise("budget")
          ELSE Picked!Selection(
                 Picked!Taken(s, Picked!Groups(Picked!Scan(s, given)[n]), asked).places,
                 Picked!Bytes(s, DOMAIN s),
                 Picked!Taken(s, Picked!Groups(Picked!Scan(s, given)[n]), asked).bytes,
                 given, Len(request),
                 Picked!Cardinality((1 .. given)
                   \ Picked!Taken(s, Picked!Groups(Picked!Scan(s, given)[n]), asked).places),
                 Len(Picked!Groups(Picked!Scan(s, given)[n]))
                   - Picked!Taken(s, Picked!Groups(Picked!Scan(s, given)[n]), asked).chosen)
  BY Zenon DEF Picked!Select
<1> HIDE DEF s, given, n, asked
<1>3. Window!Scan(s, given) = Picked!Scan(s, given)
  BY SameScan
<1> DEFINE end == Picked!Scan(s, given)[n]
           groups == Picked!Groups(end)
<1>4. Window!Groups(end) = groups
  BY SameGroups
<1>5. /\ Window!Taken(s, groups, asked) = Picked!Taken(s, groups, asked)
      /\ Window!Base(s, groups, asked) = Picked!Base(s, groups, asked)
  BY SameTaken, SameBase
<1>6. /\ Window!Bytes(s, DOMAIN s) = Picked!Bytes(s, DOMAIN s)
      /\ Window!Bytes(s, Picked!Base(s, groups, asked))
           = Picked!Bytes(s, Picked!Base(s, groups, asked))
  BY SameBytes
<1>7. /\ \A why : Window!Raise(why) = Picked!Raise(why)
      /\ \A p, i, b, g, r, m, k :
           Window!Selection(p, i, b, g, r, m, k) = Picked!Selection(p, i, b, g, r, m, k)
      /\ \A S : Window!Cardinality(S) = Picked!Cardinality(S)
  BY Zenon DEF Window!Raise, Picked!Raise, Window!Selection, Picked!Selection,
     Window!Cardinality, Picked!Cardinality
<1> HIDE DEF end, groups
<1>8. end = Window!Scan(s, given)[n] /\ groups = Window!Groups(end)
  BY <1>3, <1>4, Zenon DEF end
<1>9. end = Picked!Scan(s, given)[n] /\ groups = Picked!Groups(end)
  BY Zenon DEF end, groups
<1> DEFINE taken == Window!Taken(s, groups, asked)
<1>10. Window!Select(before, request)
         = IF end.error # "none" THEN Window!Raise(end.error)
           ELSE IF end.open # {} THEN Window!Raise("exchange")
           ELSE IF Window!Bytes(s, Window!Base(s, groups, asked)) > ContextBytes
           THEN Window!Raise("budget")
           ELSE Window!Selection(taken.places, Window!Bytes(s, DOMAIN s), taken.bytes, given,
                  Len(request), Window!Cardinality((1 .. given) \ taken.places),
                  Len(groups) - taken.chosen)
  BY <1>1, <1>8, Zenon
<1> DEFINE value ==
             IF end.error # "none" THEN Picked!Raise(end.error)
             ELSE IF end.open # {} THEN Picked!Raise("exchange")
             ELSE IF Picked!Bytes(s, Picked!Base(s, groups, asked)) > ContextBytes
             THEN Picked!Raise("budget")
             ELSE Picked!Selection(taken.places, Picked!Bytes(s, DOMAIN s), taken.bytes, given,
                    Len(request), Picked!Cardinality((1 .. given) \ taken.places),
                    Len(groups) - taken.chosen)
<1>11. Picked!Select(before, request) = value
  BY <1>2, <1>5, <1>9, Zenon
<1> HIDE DEF taken
<1>12. Window!Select(before, request) = value
  BY <1>5, <1>6, <1>7, <1>10, Zenon
<1> HIDE DEF value
<1>13. QED BY <1>11, <1>12, Zenon

LEMMA DeskDelivers ==
  ASSUME Settings,
         NEW before \in Seq(Picked!Message), NEW request \in Seq(Picked!Message),
         Picked!Said(before \o request), request # <<>>,
         Window!Select(before, request).kind # "raised"
  PROVE  Picked!Delivered(Window!Chosen(before \o request, Window!Select(before, request).places),
                          request)
<1>1. Picked!BudgetAssumption /\ Picked!MessagesAssumption
  BY DEF Settings, Picked!BudgetAssumption, Picked!MessagesAssumption
<1>2. Picked!Select(before, request).kind # "raised"
  BY SameSelect
<1>3. Picked!Delivered(Picked!Chosen(before \o request, Picked!Select(before, request).places),
                       request)
  BY <1>1, <1>2, Picked!SelectDelivers
<1>4. QED BY <1>3, SameSelect, SameChosen

-----------------------------------------------------------------------------
(* The inductive invariant.                                                  *)

Message == Picked!Message
\* What a report, or its absence, is stored as.
Told == [ready : BOOLEAN, bytes : Nat]
Codes == {0, 1, 2, 130}

TypeOK ==
  /\ limit \in InputLimits
  /\ runs \in [Keys -> [status : {"none", "active", "failed", "succeeded"}, report : Told,
                        why : {"none", "other", "refused"}]]
  /\ thread \in Seq(Message)
  /\ fetches \in [Keys -> Nat]
  /\ desk \in [at : {"off", "opening", "claiming", "selecting", "asking", "fetching", "saving",
                     "printing", "closing"},
               key : Keys \cup {"none"}, input : Seq(Message), turn : Seq(Message), report : Told,
               code : Codes]
  /\ desk.at # "off" => desk.key \in Keys
  /\ exits \in SUBSET [key : Keys, code : Codes]

\* Only assistants and tools carry ids, and a run's exchange is stored when it succeeds.
Exchange(k) == {n \in 1 .. Len(thread) : thread[n].ids = <<k>>}
Stored(k) ==
  IF runs[k].status = "succeeded"
  THEN \E n \in Exchange(k) : /\ Exchange(k) = {n, n + 1}
                              /\ thread[n].role = "assistant" /\ thread[n + 1].role = "tool"
  ELSE Exchange(k) = {}
ThreadOK ==
  /\ \A n \in 1 .. Len(thread) : thread[n].role \in {"system", "user"} => thread[n].ids = <<>>
  /\ \A k \in Keys : Stored(k)

\* The exit code tells of the run of this key.
Truly(key, code) ==
  code \in {0, 1} => runs[key].status = "succeeded" /\ (code = 0 <=> runs[key].report.ready)
DeskOK ==
  /\ desk.at \in {"selecting", "asking", "fetching", "saving"} => runs[desk.key].status = "active"
  /\ desk.at = "printing" => /\ runs[desk.key].status = "succeeded"
                             /\ desk.report = runs[desk.key].report
  /\ desk.at = "closing" => Truly(desk.key, desk.code)
ExitsOK == \A e \in exits : Truly(e.key, e.code)

\* A run that has fetched is not about to fetch.
About(k) == desk.key = k /\ (desk.at = "selecting" \/ (desk.at = "asking" /\ ~ Answered))
FetchOK ==
  \A k \in Keys : /\ fetches[k] <= 1
                  /\ fetches[k] = 1 => runs[k].status # "none" /\ ~ About(k)

\* How far the turn has come, and how large the model's input has grown.
Asked(m) == m.role = "user" /\ m.ids = <<>>
Calls(m, k) == m.role = "assistant" /\ m.ids = <<k>>
Finds(m, k) == m.role = "tool" /\ m.ids = <<k>>
Turned(n) ==
  /\ Len(desk.turn) = n
  /\ n >= 1 => Asked(desk.turn[1])
  /\ n >= 2 => Calls(desk.turn[2], desk.key)
  /\ n >= 3 => Finds(desk.turn[3], desk.key)
  /\ n >= 4 => desk.turn[4].role = "assistant" /\ desk.turn[4].ids = <<>>
TurnOK ==
  LET size == CanonicalSize(desk.input)
      last == desk.input[Len(desk.input)]
  IN /\ desk.at \in {"asking", "fetching"} => desk.input # <<>>
     /\ desk.at = "asking" =>
          \/ Turned(1) /\ last.role = "user" /\ size <= ContextBytes
          \/ /\ Turned(3) /\ last.role = "tool"
             /\ \E bytes \in ReportBytes : size <= ContextBytes + CallBytes + bytes + 2
     /\ desk.at = "fetching" => Turned(2) /\ size <= ContextBytes + CallBytes + 1
     /\ desk.at = "saving" => Turned(4)

\* A budget with room for the window and one exchange.
Roomy == \A bytes \in ReportBytes : limit >= ContextBytes + CallBytes + bytes + 2
NoneRefused == Roomy => \A k \in Keys : runs[k].why # "refused"

DeskInv == TypeOK /\ ThreadOK /\ DeskOK /\ ExitsOK /\ FetchOK /\ TurnOK /\ NoneRefused

-----------------------------------------------------------------------------
(* Sizes and sequences.                                                      *)

LEMMA SeqFacts ==
  ASSUME NEW S, NEW s \in Seq(S)
  PROVE  /\ Len(s) \in Nat /\ DOMAIN s = 1 .. Len(s) /\ \A i \in 1 .. Len(s) : s[i] \in S
BY LenProperties, ElementOfSeq

LEMMA AppendFacts ==
  ASSUME NEW S, NEW s \in Seq(S), NEW m \in S
  PROVE  /\ Append(s, m) \in Seq(S) /\ Len(Append(s, m)) = Len(s) + 1
         /\ \A i \in 1 .. Len(s) : Append(s, m)[i] = s[i]
         /\ Append(s, m)[Len(s) + 1] = m
BY AppendProperties

IsMessage(m, role, ids, bytes) ==
  m \in Message /\ m.role = role /\ m.ids = ids /\ m.size = bytes

LEMMA EncodedIs ==
  ASSUME NEW role \in {"system", "user", "assistant", "tool"}, NEW ids \in Seq(STRING),
         NEW bytes \in Nat
  PROVE  IsMessage(Encoded(role, ids, bytes), role, ids, bytes)
BY DEF IsMessage, Encoded, Message, Picked!Message

LEMMA WindowAssumed == Settings => Picked!BudgetAssumption /\ Picked!MessagesAssumption
BY DEF Settings, Picked!BudgetAssumption, Picked!MessagesAssumption

LEMMA SizeAppend ==
  ASSUME Settings, NEW s \in Seq(Message), s # <<>>, NEW m \in Message
  PROVE  CanonicalSize(Append(s, m)) = CanonicalSize(s) + m.size + 1
<1>1. Picked!Bytes(Append(s, m), DOMAIN Append(s, m)) = Picked!Bytes(s, DOMAIN s) + m.size + 1
  BY WindowAssumed, Picked!BytesAppend DEF Message
<1>2. QED BY <1>1, SameBytes DEF CanonicalSize

LEMMA SizeNat ==
  ASSUME Settings, NEW s \in Seq(Message) PROVE CanonicalSize(s) \in Nat
<1>1. DOMAIN s \in SUBSET (1 .. Len(s))
  BY SeqFacts
<1>2. Picked!Bytes(s, DOMAIN s) \in Nat
  BY <1>1, WindowAssumed, Picked!BytesAreCost DEF Message
<1>3. QED BY <1>2, SameBytes DEF CanonicalSize

\* A request comes with what the window selects, and itself at the end.
LEMMA Delivers ==
  ASSUME Settings, TypeOK, ThreadOK, NEW bytes \in RequestBytes,
         Window!Select(thread, <<Request(bytes)>>).kind # "raised"
  PROVE  LET input == Window!Chosen(thread \o <<Request(bytes)>>,
                                    Window!Select(thread, <<Request(bytes)>>).places)
         IN /\ input \in Seq(Message) /\ input # <<>>
            /\ input[Len(input)] = Request(bytes)
            /\ CanonicalSize(input) <= ContextBytes
<1> DEFINE request == <<Request(bytes)>>
           input == Window!Chosen(thread \o request, Window!Select(thread, request).places)
<1>1. Request(bytes) \in Message /\ Request(bytes).role = "user" /\ Request(bytes).ids = <<>>
  <2>1. bytes \in Nat /\ <<>> \in Seq(STRING)
    BY DEF Settings
  <2>2. IsMessage(Encoded("user", <<>>, bytes), "user", <<>>, bytes)
    BY <2>1, EncodedIs
  <2>3. QED BY <2>2 DEF Request, IsMessage
<1>2. /\ thread \in Seq(Message) /\ request \in Seq(Message) /\ Len(request) = 1
      /\ request[1] = Request(bytes) /\ request # <<>>
  BY <1>1 DEF TypeOK
<1> HIDE DEF request
<1>3. Picked!Said(thread \o request)
  <2>1. /\ thread \o request \in Seq(Message) /\ Len(thread) \in Nat
        /\ Len(thread \o request) = Len(thread) + 1
        /\ \A i \in 1 .. Len(thread) : (thread \o request)[i] = thread[i]
        /\ (thread \o request)[Len(thread) + 1] = request[1]
    BY <1>2, ConcatProperties, SeqFacts
  <2>2. ASSUME NEW i \in 1 .. Len(thread \o request),
               (thread \o request)[i].role \in {"system", "user"}
        PROVE  (thread \o request)[i].ids = <<>>
    <3>1. i \in 1 .. Len(thread) \/ i = Len(thread) + 1
      BY <2>1
    <3>2. QED BY <1>1, <1>2, <2>1, <2>2, <3>1 DEF ThreadOK
  <2>3. QED BY <2>1, <2>2 DEF Picked!Said, Message
<1>4. Picked!Delivered(input, request)
  BY <1>2, <1>3, DeskDelivers DEF Message, request
<1>5. /\ input \in Seq(Message) /\ input # <<>>
      /\ Picked!Bytes(input, DOMAIN input) <= ContextBytes
      /\ input[Len(input)] = request[Len(request)]
  BY <1>4 DEF Picked!Delivered, Message
<1> HIDE DEF input
<1>6. CanonicalSize(input) <= ContextBytes
  BY <1>5, SameBytes DEF CanonicalSize
<1>7. QED BY <1>2, <1>5, <1>6 DEF input, request

-----------------------------------------------------------------------------
(* Every step keeps the invariant.                                           *)

LEMMA DeskStarts == Settings /\ DeskInit => DeskInv
<1> SUFFICES ASSUME Settings, DeskInit PROVE DeskInv
  OBVIOUS
<1>0. <<>> \in Seq(Message)
  OBVIOUS
<1> USE DEF DeskInit, NoRun, NoReport, Off
<1>1. TypeOK
  BY <1>0 DEF TypeOK, Told, Codes
<1>2. ThreadOK
  BY DEF ThreadOK, Stored, Exchange
<1>3. DeskOK /\ ExitsOK /\ FetchOK /\ TurnOK /\ NoneRefused
  BY DEF DeskOK, ExitsOK, FetchOK, TurnOK, NoneRefused
<1>4. QED BY <1>1, <1>2, <1>3 DEF DeskInv

\* What is stored of a run stays while thread and run do.
LEMMA StoredStays ==
  ASSUME NEW k \in Keys, Stored(k), UNCHANGED thread,
         runs'[k].status = "succeeded" <=> runs[k].status = "succeeded"
  PROVE  Stored(k)'
<1>1. Exchange(k)' = Exchange(k)
  BY DEF Exchange
<1>2. QED BY <1>1 DEF Stored

\* A step outside a review's turn, that changes only the process.
LEMMA DeskMoves ==
  ASSUME DeskInv, UNCHANGED <<limit, runs, thread, fetches>>,
         desk' \in [at : {"off", "opening", "claiming", "printing", "closing"},
                    key : Keys \cup {"none"}, input : Seq(Message), turn : Seq(Message),
                    report : Told, code : Codes],
         desk'.at # "off" => desk'.key \in Keys,
         DeskOK', ExitsOK', exits' \in SUBSET [key : Keys, code : Codes]
  PROVE  DeskInv'
<1>1. TypeOK'
  BY DEF DeskInv, TypeOK
<1>2. ThreadOK'
  <2>1. \A k \in Keys : Stored(k)'
    BY StoredStays DEF DeskInv, ThreadOK
  <2>2. QED BY <2>1 DEF DeskInv, ThreadOK
<1>3. FetchOK'
  BY DEF DeskInv, FetchOK, About
<1>4. TurnOK'
  BY DEF TurnOK
<1>5. NoneRefused'
  BY DEF DeskInv, NoneRefused, Roomy
<1>6. QED BY <1>1, <1>2, <1>3, <1>4, <1>5 DEF DeskInv

\* The invocation has failed, and its run too, unless that could not be written.
LEMMA FailsKeeps ==
  ASSUME Settings, DeskInv, NEW why \in {"other", "refused"}, NEW code \in {2, 130},
         Fails(why, code), desk.at # "off", runs[desk.key].status = "active",
         why = "refused" => ~ Roomy, UNCHANGED <<limit, thread, fetches, exits>>
  PROVE  DeskInv'
<1> USE DEF DeskInv
<1> DEFINE k == desk.key
<1>1. /\ k \in Keys /\ runs[k].status = "active" /\ runs \in [Keys -> [status : {"none", "active",
           "failed", "succeeded"}, report : Told, why : {"none", "other", "refused"}]]
  BY DEF TypeOK, DeskOK
<1>2. desk' = [desk EXCEPT !.at = "closing", !.code = code]
  BY DEF Fails, Leaves
<1>3. runs' = runs \/ runs' = [runs EXCEPT ![k].status = "failed", ![k].why = why]
  BY DEF Fails, Settled
<1> HIDE DEF k
<1>4. /\ runs' \in [Keys -> [status : {"none", "active", "failed", "succeeded"}, report : Told,
                             why : {"none", "other", "refused"}]]
      /\ \A q \in Keys : /\ runs'[q].status = "succeeded" <=> runs[q].status = "succeeded"
                         /\ runs'[q].status = "none" <=> runs[q].status = "none"
                         /\ runs'[q].report = runs[q].report
                         /\ runs'[q].why = runs[q].why \/ runs'[q].why = why
  BY <1>1, <1>3
<1>5. TypeOK'
  BY <1>2, <1>4 DEF TypeOK, Codes
<1>6. ThreadOK'
  <2>1. \A q \in Keys : Stored(q)'
    BY <1>4, StoredStays DEF ThreadOK
  <2>2. QED BY <2>1 DEF ThreadOK
<1>7. DeskOK'
  <2>1. desk'.at = "closing" /\ desk'.code = code
    BY <1>2 DEF TypeOK
  <2>2. QED BY <2>1 DEF DeskOK, Truly
<1>8. ExitsOK'
  <2>1. \A e \in exits : e.key \in Keys
    BY DEF TypeOK
  <2>2. QED BY <1>4, <2>1 DEF ExitsOK, Truly
<1>9. FetchOK'
  <2>1. desk'.at = "closing"
    BY <1>2 DEF TypeOK
  <2>2. QED BY <1>4, <2>1 DEF FetchOK, About
<1>10. TurnOK'
  BY <1>2 DEF TurnOK, TypeOK
<1>11. NoneRefused'
  BY <1>4 DEF NoneRefused, Roomy
<1>12. QED BY <1>5, <1>6, <1>7, <1>8, <1>9, <1>10, <1>11

\* The run has succeeded and its turn is stored, whether the caller learns of it or not.
LEMMA SavedKeeps ==
  ASSUME Settings, DeskInv, Saved, desk.at = "saving", UNCHANGED <<limit, fetches, exits>>,
         \/ desk' = [desk EXCEPT !.at = "printing"]
         \/ desk' = [desk EXCEPT !.at = "closing", !.code = 130]
  PROVE  DeskInv'
<1> USE DEF DeskInv
<1>0. PICK k \in Keys : k = desk.key
  BY DEF TypeOK
<1> DEFINE N == Len(thread)
           row == [runs[k] EXCEPT !.status = "succeeded", !.report = desk.report]
<1>1. /\ k \in Keys /\ k \in STRING /\ desk.report \in Told
      /\ runs \in [Keys -> [status : {"none", "active", "failed", "succeeded"}, report : Told,
                            why : {"none", "other", "refused"}]]
  BY <1>0 DEF TypeOK, Settings
<1>2. runs[k].status = "active"
  BY <1>0 DEF DeskOK
<1>3. runs' = [runs EXCEPT ![k] = row] /\ thread' = thread \o desk.turn
  BY <1>0, ZenonT(30) DEF Saved
<1>4. row \in [status : {"none", "active", "failed", "succeeded"}, report : Told,
               why : {"none", "other", "refused"}]
  <2> DEFINE old == runs[k]
             report == desk.report
  <2>1. /\ old \in [status : {"none", "active", "failed", "succeeded"}, report : Told,
                   why : {"none", "other", "refused"}]
        /\ report \in Told /\ row = [old EXCEPT !.status = "succeeded", !.report = report]
    BY <1>1
  <2> HIDE DEF old, report, row
  <2>2. QED BY <2>1
<1>5. row.status = "succeeded" /\ row.report = desk.report /\ row.why = runs[k].why
  BY <1>1
<1>6. /\ thread \in Seq(Message) /\ N \in Nat /\ thread' \in Seq(Message) /\ Len(thread') = N + 4
      /\ \A n \in 1 .. N : thread'[n] = thread[n]
      /\ \A n \in 1 .. 4 : thread'[N + n] = desk.turn[n]
  <2>1. thread \in Seq(Message) /\ desk.turn \in Seq(Message) /\ Len(desk.turn) = 4
    BY DEF TypeOK, TurnOK, Turned
  <2>2. N \in Nat /\ thread' \in Seq(Message) /\ Len(thread') = N + 4
    <3>1. N \in Nat
      BY <2>1, SeqFacts
    <3>2. thread' \in Seq(Message) /\ Len(thread') = N + Len(desk.turn)
      <4> DEFINE turn == desk.turn
      <4>1. turn \in Seq(Message) /\ thread' = thread \o turn
        BY <1>3, <2>1
      <4> HIDE DEF turn
      <4>2. thread \o turn \in Seq(Message) /\ Len(thread \o turn) = Len(thread) + Len(turn)
        BY <2>1, <4>1, ConcatProperties
      <4>3. QED BY <4>1, <4>2 DEF turn
    <3>3. QED BY <2>1, <3>1, <3>2
  <2>3. \A n \in 1 .. N + 4 :
          thread'[n] = IF n <= N THEN thread[n] ELSE desk.turn[n - N]
    BY <1>3, <2>1, <2>2, ConcatProperties
  <2>4. ASSUME NEW n \in 1 .. 4 PROVE thread'[N + n] = desk.turn[n]
    <3>1. N + n \in 1 .. N + 4 /\ ~ (N + n <= N) /\ (N + n) - N = n
      BY <2>2
    <3>2. QED BY <2>3, <3>1
  <2>5. \A n \in 1 .. N : thread'[n] = thread[n]
    BY <2>2, <2>3
  <2>6. QED BY <2>1, <2>2, <2>4, <2>5
<1> HIDE DEF N, row
<1>7. /\ runs' \in [Keys -> [status : {"none", "active", "failed", "succeeded"}, report : Told,
                             why : {"none", "other", "refused"}]]
      /\ runs'[k] = row /\ \A q \in Keys \ {k} : runs'[q] = runs[q]
  BY <1>1, <1>3, <1>4
<1>8. TypeOK'
  <2>1. desk' \in [at : {"off", "opening", "claiming", "selecting", "asking", "fetching", "saving",
                        "printing", "closing"},
                  key : Keys \cup {"none"}, input : Seq(Message), turn : Seq(Message),
                  report : Told, code : Codes] /\ desk'.key = k
    <3>1. CASE desk' = [desk EXCEPT !.at = "printing"]
      BY <1>0, <3>1 DEF TypeOK
    <3>2. CASE desk' = [desk EXCEPT !.at = "closing", !.code = 130]
      BY <1>0, <3>2, ZenonT(30) DEF TypeOK, Codes
    <3>3. QED BY <3>1, <3>2
  <2>2. QED BY <1>6, <1>7, <2>1 DEF TypeOK
<1>9. /\ Asked(thread'[N + 1]) /\ Calls(thread'[N + 2], k) /\ Finds(thread'[N + 3], k)
      /\ thread'[N + 4].role = "assistant" /\ thread'[N + 4].ids = <<>>
  <2>1. Turned(4)
    BY DEF TurnOK
  <2>2. \A n \in 1 .. 4 : thread'[N + n] = desk.turn[n]
    BY <1>6
  <2>3. QED BY <1>0, <2>1, <2>2 DEF Turned
<1>10. \A n \in 1 .. Len(thread') : n \in 1 .. N \/ n = N + 1 \/ n = N + 2 \/ n = N + 3 \/ n = N + 4
  BY <1>6
<1>11. ThreadOK'
  <2>1. ASSUME NEW n \in 1 .. Len(thread'), thread'[n].role \in {"system", "user"}
        PROVE  thread'[n].ids = <<>>
    <3>1. CASE n \in 1 .. N
      BY <1>6, <2>1, <3>1 DEF ThreadOK, N
    <3>2. CASE n \notin 1 .. N
      BY <1>9, <1>10, <2>1, <3>2 DEF Asked, Calls, Finds
    <3>3. QED BY <3>1, <3>2
  <2>2. ASSUME NEW q \in Keys \ {k} PROVE Stored(q)'
    <3>1. <<q>> # <<k>> /\ <<q>> # <<>>
      BY <2>2
    <3>2. ASSUME NEW n \in 1 .. Len(thread')
          PROVE  thread'[n].ids = <<q>> <=> n \in 1 .. N /\ thread[n].ids = <<q>>
      <4>1. CASE n \in 1 .. N
        BY <1>6, <4>1
      <4>2. CASE n \notin 1 .. N
        BY <1>9, <1>10, <3>1, <4>2 DEF Asked, Calls, Finds
      <4>3. QED BY <4>1, <4>2
    <3>3. 1 .. N \subseteq 1 .. Len(thread')
      BY <1>6
    <3>4. Exchange(q)' = Exchange(q)
      BY <3>2, <3>3 DEF Exchange, N
    <3>5. Stored(q) /\ runs'[q] = runs[q]
      BY <1>7 DEF ThreadOK
    <3>6. \A n \in Exchange(q) : n \in 1 .. N /\ thread'[n] = thread[n]
      BY <1>6 DEF Exchange, N
    <3>7. CASE runs[q].status = "succeeded"
      <4>1. PICK n \in Exchange(q) :
              /\ Exchange(q) = {n, n + 1}
              /\ thread[n].role = "assistant" /\ thread[n + 1].role = "tool"
        BY <3>5, <3>7 DEF Stored
      <4>2. thread'[n] = thread[n] /\ thread'[n + 1] = thread[n + 1]
        BY <3>6, <4>1
      <4>3. QED BY <3>4, <3>5, <3>7, <4>1, <4>2 DEF Stored
    <3>8. CASE runs[q].status # "succeeded"
      BY <3>4, <3>5, <3>8 DEF Stored
    <3>9. QED BY <3>7, <3>8
  <2>3. Stored(k)'
    <3>1. Exchange(k) = {}
      BY <1>1, <1>2 DEF ThreadOK, Stored
    <3>2. <<k>> # <<>>
      OBVIOUS
    <3>3. ASSUME NEW n \in 1 .. Len(thread')
          PROVE  thread'[n].ids = <<k>> <=> n = N + 2 \/ n = N + 3
      <4>1. CASE n \in 1 .. N
        BY <1>6, <3>1, <4>1, SMTT(30) DEF Exchange, N
      <4>2. CASE n \notin 1 .. N
        BY <1>6, <1>9, <1>10, <3>2, <4>2 DEF Asked, Calls, Finds
      <4>3. QED BY <4>1, <4>2
    <3>4. N + 2 \in 1 .. Len(thread') /\ N + 3 \in 1 .. Len(thread') /\ N + 3 = (N + 2) + 1
      BY <1>6
    <3>5. Exchange(k)' = {N + 2, (N + 2) + 1}
      BY <3>3, <3>4 DEF Exchange
    <3>6. thread'[N + 2].role = "assistant" /\ thread'[(N + 2) + 1].role = "tool"
      BY <1>9, <3>4 DEF Calls, Finds
    <3>7. runs'[k].status = "succeeded"
      BY <1>5, <1>7
    <3>8. QED BY <3>5, <3>6, <3>7 DEF Stored
  <2>4. QED BY <2>1, <2>2, <2>3 DEF ThreadOK
<1>12. DeskOK'
  <2>1. /\ desk'.key = k /\ desk'.report = desk.report
        /\ desk'.at = "printing" \/ (desk'.at = "closing" /\ desk'.code = 130)
    BY <1>0 DEF TypeOK
  <2>2. QED BY <1>5, <1>7, <2>1 DEF DeskOK, Truly
<1>13. ExitsOK'
  <2>1. ASSUME NEW e \in exits PROVE Truly(e.key, e.code)'
    <3>1. e.key \in Keys /\ Truly(e.key, e.code)
      BY DEF TypeOK, ExitsOK
    <3>2. e.key = k => e.code \notin {0, 1}
      BY <1>2, <3>1 DEF Truly
    <3>3. QED BY <1>7, <3>1, <3>2 DEF Truly
  <2>2. QED BY <2>1 DEF ExitsOK
<1>14. FetchOK'
  <2>1. desk'.at \in {"printing", "closing"}
    BY DEF TypeOK
  <2>2. ASSUME NEW q \in Keys PROVE fetches[q] = 1 => runs'[q].status # "none"
    <3>1. fetches[q] = 1 => runs[q].status # "none"
      BY DEF FetchOK
    <3>2. QED BY <1>5, <1>7, <3>1
  <2>3. QED BY <2>1, <2>2 DEF FetchOK, About
<1>15. TurnOK'
  BY DEF TurnOK, TypeOK
<1>16. NoneRefused'
  <2>1. \A q \in Keys : runs'[q].why = runs[q].why
    BY <1>5, <1>7
  <2>2. QED BY <2>1 DEF NoneRefused, Roomy
<1>17. QED BY <1>8, <1>11, <1>12, <1>13, <1>14, <1>15, <1>16


\* Steps outside a review's turn.
LEMMA StartKeeps == ASSUME Settings, DeskInv, Start PROVE DeskInv'
<1> USE DEF DeskInv
<1>1. PICK k \in Keys : desk' = [Off EXCEPT !.at = "opening", !.key = k]
  BY DEF Start
<1>2. <<>> \in Seq(Message)
  OBVIOUS
<1>3. /\ desk'.at = "opening" /\ desk'.key = k
      /\ desk' \in [at : {"off", "opening", "claiming", "printing", "closing"},
                    key : Keys \cup {"none"}, input : Seq(Message), turn : Seq(Message),
                    report : Told, code : Codes]
  BY <1>1, <1>2 DEF Off, NoReport, Told, Codes
<1>4. UNCHANGED <<limit, runs, thread, fetches, exits>>
  BY DEF Start
<1>5. DeskOK' /\ ExitsOK'
  BY <1>3, <1>4 DEF DeskOK, ExitsOK, Truly
<1>6. QED BY <1>3, <1>4, <1>5, DeskMoves DEF TypeOK

\* The process goes on to where it does not work for a run, or ends.
LEMMA DeskGoes ==
  ASSUME DeskInv, UNCHANGED <<limit, runs, thread, fetches, exits>>, desk.at # "off",
         NEW at \in {"claiming", "printing", "closing"}, NEW code \in Codes,
         NEW report \in Told,
         desk' = [desk EXCEPT !.at = at, !.code = code, !.report = report],
         at = "printing" => runs[desk.key].status = "succeeded" /\ report = runs[desk.key].report,
         at = "closing" => Truly(desk.key, code)
  PROVE  DeskInv'
<1> USE DEF DeskInv
<1>1. PICK k \in Keys : k = desk.key
  BY DEF TypeOK
<1>2. /\ desk' \in [at : {"off", "opening", "claiming", "printing", "closing"},
                    key : Keys \cup {"none"}, input : Seq(Message), turn : Seq(Message),
                    report : Told, code : Codes]
      /\ desk'.at = at /\ desk'.key = k /\ desk'.code = code /\ desk'.report = report
  BY <1>1 DEF TypeOK
<1>3. DeskOK'
  BY <1>1, <1>2 DEF DeskOK, Truly
<1>4. ExitsOK'
  BY DEF ExitsOK, Truly
<1>5. QED BY <1>2, <1>3, <1>4, DeskMoves DEF TypeOK

LEMMA DeskFacts ==
  ASSUME DeskInv
  PROVE  /\ desk.code \in Codes /\ desk.report \in Told
         /\ desk = [desk EXCEPT !.code = desk.code, !.report = desk.report]
         /\ \A at, code : [desk EXCEPT !.at = at, !.code = code]
              = [desk EXCEPT !.at = at, !.code = code, !.report = desk.report]
         /\ \A at, report : [desk EXCEPT !.at = at, !.report = report]
              = [desk EXCEPT !.at = at, !.code = desk.code, !.report = report]
         /\ \A at : [desk EXCEPT !.at = at]
              = [desk EXCEPT !.at = at, !.code = desk.code, !.report = desk.report]
BY DEF DeskInv, TypeOK

\* An exit code of a failure, or of an interruption, tells nothing.
LEMMA LeavesKeeps ==
  ASSUME DeskInv, UNCHANGED <<limit, runs, thread, fetches, exits>>, desk.at # "off",
         NEW code \in Codes, Leaves(code), Truly(desk.key, code)
  PROVE  DeskInv'
<1>1. desk.report \in Told
      /\ desk' = [desk EXCEPT !.at = "closing", !.code = code, !.report = desk.report]
  BY DeskFacts, ZenonT(30) DEF Leaves
<1>2. QED BY <1>1, DeskGoes

LEMMA OpensKeeps == ASSUME DeskInv, Opens PROVE DeskInv'
<1>1. UNCHANGED <<limit, runs, thread, fetches, exits>> /\ desk.at # "off"
  BY DEF Opens
<1>2. CASE desk' = [desk EXCEPT !.at = "claiming"]
  <2>1. /\ desk.code \in Codes /\ desk.report \in Told
        /\ desk' = [desk EXCEPT !.at = "claiming", !.code = desk.code, !.report = desk.report]
    BY <1>2, DeskFacts
  <2>2. QED BY <1>1, <2>1, DeskGoes
<1>3. CASE Leaves(2)
  BY <1>1, <1>3, LeavesKeeps DEF Truly, Codes
<1>4. QED BY <1>2, <1>3 DEF Opens

LEMMA ReportKeeps == ASSUME DeskInv, Report PROVE DeskInv'
<1>1. UNCHANGED <<limit, runs, thread, fetches, exits>> /\ desk.at = "printing"
  BY DEF Report
<1>2. PICK code \in {0, 1} : Leaves(code) /\ (code = 0 <=> desk.report.ready)
  BY DEF Report
<1>3. Truly(desk.key, code) /\ code \in Codes
  BY <1>1, <1>2 DEF Truly, DeskInv, DeskOK, Codes
<1>4. QED BY <1>1, <1>2, <1>3, LeavesKeeps

LEMMA CloseKeeps == ASSUME Settings, DeskInv, Close PROVE DeskInv'
<1> USE DEF DeskInv
<1>1. PICK k \in Keys : k = desk.key
  BY DEF TypeOK, Close
<1>2. PICK code \in Codes : /\ exits' = exits \cup {[key |-> k, code |-> code]}
                            /\ code = desk.code \/ code = 2
  BY <1>1 DEF Close, TypeOK, Codes
<1>3. UNCHANGED <<limit, runs, thread, fetches>> /\ desk' = Off
  BY DEF Close
<1>4. /\ desk' \in [at : {"off", "opening", "claiming", "printing", "closing"},
                    key : Keys \cup {"none"}, input : Seq(Message), turn : Seq(Message),
                    report : Told, code : Codes]
      /\ desk'.at = "off"
  <2>1. <<>> \in Seq(Message)
    OBVIOUS
  <2>2. QED BY <1>3, <2>1 DEF Off, NoReport, Told, Codes
<1>5. DeskOK' /\ exits' \in SUBSET [key : Keys, code : Codes]
  BY <1>2, <1>4 DEF DeskOK, TypeOK
<1>6. ExitsOK'
  <2>1. Truly(k, code)
    BY <1>1, <1>2 DEF DeskOK, Truly, Close
  <2>2. \A e \in exits' : e \in exits \/ (e.key = k /\ e.code = code)
    BY <1>2
  <2>3. QED BY <1>3, <2>1, <2>2 DEF ExitsOK, Truly
<1>7. QED BY <1>3, <1>4, <1>5, <1>6, DeskMoves

LEMMA CrashKeeps == ASSUME DeskInv, Crash PROVE DeskInv'
<1>1. UNCHANGED <<limit, runs, thread, fetches, exits>> /\ desk' = Off
  BY DEF Crash
<1>2. /\ desk' \in [at : {"off", "opening", "claiming", "printing", "closing"},
                    key : Keys \cup {"none"}, input : Seq(Message), turn : Seq(Message),
                    report : Told, code : Codes]
      /\ desk'.at = "off"
  <2>1. <<>> \in Seq(Message)
    OBVIOUS
  <2>2. QED BY <1>1, <2>1 DEF Off, NoReport, Told, Codes
<1>3. DeskOK' /\ ExitsOK'
  BY <1>1, <1>2 DEF DeskInv, DeskOK, ExitsOK, Truly
<1>4. QED BY <1>1, <1>2, <1>3, DeskMoves DEF DeskInv, TypeOK


\* A key that nobody has used is taken, and the thread freed of a run whose lease ran out.
LEMMA Claimed ==
  ASSUME Settings, DeskInv, desk.at = "claiming", NEW k \in Keys, k = desk.key, Unclaimed(k),
         UNCHANGED <<limit, thread, fetches, exits>>,
         runs' = [other \in Keys |->
                    IF other = k THEN [NoRun EXCEPT !.status = "active"]
                    ELSE IF Active(other) THEN [runs[other] EXCEPT !.status = "failed",
                                                                   !.why = "other"]
                    ELSE runs[other]],
         desk' = [desk EXCEPT !.at = "selecting"]
  PROVE  DeskInv'
<1> USE DEF DeskInv
<1> DEFINE Row == [status : {"none", "active", "failed", "succeeded"}, report : Told,
                   why : {"none", "other", "refused"}]
<1>1. runs \in [Keys -> Row] /\ runs[k].status = "none"
  BY DEF TypeOK, Unclaimed
<1>2. desk'.at = "selecting" /\ desk'.key = k
  BY DEF TypeOK
<1>3. ASSUME NEW q \in Keys
      PROVE  /\ runs'[q] \in Row /\ (runs'[q].status = "none" => runs[q].status = "none")
             /\ runs'[q].why \in {"none", "other", runs[q].why}
             /\ runs'[q].status = "succeeded" <=> runs[q].status = "succeeded"
             /\ runs[q].status = "succeeded" => runs'[q] = runs[q]
             /\ q = k => runs'[q].status = "active"
  <2> DEFINE row == runs[q]
  <2>1. row \in Row /\ (q = k => row.status = "none")
    BY <1>1
  <2>2. runs'[q] = IF q = k THEN [NoRun EXCEPT !.status = "active"]
                   ELSE IF row.status = "active" THEN [row EXCEPT !.status = "failed",
                                                                  !.why = "other"]
                   ELSE row
    BY DEF Active
  <2>3. [NoRun EXCEPT !.status = "active"] \in Row
    BY DEF NoRun, NoReport, Told
  <2> HIDE DEF row
  <2>4. /\ runs'[q] \in Row /\ (runs'[q].status = "none" => row.status = "none")
        /\ runs'[q].why \in {"none", "other", row.why}
        /\ runs'[q].status = "succeeded" <=> row.status = "succeeded"
        /\ row.status = "succeeded" => runs'[q] = row
        /\ q = k => runs'[q].status = "active"
    <3>1. CASE q = k
      BY <2>1, <2>2, <2>3, <3>1 DEF NoRun
    <3>2. CASE q # k /\ row.status = "active"
      BY <2>1, <2>2, <3>2
    <3>3. CASE q # k /\ row.status # "active"
      BY <2>1, <2>2, <3>3
    <3>4. QED BY <3>1, <3>2, <3>3
  <2>5. QED BY <2>4 DEF row
<1>4. TypeOK'
  <2>1. runs' \in [Keys -> Row]
    BY <1>3
  <2>2. QED BY <2>1 DEF TypeOK
<1> HIDE DEF Row
<1>5. ThreadOK'
  <2>1. \A q \in Keys : Stored(q)'
    BY <1>3, StoredStays DEF ThreadOK
  <2>2. QED BY <2>1 DEF ThreadOK
<1>6. DeskOK'
  BY <1>2, <1>3 DEF DeskOK
<1>7. ExitsOK'
  <2>1. ASSUME NEW e \in exits PROVE Truly(e.key, e.code)'
    <3>1. e.key \in Keys /\ Truly(e.key, e.code)
      BY DEF TypeOK, ExitsOK
    <3>2. QED BY <1>3, <3>1 DEF Truly
  <2>2. QED BY <2>1 DEF ExitsOK
<1>8. FetchOK'
  <2>1. ASSUME NEW q \in Keys
        PROVE  fetches[q] = 1 => runs'[q].status # "none" /\ q # k
    BY <1>1, <1>3, ZenonT(30) DEF FetchOK
  <2>2. QED BY <1>2, <2>1 DEF FetchOK, About
<1>9. TurnOK'
  BY <1>2 DEF TurnOK
<1>10. NoneRefused'
  <2>1. Roomy' => Roomy
    BY DEF Roomy
  <2>2. ASSUME NEW q \in Keys, runs[q].why # "refused" PROVE runs'[q].why # "refused"
    BY <1>3, <2>2
  <2>3. QED BY <2>1, <2>2 DEF NoneRefused
<1>11. QED BY <1>4, <1>5, <1>6, <1>7, <1>8, <1>9, <1>10

LEMMA ClaimKeeps == ASSUME Settings, DeskInv, Claim PROVE DeskInv'
<1>1. PICK k \in Keys : k = desk.key
  BY DEF DeskInv, TypeOK, Claim
<1>2. desk.at = "claiming" /\ UNCHANGED <<limit, thread, fetches, exits>>
  BY DEF Claim
<1>3. CASE /\ runs[k].status = "succeeded" /\ UNCHANGED runs
           /\ desk' = [desk EXCEPT !.at = "printing", !.report = runs[k].report]
  <2>1. runs[k].report \in Told
    BY DEF DeskInv, TypeOK
  <2>2. /\ desk.code \in Codes
        /\ desk' = [desk EXCEPT !.at = "printing", !.code = desk.code, !.report = runs[k].report]
    BY <1>3, DeskFacts, ZenonT(30)
  <2>3. QED BY <1>1, <1>2, <1>3, <2>1, <2>2, DeskGoes
<1>4. CASE Leaves(2) /\ UNCHANGED runs
  BY <1>2, <1>4, LeavesKeeps DEF Truly, Codes
<1>5. CASE Active(k) /\ runs' = Settled(k, "failed", "other") /\ Leaves(2)
  <2>1. Fails("other", 2)
    BY <1>1, <1>5 DEF Fails
  <2>2. QED BY <1>1, <1>2, <1>5, <2>1, FailsKeeps DEF Active
<1>6. CASE /\ Unclaimed(k)
           /\ runs' = [other \in Keys |->
                         IF other = k THEN [NoRun EXCEPT !.status = "active"]
                         ELSE IF Active(other) THEN [runs[other] EXCEPT !.status = "failed",
                                                                        !.why = "other"]
                         ELSE runs[other]]
           /\ desk' = [desk EXCEPT !.at = "selecting"]
  BY <1>1, <1>2, <1>6, Claimed
<1>7. QED BY <1>1, <1>3, <1>4, <1>5, <1>6 DEF Claim

\* The invocation's process reaches the next of its awaits with its run active.
LEMMA TurnGoes ==
  ASSUME DeskInv, UNCHANGED <<limit, runs, thread, exits>>,
         desk.at \in {"selecting", "asking", "fetching"},
         desk'.at \in {"asking", "fetching", "saving"}, desk'.key = desk.key,
         TypeOK', FetchOK', TurnOK'
  PROVE  DeskInv'
<1> USE DEF DeskInv
<1>1. ThreadOK'
  <2>1. \A q \in Keys : Stored(q)'
    BY StoredStays DEF ThreadOK
  <2>2. QED BY <2>1 DEF ThreadOK
<1>2. DeskOK' /\ ExitsOK' /\ NoneRefused'
  BY DEF DeskOK, ExitsOK, Truly, NoneRefused, Roomy
<1>3. QED BY <1>1, <1>2

LEMMA SelectKeeps == ASSUME Settings, DeskInv, Selects PROVE DeskInv'
<1> USE DEF DeskInv
<1>1. desk.at = "selecting" /\ UNCHANGED <<limit, thread, fetches, exits>>
  BY DEF Selects
<1>2. PICK k \in Keys : k = desk.key
  BY <1>1 DEF TypeOK
<1>3. PICK bytes \in RequestBytes :
        LET request == <<Request(bytes)>>
            selected == Window!Select(thread, request)
        IN IF selected.kind = "raised" THEN Fails("other", 2)
           ELSE /\ desk' = [desk EXCEPT !.at = "asking", !.turn = request,
                              !.input = Window!Chosen(thread \o request, selected.places)]
                /\ UNCHANGED runs
  BY DEF Selects
<1> DEFINE request == <<Request(bytes)>>
           input == Window!Chosen(thread \o request, Window!Select(thread, request).places)
<1>4. CASE Window!Select(thread, request).kind = "raised"
  <2>1. Fails("other", 2) /\ runs[desk.key].status = "active"
    BY <1>1, <1>3, <1>4 DEF DeskOK
  <2>2. QED BY <1>1, <2>1, FailsKeeps
<1>5. CASE Window!Select(thread, request).kind # "raised"
  <2>1. /\ desk' = [desk EXCEPT !.at = "asking", !.turn = request, !.input = input]
        /\ UNCHANGED runs
    BY <1>3, <1>5
  <2>2. /\ input \in Seq(Message) /\ input # <<>> /\ input[Len(input)] = Request(bytes)
        /\ CanonicalSize(input) <= ContextBytes
    BY <1>5, Delivers
  <2>3. Request(bytes) \in Message /\ Asked(Request(bytes)) /\ Request(bytes).role = "user"
    <3>1. bytes \in Nat /\ <<>> \in Seq(STRING)
      BY DEF Settings
    <3>2. IsMessage(Encoded("user", <<>>, bytes), "user", <<>>, bytes)
      BY <3>1, EncodedIs
    <3>3. QED BY <3>2 DEF Request, IsMessage, Asked
  <2>4. request \in Seq(Message) /\ Len(request) = 1 /\ request[1] = Request(bytes)
    BY <2>3
  <2> HIDE DEF input, request
  <2>5. /\ desk'.at = "asking" /\ desk'.key = k /\ desk'.turn = request /\ desk'.input = input
        /\ TypeOK'
    BY <1>1, <1>2, <2>1, <2>2, <2>4 DEF TypeOK
  <2>6. TurnOK'
    BY <2>2, <2>3, <2>4, <2>5 DEF TurnOK, Turned, CanonicalSize, Window!Bytes, Window!Total,
       Window!Sized
  <2>7. FetchOK'
    <3>1. ASSUME NEW q \in Keys PROVE fetches[q] = 1 => q # k
      BY <1>1, <1>2 DEF FetchOK, About
    <3>2. QED BY <1>1, <2>1, <2>5, <3>1 DEF FetchOK, About
  <2>8. QED BY <1>1, <1>2, <2>1, <2>5, <2>6, <2>7, TurnGoes
<1>6. QED BY <1>4, <1>5


LEMMA KeyIds ==
  ASSUME Settings, NEW k \in Keys PROVE <<k>> \in Seq(STRING)
<1>1. k \in STRING
  BY DEF Settings
<1>2. \A S : \A e \in S : <<e>> \in Seq(S)
  OBVIOUS
<1>3. QED BY <1>1, <1>2, Zenon

\* A message has been added to the model's input, and to a turn of n messages.
Grown(message, n, at) ==
  /\ desk'.at = at /\ desk'.key = desk.key
  /\ desk' \in [at : {"off", "opening", "claiming", "selecting", "asking", "fetching",
                      "saving", "printing", "closing"},
                key : Keys \cup {"none"}, input : Seq(Message), turn : Seq(Message),
                report : Told, code : Codes]
  /\ Len(desk'.turn) = n + 1 /\ desk'.turn[n + 1] = message
  /\ \A i \in 1 .. n : desk'.turn[i] = desk.turn[i]
  /\ desk'.input # <<>> /\ desk'.input[Len(desk'.input)] = message
  /\ CanonicalSize(desk'.input) = CanonicalSize(desk.input) + message.size + 1

LEMMA Grows ==
  ASSUME Settings, DeskInv, NEW message \in Message, NEW n \in Nat, Turned(n),
         NEW at \in {"asking", "fetching", "saving"}, NEW report \in Told,
         desk.at \in {"asking", "fetching"},
         desk' = [desk EXCEPT !.at = at, !.report = report,
                    !.input = Append(desk.input, message), !.turn = Append(desk.turn, message)]
  PROVE  Grown(message, n, at)
<1> USE DEF DeskInv
<1> DEFINE input == desk.input
           turn == desk.turn
<1>1. input \in Seq(Message) /\ turn \in Seq(Message) /\ input # <<>> /\ Len(turn) = n
  BY DEF TypeOK, TurnOK, Turned
<1>2. /\ desk' = [desk EXCEPT !.at = at, !.report = report,
                    !.input = Append(input, message), !.turn = Append(turn, message)]
      /\ \A i \in 1 .. n : turn[i] = desk.turn[i]
  OBVIOUS
<1> HIDE DEF input, turn
<1>3. Append(input, message) \in Seq(Message) /\ Append(turn, message) \in Seq(Message)
  BY <1>1, AppendFacts
<1>4. /\ desk'.at = at /\ desk'.key = desk.key
      /\ desk'.input = Append(input, message) /\ desk'.turn = Append(turn, message)
      /\ desk' \in [at : {"off", "opening", "claiming", "selecting", "asking", "fetching",
                          "saving", "printing", "closing"},
                    key : Keys \cup {"none"}, input : Seq(Message), turn : Seq(Message),
                    report : Told, code : Codes]
  BY <1>2, <1>3 DEF TypeOK
<1>5. /\ Len(desk'.turn) = n + 1 /\ desk'.turn[n + 1] = message
      /\ \A i \in 1 .. n : desk'.turn[i] = turn[i]
  BY <1>1, <1>4, AppendFacts
<1>6. /\ Len(input) \in Nat /\ Len(desk'.input) = Len(input) + 1
      /\ desk'.input[Len(input) + 1] = message /\ desk'.input # <<>>
  BY <1>1, <1>4, AppendFacts, SeqFacts
<1>7. CanonicalSize(desk'.input) = CanonicalSize(input) + message.size + 1
  BY <1>1, <1>4, SizeAppend, ZenonT(30)
<1>8. QED BY <1>2, <1>4, <1>5, <1>6, <1>7 DEF Grown, input

\* The checks of a roomy budget are passed.
LEMMA RefusedNotRoomy ==
  ASSUME Settings, DeskInv, desk.at = "asking", ~ Check(desk.input)
  PROVE  ~ Roomy
<1> USE DEF DeskInv
<1> DEFINE size == CanonicalSize(desk.input)
<1>1. size \in Nat /\ limit \in Nat /\ ContextBytes \in Nat /\ CallBytes \in Nat
      /\ ReportBytes \subseteq Nat
  BY SizeNat DEF TypeOK, Settings
<1>2. \/ size <= ContextBytes
      \/ \E bytes \in ReportBytes : size <= ContextBytes + CallBytes + bytes + 2
  BY DEF TurnOK
<1>3. ~ (size <= limit)
  BY DEF Check
<1> HIDE DEF size
<1>4. PICK bytes \in ReportBytes : size <= ContextBytes + CallBytes + bytes + 2
  <2>1. CASE size <= ContextBytes
    BY <1>1, <2>1 DEF Settings
  <2>2. QED BY <1>2, <2>1
<1>5. ~ (limit >= ContextBytes + CallBytes + bytes + 2)
  BY <1>1, <1>3, <1>4
<1>6. QED BY <1>5 DEF Roomy

LEMMA AskKeeps == ASSUME Settings, DeskInv, Ask PROVE DeskInv'
<1> USE DEF DeskInv
<1>1. desk.at = "asking" /\ UNCHANGED <<limit, thread, exits>>
  BY DEF Ask
<1>2. PICK k \in Keys : k = desk.key
  BY <1>1 DEF TypeOK
<1>3. k \in STRING /\ CallBytes \in Nat /\ AnswerBytes \in Nat /\ desk.report \in Told
      /\ fetches \in [Keys -> Nat] /\ desk = [desk EXCEPT !.report = desk.report]
  BY DEF Settings, TypeOK
<1>4. CASE ~ Check(desk.input) /\ Fails("refused", 2) /\ UNCHANGED fetches
  BY <1>1, <1>4, RefusedNotRoomy, FailsKeeps DEF DeskOK
<1>5. CASE /\ ~ Answered /\ Says(Route(desk.input), "fetching") /\ UNCHANGED runs
           /\ fetches' = [fetches EXCEPT ![desk.key] = @ + 1]
  <2> DEFINE message == Encoded("assistant", <<k>>, CallBytes)
  <2>1. IsMessage(message, "assistant", <<k>>, CallBytes)
    BY <1>3, KeyIds, EncodedIs
  <2>2. message = Route(desk.input)
    BY <1>2, <1>5 DEF Route, Answered
  <2> HIDE DEF message
  <2>3. Turned(1) /\ CanonicalSize(desk.input) <= ContextBytes
    BY <1>1, <1>5 DEF TurnOK, Answered, Last
  <2>4. desk' = [desk EXCEPT !.at = "fetching", !.report = desk.report,
                   !.input = Append(desk.input, message), !.turn = Append(desk.turn, message)]
    BY <1>3, <1>5, <2>2 DEF Says, TypeOK
  <2>5. /\ desk'.at = "fetching" /\ desk'.key = k
        /\ desk' \in [at : {"off", "opening", "claiming", "selecting", "asking", "fetching",
                            "saving", "printing", "closing"},
                      key : Keys \cup {"none"}, input : Seq(Message), turn : Seq(Message),
                      report : Told, code : Codes]
        /\ Len(desk'.turn) = 2 /\ desk'.turn[2] = message /\ desk'.turn[1] = desk.turn[1]
        /\ desk'.input # <<>>
        /\ CanonicalSize(desk'.input) = CanonicalSize(desk.input) + message.size + 1
    <3>1. Grown(message, 1, "fetching")
      BY <1>1, <1>3, <2>1, <2>3, <2>4, Grows DEF IsMessage
    <3>2. QED BY <1>2, <3>1 DEF Grown
  <2>6. TypeOK'
    BY <1>1, <1>2, <1>3, <1>5, <2>5 DEF TypeOK
  <2>7. CanonicalSize(desk'.input) <= ContextBytes + CallBytes + 1
    <3>1. CanonicalSize(desk.input) \in Nat /\ ContextBytes \in Nat
      BY SizeNat DEF TypeOK, Settings
    <3>2. QED BY <1>3, <2>1, <2>3, <2>5, <3>1 DEF IsMessage
  <2>8. Turned(2)'
    BY <1>2, <2>1, <2>3, <2>5 DEF Turned, IsMessage, Calls
  <2>9. TurnOK'
    BY <2>5, <2>7, <2>8 DEF TurnOK, CanonicalSize, Window!Bytes, Window!Total, Window!Sized
  <2>10. FetchOK'
    <3>1. /\ \A q \in Keys : fetches[q] <= 1 /\ (fetches[q] = 1 => runs[q].status # "none")
          /\ fetches[k] # 1 /\ runs[k].status = "active"
      BY <1>1, <1>2, <1>5 DEF FetchOK, About, DeskOK
    <3>2. \A q \in Keys : fetches'[q] <= 1 /\ (fetches'[q] = 1 => runs[q].status # "none")
      BY <1>2, <1>3, <1>5, <3>1
    <3>3. QED BY <1>5, <2>5, <3>2 DEF FetchOK, About
  <2>11. QED BY <1>1, <1>2, <1>5, <2>5, <2>6, <2>9, <2>10, TurnGoes
<1>6. CASE Answered /\ Says(Route(desk.input), "saving") /\ UNCHANGED <<runs, fetches>>
  <2> DEFINE message == Encoded("assistant", <<>>, AnswerBytes)
  <2>1. IsMessage(message, "assistant", <<>>, AnswerBytes)
    <3>1. <<>> \in Seq(STRING)
      OBVIOUS
    <3>2. QED BY <1>3, <3>1, EncodedIs
  <2>2. message = Route(desk.input)
    BY <1>6 DEF Route, Answered
  <2> HIDE DEF message
  <2>3. Turned(3)
    BY <1>1, <1>6 DEF TurnOK, Answered, Last
  <2>4. desk' = [desk EXCEPT !.at = "saving", !.report = desk.report,
                   !.input = Append(desk.input, message), !.turn = Append(desk.turn, message)]
    BY <1>3, <1>6, <2>2 DEF Says, TypeOK
  <2>5. /\ desk'.at = "saving" /\ desk'.key = k
        /\ desk' \in [at : {"off", "opening", "claiming", "selecting", "asking", "fetching",
                            "saving", "printing", "closing"},
                      key : Keys \cup {"none"}, input : Seq(Message), turn : Seq(Message),
                      report : Told, code : Codes]
        /\ Len(desk'.turn) = 4 /\ desk'.turn[4] = message
        /\ \A i \in 1 .. 3 : desk'.turn[i] = desk.turn[i]
    <3>1. Grown(message, 3, "saving")
      BY <1>1, <1>3, <2>1, <2>3, <2>4, Grows DEF IsMessage
    <3>2. QED BY <1>2, <3>1 DEF Grown
  <2>6. TypeOK'
    BY <1>1, <1>6, <2>5 DEF TypeOK
  <2>7. Turned(4)'
    BY <1>2, <2>1, <2>3, <2>5 DEF Turned, IsMessage
  <2>8. TurnOK' /\ FetchOK'
    BY <1>6, <2>5, <2>7 DEF TurnOK, FetchOK, About
  <2>9. QED BY <1>1, <1>2, <1>6, <2>5, <2>6, <2>8, TurnGoes
<1>7. QED BY <1>4, <1>5, <1>6 DEF Ask


LEMMA FetchKeeps == ASSUME Settings, DeskInv, Fetch PROVE DeskInv'
<1> USE DEF DeskInv
<1>1. desk.at = "fetching" /\ UNCHANGED <<limit, thread, fetches, exits>>
  BY DEF Fetch
<1>2. PICK k \in Keys : k = desk.key
  BY <1>1 DEF TypeOK
<1>3. CASE Fails("other", 2)
  BY <1>1, <1>3, FailsKeeps DEF DeskOK
<1>4. CASE /\ UNCHANGED runs
           /\ \E report \in Reports :
                desk' = [desk EXCEPT !.at = "asking", !.report = report,
                           !.input = Append(@, Encoded("tool", <<desk.key>>, report.bytes)),
                           !.turn = Append(@, Encoded("tool", <<desk.key>>, report.bytes))]
  <2>1. PICK report \in Reports :
          desk' = [desk EXCEPT !.at = "asking", !.report = report,
                     !.input = Append(desk.input, Encoded("tool", <<k>>, report.bytes)),
                     !.turn = Append(desk.turn, Encoded("tool", <<k>>, report.bytes))]
    BY <1>2, <1>4
  <2>2. PICK bytes \in ReportBytes : bytes = report.bytes
    BY DEF Reports
  <2>3. k \in STRING /\ bytes \in Nat /\ CallBytes \in Nat /\ ContextBytes \in Nat
        /\ report \in Told
    BY DEF Settings, Reports, Told
  <2> DEFINE message == Encoded("tool", <<k>>, report.bytes)
  <2>4. IsMessage(message, "tool", <<k>>, bytes)
    BY <2>2, <2>3, KeyIds, EncodedIs
  <2>5. desk' = [desk EXCEPT !.at = "asking", !.report = report,
                   !.input = Append(desk.input, message), !.turn = Append(desk.turn, message)]
    BY <2>1
  <2> HIDE DEF message
  <2>6. Turned(2) /\ CanonicalSize(desk.input) <= ContextBytes + CallBytes + 1
    BY <1>1 DEF TurnOK
  <2>7. /\ desk'.at = "asking" /\ desk'.key = k
        /\ desk' \in [at : {"off", "opening", "claiming", "selecting", "asking", "fetching",
                            "saving", "printing", "closing"},
                      key : Keys \cup {"none"}, input : Seq(Message), turn : Seq(Message),
                      report : Told, code : Codes]
        /\ Len(desk'.turn) = 3 /\ desk'.turn[3] = message
        /\ \A i \in 1 .. 2 : desk'.turn[i] = desk.turn[i]
        /\ desk'.input # <<>> /\ desk'.input[Len(desk'.input)] = message
        /\ CanonicalSize(desk'.input) = CanonicalSize(desk.input) + message.size + 1
    <3>1. Grown(message, 2, "asking")
      BY <1>1, <2>3, <2>4, <2>5, <2>6, Grows DEF IsMessage
    <3>2. QED BY <1>2, <3>1 DEF Grown
  <2>8. TypeOK'
    BY <1>1, <1>4, <2>7 DEF TypeOK
  <2>9. CanonicalSize(desk'.input) <= ContextBytes + CallBytes + bytes + 2
    <3>1. CanonicalSize(desk.input) \in Nat
      BY SizeNat DEF TypeOK
    <3>2. QED BY <2>3, <2>4, <2>6, <2>7, <3>1 DEF IsMessage
  <2>10. Turned(3)' /\ desk'.input[Len(desk'.input)].role = "tool"
    BY <1>2, <2>4, <2>6, <2>7 DEF Turned, IsMessage, Finds
  <2>11. TurnOK'
    BY <2>7, <2>9, <2>10
    DEF TurnOK, CanonicalSize, Window!Bytes, Window!Total, Window!Sized
  <2>12. FetchOK'
    BY <1>1, <1>4, <2>7, <2>10 DEF FetchOK, About, Answered, Last
  <2>13. QED BY <1>1, <1>2, <1>4, <2>7, <2>8, <2>11, <2>12, TurnGoes
<1>5. QED BY <1>3, <1>4 DEF Fetch

LEMMA SaveKeeps == ASSUME Settings, DeskInv, Save PROVE DeskInv'
<1>1. desk.at = "saving" /\ UNCHANGED <<limit, fetches, exits>>
  BY DEF Save
<1>2. CASE Saved /\ desk' = [desk EXCEPT !.at = "printing"]
  BY <1>1, <1>2, SavedKeeps
<1>3. CASE Fails("other", 2) /\ UNCHANGED thread
  BY <1>1, <1>3, FailsKeeps DEF DeskInv, DeskOK
<1>4. QED BY <1>2, <1>3 DEF Save

LEMMA InterruptedKeeps == ASSUME Settings, DeskInv, Interrupted PROVE DeskInv'
<1>1. desk.at # "off" /\ UNCHANGED <<limit, fetches, exits>>
  BY DEF Interrupted
<1>2. CASE desk.at \in {"selecting", "asking", "fetching", "saving"} /\ Fails("other", 130)
           /\ UNCHANGED thread
  BY <1>1, <1>2, FailsKeeps DEF DeskInv, DeskOK
<1>3. CASE desk.at = "saving" /\ Saved /\ Leaves(130)
  BY <1>1, <1>3, SavedKeeps DEF Leaves
<1>4. CASE Leaves(130) /\ UNCHANGED <<runs, thread>>
  BY <1>1, <1>4, LeavesKeeps DEF Truly, Codes
<1>5. QED BY <1>2, <1>3, <1>4 DEF Interrupted

LEMMA DeskSteps == Settings /\ DeskInv /\ [DeskNext]_desk_vars => DeskInv'
<1> SUFFICES ASSUME Settings, DeskInv, [DeskNext]_desk_vars PROVE DeskInv'
  OBVIOUS
<1>1. CASE Start
  BY <1>1, StartKeeps
<1>2. CASE Opens
  BY <1>2, OpensKeeps
<1>3. CASE Claim
  BY <1>3, ClaimKeeps
<1>4. CASE Selects
  BY <1>4, SelectKeeps
<1>5. CASE Ask
  BY <1>5, AskKeeps
<1>6. CASE Fetch
  BY <1>6, FetchKeeps
<1>7. CASE Save
  BY <1>7, SaveKeeps
<1>8. CASE Report
  BY <1>8, ReportKeeps
<1>9. CASE Interrupted
  BY <1>9, InterruptedKeeps
<1>10. CASE Close
  BY <1>10, CloseKeeps
<1>11. CASE Crash
  BY <1>11, CrashKeeps
<1>12. CASE UNCHANGED desk_vars
  <2> USE <1>12 DEF desk_vars, DeskInv
  <2>1. TypeOK' /\ NoneRefused'
    BY DEF TypeOK, NoneRefused, Roomy
  <2>2. ThreadOK'
    BY DEF ThreadOK, Stored, Exchange
  <2>3. DeskOK' /\ ExitsOK'
    BY DEF DeskOK, Truly, ExitsOK
  <2>4. FetchOK'
    BY DEF FetchOK, About, Answered
  <2>5. TurnOK'
    <3>1. CanonicalSize(desk.input)' = CanonicalSize(desk.input)
      BY DEF CanonicalSize, Window!Bytes, Window!Total, Window!Sized
    <3>2. \A n \in 1 .. 4 : Turned(n)' <=> Turned(n)
      BY DEF Turned
    <3>3. TurnOK
      OBVIOUS
    <3>4. QED BY <3>1, <3>2, <3>3 DEF TurnOK
  <2>6. QED BY <2>1, <2>2, <2>3, <2>4, <2>5
<1>13. QED BY <1>1, <1>2, <1>3, <1>4, <1>5, <1>6, <1>7, <1>8, <1>9, <1>10, <1>11, <1>12
           DEF DeskNext

-----------------------------------------------------------------------------
(* What follows.                                                             *)

LEMMA DeskTells == Settings /\ DeskInv => ReviewedOnce
<1> SUFFICES ASSUME Settings, DeskInv PROVE ReviewedOnce
  OBVIOUS
<1> USE DEF DeskInv
<1>1. \A k \in Keys : fetches[k] <= 1
  BY DEF FetchOK
<1>2. \A e \in exits : e.code \in {0, 1} =>
        runs[e.key].status = "succeeded" /\ (e.code = 0 <=> runs[e.key].report.ready)
  BY DEF ExitsOK, Truly
<1>3. ASSUME NEW k \in Keys
      PROVE  LET exchange == {n \in DOMAIN thread : thread[n].ids = <<k>>}
             IN IF runs[k].status = "succeeded"
                THEN \E n \in exchange : /\ exchange = {n, n + 1}
                                         /\ thread[n].role = "assistant"
                                         /\ thread[n + 1].role = "tool"
                ELSE exchange = {}
  <2>1. DOMAIN thread = 1 .. Len(thread)
    BY SeqFacts DEF TypeOK
  <2>2. {n \in DOMAIN thread : thread[n].ids = <<k>>} = Exchange(k)
    BY <2>1 DEF Exchange
  <2>3. Stored(k)
    BY DEF ThreadOK
  <2>4. QED BY <2>2, <2>3 DEF Stored
<1>4. (\A bytes \in ReportBytes : limit >= ContextBytes + CallBytes + bytes + 2)
        => \A k \in Keys : runs[k].why # "refused"
  BY DEF NoneRefused, Roomy
<1>5. QED BY <1>1, <1>2, <1>3, <1>4 DEF ReviewedOnce

\* However often a review is started, interrupted, killed and started again with its key
\* (release_desk application() and main()), its release is fetched at most once, exit codes
\* 0 and 1 are the report of a run that has succeeded, the thread holds that run's exchange
\* once and nothing of any other, and a budget with room for the context window and one
\* exchange refuses none: ReviewedOnce holds for any keys, sizes, window, budget and number
\* of processes.
THEOREM ReviewsHappenOnce == DeskSpec => []ReviewedOnce
<1>1. DeskInit => DeskInv
  BY DeskAssumption, DeskStarts
<1>2. DeskInv /\ [DeskNext]_desk_vars => DeskInv'
  BY DeskAssumption, DeskSteps
<1>3. DeskInv => ReviewedOnce
  BY DeskAssumption, DeskTells
<1>4. QED BY <1>1, <1>2, <1>3, PTL DEF DeskSpec
=============================================================================
