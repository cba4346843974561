--------------------------- MODULE ContextWindow ---------------------------
(***************************************************************************)
(* Which messages of a conversation an agent is given                      *)
(* (src/agent_runtime/context.py).                                         *)
(*                                                                         *)
(* Select is ContextWindow.select(), which has all the history in memory.  *)
(* The state machine is select_stream(): the store yields one message      *)
(* after the other, then come the request's messages, then the result;     *)
(* what it keeps in between is in "w".  Promised says what both return,    *)
(* without groups, queues or running totals.                               *)
(*                                                                         *)
(* A message is its role, the ids of the tool calls or tool results it     *)
(* carries, the bytes of its JSON, and whether it can be encoded at all.   *)
(* Messages are named by their place, so a selection is a set of places.   *)
(***************************************************************************)
EXTENDS Integers, FiniteSets, Sequences, SequencesExt

CONSTANTS Messages,     \* what a store or a caller may hand over
          MaxBytes,     \* ContextWindow.max_bytes
          MaxMessages   \* bound: messages in history and request together

ASSUME BudgetAssumption == MaxBytes \in Nat /\ MaxBytes >= 2 /\ MaxMessages \in Nat

\* Only an assistant calls tools, and only a tool's message has results.
Message == [role : {"system", "user", "assistant", "tool"}, ids : Seq(STRING), size : Nat,
            plain : BOOLEAN]
ASSUME MessagesAssumption == \A m \in Messages :
         m \in Message /\ (m.role \in {"system", "user"} => m.ids = <<>>)

VARIABLES
    history,   \* what the store has yielded
    current,   \* the request's messages added so far
    w,         \* _StreamingSelection
    result     \* what select_stream() returned or raised

vars == <<history, current, w, result>>

-----------------------------------------------------------------------------
\* f[1] + ... + f[n]
Total(f, n) == LET sum[k \in 0 .. n] == IF k = 0 THEN 0 ELSE sum[k - 1] + f[k]
               IN sum[n]
Sized(s, places) ==
  Total([i \in DOMAIN s |-> IF i \in places THEN s[i].size ELSE 0], Len(s))
\* The JSON list of these messages: its brackets and commas, and the messages.
Bytes(s, places) ==
  2 + Sized(s, places) + (IF places = {} THEN 0 ELSE Cardinality(places) - 1)

\* A call of an id that is still open, or a result of none that is.
Broken(m, open) ==
  \/ m.role = "assistant" /\ (~ IsInjective(m.ids) \/ ToSet(m.ids) \cap open # {})
  \/ m.role = "tool" /\ (~ IsInjective(m.ids) \/ ~ ToSet(m.ids) \subseteq open)
\* The calls open after it.
Open(m, open) == IF m.role = "tool" THEN open \ ToSet(m.ids) ELSE open \cup ToSet(m.ids)

Raise(why) == [kind |-> "raised", why |-> why]
Selection(places, input, selected, given, asked, messages, groups) ==
  [kind |-> "selection", places |-> places, input_bytes |-> input,
   selected_bytes |-> selected, history_messages |-> given, request_messages |-> asked,
   omitted_messages |-> messages, omitted_groups |-> groups]
-----------------------------------------------------------------------------
(* What both promise.  A turn may be cut off in front of a message that      *)
(* starts one: a user's message, or the first that is no system message,     *)
(* with no tool call open.  The result is the system messages, the request   *)
(* and all that follows the earliest cut that fits.                          *)

Prefix(s) == LET open[k \in 0 .. Len(s)] ==
                   IF k = 0 THEN {} ELSE Open(s[k], open[k - 1])
             IN open
Spoken(s) == {i \in 1 .. Len(s) : s[i].role # "system"}
Cuts(s, given) ==
  {i \in Spoken(s) : /\ i <= given /\ Prefix(s)[i - 1] = {}
                     /\ s[i].role = "user" \/ \A j \in Spoken(s) : i <= j}
Kept(s, cut) == ((1 .. Len(s)) \ Spoken(s)) \cup cut .. Len(s)

Promised(before, request) ==
  LET s == before \o request
      given == Len(before)
      open == Prefix(s)
      faults == {i \in 1 .. Len(s) : ~ s[i].plain \/ Broken(s[i], open[i - 1])}
      cuts == Cuts(s, given) \cup (IF open[given] = {} THEN {given + 1} ELSE {})
      fitting == {i \in cuts : Bytes(s, Kept(s, i)) <= MaxBytes}
  IN IF faults # {}
     THEN LET first == CHOOSE i \in faults : \A j \in faults : i <= j
          IN Raise(IF s[first].plain THEN "exchange" ELSE "encoding")
     ELSE IF open[Len(s)] # {} THEN Raise("exchange")
     ELSE IF fitting = {} THEN Raise("budget")
     ELSE LET cut == CHOOSE i \in fitting : \A j \in fitting : i <= j
              places == Kept(s, cut)
          IN Selection(places, Bytes(s, DOMAIN s), Bytes(s, places), given, Len(request),
                       Cardinality((1 .. given) \ places),
                       Cardinality({i \in cuts : i < cut}))
-----------------------------------------------------------------------------
(* select()                                                                  *)

\* Fault: a user's message closes a group whatever calls are open.
ClosesAnyway(a, m, boundary) == (m.role = "user" \/ boundary) /\ a.group # {}
Closes(a, m, boundary) ==
  (m.role = "user" \/ boundary) /\ a.open = {} /\ a.group # {}

\* The scan: groups of places, one still open, and the tool calls open.
Unscanned == [groups |-> <<>>, group |-> {}, open |-> {}, error |-> "none"]
Closed(a) == [a EXCEPT !.groups = Append(@, a.group), !.group = {}]
Scanned(a, m, place, boundary) ==
  LET b == IF Closes(a, m, boundary) THEN Closed(a) ELSE a
  IN IF a.error # "none" THEN a
     ELSE IF ~ m.plain THEN [a EXCEPT !.error = "encoding"]
     ELSE IF m.role = "system" THEN b
     ELSE IF Broken(m, a.open) THEN [a EXCEPT !.error = "exchange"]
     ELSE [b EXCEPT !.group = @ \cup {place}, !.open = Open(m, @)]
Scan(s, given) ==
  LET scan[k \in 0 .. Len(s)] ==
        IF k = 0 THEN Unscanned ELSE Scanned(scan[k - 1], s[k], k, k = given + 1)
  IN scan
Groups(a) == IF a.group = {} THEN a.groups ELSE Closed(a).groups

Mandatory(groups, asked) == {g \in DOMAIN groups : groups[g] \cap asked # {}}
Base(s, groups, asked) == ((DOMAIN s) \ Spoken(s)) \cup asked
                          \cup UNION {groups[g] : g \in Mandatory(groups, asked)}
\* A group is taken too, until one does not fit.
Take(a, s, group) ==
  LET bytes == a.bytes + Sized(s, group) + Cardinality(group)
               - (IF a.places = {} THEN 1 ELSE 0)
  IN IF a.stop THEN a
     ELSE IF bytes > MaxBytes THEN [a EXCEPT !.stop = TRUE]
     ELSE [places |-> a.places \cup group, bytes |-> bytes, stop |-> FALSE,
           chosen |-> a.chosen + 1]
\* From the newest group to the oldest.
Taken(s, groups, asked) ==
  LET mandatory == Mandatory(groups, asked)
      base == Base(s, groups, asked)
      taken[n \in 0 .. Len(groups)] ==
        IF n = 0 THEN [places |-> base, bytes |-> Bytes(s, base), stop |-> FALSE,
                       chosen |-> Cardinality(mandatory)]
        ELSE LET g == Len(groups) + 1 - n
             IN IF g \in mandatory THEN taken[n - 1] ELSE Take(taken[n - 1], s, groups[g])
  IN taken[Len(groups)]

Select(before, request) ==
  LET s == before \o request
      given == Len(before)
      asked == given + 1 .. Len(s)
      end == Scan(s, given)[Len(s)]
      groups == Groups(end)
      final == Taken(s, groups, asked)
  IN IF end.error # "none" THEN Raise(end.error)
     ELSE IF end.open # {} THEN Raise("exchange")
     ELSE IF Bytes(s, Base(s, groups, asked)) > MaxBytes THEN Raise("budget")
     ELSE Selection(final.places, Bytes(s, DOMAIN s), final.bytes, given, Len(request),
                    Cardinality((1 .. given) \ final.places), Len(groups) - final.chosen)

\* The messages of a selection, in their order.
Chosen(s, places) ==
  LET chosen[k \in 0 .. Len(s)] ==
        IF k = 0 THEN <<>>
        ELSE IF k \in places THEN Append(chosen[k - 1], s[k]) ELSE chosen[k - 1]
  IN chosen[Len(s)]
-----------------------------------------------------------------------------
(* _StreamingSelection                                                       *)

NewGroup == [entries |-> {}, cost |-> 0, count |-> 0, given |-> 0, mandatory |-> FALSE]
NewWindow ==
  [group |-> NewGroup, optional |-> <<>>, optional_cost |-> 0, required |-> {},
   required_cost |-> 0, required_given |-> 0, overflow |-> FALSE, mandatory_groups |-> 0,
   groups |-> 0, open |-> {}, total |-> 0, failure |-> "none"]

Fits(cost) == (IF cost = 0 THEN 2 ELSE cost + 1) <= MaxBytes

CostOf(groups) == Total([g \in DOMAIN groups |-> groups[g].cost], Len(groups))
\* _trim(): the oldest optional groups go, until the rest fits.
Trimmed(x) ==
  LET left(n) == x.optional_cost - CostOf(SubSeq(x.optional, 1, n))
      n == CHOOSE k \in 0 .. Len(x.optional) :
             /\ k = Len(x.optional) \/ Fits(x.required_cost + left(k))
             /\ \A j \in 0 .. k - 1 : ~ Fits(x.required_cost + left(j))
  IN [x EXCEPT !.optional = SubSeq(x.optional, n + 1, Len(x.optional)),
               !.optional_cost = left(n)]

\* A group is closed, with no regard to whether it fits.
CloseAny(x) ==
  LET g == x.group
      y == [x EXCEPT !.groups = @ + 1, !.group = NewGroup]
  IN IF g.mandatory
     THEN Trimmed([y EXCEPT !.mandatory_groups = @ + 1, !.required_cost = @ + g.cost,
                            !.required_given = @ + g.given,
                            !.required = IF Fits(x.required_cost + g.cost)
                                         THEN @ \cup g.entries ELSE @,
                            !.overflow = @ \/ ~ Fits(x.required_cost + g.cost)])
     ELSE Trimmed([y EXCEPT !.optional = Append(@, g), !.optional_cost = @ + g.cost])
\* Fault: a group that is too large is left out, and older ones fill its place.
CloseSkipping(x) ==
  IF x.group.count > 0 /\ ~ x.group.mandatory /\ ~ Fits(x.required_cost + x.group.cost)
  THEN [x EXCEPT !.groups = @ + 1, !.group = NewGroup]
  ELSE IF x.group.count = 0 THEN x ELSE CloseAny(x)

\* _close_group(): an optional group that does not fit shuts out all older ones.
CloseGroup(x) ==
  LET g == x.group
      y == [x EXCEPT !.groups = @ + 1, !.group = NewGroup]
      cost == x.required_cost + g.cost
  IN IF g.count = 0 THEN x
     ELSE IF g.mandatory
     THEN Trimmed([y EXCEPT !.mandatory_groups = @ + 1, !.required_cost = cost,
                            !.required_given = @ + g.given,
                            !.required = IF Fits(cost) THEN @ \cup g.entries ELSE @,
                            !.overflow = @ \/ ~ Fits(cost)])
     ELSE IF ~ Fits(cost) THEN [y EXCEPT !.optional = <<>>, !.optional_cost = 0]
     ELSE Trimmed([y EXCEPT !.optional = Append(@, g), !.optional_cost = @ + g.cost])

AddSystem(x, m, place, asked) ==
  LET cost == x.required_cost + m.size + 1
  IN Trimmed([x EXCEPT !.required_cost = cost, !.required_given = @ + (IF asked THEN 0 ELSE 1),
                       !.required = IF Fits(cost) THEN @ \cup {place} ELSE @,
                       !.overflow = @ \/ ~ Fits(cost)])

\* Fault: payloads are kept although they can never be selected.
KeepAll(entries, place, cost) == entries \cup {place}
\* A group that has outgrown the budget keeps no payload.
Keep(entries, place, cost) == IF Fits(cost) THEN entries \cup {place} ELSE {}

AddToGroup(x, m, place, asked) ==
  LET cost == x.group.cost + m.size + 1
  IN [x EXCEPT !.group = [entries |-> Keep(x.group.entries, place, cost), cost |-> cost,
                          count |-> x.group.count + 1,
                          given |-> x.group.given + (IF asked THEN 0 ELSE 1),
                          mandatory |-> x.group.mandatory \/ asked],
               !.failure = IF Broken(m, x.open) THEN "exchange" ELSE @,
               !.open = IF Broken(m, x.open) THEN @ ELSE Open(m, @)]

StartsGroup(x, m, boundary) == (m.role = "user" \/ boundary) /\ x.open = {}

\* add(): after a failure the rest is only read.
Add(x, m, place, asked, boundary) ==
  LET y == IF StartsGroup(x, m, boundary) THEN CloseGroup(x) ELSE x
      z == [y EXCEPT !.total = @ + m.size + 1]
  IN IF x.failure # "none" THEN x
     ELSE IF ~ m.plain THEN [x EXCEPT !.failure = "encoding"]
     ELSE IF m.role = "system" THEN AddSystem(z, m, place, asked)
     ELSE AddToGroup(z, m, place, asked)

ListBytes(cost) == IF cost = 0 THEN 2 ELSE cost + 1

\* finish()
Finished(x, given, asked) ==
  LET y == CloseGroup(x)
      retained == Total([g \in DOMAIN y.optional |-> y.optional[g].given], Len(y.optional))
  IN IF x.failure # "none" THEN Raise(x.failure)
     ELSE IF x.open # {} THEN Raise("exchange")
     ELSE IF y.overflow THEN Raise("budget")
     ELSE Selection(y.required \cup UNION {g.entries : g \in ToSet(y.optional)},
                    ListBytes(y.total), ListBytes(y.required_cost + y.optional_cost), given, asked,
                    given - y.required_given - retained,
                    y.groups - y.mandatory_groups - Len(y.optional))
-----------------------------------------------------------------------------
(* select_stream()                                                           *)

Pending == [kind |-> "pending"]
Requesting == [kind |-> "requesting"]   \* the source has ended and is closed

Init == history = <<>> /\ current = <<>> /\ w = NewWindow /\ result = Pending

Place == Len(history) + Len(current) + 1

\* The store's cursor yields a message.
Yields ==
  /\ result = Pending /\ Place <= MaxMessages
  /\ \E m \in Messages : /\ history' = Append(history, m)
                         /\ w' = Add(w, m, Place, FALSE, FALSE)
  /\ UNCHANGED <<current, result>>

\* The scan fails: a row that cannot be read outweighs any earlier failure.
ReadFails ==
  /\ result = Pending
  /\ result' = Raise("read")
  /\ UNCHANGED <<history, current, w>>

Ends == /\ result = Pending
        /\ result' = Requesting
        /\ UNCHANGED <<history, current, w>>

Asks ==
  /\ result = Requesting /\ Place <= MaxMessages
  /\ \E m \in Messages : /\ current' = Append(current, m)
                         /\ w' = Add(w, m, Place, TRUE, current = <<>>)
  /\ UNCHANGED <<history, result>>

Finish ==
  /\ result = Requesting
  /\ result' = Finished(w, Len(history), Len(current))
  /\ UNCHANGED <<history, current, w>>

Next == Yields \/ ReadFails \/ Ends \/ Asks \/ Finish
Spec == Init /\ [][Next]_vars
-----------------------------------------------------------------------------
(* Properties.                                                               *)

\* What select() returns for a history and a request is what is promised: whole turns,
\* the newest that fit, with the system messages and the request, and right counts.
SelectAsPromised ==
  result.kind \in {"raised", "selection"} /\ result # Raise("read")
    => Select(history, current) = Promised(history, current)

\* select_stream(), which never has all of the history, returns or raises what select()
\* does.
StreamsTheSame ==
  result.kind \in {"raised", "selection"} /\ result # Raise("read")
    => result = Select(history, current)

\* However long the history is, the payloads held are at most twice the budget, and
\* but for the group that is open, at most the budget.
RetentionBounded ==
  LET s == history \o current
      Held(places) == IF places = {} THEN 2 ELSE Bytes(s, places)
  IN /\ Held(w.required \cup UNION {g.entries : g \in ToSet(w.optional)}) <= MaxBytes
     /\ Held(w.group.entries) <= MaxBytes
=============================================================================
