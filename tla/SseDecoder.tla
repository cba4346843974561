----------------------------- MODULE SseDecoder -----------------------------
(***************************************************************************)
(* sse_data() of src/agent_runtime/models_clients/_http.py: the bytes of a *)
(* response come in chunks of any size; whole lines are taken from the     *)
(* buffer, and a blank line dispatches the data fields before it.  An      *)
(* event and the response as a whole are bounded.                          *)
(*                                                                         *)
(* A byte is "D" (the field name data: counts as one), "x" (any other      *)
(* character), "r" (carriage return), "n" (newline) or "b" (bytes that are *)
(* not UTF-8: the decoder raises, which the clients report as a failure).  *)
(***************************************************************************)
EXTENDS Integers, Sequences, SequencesExt, FiniteSetsExt

CONSTANTS Wires,     \* the bytes a response may have
          MaxEvent,  \* MAX_EVENT_BYTES
          MaxTotal   \* MAX_RESPONSE_BYTES

VARIABLES
    wire,        \* the bytes of the response
    total,       \* how many have come
    buffer,      \* those of unfinished lines
    eventBytes,  \* the size of the event's whole lines
    fields,      \* its data fields so far
    events,      \* the events yielded
    at           \* "chunk", "lines", "ended", "oversized" or "undecodable"

vars == <<wire, total, buffer, eventBytes, fields, events, at>>

Init == /\ wire \in Wires /\ total = 0 /\ buffer = <<>> /\ eventBytes = 0
        /\ fields = <<>> /\ events = <<>> /\ at = "chunk"

\* rstrip(b"\r")
Stripped(line) == SubSeq(line, 1, Max({0} \cup {i \in DOMAIN line : line[i] # "r"}))
IsField(line) == line # <<>> /\ line[1] = "D"

\* The next chunk is read into the buffer, unless it makes the response too long.
Chunk ==
  /\ at = "chunk" /\ UNCHANGED <<wire, eventBytes, fields, events>>
  /\ \E size \in 1 .. Len(wire) - total :
       /\ total' = total + size
       /\ IF total' > MaxTotal THEN at' = "oversized" /\ UNCHANGED buffer
          ELSE at' = "lines" /\ buffer' = buffer \o SubSeq(wire, total + 1, total')

\* Fault: the newline is not counted.
LineUncounted ==
  /\ at = "lines" /\ "n" \in Range(buffer)
  /\ LET end == Min({i \in DOMAIN buffer : buffer[i] = "n"})
         line == Stripped(SubSeq(buffer, 1, end - 1))
         size == eventBytes + end - 1
     IN /\ buffer' = SubSeq(buffer, end + 1, Len(buffer))
        /\ at' = IF size > MaxEvent THEN "oversized"
                 ELSE IF "b" \in Range(line) THEN "undecodable" ELSE at
        /\ IF line = <<>>
           THEN /\ eventBytes' = 0 /\ fields' = <<>>
                /\ events' = IF fields = <<>> THEN events ELSE Append(events, fields)
           ELSE /\ eventBytes' = size /\ UNCHANGED events
                /\ fields' = IF IsField(line) THEN Append(fields, Tail(line)) ELSE fields
  /\ UNCHANGED <<wire, total>>
\* A line is taken from the buffer.
Line ==
  /\ at = "lines" /\ "n" \in Range(buffer)
  /\ LET end == Min({i \in DOMAIN buffer : buffer[i] = "n"})
         line == Stripped(SubSeq(buffer, 1, end - 1))
         size == eventBytes + end
     IN /\ buffer' = SubSeq(buffer, end + 1, Len(buffer))
        /\ \/ /\ size > MaxEvent /\ at' = "oversized"
              /\ UNCHANGED <<eventBytes, fields, events>>
           \/ /\ size <= MaxEvent /\ "b" \in Range(line) /\ at' = "undecodable"
              /\ UNCHANGED <<eventBytes, fields, events>>
           \/ /\ size <= MaxEvent /\ line = <<>>
              /\ eventBytes' = 0 /\ fields' = <<>> /\ UNCHANGED at
              /\ events' = IF fields = <<>> THEN events ELSE Append(events, fields)
           \/ /\ size <= MaxEvent /\ line # <<>> /\ "b" \notin Range(line)
              /\ eventBytes' = size /\ UNCHANGED <<events, at>>
              /\ fields' = IF IsField(line) THEN Append(fields, Tail(line)) ELSE fields
  /\ UNCHANGED <<wire, total>>

\* No whole line is left: what is begun is bounded too, and the next chunk is awaited.
Rest ==
  /\ at = "lines" /\ "n" \notin Range(buffer)
  /\ at' = IF eventBytes + Len(buffer) > MaxEvent THEN "oversized" ELSE "chunk"
  /\ UNCHANGED <<wire, total, buffer, eventBytes, fields, events>>

\* The response ends; an event without its blank line is dropped.
End == /\ at = "chunk" /\ total = Len(wire) /\ at' = "ended"
       /\ UNCHANGED <<wire, total, buffer, eventBytes, fields, events>>

Next == Chunk \/ Line \/ Rest \/ End
Spec == Init /\ [][Next]_vars
-----------------------------------------------------------------------------
(* The same decoding of the response as a whole: lines end at newlines,     *)
(* events at blank lines.                                                   *)
LineEnds == {i \in DOMAIN wire : wire[i] = "n"}
LineAt(end) == Stripped(SubSeq(wire, 1 + Max({0} \cup {i \in LineEnds : i < end}), end - 1))
EventEnds == {i \in LineEnds : LineAt(i) = <<>>}
Before(end) == Max({0} \cup {i \in EventEnds : i < end})
FieldsTo(end) ==
  LET ends == SetToSortSeq({i \in LineEnds : Before(end) < i /\ i < end /\ IsField(LineAt(i))}, <)
  IN [n \in DOMAIN ends |-> Tail(LineAt(ends[n]))]
AllEvents ==
  LET ends == SetToSortSeq({i \in EventEnds : FieldsTo(i) # <<>>}, <)
  IN [n \in DOMAIN ends |-> FieldsTo(ends[n])]
Oversized == \/ Len(wire) > MaxTotal
             \/ \E end \in EventEnds \cup {Len(wire)} : end - Before(end) > MaxEvent
Undecodable == \E end \in LineEnds : "b" \in Range(LineAt(end))

\* However a response is cut into chunks, its reader gets the same events and the same
\* verdict: all its events if neither it nor one of them is too long and every line of it
\* is text, and else some of its first ones and a failure.  Nothing of an event is kept
\* once it is dispatched, and what is kept between chunks is bounded.
DecodedAsSent ==
  /\ at = "ended" => ~ Oversized /\ ~ Undecodable /\ events = AllEvents
  /\ at = "oversized" => Oversized
  /\ at = "undecodable" => Undecodable
  /\ IsPrefix(events, AllEvents)
  /\ at = "chunk" => eventBytes + Len(buffer) <= MaxEvent
=============================================================================
