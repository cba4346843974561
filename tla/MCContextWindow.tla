--------------------------- MODULE MCContextWindow ---------------------------
(* ContextWindow over every history and request of a few messages: two sizes *)
(* of text, system messages, calls and results of two tools, and a message   *)
(* that cannot be encoded; and the release desk, which is a host of such a   *)
(* window.  The two are explored side by side: while one runs, the other     *)
(* rests.                                                                    *)
EXTENDS ContextWindow, ReleaseDesk

VARIABLE part

Said(role, ids, size) == [role |-> role, ids |-> ids, size |-> size, plain |-> TRUE]

Texts == {Said("user", <<>>, 1), Said("user", <<>>, 4), Said("system", <<>>, 1),
          Said("assistant", <<>>, 2)}
Exchanges == {Said("assistant", <<"a">>, 1), Said("assistant", <<"a", "b">>, 2),
              Said("tool", <<"a">>, 2), Said("tool", <<"b">>, 1)}
Lone == [role |-> "user", ids |-> <<>>, size |-> 1, plain |-> FALSE]

Kinds == Texts \cup Exchanges \cup {Lone}
-----------------------------------------------------------------------------
MCInit ==
  /\ Init /\ DeskInit
  /\ part \in {"window", "desk"}
  /\ part = "window" => limit = CHOOSE n \in InputLimits : TRUE
MCNext ==
  \/ part = "window" /\ Next /\ UNCHANGED <<part, desk_vars>>
  \/ part = "desk" /\ DeskNext /\ UNCHANGED <<part, vars>>
MCSpec == MCInit /\ [][MCNext]_<<part, vars, desk_vars>>
=============================================================================
