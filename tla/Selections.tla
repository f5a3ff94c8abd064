----------------------------- MODULE Selections -----------------------------
(***************************************************************************)
(* The loops that copy some items of a list to a new one or put the parts   *)
(* of a text together: recursive functions in place of SelectSeq and        *)
(* FlattenSeq, which the proofs cannot look into.                           *)
(***************************************************************************)
EXTENDS Integers, Sequences

Members(s) == {s[i] : i \in DOMAIN s}

\* The members of s that are in S, in their order.
MembersIn(s, S) ==
    LET upTo[i \in 0 .. Len(s)] ==
            IF i = 0 THEN <<>>
            ELSE IF s[i] \in S THEN Append(upTo[i - 1], s[i]) ELSE upTo[i - 1]
    IN  upTo[Len(s)]

\* The parts of a text one after the other.
Concatenation(parts) ==
    LET upTo[i \in 0 .. Len(parts)] == IF i = 0 THEN <<>> ELSE upTo[i - 1] \o parts[i]
    IN  upTo[Len(parts)]
=============================================================================
