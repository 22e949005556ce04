----------------------------- MODULE Selection ------------------------------
(***************************************************************************)
(* What a loop of server/internal/nodes/core keeps of a list: it walks the *)
(* elements in order and appends those it selects to an empty slice.       *)
(***************************************************************************)
EXTENDS Integers, Sequences

(* The elements of s at the given places, in the order of s.               *)
Selected(s, places) ==
    LET upto[n \in 0 .. Len(s)] ==
            IF n = 0 THEN <<>>
            ELSE IF n \in places THEN Append(upto[n - 1], s[n]) ELSE upto[n - 1]
    IN  upto[Len(s)]
=============================================================================
