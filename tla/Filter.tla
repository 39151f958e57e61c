-------------------------------- MODULE Filter --------------------------------
(***************************************************************************)
(* Iterator::filter(..).collect() on a list: the elements that are in a     *)
(* set, in the list's order.  It is SelectSeq with the test as a set, by    *)
(* recursion on the length of the list so that proofs can follow it.        *)
(***************************************************************************)
EXTENDS Integers, Sequences

Filter(s, S) ==
  LET upTo[n \in 0 .. Len(s)] ==
        IF n = 0 THEN <<>>
        ELSE IF s[n] \in S THEN Append(upTo[n - 1], s[n]) ELSE upTo[n - 1]
  IN  upTo[Len(s)]
=============================================================================
