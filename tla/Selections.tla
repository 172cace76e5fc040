----------------------------- MODULE Selections -----------------------------
(* The elements of a sequence that are in a set, in their order. *)
EXTENDS Naturals, Sequences

Chosen(s, T) ==
  LET before[n \in Nat] ==
        IF n = 0 THEN <<>>
        ELSE IF s[n] \in T THEN Append(before[n - 1], s[n]) ELSE before[n - 1]
  IN before[Len(s)]
=============================================================================
