------------------------------ MODULE Filtering ------------------------------
(***************************************************************************)
(* The elements of a sequence that lie in a set, in their order.  Sequences'*)
(* SelectSeq takes a test instead of the set, which is the same to TLC; the *)
(* proof system cannot look into it.                                        *)
(***************************************************************************)
EXTENDS Naturals, Sequences

Only(s, kept) ==
  LET sieved[i \in 0..Len(s)] ==
        IF i = 0 THEN <<>>
        ELSE IF s[i] \in kept THEN Append(sieved[i - 1], s[i]) ELSE sieved[i - 1]
  IN sieved[Len(s)]
=============================================================================
