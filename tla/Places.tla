------------------------------ MODULE Places ------------------------------
(***************************************************************************)
(* Selecting from a sequence by place.  What is selected is known from the *)
(* places alone, where SelectSeq would have to be unfolded step by step.   *)
(***************************************************************************)
EXTENDS Integers, FiniteSets

\* The how-manieth of some places one is.
Rank(at, i) == Cardinality({j \in at : j <= i})

\* The elements at some places of a sequence, in their order.
Picked(s, at) ==
    [k \in 1 .. Cardinality(at) |-> s[CHOOSE i \in at : Rank(at, i) = k]]
=============================================================================
