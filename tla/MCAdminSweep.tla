---------------------------- MODULE MCAdminSweep ----------------------------
(***************************************************************************)
(* Instances of AdminSweep for TLC.                                        *)
(***************************************************************************)
EXTENDS AdminSweep, TLC

CONSTANT student

MCUserOf == [r \in Requests |-> student]

\* No action compares two clones or two requests of one user.
Perms == Permutations(Clones) \cup Permutations(Requests)
=============================================================================
