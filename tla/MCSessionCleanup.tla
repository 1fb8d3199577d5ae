--------------------------- MODULE MCSessionCleanup ---------------------------
(***************************************************************************)
(* Instances of SessionCleanup for TLC.                                    *)
(***************************************************************************)
EXTENDS SessionCleanup, TLC

\* BullMQ makes these ids up; nothing tells one from another.
TimerPerms == Permutations(Timers)
=============================================================================
