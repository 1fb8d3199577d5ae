---------------------------- MODULE MCVmLifecycle ----------------------------
(***************************************************************************)
(* Instances of VmLifecycle for TLC.                                       *)
(***************************************************************************)
EXTENDS VmOwnership, TLC

\* VMIDs are interchangeable, and so are builds, sessions and destroyers: no
\* action singles one out, and no property of a run that uses this names one.
Perms == Permutations(Vmids) \cup Permutations(Builds)
            \cup Permutations(Sessions) \cup Permutations(Destroyers)
=============================================================================
