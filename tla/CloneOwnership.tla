--------------------------- MODULE CloneOwnership ---------------------------
(***************************************************************************)
(* What the warm pool promises, with nothing of how: "WCTARange keeps      *)
(* booted clones staged, assigns each clone to exactly one user, and       *)
(* deletes that clone when the user is done" (docs/templates.md).  A clone *)
(* is built, offered once it is ready, and then either given to one        *)
(* session for good or retired without ever having been given to anyone.   *)
(***************************************************************************)
CONSTANTS Clones, Sessions, None

VARIABLES
    place,   \* where a clone is
    owner    \* the session it was given to

vars == <<place, owner>>

Init ==
    /\ place = [c \in Clones |-> "absent"]
    /\ owner = [c \in Clones |-> None]

Begin(c) ==
    /\ place[c] = "absent"
    /\ place' = [place EXCEPT ![c] = "building"]
    /\ UNCHANGED owner

Offer(c) ==
    /\ place[c] = "building"
    /\ place' = [place EXCEPT ![c] = "pooled"]
    /\ UNCHANGED owner

\* A session is given one clone, and only a clone that is ready.
Assign(c, s) ==
    /\ place[c] = "pooled"
    /\ \A d \in Clones : owner[d] # s
    /\ place' = [place EXCEPT ![c] = "owned"]
    /\ owner' = [owner EXCEPT ![c] = s]

\* Failed builds and destroyed rows; a crash retires several at once.
Retire(C) ==
    /\ \A c \in C : place[c] \in {"building", "pooled"}
    /\ place' = [c \in Clones |-> IF c \in C THEN "retired" ELSE place[c]]
    /\ UNCHANGED owner

Next ==
    \/ \E c \in Clones : Begin(c) \/ Offer(c)
    \/ \E c \in Clones, s \in Sessions : Assign(c, s)
    \/ \E C \in SUBSET Clones : Retire(C)

Spec == Init /\ [][Next]_vars
=============================================================================
