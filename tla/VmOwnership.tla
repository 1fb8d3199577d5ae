----------------------------- MODULE VmOwnership -----------------------------
(***************************************************************************)
(* VmLifecycle implements CloneOwnership: the refinement mapping.          *)
(***************************************************************************)
EXTENDS VmLifecycle

ASSUME OwnerAssumption == None \notin Sessions

Given(b) == \E s \in Sessions : clone[s] = b

Building == {"allocated", "cloning", "cloned", "booted"}

\* A row that is not running yet is still being built, and one whose worker
\* died there stays so until the sweeper reaps it.
placeOf(b) ==
    CASE Given(b) -> "owned"
      [] ~Given(b) /\ row[b] = "running" -> "pooled"
      [] ~Given(b) /\ row[b] \in {"queued", "provisioning"} -> "building"
      [] ~Given(b) /\ row[b] = "none" /\ prov[b] = "idle" -> "absent"
      [] ~Given(b) /\ row[b] = "none" /\ prov[b] \in Building -> "building"
      [] OTHER -> "retired"

ownerOf(b) == IF Given(b) THEN CHOOSE s \in Sessions : clone[s] = b ELSE None

Abstract == INSTANCE CloneOwnership WITH
    Clones <- Builds,
    place <- [b \in Builds |-> placeOf(b)],
    owner <- [b \in Builds |-> ownerOf(b)]

\* Under every fault, each clone goes to one session at most, once it is
\* ready, and never comes back (docs/templates.md:14).
ImplementsOwnership == Abstract!Spec
=============================================================================
