----------------------------- MODULE VmLifecycle -----------------------------
(***************************************************************************)
(* The life of one VM clone, from the provisioning job that builds it to   *)
(* the cleanup job that deletes it, through the three stores that have to  *)
(* agree about it: the VMID claims in Redis, the staged_vms and sessions   *)
(* tables in Postgres, and the virtual machines on the Proxmox cluster.    *)
(*                                                                         *)
(* A "build" is one run of the provisioning job.  Its identity stands for  *)
(* everything made of it: the clone, and the staged_vms row.  A session is *)
(* named after the POST /request run that creates it.  VMIDs are what the  *)
(* program itself knows these things by, and they are reused: that a VMID  *)
(* still means the same clone is what the properties below are about.      *)
(*                                                                         *)
(* Every await in the code is a boundary between two actions, except where *)
(* a comment says why two calls can be one.                                *)
(***************************************************************************)
EXTENDS Naturals, FiniteSets

CONSTANTS
    Vmids,        \* VM_ID_RANGE_START .. VM_ID_RANGE_END
    Builds,       \* provisioning job runs (bounds how many clones are made)
    Sessions,     \* POST /request runs that get as far as claiming a row
    JobKinds,     \* job ids a session can be cleaned up under, see AddJob
    Destroyers,   \* administrators' requests and ticks of the staging monitor
    MaxAttempts,  \* cleanupQueue attempts
    Faults,       \* which of FaultKinds may happen
    None          \* no build, no VMID

(***************************************************************************)
(* Failures the code does not survive, each one enabled by its name.  All  *)
(* other failures (a clone refused or timed out, an unreachable node, a    *)
(* failed boot, a failed delete and its retries, a process crash) are      *)
(* always possible.                                                        *)
(*   overlap     two cleanup jobs of one session are active at once        *)
(*   late        cleanup fails or crashes between releaseVmid and the end  *)
(*   stale       a staged row is gone when its destroyer deletes it: since *)
(*               it was listed or read, a student claimed it or another    *)
(*               destroyer deleted it                                      *)
(*   lateBuild   the provisioning job fails after it inserted its row      *)
(*   expiry      a VMID claim reaches its 8 hour TTL                       *)
(*   forget      an admin forgets a session                                *)
(***************************************************************************)
FaultKinds == {"overlap", "late", "stale", "lateBuild", "expiry", "forget"}

ASSUME NoneAssumption == None \notin Builds /\ None \notin Vmids
ASSUME KindsAssumption == JobKinds \subseteq {"stop", "admin", "timeout"}
ASSUME FaultsAssumption == Faults \subseteq FaultKinds
ASSUME AttemptsAssumption == MaxAttempts \in Nat \ {0}

VARIABLES
    claims,   \* Redis: vmid:claim:N -> the build that set it, None if the key
              \* is absent (the value "claimed" does not say who: no action
              \* but allocateVmid reads it)
    vm,       \* Proxmox: the build whose clone has this VMID
    on,       \* Proxmox: the VMIDs of powered-on machines
    prov,     \* where each provisioning job run is
    vmid,     \* the VMID a run allocated; its row and session copy it
    row,      \* status of the staged_vms row of a build, "none" if absent
    destroy,  \* where each destroyer is with a row
    req,      \* where each POST /request run is
    clone,    \* the build whose row the run claimed
    session,  \* sessions.status, "none" before the insert
    job,      \* where each cleanup job of a session is
    tries     \* failed attempts of that job

cluster == <<vm, on>>
builds == <<prov, vmid, row>>
requests == <<req, clone, session>>
jobs == <<job, tries>>
vars == <<claims, cluster, builds, destroy, requests, jobs>>

-----------------------------------------------------------------------------
ProvState == {"idle", "allocated", "cloning", "cloned", "booted", "inserted",
              "marked", "published", "done", "undo", "failed", "dead"}
Working == ProvState \ {"idle", "done", "failed", "dead"}
RowState == {"none", "queued", "provisioning", "running"}
DestroyState == {"none", "read", "listed", "unrowed", "off", "gone", "over"}
Ending == {"unrowed", "off", "gone"}
ReqState == {"idle", "holding", "inserted", "done", "lost"}
SessionState == {"none", "running", "cleaning", "cleanup_failed", "stopped"}
JobState == {"none", "waiting", "fetched", "cleaning", "off", "gone",
             "released", "finished"}
Active == JobState \ {"none", "waiting", "finished"}

TypeOK ==
    /\ claims \in [Vmids -> Builds \cup {None}]
    /\ vm \in [Vmids -> Builds \cup {None}]
    /\ on \in SUBSET Vmids
    /\ prov \in [Builds -> ProvState]
    /\ vmid \in [Builds -> Vmids \cup {None}]
    /\ \A b \in Builds : prov[b] = "idle" <=> vmid[b] = None
    /\ row \in [Builds -> RowState]
    /\ destroy \in [Builds \X Destroyers -> DestroyState]
    /\ req \in [Sessions -> ReqState]
    /\ clone \in [Sessions -> Builds \cup {None}]
    /\ session \in [Sessions -> SessionState]
    /\ job \in [Sessions \X JobKinds -> JobState]
    /\ tries \in [Sessions \X JobKinds -> Nat]

Init ==
    /\ claims = [v \in Vmids |-> None]
    /\ vm = [v \in Vmids |-> None]
    /\ on = {}
    /\ prov = [b \in Builds |-> "idle"]
    /\ vmid = [b \in Builds |-> None]
    /\ row = [b \in Builds |-> "none"]
    /\ destroy = [d \in Builds \X Destroyers |-> "none"]
    /\ req = [s \in Sessions |-> "idle"]
    /\ clone = [s \in Sessions |-> None]
    /\ session = [s \in Sessions |-> "none"]
    /\ job = [j \in Sessions \X JobKinds |-> "none"]
    /\ tries = [j \in Sessions \X JobKinds |-> 0]

-----------------------------------------------------------------------------
(* Proxmox *)

at(s) == vmid[clone[s]]

\* A machine is locked while the clone task that makes it runs.
Locked(v) == vm[v] # None /\ prov[vm[v]] = "cloning"

\* qm stop of the machine with this VMID; callers swallow its failure.
StopVm(v) == on' \in {on, on \ {v}} /\ UNCHANGED vm

\* Destroying a machine is refused while it is locked or running.
Deletable(v) == vm[v] # None /\ v \notin on /\ ~Locked(v)
Deletes(v) == vm' = [vm EXCEPT ![v] = None] /\ UNCHANGED on

\* releaseVmid is an unconditional DEL, whoever set the key.
Release(v) == claims' = [claims EXCEPT ![v] = None]

\* releaseVmid(v).catch(() => undefined), or not reached: an await before it in
\* the same catch block threw.
TriesRelease(v) == Release(v) \/ UNCHANGED claims

\* The key's EX 8h runs out.
ExpireClaim(v) ==
    /\ "expiry" \in Faults
    /\ claims[v] # None
    /\ Release(v)
    /\ UNCHANGED <<cluster, builds, destroy, requests, jobs>>

-----------------------------------------------------------------------------
(* The provisioning worker, building a staged VM *)

Step(b, from, to) == prov[b] = from /\ prov' = [prov EXCEPT ![b] = to]

\* Mutant: SET without NX.
AllocateAnyVmid(b) ==
    /\ Step(b, "idle", "allocated")
    /\ \E v \in Vmids : /\ claims' = [claims EXCEPT ![v] = b]
                        /\ vmid' = [vmid EXCEPT ![b] = v]
    /\ UNCHANGED <<cluster, row, destroy, requests, jobs>>

AllocateVmid(b) ==
    /\ Step(b, "idle", "allocated")
    /\ \E v \in Vmids :
        /\ claims[v] = None
        /\ claims' = [claims EXCEPT ![v] = b]
        /\ vmid' = [vmid EXCEPT ![b] = v]
    /\ UNCHANGED <<cluster, row, destroy, requests, jobs>>

CloneTemplate(b) ==
    /\ Step(b, "allocated", "cloning")
    /\ vm[vmid[b]] = None
    /\ vm' = [vm EXCEPT ![vmid[b]] = b]
    /\ UNCHANGED <<claims, on, vmid, row, destroy, requests, jobs>>

\* The POST is refused (the VMID exists on the cluster) or never answered:
\* cloned is still false, so only the VMID is released.
CloneRefused(b) ==
    /\ Step(b, "allocated", "failed")
    /\ TriesRelease(vmid[b])
    /\ UNCHANGED <<cluster, vmid, row, destroy, requests, jobs>>

CloneWaited(b) ==
    /\ Step(b, "cloning", "cloned")
    /\ UNCHANGED <<claims, cluster, vmid, row, destroy, requests, jobs>>

\* The task failed, and left nothing, or the wait for it did, and the clone
\* stays on the cluster: the catch block tells neither apart, and releases.
CloneWaitFailed(b) ==
    /\ Step(b, "cloning", "failed")
    /\ TriesRelease(vmid[b])
    /\ vm' \in {vm, [vm EXCEPT ![vmid[b]] = None]}
    /\ UNCHANGED <<on, vmid, row, destroy, requests, jobs>>

\* setResources, setDescription, powerOn, waitForGuestIp.  They address the
\* machine by VMID, so all they need is that one is there.
Boot(b) ==
    /\ Step(b, "cloned", "booted")
    /\ vm[vmid[b]] # None
    /\ on' = on \cup {vmid[b]}
    /\ UNCHANGED <<claims, vm, vmid, row, destroy, requests, jobs>>

\* One of those calls threw, before or after the machine was on.
BootFails(b) ==
    /\ Step(b, "cloned", "undo")
    /\ \/ UNCHANGED on
       \/ vm[vmid[b]] # None /\ on' = on \cup {vmid[b]}
    /\ UNCHANGED <<claims, vm, vmid, row, destroy, requests, jobs>>

InsertStagedVm(b) ==
    /\ Step(b, "booted", "inserted")
    /\ \A c \in Builds : row[c] # "none" => vmid[c] # vmid[b]
    /\ row' = [row EXCEPT ![b] = "queued"]
    /\ UNCHANGED <<claims, cluster, vmid, destroy, requests, jobs>>

\* The UPDATEs match no row, and say nothing, if the row has been deleted.
Update(b, status) ==
    row' = IF row[b] = "none" THEN row ELSE [row EXCEPT ![b] = status]

MarkStagedProvisioning(b) ==
    /\ Step(b, "inserted", "marked")
    /\ Update(b, "provisioning")
    /\ UNCHANGED <<claims, cluster, vmid, destroy, requests, jobs>>

MarkStagedRunning(b) ==
    /\ Step(b, "marked", "published")
    /\ Update(b, "running")
    /\ UNCHANGED <<claims, cluster, vmid, destroy, requests, jobs>>

\* recordStagingSuccess and the audit entry.
FinishBuild(b) ==
    /\ Step(b, "published", "done")
    /\ UNCHANGED <<claims, cluster, vmid, row, destroy, requests, jobs>>

\* insertStagedVm, or with lateBuild a call after it, threw.
BuildFails(b) ==
    /\ \/ Step(b, "booted", "undo")
       \/ /\ "lateBuild" \in Faults
          /\ \E from \in {"inserted", "marked", "published"} : Step(b, from, "undo")
    /\ UNCHANGED <<claims, cluster, vmid, row, destroy, requests, jobs>>

\* The catch block of a cloned staged VM: deleteVM, whose failure it swallows
\* (and a machine that is on cannot be deleted), then releaseVmid.  The claim
\* is held across the two calls.
UndoBuild(b) ==
    /\ Step(b, "undo", "failed")
    /\ \/ Deletable(vmid[b]) /\ Deletes(vmid[b])
       \/ UNCHANGED cluster
    /\ TriesRelease(vmid[b])
    /\ UNCHANGED <<vmid, row, destroy, requests, jobs>>

-----------------------------------------------------------------------------
(* POST /api/vm/request *)

\* Mutants: the row is selected and left there; any row is taken.
ClaimStagedKeepsRow(s, b) ==
    /\ req[s] = "idle" /\ row[b] = "running"
    /\ clone' = [clone EXCEPT ![s] = b]
    /\ req' = [req EXCEPT ![s] = "holding"]
    /\ UNCHANGED <<claims, cluster, builds, destroy, session, jobs>>
ClaimStagedAny(s, b) ==
    /\ req[s] = "idle" /\ row[b] # "none"
    /\ row' = [row EXCEPT ![b] = "none"]
    /\ clone' = [clone EXCEPT ![s] = b]
    /\ req' = [req EXCEPT ![s] = "holding"]
    /\ UNCHANGED <<claims, cluster, prov, vmid, destroy, session, jobs>>

\* claimReadyStagedVm: DELETE ... RETURNING of one running row.
ClaimStaged(s, b) ==
    /\ req[s] = "idle"
    /\ row[b] = "running"
    /\ row' = [row EXCEPT ![b] = "none"]
    /\ clone' = [clone EXCEPT ![s] = b]
    /\ req' = [req EXCEPT ![s] = "holding"]
    /\ UNCHANGED <<claims, cluster, prov, vmid, destroy, session, jobs>>

\* sessions_active_vmid_unique
Indexed == {"running", "cleaning"}
VmidFree(s) == \A t \in Sessions \ {s} :
                  session[t] \in Indexed => at(t) # at(s)

CreateSession(s) ==
    /\ req[s] = "holding"
    /\ VmidFree(s)
    /\ session' = [session EXCEPT ![s] = "running"]
    /\ req' = [req EXCEPT ![s] = "inserted"]
    /\ UNCHANGED <<claims, cluster, builds, destroy, clone, jobs>>

\* The insert fails; nothing puts the row back.
CreateSessionFails(s) ==
    /\ req[s] = "holding"
    /\ req' = [req EXCEPT ![s] = "lost"]
    /\ UNCHANGED <<claims, cluster, builds, destroy, clone, session, jobs>>

\* The delayed hard_timeout job, or the add of it failing after the insert.
ArmTimeout(s) ==
    /\ req[s] = "inserted"
    /\ req' = [req EXCEPT ![s] = "done"]
    /\ \/ "timeout" \in JobKinds /\ job' = [job EXCEPT ![<<s, "timeout">>] = "waiting"]
       \/ UNCHANGED job
    /\ UNCHANGED <<claims, cluster, builds, destroy, clone, session, tries>>

-----------------------------------------------------------------------------
(* The cleanup queue and its worker *)

(***************************************************************************)
(* Job ids: "stop" is cleanup-session-N (a student's DELETE, the sweep of  *)
(* stale sessions and resetStuckSessions all use it), "admin" is           *)
(* admin-cleanup-session-N, "timeout" is the delayed job with no id.       *)
(* Adding an id the queue still knows, finished jobs included, is a no-op. *)
(***************************************************************************)
AddJob(s, k) ==
    /\ k # "timeout"
    /\ session[s] # "none"
    /\ job[<<s, k>>] = "none"
    /\ job' = [job EXCEPT ![<<s, k>>] = "waiting"]
    /\ UNCHANGED <<claims, cluster, builds, destroy, requests, tries>>

JobStep(s, k, from, to) ==
    /\ job[<<s, k>>] = from
    /\ job' = [job EXCEPT ![<<s, k>>] = to]
    /\ UNCHANGED tries

Alone(s, k) == \A j \in JobKinds \ {k} : job[<<s, j>>] \notin Active

\* Mutant: no early return.
FetchSessionAlways(s, k) ==
    /\ "overlap" \in Faults \/ Alone(s, k)
    /\ JobStep(s, k, "waiting", "fetched")
    /\ UNCHANGED <<claims, cluster, builds, destroy, requests>>

\* getSessionById, and the early return on a stopped session.
FetchSession(s, k) ==
    /\ "overlap" \in Faults \/ Alone(s, k)
    /\ JobStep(s, k, "waiting", IF session[s] = "stopped" THEN "finished" ELSE "fetched")
    /\ UNCHANGED <<claims, cluster, builds, destroy, requests>>

\* The attempt throws: BullMQ runs the job again until its attempts are spent.
AttemptFails(s, k) ==
    /\ tries' = [tries EXCEPT ![<<s, k>>] = @ + 1]
    /\ job' = [job EXCEPT ![<<s, k>>] =
                  IF tries[<<s, k>>] + 1 < MaxAttempts THEN "waiting" ELSE "finished"]

SetStatus(s, status) ==
    session' = [session EXCEPT ![s] = status] /\ UNCHANGED <<req, clone>>

\* The UPDATE puts the row back under the unique index.
MarkCleaning(s, k) ==
    /\ JobStep(s, k, "fetched", "cleaning")
    /\ session[s] \in Indexed \/ VmidFree(s)
    /\ SetStatus(s, "cleaning")
    /\ UNCHANGED <<claims, cluster, builds, destroy>>

\* It violates the index, or the database is away (as it may be for the read
\* before): outside the handler's try, so no status is written.
MarkCleaningFails(s, k) ==
    /\ job[<<s, k>>] = "fetched"
    /\ AttemptFails(s, k)
    /\ UNCHANGED <<claims, cluster, builds, destroy, requests>>

\* powerOff, and the optional rollback of a machine that is about to go.
PowerOff(s, k) ==
    /\ JobStep(s, k, "cleaning", "off")
    /\ StopVm(at(s))
    /\ UNCHANGED <<claims, builds, destroy, requests>>

\* Deleted; or not there; or the node unreachable, which is taken for gone.
DeleteVm(s, k) ==
    /\ JobStep(s, k, "off", "gone")
    /\ \/ Deletable(at(s)) /\ Deletes(at(s))
       \/ UNCHANGED cluster
    /\ UNCHANGED <<claims, builds, destroy, requests>>

\* Mutant: markSessionFailed in the catch block.
DeleteFailsMarksFailed(s, k) ==
    /\ job[<<s, k>>] = "off"
    /\ AttemptFails(s, k)
    /\ SetStatus(s, "failed")
    /\ UNCHANGED <<claims, cluster, builds, destroy>>

\* The delete, or only the wait for it, fails with any other error, or the
\* release after it does.  The catch block writes the status if it can.
DeleteFails(s, k) ==
    /\ job[<<s, k>>] = "off"
    /\ AttemptFails(s, k)
    /\ \/ Deletable(at(s)) /\ Deletes(at(s))
       \/ UNCHANGED cluster
    /\ SetStatus(s, "cleanup_failed") \/ UNCHANGED requests
    /\ UNCHANGED <<claims, builds, destroy>>

ReleaseVmid(s, k) ==
    /\ JobStep(s, k, "gone", "released")
    /\ Release(at(s))
    /\ UNCHANGED <<cluster, builds, destroy, requests>>

MarkStopped(s, k) ==
    /\ JobStep(s, k, "released", "finished")
    /\ SetStatus(s, "stopped")
    /\ UNCHANGED <<claims, cluster, builds, destroy>>

\* markSessionStopped, or the audit entry after it, throws into the catch.
LateFailure(s, k) ==
    /\ "late" \in Faults
    /\ job[<<s, k>>] = "released"
    /\ AttemptFails(s, k)
    /\ SetStatus(s, "cleanup_failed")
    /\ UNCHANGED <<claims, cluster, builds, destroy>>

\* removeOnComplete and removeOnFail keep the last 200 and 500 jobs: when
\* enough others have finished, the queue no longer knows this id.
EvictJob(s, k) ==
    /\ job[<<s, k>>] = "finished"
    /\ job' = [job EXCEPT ![<<s, k>>] = "none"]
    /\ tries' = [tries EXCEPT ![<<s, k>>] = 0]
    /\ UNCHANGED <<claims, cluster, builds, destroy, requests>>

-----------------------------------------------------------------------------
(* Administrators and the staging sweeper *)

\* POST /sessions/:id/forget: markSessionStopped, then releaseVmid, whose
\* failure is swallowed.  No check of the status, no look at the VM.
ForgetSession(s) ==
    /\ "forget" \in Faults
    /\ session[s] # "none"
    /\ SetStatus(s, "stopped")
    /\ TriesRelease(at(s))
    /\ UNCHANGED <<cluster, builds, destroy, jobs>>

DestroyStep(b, d, from, to) ==
    /\ destroy[<<b, d>>] = from
    /\ destroy' = [destroy EXCEPT ![<<b, d>>] = to]

\* deleteStagedVm.  Nobody asks how many rows the DELETE found.
DeleteRow(b) ==
    /\ "stale" \in Faults \/ row[b] # "none"
    /\ row' = [row EXCEPT ![b] = "none"]

\* destroyStagedVmById and /staged/:id/forget read the row first ...
DestroyRead(b, d) ==
    /\ row[b] # "none"
    /\ DestroyStep(b, d, "none", "read")
    /\ UNCHANGED <<claims, cluster, builds, requests, jobs>>

\* ... and then delete it.
DestroyRow(b, d) ==
    /\ DestroyStep(b, d, "read", "unrowed")
    /\ DeleteRow(b)
    /\ UNCHANGED <<claims, cluster, prov, vmid, requests, jobs>>

\* Forgetting stops here and goes on to the release.
ForgetRow(b, d) ==
    /\ DestroyStep(b, d, "read", "gone")
    /\ DeleteRow(b)
    /\ UNCHANGED <<claims, cluster, prov, vmid, requests, jobs>>

\* A tick of reapWedgedStagedRows lists the rows whose worker is gone (15
\* minutes in a state that lasts milliseconds) ...
ReapList(b, d) ==
    /\ row[b] \in {"queued", "provisioning"}
    /\ prov[b] \in {"dead", "failed"}
    /\ DestroyStep(b, d, "none", "listed")
    /\ UNCHANGED <<claims, cluster, builds, requests, jobs>>

\* Mutant: the VMID is given back along with the row.
ReapRowReleases(b, d) ==
    /\ DestroyStep(b, d, "listed", "unrowed")
    /\ DeleteRow(b)
    /\ Release(vmid[b])
    /\ UNCHANGED <<cluster, prov, vmid, requests, jobs>>

\* ... and comes to one after the other, each when it is through with those
\* before.  That takes minutes, and does not keep the next tick from starting.
ReapRow(b, d) ==
    /\ \A c \in Builds : destroy[<<c, d>>] \notin Ending
    /\ DestroyStep(b, d, "listed", "unrowed")
    /\ DeleteRow(b)
    /\ UNCHANGED <<claims, cluster, prov, vmid, requests, jobs>>

DestroyOff(b, d) ==
    /\ DestroyStep(b, d, "unrowed", "off")
    /\ StopVm(vmid[b])
    /\ UNCHANGED <<claims, builds, requests, jobs>>

\* "over" at once is the admin's 500; the reaper releases after any failure,
\* the admin's handler after one that says the VM is gone or unreachable.
DestroyDelete(b, d) ==
    /\ DestroyStep(b, d, "off", "gone") \/ DestroyStep(b, d, "off", "over")
    /\ (Deletable(vmid[b]) /\ Deletes(vmid[b])) \/ UNCHANGED cluster
    /\ UNCHANGED <<claims, builds, requests, jobs>>

DestroyRelease(b, d) ==
    /\ DestroyStep(b, d, "gone", "over")
    /\ TriesRelease(vmid[b])
    /\ UNCHANGED <<cluster, builds, requests, jobs>>

-----------------------------------------------------------------------------
(***************************************************************************)
(* The one backend process dies.  Every handler in flight is gone; BullMQ  *)
(* moves the cleanup jobs it was running back to wait (a stalled           *)
(* provisioning job runs again too: that run is another build).            *)
(***************************************************************************)
Crash ==
    /\ "late" \in Faults \/ \A s \in Sessions, k \in JobKinds : job[<<s, k>>] # "released"
    /\ prov' = [b \in Builds |-> IF prov[b] \in Working THEN "dead" ELSE prov[b]]
    /\ destroy' = [d \in Builds \X Destroyers |->
                      CASE destroy[d] \in {"read", "listed"} -> "none"
                        [] destroy[d] \in Ending -> "over"
                        [] OTHER -> destroy[d]]
    /\ req' = [s \in Sessions |->
                  CASE req[s] = "holding" -> "lost"
                    [] req[s] = "inserted" -> "done"
                    [] OTHER -> req[s]]
    /\ job' = [j \in Sessions \X JobKinds |->
                  IF job[j] \in Active THEN "waiting" ELSE job[j]]
    /\ UNCHANGED <<claims, cluster, vmid, row, clone, session, tries>>

Provision(b) ==
    \/ AllocateVmid(b) \/ CloneTemplate(b) \/ CloneRefused(b)
    \/ CloneWaited(b) \/ CloneWaitFailed(b) \/ Boot(b) \/ BootFails(b)
    \/ InsertStagedVm(b) \/ MarkStagedProvisioning(b) \/ MarkStagedRunning(b)
    \/ FinishBuild(b) \/ BuildFails(b) \/ UndoBuild(b)

Request(s) ==
    \/ \E b \in Builds : ClaimStaged(s, b)
    \/ CreateSession(s) \/ CreateSessionFails(s) \/ ArmTimeout(s)

Cleanup(s, k) ==
    \/ AddJob(s, k) \/ FetchSession(s, k)
    \/ MarkCleaning(s, k) \/ MarkCleaningFails(s, k)
    \/ PowerOff(s, k) \/ DeleteVm(s, k) \/ DeleteFails(s, k)
    \/ ReleaseVmid(s, k) \/ MarkStopped(s, k) \/ LateFailure(s, k)
    \/ EvictJob(s, k)

Destroy(b, d) ==
    \/ DestroyRead(b, d) \/ DestroyRow(b, d) \/ ForgetRow(b, d)
    \/ ReapList(b, d) \/ ReapRow(b, d)
    \/ DestroyOff(b, d) \/ DestroyDelete(b, d) \/ DestroyRelease(b, d)

Next ==
    \/ \E b \in Builds : Provision(b)
    \/ \E b \in Builds, d \in Destroyers : Destroy(b, d)
    \/ \E s \in Sessions : Request(s) \/ ForgetSession(s)
    \/ \E s \in Sessions, k \in JobKinds : Cleanup(s, k)
    \/ \E v \in Vmids : ExpireClaim(v)
    \/ Crash

Spec == Init /\ [][Next]_vars

-----------------------------------------------------------------------------
(* Properties *)

\* A clone has one holder at a time, and one owner ever: no session holds a
\* build whose row is still in the pool or whose job has not published it,
\* and no two sessions were ever given the same build.  Whatever fails, "each
\* clone is assigned to exactly one user" (docs/templates.md:14); the atomic
\* DELETE ... RETURNING of claimReadyStagedVm is what it hangs on.
OneOwner ==
    /\ \A s \in Sessions : clone[s] # None =>
          /\ row[clone[s]] = "none"
          /\ prov[clone[s]] \notin {"idle", "allocated", "cloning", "cloned",
                                    "booted", "inserted", "marked"}
    /\ \A s, t \in Sessions : clone[s] = clone[t] /\ clone[s] # None => s = t

\* The machine behind a VMID is build b's own, and it is on.
Up(b) == vm[vmid[b]] = b /\ vmid[b] \in on

\* What a student can be given, has in hand or is connected to is the machine
\* it was built as: the VMID in the row or in the session still names that
\* clone, and nobody has stopped or deleted it.
Served ==
    /\ \A b \in Builds : row[b] = "running" => Up(b)
    /\ \A s \in Sessions : req[s] = "holding" \/ session[s] = "running" => Up(clone[s])

\* A machine is powered off or deleted only on behalf of the build that holds
\* the claim on its VMID: no cleanup, and no administrator or tick of the
\* monitor, working from a row it read minutes ago while others did the same,
\* touches a machine that was since built under the same number.  Whoever
\* deletes a row has the machine to itself, provided the row was still there:
\* the code does not look (stagingMonitor.ts:59, admin.ts:51), and where it was
\* not, the fault "stale", the property fails.
TouchOnlyOwn ==
    [][\A v \in Vmids :
          /\ vm[v] # None /\ vm'[v] = None => claims[v] = vm[v]
          /\ v \in on \ on' => claims[v] = vm[v]]_vars

\* The Redis claim outlives what it protects: while a clone is in the pool,
\* in a request's hands or in a session that is not finished, its VMID is
\* claimed, and by it (services/vmidPool.ts:4).
HeldVmidClaimed ==
    /\ \A b \in Builds : row[b] = "running" => claims[vmid[b]] = b
    /\ \A s \in Sessions :
          req[s] = "holding" \/ session[s] = "running" => claims[at(s)] = clone[s]

\* A session that has been marked stopped, its VMID given back, is never
\* picked up again by another cleanup job.
StoppedIsFinal ==
    [][\A s \in Sessions : session[s] = "stopped" => session'[s] = "stopped"]_vars
=============================================================================
