-------------------------- MODULE VmLifecycleProofs --------------------------
(***************************************************************************)
(* What holds of VmLifecycle for every number of builds, sessions, VMIDs   *)
(* and job kinds: types and ownership whatever fails; and, without the     *)
(* named faults, that everybody works on the machine that is theirs.  At   *)
(* the end, that it implements CloneOwnership whatever fails: each step of *)
(* the stores is a step of the promise, or changes nothing it speaks of.   *)
(***************************************************************************)
EXTENDS VmOwnership, TLAPS

-----------------------------------------------------------------------------
(* Types *)

\* Every reachable state of the stores and the handlers is well typed.
THEOREM TypeCorrect == Spec => []TypeOK
<1>1. Init => TypeOK
  BY DEF Init, TypeOK, ProvState, RowState, DestroyState, ReqState,
         SessionState, JobState
<1>2. TypeOK /\ [Next]_vars => TypeOK'
  <2> SUFFICES ASSUME TypeOK, [Next]_vars PROVE TypeOK'
    OBVIOUS
  <2> USE DEF TypeOK, builds, cluster, requests, jobs
  <2>1. ASSUME NEW b \in Builds, Provision(b) PROVE TypeOK'
    <3> USE DEF Step, ProvState
    <3>1. CASE AllocateVmid(b)
      BY <3>1, NoneAssumption DEF AllocateVmid
    <3>2. CASE CloneTemplate(b) \/ CloneWaited(b)
      BY <3>2 DEF CloneTemplate, CloneWaited
    <3>3. CASE CloneRefused(b) \/ CloneWaitFailed(b)
      BY <3>3 DEF CloneRefused, CloneWaitFailed, TriesRelease, Release
    <3>4. CASE Boot(b) \/ BootFails(b)
      BY <3>4 DEF Boot, BootFails
    <3>5. CASE InsertStagedVm(b)
      BY <3>5 DEF InsertStagedVm, RowState
    <3>6. CASE MarkStagedProvisioning(b) \/ MarkStagedRunning(b)
      BY <3>6 DEF MarkStagedProvisioning, MarkStagedRunning, Update, RowState
    <3>7. CASE FinishBuild(b) \/ BuildFails(b)
      BY <3>7 DEF FinishBuild, BuildFails
    <3>8. CASE UndoBuild(b)
      BY <3>8 DEF UndoBuild, Deletes, TriesRelease, Release
    <3> QED
      BY <2>1, <3>1, <3>2, <3>3, <3>4, <3>5, <3>6, <3>7, <3>8 DEF Provision
  <2>2. ASSUME NEW b \in Builds, NEW d \in Destroyers, Destroy(b, d) PROVE TypeOK'
    <3> USE DEF DestroyStep, DestroyState, DeleteRow, RowState
    <3>1. CASE DestroyRead(b, d) \/ ReapList(b, d)
      BY <3>1 DEF DestroyRead, ReapList
    <3>2. CASE DestroyRow(b, d) \/ ForgetRow(b, d) \/ ReapRow(b, d)
      BY <3>2 DEF DestroyRow, ForgetRow, ReapRow
    <3>3. CASE DestroyOff(b, d)
      BY <3>3 DEF DestroyOff, StopVm
    <3>4. CASE DestroyDelete(b, d)
      BY <3>4 DEF DestroyDelete, Deletes
    <3>5. CASE DestroyRelease(b, d)
      BY <3>5 DEF DestroyRelease, TriesRelease, Release
    <3> QED
      BY <2>2, <3>1, <3>2, <3>3, <3>4, <3>5 DEF Destroy
  <2>3. ASSUME NEW s \in Sessions, Request(s) PROVE TypeOK'
    <3>1. CASE \E b \in Builds : ClaimStaged(s, b)
      BY <3>1 DEF ClaimStaged, RowState, ReqState
    <3>2. CASE CreateSession(s) \/ CreateSessionFails(s)
      BY <3>2 DEF CreateSession, CreateSessionFails, SessionState, ReqState
    <3>3. CASE ArmTimeout(s)
      BY <3>3 DEF ArmTimeout, ReqState, JobState
    <3> QED
      BY <2>3, <3>1, <3>2, <3>3 DEF Request
  <2>4. ASSUME NEW s \in Sessions, NEW k \in JobKinds, Cleanup(s, k)
        PROVE  TypeOK'
    <3> USE DEF JobStep, JobState, SetStatus, SessionState
    <3>1. CASE AddJob(s, k) \/ FetchSession(s, k)
      BY <3>1 DEF AddJob, FetchSession
    <3>2. CASE MarkCleaning(s, k) \/ MarkStopped(s, k)
      BY <3>2 DEF MarkCleaning, MarkStopped
    <3>3. CASE MarkCleaningFails(s, k)
      BY <3>3 DEF MarkCleaningFails, AttemptFails
    <3>4. CASE PowerOff(s, k)
      BY <3>4 DEF PowerOff, StopVm
    <3>5. CASE DeleteVm(s, k)
      BY <3>5 DEF DeleteVm, Deletes
    <3>6. CASE DeleteFails(s, k)
      BY <3>6 DEF DeleteFails, AttemptFails, Deletes
    <3>7. CASE ReleaseVmid(s, k)
      BY <3>7 DEF ReleaseVmid, Release
    <3>8. CASE LateFailure(s, k)
      BY <3>8 DEF LateFailure, AttemptFails
    <3>9. CASE EvictJob(s, k)
      BY <3>9 DEF EvictJob
    <3> QED
      BY <2>4, <3>1, <3>2, <3>3, <3>4, <3>5, <3>6, <3>7, <3>8, <3>9 DEF Cleanup
  <2>5. ASSUME NEW s \in Sessions, ForgetSession(s) PROVE TypeOK'
    BY <2>5 DEF ForgetSession, SetStatus, SessionState, TriesRelease, Release
  <2>6. ASSUME NEW v \in Vmids, ExpireClaim(v) PROVE TypeOK'
    BY <2>6 DEF ExpireClaim, Release
  <2>7. CASE Crash
    <3>1. /\ prov' \in [Builds -> ProvState]
          /\ \A b \in Builds : prov'[b] = "idle" <=> prov[b] = "idle"
      BY <2>7 DEF Crash, ProvState, Working
    <3>2. destroy' \in [Builds \X Destroyers -> DestroyState]
      BY <2>7 DEF Crash, DestroyState, Ending
    <3>3. req' \in [Sessions -> ReqState]
      BY <2>7 DEF Crash, ReqState
    <3>4. job' \in [Sessions \X JobKinds -> JobState]
      BY <2>7 DEF Crash, JobState
    <3> QED
      BY <2>7, <3>1, <3>2, <3>3, <3>4 DEF Crash
  <2>8. CASE UNCHANGED vars
    BY <2>8 DEF vars
  <2> QED
    BY <2>1, <2>2, <2>3, <2>4, <2>5, <2>6, <2>7, <2>8 DEF Next
<1> QED
  BY <1>1, <1>2, PTL DEF Spec

-----------------------------------------------------------------------------
(* One owner *)

PreRow == {"idle", "allocated", "cloning", "cloned", "booted"}

\* OneOwner speaks of clones a session has; to be inductive it needs what is
\* true of them before: a row appears only once its clone has booted, becomes
\* claimable only once its job has marked it, and a request that has not
\* claimed yet has no clone.
OwnerInv ==
    /\ OneOwner
    /\ \A b \in Builds : row[b] # "none" => prov[b] \notin PreRow
    /\ \A b \in Builds :
          row[b] = "running" => prov[b] \notin {"inserted", "marked"}
    /\ \A s \in Sessions : req[s] = "idle" => clone[s] = None

\* Whatever fails, no clone is ever given to two sessions, and none is given
\* while it is still in the pool or being built.
THEOREM OwnershipSafe == Spec => [](OwnerInv /\ OneOwner)
<1>1. Init => OwnerInv
  BY DEF Init, OwnerInv, OneOwner
<1>2. TypeOK /\ TypeOK' /\ OwnerInv /\ [Next]_vars => OwnerInv'
  <2> SUFFICES ASSUME TypeOK, TypeOK', OwnerInv, [Next]_vars PROVE OwnerInv'
    OBVIOUS
  <2> USE DEF OwnerInv, OneOwner, PreRow, builds, cluster, requests, jobs
  <2>1. ASSUME NEW b \in Builds, Provision(b) PROVE OwnerInv'
    <3> USE <2>1 DEF Step, TypeOK
    <3>1. CASE prov'[b] \in {"allocated", "cloning", "cloned", "booted"}
      <4>1. UNCHANGED <<row, requests>> /\ prov[b] \in PreRow
        BY <3>1 DEF Provision, AllocateVmid, CloneTemplate, CloneRefused,
             CloneWaited, CloneWaitFailed, Boot, BootFails, InsertStagedVm,
             MarkStagedProvisioning, MarkStagedRunning, FinishBuild,
             BuildFails, UndoBuild
      <4>2. \A c \in Builds : c # b => prov'[c] = prov[c]
        BY DEF Provision, AllocateVmid, CloneTemplate, CloneRefused,
             CloneWaited, CloneWaitFailed, Boot, BootFails, InsertStagedVm,
             MarkStagedProvisioning, MarkStagedRunning, FinishBuild,
             BuildFails, UndoBuild
      <4> QED
        BY <3>1, <4>1, <4>2
    <3>2. CASE CloneRefused(b) \/ CloneWaitFailed(b) \/ BootFails(b)
               \/ FinishBuild(b) \/ BuildFails(b) \/ UndoBuild(b)
      BY <3>2 DEF CloneRefused, CloneWaitFailed, BootFails, FinishBuild,
           BuildFails, UndoBuild
    <3>3. CASE InsertStagedVm(b)
      BY <3>3 DEF InsertStagedVm
    <3>4. CASE MarkStagedProvisioning(b)
      BY <3>4 DEF MarkStagedProvisioning, Update
    <3>5. CASE MarkStagedRunning(b)
      BY <3>5 DEF MarkStagedRunning, Update
    <3> QED
      BY <3>1, <3>2, <3>3, <3>4, <3>5 DEF Provision, AllocateVmid,
           CloneTemplate, CloneWaited, Boot
  <2>2. ASSUME NEW b \in Builds, NEW d \in Destroyers, Destroy(b, d) PROVE OwnerInv'
    <3>1. UNCHANGED <<prov, requests>>
      BY <2>2 DEF Destroy, DestroyRead, DestroyRow, ForgetRow, ReapList, ReapRow,
           DestroyOff, DestroyDelete, DestroyRelease
    <3>2. \A c \in Builds : row'[c] \in {"none", row[c]}
      BY <2>2 DEF Destroy, DestroyRead, DestroyRow, ForgetRow, ReapList, ReapRow,
           DestroyOff, DestroyDelete, DestroyRelease, DeleteRow, TypeOK
    <3> QED
      BY <3>1, <3>2 DEF TypeOK
  <2>3. ASSUME NEW s \in Sessions, Request(s) PROVE OwnerInv'
    <3>1. CASE \E b \in Builds : ClaimStaged(s, b)
      <4>1. PICK b \in Builds : ClaimStaged(s, b)
        BY <3>1
      <4>2. /\ clone' = [clone EXCEPT ![s] = b] /\ clone[s] = None
            /\ row' = [row EXCEPT ![b] = "none"] /\ row[b] = "running"
            /\ req' = [req EXCEPT ![s] = "holding"] /\ UNCHANGED prov
        BY <4>1 DEF ClaimStaged
      <4> QED
        BY <4>2, NoneAssumption DEF TypeOK
    <3>2. CASE CreateSession(s) \/ CreateSessionFails(s) \/ ArmTimeout(s)
      BY <3>2 DEF CreateSession, CreateSessionFails, ArmTimeout, TypeOK
    <3> QED
      BY <2>3, <3>1, <3>2 DEF Request
  <2>4. ASSUME NEW s \in Sessions, NEW k \in JobKinds, Cleanup(s, k)
        PROVE  OwnerInv'
    <3>1. UNCHANGED <<prov, row, req, clone>>
      BY <2>4 DEF Cleanup, AddJob, FetchSession, MarkCleaning,
           MarkCleaningFails, PowerOff, DeleteVm, DeleteFails, ReleaseVmid,
           MarkStopped, LateFailure, EvictJob, SetStatus
    <3> QED
      BY <3>1
  <2>5. ASSUME NEW s \in Sessions, ForgetSession(s) PROVE OwnerInv'
    BY <2>5 DEF ForgetSession, SetStatus
  <2>6. ASSUME NEW v \in Vmids, ExpireClaim(v) PROVE OwnerInv'
    BY <2>6 DEF ExpireClaim
  <2>7. CASE Crash
    <3>1. /\ UNCHANGED <<row, clone>>
          /\ \A b \in Builds : prov'[b] = prov[b] \/ prov'[b] = "dead"
          /\ \A s \in Sessions : req'[s] = "idle" <=> req[s] = "idle"
      BY <2>7 DEF Crash, TypeOK, ReqState
    <3> QED
      BY <3>1 DEF TypeOK
  <2>8. CASE UNCHANGED vars
    BY <2>8 DEF vars
  <2> QED
    BY <2>1, <2>2, <2>3, <2>4, <2>5, <2>6, <2>7, <2>8 DEF Next
<1>3. OwnerInv => OneOwner
  BY DEF OwnerInv
<1> QED
  BY <1>1, <1>2, <1>3, TypeCorrect, PTL DEF Spec

-----------------------------------------------------------------------------
(***************************************************************************)
(* What holds for every value of the other constants when none of the      *)
(* named faults happens: builds may still fail at any step, nodes be       *)
(* unreachable, deletes fail and be retried, and the process crash and     *)
(* restart.                                                                *)
(***************************************************************************)
(* The inductive invariant *)

BuildPhase == {"allocated", "cloning", "cloned", "booted", "undo"}
Deleting == {"cleaning", "off", "gone", "released"}

Released(s) == \E k \in JobKinds : job[<<s, k>>] = "released"

\* The request or session is not done with its clone, nor with its VMID.
Keeps(s) ==
    \/ req[s] = "holding"
    \/ session[s] \in {"running", "cleaning", "cleanup_failed"} /\ ~Released(s)

\* A job, a row or a destroyer is at work on the build.
Destroyed(b) == \E d \in Destroyers : destroy[<<b, d>>] \in Ending
Works(b) == prov[b] \in BuildPhase \/ row[b] # "none" \/ Destroyed(b)

\* Somebody still counts on the VMID of the build being its own.
Stake(b) == Works(b) \/ \E s \in Sessions : clone[s] = b /\ Keeps(s)

\* A student has it, or is about to.
Wants(s) == req[s] = "holding" \/ session[s] = "running"

\* Somebody still counts on its machine running.
Needs(b) ==
    \/ prov[b] = "booted" \/ row[b] # "none"
    \/ \E s \in Sessions : clone[s] = b /\ Wants(s)

\* A build is worked on by its own job, then listed by its row, then either
\* owned by a session or destroyed, by one destroyer, although several may have
\* read the row: each excludes the ones before.
PhaseInv ==
    /\ \A b \in Builds : prov[b] \in PreRow \cup {"undo"} =>
          row[b] = "none" /\ \A d \in Destroyers : destroy[<<b, d>>] = "none"
    /\ \A b \in Builds, d \in Destroyers :
          destroy[<<b, d>>] \in Ending => row[b] = "none"
    /\ \A b \in Builds, d, e \in Destroyers :
          destroy[<<b, d>>] \in Ending /\ destroy[<<b, e>>] \in Ending => d = e
    /\ \A s \in Sessions : clone[s] # None =>
          /\ prov[clone[s]] # "undo"
          /\ \A d \in Destroyers : destroy[<<clone[s], d>>] \notin Ending

\* Without "overlap" BullMQ runs one cleanup job of a session at a time (Alone).
OneAtWork ==
    \A s \in Sessions, j, k \in JobKinds :
        job[<<s, j>>] \in Active /\ job[<<s, k>>] \in Active => j = k

\* A cleanup job past its read has its session to itself, and in 'cleaning'.
CleanupInv ==
    /\ OneAtWork
    /\ \A s \in Sessions : req[s] = "holding" => clone[s] # None /\ session[s] = "none"
    /\ \A s \in Sessions : session[s] # "none" =>
          clone[s] # None /\ req[s] \in {"inserted", "done"}
    /\ \A s \in Sessions : req[s] = "inserted" => session[s] # "none"
    /\ \A s \in Sessions, k \in JobKinds :
          /\ job[<<s, k>>] # "none" => session[s] # "none"
          /\ job[<<s, k>>] = "fetched" => session[s] # "stopped"
          /\ job[<<s, k>>] \in Deleting => session[s] = "cleaning"
    /\ \A s \in Sessions : "timeout" \in JobKinds =>
          (job[<<s, "timeout">>] # "none" => req[s] = "done")

\* Whoever counts on a VMID holds the claim on it ...
ClaimInv == \A b \in Builds : Stake(b) => claims[vmid[b]] = b

\* ... and under the claim there is its own machine, or none any more.
Sound(b) ==
    /\ prov[b] \in BuildPhase \ {"allocated"} => vm[vmid[b]] = b
    /\ prov[b] = "cloning" => vmid[b] \notin on
    /\ Stake(b) /\ prov[b] # "allocated" => vm[vmid[b]] \in {b, None}
    /\ Needs(b) => Up(b)

MachineInv == (\A v \in on : vm[v] # None) /\ \A b \in Builds : Sound(b)

Inv == TypeOK /\ OwnerInv /\ PhaseInv /\ CleanupInv /\ ClaimInv /\ MachineInv

-----------------------------------------------------------------------------
(* Every step preserves it *)

\* A build only moves on through its phases.
LEMMA PhaseStep ==
    ASSUME Faults = {}, TypeOK, OwnerInv, PhaseInv, [Next]_vars
    PROVE  PhaseInv'
<1> USE DEF PhaseInv, OwnerInv, OneOwner, PreRow, Ending, TypeOK, builds, cluster, requests, jobs
<1>1. ASSUME NEW b \in Builds, Provision(b) PROVE PhaseInv'
  <2> USE DEF Step
  <2>1. CASE AllocateVmid(b)
    BY <2>1 DEF AllocateVmid
  <2>2. CASE CloneTemplate(b)
    BY <2>2 DEF CloneTemplate
  <2>3. CASE CloneRefused(b)
    BY <2>3 DEF CloneRefused, Release
  <2>4. CASE CloneWaited(b)
    BY <2>4 DEF CloneWaited
  <2>5. CASE CloneWaitFailed(b)
    BY <2>5 DEF CloneWaitFailed, Release
  <2>6. CASE Boot(b)
    BY <2>6 DEF Boot
  <2>7. CASE BootFails(b)
    BY <2>7 DEF BootFails
  <2>8. CASE InsertStagedVm(b)
    BY <2>8 DEF InsertStagedVm
  <2>9. CASE MarkStagedProvisioning(b)
    BY <2>9 DEF MarkStagedProvisioning, Update
  <2>10. CASE MarkStagedRunning(b)
    BY <2>10 DEF MarkStagedRunning, Update
  <2>11. CASE FinishBuild(b)
    BY <2>11 DEF FinishBuild
  <2>12. CASE BuildFails(b)
    BY <2>12 DEF BuildFails
  <2>13. CASE UndoBuild(b)
    BY <2>13 DEF UndoBuild, Release, Deletes, Deletable
  <2> QED
    BY <1>1, <2>1, <2>2, <2>3, <2>4, <2>5, <2>6, <2>7, <2>8, <2>9, <2>10, <2>11, <2>12, <2>13 DEF Provision
<1>2. ASSUME NEW b \in Builds, NEW d \in Destroyers, Destroy(b, d) PROVE PhaseInv'
  <2> USE DEF DestroyStep, DeleteRow
  <2>1. CASE DestroyRead(b, d)
    BY <2>1 DEF DestroyRead
  <2>2. CASE DestroyRow(b, d)
    BY <2>2 DEF DestroyRow
  <2>3. CASE ForgetRow(b, d)
    BY <2>3 DEF ForgetRow
  <2>4. CASE ReapRow(b, d)
    BY <2>4 DEF ReapRow
  <2>5. CASE DestroyOff(b, d)
    BY <2>5 DEF DestroyOff, StopVm
  <2>6. CASE DestroyDelete(b, d)
    BY <2>6 DEF DestroyDelete, Deletes, Deletable
  <2>7. CASE DestroyRelease(b, d)
    BY <2>7 DEF DestroyRelease, Release
  <2>8. CASE ReapList(b, d)
    BY <2>8 DEF ReapList
  <2> QED
    BY <1>2, <2>1, <2>2, <2>3, <2>4, <2>5, <2>6, <2>7, <2>8 DEF Destroy
<1>3. ASSUME NEW s \in Sessions, Request(s) PROVE PhaseInv'
  <2>1. CASE CreateSession(s)
    BY <2>1 DEF CreateSession
  <2>2. CASE CreateSessionFails(s)
    BY <2>2 DEF CreateSessionFails
  <2>3. CASE ArmTimeout(s)
    BY <2>3 DEF ArmTimeout
  <2>4. ASSUME NEW b \in Builds, ClaimStaged(s, b) PROVE PhaseInv'
    BY <2>4, NoneAssumption DEF ClaimStaged
  <2> QED
    BY <1>3, <2>1, <2>2, <2>3, <2>4 DEF Request
<1>4. ASSUME NEW s \in Sessions, NEW k \in JobKinds, Cleanup(s, k) PROVE PhaseInv'
  <2> USE DEF JobStep
  <2>1. CASE AddJob(s, k)
    BY <2>1 DEF AddJob
  <2>2. CASE FetchSession(s, k)
    BY <2>2 DEF FetchSession, Alone
  <2>3. CASE MarkCleaning(s, k)
    BY <2>3 DEF MarkCleaning, SetStatus
  <2>4. CASE MarkCleaningFails(s, k)
    BY <2>4 DEF MarkCleaningFails, AttemptFails
  <2>5. CASE PowerOff(s, k)
    BY <2>5 DEF PowerOff, StopVm
  <2>6. CASE DeleteVm(s, k)
    BY <2>6 DEF DeleteVm, Deletes, Deletable
  <2>7. CASE DeleteFails(s, k)
    BY <2>7 DEF DeleteFails, Deletes, Deletable, AttemptFails, SetStatus
  <2>8. CASE ReleaseVmid(s, k)
    BY <2>8 DEF ReleaseVmid, Release
  <2>9. CASE MarkStopped(s, k)
    BY <2>9 DEF MarkStopped, SetStatus
  <2>10. CASE LateFailure(s, k)
    BY <2>10 DEF LateFailure, AttemptFails, SetStatus
  <2>11. CASE EvictJob(s, k)
    BY <2>11 DEF EvictJob
  <2> QED
    BY <1>4, <2>1, <2>2, <2>3, <2>4, <2>5, <2>6, <2>7, <2>8, <2>9, <2>10, <2>11 DEF Cleanup
<1>5. CASE Crash
  BY <1>5 DEF Crash
<1>6. CASE UNCHANGED vars
  BY <1>6 DEF vars
<1> QED
  BY <1>1, <1>2, <1>3, <1>4, <1>5, <1>6 DEF Next, ForgetSession, ExpireClaim

\* Cleanup jobs of a session take turns.
LEMMA CleanupStep ==
    ASSUME Faults = {}, TypeOK, OwnerInv, CleanupInv, [Next]_vars
    PROVE  CleanupInv'
<1> USE DEF CleanupInv, OneAtWork, OwnerInv, OneOwner, Deleting,
         Active, JobState, TypeOK, builds, cluster, requests, jobs
<1>1. ASSUME NEW b \in Builds, Provision(b) PROVE CleanupInv'
  <2> USE DEF Step
  <2>1. CASE AllocateVmid(b)
    BY <2>1 DEF AllocateVmid
  <2>2. CASE CloneTemplate(b)
    BY <2>2 DEF CloneTemplate
  <2>3. CASE CloneRefused(b)
    BY <2>3 DEF CloneRefused, Release
  <2>4. CASE CloneWaited(b)
    BY <2>4 DEF CloneWaited
  <2>5. CASE CloneWaitFailed(b)
    BY <2>5 DEF CloneWaitFailed, Release
  <2>6. CASE Boot(b)
    BY <2>6 DEF Boot
  <2>7. CASE BootFails(b)
    BY <2>7 DEF BootFails
  <2>8. CASE InsertStagedVm(b)
    BY <2>8 DEF InsertStagedVm
  <2>9. CASE MarkStagedProvisioning(b)
    BY <2>9 DEF MarkStagedProvisioning, Update
  <2>10. CASE MarkStagedRunning(b)
    BY <2>10 DEF MarkStagedRunning, Update
  <2>11. CASE FinishBuild(b)
    BY <2>11 DEF FinishBuild
  <2>12. CASE BuildFails(b)
    BY <2>12 DEF BuildFails
  <2>13. CASE UndoBuild(b)
    BY <2>13 DEF UndoBuild, Release, Deletes, Deletable
  <2> QED
    BY <1>1, <2>1, <2>2, <2>3, <2>4, <2>5, <2>6, <2>7, <2>8, <2>9, <2>10, <2>11, <2>12, <2>13 DEF Provision
<1>2. ASSUME NEW b \in Builds, NEW d \in Destroyers, Destroy(b, d) PROVE CleanupInv'
  <2>1. CASE DestroyRead(b, d)
    BY <2>1 DEF DestroyRead
  <2>2. CASE DestroyRow(b, d)
    BY <2>2 DEF DestroyRow
  <2>3. CASE ForgetRow(b, d)
    BY <2>3 DEF ForgetRow
  <2>4. CASE ReapRow(b, d)
    BY <2>4 DEF ReapRow
  <2>5. CASE DestroyOff(b, d)
    BY <2>5 DEF DestroyOff, StopVm
  <2>6. CASE DestroyDelete(b, d)
    BY <2>6 DEF DestroyDelete, Deletes, Deletable
  <2>7. CASE DestroyRelease(b, d)
    BY <2>7 DEF DestroyRelease, Release
  <2>8. CASE ReapList(b, d)
    BY <2>8 DEF ReapList
  <2> QED
    BY <1>2, <2>1, <2>2, <2>3, <2>4, <2>5, <2>6, <2>7, <2>8 DEF Destroy
<1>3. ASSUME NEW s \in Sessions, Request(s) PROVE CleanupInv'
  <2>1. CASE CreateSession(s)
    BY <2>1 DEF CreateSession
  <2>2. CASE CreateSessionFails(s)
    BY <2>2 DEF CreateSessionFails
  <2>3. CASE ArmTimeout(s)
    <3>1. ASSUME NEW t \in Sessions, NEW k \in JobKinds
          PROVE  job'[<<t, k>>] = job[<<t, k>>] \/ (t = s /\ job'[<<t, k>>] = "waiting")
      <4>1. CASE UNCHANGED job
        BY <4>1
      <4>2. CASE job' = [job EXCEPT ![<<s, "timeout">>] = "waiting"]
        BY <4>2
      <4> QED
        BY <2>3, <4>1, <4>2 DEF ArmTimeout
    <3>2. /\ req' = [req EXCEPT ![s] = "done"] /\ req[s] = "inserted"
          /\ UNCHANGED <<clone, session>>
      BY <2>3 DEF ArmTimeout
    <3> QED
      BY <3>1, <3>2
  <2>4. ASSUME NEW b \in Builds, ClaimStaged(s, b) PROVE CleanupInv'
    BY <2>4, NoneAssumption DEF ClaimStaged
  <2> QED
    BY <1>3, <2>1, <2>2, <2>3, <2>4 DEF Request
<1>4. ASSUME NEW s \in Sessions, NEW k \in JobKinds, Cleanup(s, k) PROVE CleanupInv'
  <2> USE DEF JobStep
  <2>1. CASE AddJob(s, k)
    BY <2>1 DEF AddJob
  <2>2. CASE FetchSession(s, k)
    BY <2>2 DEF FetchSession, Alone
  <2>3. CASE MarkCleaning(s, k)
    BY <2>3 DEF MarkCleaning, SetStatus
  <2>4. CASE MarkCleaningFails(s, k)
    BY <2>4 DEF MarkCleaningFails, AttemptFails
  <2>5. CASE PowerOff(s, k)
    BY <2>5 DEF PowerOff, StopVm
  <2>6. CASE DeleteVm(s, k)
    BY <2>6 DEF DeleteVm, Deletes, Deletable
  <2>7. CASE DeleteFails(s, k)
    <3>1. \A j \in JobKinds : job'[<<s, j>>] \notin Active
      <4>1. /\ job[<<s, k>>] = "off"
            /\ \E r \in {"waiting", "finished"} : job' = [job EXCEPT ![<<s, k>>] = r]
        BY <2>7 DEF DeleteFails, AttemptFails
      <4>2. \A j \in JobKinds \ {k} : job[<<s, j>>] \notin Active
        BY <4>1
      <4> QED
        BY <4>1, <4>2
    <3>3. \A j \in JobKinds : job[<<s, j>>] = "none" => job'[<<s, j>>] = "none"
      <4>1. job[<<s, k>>] = "off" /\ \E r : job' = [job EXCEPT ![<<s, k>>] = r]
        BY <2>7 DEF DeleteFails, AttemptFails
      <4>2. \A j \in JobKinds \ {k} : job'[<<s, j>>] = job[<<s, j>>]
        BY <4>1
      <4> QED
        BY <4>1, <4>2
    <3>2. /\ \A t \in Sessions, j \in JobKinds :
                t # s => job'[<<t, j>>] = job[<<t, j>>]
          /\ \A t \in Sessions : \/ session'[t] = session[t]
                                 \/ t = s /\ session'[t] = "cleanup_failed"
          /\ session[s] = "cleaning"
          /\ UNCHANGED <<req, clone>>
      BY <2>7 DEF DeleteFails, AttemptFails, SetStatus
    <3> QED
      BY <3>1, <3>2, <3>3
  <2>8. CASE ReleaseVmid(s, k)
    BY <2>8 DEF ReleaseVmid, Release
  <2>9. CASE MarkStopped(s, k)
    <3>1. \A j \in JobKinds : job'[<<s, j>>] \notin Active
      BY <2>9 DEF MarkStopped, SetStatus
    <3>3. \A j \in JobKinds : job[<<s, j>>] = "none" => job'[<<s, j>>] = "none"
      <4>1. job[<<s, k>>] = "released" /\ job' = [job EXCEPT ![<<s, k>>] = "finished"]
        BY <2>9 DEF MarkStopped
      <4>2. \A j \in JobKinds \ {k} : job'[<<s, j>>] = job[<<s, j>>]
        BY <4>1
      <4> QED
        BY <4>1, <4>2
    <3>2. /\ \A t \in Sessions, j \in JobKinds :
                t # s => job'[<<t, j>>] = job[<<t, j>>]
          /\ \A t \in Sessions : \/ session'[t] = session[t]
                                 \/ t = s /\ session'[t] = "stopped"
          /\ session[s] = "cleaning"
          /\ UNCHANGED <<req, clone>>
      BY <2>9 DEF MarkStopped, SetStatus
    <3> QED
      BY <3>1, <3>2, <3>3
  <2>10. CASE LateFailure(s, k)
    BY <2>10 DEF LateFailure, AttemptFails, SetStatus
  <2>11. CASE EvictJob(s, k)
    BY <2>11 DEF EvictJob
  <2> QED
    BY <1>4, <2>1, <2>2, <2>3, <2>4, <2>5, <2>6, <2>7, <2>8, <2>9, <2>10, <2>11 DEF Cleanup
<1>5. CASE Crash
  BY <1>5 DEF Crash
<1>6. CASE UNCHANGED vars
  BY <1>6 DEF vars
<1> QED
  BY <1>1, <1>2, <1>3, <1>4, <1>5, <1>6 DEF Next, ForgetSession, ExpireClaim

-----------------------------------------------------------------------------
(* How a step can change who counts on what *)

\* Work on a build starts with its VMID and is never taken up again.
LEMMA WorksStep ==
    ASSUME Faults = {}, TypeOK, PhaseInv, [Next]_vars, NEW b \in Builds, Works(b)'
    PROVE  Works(b) \/ AllocateVmid(b)
<1> USE DEF Works, Destroyed, BuildPhase, Ending, PreRow, PhaseInv, TypeOK, builds, requests
<1>1. ASSUME NEW c \in Builds, Provision(c) PROVE Works(b) \/ AllocateVmid(b)
  <2>1. /\ UNCHANGED destroy
        /\ \A d \in Builds \ {c} : prov'[d] = prov[d] /\ row'[d] = row[d]
    BY <1>1 DEF Provision, Step, AllocateVmid, CloneTemplate, CloneRefused,
         CloneWaited, CloneWaitFailed, Boot, BootFails, InsertStagedVm,
         MarkStagedProvisioning, MarkStagedRunning, Update, FinishBuild,
         BuildFails, UndoBuild
  <2>2. \/ AllocateVmid(c)
        \/ prov[c] \in BuildPhase
        \/ row'[c] # "none" /\ row[c] # "none"
        \/ prov'[c] \notin BuildPhase /\ row'[c] = row[c]
    BY <1>1 DEF Provision, Step, CloneTemplate, CloneRefused,
         CloneWaited, CloneWaitFailed, Boot, BootFails, InsertStagedVm,
         MarkStagedProvisioning, MarkStagedRunning, Update, FinishBuild,
         BuildFails, UndoBuild
  <2> QED
    BY <2>1, <2>2
<1>2. ASSUME NEW c \in Builds, NEW d \in Destroyers, Destroy(c, d) PROVE Works(b)
  <2>1. /\ UNCHANGED prov
        /\ \A e \in Builds : row'[e] \in {row[e], "none"}
        /\ \A e \in Builds, f \in Destroyers :
              e # c \/ f # d => destroy'[<<e, f>>] = destroy[<<e, f>>]
    BY <1>2 DEF Destroy, DestroyStep, DeleteRow, DestroyRead, DestroyRow, ForgetRow, ReapList, ReapRow,
         DestroyOff, DestroyDelete, DestroyRelease
  <2>2. destroy'[<<c, d>>] \in Ending => Works(c)
    <3>1. CASE DestroyRow(c, d) \/ ForgetRow(c, d) \/ ReapRow(c, d)
      BY <3>1 DEF DeleteRow, DestroyRow, ForgetRow, ReapRow
    <3>2. CASE ~(DestroyRow(c, d) \/ ForgetRow(c, d) \/ ReapRow(c, d))
      BY <1>2, <3>2 DEF Destroy, DestroyStep, DestroyRead, ReapList, DestroyOff,
           DestroyDelete, DestroyRelease
    <3> QED
      BY <3>1, <3>2
  <2> QED
    BY <2>1, <2>2
<1>3. ASSUME NEW s \in Sessions, Request(s) PROVE Works(b)
  BY <1>3 DEF Request, ClaimStaged, CreateSession, CreateSessionFails, ArmTimeout
<1>4. ASSUME NEW s \in Sessions, NEW k \in JobKinds, Cleanup(s, k) PROVE Works(b)
  BY <1>4 DEF Cleanup, AddJob, FetchSession, MarkCleaning, MarkCleaningFails,
       PowerOff, DeleteVm, DeleteFails, ReleaseVmid, MarkStopped, LateFailure, EvictJob
<1>5. CASE Crash
  BY <1>5 DEF Crash
<1>6. CASE UNCHANGED vars
  BY <1>6 DEF vars
<1> QED
  BY <1>1, <1>2, <1>3, <1>4, <1>5, <1>6 DEF Next, ForgetSession, ExpireClaim

\* A session comes to hold a clone by claiming its row, and in no other way.
LEMMA KeepsStep ==
    ASSUME Faults = {}, TypeOK, CleanupInv, [Next]_vars, NEW s \in Sessions, Keeps(s)'
    PROVE  \/ Keeps(s) /\ clone'[s] = clone[s]
           \/ \E b \in Builds : ClaimStaged(s, b)
<1> USE DEF requests, jobs
<1>1. ASSUME UNCHANGED <<requests, jobs>> PROVE Keeps(s) /\ clone'[s] = clone[s]
  BY <1>1 DEF Keeps, Released
<1>2. ASSUME NEW t \in Sessions, Request(t)
      PROVE  \/ Keeps(s) /\ clone'[s] = clone[s]
             \/ \E b \in Builds : ClaimStaged(s, b)
  <2> USE DEF TypeOK, CleanupInv
  <2>1. ASSUME NEW b \in Builds, ClaimStaged(t, b)
        PROVE  t = s \/ (Keeps(s) /\ clone'[s] = clone[s])
    BY <2>1 DEF ClaimStaged, Keeps, Released
  <2>2. CASE CreateSession(t)
    BY <2>2 DEF CreateSession, Keeps, Released
  <2>3. CASE CreateSessionFails(t)
    BY <2>3 DEF CreateSessionFails, Keeps, Released
  <2>4. CASE ArmTimeout(t)
    <3>1. \A k \in JobKinds : job[<<s, k>>] = "released" => job'[<<s, k>>] = "released"
      <4>1. CASE UNCHANGED job
        BY <4>1
      <4>2. CASE /\ "timeout" \in JobKinds
                 /\ job' = [job EXCEPT ![<<t, "timeout">>] = "waiting"]
                 /\ req[t] = "inserted"
        BY <4>2
      <4> QED
        BY <2>4, <4>1, <4>2 DEF ArmTimeout
    <3>2. UNCHANGED <<session, clone>> /\ (req'[s] = "holding" => req[s] = "holding")
      BY <2>4 DEF ArmTimeout
    <3> QED
      BY <3>1, <3>2 DEF Keeps, Released
  <2> QED
    BY <1>2, <2>1, <2>2, <2>3, <2>4 DEF Request
<1>3. ASSUME NEW t \in Sessions, NEW k \in JobKinds, Cleanup(t, k)
      PROVE  Keeps(s) /\ clone'[s] = clone[s]
  <2> USE DEF TypeOK
  <2>1. /\ UNCHANGED <<req, clone>>
        /\ \A u \in Sessions \ {t} : session'[u] = session[u]
        /\ \A u \in Sessions, j \in JobKinds :
              <<u, j>> # <<t, k>> => job'[<<u, j>>] = job[<<u, j>>]
    <3>1. /\ UNCHANGED <<req, clone>>
          /\ \A u \in Sessions \ {t} : session'[u] = session[u]
      BY <1>3 DEF Cleanup, AddJob, FetchSession, MarkCleaning,
           MarkCleaningFails, PowerOff, DeleteVm, DeleteFails, ReleaseVmid,
           MarkStopped, LateFailure, EvictJob, SetStatus
    <3>2. \E r \in JobState \cup {"?"} : job' = [job EXCEPT ![<<t, k>>] = r]
      BY <1>3 DEF Cleanup, AddJob, FetchSession, MarkCleaning, JobState,
           MarkCleaningFails, PowerOff, DeleteVm, DeleteFails, ReleaseVmid,
           MarkStopped, LateFailure, EvictJob, JobStep, AttemptFails
    <3> QED
      BY <3>1, <3>2
  <2>2. \/ /\ session'[t] = session[t]
           /\ job[<<t, k>>] = "released" => job'[<<t, k>>] = "released"
        \/ /\ session[t] \in {"running", "cleaning", "cleanup_failed"}
           /\ job[<<t, k>>] \in Active \ {"released"}
        \/ session'[t] = "stopped" /\ req[t] # "holding"
    <3> USE DEF JobStep, SetStatus, CleanupInv, Deleting, Active, JobState
    <3>1. CASE AddJob(t, k) \/ FetchSession(t, k) \/ MarkCleaningFails(t, k)
      BY <3>1 DEF AddJob, FetchSession, MarkCleaningFails
    <3>2. CASE MarkCleaning(t, k)
      BY <3>2 DEF MarkCleaning, SessionState
    <3>3. CASE PowerOff(t, k) \/ DeleteVm(t, k) \/ ReleaseVmid(t, k)
      BY <3>3 DEF PowerOff, DeleteVm, ReleaseVmid
    <3>4. CASE DeleteFails(t, k)
      BY <3>4 DEF DeleteFails
    <3>5. CASE MarkStopped(t, k)
      BY <3>5 DEF MarkStopped
    <3>6. CASE EvictJob(t, k)
      BY <3>6 DEF EvictJob
    <3> QED
      BY <1>3, <3>1, <3>2, <3>3, <3>4, <3>5, <3>6 DEF Cleanup, LateFailure
  <2>3. job[<<t, k>>] \in Active \ {"released"} => ~Released(t)
    BY DEF Released, CleanupInv, OneAtWork, Active, JobState
  <2> QED
    BY <2>1, <2>2, <2>3 DEF Keeps, Released
<1>4. CASE Crash
  BY <1>4 DEF Crash, Keeps, Released, TypeOK
<1>5. ASSUME NEW b \in Builds, NEW d \in Destroyers, Destroy(b, d)
      PROVE  UNCHANGED <<requests, jobs>>
  BY <1>5 DEF Destroy, DestroyRead, DestroyRow, ForgetRow, ReapList, ReapRow,
       DestroyOff, DestroyDelete, DestroyRelease
<1>6. ASSUME NEW b \in Builds, Provision(b) PROVE UNCHANGED <<requests, jobs>>
  BY <1>6 DEF Provision, AllocateVmid, CloneTemplate, CloneRefused,
         CloneWaited, CloneWaitFailed, Boot, BootFails, InsertStagedVm,
         MarkStagedProvisioning, MarkStagedRunning, FinishBuild,
         BuildFails, UndoBuild
<1>7. CASE UNCHANGED vars
  BY <1>1, <1>7 DEF vars
<1> QED
  BY <1>1, <1>2, <1>3, <1>4, <1>5, <1>6, <1>7 DEF Next, ForgetSession, ExpireClaim

LEMMA StakeStep ==
    ASSUME Faults = {}, TypeOK, PhaseInv, CleanupInv, [Next]_vars,
           NEW b \in Builds, Stake(b)'
    PROVE  Stake(b) \/ AllocateVmid(b)
<1>1. CASE Works(b)'
  BY <1>1, WorksStep DEF Stake
<1>2. ASSUME NEW s \in Sessions, clone'[s] = b, Keeps(s)' PROVE Stake(b)
  <2>1. CASE Keeps(s) /\ clone'[s] = clone[s]
    BY <1>2, <2>1 DEF Stake
  <2>2. ASSUME NEW c \in Builds, ClaimStaged(s, c) PROVE Stake(b)
    <3>1. clone' = [clone EXCEPT ![s] = c] /\ row[c] = "running"
      BY <2>2 DEF ClaimStaged
    <3> QED
      BY <1>2, <3>1 DEF Stake, Works, TypeOK
  <2> QED
    BY <1>2, <2>1, <2>2, KeepsStep
<1> QED
  BY <1>1, <1>2 DEF Stake

\* Only builds that have a VMID are counted on.
LEMMA StakeVmid ==
    ASSUME TypeOK, OwnerInv, PhaseInv, NEW b \in Builds, Stake(b)
    PROVE  vmid[b] \in Vmids
<1>1. CASE Works(b)
  BY <1>1 DEF Works, Destroyed, BuildPhase, Ending, PhaseInv, PreRow, TypeOK
<1>2. ASSUME NEW s \in Sessions, clone[s] = b PROVE vmid[b] \in Vmids
  <2>1. clone[s] # None
    BY <1>2, NoneAssumption
  <2> QED
    BY <1>2, <2>1 DEF OwnerInv, OneOwner, TypeOK
<1> QED
  BY <1>1, <1>2 DEF Stake

-----------------------------------------------------------------------------
(* The claims *)

\* The steps that give the VMID of a build back.
Releases(b) ==
    \/ CloneRefused(b) \/ CloneWaitFailed(b) \/ UndoBuild(b)
    \/ \E d \in Destroyers : DestroyRelease(b, d)
    \/ \E s \in Sessions, k \in JobKinds : clone[s] = b /\ ReleaseVmid(s, k)

\* Nothing else touches a claim.
LEMMA ClaimsFrame ==
    ASSUME Faults = {}, TypeOK, CleanupInv, [Next]_vars
    PROVE  \/ UNCHANGED <<claims, vmid>>
           \/ \E b \in Builds : AllocateVmid(b) \/ Releases(b)
<1> USE DEF builds, Releases
<1>1. ASSUME NEW b \in Builds, Provision(b)
      PROVE  UNCHANGED <<claims, vmid>> \/ AllocateVmid(b) \/ Releases(b)
  BY <1>1 DEF Provision, CloneTemplate, CloneWaited, Boot, BootFails,
       InsertStagedVm, MarkStagedProvisioning, MarkStagedRunning, FinishBuild,
       BuildFails
<1>2. ASSUME NEW b \in Builds, NEW d \in Destroyers, Destroy(b, d)
      PROVE  UNCHANGED <<claims, vmid>> \/ Releases(b)
  BY <1>2 DEF Destroy, DestroyRead, DestroyRow, ForgetRow, ReapList, ReapRow,
       DestroyOff, DestroyDelete
<1>3. ASSUME NEW s \in Sessions, Request(s) PROVE UNCHANGED <<claims, vmid>>
  BY <1>3 DEF Request, ClaimStaged, CreateSession, CreateSessionFails, ArmTimeout
<1>4. ASSUME NEW s \in Sessions, NEW k \in JobKinds, Cleanup(s, k)
      PROVE  UNCHANGED <<claims, vmid>> \/ \E b \in Builds : Releases(b)
  <2>1. CASE ReleaseVmid(s, k)
    <3>1. job[<<s, k>>] = "gone"
      BY <2>1 DEF ReleaseVmid, JobStep
    <3>2. clone[s] \in Builds
      BY <3>1 DEF TypeOK, CleanupInv
    <3> QED
      BY <2>1, <3>2
  <2>2. CASE ~ReleaseVmid(s, k)
    BY <1>4, <2>2 DEF Cleanup, AddJob, FetchSession, MarkCleaning,
         MarkCleaningFails, PowerOff, DeleteVm, DeleteFails, MarkStopped,
         LateFailure, EvictJob
  <2> QED
    BY <2>1, <2>2
<1>5. CASE Crash
  BY <1>5 DEF Crash
<1>6. CASE UNCHANGED vars
  BY <1>6 DEF vars
<1> QED
  BY <1>1, <1>2, <1>3, <1>4, <1>5, <1>6 DEF Next, ForgetSession, ExpireClaim

\* Whoever gives a VMID back counts on it until then, is the last to, and gives
\* back no other.
LEMMA ReleasesStep ==
    ASSUME TypeOK, OwnerInv, PhaseInv, CleanupInv, NEW b \in Builds, Releases(b)
    PROVE  /\ Stake(b) /\ ~Stake(b)'
           /\ TriesRelease(vmid[b]) /\ UNCHANGED vmid
<1> USE DEF TypeOK, builds
<1>1. ASSUME /\ UNCHANGED <<row, destroy, requests, vmid>>
             /\ prov[b] \in BuildPhase
             /\ prov' = [prov EXCEPT ![b] = "failed"]
             /\ TriesRelease(vmid[b])
      PROVE  /\ Stake(b) /\ ~Stake(b)'
             /\ TriesRelease(vmid[b]) /\ UNCHANGED vmid
  <2>1. row[b] = "none" /\ ~Destroyed(b) /\ \A s \in Sessions : clone[s] # b
    <3>1. row[b] = "none" /\ ~Destroyed(b)
      BY <1>1 DEF PhaseInv, PreRow, BuildPhase, Destroyed, Ending
    <3>2. ASSUME NEW s \in Sessions, clone[s] = b PROVE FALSE
      <4>1. clone[s] # None /\ prov[clone[s]] \in BuildPhase
        BY <1>1, <3>2, NoneAssumption
      <4> QED
        BY <4>1 DEF OwnerInv, OneOwner, PhaseInv, BuildPhase
    <3> QED
      BY <3>1, <3>2
  <2>2. row'[b] = "none" /\ ~Destroyed(b)' /\ \A s \in Sessions : clone'[s] # b
    BY <1>1, <2>1 DEF requests, Destroyed
  <2> QED
    BY <1>1, <2>2 DEF Stake, Works, BuildPhase
<1>2. CASE CloneRefused(b) \/ CloneWaitFailed(b) \/ UndoBuild(b)
  <2>1. UNCHANGED <<row, destroy, requests, vmid>>
    BY <1>2 DEF CloneRefused, CloneWaitFailed, UndoBuild
  <2> QED
    BY <1>1, <1>2, <2>1 DEF CloneRefused, CloneWaitFailed, UndoBuild, Step, BuildPhase
<1>3. ASSUME NEW d \in Destroyers, DestroyRelease(b, d)
      PROVE  /\ Stake(b) /\ ~Stake(b)'
             /\ TriesRelease(vmid[b]) /\ UNCHANGED vmid
  <2>1. /\ destroy[<<b, d>>] = "gone" /\ destroy' = [destroy EXCEPT ![<<b, d>>] = "over"]
        /\ TriesRelease(vmid[b]) /\ UNCHANGED <<prov, vmid, row, req, clone, session>>
    BY <1>3 DEF DestroyRelease, DestroyStep, requests
  <2>2. /\ prov[b] \notin BuildPhase /\ row[b] = "none"
        /\ \A s \in Sessions : clone[s] # b
    BY <2>1, NoneAssumption DEF PhaseInv, BuildPhase, PreRow, Ending
  <2>3. Destroyed(b)
    BY <2>1 DEF Destroyed, Ending
  <2>4. ~Destroyed(b)'
    <3>1. \A e \in Destroyers \ {d} : destroy[<<b, e>>] \notin Ending
      BY <2>1 DEF PhaseInv, Ending
    <3> QED
      BY <2>1, <3>1 DEF Destroyed, Ending
  <2> QED
    BY <2>1, <2>2, <2>3, <2>4 DEF Stake, Works
<1>4. ASSUME NEW s \in Sessions, NEW k \in JobKinds, clone[s] = b, ReleaseVmid(s, k)
      PROVE  /\ Stake(b) /\ ~Stake(b)'
             /\ TriesRelease(vmid[b]) /\ UNCHANGED vmid
  <2>1. /\ job[<<s, k>>] = "gone" /\ job' = [job EXCEPT ![<<s, k>>] = "released"]
        /\ Release(vmid[b])
        /\ UNCHANGED <<prov, vmid, row, destroy, req, clone, session>>
    BY <1>4 DEF ReleaseVmid, JobStep, requests, at
  <2>2. Released(s)' /\ ~Released(s)
    <3>1. job'[<<s, k>>] = "released"
      BY <2>1 DEF TypeOK
    <3>2. ASSUME NEW i \in JobKinds, job[<<s, i>>] = "released" PROVE FALSE
      <4>1. {job[<<s, i>>], job[<<s, k>>]} \subseteq Active
        BY <2>1, <3>2 DEF Active
      <4>2. i = k
        BY <4>1 DEF CleanupInv, OneAtWork
      <4> QED
        BY <2>1, <3>2, <4>2
    <3> QED
      BY <3>1, <3>2 DEF Released
  <2>3. session[s] = "cleaning" /\ req[s] # "holding"
    BY <2>1 DEF CleanupInv, Deleting
  <2>4. Keeps(s) /\ ~Keeps(s)'
    BY <2>1, <2>2, <2>3 DEF Keeps
  <2>5. ~Works(b) /\ \A t \in Sessions : clone[t] = b => t = s
    <3>1. /\ row[b] = "none" /\ prov[b] \notin BuildPhase
          /\ \A t \in Sessions : clone[t] = b => t = s
      BY <1>4, NoneAssumption DEF OwnerInv, OneOwner, PhaseInv, BuildPhase
    <3>2. ~Destroyed(b)
      BY <1>4, NoneAssumption DEF PhaseInv, Destroyed
    <3> QED
      BY <3>1, <3>2 DEF Works
  <2>6. ~Works(b)'
    BY <2>1, <2>5 DEF Works, Destroyed
  <2> QED
    BY <1>4, <2>1, <2>4, <2>5, <2>6 DEF Stake, TriesRelease
<1> QED
  BY <1>2, <1>3, <1>4 DEF Releases

\* Two builds that both count on a VMID are one.
LEMMA OneStake ==
    ASSUME ClaimInv, NEW b \in Builds, NEW c \in Builds, Stake(b), Stake(c),
           vmid[b] = vmid[c]
    PROVE  b = c
BY DEF ClaimInv

LEMMA ClaimStep ==
    ASSUME Faults = {}, TypeOK, OwnerInv, PhaseInv, CleanupInv, ClaimInv, [Next]_vars
    PROVE  ClaimInv'
<1> SUFFICES ASSUME NEW c \in Builds, Stake(c)' PROVE claims'[vmid'[c]] = c
  BY DEF ClaimInv
<1>1. Stake(c) \/ AllocateVmid(c)
  BY StakeStep
<1>2. CASE UNCHANGED <<claims, vmid>>
  BY <1>1, <1>2, NoneAssumption DEF AllocateVmid, Step, TypeOK, ClaimInv
<1>3. ASSUME NEW b \in Builds, AllocateVmid(b) PROVE claims'[vmid'[c]] = c
  <2>1. PICK v \in Vmids : /\ claims[v] = None
                           /\ claims' = [claims EXCEPT ![v] = b]
                           /\ vmid' = [vmid EXCEPT ![b] = v]
    BY <1>3 DEF AllocateVmid
  <2>2. CASE b = c
    BY <2>1, <2>2 DEF TypeOK
  <2>3. CASE b # c
    <3>1. Stake(c)
      BY <1>1, <1>3, <2>3 DEF AllocateVmid, Step, TypeOK
    <3>2. claims[vmid[c]] = c /\ vmid[c] # v
      BY <2>1, <3>1, NoneAssumption DEF ClaimInv
    <3> QED
      BY <2>1, <2>3, <3>2 DEF TypeOK
  <2> QED
    BY <2>2, <2>3
<1>4. ASSUME NEW b \in Builds, Releases(b) PROVE claims'[vmid'[c]] = c
  <2>1. /\ Stake(b) /\ ~Stake(b)'
        /\ claims' \in {claims, [claims EXCEPT ![vmid[b]] = None]} /\ UNCHANGED vmid
    BY <1>4, ReleasesStep DEF TriesRelease, Release
  <2>2. Stake(c) /\ b # c
    BY <1>1, <2>1, NoneAssumption DEF AllocateVmid, Step, TypeOK
  <2>3. vmid[b] # vmid[c]
    BY <2>1, <2>2, OneStake
  <2>4. claims'[vmid[c]] = claims[vmid[c]]
    <3>1. CASE UNCHANGED claims
      BY <3>1
    <3>2. CASE claims' = [claims EXCEPT ![vmid[b]] = None]
      BY <2>2, <2>3, <3>2, StakeVmid DEF TypeOK
    <3> QED
      BY <2>1, <3>1, <3>2
  <2> QED
    BY <2>1, <2>2, <2>4 DEF ClaimInv
<1> QED
  BY <1>2, <1>3, <1>4, ClaimsFrame

-----------------------------------------------------------------------------
(* The machines *)

\* Who needs a machine running counts on its VMID, and its build is past the
\* phases where it is off.
LEMMA NeedsStake ==
    ASSUME TypeOK, OwnerInv, PhaseInv, CleanupInv
    PROVE  \A b \in Builds : Needs(b) =>
              Stake(b) /\ prov[b] \notin {"idle", "allocated", "cloning", "cloned", "undo"}
<1> SUFFICES ASSUME NEW b \in Builds, Needs(b)
             PROVE  Stake(b) /\ prov[b] \notin {"idle", "allocated", "cloning", "cloned", "undo"}
  OBVIOUS
<1>1. CASE prov[b] = "booted"
  BY <1>1 DEF Stake, Works, BuildPhase
<1>2. CASE row[b] # "none"
  BY <1>2 DEF Stake, Works, PhaseInv, PreRow
<1>3. ASSUME NEW s \in Sessions, clone[s] = b, Wants(s)
      PROVE  Stake(b) /\ prov[b] \notin {"idle", "allocated", "cloning", "cloned", "undo"}
  <2>1. Keeps(s)
    BY <1>3 DEF Wants, Keeps, Released, CleanupInv, Deleting
  <2>2. prov[b] \notin {"idle", "allocated", "cloning", "cloned", "undo"}
    <3>1. clone[s] # None
      BY <1>3, NoneAssumption
    <3> QED
      BY <1>3, <3>1 DEF OwnerInv, OneOwner, PhaseInv
  <2> QED
    BY <1>3, <2>1, <2>2 DEF Stake
<1> QED
  BY <1>1, <1>2, <1>3 DEF Needs

\* A machine comes to be needed by being booted, and in no other way.
LEMMA NeedsStep ==
    ASSUME Faults = {}, TypeOK, [Next]_vars, NEW b \in Builds, Needs(b)'
    PROVE  Needs(b) \/ Boot(b)
<1> USE DEF builds, requests
<1>1. ASSUME NEW c \in Builds, Provision(c) PROVE Needs(b) \/ Boot(b)
  <2>1. /\ UNCHANGED requests
        /\ \A d \in Builds \ {c} : prov'[d] = prov[d] /\ row'[d] = row[d]
    BY <1>1 DEF TypeOK, Provision, Step, AllocateVmid, CloneTemplate, CloneRefused,
         CloneWaited, CloneWaitFailed, Boot, BootFails, InsertStagedVm,
         MarkStagedProvisioning, MarkStagedRunning, Update, FinishBuild,
         BuildFails, UndoBuild
  <2>2. /\ prov'[c] = "booted" => Boot(c)
        /\ row'[c] # "none" => prov[c] = "booted" \/ row[c] # "none"
    BY <1>1 DEF TypeOK, Provision, Step, AllocateVmid, CloneTemplate, CloneRefused,
         CloneWaited, CloneWaitFailed, BootFails, InsertStagedVm, Boot,
         MarkStagedProvisioning, MarkStagedRunning, Update, FinishBuild,
         BuildFails, UndoBuild
  <2> QED
    BY <2>1, <2>2 DEF Needs, Wants
<1>2. ASSUME NEW c \in Builds, NEW d \in Destroyers, Destroy(c, d) PROVE Needs(b)
  <2>1. UNCHANGED <<prov, requests>> /\ \A e \in Builds : row'[e] \in {row[e], "none"}
    BY <1>2 DEF TypeOK, Destroy, DeleteRow, DestroyRead, DestroyRow, ForgetRow, ReapList, ReapRow,
         DestroyOff, DestroyDelete, DestroyRelease
  <2> QED
    BY <2>1 DEF Needs, Wants
<1>3. ASSUME NEW s \in Sessions, Request(s) PROVE Needs(b)
  <2>1. ASSUME NEW c \in Builds, ClaimStaged(s, c) PROVE Needs(b)
    BY <2>1 DEF ClaimStaged, Needs, Wants, TypeOK
  <2>2. CASE CreateSession(s)
    BY <2>2 DEF CreateSession, Needs, Wants, TypeOK
  <2>3. CASE CreateSessionFails(s) \/ ArmTimeout(s)
    BY <2>3 DEF CreateSessionFails, ArmTimeout, Needs, Wants, TypeOK
  <2> QED
    BY <1>3, <2>1, <2>2, <2>3 DEF Request
<1>4. ASSUME NEW s \in Sessions, NEW k \in JobKinds, Cleanup(s, k) PROVE Needs(b)
  <2>1. /\ UNCHANGED <<builds, req, clone>>
        /\ \A t \in Sessions : session'[t] # "running" \/ session'[t] = session[t]
    BY <1>4 DEF TypeOK, Cleanup, AddJob, FetchSession, MarkCleaning, MarkCleaningFails,
         PowerOff, DeleteVm, DeleteFails, ReleaseVmid, MarkStopped, LateFailure, EvictJob, SetStatus
  <2> QED
    BY <2>1 DEF Needs, Wants
<1>5. CASE Crash
  BY <1>5 DEF Crash, Needs, Wants, TypeOK
<1>6. CASE UNCHANGED vars
  BY <1>6 DEF vars, Needs, Wants
<1> QED
  BY <1>1, <1>2, <1>3, <1>4, <1>5, <1>6 DEF Next, ForgetSession, ExpireClaim

\* A build leaves its earlier phases only by its own steps.
LEMMA ProvStep ==
    ASSUME Faults = {}, TypeOK, OwnerInv, PhaseInv, CleanupInv, [Next]_vars,
           NEW b \in Builds, ~CloneTemplate(b), ~AllocateVmid(b)
    PROVE  /\ prov'[b] \in BuildPhase \ {"allocated"} => prov[b] \in BuildPhase \ {"allocated"}
           /\ prov'[b] = "cloning" => prov[b] = "cloning"
           /\ Stake(b)' /\ prov[b] = "allocated" => prov'[b] = "allocated"
           /\ vmid'[b] = vmid[b]
<1>1. CASE UNCHANGED <<prov, vmid>>
  BY <1>1
<1>2. ASSUME NEW c \in Builds, Provision(c)
      PROVE  /\ prov'[b] \in BuildPhase \ {"allocated"} => prov[b] \in BuildPhase \ {"allocated"}
             /\ prov'[b] = "cloning" => prov[b] = "cloning"
             /\ vmid'[b] = vmid[b]
             /\ prov[b] = "allocated" => prov'[b] = "allocated" \/ CloneRefused(b)
  BY <1>2 DEF TypeOK, BuildPhase, Provision, Step, AllocateVmid, CloneTemplate,
       CloneRefused, CloneWaited, CloneWaitFailed, Boot, BootFails, InsertStagedVm,
       MarkStagedProvisioning, MarkStagedRunning, FinishBuild, BuildFails, UndoBuild
<1>3. CASE Crash
  <2>1. /\ prov'[b] = prov[b] \/ prov'[b] = "dead"
        /\ UNCHANGED <<vmid, row, clone>>
        /\ ~Destroyed(b)'
    BY <1>3 DEF Crash, TypeOK, Destroyed, Ending
  <2>2. prov[b] = "allocated" =>
          row[b] = "none" /\ \A s \in Sessions : clone[s] # b
    BY NoneAssumption DEF PhaseInv, OwnerInv, OneOwner, PreRow
  <2> QED
    BY <2>1, <2>2 DEF BuildPhase, Stake, Works
<1>4. CloneRefused(b) => ~Stake(b)'
  BY ReleasesStep DEF Releases
<1>5. ASSUME NEW c \in Builds, NEW d \in Destroyers, Destroy(c, d)
      PROVE  UNCHANGED <<prov, vmid>>
  BY <1>5 DEF builds, Destroy, DestroyRead, DestroyRow, ForgetRow, ReapList, ReapRow,
       DestroyOff, DestroyDelete, DestroyRelease
<1>6. ASSUME NEW s \in Sessions, Request(s) PROVE UNCHANGED <<prov, vmid>>
  BY <1>6 DEF builds, Request, ClaimStaged, CreateSession, CreateSessionFails, ArmTimeout
<1>7. ASSUME NEW s \in Sessions, NEW k \in JobKinds, Cleanup(s, k)
      PROVE  UNCHANGED <<prov, vmid>>
  BY <1>7 DEF builds, Cleanup, AddJob, FetchSession, MarkCleaning,
       MarkCleaningFails, PowerOff, DeleteVm, DeleteFails, ReleaseVmid,
       MarkStopped, LateFailure, EvictJob
<1>8. CASE UNCHANGED vars
  BY <1>8 DEF vars, builds
<1> QED
  BY <1>1, <1>2, <1>3, <1>4, <1>5, <1>6, <1>7, <1>8
     DEF Next, ForgetSession, ExpireClaim

\* The steps that take power or the machine itself from a build.
Clears(b) ==
    \/ CloneWaitFailed(b) \/ UndoBuild(b)
    \/ \E d \in Destroyers : DestroyOff(b, d) \/ DestroyDelete(b, d)
    \/ \E s \in Sessions, k \in JobKinds :
          clone[s] = b /\ (PowerOff(s, k) \/ DeleteVm(s, k) \/ DeleteFails(s, k))

\* Nothing else touches the cluster but the clone task and the boot.
LEMMA ClusterFrame ==
    ASSUME Faults = {}, TypeOK, CleanupInv, [Next]_vars
    PROVE  \/ UNCHANGED cluster
           \/ \E b \in Builds : CloneTemplate(b) \/ Boot(b) \/ BootFails(b) \/ Clears(b)
<1> USE DEF cluster, Clears
<1>1. ASSUME NEW b \in Builds, Provision(b)
      PROVE  UNCHANGED cluster \/ CloneTemplate(b) \/ Boot(b) \/ BootFails(b) \/ Clears(b)
  BY <1>1 DEF Provision, AllocateVmid, CloneRefused, CloneWaited,
       InsertStagedVm, MarkStagedProvisioning, MarkStagedRunning, FinishBuild,
       BuildFails
<1>2. ASSUME NEW b \in Builds, NEW d \in Destroyers, Destroy(b, d)
      PROVE  UNCHANGED cluster \/ Clears(b)
  BY <1>2 DEF Destroy, DestroyRead, DestroyRow, ForgetRow, ReapList, ReapRow, DestroyRelease
<1>3. ASSUME NEW s \in Sessions, Request(s) PROVE UNCHANGED cluster
  BY <1>3 DEF Request, ClaimStaged, CreateSession, CreateSessionFails, ArmTimeout
<1>4. ASSUME NEW s \in Sessions, NEW k \in JobKinds, Cleanup(s, k)
      PROVE  UNCHANGED cluster \/ \E b \in Builds : Clears(b)
  <2>1. CASE PowerOff(s, k) \/ DeleteVm(s, k) \/ DeleteFails(s, k)
    <3>1. job[<<s, k>>] \in {"cleaning", "off"}
      BY <2>1 DEF PowerOff, DeleteVm, DeleteFails, JobStep
    <3>2. clone[s] \in Builds
      BY <3>1 DEF TypeOK, CleanupInv
    <3> QED
      BY <2>1, <3>2
  <2>2. CASE ~(PowerOff(s, k) \/ DeleteVm(s, k) \/ DeleteFails(s, k))
    BY <1>4, <2>2 DEF Cleanup, AddJob, FetchSession, MarkCleaning,
         MarkCleaningFails, ReleaseVmid, MarkStopped, LateFailure, EvictJob
  <2> QED
    BY <2>1, <2>2
<1>5. CASE Crash
  BY <1>5 DEF Crash
<1>6. CASE UNCHANGED vars
  BY <1>6 DEF vars
<1> QED
  BY <1>1, <1>2, <1>3, <1>4, <1>5, <1>6 DEF Next, ForgetSession, ExpireClaim

\* What a clearing step does: it works for a build that counts on the VMID and
\* needs the machine no more, on that one VMID, and deletes nothing that runs.
LEMMA ClearsStep ==
    ASSUME Faults = {}, TypeOK, OwnerInv, PhaseInv, CleanupInv, MachineInv,
           [Next]_vars, NEW b \in Builds, Clears(b)
    PROVE  /\ Stake(b) /\ ~Needs(b) /\ prov[b] # "allocated"
           /\ prov'[b] \notin BuildPhase
           /\ \A v \in Vmids \ {vmid[b]} : vm'[v] = vm[v] /\ (v \in on' <=> v \in on)
           /\ vm'[vmid[b]] \in {vm[vmid[b]], None}
           /\ vmid[b] \in on' => vmid[b] \in on /\ vm'[vmid[b]] = vm[vmid[b]]
           /\ on' \subseteq on
<1> USE DEF builds, cluster
<1>1. ASSUME NEW v, v = vmid[b],
             (Deletable(v) /\ Deletes(v)) \/ StopVm(v) \/ UNCHANGED cluster
      PROVE  /\ \A w \in Vmids \ {v} : vm'[w] = vm[w] /\ (w \in on' <=> w \in on)
             /\ vm'[v] \in {vm[v], None}
             /\ v \in on' => v \in on /\ vm'[v] = vm[v]
             /\ on' \subseteq on
  BY <1>1 DEF Deletable, Deletes, StopVm, TypeOK
<1>2. CASE CloneWaitFailed(b)
  <2>1. prov[b] = "cloning" /\ prov'[b] = "failed" /\ UNCHANGED on
        /\ vm' \in {vm, [vm EXCEPT ![vmid[b]] = None]}
    BY <1>2 DEF CloneWaitFailed, Step, TypeOK
  <2>2. Stake(b) /\ ~Needs(b) /\ vmid[b] \notin on
    BY <2>1, NeedsStake DEF Stake, Works, BuildPhase, MachineInv, Sound
  <2> QED
    BY <2>1, <2>2 DEF BuildPhase, TypeOK
<1>3. CASE UndoBuild(b)
  <2>1. prov[b] = "undo" /\ prov'[b] = "failed"
    BY <1>3 DEF UndoBuild, Step, TypeOK
  <2>2. Stake(b) /\ ~Needs(b)
    BY <2>1, NeedsStake DEF Stake, Works, BuildPhase
  <2> QED
    BY <1>1, <1>3, <2>1, <2>2 DEF BuildPhase, UndoBuild
<1>4. ASSUME NEW d \in Destroyers, DestroyOff(b, d) \/ DestroyDelete(b, d)
      PROVE  /\ Stake(b) /\ ~Needs(b) /\ prov[b] # "allocated"
             /\ prov'[b] \notin BuildPhase
             /\ \/ Deletable(vmid[b]) /\ Deletes(vmid[b])
                \/ StopVm(vmid[b])
                \/ UNCHANGED cluster
  <2>1. destroy[<<b, d>>] \in Ending /\ UNCHANGED prov
    BY <1>4 DEF DestroyOff, DestroyDelete, DestroyStep, Ending
  <2>2. /\ prov[b] \notin BuildPhase /\ row[b] = "none"
        /\ \A s \in Sessions : clone[s] # b
    BY <2>1, NoneAssumption DEF PhaseInv, Ending, BuildPhase, PreRow
  <2>3. Stake(b) /\ ~Needs(b)
    BY <2>1, <2>2 DEF Stake, Works, Destroyed, Needs, BuildPhase
  <2> QED
    BY <1>4, <2>1, <2>2, <2>3 DEF BuildPhase, DestroyOff, DestroyDelete
<1>5. ASSUME NEW s \in Sessions, NEW k \in JobKinds, clone[s] = b,
             PowerOff(s, k) \/ DeleteVm(s, k) \/ DeleteFails(s, k)
      PROVE  /\ Stake(b) /\ ~Needs(b) /\ prov[b] # "allocated"
             /\ prov'[b] \notin BuildPhase
             /\ (Deletable(vmid[b]) /\ Deletes(vmid[b])) \/ StopVm(vmid[b])
                \/ UNCHANGED cluster
  <2>1. job[<<s, k>>] \in {"cleaning", "off"} /\ UNCHANGED prov
    BY <1>5 DEF PowerOff, DeleteVm, DeleteFails, JobStep
  <2>2. session[s] = "cleaning" /\ req[s] # "holding"
    BY <2>1 DEF CleanupInv, Deleting
  <2>3. ~Released(s)
    BY <2>1 DEF Released, CleanupInv, OneAtWork, Active, JobState
  <2>4. /\ row[b] = "none" /\ prov[b] \notin BuildPhase /\ prov[b] # "booted"
        /\ \A t \in Sessions : clone[t] = b => t = s
    BY <1>5, NoneAssumption DEF OwnerInv, OneOwner, PhaseInv, BuildPhase
  <2>5. Stake(b) /\ ~Needs(b)
    BY <1>5, <2>2, <2>3, <2>4 DEF Stake, Keeps, Needs, Wants
  <2>6. (Deletable(vmid[b]) /\ Deletes(vmid[b])) \/ StopVm(vmid[b]) \/ UNCHANGED cluster
    BY <1>5 DEF PowerOff, DeleteVm, DeleteFails, at
  <2> QED
    BY <2>1, <2>4, <2>5, <2>6 DEF BuildPhase
<1> QED
  BY <1>1, <1>2, <1>3, <1>4, <1>5 DEF Clears

\* A build whose machine a step leaves as it was stays sound.
LEMMA SoundKept ==
    ASSUME Faults = {}, TypeOK, OwnerInv, PhaseInv, CleanupInv, [Next]_vars,
           NEW b \in Builds, Sound(b),
           ~CloneTemplate(b), ~AllocateVmid(b), ~Boot(b),
           vm'[vmid[b]] = vm[vmid[b]], vmid[b] \in on' <=> vmid[b] \in on
    PROVE  Sound(b)'
<1>1. /\ prov'[b] \in BuildPhase \ {"allocated"} => prov[b] \in BuildPhase \ {"allocated"}
      /\ prov'[b] = "cloning" => prov[b] = "cloning"
      /\ Stake(b)' /\ prov[b] = "allocated" => prov'[b] = "allocated"
      /\ vmid'[b] = vmid[b]
  BY ProvStep
<1>2. (Stake(b)' => Stake(b)) /\ (Needs(b)' => Needs(b))
  BY StakeStep, NeedsStep
<1> QED
  BY <1>1, <1>2 DEF Sound, Up

\* A build that nobody counts on any more is sound whatever happens.
LEMMA SoundLeft ==
    ASSUME Faults = {}, TypeOK, OwnerInv, PhaseInv, CleanupInv, [Next]_vars,
           NEW b \in Builds, ~Stake(b)', ~Stake(b), ~Boot(b)
    PROVE  Sound(b)'
<1>1. ~Needs(b)'
  BY NeedsStake, NeedsStep
<1>2. prov'[b] \notin BuildPhase
  BY DEF Stake, Works
<1> QED
  BY <1>1, <1>2 DEF Sound, BuildPhase

LEMMA MachineStep ==
    ASSUME Faults = {}, TypeOK, OwnerInv, PhaseInv, CleanupInv, ClaimInv,
           MachineInv, [Next]_vars
    PROVE  MachineInv'
<1> USE DEF builds, cluster
\* Another build than the one that acts is not touched.
<1>1. ASSUME NEW b \in Builds, NEW c \in Builds, c # b, Stake(b), UNCHANGED vmid,
             prov'[c] = prov[c],
             \A v \in Vmids \ {vmid[b]} : vm'[v] = vm[v] /\ (v \in on' <=> v \in on)
      PROVE  Sound(c)'
  <2>1. ~CloneTemplate(c) /\ ~AllocateVmid(c) /\ ~Boot(c)
    BY <1>1 DEF CloneTemplate, AllocateVmid, Boot, Step, TypeOK
  <2>2. CASE Stake(c)
    <3>1. vmid[c] # vmid[b]
      BY <1>1, <2>2, OneStake
    <3>2. vmid[c] \in Vmids
      BY <2>2, StakeVmid
    <3> QED
      BY <1>1, <2>1, <3>1, <3>2, SoundKept DEF MachineInv
  <2>3. CASE ~Stake(c)
    BY <2>1, <2>3, StakeStep, SoundLeft
  <2> QED
    BY <2>2, <2>3
<1>2. CASE UNCHANGED cluster /\ \A b \in Builds : ~CloneTemplate(b) /\ ~AllocateVmid(b) /\ ~Boot(b)
  BY <1>2, SoundKept DEF MachineInv
<1>3. ASSUME NEW b \in Builds, AllocateVmid(b) PROVE MachineInv'
  <2>1. /\ UNCHANGED <<cluster, row, destroy, requests, jobs>>
        /\ prov'[b] = "allocated" /\ prov[b] = "idle"
        /\ \A c \in Builds \ {b} : prov'[c] = prov[c] /\ vmid'[c] = vmid[c]
    BY <1>3 DEF AllocateVmid, Step, TypeOK
  <2>2. Sound(b)'
    <3>1. ~Needs(b)'
      <4>1. ~Needs(b)
        BY <2>1, NeedsStake
      <4> QED
        BY <2>1, <4>1 DEF Needs, Wants, requests
    <3> QED
      BY <2>1, <3>1 DEF Sound, BuildPhase
  <2>3. ASSUME NEW c \in Builds, c # b PROVE Sound(c)'
    <3>1. ~CloneTemplate(c) /\ ~AllocateVmid(c) /\ ~Boot(c)
      BY <2>1, <2>3 DEF CloneTemplate, AllocateVmid, Boot, Step, TypeOK
    <3> QED
      BY <2>1, <2>3, <3>1, SoundKept DEF MachineInv
  <2> QED
    BY <2>1, <2>2, <2>3 DEF MachineInv
<1>4. ASSUME NEW b \in Builds, CloneTemplate(b) PROVE MachineInv'
  <2>1. /\ UNCHANGED <<on, vmid>> /\ prov[b] = "allocated" /\ prov'[b] = "cloning"
        /\ \A c \in Builds \ {b} : prov'[c] = prov[c]
        /\ vm[vmid[b]] = None /\ vm' = [vm EXCEPT ![vmid[b]] = b]
    BY <1>4 DEF CloneTemplate, Step, TypeOK
  <2>2. vmid[b] \in Vmids /\ vmid[b] \notin on /\ Stake(b)
    BY <2>1 DEF TypeOK, MachineInv, Stake, Works, BuildPhase
  <2>3. Sound(b)'
    <3>1. ~Needs(b)'
      BY <1>4, <2>1, NeedsStake, NeedsStep DEF Boot, Step
    <3> QED
      BY <2>1, <2>2, <3>1 DEF Sound, TypeOK
  <2>4. \A c \in Builds : c # b => Sound(c)'
    BY <1>1, <2>1, <2>2 DEF TypeOK
  <2>5. \A v \in on' : vm'[v] # None
    BY <2>1, <2>2, NoneAssumption DEF MachineInv, TypeOK
  <2> QED
    BY <2>3, <2>4, <2>5 DEF MachineInv
<1>5. ASSUME NEW b \in Builds, Boot(b) \/ BootFails(b) PROVE MachineInv'
  <2>1. /\ UNCHANGED <<vm, vmid>> /\ prov[b] = "cloned" /\ prov'[b] \in {"booted", "undo"}
        /\ \A c \in Builds \ {b} : prov'[c] = prov[c]
        /\ on' \in {on, on \cup {vmid[b]}}
        /\ prov'[b] = "booted" => vmid[b] \in on'
    BY <1>5 DEF Boot, BootFails, Step, TypeOK
  <2>2. Stake(b) /\ vm[vmid[b]] = b /\ ~Needs(b)
    BY <2>1, NeedsStake DEF MachineInv, Sound, Stake, Works, BuildPhase
  <2>3. Sound(b)'
    <3>1. prov'[b] = "undo" => ~Needs(b)'
      BY <1>5, <2>1, <2>2, NeedsStep DEF Boot, Step, TypeOK
    <3> QED
      BY <2>1, <2>2, <3>1 DEF Sound, Up
  <2>4. \A c \in Builds : c # b => Sound(c)'
    BY <1>1, <2>1, <2>2
  <2> QED
    BY <2>1, <2>2, <2>3, <2>4, NoneAssumption DEF MachineInv
<1>6. ASSUME NEW b \in Builds, Clears(b) PROVE MachineInv'
  <2>1. /\ Stake(b) /\ ~Needs(b) /\ prov[b] # "allocated"
        /\ prov'[b] \notin BuildPhase
        /\ \A v \in Vmids \ {vmid[b]} : vm'[v] = vm[v] /\ (v \in on' <=> v \in on)
        /\ vm'[vmid[b]] \in {vm[vmid[b]], None}
        /\ vmid[b] \in on' => vmid[b] \in on /\ vm'[vmid[b]] = vm[vmid[b]]
        /\ on' \subseteq on
    BY <1>6, ClearsStep
  <2>2. UNCHANGED vmid /\ \A c \in Builds \ {b} : prov'[c] = prov[c]
    BY <1>6 DEF Clears, CloneWaitFailed, UndoBuild, DestroyOff, DestroyDelete,
         PowerOff, DeleteVm, DeleteFails, Step, TypeOK
  <2>3. Sound(b)'
    <3>1. ~Boot(b)
      BY <2>1 DEF Boot, Step, BuildPhase, TypeOK
    <3>2. ~Needs(b)'
      BY <2>1, <3>1, NeedsStep
    <3> QED
      BY <2>1, <2>2, <3>2 DEF MachineInv, Sound, BuildPhase
  <2>4. \A c \in Builds : c # b => Sound(c)'
    BY <1>1, <2>1, <2>2
  <2>5. \A v \in on' : vm'[v] # None
    BY <2>1 DEF MachineInv, TypeOK
  <2> QED
    BY <2>3, <2>4, <2>5 DEF MachineInv
<1> QED
  BY <1>2, <1>3, <1>4, <1>5, <1>6, ClusterFrame

-----------------------------------------------------------------------------
(* The theorems *)

\* Nobody needs a machine before there is one.
THEOREM InvInit == Init => Inv
<1> SUFFICES ASSUME Init PROVE Inv
  OBVIOUS
<1>1. TypeOK
  BY DEF Init, TypeOK, ProvState, RowState, DestroyState, ReqState,
         SessionState, JobState
<1>2. OwnerInv /\ PhaseInv
  BY DEF Init, OwnerInv, OneOwner, PhaseInv, Ending
<1>3. CleanupInv
  BY DEF Init, CleanupInv, OneAtWork, Active, Deleting
<1>4. \A b \in Builds : ~Stake(b) /\ ~Needs(b)
  BY NoneAssumption DEF Init, Stake, Works, Destroyed, Needs, BuildPhase, Ending
<1>5. ClaimInv /\ MachineInv
  BY <1>4 DEF Init, ClaimInv, MachineInv, Sound, BuildPhase
<1> QED
  BY <1>1, <1>2, <1>3, <1>5 DEF Inv

\* Without the named faults the invariant holds throughout.
THEOREM InvHolds == ASSUME Faults = {} PROVE Spec => []Inv
<1>1. Inv /\ TypeOK' /\ OwnerInv' /\ [Next]_vars => Inv'
  BY PhaseStep, CleanupStep, ClaimStep, MachineStep DEF Inv
<1> QED
  BY <1>1, InvInit, TypeCorrect, OwnershipSafe, PTL DEF Spec

\* What the invariant says of what students see.
LEMMA InvServed == Inv => Served /\ HeldVmidClaimed
<1> SUFFICES ASSUME Inv PROVE Served /\ HeldVmidClaimed
  OBVIOUS
<1>1. \A b \in Builds : Needs(b) => Up(b) /\ claims[vmid[b]] = b
  BY NeedsStake DEF Inv, MachineInv, Sound, ClaimInv
<1>2. \A b \in Builds : row[b] = "running" => Needs(b)
  BY DEF Needs
<1>3. ASSUME NEW s \in Sessions, Wants(s)
      PROVE  clone[s] \in Builds /\ Needs(clone[s])
  BY <1>3 DEF Inv, TypeOK, CleanupInv, Wants, Needs
<1> QED
  BY <1>1, <1>2, <1>3 DEF Served, HeldVmidClaimed, Wants, at, Inv, CleanupInv

\* However many builds, sessions, VMIDs and cleanup attempts there are, and
\* however the handlers interleave, fail and crash: a staged row, a request and
\* a running session have their own machine, and it is on.
THEOREM ServedSafe == ASSUME Faults = {} PROVE Spec => []Served
BY InvHolds, InvServed, PTL

\* Nobody releases, and nobody else takes, the claim on a VMID that a row, a
\* request or a running session goes by.
THEOREM ClaimedSafe == ASSUME Faults = {} PROVE Spec => []HeldVmidClaimed
BY InvHolds, InvServed, PTL

\* No step powers off or deletes a machine but for the build that claims it,
\* however many administrators and ticks have read its row: only the one whose
\* DELETE found the row comes to the machine, and the claim is its own until it
\* gives it back.
THEOREM TouchSafe == ASSUME Faults = {} PROVE Spec => TouchOnlyOwn
<1> DEFINE Own == \A v \in Vmids :
                     /\ vm[v] # None /\ vm'[v] = None => claims[v] = vm[v]
                     /\ v \in on \ on' => claims[v] = vm[v]
<1>1. Inv /\ [Next]_vars => Own
  <2> SUFFICES ASSUME Inv, [Next]_vars PROVE Own
    OBVIOUS
  <2> USE DEF Inv
  <2>1. CASE UNCHANGED cluster
    BY <2>1 DEF cluster
  <2>2. ASSUME NEW b \in Builds, CloneTemplate(b) \/ Boot(b) \/ BootFails(b) PROVE Own
    BY <2>2, NoneAssumption DEF CloneTemplate, Boot, BootFails, TypeOK
  <2>3. ASSUME NEW b \in Builds, Clears(b) PROVE Own
    <3>1. /\ Stake(b) /\ prov[b] # "allocated"
          /\ \A v \in Vmids \ {vmid[b]} : vm'[v] = vm[v] /\ (v \in on' <=> v \in on)
      BY <2>3, ClearsStep
    <3>2. claims[vmid[b]] = b /\ vm[vmid[b]] \in {b, None}
      BY <3>1 DEF ClaimInv, MachineInv, Sound
    <3>3. \A v \in on : vm[v] # None
      BY DEF MachineInv
    <3> QED
      BY <3>1, <3>2, <3>3
  <2> QED
    BY <2>1, <2>2, <2>3, ClusterFrame
<1> QED
  BY <1>1, InvHolds, PTL DEF Spec, TouchOnlyOwn

\* A stopped session stays stopped: no cleanup job that read it earlier is
\* still on its way to write to it.
THEOREM StoppedSafe == ASSUME Faults = {} PROVE Spec => StoppedIsFinal
<1>1. Inv /\ [Next]_vars => \A s \in Sessions : session[s] = "stopped" => session'[s] = "stopped"
  <2> SUFFICES ASSUME Inv, [Next]_vars, NEW s \in Sessions, session[s] = "stopped"
               PROVE  session'[s] = "stopped"
    OBVIOUS
  <2> USE DEF Inv, TypeOK, requests
  <2>1. CASE UNCHANGED session
    BY <2>1
  <2>2. ASSUME NEW t \in Sessions, Request(t) PROVE session'[s] = "stopped"
    BY <2>2 DEF Request, ClaimStaged, CreateSession, CreateSessionFails,
         ArmTimeout, CleanupInv
  <2>3. ASSUME NEW t \in Sessions, NEW k \in JobKinds, Cleanup(t, k)
        PROVE  session'[s] = "stopped"
    <3>1. MarkCleaning(t, k) \/ DeleteFails(t, k) => t # s
      BY DEF MarkCleaning, DeleteFails, JobStep, CleanupInv, Deleting
    <3> QED
      BY <2>3, <3>1 DEF Cleanup, AddJob, FetchSession, MarkCleaning,
           MarkCleaningFails, PowerOff, DeleteVm, DeleteFails, ReleaseVmid,
           MarkStopped, LateFailure, EvictJob, SetStatus
  <2>4. ASSUME NEW b \in Builds, Provision(b) PROVE UNCHANGED session
    BY <2>4 DEF Provision, AllocateVmid, CloneTemplate, CloneRefused,
         CloneWaited, CloneWaitFailed, Boot, BootFails, InsertStagedVm,
         MarkStagedProvisioning, MarkStagedRunning, FinishBuild,
         BuildFails, UndoBuild
  <2>5. ASSUME NEW b \in Builds, NEW d \in Destroyers, Destroy(b, d) PROVE UNCHANGED session
    BY <2>5 DEF Destroy, DestroyRead, DestroyRow, ForgetRow, ReapList, ReapRow,
         DestroyOff, DestroyDelete, DestroyRelease
  <2> QED
    BY <2>1, <2>2, <2>3, <2>4, <2>5 DEF Next, Crash, ForgetSession, ExpireClaim, vars
<1> QED
  BY <1>1, InvHolds, PTL DEF Spec, StoppedIsFinal

-----------------------------------------------------------------------------
(* The abstract pool *)

\* The abstract state, and what it is made of.
Place == [b \in Builds |-> placeOf(b)]
Owner == [b \in Builds |-> ownerOf(b)]
mapped == <<prov, row, clone>>

-----------------------------------------------------------------------------
(* The mapping *)

\* The place of a clone, alternative by alternative.
PlaceFrom(given, r, p) ==
    IF given THEN "owned"
    ELSE IF r = "running" THEN "pooled"
    ELSE IF r # "none" THEN "building"
    ELSE IF p = "idle" THEN "absent"
    ELSE IF p \in Building THEN "building"
    ELSE "retired"

LEMMA Places ==
    ASSUME NEW b \in Builds, row[b] \in RowState
    PROVE  placeOf(b) = PlaceFrom(Given(b), row[b], prov[b])
BY Zenon DEF RowState, placeOf, Building, PlaceFrom

LEMMA PlacesNext ==
    ASSUME NEW b \in Builds, row'[b] \in RowState
    PROVE  placeOf(b)' = PlaceFrom(Given(b)', row'[b], prov'[b])
BY Zenon DEF RowState, placeOf, Building, PlaceFrom

\* Nothing but a claim changes who has a clone, so that only the row and the
\* position of the job can move it.
LEMMA SameOwner ==
    ASSUME UNCHANGED clone
    PROVE  /\ UNCHANGED Owner
           /\ \A b \in Builds : Given(b)' = Given(b)
BY DEF Owner, ownerOf, Given

-----------------------------------------------------------------------------
(* Steps *)

\* A step of one build's job: it begins, is offered, or is given up.
LEMMA ProvisionMaps ==
    ASSUME TypeOK, TypeOK', OwnerInv, NEW b \in Builds, Provision(b)
    PROVE  Abstract!Next \/ UNCHANGED <<Place, Owner>>
<1> USE DEF Step
<1>1. /\ UNCHANGED clone
      /\ \A c \in Builds \ {b} : row'[c] = row[c] /\ prov'[c] = prov[c]
  BY DEF Provision, AllocateVmid, CloneTemplate, CloneRefused, CloneWaited,
       CloneWaitFailed, Boot, BootFails, InsertStagedVm, MarkStagedProvisioning,
       MarkStagedRunning, FinishBuild, BuildFails, UndoBuild, Update, TypeOK, requests
<1>2. \A c \in Builds \ {b} : placeOf(c)' = placeOf(c)
  BY <1>1, SameOwner, Places, PlacesNext DEF TypeOK
<1>3. UNCHANGED Owner /\ Given(b)' = Given(b)
  BY <1>1, SameOwner
<1>4. Place' = [Place EXCEPT ![b] = placeOf(b)']
  BY <1>2 DEF Place
<1>5. CASE placeOf(b)' = placeOf(b)
  BY <1>3, <1>4, <1>5 DEF Place
<1>6. CASE placeOf(b) = "absent" /\ placeOf(b)' = "building"
  BY <1>3, <1>4, <1>6 DEF Abstract!Next, Abstract!Begin, Place, Owner
<1>7. CASE placeOf(b) = "building" /\ placeOf(b)' = "pooled"
  BY <1>3, <1>4, <1>7 DEF Abstract!Next, Abstract!Offer, Place, Owner
<1>8. CASE placeOf(b) \in {"building", "pooled"} /\ placeOf(b)' = "retired"
  <2>1. Abstract!Retire({b})
    BY <1>3, <1>4, <1>8 DEF Abstract!Retire, Place, Owner
  <2> QED
    BY <2>1 DEF Abstract!Next
<1>9. \/ placeOf(b)' = placeOf(b)
      \/ placeOf(b) = "absent" /\ placeOf(b)' = "building"
      \/ placeOf(b) = "building" /\ placeOf(b)' \in {"pooled", "retired"}
  <2> DEFINE given == Given(b)
  <2>1. /\ placeOf(b) = PlaceFrom(given, row[b], prov[b])
        /\ placeOf(b)' = PlaceFrom(given, row'[b], prov'[b])
    BY <1>3, Places, PlacesNext DEF TypeOK
  <2>2. given => row[b] = "none" /\ prov[b] \notin PreRow \cup {"inserted", "marked"}
    BY NoneAssumption DEF Given, OwnerInv, OneOwner, PreRow
  <2>3. /\ row[b] # "none" => prov[b] \notin PreRow
        /\ row[b] = "running" => prov[b] \notin {"inserted", "marked"}
        /\ row[b] \in RowState /\ prov[b] \in ProvState
    BY DEF OwnerInv, TypeOK
  <2> HIDE DEF given
  <2>4. CASE prov[b] \in PreRow /\ row'[b] = row[b] /\ prov'[b] \in Building
    BY <2>1, <2>2, <2>3, <2>4 DEF PlaceFrom, PreRow, Building
  <2>5. CASE prov[b] \in Building /\ row'[b] = row[b] /\ prov'[b] \in {"undo", "failed"}
    BY <2>1, <2>2, <2>3, <2>5 DEF PlaceFrom, PreRow, Building
  <2>6. CASE InsertStagedVm(b)
    <3>1. prov[b] = "booted" /\ row'[b] = "queued"
      BY <2>6 DEF InsertStagedVm, TypeOK
    <3> QED
      BY <3>1, <2>1, <2>2, <2>3 DEF PlaceFrom, PreRow, Building
  <2>7. CASE MarkStagedProvisioning(b) \/ MarkStagedRunning(b)
    <3>1. /\ prov[b] \in {"inserted", "marked"} /\ prov'[b] \in {"marked", "published"}
          /\ IF row[b] = "none" THEN row'[b] = "none" ELSE row'[b] \in {"provisioning", "running"}
      BY <2>7 DEF MarkStagedProvisioning, MarkStagedRunning, Update, TypeOK
    <3> QED
      BY <3>1, <2>1, <2>2, <2>3 DEF PlaceFrom, PreRow, Building
  <2>8. CASE /\ prov[b] \in {"inserted", "marked", "published", "undo"}
             /\ prov'[b] \in {"done", "undo", "failed"} /\ row'[b] = row[b]
    BY <2>1, <2>2, <2>3, <2>8 DEF PlaceFrom, PreRow, Building
  <2> QED
    BY <2>4, <2>5, <2>6, <2>7, <2>8 DEF Provision, AllocateVmid, CloneTemplate,
       CloneRefused, CloneWaited, CloneWaitFailed, Boot, BootFails, FinishBuild,
       BuildFails, UndoBuild, TypeOK, PreRow, Building
<1> QED
  BY <1>5, <1>6, <1>7, <1>8, <1>9

\* The destruction of a row retires its clone, unless it was gone already.
LEMMA DestroyMaps ==
    ASSUME TypeOK, TypeOK', OwnerInv, NEW b \in Builds, NEW d \in Destroyers,
           Destroy(b, d)
    PROVE  Abstract!Next \/ UNCHANGED <<Place, Owner>>
<1>1. /\ UNCHANGED <<clone, prov>>
      /\ row' \in {row, [row EXCEPT ![b] = "none"]}
  BY DEF Destroy, DestroyRead, DestroyRow, ForgetRow, ReapList, ReapRow, DestroyOff,
       DestroyDelete, DestroyRelease, DeleteRow, requests, builds
<1>2. \A c \in Builds \ {b} : placeOf(c)' = placeOf(c)
  BY <1>1, SameOwner, Places, PlacesNext DEF TypeOK
<1>3. UNCHANGED Owner /\ Given(b)' = Given(b)
  BY <1>1, SameOwner
<1>4. \/ placeOf(b)' = placeOf(b)
      \/ placeOf(b) \in {"building", "pooled"} /\ placeOf(b)' = "retired"
  BY <1>1, <1>3, Places, PlacesNext DEF PlaceFrom, TypeOK, OwnerInv, PreRow, Building
<1>5. CASE placeOf(b)' = placeOf(b)
  BY <1>2, <1>3, <1>5 DEF Place
<1>6. CASE placeOf(b) \in {"building", "pooled"} /\ placeOf(b)' = "retired"
  <2>1. Abstract!Retire({b})
    BY <1>2, <1>3, <1>6 DEF Abstract!Retire, Place, Owner
  <2> QED
    BY <2>1 DEF Abstract!Next
<1> QED
  BY <1>4, <1>5, <1>6

\* A request takes a clone that is ready, and has none yet.
LEMMA ClaimMaps ==
    ASSUME TypeOK, TypeOK', OwnerInv, OwnerInv',
           NEW s \in Sessions, NEW b \in Builds, ClaimStaged(s, b)
    PROVE  Abstract!Next
<1>1. /\ clone' = [clone EXCEPT ![s] = b] /\ clone[s] = None
      /\ row' = [row EXCEPT ![b] = "none"] /\ row[b] = "running"
      /\ UNCHANGED prov
  BY DEF ClaimStaged, OwnerInv
<1>2. \A t \in Sessions : clone[t] # b
  BY <1>1, NoneAssumption DEF OwnerInv, OneOwner, TypeOK
<1>3. /\ ~Given(b) /\ Given(b)'
      /\ \A c \in Builds \ {b} : Given(c)' = Given(c)
  BY <1>1, <1>2, NoneAssumption DEF Given, TypeOK
<1>4. /\ placeOf(b) = "pooled" /\ placeOf(b)' = "owned"
      /\ \A c \in Builds \ {b} : placeOf(c)' = placeOf(c)
  <2>1. row'[b] = "none" /\ \A c \in Builds \ {b} : row'[c] = row[c]
    BY <1>1 DEF TypeOK
  <2> QED
    BY <1>1, <1>3, <2>1, Places, PlacesNext DEF PlaceFrom, TypeOK
<1>5. \A t \in Sessions : clone'[t] = b <=> t = s
  BY <1>1, <1>2 DEF TypeOK
<1>6. ownerOf(b)' = s
  BY <1>3, <1>5 DEF ownerOf
<1>7. \A c \in Builds \ {b}, t \in Sessions : clone'[t] = c <=> clone[t] = c
  BY <1>1, NoneAssumption DEF TypeOK
<1>8. \A c \in Builds \ {b} : ownerOf(c)' = ownerOf(c)
  <2> SUFFICES ASSUME NEW c \in Builds \ {b} PROVE ownerOf(c)' = ownerOf(c)
    OBVIOUS
  <2>1. CASE ~Given(c)
    BY <1>3, <2>1 DEF ownerOf
  <2>2. CASE Given(c)
    <3>1. PICK t \in Sessions : clone[t] = c
      BY <2>2 DEF Given
    <3>2. ownerOf(c) = t
      BY <2>2, <3>1, NoneAssumption DEF ownerOf, OwnerInv, OneOwner
    <3>3. \A u \in Sessions : clone'[u] = c <=> u = t
      BY <1>7, <3>1, NoneAssumption DEF OwnerInv, OneOwner
    <3>4. ownerOf(c)' = t
      BY <1>3, <2>2, <3>3 DEF ownerOf
    <3> QED
      BY <3>2, <3>4
  <2> QED
    BY <2>1, <2>2
<1>9. \A c \in Builds : ownerOf(c) # s
  <2> SUFFICES ASSUME NEW c \in Builds, ownerOf(c) = s PROVE FALSE
    OBVIOUS
  <2>1. Given(c)
    BY OwnerAssumption DEF ownerOf
  <2>2. clone[ownerOf(c)] = c
    BY <2>1 DEF ownerOf, Given
  <2> QED
    BY <1>1, <2>2, NoneAssumption
<1>10. Abstract!Assign(b, s)
  BY <1>4, <1>6, <1>8, <1>9 DEF Abstract!Assign, Place, Owner
<1> QED
  BY <1>10 DEF Abstract!Next

\* A crash gives up what was being built and has no row.
LEMMA CrashMaps ==
    ASSUME TypeOK, TypeOK', Crash
    PROVE  Abstract!Next
<1>1. /\ UNCHANGED <<row, clone>>
      /\ \A b \in Builds : \/ prov'[b] = prov[b]
                           \/ prov[b] \in Working /\ prov'[b] = "dead"
  BY DEF Crash, TypeOK
<1> DEFINE C == {b \in Builds : placeOf(b)' # placeOf(b)}
<1>2. UNCHANGED Owner /\ \A b \in Builds : Given(b)' = Given(b)
  BY <1>1, SameOwner
<1>3. \A b \in C : placeOf(b) = "building" /\ placeOf(b)' = "retired"
  BY <1>1, <1>2, Places, PlacesNext DEF PlaceFrom, Building, Working, TypeOK
<1>4. Abstract!Retire(C)
  BY <1>2, <1>3 DEF Abstract!Retire, Place, Owner
<1>5. C \in SUBSET Builds
  OBVIOUS
<1> QED
  BY <1>4, <1>5 DEF Abstract!Next

\* All the rest is between stores the promise does not mention.
LEMMA OtherMaps ==
    ASSUME UNCHANGED mapped
    PROVE  UNCHANGED <<Place, Owner>>
BY DEF mapped, Place, Owner, placeOf, ownerOf, Given

\* Whatever fails, VmLifecycle does what CloneOwnership says: each clone goes to
\* one session at most, only once it is ready, and never comes back
\* (docs/templates.md:14).
THEOREM OwnershipImplemented == Spec => ImplementsOwnership
<1>1. Init => Abstract!Init
  <2> SUFFICES ASSUME Init PROVE Abstract!Init
    OBVIOUS
  <2>1. \A b \in Builds : ~Given(b)
    BY NoneAssumption DEF Init, Given
  <2>2. \A b \in Builds : placeOf(b) = "absent" /\ ownerOf(b) = None
    <3> SUFFICES ASSUME NEW b \in Builds
                 PROVE  placeOf(b) = "absent" /\ ownerOf(b) = None
      OBVIOUS
    <3>1. ~Given(b) /\ row[b] = "none" /\ prov[b] = "idle"
      BY <2>1 DEF Init
    <3>2. ownerOf(b) = None
      BY <3>1 DEF ownerOf
    <3>3. placeOf(b) = PlaceFrom(Given(b), row[b], prov[b])
      BY <3>1, Places DEF RowState
    <3> QED
      BY <3>1, <3>2, <3>3 DEF PlaceFrom
  <2> QED
    BY <2>2 DEF Abstract!Init
<1>2. TypeOK /\ TypeOK' /\ OwnerInv /\ OwnerInv' /\ [Next]_vars
        => [Abstract!Next]_(Abstract!vars)
  <2> DEFINE Maps == Abstract!Next \/ UNCHANGED <<Place, Owner>>
  <2> SUFFICES ASSUME TypeOK, TypeOK', OwnerInv, OwnerInv', [Next]_vars PROVE Maps
    BY DEF Abstract!vars, Place, Owner
  <2>1. ASSUME NEW b \in Builds, Provision(b) PROVE Maps
    BY <2>1, ProvisionMaps
  <2>8. ASSUME NEW b \in Builds, NEW d \in Destroyers, Destroy(b, d) PROVE Maps
    BY <2>8, DestroyMaps
  <2>2. ASSUME NEW s \in Sessions, Request(s) PROVE Maps
    <3>1. ASSUME NEW b \in Builds, ClaimStaged(s, b) PROVE Maps
      BY <3>1, ClaimMaps
    <3>2. ASSUME CreateSession(s) \/ CreateSessionFails(s) \/ ArmTimeout(s) PROVE Maps
      BY <3>2, OtherMaps DEF CreateSession, CreateSessionFails, ArmTimeout, builds, mapped
    <3> QED
      BY <2>2, <3>1, <3>2 DEF Request
  <2>3. ASSUME NEW s \in Sessions, NEW k \in JobKinds, Cleanup(s, k) PROVE Maps
    <3>1. UNCHANGED mapped
      BY <2>3 DEF Cleanup, AddJob, FetchSession, MarkCleaning, MarkCleaningFails,
         PowerOff, DeleteVm, DeleteFails, ReleaseVmid, MarkStopped, LateFailure,
         EvictJob, SetStatus, builds, requests, mapped
    <3> QED
      BY <3>1, OtherMaps
  <2>4. ASSUME NEW s \in Sessions, ForgetSession(s) PROVE Maps
    BY <2>4, OtherMaps DEF ForgetSession, SetStatus, builds, mapped
  <2>5. ASSUME NEW v \in Vmids, ExpireClaim(v) PROVE Maps
    BY <2>5, OtherMaps DEF ExpireClaim, builds, requests, mapped
  <2>6. CASE Crash
    BY <2>6, CrashMaps
  <2>7. CASE UNCHANGED vars
    BY <2>7, OtherMaps DEF vars, builds, requests, mapped
  <2> HIDE DEF Maps
  <2> QED
    BY <2>1, <2>2, <2>3, <2>4, <2>5, <2>6, <2>7, <2>8 DEF Next
<1> QED
  BY <1>1, <1>2, TypeCorrect, OwnershipSafe, PTL
     DEF Spec, ImplementsOwnership, Abstract!Spec
=============================================================================
