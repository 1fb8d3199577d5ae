# WCTARange in TLA+

WCTARange is a browser portal for lab virtual machines: a student asks for a VM,
gets a clone that was built and booted beforehand, works on it through an RDP or
VNC tunnel, and loses it when they stop, go away, or reach the time limit. The
backend (`src/backend/src`) is one Node.js process around three stores that know
nothing of each other: Postgres (sessions, staged clones, imports), Redis (BullMQ
queues, VMID claims, request locks) and the Proxmox cluster (the machines). Almost
everything that can go wrong here goes wrong between two `await`s, and that is what
this project models.

All code paths below are relative to `src/backend/src` unless they start with
`src/`.

## The system

| Component | State | Operations | Talks to |
|---|---|---|---|
| VMID pool, `services/vmidPool.ts` | Redis `vmid:claim:N`, 8 h TTL | `allocateVmid` (SET NX), `releaseVmid` (DEL) | provisioning, cleanup, admin, reaper, import |
| Staging table, `services/staging.ts` | `staged_vms` rows | insert, mark provisioning / running, claim (DELETE ... RETURNING), delete, count | provisioning, requests, admin, reaper, maintainer |
| Session manager, `services/sessionManager.ts` | `sessions` rows: status, deadline, activity, demo flag | create, mark, heartbeat, extend, demo, list stale / live | routes, workers, sweep |
| Provisioning worker, `jobs/provisioningWorker.ts` | position in the handler | preflight, allocate, clone, wait, configure, boot, publish, undo | Proxmox, VMID pool, staging |
| Cleanup worker, `jobs/cleanupWorker.ts` | position in the handler, 4 at once | read, requeue, mark, power off, roll back, delete, release, mark stopped | Proxmox, VMID pool, sessions, its own queue |
| Queues, `jobs/queues.ts` | BullMQ jobs by id | add (a known id is a no-op), retry, retain, recover stalled | Redis |
| Inactivity monitor, `jobs/inactivityMonitor.ts` | none | every 60 s: list stale sessions, add a cleanup for each | sessions, cleanup queue |
| Staging monitor, `jobs/stagingMonitor.ts` | none | reap rows of dead workers, then top the pools up | staging, Proxmox, maintainer |
| Staging maintainer, `services/stagingMaintainer.ts` | slots as job ids | add a provisioning job per missing clone | provisioning queue |
| Staging health and settings | failure counts and targets per template | record, clear, read | provisioning, maintainer, admin |
| VM routes, `routes/vm.ts` | Redis request lock per user | request, extend, heartbeat, demo, stop | all of the above |
| Admin routes, `routes/admin.ts` | none | stop, forget, destroy, stop all, delete inactive | all of the above |
| Template administration, `services/templateAdmin.ts`, `config.ts` | YAML files, overlays | hide, show, destroy completely | sessions, staging, Proxmox |
| VM import, `services/vmImport/*`, `routes/imports.ts`, `jobs/importWorker.ts` | `vm_imports` rows, upload files, tokens of the artifact server | upload, inspect, start, run, cancel, finalize, delete | import queue, Proxmox, VMID pool |
| Import inspection and builders, `services/archive.ts`, `vmImport/inspect.ts`, `ovfBuilder.ts` | none | read an archive, tell disks from extents, write a descriptor, stream a package | import |
| noVNC proxy, `rdp/novnc.ts` | one pair of sockets, a phase, three buffers | answer the VNC authentication, relay, filter a spectator's input | browser, Proxmox |
| RDP tokens, `rdp/proxy.ts` | none | admit, count as activity, wait for the guest's port | sessions, Guacamole |
| Console page, `src/frontend/src/pages/Console.tsx` and its two consoles | polling, path, mounted console | poll, heartbeat, connect, fall back, retry | the routes and proxies above |
| Auth, audit, logger, the other pages | stateless here | | |

Hard behaviours, each listed with its line under `hazards` in `PROJECT.json`:

* **One number, three stores.** A VMID is the only name that Redis, Postgres and
  Proxmox share, and it is reused. A handler reads it, waits minutes for Proxmox,
  and uses it again. Whatever it then stops, deletes or releases must still be the
  clone it read about.
* **Overlapping handlers.** The cleanup of one session can be queued under two ids
  and without any; admins destroy rows that students are claiming; the reaper
  destroys rows of workers that may only be slow.
* **Failure half way.** A clone is cloned, claimed, recorded and published in nine
  awaits, and undone in three that ignore their own failures; cleanup is retried
  from the start after failing anywhere; a crash loses every handler and none of the
  state.
* **Time.** The hard timeout job is armed when the session starts, requeues itself
  if the session was extended since, and races the extension; the sweep works from a
  list that is older than the heartbeat it should have seen; job ids that BullMQ
  remembers make later `add`s silent no-ops.
* **Counting.** Quotas and the pool size are read, awaited on, and acted on.
* **Lists that age.** An administrator's procedures list sessions, rows or machines and
  then work through the list for minutes, while all that is listed goes on changing.
* **One row, many writers.** An import's row is written by the upload, the worker, the
  handlers of administrators and the startup code, each unconditionally and some awaits
  after reading it; the bundle, the node and the queue follow at their own pace.
* **Cut messages.** The VNC proxy reads a byte protocol out of WebSocket messages that
  end anywhere, changes phase in the middle of them, and has two sockets that close when
  they like.
* **Late answers.** A console that React has replaced is still waiting for its token.
* **Names and offsets.** One disk has a path in the archive, a flat name, a name in the
  descriptor and a place in the package; each stage finds it by another.

## Modules

| Module | Role |
|---|---|
| `VmLifecycle` | a clone from the job that builds it to the job that deletes it |
| `CloneOwnership` | what the pool promises, abstractly |
| `VmOwnership` | the refinement mapping from the first to the second |
| `MCVmLifecycle` | instances of the above for TLC |
| `VmLifecycleProofs` | type correctness and `OneOwner`, for all faults; `Served`, `HeldVmidClaimed`, `TouchOnlyOwn`, `StoppedIsFinal` without the named faults; the refinement, step by step |
| `SessionCleanup` | when one session ends and by whom: clock, sweep, timeout jobs, the cleanup queue |
| `MCSessionCleanup` | its symmetry for TLC |
| `SessionCleanupProofs` | type correctness, `EndsForCause`, `NotStranded` |
| `StagingPool` | the pools of warm clones, counted: maintainer, provisioning queue, capacity |
| `StagingPoolProofs` | type correctness and `OverrunBounded`, for any number of pools |
| `AdminSweep` | one image and its clones: requests with quota and lock, demos, cleanups, and the procedures that destroy a template, delete what is inactive, or delete what is staged |
| `MCAdminSweep` | its users and symmetry for TLC |
| `AdminSweepProofs` | all five properties of the `Office` run |
| `ImportJob` | one import from its upload to its template, with cancellation, deletion, restart and retry |
| `ImportJobProofs` | type correctness for all faults, the other five properties of the `ImportSafe` run without them |
| `Places` | the elements at some places of a sequence, a filter whose result can be reasoned about |
| `ArchiveFormat` | the formats: tar and ZIP64, written and read by counting |
| `BundleImport` | one bundle from its archive to the disks of a machine; extends `ArchiveFormat` |
| `MCBundleImport` | files with troublesome names and sizes for TLC |
| `BundleImportProofs` | all four properties of the `Bundle` run, for any number of files |
| `VncTunnel` | one connection through the noVNC proxy |
| `VncTunnelProofs` | type correctness, `NoForeignInput` and `HandshakeInOrder`, however messages are cut |
| `ConsolePage` | the pages that look at one session, and what the session is told by them |
| `ConsolePageProofs` | type correctness and `FallsBackOnlyAtFirst` |

`VmLifecycle` follows clones and forgets the clock; `SessionCleanup` follows the clock and
sees a cleanup as one step; `StagingPool` counts clones and does not tell them apart;
`AdminSweep` puts students, pool, cleanups and administrators together around one image,
each as coarse as an administrator's procedure can tell. They share actions (a claim, a
cleanup, a reaped row) seen from four sides. They are not composed into one state machine:
each hazard listed involves the state of one of them, and the product would be out of TLC's
reach. `ImportJob` and `BundleImport` are the two sides of an import, when its steps run and
what they do to the data; `VncTunnel` and `ConsolePage` the two ends of a console.

### VmLifecycle

A *build* is one run of the provisioning job; its identity stands for the clone and
for the staged row made of it. Variables map to stores as follows.

| Variable | Code |
|---|---|
| `claims` | the Redis keys `vmid:claim:N`. The model remembers which build set a key; no action reads that but through "the key is absent", as the code can |
| `vm`, `on` | the Proxmox cluster: which clone has a VMID, which machines run |
| `prov`, `vmid` | the position of a run of `startProvisioningWorker`'s handler, and its local `vmId`, which the row and the session copy |
| `row` | `staged_vms.status` |
| `destroy` | the position, with each row, of each run of `destroyStagedVmById`, `/staged/:id/forget` or `reapWedgedStagedRows` |
| `req`, `clone` | the position of a `POST /request` handler, and the row it claimed |
| `session` | `sessions.status` |
| `job`, `tries` | cleanup jobs by session and job id, their position in `startCleanupWorker`'s handler, and failed attempts |

Every `await` separates two actions. Calls that follow each other while nothing else
may change what they use are joined (the calls of `Boot`; delete and release in
`UndoBuild`, across which the claim is held; power off and rollback), and the
comments at these actions say so. What Proxmox refuses is modelled: creating a VMID
that exists, deleting a machine that runs or is locked.

Failures. Always possible are: a refused or timed-out clone, a wait that fails while
the clone goes on, a failed boot with the machine on or off, a failed insert, a
failed power off, failed deletes and their retries, a failing status update, an
unreachable Redis at a swallowed release, and a crash of the process at any point
followed by BullMQ's re-run of active jobs. Six failures that the code does *not*
survive are enabled by name through `Faults`, so that each property says exactly what
it depends on: `overlap`, `late`, `stale`, `lateBuild`, `expiry`, `forget` (the
module's header defines each).

Limits. Any number of `Destroyers` read or list the same row, minutes before they delete it; a
tick comes to one row after the other, and the next tick does not wait for it. What happens
when the row is gone by then is the fault `stale`. A run of the provisioning
worker for a user (`provisioningWorker.ts:150-164`) is not modelled: the only caller
that adds provisioning jobs, `services/stagingMaintainer.ts:69`, asks for staged
clones. Nodes are left out: a row carries its node along with its VMID. The clock is
left out: the hard timeout job may run at any time after it is armed, and the reaper
acts on rows whose worker is dead, which is what its 15 minutes stand for.

### SessionCleanup

| Variable | Code |
|---|---|
| `status`, `deadline`, `extended`, `seen` | `status`, `hard_expires_at`, `extended_minutes`, `last_activity_at` of one row of `sessions` |
| `arming` | `POST /request` between the insert of the session and the add of its timeout job |
| `sweep` | this session's row in the list that `inactivityMonitor` is working through |
| `job` | the jobs of the cleanup queue for this session: `stop` is `cleanup-session-N`, used by the student, the sweep and the script; `admin` is the administrator's id; `Timers` are ids that BullMQ makes up |
| `asked`, `resets`, `crashes` | what has happened, for properties and bounds |

The cleanup worker's handler is four steps: the read of the session with the decision taken
on it, the requeue and the return, `markSessionCleaning`, and the cleanup proper, which
succeeds or fails into `cleanup_failed`. A job keeps its id in the queue after it has
completed or failed, until `removeOnComplete` / `removeOnFail` evict it (`Evict`, at any
time), and `AddNamed` of an id that is there does nothing. A stalled job is run again once
(BullMQ's `maxStalledCount`), then failed.

Two races and one failure are enabled by name in `Faults`: `extend` (an extension between
the worker's read and its mark), `heartbeat` (after the sweep listed the session) and
`outage` (a call outside the worker's `try` throws). Time is a counter, with deadlines of
one to three ticks, that stops at `MaxTime`, past every deadline.

### StagingPool

| Variable | Code |
|---|---|
| `job`, `tries` | provisioning jobs `stage-<template>-<node>-<slot>`; where an active one is in the handler |
| `counted` | the answer of `countActiveSessions` while the preflight awaits the other count |
| `orphans`, `ready` | `staged_vms` rows that nobody is about to publish, and rows in `running`. A row whose job is about to publish it is the job's state `inserted` |
| `claiming`, `sessions` | requests between claim and insert; active sessions |
| `caller` | one run of `ensureStagedVmForNode` per caller (the monitor's tick, a request, an administrator), each await a step |

A *pool* is what `ensureStagedVmForNode` counts: a template, or a template on one node. A
run of the maintainer reads the live count, reads the sessions, works out which slots to
fill and goes through them, while builds start, fail and publish. `EnsureSlot` says what
becomes of a job under a slot's id: finished jobs are replaced; a waiting job may be, if it
has waited twelve minutes; an active job never is, because BullMQ does not remove a job
whose lock is held. `Hang` is a call that never settles.

Limits. Targets do not change while the model runs. The health records are left out: only
screens read them. Machines of sessions that are being cleaned up take room on the cluster
and are counted neither by the code nor here.

### AdminSweep

| Variable | Code |
|---|---|
| `machine`, `claims` | the cluster, with the image that the clones are linked to; the Redis keys `vmid:claim:N` |
| `build`, `staged` | a provisioning job of a clone; its row in `staged_vms` |
| `req`, `held`, `lock` | a `POST /request` handler, the clone it has, and the key `vm:req-lock:user:<id>` |
| `session`, `work` | `sessions.status`; a cleanup job of the session |
| `demo`, `demoAt`, `shown` | `sessions.demo_active`; a `startDemo` between its two statements; the session whose start was the last to report success, unless that demo was stopped since (a history variable) |
| `tile` | the template as `getTemplate` shows it: source, listed, hidden |
| `destroy`, `sweep`, `purge` | `destroyTemplateCompletely`; `POST /vms/delete-inactive`; `destroyStagedVmById`, for one row or, as `DELETE /vms/all`, for every row |
| `told` | the VMIDs in the `failed` lists the administrator is answered |
| `past` | what has happened, for the properties: `lost` are machines that the code gives up on knowingly or whose error it swallows, `stray` are rows of builds that overtook the sweep, `overlap` and `expired` say that requests of one user overlapped and that a lock ran out |
| `agenda` | which procedures the administrators run in this behaviour |

A sweep's SQL statements are single steps and its calls to Proxmox one step per machine.
Lists are worked through in any order. A build looks its tile up once and clones several
awaits later, when the image may be hidden or gone (`FindTile`, `Clone`). A request passes the quota, the lock, the template
check, the claim, the insert and the deletion of the lock one by one. The model takes a
VMID to be used once: with reused VMIDs the final `UPDATE` and `DELETE` of the sweep, which
go by VMID, would also hit a newer machine of the same number (`routes/admin.ts:698-716`).

### ImportJob

| Variable | Code |
|---|---|
| `status`, `stage`, `settings`, `inspected`, `path` | the row of `vm_imports`; the stages before `prep` are one |
| `upload` | the position of each `PUT` handler in `receiveBundle`, its progress writer included |
| `bundle`, `scratch`, `keep` | the file on disk, the directory a split disk is merged in, `settings.keepUpload` |
| `job`, `stalls` | the job `vm-import-N`: one attempt, kept when it has failed |
| `work`, `made`, `held` | the position of `runImport`, its `createdVmid` and `uploadedVolids` |
| `token` | an artifact is published on the artifact server |
| `copy`, `fetching`, `vm` | the node: the copy in its import storage, a download that nobody waits for, the VM |
| `tile` | the imported template is registered |
| `hand` | the handlers of start, cancel, delete and finalize: which row they read, how far they are |
| `boot` | `failInterruptedImports` between its list and its writes |

Eight faults are enabled by name, as in `VmLifecycle`; the module's header defines them.
What remains possible without any: every call to the node and every write of the row in the
worker may fail, uploads may end early, a crash may happen before the VM is asked for, and
administrators may do everything that the status of the row allows at any time.

### ArchiveFormat and BundleImport

No state of their own between requests: an operator for each function, and seven actions
that hand one bundle from inspection (`Inspect`) over the plan (`Submit`), the package
(`Package`), its transfer (`SendOva`, `SendDisks`) to the machine (`Create`, `CreateFails`).
A name is a tuple of directory, stem, tie-breaking numbers and extension. Left out are the
grammars of the descriptors: an OVF or a VMX is the list of disks it names, in its order.
`tape` is the stream of blocks that the upload consists of, and `ListTar` the reader both of
an uploaded tar and of what is sent to the node. An uploaded tar is written by other programs
(`ForeignTar`): by GNU tar, with `L` records and sizes in base 256, or in PAX format, with an
`x` record before every member that may or may not say `path=` and `size=`. Loops over entries and blocks are recursive
functions, filters select by place (`Places`). `FilesAssumption` says that only a `.vmdk` that
is not an extent names parts: `rewriteDescriptorIfNeeded` tells the descriptor by its text
(`pipeline.ts:713-716`), and extents hold data.

### VncTunnel

| Variable | Code |
|---|---|
| `asker` | who connects, whether the session's row says running and demo, and the shared flag of its ClientInit: `format` is 0 when it is set, else the number of pieces that follow and are taken for the rest of a SetPixelFormat |
| `pc` | the connection handler before and after its awaits (`novnc.ts:230-285`) |
| `bws`, `pws` | the two sockets; `missed`: the browser closed before the handler listened |
| `phase` | `Phase` |
| `buf` | `serverBuf`, `clientBuf`, `spectateBuf` |
| `wire` | pieces under way in each direction; a piece is half a message or a one-byte message, and any number of pieces is read at once |
| `peer` | what the console of the node and the browser expect next |
| `reached` | the messages that got to the console |

### ConsolePage

| Variable | Code |
|---|---|
| `session` | the row, with the time since `last_activity_at` in ticks, the guest's address, and whether its port answers, refuses or stays silent |
| `page` | per page the React state of `Console.tsx` (polling, session, error, path, forced), the mounted console with its state, the label of `NoVNCConsole`, and whether a replaced console still awaits a token |

The hard timeout is left out, because with it every session would end for that reason alone;
`SessionCleanup` has it. The page's own timers (polling, heartbeat, the
timeout of a connection) fire at any time.

## Runs

All but the temporal properties of `SessionEnds`, `Pool`, `ImportEnds`, `Vnc` and `Console`
are safety. All runs disable the deadlock check: once everything is built, used and over,
the models have nothing left to do.

| Run | Shows |
|---|---|
| `VmServed` | with no named fault: whatever a student is offered or holds is up and is what was built (`Served`), its VMID is claimed by it (`HeldVmidClaimed`), nothing is stopped or deleted under a recycled VMID (`TouchOnlyOwn`), stopped sessions stay stopped (`StoppedIsFinal`) |
| `VmFaults` | with every named fault, a clone has one owner (`OneOwner`), and `VmLifecycle` implements `CloneOwnership` (`ImplementsOwnership`) |
| `SessionCause` | with outages, both job ids and the recovery script, a running session is torn down only when asked for, silent, or at its deadline (`EndsForCause`) |
| `SessionEnds` | with a crash, lost timeout jobs, evicted ids and both races, a session that is running or cleaning always has a job under way or an id left to add one (`NotStranded`), and is cleaned up in the end (`SessionEnds`) |
| `Pool` | after a claimed clone, a failed build, a crash, with two maintainers at once: in the end the pool is filled, or sessions and ready clones fill the cluster, and it stays so, unless a call hung for ever (`PoolsRefilled`); the cap is exceeded by no more than the builds that run together and the clones taken meanwhile (`OverrunBounded`) |
| `Office` | two requests of one student, their sessions and demos, two clones, and one of the administrator's procedures: no machine is forgotten without a word (`AccountedFor`), what is offered runs (`ReadyIsThere`), only overlapping requests pass the quota and one at a time holds the lock (`UserLimit`), of demos that are started at once one is on, and stays on while its session runs (`OneDemo`) |
| `ImportSafe` | an upload, the worker, two administrators and a crash: a cancelled import does not go on (`CancelHolds`), the worker has the whole bundle (`WorksOnWhole`), what can be finished has a VM (`FinishableVm`), what failed leaves nothing behind (`CleanAfter`), success is a template and final (`SucceededHolds`) |
| `ImportEnds` | two crashes, stalled jobs and the failures that break the above: no import is inspected, queued or running for ever (`NoEndlessSpinner`) |
| `ImportRetry` | *violated*: an import that is started again is queued for ever, because the queue still knows its job |
| `Bundle` | some thousand bundles, plans and strategies: what is read is what was written (`ReadsBack`), package and descriptors agree on names (`NamesAgree`), no part of a split disk is sent (`NoPartTravels`), each disk that was shown becomes one disk of the machine (`DiskForDisk`) |
| `Vnc` | however messages are cut: of a spectator's keys none gets through but those within the 20 bytes taken for a SetPixelFormat, as long as these end with a message (`NoForeignInput`), the handshake is in order on the node's side (`HandshakeInOrder`), the owner gets a picture (`OwnerSees`), neither socket outlives the other (`BothEndsClose`) |
| `Console` | an abandoned session ends however many watch it (`AbandonedEnds`), a working console is not taken away (`FallsBackOnlyAtFirst`), a page does not stay at Connecting (`Settles`), nor show a deleted machine as connected (`GoneShown`) |

### Promises the code does not keep

One has a run of its own. `ImportRetry`: docs/importing-vms.md:198-200 lets the administrator
"press **Retry import**", whose job has the id of the one that failed, which the queue keeps
(`jobs/queues.ts`); the add is a no-op and the row stays `queued` until a restart.

The others are stated in the modules and fail as soon as they are added to a configuration
(in brackets), so that a change of the code can be checked against them:

* `TouchOnlyOwn` with the fault `overlap` (`VmServed`): "dedupe: one cleanup job per session"
  (`jobs/inactivityMonitor.ts:26`), but the administrator's jobs and the timeout jobs have ids
  of their own. The slower of two jobs deletes what has its VMID by then.
* `Served` and `TouchOnlyOwn` with the fault `stale` (`VmServed`): whoever destroys a staged row
  reads it, deletes it and goes on without asking whether the DELETE found it
  (`routes/admin.ts:48-51`, `jobs/stagingMonitor.ts:40-59`). A student who took the clone
  meanwhile loses it, docs/templates.md:14 "deletes that clone when the user is done"; and if
  another administrator or an overlapping tick has destroyed the row and its VMID is in use
  again, it is the next clone that is stopped. `DELETE ... RETURNING`, as in
  `claimReadyStagedVm`, is what `TouchSafe` assumes in its place.
* `EndsForCause` with the fault `extend` (`SessionCause`): an extension between the worker's
  read of the deadline and its mark is not heeded (`jobs/cleanupWorker.ts:60-74`).
* `ResetQueues` (`SessionCause`): the recovery script "queues a cleanup for everything alive"
  (docs/troubleshooting.md:19), but the id may be taken.
* `PoolsRefilled` without its exception: a staging job whose call never settles pins its
  slot, as `services/stagingMaintainer.ts:14-17` says it does not, because `remove()` refuses
  an active job (line 64).
* `SpectatorSees` (`Vnc`): the proxy relays from the moment it has sent the result, before
  the spectator's ClientInit, and the filter reads that one byte as a message type
  (`rdp/novnc.ts:166`, `201`). With the shared flag set, which is what noVNC sends unless it is
  told otherwise, the type is unknown and the spectator is disconnected (`227-233`). With the
  flag clear it is SetPixelFormat: the filter waits for 19 more bytes and relays all 20 unread.
* "this is the enforcement" (`rdp/novnc.ts:190-195`) is therefore less than it says:
  `NoForeignInput` leaves out input within those 20 bytes and, when they end in the middle of
  a message, all that follows, because the filter then reads the wrong bytes as types. Only
  messages of odd length, of which there are few, let 19 bytes end with a message (`InStep`).
  The property is the one to check without these exceptions when the phase is corrected.
* `DemoOver` (`Console`): whether somebody may watch is asked when a console attaches
  (`rdp/proxy.ts:277`), not when the demo ends.
* `BootsFromFirst` (`Bundle`): the package of a VMX bundle lists the disks as they lie in the
  archive, not "in attachment order" (`vmImport/ovfBuilder.ts:31-32`, `pipeline.ts:653`).

Some documented promises fail under a fault of `VmLifecycle` or `SessionCleanup`, and no more
than the fault's guard has to be read to see it. A VMID claim expires eight hours after
the clone was *built* (`expiry`), though `services/vmidPool.ts:16` calls that "well past
hard session timeout". A failed build frees its VMID while the clone may still be on the
cluster (`services/vmidPool.ts:9-10`). A session heard from after the sweep listed it is
still cleaned up as inactive (`heartbeat`; `src/README.md:11`). When outages have used up
the attempts of the timeout job and of `cleanup-session-N`, the retained ids keep the sweep
from ever adding another (`outage`). And the cap on machines (`src/README.md:14`) holds
only up to `OverrunBounded`.

What a property had to leave out is what the code does there:

* Office. The quota is read before the lock is taken, so overlapping requests pass it
  (`past.overlap`; src/README.md:14 says enforced). The lock expires after five seconds, and
  the `finally` of a slow request deletes the lock of the next one (`past.expired`). A clone
  that is claimed after delete-inactive listed the sessions is deleted under its student,
  although the dialog says it "protects active user sessions"
  (`src/frontend/src/pages/Admin.tsx:376`); its session is then marked stopped. A sweep that
  fails after powering a machine off leaves a ready row of a stopped machine (`told`). The
  sweep's `UPDATE` does not clear `demo_active`. A demo that is started on a session which
  ends meanwhile has switched off the one before it by then, and nothing takes its place
  (`services/sessionManager.ts:241`; `OneDemo` says so). A request that is past the template check
  claims a clone of a template that is being destroyed, although the tile is hidden first "so
  nobody can claim" (`services/templateAdmin.ts:268`). When no node answers, `findVmNode`
  reports nothing, the template counts as destroyed and its VM remains. An exception of SQL in
  the middle loses the report of what has failed so far. Sessions in `cleanup_failed` are not
  listed, so their clones keep Proxmox from deleting the image. A machine that was gone
  already keeps its claim until that expires.
* Imports, by fault. `late`: a cancellation that is followed by another write of the stage,
  or by the progress of the upload, is undone by it (`vmImport/store.ts:89-96`, `127`).
  `lostRow`: cancel and delete while the worker runs, and it takes the missing row for not
  cancelled, and makes a VM that no row knows (`pipeline.ts:210-213`, `imports.ts:593-607`).
  `retry`: as above; and a finalize whose publication failed cannot be repeated.
  `rerun`: after a crash BullMQ runs the job again, which sets the row to running whatever
  the startup code has written; and the workers start before `failInterruptedImports` has
  run. `twice`: two uploads, starts or finalizes read the same row. `unlisted`: a row in
  `inspecting` is not among those failed at startup. `leak`: when the wait for the creation
  fails, `createdVmid` is not set and the VM stays; a download that the worker gave up on goes
  on while the push writes the same file. `lateFail`: an audit that fails after the hand-over
  deletes the VM while the row says `prep`. The scratch directory of a merged disk is
  not removed when the transfer fails; cancelling at `awaiting_prep` leaves the VM.
* Bundles. Of files with the same base name in two directories the maps keep the last, so a
  descriptor is pointed at the wrong one, and a descriptor that names an absent file can get
  another's disk twice. `mergeSplitDisk` returns one disk, and the others of the bundle
  are lost. Sizes from 8^12 bytes are cut off in the tar header. Of a PAX record only `path=`
  is read (`archive.ts:208-212`), and a size that the 11 digits of a PAX header have no room
  for, 8 GiB and more, stands in `size=`: the member is taken for empty and left out, and its
  contents are read as headers until a block of zeros, so that what follows is lost too. A
  bare `-s001.vmdk` is a disk (`inspect.ts:100-108`) and sent as it is. A third IDE disk takes
  the key of the ISO. A bare image with the strategy `ova` is looked for inside itself. A
  bundle without a disk passes the inspection and is refused at packaging, a member name of
  more than 99 bytes only when the OVA is being sent (`archive.ts:403`).
* Consoles. A browser that closes during the two awaits before the listeners are attached
  leaves the socket to Proxmox open (`missed`; `novnc.ts:285`). A fast path that was insisted
  on and fails stays at Connecting. One failed poll ends the polling for good. The label of
  the compatible console survives Retry.

### Bounds

One VMID used by two builds in turn is the smallest instance in which a VMID
is recycled while an old handler is still under way, and every property of `VmLifecycle` is
about that; a second VMID adds only builds that do not meet. Two sessions compete for one
row. Two job ids are enough to overlap, two destroyers to read the same row or both rows. `MaxAttempts = 2` is the smallest with a retry. VMIDs,
builds and sessions are symmetric: no action compares two of them or singles one out.

For `SessionCleanup`: a job can requeue itself once, because a session is extended once,
so two made-up ids hold every timeout job that can exist at once, the one that is armed and
the one that is put off. One crash is
what BullMQ's single retry of a stalled job survives; a second crash during the same job
strands a session in `cleaning`, and the theorem `StrandedSafe` assumes at most one for
that reason. For `StagingPool`: one pool with two slots is the smallest instance in which a
stale count and the slot ids disagree. A crash of both builds and a failed one leave three
orphaned rows; the cap of six is above these and the target, so that a pool kept short by
orphans has no full cluster as an excuse, and is still met by what builds overrun.

For `AdminSweep`: two requests of one user overlap, race for a clone, and take demos from each
other; two clones are the smallest list with something left on it, and let the sweep keep
one. One kind of procedure per behaviour (`MaxDuties`), any of the five, each once:
two of them at once reach 14 million states in five minutes without an end, nor a violation
so far, and the pairs interact only through rows and machines that are gone, which each
of them tolerates singly.

For `ImportJob`: one upload, because overlapping ones are the fault `twice`; two
administrators, who may cancel, delete and finalize across each other. For
`BundleImport`: three files and two references are enough for two files of one name
beside a third, a split disk with its part, and a descriptor that names one and misses one;
blocks of 56 bytes, sizes of three octal digits (two of them in PAX) and zip fields up to 60
put the borders where the seven files are: a whole block, a byte more, the largest zip value,
a size for base 256, `size=` and a cut header; one name is too long for our own headers.
For `VncTunnel`: two requests and three keys put a key before, between and behind messages that
pass, and `Spans` of two, three and four pieces a key within, across the end of and behind the
20 bytes: in step with one message and with two, and out of step. For `ConsolePage`: the owner and one spectator, a session that is stale after one tick,
and one change of mind.

### Fairness

The runs of a `Spec` without a conjunct `Fairness` assume none. `SessionEnds` assumes that
time passes, that the monitor's `setInterval` keeps firing, and that the worker runs the jobs
that are due, each weakly fair; nobody has to send a request, and no failure has to happen.
`PoolsRefilled` assumes that the worker and the reaper do their steps, and that the tick of
the staging monitor gets to every pool that is short again and again: strong fairness of
`EnsureLive`, because the tick goes through all pools one after the other and the pool may be
full at some of its visits. Its other callers are under no fairness. `ImportEnds` assumes that
the worker and the startup code go on and that a handler that has begun ends, an upload
because a watchdog ends it if nothing else does. `Vnc` assumes that the event loop runs, that
sockets that are closing close, and that what was sent is read; neither peer has to ask, type
or end anything. `Console` assumes that requests are answered or fail, timers fire,
connections to a machine that is gone drop, and the clock and the sweep run; nobody has to
open, leave or choose anything.

## Proofs

`VmLifecycleProofs` proves, for all values of the constants and every set of faults,
`TypeCorrect` and `OwnershipSafe`. The latter needs the converse of what it says: a
row that a build has not published is not `running`, and a build whose row exists was
given to nobody (`OwnerInv`).

With `Faults = {}` it proves `ServedSafe`, `ClaimedSafe`, `TouchSafe` and `StoppedSafe`.
`Served` is far from inductive. The inductive invariant says who *needs* a
machine: a build has a *stake* in its VMID from the moment it claims it until the actor in
charge of it at the time (the provisioning run, the row, a request, the session and its one
cleanup job, a destroyer) has released it. While it has a stake, the claim on its VMID is
its own, so two builds with a stake never share a VMID, and a release, which ends the stake,
frees nobody else's. From that follows that no actor touches a machine but its own, and
`Served` is the case where the stake is the row's, the request's or the session's.
That one cleanup job of a session is at work at a time, which is what leaving out `overlap`
means, is part of it; and that of the destroyers who have read a row only the one whose DELETE
found it goes on. The proof has one lemma per part and a case per action in each.

`SessionCleanupProofs` proves `TypeCorrect` for all faults; `CauseSafe` without the two
races, by an invariant that says what each waiting or fetched job, and the sweep's list,
may still rely on (`Founded`: a job that may be carried out has a cause that no longer goes
away); and `StrandedSafe` without outages and with at most one crash. The latter rests on
`Staying`: when a session is running or cleaning and the id of the sweep is taken by a
finished job, some other job is still coming.

`VmLifecycleProofs` also proves that `VmLifecycle` implements `CloneOwnership`
(`OwnershipImplemented`), whatever fails. The mapping reads a clone's place off the rows,
the requests and the sessions of the code; every action either moves one clone along
`CloneOwnership`'s actions or leaves all places as they are. That the place is well defined
is `OwnerInv` again: no two rows or people have the same clone.

`AdminSweepProofs` proves every property of the `Office` run for any number of clones,
requests and users, any limit, and any number of kinds of duties carried out at once (the
run takes one kind at a time). All rest on `Basis`: types, and `Linked`, the order in which
a clone passes from its job to its row, from the row to a request and its session, or from
the row to the procedure that deleted it. `NothingForgotten` adds `Deleted`, what each
procedure may rely on after the step that deletes a machine, and `Accounted`, who answers
for a clone at every position of every procedure. `OffersRun` extends the promise about
rows to the builds that are about to publish one. `LimitKept` has two invariants: who has
passed the check is alone and has room (`QuotaKept`), who has passed the lock is alone
(`LockHeld`). `OneDemoShown` needs to know that the session shown last has been running,
because no session runs twice (`DemoKept`).

`ImportJobProofs` proves `TypeCorrect` for all faults and, without the named faults,
`WorksOnWhole`, `FinishableVm`, `CleanAfter`, `CancelHolds` and `SucceededHolds` for any
number of uploads, administrators and crashes. The invariant `Ordered` has a part per actor:
the upload is over before there is anything to start (`UploadInv`); what a handler has read
still holds when it acts on it (`HandInv`); what the row says of the worker and the worker
of the row (`JobInv`); the VM is the worker's until guest preparation (`VmInv`); every copy
and every file has someone to remove it (`CopyInv`). The two action properties follow from
it one action at a time.

`StagingPoolProofs` proves `TypeCorrect` and `OverrunSafe` for any finite number of pools,
slots, workers and maintainers. A build is looked at by the check of capacity long before it
counts as a row, so the bound on the total is not inductive: it would have to survive a crash,
which turns builds that were never counted back into waiting jobs, and rows of builds into
orphans. The invariant (`InBounds`) therefore bounds three things apart: clones out of the
pools, by the clones ever taken; rows together with the builds that are past the check, by
the cap and the other workers; and active jobs, by the workers. A job that passes the check
sees every row there is, so what it cannot see are the at most `Workers - 1` others that are
past it. Rows are counted as pairs of a pool and a number (`Numbered`), so that rows of all
pools are one finite set and cardinalities need no sum over pools.

`VncTunnelProofs` proves, for any number of requests and keys and every way to cut and join
messages, `TypeCorrect`, `NoInputReaches` and `HandshakeSafe`. The filter of spectators is
stated by the pieces it picks (`Picked`), in their order, so what it lets through is what
satisfies its test and nothing has to be found by induction; `Split` says what becomes of a
buffer, what is relayed and what is kept. `HandshakeSafe` rests on `InTurn`: between the first
byte and the relay the connection is in one of seven stages, each of which says what is
buffered, what is under way in both directions, what the console expects next and what has
reached it. `NoInputReaches` adds `Fed`, which counts pieces from the one that follows
ClientInit, read or under way: none behind the 20 bytes is a key.

`BundleImportProofs` proves `ReadsBackSafe`, `NamesAgreeSafe`, `NoPartTravelsSafe` and
`DiskForDiskSafe` for bundles and descriptors of any length, any names and any sizes, any
block size and field width. One invariant (`IInv`) says for every position what the data is a
function of: the files and disks of the inspection of the upload (`Inspected`), the package of
both (`Packed`), the stream of the package (`Sent`), the disks of the machine of the volumes
(`Created`). The rest is about those functions:

* A walk over entries or blocks is a recursive function. That there is one (`Defined`), and
  that what holds at the start and survives each step holds at the end (`Induct`), follow
  from every set of numbers having a least element (`Least`), which the library proves of `<`.
  `Classified` then says what the files are called: in the order of the archive, no two names
  equal, because the number that `Flat` looks for exists (`FlatFree`).
* A filter is what it picks: some places, each once (`Selecting`); which order they come in
  matters to the reader of ZIP64 fields alone (`ZipReads`).
* The tar reader is right by counting. A list of members brings the reader from header to
  header with each member's entry appended (`Brings`, `BringsAll`, `BringsArchive`), whether
  records go before it (`ForeignReads`) or not (`StreamReads`), up to the first whose size a
  PAX header does not hold (`BringsStopped`). So the other three properties hold even of
  bundles that are misread; `ReadsBack` needs the sizes to fit.
* `NamesAgree` needs a map by base name to find a file of that name (`Looked`), and that a
  file found under a role travels (`RoleNames`). `DiskForDisk` shows that the volumes of all
  three ways to package are the disks, none twice (`EachOnce`): for an OVF, that Proxmox finds
  the lines that attach a disk which is here (`Attaches`), and that they are the lines whose
  disks the inspection showed; then there are no more than fit on the bus (`NotMore`).

Restating the model for these proofs showed that the reader had been a `CASE` with guards
that overlap, whose value TLA+ leaves open although TLC takes the first: it is now an
`IF` chain, in the order of the loop in `listTarEntries`.

`ConsolePageProofs` proves `TypeCorrect` and `FallsBackSafe` for any number of pages and
choices.

Assumptions: the named `ASSUME`s of the modules, and, where the theorem says so, the absence
of named faults. Nothing is assumed about the number of VMIDs, builds, sessions, jobs,
handlers or pages, nor about the length of the timeouts; the requests of `AdminSweep` are
finitely many because they are counted.

Only model-checked, because TLAPS does not handle liveness under fairness: `SessionEnds`,
`PoolsRefilled`, `NoEndlessSpinner` and the temporal properties of the consoles.

## Plan

The core (clones, sessions, pools), the administrator's procedures, imports and consoles are
modelled. Next, in this order:

1. The choice of a node (`services/proxmox.ts:185-235`) as an operator, and the cache of the
   config while an overlay is written (`config.ts:199-203`).
2. `Places` and what `BundleImportProofs` says of it (`Selecting`) for the filter of
   `VncTunnelProofs`, which proves its own.

Out of TLAPS's reach, and left to TLC throughout: liveness under fairness and `ENABLED`.

## Not modelled

Authentication (stateless checks), audit and logging (their failure is a failing step where a
handler depends on it), user accounts and announcements (single SQL statements), the Guacamole
tunnel (a library), the grammars of OVF, VMX, VBOX and disk headers, qemu-img, the dashboard,
the administrator's screens and the import wizard (views of what the API answers, with one
request per click), and deployment files.
