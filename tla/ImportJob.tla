------------------------------ MODULE ImportJob ------------------------------
(***************************************************************************)
(* One import: uploaded and inspected, started by an administrator, run by *)
(* the worker (package, transfer, create, configure), prepared by hand,    *)
(* finalized into a template; cancelled, deleted, interrupted by a         *)
(* restart, and started again after a failure.                             *)
(*                                                                         *)
(* The row of vm_imports is written by the upload, by the worker, by the   *)
(* handlers of administrators and by the startup code, each of which reads *)
(* it first and writes it some awaits later, unconditionally.  What is on  *)
(* the disk, on the node and in the queue is another matter.               *)
(***************************************************************************)
EXTENDS Naturals, FiniteSets

CONSTANTS
    Uploads,      \* PUT requests that may overlap
    Admins,       \* handlers of administrators' requests that may overlap
    MaxCrashes,   \* crashes of the process (a bound)
    Faults        \* which of FaultKinds may happen

(***************************************************************************)
(* Races and failures the code does not survive:                           *)
(*   late      a cancellation lands where nobody looks for it, or overlaps *)
(*             a start                                                     *)
(*   lostRow   the row is deleted while somebody works on it, or since it  *)
(*             was read got a file                                         *)
(*   retry     the import is started while the queue still knows its job,  *)
(*             or once more when its VM is there (the bundle was kept)     *)
(*   rerun     a crash after the VM was asked for, whose job is run again; *)
(*             or the worker gets that far before the startup code is done *)
(*   twice     an upload, a start or a finalize overlaps another           *)
(*   unlisted  a crash while the bundle is being inspected                 *)
(*   leak      the node goes on with what the worker has given up on, or   *)
(*             refuses a removal                                           *)
(*   lateFail  an await fails after the bundle or the VM was handed over   *)
(***************************************************************************)
FaultKinds == {"late", "lostRow", "retry", "rerun", "twice", "unlisted", "leak", "lateFail"}

ASSUME FaultsAssumption == Faults \subseteq FaultKinds
ASSUME CrashAssumption == MaxCrashes \in Nat

VARIABLES
    status,   \* vm_imports.status, "deleted" when the row is gone
    stage,    \* vm_imports.stage, what comes before "prep" as "early"
    settings, \* vm_imports.settings is set
    inspected, \* vm_imports.inspection is set
    path,     \* vm_imports.upload_path is set
    upload,   \* positions of the PUT handlers in receiveBundle
    bundle,   \* the uploaded file on disk
    keep,     \* settings.keepUpload
    job,      \* the job vm-import-N in the queue
    stalls,   \* the queue has re-run it
    work,     \* position of the worker in runImport
    made,     \* the worker's createdVmid is set
    held,     \* the copy is in the worker's uploadedVolids
    scratch,  \* the directory a split disk is merged in
    token,    \* an artifact is published for the node to fetch
    copy,     \* the uploaded copy in the node's import storage
    fetching, \* the node runs a download nobody waits for
    vm,       \* the VM under settings.vmid on the node
    tile,     \* the imported template is registered
    hand,     \* position of the administrators' handlers
    boot,     \* position of the startup code in failInterruptedImports
    crashes

facts == <<settings, inspected, path>>
record == <<status, stage, facts>>
worker == <<work, made, held, token>>
queue == <<job, stalls>>
node == <<copy, fetching, vm>>
disk == <<upload, bundle, keep, scratch>>
vars == <<record, disk, queue, worker, node, tile, hand, boot, crashes>>

-----------------------------------------------------------------------------
Working == {"fetched", "packaging", "merging", "packed", "toTransfer", "transferring",
            "pulling", "pushing", "pushed", "repulling", "sent", "toCreate", "creating",
            "waiting", "created", "toConfigure", "configuring", "dropping", "configured",
            "prepped", "telling", "undo", "undoVm", "undoCopy"}
Receiving == {"opening", "receiving", "received", "inspecting", "suggesting", "failing",
              "marking"}
Starting == {"start", "started"}
Finalizing == {"finalize", "shutdown", "staging", "convert", "publish", "succeed", "tell",
               "failed"}
Cancelling == {"cancel", "cancelled"}
Deleting == {"delete", "removed", "nothing"}

TypeOK ==
    /\ status \in {"uploading", "inspecting", "ready", "queued", "running", "awaiting_prep", "succeeded", "failed",
                   "cancelled", "deleted"}
    /\ upload \in [Uploads -> {"idle"} \cup Receiving]
    /\ bundle \in {"none", "partial", "whole"}
    /\ stage \in {"early", "prep", "template", "register", "done"}
    /\ settings \in BOOLEAN /\ inspected \in BOOLEAN /\ path \in BOOLEAN /\ keep \in BOOLEAN
    /\ scratch \in BOOLEAN /\ stalls \in BOOLEAN /\ made \in BOOLEAN /\ held \in BOOLEAN
    /\ token \in BOOLEAN /\ fetching \in BOOLEAN /\ tile \in BOOLEAN
    /\ job \in {"none", "waiting", "active", "finished"}
    /\ work \in Working \cup {"idle"}
    /\ copy \in {"none", "partial", "whole"}
    /\ vm \in {"none", "making", "stopped", "running", "template"}
    /\ hand \in [Admins -> {"idle"} \cup Starting \cup Finalizing \cup Cancelling \cup Deleting]
    /\ boot \in {"up", "listing", "listed"}
    /\ crashes \in 0 .. MaxCrashes

\* POST /: the import is reserved before any bytes are sent.
Init ==
    /\ status = "uploading" /\ stage = "early"
    /\ settings = FALSE /\ inspected = FALSE /\ path = FALSE
    /\ upload = [u \in Uploads |-> "idle"] /\ bundle = "none" /\ keep = FALSE /\ scratch = FALSE
    /\ job = "none" /\ stalls = FALSE
    /\ work = "idle" /\ made = FALSE /\ held = FALSE /\ token = FALSE
    /\ copy = "none" /\ fetching = FALSE /\ vm = "none"
    /\ tile = FALSE
    /\ hand = [a \in Admins |-> "idle"]
    /\ boot = "up" /\ crashes = 0

-----------------------------------------------------------------------------
(* Writes of the row: an UPDATE of a row that is gone changes nothing *)

Write(st, sg) ==
    /\ status' = IF status = "deleted" THEN status ELSE st
    /\ stage' = IF status = "deleted" THEN stage ELSE sg
    /\ UNCHANGED facts
SetStatusSwapped(st) == Write(stage, st)
SetStatus(st) == Write(st, stage)
SetStage(sg) == Write("running", sg)
MarkFailed == SetStatus("failed")

\* True once the pipeline is past disk creation, so a VM exists on the node.
VmAlreadyCreated == settings /\ stage \in {"prep", "template", "register", "done"}

Busy(positions) == \E a \in Admins : hand[a] \in positions
Uploading == \E u \in Uploads : upload[u] # "idle"

Serving == boot = "up"

-----------------------------------------------------------------------------
(* PUT /upload *)

Upload(u, from, to) == upload[u] = from /\ upload' = [upload EXCEPT ![u] = to]

UploadReadAny(u) ==
    /\ Serving /\ ~Uploading /\ status # "deleted"
    /\ Upload(u, "idle", "opening")
    /\ UNCHANGED <<record, bundle, keep, scratch, queue, worker, node, tile, hand, boot, crashes>>
UploadRead(u) ==
    /\ Serving
    /\ Uploading => "twice" \in Faults
    /\ Upload(u, "idle", "opening") /\ status = "uploading"
    /\ UNCHANGED <<record, bundle, keep, scratch, queue, worker, node, tile, hand, boot, crashes>>
\* A log line, which a deleted row refuses; then the file is created or, by a
\* second request, emptied.
OpenSink(u) ==
    /\ Upload(u, "opening", IF status = "deleted" THEN "idle" ELSE "receiving")
    /\ bundle' = IF status = "deleted" THEN bundle ELSE "partial"
    /\ UNCHANGED <<record, keep, scratch, queue, worker, node, tile, hand, boot, crashes>>
\* setUploadProgress every five seconds, which makes the status "uploading"
\* whatever it was.
Progress(u) ==
    /\ upload[u] = "receiving"
    /\ Write("uploading", "early")
    /\ UNCHANGED <<disk, queue, worker, node, tile, hand, boot, crashes>>
\* The whole body is there: setUploadResult, and a log line.
ReceiveAll(u) ==
    /\ Upload(u, "receiving", IF status = "deleted" THEN "failing" ELSE "received")
    /\ bundle' = "whole"
    /\ path' = (path \/ status # "deleted")
    /\ UNCHANGED <<status, stage, settings, inspected, keep, scratch, queue, worker, node, tile,
                   hand, boot, crashes>>
StartInspection(u) ==
    /\ Upload(u, "received", "inspecting")
    /\ SetStatus("inspecting")
    /\ UNCHANGED <<bundle, keep, scratch, queue, worker, node, tile, hand, boot, crashes>>
\* inspectBundle, setInspection
Inspect(u) ==
    /\ Upload(u, "inspecting", "suggesting") /\ bundle = "whole"
    /\ status' = (IF status = "deleted" THEN status ELSE "ready")
    /\ stage' = "early" /\ inspected' = TRUE
    /\ UNCHANGED <<settings, path, bundle, keep, scratch, queue, worker, node, tile, hand, boot,
                   crashes>>
\* suggestSettings, audit, the response
Suggest(u) ==
    /\ Upload(u, "suggesting", "idle")
    /\ UNCHANGED <<record, bundle, keep, scratch, queue, worker, node, tile, hand, boot, crashes>>
\* The connection broke or stalled, the disk is full, the body is short, the
\* bundle cannot be read, or an await throws.
ReceiveFails(u) ==
    /\ \/ \E from \in {"receiving", "received", "inspecting"} : Upload(u, from, "failing")
       \/ "lateFail" \in Faults /\ Upload(u, "suggesting", "failing")
    /\ UNCHANGED <<record, bundle, keep, scratch, queue, worker, node, tile, hand, boot, crashes>>
RemoveFile(u) ==
    /\ Upload(u, "failing", "marking")
    /\ bundle' = "none"
    /\ UNCHANGED <<record, keep, scratch, queue, worker, node, tile, hand, boot, crashes>>
MarkUploadFailed(u) ==
    /\ Upload(u, "marking", "idle")
    /\ MarkFailed
    /\ UNCHANGED <<bundle, keep, scratch, queue, worker, node, tile, hand, boot, crashes>>

Continues(u) ==
    \/ OpenSink(u) \/ ReceiveAll(u) \/ StartInspection(u) \/ Inspect(u) \/ Suggest(u)
    \/ ReceiveFails(u) \/ RemoveFile(u) \/ MarkUploadFailed(u)
Receives(u) == UploadRead(u) \/ Progress(u) \/ Continues(u)

-----------------------------------------------------------------------------
(* The worker *)

Moves(from, to) == work = from /\ work' = to

\* runImport reads the row; without it the job fails and nothing is marked.
Fetch ==
    /\ job = "waiting" /\ work = "idle"
    /\ status = "cancelled" => "late" \in Faults
    /\ IF status = "deleted"
       THEN work' = "idle" /\ job' = "finished"
       ELSE work' = "fetched" /\ job' = "active"
    /\ made' = FALSE /\ held' = FALSE
    /\ UNCHANGED <<record, disk, stalls, token, node, tile, hand, boot, crashes>>

\* run.stage, which makes the status "running" whatever it was.
EnterStage(from, to) ==
    /\ Moves(from, to)
    /\ SetStage("early")
    /\ UNCHANGED <<disk, queue, made, held, token, node, tile, hand, boot, crashes>>
Stages == \/ EnterStage("fetched", "packaging")
          \/ EnterStage("toTransfer", "transferring")
          \/ EnterStage("toCreate", "creating")
          \/ EnterStage("toConfigure", "configuring")

\* run.assertNotCancelled.  A row that is gone was not cancelled.
CheckNothing(from, to) ==
    /\ Moves(from, to)
    /\ UNCHANGED <<record, disk, queue, made, held, token, node, tile, hand, boot, crashes>>
CheckCancelled(from, to) ==
    /\ work = from
    /\ work' = IF status = "cancelled" THEN "undoVm" ELSE to
    /\ UNCHANGED <<record, disk, queue, made, held, token, node, tile, hand, boot, crashes>>
Checks == \/ CheckCancelled("packed", "toTransfer")
          \/ CheckCancelled("sent", "toCreate")
          \/ CheckCancelled("created", "toConfigure")

\* packageBundle: an image as it is, or an OVA assembled while it is sent; a
\* split disk is extracted and merged on disk first.
PackageBundle ==
    /\ work = "packaging"
    /\ \/ work' = "packed" /\ UNCHANGED scratch
       \/ work' = "merging" /\ scratch' = TRUE
       \/ work' = "undo" /\ UNCHANGED scratch
    /\ bundle = "none" => work' = "undo"
    /\ UNCHANGED <<record, upload, bundle, keep, queue, made, held, token, node, tile, hand, boot, crashes>>

\* Between extents the merge looks for a cancellation; its catch removes what
\* it has extracted.
MergeSplitDisk ==
    /\ work = "merging"
    /\ work' \in IF status = "cancelled" THEN {"undoVm", "packed"} ELSE {"undo", "packed"}
    /\ scratch' = (work' = "packed")
    /\ UNCHANGED <<record, upload, bundle, keep, queue, made, held, token, node, tile, hand, boot, crashes>>

\* assertRoomOnNode, then a large artifact is pulled by the node if it can
\* reach us, and any other is pushed.
ChooseTransfer ==
    /\ work = "transferring"
    /\ work' \in {"pulling", "pushing", "undo"}
    /\ token' = (work' = "pulling")
    /\ UNCHANGED <<record, disk, queue, made, held, node, tile, hand, boot, crashes>>

\* The bytes of a copy come from one transfer unless an earlier one goes on.
Receive(c) == copy' = IF fetching /\ c = "whole" THEN "partial" ELSE c

\* The node has fetched it: the volume is there and the token is released.
PullDone ==
    /\ work \in {"pulling", "repulling"}
    /\ work' = "sent" /\ held' = TRUE /\ token' = FALSE
    /\ Receive("whole")
    /\ scratch' = FALSE
    /\ UNCHANGED <<record, upload, bundle, keep, queue, made, fetching, vm, tile, hand, boot, crashes>>

\* The request or the task failed, or the wait for the task did ("leak") and
\* the node goes on.  A first pull falls back to a push under the same name.
PullFails ==
    /\ work \in {"pulling", "repulling"}
    /\ work' = IF work = "pulling" THEN "pushing" ELSE "undo"
    /\ token' = FALSE
    /\ \/ UNCHANGED <<copy, fetching>>
       \/ "leak" \in Faults /\ copy' = "partial" /\ fetching' = TRUE
    /\ UNCHANGED <<record, disk, queue, made, held, vm, tile, hand, boot, crashes>>

\* A download that nobody waits for any more ends after all.
FetchEnds ==
    /\ fetching /\ fetching' = FALSE
    /\ copy' \in {"none", "whole"}
    /\ UNCHANGED <<record, disk, queue, worker, vm, tile, hand, boot, crashes>>

Push ==
    /\ work = "pushing"
    /\ work' = "pushed" /\ copy' = "partial"
    /\ UNCHANGED <<record, disk, queue, made, held, token, fetching, vm, tile, hand, boot, crashes>>

\* The partial upload is removed, or that is refused ("leak"); a small
\* artifact whose connection broke is then pulled.
PushFails ==
    /\ work = "pushing"
    /\ work' \in {"repulling", "undo"}
    /\ token' = (work' = "repulling")
    /\ copy' \in {"none"} \cup (IF "leak" \in Faults THEN {"partial"} ELSE {})
    /\ UNCHANGED <<record, disk, queue, made, held, fetching, vm, tile, hand, boot, crashes>>

\* waitForLongTask for the task that moves the upload into the storage.
PushDone ==
    /\ Moves("pushed", "sent") /\ held' = TRUE
    /\ Receive("whole")
    /\ scratch' = FALSE
    /\ UNCHANGED <<record, upload, bundle, keep, queue, made, token, fetching, vm, tile, hand, boot, crashes>>
PushTaskFails ==
    /\ Moves("pushed", "undo")
    /\ copy' \in {"none"} \cup (IF "leak" \in Faults THEN {"partial", "whole"} ELSE {})
    /\ UNCHANGED <<record, disk, queue, made, held, token, fetching, vm, tile, hand, boot, crashes>>

\* createVm: refused where the VMID is taken.
CreateVm ==
    /\ work = "creating"
    /\ boot # "up" => "rerun" \in Faults
    /\ \/ vm = "none" /\ work' = "waiting" /\ vm' = "making"
       \/ work' = "undo" /\ UNCHANGED vm
    /\ UNCHANGED <<record, disk, queue, made, held, token, copy, fetching, tile, hand, boot, crashes>>
CreateDone ==
    /\ Moves("waiting", "created") /\ made' = TRUE
    /\ vm = "making" /\ copy = "whole" /\ vm' = "stopped"
    /\ UNCHANGED <<record, disk, queue, held, token, copy, fetching, tile, hand, boot, crashes>>
\* The failure is swallowed.
CreateFailsSwallowed ==
    /\ Moves("waiting", "created")
    /\ vm' = "none"
    /\ UNCHANGED <<record, disk, queue, made, held, token, copy, fetching, tile, hand, boot, crashes>>
\* The task failed and took the VM with it; or only the wait failed ("leak").
CreateFails ==
    /\ Moves("waiting", "undo")
    /\ vm' \in {"none"} \cup (IF "leak" \in Faults THEN {"making"} ELSE {})
    /\ UNCHANGED <<record, disk, queue, made, held, token, copy, fetching, tile, hand, boot, crashes>>

\* A creation that nobody waits for ends after all.
MakingEnds ==
    /\ vm = "making" /\ work # "waiting"
    /\ vm' \in {"none", "stopped"}
    /\ UNCHANGED <<record, disk, queue, worker, copy, fetching, tile, hand, boot, crashes>>

\* configureVm: options, and the start for guest preparation; all best effort.
ConfigureVm ==
    /\ Moves("configuring", "dropping")
    /\ vm' \in IF vm = "stopped" THEN {"stopped", "running"} ELSE {vm}
    /\ UNCHANGED <<record, disk, queue, made, held, token, copy, fetching, tile, hand, boot, crashes>>

\* Landing-zone copies are pure overhead once the disks are converted.
DropUpload ==
    /\ Moves("dropping", "configured")
    /\ copy' \in IF keep THEN {copy} ELSE {"none"} \cup (IF "leak" \in Faults THEN {copy} ELSE {})
    /\ bundle' = IF keep THEN bundle ELSE "none"
    /\ UNCHANGED <<record, upload, keep, scratch, queue, made, held, token, fetching, vm, tile, hand, boot, crashes>>

\* "setStage forces status back to 'running', so the status update goes last."
Prep ==
    /\ Moves("configured", "prepped")
    /\ SetStage("prep")
    /\ UNCHANGED <<disk, queue, made, held, token, node, tile, hand, boot, crashes>>
AwaitPrep ==
    /\ Moves("prepped", "telling")
    /\ SetStatus("awaiting_prep")
    /\ UNCHANGED <<disk, queue, made, held, token, node, tile, hand, boot, crashes>>
\* audit, and the job is complete.
Told ==
    /\ Moves("telling", "idle") /\ job' = "finished" /\ made' = FALSE /\ held' = FALSE
    /\ UNCHANGED <<record, disk, stalls, token, node, tile, hand, boot, crashes>>

\* Any write of the row, and the audit, may throw.
WriteFails ==
    /\ work \in {"fetched", "packed", "toTransfer", "sent", "toCreate", "created", "toConfigure"}
                \cup (IF "lateFail" \in Faults THEN {"configured", "prepped", "telling"} ELSE {})
    /\ work' = "undo"
    /\ UNCHANGED <<record, disk, queue, made, held, token, node, tile, hand, boot, crashes>>

\* The catch block: the mark, then the VM if createVm returned one, then the
\* copies; what the node refuses is logged.  A VM that runs is not removed.
UndoMark ==
    /\ Moves("undo", "undoVm")
    /\ MarkFailed
    /\ UNCHANGED <<disk, queue, made, held, token, node, tile, hand, boot, crashes>>
UndoVmNot ==
    /\ Moves("undoVm", "undoCopy")
    /\ UNCHANGED <<record, disk, queue, made, held, token, node, tile, hand, boot, crashes>>
UndoVm ==
    /\ Moves("undoVm", "undoCopy")
    /\ vm' \in IF ~made \/ vm = "running" THEN {vm}
               ELSE {"none"} \cup (IF "leak" \in Faults THEN {vm} ELSE {})
    /\ UNCHANGED <<record, disk, queue, made, held, token, copy, fetching, tile, hand, boot, crashes>>
UndoCopy ==
    /\ Moves("undoCopy", "idle") /\ job' = "finished" /\ made' = FALSE /\ held' = FALSE
    /\ copy' \in IF ~held THEN {copy}
                 ELSE {"none"} \cup (IF "leak" \in Faults THEN {copy} ELSE {})
    /\ UNCHANGED <<record, disk, stalls, token, fetching, vm, tile, hand, boot, crashes>>

Work == \/ Fetch \/ Stages \/ Checks \/ PackageBundle \/ MergeSplitDisk
        \/ ChooseTransfer \/ PullDone \/ PullFails \/ Push \/ PushFails \/ PushDone \/ PushTaskFails
        \/ CreateVm \/ CreateDone \/ CreateFails \/ ConfigureVm \/ DropUpload
        \/ Prep \/ AwaitPrep \/ Told \/ WriteFails
        \/ UndoMark \/ UndoVm \/ UndoCopy

-----------------------------------------------------------------------------
(* Administrators: each handler reads the row, decides, and acts later *)

Hand(a, from, to) == hand[a] = from /\ hand' = [hand EXCEPT ![a] = to]
Alone == "twice" \in Faults \/ ~Busy(Starting \cup Finalizing)

\* POST /start: ready or failed, with the bundle still on disk.
StartRead(a) ==
    /\ Serving /\ Alone
    /\ Hand(a, "idle", "start")
    /\ status \in {"ready", "failed"} /\ inspected /\ path /\ bundle # "none"
    /\ job # "none" \/ VmAlreadyCreated => "retry" \in Faults
    /\ Busy({"cancelled"}) => "late" \in Faults
    /\ UNCHANGED <<record, disk, queue, worker, node, tile, boot, crashes>>
\* setSettings, setStatus
StartQueued(a) ==
    /\ Hand(a, "start", "started")
    /\ status \in {"cancelled", "succeeded"} => "late" \in Faults
    /\ settings' = (settings \/ status # "deleted")
    /\ status' = (IF status = "deleted" THEN status ELSE "queued")
    /\ keep' \in BOOLEAN
    /\ UNCHANGED <<stage, inspected, path, upload, bundle, scratch, queue, worker, node, tile,
                   boot, crashes>>
\* importQueue.add: an id the queue knows, finished jobs included, is a no-op.
StartAdd(a) ==
    /\ Hand(a, "started", "idle")
    /\ job' = IF job = "none" THEN "waiting" ELSE job
    /\ stalls' = (stalls /\ job # "none")
    /\ UNCHANGED <<record, disk, worker, node, tile, boot, crashes>>

\* removeOnComplete, removeOnFail: enough other imports have run since.
EvictJob ==
    /\ job = "finished" /\ job' = "none"
    /\ UNCHANGED <<record, disk, stalls, worker, node, tile, hand, boot, crashes>>

\* POST /cancel.  The worker notices between stages, and only until the VM has
\* been created; it is told nothing once the VM is being configured.
Watched == work \in {"idle", "packaging", "merging", "packed", "transferring", "pulling",
                     "pushing", "pushed", "repulling", "sent", "creating", "waiting", "created"}
CancelRead(a) ==
    /\ Serving /\ Hand(a, "idle", "cancel")
    /\ status \notin {"succeeded", "cancelled", "deleted"}
    /\ UNCHANGED <<record, disk, queue, worker, node, tile, boot, crashes>>
CancelMark(a) ==
    /\ Hand(a, "cancel", "cancelled")
    /\ \/ "late" \in Faults
       \/ /\ Watched /\ ~Uploading /\ ~Busy(Starting \cup Finalizing)
          /\ status # "succeeded"
    /\ SetStatus("cancelled")
    /\ UNCHANGED <<disk, queue, worker, node, tile, boot, crashes>>
\* importQueue.remove, refused for a job that is running.
CancelRemove(a) ==
    /\ Hand(a, "cancelled", "idle")
    /\ job' = IF job = "active" THEN job ELSE "none"
    /\ UNCHANGED <<record, disk, stalls, worker, node, tile, boot, crashes>>

\* DELETE /:publicId: anything but a running import.  Its file is removed if the
\* row that was read named one; neither the job nor the VM is looked at.
DeleteRead(a) ==
    /\ Serving /\ Hand(a, "idle", IF path THEN "delete" ELSE "nothing")
    /\ status \notin {"running", "deleted"}
    /\ UNCHANGED <<record, disk, queue, worker, node, tile, boot, crashes>>
InUse == job \in {"waiting", "active"} \/ Busy(Starting \cup Finalizing)
DeleteUpload(a) ==
    /\ Hand(a, "delete", "removed")
    /\ InUse \/ Uploading => "lostRow" \in Faults
    /\ bundle' = "none"
    /\ UNCHANGED <<record, upload, keep, scratch, queue, worker, node, tile, boot, crashes>>
DeleteRow(a) ==
    /\ \/ Hand(a, "removed", "idle")
       \/ Hand(a, "nothing", "idle") /\ (path => "lostRow" \in Faults)
    /\ InUse => "lostRow" \in Faults
    /\ status' = "deleted" /\ UNCHANGED <<stage, facts>>
    /\ UNCHANGED <<disk, queue, worker, node, tile, boot, crashes>>

FinalizeReadAny(a) ==
    /\ Serving /\ Alone
    /\ Hand(a, "idle", "finalize")
    /\ VmAlreadyCreated /\ status # "deleted"
    /\ UNCHANGED <<record, disk, queue, worker, node, tile, boot, crashes>>
\* POST /finalize: awaiting prep, or failed with the VM created.
FinalizeRead(a) ==
    /\ Serving /\ Alone
    /\ Hand(a, "idle", "finalize")
    /\ status = "awaiting_prep" \/ (status = "failed" /\ VmAlreadyCreated)
    /\ UNCHANGED <<record, disk, queue, worker, node, tile, boot, crashes>>
\* getVmStatus; a VM that runs is powered off, and the wait for that swallowed.
FinalizeCheck(a) ==
    /\ Hand(a, "finalize", IF vm = "none" THEN "failed"
                           ELSE IF vm = "running" THEN "shutdown" ELSE "staging")
    /\ UNCHANGED <<record, disk, queue, worker, node, tile, boot, crashes>>
FinalizeShutdown(a) ==
    /\ Hand(a, "shutdown", "staging")
    /\ vm' \in IF vm = "running" THEN {"running", "stopped"} ELSE {vm}
    /\ UNCHANGED <<record, disk, queue, worker, copy, fetching, tile, boot, crashes>>
\* run.stage("template"); the next step converts
FinalizeStage(a) ==
    /\ Hand(a, "staging", "convert")
    /\ SetStage("template")
    /\ UNCHANGED <<disk, queue, worker, node, tile, boot, crashes>>
\* Proxmox converts a VM that is stopped, and refuses a template.
Convert(a) ==
    /\ hand[a] = "convert"
    /\ \/ /\ vm = "stopped" /\ vm' = "template"
          /\ \E registers \in BOOLEAN :
                hand' = [hand EXCEPT ![a] = IF registers THEN "publish" ELSE "succeed"]
       \/ hand' = [hand EXCEPT ![a] = "failed"] /\ UNCHANGED vm
    /\ UNCHANGED <<record, disk, queue, worker, copy, fetching, tile, boot, crashes>>
\* run.stage("register"), upsertImportedTemplate, ensureAllStagedVms
Publish(a) ==
    /\ \/ Hand(a, "publish", "succeed") /\ tile' = TRUE
       \/ Hand(a, "publish", "failed") /\ UNCHANGED tile
    /\ SetStage("register")
    /\ UNCHANGED <<disk, queue, worker, node, boot, crashes>>
Succeed(a) ==
    /\ Hand(a, "succeed", "tell")
    /\ Write("succeeded", "done")
    /\ UNCHANGED <<disk, queue, worker, node, tile, boot, crashes>>
\* The log and audit; a failing audit is a failed finalize ("lateFail").
TellAudit(a) ==
    /\ \/ Hand(a, "tell", "idle")
       \/ "lateFail" \in Faults /\ Hand(a, "tell", "failed")
    /\ UNCHANGED <<record, disk, queue, worker, node, tile, boot, crashes>>
FinalizeFails(a) ==
    /\ \E from \in {"finalize", "shutdown", "staging", "succeed"} : Hand(a, from, "failed")
    /\ UNCHANGED <<record, disk, queue, worker, node, tile, boot, crashes>>
FinalizeMark(a) ==
    /\ Hand(a, "failed", "idle")
    /\ MarkFailed
    /\ UNCHANGED <<disk, queue, worker, node, tile, boot, crashes>>

\* The administrator prepares the guest, in the console of the VM.
PrepareGuest ==
    /\ status = "awaiting_prep"
    /\ \/ vm = "running" /\ vm' = "stopped"
       \/ vm = "stopped" /\ vm' = "running"
    /\ UNCHANGED <<record, disk, queue, worker, copy, fetching, tile, hand, boot, crashes>>

Administer(a) ==
    \/ StartRead(a) \/ StartQueued(a) \/ StartAdd(a)
    \/ CancelRead(a) \/ CancelMark(a) \/ CancelRemove(a)
    \/ DeleteRead(a) \/ DeleteUpload(a) \/ DeleteRow(a)
    \/ FinalizeRead(a) \/ FinalizeCheck(a) \/ FinalizeShutdown(a) \/ FinalizeStage(a)
    \/ Convert(a) \/ Publish(a) \/ Succeed(a) \/ TellAudit(a)
    \/ FinalizeFails(a) \/ FinalizeMark(a)

-----------------------------------------------------------------------------
(* Crashes *)

\* Handlers, published artifacts and the worker's position are lost.  The
\* queue runs a job that was active once more, and then gives it up.
Crash ==
    /\ crashes < MaxCrashes /\ crashes' = crashes + 1
    /\ work \in {"creating", "waiting", "created", "toConfigure", "configuring", "dropping",
                 "configured", "prepped", "telling", "undo", "undoVm", "undoCopy"}
           => "rerun" \in Faults
    /\ status = "inspecting" => "unlisted" \in Faults
    /\ upload' = [u \in Uploads |-> "idle"]
    /\ work' = "idle" /\ made' = FALSE /\ held' = FALSE /\ token' = FALSE
    /\ job' = IF job # "active" THEN job ELSE IF stalls THEN "finished" ELSE "waiting"
    /\ stalls' = (stalls \/ job = "active")
    /\ hand' = [a \in Admins |-> "idle"]
    /\ boot' = "listing"
    /\ UNCHANGED <<record, bundle, keep, scratch, node, tile>>

ListQueued ==
    /\ boot = "listing"
    /\ boot' = IF status \in {"uploading", "queued"} THEN "listed" ELSE "up"
    /\ UNCHANGED <<record, disk, queue, worker, node, tile, hand, crashes>>
\* failInterruptedImports; the server listens only when it is through.
ListInterrupted ==
    /\ boot = "listing"
    /\ boot' = IF status \in {"uploading", "queued", "running"} THEN "listed" ELSE "up"
    /\ UNCHANGED <<record, disk, queue, worker, node, tile, hand, crashes>>
MarkInterrupted ==
    /\ boot = "listed" /\ boot' = "up"
    /\ MarkFailed
    /\ UNCHANGED <<disk, queue, worker, node, tile, hand, crashes>>

Next == \/ Work \/ FetchEnds \/ MakingEnds \/ EvictJob \/ PrepareGuest
        \/ \E u \in Uploads : Receives(u)
        \/ \E a \in Admins : Administer(a)
        \/ Crash \/ ListInterrupted \/ MarkInterrupted

Spec == Init /\ [][Next]_vars

(***************************************************************************)
(* The worker and the startup code run on, and a handler that has begun    *)
(* ends, an upload because its watchdog ends it if nothing else does;      *)
(* nobody has to send a request, and no failure has to happen.             *)
(***************************************************************************)
Carries(a) == Administer(a) /\ hand[a] # "idle"
FairSpec == /\ Spec
            /\ WF_vars(Work)
            /\ WF_vars(ListInterrupted) /\ WF_vars(MarkInterrupted)
            /\ \A u \in Uploads : WF_vars(Continues(u))
            /\ \A a \in Admins : WF_vars(Carries(a))

-----------------------------------------------------------------------------
(* Properties *)

\* A cancelled import does not go on: it stays cancelled, or is marked failed by
\* the step that was cancelled (runImport, POST /cancel).
CancelHolds == [][status = "cancelled" => status' \in {"cancelled", "failed", "deleted"}]_vars

\* The worker never packages or sends a bundle that is still being written or
\* has been removed.
WorksOnWhole ==
    work \in {"packaging", "packed", "transferring", "pulling", "pushing"} => bundle = "whole"

\* Whenever the page offers to finish an import there is a VM to finish, though
\* the undoing of a run, a restart and a failed finalize all lead back there.
FinishableVm ==
    status = "awaiting_prep" \/ (status = "failed" /\ VmAlreadyCreated)
        => vm \in {"stopped", "running", "template"}

\* A failed or cancelled import that never came to guest preparation leaves
\* neither a VM nor, unless the process crashed, a copy on the node; and no
\* upload outlives its row, unless the process crashed while receiving it.
CleanAfter ==
    /\ status \in {"failed", "cancelled"} /\ work = "idle" /\ ~VmAlreadyCreated
           => vm = "none" /\ (crashes = 0 => copy = "none")
    /\ status = "deleted" /\ ~Uploading /\ crashes = 0 => bundle = "none"

\* An import that has succeeded is a template that the worker has let go of, and
\* nothing but its deletion changes its status.
SucceededHolds ==
    [][/\ status' = "succeeded" => vm' = "template" /\ work' \in {"idle", "telling"}
       /\ status = "succeeded" => status' \in {"succeeded", "deleted"}]_vars

\* No import is inspected, queued or running for ever: what the startup code
\* calls a spinner that will never resolve (importWorker.ts).
Spinning == status \in {"inspecting", "queued", "running"}
NoEndlessSpinner == Spinning ~> ~Spinning
=============================================================================
