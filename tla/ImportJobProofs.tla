---------------------------- MODULE ImportJobProofs ----------------------------
(***************************************************************************)
(* What holds of ImportJob for any number of uploads, administrators and   *)
(* crashes.                                                                *)
(***************************************************************************)
EXTENDS ImportJob, TLAPS

-----------------------------------------------------------------------------
(* Types *)

\* TypeOK in two parts: what is true or false, and where everybody is.
Flags ==
    /\ settings \in BOOLEAN /\ inspected \in BOOLEAN /\ path \in BOOLEAN /\ keep \in BOOLEAN
    /\ scratch \in BOOLEAN /\ stalls \in BOOLEAN /\ made \in BOOLEAN /\ held \in BOOLEAN
    /\ token \in BOOLEAN /\ fetching \in BOOLEAN /\ tile \in BOOLEAN

Positions ==
    /\ status \in {"uploading", "inspecting", "ready", "queued", "running", "awaiting_prep",
                   "succeeded", "failed", "cancelled", "deleted"}
    /\ upload \in [Uploads -> {"idle"} \cup Receiving]
    /\ bundle \in {"none", "partial", "whole"}
    /\ stage \in {"early", "prep", "template", "register", "done"}
    /\ job \in {"none", "waiting", "active", "finished"}
    /\ work \in Working \cup {"idle"}
    /\ copy \in {"none", "partial", "whole"}
    /\ vm \in {"none", "making", "stopped", "running", "template"}
    /\ hand \in [Admins -> {"idle"} \cup Starting \cup Finalizing \cup Cancelling \cup Deleting]
    /\ boot \in {"up", "listing", "listed"}
    /\ crashes \in 0 .. MaxCrashes

\* The two are TypeOK.
LEMMA TypeParts == TypeOK <=> Flags /\ Positions
BY DEF TypeOK, Flags, Positions

\* Every step keeps to the positions there are, whatever faults happen.
LEMMA PositionsStep ==
    ASSUME Positions, [Next]_vars
    PROVE  Positions'
<1> USE CrashAssumption
    DEF Positions, Working, Receiving, Starting, Finalizing, Cancelling,
        Deleting, facts, record, worker, queue, node, disk
<1>1. CASE Fetch
  BY <1>1 DEF Fetch
<1>2. CASE EnterStage("fetched", "packaging")
  BY <1>2 DEF EnterStage, Moves, SetStage, Write
<1>3. CASE EnterStage("toTransfer", "transferring")
  BY <1>3 DEF EnterStage, Moves, SetStage, Write
<1>4. CASE EnterStage("toCreate", "creating")
  BY <1>4 DEF EnterStage, Moves, SetStage, Write
<1>5. CASE EnterStage("toConfigure", "configuring")
  BY <1>5 DEF EnterStage, Moves, SetStage, Write
<1>6. CASE CheckCancelled("packed", "toTransfer")
  BY <1>6 DEF CheckCancelled
<1>7. CASE CheckCancelled("sent", "toCreate")
  BY <1>7 DEF CheckCancelled
<1>8. CASE CheckCancelled("created", "toConfigure")
  BY <1>8 DEF CheckCancelled
<1>9. CASE PackageBundle
  BY <1>9 DEF PackageBundle
<1>10. CASE MergeSplitDisk
  BY <1>10 DEF MergeSplitDisk
<1>11. CASE ChooseTransfer
  BY <1>11 DEF ChooseTransfer
<1>12. CASE PullDone
  BY <1>12 DEF PullDone, Receive
<1>13. CASE PullFails
  BY <1>13 DEF PullFails
<1>14. CASE Push
  BY <1>14 DEF Push
<1>15. CASE PushFails
  BY <1>15 DEF PushFails
<1>16. CASE PushDone
  BY <1>16 DEF PushDone, Moves, Receive
<1>17. CASE PushTaskFails
  BY <1>17 DEF PushTaskFails, Moves
<1>18. CASE CreateVm
  BY <1>18 DEF CreateVm
<1>19. CASE CreateDone
  BY <1>19 DEF CreateDone, Moves
<1>20. CASE CreateFails
  BY <1>20 DEF CreateFails, Moves
<1>21. CASE ConfigureVm
  BY <1>21 DEF ConfigureVm, Moves
<1>22. CASE DropUpload
  BY <1>22 DEF DropUpload, Moves
<1>23. CASE Prep
  BY <1>23 DEF Prep, Moves, SetStage, Write
<1>24. CASE AwaitPrep
  BY <1>24 DEF AwaitPrep, Moves, SetStatus, Write
<1>25. CASE Told
  BY <1>25 DEF Told, Moves
<1>26. CASE WriteFails
  BY <1>26 DEF WriteFails
<1>27. CASE UndoMark
  BY <1>27 DEF UndoMark, Moves, MarkFailed, SetStatus, Write
<1>28. CASE UndoVm
  BY <1>28 DEF UndoVm, Moves
<1>29. CASE UndoCopy
  BY <1>29 DEF UndoCopy, Moves
<1>30. CASE FetchEnds
  BY <1>30 DEF FetchEnds
<1>31. CASE MakingEnds
  BY <1>31 DEF MakingEnds
<1>32. CASE EvictJob
  BY <1>32 DEF EvictJob
<1>33. CASE PrepareGuest
  BY <1>33 DEF PrepareGuest
<1>34. ASSUME NEW u \in Uploads, UploadRead(u) PROVE Positions'
  BY <1>34 DEF UploadRead, Upload, Serving
<1>35. ASSUME NEW u \in Uploads, Progress(u) PROVE Positions'
  BY <1>35 DEF Progress, Write
<1>36. ASSUME NEW u \in Uploads, OpenSink(u) PROVE Positions'
  BY <1>36 DEF OpenSink, Upload
<1>37. ASSUME NEW u \in Uploads, ReceiveAll(u) PROVE Positions'
  BY <1>37 DEF ReceiveAll, Upload
<1>38. ASSUME NEW u \in Uploads, StartInspection(u) PROVE Positions'
  BY <1>38 DEF StartInspection, Upload, SetStatus, Write
<1>39. ASSUME NEW u \in Uploads, Inspect(u) PROVE Positions'
  BY <1>39 DEF Inspect, Upload
<1>40. ASSUME NEW u \in Uploads, Suggest(u) PROVE Positions'
  BY <1>40 DEF Suggest, Upload
<1>41. ASSUME NEW u \in Uploads, ReceiveFails(u) PROVE Positions'
  BY <1>41 DEF ReceiveFails, Upload
<1>42. ASSUME NEW u \in Uploads, RemoveFile(u) PROVE Positions'
  BY <1>42 DEF RemoveFile, Upload
<1>43. ASSUME NEW u \in Uploads, MarkUploadFailed(u) PROVE Positions'
  BY <1>43 DEF MarkUploadFailed, Upload, MarkFailed, SetStatus, Write
<1>44. ASSUME NEW a \in Admins, StartRead(a) PROVE Positions'
  BY <1>44 DEF StartRead, Hand, Serving, Alone, VmAlreadyCreated
<1>45. ASSUME NEW a \in Admins, StartQueued(a) PROVE Positions'
  BY <1>45 DEF StartQueued, Hand
<1>46. ASSUME NEW a \in Admins, StartAdd(a) PROVE Positions'
  BY <1>46 DEF StartAdd, Hand
<1>47. ASSUME NEW a \in Admins, CancelRead(a) PROVE Positions'
  BY <1>47 DEF CancelRead, Hand, Serving
<1>48. ASSUME NEW a \in Admins, CancelMark(a) PROVE Positions'
  BY <1>48 DEF CancelMark, Hand, SetStatus, Write
<1>49. ASSUME NEW a \in Admins, CancelRemove(a) PROVE Positions'
  BY <1>49 DEF CancelRemove, Hand
<1>50. ASSUME NEW a \in Admins, DeleteRead(a) PROVE Positions'
  BY <1>50 DEF DeleteRead, Hand, Serving
<1>51. ASSUME NEW a \in Admins, DeleteUpload(a) PROVE Positions'
  BY <1>51 DEF DeleteUpload, Hand, InUse
<1>52. ASSUME NEW a \in Admins, DeleteRow(a) PROVE Positions'
  BY <1>52 DEF DeleteRow, Hand, InUse
<1>53. ASSUME NEW a \in Admins, FinalizeRead(a) PROVE Positions'
  BY <1>53 DEF FinalizeRead, Hand, Serving, Alone, VmAlreadyCreated
<1>54. ASSUME NEW a \in Admins, FinalizeCheck(a) PROVE Positions'
  BY <1>54 DEF FinalizeCheck, Hand
<1>55. ASSUME NEW a \in Admins, FinalizeShutdown(a) PROVE Positions'
  BY <1>55 DEF FinalizeShutdown, Hand
<1>56. ASSUME NEW a \in Admins, FinalizeStage(a) PROVE Positions'
  BY <1>56 DEF FinalizeStage, Hand, SetStage, Write
<1>57. ASSUME NEW a \in Admins, Convert(a) PROVE Positions'
  BY <1>57 DEF Convert
<1>58. ASSUME NEW a \in Admins, Publish(a) PROVE Positions'
  BY <1>58 DEF Publish, Hand, SetStage, Write
<1>59. ASSUME NEW a \in Admins, Succeed(a) PROVE Positions'
  BY <1>59 DEF Succeed, Hand, Write
<1>60. ASSUME NEW a \in Admins, TellAudit(a) PROVE Positions'
  BY <1>60 DEF TellAudit, Hand
<1>61. ASSUME NEW a \in Admins, FinalizeFails(a) PROVE Positions'
  BY <1>61 DEF FinalizeFails, Hand
<1>62. ASSUME NEW a \in Admins, FinalizeMark(a) PROVE Positions'
  BY <1>62 DEF FinalizeMark, Hand, MarkFailed, SetStatus, Write
<1>63. CASE Crash
  BY <1>63 DEF Crash
<1>64. CASE ListInterrupted
  BY <1>64 DEF ListInterrupted
<1>65. CASE MarkInterrupted
  BY <1>65 DEF MarkInterrupted, MarkFailed, SetStatus, Write
<1>66. CASE UNCHANGED vars
  BY <1>66 DEF vars
<1> HIDE DEF Positions
<1> QED
  BY <1>1, <1>2, <1>3, <1>4, <1>5, <1>6, <1>7, <1>8, <1>9, <1>10, <1>11,
     <1>12, <1>13, <1>14, <1>15, <1>16, <1>17, <1>18, <1>19, <1>20, <1>21,
     <1>22, <1>23, <1>24, <1>25, <1>26, <1>27, <1>28, <1>29, <1>30, <1>31,
     <1>32, <1>33, <1>34, <1>35, <1>36, <1>37, <1>38, <1>39, <1>40, <1>41,
     <1>42, <1>43, <1>44, <1>45, <1>46, <1>47, <1>48, <1>49, <1>50, <1>51,
     <1>52, <1>53, <1>54, <1>55, <1>56, <1>57, <1>58, <1>59, <1>60, <1>61,
     <1>62, <1>63, <1>64, <1>65, <1>66
  DEF Next, Work, Stages, Checks, Receives, Continues, Administer

\* Every step sets a flag or leaves it.
LEMMA FlagsStep ==
    ASSUME Flags, [Next]_vars
    PROVE  Flags'
<1> USE
    DEF Flags, facts, record, worker, queue, node, disk
<1>1. CASE Fetch
  BY <1>1, Zenon DEF Fetch
<1>2. CASE EnterStage("fetched", "packaging")
  BY <1>2, Zenon DEF EnterStage, Moves, SetStage, Write
<1>3. CASE EnterStage("toTransfer", "transferring")
  BY <1>3, Zenon DEF EnterStage, Moves, SetStage, Write
<1>4. CASE EnterStage("toCreate", "creating")
  BY <1>4, Zenon DEF EnterStage, Moves, SetStage, Write
<1>5. CASE EnterStage("toConfigure", "configuring")
  BY <1>5, Zenon DEF EnterStage, Moves, SetStage, Write
<1>6. CASE CheckCancelled("packed", "toTransfer")
  BY <1>6, Zenon DEF CheckCancelled
<1>7. CASE CheckCancelled("sent", "toCreate")
  BY <1>7, Zenon DEF CheckCancelled
<1>8. CASE CheckCancelled("created", "toConfigure")
  BY <1>8, Zenon DEF CheckCancelled
<1>9. CASE PackageBundle
  BY <1>9, Zenon DEF PackageBundle
<1>10. CASE MergeSplitDisk
  BY <1>10, Zenon DEF MergeSplitDisk
<1>11. CASE ChooseTransfer
  BY <1>11, Zenon DEF ChooseTransfer
<1>12. CASE PullDone
  BY <1>12, Zenon DEF PullDone, Receive
<1>13. CASE PullFails
  BY <1>13, Zenon DEF PullFails
<1>14. CASE Push
  BY <1>14, Zenon DEF Push
<1>15. CASE PushFails
  BY <1>15, Zenon DEF PushFails
<1>16. CASE PushDone
  BY <1>16, Zenon DEF PushDone, Moves, Receive
<1>17. CASE PushTaskFails
  BY <1>17, Zenon DEF PushTaskFails, Moves
<1>18. CASE CreateVm
  BY <1>18, Zenon DEF CreateVm
<1>19. CASE CreateDone
  BY <1>19, Zenon DEF CreateDone, Moves
<1>20. CASE CreateFails
  BY <1>20, Zenon DEF CreateFails, Moves
<1>21. CASE ConfigureVm
  BY <1>21, Zenon DEF ConfigureVm, Moves
<1>22. CASE DropUpload
  BY <1>22, Zenon DEF DropUpload, Moves
<1>23. CASE Prep
  BY <1>23, Zenon DEF Prep, Moves, SetStage, Write
<1>24. CASE AwaitPrep
  BY <1>24, Zenon DEF AwaitPrep, Moves, SetStatus, Write
<1>25. CASE Told
  BY <1>25, Zenon DEF Told, Moves
<1>26. CASE WriteFails
  BY <1>26, Zenon DEF WriteFails
<1>27. CASE UndoMark
  BY <1>27, Zenon DEF UndoMark, Moves, MarkFailed, SetStatus, Write
<1>28. CASE UndoVm
  BY <1>28, Zenon DEF UndoVm, Moves
<1>29. CASE UndoCopy
  BY <1>29, Zenon DEF UndoCopy, Moves
<1>30. CASE FetchEnds
  BY <1>30, Zenon DEF FetchEnds
<1>31. CASE MakingEnds
  BY <1>31, Zenon DEF MakingEnds
<1>32. CASE EvictJob
  BY <1>32, Zenon DEF EvictJob
<1>33. CASE PrepareGuest
  BY <1>33, Zenon DEF PrepareGuest
<1>34. ASSUME NEW u \in Uploads, UploadRead(u) PROVE Flags'
  BY <1>34, Zenon DEF UploadRead, Upload, Serving
<1>35. ASSUME NEW u \in Uploads, Progress(u) PROVE Flags'
  BY <1>35, Zenon DEF Progress, Write
<1>36. ASSUME NEW u \in Uploads, OpenSink(u) PROVE Flags'
  BY <1>36, Zenon DEF OpenSink, Upload
<1>37. ASSUME NEW u \in Uploads, ReceiveAll(u) PROVE Flags'
  BY <1>37, Zenon DEF ReceiveAll, Upload
<1>38. ASSUME NEW u \in Uploads, StartInspection(u) PROVE Flags'
  BY <1>38, Zenon DEF StartInspection, Upload, SetStatus, Write
<1>39. ASSUME NEW u \in Uploads, Inspect(u) PROVE Flags'
  BY <1>39, Zenon DEF Inspect, Upload
<1>40. ASSUME NEW u \in Uploads, Suggest(u) PROVE Flags'
  BY <1>40, Zenon DEF Suggest, Upload
<1>41. ASSUME NEW u \in Uploads, ReceiveFails(u) PROVE Flags'
  BY <1>41, Zenon DEF ReceiveFails, Upload
<1>42. ASSUME NEW u \in Uploads, RemoveFile(u) PROVE Flags'
  BY <1>42, Zenon DEF RemoveFile, Upload
<1>43. ASSUME NEW u \in Uploads, MarkUploadFailed(u) PROVE Flags'
  BY <1>43, Zenon DEF MarkUploadFailed, Upload, MarkFailed, SetStatus, Write
<1>44. ASSUME NEW a \in Admins, StartRead(a) PROVE Flags'
  BY <1>44, Zenon DEF StartRead, Hand, Serving, Alone, VmAlreadyCreated
<1>45. ASSUME NEW a \in Admins, StartQueued(a) PROVE Flags'
  BY <1>45, Zenon DEF StartQueued, Hand
<1>46. ASSUME NEW a \in Admins, StartAdd(a) PROVE Flags'
  BY <1>46, Zenon DEF StartAdd, Hand
<1>47. ASSUME NEW a \in Admins, CancelRead(a) PROVE Flags'
  BY <1>47, Zenon DEF CancelRead, Hand, Serving
<1>48. ASSUME NEW a \in Admins, CancelMark(a) PROVE Flags'
  BY <1>48, Zenon DEF CancelMark, Hand, SetStatus, Write
<1>49. ASSUME NEW a \in Admins, CancelRemove(a) PROVE Flags'
  BY <1>49, Zenon DEF CancelRemove, Hand
<1>50. ASSUME NEW a \in Admins, DeleteRead(a) PROVE Flags'
  BY <1>50, Zenon DEF DeleteRead, Hand, Serving
<1>51. ASSUME NEW a \in Admins, DeleteUpload(a) PROVE Flags'
  BY <1>51, Zenon DEF DeleteUpload, Hand, InUse
<1>52. ASSUME NEW a \in Admins, DeleteRow(a) PROVE Flags'
  BY <1>52, Zenon DEF DeleteRow, Hand, InUse
<1>53. ASSUME NEW a \in Admins, FinalizeRead(a) PROVE Flags'
  BY <1>53, Zenon DEF FinalizeRead, Hand, Serving, Alone, VmAlreadyCreated
<1>54. ASSUME NEW a \in Admins, FinalizeCheck(a) PROVE Flags'
  BY <1>54, Zenon DEF FinalizeCheck, Hand
<1>55. ASSUME NEW a \in Admins, FinalizeShutdown(a) PROVE Flags'
  BY <1>55, Zenon DEF FinalizeShutdown, Hand
<1>56. ASSUME NEW a \in Admins, FinalizeStage(a) PROVE Flags'
  BY <1>56, Zenon DEF FinalizeStage, Hand, SetStage, Write
<1>57. ASSUME NEW a \in Admins, Convert(a) PROVE Flags'
  BY <1>57, Zenon DEF Convert
<1>58. ASSUME NEW a \in Admins, Publish(a) PROVE Flags'
  BY <1>58, Zenon DEF Publish, Hand, SetStage, Write
<1>59. ASSUME NEW a \in Admins, Succeed(a) PROVE Flags'
  BY <1>59, Zenon DEF Succeed, Hand, Write
<1>60. ASSUME NEW a \in Admins, TellAudit(a) PROVE Flags'
  BY <1>60, Zenon DEF TellAudit, Hand
<1>61. ASSUME NEW a \in Admins, FinalizeFails(a) PROVE Flags'
  BY <1>61, Zenon DEF FinalizeFails, Hand
<1>62. ASSUME NEW a \in Admins, FinalizeMark(a) PROVE Flags'
  BY <1>62, Zenon DEF FinalizeMark, Hand, MarkFailed, SetStatus, Write
<1>63. CASE Crash
  BY <1>63, Zenon DEF Crash
<1>64. CASE ListInterrupted
  BY <1>64, Zenon DEF ListInterrupted
<1>65. CASE MarkInterrupted
  BY <1>65, Zenon DEF MarkInterrupted, MarkFailed, SetStatus, Write
<1>66. CASE UNCHANGED vars
  BY <1>66 DEF vars
<1> HIDE DEF Flags
<1> QED
  BY <1>1, <1>2, <1>3, <1>4, <1>5, <1>6, <1>7, <1>8, <1>9, <1>10, <1>11,
     <1>12, <1>13, <1>14, <1>15, <1>16, <1>17, <1>18, <1>19, <1>20, <1>21,
     <1>22, <1>23, <1>24, <1>25, <1>26, <1>27, <1>28, <1>29, <1>30, <1>31,
     <1>32, <1>33, <1>34, <1>35, <1>36, <1>37, <1>38, <1>39, <1>40, <1>41,
     <1>42, <1>43, <1>44, <1>45, <1>46, <1>47, <1>48, <1>49, <1>50, <1>51,
     <1>52, <1>53, <1>54, <1>55, <1>56, <1>57, <1>58, <1>59, <1>60, <1>61,
     <1>62, <1>63, <1>64, <1>65, <1>66
  DEF Next, Work, Stages, Checks, Receives, Continues, Administer

\* TypeOK holds in every state.
THEOREM TypeCorrect == Spec => []TypeOK
<1>1. Init => Flags
  BY Zenon DEF Init, Flags
<1>2. Init => Positions
  BY CrashAssumption DEF Init, Positions
<1>3. Flags /\ [Next]_vars => Flags'
  BY FlagsStep
<1>4. Positions /\ [Next]_vars => Positions'
  BY PositionsStep
<1>5. Flags /\ Positions => TypeOK
  BY TypeParts
<1> QED
  BY <1>1, <1>2, <1>3, <1>4, <1>5, PTL DEF Spec

-----------------------------------------------------------------------------
(* An import without the named faults *)

\* The worker, before the VM was asked for, while it is being made, and after.
Packing == {"fetched", "packaging", "merging", "packed", "toTransfer", "transferring",
            "pulling", "pushing", "repulling", "pushed", "sent", "toCreate", "creating"}
Making == {"waiting", "created", "toConfigure", "configuring", "dropping"}
Undoing == {"undo", "undoVm", "undoCopy"}

\* One upload at a time; it is over before there is anything to start.
UploadInv ==
    /\ \A u \in Uploads :
          /\ upload[u] # "idle" => boot = "up" /\ \A v \in Uploads : upload[v] # "idle" => v = u
          /\ upload[u] \in {"opening", "receiving"} =>
                ~path /\ status \in {"uploading", "deleted"}
          /\ upload[u] = "received" => status = "uploading"
          /\ upload[u] = "inspecting" => status = "inspecting"
          /\ upload[u] \in {"received", "inspecting", "suggesting"} => path
          /\ upload[u] \in {"received", "inspecting"} => bundle = "whole"
          /\ upload[u] \in {"failing", "marking"} =>
                status \in {"uploading", "inspecting", "deleted"}
          /\ upload[u] \notin {"idle", "suggesting"} => ~inspected
    /\ status = "uploading" /\ path /\ boot = "up" =>
          \E u \in Uploads : upload[u] \in {"received", "failing", "marking"}
    /\ status = "inspecting" =>
          boot = "up" /\ \E u \in Uploads : upload[u] \in {"inspecting", "failing", "marking"}
    /\ status \in {"uploading", "inspecting"} => ~inspected
    /\ status \in {"ready", "queued", "running", "awaiting_prep", "succeeded"} => inspected
    /\ inspected => path /\ bundle # "partial"
    /\ settings => inspected

\* What a handler has read still holds when it acts on it.
HandInv == \A a \in Admins :
    /\ hand[a] # "idle" => boot = "up"
    /\ hand[a] \in Starting \cup Finalizing =>
          \A b \in Admins : hand[b] \in Starting \cup Finalizing => b = a
    /\ hand[a] \in Starting =>
          /\ job = "none" /\ inspected /\ bundle = "whole" /\ stage = "early"
          /\ \A b \in Admins : hand[b] # "cancelled"
    /\ hand[a] = "start" => status \in {"ready", "failed"}
    /\ hand[a] = "started" => status = "queued" /\ settings
    /\ hand[a] \in Finalizing =>
          /\ stage # "early"
          /\ \/ status \in {"awaiting_prep", "failed", "running"}
             \/ status = "succeeded" /\ hand[a] = "tell"
    /\ hand[a] \in {"publish", "succeed", "tell"} => vm = "template"
    /\ hand[a] = "delete" => path
    /\ hand[a] = "removed" => path /\ status # "uploading" /\ bundle = "none" /\ ~Uploading

\* What the row says of the job and the worker, and the worker of the row.
JobInv ==
    /\ job = "active" <=> work # "idle"
    /\ job \in {"waiting", "active"} => inspected /\ settings /\ status # "deleted"
    /\ job = "waiting" =>
          /\ bundle = "whole" /\ stage = "early"
          /\ status \in {"queued", "running", "failed", "cancelled"}
    /\ work \in Packing \cup Making => bundle = "whole"
    /\ work \notin {"idle", "prepped", "telling"} => stage = "early"
    /\ work \in {"prepped", "telling"} => stage # "early"
    /\ boot # "up" => work \in Packing \cup Undoing \cup {"idle"}
    /\ boot = "listed" => status \notin {"succeeded", "awaiting_prep"}
    /\ stage # "early" => settings /\ job # "waiting"
    /\ status = "awaiting_prep" => stage # "early" /\ work # "prepped"
    /\ status = "succeeded" => stage # "early" /\ work # "prepped" /\ vm = "template"
    /\ status \in {"uploading", "inspecting", "ready"} => stage = "early" /\ job = "none"
    /\ status = "cancelled" =>
          /\ work \in Undoing \/ Watched
          /\ ~Uploading /\ ~Busy(Starting \cup Finalizing)
    /\ work = "prepped" => status = "running" /\ ~Busy(Finalizing)

\* The VM is the worker's until guest preparation, and then it stays.
VmInv ==
    /\ ~fetching
    /\ vm = "making" <=> work = "waiting"
    /\ stage # "early" => vm \in {"stopped", "running", "template"}
    /\ work \in {"created", "toConfigure"} => made
    /\ work \in {"created", "toConfigure", "configuring"} => vm = "stopped"
    /\ work \in {"dropping", "configured"} => vm \in {"stopped", "running"}
    /\ stage = "early" /\ vm # "none" =>
          \/ work \in Making \cup {"configured"}
          \/ work \in {"undo", "undoVm"} /\ made /\ vm = "stopped"

\* Without a crash, a copy is known to the worker and a file to the row.
CopyInv == crashes = 0 =>
    /\ copy # "none" => work = "pushed" \/ (held /\ work # "idle") \/ stage # "early"
    /\ work \in {"sent", "toCreate", "creating", "configured"} \cup Making => held
    /\ bundle # "none" /\ ~path => \E u \in Uploads : upload[u] \in {"receiving", "failing"}
    /\ status = "deleted" /\ path => bundle = "none"

Ordered == Positions /\ UploadInv /\ HandInv /\ JobInv /\ VmInv /\ CopyInv

\* What a step leaves of a status that is final, or as good as that.
StatusKept ==
    /\ status = "cancelled" => status' \in {"cancelled", "failed", "deleted"}
    /\ status = "succeeded" => status' \in {"succeeded", "deleted"}

\* Only the upload writes the bundle, and the row while there is no job.
LEMMA UploadStep ==
    ASSUME Faults = {}, Ordered, [Next]_vars
    PROVE  UploadInv'
<1> USE CrashAssumption
    DEF Ordered, Positions, UploadInv, HandInv, JobInv, VmInv, CopyInv,
        Undoing, Packing, Making, Uploading, Busy, Watched, Working,
        Receiving, Starting, Finalizing, Cancelling, Deleting, Serving, Alone,
        InUse, VmAlreadyCreated, facts, record, worker, queue, node, disk
<1>1. CASE Fetch
  BY <1>1 DEF Fetch
<1>2. CASE EnterStage("fetched", "packaging")
  BY <1>2 DEF EnterStage, Moves, SetStage, Write
<1>3. CASE EnterStage("toTransfer", "transferring")
  BY <1>3 DEF EnterStage, Moves, SetStage, Write
<1>4. CASE EnterStage("toCreate", "creating")
  BY <1>4 DEF EnterStage, Moves, SetStage, Write
<1>5. CASE EnterStage("toConfigure", "configuring")
  BY <1>5 DEF EnterStage, Moves, SetStage, Write
<1>6. CASE CheckCancelled("packed", "toTransfer")
  BY <1>6 DEF CheckCancelled
<1>7. CASE CheckCancelled("sent", "toCreate")
  BY <1>7 DEF CheckCancelled
<1>8. CASE CheckCancelled("created", "toConfigure")
  BY <1>8 DEF CheckCancelled
<1>9. CASE PackageBundle
  BY <1>9 DEF PackageBundle
<1>10. CASE MergeSplitDisk
  BY <1>10 DEF MergeSplitDisk
<1>11. CASE ChooseTransfer
  BY <1>11 DEF ChooseTransfer
<1>12. CASE PullDone
  BY <1>12 DEF PullDone, Receive
<1>13. CASE PullFails
  BY <1>13 DEF PullFails
<1>14. CASE Push
  BY <1>14 DEF Push
<1>15. CASE PushFails
  BY <1>15 DEF PushFails
<1>16. CASE PushDone
  BY <1>16 DEF PushDone, Moves, Receive
<1>17. CASE PushTaskFails
  BY <1>17 DEF PushTaskFails, Moves
<1>18. CASE CreateVm
  BY <1>18 DEF CreateVm
<1>19. CASE CreateDone
  BY <1>19 DEF CreateDone, Moves
<1>20. CASE CreateFails
  BY <1>20 DEF CreateFails, Moves
<1>21. CASE ConfigureVm
  BY <1>21 DEF ConfigureVm, Moves
<1>22. CASE DropUpload
  BY <1>22 DEF DropUpload, Moves
<1>23. CASE Prep
  BY <1>23 DEF Prep, Moves, SetStage, Write
<1>24. CASE AwaitPrep
  BY <1>24 DEF AwaitPrep, Moves, SetStatus, Write
<1>25. CASE Told
  BY <1>25 DEF Told, Moves
<1>26. CASE WriteFails
  BY <1>26 DEF WriteFails
<1>27. CASE UndoMark
  BY <1>27 DEF UndoMark, Moves, MarkFailed, SetStatus, Write
<1>28. CASE UndoVm
  BY <1>28 DEF UndoVm, Moves
<1>29. CASE UndoCopy
  BY <1>29 DEF UndoCopy, Moves
<1>30. CASE FetchEnds
  BY <1>30 DEF FetchEnds
<1>31. CASE MakingEnds
  BY <1>31 DEF MakingEnds
<1>32. CASE EvictJob
  BY <1>32 DEF EvictJob
<1>33. CASE PrepareGuest
  BY <1>33 DEF PrepareGuest
<1>34. ASSUME NEW u \in Uploads, UploadRead(u) PROVE UploadInv'
  BY <1>34 DEF UploadRead, Upload
<1>35. ASSUME NEW u \in Uploads, Progress(u) PROVE UploadInv'
  BY <1>35 DEF Progress, Write
<1>36. ASSUME NEW u \in Uploads, OpenSink(u) PROVE UploadInv'
  BY <1>36 DEF OpenSink, Upload
<1>37. ASSUME NEW u \in Uploads, ReceiveAll(u) PROVE UploadInv'
  <2>1. CASE status = "deleted"
    BY <1>37, <2>1 DEF ReceiveAll, Upload
  <2>2. CASE status # "deleted"
    <3>1. path' = TRUE
      BY <1>37, <2>2, Zenon DEF ReceiveAll
    <3>2. /\ upload[u] = "receiving" /\ upload' = [upload EXCEPT ![u] = "received"]
          /\ bundle' = "whole"
          /\ UNCHANGED <<status, stage, settings, inspected, keep, scratch, queue, worker, node,
                         tile, hand, boot, crashes>>
      BY <1>37, <2>2 DEF ReceiveAll, Upload
    <3> QED
      BY <2>2, <3>1, <3>2
  <2> QED
    BY <2>1, <2>2
<1>38. ASSUME NEW u \in Uploads, StartInspection(u) PROVE UploadInv'
  BY <1>38 DEF StartInspection, Upload, SetStatus, Write
<1>39. ASSUME NEW u \in Uploads, Inspect(u) PROVE UploadInv'
  BY <1>39 DEF Inspect, Upload
<1>40. ASSUME NEW u \in Uploads, Suggest(u) PROVE UploadInv'
  BY <1>40 DEF Suggest, Upload
<1>41. ASSUME NEW u \in Uploads, ReceiveFails(u) PROVE UploadInv'
  BY <1>41 DEF ReceiveFails, Upload
<1>42. ASSUME NEW u \in Uploads, RemoveFile(u) PROVE UploadInv'
  BY <1>42 DEF RemoveFile, Upload
<1>43. ASSUME NEW u \in Uploads, MarkUploadFailed(u) PROVE UploadInv'
  BY <1>43 DEF MarkUploadFailed, Upload, MarkFailed, SetStatus, Write
<1>44. ASSUME NEW a \in Admins, StartRead(a) PROVE UploadInv'
  BY <1>44 DEF StartRead, Hand
<1>45. ASSUME NEW a \in Admins, StartQueued(a) PROVE UploadInv'
  BY <1>45 DEF StartQueued, Hand
<1>46. ASSUME NEW a \in Admins, StartAdd(a) PROVE UploadInv'
  BY <1>46 DEF StartAdd, Hand
<1>47. ASSUME NEW a \in Admins, CancelRead(a) PROVE UploadInv'
  BY <1>47 DEF CancelRead, Hand
<1>48. ASSUME NEW a \in Admins, CancelMark(a) PROVE UploadInv'
  BY <1>48 DEF CancelMark, Hand, SetStatus, Write
<1>49. ASSUME NEW a \in Admins, CancelRemove(a) PROVE UploadInv'
  BY <1>49 DEF CancelRemove, Hand
<1>50. ASSUME NEW a \in Admins, DeleteRead(a) PROVE UploadInv'
  BY <1>50 DEF DeleteRead, Hand
<1>51. ASSUME NEW a \in Admins, DeleteUpload(a) PROVE UploadInv'
  BY <1>51 DEF DeleteUpload, Hand
<1>52. ASSUME NEW a \in Admins, DeleteRow(a) PROVE UploadInv'
  BY <1>52 DEF DeleteRow, Hand
<1>53. ASSUME NEW a \in Admins, FinalizeRead(a) PROVE UploadInv'
  BY <1>53 DEF FinalizeRead, Hand
<1>54. ASSUME NEW a \in Admins, FinalizeCheck(a) PROVE UploadInv'
  BY <1>54 DEF FinalizeCheck, Hand
<1>55. ASSUME NEW a \in Admins, FinalizeShutdown(a) PROVE UploadInv'
  BY <1>55 DEF FinalizeShutdown, Hand
<1>56. ASSUME NEW a \in Admins, FinalizeStage(a) PROVE UploadInv'
  BY <1>56 DEF FinalizeStage, Hand, SetStage, Write
<1>57. ASSUME NEW a \in Admins, Convert(a) PROVE UploadInv'
  BY <1>57 DEF Convert
<1>58. ASSUME NEW a \in Admins, Publish(a) PROVE UploadInv'
  BY <1>58 DEF Publish, Hand, SetStage, Write
<1>59. ASSUME NEW a \in Admins, Succeed(a) PROVE UploadInv'
  BY <1>59 DEF Succeed, Hand, Write
<1>60. ASSUME NEW a \in Admins, TellAudit(a) PROVE UploadInv'
  BY <1>60 DEF TellAudit, Hand
<1>61. ASSUME NEW a \in Admins, FinalizeFails(a) PROVE UploadInv'
  BY <1>61 DEF FinalizeFails, Hand
<1>62. ASSUME NEW a \in Admins, FinalizeMark(a) PROVE UploadInv'
  BY <1>62 DEF FinalizeMark, Hand, MarkFailed, SetStatus, Write
<1>63. CASE Crash
  BY <1>63 DEF Crash
<1>64. CASE ListInterrupted
  BY <1>64 DEF ListInterrupted
<1>65. CASE MarkInterrupted
  BY <1>65 DEF MarkInterrupted, MarkFailed, SetStatus, Write
<1>66. CASE UNCHANGED vars
  BY <1>66 DEF vars
<1> HIDE DEF Ordered, UploadInv
<1> QED
  BY <1>1, <1>2, <1>3, <1>4, <1>5, <1>6, <1>7, <1>8, <1>9, <1>10, <1>11,
     <1>12, <1>13, <1>14, <1>15, <1>16, <1>17, <1>18, <1>19, <1>20, <1>21,
     <1>22, <1>23, <1>24, <1>25, <1>26, <1>27, <1>28, <1>29, <1>30, <1>31,
     <1>32, <1>33, <1>34, <1>35, <1>36, <1>37, <1>38, <1>39, <1>40, <1>41,
     <1>42, <1>43, <1>44, <1>45, <1>46, <1>47, <1>48, <1>49, <1>50, <1>51,
     <1>52, <1>53, <1>54, <1>55, <1>56, <1>57, <1>58, <1>59, <1>60, <1>61,
     <1>62, <1>63, <1>64, <1>65, <1>66
  DEF Next, Work, Stages, Checks, Receives, Continues, Administer

\* Handlers that would be in the way of each other are refused.
LEMMA HandStep ==
    ASSUME Faults = {}, Ordered, [Next]_vars
    PROVE  HandInv'
<1> USE CrashAssumption
    DEF Ordered, Positions, UploadInv, HandInv, JobInv, VmInv, CopyInv,
        Undoing, Packing, Making, Uploading, Busy, Watched, Working,
        Receiving, Starting, Finalizing, Cancelling, Deleting, Serving, Alone,
        InUse, VmAlreadyCreated, facts, record, worker, queue, node, disk
<1>1. CASE Fetch
  BY <1>1 DEF Fetch
<1>2. CASE EnterStage("fetched", "packaging")
  BY <1>2 DEF EnterStage, Moves, SetStage, Write
<1>3. CASE EnterStage("toTransfer", "transferring")
  BY <1>3 DEF EnterStage, Moves, SetStage, Write
<1>4. CASE EnterStage("toCreate", "creating")
  BY <1>4 DEF EnterStage, Moves, SetStage, Write
<1>5. CASE EnterStage("toConfigure", "configuring")
  BY <1>5 DEF EnterStage, Moves, SetStage, Write
<1>6. CASE CheckCancelled("packed", "toTransfer")
  BY <1>6 DEF CheckCancelled
<1>7. CASE CheckCancelled("sent", "toCreate")
  BY <1>7 DEF CheckCancelled
<1>8. CASE CheckCancelled("created", "toConfigure")
  BY <1>8 DEF CheckCancelled
<1>9. CASE PackageBundle
  BY <1>9 DEF PackageBundle
<1>10. CASE MergeSplitDisk
  BY <1>10 DEF MergeSplitDisk
<1>11. CASE ChooseTransfer
  BY <1>11 DEF ChooseTransfer
<1>12. CASE PullDone
  BY <1>12 DEF PullDone, Receive
<1>13. CASE PullFails
  BY <1>13 DEF PullFails
<1>14. CASE Push
  BY <1>14 DEF Push
<1>15. CASE PushFails
  BY <1>15 DEF PushFails
<1>16. CASE PushDone
  BY <1>16 DEF PushDone, Moves, Receive
<1>17. CASE PushTaskFails
  BY <1>17 DEF PushTaskFails, Moves
<1>18. CASE CreateVm
  BY <1>18 DEF CreateVm
<1>19. CASE CreateDone
  BY <1>19 DEF CreateDone, Moves
<1>20. CASE CreateFails
  BY <1>20 DEF CreateFails, Moves
<1>21. CASE ConfigureVm
  BY <1>21 DEF ConfigureVm, Moves
<1>22. CASE DropUpload
  BY <1>22 DEF DropUpload, Moves
<1>23. CASE Prep
  BY <1>23 DEF Prep, Moves, SetStage, Write
<1>24. CASE AwaitPrep
  BY <1>24 DEF AwaitPrep, Moves, SetStatus, Write
<1>25. CASE Told
  BY <1>25 DEF Told, Moves
<1>26. CASE WriteFails
  BY <1>26 DEF WriteFails
<1>27. CASE UndoMark
  BY <1>27 DEF UndoMark, Moves, MarkFailed, SetStatus, Write
<1>28. CASE UndoVm
  BY <1>28 DEF UndoVm, Moves
<1>29. CASE UndoCopy
  BY <1>29 DEF UndoCopy, Moves
<1>30. CASE FetchEnds
  BY <1>30 DEF FetchEnds
<1>31. CASE MakingEnds
  BY <1>31 DEF MakingEnds
<1>32. CASE EvictJob
  BY <1>32 DEF EvictJob
<1>33. CASE PrepareGuest
  BY <1>33 DEF PrepareGuest
<1>34. ASSUME NEW u \in Uploads, UploadRead(u) PROVE HandInv'
  BY <1>34 DEF UploadRead, Upload
<1>35. ASSUME NEW u \in Uploads, Progress(u) PROVE HandInv'
  BY <1>35 DEF Progress, Write
<1>36. ASSUME NEW u \in Uploads, OpenSink(u) PROVE HandInv'
  BY <1>36 DEF OpenSink, Upload
<1>37. ASSUME NEW u \in Uploads, ReceiveAll(u) PROVE HandInv'
  BY <1>37 DEF ReceiveAll, Upload
<1>38. ASSUME NEW u \in Uploads, StartInspection(u) PROVE HandInv'
  BY <1>38 DEF StartInspection, Upload, SetStatus, Write
<1>39. ASSUME NEW u \in Uploads, Inspect(u) PROVE HandInv'
  BY <1>39 DEF Inspect, Upload
<1>40. ASSUME NEW u \in Uploads, Suggest(u) PROVE HandInv'
  BY <1>40 DEF Suggest, Upload
<1>41. ASSUME NEW u \in Uploads, ReceiveFails(u) PROVE HandInv'
  BY <1>41 DEF ReceiveFails, Upload
<1>42. ASSUME NEW u \in Uploads, RemoveFile(u) PROVE HandInv'
  BY <1>42 DEF RemoveFile, Upload
<1>43. ASSUME NEW u \in Uploads, MarkUploadFailed(u) PROVE HandInv'
  BY <1>43 DEF MarkUploadFailed, Upload, MarkFailed, SetStatus, Write
<1>44. ASSUME NEW a \in Admins, StartRead(a) PROVE HandInv'
  BY <1>44 DEF StartRead, Hand
<1>45. ASSUME NEW a \in Admins, StartQueued(a) PROVE HandInv'
  <2>1. status \in {"ready", "failed"}
    BY <1>45 DEF StartQueued, Hand
  <2>2. settings' = TRUE /\ status' = "queued"
    BY <1>45, <2>1, Zenon DEF StartQueued
  <2>3. /\ hand[a] = "start" /\ hand' = [hand EXCEPT ![a] = "started"]
        /\ UNCHANGED <<stage, inspected, path, upload, bundle, scratch, queue, worker, node,
                       tile, boot, crashes>>
    BY <1>45 DEF StartQueued, Hand
  <2> QED
    BY <2>1, <2>2, <2>3
<1>46. ASSUME NEW a \in Admins, StartAdd(a) PROVE HandInv'
  BY <1>46 DEF StartAdd, Hand
<1>47. ASSUME NEW a \in Admins, CancelRead(a) PROVE HandInv'
  BY <1>47 DEF CancelRead, Hand
<1>48. ASSUME NEW a \in Admins, CancelMark(a) PROVE HandInv'
  BY <1>48 DEF CancelMark, Hand, SetStatus, Write
<1>49. ASSUME NEW a \in Admins, CancelRemove(a) PROVE HandInv'
  BY <1>49 DEF CancelRemove, Hand
<1>50. ASSUME NEW a \in Admins, DeleteRead(a) PROVE HandInv'
  BY <1>50 DEF DeleteRead, Hand
<1>51. ASSUME NEW a \in Admins, DeleteUpload(a) PROVE HandInv'
  BY <1>51 DEF DeleteUpload, Hand
<1>52. ASSUME NEW a \in Admins, DeleteRow(a) PROVE HandInv'
  BY <1>52 DEF DeleteRow, Hand
<1>53. ASSUME NEW a \in Admins, FinalizeRead(a) PROVE HandInv'
  BY <1>53 DEF FinalizeRead, Hand
<1>54. ASSUME NEW a \in Admins, FinalizeCheck(a) PROVE HandInv'
  BY <1>54 DEF FinalizeCheck, Hand
<1>55. ASSUME NEW a \in Admins, FinalizeShutdown(a) PROVE HandInv'
  BY <1>55 DEF FinalizeShutdown, Hand
<1>56. ASSUME NEW a \in Admins, FinalizeStage(a) PROVE HandInv'
  BY <1>56 DEF FinalizeStage, Hand, SetStage, Write
<1>57. ASSUME NEW a \in Admins, Convert(a) PROVE HandInv'
  BY <1>57 DEF Convert
<1>58. ASSUME NEW a \in Admins, Publish(a) PROVE HandInv'
  BY <1>58 DEF Publish, Hand, SetStage, Write
<1>59. ASSUME NEW a \in Admins, Succeed(a) PROVE HandInv'
  BY <1>59 DEF Succeed, Hand, Write
<1>60. ASSUME NEW a \in Admins, TellAudit(a) PROVE HandInv'
  BY <1>60 DEF TellAudit, Hand
<1>61. ASSUME NEW a \in Admins, FinalizeFails(a) PROVE HandInv'
  BY <1>61 DEF FinalizeFails, Hand
<1>62. ASSUME NEW a \in Admins, FinalizeMark(a) PROVE HandInv'
  BY <1>62 DEF FinalizeMark, Hand, MarkFailed, SetStatus, Write
<1>63. CASE Crash
  BY <1>63 DEF Crash
<1>64. CASE ListInterrupted
  BY <1>64 DEF ListInterrupted
<1>65. CASE MarkInterrupted
  BY <1>65 DEF MarkInterrupted, MarkFailed, SetStatus, Write
<1>66. CASE UNCHANGED vars
  BY <1>66 DEF vars
<1> HIDE DEF Ordered, HandInv
<1> QED
  BY <1>1, <1>2, <1>3, <1>4, <1>5, <1>6, <1>7, <1>8, <1>9, <1>10, <1>11,
     <1>12, <1>13, <1>14, <1>15, <1>16, <1>17, <1>18, <1>19, <1>20, <1>21,
     <1>22, <1>23, <1>24, <1>25, <1>26, <1>27, <1>28, <1>29, <1>30, <1>31,
     <1>32, <1>33, <1>34, <1>35, <1>36, <1>37, <1>38, <1>39, <1>40, <1>41,
     <1>42, <1>43, <1>44, <1>45, <1>46, <1>47, <1>48, <1>49, <1>50, <1>51,
     <1>52, <1>53, <1>54, <1>55, <1>56, <1>57, <1>58, <1>59, <1>60, <1>61,
     <1>62, <1>63, <1>64, <1>65, <1>66
  DEF Next, Work, Stages, Checks, Receives, Continues, Administer

\* The worker and those who wait for it write the row in turn.
LEMMA JobStep ==
    ASSUME Faults = {}, Ordered, [Next]_vars
    PROVE  JobInv'
<1> USE CrashAssumption
    DEF Ordered, Positions, UploadInv, HandInv, JobInv, VmInv, CopyInv,
        Undoing, Packing, Making, Uploading, Busy, Watched, Working,
        Receiving, Starting, Finalizing, Cancelling, Deleting, Serving, Alone,
        InUse, VmAlreadyCreated, facts, record, worker, queue, node, disk
<1>1. CASE Fetch
  BY <1>1 DEF Fetch
<1>2. CASE EnterStage("fetched", "packaging")
  BY <1>2 DEF EnterStage, Moves, SetStage, Write
<1>3. CASE EnterStage("toTransfer", "transferring")
  BY <1>3 DEF EnterStage, Moves, SetStage, Write
<1>4. CASE EnterStage("toCreate", "creating")
  BY <1>4 DEF EnterStage, Moves, SetStage, Write
<1>5. CASE EnterStage("toConfigure", "configuring")
  BY <1>5 DEF EnterStage, Moves, SetStage, Write
<1>6. CASE CheckCancelled("packed", "toTransfer")
  BY <1>6 DEF CheckCancelled
<1>7. CASE CheckCancelled("sent", "toCreate")
  BY <1>7 DEF CheckCancelled
<1>8. CASE CheckCancelled("created", "toConfigure")
  BY <1>8 DEF CheckCancelled
<1>9. CASE PackageBundle
  BY <1>9 DEF PackageBundle
<1>10. CASE MergeSplitDisk
  BY <1>10 DEF MergeSplitDisk
<1>11. CASE ChooseTransfer
  BY <1>11 DEF ChooseTransfer
<1>12. CASE PullDone
  BY <1>12 DEF PullDone, Receive
<1>13. CASE PullFails
  BY <1>13 DEF PullFails
<1>14. CASE Push
  BY <1>14 DEF Push
<1>15. CASE PushFails
  BY <1>15 DEF PushFails
<1>16. CASE PushDone
  BY <1>16 DEF PushDone, Moves, Receive
<1>17. CASE PushTaskFails
  BY <1>17 DEF PushTaskFails, Moves
<1>18. CASE CreateVm
  BY <1>18 DEF CreateVm
<1>19. CASE CreateDone
  BY <1>19 DEF CreateDone, Moves
<1>20. CASE CreateFails
  BY <1>20 DEF CreateFails, Moves
<1>21. CASE ConfigureVm
  BY <1>21 DEF ConfigureVm, Moves
<1>22. CASE DropUpload
  BY <1>22 DEF DropUpload, Moves
<1>23. CASE Prep
  BY <1>23 DEF Prep, Moves, SetStage, Write
<1>24. CASE AwaitPrep
  BY <1>24 DEF AwaitPrep, Moves, SetStatus, Write
<1>25. CASE Told
  BY <1>25 DEF Told, Moves
<1>26. CASE WriteFails
  BY <1>26 DEF WriteFails
<1>27. CASE UndoMark
  BY <1>27 DEF UndoMark, Moves, MarkFailed, SetStatus, Write
<1>28. CASE UndoVm
  BY <1>28 DEF UndoVm, Moves
<1>29. CASE UndoCopy
  BY <1>29 DEF UndoCopy, Moves
<1>30. CASE FetchEnds
  BY <1>30 DEF FetchEnds
<1>31. CASE MakingEnds
  BY <1>31 DEF MakingEnds
<1>32. CASE EvictJob
  BY <1>32 DEF EvictJob
<1>33. CASE PrepareGuest
  BY <1>33 DEF PrepareGuest
<1>34. ASSUME NEW u \in Uploads, UploadRead(u) PROVE JobInv'
  BY <1>34 DEF UploadRead, Upload
<1>35. ASSUME NEW u \in Uploads, Progress(u) PROVE JobInv'
  BY <1>35 DEF Progress, Write
<1>36. ASSUME NEW u \in Uploads, OpenSink(u) PROVE JobInv'
  BY <1>36 DEF OpenSink, Upload
<1>37. ASSUME NEW u \in Uploads, ReceiveAll(u) PROVE JobInv'
  BY <1>37 DEF ReceiveAll, Upload
<1>38. ASSUME NEW u \in Uploads, StartInspection(u) PROVE JobInv'
  BY <1>38 DEF StartInspection, Upload, SetStatus, Write
<1>39. ASSUME NEW u \in Uploads, Inspect(u) PROVE JobInv'
  BY <1>39 DEF Inspect, Upload
<1>40. ASSUME NEW u \in Uploads, Suggest(u) PROVE JobInv'
  BY <1>40 DEF Suggest, Upload
<1>41. ASSUME NEW u \in Uploads, ReceiveFails(u) PROVE JobInv'
  BY <1>41 DEF ReceiveFails, Upload
<1>42. ASSUME NEW u \in Uploads, RemoveFile(u) PROVE JobInv'
  BY <1>42 DEF RemoveFile, Upload
<1>43. ASSUME NEW u \in Uploads, MarkUploadFailed(u) PROVE JobInv'
  BY <1>43 DEF MarkUploadFailed, Upload, MarkFailed, SetStatus, Write
<1>44. ASSUME NEW a \in Admins, StartRead(a) PROVE JobInv'
  BY <1>44 DEF StartRead, Hand
<1>45. ASSUME NEW a \in Admins, StartQueued(a) PROVE JobInv'
  BY <1>45 DEF StartQueued, Hand
<1>46. ASSUME NEW a \in Admins, StartAdd(a) PROVE JobInv'
  BY <1>46 DEF StartAdd, Hand
<1>47. ASSUME NEW a \in Admins, CancelRead(a) PROVE JobInv'
  BY <1>47 DEF CancelRead, Hand
<1>48. ASSUME NEW a \in Admins, CancelMark(a) PROVE JobInv'
  BY <1>48 DEF CancelMark, Hand, SetStatus, Write
<1>49. ASSUME NEW a \in Admins, CancelRemove(a) PROVE JobInv'
  BY <1>49 DEF CancelRemove, Hand
<1>50. ASSUME NEW a \in Admins, DeleteRead(a) PROVE JobInv'
  BY <1>50 DEF DeleteRead, Hand
<1>51. ASSUME NEW a \in Admins, DeleteUpload(a) PROVE JobInv'
  BY <1>51 DEF DeleteUpload, Hand
<1>52. ASSUME NEW a \in Admins, DeleteRow(a) PROVE JobInv'
  BY <1>52 DEF DeleteRow, Hand
<1>53. ASSUME NEW a \in Admins, FinalizeRead(a) PROVE JobInv'
  BY <1>53 DEF FinalizeRead, Hand
<1>54. ASSUME NEW a \in Admins, FinalizeCheck(a) PROVE JobInv'
  BY <1>54 DEF FinalizeCheck, Hand
<1>55. ASSUME NEW a \in Admins, FinalizeShutdown(a) PROVE JobInv'
  BY <1>55 DEF FinalizeShutdown, Hand
<1>56. ASSUME NEW a \in Admins, FinalizeStage(a) PROVE JobInv'
  BY <1>56 DEF FinalizeStage, Hand, SetStage, Write
<1>57. ASSUME NEW a \in Admins, Convert(a) PROVE JobInv'
  BY <1>57 DEF Convert
<1>58. ASSUME NEW a \in Admins, Publish(a) PROVE JobInv'
  BY <1>58 DEF Publish, Hand, SetStage, Write
<1>59. ASSUME NEW a \in Admins, Succeed(a) PROVE JobInv'
  BY <1>59 DEF Succeed, Hand, Write
<1>60. ASSUME NEW a \in Admins, TellAudit(a) PROVE JobInv'
  BY <1>60 DEF TellAudit, Hand
<1>61. ASSUME NEW a \in Admins, FinalizeFails(a) PROVE JobInv'
  BY <1>61 DEF FinalizeFails, Hand
<1>62. ASSUME NEW a \in Admins, FinalizeMark(a) PROVE JobInv'
  BY <1>62 DEF FinalizeMark, Hand, MarkFailed, SetStatus, Write
<1>63. CASE Crash
  BY <1>63 DEF Crash
<1>64. CASE ListInterrupted
  BY <1>64 DEF ListInterrupted
<1>65. CASE MarkInterrupted
  BY <1>65 DEF MarkInterrupted, MarkFailed, SetStatus, Write
<1>66. CASE UNCHANGED vars
  BY <1>66 DEF vars
<1> HIDE DEF Ordered, JobInv
<1> QED
  BY <1>1, <1>2, <1>3, <1>4, <1>5, <1>6, <1>7, <1>8, <1>9, <1>10, <1>11,
     <1>12, <1>13, <1>14, <1>15, <1>16, <1>17, <1>18, <1>19, <1>20, <1>21,
     <1>22, <1>23, <1>24, <1>25, <1>26, <1>27, <1>28, <1>29, <1>30, <1>31,
     <1>32, <1>33, <1>34, <1>35, <1>36, <1>37, <1>38, <1>39, <1>40, <1>41,
     <1>42, <1>43, <1>44, <1>45, <1>46, <1>47, <1>48, <1>49, <1>50, <1>51,
     <1>52, <1>53, <1>54, <1>55, <1>56, <1>57, <1>58, <1>59, <1>60, <1>61,
     <1>62, <1>63, <1>64, <1>65, <1>66
  DEF Next, Work, Stages, Checks, Receives, Continues, Administer

\* Only the worker makes the VM, and only finalizing makes it a template.
LEMMA VmStep ==
    ASSUME Faults = {}, Ordered, [Next]_vars
    PROVE  VmInv'
<1> USE CrashAssumption
    DEF Ordered, Positions, UploadInv, HandInv, JobInv, VmInv, CopyInv,
        Undoing, Packing, Making, Uploading, Busy, Watched, Working,
        Receiving, Starting, Finalizing, Cancelling, Deleting, Serving, Alone,
        InUse, VmAlreadyCreated, facts, record, worker, queue, node, disk
<1>1. CASE Fetch
  BY <1>1 DEF Fetch
<1>2. CASE EnterStage("fetched", "packaging")
  BY <1>2 DEF EnterStage, Moves, SetStage, Write
<1>3. CASE EnterStage("toTransfer", "transferring")
  BY <1>3 DEF EnterStage, Moves, SetStage, Write
<1>4. CASE EnterStage("toCreate", "creating")
  BY <1>4 DEF EnterStage, Moves, SetStage, Write
<1>5. CASE EnterStage("toConfigure", "configuring")
  BY <1>5 DEF EnterStage, Moves, SetStage, Write
<1>6. CASE CheckCancelled("packed", "toTransfer")
  BY <1>6 DEF CheckCancelled
<1>7. CASE CheckCancelled("sent", "toCreate")
  BY <1>7 DEF CheckCancelled
<1>8. CASE CheckCancelled("created", "toConfigure")
  BY <1>8 DEF CheckCancelled
<1>9. CASE PackageBundle
  BY <1>9 DEF PackageBundle
<1>10. CASE MergeSplitDisk
  BY <1>10 DEF MergeSplitDisk
<1>11. CASE ChooseTransfer
  BY <1>11 DEF ChooseTransfer
<1>12. CASE PullDone
  BY <1>12 DEF PullDone, Receive
<1>13. CASE PullFails
  BY <1>13 DEF PullFails
<1>14. CASE Push
  BY <1>14 DEF Push
<1>15. CASE PushFails
  BY <1>15 DEF PushFails
<1>16. CASE PushDone
  BY <1>16 DEF PushDone, Moves, Receive
<1>17. CASE PushTaskFails
  BY <1>17 DEF PushTaskFails, Moves
<1>18. CASE CreateVm
  BY <1>18 DEF CreateVm
<1>19. CASE CreateDone
  BY <1>19 DEF CreateDone, Moves
<1>20. CASE CreateFails
  BY <1>20 DEF CreateFails, Moves
<1>21. CASE ConfigureVm
  BY <1>21 DEF ConfigureVm, Moves
<1>22. CASE DropUpload
  BY <1>22 DEF DropUpload, Moves
<1>23. CASE Prep
  BY <1>23 DEF Prep, Moves, SetStage, Write
<1>24. CASE AwaitPrep
  BY <1>24 DEF AwaitPrep, Moves, SetStatus, Write
<1>25. CASE Told
  BY <1>25 DEF Told, Moves
<1>26. CASE WriteFails
  BY <1>26 DEF WriteFails
<1>27. CASE UndoMark
  BY <1>27 DEF UndoMark, Moves, MarkFailed, SetStatus, Write
<1>28. CASE UndoVm
  BY <1>28 DEF UndoVm, Moves
<1>29. CASE UndoCopy
  BY <1>29 DEF UndoCopy, Moves
<1>30. CASE FetchEnds
  BY <1>30 DEF FetchEnds
<1>31. CASE MakingEnds
  BY <1>31 DEF MakingEnds
<1>32. CASE EvictJob
  BY <1>32 DEF EvictJob
<1>33. CASE PrepareGuest
  BY <1>33 DEF PrepareGuest
<1>34. ASSUME NEW u \in Uploads, UploadRead(u) PROVE VmInv'
  BY <1>34 DEF UploadRead, Upload
<1>35. ASSUME NEW u \in Uploads, Progress(u) PROVE VmInv'
  BY <1>35 DEF Progress, Write
<1>36. ASSUME NEW u \in Uploads, OpenSink(u) PROVE VmInv'
  BY <1>36 DEF OpenSink, Upload
<1>37. ASSUME NEW u \in Uploads, ReceiveAll(u) PROVE VmInv'
  BY <1>37 DEF ReceiveAll, Upload
<1>38. ASSUME NEW u \in Uploads, StartInspection(u) PROVE VmInv'
  BY <1>38 DEF StartInspection, Upload, SetStatus, Write
<1>39. ASSUME NEW u \in Uploads, Inspect(u) PROVE VmInv'
  BY <1>39 DEF Inspect, Upload
<1>40. ASSUME NEW u \in Uploads, Suggest(u) PROVE VmInv'
  BY <1>40 DEF Suggest, Upload
<1>41. ASSUME NEW u \in Uploads, ReceiveFails(u) PROVE VmInv'
  BY <1>41 DEF ReceiveFails, Upload
<1>42. ASSUME NEW u \in Uploads, RemoveFile(u) PROVE VmInv'
  BY <1>42 DEF RemoveFile, Upload
<1>43. ASSUME NEW u \in Uploads, MarkUploadFailed(u) PROVE VmInv'
  BY <1>43 DEF MarkUploadFailed, Upload, MarkFailed, SetStatus, Write
<1>44. ASSUME NEW a \in Admins, StartRead(a) PROVE VmInv'
  BY <1>44 DEF StartRead, Hand
<1>45. ASSUME NEW a \in Admins, StartQueued(a) PROVE VmInv'
  BY <1>45 DEF StartQueued, Hand
<1>46. ASSUME NEW a \in Admins, StartAdd(a) PROVE VmInv'
  BY <1>46 DEF StartAdd, Hand
<1>47. ASSUME NEW a \in Admins, CancelRead(a) PROVE VmInv'
  BY <1>47 DEF CancelRead, Hand
<1>48. ASSUME NEW a \in Admins, CancelMark(a) PROVE VmInv'
  BY <1>48 DEF CancelMark, Hand, SetStatus, Write
<1>49. ASSUME NEW a \in Admins, CancelRemove(a) PROVE VmInv'
  BY <1>49 DEF CancelRemove, Hand
<1>50. ASSUME NEW a \in Admins, DeleteRead(a) PROVE VmInv'
  BY <1>50 DEF DeleteRead, Hand
<1>51. ASSUME NEW a \in Admins, DeleteUpload(a) PROVE VmInv'
  BY <1>51 DEF DeleteUpload, Hand
<1>52. ASSUME NEW a \in Admins, DeleteRow(a) PROVE VmInv'
  BY <1>52 DEF DeleteRow, Hand
<1>53. ASSUME NEW a \in Admins, FinalizeRead(a) PROVE VmInv'
  BY <1>53 DEF FinalizeRead, Hand
<1>54. ASSUME NEW a \in Admins, FinalizeCheck(a) PROVE VmInv'
  BY <1>54 DEF FinalizeCheck, Hand
<1>55. ASSUME NEW a \in Admins, FinalizeShutdown(a) PROVE VmInv'
  BY <1>55 DEF FinalizeShutdown, Hand
<1>56. ASSUME NEW a \in Admins, FinalizeStage(a) PROVE VmInv'
  BY <1>56 DEF FinalizeStage, Hand, SetStage, Write
<1>57. ASSUME NEW a \in Admins, Convert(a) PROVE VmInv'
  BY <1>57 DEF Convert
<1>58. ASSUME NEW a \in Admins, Publish(a) PROVE VmInv'
  BY <1>58 DEF Publish, Hand, SetStage, Write
<1>59. ASSUME NEW a \in Admins, Succeed(a) PROVE VmInv'
  BY <1>59 DEF Succeed, Hand, Write
<1>60. ASSUME NEW a \in Admins, TellAudit(a) PROVE VmInv'
  BY <1>60 DEF TellAudit, Hand
<1>61. ASSUME NEW a \in Admins, FinalizeFails(a) PROVE VmInv'
  BY <1>61 DEF FinalizeFails, Hand
<1>62. ASSUME NEW a \in Admins, FinalizeMark(a) PROVE VmInv'
  BY <1>62 DEF FinalizeMark, Hand, MarkFailed, SetStatus, Write
<1>63. CASE Crash
  BY <1>63 DEF Crash
<1>64. CASE ListInterrupted
  BY <1>64 DEF ListInterrupted
<1>65. CASE MarkInterrupted
  BY <1>65 DEF MarkInterrupted, MarkFailed, SetStatus, Write
<1>66. CASE UNCHANGED vars
  BY <1>66 DEF vars
<1> HIDE DEF Ordered, VmInv
<1> QED
  BY <1>1, <1>2, <1>3, <1>4, <1>5, <1>6, <1>7, <1>8, <1>9, <1>10, <1>11,
     <1>12, <1>13, <1>14, <1>15, <1>16, <1>17, <1>18, <1>19, <1>20, <1>21,
     <1>22, <1>23, <1>24, <1>25, <1>26, <1>27, <1>28, <1>29, <1>30, <1>31,
     <1>32, <1>33, <1>34, <1>35, <1>36, <1>37, <1>38, <1>39, <1>40, <1>41,
     <1>42, <1>43, <1>44, <1>45, <1>46, <1>47, <1>48, <1>49, <1>50, <1>51,
     <1>52, <1>53, <1>54, <1>55, <1>56, <1>57, <1>58, <1>59, <1>60, <1>61,
     <1>62, <1>63, <1>64, <1>65, <1>66
  DEF Next, Work, Stages, Checks, Receives, Continues, Administer

\* Every copy and every file has someone to remove it.
LEMMA CopyStep ==
    ASSUME Faults = {}, Ordered, [Next]_vars
    PROVE  CopyInv'
<1> USE CrashAssumption
    DEF Ordered, Positions, UploadInv, HandInv, JobInv, VmInv, CopyInv,
        Undoing, Packing, Making, Uploading, Busy, Watched, Working,
        Receiving, Starting, Finalizing, Cancelling, Deleting, Serving, Alone,
        InUse, VmAlreadyCreated, facts, record, worker, queue, node, disk
<1>1. CASE Fetch
  BY <1>1 DEF Fetch
<1>2. CASE EnterStage("fetched", "packaging")
  BY <1>2 DEF EnterStage, Moves, SetStage, Write
<1>3. CASE EnterStage("toTransfer", "transferring")
  BY <1>3 DEF EnterStage, Moves, SetStage, Write
<1>4. CASE EnterStage("toCreate", "creating")
  BY <1>4 DEF EnterStage, Moves, SetStage, Write
<1>5. CASE EnterStage("toConfigure", "configuring")
  BY <1>5 DEF EnterStage, Moves, SetStage, Write
<1>6. CASE CheckCancelled("packed", "toTransfer")
  BY <1>6 DEF CheckCancelled
<1>7. CASE CheckCancelled("sent", "toCreate")
  BY <1>7 DEF CheckCancelled
<1>8. CASE CheckCancelled("created", "toConfigure")
  BY <1>8 DEF CheckCancelled
<1>9. CASE PackageBundle
  BY <1>9 DEF PackageBundle
<1>10. CASE MergeSplitDisk
  BY <1>10 DEF MergeSplitDisk
<1>11. CASE ChooseTransfer
  BY <1>11 DEF ChooseTransfer
<1>12. CASE PullDone
  BY <1>12 DEF PullDone, Receive
<1>13. CASE PullFails
  BY <1>13 DEF PullFails
<1>14. CASE Push
  BY <1>14 DEF Push
<1>15. CASE PushFails
  BY <1>15 DEF PushFails
<1>16. CASE PushDone
  BY <1>16 DEF PushDone, Moves, Receive
<1>17. CASE PushTaskFails
  BY <1>17 DEF PushTaskFails, Moves
<1>18. CASE CreateVm
  BY <1>18 DEF CreateVm
<1>19. CASE CreateDone
  BY <1>19 DEF CreateDone, Moves
<1>20. CASE CreateFails
  BY <1>20 DEF CreateFails, Moves
<1>21. CASE ConfigureVm
  BY <1>21 DEF ConfigureVm, Moves
<1>22. CASE DropUpload
  BY <1>22 DEF DropUpload, Moves
<1>23. CASE Prep
  BY <1>23 DEF Prep, Moves, SetStage, Write
<1>24. CASE AwaitPrep
  BY <1>24 DEF AwaitPrep, Moves, SetStatus, Write
<1>25. CASE Told
  BY <1>25 DEF Told, Moves
<1>26. CASE WriteFails
  BY <1>26 DEF WriteFails
<1>27. CASE UndoMark
  BY <1>27 DEF UndoMark, Moves, MarkFailed, SetStatus, Write
<1>28. CASE UndoVm
  BY <1>28 DEF UndoVm, Moves
<1>29. CASE UndoCopy
  BY <1>29 DEF UndoCopy, Moves
<1>30. CASE FetchEnds
  BY <1>30 DEF FetchEnds
<1>31. CASE MakingEnds
  BY <1>31 DEF MakingEnds
<1>32. CASE EvictJob
  BY <1>32 DEF EvictJob
<1>33. CASE PrepareGuest
  BY <1>33 DEF PrepareGuest
<1>34. ASSUME NEW u \in Uploads, UploadRead(u) PROVE CopyInv'
  BY <1>34 DEF UploadRead, Upload
<1>35. ASSUME NEW u \in Uploads, Progress(u) PROVE CopyInv'
  BY <1>35 DEF Progress, Write
<1>36. ASSUME NEW u \in Uploads, OpenSink(u) PROVE CopyInv'
  BY <1>36 DEF OpenSink, Upload
<1>37. ASSUME NEW u \in Uploads, ReceiveAll(u) PROVE CopyInv'
  <2>1. CASE status = "deleted"
    <3>1. ~path
      BY <1>37 DEF ReceiveAll, Upload
    <3>2. ~path'
      BY <1>37, <2>1, <3>1, Zenon DEF ReceiveAll
    <3>3. upload' = [upload EXCEPT ![u] = "failing"] /\ UNCHANGED <<status, stage, crashes>>
      BY <1>37, <2>1 DEF ReceiveAll, Upload
    <3>4. UNCHANGED <<work, held, copy>>
      BY <1>37 DEF ReceiveAll
    <3> QED
      BY <2>1, <3>2, <3>3, <3>4
  <2>2. CASE status # "deleted"
    <3>1. path' = TRUE
      BY <1>37, <2>2, Zenon DEF ReceiveAll
    <3>2. /\ upload[u] = "receiving" /\ upload' = [upload EXCEPT ![u] = "received"]
          /\ bundle' = "whole"
          /\ UNCHANGED <<status, stage, settings, inspected, keep, scratch, queue, worker, node,
                         tile, hand, boot, crashes>>
      BY <1>37, <2>2 DEF ReceiveAll, Upload
    <3> QED
      BY <2>2, <3>1, <3>2
  <2> QED
    BY <2>1, <2>2
<1>38. ASSUME NEW u \in Uploads, StartInspection(u) PROVE CopyInv'
  BY <1>38 DEF StartInspection, Upload, SetStatus, Write
<1>39. ASSUME NEW u \in Uploads, Inspect(u) PROVE CopyInv'
  BY <1>39 DEF Inspect, Upload
<1>40. ASSUME NEW u \in Uploads, Suggest(u) PROVE CopyInv'
  BY <1>40 DEF Suggest, Upload
<1>41. ASSUME NEW u \in Uploads, ReceiveFails(u) PROVE CopyInv'
  BY <1>41 DEF ReceiveFails, Upload
<1>42. ASSUME NEW u \in Uploads, RemoveFile(u) PROVE CopyInv'
  BY <1>42 DEF RemoveFile, Upload
<1>43. ASSUME NEW u \in Uploads, MarkUploadFailed(u) PROVE CopyInv'
  BY <1>43 DEF MarkUploadFailed, Upload, MarkFailed, SetStatus, Write
<1>44. ASSUME NEW a \in Admins, StartRead(a) PROVE CopyInv'
  BY <1>44 DEF StartRead, Hand
<1>45. ASSUME NEW a \in Admins, StartQueued(a) PROVE CopyInv'
  BY <1>45 DEF StartQueued, Hand
<1>46. ASSUME NEW a \in Admins, StartAdd(a) PROVE CopyInv'
  BY <1>46 DEF StartAdd, Hand
<1>47. ASSUME NEW a \in Admins, CancelRead(a) PROVE CopyInv'
  BY <1>47 DEF CancelRead, Hand
<1>48. ASSUME NEW a \in Admins, CancelMark(a) PROVE CopyInv'
  BY <1>48 DEF CancelMark, Hand, SetStatus, Write
<1>49. ASSUME NEW a \in Admins, CancelRemove(a) PROVE CopyInv'
  BY <1>49 DEF CancelRemove, Hand
<1>50. ASSUME NEW a \in Admins, DeleteRead(a) PROVE CopyInv'
  BY <1>50 DEF DeleteRead, Hand
<1>51. ASSUME NEW a \in Admins, DeleteUpload(a) PROVE CopyInv'
  BY <1>51 DEF DeleteUpload, Hand
<1>52. ASSUME NEW a \in Admins, DeleteRow(a) PROVE CopyInv'
  BY <1>52 DEF DeleteRow, Hand
<1>53. ASSUME NEW a \in Admins, FinalizeRead(a) PROVE CopyInv'
  BY <1>53 DEF FinalizeRead, Hand
<1>54. ASSUME NEW a \in Admins, FinalizeCheck(a) PROVE CopyInv'
  BY <1>54 DEF FinalizeCheck, Hand
<1>55. ASSUME NEW a \in Admins, FinalizeShutdown(a) PROVE CopyInv'
  BY <1>55 DEF FinalizeShutdown, Hand
<1>56. ASSUME NEW a \in Admins, FinalizeStage(a) PROVE CopyInv'
  BY <1>56 DEF FinalizeStage, Hand, SetStage, Write
<1>57. ASSUME NEW a \in Admins, Convert(a) PROVE CopyInv'
  BY <1>57 DEF Convert
<1>58. ASSUME NEW a \in Admins, Publish(a) PROVE CopyInv'
  BY <1>58 DEF Publish, Hand, SetStage, Write
<1>59. ASSUME NEW a \in Admins, Succeed(a) PROVE CopyInv'
  BY <1>59 DEF Succeed, Hand, Write
<1>60. ASSUME NEW a \in Admins, TellAudit(a) PROVE CopyInv'
  BY <1>60 DEF TellAudit, Hand
<1>61. ASSUME NEW a \in Admins, FinalizeFails(a) PROVE CopyInv'
  BY <1>61 DEF FinalizeFails, Hand
<1>62. ASSUME NEW a \in Admins, FinalizeMark(a) PROVE CopyInv'
  BY <1>62 DEF FinalizeMark, Hand, MarkFailed, SetStatus, Write
<1>63. CASE Crash
  BY <1>63 DEF Crash
<1>64. CASE ListInterrupted
  BY <1>64 DEF ListInterrupted
<1>65. CASE MarkInterrupted
  BY <1>65 DEF MarkInterrupted, MarkFailed, SetStatus, Write
<1>66. CASE UNCHANGED vars
  BY <1>66 DEF vars
<1> HIDE DEF Ordered, CopyInv
<1> QED
  BY <1>1, <1>2, <1>3, <1>4, <1>5, <1>6, <1>7, <1>8, <1>9, <1>10, <1>11,
     <1>12, <1>13, <1>14, <1>15, <1>16, <1>17, <1>18, <1>19, <1>20, <1>21,
     <1>22, <1>23, <1>24, <1>25, <1>26, <1>27, <1>28, <1>29, <1>30, <1>31,
     <1>32, <1>33, <1>34, <1>35, <1>36, <1>37, <1>38, <1>39, <1>40, <1>41,
     <1>42, <1>43, <1>44, <1>45, <1>46, <1>47, <1>48, <1>49, <1>50, <1>51,
     <1>52, <1>53, <1>54, <1>55, <1>56, <1>57, <1>58, <1>59, <1>60, <1>61,
     <1>62, <1>63, <1>64, <1>65, <1>66
  DEF Next, Work, Stages, Checks, Receives, Continues, Administer

\* Nobody who is going to write the status has read it too long ago.
LEMMA StatusStep ==
    ASSUME Faults = {}, Ordered, [Next]_vars
    PROVE  StatusKept
<1> USE CrashAssumption
    DEF Ordered, Positions, UploadInv, HandInv, JobInv, VmInv, CopyInv,
        Undoing, Packing, Making, Uploading, Busy, Watched, Working,
        Receiving, Starting, Finalizing, Cancelling, Deleting, Serving, Alone,
        InUse, VmAlreadyCreated, facts, record, worker, queue, node, disk,
        StatusKept
<1>1. CASE Fetch
  BY <1>1 DEF Fetch
<1>2. CASE EnterStage("fetched", "packaging")
  BY <1>2 DEF EnterStage, Moves, SetStage, Write
<1>3. CASE EnterStage("toTransfer", "transferring")
  BY <1>3 DEF EnterStage, Moves, SetStage, Write
<1>4. CASE EnterStage("toCreate", "creating")
  BY <1>4 DEF EnterStage, Moves, SetStage, Write
<1>5. CASE EnterStage("toConfigure", "configuring")
  BY <1>5 DEF EnterStage, Moves, SetStage, Write
<1>6. CASE CheckCancelled("packed", "toTransfer")
  BY <1>6 DEF CheckCancelled
<1>7. CASE CheckCancelled("sent", "toCreate")
  BY <1>7 DEF CheckCancelled
<1>8. CASE CheckCancelled("created", "toConfigure")
  BY <1>8 DEF CheckCancelled
<1>9. CASE PackageBundle
  BY <1>9 DEF PackageBundle
<1>10. CASE MergeSplitDisk
  BY <1>10 DEF MergeSplitDisk
<1>11. CASE ChooseTransfer
  BY <1>11 DEF ChooseTransfer
<1>12. CASE PullDone
  BY <1>12 DEF PullDone, Receive
<1>13. CASE PullFails
  BY <1>13 DEF PullFails
<1>14. CASE Push
  BY <1>14 DEF Push
<1>15. CASE PushFails
  BY <1>15 DEF PushFails
<1>16. CASE PushDone
  BY <1>16 DEF PushDone, Moves, Receive
<1>17. CASE PushTaskFails
  BY <1>17 DEF PushTaskFails, Moves
<1>18. CASE CreateVm
  BY <1>18 DEF CreateVm
<1>19. CASE CreateDone
  BY <1>19 DEF CreateDone, Moves
<1>20. CASE CreateFails
  BY <1>20 DEF CreateFails, Moves
<1>21. CASE ConfigureVm
  BY <1>21 DEF ConfigureVm, Moves
<1>22. CASE DropUpload
  BY <1>22 DEF DropUpload, Moves
<1>23. CASE Prep
  BY <1>23 DEF Prep, Moves, SetStage, Write
<1>24. CASE AwaitPrep
  BY <1>24 DEF AwaitPrep, Moves, SetStatus, Write
<1>25. CASE Told
  BY <1>25 DEF Told, Moves
<1>26. CASE WriteFails
  BY <1>26 DEF WriteFails
<1>27. CASE UndoMark
  BY <1>27 DEF UndoMark, Moves, MarkFailed, SetStatus, Write
<1>28. CASE UndoVm
  BY <1>28 DEF UndoVm, Moves
<1>29. CASE UndoCopy
  BY <1>29 DEF UndoCopy, Moves
<1>30. CASE FetchEnds
  BY <1>30 DEF FetchEnds
<1>31. CASE MakingEnds
  BY <1>31 DEF MakingEnds
<1>32. CASE EvictJob
  BY <1>32 DEF EvictJob
<1>33. CASE PrepareGuest
  BY <1>33 DEF PrepareGuest
<1>34. ASSUME NEW u \in Uploads, UploadRead(u) PROVE StatusKept
  BY <1>34 DEF UploadRead, Upload
<1>35. ASSUME NEW u \in Uploads, Progress(u) PROVE StatusKept
  BY <1>35 DEF Progress, Write
<1>36. ASSUME NEW u \in Uploads, OpenSink(u) PROVE StatusKept
  BY <1>36 DEF OpenSink, Upload
<1>37. ASSUME NEW u \in Uploads, ReceiveAll(u) PROVE StatusKept
  BY <1>37 DEF ReceiveAll, Upload
<1>38. ASSUME NEW u \in Uploads, StartInspection(u) PROVE StatusKept
  BY <1>38 DEF StartInspection, Upload, SetStatus, Write
<1>39. ASSUME NEW u \in Uploads, Inspect(u) PROVE StatusKept
  BY <1>39 DEF Inspect, Upload
<1>40. ASSUME NEW u \in Uploads, Suggest(u) PROVE StatusKept
  BY <1>40 DEF Suggest, Upload
<1>41. ASSUME NEW u \in Uploads, ReceiveFails(u) PROVE StatusKept
  BY <1>41 DEF ReceiveFails, Upload
<1>42. ASSUME NEW u \in Uploads, RemoveFile(u) PROVE StatusKept
  BY <1>42 DEF RemoveFile, Upload
<1>43. ASSUME NEW u \in Uploads, MarkUploadFailed(u) PROVE StatusKept
  BY <1>43 DEF MarkUploadFailed, Upload, MarkFailed, SetStatus, Write
<1>44. ASSUME NEW a \in Admins, StartRead(a) PROVE StatusKept
  BY <1>44 DEF StartRead, Hand
<1>45. ASSUME NEW a \in Admins, StartQueued(a) PROVE StatusKept
  BY <1>45 DEF StartQueued, Hand
<1>46. ASSUME NEW a \in Admins, StartAdd(a) PROVE StatusKept
  BY <1>46 DEF StartAdd, Hand
<1>47. ASSUME NEW a \in Admins, CancelRead(a) PROVE StatusKept
  BY <1>47 DEF CancelRead, Hand
<1>48. ASSUME NEW a \in Admins, CancelMark(a) PROVE StatusKept
  BY <1>48 DEF CancelMark, Hand, SetStatus, Write
<1>49. ASSUME NEW a \in Admins, CancelRemove(a) PROVE StatusKept
  BY <1>49 DEF CancelRemove, Hand
<1>50. ASSUME NEW a \in Admins, DeleteRead(a) PROVE StatusKept
  BY <1>50 DEF DeleteRead, Hand
<1>51. ASSUME NEW a \in Admins, DeleteUpload(a) PROVE StatusKept
  BY <1>51 DEF DeleteUpload, Hand
<1>52. ASSUME NEW a \in Admins, DeleteRow(a) PROVE StatusKept
  BY <1>52 DEF DeleteRow, Hand
<1>53. ASSUME NEW a \in Admins, FinalizeRead(a) PROVE StatusKept
  BY <1>53 DEF FinalizeRead, Hand
<1>54. ASSUME NEW a \in Admins, FinalizeCheck(a) PROVE StatusKept
  BY <1>54 DEF FinalizeCheck, Hand
<1>55. ASSUME NEW a \in Admins, FinalizeShutdown(a) PROVE StatusKept
  BY <1>55 DEF FinalizeShutdown, Hand
<1>56. ASSUME NEW a \in Admins, FinalizeStage(a) PROVE StatusKept
  BY <1>56 DEF FinalizeStage, Hand, SetStage, Write
<1>57. ASSUME NEW a \in Admins, Convert(a) PROVE StatusKept
  BY <1>57 DEF Convert
<1>58. ASSUME NEW a \in Admins, Publish(a) PROVE StatusKept
  BY <1>58 DEF Publish, Hand, SetStage, Write
<1>59. ASSUME NEW a \in Admins, Succeed(a) PROVE StatusKept
  BY <1>59 DEF Succeed, Hand, Write
<1>60. ASSUME NEW a \in Admins, TellAudit(a) PROVE StatusKept
  BY <1>60 DEF TellAudit, Hand
<1>61. ASSUME NEW a \in Admins, FinalizeFails(a) PROVE StatusKept
  BY <1>61 DEF FinalizeFails, Hand
<1>62. ASSUME NEW a \in Admins, FinalizeMark(a) PROVE StatusKept
  BY <1>62 DEF FinalizeMark, Hand, MarkFailed, SetStatus, Write
<1>63. CASE Crash
  BY <1>63 DEF Crash
<1>64. CASE ListInterrupted
  BY <1>64 DEF ListInterrupted
<1>65. CASE MarkInterrupted
  BY <1>65 DEF MarkInterrupted, MarkFailed, SetStatus, Write
<1>66. CASE UNCHANGED vars
  BY <1>66 DEF vars
<1> HIDE DEF Ordered, StatusKept
<1> QED
  BY <1>1, <1>2, <1>3, <1>4, <1>5, <1>6, <1>7, <1>8, <1>9, <1>10, <1>11,
     <1>12, <1>13, <1>14, <1>15, <1>16, <1>17, <1>18, <1>19, <1>20, <1>21,
     <1>22, <1>23, <1>24, <1>25, <1>26, <1>27, <1>28, <1>29, <1>30, <1>31,
     <1>32, <1>33, <1>34, <1>35, <1>36, <1>37, <1>38, <1>39, <1>40, <1>41,
     <1>42, <1>43, <1>44, <1>45, <1>46, <1>47, <1>48, <1>49, <1>50, <1>51,
     <1>52, <1>53, <1>54, <1>55, <1>56, <1>57, <1>58, <1>59, <1>60, <1>61,
     <1>62, <1>63, <1>64, <1>65, <1>66
  DEF Next, Work, Stages, Checks, Receives, Continues, Administer

\* A run without the named faults is in order.
LEMMA OrderedAlways ==
    ASSUME Faults = {}
    PROVE  Spec => []Ordered
<1>1. Init => Ordered
  BY CrashAssumption DEF Init, Ordered, Positions, UploadInv, HandInv, JobInv, VmInv, CopyInv,
     Packing, Making, Undoing, Watched, Uploading, Busy, Starting, Finalizing
<1>2. Ordered /\ [Next]_vars => Ordered'
  BY PositionsStep, UploadStep, HandStep, JobStep, VmStep, CopyStep DEF Ordered
<1> QED
  BY <1>1, <1>2, PTL DEF Spec

\* The worker never packages or sends a bundle that is not there as a whole.
THEOREM WorksOnWholeSafe ==
    ASSUME Faults = {}
    PROVE  Spec => []WorksOnWhole
<1>1. Ordered => WorksOnWhole
  BY DEF Ordered, JobInv, Packing, WorksOnWhole
<1> QED
  BY <1>1, OrderedAlways, PTL

\* An import that can be finished has its VM.
THEOREM FinishableSafe ==
    ASSUME Faults = {}
    PROVE  Spec => []FinishableVm
<1>1. Ordered => FinishableVm
  BY DEF Ordered, JobInv, VmInv, FinishableVm, VmAlreadyCreated
<1> QED
  BY <1>1, OrderedAlways, PTL

\* A failed or cancelled import leaves nothing behind.
THEOREM CleanSafe ==
    ASSUME Faults = {}
    PROVE  Spec => []CleanAfter
<1>1. Ordered => CleanAfter
  BY DEF Ordered, Positions, UploadInv, JobInv, VmInv, CopyInv, CleanAfter, VmAlreadyCreated,
     Uploading, Making
<1> QED
  BY <1>1, OrderedAlways, PTL

\* A cancelled import does not go on.
THEOREM CancelSafe ==
    ASSUME Faults = {}
    PROVE  Spec => CancelHolds
<1>1. Ordered /\ [Next]_vars
        => [status = "cancelled" => status' \in {"cancelled", "failed", "deleted"}]_vars
  BY StatusStep DEF StatusKept
<1> QED
  BY <1>1, OrderedAlways, PTL DEF Spec, CancelHolds

\* An import that has succeeded stays so.
THEOREM SucceededSafe ==
    ASSUME Faults = {}
    PROVE  Spec => SucceededHolds
<1>1. Ordered /\ Ordered' /\ [Next]_vars
        => [/\ status' = "succeeded" => vm' = "template" /\ work' \in {"idle", "telling"}
            /\ status = "succeeded" => status' \in {"succeeded", "deleted"}]_vars
  BY StatusStep DEF Ordered, JobInv, StatusKept, Positions, Working
<1> QED
  BY <1>1, OrderedAlways, PTL DEF Spec, SucceededHolds
=============================================================================
