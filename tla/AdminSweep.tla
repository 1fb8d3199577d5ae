----------------------------- MODULE AdminSweep -----------------------------
(***************************************************************************)
(* One image, the clones made of it, the people who use them and the       *)
(* administrator who clears them away: students ask for a machine          *)
(* (routes/vm.ts) and share their screen, the pool is filled, sessions are *)
(* cleaned up, and meanwhile an administrator destroys the image           *)
(* (services/templateAdmin.ts), deletes the inactive machines or the       *)
(* staged ones (routes/admin.ts).  These procedures list first and work    *)
(* through their lists for minutes, while everybody else goes on.          *)
(*                                                                         *)
(* VmLifecycle has the single steps of a build and of a cleanup; here both *)
(* are as coarse as the procedures can tell.  A VMID is used once, and SQL *)
(* lists are worked through in any order.                                  *)
(***************************************************************************)
EXTENDS Naturals, FiniteSets

CONSTANTS Clones,       \* the VMIDs of clones
          Image,        \* the VM that they are linked clones of
          Requests,     \* POST /request, and the session that comes of it
          Users,
          UserOf,       \* who sends which request
          MaxVms,       \* users.max_vms
          MaxDuties,    \* bound: kinds of things the administrators do
          None

ASSUME DeskAssumption ==
    /\ Image \notin Clones /\ None \notin Clones
    /\ UserOf \in [Requests -> Users]
    /\ IsFiniteSet(Requests)
    /\ MaxVms \in Nat \ {0} /\ MaxDuties \in Nat

VARIABLES
    agenda,     \* what the administrators do in this behaviour
    machine,    \* what Proxmox has under a VMID: "none", "running", "stopped"
    claims,     \* VMIDs claimed in Redis
    build,      \* how far the build of a clone is
    staged,     \* staged_vms, by VMID
    req, held,  \* how far a request is, and the clone it or its session has
    session,    \* sessions.status
    lock,       \* users whose request lock exists
    work,       \* cleanup job of a session: "idle", "deleting", "stopping"
    demo,       \* sessions with demo_active
    demoAt,     \* startDemo of a session, between its statements
    shown,      \* the session whose start was the last to report "demoActive"
    tile,       \* the image on the dashboard: source, listed, hidden
    destroy,    \* destroyTemplateCompletely
    sweep,      \* POST /vms/delete-inactive
    purge,      \* destroyStagedVmById, for one row or for all
    told,       \* failures that the administrator was told of, by VMID
    past        \* what happened, for the properties

cluster == <<machine, claims>>
pool    == <<build, staged>>
portal  == <<req, held, lock>>
cleanup == <<work, session>>
starts  == <<demoAt, shown>>
screen  == <<demo, starts>>
duties  == <<agenda, tile, destroy, sweep, purge>>
vars == <<cluster, pool, portal, cleanup, screen, duties, told, past>>

LiveStates == {"running", "cleaning"}       \* LIVE_SESSION_STATES that occur
Enabled == tile.listed /\ ~tile.hidden      \* getTemplate(id).enabled
Exists(vm) == machine[vm] # "none"
User(u) == {r \in Requests : UserOf[r] = u}

-----------------------------------------------------------------------------
(* The pool *)

Build(c, from, to) == build[c] = from /\ build' = [build EXCEPT ![c] = to]

\* The tile is looked up once, several awaits before the clone.
FindTile(c) ==
    /\ Enabled
    /\ Build(c, "none", "found")
    /\ UNCHANGED <<cluster, staged, portal, cleanup, screen, duties, told, past>>

\* A clone is linked to the image.
Clone(c) ==
    /\ Exists(Image)
    /\ Build(c, "found", "cloned")
    /\ machine' = [machine EXCEPT ![c] = "running"]
    /\ claims' = claims \cup {c}
    /\ UNCHANGED <<staged, portal, cleanup, screen, duties, told, past>>

\* waitForGuestIp
Boots(c) ==
    /\ machine[c] = "running" /\ Build(c, "cloned", "booted")
    /\ UNCHANGED <<cluster, staged, portal, cleanup, screen, duties, told, past>>

Publish(c) ==
    /\ Build(c, "booted", "done")
    /\ staged' = staged \cup {c}
    /\ UNCHANGED <<cluster, portal, cleanup, screen, duties, told, past>>

\* The catch block tries to delete the machine, and forgets it anyway.
BuildFails(c) ==
    /\ \E at \in {"found", "cloned", "booted"} : Build(c, at, "done")
    /\ claims' = claims \ {c}
    /\ \/ machine' = [machine EXCEPT ![c] = "none"] /\ UNCHANGED past
       \/ Exists(c) /\ past' = [past EXCEPT !.lost = @ \cup {c}] /\ UNCHANGED machine
    /\ UNCHANGED <<staged, portal, cleanup, screen, duties, told>>

-----------------------------------------------------------------------------
(* A request *)

Goes(r, from, to) == req[r] = from /\ req' = [req EXCEPT ![r] = to]
InFlight == {"checked", "locked", "holding"}
Running(u) == {r \in User(u) : session[r] = "running"}      \* listActiveSessionsForUser

\* The tile is looked up once.
Ask(r) ==
    /\ Enabled
    /\ Goes(r, "idle", "asked")
    /\ UNCHANGED <<cluster, pool, held, lock, cleanup, screen, duties, told, past>>

\* Mutant: one more than the limit.
ReadQuotaLoosely(r) ==
    LET others == {q \in User(UserOf[r]) \ {r} : req[q] \in InFlight} IN
    /\ IF Cardinality(Running(UserOf[r])) > MaxVms
         THEN Goes(r, "asked", "done") /\ UNCHANGED past
         ELSE /\ Goes(r, "asked", "checked")
              /\ past' = [past EXCEPT !.overlap = @ \/ others # {}]
    /\ UNCHANGED <<cluster, pool, held, lock, cleanup, screen, duties, told>>

\* The quota is read before there is a lock.  (past: another request of the
\* user was between this point and its session.)
ReadQuota(r) ==
    LET others == {q \in User(UserOf[r]) \ {r} : req[q] \in InFlight} IN
    /\ IF Cardinality(Running(UserOf[r])) >= MaxVms
         THEN Goes(r, "asked", "done") /\ UNCHANGED past
         ELSE /\ Goes(r, "asked", "checked")
              /\ past' = [past EXCEPT !.overlap = @ \/ others # {}]
    /\ UNCHANGED <<cluster, pool, held, lock, cleanup, screen, duties, told>>

\* SET NX; refused while a lock is there, or because the cluster is full.
TakeLock(r) ==
    /\ \/ UserOf[r] \notin lock /\ lock' = lock \cup {UserOf[r]} /\ Goes(r, "checked", "locked")
       \/ Goes(r, "checked", "done") /\ UNCHANGED lock
    /\ UNCHANGED <<cluster, pool, held, cleanup, screen, duties, told, past>>

\* EX 5
LockExpires(u) ==
    /\ u \in lock /\ lock' = lock \ {u}
    /\ past' = [past EXCEPT !.expired = TRUE]
    /\ UNCHANGED <<cluster, pool, req, held, cleanup, screen, duties, told>>

ClaimStaged(r) ==
    /\ IF staged = {}
         THEN Goes(r, "locked", "leaving") /\ UNCHANGED <<staged, held>>
         ELSE /\ Goes(r, "locked", "holding")
              /\ \E c \in staged : staged' = staged \ {c} /\ held' = [held EXCEPT ![r] = c]
    /\ UNCHANGED <<cluster, build, lock, cleanup, screen, duties, told, past>>

\* A failing insert loses the clone.
InsertSession(r) ==
    /\ Goes(r, "holding", "leaving")
    /\ \/ session' = [session EXCEPT ![r] = "running"] /\ UNCHANGED past
       \/ past' = [past EXCEPT !.lost = @ \cup {held[r]}] /\ UNCHANGED session
    /\ UNCHANGED <<cluster, pool, held, lock, work, screen, duties, told>>

\* The finally block deletes the lock, whoever holds it by now.
Leave(r) ==
    /\ Goes(r, "leaving", "done")
    /\ lock' = lock \ {UserOf[r]}
    /\ UNCHANGED <<cluster, pool, held, cleanup, screen, duties, told, past>>

Portal(r) ==
    \/ Ask(r) \/ ReadQuota(r) \/ TakeLock(r) \/ ClaimStaged(r) \/ InsertSession(r) \/ Leave(r)

-----------------------------------------------------------------------------
(* Demo mode *)

\* startDemo, first statement: the flag of every other session goes.
DemoClear(r) ==
    /\ "demo" \in agenda /\ session[r] = "running" /\ demoAt[r] = "idle"
    /\ demo' = demo \cap {r}
    /\ demoAt' = [demoAt EXCEPT ![r] = "cleared"]
    /\ UNCHANGED <<cluster, pool, portal, cleanup, shown, duties, told, past>>

\* Mutant: a schema without the index.
DemoSetAlso(r) ==
    /\ demoAt[r] # "idle" /\ demoAt' = [demoAt EXCEPT ![r] = "idle"]
    /\ IF session[r] = "running"
         THEN demo' = demo \cup {r} /\ shown' = r
         ELSE UNCHANGED demo /\ shown' = IF demo = {} THEN None ELSE shown
    /\ UNCHANGED <<cluster, pool, portal, cleanup, duties, told, past>>

\* Second statement: nothing if the session runs no more, which may leave the
\* dashboard empty, and an error if the unique index finds another flag.
DemoSet(r) ==
    /\ demoAt[r] # "idle" /\ demoAt' = [demoAt EXCEPT ![r] = "idle"]
    /\ \/ /\ session[r] = "running" /\ demo \subseteq {r}
          /\ demo' = {r} /\ shown' = r
       \/ /\ session[r] = "running" /\ ~(demo \subseteq {r})
          /\ UNCHANGED <<demo, shown>>
       \/ /\ session[r] # "running"
          /\ UNCHANGED demo /\ shown' = IF demo = {} THEN None ELSE shown
    /\ UNCHANGED <<cluster, pool, portal, cleanup, duties, told, past>>

DemoStop(r) ==
    /\ r \in demo /\ demo' = demo \ {r} /\ shown' = None
    /\ UNCHANGED <<cluster, pool, portal, cleanup, demoAt, duties, told, past>>

-----------------------------------------------------------------------------
(* Power off, delete, wait: what can come of it *)

Removed(vm) ==
    /\ Exists(vm) /\ (vm = Image => \A c \in Clones : ~Exists(c))
    /\ machine' = [machine EXCEPT ![vm] = "none"]
Missing(vm) == ~Exists(vm) /\ UNCHANGED machine

\* An error, or no answer in time: the machine may be as it was, off, or gone.
Refused(vm) ==
    /\ Exists(vm)
    /\ \E left \in {machine[vm], "stopped", "none"} : machine' = [machine EXCEPT ![vm] = left]

\* shouldForgetTrackedVm: a machine that is missing, or only out of reach, is
\* as good as deleted.
Forget(vm) ==
    /\ \/ (Removed(vm) \/ Missing(vm)) /\ UNCHANGED past
       \/ Refused(vm) /\ past' = [past EXCEPT !.lost = @ \cup {vm}]
    /\ claims' = claims \ {vm}

Complain(vm) == Refused(vm) /\ told' = told \cup {vm} /\ UNCHANGED <<claims, past>>

-----------------------------------------------------------------------------
(* The cleanup of a session *)

CleanupStart(r) ==
    /\ work[r] = "idle" /\ session[r] \notin {"none", "stopped"}
    /\ session' = [session EXCEPT ![r] = "cleaning"]
    /\ work' = [work EXCEPT ![r] = "deleting"]
    /\ UNCHANGED <<cluster, pool, portal, screen, duties, told, past>>

CleanupDelete(r) ==
    /\ work[r] = "deleting"
    /\ \/ /\ Forget(held[r])
          /\ work' = [work EXCEPT ![r] = "stopping"]
          /\ UNCHANGED <<session, demo>>
       \/ /\ Refused(held[r])
          /\ work' = [work EXCEPT ![r] = "idle"]
          /\ session' = [session EXCEPT ![r] = "cleanup_failed"]
          /\ demo' = demo \ {r}
          /\ UNCHANGED <<claims, past>>
    /\ UNCHANGED <<pool, portal, starts, duties, told>>

\* Mutant: marked failed, like a build.
CleanupStopFailed(r) ==
    /\ work[r] = "stopping"
    /\ work' = [work EXCEPT ![r] = "idle"]
    /\ session' = [session EXCEPT ![r] = "failed"]
    /\ demo' = demo \ {r}
    /\ UNCHANGED <<cluster, pool, portal, starts, duties, told, past>>

CleanupStop(r) ==
    /\ work[r] = "stopping"
    /\ work' = [work EXCEPT ![r] = "idle"]
    /\ session' = [session EXCEPT ![r] = "stopped"]
    /\ demo' = demo \ {r}
    /\ UNCHANGED <<cluster, pool, portal, starts, duties, told, past>>

-----------------------------------------------------------------------------
(* Destroying the image *)

Others == <<pool, portal, work, starts>>
DestroyAt(from, to, todo, vm) ==
    /\ destroy.at = from /\ destroy' = [at |-> to, todo |-> todo, vm |-> vm]
    /\ UNCHANGED <<agenda, sweep, purge>>

\* The switch of the image page.
SetHidden(h) ==
    /\ "hide" \in agenda
    /\ tile.listed /\ tile.hidden # h /\ tile' = [tile EXCEPT !.hidden = h]
    /\ UNCHANGED <<cluster, pool, portal, cleanup, screen, agenda, destroy, sweep, purge, told, past>>

DestroyBegin ==
    /\ "destroy" \in agenda /\ tile.listed
    /\ DestroyAt("idle", "hidden", {}, None)
    /\ tile' = [tile EXCEPT !.hidden = TRUE]
    /\ UNCHANGED <<cluster, Others, session, demo, told, past>>

ListSessions ==
    /\ DestroyAt("hidden", "sessions", {r \in Requests : session[r] \in LiveStates}, None)
    /\ UNCHANGED <<cluster, Others, session, demo, tile, told, past>>

\* Mutant: whatever the error, the machine is taken for gone.
DestroyVmAny(vm) ==
    \/ Removed(vm) /\ claims' = claims \ {vm} /\ UNCHANGED <<told, past>>
    \/ (Missing(vm) \/ Refused(vm)) /\ UNCHANGED <<claims, told, past>>

\* destroyVm with the catch block around it: the claim of a machine that was
\* not there is left alone.
DestroyVm(vm) ==
    \/ Removed(vm) /\ claims' = claims \ {vm} /\ UNCHANGED <<told, past>>
    \/ Missing(vm) /\ UNCHANGED <<claims, told, past>>
    \/ Complain(vm)

DestroySession(r) ==
    /\ r \in destroy.todo
    /\ DestroyAt("sessions", "mark", destroy.todo, r)
    /\ DestroyVm(held[r])
    /\ UNCHANGED <<Others, session, demo, tile>>

\* Stopped, whether its machine is or not.
MarkStopped ==
    /\ DestroyAt("mark", "sessions", destroy.todo \ {destroy.vm}, None)
    /\ session' = [session EXCEPT ![destroy.vm] = "stopped"]
    /\ demo' = demo \ {destroy.vm}
    /\ UNCHANGED <<cluster, Others, tile, told, past>>

ListStaged ==
    /\ destroy.todo = {}
    /\ DestroyAt("sessions", "staged", staged, None)
    /\ UNCHANGED <<cluster, Others, session, demo, tile, told, past>>

DestroyRow(c) ==
    /\ c \in destroy.todo
    /\ DestroyAt("staged", "row", destroy.todo \ {c}, c)
    /\ staged' = staged \ {c}
    /\ UNCHANGED <<cluster, build, portal, work, starts, session, demo, tile, told, past>>

DestroyStaged ==
    /\ DestroyAt("row", "staged", destroy.todo, None)
    /\ DestroyVm(destroy.vm)
    /\ UNCHANGED <<Others, session, demo, tile>>

\* findVmNode: not found may mean that no node has answered, and nobody is told.
ImageUnseen ==
    /\ past' = [past EXCEPT !.lost = @ \cup {Image}]
    /\ UNCHANGED <<cluster, told>>

DestroyImage ==
    /\ destroy.todo = {}
    /\ DestroyAt("staged", "image", {}, None)
    /\ DestroyVm(Image) \/ ImageUnseen
    /\ UNCHANGED <<Others, session, demo, tile>>

\* A tile of the YAML file stays, hidden.
RemoveTile ==
    /\ DestroyAt("image", "done", {}, None)
    /\ tile' = IF tile.source = "yaml" THEN tile
               ELSE [tile EXCEPT !.listed = FALSE, !.hidden = FALSE]
    /\ UNCHANGED <<cluster, Others, session, demo, told, past>>

DestroyTemplate ==
    \/ DestroyBegin \/ ListSessions \/ MarkStopped \/ ListStaged
    \/ DestroyStaged \/ DestroyImage \/ RemoveTile
    \/ \E r \in Requests : DestroySession(r)
    \/ \E c \in Clones : DestroyRow(c)

-----------------------------------------------------------------------------
(* Deleting what is inactive *)

SweepAt(from, to, left, todo, deleted) ==
    /\ sweep.at = from
    /\ sweep' = [at |-> to, protected |-> left, todo |-> todo, deleted |-> deleted]
    /\ UNCHANGED <<agenda, destroy, purge, tile>>

SweepProtect ==
    /\ "sweep" \in agenda
    /\ SweepAt("idle", "listing", {held[r] : r \in {q \in Requests : session[q] \in LiveStates}},
               {}, {})
    /\ UNCHANGED <<cluster, Others, session, demo, told, past>>

Listed == {c \in Clones : Exists(c)}      \* listClusterVms, called wcta-

\* One machine is kept, one that runs if there is one.
SweepList ==
    LET found == Listed \ sweep.protected
        best  == {c \in found : machine[c] = "running"}
    IN /\ \E keep \in (IF found = {} THEN {None} ELSE IF best = {} THEN found ELSE best) :
             SweepAt("listing", "loop", sweep.protected, found \ {keep}, {})
       /\ UNCHANGED <<cluster, Others, session, demo, told, past>>

\* (past: a build had its machine booted and has yet to publish it.)
SweepOne(c) ==
    /\ c \in sweep.todo
    /\ \/ /\ SweepAt("loop", "loop", sweep.protected, sweep.todo \ {c}, sweep.deleted \cup {c})
          /\ Forget(c) /\ UNCHANGED told
       \/ /\ SweepAt("loop", "loop", sweep.protected, sweep.todo \ {c}, sweep.deleted)
          /\ Complain(c)
    /\ UNCHANGED <<Others, session, demo>>

\* The flag of a demo is not cleared here.
SweepSessions ==
    /\ sweep.todo = {}
    /\ SweepAt("loop", "rows", sweep.protected, {}, sweep.deleted)
    /\ session' = [r \in Requests |-> IF held[r] \in sweep.deleted /\ session[r] # "none"
                                        THEN "stopped" ELSE session[r]]
    /\ UNCHANGED <<cluster, Others, demo, told, past>>

\* Mutant: the rows are left to the reaper, which only looks at those in the making.
SweepRowsLeft ==
    /\ SweepAt("rows", "done", {}, {}, {})
    /\ UNCHANGED <<cluster, Others, session, demo, told, past>>

SweepRows ==
    /\ SweepAt("rows", "done", {}, {}, {})
    /\ staged' = staged \ sweep.deleted
    /\ past' = [past EXCEPT !.stray = {c \in sweep.deleted : build[c] = "booted"}]
    /\ UNCHANGED <<cluster, build, portal, work, starts, session, demo, told>>

Sweep ==
    \/ SweepProtect \/ SweepList \/ SweepSessions \/ SweepRows
    \/ \E c \in Clones : SweepOne(c)

-----------------------------------------------------------------------------
(* Destroying staged rows: DELETE /staged/:id, DELETE /vms/all *)

PurgeAt(from, to, todo, vm) ==
    /\ purge.at = from /\ purge' = [at |-> to, todo |-> todo, vm |-> vm]
    /\ UNCHANGED <<agenda, destroy, sweep, tile>>

PurgeBegin ==
    /\ "purge" \in agenda
    /\ \E list \in {staged} \cup {{c} : c \in staged} : PurgeAt("idle", "next", list, None)
    /\ UNCHANGED <<cluster, Others, session, demo, told, past>>

\* A row that is gone by now is skipped.
PurgeRead(c) ==
    /\ c \in purge.todo
    /\ IF c \in staged THEN PurgeAt("next", "row", purge.todo \ {c}, c)
                       ELSE PurgeAt("next", "next", purge.todo \ {c}, None)
    /\ UNCHANGED <<cluster, Others, session, demo, told, past>>

PurgeRow ==
    /\ PurgeAt("row", "machine", purge.todo, purge.vm)
    /\ staged' = staged \ {purge.vm}
    /\ UNCHANGED <<cluster, build, portal, work, starts, session, demo, told, past>>

PurgeVm ==
    /\ PurgeAt("machine", "next", purge.todo, None)
    /\ \/ Forget(purge.vm) /\ UNCHANGED told
       \/ Complain(purge.vm)
    /\ UNCHANGED <<Others, session, demo>>

Purge == PurgeBegin \/ PurgeRow \/ PurgeVm \/ \E c \in Clones : PurgeRead(c)

-----------------------------------------------------------------------------
(* The system *)

\* An image of either source; clones that are to be built, or ready.
Init ==
    /\ \E ready \in SUBSET Clones :
          /\ staged = ready /\ claims = ready
          /\ machine = [vm \in Clones \cup {Image} |-> IF vm = Image THEN "stopped"
                          ELSE IF vm \in ready THEN "running" ELSE "none"]
          /\ build = [c \in Clones |-> IF c \in ready THEN "done" ELSE "none"]
    /\ req = [r \in Requests |-> "idle"] /\ held = [r \in Requests |-> None]
    /\ session = [r \in Requests |-> "none"] /\ work = [r \in Requests |-> "idle"]
    /\ lock = {} /\ demo = {} /\ demoAt = [r \in Requests |-> "idle"] /\ shown = None
    /\ tile \in [source : {"yaml", "imported"}, listed : {TRUE}, hidden : {FALSE}]
    /\ destroy = [at |-> "idle", todo |-> {}, vm |-> None]
    /\ sweep = [at |-> "idle", protected |-> {}, todo |-> {}, deleted |-> {}]
    /\ purge = [at |-> "idle", todo |-> {}, vm |-> None]
    /\ told = {}
    /\ agenda \in {d \in SUBSET {"hide", "demo", "destroy", "sweep", "purge"} :
                     Cardinality(d) = MaxDuties}
    /\ past = [lost |-> {}, stray |-> {}, overlap |-> FALSE, expired |-> FALSE]

Next ==
    \/ \E c \in Clones : FindTile(c) \/ Clone(c) \/ Boots(c) \/ Publish(c) \/ BuildFails(c)
    \/ \E r \in Requests :
          \/ Portal(r)
          \/ DemoClear(r) \/ DemoSet(r) \/ DemoStop(r)
          \/ CleanupStart(r) \/ CleanupDelete(r) \/ CleanupStop(r)
    \/ \E u \in Users : LockExpires(u)
    \/ \E h \in BOOLEAN : SetHidden(h)
    \/ DestroyTemplate \/ Sweep \/ Purge

Spec == Init /\ [][Next]_vars

-----------------------------------------------------------------------------
(* Properties *)

TypeOK ==
    /\ machine \in [Clones \cup {Image} -> {"none", "running", "stopped"}]
    /\ claims \subseteq Clones /\ staged \subseteq Clones /\ told \subseteq Clones \cup {Image}
    /\ build \in [Clones -> {"none", "found", "cloned", "booted", "done"}]
    /\ req \in [Requests -> InFlight \cup {"idle", "asked", "leaving", "done"}]
    /\ held \in [Requests -> Clones \cup {None}]
    /\ session \in [Requests -> LiveStates \cup {"none", "stopped", "cleanup_failed"}]
    /\ work \in [Requests -> {"idle", "deleting", "stopping"}]
    /\ lock \subseteq Users /\ demo \subseteq Requests
    /\ demoAt \in [Requests -> {"idle", "cleared"}] /\ shown \in Requests \cup {None}

\* No machine is forgotten without a word: it is being built, offered or used,
\* a cleanup or a procedure is at it, or the administrator was told that it
\* could not be deleted ("the admin needs the per-VM result to act on a partial
\* failure", routes/admin.ts:492).  Except for those that the code gives up on
\* knowingly or swallows the error of: past.lost.  And its VMID is not given
\* to another meanwhile.  The image of a destroyed template likewise.
AccountedFor ==
    /\ \A c \in Clones : Exists(c) =>
          /\ \/ build[c] \in {"cloned", "booted"}
             \/ c \in staged \cup told \cup past.lost \cup {destroy.vm, purge.vm}
             \/ \E r \in Requests :
                   held[r] = c /\ (session[r] \in {"none", "stopped"} => req[r] = "holding")
          /\ c \in claims \cup past.lost
    /\ destroy.at = "done" /\ Exists(Image) => Image \in told \cup past.lost

\* What a student is offered runs, unless the administrator was told, or given
\* up on it, or the sweep has yet to delete the rows of what it has deleted,
\* or the row is of a build that overtook it.
ReadyIsThere ==
    \A c \in staged :
        \/ machine[c] = "running"
        \/ c \in told \cup past.lost \cup past.stray
        \/ sweep.at \in {"loop", "rows"} /\ c \in sweep.deleted

\* A user gets more than the limit only by requests that overlap; and the lock
\* lets one of them at a time have a clone, as long as it has never expired.
UserLimit ==
    \A u \in Users :
        /\ Cardinality(Running(u)) > MaxVms => past.overlap
        /\ Cardinality({r \in User(u) : req[r] \in {"locked", "holding"}}) > 1 => past.expired

\* "Exactly one demo can be live at a time" (services/sessionManager.ts:227),
\* though startDemo is two statements and nothing keeps administrators from
\* starting at once.  Only the start that reported success last has its flag
\* up; and starts do not put each other off: once they are over, that demo is
\* on the dashboard for as long as its session runs and nobody has stopped it.
\* Except that a start may find its session ended when it has already
\* switched off the demo before it; then there is none.
OneDemo ==
    /\ demo \subseteq {shown}
    /\ \/ shown \in demo
       \/ shown = None \/ session[shown] # "running"
       \/ \E r \in Requests : demoAt[r] = "cleared"
=============================================================================
