----------------------------- MODULE StagingPool -----------------------------
(***************************************************************************)
(* Keeping the pools of warm clones at their target.  The maintainer adds  *)
(* provisioning jobs under one id per missing slot; the provisioning       *)
(* worker checks the capacity of the cluster, builds and publishes; the    *)
(* sweeper reaps rows whose worker is gone; requests and administrators    *)
(* take clones away.  All of them count first and act later.               *)
(*                                                                         *)
(* What is built is counted, not named: which clone is whose is the        *)
(* business of VmLifecycle.                                                *)
(***************************************************************************)
EXTENDS Integers, FiniteSets, FiniteSetsExt

CONSTANTS
    Pools,        \* a template, or a template on one of its nodes
    Target,       \* staging_pool_size
    MaxCluster,   \* MAX_CLUSTER_VMS
    Workers,      \* concurrency of the provisioning worker
    MaxAttempts,  \* provisioningQueue attempts
    Callers,      \* concurrent runs of ensureStagedVm (a bound)
    Tick,         \* the one of the staging monitor
    MaxTakes,     \* clones requested or destroyed (a bound)
    MaxFailures,  \* builds that fail (a bound)
    MaxCrashes,   \* crashes of the process (a bound)
    MaxHangs      \* builds with a call that never returns (a bound)

ASSUME TargetAssumption == Target \in 0 .. 20
ASSUME LimitsAssumption ==
    /\ {MaxCluster, MaxTakes, MaxFailures, MaxCrashes, MaxHangs} \subseteq Nat
    /\ {Workers, MaxAttempts} \subseteq Nat \ {0}
ASSUME CallersAssumption == Tick \in Callers
ASSUME PoolsAssumption == IsFiniteSet(Pools)

VARIABLES
    job,       \* provisioning jobs by the slot in their id
    tries,     \* attempts of a job that have failed
    counted,   \* sessions, as the preflight of a job has counted them
    orphans,   \* staged rows of a pool whose job left them unpublished
    ready,     \* staged rows of a pool in running
    claiming,  \* requests that have claimed a row and not inserted a session
    sessions,  \* active sessions
    caller,    \* where each run of ensureStagedVmForNode is
    spent      \* how much of each bound is used up

rows == <<orphans, ready>>
jobs == <<job, tries, counted>>
vars == <<jobs, rows, claiming, sessions, caller, spent>>

-----------------------------------------------------------------------------
Slots == 0 .. Target - 1
Jobs == Pools \X Slots
\* inserted: the row is in and not yet running.  unrowed: it has been deleted.
Active == {"started", "building", "inserted", "unrowed", "hung"}
JobState == {"none", "waiting", "finished"} \cup Active

Idle == [pc |-> "idle"]
CallerType == {Idle}
    \cup [pc : {"live", "counted"}, pool : Pools, live : Slots, count : Nat]
    \cup [pc : {"slots"}, pool : Pools, slot : Slots, last : Slots]

TypeOK ==
    /\ job \in [Jobs -> JobState]
    /\ tries \in [Jobs -> 0 .. MaxAttempts]
    /\ counted \in [Jobs -> Nat]
    /\ orphans \in [Pools -> Nat] /\ ready \in [Pools -> Nat]
    /\ claiming \in Nat /\ sessions \in Nat
    /\ caller \in [Callers -> CallerType]
    /\ spent \in [takes : 0 .. MaxTakes, failures : 0 .. MaxFailures,
                  crashes : 0 .. MaxCrashes, hangs : 0 .. MaxHangs]

Init ==
    /\ job = [j \in Jobs |-> "none"]
    /\ tries = [j \in Jobs |-> 0]
    /\ counted = [j \in Jobs |-> 0]
    /\ orphans = [p \in Pools |-> 0] /\ ready = [p \in Pools |-> 0]
    /\ claiming = 0 /\ sessions = 0
    /\ caller = [e \in Callers |-> Idle]
    /\ spent = [takes |-> 0, failures |-> 0, crashes |-> 0, hangs |-> 0]

\* countLiveStagedVms, countAllLiveStagedVms
Count(state) == Cardinality({j \in Jobs : job[j] = state})
Unpublished(p) == Cardinality({s \in Slots : job[<<p, s>>] = "inserted"})
Live(p) == orphans[p] + Unpublished(p) + ready[p]
\* The rows of all pools, numbered in each.
Numbered(of) == UNION {{p} \X (1 .. of[p]) : p \in Pools}
AllLive == Cardinality(Numbered(orphans)) + Count("inserted") + Cardinality(Numbered(ready))

Spend(what) == spent' = [spent EXCEPT ![what] = @ + 1]

-----------------------------------------------------------------------------
(* The maintainer: ensureStagedVmForNode *)

Goes(e, to) == caller' = [caller EXCEPT ![e] = to]

EnsureLive(e, p) ==
    /\ caller[e] = Idle
    /\ Live(p) < Target
    /\ Goes(e, [pc |-> "live", pool |-> p, live |-> Live(p), count |-> 0])
    /\ UNCHANGED <<jobs, rows, claiming, sessions, spent>>

EnsureSessions(e) ==
    /\ caller[e].pc = "live"
    /\ Goes(e, [caller[e] EXCEPT !.pc = "counted", !.count = sessions])
    /\ UNCHANGED <<jobs, rows, claiming, sessions, spent>>

\* At capacity, only the failure is recorded.  Otherwise the missing slots,
\* or as many as there is room for, are those from the number of live rows on.
EnsureRoom(e) ==
    /\ caller[e].pc = "counted"
    /\ LET physical == caller[e].count + AllLive
           live == caller[e].live
           room == MaxCluster - physical
           missing == Target - live
       IN Goes(e, IF physical >= MaxCluster THEN Idle
                  ELSE [pc |-> "slots", pool |-> caller[e].pool, slot |-> live,
                        last |-> live + Min({missing, room}) - 1])
    /\ UNCHANGED <<jobs, rows, claiming, sessions, spent>>

Terminal == {"none", "finished"}

(***************************************************************************)
(* One turn of the loop.  A finished job is removed and added again, and   *)
(* so is one that has been waiting for twelve minutes.  One that has been  *)
(* active for twelve minutes is still held by its worker: remove throws,   *)
(* which is logged, and the add is a no-op.  What the job has become       *)
(* between the look at it and the remove makes no other outcome.           *)
(***************************************************************************)
EnsureSlot(e) ==
    /\ caller[e].pc = "slots"
    /\ LET j == <<caller[e].pool, caller[e].slot>> IN
       \/ /\ job[j] \in Terminal \cup {"waiting"}
          /\ job' = [job EXCEPT ![j] = "waiting"]
          /\ tries' = [tries EXCEPT ![j] = 0]
       \/ job[j] \notin Terminal /\ UNCHANGED <<job, tries>>
    /\ Goes(e, IF caller[e].slot = caller[e].last THEN Idle
               ELSE [caller[e] EXCEPT !.slot = @ + 1])
    /\ UNCHANGED <<counted, rows, claiming, sessions, spent>>

-----------------------------------------------------------------------------
(* The provisioning worker *)

Moves(j, from, to) == job[j] = from /\ job' = [job EXCEPT ![j] = to]

\* Mutant: no end of attempts.
AttemptRepeats(j) ==
    /\ tries' = [tries EXCEPT ![j] = @ + 1]
    /\ job' = [job EXCEPT ![j] = "waiting"]

AttemptFails(j) ==
    /\ tries' = [tries EXCEPT ![j] = @ + 1]
    /\ job' = [job EXCEPT ![j] = IF tries[j] + 1 < MaxAttempts THEN "waiting" ELSE "finished"]

\* The job is picked up, and countActiveSessions answers.
Start(j) ==
    /\ Cardinality({i \in Jobs : job[i] \in Active}) < Workers
    /\ Moves(j, "waiting", "started")
    /\ counted' = [counted EXCEPT ![j] = sessions]
    /\ UNCHANGED <<tries, rows, claiming, sessions, caller, spent>>

\* Mutant: the last place is given away twice.
PreflightAbove(j) ==
    /\ job[j] = "started"
    /\ counted' = [counted EXCEPT ![j] = 0]
    /\ IF counted[j] + AllLive > MaxCluster
       THEN AttemptFails(j)
       ELSE job' = [job EXCEPT ![j] = "building"] /\ UNCHANGED tries
    /\ UNCHANGED <<rows, claiming, sessions, caller, spent>>

\* countAllLiveStagedVms answers.
Preflight(j) ==
    /\ job[j] = "started"
    /\ counted' = [counted EXCEPT ![j] = 0]
    /\ IF counted[j] + AllLive >= MaxCluster
       THEN AttemptFails(j)
       ELSE job' = [job EXCEPT ![j] = "building"] /\ UNCHANGED tries
    /\ UNCHANGED <<rows, claiming, sessions, caller, spent>>

InsertRow(j) ==
    /\ Moves(j, "building", "inserted")
    /\ UNCHANGED <<tries, counted, rows, claiming, sessions, caller, spent>>

\* The update matches no row if somebody has deleted it.
MarkRunning(j) ==
    /\ \/ Moves(j, "inserted", "finished") /\ ready' = [ready EXCEPT ![j[1]] = @ + 1]
       \/ Moves(j, "unrowed", "finished") /\ UNCHANGED ready
    /\ UNCHANGED <<tries, counted, orphans, claiming, sessions, caller, spent>>

\* The catch block undoes the clone; a row that is in stays.
BuildFails(j) ==
    /\ job[j] \in {"building", "inserted", "unrowed"}
    /\ spent.failures < MaxFailures /\ Spend("failures")
    /\ orphans' = IF job[j] = "inserted" THEN [orphans EXCEPT ![j[1]] = @ + 1] ELSE orphans
    /\ AttemptFails(j)
    /\ UNCHANGED <<counted, ready, claiming, sessions, caller>>

\* An await that never settles: BullMQ goes on renewing the job's lock.
Hang(j) ==
    /\ spent.hangs < MaxHangs /\ Spend("hangs")
    /\ Moves(j, "building", "hung")
    /\ UNCHANGED <<tries, counted, rows, claiming, sessions, caller>>

-----------------------------------------------------------------------------
(* Those who take clones away, and the sweeper *)

Claim(p) ==
    /\ ready[p] > 0
    /\ spent.takes < MaxTakes /\ Spend("takes")
    /\ ready' = [ready EXCEPT ![p] = @ - 1]
    /\ claiming' = claiming + 1
    /\ UNCHANGED <<jobs, orphans, sessions, caller>>

InsertSession ==
    /\ claiming > 0
    /\ claiming' = claiming - 1
    /\ sessions' = sessions + 1
    /\ UNCHANGED <<jobs, rows, caller, spent>>

EndSession ==
    /\ sessions > 0
    /\ sessions' = sessions - 1
    /\ UNCHANGED <<jobs, rows, claiming, caller, spent>>

Destroy(p) ==
    /\ spent.takes < MaxTakes /\ Spend("takes")
    /\ \/ ready[p] > 0 /\ ready' = [ready EXCEPT ![p] = @ - 1] /\ UNCHANGED <<job, orphans>>
       \/ orphans[p] > 0 /\ orphans' = [orphans EXCEPT ![p] = @ - 1] /\ UNCHANGED <<job, ready>>
       \/ (\E s \in Slots : Moves(<<p, s>>, "inserted", "unrowed")) /\ UNCHANGED rows
    /\ UNCHANGED <<tries, counted, claiming, sessions, caller>>

\* Mutant: the last one stays.
ReapAllButOne(p) ==
    /\ orphans[p] > 1
    /\ orphans' = [orphans EXCEPT ![p] = @ - 1]
    /\ UNCHANGED <<jobs, ready, claiming, sessions, caller, spent>>

\* A row that nobody has touched for fifteen minutes.
Reap(p) ==
    /\ orphans[p] > 0
    /\ orphans' = [orphans EXCEPT ![p] = @ - 1]
    /\ UNCHANGED <<jobs, ready, claiming, sessions, caller, spent>>

\* Jobs that stalled run again, those that had stalled before have failed.
Crash ==
    /\ spent.crashes < MaxCrashes /\ Spend("crashes")
    /\ LET active == {j \in Jobs : job[j] \in Active} IN
       \E failed \in SUBSET active :
          /\ spent.crashes = 0 => failed = {}
          /\ job' = [j \in Jobs |-> IF j \in failed THEN "finished"
                                    ELSE IF j \in active THEN "waiting" ELSE job[j]]
    /\ orphans' = [p \in Pools |-> orphans[p] + Unpublished(p)]
    /\ counted' = [j \in Jobs |-> 0]
    /\ claiming' = 0
    /\ caller' = [e \in Callers |-> Idle]
    /\ UNCHANGED <<tries, ready, sessions>>

Ensure(e) ==
    \/ \E p \in Pools : EnsureLive(e, p)
    \/ EnsureSessions(e) \/ EnsureRoom(e) \/ EnsureSlot(e)

Build(j) == Start(j) \/ Preflight(j) \/ InsertRow(j) \/ MarkRunning(j)

Next ==
    \/ \E e \in Callers : Ensure(e)
    \/ \E j \in Jobs : Build(j) \/ BuildFails(j) \/ Hang(j)
    \/ \E p \in Pools : Claim(p) \/ Destroy(p) \/ Reap(p)
    \/ InsertSession \/ EndSession
    \/ Crash

Spec == Init /\ [][Next]_vars

\* Each tick goes through all pools; the worker runs what is waiting.  Nobody
\* has to ask for a clone, and nothing has to fail.
Fairness ==
    /\ \A p \in Pools : SF_vars(EnsureLive(Tick, p)) /\ WF_vars(Reap(p))
    /\ WF_vars(EnsureSessions(Tick) \/ EnsureRoom(Tick) \/ EnsureSlot(Tick))
    /\ \A j \in Jobs : WF_vars(Build(j))
FairSpec == Spec /\ Fairness

-----------------------------------------------------------------------------
(* Properties *)

\* What the cap is about: active sessions, rows, and clones that will be one
\* or the other.  Machines of sessions being cleaned up count no more, neither
\* here nor in countActiveSessions.
Total == sessions + claiming + AllLive
         + Cardinality({j \in Jobs : job[j] \in {"building", "unrowed", "hung"}})

\* "max VMs cluster-wide are enforced in the provisioning queue" (README.md:14):
\* the check can be overrun, but only by jobs that passed it together, and by
\* clones that changed from row to session between the two counts.
OverrunBounded == Total <= MaxCluster + Workers - 1 + spent.takes

\* When clones are no longer taken and builds no longer fail, every pool gets
\* back to its target and stays there, unless sessions and clones that can be
\* claimed fill the cluster up to its cap: no lost job, dead worker or finished
\* job id keeps it short, and no orphaned row, neither as one that counts
\* towards the pool nor as one that counts towards the cap ("which is
\* exactly the failure this sweeper exists to end", jobs/stagingMonitor.ts:4-10).
\* A call that never settles is the exception: remove() refuses the job, whose
\* worker still renews its lock, and the slot is pinned (stagingMaintainer.ts:64).
PoolsRefilled ==
    <>[](spent.hangs = 0 =>
            \/ \A p \in Pools : ready[p] >= Target
            \/ sessions + Cardinality(Numbered(ready)) >= MaxCluster)
=============================================================================
