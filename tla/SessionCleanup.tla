---------------------------- MODULE SessionCleanup ----------------------------
(***************************************************************************)
(* When one session ends, and by whom: the deadline set at its start, the  *)
(* one extension, the heartbeats, the sweep that lists stale sessions, the *)
(* hard timeout job that puts itself off, the student, the administrator   *)
(* and the recovery script, all of them through jobs of the cleanup queue. *)
(* What a cleanup does to the machine is VmLifecycle's; here it is one     *)
(* step that succeeds or fails.                                            *)
(*                                                                         *)
(* The queue knows a job by its id, and an add of an id it knows, also of  *)
(* a job that has finished or failed for good, is a no-op.                 *)
(***************************************************************************)
EXTENDS Naturals, FiniteSets

CONSTANTS
    Hard,         \* SESSION_HARD_TIMEOUT_MINUTES
    Extension,    \* SESSION_EXTEND_MINUTES
    Idle,         \* SESSION_INACTIVITY_TIMEOUT_MINUTES
    Grace,        \* the 5 seconds of the hard timeout check
    MaxAttempts,  \* cleanupQueue attempts
    Named,        \* job ids in use, see NamedAssumption
    Timers,       \* ids BullMQ makes up for jobs added without one (a bound)
    MaxTime,      \* the clock stops here, every deadline passed (a bound)
    MaxCrashes,   \* crashes of the process (a bound)
    MaxResets,    \* runs of the recovery script (a bound)
    Faults,       \* which of FaultKinds may happen
    None

(***************************************************************************)
(*   extend     the student extends while the worker is between its read   *)
(*              of the session and markSessionCleaning                     *)
(*   heartbeat  a heartbeat comes after the sweep found the session idle   *)
(*   outage     a database or Redis call of the worker throws              *)
(***************************************************************************)
FaultKinds == {"extend", "heartbeat", "outage"}

Jobs == Named \cup Timers

ASSUME TimesAssumption ==
    /\ {Hard, Extension, Idle, Grace, MaxTime, MaxCrashes, MaxResets} \subseteq Nat
    /\ MaxTime > Hard + Extension + Grace
ASSUME AttemptsAssumption == MaxAttempts \in Nat \ {0}
\* cleanup-session-N, and admin-cleanup-session-N
ASSUME NamedAssumption == Named \subseteq {"stop", "admin"} /\ "stop" \in Named
ASSUME TimersAssumption == Timers \cap Named = {}
ASSUME FaultsAssumption == Faults \subseteq FaultKinds
ASSUME NoneAssumption == None \notin Nat

VARIABLES
    now,
    status,    \* sessions.status
    deadline,  \* sessions.hard_expires_at
    extended,  \* sessions.extended_minutes > 0
    seen,      \* sessions.last_activity_at
    arming,    \* POST /request has inserted the session, not yet its timeout
    sweep,     \* the deadline of this session in the sweep's list, if there
    job,       \* the cleanup queue and its worker
    asked,     \* somebody has asked for the session to end
    resets,    \* runs of resetStuckSessions
    crashes

row == <<status, deadline, extended, seen>>
history == <<asked, resets, crashes>>
vars == <<now, row, arming, sweep, job, history>>

-----------------------------------------------------------------------------
Reasons == {"requested", "inactivity", "hard_timeout"}
Active == {"fetched", "cleaning", "requeue", "leaving"}

\* due: not before this time.  delay: of the job it requeues.
NoJob == [state |-> "none", reason |-> "requested", due |-> 0, delay |-> 0,
          tries |-> 0, stalls |-> 0]
JobType == [state : {"none", "waiting", "finished"} \cup Active, reason : Reasons,
            due : Nat, delay : Nat, tries : Nat, stalls : Nat]

TypeOK ==
    /\ now \in 0 .. MaxTime
    /\ status \in {"running", "cleaning", "cleanup_failed", "stopped"}
    /\ deadline \in Nat /\ extended \in BOOLEAN /\ seen \in 0 .. MaxTime
    /\ arming \in BOOLEAN
    /\ sweep \in Nat \cup {None}
    /\ job \in [Jobs -> JobType]
    /\ asked \in BOOLEAN /\ resets \in 0 .. MaxResets /\ crashes \in 0 .. MaxCrashes

\* createRunningSessionFromStaged
Init ==
    /\ now = 0
    /\ status = "running"
    /\ deadline = Hard /\ extended = FALSE /\ seen = 0
    /\ arming = TRUE
    /\ sweep = None
    /\ job = [j \in Jobs |-> NoJob]
    /\ asked = FALSE /\ resets = 0 /\ crashes = 0

-----------------------------------------------------------------------------
(* The queue *)

Live(j) == job[j].state \notin {"none", "finished"}
Hardly(j) == job[j].reason = "hard_timeout"

Later(delay) == IF now + delay < MaxTime THEN now + delay ELSE MaxTime

Waiting(reason, due) == [NoJob EXCEPT !.state = "waiting", !.reason = reason, !.due = due]

\* add with a jobId
AddNamed(j, reason) ==
    job' = IF job[j].state = "none" THEN [job EXCEPT ![j] = Waiting(reason, now)] ELSE job

\* A job that is through stays known under its id; one without a name of its
\* own will never be asked for again.
Finished(j) == IF j \in Named THEN [NoJob EXCEPT !.state = "finished"] ELSE NoJob

Moves(j, from, to) ==
    job[j].state = from /\ job' = [job EXCEPT ![j].state = to, ![j].due = 0]
Finishes(j) == job' = [job EXCEPT ![j] = Finished(j)]
AttemptFails(j) ==
    job' = [job EXCEPT ![j] =
              IF job[j].tries + 1 < MaxAttempts
              THEN [job[j] EXCEPT !.state = "waiting", !.due = 0, !.delay = 0, !.tries = @ + 1]
              ELSE Finished(j)]

\* removeOnComplete, removeOnFail: enough other jobs have finished since.
Evict(j) ==
    /\ job[j].state = "finished"
    /\ job' = [job EXCEPT ![j] = NoJob]
    /\ UNCHANGED <<now, row, arming, sweep, history>>

-----------------------------------------------------------------------------
(* Whoever wants the session to end, or not *)

\* POST /request arms the hard timeout, unless the add throws.
Arm ==
    /\ arming
    /\ \E t \in Timers :
        /\ job[t].state = "none"
        /\ job' = [job EXCEPT ![t] = Waiting("hard_timeout", Later(Hard))]
    /\ arming' = FALSE
    /\ UNCHANGED <<now, row, sweep, history>>

ArmFails ==
    /\ arming
    /\ arming' = FALSE
    /\ UNCHANGED <<now, row, sweep, job, history>>

Heartbeat ==
    /\ status = "running"
    /\ \/ "heartbeat" \in Faults
       \/ sweep = None /\ \A j \in Jobs : ~(Live(j) /\ job[j].reason = "inactivity")
    /\ seen' = now
    /\ UNCHANGED <<now, status, deadline, extended, arming, sweep, job, history>>

\* extendSession; that the deadline has passed does not matter to it.
Extend ==
    /\ status = "running"
    /\ ~extended
    /\ "extend" \in Faults \/ \A j \in Jobs : ~(Hardly(j) /\ job[j].state = "fetched")
    /\ deadline' = deadline + Extension
    /\ extended' = TRUE
    /\ UNCHANGED <<now, status, seen, arming, sweep, job, history>>

\* DELETE /sessions/:publicId and the admin's stop and stop-all, which answer
\* ok whatever the add did.
Ask(j) ==
    /\ j \in Named
    /\ AddNamed(j, "requested")
    /\ asked' = TRUE
    /\ UNCHANGED <<now, row, arming, sweep, resets, crashes>>

\* resetStuckSessions, for a session that listAllLiveSessions returns.
ResetScript ==
    /\ resets < MaxResets
    /\ status # "stopped"
    /\ AddNamed("stop", "requested")
    /\ asked' = TRUE
    /\ resets' = resets + 1
    /\ UNCHANGED <<now, row, arming, sweep, crashes>>

\* Mutant: only the silent ones.
StaleIfIdle == status = "running" /\ seen + Idle < now

\* listStaleSessions
Stale == status = "running" /\ (seen + Idle < now \/ deadline < now)

SweepRead ==
    /\ sweep = None
    /\ Stale
    /\ sweep' = deadline
    /\ UNCHANGED <<now, row, arming, job, history>>

\* The reason comes from the listed row.
SweepAdd ==
    /\ sweep # None
    /\ AddNamed("stop", IF sweep < now THEN "hard_timeout" ELSE "inactivity")
    /\ sweep' = None
    /\ UNCHANGED <<now, row, arming, history>>

Tick ==
    /\ now < MaxTime
    /\ now' = now + 1
    /\ UNCHANGED <<row, arming, sweep, job, history>>

-----------------------------------------------------------------------------
(* The cleanup worker *)

\* Mutant: the deadline is not looked at again.
NeverTooEarly(j) == j \notin Jobs

\* The read of the session, and what is decided on it before the next await.
TooEarly(j) == Hardly(j) /\ deadline > now + Grace

Fetch(j) ==
    /\ job[j].state = "waiting"
    /\ job[j].due <= now
    /\ CASE status = "stopped" -> Finishes(j)
         [] status # "stopped" /\ TooEarly(j) ->
              job' = [job EXCEPT ![j].state = "requeue", ![j].due = 0, ![j].delay = deadline - now]
         [] OTHER -> Moves(j, "waiting", "fetched")
    /\ UNCHANGED <<now, row, arming, sweep, history>>

\* Mutant: the new job is added under the session's own id.
RequeueNamed(j) ==
    /\ job[j].state = "requeue"
    /\ LET left == [job EXCEPT ![j].state = "leaving", ![j].delay = 0] IN
       job' = IF job["stop"].state # "none" THEN left
              ELSE [left EXCEPT !["stop"] = Waiting("hard_timeout", Later(job[j].delay))]
    /\ UNCHANGED <<now, row, arming, sweep, history>>

\* The hard timeout of an extended session adds another job for the time left
\* when it looked, and then completes.
Requeue(j) ==
    /\ job[j].state = "requeue"
    /\ \E t \in Timers :
        /\ job[t].state = "none"
        /\ job' = [job EXCEPT ![t] = Waiting("hard_timeout", Later(job[j].delay)),
                              ![j].state = "leaving", ![j].delay = 0]
    /\ UNCHANGED <<now, row, arming, sweep, history>>

Leave(j) ==
    /\ job[j].state = "leaving"
    /\ Finishes(j)
    /\ UNCHANGED <<now, row, arming, sweep, history>>

MarkCleaning(j) ==
    /\ Moves(j, "fetched", "cleaning")
    /\ status' = "cleaning"
    /\ UNCHANGED <<now, deadline, extended, seen, arming, sweep, history>>

CleanUp(j) ==
    /\ job[j].state = "cleaning"
    /\ status' = "stopped"
    /\ Finishes(j)
    /\ UNCHANGED <<now, deadline, extended, seen, arming, sweep, history>>

\* Mutant: another status.
CleanUpFailsFailed(j) ==
    /\ job[j].state = "cleaning"
    /\ status' = "failed"
    /\ AttemptFails(j)
    /\ UNCHANGED <<now, deadline, extended, seen, arming, sweep, history>>

\* markCleanupFailed, and BullMQ tries again or gives up.
CleanUpFails(j) ==
    /\ job[j].state = "cleaning"
    /\ status' = "cleanup_failed"
    /\ AttemptFails(j)
    /\ UNCHANGED <<now, deadline, extended, seen, arming, sweep, history>>

\* The read, the requeue, markSessionCleaning or markCleanupFailed throws.
Outage(j) ==
    /\ "outage" \in Faults
    /\ \/ job[j].state = "waiting" /\ job[j].due <= now
       \/ job[j].state \in {"requeue", "fetched", "cleaning"}
    /\ AttemptFails(j)
    /\ UNCHANGED <<now, row, arming, sweep, history>>

\* The process dies.  BullMQ runs a stalled job again once; stalled a second
\* time, it has failed for good.
Crash ==
    /\ crashes < MaxCrashes
    /\ crashes' = crashes + 1
    /\ arming' = FALSE
    /\ sweep' = None
    /\ job' = [j \in Jobs |->
                 IF job[j].state \notin Active THEN job[j]
                 ELSE IF job[j].stalls = 0
                      THEN [job[j] EXCEPT !.state = "waiting", !.delay = 0, !.stalls = 1]
                      ELSE Finished(j)]
    /\ UNCHANGED <<now, row, asked, resets>>

Work(j) ==
    \/ Fetch(j) \/ Requeue(j) \/ Leave(j)
    \/ MarkCleaning(j) \/ CleanUp(j) \/ CleanUpFails(j)

Users == Heartbeat \/ Extend \/ (\E j \in Named : Ask(j)) \/ ResetScript
Sweep == SweepRead \/ SweepAdd

Next ==
    \/ Tick \/ Arm \/ ArmFails \/ Users \/ Sweep
    \/ \E j \in Jobs : Work(j) \/ Outage(j) \/ Evict(j)
    \/ Crash

Spec == Init /\ [][Next]_vars

\* The worker runs what is due, the interval keeps sweeping, time passes.
\* Nobody has to do anything, and nothing has to fail.
Fairness == WF_vars(Tick) /\ WF_vars(Sweep) /\ \A j \in Jobs : WF_vars(Work(j))
FairSpec == Spec /\ Fairness

-----------------------------------------------------------------------------
(* Properties *)

\* A session that still runs can still be ended by the program alone: some
\* job for it is in the queue, or the id the sweep would use is not taken by
\* a job that is through.  And a session in 'cleaning', which the sweep does
\* not list, always has a job that is at it or will be.
NotStranded ==
    /\ status = "running" =>
          job["stop"].state = "none" \/ \E j \in Jobs : Live(j)
    /\ status = "cleaning" => \E j \in Jobs : Live(j)

\* A running session is ended for a cause that holds at that moment: it was
\* asked for, nothing was heard for the idle time, or the deadline, extended
\* or not, is at most the grace period away ("re-queue for the new deadline
\* instead of tearing the VM down early", jobs/cleanupWorker.ts:60-62).
EndsForCause ==
    [][status = "running" /\ status' = "cleaning" =>
          asked \/ seen + Idle < now \/ deadline <= now + Grace]_vars

\* Every session ends: its cleanup runs, and succeeds or gives up for an
\* administrator to look at ("Hard cap of 4 hours", README.md:11).
SessionEnds == <>(status \in {"stopped", "cleanup_failed"})

\* The recovery script "queues a cleanup for everything alive"
\* (docs/troubleshooting.md:19).
ResetQueues == [][resets' # resets => \E j \in Jobs : Live(j)']_vars
=============================================================================
