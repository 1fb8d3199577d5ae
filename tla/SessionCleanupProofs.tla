------------------------- MODULE SessionCleanupProofs -------------------------
(***************************************************************************)
(* What holds of SessionCleanup for every value of its constants.          *)
(***************************************************************************)
EXTENDS SessionCleanup, TLAPS

LEMMA ConstantTypes ==
    /\ Hard \in Nat /\ Extension \in Nat /\ Idle \in Nat /\ Grace \in Nat
    /\ MaxTime \in Nat /\ MaxCrashes \in Nat /\ MaxResets \in Nat
  BY TimesAssumption

LEMMA LaterType == ASSUME TypeOK, NEW d \in Nat PROVE Later(d) \in Nat
  BY TimesAssumption DEF TypeOK, Later

LEMMA WaitingType ==
    ASSUME NEW r \in Reasons, NEW d \in Nat
    PROVE  /\ Waiting(r, d) \in JobType
           /\ Waiting(r, d).state = "waiting"
           /\ Waiting(r, d).reason = r
           /\ Waiting(r, d).stalls = 0
  BY DEF Waiting, NoJob, JobType, Reasons, Active

LEMMA FinishedType ==
    ASSUME NEW j \in Jobs
    PROVE  /\ Finished(j) \in JobType
           /\ Finished(j).state \in {"none", "finished"}
           /\ Finished(j).stalls = 0
  BY DEF Finished, NoJob, JobType, Reasons, Active

\* The changes a step makes to one job keep its type.
LEMMA JobTypes ==
    ASSUME NEW r \in JobType
    PROVE  /\ \A to \in {"waiting"} \cup Active :
                [r EXCEPT !.state = to, !.due = 0] \in JobType
           /\ [r EXCEPT !.state = "leaving", !.delay = 0] \in JobType
           /\ [r EXCEPT !.state = "waiting", !.due = 0, !.delay = 0, !.tries = @ + 1] \in JobType
           /\ [r EXCEPT !.state = "waiting", !.delay = 0, !.stalls = 1] \in JobType
           /\ \A d \in Nat : [r EXCEPT !.state = "requeue", !.due = 0, !.delay = d] \in JobType
<1> USE DEF JobType, Active
<1>1. \A to \in {"waiting"} \cup Active : [r EXCEPT !.state = to, !.due = 0] \in JobType
  OBVIOUS
<1>2. [r EXCEPT !.state = "leaving", !.delay = 0] \in JobType
  OBVIOUS
<1>3. [r EXCEPT !.state = "waiting", !.due = 0, !.delay = 0, !.tries = @ + 1] \in JobType
  <2>1. r.tries + 1 \in Nat
    OBVIOUS
  <2> QED
    BY <2>1
<1>4. [r EXCEPT !.state = "waiting", !.delay = 0, !.stalls = 1] \in JobType
  OBVIOUS
<1>5. \A d \in Nat : [r EXCEPT !.state = "requeue", !.due = 0, !.delay = d] \in JobType
  OBVIOUS
<1> QED
  BY <1>1, <1>2, <1>3, <1>4, <1>5

-----------------------------------------------------------------------------
(* What the steps may do to the queue *)

\* Job k is left alone, or is newly waiting under an id that was free.
Kept(k) == job'[k] = job[k]
Added(k, r) ==
    /\ job[k].state = "none"
    /\ job'[k].state = "waiting" /\ job'[k].reason = r /\ job'[k].stalls = 0

\* Job k is through.
Ended(k) == job'[k].state \in {"none", "finished"} /\ job'[k].stalls = 0

\* Job k goes on to another state, with the same reason.
Moved(k, to) ==
    /\ job'[k].state = to
    /\ job'[k].reason = job[k].reason /\ job'[k].stalls = job[k].stalls

LEMMA AddNamedStep ==
    ASSUME TypeOK, NEW i \in Named, NEW r \in Reasons, AddNamed(i, r)
    PROVE  /\ job' \in [Jobs -> JobType]
           /\ \A k \in Jobs : Kept(k) \/ (k = i /\ Added(k, r))
<1>1. now \in Nat /\ i \in Jobs
  BY TimesAssumption DEF TypeOK, Jobs
<1> QED
  BY <1>1, WaitingType DEF AddNamed, TypeOK, Kept, Added

LEMMA FinishesStep ==
    ASSUME TypeOK, NEW j \in Jobs, Finishes(j)
    PROVE  /\ job' \in [Jobs -> JobType]
           /\ Ended(j)
           /\ \A k \in Jobs \ {j} : Kept(k)
  BY FinishedType DEF Finishes, TypeOK, Kept, Ended

LEMMA MovesStep ==
    ASSUME TypeOK, NEW j \in Jobs, NEW from, NEW to \in {"waiting"} \cup Active,
           Moves(j, from, to)
    PROVE  /\ job' \in [Jobs -> JobType]
           /\ job[j].state = from /\ Moved(j, to)
           /\ \A k \in Jobs \ {j} : Kept(k)
<1>1. job[j] \in JobType
  BY DEF TypeOK
<1>2. job' = [job EXCEPT ![j] = [job[j] EXCEPT !.state = to, !.due = 0]]
  BY DEF Moves, TypeOK
<1>3. [job[j] EXCEPT !.state = to, !.due = 0] \in JobType
  BY <1>1, JobTypes
<1> QED
  BY <1>1, <1>2, <1>3 DEF Moves, TypeOK, Moved, Kept, JobType

LEMMA AttemptFailsStep ==
    ASSUME TypeOK, NEW j \in Jobs, AttemptFails(j)
    PROVE  /\ job' \in [Jobs -> JobType]
           /\ Moved(j, "waiting") \/ Ended(j)
           /\ \A k \in Jobs \ {j} : Kept(k)
<1>1. job[j] \in JobType
  BY DEF TypeOK
<1> DEFINE again == [job[j] EXCEPT !.state = "waiting", !.due = 0, !.delay = 0, !.tries = @ + 1]
<1>2. again \in JobType
  BY <1>1, JobTypes
<1>3. again.state = "waiting" /\ again.reason = job[j].reason /\ again.stalls = job[j].stalls
  BY <1>1 DEF JobType
<1>4. job' = [job EXCEPT ![j] = again] \/ job' = [job EXCEPT ![j] = Finished(j)]
  BY DEF AttemptFails
<1> HIDE DEF again
<1> QED
  BY <1>2, <1>3, <1>4, FinishedType DEF TypeOK, Moved, Ended, Kept

LEMMA RequeueStep ==
    ASSUME TypeOK, NEW j \in Jobs, Requeue(j)
    PROVE  /\ job' \in [Jobs -> JobType]
           /\ job[j].state = "requeue" /\ Moved(j, "leaving")
           /\ \E t \in Timers \ {j} :
                 /\ Added(t, "hard_timeout")
                 /\ \A k \in Jobs \ {j, t} : Kept(k)
<1>1. PICK t \in Timers :
        /\ job[t].state = "none"
        /\ job' = [job EXCEPT ![t] = Waiting("hard_timeout", Later(job[j].delay)),
                              ![j].state = "leaving", ![j].delay = 0]
  BY DEF Requeue
<1>2. t \in Jobs /\ t # j /\ job[j].state = "requeue" /\ job[j] \in JobType
  BY <1>1 DEF Requeue, Jobs, TypeOK
<1> DEFINE new == Waiting("hard_timeout", Later(job[j].delay))
           left == [job[j] EXCEPT !.state = "leaving", !.delay = 0]
<1>3. new \in JobType /\ new.state = "waiting" /\ new.reason = "hard_timeout" /\ new.stalls = 0
  <2>1. Later(job[j].delay) \in Nat
    BY <1>2, LaterType DEF JobType
  <2> QED
    BY <2>1, WaitingType DEF Reasons
<1>4. left \in JobType
  BY <1>2, JobTypes
<1>5. left.state = "leaving" /\ left.reason = job[j].reason /\ left.stalls = job[j].stalls
  BY <1>2 DEF JobType
<1>6. job' = [job EXCEPT ![t] = new, ![j] = left]
  BY <1>1, <1>2 DEF TypeOK
<1> HIDE DEF new, left
<1>7. job'[t] = new /\ job'[j] = left /\ \A k \in Jobs \ {j, t} : job'[k] = job[k]
  BY <1>2, <1>6 DEF TypeOK
<1>8. job' \in [Jobs -> JobType]
  BY <1>2, <1>3, <1>4, <1>6 DEF TypeOK
<1>9. Moved(j, "leaving")
  BY <1>5, <1>7 DEF Moved
<1>10. Added(t, "hard_timeout") /\ \A k \in Jobs \ {j, t} : Kept(k)
  BY <1>1, <1>3, <1>7 DEF Added, Kept
<1> QED
  BY <1>2, <1>8, <1>9, <1>10

LEMMA FetchStep ==
    ASSUME TypeOK, NEW j \in Jobs, Fetch(j)
    PROVE  /\ job' \in [Jobs -> JobType]
           /\ job[j].state = "waiting"
           /\ \/ status = "stopped" /\ Ended(j)
              \/ TooEarly(j) /\ Moved(j, "requeue")
              \/ ~TooEarly(j) /\ Moved(j, "fetched")
           /\ \A k \in Jobs \ {j} : Kept(k)
<1>1. CASE status = "stopped"
  BY <1>1, FinishesStep DEF Fetch
<1>2. CASE status # "stopped" /\ TooEarly(j)
  <2>1. job[j] \in JobType /\ deadline - now \in Nat
    BY <1>2, TimesAssumption DEF TooEarly, TypeOK
  <2> DEFINE later == [job[j] EXCEPT !.state = "requeue", !.due = 0, !.delay = deadline - now]
  <2>2. later \in JobType
    BY <2>1, JobTypes
  <2>3. later.state = "requeue" /\ later.reason = job[j].reason /\ later.stalls = job[j].stalls
    BY <2>1 DEF JobType
  <2>4. job' = [job EXCEPT ![j] = later]
    BY <1>2 DEF Fetch, TypeOK
  <2> HIDE DEF later
  <2> QED
    BY <1>2, <2>2, <2>3, <2>4 DEF Fetch, TypeOK, Moved, Kept
<1>3. CASE status # "stopped" /\ ~TooEarly(j)
  BY <1>3, MovesStep DEF Fetch, Active
<1> QED
  BY <1>1, <1>2, <1>3

LEMMA CrashStep ==
    ASSUME TypeOK, Crash
    PROVE  /\ job' \in [Jobs -> JobType]
           /\ \A k \in Jobs :
                 \/ job[k].state \notin Active /\ Kept(k)
                 \/ /\ job[k].state \in Active /\ job[k].stalls = 0
                    /\ job'[k].state = "waiting" /\ job'[k].reason = job[k].reason
                 \/ job[k].state \in Active /\ job[k].stalls # 0 /\ Ended(k)
<1> DEFINE again(k) == [job[k] EXCEPT !.state = "waiting", !.delay = 0, !.stalls = 1]
<1>1. \A k \in Jobs : /\ again(k) \in JobType
                      /\ again(k).state = "waiting" /\ again(k).reason = job[k].reason
  <2> TAKE k \in Jobs
  <2>1. job[k] \in JobType
    BY DEF TypeOK
  <2> QED
    BY <2>1, JobTypes DEF JobType
<1>2. \A k \in Jobs : job'[k] = IF job[k].state \notin Active THEN job[k]
                                ELSE IF job[k].stalls = 0 THEN again(k) ELSE Finished(k)
  BY DEF Crash
<1>3. job' = [k \in Jobs |-> job'[k]]
  BY DEF Crash
<1> HIDE DEF again
<1> QED
  BY <1>1, <1>2, <1>3, FinishedType DEF TypeOK, Kept, Ended

LEMMA ArmStep ==
    ASSUME TypeOK, Arm
    PROVE  /\ job' \in [Jobs -> JobType]
           /\ \A k \in Jobs : Kept(k) \/ Added(k, "hard_timeout")
<1>1. PICK t \in Timers :
        /\ job[t].state = "none"
        /\ job' = [job EXCEPT ![t] = Waiting("hard_timeout", Later(Hard))]
  BY DEF Arm
<1>2. t \in Jobs /\ Later(Hard) \in Nat
  BY LaterType, TimesAssumption DEF Jobs
<1> QED
  BY <1>1, <1>2, WaitingType DEF TypeOK, Kept, Added, Reasons

-----------------------------------------------------------------------------
(* Types *)

LEMMA TypeStep ==
    ASSUME TypeOK, [Next]_vars PROVE TypeOK'
<1> USE ConstantTypes
<1>1. CASE Tick
  BY <1>1 DEF Tick, TypeOK, row, history
<1>2. CASE Arm
  BY <1>2, ArmStep DEF Arm, TypeOK, row, history
<1>3. CASE ArmFails
  BY <1>3 DEF ArmFails, TypeOK, row, history
<1>4. CASE Heartbeat
  BY <1>4 DEF Heartbeat, TypeOK, history
<1>5. CASE Extend
  BY <1>5 DEF Extend, TypeOK, history
<1>6. ASSUME NEW j \in Named, Ask(j) PROVE TypeOK'
  BY <1>6, AddNamedStep DEF Ask, TypeOK, row, Reasons
<1>7. CASE ResetScript
  BY <1>7, AddNamedStep, NamedAssumption DEF ResetScript, TypeOK, row, Reasons
<1>8. CASE SweepRead
  BY <1>8 DEF SweepRead, TypeOK, row, history
<1>9. CASE SweepAdd
  <2>1. job' \in [Jobs -> JobType]
    BY <1>9, AddNamedStep, NamedAssumption DEF SweepAdd, Reasons
  <2> QED
    BY <1>9, <2>1 DEF SweepAdd, TypeOK, row, history
<1>10. ASSUME NEW j \in Jobs, Work(j) PROVE TypeOK'
  <2>1. CASE Fetch(j)
    BY <2>1, FetchStep DEF Fetch, TypeOK, row, history
  <2>2. CASE Requeue(j)
    BY <2>2, RequeueStep DEF Requeue, TypeOK, row, history
  <2>3. CASE Leave(j)
    BY <2>3, FinishesStep DEF Leave, TypeOK, row, history
  <2>4. CASE MarkCleaning(j)
    BY <2>4, MovesStep DEF MarkCleaning, TypeOK, Active, history
  <2>5. CASE CleanUp(j)
    BY <2>5, FinishesStep DEF CleanUp, TypeOK, history
  <2>6. CASE CleanUpFails(j)
    BY <2>6, AttemptFailsStep DEF CleanUpFails, TypeOK, history
  <2> QED
    BY <1>10, <2>1, <2>2, <2>3, <2>4, <2>5, <2>6 DEF Work
<1>11. ASSUME NEW j \in Jobs, Outage(j) PROVE TypeOK'
  BY <1>11, AttemptFailsStep DEF Outage, TypeOK, row, history
<1>12. ASSUME NEW j \in Jobs, Evict(j) PROVE TypeOK'
  <2>1. NoJob \in JobType
    BY DEF NoJob, JobType, Reasons
  <2> QED
    BY <1>12, <2>1 DEF Evict, TypeOK, row, history
<1>13. CASE Crash
  <2>1. job' \in [Jobs -> JobType]
    BY <1>13, CrashStep
  <2>2. crashes' \in 0 .. MaxCrashes
    <3>1. crashes < MaxCrashes /\ crashes' = crashes + 1
      BY <1>13 DEF Crash
    <3>2. crashes \in 0 .. MaxCrashes
      BY DEF TypeOK
    <3> QED
      BY <3>1, <3>2
  <2>3. arming' \in BOOLEAN /\ sweep' \in Nat \cup {None}
    BY <1>13 DEF Crash
  <2>4. UNCHANGED <<now, row, asked, resets>>
    BY <1>13 DEF Crash
  <2> QED
    BY <2>1, <2>2, <2>3, <2>4 DEF TypeOK, row
<1>14. CASE UNCHANGED vars
  BY <1>14 DEF TypeOK, vars, row, history
<1> QED
  BY <1>1, <1>2, <1>3, <1>4, <1>5, <1>6, <1>7, <1>8, <1>9, <1>10, <1>11, <1>12, <1>13, <1>14
     DEF Next, Users, Sweep

LEMMA TypeInit == Init => TypeOK
<1>1. NoJob \in JobType
  BY DEF NoJob, JobType, Reasons
<1>2. Init => job \in [Jobs -> JobType]
  BY <1>1 DEF Init
<1>3. Init => now \in 0 .. MaxTime /\ seen \in 0 .. MaxTime /\ deadline \in Nat
  BY ConstantTypes DEF Init
<1>4. Init => resets \in 0 .. MaxResets /\ crashes \in 0 .. MaxCrashes
  BY ConstantTypes DEF Init
<1>5. Init => extended \in BOOLEAN /\ arming \in BOOLEAN /\ asked \in BOOLEAN
  BY DEF Init
<1> QED
  BY <1>2, <1>3, <1>4, <1>5 DEF Init, TypeOK

\* Whatever happens, the state is well typed.
THEOREM TypeCorrect == Spec => []TypeOK
<1>1. Init => TypeOK
  BY TypeInit
<1>2. TypeOK /\ [Next]_vars => TypeOK'
  BY TypeStep
<1> QED
  BY <1>1, <1>2, PTL DEF Spec

-----------------------------------------------------------------------------
(* Why a session is ended *)

Silent == seen + Idle < now

\* What a job was added for is true from then on, or is looked at again.
Founded(j) ==
    /\ job[j].reason \in Reasons
    /\ Live(j) /\ job[j].reason = "requested" => asked
    /\ Live(j) /\ job[j].reason = "inactivity" => Silent
    /\ job[j].state = "fetched" /\ Hardly(j) => deadline <= now + Grace

CauseInv ==
    /\ \A j \in Jobs : Founded(j)
    /\ sweep # None => Silent \/ sweep < now

\* Time passing takes no cause away, nor does a job that is left alone.
LEMMA FoundedKept ==
    ASSUME NEW j \in Jobs, Founded(j), Kept(j), asked => asked', Silent => Silent',
           deadline <= now + Grace => deadline' <= now' + Grace
    PROVE  Founded(j)'
  BY DEF Founded, Kept, Live, Hardly

LEMMA FoundedEnded ==
    ASSUME NEW j \in Jobs, Ended(j), job' \in [Jobs -> JobType]
    PROVE  Founded(j)'
  BY DEF Founded, Ended, Live, Hardly, JobType

LEMMA CauseStep ==
    ASSUME Faults \cap {"extend", "heartbeat"} = {}, TypeOK, CauseInv, [Next]_vars
    PROVE  CauseInv'
<1> USE DEF CauseInv
<1>0. now \in Nat /\ now' \in Nat /\ seen \in Nat /\ deadline \in Nat /\ TypeOK'
  BY TypeStep, ConstantTypes DEF TypeOK
<1>1. ASSUME row' = row, now' = now, asked => asked', sweep' \in {sweep, None}
      PROVE  /\ Silent' <=> Silent
             /\ (sweep # None => Silent \/ sweep < now)'
             /\ \A j \in Jobs : Kept(j) \/ Ended(j) => Founded(j)'
  <2>1. Silent' <=> Silent
    BY <1>1 DEF Silent, row
  <2>2. \A j \in Jobs : Kept(j) \/ Ended(j) => Founded(j)'
    BY <1>0, <1>1, <2>1, FoundedKept, FoundedEnded DEF row, TypeOK
  <2> QED
    BY <1>1, <2>1, <2>2
<1>2. CASE Tick
  <2>1. Silent => Silent'
    BY <1>0, <1>2, ConstantTypes DEF Tick, Silent, row
  <2>2. sweep' = sweep /\ asked' = asked /\ deadline' = deadline /\ now' = now + 1 /\ job' = job
    BY <1>2 DEF Tick, row, history
  <2>3. \A j \in Jobs : Founded(j)'
    BY <1>0, <2>1, <2>2, FoundedKept, ConstantTypes DEF Kept
  <2>4. (sweep # None => Silent \/ sweep < now)'
    BY <1>0, <2>1, <2>2 DEF TypeOK
  <2> QED
    BY <2>3, <2>4
<1>3. ASSUME NEW r \in Reasons, r = "requested" => asked', r = "inactivity" => Silent,
             row' = row, now' = now, asked => asked', sweep' \in {sweep, None},
             \A k \in Jobs : Kept(k) \/ Added(k, r)
      PROVE  CauseInv'
  <2>1. ASSUME NEW j \in Jobs, Added(j, r) PROVE Founded(j)'
    BY <1>1, <1>3, <2>1 DEF Founded, Added, Live, Hardly
  <2> QED
    BY <1>1, <1>3, <2>1
<1>4. CASE Arm
  BY <1>3, <1>4, ArmStep DEF Arm, history, Reasons
<1>5. CASE ArmFails
  BY <1>1, <1>5 DEF ArmFails, history, Kept
<1>6. CASE Heartbeat
  <2>1. sweep = None /\ \A j \in Jobs : ~(Live(j) /\ job[j].reason = "inactivity")
    BY <1>6 DEF Heartbeat
  <2> QED
    BY <1>6, <2>1 DEF Heartbeat, history, Founded, Live, Hardly
<1>7. CASE Extend
  <2>1. \A j \in Jobs : ~(Hardly(j) /\ job[j].state = "fetched")
    BY <1>7 DEF Extend
  <2> QED
    BY <1>7, <2>1 DEF Extend, history, Founded, Live, Hardly, Silent
<1>8. ASSUME NEW j \in Named, Ask(j) PROVE CauseInv'
  <2>1. \A k \in Jobs : Kept(k) \/ Added(k, "requested")
    BY <1>8, AddNamedStep DEF Ask, Reasons
  <2> QED
    BY <1>3, <1>8, <2>1 DEF Ask, Reasons
<1>9. CASE ResetScript
  <2>1. \A k \in Jobs : Kept(k) \/ Added(k, "requested")
    BY <1>9, AddNamedStep, NamedAssumption DEF ResetScript, Reasons
  <2> QED
    BY <1>3, <1>9, <2>1 DEF ResetScript, Reasons
<1>10. CASE SweepRead
  <2>1. Silent \/ deadline < now
    BY <1>10 DEF SweepRead, Stale, Silent
  <2> QED
    BY <1>10, <2>1 DEF SweepRead, row, history, Founded, Live, Hardly, Silent
<1>11. CASE SweepAdd
  <2> DEFINE r == IF sweep < now THEN "hard_timeout" ELSE "inactivity"
  <2>1. r \in Reasons /\ r # "requested" /\ (r = "inactivity" => Silent)
    BY <1>11 DEF SweepAdd, Reasons
  <2>2. AddNamed("stop", r) /\ row' = row /\ now' = now /\ asked' = asked /\ sweep' = None
    BY <1>11 DEF SweepAdd, history
  <2> HIDE DEF r
  <2>3. \A k \in Jobs : Kept(k) \/ Added(k, r)
    BY <2>1, <2>2, AddNamedStep, NamedAssumption
  <2> QED
    BY <1>3, <2>1, <2>2, <2>3
<1>12. ASSUME NEW j \in Jobs, job' \in [Jobs -> JobType], row' = row \/ status' # status,
              deadline' = deadline, seen' = seen, now' = now, asked' = asked, sweep' = sweep,
              Ended(j) \/ \E to \in {"waiting"} \cup Active :
                  /\ Live(j) /\ Moved(j, to)
                  /\ to = "fetched" /\ Hardly(j) => deadline <= now + Grace,
              \A k \in Jobs \ {j} : Kept(k) \/ Added(k, "hard_timeout")
       PROVE  CauseInv'
  <2>1. Silent' <=> Silent
    BY <1>12 DEF Silent
  <2>2. \A k \in Jobs : Kept(k) \/ Ended(k) => Founded(k)'
    BY <1>12, <2>1, FoundedKept, FoundedEnded
  <2>3. ASSUME NEW k \in Jobs, Added(k, "hard_timeout") PROVE Founded(k)'
    BY <2>3 DEF Founded, Added, Live, Hardly, Reasons
  <2>4. ASSUME NEW to \in {"waiting"} \cup Active, Live(j), Moved(j, to),
               to = "fetched" /\ Hardly(j) => deadline <= now + Grace
        PROVE  Founded(j)'
    BY <1>12, <2>1, <2>4 DEF Founded, Moved, Live, Hardly
  <2>5. \A k \in Jobs : Founded(k)'
    BY <1>12, <2>2, <2>3, <2>4
  <2> QED
    BY <1>12, <2>1, <2>5
<1>13. ASSUME NEW j \in Jobs, Fetch(j) PROVE CauseInv'
  <2>1. ~TooEarly(j) /\ Hardly(j) => deadline <= now + Grace
    BY <1>0, ConstantTypes DEF TooEarly
  <2>2. job[j].state = "waiting" => Live(j)
    BY DEF Live
  <2>3. /\ row' = row /\ deadline' = deadline /\ seen' = seen /\ now' = now
        /\ asked' = asked /\ sweep' = sweep
    BY <1>13 DEF Fetch, row, history
  <2>4. job' \in [Jobs -> JobType] /\ \A k \in Jobs \ {j} : Kept(k)
    BY <1>13, FetchStep
  <2>5. Ended(j) \/ \E to \in {"waiting"} \cup Active :
            /\ Live(j) /\ Moved(j, to)
            /\ to = "fetched" /\ Hardly(j) => deadline <= now + Grace
    BY <1>13, <2>1, <2>2, FetchStep DEF Active
  <2> QED
    BY <1>12, <2>3, <2>4, <2>5
<1>14. ASSUME NEW j \in Jobs, Requeue(j) PROVE CauseInv'
  <2>1. job[j].state = "requeue" => Live(j)
    BY DEF Live
  <2>2. /\ row' = row /\ deadline' = deadline /\ seen' = seen /\ now' = now
        /\ asked' = asked /\ sweep' = sweep
    BY <1>14 DEF Requeue, row, history
  <2>3. job' \in [Jobs -> JobType] /\ Live(j) /\ Moved(j, "leaving")
    BY <1>14, <2>1, RequeueStep
  <2>4. \A k \in Jobs \ {j} : Kept(k) \/ Added(k, "hard_timeout")
    BY <1>14, RequeueStep
  <2> QED
    BY <1>12, <2>2, <2>3, <2>4 DEF Active
<1>15. ASSUME NEW j \in Jobs, Leave(j) PROVE CauseInv'
  BY <1>12, <1>15, FinishesStep DEF Leave, row, history
<1>16. ASSUME NEW j \in Jobs, MarkCleaning(j) PROVE CauseInv'
  <2>1. job[j].state = "fetched" => Live(j)
    BY DEF Live
  <2>2. Moves(j, "fetched", "cleaning")
    BY <1>16 DEF MarkCleaning
  <2>3. job' \in [Jobs -> JobType] /\ Live(j) /\ Moved(j, "cleaning") /\ \A k \in Jobs \ {j} : Kept(k)
    BY <2>1, <2>2, MovesStep DEF Active
  <2>4. /\ deadline' = deadline /\ seen' = seen /\ now' = now /\ asked' = asked /\ sweep' = sweep
        /\ row' = row \/ status' # status
    BY <1>16 DEF MarkCleaning, row, history
  <2> QED
    BY <1>12, <2>3, <2>4 DEF Active
<1>17. ASSUME NEW j \in Jobs, CleanUp(j) PROVE CauseInv'
  <2>1. /\ deadline' = deadline /\ seen' = seen /\ now' = now /\ asked' = asked /\ sweep' = sweep
        /\ row' = row \/ status' # status
    BY <1>17 DEF CleanUp, row, history
  <2> QED
    BY <1>12, <1>17, <2>1, FinishesStep DEF CleanUp
<1>18. ASSUME NEW j \in Jobs, CleanUpFails(j) PROVE CauseInv'
  <2>1. /\ deadline' = deadline /\ seen' = seen /\ now' = now /\ asked' = asked /\ sweep' = sweep
        /\ row' = row \/ status' # status
    BY <1>18 DEF CleanUpFails, row, history
  <2>2. Live(j)
    BY <1>18 DEF CleanUpFails, Live
  <2> QED
    BY <1>12, <1>18, <2>1, <2>2, AttemptFailsStep DEF CleanUpFails
<1>19. ASSUME NEW j \in Jobs, Outage(j) PROVE CauseInv'
  <2>1. Live(j)
    BY <1>19 DEF Outage, Live
  <2> QED
    BY <1>12, <1>19, <2>1, AttemptFailsStep DEF Outage, row, history
<1>20. ASSUME NEW j \in Jobs, Evict(j) PROVE CauseInv'
  <2>1. Ended(j) /\ \A k \in Jobs \ {j} : Kept(k)
    BY <1>20 DEF Evict, Ended, Kept, NoJob, TypeOK
  <2>2. job' \in [Jobs -> JobType]
    BY <1>0 DEF TypeOK
  <2> QED
    BY <1>12, <1>20, <2>1, <2>2 DEF Evict, row, history
<1>21. CASE Crash
  <2>1. \A k \in Jobs : job[k].state \in Active => Live(k)
    BY DEF Live, Active
  <2>2. row' = row /\ now' = now /\ asked' = asked /\ sweep' = None
    BY <1>21 DEF Crash
  <2>3. ASSUME NEW k \in Jobs, Live(k), job'[k].state = "waiting", job'[k].reason = job[k].reason
        PROVE  Founded(k)'
    BY <1>1, <2>2, <2>3 DEF Founded, Live, Hardly
  <2> QED
    BY <1>1, <1>21, <2>1, <2>2, <2>3, CrashStep
<1>22. CASE UNCHANGED vars
  BY <1>22 DEF vars, row, history, Founded, Live, Hardly, Silent
<1> QED
  BY <1>2, <1>4, <1>5, <1>6, <1>7, <1>8, <1>9, <1>10, <1>11, <1>13, <1>14, <1>15, <1>16,
     <1>17, <1>18, <1>19, <1>20, <1>21, <1>22
  DEF Next, Users, Sweep, Work

\* Unless an extension or a heartbeat slips in behind the reader's back, a
\* session is ended only when asked for, silent, or at its deadline: however
\* long jobs wait, fail, are added twice or are run again after a crash.
THEOREM CauseSafe ==
    ASSUME Faults \cap {"extend", "heartbeat"} = {}
    PROVE  Spec => EndsForCause
<1>1. Init => TypeOK /\ CauseInv
  <2>1. Init => TypeOK
    BY TypeInit
  <2>2. Init => CauseInv
    BY DEF Init, CauseInv, Founded, Live, Hardly, NoJob, Reasons
  <2> QED
    BY <2>1, <2>2
<1>2. TypeOK /\ CauseInv /\ [Next]_vars => TypeOK' /\ CauseInv'
  BY TypeStep, CauseStep
<1>3. TypeOK /\ CauseInv /\ [Next]_vars =>
        [status = "running" /\ status' = "cleaning" =>
            asked \/ seen + Idle < now \/ deadline <= now + Grace]_vars
  <2> SUFFICES ASSUME TypeOK, CauseInv, Next, status = "running", status' = "cleaning"
               PROVE  asked \/ Silent \/ deadline <= now + Grace
    BY DEF Silent, vars, row
  <2>1. PICK j \in Jobs : MarkCleaning(j)
    BY DEF Next, Users, Sweep, Work, Tick, Arm, ArmFails, Heartbeat, Extend, Ask, ResetScript,
           SweepRead, SweepAdd, Fetch, Requeue, Leave, CleanUp, CleanUpFails, Outage, Evict,
           Crash, row
  <2>2. Founded(j) /\ job[j].state = "fetched"
    BY <2>1 DEF CauseInv, MarkCleaning, Moves
  <2> QED
    BY <2>2 DEF Founded, Live, Hardly, Reasons
<1> QED
  BY <1>1, <1>2, <1>3, PTL DEF Spec, EndsForCause

-----------------------------------------------------------------------------
(* That it is ended at all *)

\* A job that will yet do something for the session, or knows who will.
Staying(j) == Live(j) /\ job[j].state # "leaving"

StrandInv ==
    /\ crashes = 0 => \A j \in Jobs : job[j].stalls = 0
    /\ status = "running" => job["stop"].state = "none" \/ \E j \in Jobs : Staying(j)
    /\ status = "cleaning" => \E j \in Jobs : Staying(j)

\* A step that leaves every staying job staying, and adds jobs only.
LEMMA StrandKept ==
    ASSUME StrandInv, UNCHANGED <<status, crashes>>,
           \A k \in Jobs : \/ Kept(k)
                           \/ \E r \in Reasons : Added(k, r)
                           \/ job[k].state = "finished" /\ Ended(k)
                           \/ \E to \in Active \ {"leaving"} :
                                 job[k].state = "waiting" /\ Moved(k, to),
           job' \in [Jobs -> JobType]
    PROVE  StrandInv'
<1>1. \A k \in Jobs : Staying(k) => Staying(k)'
  BY DEF Staying, Live, Kept, Added, Ended, Moved, Active
<1>2. \A k \in Jobs : job[k].stalls = 0 => job'[k].stalls = 0
  BY DEF Kept, Added, Ended, Moved
<1>3. "stop" \in Jobs
  BY NamedAssumption DEF Jobs
<1>4. job["stop"].state = "none" => job'["stop"].state = "none" \/ Staying("stop")'
  BY <1>3 DEF Staying, Live, Kept, Added, Moved
<1> QED
  BY <1>1, <1>2, <1>3, <1>4 DEF StrandInv

LEMMA StrandStep ==
    ASSUME "outage" \notin Faults, MaxCrashes <= 1, TypeOK, StrandInv, [Next]_vars
    PROVE  StrandInv'
<1>0. TypeOK'
  BY TypeStep
<1>1. ASSUME job' = job, UNCHANGED <<status, crashes>> PROVE StrandInv'
  BY <1>0, <1>1, StrandKept DEF Kept, TypeOK
<1>2. CASE Tick \/ ArmFails \/ Heartbeat \/ Extend \/ SweepRead \/ UNCHANGED vars
  BY <1>1, <1>2 DEF Tick, ArmFails, Heartbeat, Extend, SweepRead, vars, row, history
<1>3. CASE Arm
  BY <1>0, <1>3, ArmStep, StrandKept DEF Arm, row, history, Reasons
<1>4. ASSUME NEW i \in Named, NEW r \in Reasons, AddNamed(i, r), UNCHANGED <<status, crashes>>
      PROVE  StrandInv'
  BY <1>0, <1>4, AddNamedStep, StrandKept
<1>5. ASSUME NEW j \in Named, Ask(j) PROVE StrandInv'
  BY <1>4, <1>5 DEF Ask, row, Reasons
<1>6. CASE ResetScript
  BY <1>4, <1>6, NamedAssumption DEF ResetScript, row, Reasons
<1>7. CASE SweepAdd
  BY <1>4, <1>7, NamedAssumption DEF SweepAdd, row, history, Reasons
<1>8. ASSUME NEW j \in Jobs, Fetch(j) PROVE StrandInv'
  <2>1. UNCHANGED <<status, crashes>>
    BY <1>8 DEF Fetch, row, history
  <2>2. CASE status = "stopped"
    <3>1. \A k \in Jobs : job[k].stalls = 0 => job'[k].stalls = 0
      BY <1>8, FetchStep DEF Kept, Ended, Moved
    <3> QED
      BY <2>1, <2>2, <3>1 DEF StrandInv
  <2>3. CASE status # "stopped"
    BY <1>0, <1>8, <2>1, <2>3, FetchStep, StrandKept DEF Active
  <2> QED
    BY <2>2, <2>3
<1>9. ASSUME NEW j \in Jobs, Requeue(j) PROVE StrandInv'
  <2>1. PICK t \in Timers \ {j} :
          /\ Added(t, "hard_timeout")
          /\ \A k \in Jobs \ {j, t} : Kept(k)
    BY <1>9, RequeueStep
  <2>2. Moved(j, "leaving")
    BY <1>9, RequeueStep
  <2>3. t \in Jobs /\ Staying(t)'
    BY <2>1 DEF Jobs, Added, Staying, Live
  <2>4. \A k \in Jobs : job[k].stalls = 0 => job'[k].stalls = 0
    BY <2>1, <2>2 DEF Kept, Added, Moved
  <2>5. UNCHANGED <<status, crashes>>
    BY <1>9 DEF Requeue, row, history
  <2> QED
    BY <2>3, <2>4, <2>5 DEF StrandInv
<1>10. ASSUME NEW j \in Jobs, Leave(j) PROVE StrandInv'
  <2>1. job[j].state = "leaving" /\ Ended(j) /\ \A k \in Jobs \ {j} : Kept(k)
    BY <1>10, FinishesStep DEF Leave
  <2>2. UNCHANGED <<status, crashes>>
    BY <1>10 DEF Leave, row, history
  <2>3. \A k \in Jobs : Staying(k) => Staying(k)'
    BY <2>1 DEF Staying, Live, Kept
  <2>4. \A k \in Jobs : job[k].stalls = 0 => job'[k].stalls = 0
    BY <2>1 DEF Kept, Ended
  <2>5. job["stop"].state = "none" => job'["stop"].state = "none"
    BY <2>1, NamedAssumption DEF Jobs, Kept
  <2> QED
    BY <2>2, <2>3, <2>4, <2>5 DEF StrandInv
<1>11. ASSUME NEW j \in Jobs, MarkCleaning(j) PROVE StrandInv'
  <2>1. Moved(j, "cleaning") /\ \A k \in Jobs \ {j} : Kept(k)
    BY <1>11, MovesStep DEF MarkCleaning, Active
  <2>2. status' = "cleaning" /\ crashes' = crashes
    BY <1>11 DEF MarkCleaning, history
  <2>3. Staying(j)'
    BY <2>1 DEF Staying, Live, Moved
  <2>4. \A k \in Jobs : job[k].stalls = 0 => job'[k].stalls = 0
    BY <2>1 DEF Kept, Moved
  <2> QED
    BY <2>2, <2>3, <2>4 DEF StrandInv
<1>12. ASSUME NEW j \in Jobs, CleanUp(j) \/ CleanUpFails(j) PROVE StrandInv'
  <2>1. status' \in {"stopped", "cleanup_failed"} /\ crashes' = crashes
    BY <1>12 DEF CleanUp, CleanUpFails, history
  <2>2. \A k \in Jobs : job[k].stalls = 0 => job'[k].stalls = 0
    BY <1>12, FinishesStep, AttemptFailsStep DEF CleanUp, CleanUpFails, Kept, Moved, Ended
  <2> QED
    BY <2>1, <2>2 DEF StrandInv
<1>13. ASSUME NEW j \in Jobs, Evict(j) PROVE StrandInv'
  <2>1. job[j].state = "finished" /\ Ended(j) /\ \A k \in Jobs \ {j} : Kept(k)
    BY <1>13 DEF Evict, Ended, Kept, NoJob, TypeOK
  <2>2. UNCHANGED <<status, crashes>>
    BY <1>13 DEF Evict, row, history
  <2> QED
    BY <1>0, <2>1, <2>2, StrandKept DEF TypeOK
<1>14. CASE Crash
  <2>1. crashes = 0 /\ crashes' # 0 /\ status' = status
    <3>1. crashes < MaxCrashes /\ crashes' = crashes + 1 /\ status' = status
      BY <1>14 DEF Crash, row
    <3>2. crashes \in 0 .. MaxCrashes
      BY DEF TypeOK
    <3> QED
      BY <3>1, <3>2, ConstantTypes
  <2>2. \A k \in Jobs : Kept(k) \/ job'[k].state = "waiting"
    BY <1>14, <2>1, CrashStep DEF StrandInv
  <2>3. \A k \in Jobs : Staying(k) => Staying(k)'
    BY <2>2 DEF Staying, Live, Kept
  <2>4. job["stop"].state = "none" => job'["stop"].state = "none" \/ Staying("stop")'
    BY <2>2, NamedAssumption DEF Jobs, Kept, Staying, Live
  <2>5. "stop" \in Jobs
    BY NamedAssumption DEF Jobs
  <2> QED
    BY <2>1, <2>3, <2>4, <2>5 DEF StrandInv
<1>15. ASSUME NEW j \in Jobs PROVE ~Outage(j)
  BY DEF Outage
<1> QED
  BY <1>2, <1>3, <1>5, <1>6, <1>7, <1>8, <1>9, <1>10, <1>11, <1>12, <1>13, <1>14, <1>15
  DEF Next, Users, Sweep, Work

\* With the database reachable and the process crashing once at most, no
\* running session is out of the reach of the sweep and the queue, and none is
\* left in 'cleaning', whatever else happens.
THEOREM StrandedSafe ==
    ASSUME "outage" \notin Faults, MaxCrashes <= 1
    PROVE  Spec => []NotStranded
<1>1. Init => TypeOK /\ StrandInv
  <2>1. Init => StrandInv
    BY NamedAssumption DEF Init, StrandInv, NoJob, Jobs
  <2> QED
    BY <2>1, TypeInit
<1>2. TypeOK /\ StrandInv /\ [Next]_vars => TypeOK' /\ StrandInv'
  BY TypeStep, StrandStep
<1>3. StrandInv => NotStranded
  BY DEF StrandInv, NotStranded, Staying
<1> QED
  BY <1>1, <1>2, <1>3, PTL DEF Spec
=============================================================================
