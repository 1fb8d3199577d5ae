-------------------------- MODULE StagingPoolProofs --------------------------
(***************************************************************************)
(* What holds of StagingPool for every number of pools, slots, workers,    *)
(* callers and attempts: types, and how far the cap can be overrun.        *)
(***************************************************************************)
EXTENDS StagingPool, FunctionTheorems, FiniteSetTheorems, TLAPS

-----------------------------------------------------------------------------
(* Counting *)

LEMMA Finite ==
    /\ IsFiniteSet(Slots)
    /\ IsFiniteSet(Jobs)
<1>1. IsFiniteSet(Slots)
  BY FS_Interval, TargetAssumption DEF Slots
<1> QED
  BY <1>1, FS_Product, PoolsAssumption DEF Jobs

LEMMA Smaller ==
    ASSUME NEW a \in Int, NEW b \in Int
    PROVE  Min({a, b}) \in {a, b} /\ Min({a, b}) <= a /\ Min({a, b}) <= b
<1>1. CASE a <= b
  <2>1. a \in {a, b} /\ \A y \in {a, b} : a <= y
    BY <1>1
  <2> QED
    BY <2>1 DEF Min
<1>2. CASE b <= a
  <2>1. b \in {a, b} /\ \A y \in {a, b} : b <= y
    BY <1>2
  <2> QED
    BY <2>1 DEF Min
<1> QED
  BY <1>1, <1>2

\* The rows of one pool are finitely many, and so are those of all.
LEMMA NumberedFinite ==
    ASSUME NEW f \in [Pools -> Nat]
    PROVE  IsFiniteSet(Numbered(f)) /\ Cardinality(Numbered(f)) \in Nat
<1> DEFINE of == [p \in Pools |-> {p} \X (1 .. f[p])]
           parts == {{p} \X (1 .. f[p]) : p \in Pools}
<1>1. IsFiniteSet(parts)
  <2>1. of \in Surjection(Pools, parts)
    <3>1. of \in [Pools -> parts]
      OBVIOUS
    <3>2. \A t \in parts : \E p \in Pools : of[p] = t
      OBVIOUS
    <3> HIDE DEF of, parts
    <3> QED
      BY <3>1, <3>2, Fun_IsSurj
  <2> HIDE DEF of, parts
  <2> QED
    BY <2>1, FS_Surjection, PoolsAssumption
<1>2. \A T \in parts : IsFiniteSet(T)
  <2> SUFFICES ASSUME NEW p \in Pools PROVE IsFiniteSet({p} \X (1 .. f[p]))
    OBVIOUS
  <2>1. IsFiniteSet({p})
    BY FS_Singleton
  <2>2. IsFiniteSet(1 .. f[p])
    <3>1. f[p] \in Int
      OBVIOUS
    <3> QED
      BY <3>1, FS_Interval
  <2> QED
    BY <2>1, <2>2, FS_Product
<1>3. IsFiniteSet(UNION parts)
  BY <1>1, <1>2, FS_UNION
<1> QED
  BY <1>3, FS_CardinalityType DEF Numbered

LEMMA Member ==
    ASSUME NEW f, NEW p, NEW n
    PROVE  <<p, n>> \in Numbered(f) <=> p \in Pools /\ n \in 1 .. f[p]
BY DEF Numbered

LEMMA Pairs ==
    ASSUME NEW f, NEW x \in Numbered(f)
    PROVE  x = <<x[1], x[2]>>
BY DEF Numbered

\* A row more, or less, is one more, or less.
LEMMA NumberedAdd ==
    ASSUME NEW f \in [Pools -> Nat], NEW g \in [Pools -> Nat], NEW p \in Pools,
           g = [f EXCEPT ![p] = @ + 1]
    PROVE  Cardinality(Numbered(g)) = Cardinality(Numbered(f)) + 1
<1> DEFINE new == <<p, f[p] + 1>>
<1>1. \A q, n : <<q, n>> \in Numbered(g) <=> <<q, n>> \in Numbered(f) \/ <<q, n>> = new
  <2> SUFFICES ASSUME NEW q, NEW n
               PROVE  q \in Pools /\ n \in 1 .. g[q] <=>
                        (q \in Pools /\ n \in 1 .. f[q]) \/ (q = p /\ n = f[p] + 1)
    BY Member
  <2>1. CASE q \in Pools \ {p}
    BY <2>1
  <2>2. CASE q = p
    BY <2>2
  <2> QED
    BY <2>1, <2>2
<1>2. new \notin Numbered(f)
  BY Member
<1> HIDE DEF new
<1>3. Numbered(g) = Numbered(f) \cup {new}
  <2>1. new \in Numbered(g)
    BY <1>1 DEF new
  <2>2. ASSUME NEW x \in Numbered(g) PROVE x \in Numbered(f) \cup {new}
    <3>1. x = <<x[1], x[2]>>
      BY Pairs
    <3>2. <<x[1], x[2]>> \in Numbered(f) \/ <<x[1], x[2]>> = new
      BY <1>1, <3>1
    <3> QED
      BY <3>1, <3>2
  <2>3. ASSUME NEW x \in Numbered(f) PROVE x \in Numbered(g)
    <3>1. x = <<x[1], x[2]>>
      BY Pairs
    <3>2. <<x[1], x[2]>> \in Numbered(g)
      BY <1>1, <3>1
    <3> QED
      BY <3>1, <3>2
  <2> QED
    BY <2>1, <2>2, <2>3
<1> QED
  BY <1>2, <1>3, NumberedFinite, FS_AddElement

LEMMA NumberedSub ==
    ASSUME NEW f \in [Pools -> Nat], NEW g \in [Pools -> Nat], NEW p \in Pools,
           f[p] > 0, g = [f EXCEPT ![p] = @ - 1]
    PROVE  Cardinality(Numbered(g)) = Cardinality(Numbered(f)) - 1
<1>1. f = [g EXCEPT ![p] = @ + 1]
  <2> DEFINE h == [g EXCEPT ![p] = @ + 1]
  <2>1. h \in [Pools -> Int] /\ f \in [Pools -> Int]
    OBVIOUS
  <2>2. ASSUME NEW q \in Pools PROVE f[q] = h[q]
    OBVIOUS
  <2> HIDE DEF h
  <2>3. f = h
    BY <2>1, <2>2
  <2> QED
    BY <2>3 DEF h
<1>2. Cardinality(Numbered(f)) = Cardinality(Numbered(g)) + 1
  BY <1>1, NumberedAdd
<1>3. Cardinality(Numbered(f)) \in Nat /\ Cardinality(Numbered(g)) \in Nat
  BY NumberedFinite
<1> QED
  BY <1>2, <1>3

-----------------------------------------------------------------------------
(* Types *)

\* A job that may run again has an attempt left.
Attempts ==
    \A j \in Jobs : job[j] \notin {"none", "finished"} => tries[j] < MaxAttempts

\* The loop over the slots has not passed its end.
InLoop ==
    \A e \in Callers : caller[e].pc = "slots" => caller[e].slot <= caller[e].last

Sane == TypeOK /\ Attempts /\ InLoop

LEMMA UnpublishedType == \A p : Unpublished(p) \in Nat
<1> SUFFICES ASSUME NEW p PROVE Unpublished(p) \in Nat
  OBVIOUS
<1> DEFINE S == {s \in Slots : job[<<p, s>>] = "inserted"}
<1>1. S \in SUBSET Slots
  OBVIOUS
<1>2. IsFiniteSet(S)
  BY <1>1, Finite, FS_Subset
<1> QED
  BY <1>2, FS_CardinalityType DEF Unpublished

LEMMA CountType == \A state : Count(state) \in Nat
<1> SUFFICES ASSUME NEW state PROVE Count(state) \in Nat
  OBVIOUS
<1> DEFINE S == {j \in Jobs : job[j] = state}
<1>1. S \in SUBSET Jobs
  OBVIOUS
<1>2. IsFiniteSet(S)
  BY <1>1, Finite, FS_Subset
<1> QED
  BY <1>2, FS_CardinalityType DEF Count

LEMMA AllLiveType == TypeOK => AllLive \in Nat
<1> SUFFICES ASSUME TypeOK PROVE AllLive \in Nat
  OBVIOUS
<1>1. Cardinality(Numbered(orphans)) \in Nat /\ Cardinality(Numbered(ready)) \in Nat
  BY NumberedFinite DEF TypeOK
<1>2. Count("inserted") \in Nat
  BY CountType
<1> QED
  BY <1>1, <1>2 DEF AllLive

\* ensureStagedVmForNode looks at slots that there are.
LEMMA EnsureSane ==
    ASSUME Sane, NEW e \in Callers, Ensure(e)
    PROVE  Sane'
<1> USE DEF Sane, jobs, rows
<1>1. ASSUME NEW to \in CallerType, Goes(e, to), to.pc = "slots" => to.slot <= to.last
      PROVE  caller' \in [Callers -> CallerType] /\ InLoop'
  BY <1>1 DEF Goes, TypeOK, InLoop
<1>2. ASSUME UNCHANGED <<jobs, rows, claiming, sessions, spent>>,
             caller' \in [Callers -> CallerType], InLoop'
      PROVE  Sane'
  BY <1>2 DEF TypeOK, Attempts
<1>3. ASSUME NEW p \in Pools, EnsureLive(e, p) PROVE Sane'
  <2> DEFINE to == [pc |-> "live", pool |-> p, live |-> Live(p), count |-> 0]
  <2>1. Live(p) \in Slots
    <3>1. Live(p) \in Nat
      BY UnpublishedType DEF Live, TypeOK
    <3> QED
      BY <3>1, <1>3, TargetAssumption DEF EnsureLive, Slots
  <2>2. to \in CallerType /\ to.pc # "slots"
    BY <2>1 DEF CallerType
  <2>3. Goes(e, to) /\ UNCHANGED <<jobs, rows, claiming, sessions, spent>>
    BY <1>3 DEF EnsureLive
  <2> HIDE DEF to
  <2> QED
    BY <1>1, <1>2, <2>2, <2>3
<1>4. CASE EnsureSessions(e)
  <2> DEFINE c  == caller[e]
             to == [c EXCEPT !.pc = "counted", !.count = sessions]
  <2>1. c \in [pc : {"live", "counted"}, pool : Pools, live : Slots, count : Nat]
    <3>1. c \in CallerType /\ c.pc = "live"
      BY <1>4 DEF EnsureSessions, TypeOK
    <3> QED
      BY <3>1 DEF CallerType, Idle
  <2>2. to \in [pc : {"live", "counted"}, pool : Pools, live : Slots, count : Nat]
    <3>1. sessions \in Nat
      BY DEF TypeOK
    <3> HIDE DEF c
    <3> DEFINE d == [c EXCEPT !.pc = "counted"]
    <3>2. d \in [pc : {"live", "counted"}, pool : Pools, live : Slots, count : Nat]
      BY <2>1
    <3>3. to = [d EXCEPT !.count = sessions]
      OBVIOUS
    <3> HIDE DEF d, to
    <3> QED
      BY <3>1, <3>2, <3>3
  <2>3. to \in CallerType /\ to.pc # "slots"
    BY <2>1, <2>2 DEF CallerType
  <2>4. Goes(e, to) /\ UNCHANGED <<jobs, rows, claiming, sessions, spent>>
    BY <1>4 DEF EnsureSessions
  <2> HIDE DEF c, to
  <2> QED
    BY <1>1, <1>2, <2>3, <2>4
<1>5. CASE EnsureRoom(e)
  <2> DEFINE c        == caller[e]
             physical == c.count + AllLive
             room     == MaxCluster - physical
             missing  == Target - c.live
             end      == c.live + Min({missing, room}) - 1
             on       == [pc |-> "slots", pool |-> c.pool, slot |-> c.live, last |-> end]
             to       == IF physical >= MaxCluster THEN Idle ELSE on
  <2>1. c \in [pc : {"live", "counted"}, pool : Pools, live : Slots, count : Nat]
    <3>1. c \in CallerType /\ c.pc = "counted"
      BY <1>5 DEF EnsureRoom, TypeOK
    <3> QED
      BY <3>1 DEF CallerType, Idle
  <2>2. physical \in Nat /\ MaxCluster \in Nat
    BY <2>1, AllLiveType, LimitsAssumption
  <2>3. c.live \in Nat /\ c.live < Target /\ Target \in Nat
    BY <2>1, TargetAssumption DEF Slots
  <2>4. Goes(e, to) /\ UNCHANGED <<jobs, rows, claiming, sessions, spent>>
    BY <1>5 DEF EnsureRoom
  <2>5. CASE physical >= MaxCluster
    <3>1. Goes(e, Idle) /\ Idle \in CallerType /\ Idle.pc # "slots"
      BY <2>4, <2>5 DEF CallerType, Idle
    <3> QED
      BY <1>1, <1>2, <2>4, <3>1
  <2>6. CASE ~(physical >= MaxCluster)
    <3> HIDE DEF physical
    <3>1. room \in Int /\ missing \in Int /\ room >= 1 /\ missing >= 1
      BY <2>2, <2>3, <2>6
    <3> HIDE DEF room, missing
    <3>2. Min({missing, room}) \in Int /\ Min({missing, room}) >= 1 /\ Min({missing, room}) <= missing
      BY <3>1, Smaller
    <3>3. end \in Slots /\ c.live <= end
      BY <2>3, <3>2 DEF Slots, missing
    <3>4. c.pool \in Pools /\ c.live \in Slots
      BY <2>1
    <3> HIDE DEF c, end
    <3>5. on \in CallerType /\ (on.pc = "slots" => on.slot <= on.last)
      BY <3>3, <3>4 DEF CallerType
    <3>6. Goes(e, on)
      BY <2>4, <2>6
    <3> HIDE DEF on
    <3> QED
      BY <1>1, <1>2, <2>4, <3>5, <3>6
  <2> QED
    BY <2>5, <2>6
<1>6. CASE EnsureSlot(e)
  <2> DEFINE c  == caller[e]
             on == [c EXCEPT !.slot = @ + 1]
             to == IF c.slot = c.last THEN Idle ELSE on
  <2>1. c \in [pc : {"slots"}, pool : Pools, slot : Slots, last : Slots] /\ c.slot <= c.last
    <3>1. c \in CallerType /\ c.pc = "slots" /\ c.slot <= c.last
      BY <1>6 DEF EnsureSlot, TypeOK, InLoop
    <3> QED
      BY <3>1 DEF CallerType, Idle
  <2>2. Goes(e, to) /\ UNCHANGED <<counted, rows, claiming, sessions, spent>>
    BY <1>6 DEF EnsureSlot
  <2>3. to \in CallerType /\ (to.pc = "slots" => to.slot <= to.last)
    <3>1. CASE c.slot = c.last
      BY <3>1 DEF CallerType, Idle
    <3>2. CASE c.slot # c.last
      <4>1. on = [pc |-> "slots", pool |-> c.pool, slot |-> c.slot + 1, last |-> c.last]
        BY <2>1
      <4>2. c.slot + 1 \in Slots /\ c.slot + 1 <= c.last
        BY <2>1, <3>2, TargetAssumption DEF Slots
      <4> QED
        BY <2>1, <3>2, <4>1, <4>2 DEF CallerType
    <3> QED
      BY <3>1, <3>2
  <2> HIDE DEF to
  <2>4. caller' \in [Callers -> CallerType] /\ InLoop'
    BY <1>1, <2>2, <2>3
  <2>5. <<c.pool, c.slot>> \in Jobs
    BY <2>1 DEF Jobs
  <2> DEFINE j == <<c.pool, c.slot>>
  <2>6. \/ job' = [job EXCEPT ![j] = "waiting"] /\ tries' = [tries EXCEPT ![j] = 0]
        \/ UNCHANGED <<job, tries>>
    BY <1>6 DEF EnsureSlot
  <2> HIDE DEF c, j
  <2>7. 0 < MaxAttempts /\ MaxAttempts \in Nat
    BY LimitsAssumption
  <2>8. job' \in [Jobs -> JobState] /\ tries' \in [Jobs -> 0 .. MaxAttempts] /\ Attempts'
    BY <2>6, <2>7 DEF TypeOK, JobState, Attempts
  <2> QED
    BY <2>2, <2>4, <2>8 DEF TypeOK
<1> QED
  BY <1>3, <1>4, <1>5, <1>6 DEF Ensure

\* The worker, its failures and a crash leave a job an attempt, or finish it.
LEMMA SaneStep ==
    ASSUME Sane, [Next]_vars
    PROVE  Sane'
<1> USE DEF Sane, jobs, rows
<1>1. ASSUME NEW e \in Callers, Ensure(e) PROVE Sane'
  BY <1>1, EnsureSane
<1>2. ASSUME NEW j \in Jobs, AttemptFails(j), job[j] \notin {"none", "finished"}
      PROVE  job' \in [Jobs -> JobState] /\ tries' \in [Jobs -> 0 .. MaxAttempts] /\ Attempts'
  <2>1. tries[j] \in 0 .. MaxAttempts /\ tries[j] < MaxAttempts /\ MaxAttempts \in Nat
    BY <1>2, LimitsAssumption DEF TypeOK, Attempts
  <2>2. tries' = [tries EXCEPT ![j] = tries[j] + 1] /\ tries[j] + 1 \in 0 .. MaxAttempts
    BY <1>2, <2>1 DEF AttemptFails
  <2>3. job' = [job EXCEPT ![j] = IF tries[j] + 1 < MaxAttempts THEN "waiting" ELSE "finished"]
    BY <1>2 DEF AttemptFails
  <2>4. tries' \in [Jobs -> 0 .. MaxAttempts]
    BY <2>2 DEF TypeOK
  <2>5. job' \in [Jobs -> JobState]
    BY <2>3 DEF TypeOK, JobState
  <2>6. ASSUME NEW i \in Jobs, job'[i] \notin {"none", "finished"} PROVE tries'[i] < MaxAttempts
    <3>1. CASE i = j
      BY <2>2, <2>3, <2>6, <3>1 DEF TypeOK
    <3>2. CASE i # j
      BY <2>2, <2>3, <2>6, <3>2 DEF TypeOK, Attempts
    <3> QED
      BY <3>1, <3>2
  <2> QED
    BY <2>4, <2>5, <2>6 DEF Attempts
<1>3. ASSUME NEW j \in Jobs, NEW from \in JobState, NEW to \in JobState, Moves(j, from, to),
             from \notin {"none", "finished"}, UNCHANGED tries
      PROVE  job' \in [Jobs -> JobState] /\ Attempts'
  BY <1>3 DEF Moves, TypeOK, Attempts
<1>4. ASSUME NEW what \in {"takes", "failures", "crashes", "hangs"}, Spend(what),
             what = "takes" => spent.takes < MaxTakes, what = "failures" => spent.failures < MaxFailures,
             what = "crashes" => spent.crashes < MaxCrashes, what = "hangs" => spent.hangs < MaxHangs
      PROVE  spent' \in [takes : 0 .. MaxTakes, failures : 0 .. MaxFailures,
                         crashes : 0 .. MaxCrashes, hangs : 0 .. MaxHangs]
  BY <1>4, LimitsAssumption DEF Spend, TypeOK
<1>5. ASSUME NEW j \in Jobs, Build(j) PROVE Sane'
  <2>1. CASE Start(j)
    <3>1. job' \in [Jobs -> JobState] /\ Attempts'
      BY <2>1, <1>3 DEF Start, JobState, Active
    <3>2. counted' \in [Jobs -> Nat]
      BY <2>1 DEF Start, TypeOK
    <3> QED
      BY <2>1, <3>1, <3>2 DEF Start, TypeOK, InLoop
  <2>2. CASE Preflight(j)
    <3>1. /\ job' \in [Jobs -> JobState]
          /\ tries' \in [Jobs -> 0 .. MaxAttempts]
          /\ Attempts'
      <4>1. CASE AttemptFails(j)
        BY <2>2, <4>1, <1>2 DEF Preflight
      <4>2. CASE ~AttemptFails(j)
        <5>1. Moves(j, "started", "building") /\ UNCHANGED tries
          BY <2>2, <4>2 DEF Preflight, Moves
        <5> QED
          BY <5>1, <1>3 DEF JobState, Active, TypeOK
      <4> QED
        BY <4>1, <4>2
    <3>2. counted' \in [Jobs -> Nat]
      BY <2>2 DEF Preflight, TypeOK
    <3> QED
      BY <2>2, <3>1, <3>2 DEF Preflight, TypeOK, InLoop
  <2>3. CASE InsertRow(j)
    <3>1. job' \in [Jobs -> JobState] /\ Attempts'
      BY <2>3, <1>3 DEF InsertRow, JobState, Active
    <3> QED
      BY <2>3, <3>1 DEF InsertRow, TypeOK, InLoop
  <2>4. CASE MarkRunning(j)
    <3>1. job' \in [Jobs -> JobState] /\ Attempts'
      BY <2>4, <1>3 DEF MarkRunning, JobState, Active
    <3>2. ready' \in [Pools -> Nat]
      BY <2>4 DEF MarkRunning, TypeOK
    <3> QED
      BY <2>4, <3>1, <3>2 DEF MarkRunning, TypeOK, InLoop
  <2> QED
    BY <1>5, <2>1, <2>2, <2>3, <2>4 DEF Build
<1>6. ASSUME NEW j \in Jobs, BuildFails(j) PROVE Sane'
  <2>1. /\ job' \in [Jobs -> JobState]
        /\ tries' \in [Jobs -> 0 .. MaxAttempts]
        /\ Attempts'
    BY <1>6, <1>2 DEF BuildFails
  <2>2. orphans' \in [Pools -> Nat]
    <3>1. CASE job[j] = "inserted"
      <4>1. j[1] \in Pools
        BY DEF Jobs
      <4>2. orphans' = [orphans EXCEPT ![j[1]] = @ + 1]
        BY <1>6, <3>1 DEF BuildFails
      <4> QED
        BY <4>1, <4>2 DEF TypeOK
    <3>2. CASE job[j] # "inserted"
      BY <1>6, <3>2 DEF BuildFails, TypeOK
    <3> QED
      BY <3>1, <3>2
  <2>3. spent' \in [takes : 0 .. MaxTakes, failures : 0 .. MaxFailures,
                    crashes : 0 .. MaxCrashes, hangs : 0 .. MaxHangs]
    BY <1>6, <1>4 DEF BuildFails
  <2> QED
    BY <1>6, <2>1, <2>2, <2>3 DEF BuildFails, TypeOK, InLoop
<1>7. ASSUME NEW j \in Jobs, Hang(j) PROVE Sane'
  <2>1. job' \in [Jobs -> JobState] /\ Attempts'
    BY <1>7, <1>3 DEF Hang, JobState, Active
  <2>2. spent' \in [takes : 0 .. MaxTakes, failures : 0 .. MaxFailures,
                    crashes : 0 .. MaxCrashes, hangs : 0 .. MaxHangs]
    BY <1>7, <1>4 DEF Hang
  <2> QED
    BY <1>7, <2>1, <2>2 DEF Hang, TypeOK, InLoop
<1>8. ASSUME NEW p \in Pools, Claim(p) PROVE Sane'
  <2>1. spent' \in [takes : 0 .. MaxTakes, failures : 0 .. MaxFailures,
                    crashes : 0 .. MaxCrashes, hangs : 0 .. MaxHangs]
    BY <1>8, <1>4 DEF Claim
  <2>2. ready' \in [Pools -> Nat] /\ claiming' \in Nat
    BY <1>8 DEF Claim, TypeOK
  <2> QED
    BY <1>8, <2>1, <2>2 DEF Claim, TypeOK, Attempts, InLoop
<1>9. ASSUME NEW p \in Pools, Destroy(p) PROVE Sane'
  <2>1. spent' \in [takes : 0 .. MaxTakes, failures : 0 .. MaxFailures,
                    crashes : 0 .. MaxCrashes, hangs : 0 .. MaxHangs]
    BY <1>9, <1>4 DEF Destroy
  <2>2. UNCHANGED <<tries, counted, claiming, sessions, caller>>
    BY <1>9 DEF Destroy
  <2>3. CASE ready[p] > 0 /\ ready' = [ready EXCEPT ![p] = @ - 1] /\ UNCHANGED <<job, orphans>>
    <3>1. ready' \in [Pools -> Nat]
      BY <2>3 DEF TypeOK
    <3> QED
      BY <2>1, <2>2, <2>3, <3>1 DEF TypeOK, Attempts, InLoop
  <2>4. CASE orphans[p] > 0 /\ orphans' = [orphans EXCEPT ![p] = @ - 1] /\ UNCHANGED <<job, ready>>
    <3>1. orphans' \in [Pools -> Nat]
      BY <2>4 DEF TypeOK
    <3> QED
      BY <2>1, <2>2, <2>4, <3>1 DEF TypeOK, Attempts, InLoop
  <2>5. ASSUME NEW s \in Slots, Moves(<<p, s>>, "inserted", "unrowed"), UNCHANGED rows
        PROVE  Sane'
    <3>1. <<p, s>> \in Jobs
      BY DEF Jobs
    <3>2. job' \in [Jobs -> JobState] /\ Attempts'
      BY <2>2, <2>5, <3>1, <1>3 DEF JobState, Active
    <3> QED
      BY <2>1, <2>2, <2>5, <3>2 DEF TypeOK, InLoop
  <2> QED
    BY <1>9, <2>3, <2>4, <2>5 DEF Destroy
<1>10. ASSUME NEW p \in Pools, Reap(p) PROVE Sane'
  <2>1. orphans' \in [Pools -> Nat]
    BY <1>10 DEF Reap, TypeOK
  <2> QED
    BY <1>10, <2>1 DEF Reap, TypeOK, Attempts, InLoop
<1>11. CASE InsertSession \/ EndSession
  <2>1. claiming' \in Nat /\ sessions' \in Nat
    BY <1>11 DEF InsertSession, EndSession, TypeOK
  <2> QED
    BY <1>11, <2>1 DEF InsertSession, EndSession, TypeOK, Attempts, InLoop
<1>12. CASE Crash
  <2>1. /\ job' \in [Jobs -> JobState]
        /\ \A j \in Jobs : job'[j] \notin {"none", "finished"} => job[j] \notin {"none", "finished"}
    BY <1>12 DEF Crash, TypeOK, JobState, Active
  <2>2. orphans' \in [Pools -> Nat]
    BY <1>12, UnpublishedType DEF Crash, TypeOK
  <2>3. counted' \in [Jobs -> Nat] /\ claiming' \in Nat
    BY <1>12 DEF Crash
  <2>4. caller' \in [Callers -> CallerType] /\ InLoop'
    BY <1>12 DEF Crash, CallerType, Idle, InLoop
  <2>5. spent' \in [takes : 0 .. MaxTakes, failures : 0 .. MaxFailures,
                    crashes : 0 .. MaxCrashes, hangs : 0 .. MaxHangs]
    BY <1>12, <1>4 DEF Crash
  <2> QED
    BY <1>12, <2>1, <2>2, <2>3, <2>4, <2>5 DEF Crash, TypeOK, Attempts
<1>13. CASE UNCHANGED vars
  BY <1>13 DEF vars, TypeOK, Attempts, InLoop
<1> QED
  BY <1>1, <1>5, <1>6, <1>7, <1>8, <1>9, <1>10, <1>11, <1>12, <1>13 DEF Next

LEMMA SaneInit == Init => Sane
<1> SUFFICES ASSUME Init PROVE Sane
  OBVIOUS
<1>1. TypeOK
  BY LimitsAssumption DEF Init, TypeOK, JobState, CallerType
<1>2. Attempts /\ InLoop
  BY DEF Init, Attempts, InLoop, Idle
<1> QED
  BY <1>1, <1>2 DEF Sane

LEMMA SaneAlways == Spec => []Sane
BY SaneInit, SaneStep, PTL DEF Spec

\* However many jobs, callers and faults: no job outlives its attempts, and no
\* run of the maintainer looks for a slot beyond the pool's.
THEOREM TypeCorrect == Spec => []TypeOK
<1>1. Sane => TypeOK
  BY DEF Sane
<1> QED
  BY <1>1, SaneAlways, PTL
-----------------------------------------------------------------------------
(* The cap *)

HeldStates == {"building", "inserted", "unrowed", "hung"}

\* The jobs that have passed the check of the cap and still owe a row, and all
\* that the worker is at.
Held == {j \in Jobs : job[j] \in HeldStates}
AtWork == {j \in Jobs : job[j] \in Active}

Taken == sessions + claiming <= spent.takes

(***************************************************************************)
(* Why the overrun is bounded.  A clone that is taken moves from the rows  *)
(* to the sessions, and the takes pay for all of them; so what the check   *)
(* of the cap has to bound are rows and clones on their way to a row.  A   *)
(* job that passes it has seen fewer rows than the cap allows, and what it *)
(* has not seen are jobs that hold a place of the worker, itself included. *)
(***************************************************************************)
InBounds ==
    /\ Taken
    /\ Cardinality(Numbered(orphans)) + Cardinality(Numbered(ready)) + Cardinality(Held)
         <= MaxCluster + Workers - 1
    /\ Cardinality(AtWork) <= Workers

Capped == Sane /\ InBounds

\* Sets of jobs are finite, and a job more or less is one more or less.
LEMMA JobSet ==
    ASSUME NEW S \in SUBSET Jobs
    PROVE  IsFiniteSet(S) /\ Cardinality(S) \in Nat
BY Finite, FS_Subset, FS_CardinalityType

LEMMA Fewer ==
    ASSUME NEW S \in SUBSET Jobs, NEW T \in SUBSET S
    PROVE  Cardinality(T) <= Cardinality(S)
BY JobSet, FS_Subset

LEMMA HeldTypes ==
    /\ Held \in SUBSET Jobs /\ Cardinality(Held) \in Nat
    /\ AtWork \in SUBSET Jobs /\ Cardinality(AtWork) \in Nat
    /\ Held \in SUBSET AtWork
<1>1. Held \in SUBSET Jobs /\ AtWork \in SUBSET Jobs
  BY DEF Held, AtWork
<1>2. Held \in SUBSET AtWork
  BY DEF Held, AtWork, HeldStates, Active
<1> QED
  BY <1>1, <1>2, JobSet

LEMMA Moved ==
    ASSUME TypeOK, NEW j \in Jobs, NEW to, job' = [job EXCEPT ![j] = to]
    PROVE  /\ to \in HeldStates => Held' = Held \cup {j}
           /\ to \notin HeldStates => Held' = Held \ {j}
           /\ to \in Active => AtWork' = AtWork \cup {j}
           /\ to \notin Active => AtWork' = AtWork \ {j}
<1>1. \A i \in Jobs : job'[i] = IF i = j THEN to ELSE job[i]
  BY DEF TypeOK
<1> QED
  BY <1>1 DEF Held, AtWork

\* A step that takes no clone and moves no row, and lets no job pass the check.
LEMMA StillCapped ==
    ASSUME TypeOK, TypeOK', InBounds,
           Taken',
           UNCHANGED rows, Held' \in SUBSET Held,
           Cardinality(AtWork') <= Workers
    PROVE  InBounds'
<1>1. Cardinality(Held') <= Cardinality(Held) /\ Cardinality(Held') \in Nat
  BY HeldTypes, Fewer, JobSet
<1>2. Cardinality(Held) \in Nat
  BY HeldTypes
<1>3. UNCHANGED <<Cardinality(Numbered(orphans)), Cardinality(Numbered(ready))>>
  BY DEF rows
<1>4. Cardinality(Numbered(orphans)) \in Nat /\ Cardinality(Numbered(ready)) \in Nat
  BY NumberedFinite DEF TypeOK
<1>5. Workers \in Nat /\ MaxCluster \in Nat
  BY LimitsAssumption
<1>6. Cardinality(Numbered(orphans))' + Cardinality(Numbered(ready))' + Cardinality(Held')
        <= MaxCluster + Workers - 1
  BY <1>1, <1>2, <1>3, <1>4, <1>5 DEF InBounds
<1> QED
  BY <1>6 DEF InBounds

\* A job that ends or waits gives its places back.
LEMMA JobLeaves ==
    ASSUME TypeOK, InBounds, NEW j \in Jobs, NEW to, to \notin Active,
           job' = [job EXCEPT ![j] = to]
    PROVE  Held' = Held \ {j} /\ Cardinality(AtWork') <= Workers
<1>1. Held' = Held \ {j} /\ AtWork' = AtWork \ {j}
  BY Moved DEF HeldStates, Active
<1>2. Cardinality(AtWork') <= Cardinality(AtWork) /\ Cardinality(AtWork') \in Nat
  BY <1>1, HeldTypes, Fewer, JobSet
<1> QED
  BY <1>1, <1>2, HeldTypes, LimitsAssumption DEF InBounds

\* An attempt that fails leaves the worker.
LEMMA AttemptLeaves ==
    ASSUME TypeOK, InBounds, NEW j \in Jobs, AttemptFails(j)
    PROVE  Held' = Held \ {j} /\ Cardinality(AtWork') <= Workers
<1>1. PICK to \in {"waiting", "finished"} : job' = [job EXCEPT ![j] = to]
  BY DEF AttemptFails
<1>2. to \notin Active
  BY DEF Active
<1> QED
  BY <1>1, <1>2, JobLeaves

\* A job that leaves the worker may leave a row behind.
LEMMA LeavesRow ==
    ASSUME TypeOK, TypeOK', InBounds, NEW j \in Held, Held' = Held \ {j}, Cardinality(AtWork') <= Workers,
           NEW more \in 0 .. 1,
           \/ Cardinality(Numbered(orphans))' = Cardinality(Numbered(orphans)) + more /\ UNCHANGED ready
           \/ Cardinality(Numbered(ready))' = Cardinality(Numbered(ready)) + more /\ UNCHANGED orphans,
           UNCHANGED <<sessions, claiming, spent.takes>>
    PROVE  InBounds'
<1>1. Cardinality(Held') = Cardinality(Held) - 1 /\ Cardinality(Held) \in Nat
  BY HeldTypes, JobSet, FS_RemoveElement
<1>2. Cardinality(Numbered(orphans)) \in Nat /\ Cardinality(Numbered(ready)) \in Nat
  BY NumberedFinite DEF TypeOK
<1>3. Workers \in Nat /\ MaxCluster \in Nat
  BY LimitsAssumption
<1>4. Taken'
  BY DEF InBounds, Taken
<1>5. Cardinality(Numbered(orphans))' + Cardinality(Numbered(ready))' + Cardinality(Held')
        <= MaxCluster + Workers - 1
  <2>1. CASE Cardinality(Numbered(orphans))' = Cardinality(Numbered(orphans)) + more /\ UNCHANGED ready
    <3>1. Cardinality(Numbered(ready))' = Cardinality(Numbered(ready))
      BY <2>1
    <3> QED
      BY <1>1, <1>2, <1>3, <2>1, <3>1 DEF InBounds
  <2>2. CASE Cardinality(Numbered(ready))' = Cardinality(Numbered(ready)) + more /\ UNCHANGED orphans
    <3>1. Cardinality(Numbered(orphans))' = Cardinality(Numbered(orphans))
      BY <2>2
    <3> QED
      BY <1>1, <1>2, <1>3, <2>2, <3>1 DEF InBounds
  <2> QED
    BY <2>1, <2>2
<1> QED
  BY <1>4, <1>5 DEF InBounds

\* The rows of the jobs that a crash ends are found orphaned: as many as there
\* were jobs with a row.
LEMMA CrashRows ==
    ASSUME TypeOK, NEW g \in [Pools -> Nat], g = [p \in Pools |-> orphans[p] + Unpublished(p)]
    PROVE  Cardinality(Numbered(g)) <= Cardinality(Numbered(orphans)) + Count("inserted")
<1> DEFINE Ins    == {j \in Jobs : job[j] = "inserted"}
           In(p)  == {s \in Slots : job[<<p, s>>] = "inserted"}
           New    == {x \in Numbered(g) : x[2] > orphans[x[1]]}
           h      == [p \in Pools |-> CHOOSE b : b \in Bijection(1 .. Unpublished(p), In(p))]
           f      == [x \in New |-> <<x[1], h[x[1]][x[2] - orphans[x[1]]]>>]
<1>1. ASSUME NEW p \in Pools PROVE h[p] \in Bijection(1 .. Unpublished(p), In(p))
  <2>1. IsFiniteSet(In(p))
    BY Finite, FS_Subset
  <2>2. ExistsBijection(1 .. Cardinality(In(p)), In(p))
    BY <2>1, FS_CardinalityType
  <2>3. \E b : b \in Bijection(1 .. Unpublished(p), In(p))
    BY <2>2 DEF ExistsBijection, Unpublished
  <2> QED
    BY <2>3
<1> HIDE DEF h
<1>2. ASSUME NEW x \in New
      PROVE  /\ x[1] \in Pools /\ x[2] \in Nat /\ x = <<x[1], x[2]>>
             /\ x[2] - orphans[x[1]] \in 1 .. Unpublished(x[1])
             /\ h[x[1]][x[2] - orphans[x[1]]] \in In(x[1])
  <2>1. x = <<x[1], x[2]>>
    BY Pairs
  <2>2. x[1] \in Pools /\ x[2] \in 1 .. g[x[1]]
    <3>1. <<x[1], x[2]>> \in Numbered(g)
      BY <2>1
    <3> QED
      BY <3>1, Member
  <2>3. orphans[x[1]] \in Nat /\ Unpublished(x[1]) \in Nat /\ g[x[1]] = orphans[x[1]] + Unpublished(x[1])
    BY <2>2, UnpublishedType DEF TypeOK
  <2>4. x[2] > orphans[x[1]] /\ x[2] \in Nat
    BY <2>2, <2>3
  <2>5. x[2] - orphans[x[1]] \in 1 .. Unpublished(x[1])
    BY <2>2, <2>3, <2>4
  <2>6. h[x[1]][x[2] - orphans[x[1]]] \in In(x[1])
    BY <1>1, <2>2, <2>5 DEF Bijection, Injection
  <2> QED
    BY <2>1, <2>2, <2>4, <2>5, <2>6
<1>3. f \in [New -> Ins]
  <2> SUFFICES ASSUME NEW x \in New PROVE f[x] \in Ins
    OBVIOUS
  <2>1. f[x] = <<x[1], h[x[1]][x[2] - orphans[x[1]]]>>
    OBVIOUS
  <2>2. x[1] \in Pools /\ h[x[1]][x[2] - orphans[x[1]]] \in In(x[1])
    BY <1>2
  <2> HIDE DEF f, New
  <2> QED
    BY <2>1, <2>2 DEF Jobs
<1>4. ASSUME NEW x \in New, NEW y \in New, f[x] = f[y]
      PROVE  x = y
  <2>1. x[1] = y[1] /\ h[x[1]][x[2] - orphans[x[1]]] = h[y[1]][y[2] - orphans[y[1]]]
    BY <1>4
  <2>2. x[2] - orphans[x[1]] = y[2] - orphans[y[1]]
    <3>1. h[x[1]] \in Injection(1 .. Unpublished(x[1]), In(x[1]))
      BY <1>1, <1>2 DEF Bijection
    <3>2. x[2] - orphans[x[1]] \in 1 .. Unpublished(x[1]) /\ y[2] - orphans[y[1]] \in 1 .. Unpublished(x[1])
      BY <1>2, <2>1
    <3> QED
      BY <2>1, <3>1, <3>2 DEF Injection, IsInjective
  <2>3. orphans[x[1]] \in Nat /\ x[2] \in Nat /\ y[2] \in Nat
    BY <1>2 DEF TypeOK
  <2>4. x[2] = y[2]
    BY <2>1, <2>2, <2>3
  <2> QED
    BY <1>2, <2>1, <2>4
<1>5. IsFiniteSet(Ins) /\ Cardinality(Ins) = Count("inserted")
  BY JobSet DEF Count
<1>6. IsFiniteSet(New) /\ Cardinality(New) <= Count("inserted")
  <2>1. f \in Injection(New, Ins)
    <3> HIDE DEF f, New, Ins
    <3> QED
      BY <1>3, <1>4, Fun_IsInj
  <2> HIDE DEF f, New, Ins
  <2> QED
    BY <2>1, <1>5, FS_Injection
<1>7. Numbered(g) \subseteq Numbered(orphans) \cup New
  <2> SUFFICES ASSUME NEW x \in Numbered(g), x \notin New PROVE x \in Numbered(orphans)
    OBVIOUS
  <2>1. x = <<x[1], x[2]>>
    BY Pairs
  <2>2. x[1] \in Pools /\ x[2] \in 1 .. g[x[1]]
    <3>1. <<x[1], x[2]>> \in Numbered(g)
      BY <2>1
    <3> QED
      BY <3>1, Member
  <2>3. ~(x[2] > orphans[x[1]]) /\ orphans[x[1]] \in Nat
    BY <2>2 DEF TypeOK
  <2>4. x[2] \in 1 .. orphans[x[1]]
    BY <2>2, <2>3
  <2> QED
    BY <2>1, <2>2, <2>4, Member
<1>8. IsFiniteSet(Numbered(orphans)) /\ Cardinality(Numbered(orphans)) \in Nat
  BY NumberedFinite DEF TypeOK
<1> HIDE DEF New
<1>9. Cardinality(Numbered(orphans) \cup New) <= Cardinality(Numbered(orphans)) + Cardinality(New)
  <2>1. Cardinality(Numbered(orphans) \cup New)
          = Cardinality(Numbered(orphans)) + Cardinality(New) - Cardinality(Numbered(orphans) \cap New)
    BY <1>6, <1>8, FS_Union
  <2>2. Cardinality(Numbered(orphans) \cap New) \in Nat
    BY <1>8, FS_Subset, FS_CardinalityType
  <2>3. Cardinality(New) \in Nat
    BY <1>6, FS_CardinalityType
  <2> QED
    BY <1>8, <2>1, <2>2, <2>3
<1>10. Cardinality(Numbered(g)) <= Cardinality(Numbered(orphans) \cup New)
  BY <1>6, <1>7, <1>8, FS_Union, FS_Subset
<1>11. /\ Cardinality(Numbered(g)) \in Nat /\ Cardinality(New) \in Nat /\ Count("inserted") \in Nat
       /\ Cardinality(Numbered(orphans) \cup New) \in Nat
  BY <1>6, <1>8, NumberedFinite, FS_Union, FS_CardinalityType, CountType
<1> QED
  BY <1>6, <1>8, <1>9, <1>10, <1>11

\* What the total counts of the jobs is what the jobs hold.
LEMMA HeldSplit ==
    LET rest == {j \in Jobs : job[j] \in {"building", "unrowed", "hung"}} IN
    /\ Cardinality(Held) = Count("inserted") + Cardinality(rest)
    /\ Count("inserted") \in Nat /\ Cardinality(rest) \in Nat
<1> DEFINE rest == {j \in Jobs : job[j] \in {"building", "unrowed", "hung"}}
           ins  == {j \in Jobs : job[j] = "inserted"}
<1>1. Held = ins \cup rest /\ ins \cap rest = {}
  BY DEF Held, HeldStates
<1>2. /\ IsFiniteSet(ins) /\ IsFiniteSet(rest)
      /\ Cardinality(ins) \in Nat /\ Cardinality(rest) \in Nat
  BY JobSet
<1>3. Cardinality(ins) = Count("inserted")
  BY DEF Count
<1>4. Cardinality(ins \cup rest) = Cardinality(ins) + Cardinality(rest) - Cardinality(ins \cap rest)
  <2> HIDE DEF ins, rest
  <2> QED
    BY <1>2, FS_Union
<1>5. Cardinality(ins \cap rest) = 0
  BY <1>1, FS_EmptySet
<1> HIDE DEF ins, rest
<1>6. Cardinality(Held) = Count("inserted") + Cardinality(rest)
  BY <1>1, <1>2, <1>3, <1>4, <1>5
<1> QED
  BY <1>2, <1>3, <1>6 DEF rest
\* Each step keeps within the bounds: the check of the cap lets a job in, the
\* worker has a place for it, and whoever takes a clone pays for it.
LEMMA CappedStep ==
    ASSUME Capped, [Next]_vars
    PROVE  InBounds'
<1> TypeOK /\ InBounds
  BY DEF Capped, Sane
<1> TypeOK'
  BY SaneStep DEF Capped, Sane
<1> DEFINE o == Cardinality(Numbered(orphans))
           r == Cardinality(Numbered(ready))
           h == Cardinality(Held)
           w == Cardinality(AtWork)
<1>n. /\ o \in Nat /\ r \in Nat /\ h \in Nat /\ w \in Nat
      /\ o' \in Nat /\ r' \in Nat /\ h' \in Nat /\ w' \in Nat
  <2>1. o \in Nat /\ r \in Nat /\ h \in Nat /\ w \in Nat
    BY NumberedFinite, HeldTypes DEF TypeOK
  <2>2. o' \in Nat /\ r' \in Nat
    BY NumberedFinite DEF TypeOK
  <2>3. Held' \in SUBSET Jobs /\ AtWork' \in SUBSET Jobs
    BY DEF Held, AtWork
  <2> QED
    BY <2>1, <2>2, <2>3, JobSet
<1>q. PICK o1 \in Nat, r1 \in Nat, h1 \in Nat : o' = o1 /\ r' = r1 /\ h' = h1
  BY <1>n
<1>c. Workers \in Nat /\ Workers > 0 /\ MaxCluster \in Nat
  BY LimitsAssumption
<1>i. Taken /\ o + r + h <= MaxCluster + Workers - 1 /\ w <= Workers
  BY DEF InBounds
<1>p. ASSUME Taken', o' + r' + h' <= MaxCluster + Workers - 1, w' <= Workers
      PROVE  InBounds'
  BY <1>p DEF InBounds
<1>t. ASSUME UNCHANGED <<sessions, claiming, spent.takes>>
      PROVE  Taken'
  BY <1>t, <1>i DEF Taken
<1>s. ASSUME UNCHANGED job
      PROVE  Held' = Held /\ AtWork' = AtWork
  BY <1>s DEF Held, AtWork
<1>1. ASSUME NEW e \in Callers, Ensure(e) PROVE InBounds'
  <2>1. UNCHANGED <<rows, claiming, sessions, spent>>
    BY <1>1 DEF Ensure, EnsureLive, EnsureSessions, EnsureRoom, EnsureSlot
  <2>2. Taken'
    BY <2>1, <1>t
  <2>3. CASE UNCHANGED job
    BY <2>1, <2>2, <2>3, <1>s, <1>i, StillCapped
  <2>4. CASE ~UNCHANGED job
    <3>1. EnsureSlot(e)
      BY <1>1, <2>4 DEF Ensure, EnsureLive, EnsureSessions, EnsureRoom, jobs
    <3> DEFINE c == caller[e]
               j == <<c.pool, c.slot>>
    <3>2. job' = [job EXCEPT ![j] = "waiting"]
      BY <2>4, <3>1 DEF EnsureSlot
    <3>3. j \in Jobs
      <4>1. c \in CallerType /\ c.pc = "slots"
        BY <3>1 DEF EnsureSlot, TypeOK
      <4> QED
        BY <4>1 DEF CallerType, Idle, Jobs
    <3> HIDE DEF j
    <3>4. Held' = Held \ {j} /\ Cardinality(AtWork') <= Workers
      BY <3>2, <3>3, JobLeaves DEF Active
    <3> QED
      BY <2>1, <2>2, <3>4, StillCapped
  <2> QED
    BY <2>3, <2>4
<1>2. ASSUME NEW j \in Jobs, Start(j) PROVE InBounds'
  <2>1. job' = [job EXCEPT ![j] = "started"] /\ UNCHANGED <<rows, claiming, sessions, spent>>
    BY <1>2 DEF Start, Moves
  <2>2. Held' = Held \ {j} /\ AtWork' = AtWork \cup {j}
    <3>1. "started" \notin HeldStates /\ "started" \in Active
      BY DEF HeldStates, Active
    <3> QED
      BY <2>1, <3>1, Moved
  <2>3. w < Workers
    BY <1>2 DEF Start, AtWork
  <2>4. IsFiniteSet(AtWork)
    BY HeldTypes, JobSet
  <2>5. Cardinality(AtWork \cup {j}) <= w + 1
    <3>1. CASE j \in AtWork
      <4>1. AtWork \cup {j} = AtWork
        BY <3>1
      <4>2. Cardinality(AtWork \cup {j}) = w
        BY <4>1
      <4> HIDE DEF w
      <4> QED
        BY <4>2, <1>n
    <3>2. CASE j \notin AtWork
      <4>1. Cardinality(AtWork \cup {j}) = w + 1
        BY <3>2, <2>4, FS_AddElement
      <4> QED
        BY <4>1, <1>n
    <3> QED
      BY <3>1, <3>2
  <2>6. Cardinality(AtWork') <= Workers
    BY <2>2, <2>3, <2>5, <1>n, <1>c
  <2> QED
    BY <2>1, <2>2, <2>6, <1>t, StillCapped
<1>3. ASSUME NEW j \in Jobs, Preflight(j) PROVE InBounds'
  <2>1. UNCHANGED <<rows, claiming, sessions, spent>> /\ Taken'
    BY <1>3, <1>t DEF Preflight
  <2>2. CASE AttemptFails(j)
    BY <2>1, <2>2, AttemptLeaves, StillCapped
  <2>3. CASE ~AttemptFails(j)
    <3> DEFINE ins  == {i \in Jobs : job[i] = "inserted"}
               rest == AtWork \ ins
    <3>1. job[j] = "started" /\ counted[j] + AllLive < MaxCluster /\ job' = [job EXCEPT ![j] = "building"]
      <4>1. counted[j] \in Nat /\ AllLive \in Nat
        BY AllLiveType DEF TypeOK
      <4> QED
        BY <1>3, <2>3, <4>1, <1>c DEF Preflight
    <3>2. Held' = Held \cup {j} /\ AtWork' = AtWork \cup {j}
      BY <3>1, Moved DEF HeldStates, Active
    <3>3. j \in AtWork /\ j \in rest
      BY <3>1 DEF AtWork, Active
    <3>4. Held' \subseteq ins \cup rest /\ ins \cap rest = {} /\ ins \cup rest \in SUBSET Jobs
      BY <3>2, <3>3 DEF Held, AtWork, HeldStates, Active
    <3>5. /\ IsFiniteSet(ins) /\ IsFiniteSet(rest)
          /\ Cardinality(ins) \in Nat /\ Cardinality(rest) \in Nat
      BY <3>4, JobSet
    <3>6. Cardinality(rest) <= w
      BY HeldTypes, Fewer
    <3>7. h' <= Cardinality(ins \cup rest)
      BY <3>4, Fewer
    <3>8. Cardinality(ins \cup rest) = Cardinality(ins) + Cardinality(rest)
      <4> HIDE DEF ins, rest
      <4>1. Cardinality(ins \cap rest) = 0
        BY <3>4, FS_EmptySet
      <4>2. Cardinality(ins \cup rest) = Cardinality(ins) + Cardinality(rest) - Cardinality(ins \cap rest)
        BY <3>5, FS_Union
      <4> QED
        BY <4>1, <4>2, <3>5
    <3>9. o + r + Cardinality(ins) < MaxCluster
      <4>1. counted[j] \in Nat
        BY DEF TypeOK
      <4>2. AllLive = o + Cardinality(ins) + r
        BY DEF AllLive, Count
      <4> HIDE DEF o, r, ins
      <4> QED
        BY <4>1, <4>2, <3>1, <3>5, <1>n, <1>c
    <3>10. o' = o /\ r' = r
      BY <2>1 DEF rows
    <3>11. w' = w
      <4>1. AtWork' = AtWork
        BY <3>2, <3>3
      <4> QED
        BY <4>1
    <3>12. o' + r' + h' <= MaxCluster + Workers - 1
      <4> HIDE DEF o, r, h, w, ins, rest
      <4> QED
        <5>1. o1 + r1 + h1 <= MaxCluster + Workers - 1
          BY <3>5, <3>6, <3>7, <3>8, <3>9, <3>10, <1>n, <1>q, <1>c, <1>i
        <5> QED
          BY <5>1, <1>q
    <3> QED
      BY <2>1, <3>11, <3>12, <1>p, <1>i
  <2> QED
    BY <2>2, <2>3
<1>4. ASSUME NEW j \in Jobs, InsertRow(j) \/ Hang(j) PROVE InBounds'
  <2>1. UNCHANGED <<rows, claiming, sessions, spent.takes>> /\ Taken'
    <3>1. UNCHANGED <<rows, claiming, sessions, spent.takes>>
      BY <1>4 DEF InsertRow, Hang, Spend, TypeOK
    <3> QED
      BY <3>1, <1>t
  <2>2. PICK to \in {"inserted", "hung"} : job' = [job EXCEPT ![j] = to]
    BY <1>4 DEF InsertRow, Hang, Moves
  <2>3. j \in Held /\ j \in AtWork
    BY <1>4 DEF InsertRow, Hang, Moves, Held, AtWork, HeldStates, Active
  <2>4. Held' = Held \cup {j} /\ AtWork' = AtWork \cup {j}
    BY <2>2, Moved DEF HeldStates, Active
  <2>5. Held' = Held /\ AtWork' = AtWork
    BY <2>3, <2>4
  <2> QED
    BY <2>1, <2>5, <1>i, StillCapped
<1>5. ASSUME NEW j \in Jobs, MarkRunning(j) PROVE InBounds'
  <2>1. UNCHANGED <<orphans, claiming, sessions, spent>>
    BY <1>5 DEF MarkRunning
  <2>2. j \in Held
    BY <1>5 DEF MarkRunning, Moves, Held, HeldStates
  <2>3. Held' = Held \ {j} /\ Cardinality(AtWork') <= Workers
    BY <1>5, JobLeaves DEF MarkRunning, Moves, Active
  <2>4. \E more \in 0 .. 1 : r' = r + more
    <3>1. CASE UNCHANGED ready
      BY <3>1, <1>n
    <3>2. CASE ready' = [ready EXCEPT ![j[1]] = @ + 1]
      <4>1. j[1] \in Pools
        BY DEF Jobs
      <4>2. r' = r + 1
        BY <3>2, <4>1, NumberedAdd DEF TypeOK
      <4> QED
        BY <4>2
    <3> QED
      BY <1>5, <3>1, <3>2 DEF MarkRunning
  <2>5. UNCHANGED <<sessions, claiming, spent.takes>>
    BY <2>1
  <2> HIDE DEF r
  <2>6. PICK more \in 0 .. 1 : r' = r + more
    BY <2>4
  <2> QED
    BY <2>1, <2>2, <2>3, <2>5, <2>6, LeavesRow DEF r
<1>6. ASSUME NEW j \in Jobs, BuildFails(j) PROVE InBounds'
  <2>1. UNCHANGED <<ready, claiming, sessions, spent.takes>>
    BY <1>6 DEF BuildFails, Spend, TypeOK
  <2>2. j \in Held
    BY <1>6 DEF BuildFails, Held, HeldStates
  <2>3. Held' = Held \ {j} /\ Cardinality(AtWork') <= Workers
    BY <1>6, AttemptLeaves DEF BuildFails
  <2>4. \E more \in 0 .. 1 : o' = o + more
    <3>1. CASE job[j] = "inserted"
      <4>1. j[1] \in Pools
        BY DEF Jobs
      <4>2. orphans' = [orphans EXCEPT ![j[1]] = @ + 1]
        BY <1>6, <3>1 DEF BuildFails
      <4>3. o' = o + 1
        BY <4>1, <4>2, NumberedAdd DEF TypeOK
      <4> QED
        BY <4>3
    <3>2. CASE job[j] # "inserted"
      <4>1. UNCHANGED orphans
        BY <1>6, <3>2 DEF BuildFails
      <4> QED
        BY <4>1, <1>n
    <3> QED
      BY <3>1, <3>2
  <2> HIDE DEF o
  <2>5. PICK more \in 0 .. 1 : o' = o + more
    BY <2>4
  <2> QED
    BY <2>1, <2>2, <2>3, <2>5, LeavesRow DEF o
<1>7. ASSUME NEW p \in Pools, Claim(p) PROVE InBounds'
  <2>1. UNCHANGED <<job, orphans, sessions>> /\ claiming' = claiming + 1
    BY <1>7 DEF Claim, jobs
  <2>2. spent'.takes = spent.takes + 1
    BY <1>7 DEF Claim, Spend, TypeOK
  <2>3. r' = r - 1
    BY <1>7, NumberedSub DEF Claim, TypeOK
  <2>4. o' = o
    BY <2>1
  <2>5. h' = h /\ w' = w
    BY <2>1, <1>s
  <2>6. Taken'
    <3>1. sessions \in Nat /\ claiming \in Nat /\ spent.takes \in Nat
      BY LimitsAssumption DEF TypeOK
    <3> QED
      BY <2>1, <2>2, <3>1, <1>i DEF Taken
  <2> HIDE DEF o, r, h, w
  <2>7. o' + r' + h' <= MaxCluster + Workers - 1
    BY <2>3, <2>4, <2>5, <1>n, <1>c, <1>i
  <2> QED
    BY <2>5, <2>6, <2>7, <1>i, <1>p
<1>8. ASSUME NEW p \in Pools, Destroy(p) PROVE InBounds'
  <2>1. Taken'
    <3>1. UNCHANGED <<sessions, claiming>> /\ spent'.takes = spent.takes + 1
      BY <1>8 DEF Destroy, Spend, TypeOK
    <3>2. sessions \in Nat /\ claiming \in Nat /\ spent.takes \in Nat
      BY LimitsAssumption DEF TypeOK
    <3> QED
      BY <3>1, <3>2, <1>i DEF Taken
  <2>2. CASE UNCHANGED job
    <3>1. \/ o' = o /\ r' = r - 1
          \/ o' = o - 1 /\ r' = r
          \/ o' = o /\ r' = r
      <4>1. CASE ready[p] > 0 /\ ready' = [ready EXCEPT ![p] = @ - 1] /\ UNCHANGED orphans
        <5>1. r' = r - 1
          BY <4>1, NumberedSub DEF TypeOK
        <5>2. o' = o
          BY <4>1
        <5> QED
          BY <5>1, <5>2
      <4>2. CASE orphans[p] > 0 /\ orphans' = [orphans EXCEPT ![p] = @ - 1] /\ UNCHANGED ready
        <5>1. o' = o - 1
          BY <4>2, NumberedSub DEF TypeOK
        <5>2. r' = r
          BY <4>2
        <5> QED
          BY <5>1, <5>2
      <4>3. CASE UNCHANGED rows
        <5>1. UNCHANGED ready /\ UNCHANGED orphans
          BY <4>3 DEF rows
        <5> QED
          BY <5>1
      <4> QED
        BY <1>8, <4>1, <4>2, <4>3 DEF Destroy
    <3>2. h' = h /\ w' = w
      BY <2>2, <1>s
    <3> HIDE DEF o, r, h, w
    <3>3. o1 + r1 + h1 <= MaxCluster + Workers - 1
      BY <3>1, <3>2, <1>n, <1>q, <1>c, <1>i
    <3>4. o' + r' + h' <= MaxCluster + Workers - 1
      BY <3>3, <1>q
    <3> QED
      BY <2>1, <3>2, <3>4, <1>i, <1>p
  <2>3. ASSUME NEW s \in Slots, Moves(<<p, s>>, "inserted", "unrowed"), UNCHANGED rows
        PROVE  InBounds'
    <3> DEFINE j == <<p, s>>
    <3>1. j \in Jobs
      BY DEF Jobs
    <3>2. job[j] = "inserted" /\ job' = [job EXCEPT ![j] = "unrowed"]
      BY <2>3 DEF Moves
    <3> HIDE DEF j
    <3>3. Held' = Held \cup {j} /\ AtWork' = AtWork \cup {j}
      BY <3>1, <3>2, Moved DEF HeldStates, Active
    <3>4. j \in Held /\ j \in AtWork
      BY <3>1, <3>2 DEF Held, AtWork, HeldStates, Active
    <3>5. Held' = Held /\ AtWork' = AtWork
      BY <3>3, <3>4
    <3> QED
      BY <2>1, <2>3, <3>5, <1>i, StillCapped
  <2> QED
    BY <1>8, <2>2, <2>3 DEF Destroy
<1>9. ASSUME NEW p \in Pools, Reap(p) PROVE InBounds'
  <2>1. UNCHANGED <<job, ready, claiming, sessions, spent>>
    BY <1>9 DEF Reap, jobs
  <2>2. o' = o - 1
    BY <1>9, NumberedSub DEF Reap, TypeOK
  <2>3. r' = r
    BY <2>1
  <2>4. h' = h /\ w' = w
    BY <2>1, <1>s
  <2>5. Taken'
    BY <2>1, <1>t
  <2> HIDE DEF o, r, h, w
  <2>6. o' + r' + h' <= MaxCluster + Workers - 1
    BY <2>2, <2>3, <2>4, <1>n, <1>c, <1>i
  <2> QED
    BY <2>4, <2>5, <2>6, <1>i, <1>p
<1>10. CASE InsertSession \/ EndSession
  <2>1. UNCHANGED <<job, rows, spent>>
    BY <1>10 DEF InsertSession, EndSession, jobs
  <2>2. Taken'
    <3>1. sessions \in Nat /\ claiming \in Nat /\ spent.takes \in Nat
      BY LimitsAssumption DEF TypeOK
    <3>2. CASE InsertSession
      BY <2>1, <3>1, <3>2, <1>i DEF Taken, InsertSession
    <3>3. CASE EndSession
      BY <2>1, <3>1, <3>3, <1>i DEF Taken, EndSession
    <3> QED
      BY <1>10, <3>2, <3>3
  <2> QED
    BY <2>1, <2>2, <1>s, <1>i, StillCapped
<1>11. CASE Crash
  <2>1. Held' = {} /\ AtWork' = {}
    <3>1. ASSUME NEW j \in Jobs PROVE job'[j] \notin Active
      BY <1>11 DEF Crash, Active
    <3> QED
      BY <3>1 DEF Held, AtWork, HeldStates, Active
  <2>2. h' = 0 /\ w' = 0
    BY <2>1, FS_EmptySet
  <2>3. Taken'
    <3>1. sessions' = sessions /\ claiming' = 0 /\ spent'.takes = spent.takes
      BY <1>11 DEF Crash, Spend, TypeOK
    <3>2. sessions \in Nat /\ claiming \in Nat /\ spent.takes \in Nat
      BY LimitsAssumption DEF TypeOK
    <3> QED
      BY <3>1, <3>2, <1>i DEF Taken
  <2>4. o' <= o + Count("inserted")
    BY <1>11, CrashRows DEF Crash, TypeOK
  <2>5. r' = r
    BY <1>11 DEF Crash
  <2>6. Count("inserted") <= h /\ Count("inserted") \in Nat
    BY HeldSplit, <1>n
  <2> HIDE DEF o, r, h, w
  <2>7. o1 + r1 + h1 <= MaxCluster + Workers - 1
    BY <2>2, <2>4, <2>5, <2>6, <1>n, <1>q, <1>c, <1>i
  <2>8. o' + r' + h' <= MaxCluster + Workers - 1
    BY <2>7, <1>q
  <2> QED
    BY <2>2, <2>3, <2>8, <1>c, <1>p
<1>12. CASE UNCHANGED vars
  <2>1. UNCHANGED <<job, rows, sessions, claiming, spent>>
    BY <1>12 DEF vars, jobs
  <2> QED
    BY <2>1, <1>t, <1>s, <1>i, StillCapped
<1> QED
  BY <1>1, <1>2, <1>3, <1>4, <1>5, <1>6, <1>7, <1>8, <1>9, <1>10, <1>11, <1>12 DEF Next, Build

LEMMA CappedInit == Init => Capped
<1> SUFFICES ASSUME Init PROVE Capped
  OBVIOUS
<1>1. Sane
  BY SaneInit
<1>2. Held = {} /\ AtWork = {}
  BY DEF Init, Held, AtWork, HeldStates, Active
<1>3. Numbered(orphans) = {} /\ Numbered(ready) = {}
  BY DEF Init, Numbered
<1>4. Workers \in Nat /\ Workers > 0 /\ MaxCluster \in Nat
  BY LimitsAssumption
<1>5. Taken
  BY DEF Init, Taken
<1> QED
  BY <1>1, <1>2, <1>3, <1>4, <1>5, FS_EmptySet DEF Capped, InBounds

LEMMA CappedAlways == Spec => []Capped
<1>1. Capped /\ [Next]_vars => Capped'
  BY CappedStep, SaneStep DEF Capped
<1> QED
  BY CappedInit, <1>1, PTL DEF Spec

\* Sessions, rows and clones on their way can pass the cap only by the jobs
\* that passed the check together, and by the clones taken meanwhile; whatever
\* the pools, the worker's concurrency, the failures, hangs and crashes.
THEOREM OverrunSafe == Spec => []OverrunBounded
<1>1. Capped => OverrunBounded
  <2> SUFFICES ASSUME Capped PROVE OverrunBounded
    OBVIOUS
  <2> DEFINE o    == Cardinality(Numbered(orphans))
             r    == Cardinality(Numbered(ready))
             h    == Cardinality(Held)
             rest == Cardinality({j \in Jobs : job[j] \in {"building", "unrowed", "hung"}})
  <2>1. o \in Nat /\ r \in Nat
    BY NumberedFinite DEF Capped, Sane, TypeOK
  <2>2. h = Count("inserted") + rest /\ Count("inserted") \in Nat /\ rest \in Nat
    BY HeldSplit
  <2>3. sessions \in Nat /\ claiming \in Nat /\ spent.takes \in Nat
    BY LimitsAssumption DEF Capped, Sane, TypeOK
  <2>4. sessions + claiming <= spent.takes /\ o + r + h <= MaxCluster + Workers - 1
    BY DEF Capped, InBounds, Taken
  <2>5. Total = sessions + claiming + (o + Count("inserted") + r) + rest
    BY DEF Total, AllLive
  <2>6. Workers \in Nat /\ MaxCluster \in Nat
    BY LimitsAssumption
  <2> HIDE DEF o, r, h, rest
  <2>7. Total <= MaxCluster + Workers - 1 + spent.takes
    BY <2>1, <2>2, <2>3, <2>4, <2>5, <2>6
  <2> QED
    BY <2>7 DEF OverrunBounded
<1> QED
  BY <1>1, CappedAlways, PTL
=============================================================================
