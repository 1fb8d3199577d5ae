--------------------------- MODULE AdminSweepProofs ---------------------------
(***************************************************************************)
(* What holds of AdminSweep for every number of clones, users and          *)
(* requests, and whatever an administrator does at the same time.          *)
(***************************************************************************)
EXTENDS AdminSweep, FiniteSetTheorems, TLAPS

-----------------------------------------------------------------------------
(* Types, and who may have a clone *)

\* The types of the variables that TypeOK is silent about.
Shapes ==
    /\ demoAt \in [Requests -> {"idle", "cleared"}] /\ shown \in Requests \cup {None}
    /\ tile \in [source : {"yaml", "imported"}, listed : BOOLEAN, hidden : BOOLEAN]
    /\ destroy \in [at : {"idle", "hidden", "sessions", "mark", "staged", "row", "image", "done"},
                    todo : SUBSET (Requests \cup Clones),
                    vm : Requests \cup Clones \cup {None}]
    /\ destroy.at \in {"sessions", "mark"} => destroy.todo \subseteq Requests
    /\ destroy.at = "mark" => destroy.vm \in Requests
    /\ destroy.at = "row" => destroy.vm \in Clones
    /\ sweep \in [at : {"idle", "listing", "loop", "rows", "done"},
                  protected : SUBSET (Clones \cup {None}),
                  todo : SUBSET Clones, deleted : SUBSET Clones]
    /\ purge \in [at : {"idle", "next", "row", "machine"},
                  todo : SUBSET Clones, vm : Clones \cup {None}]
    /\ purge.at \in {"row", "machine"} => purge.vm \in Clones
    /\ past \in [lost : SUBSET (Clones \cup {Image}), stray : SUBSET Clones,
                 overlap : BOOLEAN, expired : BOOLEAN]

\* Its job, then its row, then a request and its session, or a procedure that
\* has deleted the row: a clone is with one after the other.
Linked ==
    /\ \A c \in Clones : build[c] \in {"none", "found"} => machine[c] = "none" /\ c \notin staged
    /\ \A c \in staged : build[c] = "done"
    /\ \A r \in Requests : held[r] # None => build[held[r]] = "done" /\ held[r] \notin staged
    /\ \A r \in Requests : session[r] # "none" \/ req[r] = "holding" => held[r] \in Clones
    /\ \A r \in Requests :
          req[r] \in {"idle", "asked", "checked", "locked"} => held[r] = None
    /\ \A r \in Requests :
          req[r] \in {"idle", "asked", "checked", "locked", "holding"} => session[r] = "none"
    /\ \A r \in Requests : work[r] # "idle" => session[r] # "none"
    /\ destroy.at \in {"sessions", "mark"} => \A r \in destroy.todo : session[r] # "none"
    /\ destroy.at = "mark" => session[destroy.vm] # "none"
    /\ destroy.at \in {"staged", "row"} => \A c \in destroy.todo : c \in Clones /\ build[c] = "done"
    /\ destroy.at = "row" => build[destroy.vm] = "done" /\ destroy.vm \notin staged
    /\ purge.at = "row" => build[purge.vm] = "done"
    /\ purge.at = "machine" => build[purge.vm] = "done" /\ purge.vm \notin staged
    /\ \A c \in sweep.todo \cup sweep.deleted : build[c] \notin {"none", "found"}

Basis == TypeOK /\ Shapes /\ Linked

\* Every step keeps to the types and to that order.
LEMMA BasisStep ==
    ASSUME Basis, [Next]_vars
    PROVE  Basis'
<1> USE DeskAssumption
    DEF TypeOK, Shapes, Linked, Basis, InFlight, LiveStates, cluster, pool,
        portal, cleanup, starts, screen, duties, Others
<1>0. ASSUME NEW c \in Clones, FindTile(c) PROVE Basis'
  BY <1>0 DEF FindTile, Enabled, Build
<1>1. ASSUME NEW c \in Clones, Clone(c) PROVE Basis'
  BY <1>1 DEF Clone, Exists, Build
<1>2. ASSUME NEW c \in Clones, Boots(c) PROVE Basis'
  BY <1>2 DEF Boots, Build
<1>3. ASSUME NEW c \in Clones, Publish(c) PROVE Basis'
  BY <1>3 DEF Publish, Build
<1>4. ASSUME NEW c \in Clones, BuildFails(c) PROVE Basis'
  BY <1>4 DEF BuildFails, Build, Exists
<1>5. ASSUME NEW r \in Requests, Ask(r) PROVE Basis'
  BY <1>5 DEF Ask, Goes
<1>6. ASSUME NEW r \in Requests, ReadQuota(r) PROVE Basis'
  <2>1. req' \in [Requests -> InFlight \cup {"idle", "asked", "leaving", "done"}]
        /\ UNCHANGED <<cluster, pool, held, lock, cleanup, screen, duties, told>>
    BY <1>6 DEF ReadQuota, Goes
  <2> DEFINE others == {q \in User(UserOf[r]) \ {r} : req[q] \in InFlight}
             now    == past.overlap \/ others # {}
  <2>a. now \in BOOLEAN
    BY Zenon
  <2>b. past' = past \/ past' = [past EXCEPT !.overlap = now]
    BY <1>6, Zenon DEF ReadQuota
  <2> HIDE DEF now
  <2>2. past' \in [lost : SUBSET (Clones \cup {Image}), stray : SUBSET Clones,
                  overlap : BOOLEAN, expired : BOOLEAN]
    BY <2>a, <2>b
  <2> QED
    BY <1>6, <2>1, <2>2 DEF ReadQuota, Goes
<1>7. ASSUME NEW r \in Requests, TakeLock(r) PROVE Basis'
  BY <1>7 DEF TakeLock, Goes
<1>8. ASSUME NEW r \in Requests, ClaimStaged(r) PROVE Basis'
  BY <1>8 DEF ClaimStaged, Goes
<1>9. ASSUME NEW r \in Requests, InsertSession(r) PROVE Basis'
  BY <1>9 DEF InsertSession, Goes
<1>10. ASSUME NEW r \in Requests, Leave(r) PROVE Basis'
  BY <1>10 DEF Leave, Goes
<1>11. ASSUME NEW r \in Requests, DemoClear(r) PROVE Basis'
  BY <1>11 DEF DemoClear
<1>12. ASSUME NEW r \in Requests, DemoSet(r) PROVE Basis'
  BY <1>12 DEF DemoSet
<1>13. ASSUME NEW r \in Requests, DemoStop(r) PROVE Basis'
  BY <1>13 DEF DemoStop
<1>14. ASSUME NEW r \in Requests, CleanupStart(r) PROVE Basis'
  BY <1>14 DEF CleanupStart
<1>15. ASSUME NEW r \in Requests, CleanupDelete(r) PROVE Basis'
  BY <1>15
  DEF CleanupDelete, Forget, Removed, Missing, Refused, Exists
<1>16. ASSUME NEW r \in Requests, CleanupStop(r) PROVE Basis'
  BY <1>16 DEF CleanupStop
<1>17. ASSUME NEW u \in Users, LockExpires(u) PROVE Basis'
  <2>1. past' \in [lost : SUBSET (Clones \cup {Image}), stray : SUBSET Clones,
                  overlap : BOOLEAN, expired : BOOLEAN]
    BY <1>17 DEF LockExpires
  <2>2. TypeOK'
    BY <1>17 DEF LockExpires
  <2>3. Shapes'
    BY <1>17, <2>1 DEF LockExpires
  <2>4. Linked'
    BY <1>17 DEF LockExpires
  <2> QED
    BY <2>2, <2>3, <2>4
<1>18. ASSUME NEW h \in BOOLEAN, SetHidden(h) PROVE Basis'
  BY <1>18 DEF SetHidden
<1>19. CASE DestroyBegin
  <2>1. tile' \in [source : {"yaml", "imported"}, listed : BOOLEAN, hidden : BOOLEAN]
    BY <1>19 DEF DestroyBegin, DestroyAt
  <2>2. TypeOK'
    BY <1>19 DEF DestroyBegin, DestroyAt
  <2>3. Shapes'
    BY <1>19, <2>1 DEF DestroyBegin, DestroyAt
  <2>4. Linked'
    BY <1>19 DEF DestroyBegin, DestroyAt
  <2> QED
    BY <2>2, <2>3, <2>4
<1>20. CASE ListSessions
  BY <1>20 DEF ListSessions, DestroyAt, LiveStates
<1>21. ASSUME NEW r \in Requests, DestroySession(r) PROVE Basis'
  BY <1>21
  DEF DestroySession, DestroyAt, DestroyVm, Removed, Missing, Refused,
      Complain, Exists
<1>22. CASE MarkStopped
  BY <1>22 DEF MarkStopped, DestroyAt
<1>23. CASE ListStaged
  BY <1>23 DEF ListStaged, DestroyAt
<1>24. ASSUME NEW c \in Clones, DestroyRow(c) PROVE Basis'
  BY <1>24 DEF DestroyRow, DestroyAt
<1>25. CASE DestroyStaged
  BY <1>25
  DEF DestroyStaged, DestroyAt, DestroyVm, Removed, Missing, Refused,
      Complain, Exists
<1>26. CASE DestroyImage
  BY <1>26
  DEF DestroyImage, DestroyAt, DestroyVm, Removed, Missing, Refused, Complain,
      Exists, ImageUnseen
<1>27. CASE RemoveTile
  <2>1. tile' \in [source : {"yaml", "imported"}, listed : BOOLEAN, hidden : BOOLEAN]
    BY <1>27 DEF RemoveTile, DestroyAt
  <2>2. TypeOK'
    BY <1>27 DEF RemoveTile, DestroyAt
  <2>3. Shapes'
    BY <1>27, <2>1 DEF RemoveTile, DestroyAt
  <2>4. Linked'
    BY <1>27 DEF RemoveTile, DestroyAt
  <2> QED
    BY <2>2, <2>3, <2>4
<1>28. CASE SweepProtect
  BY <1>28 DEF SweepProtect, SweepAt, LiveStates
<1>29. CASE SweepList
  BY <1>29 DEF SweepList, SweepAt, Listed, Exists
<1>30. ASSUME NEW c \in Clones, SweepOne(c) PROVE Basis'
  BY <1>30
  DEF SweepOne, SweepAt, Forget, Removed, Missing, Refused, Complain, Exists
<1>31. CASE SweepSessions
  BY <1>31 DEF SweepSessions, SweepAt
<1>32. CASE SweepRows
  BY <1>32 DEF SweepRows, SweepAt
<1>33. CASE PurgeBegin
  BY <1>33 DEF PurgeBegin, PurgeAt
<1>34. ASSUME NEW c \in Clones, PurgeRead(c) PROVE Basis'
  BY <1>34 DEF PurgeRead, PurgeAt
<1>35. CASE PurgeRow
  BY <1>35 DEF PurgeRow, PurgeAt
<1>36. CASE PurgeVm
  BY <1>36
  DEF PurgeVm, PurgeAt, Forget, Removed, Missing, Refused, Complain, Exists
<1>37. CASE UNCHANGED vars
  BY <1>37 DEF vars
<1> HIDE DEF TypeOK, Shapes, Linked, Basis
<1> QED
  BY <1>0, <1>1, <1>2, <1>3, <1>4, <1>5, <1>6, <1>7, <1>8, <1>9, <1>10, <1>11,
     <1>12, <1>13, <1>14, <1>15, <1>16, <1>17, <1>18, <1>19, <1>20, <1>21,
     <1>22, <1>23, <1>24, <1>25, <1>26, <1>27, <1>28, <1>29, <1>30, <1>31,
     <1>32, <1>33, <1>34, <1>35, <1>36, <1>37
  DEF Next, Portal, DestroyTemplate, Sweep, Purge

\* What there is at first is in order.
LEMMA BasisInit ==
    ASSUME Init
    PROVE  Basis
<1> USE DeskAssumption DEF Init
<1>1. TypeOK
  BY DEF TypeOK, InFlight, LiveStates
<1>2. Shapes
  BY DEF Shapes
<1>3. Linked
  BY DEF Linked
<1> QED
  BY <1>1, <1>2, <1>3 DEF Basis

\* TypeOK holds in every state.
THEOREM TypeCorrect == Spec => []TypeOK
<1>1. Init => Basis
  BY BasisInit
<1>2. Basis /\ [Next]_vars => Basis'
  BY BasisStep
<1>3. Basis => TypeOK
  BY DEF Basis
<1> QED
  BY <1>1, <1>2, <1>3, PTL DEF Spec

-----------------------------------------------------------------------------
(* What has been deleted *)

\* Not there, or given up on.
Left(vm) == ~Exists(vm) \/ vm \in past.lost

\* What a procedure takes for deleted, after the step that deletes it.
Deleted ==
    /\ \A r \in Requests : work[r] = "stopping" => Left(held[r])
    /\ destroy.at = "mark" => Left(held[destroy.vm]) \/ held[destroy.vm] \in told
    /\ \A c \in sweep.deleted : Left(c)
    /\ destroy.at \in {"image", "done"} => Left(Image) \/ Image \in told

\* A clone that was deleted is not built again: its job is over.
LEMMA DeletedStep ==
    ASSUME Basis, Deleted, [Next]_vars
    PROVE  Deleted'
<1> USE DeskAssumption
    DEF TypeOK, Shapes, Linked, Basis, Deleted, Left, Exists, InFlight,
        LiveStates, cluster, pool, portal, cleanup, starts, screen, duties, Others
<1>0. ASSUME NEW c \in Clones, FindTile(c) PROVE Deleted'
  BY <1>0 DEF FindTile, Enabled, Build
<1>1. ASSUME NEW c \in Clones, Clone(c) PROVE Deleted'
  BY <1>1 DEF Clone, Build
<1>2. ASSUME NEW c \in Clones, Boots(c) PROVE Deleted'
  BY <1>2 DEF Boots, Build
<1>3. ASSUME NEW c \in Clones, Publish(c) PROVE Deleted'
  BY <1>3 DEF Publish, Build
<1>4. ASSUME NEW c \in Clones, BuildFails(c) PROVE Deleted'
  BY <1>4 DEF BuildFails, Build
<1>5. ASSUME NEW r \in Requests, Ask(r) PROVE Deleted'
  BY <1>5 DEF Ask, Goes
<1>6. ASSUME NEW r \in Requests, ReadQuota(r) PROVE Deleted'
  BY <1>6 DEF ReadQuota, Goes
<1>7. ASSUME NEW r \in Requests, TakeLock(r) PROVE Deleted'
  BY <1>7 DEF TakeLock, Goes
<1>8. ASSUME NEW r \in Requests, ClaimStaged(r) PROVE Deleted'
  BY <1>8 DEF ClaimStaged, Goes
<1>9. ASSUME NEW r \in Requests, InsertSession(r) PROVE Deleted'
  BY <1>9 DEF InsertSession, Goes
<1>10. ASSUME NEW r \in Requests, Leave(r) PROVE Deleted'
  BY <1>10 DEF Leave, Goes
<1>11. ASSUME NEW r \in Requests, DemoClear(r) PROVE Deleted'
  BY <1>11 DEF DemoClear
<1>12. ASSUME NEW r \in Requests, DemoSet(r) PROVE Deleted'
  BY <1>12 DEF DemoSet
<1>13. ASSUME NEW r \in Requests, DemoStop(r) PROVE Deleted'
  BY <1>13 DEF DemoStop
<1>14. ASSUME NEW r \in Requests, CleanupStart(r) PROVE Deleted'
  BY <1>14 DEF CleanupStart
<1>15. ASSUME NEW r \in Requests, CleanupDelete(r) PROVE Deleted'
  BY <1>15 DEF CleanupDelete, Forget, Removed, Missing, Refused
<1>16. ASSUME NEW r \in Requests, CleanupStop(r) PROVE Deleted'
  BY <1>16 DEF CleanupStop
<1>17. ASSUME NEW u \in Users, LockExpires(u) PROVE Deleted'
  BY <1>17 DEF LockExpires
<1>18. ASSUME NEW h \in BOOLEAN, SetHidden(h) PROVE Deleted'
  BY <1>18 DEF SetHidden
<1>19. CASE DestroyBegin
  BY <1>19 DEF DestroyBegin, DestroyAt
<1>20. CASE ListSessions
  BY <1>20 DEF ListSessions, DestroyAt, LiveStates
<1>21. ASSUME NEW r \in Requests, DestroySession(r) PROVE Deleted'
  BY <1>21
  DEF DestroySession, DestroyAt, DestroyVm, Removed, Missing, Refused,
      Complain
<1>22. CASE MarkStopped
  BY <1>22 DEF MarkStopped, DestroyAt
<1>23. CASE ListStaged
  BY <1>23 DEF ListStaged, DestroyAt
<1>24. ASSUME NEW c \in Clones, DestroyRow(c) PROVE Deleted'
  BY <1>24 DEF DestroyRow, DestroyAt
<1>25. CASE DestroyStaged
  BY <1>25
  DEF DestroyStaged, DestroyAt, DestroyVm, Removed, Missing, Refused, Complain
<1>26. CASE DestroyImage
  BY <1>26
  DEF DestroyImage, DestroyAt, DestroyVm, Removed, Missing, Refused, Complain,
      ImageUnseen
<1>27. CASE RemoveTile
  BY <1>27 DEF RemoveTile, DestroyAt
<1>28. CASE SweepProtect
  BY <1>28 DEF SweepProtect, SweepAt, LiveStates
<1>29. CASE SweepList
  BY <1>29 DEF SweepList, SweepAt, Listed
<1>30. ASSUME NEW c \in Clones, SweepOne(c) PROVE Deleted'
  BY <1>30
  DEF SweepOne, SweepAt, Forget, Removed, Missing, Refused, Complain
<1>31. CASE SweepSessions
  BY <1>31 DEF SweepSessions, SweepAt
<1>32. CASE SweepRows
  BY <1>32 DEF SweepRows, SweepAt
<1>33. CASE PurgeBegin
  BY <1>33 DEF PurgeBegin, PurgeAt
<1>34. ASSUME NEW c \in Clones, PurgeRead(c) PROVE Deleted'
  BY <1>34 DEF PurgeRead, PurgeAt
<1>35. CASE PurgeRow
  BY <1>35 DEF PurgeRow, PurgeAt
<1>36. CASE PurgeVm
  BY <1>36
  DEF PurgeVm, PurgeAt, Forget, Removed, Missing, Refused, Complain
<1>37. CASE UNCHANGED vars
  BY <1>37 DEF vars
<1> HIDE DEF Deleted, Left, Basis
<1> QED
  BY <1>0, <1>1, <1>2, <1>3, <1>4, <1>5, <1>6, <1>7, <1>8, <1>9, <1>10, <1>11,
     <1>12, <1>13, <1>14, <1>15, <1>16, <1>17, <1>18, <1>19, <1>20, <1>21,
     <1>22, <1>23, <1>24, <1>25, <1>26, <1>27, <1>28, <1>29, <1>30, <1>31,
     <1>32, <1>33, <1>34, <1>35, <1>36, <1>37
  DEF Next, Portal, DestroyTemplate, Sweep, Purge

-----------------------------------------------------------------------------
(* No machine without somebody *)

\* Who answers for a clone that exists.
WithSomeone(c) ==
    \/ build[c] \in {"cloned", "booted"}
    \/ c \in staged \cup told \cup past.lost
    \/ destroy.at = "row" /\ destroy.vm = c
    \/ purge.at = "machine" /\ purge.vm = c
    \/ \E r \in Requests :
          held[r] = c /\ (session[r] \in {"none", "stopped"} => req[r] = "holding")

Accounted == \A c \in Clones : Exists(c) => WithSomeone(c) /\ c \in claims \cup past.lost

\* Whoever lets go of a clone has deleted it or handed it on.
LEMMA AccountedStep ==
    ASSUME Basis, Deleted, Accounted, [Next]_vars
    PROVE  Accounted'
<1> USE DeskAssumption
    DEF TypeOK, Shapes, Linked, Basis, Deleted, Left, Accounted, WithSomeone,
        Exists, InFlight, LiveStates, cluster, pool, portal, cleanup, starts, screen,
        duties, Others
<1>0. ASSUME NEW c \in Clones, FindTile(c) PROVE Accounted'
  BY <1>0 DEF FindTile, Enabled, Build
<1>1. ASSUME NEW c \in Clones, Clone(c) PROVE Accounted'
  BY <1>1 DEF Clone, Build
<1>2. ASSUME NEW c \in Clones, Boots(c) PROVE Accounted'
  BY <1>2 DEF Boots, Build
<1>3. ASSUME NEW c \in Clones, Publish(c) PROVE Accounted'
  BY <1>3 DEF Publish, Build
<1>4. ASSUME NEW c \in Clones, BuildFails(c) PROVE Accounted'
  BY <1>4 DEF BuildFails, Build
<1>5. ASSUME NEW r \in Requests, Ask(r) PROVE Accounted'
  BY <1>5 DEF Ask, Goes
<1>6. ASSUME NEW r \in Requests, ReadQuota(r) PROVE Accounted'
  BY <1>6 DEF ReadQuota, Goes
<1>7. ASSUME NEW r \in Requests, TakeLock(r) PROVE Accounted'
  BY <1>7 DEF TakeLock, Goes
<1>8. ASSUME NEW r \in Requests, ClaimStaged(r) PROVE Accounted'
  BY <1>8 DEF ClaimStaged, Goes
<1>9. ASSUME NEW r \in Requests, InsertSession(r) PROVE Accounted'
  BY <1>9 DEF InsertSession, Goes
<1>10. ASSUME NEW r \in Requests, Leave(r) PROVE Accounted'
  BY <1>10 DEF Leave, Goes
<1>11. ASSUME NEW r \in Requests, DemoClear(r) PROVE Accounted'
  BY <1>11 DEF DemoClear
<1>12. ASSUME NEW r \in Requests, DemoSet(r) PROVE Accounted'
  BY <1>12 DEF DemoSet
<1>13. ASSUME NEW r \in Requests, DemoStop(r) PROVE Accounted'
  BY <1>13 DEF DemoStop
<1>14. ASSUME NEW r \in Requests, CleanupStart(r) PROVE Accounted'
  BY <1>14 DEF CleanupStart
<1>15. ASSUME NEW r \in Requests, CleanupDelete(r) PROVE Accounted'
  BY <1>15 DEF CleanupDelete, Forget, Removed, Missing, Refused
<1>16. ASSUME NEW r \in Requests, CleanupStop(r) PROVE Accounted'
  BY <1>16 DEF CleanupStop
<1>17. ASSUME NEW u \in Users, LockExpires(u) PROVE Accounted'
  BY <1>17 DEF LockExpires
<1>18. ASSUME NEW h \in BOOLEAN, SetHidden(h) PROVE Accounted'
  BY <1>18 DEF SetHidden
<1>19. CASE DestroyBegin
  BY <1>19 DEF DestroyBegin, DestroyAt
<1>20. CASE ListSessions
  BY <1>20 DEF ListSessions, DestroyAt, LiveStates
<1>21. ASSUME NEW r \in Requests, DestroySession(r) PROVE Accounted'
  BY <1>21
  DEF DestroySession, DestroyAt, DestroyVm, Removed, Missing, Refused,
      Complain
<1>22. CASE MarkStopped
  BY <1>22 DEF MarkStopped, DestroyAt
<1>23. CASE ListStaged
  BY <1>23 DEF ListStaged, DestroyAt
<1>24. ASSUME NEW c \in Clones, DestroyRow(c) PROVE Accounted'
  BY <1>24 DEF DestroyRow, DestroyAt
<1>25. CASE DestroyStaged
  BY <1>25
  DEF DestroyStaged, DestroyAt, DestroyVm, Removed, Missing, Refused, Complain
<1>26. CASE DestroyImage
  BY <1>26
  DEF DestroyImage, DestroyAt, DestroyVm, Removed, Missing, Refused, Complain,
      ImageUnseen
<1>27. CASE RemoveTile
  BY <1>27 DEF RemoveTile, DestroyAt
<1>28. CASE SweepProtect
  BY <1>28 DEF SweepProtect, SweepAt, LiveStates
<1>29. CASE SweepList
  BY <1>29 DEF SweepList, SweepAt, Listed
<1>30. ASSUME NEW c \in Clones, SweepOne(c) PROVE Accounted'
  BY <1>30
  DEF SweepOne, SweepAt, Forget, Removed, Missing, Refused, Complain
<1>31. CASE SweepSessions
  BY <1>31 DEF SweepSessions, SweepAt
<1>32. CASE SweepRows
  BY <1>32 DEF SweepRows, SweepAt
<1>33. CASE PurgeBegin
  BY <1>33 DEF PurgeBegin, PurgeAt
<1>34. ASSUME NEW c \in Clones, PurgeRead(c) PROVE Accounted'
  BY <1>34 DEF PurgeRead, PurgeAt
<1>35. CASE PurgeRow
  BY <1>35 DEF PurgeRow, PurgeAt
<1>36. CASE PurgeVm
  BY <1>36
  DEF PurgeVm, PurgeAt, Forget, Removed, Missing, Refused, Complain
<1>37. CASE UNCHANGED vars
  BY <1>37 DEF vars
<1> HIDE DEF Accounted, WithSomeone, Deleted, Left, Basis
<1> QED
  BY <1>0, <1>1, <1>2, <1>3, <1>4, <1>5, <1>6, <1>7, <1>8, <1>9, <1>10, <1>11,
     <1>12, <1>13, <1>14, <1>15, <1>16, <1>17, <1>18, <1>19, <1>20, <1>21,
     <1>22, <1>23, <1>24, <1>25, <1>26, <1>27, <1>28, <1>29, <1>30, <1>31,
     <1>32, <1>33, <1>34, <1>35, <1>36, <1>37
  DEF Next, Portal, DestroyTemplate, Sweep, Purge

\* At first a clone is claimed and offered, or does not exist.
LEMMA AccountedInit ==
    ASSUME Init
    PROVE  Deleted /\ Accounted
<1> USE DeskAssumption DEF Init
<1>1. Deleted
  BY DEF Deleted
<1>2. Accounted
  BY DEF Accounted, WithSomeone, Exists
<1> QED
  BY <1>1, <1>2

\* No machine is forgotten without a word: AccountedFor holds in every state.
THEOREM NothingForgotten == Spec => []AccountedFor
<1>1. Init => Basis /\ Deleted /\ Accounted
  BY BasisInit, AccountedInit
<1>2. Basis /\ Deleted /\ Accounted /\ [Next]_vars => (Basis /\ Deleted /\ Accounted)'
  BY BasisStep, DeletedStep, AccountedStep
<1>3. Deleted /\ Accounted => AccountedFor
  BY DEF Deleted, Left, Accounted, WithSomeone, AccountedFor, Exists
<1> QED
  BY <1>1, <1>2, <1>3, PTL DEF Spec

-----------------------------------------------------------------------------
(* What is offered runs *)

\* It runs, or it is known that it does not.
Excused(c) ==
    \/ machine[c] = "running"
    \/ c \in told \cup past.lost \cup past.stray
    \/ sweep.at \in {"loop", "rows"} /\ c \in sweep.deleted

\* A clone that is booted will be offered.
Offered ==
    /\ \A c \in Clones : c \in staged \/ build[c] = "booted" => Excused(c)
    /\ sweep.at # "done" => past.stray = {}

\* Who deletes what is offered, or might be, leaves a word.
LEMMA OfferedStep ==
    ASSUME Basis, Offered, [Next]_vars
    PROVE  Offered'
<1> USE DeskAssumption
    DEF TypeOK, Shapes, Linked, Basis, InFlight, LiveStates, cluster, pool,
        portal, cleanup, starts, screen, duties, Others, Offered, Excused, Exists
<1>0. ASSUME NEW c \in Clones, FindTile(c) PROVE Offered'
  BY <1>0 DEF FindTile, Enabled, Build
<1>1. ASSUME NEW c \in Clones, Clone(c) PROVE Offered'
  BY <1>1 DEF Clone, Build
<1>2. ASSUME NEW c \in Clones, Boots(c) PROVE Offered'
  BY <1>2 DEF Boots, Build
<1>3. ASSUME NEW c \in Clones, Publish(c) PROVE Offered'
  BY <1>3 DEF Publish, Build
<1>4. ASSUME NEW c \in Clones, BuildFails(c) PROVE Offered'
  BY <1>4 DEF BuildFails, Build
<1>5. ASSUME NEW r \in Requests, Ask(r) PROVE Offered'
  BY <1>5 DEF Ask, Goes
<1>6. ASSUME NEW r \in Requests, ReadQuota(r) PROVE Offered'
  BY <1>6 DEF ReadQuota, Goes
<1>7. ASSUME NEW r \in Requests, TakeLock(r) PROVE Offered'
  BY <1>7 DEF TakeLock, Goes
<1>8. ASSUME NEW r \in Requests, ClaimStaged(r) PROVE Offered'
  BY <1>8 DEF ClaimStaged, Goes
<1>9. ASSUME NEW r \in Requests, InsertSession(r) PROVE Offered'
  BY <1>9 DEF InsertSession, Goes
<1>10. ASSUME NEW r \in Requests, Leave(r) PROVE Offered'
  BY <1>10 DEF Leave, Goes
<1>11. ASSUME NEW r \in Requests, DemoClear(r) PROVE Offered'
  BY <1>11 DEF DemoClear
<1>12. ASSUME NEW r \in Requests, DemoSet(r) PROVE Offered'
  BY <1>12 DEF DemoSet
<1>13. ASSUME NEW r \in Requests, DemoStop(r) PROVE Offered'
  BY <1>13 DEF DemoStop
<1>14. ASSUME NEW r \in Requests, CleanupStart(r) PROVE Offered'
  BY <1>14 DEF CleanupStart
<1>15. ASSUME NEW r \in Requests, CleanupDelete(r) PROVE Offered'
  BY <1>15 DEF CleanupDelete, Forget, Removed, Missing, Refused
<1>16. ASSUME NEW r \in Requests, CleanupStop(r) PROVE Offered'
  BY <1>16 DEF CleanupStop
<1>17. ASSUME NEW u \in Users, LockExpires(u) PROVE Offered'
  BY <1>17 DEF LockExpires
<1>18. ASSUME NEW h \in BOOLEAN, SetHidden(h) PROVE Offered'
  BY <1>18 DEF SetHidden
<1>19. CASE DestroyBegin
  BY <1>19 DEF DestroyBegin, DestroyAt
<1>20. CASE ListSessions
  BY <1>20 DEF ListSessions, DestroyAt, LiveStates
<1>21. ASSUME NEW r \in Requests, DestroySession(r) PROVE Offered'
  BY <1>21
  DEF DestroySession, DestroyAt, DestroyVm, Removed, Missing, Refused,
      Complain
<1>22. CASE MarkStopped
  BY <1>22 DEF MarkStopped, DestroyAt
<1>23. CASE ListStaged
  BY <1>23 DEF ListStaged, DestroyAt
<1>24. ASSUME NEW c \in Clones, DestroyRow(c) PROVE Offered'
  BY <1>24 DEF DestroyRow, DestroyAt
<1>25. CASE DestroyStaged
  BY <1>25
  DEF DestroyStaged, DestroyAt, DestroyVm, Removed, Missing, Refused, Complain
<1>26. CASE DestroyImage
  BY <1>26
  DEF DestroyImage, DestroyAt, DestroyVm, Removed, Missing, Refused, Complain,
      ImageUnseen
<1>27. CASE RemoveTile
  BY <1>27 DEF RemoveTile, DestroyAt
<1>28. CASE SweepProtect
  BY <1>28 DEF SweepProtect, SweepAt, LiveStates
<1>29. CASE SweepList
  BY <1>29 DEF SweepList, SweepAt, Listed
<1>30. ASSUME NEW c \in Clones, SweepOne(c) PROVE Offered'
  BY <1>30
  DEF SweepOne, SweepAt, Forget, Removed, Missing, Refused, Complain
<1>31. CASE SweepSessions
  BY <1>31 DEF SweepSessions, SweepAt
<1>32. CASE SweepRows
  BY <1>32 DEF SweepRows, SweepAt
<1>33. CASE PurgeBegin
  BY <1>33 DEF PurgeBegin, PurgeAt
<1>34. ASSUME NEW c \in Clones, PurgeRead(c) PROVE Offered'
  BY <1>34 DEF PurgeRead, PurgeAt
<1>35. CASE PurgeRow
  BY <1>35 DEF PurgeRow, PurgeAt
<1>36. CASE PurgeVm
  BY <1>36
  DEF PurgeVm, PurgeAt, Forget, Removed, Missing, Refused, Complain
<1>37. CASE UNCHANGED vars
  BY <1>37 DEF vars
<1> HIDE DEF Offered, Excused, Basis
<1> QED
  BY <1>0, <1>1, <1>2, <1>3, <1>4, <1>5, <1>6, <1>7, <1>8, <1>9, <1>10, <1>11,
     <1>12, <1>13, <1>14, <1>15, <1>16, <1>17, <1>18, <1>19, <1>20, <1>21,
     <1>22, <1>23, <1>24, <1>25, <1>26, <1>27, <1>28, <1>29, <1>30, <1>31,
     <1>32, <1>33, <1>34, <1>35, <1>36, <1>37
  DEF Next, Portal, DestroyTemplate, Sweep, Purge

\* What a student is offered is there: ReadyIsThere holds in every state.
THEOREM OffersRun == Spec => []ReadyIsThere
<1>1. Init => Basis /\ Offered
  <2> SUFFICES ASSUME Init PROVE Offered
    BY BasisInit
  <2> QED
    BY DeskAssumption DEF Init, Offered, Excused
<1>2. Basis /\ Offered /\ [Next]_vars => (Basis /\ Offered)'
  BY BasisStep, OfferedStep
<1>3. Basis /\ Offered => ReadyIsThere
  BY DEF Basis, TypeOK, Offered, Excused, ReadyIsThere
<1> QED
  BY <1>1, <1>2, <1>3, PTL DEF Spec

-----------------------------------------------------------------------------
(* One demo at a time *)

\* The session that was shown last has been running.
DemoKept == OneDemo /\ (shown # None => session[shown] # "none")

\* A start that finds a flag that it has not cleared leaves it alone.
LEMMA DemoStep ==
    ASSUME Basis, DemoKept, [Next]_vars
    PROVE  DemoKept'
<1> USE DeskAssumption
    DEF TypeOK, Shapes, Linked, Basis, InFlight, LiveStates, cluster, pool,
        portal, cleanup, starts, screen, duties, Others, OneDemo, DemoKept
<1>0. ASSUME NEW c \in Clones, FindTile(c) PROVE DemoKept'
  BY <1>0 DEF FindTile, Enabled, Build
<1>1. ASSUME NEW c \in Clones, Clone(c) PROVE DemoKept'
  BY <1>1 DEF Clone, Build
<1>2. ASSUME NEW c \in Clones, Boots(c) PROVE DemoKept'
  BY <1>2 DEF Boots, Build
<1>3. ASSUME NEW c \in Clones, Publish(c) PROVE DemoKept'
  BY <1>3 DEF Publish, Build
<1>4. ASSUME NEW c \in Clones, BuildFails(c) PROVE DemoKept'
  BY <1>4 DEF BuildFails, Build
<1>5. ASSUME NEW r \in Requests, Ask(r) PROVE DemoKept'
  BY <1>5 DEF Ask, Goes
<1>6. ASSUME NEW r \in Requests, ReadQuota(r) PROVE DemoKept'
  BY <1>6 DEF ReadQuota, Goes
<1>7. ASSUME NEW r \in Requests, TakeLock(r) PROVE DemoKept'
  BY <1>7 DEF TakeLock, Goes
<1>8. ASSUME NEW r \in Requests, ClaimStaged(r) PROVE DemoKept'
  BY <1>8 DEF ClaimStaged, Goes
<1>9. ASSUME NEW r \in Requests, InsertSession(r) PROVE DemoKept'
  BY <1>9 DEF InsertSession, Goes
<1>10. ASSUME NEW r \in Requests, Leave(r) PROVE DemoKept'
  BY <1>10 DEF Leave, Goes
<1>11. ASSUME NEW r \in Requests, DemoClear(r) PROVE DemoKept'
  BY <1>11 DEF DemoClear
<1>12. ASSUME NEW r \in Requests, DemoSet(r) PROVE DemoKept'
  BY <1>12 DEF DemoSet
<1>13. ASSUME NEW r \in Requests, DemoStop(r) PROVE DemoKept'
  BY <1>13 DEF DemoStop
<1>14. ASSUME NEW r \in Requests, CleanupStart(r) PROVE DemoKept'
  BY <1>14 DEF CleanupStart
<1>15. ASSUME NEW r \in Requests, CleanupDelete(r) PROVE DemoKept'
  BY <1>15 DEF CleanupDelete, Forget, Removed, Missing, Refused
<1>16. ASSUME NEW r \in Requests, CleanupStop(r) PROVE DemoKept'
  BY <1>16 DEF CleanupStop
<1>17. ASSUME NEW u \in Users, LockExpires(u) PROVE DemoKept'
  BY <1>17 DEF LockExpires
<1>18. ASSUME NEW h \in BOOLEAN, SetHidden(h) PROVE DemoKept'
  BY <1>18 DEF SetHidden
<1>19. CASE DestroyBegin
  BY <1>19 DEF DestroyBegin, DestroyAt
<1>20. CASE ListSessions
  BY <1>20 DEF ListSessions, DestroyAt, LiveStates
<1>21. ASSUME NEW r \in Requests, DestroySession(r) PROVE DemoKept'
  BY <1>21
  DEF DestroySession, DestroyAt, DestroyVm, Removed, Missing, Refused,
      Complain
<1>22. CASE MarkStopped
  BY <1>22 DEF MarkStopped, DestroyAt
<1>23. CASE ListStaged
  BY <1>23 DEF ListStaged, DestroyAt
<1>24. ASSUME NEW c \in Clones, DestroyRow(c) PROVE DemoKept'
  BY <1>24 DEF DestroyRow, DestroyAt
<1>25. CASE DestroyStaged
  BY <1>25
  DEF DestroyStaged, DestroyAt, DestroyVm, Removed, Missing, Refused, Complain
<1>26. CASE DestroyImage
  BY <1>26
  DEF DestroyImage, DestroyAt, DestroyVm, Removed, Missing, Refused, Complain,
      ImageUnseen
<1>27. CASE RemoveTile
  BY <1>27 DEF RemoveTile, DestroyAt
<1>28. CASE SweepProtect
  BY <1>28 DEF SweepProtect, SweepAt, LiveStates
<1>29. CASE SweepList
  BY <1>29 DEF SweepList, SweepAt, Listed
<1>30. ASSUME NEW c \in Clones, SweepOne(c) PROVE DemoKept'
  BY <1>30
  DEF SweepOne, SweepAt, Forget, Removed, Missing, Refused, Complain
<1>31. CASE SweepSessions
  BY <1>31 DEF SweepSessions, SweepAt
<1>32. CASE SweepRows
  BY <1>32 DEF SweepRows, SweepAt
<1>33. CASE PurgeBegin
  BY <1>33 DEF PurgeBegin, PurgeAt
<1>34. ASSUME NEW c \in Clones, PurgeRead(c) PROVE DemoKept'
  BY <1>34 DEF PurgeRead, PurgeAt
<1>35. CASE PurgeRow
  BY <1>35 DEF PurgeRow, PurgeAt
<1>36. CASE PurgeVm
  BY <1>36
  DEF PurgeVm, PurgeAt, Forget, Removed, Missing, Refused, Complain
<1>37. CASE UNCHANGED vars
  BY <1>37 DEF vars
<1> HIDE DEF DemoKept, Basis
<1> QED
  BY <1>0, <1>1, <1>2, <1>3, <1>4, <1>5, <1>6, <1>7, <1>8, <1>9, <1>10, <1>11,
     <1>12, <1>13, <1>14, <1>15, <1>16, <1>17, <1>18, <1>19, <1>20, <1>21,
     <1>22, <1>23, <1>24, <1>25, <1>26, <1>27, <1>28, <1>29, <1>30, <1>31,
     <1>32, <1>33, <1>34, <1>35, <1>36, <1>37
  DEF Next, Portal, DestroyTemplate, Sweep, Purge

\* One demo at a time, and overlapping starts leave it on: OneDemo holds in
\* every state.
THEOREM OneDemoShown == Spec => []OneDemo
<1>1. Init => Basis /\ DemoKept
  <2> SUFFICES ASSUME Init PROVE DemoKept
    BY BasisInit
  <2> QED
    BY DEF Init, DemoKept, OneDemo
<1>2. Basis /\ DemoKept /\ [Next]_vars => (Basis /\ DemoKept)'
  BY BasisStep, DemoStep
<1>3. DemoKept => OneDemo
  BY DEF DemoKept
<1> QED
  BY <1>1, <1>2, <1>3, PTL DEF Spec

-----------------------------------------------------------------------------
(* One request of a user at a time *)

\* As long as it has not expired, the lock is that of the one request which
\* is past it and has not left.
Holders == {"locked", "holding", "leaving"}
LockHeld ==
    ~past.expired => \A r \in Requests : req[r] \in Holders =>
        /\ UserOf[r] \in lock
        /\ \A q \in User(UserOf[r]) : req[q] \in Holders => q = r

\* Nobody takes the lock of a request that is past it, or deletes it.
LEMMA LockStep ==
    ASSUME Basis, LockHeld, [Next]_vars
    PROVE  LockHeld'
<1> USE DeskAssumption
    DEF TypeOK, Shapes, Linked, Basis, InFlight, LiveStates, cluster, pool,
        portal, cleanup, starts, screen, duties, Others, LockHeld, Holders, User
<1>0. ASSUME NEW c \in Clones, FindTile(c) PROVE LockHeld'
  BY <1>0 DEF FindTile, Enabled, Build
<1>1. ASSUME NEW c \in Clones, Clone(c) PROVE LockHeld'
  BY <1>1 DEF Clone, Build
<1>2. ASSUME NEW c \in Clones, Boots(c) PROVE LockHeld'
  BY <1>2 DEF Boots, Build
<1>3. ASSUME NEW c \in Clones, Publish(c) PROVE LockHeld'
  BY <1>3 DEF Publish, Build
<1>4. ASSUME NEW c \in Clones, BuildFails(c) PROVE LockHeld'
  BY <1>4 DEF BuildFails, Build
<1>5. ASSUME NEW r \in Requests, Ask(r) PROVE LockHeld'
  BY <1>5 DEF Ask, Goes
<1>6. ASSUME NEW r \in Requests, ReadQuota(r) PROVE LockHeld'
  BY <1>6 DEF ReadQuota, Goes
<1>7. ASSUME NEW r \in Requests, TakeLock(r) PROVE LockHeld'
  BY <1>7 DEF TakeLock, Goes
<1>8. ASSUME NEW r \in Requests, ClaimStaged(r) PROVE LockHeld'
  BY <1>8 DEF ClaimStaged, Goes
<1>9. ASSUME NEW r \in Requests, InsertSession(r) PROVE LockHeld'
  BY <1>9 DEF InsertSession, Goes
<1>10. ASSUME NEW r \in Requests, Leave(r) PROVE LockHeld'
  BY <1>10 DEF Leave, Goes
<1>11. ASSUME NEW r \in Requests, DemoClear(r) PROVE LockHeld'
  BY <1>11 DEF DemoClear
<1>12. ASSUME NEW r \in Requests, DemoSet(r) PROVE LockHeld'
  BY <1>12 DEF DemoSet
<1>13. ASSUME NEW r \in Requests, DemoStop(r) PROVE LockHeld'
  BY <1>13 DEF DemoStop
<1>14. ASSUME NEW r \in Requests, CleanupStart(r) PROVE LockHeld'
  BY <1>14 DEF CleanupStart
<1>15. ASSUME NEW r \in Requests, CleanupDelete(r) PROVE LockHeld'
  BY <1>15 DEF CleanupDelete, Forget, Removed, Missing, Refused
<1>16. ASSUME NEW r \in Requests, CleanupStop(r) PROVE LockHeld'
  BY <1>16 DEF CleanupStop
<1>17. ASSUME NEW u \in Users, LockExpires(u) PROVE LockHeld'
  BY <1>17 DEF LockExpires
<1>18. ASSUME NEW h \in BOOLEAN, SetHidden(h) PROVE LockHeld'
  BY <1>18 DEF SetHidden
<1>19. CASE DestroyBegin
  BY <1>19 DEF DestroyBegin, DestroyAt
<1>20. CASE ListSessions
  BY <1>20 DEF ListSessions, DestroyAt, LiveStates
<1>21. ASSUME NEW r \in Requests, DestroySession(r) PROVE LockHeld'
  BY <1>21
  DEF DestroySession, DestroyAt, DestroyVm, Removed, Missing, Refused,
      Complain
<1>22. CASE MarkStopped
  BY <1>22 DEF MarkStopped, DestroyAt
<1>23. CASE ListStaged
  BY <1>23 DEF ListStaged, DestroyAt
<1>24. ASSUME NEW c \in Clones, DestroyRow(c) PROVE LockHeld'
  BY <1>24 DEF DestroyRow, DestroyAt
<1>25. CASE DestroyStaged
  BY <1>25
  DEF DestroyStaged, DestroyAt, DestroyVm, Removed, Missing, Refused, Complain
<1>26. CASE DestroyImage
  BY <1>26
  DEF DestroyImage, DestroyAt, DestroyVm, Removed, Missing, Refused, Complain,
      ImageUnseen
<1>27. CASE RemoveTile
  BY <1>27 DEF RemoveTile, DestroyAt
<1>28. CASE SweepProtect
  BY <1>28 DEF SweepProtect, SweepAt, LiveStates
<1>29. CASE SweepList
  BY <1>29 DEF SweepList, SweepAt, Listed
<1>30. ASSUME NEW c \in Clones, SweepOne(c) PROVE LockHeld'
  BY <1>30
  DEF SweepOne, SweepAt, Forget, Removed, Missing, Refused, Complain
<1>31. CASE SweepSessions
  BY <1>31 DEF SweepSessions, SweepAt
<1>32. CASE SweepRows
  BY <1>32 DEF SweepRows, SweepAt
<1>33. CASE PurgeBegin
  BY <1>33 DEF PurgeBegin, PurgeAt
<1>34. ASSUME NEW c \in Clones, PurgeRead(c) PROVE LockHeld'
  BY <1>34 DEF PurgeRead, PurgeAt
<1>35. CASE PurgeRow
  BY <1>35 DEF PurgeRow, PurgeAt
<1>36. CASE PurgeVm
  BY <1>36
  DEF PurgeVm, PurgeAt, Forget, Removed, Missing, Refused, Complain
<1>37. CASE UNCHANGED vars
  BY <1>37 DEF vars
<1> HIDE DEF LockHeld, Holders, Basis
<1> QED
  BY <1>0, <1>1, <1>2, <1>3, <1>4, <1>5, <1>6, <1>7, <1>8, <1>9, <1>10, <1>11,
     <1>12, <1>13, <1>14, <1>15, <1>16, <1>17, <1>18, <1>19, <1>20, <1>21,
     <1>22, <1>23, <1>24, <1>25, <1>26, <1>27, <1>28, <1>29, <1>30, <1>31,
     <1>32, <1>33, <1>34, <1>35, <1>36, <1>37
  DEF Next, Portal, DestroyTemplate, Sweep, Purge

-----------------------------------------------------------------------------
(* The limit of a user *)

\* As long as no two have overlapped: a request that has passed the check is
\* the only one of its user, and there is room for its session.
QuotaKept ==
    ~past.overlap =>
        /\ \A r \in Requests : req[r] \in InFlight =>
              /\ Cardinality(Running(UserOf[r])) < MaxVms
              /\ \A q \in User(UserOf[r]) : req[q] \in InFlight => q = r
        /\ \A u \in Users : Cardinality(Running(u)) <= MaxVms

\* The sessions of a user can be counted.
LEMMA RunningFinite ==
    ASSUME NEW u \in Users
    PROVE  /\ IsFiniteSet(Running(u)) /\ Cardinality(Running(u)) \in Nat
           /\ IsFiniteSet(Running(u)') /\ Cardinality(Running(u)') \in Nat
<1>1. Running(u) \subseteq Requests /\ Running(u)' \subseteq Requests
  BY DEF Running, User
<1> QED
  BY <1>1, DeskAssumption, FS_Subset, FS_CardinalityType

\* One session more counts for at most one.
LEMMA OneMore ==
    ASSUME NEW S, IsFiniteSet(S), NEW x
    PROVE  Cardinality(S \cup {x}) <= Cardinality(S) + 1
<1>1. Cardinality(S) \in Nat
  BY FS_CardinalityType
<1>2. Cardinality(S \cup {x}) = IF x \in S THEN Cardinality(S) ELSE Cardinality(S) + 1
  BY FS_AddElement
<1> QED
  BY <1>1, <1>2

\* Requests go on and sessions end: there is no more than there was.
LEMMA NoMoreRunning ==
    ASSUME Basis, QuotaKept, past'.overlap = past.overlap,
           \A r \in Requests : req'[r] \in InFlight => req[r] \in InFlight,
           \A r \in Requests : session'[r] = "running" => session[r] = "running"
    PROVE  QuotaKept'
<1>1. \A u \in Users : Cardinality(Running(u)') <= Cardinality(Running(u))
  <2> SUFFICES ASSUME NEW u \in Users
               PROVE  Cardinality(Running(u)') <= Cardinality(Running(u))
    OBVIOUS
  <2>1. Running(u)' \subseteq Running(u)
    BY DEF Running, User
  <2> QED
    BY <2>1, RunningFinite, FS_Subset
<1>2. \A r \in Requests : UserOf[r] \in Users
  BY DeskAssumption
<1>3. \A u \in Users : Cardinality(Running(u)) \in Nat /\ Cardinality(Running(u)') \in Nat
  BY RunningFinite
<1>4. \A u : User(u)' = User(u)
  BY DEF User
<1> DEFINE Count(u) == Cardinality(Running(u))
<1>5. MaxVms \in Nat
  BY DeskAssumption
<1> SUFFICES ASSUME ~past'.overlap
             PROVE  /\ \A r \in Requests : req'[r] \in InFlight =>
                          /\ Cardinality(Running(UserOf[r])') < MaxVms
                          /\ \A q \in User(UserOf[r]) : req'[q] \in InFlight => q = r
                    /\ \A u \in Users : Cardinality(Running(u)') <= MaxVms
  BY <1>2 DEF QuotaKept, User
<1>6. \A u \in Users : Cardinality(Running(u)') <= MaxVms
  BY <1>1, <1>3, <1>5 DEF QuotaKept
<1>7. ASSUME NEW r \in Requests, req'[r] \in InFlight
      PROVE  /\ Cardinality(Running(UserOf[r])') < MaxVms
             /\ \A q \in User(UserOf[r]) : req'[q] \in InFlight => q = r
  <2>1. Cardinality(Running(UserOf[r])) < MaxVms
    BY <1>7 DEF QuotaKept
  <2>2. Cardinality(Running(UserOf[r])') < MaxVms
    BY <2>1, <1>1, <1>2, <1>3, <1>5
  <2>3. \A q \in User(UserOf[r]) : req'[q] \in InFlight => q = r
    BY <1>7 DEF QuotaKept, User
  <2> QED
    BY <2>2, <2>3
<1> QED
  BY <1>6, <1>7

\* The limit is looked at before a request is past it.
LEMMA QuotaStep ==
    ASSUME Basis, QuotaKept, [Next]_vars
    PROVE  QuotaKept'
<1> USE DeskAssumption
    DEF TypeOK, Shapes, Linked, Basis, InFlight, LiveStates, cluster, pool,
        portal, cleanup, starts, screen, duties, Others
<1>0. ASSUME NEW c \in Clones, FindTile(c) PROVE QuotaKept'
  <2>1. /\ past'.overlap = past.overlap
        /\ \A r \in Requests : req'[r] \in InFlight => req[r] \in InFlight
        /\ \A r \in Requests : session'[r] = "running" => session[r] = "running"
    BY <1>0 DEF FindTile, Enabled, Build
  <2> QED
    BY <2>1, NoMoreRunning
<1>1. ASSUME NEW c \in Clones, Clone(c) PROVE QuotaKept'
  <2>1. /\ past'.overlap = past.overlap
        /\ \A r \in Requests : req'[r] \in InFlight => req[r] \in InFlight
        /\ \A r \in Requests : session'[r] = "running" => session[r] = "running"
    BY <1>1 DEF Clone, Build
  <2> QED
    BY <2>1, NoMoreRunning
<1>2. ASSUME NEW c \in Clones, Boots(c) PROVE QuotaKept'
  <2>1. /\ past'.overlap = past.overlap
        /\ \A r \in Requests : req'[r] \in InFlight => req[r] \in InFlight
        /\ \A r \in Requests : session'[r] = "running" => session[r] = "running"
    BY <1>2 DEF Boots, Build
  <2> QED
    BY <2>1, NoMoreRunning
<1>3. ASSUME NEW c \in Clones, Publish(c) PROVE QuotaKept'
  <2>1. /\ past'.overlap = past.overlap
        /\ \A r \in Requests : req'[r] \in InFlight => req[r] \in InFlight
        /\ \A r \in Requests : session'[r] = "running" => session[r] = "running"
    BY <1>3 DEF Publish, Build
  <2> QED
    BY <2>1, NoMoreRunning
<1>4. ASSUME NEW c \in Clones, BuildFails(c) PROVE QuotaKept'
  <2>1. /\ past'.overlap = past.overlap
        /\ \A r \in Requests : req'[r] \in InFlight => req[r] \in InFlight
        /\ \A r \in Requests : session'[r] = "running" => session[r] = "running"
    BY <1>4 DEF BuildFails, Build
  <2> QED
    BY <2>1, NoMoreRunning
<1>5. ASSUME NEW r \in Requests, Ask(r) PROVE QuotaKept'
  <2>1. /\ past'.overlap = past.overlap
        /\ \A q \in Requests : req'[q] \in InFlight => req[q] \in InFlight
        /\ \A q \in Requests : session'[q] = "running" => session[q] = "running"
    BY <1>5 DEF Ask, Goes
  <2> QED
    BY <2>1, NoMoreRunning
<1>6. ASSUME NEW r \in Requests, ReadQuota(r) PROVE QuotaKept'
  <2> DEFINE others == {q \in User(UserOf[r]) \ {r} : req[q] \in InFlight}
  <2>1. CASE req' = [req EXCEPT ![r] = "done"] /\ past' = past
    <3>1. \A q \in Requests : req'[q] \in InFlight => req[q] \in InFlight
      BY <2>1
    <3> QED
      BY <1>6, <2>1, <3>1, NoMoreRunning DEF ReadQuota
  <2>2. CASE /\ req' = [req EXCEPT ![r] = "checked"]
             /\ Cardinality(Running(UserOf[r])) < MaxVms
             /\ past'.overlap = (past.overlap \/ others # {})
    <3> SUFFICES ASSUME ~past.overlap, others = {} PROVE QuotaKept'
      BY <2>2 DEF QuotaKept
    <3>1. \A u : Running(u)' = Running(u)
      BY <1>6 DEF ReadQuota, Running, User
    <3>2. \A u \in Users : Cardinality(Running(u)') <= MaxVms
      BY <3>1 DEF QuotaKept
    <3>3. ASSUME NEW q \in Requests, req'[q] \in InFlight
          PROVE  /\ Cardinality(Running(UserOf[q])') < MaxVms
                 /\ \A p \in User(UserOf[q]) : req'[p] \in InFlight => p = q
      <4>1. CASE q = r
        BY <2>2, <3>1, <4>1 DEF User
      <4>2. CASE q # r
        <5>1. req[q] \in InFlight /\ UserOf[q] # UserOf[r]
          BY <2>2, <3>3, <4>2 DEF User
        <5>2. Cardinality(Running(UserOf[q])') < MaxVms
          BY <3>1, <5>1 DEF QuotaKept
        <5>3. \A p \in User(UserOf[q]) : req'[p] \in InFlight => p = q
          BY <2>2, <5>1 DEF QuotaKept, User
        <5> QED
          BY <5>2, <5>3
      <4> QED
        BY <4>1, <4>2
    <3> QED
      BY <3>2, <3>3 DEF QuotaKept, User
  <2>3. Cardinality(Running(UserOf[r])) \in Nat /\ MaxVms \in Nat
    BY RunningFinite
  <2>4. CASE Cardinality(Running(UserOf[r])) >= MaxVms
    BY <1>6, <2>1, <2>4 DEF ReadQuota, Goes
  <2>5. CASE ~(Cardinality(Running(UserOf[r])) >= MaxVms)
    <3>1. past' = [past EXCEPT !.overlap = past.overlap \/ others # {}]
      BY <1>6, <2>5, Zenon DEF ReadQuota
    <3>2. past'.overlap = (past.overlap \/ others # {})
      BY <3>1, Zenon
    <3>3. req' = [req EXCEPT ![r] = "checked"]
      BY <1>6, <2>5, Zenon DEF ReadQuota, Goes
    <3> QED
      BY <2>2, <2>3, <2>5, <3>2, <3>3
  <2> QED
    BY <2>4, <2>5
<1>7. ASSUME NEW r \in Requests, TakeLock(r) PROVE QuotaKept'
  <2>1. /\ past'.overlap = past.overlap
        /\ \A q \in Requests : req'[q] \in InFlight => req[q] \in InFlight
        /\ \A q \in Requests : session'[q] = "running" => session[q] = "running"
    BY <1>7 DEF TakeLock, Goes
  <2> QED
    BY <2>1, NoMoreRunning
<1>8. ASSUME NEW r \in Requests, ClaimStaged(r) PROVE QuotaKept'
  <2>1. /\ past'.overlap = past.overlap
        /\ \A q \in Requests : req'[q] \in InFlight => req[q] \in InFlight
        /\ \A q \in Requests : session'[q] = "running" => session[q] = "running"
    BY <1>8 DEF ClaimStaged, Goes
  <2> QED
    BY <2>1, NoMoreRunning
<1>9. ASSUME NEW r \in Requests, InsertSession(r) PROVE QuotaKept'
  <2>1. CASE session' = session
    <3>1. /\ past'.overlap = past.overlap
          /\ \A q \in Requests : req'[q] \in InFlight => req[q] \in InFlight
      BY <1>9 DEF InsertSession, Goes
    <3> QED
      BY <3>1, <2>1, NoMoreRunning
  <2>2. CASE session' = [session EXCEPT ![r] = "running"] /\ past' = past
    <3> SUFFICES ASSUME ~past.overlap PROVE QuotaKept'
      BY <2>2 DEF QuotaKept
    <3>1. /\ req[r] = "holding" /\ req' = [req EXCEPT ![r] = "leaving"]
          /\ UserOf[r] \in Users
      BY <1>9 DEF InsertSession, Goes
    <3>2. /\ Cardinality(Running(UserOf[r])) < MaxVms
          /\ \A q \in User(UserOf[r]) : req[q] \in InFlight => q = r
      BY <3>1 DEF QuotaKept
    <3>3. ASSUME NEW u \in Users PROVE Cardinality(Running(u)') <= MaxVms
      <4>1. CASE u = UserOf[r]
        <5>1. Running(u)' = Running(u) \cup {r}
          BY <2>2, <4>1 DEF Running, User
        <5>2. Cardinality(Running(u)') <= Cardinality(Running(u)) + 1
          <6>1. IsFiniteSet(Running(u)) /\ Cardinality(Running(u)) \in Nat
            BY RunningFinite
          <6>2. Cardinality(Running(u) \cup {r}) <= Cardinality(Running(u)) + 1
            BY <6>1, OneMore
          <6> QED
            BY <5>1, <6>2
        <5> QED
          BY <5>2, <3>2, <4>1, RunningFinite
      <4>2. CASE u # UserOf[r]
        <5>1. Running(u)' = Running(u)
          BY <2>2, <4>2 DEF Running, User
        <5> QED
          BY <5>1 DEF QuotaKept
      <4> QED
        BY <4>1, <4>2
    <3>4. ASSUME NEW q \in Requests, req'[q] \in InFlight
          PROVE  /\ Cardinality(Running(UserOf[q])') < MaxVms
                 /\ \A p \in User(UserOf[q]) : req'[p] \in InFlight => p = q
      <4>1. req[q] \in InFlight /\ q # r /\ UserOf[q] \in Users
        BY <3>1, <3>4
      <4>2. UserOf[q] # UserOf[r]
        BY <4>1, <3>2 DEF User
      <4>3. Running(UserOf[q])' = Running(UserOf[q])
        BY <2>2, <4>2 DEF Running, User
      <4>4. Cardinality(Running(UserOf[q])') < MaxVms
        BY <4>1, <4>3 DEF QuotaKept
      <4>5. \A p \in User(UserOf[q]) : req'[p] \in InFlight => p = q
        BY <4>1, <3>1 DEF QuotaKept, User
      <4> QED
        BY <4>4, <4>5
    <3> QED
      BY <2>2, <3>3, <3>4 DEF QuotaKept, User
  <2> QED
    BY <1>9, <2>1, <2>2 DEF InsertSession
<1>10. ASSUME NEW r \in Requests, Leave(r) PROVE QuotaKept'
  <2>1. /\ past'.overlap = past.overlap
        /\ \A q \in Requests : req'[q] \in InFlight => req[q] \in InFlight
        /\ \A q \in Requests : session'[q] = "running" => session[q] = "running"
    BY <1>10 DEF Leave, Goes
  <2> QED
    BY <2>1, NoMoreRunning
<1>11. ASSUME NEW r \in Requests, DemoClear(r) PROVE QuotaKept'
  <2>1. /\ past'.overlap = past.overlap
        /\ \A q \in Requests : req'[q] \in InFlight => req[q] \in InFlight
        /\ \A q \in Requests : session'[q] = "running" => session[q] = "running"
    BY <1>11 DEF DemoClear
  <2> QED
    BY <2>1, NoMoreRunning
<1>12. ASSUME NEW r \in Requests, DemoSet(r) PROVE QuotaKept'
  <2>1. /\ past'.overlap = past.overlap
        /\ \A q \in Requests : req'[q] \in InFlight => req[q] \in InFlight
        /\ \A q \in Requests : session'[q] = "running" => session[q] = "running"
    BY <1>12 DEF DemoSet
  <2> QED
    BY <2>1, NoMoreRunning
<1>13. ASSUME NEW r \in Requests, DemoStop(r) PROVE QuotaKept'
  <2>1. /\ past'.overlap = past.overlap
        /\ \A q \in Requests : req'[q] \in InFlight => req[q] \in InFlight
        /\ \A q \in Requests : session'[q] = "running" => session[q] = "running"
    BY <1>13 DEF DemoStop
  <2> QED
    BY <2>1, NoMoreRunning
<1>14. ASSUME NEW r \in Requests, CleanupStart(r) PROVE QuotaKept'
  <2>1. /\ past'.overlap = past.overlap
        /\ \A q \in Requests : req'[q] \in InFlight => req[q] \in InFlight
        /\ \A q \in Requests : session'[q] = "running" => session[q] = "running"
    BY <1>14 DEF CleanupStart
  <2> QED
    BY <2>1, NoMoreRunning
<1>15. ASSUME NEW r \in Requests, CleanupDelete(r) PROVE QuotaKept'
  <2>1. /\ past'.overlap = past.overlap
        /\ \A q \in Requests : req'[q] \in InFlight => req[q] \in InFlight
        /\ \A q \in Requests : session'[q] = "running" => session[q] = "running"
    BY <1>15 DEF CleanupDelete, Forget, Removed, Missing, Refused
  <2> QED
    BY <2>1, NoMoreRunning
<1>16. ASSUME NEW r \in Requests, CleanupStop(r) PROVE QuotaKept'
  <2>1. /\ past'.overlap = past.overlap
        /\ \A q \in Requests : req'[q] \in InFlight => req[q] \in InFlight
        /\ \A q \in Requests : session'[q] = "running" => session[q] = "running"
    BY <1>16 DEF CleanupStop
  <2> QED
    BY <2>1, NoMoreRunning
<1>17. ASSUME NEW u \in Users, LockExpires(u) PROVE QuotaKept'
  <2>1. /\ past'.overlap = past.overlap
        /\ \A r \in Requests : req'[r] \in InFlight => req[r] \in InFlight
        /\ \A r \in Requests : session'[r] = "running" => session[r] = "running"
    BY <1>17 DEF LockExpires
  <2> QED
    BY <2>1, NoMoreRunning
<1>18. ASSUME NEW h \in BOOLEAN, SetHidden(h) PROVE QuotaKept'
  <2>1. /\ past'.overlap = past.overlap
        /\ \A r \in Requests : req'[r] \in InFlight => req[r] \in InFlight
        /\ \A r \in Requests : session'[r] = "running" => session[r] = "running"
    BY <1>18 DEF SetHidden
  <2> QED
    BY <2>1, NoMoreRunning
<1>19. CASE DestroyBegin
  <2>1. /\ past'.overlap = past.overlap
        /\ \A r \in Requests : req'[r] \in InFlight => req[r] \in InFlight
        /\ \A r \in Requests : session'[r] = "running" => session[r] = "running"
    BY <1>19 DEF DestroyBegin, DestroyAt
  <2> QED
    BY <2>1, NoMoreRunning
<1>20. CASE ListSessions
  <2>1. /\ past'.overlap = past.overlap
        /\ \A r \in Requests : req'[r] \in InFlight => req[r] \in InFlight
        /\ \A r \in Requests : session'[r] = "running" => session[r] = "running"
    BY <1>20 DEF ListSessions, DestroyAt, LiveStates
  <2> QED
    BY <2>1, NoMoreRunning
<1>21. ASSUME NEW r \in Requests, DestroySession(r) PROVE QuotaKept'
  <2>1. /\ past'.overlap = past.overlap
        /\ \A q \in Requests : req'[q] \in InFlight => req[q] \in InFlight
        /\ \A q \in Requests : session'[q] = "running" => session[q] = "running"
    BY <1>21 DEF DestroySession, DestroyAt, DestroyVm, Removed, Missing, Refused, Complain
  <2> QED
    BY <2>1, NoMoreRunning
<1>22. CASE MarkStopped
  <2>1. /\ past'.overlap = past.overlap
        /\ \A r \in Requests : req'[r] \in InFlight => req[r] \in InFlight
        /\ \A r \in Requests : session'[r] = "running" => session[r] = "running"
    BY <1>22 DEF MarkStopped, DestroyAt
  <2> QED
    BY <2>1, NoMoreRunning
<1>23. CASE ListStaged
  <2>1. /\ past'.overlap = past.overlap
        /\ \A r \in Requests : req'[r] \in InFlight => req[r] \in InFlight
        /\ \A r \in Requests : session'[r] = "running" => session[r] = "running"
    BY <1>23 DEF ListStaged, DestroyAt
  <2> QED
    BY <2>1, NoMoreRunning
<1>24. ASSUME NEW c \in Clones, DestroyRow(c) PROVE QuotaKept'
  <2>1. /\ past'.overlap = past.overlap
        /\ \A r \in Requests : req'[r] \in InFlight => req[r] \in InFlight
        /\ \A r \in Requests : session'[r] = "running" => session[r] = "running"
    BY <1>24 DEF DestroyRow, DestroyAt
  <2> QED
    BY <2>1, NoMoreRunning
<1>25. CASE DestroyStaged
  <2>1. /\ past'.overlap = past.overlap
        /\ \A r \in Requests : req'[r] \in InFlight => req[r] \in InFlight
        /\ \A r \in Requests : session'[r] = "running" => session[r] = "running"
    BY <1>25 DEF DestroyStaged, DestroyAt, DestroyVm, Removed, Missing, Refused, Complain
  <2> QED
    BY <2>1, NoMoreRunning
<1>26. CASE DestroyImage
  <2>1. /\ past'.overlap = past.overlap
        /\ \A r \in Requests : req'[r] \in InFlight => req[r] \in InFlight
        /\ \A r \in Requests : session'[r] = "running" => session[r] = "running"
    BY <1>26 DEF DestroyImage, DestroyAt, DestroyVm, Removed, Missing, Refused, Complain, ImageUnseen
  <2> QED
    BY <2>1, NoMoreRunning
<1>27. CASE RemoveTile
  <2>1. /\ past'.overlap = past.overlap
        /\ \A r \in Requests : req'[r] \in InFlight => req[r] \in InFlight
        /\ \A r \in Requests : session'[r] = "running" => session[r] = "running"
    BY <1>27 DEF RemoveTile, DestroyAt
  <2> QED
    BY <2>1, NoMoreRunning
<1>28. CASE SweepProtect
  <2>1. /\ past'.overlap = past.overlap
        /\ \A r \in Requests : req'[r] \in InFlight => req[r] \in InFlight
        /\ \A r \in Requests : session'[r] = "running" => session[r] = "running"
    BY <1>28 DEF SweepProtect, SweepAt, LiveStates
  <2> QED
    BY <2>1, NoMoreRunning
<1>29. CASE SweepList
  <2>1. /\ past'.overlap = past.overlap
        /\ \A r \in Requests : req'[r] \in InFlight => req[r] \in InFlight
        /\ \A r \in Requests : session'[r] = "running" => session[r] = "running"
    BY <1>29 DEF SweepList, SweepAt, Listed
  <2> QED
    BY <2>1, NoMoreRunning
<1>30. ASSUME NEW c \in Clones, SweepOne(c) PROVE QuotaKept'
  <2>1. /\ past'.overlap = past.overlap
        /\ \A r \in Requests : req'[r] \in InFlight => req[r] \in InFlight
        /\ \A r \in Requests : session'[r] = "running" => session[r] = "running"
    BY <1>30 DEF SweepOne, SweepAt, Forget, Removed, Missing, Refused, Complain
  <2> QED
    BY <2>1, NoMoreRunning
<1>31. CASE SweepSessions
  <2>1. /\ past'.overlap = past.overlap
        /\ \A r \in Requests : req'[r] \in InFlight => req[r] \in InFlight
        /\ \A r \in Requests : session'[r] = "running" => session[r] = "running"
    BY <1>31 DEF SweepSessions, SweepAt
  <2> QED
    BY <2>1, NoMoreRunning
<1>32. CASE SweepRows
  <2>1. /\ past'.overlap = past.overlap
        /\ \A r \in Requests : req'[r] \in InFlight => req[r] \in InFlight
        /\ \A r \in Requests : session'[r] = "running" => session[r] = "running"
    BY <1>32 DEF SweepRows, SweepAt
  <2> QED
    BY <2>1, NoMoreRunning
<1>33. CASE PurgeBegin
  <2>1. /\ past'.overlap = past.overlap
        /\ \A r \in Requests : req'[r] \in InFlight => req[r] \in InFlight
        /\ \A r \in Requests : session'[r] = "running" => session[r] = "running"
    BY <1>33 DEF PurgeBegin, PurgeAt
  <2> QED
    BY <2>1, NoMoreRunning
<1>34. ASSUME NEW c \in Clones, PurgeRead(c) PROVE QuotaKept'
  <2>1. /\ past'.overlap = past.overlap
        /\ \A r \in Requests : req'[r] \in InFlight => req[r] \in InFlight
        /\ \A r \in Requests : session'[r] = "running" => session[r] = "running"
    BY <1>34 DEF PurgeRead, PurgeAt
  <2> QED
    BY <2>1, NoMoreRunning
<1>35. CASE PurgeRow
  <2>1. /\ past'.overlap = past.overlap
        /\ \A r \in Requests : req'[r] \in InFlight => req[r] \in InFlight
        /\ \A r \in Requests : session'[r] = "running" => session[r] = "running"
    BY <1>35 DEF PurgeRow, PurgeAt
  <2> QED
    BY <2>1, NoMoreRunning
<1>36. CASE PurgeVm
  <2>1. /\ past'.overlap = past.overlap
        /\ \A r \in Requests : req'[r] \in InFlight => req[r] \in InFlight
        /\ \A r \in Requests : session'[r] = "running" => session[r] = "running"
    BY <1>36 DEF PurgeVm, PurgeAt, Forget, Removed, Missing, Refused, Complain
  <2> QED
    BY <2>1, NoMoreRunning
<1>37. CASE UNCHANGED vars
  BY <1>37, NoMoreRunning DEF vars
<1> HIDE DEF QuotaKept, Basis
<1> QED
  BY <1>0, <1>1, <1>2, <1>3, <1>4, <1>5, <1>6, <1>7, <1>8, <1>9, <1>10, <1>11,
     <1>12, <1>13, <1>14, <1>15, <1>16, <1>17, <1>18, <1>19, <1>20, <1>21,
     <1>22, <1>23, <1>24, <1>25, <1>26, <1>27, <1>28, <1>29, <1>30, <1>31,
     <1>32, <1>33, <1>34, <1>35, <1>36, <1>37
  DEF Next, Portal, DestroyTemplate, Sweep, Purge

\* More than the limit only by requests that overlap, and one clone at a time
\* unless the lock expires: UserLimit holds in every state.
THEOREM LimitKept == Spec => []UserLimit
<1>1. Init => Basis /\ LockHeld /\ QuotaKept
  <2> SUFFICES ASSUME Init PROVE LockHeld /\ QuotaKept
    BY BasisInit
  <2>1. \A r \in Requests : req[r] = "idle" /\ session[r] = "none"
    BY DEF Init
  <2>2. LockHeld
    BY <2>1 DEF LockHeld, Holders
  <2>3. \A u \in Users : Running(u) = {}
    BY <2>1 DEF Running, User
  <2>4. \A u \in Users : Cardinality(Running(u)) <= MaxVms
    BY <2>3, DeskAssumption, FS_EmptySet
  <2>5. QuotaKept
    BY <2>1, <2>4 DEF QuotaKept, InFlight
  <2> QED
    BY <2>2, <2>5
<1>2. Basis /\ LockHeld /\ QuotaKept /\ [Next]_vars => (Basis /\ LockHeld /\ QuotaKept)'
  BY BasisStep, LockStep, QuotaStep
<1>3. LockHeld /\ QuotaKept => UserLimit
  <2> SUFFICES ASSUME LockHeld, QuotaKept, NEW u \in Users
               PROVE  /\ Cardinality(Running(u)) > MaxVms => past.overlap
                      /\ Cardinality({r \in User(u) : req[r] \in {"locked", "holding"}}) > 1
                            => past.expired
    BY DEF UserLimit
  <2>1. Cardinality(Running(u)) > MaxVms => past.overlap
    BY RunningFinite, DeskAssumption DEF QuotaKept
  <2>2. ASSUME ~past.expired
        PROVE  ~(Cardinality({r \in User(u) : req[r] \in {"locked", "holding"}}) > 1)
    <3> DEFINE S == {r \in User(u) : req[r] \in {"locked", "holding"}}
    <3>1. \E r : S \subseteq {r}
      BY <2>2 DEF LockHeld, Holders, User
    <3>2. PICK r : S \subseteq {r}
      BY <3>1
    <3>3. IsFiniteSet({r}) /\ Cardinality({r}) = 1
      BY FS_Singleton
    <3>4. Cardinality(S) \in Nat /\ Cardinality(S) <= 1
      <4> HIDE DEF S
      <4>1. IsFiniteSet(S) /\ Cardinality(S) <= Cardinality({r})
        BY <3>2, <3>3, FS_Subset
      <4> QED
        BY <3>3, <4>1, FS_CardinalityType
    <3> QED
      BY <3>4
  <2> QED
    BY <2>1, <2>2
<1> QED
  BY <1>1, <1>2, <1>3, PTL DEF Spec
=============================================================================
