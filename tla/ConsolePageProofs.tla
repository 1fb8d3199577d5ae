--------------------------- MODULE ConsolePageProofs ---------------------------
(***************************************************************************)
(* What holds of ConsolePage for any number of pages, any inactivity limit *)
(* and any number of choices.                                              *)
(***************************************************************************)
EXTENDS ConsolePage, TLAPS

-----------------------------------------------------------------------------
(* Pages *)

Kinds == {"none", "guac", "vnc"}

\* Mounting another console changes nothing that was chosen.
LEMMA RemountType ==
    ASSUME NEW r \in PageType, NEW kind \in Kinds
    PROVE  /\ Remount(r, kind) \in PageType
           /\ Remount(r, kind).path = r.path /\ Remount(r, kind).forced = r.forced
<1>1. (r.late \/ r.con = "token") \in BOOLEAN
  BY Zenon
<1>2. FirstState(kind) \in {"none", "token", "vdial"}
  BY DEF FirstState, Kinds
<1> DEFINE late == r.late \/ r.con = "token"
<1> HIDE DEF late
<1>3. Remount(r, kind) = [r EXCEPT !.con = FirstState(kind), !.label = FALSE, !.late = late]
  BY DEF Remount, late
<1>4. late \in BOOLEAN
  BY <1>1 DEF late
<1> QED
  BY <1>2, <1>3, <1>4 DEF PageType, Guac, Vnc

\* Nor does rendering.
LEMMA RenderType ==
    ASSUME NEW r \in PageType
    PROVE  /\ Render(r) \in PageType
           /\ Render(r).path = r.path /\ Render(r).forced = r.forced
<1>1. Wanted(r) \in Kinds
  BY DEF Wanted, Kinds
<1> QED
  BY <1>1, RemountType DEF Render

\* A page that is shown anew keeps its choice, and the others are not touched.
LEMMA ShowType ==
    ASSUME page \in [Pages -> PageType], NEW p \in Pages, NEW r \in PageType, Show(p, r)
    PROVE  /\ page' \in [Pages -> PageType]
           /\ page'[p].path = r.path /\ page'[p].forced = r.forced
           /\ \A q \in Pages \ {p} : page'[q] = page[q]
BY RenderType DEF Show

\* A page falls back only from a fast console that is not up.
FellBack ==
    \A p \in Pages :
       (page[p].path # "fallback" /\ page'[p].path = "fallback" /\ ~page'[p].forced)
          => page[p].con \in {"token", "dial"}

Good == page' \in [Pages -> PageType] /\ FellBack

\* What a page shows with its choice unchanged is no falling back.
LEMMA SameChoice ==
    ASSUME page \in [Pages -> PageType], NEW p \in Pages, NEW r \in PageType, Show(p, r),
           r.path = page[p].path
    PROVE  Good
<1>1. page' \in [Pages -> PageType] /\ page'[p].path = page[p].path
      /\ \A q \in Pages \ {p} : page'[q] = page[q]
  BY ShowType
<1> QED
  BY <1>1 DEF Good, FellBack

\* A console that gives up was not up.
LEMMA GiveUpGood ==
    ASSUME page \in [Pages -> PageType], NEW p \in Pages, NEW con \in Guac,
           page[p].con \in {"token", "dial"}, Show(p, GiveUp(page[p], con))
    PROVE  Good
<1>1. GiveUp(page[p], con) \in PageType
  BY DEF GiveUp, PageType
<1>2. page' \in [Pages -> PageType] /\ \A q \in Pages \ {p} : page'[q] = page[q]
  BY <1>1, ShowType
<1> QED
  BY <1>2 DEF Good, FellBack

\* Every step of a page keeps to the types, and falls back only from there.
LEMMA PageStep ==
    ASSUME TypeOK, [Next]_vars
    PROVE  Good
<1>0. page \in [Pages -> PageType] /\ session.status \in Statuses
  BY DEF TypeOK
<1> USE <1>0
<1>1. ASSUME NEW p \in Pages, PollAnswered(p) PROVE Good
  <2> DEFINE poll == IF session.status \in Final THEN "off" ELSE "timer"
             a == [page[p] EXCEPT !.seen = session.status]
             r == [a EXCEPT !.poll = poll]
  <2>1. Show(p, r)
    BY <1>1 DEF PollAnswered
  <2>2. poll \in {"off", "timer"}
    OBVIOUS
  <2> HIDE DEF poll
  <2>3. a \in PageType /\ a.path = page[p].path
    BY DEF PageType
  <2> HIDE DEF a
  <2>4. r \in PageType /\ r.path = page[p].path
    BY <2>3, <2>2 DEF PageType
  <2> HIDE DEF r
  <2> QED
    BY <2>1, <2>4, SameChoice
<1>2. ASSUME NEW p \in Pages, PollFails(p) PROVE Good
  <2> DEFINE a == [page[p] EXCEPT !.error = TRUE]
             r == [a EXCEPT !.poll = "off"]
  <2>1. Show(p, r)
    BY <1>2 DEF PollFails
  <2>3. a \in PageType /\ a.path = page[p].path
    BY DEF PageType
  <2> HIDE DEF a
  <2>4. r \in PageType /\ r.path = page[p].path
    BY <2>3 DEF PageType
  <2> HIDE DEF r
  <2> QED
    BY <2>1, <2>4, SameChoice
<1>3. ASSUME NEW p \in Pages, PollTimer(p) PROVE Good
  <2> DEFINE r == [page[p] EXCEPT !.poll = "asked"]
  <2>1. Show(p, r)
    BY <1>3 DEF PollTimer
  <2>2. r \in PageType /\ r.path = page[p].path
    BY DEF PageType
  <2> HIDE DEF r
  <2> QED
    BY <2>1, <2>2, SameChoice
<1>4. ASSUME NEW p \in Pages, TokenGranted(p) PROVE Good
  <2> DEFINE r == [page[p] EXCEPT !.con = "dial"]
  <2>1. Show(p, r)
    BY <1>4 DEF TokenGranted
  <2>2. r \in PageType /\ r.path = page[p].path
    BY DEF PageType, Guac, Vnc
  <2> HIDE DEF r
  <2> QED
    BY <2>1, <2>2, SameChoice
<1>5. ASSUME NEW p \in Pages, Connects(p) PROVE Good
  <2> DEFINE r == [page[p] EXCEPT !.con = "up"]
  <2>1. Show(p, r)
    BY <1>5 DEF Connects
  <2>2. r \in PageType /\ r.path = page[p].path
    BY DEF PageType, Guac, Vnc
  <2> HIDE DEF r
  <2> QED
    BY <2>1, <2>2, SameChoice
<1>6. ASSUME NEW p \in Pages, Drops(p) PROVE Good
  <2> DEFINE r == [page[p] EXCEPT !.con = "down"]
  <2>1. Show(p, r)
    BY <1>6 DEF Drops
  <2>2. r \in PageType /\ r.path = page[p].path
    BY DEF PageType, Guac, Vnc
  <2> HIDE DEF r
  <2> QED
    BY <2>1, <2>2, SameChoice
<1>7. ASSUME NEW p \in Pages, VncConnects(p) PROVE Good
  <2> DEFINE a == [page[p] EXCEPT !.con = "vup"]
             r == [a EXCEPT !.label = TRUE]
  <2>1. Show(p, r)
    BY <1>7 DEF VncConnects
  <2>3. a \in PageType /\ a.path = page[p].path
    BY DEF PageType, Vnc
  <2> HIDE DEF a
  <2>4. r \in PageType /\ r.path = page[p].path
    BY <2>3 DEF PageType, Vnc
  <2> HIDE DEF r
  <2> QED
    BY <2>1, <2>4, SameChoice
<1>8. ASSUME NEW p \in Pages, VncFails(p) PROVE Good
  <2> DEFINE r == [page[p] EXCEPT !.con = "verror"]
  <2>1. Show(p, r)
    BY <1>8 DEF VncFails
  <2>2. r \in PageType /\ r.path = page[p].path
    BY DEF PageType, Guac, Vnc
  <2> HIDE DEF r
  <2> QED
    BY <2>1, <2>2, SameChoice
<1>9. ASSUME NEW p \in Pages, VncRetry(p) PROVE Good
  <2> DEFINE r == [page[p] EXCEPT !.con = "vdial"]
  <2>1. Show(p, r)
    BY <1>9 DEF VncRetry
  <2>2. r \in PageType /\ r.path = page[p].path
    BY DEF PageType, Guac, Vnc
  <2> HIDE DEF r
  <2> QED
    BY <2>1, <2>2, SameChoice
<1>10. ASSUME NEW p \in Pages, VncDrops(p) PROVE Good
  <2> DEFINE error == [page[p] EXCEPT !.con = "verror"]
             off   == [page[p] EXCEPT !.con = "vdown"]
             down  == [off EXCEPT !.label = FALSE]
  <2>1. Show(p, error) \/ Show(p, down)
    BY <1>10 DEF VncDrops
  <2>2. error \in PageType /\ error.path = page[p].path
    BY DEF PageType, Vnc
  <2>3. off \in PageType /\ off.path = page[p].path
    BY DEF PageType, Vnc
  <2> HIDE DEF error, off
  <2>4. down \in PageType /\ down.path = page[p].path
    BY <2>3 DEF PageType
  <2> HIDE DEF down
  <2> QED
    BY <2>1, <2>2, <2>4, SameChoice
<1>11. ASSUME NEW p \in Pages, TokenRefused(p) PROVE Good
  BY <1>11, GiveUpGood DEF TokenRefused, Guac
<1>12. ASSUME NEW p \in Pages, DialFails(p) PROVE Good
  BY <1>12, GiveUpGood DEF DialFails, Guac
<1>13. ASSUME NEW p \in Pages, NEW next \in {"auto", "fast", "fallback"},
             ChoosePath(p, next)
      PROVE Good
  <2> DEFINE chosen == next # "auto"
             way    == IF next = "auto" THEN "null" ELSE next
             a      == [page[p] EXCEPT !.forced = chosen]
             r      == [a EXCEPT !.path = way]
  <2>1. chosen \in BOOLEAN
    BY Zenon
  <2>2. way \in {"null", "fast", "fallback"} /\ (way = "fallback" => chosen)
    OBVIOUS
  <2>3. Show(p, r)
    BY <1>13 DEF ChoosePath
  <2> HIDE DEF chosen, way
  <2>4. a \in PageType /\ a.forced = chosen
    BY <2>1 DEF PageType
  <2> HIDE DEF a
  <2>5. r \in PageType /\ r.forced = chosen /\ r.path = way
    BY <2>4, <2>2 DEF PageType
  <2> HIDE DEF r
  <2>6. /\ page' \in [Pages -> PageType] /\ \A q \in Pages \ {p} : page'[q] = page[q]
        /\ page'[p].path = r.path /\ page'[p].forced = r.forced
    BY <2>3, <2>5, ShowType
  <2> QED
    BY <2>2, <2>5, <2>6 DEF Good, FellBack
<1>14. ASSUME NEW p \in Pages, Recolour(p) PROVE Good
  <2>1. page' = [page EXCEPT ![p] = Remount(page[p], "guac")]
    BY <1>14 DEF Recolour
  <2>2. Remount(page[p], "guac") \in PageType /\ Remount(page[p], "guac").path = page[p].path
    BY RemountType DEF Kinds
  <2> QED
    BY <2>1, <2>2 DEF Good, FellBack
<1>15. ASSUME NEW p \in Pages, Open(p) PROVE Good
  <2> DEFINE r == [Closed EXCEPT !.open = TRUE, !.poll = "asked", !.late = page[p].late]
  <2>1. r \in PageType /\ r.path = "null"
    BY DEF PageType, Closed
  <2>2. page' = [page EXCEPT ![p] = r]
    BY <1>15 DEF Open
  <2> HIDE DEF r
  <2> QED
    BY <2>1, <2>2 DEF Good, FellBack
<1>16. ASSUME NEW p \in Pages, page' = Left(p) PROVE Good
  <2> DEFINE late == page[p].late \/ page[p].con = "token"
             r == [Closed EXCEPT !.late = late]
  <2>1. late \in BOOLEAN
    BY Zenon
  <2>2. page' = [page EXCEPT ![p] = r]
    BY <1>16 DEF Left
  <2> HIDE DEF late
  <2>3. r \in PageType /\ r.path = "null"
    BY <2>1 DEF PageType, Closed
  <2> HIDE DEF r
  <2> QED
    BY <2>2, <2>3 DEF Good, FellBack
<1>17. ASSUME NEW p \in Pages, LateAnswer(p) PROVE Good
  <2> DEFINE r == [page[p] EXCEPT !.late = FALSE]
  <2>1. r \in PageType /\ r.path = page[p].path
    BY DEF PageType
  <2>2. page' = [page EXCEPT ![p] = r]
    BY <1>17 DEF LateAnswer
  <2> HIDE DEF r
  <2> QED
    BY <2>1, <2>2 DEF Good, FellBack
<1>18. ASSUME page' = page PROVE Good
  BY <1>18 DEF Good, FellBack
<1> QED
  BY <1>1, <1>2, <1>3, <1>4, <1>5, <1>6, <1>7, <1>8, <1>9, <1>10, <1>11,
     <1>12, <1>13, <1>14, <1>15, <1>16, <1>17, <1>18
  DEF Next, User, Polls, Fast, Compatible, Lost, Leave, Stop, Heartbeat, SetDemo, Tick, Sweep,
      CleanupEnds, DemoTaken, vars

\* The row stays a row, and the clock stops at the limit.
LEMMA SessionStep ==
    ASSUME TypeOK, [Next]_vars
    PROVE  /\ session' \in [status : Statuses, demo : BOOLEAN, age : 0 .. Stale,
                            ip : BOOLEAN, port : {"answers", "refuses", "silent"}]
           /\ choices' \in 0 .. MaxChoices
<1> USE BoundsAssumption DEF TypeOK
<1> DEFINE Row == [status : Statuses, demo : BOOLEAN, age : 0 .. Stale,
                   ip : BOOLEAN, port : {"answers", "refuses", "silent"}]
<1>1. CASE UNCHANGED session
  <2>1. choices' \in 0 .. MaxChoices
    <3>1. choices' = choices \/ Chosen
      BY DEF Next, User, Polls, Fast, Compatible, Lost, Open, Leave, Stop, Recolour, VncRetry,
         ChoosePath, SetDemo, PollAnswered, PollFails, PollTimer, Heartbeat, TokenGranted,
         TokenRefused, Connects, DialFails, LateAnswer, VncConnects, VncFails, Drops, VncDrops,
         Tick, Sweep, CleanupEnds, DemoTaken, vars
    <3> QED
      BY <3>1 DEF Chosen
  <2> QED
    BY <1>1, <2>1
<1>2. CASE session' = [session EXCEPT !.age = 0] /\ UNCHANGED choices
  BY <1>2
<1>3. CASE \E active \in BOOLEAN :
               session' = [session EXCEPT !.demo = active] /\ UNCHANGED choices
  BY <1>3
<1>4. CASE session' = [session EXCEPT !.status = "cleaning"] /\ UNCHANGED choices
  BY <1>4 DEF Statuses
<1>5. CASE Tick
  <2>1. session.age + 1 \in 0 .. Stale
    BY <1>5 DEF Tick
  <2>2. session' = [session EXCEPT !.age = session.age + 1] /\ UNCHANGED choices
    BY <1>5 DEF Tick
  <2> QED
    BY <2>1, <2>2
<1>6. CASE CleanupEnds
  BY <1>6 DEF CleanupEnds, Statuses
<1>7. \/ UNCHANGED session
      \/ session' = [session EXCEPT !.age = 0] /\ UNCHANGED choices
      \/ (\E active \in BOOLEAN :
            session' = [session EXCEPT !.demo = active] /\ UNCHANGED choices)
      \/ session' = [session EXCEPT !.status = "cleaning"] /\ UNCHANGED choices
      \/ Tick \/ CleanupEnds
  BY DEF Next, User, Polls, Fast, Compatible, Lost, Open, Leave, Stop, Recolour, VncRetry,
     ChoosePath, SetDemo, PollAnswered, PollFails, PollTimer, Heartbeat, TokenGranted, Touched,
     TokenRefused, Connects, DialFails, LateAnswer, VncConnects, VncFails, Drops, VncDrops,
     Sweep, DemoTaken, vars
<1> QED
  BY <1>1, <1>2, <1>3, <1>4, <1>5, <1>6, <1>7

\* TypeOK holds in every state.
THEOREM TypeCorrect == Spec => []TypeOK
<1>1. Init => TypeOK
  <2> SUFFICES ASSUME Init PROVE TypeOK
    OBVIOUS
  <2>1. Closed \in PageType
    BY DEF Closed, PageType
  <2>2. page \in [Pages -> PageType] /\ choices \in 0 .. MaxChoices
    BY <2>1, BoundsAssumption DEF Init
  <2>3. session \in [status : Statuses, demo : BOOLEAN, age : 0 .. Stale,
                     ip : BOOLEAN, port : {"answers", "refuses", "silent"}]
    <3>1. {"running"} \subseteq Statuses /\ {0} \subseteq 0 .. Stale
      BY BoundsAssumption DEF Statuses
    <3>2. {FALSE} \subseteq BOOLEAN
      BY Zenon
    <3> DEFINE now == {FALSE}
    <3>3. session \in [status : {"running"}, demo : now, age : {0}, ip : BOOLEAN,
                       port : {"answers", "refuses", "silent"}]
      BY DEF Init
    <3> HIDE DEF now
    <3>4. now \subseteq BOOLEAN
      BY <3>2 DEF now
    <3> QED
      BY <3>1, <3>3, <3>4
  <2> QED
    BY <2>2, <2>3 DEF TypeOK
<1>2. TypeOK /\ [Next]_vars => TypeOK'
  <2> SUFFICES ASSUME TypeOK, [Next]_vars PROVE TypeOK'
    OBVIOUS
  <2>1. page' \in [Pages -> PageType]
    BY PageStep DEF Good
  <2> QED
    BY <2>1, SessionStep DEF TypeOK
<1> QED
  BY <1>1, <1>2, PTL DEF Spec

\* A page gives up the fast path by itself only before its console was up.
THEOREM FallsBackSafe == Spec => FallsBackOnlyAtFirst
<1>1. TypeOK /\ [Next]_vars => FellBack
  BY PageStep DEF Good
<1>2. TypeOK /\ [Next]_vars
        => [\A p \in Pages :
              (page[p].path # "fallback" /\ page'[p].path = "fallback" /\ ~page'[p].forced)
                 => page[p].con \in {"token", "dial"}]_vars
  BY <1>1 DEF FellBack
<1> QED
  BY <1>2, TypeCorrect, PTL DEF Spec, FallsBackOnlyAtFirst
=============================================================================
