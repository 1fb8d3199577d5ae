------------------------------ MODULE ConsolePage ------------------------------
(***************************************************************************)
(* The console pages that look at one session: the page of its owner and   *)
(* those of spectators.  A page polls until the session runs, mounts one   *)
(* of two consoles, falls back from the fast one to the compatible one,    *)
(* and reports its owner's presence; the server decides who may look and   *)
(* ends a session that nobody works in.                                    *)
(*                                                                         *)
(* A mounted console is an effect of React with a life of its own: what it *)
(* has asked for may be answered after it has been replaced.               *)
(***************************************************************************)
EXTENDS Naturals, FiniteSets

CONSTANTS
    Pages,
    Owner,        \* the page of the session's owner
    Admins,       \* pages of administrators
    Stale,        \* SESSION_INACTIVITY_TIMEOUT_MINUTES, in ticks
    MaxChoices    \* changes of path or colour (a bound)

ASSUME PagesAssumption == Owner \in Pages /\ Admins \subseteq Pages
ASSUME BoundsAssumption == Stale \in Nat \ {0} /\ MaxChoices \in Nat

VARIABLES
    session,  \* the row, and what the guest does on its remote-desktop port
    page,     \* each page: its state, and that of the console it has mounted
    choices   \* how much of MaxChoices is used up

vars == <<session, page, choices>>

-----------------------------------------------------------------------------
Statuses == {"running", "cleaning", "stopped", "cleanup_failed"}
Final == {"running", "failed", "stopped"}

Guac == {"token", "dial", "up", "slow", "stuck", "down"}
Vnc == {"vdial", "vup", "verror", "vdown"}
Mounted(con) == IF con \in Guac THEN "guac" ELSE IF con \in Vnc THEN "vnc" ELSE "none"

PageType ==
    [open : BOOLEAN,
     poll : {"off", "asked", "timer"},
     seen : {"none"} \cup Statuses,           \* session.status
     error : BOOLEAN,
     path : {"null", "fast", "fallback"},     \* consolePath
     forced : BOOLEAN,                        \* pathForced
     con : {"none"} \cup Guac \cup Vnc,       \* the mounted console
     label : BOOLEAN,                         \* NoVNCConsole's status is "Connected"
     late : BOOLEAN]                          \* a replaced console awaits its token

TypeOK ==
    /\ session \in [status : Statuses, demo : BOOLEAN, age : 0 .. Stale,
                    ip : BOOLEAN, port : {"answers", "refuses", "silent"}]
    /\ page \in [Pages -> PageType]
    /\ choices \in 0 .. MaxChoices

Closed == [open |-> FALSE, poll |-> "off", seen |-> "none", error |-> FALSE,
           path |-> "null", forced |-> FALSE, con |-> "none", label |-> FALSE,
           late |-> FALSE]

Init ==
    /\ session \in [status : {"running"}, demo : {FALSE}, age : {0}, ip : BOOLEAN,
                    port : {"answers", "refuses", "silent"}]
    /\ page = [p \in Pages |-> Closed]
    /\ choices = 0

IsOwner(p) == p = Owner
MayWatch(p) == IsOwner(p) \/ p \in Admins
                 \/ (session.demo /\ session.status = "running")

-----------------------------------------------------------------------------
(* Rendering *)

\* Which console the page shows for what it knows.
Wanted(r) == IF r.error \/ r.seen # "running" THEN "none"
             ELSE IF r.path = "fallback" THEN "vnc" ELSE "guac"

FirstState(kind) == CASE kind = "guac" -> "token" [] kind = "vnc" -> "vdial"
                      [] OTHER -> "none"

\* A change of kind unmounts one console and mounts the other.
Remount(r, kind) ==
    [r EXCEPT !.con = FirstState(kind), !.label = FALSE,
              !.late = @ \/ r.con = "token"]
Render(r) == IF Mounted(r.con) = Wanted(r) THEN r ELSE Remount(r, Wanted(r))

Show(p, r) == page' = [page EXCEPT ![p] = Render(r)]

-----------------------------------------------------------------------------
(* The page *)

Open(p) ==
    /\ ~page[p].open
    /\ page' = [page EXCEPT ![p] = [Closed EXCEPT !.open = TRUE, !.poll = "asked",
                                                  !.late = page[p].late]]
    /\ UNCHANGED <<session, choices>>

Left(p) == [page EXCEPT ![p] =
               [Closed EXCEPT !.late = page[p].late \/ page[p].con = "token"]]

Leave(p) ==
    /\ page[p].open
    /\ page' = Left(p)
    /\ UNCHANGED <<session, choices>>

\* GET /sessions/:publicId.  Anything but an answer ends the polling.
PollAnswered(p) ==
    /\ page[p].poll = "asked" /\ MayWatch(p)
    /\ Show(p, [page[p] EXCEPT !.seen = session.status,
                    !.poll = IF session.status \in Final THEN "off" ELSE "timer"])
    /\ UNCHANGED <<session, choices>>

PollFails(p) ==
    /\ page[p].poll = "asked"
    /\ Show(p, [page[p] EXCEPT !.error = TRUE, !.poll = "off"])
    /\ UNCHANGED <<session, choices>>

PollTimer(p) ==
    /\ page[p].poll = "timer"
    /\ Show(p, [page[p] EXCEPT !.poll = "asked"])
    /\ UNCHANGED <<session, choices>>

\* Every ten seconds while the owner's page takes the session to run.
Heartbeat(p) ==
    /\ page[p].open /\ page[p].seen = "running" /\ IsOwner(p)
    /\ session.status = "running"
    /\ session' = [session EXCEPT !.age = 0]
    /\ UNCHANGED <<page, choices>>

Chosen == choices < MaxChoices /\ choices' = choices + 1

\* choosePath, and the notice's Retry fast
ChoosePath(p, next) ==
    /\ page[p].seen = "running" /\ Chosen
    /\ Show(p, [page[p] EXCEPT !.forced = next # "auto",
                               !.path = IF next = "auto" THEN "null" ELSE next])
    /\ UNCHANGED session

\* The colour depth is baked into the connection.
Recolour(p) ==
    /\ page[p].con \in Guac /\ Chosen
    /\ page' = [page EXCEPT ![p] = Remount(page[p], "guac")]
    /\ UNCHANGED session

\* Demo mode, for the owner who is an administrator.
SetDemo(p, active) ==
    /\ page[p].seen = "running" /\ IsOwner(p) /\ p \in Admins
    /\ active => session.status = "running"
    /\ session' = [session EXCEPT !.demo = active]
    /\ UNCHANGED <<page, choices>>

\* confirmStop: the page is left whether or not the request succeeds.
Stop(p) ==
    /\ page[p].open /\ (IsOwner(p) \/ page[p].seen = "none")
    /\ \/ session' = session
       \/ /\ IsOwner(p) /\ session.status = "running"
          /\ session' = [session EXCEPT !.status = "cleaning"]
    /\ page' = Left(p)
    /\ UNCHANGED choices

-----------------------------------------------------------------------------
(* GuacConsole *)

\* Mutant: any grant counts as activity of the session.
TouchedByAll(p) == [session EXCEPT !.age = 0]

\* issueGuacToken: a grant counts as activity, but only for the owner.
Touched(p) == IF IsOwner(p) THEN [session EXCEPT !.age = 0] ELSE session
Grants(p) == MayWatch(p) /\ session.status = "running" /\ session.ip

\* Mutant: the path that gave way is forgotten, and there is no other.
GiveUpNowhere(r, con) == [r EXCEPT !.path = "none"]

\* giveUp and demoteToFallback: a path that was asked for is not overruled.
GiveUp(r, con) == IF r.forced THEN [r EXCEPT !.con = con]
                  ELSE [r EXCEPT !.path = "fallback"]

TokenGranted(p) ==
    /\ page[p].con = "token" /\ Grants(p)
    /\ session' = Touched(p)
    /\ Show(p, [page[p] EXCEPT !.con = "dial"])
    /\ UNCHANGED choices

TokenRefused(p) ==
    /\ page[p].con = "token"
    /\ Show(p, GiveUp(page[p], "stuck"))
    /\ UNCHANGED <<session, choices>>

\* Mutant: the effect of a replaced console is not told that it is cancelled.
LateGivesUp(p) ==
    /\ page[p].late
    /\ page' = [page EXCEPT ![p] = IF @.open THEN Render([GiveUp(@, @.con) EXCEPT !.late = FALSE])
                                   ELSE [@ EXCEPT !.late = FALSE]]
    /\ UNCHANGED <<session, choices>>

\* The answer for a console that has been replaced: cancelled.
LateAnswer(p) ==
    /\ page[p].late
    /\ session' = IF Grants(p) THEN Touched(p) ELSE session
    /\ page' = [page EXCEPT ![p].late = FALSE]
    /\ UNCHANGED choices

Alive == session.status # "stopped"

\* A connection that was given up may still come up.
Connects(p) ==
    /\ page[p].con \in {"dial", "slow"} /\ Alive /\ session.port = "answers"
    /\ Show(p, [page[p] EXCEPT !.con = "up"])
    /\ UNCHANGED <<session, choices>>

\* Mutant: only a refusal is a failure.
RefusalFails(p) ==
    /\ page[p].con = "dial" /\ session.port = "refuses"
    /\ Show(p, GiveUp(page[p], "slow"))
    /\ UNCHANGED <<session, choices>>

\* Closed during setup, an error, or no answer within 12 s.
DialFails(p) ==
    /\ page[p].con = "dial"
    /\ Show(p, GiveUp(page[p], "slow"))
    /\ UNCHANGED <<session, choices>>

\* A drop after a good connection is a disconnect.
Drops(p) ==
    /\ page[p].con \in {"up", "slow"}
    /\ Show(p, [page[p] EXCEPT !.con = "down"])
    /\ UNCHANGED <<session, choices>>

-----------------------------------------------------------------------------
(* NoVNCConsole, over the tunnel of VncTunnel *)

\* The proxy admits an owner; a spectator it turns away in the handshake.
VncConnects(p) ==
    /\ page[p].con = "vdial" /\ IsOwner(p) /\ session.status = "running"
    /\ Show(p, [page[p] EXCEPT !.con = "vup", !.label = TRUE])
    /\ UNCHANGED <<session, choices>>

VncFails(p) ==
    /\ page[p].con = "vdial"
    /\ Show(p, [page[p] EXCEPT !.con = "verror"])
    /\ UNCHANGED <<session, choices>>

\* Mutant: a clean end of the connection is not shown.
VncDropsUnseen(p) ==
    /\ page[p].con = "vup"
    /\ Show(p, [page[p] EXCEPT !.con = "vdown"])
    /\ UNCHANGED <<session, choices>>

\* Clean: the label changes.  Otherwise the error takes the console's place, and
\* the label keeps what it said.
VncDrops(p) ==
    /\ page[p].con = "vup"
    /\ \/ Show(p, [page[p] EXCEPT !.con = "verror"])
       \/ Show(p, [page[p] EXCEPT !.con = "vdown", !.label = FALSE])
    /\ UNCHANGED <<session, choices>>

\* Retry mounts the screen again; the label is that of before.
VncRetry(p) ==
    /\ page[p].con = "verror"
    /\ Show(p, [page[p] EXCEPT !.con = "vdial"])
    /\ UNCHANGED <<session, choices>>

-----------------------------------------------------------------------------
(* The session *)

Tick ==
    /\ session.status = "running" /\ session.age < Stale
    /\ session' = [session EXCEPT !.age = @ + 1]
    /\ UNCHANGED <<page, choices>>

Sweep ==
    /\ session.status = "running" /\ session.age = Stale
    /\ session' = [session EXCEPT !.status = "cleaning"]
    /\ UNCHANGED <<page, choices>>

CleanupEnds ==
    /\ session.status \in {"cleaning", "cleanup_failed"}
    /\ \E s \in {"stopped", "cleanup_failed"} :
          session' = [session EXCEPT !.status = s, !.demo = FALSE]
    /\ UNCHANGED <<page, choices>>

\* Another administrator starts a demo.
DemoTaken ==
    /\ session.demo
    /\ session' = [session EXCEPT !.demo = FALSE]
    /\ UNCHANGED <<page, choices>>

-----------------------------------------------------------------------------
Polls(p) == PollAnswered(p) \/ PollFails(p)
Fast(p) == TokenGranted(p) \/ TokenRefused(p) \/ Connects(p) \/ DialFails(p)
Compatible(p) == VncConnects(p) \/ VncFails(p)
Lost(p) == Drops(p) \/ VncDrops(p)
User(p) ==
    \/ Open(p) \/ Leave(p) \/ Stop(p) \/ Recolour(p) \/ VncRetry(p)
    \/ \E next \in {"auto", "fast", "fallback"} : ChoosePath(p, next)
    \/ \E active \in BOOLEAN : SetDemo(p, active)

Next ==
    \/ \E p \in Pages :
          \/ User(p) \/ Polls(p) \/ PollTimer(p) \/ Heartbeat(p)
          \/ Fast(p) \/ LateAnswer(p) \/ Compatible(p) \/ Lost(p)
    \/ Tick \/ Sweep \/ CleanupEnds \/ DemoTaken

\* Requests are answered or fail, timers fire, a connection to a machine that is
\* gone drops, and the clock and the sweeper run.  Nobody is obliged to open,
\* leave or choose anything.
Fairness ==
    /\ WF_vars(Tick) /\ WF_vars(Sweep)
    /\ \A p \in Pages :
          /\ WF_vars(Polls(p)) /\ WF_vars(PollTimer(p))
          /\ WF_vars(Fast(p)) /\ WF_vars(Compatible(p))
          /\ WF_vars(~Alive /\ Lost(p))

Spec == Init /\ [][Next]_vars /\ Fairness

-----------------------------------------------------------------------------
\* A session whose owner has left for good ends, however many watch it, open
\* its page again or reconnect.  "A room full of students watching a demo must
\* not keep somebody else's session alive" (issueGuacToken).
AbandonedEnds == <>[](~page[Owner].open) => <>(session.status # "running")

\* A page falls back by itself only before its console was up: "A drop after a
\* good connection is a real disconnect, not a reason to fall back to a slower
\* path".  Neither a late answer to a replaced console nor a drop takes a
\* working console away.
FallsBackOnlyAtFirst ==
    [][\A p \in Pages :
          (page[p].path # "fallback" /\ page'[p].path = "fallback" /\ ~page'[p].forced)
             => page[p].con \in {"token", "dial"}]_vars

\* Unless it was told to insist, a page does not stay at Connecting: the fast
\* console comes up or gives way, and the compatible one comes up or says why not.
Settles ==
    \A p \in Pages :
       page[p].con \in {"token", "dial", "vdial"} ~>
          (page[p].con \in {"none", "up", "down", "vup", "verror", "vdown"} \/ page[p].forced)

ShowsConnected(p) == page[p].con = "up"
    \/ (page[p].con \in Vnc \ {"verror"} /\ page[p].label)

\* No page goes on showing a machine that is gone as connected, although the
\* page itself no longer asks: the end of the connection tells it.
GoneShown == (session.status = "stopped") ~> (\A p \in Pages : ~ShowsConnected(p))

\* "Stop broadcasting this screen": when the demo of a running session is over,
\* those who were admitted because of it no longer see the screen.
DemoOver ==
    \A p \in Pages \ (Admins \cup {Owner}) :
       (~session.demo) ~>
          (session.demo \/ session.status # "running" \/ ~ShowsConnected(p))
=============================================================================
