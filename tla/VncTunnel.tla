------------------------------- MODULE VncTunnel -------------------------------
(***************************************************************************)
(* One connection through createNoVncProxy: a browser speaking RFB over a  *)
(* WebSocket, the display console of a VM behind another, and the proxy    *)
(* that answers the authentication in between.  What travels is cut into   *)
(* WebSocket messages anywhere, so a message of the protocol is a sequence *)
(* of pieces and the proxy sees some of them at a time.                    *)
(***************************************************************************)
EXTENDS Naturals, Sequences, SequencesExt, Places

CONSTANTS
    MaxRequests,  \* updates the browser asks for (a bound)
    MaxInputs,    \* keys it sends (a bound)
    Spans         \* pieces that the 19 bytes after a ClientInit may be, see format

ASSUME BoundsAssumption == {MaxRequests, MaxInputs} \subseteq Nat
ASSUME SpansAssumption == Spans \subseteq Nat \ {0}

VARIABLES
    asker,    \* who connects, what the session's row says of it, and its
              \* ClientInit: how many pieces follow it that the filter takes for
              \* the rest of a SetPixelFormat, 0 if it is of unknown type
    pc,       \* where the connection handler is
    bws,      \* the browser's socket
    pws,      \* the socket to Proxmox
    missed,   \* the browser closed before the handler listened
    quit,     \* a peer has ended the connection, or refused the ticket
    phase,    \* Phase
    buf,      \* serverBuf, clientBuf, spectateBuf
    wire,     \* pieces under way, by where they go
    peer,     \* what the server and the browser wait for
    sent,     \* how much of each bound is used up
    reached   \* messages that have reached the server

sockets == <<bws, pws, missed, quit>>
vars == <<asker, pc, sockets, phase, buf, wire, peer, sent, reached>>

-----------------------------------------------------------------------------
(* Messages and their pieces *)

\* One byte: the client's choice of a security type, and ClientInit.
Short == {"select", "init"}
Kind == Short \cup {"version", "types", "challenge", "response", "result", "denied", "reason",
                    "none", "ok", "sinit", "frame", "request", "input"}
Piece == Kind \X {1, 2}
Message(m) == IF m \in Short THEN <<<<m, 1>>>> ELSE <<<<m, 1>>, <<m, 2>>>>

\* A piece that ends a message.
Ends(piece) == piece[2] = 2 \/ piece[1] \in Short

\* The whole messages at the start of a buffer that starts with a message.
Complete(b) == IF b = <<>> \/ Ends(Last(b)) THEN b ELSE Front(b)

\* KeyEvent, PointerEvent, ClientCutText, QEMU extended key event
Dropped == {"input"}
\* The types relayFiltered knows the length of.
Known == Dropped \cup {"request"}

Phases == {"SERVER_VERSION", "CLIENT_VERSION", "SERVER_SEC_TYPES",
           "CLIENT_SEC_SELECT", "SERVER_CHALLENGE", "SERVER_RESULT", "TRANSPARENT"}

\* The filter reads the one byte of ClientInit, the shared flag, as the type of
\* a message: 1 is of unknown type, 0 is SetPixelFormat, of 20 bytes.
Askers == [who : {"owner", "admin", "student"}, demo : BOOLEAN, running : BOOLEAN,
           format : {0} \cup Spans]

TypeOK ==
    /\ asker \in Askers
    /\ pc \in {"lookup", "ticket", "attached", "refused"}
    /\ bws \in {"open", "closing", "closed"}
    /\ pws \in {"none", "connecting", "open", "closing", "closed"}
    /\ missed \in BOOLEAN /\ quit \in BOOLEAN
    /\ phase \in Phases
    /\ buf \in [{"server", "client", "spectate"} -> Seq(Piece)]
    /\ wire \in [{"proxyFromServer", "proxyFromBrowser", "server", "browser"} -> Seq(Piece)]
    /\ peer \in [server : {"version", "select", "response", "init", "serving", "failed"},
                 browser : {"version", "none", "ok", "sinit", "connected"}]
    /\ reached \in Seq(Kind)
    /\ sent \in [requests : 0 .. MaxRequests, inputs : 0 .. MaxInputs]

Init ==
    /\ asker \in {a \in Askers : a.who = "owner" => a.format = 0}
    /\ pc = "lookup"
    /\ bws = "open" /\ pws = "none" /\ missed = FALSE /\ quit = FALSE
    /\ phase = "SERVER_VERSION"
    /\ buf = [b \in {"server", "client", "spectate"} |-> <<>>]
    /\ wire = [w \in {"proxyFromServer", "proxyFromBrowser", "server", "browser"}
                 |-> <<>>]
    /\ peer = [server |-> "version", browser |-> "version"]
    /\ sent = [requests |-> 0, inputs |-> 0]
    /\ reached = <<>>

-----------------------------------------------------------------------------
(* The connection handler, until its listeners are attached *)

IsOwner == asker.who = "owner"
\* A spectator is an admin, or anybody while the session is the demo.
Spectator == ~IsOwner /\ (asker.who = "admin" \/ asker.demo)

\* close() of a socket.
Close(s) == IF s \in {"connecting", "open"} THEN "closing" ELSE s

\* Mutant: a refusal leaves the handler nowhere.
RefuseGone ==
    /\ pc' = "none" /\ bws' = Close(bws)
    /\ UNCHANGED <<asker, pws, missed, quit, phase, buf, wire, peer, sent, reached>>

Refuse ==
    /\ pc' = "refused"
    /\ bws' = Close(bws)
    /\ UNCHANGED <<asker, pws, missed, quit, phase, buf, wire, peer, sent, reached>>

Lookup ==
    /\ pc = "lookup"
    /\ \/ (IsOwner \/ Spectator) /\ asker.running
          /\ pc' = "ticket"
          /\ UNCHANGED <<asker, sockets, phase, buf, wire, peer, sent, reached>>
       \/ ~((IsOwner \/ Spectator) /\ asker.running) /\ Refuse

\* createVncProxy answers or throws.
Attach ==
    /\ pc = "ticket"
    /\ pc' = "attached" /\ pws' = "connecting"
    /\ UNCHANGED <<asker, bws, missed, quit, phase, buf, wire, peer, sent, reached>>

TicketFails == pc = "ticket" /\ Refuse

-----------------------------------------------------------------------------
(* Server to browser.  The peers speak in turn: in the phases that wait for *)
(* the other one nothing arrives.                                          *)

\* ws sends nothing on a socket that is not open.
ToBrowser(w, m) == IF bws = "open" THEN [w EXCEPT !.browser = @ \o m] ELSE w
ToServer(w, m) == IF pws = "open" THEN [w EXCEPT !.server = @ \o m] ELSE w

\* One pass of processServerData over the buffer, data already appended.
ServerVersion(b, w) ==
    /\ phase = "SERVER_VERSION"
    /\ IF Len(b) < 2 THEN phase' = phase /\ buf' = [buf EXCEPT !.server = b] /\ wire' = w
       ELSE /\ phase' = "CLIENT_VERSION"
            /\ buf' = [buf EXCEPT !.server = SubSeq(b, 3, Len(b))]
            /\ wire' = ToBrowser(w, Message("version"))
    /\ UNCHANGED sockets

ServerSecTypes(b, w) ==
    /\ phase = "SERVER_SEC_TYPES"
    /\ IF Len(b) < 2 THEN phase' = phase /\ buf' = [buf EXCEPT !.server = b] /\ wire' = w
       ELSE /\ phase' = "CLIENT_SEC_SELECT"
            /\ buf' = [buf EXCEPT !.server = SubSeq(b, 3, Len(b))]
            /\ wire' = ToBrowser(w, Message("none"))
    /\ UNCHANGED sockets

ServerChallenge(b, w) ==
    /\ phase = "SERVER_CHALLENGE"
    /\ IF Len(b) < 2 THEN phase' = phase /\ buf' = [buf EXCEPT !.server = b] /\ wire' = w
       ELSE /\ phase' = "SERVER_RESULT"
            /\ buf' = [buf EXCEPT !.server = SubSeq(b, 3, Len(b))]
            /\ wire' = ToServer(w, Message("response"))
    /\ UNCHANGED sockets

\* The browser is told that all is well even when it is not; then both close.
ServerResult(b, w) ==
    /\ phase = "SERVER_RESULT"
    /\ IF Len(b) < 2
       THEN /\ phase' = phase /\ buf' = [buf EXCEPT !.server = b] /\ wire' = w
            /\ UNCHANGED sockets
       ELSE /\ phase' = "TRANSPARENT"
            /\ buf' = [buf EXCEPT !.server = <<>>]
            /\ wire' = ToBrowser(w, Message("ok") \o SubSeq(b, 3, Len(b)))
            /\ IF b[1][1] = "result" THEN UNCHANGED <<bws, pws>>
               ELSE bws' = Close(bws) /\ pws' = Close(pws)
            /\ UNCHANGED <<missed, quit>>

\* Mutant: a WebSocket message replaces what has been kept of the last one.
KeepsNothing(raw) == raw

Accumulate(raw) == buf.server \o raw

\* A message of proxmoxWs: some of the pieces that are under way.
ServerMessage ==
    /\ pc = "attached" /\ pws \in {"open", "closing"}
    /\ \E n \in 1 .. Len(wire.proxyFromServer) :
       LET raw == SubSeq(wire.proxyFromServer, 1, n)
           w == [wire EXCEPT !.proxyFromServer = SubSeq(@, n + 1, Len(@))]
           b == Accumulate(raw)
       IN IF phase = "TRANSPARENT"
          THEN /\ wire' = ToBrowser(w, raw)
               /\ UNCHANGED <<phase, buf, sockets>>
          ELSE \/ ServerVersion(b, w) \/ ServerSecTypes(b, w)
               \/ ServerChallenge(b, w) \/ ServerResult(b, w)
    /\ UNCHANGED <<asker, pc, peer, sent, reached>>

-----------------------------------------------------------------------------
(* Browser to server *)

\* The 20 bytes end where a message of the browser ends.
InStep == asker.format % 2 = 0

\* Mutant: what follows a message that passes, in the same buffer, passes too.
ReadingsFirst(b) ==
    LET n == Len(Complete(b)) IN {<<n, {i \in 1 .. n : b[1][1] \notin Dropped}>>}

\* How much of a buffer the loop of relayFiltered reads, and which of it is
\* relayed: whole messages, but not those to be dropped.  Once it has read the
\* middle of a message as a type, content decides.
Readings(b) ==
    IF InStep
    THEN LET n == Len(Complete(b))
         IN {<<n, {i \in 1 .. n : b[i][1] \notin Dropped}>>}
    ELSE UNION {{<<n, at>> : at \in SUBSET (1 .. n)} : n \in 0 .. Len(b)}

\* relayFiltered.  ClientInit comes first: it ends the connection, or is relayed
\* with what makes 20 bytes of it, unread.
Filter(b, w) ==
    LET init == b[1][1] = "init"
        format == IF init THEN asker.format + 1 ELSE 0
        rest == SubSeq(b, format + 1, Len(b))
    IN \/ /\ init /\ asker.format = 0
          /\ buf' = [buf EXCEPT !.spectate = b] /\ wire' = w
          /\ bws' = Close(bws) /\ pws' = Close(pws) /\ UNCHANGED <<missed, quit>>
       \/ /\ Len(b) < format
          /\ buf' = [buf EXCEPT !.spectate = b] /\ wire' = w
          /\ UNCHANGED sockets
       \/ /\ Len(b) >= format /\ ~(init /\ asker.format = 0)
          /\ \E r \in Readings(rest) :
                /\ wire' = ToServer(w, SubSeq(b, 1, format) \o Picked(rest, r[2]))
                /\ buf' = [buf EXCEPT !.spectate = SubSeq(rest, r[1] + 1, Len(rest))]
          /\ \/ UNCHANGED <<bws, pws>>
             \/ ~InStep /\ bws' = Close(bws) /\ pws' = Close(pws)
          /\ UNCHANGED <<missed, quit>>

\* processClientData
ClientVersion(b, w) ==
    /\ phase = "CLIENT_VERSION"
    /\ IF Len(b) < 2 THEN phase' = phase /\ buf' = [buf EXCEPT !.client = b] /\ wire' = w
       ELSE /\ phase' = "SERVER_SEC_TYPES"
            /\ buf' = [buf EXCEPT !.client = SubSeq(b, 3, Len(b))]
            /\ wire' = ToServer(w, Message("version"))

\* Mutant: the choice of the browser is relayed besides the proxy's own.
ClientSecRelay(b, w) ==
    /\ phase = "CLIENT_SEC_SELECT"
    /\ phase' = "SERVER_CHALLENGE"
    /\ buf' = [buf EXCEPT !.client = Tail(b)]
    /\ wire' = ToServer(w, b \o Message("select"))

ClientSecSelect(b, w) ==
    /\ phase = "CLIENT_SEC_SELECT"
    /\ phase' = "SERVER_CHALLENGE"
    /\ buf' = [buf EXCEPT !.client = Tail(b)]
    /\ wire' = ToServer(w, Message("select"))

\* A message of browserWs.  One that comes before its turn is kept.
BrowserMessage ==
    /\ pc = "attached" /\ bws \in {"open", "closing"}
    /\ \E n \in 1 .. Len(wire.proxyFromBrowser) :
       LET raw == SubSeq(wire.proxyFromBrowser, 1, n)
           w == [wire EXCEPT !.proxyFromBrowser = SubSeq(@, n + 1, Len(@))]
       IN \/ phase = "TRANSPARENT" /\ Spectator
             /\ Filter(buf.spectate \o raw, w) /\ UNCHANGED phase
          \/ phase = "TRANSPARENT" /\ ~Spectator
             /\ wire' = ToServer(w, raw) /\ UNCHANGED <<phase, buf, sockets>>
          \/ ClientVersion(buf.client \o raw, w) /\ UNCHANGED sockets
          \/ ClientSecSelect(buf.client \o raw, w) /\ UNCHANGED sockets
          \/ phase \notin {"TRANSPARENT", "CLIENT_VERSION", "CLIENT_SEC_SELECT"}
             /\ wire' = w /\ buf' = [buf EXCEPT !.client = @ \o raw]
             /\ UNCHANGED <<phase, sockets>>
    /\ UNCHANGED <<asker, pc, peer, sent, reached>>

-----------------------------------------------------------------------------
(* Closing *)

\* Mutant: only a browser that closes before the console is open is noticed.
BrowserGoneEarly ==
    /\ pc = "attached" /\ bws = "closed" /\ ~missed
    /\ pws = "connecting"
    /\ pws' = "closing"
    /\ UNCHANGED <<asker, pc, bws, missed, quit, phase, buf, wire, peer, sent, reached>>

\* The listeners of browserWs: the handler that is not there yet hears nothing.
BrowserGone ==
    /\ pc = "attached" /\ bws = "closed" /\ ~missed
    /\ pws \in {"connecting", "open"}
    /\ pws' = "closing"
    /\ UNCHANGED <<asker, pc, bws, missed, quit, phase, buf, wire, peer, sent, reached>>

\* The listeners of proxmoxWs: close and error.
ServerGone ==
    /\ pc = "attached" /\ pws = "closed" /\ bws = "open"
    /\ bws' = "closing"
    /\ UNCHANGED <<asker, pc, pws, missed, quit, phase, buf, wire, peer, sent, reached>>

-----------------------------------------------------------------------------
(* The peers and the network *)

ServerOpens ==
    /\ pws = "connecting"
    /\ pws' = "open"
    /\ wire' = [wire EXCEPT !.proxyFromServer = Message("version")]
    /\ UNCHANGED <<asker, pc, bws, missed, quit, phase, buf, peer, sent, reached>>

\* The WebSocket handshake fails or times out after 10 s, or the VM stops.
ServerCloses ==
    /\ pws \in {"connecting", "open", "closing"}
    /\ pws' = "closed"
    /\ quit' = (quit \/ pws # "closing")
    /\ UNCHANGED <<asker, pc, bws, missed, phase, buf, wire, peer, sent, reached>>

BrowserCloses ==
    /\ bws \in {"open", "closing"}
    /\ bws' = "closed"
    /\ missed' = (pc \in {"lookup", "ticket"})
    /\ quit' = (quit \/ bws = "open")
    /\ UNCHANGED <<asker, pc, pws, phase, buf, wire, peer, sent, reached>>

\* The display console: it answers each message with the next of its own, and
\* a message out of turn with nothing.
Answer(m) ==
    CASE m = "version" -> {<<"select", Message("types")>>}
      [] m = "select" -> {<<"response", Message("challenge")>>}
      [] m = "response" -> {<<"init", Message("result")>>,
                            <<"failed", Message("denied") \o Message("reason")>>}
      [] m = "init" -> {<<"serving", Message("sinit")>>}
      [] m = "request" -> {<<"serving", Message("frame")>>}
      [] OTHER -> {<<peer.server, <<>>>>}

ServerReads ==
    /\ pws = "open"
    /\ Complete(wire.server) # <<>>
    /\ LET m == wire.server[1][1] IN
       /\ \E a \in IF peer.server \in {m, "serving"} THEN Answer(m)
                   ELSE {<<"failed", <<>>>>} :
             /\ peer' = [peer EXCEPT !.server = a[1]]
             /\ wire' = [wire EXCEPT !.server = SubSeq(@, Len(Message(m)) + 1, Len(@)),
                                     !.proxyFromServer = @ \o a[2]]
             /\ quit' = (quit \/ a[1] = "failed")
       /\ reached' = Append(reached, m)
    /\ UNCHANGED <<asker, pc, bws, pws, missed, phase, buf, sent>>

\* noVNC: version, the only security type offered, ClientInit, requests.
Reaction(m) ==
    CASE m = "version" -> <<"none", Message("version")>>
      [] m = "none" -> <<"ok", Message("select")>>
      [] m = "ok" -> <<"sinit", Message("init")>>
      [] m \in {"sinit", "frame"} -> <<"connected",
             IF sent.requests < MaxRequests THEN Message("request") ELSE <<>>>>
      [] OTHER -> <<peer.browser, <<>>>>

BrowserReads ==
    /\ bws = "open"
    /\ Complete(wire.browser) # <<>>
    /\ LET m == wire.browser[1][1]
           r == Reaction(m)
       IN /\ peer' = [peer EXCEPT !.browser = r[1]]
          /\ wire' = [wire EXCEPT !.browser = SubSeq(@, Len(Message(m)) + 1, Len(@)),
                                  !.proxyFromBrowser = @ \o r[2]]
          /\ sent' = IF r[2] = Message("request")
                     THEN [sent EXCEPT !.requests = @ + 1] ELSE sent
    /\ UNCHANGED <<asker, pc, sockets, phase, buf, reached>>

\* Keys and pointer, which the page of a spectator does not send; its browser
\* may.
BrowserInput ==
    /\ bws = "open" /\ peer.browser \in {"sinit", "connected"}
    /\ sent.inputs < MaxInputs
    /\ sent' = [sent EXCEPT !.inputs = @ + 1]
    /\ wire' = [wire EXCEPT !.proxyFromBrowser = @ \o Message("input")]
    /\ UNCHANGED <<asker, pc, sockets, phase, buf, peer, reached>>

-----------------------------------------------------------------------------
Handler ==
    \/ Lookup \/ Attach \/ TicketFails
    \/ ServerMessage \/ BrowserMessage
    \/ BrowserGone \/ ServerGone

\* The connection rests once both sockets have closed, or nothing is to be sent.
Next ==
    \/ Handler
    \/ ServerOpens \/ ServerCloses \/ BrowserCloses
    \/ ServerReads \/ BrowserReads \/ BrowserInput

\* The event loop runs, sockets that are being closed close, and what has been
\* sent is read.
Fairness ==
    /\ WF_vars(Handler)
    /\ WF_vars(ServerOpens)
    /\ WF_vars(ServerReads)
    /\ WF_vars(BrowserReads)
    /\ WF_vars(pws = "closing" /\ ServerCloses)
    /\ WF_vars(bws = "closing" /\ BrowserCloses)

Spec == Init /\ [][Next]_vars /\ Fairness

-----------------------------------------------------------------------------
\* What the filter of spectators keeps from the machine (relayFiltered, "this is
\* the enforcement"), however the messages are cut and joined on their way.  If
\* the shared flag is set, as noVNC sets it, all input.  If not, all that begins
\* behind the 20 bytes taken for a SetPixelFormat, provided they end with a
\* message; what lies within them gets through.
NoForeignInput ==
    Spectator => \A i \in 1 .. Len(reached) : reached[i] = "input" =>
        /\ asker.format # 0
        /\ InStep => 2 * (i - 5) < asker.format

\* What the server is sent is what RFB expects next: the version, the security
\* type, the response to its challenge, ClientInit, and then the rest; nothing is
\* lost, repeated or out of turn when the phases change.  (What comes of messages
\* that a filter out of step has cut is anybody's guess.)
HandshakeInOrder ==
    LET turns == <<"version", "select", "response", "init">>
    IN \A i \in 1 .. Len(reached) :
          IF i <= 4 THEN reached[i] = turns[i]
          ELSE reached[i] \in Known \/ (Spectator /\ ~InStep)

\* A socket does not outlive the other: once the handler listens, the browser's
\* leaving closes the console, and the console's end closes the browser.
BothEndsClose ==
    /\ (bws = "closed" /\ ~missed) ~> (pws \in {"none", "closed"})
    /\ (pws = "closed") ~> (bws = "closed")

\* The owner of a session gets a picture, unless the console or the browser
\* ends the connection, however what is sent is cut into messages.
OwnerSees ==
    (pc = "attached" /\ IsOwner) ~> (peer.browser = "connected" \/ quit)

\* So does a spectator: "Two kinds of non-owner may attach, both strictly as
\* spectators", and the dialog of demo mode says of those who watch "They can see
\* your screen".
SpectatorSees ==
    (pc = "attached" /\ Spectator) ~> (peer.browser = "connected" \/ quit)
=============================================================================
