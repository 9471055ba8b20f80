----------------------------- MODULE GatewayLink -----------------------------
(***************************************************************************)
(* The remote gateway (gateway/src/state.rs, gateway.rs) and the link      *)
(* clients it serves (link/src/main.rs): devices, their connections, and   *)
(* the maintenance session whose Pi process runs at the client.            *)
(*                                                                         *)
(* Every action is one hold of the lock on Inner, or one step of a socket  *)
(* handler, of an operator call or of a client between two awaits.  The    *)
(* sender queue, the writer task and the wire are one FIFO queue in each   *)
(* direction; a connection may break at any time, which loses what is in   *)
(* them.  Frames that carry no session (hello, ping, terminal bytes, model *)
(* calls), routes-only sockets and the session log are left out.           *)
(***************************************************************************)
EXTENDS Naturals, Sequences

CONSTANTS
    Devices,      \* device identities; each is paired at most once
    Conns,        \* connections, one run of the link client each
    NoConn,
    Calls,        \* calls of the operator's commands
    MaxSeq        \* bound on started sessions

ASSUME LinkAssumption == NoConn \notin Conns /\ MaxSeq \in Nat

Seqs == 1..MaxSeq
Seq0 == 0..MaxSeq        \* a session, or 0: none

VARIABLES
    device,     \* Inner.devices: "unpaired", "paired", "revoked" (removed)
    conn,       \* Inner.connections
    session,    \* Inner.sessions
    nextSeq,    \* next_session_seq
    sock,       \* handle_socket: control point, device, session to be replayed
    cut,        \* connections whose shutdown token is cancelled
    down,       \* frames to the client
    up,         \* frames to the gateway
    link,       \* link client: control point, session being started, its live Pi
    ending,     \* reader threads of dead Pis that still have SessionExit to send
    call,       \* operator calls between their lock scope and their last step
    gate        \* the listener accepts

vars == <<device, conn, session, nextSeq, sock, cut, down, up, link, ending, call, gate>>

NoSession == [state |-> "none", stop |-> FALSE, seq |-> 0]
IdleCall  == [pc |-> "idle", to |-> {}, frame |-> [kind |-> "stop", seq |-> 0]]
Frame(k, q) == [kind |-> k, seq |-> q]
Sock(p, d, q) == [pc |-> p, dev |-> d, replay |-> q]

Init ==
    /\ device = [d \in Devices |-> "unpaired"]
    /\ conn = [d \in Devices |-> NoConn]
    /\ session = [d \in Devices |-> NoSession]
    /\ nextSeq = 1
    /\ sock \in [Conns -> {Sock("free", d, 0) : d \in Devices}]
    /\ cut = {}
    /\ down = [c \in Conns |-> <<>>]
    /\ up = [c \in Conns |-> <<>>]
    /\ link = [c \in Conns |-> [pc |-> "off", next |-> 0, pi |-> 0]]
    /\ ending = [c \in Conns |-> 0]
    /\ call = [x \in Calls |-> IdleCall]
    /\ gate = TRUE
-----------------------------------------------------------------------------
(* The gateway's state, one operator per lock scope *)

Active(s) == s.state \in {"starting", "running"}

\* The session with its state set to exited; no session stays none.
Exited(s) == IF s.state = "none" THEN s ELSE [state |-> "exited", stop |-> s.stop, seq |-> s.seq]

Pair(d) ==
    /\ device[d] = "unpaired"
    /\ device' = [device EXCEPT ![d] = "paired"]
    /\ UNCHANGED <<conn, session, nextSeq, sock, cut, down, up, link, ending, call, gate>>

\* A client of a device that was paired asks for its socket.
Connect(c) ==
    /\ gate /\ sock[c].pc = "free" /\ device[sock[c].dev] # "unpaired"
    /\ sock' = [sock EXCEPT ![c] = Sock("asked", sock[c].dev, 0)]
    /\ link' = [link EXCEPT ![c] = [pc |-> "run", next |-> 0, pi |-> 0]]
    /\ UNCHANGED <<device, conn, session, nextSeq, cut, down, up, ending, call, gate>>

\* authenticate: the token of a device that is gone is refused.
Authenticate(c) ==
    /\ sock[c].pc = "asked"
    /\ sock' = [sock EXCEPT ![c] = Sock(IF device[sock[c].dev] = "paired" THEN "attach" ELSE "closed",
                                       sock[c].dev, 0)]
    /\ UNCHANGED <<device, conn, session, nextSeq, cut, down, up, link, ending, call, gate>>

Replayable(s) == Active(s) /\ ~s.stop

\* What attach_connection does to the device's session: an active one is left
\* as it is and replayed, any other is exited and forgets its stop request.
AttachSession(c) ==
    LET d == sock[c].dev IN
    IF Replayable(session[d])
      THEN /\ sock' = [sock EXCEPT ![c] = Sock("greet", d, session[d].seq)]
           /\ UNCHANGED session
      ELSE /\ sock' = [sock EXCEPT ![c] = Sock("greet", d, 0)]
           /\ session' = [session EXCEPT ![d] = [state |-> Exited(session[d]).state,
                                                 stop |-> FALSE, seq |-> session[d].seq]]

Refuse(c) ==
    /\ sock' = [sock EXCEPT ![c] = Sock("closed", sock[c].dev, 0)]
    /\ UNCHANGED <<conn, cut, session>>

\* attach_connection: the device's old connection is replaced and shut down.
Attach(c) ==
    /\ sock[c].pc = "attach"
    /\ IF device[sock[c].dev] = "paired"
         THEN /\ conn' = [conn EXCEPT ![sock[c].dev] = c]
              /\ cut' = cut \cup ({conn[sock[c].dev]} \ {NoConn})
              /\ AttachSession(c)
         ELSE Refuse(c)
    /\ UNCHANGED <<device, nextSeq, down, up, link, ending, call, gate>>

\* The Ready frame goes out after the lock is released.
Greet(c) ==
    /\ sock[c].pc = "greet"
    /\ down' = [down EXCEPT ![c] = Append(@, Frame("ready", sock[c].replay))]
    /\ sock' = [sock EXCEPT ![c] = Sock("loop", sock[c].dev, 0)]
    /\ UNCHANGED <<device, conn, session, nextSeq, cut, up, link, ending, call, gate>>

\* Mutant: SessionReady revives a session that was terminated meanwhile.
ReadySessionAlways(s) == IF s.state = "none" THEN s ELSE [s EXCEPT !.state = "running"]

\* session_ready: only an active session that is not being stopped runs.
ReadySession(s) == IF Active(s) /\ ~s.stop
    THEN [state |-> "running", stop |-> s.stop, seq |-> s.seq] ELSE s

\* The handler takes a frame.  A cancelled token does not keep it from doing so
\* (select! is fair), nor does it ask whether the connection is still the
\* device's or which session the frame is about.
Serve(c) ==
    /\ sock[c].pc = "loop" /\ up[c] # <<>>
    /\ up' = [up EXCEPT ![c] = Tail(@)]
    /\ LET d == sock[c].dev IN
         session' = [session EXCEPT ![d] = IF Head(up[c]) = "ready" THEN ReadySession(session[d])
                                           ELSE Exited(session[d])]
    /\ UNCHANGED <<device, conn, nextSeq, sock, cut, down, link, ending, call, gate>>

\* Mutant: the handler returns as soon as its loop ends.
HangUpAtOnce(c) ==
    /\ sock[c].pc = "loop"
    /\ cut' = cut \cup {c}
    /\ sock' = [sock EXCEPT ![c] = Sock("closed", sock[c].dev, 0)]
    /\ UNCHANGED <<device, conn, session, nextSeq, down, up, link, ending, call, gate>>

\* The loop ends: cancelled, closed by the client, or the network broke.
HangUp(c) ==
    /\ sock[c].pc = "loop"
    /\ cut' = cut \cup {c}
    /\ sock' = [sock EXCEPT ![c] = Sock("detach", sock[c].dev, 0)]
    /\ UNCHANGED <<device, conn, session, nextSeq, down, up, link, ending, call, gate>>

\* detach_connection: a connection that was replaced changes nothing.
Detach(c) ==
    /\ sock[c].pc = "detach"
    /\ LET d == sock[c].dev IN
         IF conn[d] = c
           THEN /\ conn' = [conn EXCEPT ![d] = NoConn]
                /\ session' = [session EXCEPT ![d] = IF Active(@) THEN Exited(@) ELSE @]
           ELSE UNCHANGED <<conn, session>>
    /\ sock' = [sock EXCEPT ![c] = Sock("closed", sock[c].dev, 0)]
    /\ UNCHANGED <<device, nextSeq, cut, down, up, link, ending, call, gate>>
-----------------------------------------------------------------------------
(* The operator *)

\* Mutant: the connection is forgotten, but not shut down.
RevokeKeepsSocket(x, d) ==
    /\ call[x].pc = "idle" /\ device[d] = "paired"
    /\ device' = [device EXCEPT ![d] = "revoked"]
    /\ conn' = [conn EXCEPT ![d] = NoConn]
    /\ session' = [session EXCEPT ![d] = NoSession]
    /\ call' = [call EXCEPT ![x] = [pc |-> "done", to |-> {}, frame |-> Frame("stop", 0)]]
    /\ UNCHANGED <<nextSeq, sock, cut, down, up, link, ending, gate>>

\* start_session: one active session per device, and only on a connected one.
\* The SessionOpen frame goes out after the lock is released.
StartSession(x, d) ==
    /\ call[x].pc = "idle" /\ nextSeq \in Seqs
    /\ device[d] = "paired" /\ conn[d] # NoConn
    /\ ~(Active(session[d]) /\ ~session[d].stop)
    /\ session' = [session EXCEPT ![d] = [state |-> "starting", stop |-> FALSE, seq |-> nextSeq]]
    /\ nextSeq' = nextSeq + 1
    /\ call' = [call EXCEPT ![x] = [pc |-> "send", to |-> {conn[d]}, frame |-> Frame("open", nextSeq)]]
    /\ UNCHANGED <<device, conn, sock, cut, down, up, link, ending, gate>>

\* terminate_session: the session is exited at once, the client is told later.
Terminate(x, d) ==
    /\ call[x].pc = "idle" /\ session[d].state # "none"
    /\ session' = [session EXCEPT ![d] = [state |-> "exited", stop |-> TRUE, seq |-> session[d].seq]]
    /\ call' = [call EXCEPT ![x] = [pc |-> "send", to |-> {conn[d]} \ {NoConn}, frame |-> Frame("stop", 0)]]
    /\ UNCHANGED <<device, conn, nextSeq, sock, cut, down, up, link, ending, gate>>

\* A closed connection is not writable.
Send(x) ==
    /\ call[x].pc = "send"
    /\ down' = [c \in Conns |-> IF c \in call[x].to /\ sock[c].pc # "closed"
                                THEN Append(down[c], call[x].frame) ELSE down[c]]
    /\ call' = [call EXCEPT ![x] = [pc |-> "done", to |-> {}, frame |-> call[x].frame]]
    /\ UNCHANGED <<device, conn, session, nextSeq, sock, cut, up, link, ending, gate>>

\* revoke: device, connection and session go under one hold of the lock; the
\* connection is shut down after the registry is saved.
Revoke(x, d) ==
    /\ call[x].pc = "idle" /\ device[d] = "paired"
    /\ device' = [device EXCEPT ![d] = "revoked"]
    /\ conn' = [conn EXCEPT ![d] = NoConn]
    /\ session' = [session EXCEPT ![d] = NoSession]
    /\ call' = [call EXCEPT ![x] = [pc |-> "cut", to |-> {conn[d]} \ {NoConn}, frame |-> Frame("stop", 0)]]
    /\ UNCHANGED <<nextSeq, sock, cut, down, up, link, ending, gate>>

CutRevoked(x) ==
    /\ call[x].pc = "cut"
    /\ cut' = cut \cup call[x].to
    /\ call' = [call EXCEPT ![x] = [pc |-> "done", to |-> {}, frame |-> call[x].frame]]
    /\ UNCHANGED <<device, conn, session, nextSeq, sock, down, up, link, ending, gate>>

\* stop_gateway, disconnect_all_connections: every session is exited and every
\* connection drained ...
StopGateway(x) ==
    /\ call[x].pc = "idle" /\ gate
    /\ \A y \in Calls : call[y].pc # "close"
    /\ session' = [d \in Devices |-> Exited(session[d])]
    /\ conn' = [d \in Devices |-> NoConn]
    /\ call' = [call EXCEPT ![x] = [pc |-> "close", to |-> {conn[d] : d \in Devices} \ {NoConn},
                                    frame |-> Frame("stop", 0)]]
    /\ UNCHANGED <<device, nextSeq, sock, cut, down, up, link, ending, gate>>

\* ... then the drained connections and the listener are shut down.
CloseGateway(x) ==
    /\ call[x].pc = "close"
    /\ cut' = cut \cup call[x].to
    /\ gate' = FALSE
    /\ call' = [call EXCEPT ![x] = [pc |-> "done", to |-> {}, frame |-> call[x].frame]]
    /\ UNCHANGED <<device, conn, session, nextSeq, sock, down, up, link, ending>>
-----------------------------------------------------------------------------
(* The link client *)

Kill(c) == ending' = [ending EXCEPT ![c] = IF link[c].pi # 0 THEN @ + 1 ELSE @]

\* Ready may carry a session to start; SessionOpen kills the Pi and starts one;
\* SessionStop kills the Pi and is acknowledged, Pi or no Pi.
Receive(c) ==
    /\ link[c].pc = "run" /\ down[c] # <<>>
    /\ down' = [down EXCEPT ![c] = Tail(@)]
    /\ LET f == Head(down[c]) IN
         \/ /\ f.kind = "ready"
            /\ link' = [link EXCEPT ![c] = [pc |-> IF f.seq # 0 THEN "start" ELSE "run",
                                            next |-> f.seq, pi |-> link[c].pi]]
            /\ UNCHANGED <<ending, up>>
         \/ /\ f.kind = "open"
            /\ Kill(c)
            /\ link' = [link EXCEPT ![c] = [pc |-> "start", next |-> f.seq, pi |-> 0]]
            /\ UNCHANGED up
         \/ /\ f.kind = "stop"
            /\ Kill(c)
            /\ link' = [link EXCEPT ![c] = [pc |-> "run", next |-> 0, pi |-> 0]]
            /\ up' = [up EXCEPT ![c] = Append(@, "exit")]
    /\ UNCHANGED <<device, conn, session, nextSeq, sock, cut, call, gate>>

\* Mutant: a Pi that could not be started is not reported.
StartPiSilently(c) ==
    /\ link[c].pc = "start"
    /\ \/ /\ Kill(c)
          /\ link' = [link EXCEPT ![c] = [pc |-> "run", next |-> 0, pi |-> link[c].next]]
          /\ up' = [up EXCEPT ![c] = Append(@, "ready")]
       \/ /\ link' = [link EXCEPT ![c] = [pc |-> "run", next |-> 0, pi |-> link[c].pi]]
          /\ UNCHANGED <<up, ending>>
    /\ UNCHANGED <<device, conn, session, nextSeq, sock, cut, down, call, gate>>

\* start_pi_session succeeds (a Pi still held is dropped, and so killed) or fails.
StartPi(c) ==
    /\ link[c].pc = "start"
    /\ \/ /\ Kill(c)
          /\ link' = [link EXCEPT ![c] = [pc |-> "run", next |-> 0, pi |-> link[c].next]]
          /\ up' = [up EXCEPT ![c] = Append(@, "ready")]
       \/ /\ link' = [link EXCEPT ![c] = [pc |-> "run", next |-> 0, pi |-> link[c].pi]]
          /\ up' = [up EXCEPT ![c] = Append(@, "exit")]
          /\ UNCHANGED ending
    /\ UNCHANGED <<device, conn, session, nextSeq, sock, cut, down, call, gate>>

\* Pi exits by itself.
PiExits(c) ==
    /\ link[c].pi # 0
    /\ Kill(c)
    /\ link' = [link EXCEPT ![c] = [pc |-> link[c].pc, next |-> link[c].next, pi |-> 0]]
    /\ UNCHANGED <<device, conn, session, nextSeq, sock, cut, down, up, call, gate>>

\* The reader thread of a Pi that is gone meets the end of the terminal.
ReaderEnds(c) ==
    /\ ending[c] > 0
    /\ ending' = [ending EXCEPT ![c] = @ - 1]
    /\ up' = [up EXCEPT ![c] = Append(@, "exit")]
    /\ UNCHANGED <<device, conn, session, nextSeq, sock, cut, down, link, call, gate>>

\* The client loses its socket or is ended; its Pi and its threads go with it.
LinkEnds(c) ==
    /\ link[c].pc \in {"run", "start"}
    /\ link' = [link EXCEPT ![c] = [pc |-> "off", next |-> 0, pi |-> 0]]
    /\ ending' = [ending EXCEPT ![c] = 0]
    /\ down' = [down EXCEPT ![c] = <<>>]
    /\ UNCHANGED <<device, conn, session, nextSeq, sock, cut, up, call, gate>>
-----------------------------------------------------------------------------
SocketStep(c) == Connect(c) \/ Authenticate(c) \/ Attach(c) \/ Greet(c) \/ Serve(c) \/ HangUp(c) \/ Detach(c)
ClientStep(c) == Receive(c) \/ StartPi(c) \/ PiExits(c) \/ ReaderEnds(c) \/ LinkEnds(c)
OperatorStep(x) ==
    \/ \E d \in Devices : StartSession(x, d) \/ Terminate(x, d) \/ Revoke(x, d)
    \/ Send(x) \/ CutRevoked(x) \/ StopGateway(x) \/ CloseGateway(x)

Next ==
    \/ \E d \in Devices : Pair(d)
    \/ \E c \in Conns : SocketStep(c) \/ ClientStep(c)
    \/ \E x \in Calls : OperatorStep(x)

Spec == Init /\ [][Next]_vars

\* Handlers, writer, clients and reader threads run on; a cancelled token or a
\* client that is gone ends the loop of the handler.  Operators, and Pi, do as
\* they like, and a client need never be served once its socket is cancelled.
Fairness ==
    /\ \A c \in Conns :
         /\ WF_vars(Authenticate(c)) /\ WF_vars(Attach(c)) /\ WF_vars(Greet(c)) /\ WF_vars(Detach(c))
         /\ WF_vars(c \notin cut /\ Serve(c))
         /\ WF_vars((c \in cut \/ (link[c].pc = "off" /\ up[c] = <<>>)) /\ HangUp(c))
         /\ WF_vars(c \notin cut /\ Receive(c))
         /\ WF_vars(StartPi(c)) /\ WF_vars(ReaderEnds(c))
    /\ \A x \in Calls : WF_vars(Send(x)) /\ WF_vars(CutRevoked(x)) /\ WF_vars(CloseGateway(x))

LiveSpec == Spec /\ Fairness
-----------------------------------------------------------------------------
Sessions == {NoSession} \cup [state : {"starting", "running", "exited"}, stop : BOOLEAN, seq : Seqs]

Frames   == [kind : {"ready", "open", "stop"}, seq : Seq0]
SockRecs == [pc : {"free", "asked", "attach", "greet", "loop", "detach", "closed"},
             dev : Devices, replay : Seq0]
LinkRecs == [pc : {"off", "run", "start"}, next : Seq0, pi : Seq0]
CallRecs == [pc : {"idle", "send", "cut", "close", "done"}, to : SUBSET Conns, frame : Frames]

TypeOK ==
    /\ device \in [Devices -> {"unpaired", "paired", "revoked"}]
    /\ conn \in [Devices -> Conns \cup {NoConn}]
    /\ session \in [Devices -> Sessions]
    /\ nextSeq \in 1..(MaxSeq + 1)
    /\ sock \in [Conns -> SockRecs]
    /\ cut \subseteq Conns
    /\ down \in [Conns -> Seq(Frames)]
    /\ up \in [Conns -> Seq({"ready", "exit"})]
    /\ link \in [Conns -> LinkRecs]
    /\ ending \in [Conns -> Nat]
    /\ call \in [Calls -> CallRecs]
    /\ gate \in BOOLEAN

\* A session that counts as active belongs to a device that is online: revoke,
\* stop, replacement and loss of a connection leave none behind (the phantom
\* RUNNING session detach_connection speaks of).
ActiveSessionIsOnline == \A d \in Devices : Active(session[d]) => conn[d] # NoConn

\* Whatever the order of revoke and attach_connection, an online device is a
\* paired one, and its connection is one that authenticated as that device.
OnlineDeviceIsPaired == \A d \in Devices : conn[d] # NoConn =>
    /\ device[d] = "paired"
    /\ sock[conn[d]].dev = d /\ sock[conn[d]].pc \in {"greet", "loop", "detach"}

\* c is shut down, or about to be by a call that has taken it out of the map.
ShutDown(c) == c \in cut \/ \E x \in Calls : call[x].pc \in {"cut", "close"} /\ c \in call[x].to

\* A handler serves the device's registered connection, or one that is being
\* shut down: no client stays connected that the operator cannot reach.
OneOpenSocket == \A c \in Conns :
    sock[c].pc \in {"greet", "loop"} /\ conn[sock[c].dev] # c => ShutDown(c)

\* Sessions are told apart by their number.
SessionsNumbered == \A d \in Devices : session[d].seq < nextSeq

\* What the lock on Inner keeps, inductive as it stands: who is online, with
\* which connection, and what of it a session may rely on.
LinkInv == /\ TypeOK
           /\ ActiveSessionIsOnline
           /\ OnlineDeviceIsPaired
           /\ OneOpenSocket
           /\ SessionsNumbered

\* No frame, call or handler step concerning d is under way.
Quiet(d) ==
    /\ \A x \in Calls : call[x].pc \in {"idle", "done"}
    /\ \A c \in Conns : sock[c].dev = d =>
         /\ down[c] = <<>> /\ up[c] = <<>> /\ ending[c] = 0
         /\ sock[c].pc \in {"free", "closed", "loop"} /\ link[c].pc # "start"
         /\ sock[c].pc = "loop" => c \notin cut /\ link[c].pc = "run"

\* When everything said between gateway and client has been heard, a session
\* shown as active has a Pi at the client the device is connected with.
NoPhantomSession == \A d \in Devices :
    Quiet(d) /\ Active(session[d]) => link[conn[d]].pi # 0

\* A session that is over stays over: no late SessionReady, no replay and no
\* reconnection revives it; only start_session makes a new one.
ExitedStaysExited == [][\A d \in Devices :
    session[d].state = "exited" /\ session'[d].seq = session[d].seq => session'[d].state = "exited"]_vars

Phantom(d) == Active(session[d]) /\ (conn[d] = NoConn \/ link[conn[d]].pi = 0)

\* A session whose client has no Pi, or is gone, gets one or is ended.
PhantomSessionEnds == \A d \in Devices : Phantom(d) ~> ~Phantom(d)
=============================================================================
