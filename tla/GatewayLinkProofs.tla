------------------------- MODULE GatewayLinkProofs -------------------------
(***************************************************************************)
(* LinkInv is an invariant of the gateway for any number of devices,       *)
(* connections and calls, and with it what GatewayLink says about who is   *)
(* online, and that a session that is over stays over.                     *)
(***************************************************************************)
EXTENDS GatewayLink, TLAPS

\* The records the actions build are of their type.
LEMMA Builds ==
    /\ 0 \in Seq0 /\ NoSession \in Sessions
    /\ \A p \in {"free", "asked", "attach", "greet", "loop", "detach", "closed"},
          d \in Devices, q \in Seq0 : Sock(p, d, q) \in SockRecs
    /\ \A k \in {"ready", "open", "stop"}, q \in Seq0 : Frame(k, q) \in Frames
    /\ \A p \in {"off", "run", "start"}, n, q \in Seq0 :
          [pc |-> p, next |-> n, pi |-> q] \in LinkRecs
    /\ \A p \in {"idle", "send", "cut", "close", "done"}, S \in SUBSET Conns, f \in Frames :
          [pc |-> p, to |-> S, frame |-> f] \in CallRecs
BY LinkAssumption DEF Seq0, NoSession, Sessions, Sock, SockRecs, Frame, Frames, LinkRecs, CallRecs

\* What the actions take out of the records.
LEMMA Reads ==
    ASSUME TypeOK
    PROVE  /\ \A c \in Conns : sock[c].dev \in Devices /\ sock[c].replay \in Seq0
           /\ \A c \in Conns : link[c].next \in Seq0 /\ link[c].pi \in Seq0
                                /\ link[c].pc \in {"off", "run", "start"}
           /\ \A x \in Calls : call[x].to \in SUBSET Conns /\ call[x].frame \in Frames
           /\ \A d \in Devices : session[d] \in Sessions /\ session[d].seq \in Seq0
           /\ \A d \in Devices : conn[d] \in Conns \cup {NoConn}
BY LinkAssumption DEF TypeOK, SockRecs, LinkRecs, CallRecs, Sessions, NoSession, Seq0, Seqs

\* What is true of a session that is told to exit, or that is ready.
LEMMA SessionFacts ==
    ASSUME NEW s \in Sessions
    PROVE  /\ Exited(s) \in Sessions /\ ReadySession(s) \in Sessions
           /\ ~Active(Exited(s)) /\ Exited(s).seq = s.seq
           /\ Active(ReadySession(s)) => Active(s)
           /\ ReadySession(s).seq = s.seq
           /\ s.state = "exited" => Exited(s).state = "exited" /\ ReadySession(s).state = "exited"
BY DEF Sessions, NoSession, Exited, ReadySession, Active

\* attach_connection exits a session it does not replay, and keeps its number.
LEMMA AttachFacts ==
    ASSUME NEW s \in Sessions
    PROVE  LET r == [state |-> Exited(s).state, stop |-> FALSE, seq |-> s.seq] IN
           /\ r \in Sessions /\ ~Active(r) /\ r.seq = s.seq
           /\ s.state = "exited" => r.state = "exited"
<1>1. CASE s = NoSession
  BY <1>1 DEF Sessions, NoSession, Exited, Active
<1>2. CASE s # NoSession
  BY <1>2 DEF Sessions, NoSession, Exited, Active
<1> QED
  BY <1>1, <1>2

\* A started session, and a terminated one.
LEMMA StartFacts ==
    /\ \A q \in Seqs : [state |-> "starting", stop |-> FALSE, seq |-> q] \in Sessions
    /\ \A s \in Sessions : s.state # "none" =>
          [state |-> "exited", stop |-> TRUE, seq |-> s.seq] \in Sessions
BY DEF Sessions, NoSession
-----------------------------------------------------------------------------
\* A frame taken from a queue, or put at its end, leaves a queue.
LEMMA QueueTypes ==
    ASSUME NEW T, NEW q \in Seq(T)
    PROVE  /\ \A f \in T : Append(q, f) \in Seq(T)
           /\ q # <<>> => Tail(q) \in Seq(T) /\ Head(q) \in T
OBVIOUS

\* Every step keeps the types.
LEMMA TypeStep == TypeOK /\ [Next]_vars => TypeOK'
<1> SUFFICES ASSUME TypeOK, [Next]_vars PROVE TypeOK'
  OBVIOUS
<1> USE Builds, Reads
<1>1. ASSUME NEW d \in Devices, Pair(d)
      PROVE  TypeOK'
  BY <1>1 DEF TypeOK, Pair
<1>2. ASSUME NEW c \in Conns, Connect(c)
      PROVE  TypeOK'
  <2>1. sock' \in [Conns -> SockRecs]
    BY <1>2 DEF TypeOK, Connect
  <2>2. link' \in [Conns -> LinkRecs]
    BY <1>2 DEF TypeOK, Connect
  <2> QED
    BY <1>2, <2>1, <2>2 DEF TypeOK, Connect
<1>3. ASSUME NEW c \in Conns, Authenticate(c)
      PROVE  TypeOK'
  <2>1. sock' \in [Conns -> SockRecs]
    <3>1. Sock("attach", sock[c].dev, 0) \in SockRecs /\ Sock("closed", sock[c].dev, 0) \in SockRecs
      BY <1>3
    <3>2. sock' = [sock EXCEPT ![c] = Sock("attach", sock[c].dev, 0)]
          \/ sock' = [sock EXCEPT ![c] = Sock("closed", sock[c].dev, 0)]
      BY <1>3 DEF Authenticate
    <3> QED
      BY <3>1, <3>2 DEF TypeOK
  <2> QED
    BY <1>3, <2>1 DEF TypeOK, Authenticate
<1>4. ASSUME NEW c \in Conns, Attach(c)
      PROVE  TypeOK'
  <2>1. sock' \in [Conns -> SockRecs]
    <3>1. \E p \in {"greet", "closed"}, q \in Seq0 : sock' = [sock EXCEPT ![c] = Sock(p, sock[c].dev, q)]
      BY <1>4 DEF Attach, AttachSession, Refuse
    <3>2. \A p \in {"greet", "closed"}, q \in Seq0 : Sock(p, sock[c].dev, q) \in SockRecs
      BY <1>4
    <3> QED
      BY <3>1, <3>2 DEF TypeOK
  <2>2. session' \in [Devices -> Sessions]
    BY <1>4, AttachFacts DEF TypeOK, Attach, AttachSession, Refuse
  <2>3. conn' \in [Devices -> Conns \cup {NoConn}]
    BY <1>4 DEF TypeOK, Attach, Refuse
  <2>4. cut' \subseteq Conns
    BY <1>4 DEF TypeOK, Attach, Refuse
  <2> QED
    BY <1>4, <2>1, <2>2, <2>3, <2>4 DEF TypeOK, Attach, AttachSession, Refuse
<1>5. ASSUME NEW c \in Conns, Greet(c)
      PROVE  TypeOK'
  <2>1. sock' \in [Conns -> SockRecs]
    BY <1>5 DEF TypeOK, Greet
  <2>2. down' \in [Conns -> Seq(Frames)]
    BY <1>5, QueueTypes DEF TypeOK, Greet
  <2> QED
    BY <1>5, <2>1, <2>2 DEF TypeOK, Greet
<1>6. ASSUME NEW c \in Conns, Serve(c)
      PROVE  TypeOK'
  <2>1. up' \in [Conns -> Seq({"ready", "exit"})]
    BY <1>6, QueueTypes DEF TypeOK, Serve
  <2>2. session' \in [Devices -> Sessions]
    BY <1>6, SessionFacts DEF TypeOK, Serve
  <2> QED
    BY <1>6, <2>1, <2>2 DEF TypeOK, Serve
<1>7. ASSUME NEW c \in Conns, HangUp(c)
      PROVE  TypeOK'
  <2>1. sock' \in [Conns -> SockRecs]
    BY <1>7 DEF TypeOK, HangUp
  <2>2. cut' \subseteq Conns
    BY <1>7 DEF TypeOK, HangUp
  <2> QED
    BY <1>7, <2>1, <2>2 DEF TypeOK, HangUp
<1>8. ASSUME NEW c \in Conns, Detach(c)
      PROVE  TypeOK'
  <2>1. sock' \in [Conns -> SockRecs]
    BY <1>8 DEF TypeOK, Detach
  <2>2. session' \in [Devices -> Sessions]
    <3>1. Exited(session[sock[c].dev]) \in Sessions
      BY <1>8, SessionFacts
    <3> QED
      BY <1>8, <3>1 DEF TypeOK, Detach
  <2>3. conn' \in [Devices -> Conns \cup {NoConn}]
    BY <1>8 DEF TypeOK, Detach
  <2> QED
    BY <1>8, <2>1, <2>2, <2>3 DEF TypeOK, Detach
<1>9. ASSUME NEW c \in Conns, Receive(c)
      PROVE  TypeOK'
  <2>1. down' \in [Conns -> Seq(Frames)]
    BY <1>9, QueueTypes DEF TypeOK, Receive
  <2>2. link' \in [Conns -> LinkRecs]
    <3>1. Head(down[c]).seq \in Seq0
      <4>1. down[c] \in Seq(Frames) /\ down[c] # <<>>
        BY <1>9 DEF TypeOK, Receive
      <4>2. Head(down[c]) \in Frames
        BY <4>1, QueueTypes
      <4> QED
        BY <4>2 DEF Frames
    <3>2. \E p \in {"run", "start"}, n, q \in Seq0 :
             link' = [link EXCEPT ![c] = [pc |-> p, next |-> n, pi |-> q]]
      BY <1>9, <3>1 DEF Receive
    <3> QED
      BY <3>2 DEF TypeOK
  <2>3. ending' \in [Conns -> Nat]
    BY <1>9 DEF TypeOK, Receive, Kill
  <2>4. up' \in [Conns -> Seq({"ready", "exit"})]
    <3>1. up' = up \/ up' = [up EXCEPT ![c] = Append(@, "exit")]
      BY <1>9 DEF Receive
    <3>2. Append(up[c], "exit") \in Seq({"ready", "exit"})
      BY QueueTypes DEF TypeOK
    <3> QED
      BY <3>1, <3>2 DEF TypeOK
  <2> QED
    BY <1>9, <2>1, <2>2, <2>3, <2>4 DEF TypeOK, Receive
<1>10. ASSUME NEW c \in Conns, StartPi(c)
      PROVE  TypeOK'
  <2>1. link' \in [Conns -> LinkRecs]
    <3>1. \E q \in Seq0 : link' = [link EXCEPT ![c] = [pc |-> "run", next |-> 0, pi |-> q]]
      BY <1>10 DEF StartPi
    <3> QED
      BY <3>1 DEF TypeOK
  <2>2. ending' \in [Conns -> Nat]
    BY <1>10 DEF TypeOK, StartPi, Kill
  <2>3. up' \in [Conns -> Seq({"ready", "exit"})]
    <3>1. \E f \in {"ready", "exit"} : up' = [up EXCEPT ![c] = Append(@, f)]
      BY <1>10 DEF StartPi
    <3>2. \A f \in {"ready", "exit"} : Append(up[c], f) \in Seq({"ready", "exit"})
      BY QueueTypes DEF TypeOK
    <3> QED
      BY <3>1, <3>2 DEF TypeOK
  <2> QED
    BY <1>10, <2>1, <2>2, <2>3 DEF TypeOK, StartPi
<1>11. ASSUME NEW c \in Conns, PiExits(c)
      PROVE  TypeOK'
  <2>1. link' \in [Conns -> LinkRecs]
    BY <1>11 DEF TypeOK, PiExits
  <2>2. ending' \in [Conns -> Nat]
    BY <1>11 DEF TypeOK, PiExits, Kill
  <2> QED
    BY <1>11, <2>1, <2>2 DEF TypeOK, PiExits
<1>12. ASSUME NEW c \in Conns, ReaderEnds(c)
      PROVE  TypeOK'
  <2>1. ending' \in [Conns -> Nat]
    BY <1>12 DEF TypeOK, ReaderEnds
  <2>2. up' \in [Conns -> Seq({"ready", "exit"})]
    BY <1>12, QueueTypes DEF TypeOK, ReaderEnds
  <2> QED
    BY <1>12, <2>1, <2>2 DEF TypeOK, ReaderEnds
<1>13. ASSUME NEW c \in Conns, LinkEnds(c)
      PROVE  TypeOK'
  <2>1. link' \in [Conns -> LinkRecs]
    BY <1>13 DEF TypeOK, LinkEnds
  <2>2. ending' \in [Conns -> Nat]
    BY <1>13 DEF TypeOK, LinkEnds
  <2>3. down' \in [Conns -> Seq(Frames)]
    BY <1>13 DEF TypeOK, LinkEnds
  <2> QED
    BY <1>13, <2>1, <2>2, <2>3 DEF TypeOK, LinkEnds
<1>14. ASSUME NEW x \in Calls, NEW d \in Devices, StartSession(x, d)
      PROVE  TypeOK'
  <2>1. session' \in [Devices -> Sessions]
    BY <1>14, StartFacts DEF TypeOK, StartSession
  <2>2. nextSeq' \in 1..(MaxSeq + 1)
    BY <1>14, LinkAssumption DEF TypeOK, StartSession, Seqs
  <2>3. call' \in [Calls -> CallRecs]
    <3>1. nextSeq \in Seq0 /\ conn[d] \in Conns
      BY <1>14, LinkAssumption DEF StartSession, Seqs, Seq0
    <3>2. [pc |-> "send", to |-> {conn[d]}, frame |-> Frame("open", nextSeq)] \in CallRecs
      BY <3>1
    <3> QED
      BY <1>14, <3>2 DEF TypeOK, StartSession
  <2> QED
    BY <1>14, <2>1, <2>2, <2>3 DEF TypeOK, StartSession
<1>15. ASSUME NEW x \in Calls, NEW d \in Devices, Terminate(x, d)
      PROVE  TypeOK'
  <2>1. session' \in [Devices -> Sessions]
    BY <1>15, StartFacts DEF TypeOK, Terminate
  <2>2. call' \in [Calls -> CallRecs]
    BY <1>15 DEF TypeOK, Terminate
  <2> QED
    BY <1>15, <2>1, <2>2 DEF TypeOK, Terminate
<1>16. ASSUME NEW x \in Calls, NEW d \in Devices, Revoke(x, d)
      PROVE  TypeOK'
  <2>1. device' \in [Devices -> {"unpaired", "paired", "revoked"}]
    BY <1>16 DEF TypeOK, Revoke
  <2>2. session' \in [Devices -> Sessions]
    BY <1>16 DEF TypeOK, Revoke
  <2>3. conn' \in [Devices -> Conns \cup {NoConn}]
    BY <1>16 DEF TypeOK, Revoke
  <2>4. call' \in [Calls -> CallRecs]
    BY <1>16 DEF TypeOK, Revoke
  <2> QED
    BY <1>16, <2>1, <2>2, <2>3, <2>4 DEF TypeOK, Revoke
<1>17. ASSUME NEW x \in Calls, Send(x)
      PROVE  TypeOK'
  <2>1. down' \in [Conns -> Seq(Frames)]
    BY <1>17, QueueTypes DEF TypeOK, Send
  <2>2. call' \in [Calls -> CallRecs]
    BY <1>17 DEF TypeOK, Send
  <2> QED
    BY <1>17, <2>1, <2>2 DEF TypeOK, Send
<1>18. ASSUME NEW x \in Calls, CutRevoked(x)
      PROVE  TypeOK'
  <2>1. cut' \subseteq Conns
    BY <1>18 DEF TypeOK, CutRevoked
  <2>2. call' \in [Calls -> CallRecs]
    BY <1>18 DEF TypeOK, CutRevoked
  <2> QED
    BY <1>18, <2>1, <2>2 DEF TypeOK, CutRevoked
<1>19. ASSUME NEW x \in Calls, StopGateway(x)
      PROVE  TypeOK'
  <2>1. session' \in [Devices -> Sessions]
    BY <1>19, SessionFacts DEF TypeOK, StopGateway
  <2>2. conn' \in [Devices -> Conns \cup {NoConn}]
    BY <1>19 DEF TypeOK, StopGateway
  <2>3. call' \in [Calls -> CallRecs]
    <3>1. {conn[d] : d \in Devices} \ {NoConn} \in SUBSET Conns
      OBVIOUS
    <3>2. [pc |-> "close", to |-> {conn[d] : d \in Devices} \ {NoConn},
           frame |-> Frame("stop", 0)] \in CallRecs
      BY <3>1
    <3> QED
      BY <1>19, <3>2 DEF TypeOK, StopGateway
  <2> QED
    BY <1>19, <2>1, <2>2, <2>3 DEF TypeOK, StopGateway
<1>20. ASSUME NEW x \in Calls, CloseGateway(x)
      PROVE  TypeOK'
  <2>1. cut' \subseteq Conns
    BY <1>20 DEF TypeOK, CloseGateway
  <2>2. call' \in [Calls -> CallRecs]
    BY <1>20 DEF TypeOK, CloseGateway
  <2> QED
    BY <1>20, <2>1, <2>2 DEF TypeOK, CloseGateway
<1>21. CASE UNCHANGED vars
  BY <1>21 DEF TypeOK, vars
<1> QED
  BY <1>1, <1>2, <1>3, <1>4, <1>5, <1>6, <1>7, <1>8, <1>9, <1>10, <1>11, <1>12, <1>13, <1>14, <1>15, <1>16, <1>17, <1>18, <1>19, <1>20, <1>21 DEF Next, SocketStep, ClientStep, OperatorStep
-----------------------------------------------------------------------------
\* Steps that touch neither sessions, connections, devices nor sockets.
Apart == UNCHANGED <<session, conn, device, sock, nextSeq>>

LEMMA ApartSteps ==
    /\ \A c \in Conns : ClientStep(c) => Apart
    /\ \A x \in Calls : Send(x) \/ CutRevoked(x) \/ CloseGateway(x) => Apart
BY DEF Apart, ClientStep, Receive, StartPi, PiExits, ReaderEnds, LinkEnds, Send, CutRevoked, CloseGateway

\* An active session keeps its connection.
LEMMA OnlineStep == TypeOK /\ ActiveSessionIsOnline /\ [Next]_vars => ActiveSessionIsOnline'
<1> SUFFICES ASSUME TypeOK, ActiveSessionIsOnline, [Next]_vars, NEW e \in Devices, Active(session'[e])
             PROVE  conn'[e] # NoConn
  BY DEF ActiveSessionIsOnline, Active
<1>0. session[e] \in Sessions /\ (Active(session[e]) => conn[e] # NoConn)
  BY Reads DEF ActiveSessionIsOnline
<1>1. ASSUME NEW c \in Conns, Attach(c) PROVE conn'[e] # NoConn
  <2>1. CASE sock[c].dev = e
    <3>1. CASE device[e] = "paired"
      BY <1>1, <2>1, <3>1, LinkAssumption DEF Attach, TypeOK
    <3>2. CASE device[e] # "paired"
      BY <1>1, <2>1, <3>2, <1>0 DEF Attach, Refuse
    <3> QED
      BY <3>1, <3>2
  <2>2. CASE sock[c].dev # e
    <3>1. session'[e] = session[e] /\ conn'[e] = conn[e]
      BY <1>1, <2>2 DEF Attach, AttachSession, Refuse, TypeOK
    <3> QED
      BY <3>1, <1>0
  <2> QED
    BY <2>1, <2>2
<1>2. ASSUME NEW c \in Conns, Serve(c) PROVE conn'[e] # NoConn
  <2>1. session'[e] \in {session[e], ReadySession(session[e]), Exited(session[e])}
    BY <1>2 DEF Serve, TypeOK
  <2> QED
    BY <1>2, <2>1, <1>0, SessionFacts DEF Serve
<1>3. ASSUME NEW c \in Conns, Detach(c) PROVE conn'[e] # NoConn
  <2>1. CASE conn[sock[c].dev] = c /\ sock[c].dev = e
    <3>1. session'[e] = IF Active(session[e]) THEN Exited(session[e]) ELSE session[e]
      BY <1>3, <2>1 DEF Detach, TypeOK
    <3> QED
      BY <3>1, <1>0, SessionFacts
  <2>2. CASE ~(conn[sock[c].dev] = c /\ sock[c].dev = e)
    <3>1. session'[e] = session[e] /\ conn'[e] = conn[e]
      BY <1>3, <2>2 DEF Detach, TypeOK
    <3> QED
      BY <3>1, <1>0
  <2> QED
    BY <2>1, <2>2
<1>4. ASSUME NEW x \in Calls, NEW d \in Devices, StartSession(x, d) PROVE conn'[e] # NoConn
  BY <1>4, <1>0 DEF StartSession, TypeOK
<1>5. ASSUME NEW x \in Calls, NEW d \in Devices, Terminate(x, d) PROVE conn'[e] # NoConn
  BY <1>5, <1>0 DEF Terminate, TypeOK, Active
<1>6. ASSUME NEW x \in Calls, NEW d \in Devices, Revoke(x, d) PROVE conn'[e] # NoConn
  BY <1>6, <1>0 DEF Revoke, TypeOK, Active, NoSession
<1>7. ASSUME NEW x \in Calls, StopGateway(x) PROVE conn'[e] # NoConn
  BY <1>7, <1>0, SessionFacts DEF StopGateway
<1>8. CASE UNCHANGED <<session, conn>>
  BY <1>8, <1>0
<1> QED
  BY <1>1, <1>2, <1>3, <1>4, <1>5, <1>6, <1>7, <1>8, ApartSteps
  DEF Next, SocketStep, ClientStep, OperatorStep, Apart, Pair, Connect, Authenticate, Greet, HangUp, vars

\* A device stays online only while it is paired, on a socket that is its own.
LEMMA PairedStep == TypeOK /\ OnlineDeviceIsPaired /\ [Next]_vars => OnlineDeviceIsPaired'
<1> SUFFICES ASSUME TypeOK, OnlineDeviceIsPaired, [Next]_vars, NEW e \in Devices, conn'[e] # NoConn
             PROVE  /\ device'[e] = "paired"
                    /\ sock'[conn'[e]].dev = e
                    /\ sock'[conn'[e]].pc \in {"greet", "loop", "detach"}
  BY DEF OnlineDeviceIsPaired
<1> DEFINE Goal == /\ device'[e] = "paired"
                   /\ sock'[conn'[e]].dev = e
                   /\ sock'[conn'[e]].pc \in {"greet", "loop", "detach"}
<1>0. conn[e] # NoConn => /\ device[e] = "paired" /\ conn[e] \in Conns
                          /\ sock[conn[e]].dev = e
                          /\ sock[conn[e]].pc \in {"greet", "loop", "detach"}
  BY Reads DEF OnlineDeviceIsPaired
<1>1. ASSUME NEW c \in Conns, Attach(c) PROVE Goal
  <2>1. CASE device[sock[c].dev] = "paired" /\ sock[c].dev = e
    <3>1. conn'[e] = c /\ sock'[c].pc = "greet" /\ sock'[c].dev = e /\ device' = device
      BY <1>1, <2>1 DEF Attach, AttachSession, TypeOK, Sock
    <3> QED
      BY <3>1, <2>1
  <2>2. CASE ~(device[sock[c].dev] = "paired" /\ sock[c].dev = e)
    <3>1. conn'[e] = conn[e] /\ device' = device
      BY <1>1, <2>2 DEF Attach, AttachSession, Refuse, TypeOK
    <3>2. conn[e] # c
      BY <1>1, <3>1, <1>0 DEF Attach
    <3>3. sock'[conn[e]] = sock[conn[e]]
      BY <1>1, <3>1, <3>2, <1>0 DEF Attach, AttachSession, Refuse, TypeOK
    <3> QED
      BY <3>1, <3>3, <1>0
  <2> QED
    BY <2>1, <2>2
<1>2. ASSUME NEW c \in Conns, Connect(c) \/ Authenticate(c) PROVE Goal
  <2>1. UNCHANGED <<conn, device>> /\ sock[c].pc \in {"free", "asked"}
    BY <1>2 DEF Connect, Authenticate
  <2>2. conn[e] # c
    BY <2>1, <1>0
  <2>3. sock'[conn[e]] = sock[conn[e]]
    BY <1>2, <2>1, <2>2, <1>0 DEF Connect, Authenticate, TypeOK
  <2> QED
    BY <2>1, <2>3, <1>0
<1>3. ASSUME NEW c \in Conns, Greet(c) \/ HangUp(c) PROVE Goal
  <2>1. UNCHANGED <<conn, device>>
    BY <1>3 DEF Greet, HangUp
  <2>2. sock'[c].dev = sock[c].dev /\ sock'[c].pc \in {"loop", "detach"}
    BY <1>3 DEF Greet, HangUp, TypeOK, Sock
  <2>3. \A b \in Conns \ {c} : sock'[b] = sock[b]
    BY <1>3 DEF Greet, HangUp, TypeOK
  <2> QED
    BY <2>1, <2>2, <2>3, <1>0
<1>4. ASSUME NEW c \in Conns, Detach(c) PROVE Goal
  <2>1. conn'[e] = conn[e] /\ device' = device
    BY <1>4 DEF Detach, TypeOK
  <2>2. conn[e] # c
    BY <1>4, <2>1, <1>0, Reads DEF Detach, TypeOK
  <2>3. sock'[conn[e]] = sock[conn[e]]
    BY <1>4, <2>1, <2>2, <1>0 DEF Detach, TypeOK
  <2> QED
    BY <2>1, <2>3, <1>0
<1>5. ASSUME NEW x \in Calls, NEW d \in Devices, Revoke(x, d) PROVE Goal
  BY <1>5, <1>0 DEF Revoke, TypeOK
<1>6. ASSUME NEW x \in Calls, StopGateway(x) PROVE Goal
  BY <1>6 DEF StopGateway
<1>7. ASSUME NEW d \in Devices, Pair(d) PROVE Goal
  BY <1>7, <1>0 DEF Pair, TypeOK
<1>8. CASE UNCHANGED <<device, conn, sock>>
  BY <1>8, <1>0
<1> QED
  BY <1>1, <1>2, <1>3, <1>4, <1>5, <1>6, <1>7, <1>8, ApartSteps
  DEF Next, SocketStep, ClientStep, OperatorStep, Apart, Serve, StartSession, Terminate, vars

\* A socket that loses its place in the map is shut down, or about to be.
LEMMA OpenStep == TypeOK /\ OneOpenSocket /\ [Next]_vars => OneOpenSocket'
<1> SUFFICES ASSUME TypeOK, OneOpenSocket, [Next]_vars, NEW b \in Conns,
                    sock'[b].pc \in {"greet", "loop"}, conn'[sock'[b].dev] # b
             PROVE  ShutDown(b)'
  BY DEF OneOpenSocket
<1>0. sock[b].pc \in {"greet", "loop"} /\ conn[sock[b].dev] # b => ShutDown(b)
  BY DEF OneOpenSocket
<1>a. sock[b].dev \in Devices
  BY Reads
\* A step that leaves calls alone and cuts no connection loose.
<1>b. ASSUME sock[b].pc \in {"greet", "loop"}, conn[sock[b].dev] # b, cut \subseteq cut', call' = call
      PROVE  ShutDown(b)'
  BY <1>b, <1>0 DEF ShutDown
<1>1. ASSUME NEW c \in Conns, Attach(c) PROVE ShutDown(b)'
  <2>1. CASE b = c
    BY <1>1, <2>1, <1>a DEF Attach, AttachSession, Refuse, Sock, TypeOK
  <2>2. CASE b # c
    <3>1. sock'[b] = sock[b] /\ cut \subseteq cut' /\ call' = call
      BY <1>1, <2>2 DEF Attach, AttachSession, Refuse, TypeOK
    <3>2. CASE conn[sock[b].dev] = b
      BY <1>1, <2>2, <3>1, <3>2, <1>a, LinkAssumption DEF Attach, AttachSession, Refuse, TypeOK, ShutDown
    <3> QED
      BY <3>1, <3>2, <1>b
  <2> QED
    BY <2>1, <2>2
<1>2. ASSUME NEW c \in Conns, Connect(c) \/ Authenticate(c) \/ HangUp(c) PROVE ShutDown(b)'
  <2>1. conn' = conn /\ call' = call /\ cut \subseteq cut'
    BY <1>2 DEF Connect, Authenticate, HangUp
  <2>2. b # c
    BY <1>2 DEF Connect, Authenticate, HangUp, Sock, TypeOK
  <2>3. sock'[b] = sock[b]
    BY <1>2, <2>2 DEF Connect, Authenticate, HangUp, TypeOK
  <2> QED
    BY <2>1, <2>3, <1>b
<1>3. ASSUME NEW c \in Conns, Greet(c) PROVE ShutDown(b)'
  <2>1. conn' = conn /\ call' = call /\ cut' = cut
    BY <1>3 DEF Greet
  <2>2. sock[b].pc \in {"greet", "loop"} /\ sock'[b].dev = sock[b].dev
    BY <1>3 DEF Greet, Sock, TypeOK
  <2> QED
    BY <2>1, <2>2, <1>b
<1>4. ASSUME NEW c \in Conns, Detach(c) PROVE ShutDown(b)'
  <2>1. b # c
    BY <1>4 DEF Detach, Sock, TypeOK
  <2>2. sock'[b] = sock[b] /\ call' = call /\ cut' = cut
    BY <1>4, <2>1 DEF Detach, TypeOK
  <2>3. conn[sock[b].dev] # b
    BY <1>4, <2>1, <2>2, <1>a DEF Detach, TypeOK
  <2> QED
    BY <2>2, <2>3, <1>b
<1>5. ASSUME NEW x \in Calls, NEW d \in Devices, StartSession(x, d) \/ Terminate(x, d) PROVE ShutDown(b)'
  <2>1. conn' = conn /\ sock' = sock /\ cut' = cut /\ call[x].pc = "idle"
    BY <1>5 DEF StartSession, Terminate
  <2>2. \A y \in Calls \ {x} : call'[y] = call[y]
    BY <1>5 DEF StartSession, Terminate, TypeOK
  <2> QED
    BY <2>1, <2>2, <1>0 DEF ShutDown
<1>6. ASSUME NEW x \in Calls, NEW d \in Devices, Revoke(x, d) PROVE ShutDown(b)'
  <2>1. sock' = sock /\ cut' = cut /\ call[x].pc = "idle"
    BY <1>6 DEF Revoke
  <2>2. \A y \in Calls \ {x} : call'[y] = call[y]
    BY <1>6 DEF Revoke, TypeOK
  <2>3. CASE conn[sock[b].dev] = b
    <3>1. sock[b].dev = d
      BY <1>6, <2>1, <2>3, <1>a DEF Revoke, TypeOK
    <3>2. call'[x].pc = "cut" /\ b \in call'[x].to
      BY <1>6, <2>3, <3>1, LinkAssumption DEF Revoke, TypeOK
    <3> QED
      BY <3>2 DEF ShutDown
  <2>4. CASE conn[sock[b].dev] # b
    BY <2>1, <2>2, <2>4, <1>0 DEF ShutDown
  <2> QED
    BY <2>3, <2>4
<1>7. ASSUME NEW x \in Calls, StopGateway(x) PROVE ShutDown(b)'
  <2>1. sock' = sock /\ cut' = cut /\ call[x].pc = "idle"
    BY <1>7 DEF StopGateway
  <2>2. \A y \in Calls \ {x} : call'[y] = call[y]
    BY <1>7 DEF StopGateway, TypeOK
  <2>3. CASE conn[sock[b].dev] = b
    <3>1. call'[x].pc = "close" /\ b \in call'[x].to
      BY <1>7, <2>3, <1>a, LinkAssumption DEF StopGateway, TypeOK
    <3> QED
      BY <3>1 DEF ShutDown
  <2>4. CASE conn[sock[b].dev] # b
    BY <2>1, <2>2, <2>4, <1>0 DEF ShutDown
  <2> QED
    BY <2>3, <2>4
<1>8. ASSUME NEW x \in Calls, Send(x) \/ CutRevoked(x) \/ CloseGateway(x) PROVE ShutDown(b)'
  <2>1. conn' = conn /\ sock' = sock /\ cut \subseteq cut'
    BY <1>8 DEF Send, CutRevoked, CloseGateway
  <2>2. \A y \in Calls \ {x} : call'[y] = call[y]
    BY <1>8 DEF Send, CutRevoked, CloseGateway, TypeOK
  <2>3. call[x].pc \in {"cut", "close"} => call[x].to \subseteq cut'
    BY <1>8 DEF Send, CutRevoked, CloseGateway
  <2> QED
    BY <2>1, <2>2, <2>3, <1>0 DEF ShutDown
<1>9. CASE UNCHANGED <<conn, sock, cut, call>>
  BY <1>9, <1>b
<1> QED
  BY <1>1, <1>2, <1>3, <1>4, <1>5, <1>6, <1>7, <1>8, <1>9
  DEF Next, SocketStep, ClientStep, OperatorStep, Pair, Serve, Receive, StartPi, PiExits,
      ReaderEnds, LinkEnds, vars

\* What a step does to the session of a device that has one.
LEMMA SessionStep ==
    ASSUME TypeOK, SessionsNumbered, [Next]_vars, NEW e \in Devices
    PROVE  /\ session'[e].seq < nextSeq'
           /\ session[e].state = "exited" /\ session'[e].seq = session[e].seq
                => session'[e].state = "exited"
<1> DEFINE Goal == /\ session'[e].seq < nextSeq'
                   /\ session[e].state = "exited" /\ session'[e].seq = session[e].seq
                        => session'[e].state = "exited"
<1>0. session[e] \in Sessions /\ session[e].seq < nextSeq /\ nextSeq \in Nat /\ session[e].seq \in Nat
  BY Reads, LinkAssumption DEF SessionsNumbered, TypeOK, Seq0
<1>1. ASSUME NEW c \in Conns, Attach(c) PROVE Goal
  <2>1. \/ session'[e] = session[e]
        \/ session'[e] = [state |-> Exited(session[e]).state, stop |-> FALSE, seq |-> session[e].seq]
    <3>1. session' = session \/
          session' = [session EXCEPT ![sock[c].dev] = [state |-> Exited(session[sock[c].dev]).state,
                                     stop |-> FALSE, seq |-> session[sock[c].dev].seq]]
      BY <1>1 DEF Attach, AttachSession, Refuse
    <3> QED
      BY <3>1 DEF TypeOK
  <2> QED
    BY <1>1, <2>1, <1>0, AttachFacts DEF Attach
<1>2. ASSUME NEW c \in Conns, Serve(c) PROVE Goal
  <2>1. session'[e] \in {session[e], ReadySession(session[e]), Exited(session[e])}
    BY <1>2 DEF Serve, TypeOK
  <2> QED
    BY <1>2, <2>1, <1>0, SessionFacts DEF Serve
<1>3. ASSUME NEW c \in Conns, Detach(c) PROVE Goal
  <2>1. session'[e] \in {session[e], Exited(session[e])}
    BY <1>3 DEF Detach, TypeOK
  <2> QED
    BY <1>3, <2>1, <1>0, SessionFacts DEF Detach
<1>4. ASSUME NEW x \in Calls, NEW d \in Devices, StartSession(x, d) PROVE Goal
  <2>1. session'[e] = session[e] \/ session'[e].seq = nextSeq
    BY <1>4 DEF StartSession, TypeOK
  <2>2. nextSeq' = nextSeq + 1
    BY <1>4 DEF StartSession
  <2> QED
    BY <2>1, <2>2, <1>0
<1>5. ASSUME NEW x \in Calls, NEW d \in Devices, Terminate(x, d) PROVE Goal
  BY <1>5, <1>0 DEF Terminate, TypeOK
<1>6. ASSUME NEW x \in Calls, NEW d \in Devices, Revoke(x, d) PROVE Goal
  <2>1. session'[e] = session[e] \/ session'[e] = NoSession
    BY <1>6 DEF Revoke, TypeOK
  <2>2. session[e].state = "exited" => session[e].seq # 0
    BY <1>0 DEF Sessions, NoSession, Seqs
  <2>3. nextSeq' = nextSeq /\ 0 < nextSeq
    BY <1>6 DEF Revoke, TypeOK
  <2> QED
    BY <2>1, <2>2, <2>3, <1>0 DEF NoSession
<1>7. ASSUME NEW x \in Calls, StopGateway(x) PROVE Goal
  BY <1>7, <1>0, SessionFacts DEF StopGateway
<1>8. CASE UNCHANGED <<session, nextSeq>>
  BY <1>8, <1>0
<1> QED
  BY <1>1, <1>2, <1>3, <1>4, <1>5, <1>6, <1>7, <1>8, ApartSteps
  DEF Next, SocketStep, ClientStep, OperatorStep, Apart, Pair, Connect, Authenticate, Greet, HangUp, vars
-----------------------------------------------------------------------------
\* LinkInv holds from the start ...
LEMMA LinkInit == Init => LinkInv
<1> SUFFICES ASSUME Init PROVE LinkInv
  OBVIOUS
<1>1. TypeOK
  <2>1. sock \in [Conns -> SockRecs]
    BY Builds DEF Init
  <2>2. link \in [Conns -> LinkRecs] /\ call \in [Calls -> CallRecs]
    BY Builds DEF Init, IdleCall, Frame
  <2> QED
    BY <2>1, <2>2, Builds, LinkAssumption DEF Init, TypeOK
<1> QED
  BY <1>1 DEF Init, LinkInv, ActiveSessionIsOnline, OnlineDeviceIsPaired, OneOpenSocket,
              SessionsNumbered, Active, NoSession, Sock

\* ... and through every step: a device that is online is paired and has one
\* socket, and sessions are active online only.
THEOREM LinkInvariant == Spec => []LinkInv
<1>1. LinkInv /\ [Next]_vars => LinkInv'
  BY TypeStep, OnlineStep, PairedStep, OpenStep, SessionStep DEF LinkInv, SessionsNumbered
<1> QED
  BY LinkInit, <1>1, PTL DEF Spec

\* No device that is offline, or gone, shows an active session.
THEOREM ActiveSessionsAreOnline == Spec => []ActiveSessionIsOnline
<1>1. LinkInv => ActiveSessionIsOnline
  BY DEF LinkInv
<1> QED
  BY LinkInvariant, <1>1, PTL

\* Revoke and attach_connection leave no revoked device online.
THEOREM OnlineDevicesArePaired == Spec => []OnlineDeviceIsPaired
<1>1. LinkInv => OnlineDeviceIsPaired
  BY DEF LinkInv
<1> QED
  BY LinkInvariant, <1>1, PTL

\* Every open socket is the device's own, or being shut down.
THEOREM OpenSocketsAreReachable == Spec => []OneOpenSocket
<1>1. LinkInv => OneOpenSocket
  BY DEF LinkInv
<1> QED
  BY LinkInvariant, <1>1, PTL

\* No late frame and no reconnection revives a session that is over.
THEOREM ExitedSessionsStayExited == Spec => ExitedStaysExited
<1>1. LinkInv /\ [Next]_vars =>
        [\A d \in Devices : session[d].state = "exited" /\ session'[d].seq = session[d].seq
              => session'[d].state = "exited"]_vars
  BY SessionStep DEF LinkInv
<1> QED
  BY LinkInvariant, <1>1, PTL DEF Spec, ExitedStaysExited
-----------------------------------------------------------------------------
(* Sessions have a Pi, or are about to get one or to be ended *)

\* A frame that makes the client start a Pi.
Starts(f) == f.kind \in {"ready", "open"} /\ f.seq # 0

InQueue(c)  == \E i \in 1..Len(down[c]) : Starts(down[c][i])
Reported(c) == \E i \in 1..Len(up[c]) : up[c][i] = "exit"
OnItsWay(c) == \E x \in Calls : call[x].pc = "send" /\ c \in call[x].to /\ Starts(call[x].frame)
Starting(c) == link[c].pc = "start" /\ link[c].next # 0
Replaying(c) == sock[c].pc = "greet" /\ sock[c].replay # 0

\* The client of c runs a Pi or is on its way to start one, or word that there is
\* none is on its way to the gateway, or the connection is about to go.
Settled(c) ==
    \/ link[c].pi # 0 \/ Starting(c) \/ InQueue(c) \/ OnItsWay(c) \/ Replaying(c)
    \/ Reported(c) \/ ending[c] > 0
    \/ link[c].pc = "off" \/ sock[c].pc = "detach" \/ c \in cut

ActiveSessionIsSettled == \A d \in Devices : Active(session[d]) => Settled(conn[d])

\* What stays in a queue from which the first is taken, and to which one is added.
LEMMA TailKeeps ==
    ASSUME NEW T, NEW q \in Seq(T), q # <<>>
    PROVE  /\ Head(q) = q[1]
           /\ \A i \in 1..Len(q) : i # 1 => /\ i - 1 \in 1..Len(Tail(q))
                                            /\ Tail(q)[i - 1] = q[i]
OBVIOUS

LEMMA AppendKeeps ==
    ASSUME NEW T, NEW q \in Seq(T), NEW f \in T
    PROVE  /\ \A i \in 1..Len(q) : i \in 1..Len(Append(q, f)) /\ Append(q, f)[i] = q[i]
           /\ Len(Append(q, f)) \in 1..Len(Append(q, f)) /\ Append(q, f)[Len(Append(q, f))] = f
OBVIOUS

\* No client gets out of Settled while its connection is the device's.
LEMMA ClientSettles ==
    ASSUME TypeOK, NEW c \in Conns, Settled(c), NEW b \in Conns, ClientStep(b)
    PROVE  Settled(c)'
<1>0. /\ down[c] \in Seq(Frames) /\ up[c] \in Seq({"ready", "exit"}) /\ ending[c] \in Nat
      /\ link[c] \in LinkRecs /\ link[c].pi \in Nat
  BY LinkAssumption DEF TypeOK, LinkRecs, Seq0
<1>a. UNCHANGED <<sock, cut, call>>
  BY DEF ClientStep, Receive, StartPi, PiExits, ReaderEnds, LinkEnds
<1>b. ASSUME up' = [up EXCEPT ![c] = Append(@, "exit")]
      PROVE  Settled(c)'
  <2>1. up'[c] = Append(up[c], "exit")
    BY <1>b DEF TypeOK
  <2>2. Len(up'[c]) \in 1..Len(up'[c]) /\ up'[c][Len(up'[c])] = "exit"
    BY <1>0, <2>1, AppendKeeps
  <2>. QED
    BY <2>2 DEF Settled, Reported
<1>c. ASSUME Reported(c), NEW f \in {"ready", "exit"}, up'[c] = up[c] \/ up'[c] = Append(up[c], f)
      PROVE  Settled(c)'
  <2>1. PICK i \in 1..Len(up[c]) : up[c][i] = "exit"
    BY <1>c DEF Reported
  <2>2. i \in 1..Len(up'[c]) /\ up'[c][i] = "exit"
    BY <1>0, <1>c, <2>1, AppendKeeps
  <2>. QED
    BY <2>2 DEF Settled, Reported
<1>1. CASE b # c
  <2>1. /\ link'[c] = link[c] /\ down'[c] = down[c] /\ up'[c] = up[c] /\ ending'[c] = ending[c]
    BY <1>1 DEF ClientStep, Receive, StartPi, PiExits, ReaderEnds, LinkEnds, Kill, TypeOK
  <2>. QED
    BY <1>a, <2>1 DEF Settled, Starting, InQueue, OnItsWay, Replaying, Reported
<1>2. CASE b = c /\ Receive(c)
  <2>1. link[c].pc = "run" /\ down[c] # <<>> /\ down'[c] = Tail(down[c])
    BY <1>2 DEF Receive, TypeOK
  <2>2. CASE Head(down[c]).kind = "stop"
    BY <1>b, <1>2, <2>2 DEF Receive
  <2>3. CASE Head(down[c]).kind # "stop" /\ Starts(Head(down[c]))
    <3>1. link'[c].pc = "start" /\ link'[c].next = Head(down[c]).seq
      BY <1>2, <2>3 DEF Receive, Starts, TypeOK
    <3>. QED
      BY <2>3, <3>1 DEF Settled, Starting, Starts
  <2>4. CASE Head(down[c]).kind # "stop" /\ ~Starts(Head(down[c]))
    <3>1. /\ up' = up
          /\ \/ link'[c].pi = link[c].pi /\ ending'[c] = ending[c]
             \/ ending'[c] = IF link[c].pi # 0 THEN ending[c] + 1 ELSE ending[c]
      <4>1. CASE Head(down[c]).kind = "ready"
        BY <1>2, <4>1 DEF Receive, TypeOK
      <4>2. CASE Head(down[c]).kind = "open"
        BY <1>2, <4>2 DEF Receive, Kill, TypeOK
      <4>. QED
        BY <1>2, <2>4, <4>1, <4>2 DEF Receive
    <3>2. InQueue(c) => InQueue(c)'
      <4>. SUFFICES ASSUME NEW i \in 1..Len(down[c]), Starts(down[c][i])
                    PROVE  InQueue(c)'
        BY DEF InQueue
      <4>1. i # 1
        BY <1>0, <2>1, <2>4, TailKeeps
      <4>2. i - 1 \in 1..Len(down'[c]) /\ down'[c][i - 1] = down[c][i]
        BY <1>0, <2>1, <4>1, TailKeeps
      <4>. QED
        BY <4>2 DEF InQueue, Starts
    <3>. QED
      BY <1>0, <1>a, <2>1, <3>1, <3>2 DEF Settled, Starting, OnItsWay, Replaying, Reported
  <2>. QED
    BY <2>2, <2>3, <2>4
<1>3. CASE b = c /\ StartPi(c)
  <2>1. CASE up' = [up EXCEPT ![c] = Append(@, "exit")]
    BY <1>b, <2>1
  <2>2. CASE /\ Kill(c)
             /\ link' = [link EXCEPT ![c] = [pc |-> "run", next |-> 0, pi |-> link[c].next]]
             /\ up' = [up EXCEPT ![c] = Append(@, "ready")]
    <3>1. /\ link'[c].pi = link[c].next /\ down' = down /\ up'[c] = Append(up[c], "ready")
          /\ ending'[c] = IF link[c].pi # 0 THEN ending[c] + 1 ELSE ending[c]
      BY <1>3, <2>2 DEF Kill, StartPi, TypeOK
    <3>2. link[c].pc = "start"
      BY <1>3 DEF StartPi
    <3>3. CASE Reported(c)
      BY <1>c, <3>1, <3>3
    <3>. QED
      BY <1>0, <1>a, <3>1, <3>2, <3>3 DEF Settled, Starting, InQueue, OnItsWay, Replaying
  <2>. QED
    BY <1>3, <2>1, <2>2 DEF StartPi
<1>4. CASE b = c /\ PiExits(c)
  <2>1. ending'[c] = ending[c] + 1
    BY <1>4 DEF PiExits, Kill, TypeOK
  <2>. QED
    BY <1>0, <2>1 DEF Settled
<1>5. CASE b = c /\ ReaderEnds(c)
  BY <1>b, <1>5 DEF ReaderEnds
<1>6. CASE b = c /\ LinkEnds(c)
  <2>1. link'[c].pc = "off"
    BY <1>6 DEF LinkEnds, TypeOK
  <2>. QED
    BY <2>1 DEF Settled
<1>. QED
  BY <1>1, <1>2, <1>3, <1>4, <1>5, <1>6 DEF ClientStep

\* Nor do the operator's calls take anything away from it.
LEMMA OperatorSettles ==
    ASSUME TypeOK, NEW c \in Conns, Settled(c), sock[c].pc # "closed",
           NEW x \in Calls, OperatorStep(x)
    PROVE  Settled(c)'
<1>0. down[c] \in Seq(Frames) /\ call[x].frame \in Frames
  BY DEF TypeOK, CallRecs
<1>1. UNCHANGED <<sock, up, link, ending>> /\ cut \subseteq cut'
  BY DEF OperatorStep, StartSession, Terminate, Revoke, Send, CutRevoked, StopGateway, CloseGateway
<1>2. \A y \in Calls \ {x} : call'[y] = call[y]
  BY DEF OperatorStep, StartSession, Terminate, Revoke, Send, CutRevoked, StopGateway, CloseGateway, TypeOK
<1>3. CASE Send(x)
  <2>1. down'[c] = down[c] \/ down'[c] = Append(down[c], call[x].frame)
    BY <1>3 DEF Send
  <2>2. InQueue(c) => InQueue(c)'
    <3>. SUFFICES ASSUME NEW i \in 1..Len(down[c]), Starts(down[c][i])
                  PROVE  InQueue(c)'
      BY DEF InQueue
    <3>1. i \in 1..Len(down'[c]) /\ down'[c][i] = down[c][i]
      BY <1>0, <2>1, AppendKeeps
    <3>. QED
      BY <3>1 DEF InQueue, Starts
  <2>3. ASSUME c \in call[x].to, Starts(call[x].frame)
        PROVE  InQueue(c)'
    <3>1. down'[c] = Append(down[c], call[x].frame)
      BY <1>3, <2>3 DEF Send
    <3>2. Len(down'[c]) \in 1..Len(down'[c]) /\ down'[c][Len(down'[c])] = call[x].frame
      BY <1>0, <3>1, AppendKeeps
    <3>. QED
      BY <2>3, <3>2 DEF InQueue, Starts
  <2>. QED
    BY <1>1, <1>2, <2>2, <2>3 DEF Settled, Starting, OnItsWay, Replaying, Reported
<1>4. CASE ~Send(x)
  <2>1. down' = down /\ call[x].pc # "send"
    BY <1>4 DEF OperatorStep, StartSession, Terminate, Revoke, CutRevoked, StopGateway, CloseGateway
  <2>. QED
    BY <1>1, <1>2, <2>1 DEF Settled, Starting, InQueue, OnItsWay, Replaying, Reported
<1>. QED
  BY <1>3, <1>4

\* Nor does the handler, which hands on what is to be replayed; a served exit
\* frame ends the session.
LEMMA SocketSettles ==
    ASSUME TypeOK, NEW c \in Conns, Settled(c), sock[c].pc \in {"greet", "loop", "detach"},
           NEW b \in Conns, SocketStep(b)
    PROVE  \/ Settled(c)'
           \/ b = c /\ Serve(c) /\ Head(up[c]) = "exit"
           \/ b = c /\ Detach(c)
<1>0. down[c] \in Seq(Frames) /\ up[c] \in Seq({"ready", "exit"}) /\ sock[c].replay \in Seq0
  BY Reads DEF TypeOK
<1>a. UNCHANGED <<ending, call>> /\ cut \subseteq cut'
  BY DEF SocketStep, Connect, Authenticate, Attach, AttachSession, Refuse, Greet, Serve, HangUp, Detach
<1>1. CASE b # c
  <2>1. /\ link'[c] = link[c] /\ down'[c] = down[c] /\ up'[c] = up[c] /\ sock'[c] = sock[c]
    BY <1>1 DEF SocketStep, Connect, Authenticate, Attach, AttachSession, Refuse, Greet, Serve, HangUp,
       Detach, TypeOK
  <2>. QED
    BY <1>a, <2>1 DEF Settled, Starting, InQueue, OnItsWay, Replaying, Reported
<1>2. CASE b = c /\ Greet(c)
  <2>1. /\ UNCHANGED <<link, up, cut>>
        /\ down'[c] = Append(down[c], Frame("ready", sock[c].replay))
        /\ Frame("ready", sock[c].replay) \in Frames /\ sock[c].pc = "greet"
    BY <1>0, <1>2, Builds DEF Greet, TypeOK
  <2>2. InQueue(c) => InQueue(c)'
    <3>. SUFFICES ASSUME NEW i \in 1..Len(down[c]), Starts(down[c][i])
                  PROVE  InQueue(c)'
      BY DEF InQueue
    <3>1. i \in 1..Len(down'[c]) /\ down'[c][i] = down[c][i]
      BY <1>0, <2>1, AppendKeeps
    <3>. QED
      BY <3>1 DEF InQueue, Starts
  <2>3. Replaying(c) => InQueue(c)'
    <3>1. Len(down'[c]) \in 1..Len(down'[c]) /\ down'[c][Len(down'[c])] = Frame("ready", sock[c].replay)
      BY <1>0, <2>1, AppendKeeps
    <3>. QED
      BY <3>1 DEF InQueue, Starts, Frame, Replaying
  <2>. QED
    BY <1>a, <2>1, <2>2, <2>3 DEF Settled, Starting, OnItsWay, Reported
<1>3. CASE b = c /\ Serve(c) /\ Head(up[c]) # "exit"
  <2>1. UNCHANGED <<link, down, sock, cut>> /\ up'[c] = Tail(up[c]) /\ up[c] # <<>>
    BY <1>3 DEF Serve, TypeOK
  <2>2. Reported(c) => Reported(c)'
    <3>. SUFFICES ASSUME NEW i \in 1..Len(up[c]), up[c][i] = "exit"
                  PROVE  Reported(c)'
      BY DEF Reported
    <3>1. i # 1
      BY <1>0, <1>3, <2>1, TailKeeps
    <3>2. i - 1 \in 1..Len(up'[c]) /\ up'[c][i - 1] = up[c][i]
      BY <1>0, <2>1, <3>1, TailKeeps
    <3>. QED
      BY <3>2 DEF Reported
  <2>. QED
    BY <1>a, <2>1, <2>2 DEF Settled, Starting, InQueue, OnItsWay, Replaying
<1>4. CASE b = c /\ HangUp(c)
  <2>1. c \in cut'
    BY <1>4 DEF HangUp
  <2>. QED
    BY <2>1 DEF Settled
<1>. QED
  BY <1>1, <1>2, <1>3, <1>4 DEF SocketStep, Connect, Authenticate, Attach

\* What is settled depends on these variables only.
LEMMA SettledStays ==
    ASSUME NEW c, Settled(c), UNCHANGED <<sock, link, down, up, ending, call, cut>>
    PROVE  Settled(c)'
BY DEF Settled, Starting, InQueue, OnItsWay, Replaying, Reported

\* Every step keeps ActiveSessionIsSettled.
LEMMA SettledStep ==
    ASSUME LinkInv, ActiveSessionIsSettled, [Next]_vars
    PROVE  ActiveSessionIsSettled'
<1>. USE DEF LinkInv
<1>. SUFFICES ASSUME NEW d \in Devices, Active(session'[d])
              PROVE  Settled(conn[d])'
  BY DEF ActiveSessionIsSettled, Active
<1>0. /\ session[d] \in Sessions
      /\ conn[d] # NoConn => /\ conn[d] \in Conns /\ sock[conn[d]].dev = d
                             /\ sock[conn[d]].pc \in {"greet", "loop", "detach"}
      /\ \A c \in Conns : sock[c].dev \in Devices
  BY Reads DEF OnlineDeviceIsPaired
<1>1. CASE Active(session[d]) /\ conn'[d] = conn[d]
  <2>1. PICK c \in Conns : c = conn[d]
    BY <1>0, <1>1 DEF ActiveSessionIsOnline
  <2>2. Settled(c) /\ sock[c].dev = d /\ sock[c].pc \in {"greet", "loop", "detach"}
    BY <1>0, <1>1, <2>1, LinkAssumption DEF ActiveSessionIsSettled
  <2>3. ~(Serve(c) /\ Head(up[c]) = "exit")
    <3>1. Serve(c) /\ Head(up[c]) = "exit" => session'[d] = Exited(session[d])
      BY <2>2 DEF Serve, TypeOK
    <3>. QED
      BY <1>0, <3>1, SessionFacts
  <2>4. ~Detach(c)
    <3>1. Detach(c) => session'[d] = Exited(session[d])
      BY <1>1, <2>1, <2>2 DEF Detach, TypeOK
    <3>. QED
      BY <1>0, <3>1, SessionFacts
  <2>5. ASSUME NEW e \in Devices, Pair(e)
        PROVE  Settled(c)'
    BY <2>2, <2>5, SettledStays DEF Pair
  <2>6. ASSUME UNCHANGED vars
        PROVE  Settled(c)'
    BY <2>2, <2>6, SettledStays DEF vars
  <2>7. ASSUME NEW b \in Conns, SocketStep(b)
        PROVE  Settled(c)'
    BY <2>2, <2>3, <2>4, <2>7, SocketSettles
  <2>8. ASSUME NEW b \in Conns, ClientStep(b)
        PROVE  Settled(c)'
    BY <2>2, <2>8, ClientSettles
  <2>9. ASSUME NEW x \in Calls, OperatorStep(x)
        PROVE  Settled(c)'
    BY <2>2, <2>9, OperatorSettles
  <2>10. Settled(c)'
    BY <2>5, <2>6, <2>7, <2>8, <2>9 DEF Next
  <2>. QED
    BY <1>1, <2>1, <2>10 DEF Settled, Starting, InQueue, OnItsWay, Replaying, Reported
<1>2. ASSUME NEW c \in Conns, Attach(c), conn'[d] # conn[d]
      PROVE  Settled(conn[d])'
  <2>1. sock[c].dev = d /\ conn'[d] = c /\ AttachSession(c)
    BY <1>2 DEF Attach, Refuse, TypeOK
  <2>2. Replayable(session[d])
    <3>1. ~Replayable(session[d]) => session'[d] = [state |-> Exited(session[d]).state,
                                                    stop |-> FALSE, seq |-> session[d].seq]
      BY <2>1 DEF AttachSession, TypeOK
    <3>. QED
      BY <1>0, <3>1, AttachFacts
  <2>3. sock'[c].pc = "greet" /\ sock'[c].replay = session[d].seq
    BY <2>1, <2>2 DEF AttachSession, TypeOK, Sock
  <2>4. session[d].seq # 0
    BY <1>0, <2>2 DEF Replayable, Active, Sessions, NoSession, Seqs
  <2>5. Replaying(c)'
    BY <2>3, <2>4 DEF Replaying
  <2>. QED
    BY <2>1, <2>5 DEF Settled, Replaying
<1>3. ASSUME NEW x \in Calls, NEW e \in Devices, StartSession(x, e), ~Active(session[d])
      PROVE  Settled(conn[d])'
  <2>1. e = d
    BY <1>3 DEF StartSession, TypeOK
  <2>2. call'[x].pc = "send" /\ call'[x].to = {conn[d]} /\ call'[x].frame = Frame("open", nextSeq)
    BY <1>3, <2>1 DEF StartSession, TypeOK
  <2>3. conn' = conn /\ nextSeq # 0
    BY <1>3 DEF StartSession, Seqs
  <2>. QED
    BY <2>2, <2>3 DEF Settled, OnItsWay, Starts, Frame
<1>4. ASSUME NEW c \in Conns, Serve(c)
      PROVE  Active(session[d]) /\ conn' = conn
  <2>1. session'[d] \in {session[d], ReadySession(session[d]), Exited(session[d])}
    BY <1>4 DEF Serve, TypeOK
  <2>. QED
    BY <1>0, <1>4, <2>1, SessionFacts DEF Serve
<1>5. ASSUME NEW c \in Conns, Detach(c)
      PROVE  Active(session[d]) /\ conn'[d] = conn[d]
  <2>1. \/ session'[d] = session[d] /\ conn'[d] = conn[d]
        \/ session'[d] = Exited(session[d])
        \/ session'[d] = session[d] /\ ~Active(session[d])
    BY <1>5 DEF Detach, TypeOK
  <2>. QED
    BY <1>0, <2>1, SessionFacts
<1>6. ASSUME NEW c \in Conns, Attach(c), conn'[d] = conn[d]
      PROVE  Active(session[d])
  <2>1. \/ session'[d] = session[d]
        \/ session'[d] = [state |-> Exited(session[d]).state, stop |-> FALSE, seq |-> session[d].seq]
    <3>1. session' = session \/
          session' = [session EXCEPT ![sock[c].dev] = [state |-> Exited(session[sock[c].dev]).state,
                                     stop |-> FALSE, seq |-> session[sock[c].dev].seq]]
      BY <1>6 DEF Attach, AttachSession, Refuse
    <3>. QED
      BY <3>1 DEF TypeOK
  <2>. QED
    BY <1>0, <2>1, AttachFacts
<1>7. ASSUME NEW x \in Calls, NEW e \in Devices, StartSession(x, e) \/ Terminate(x, e)
      PROVE  conn' = conn /\ (Terminate(x, e) => Active(session[d]))
  <2>1. Terminate(x, e) => session'[d] = session[d] \/ session'[d].state = "exited"
    BY <1>7 DEF Terminate, TypeOK
  <2>. QED
    BY <1>7, <2>1 DEF StartSession, Terminate, Active
<1>8. ASSUME NEW x \in Calls, NEW e \in Devices, Revoke(x, e)
      PROVE  Active(session[d]) /\ conn'[d] = conn[d]
  <2>1. e # d
    BY <1>8 DEF Revoke, TypeOK, Active, NoSession
  <2>. QED
    BY <1>8, <2>1 DEF Revoke, TypeOK
<1>9. ASSUME NEW x \in Calls, StopGateway(x)
      PROVE  FALSE
  BY <1>0, <1>9, SessionFacts DEF StopGateway
<1>10. CASE UNCHANGED <<session, conn>>
  BY <1>1, <1>10
<1>. QED
  BY <1>1, <1>2, <1>3, <1>4, <1>5, <1>6, <1>7, <1>8, <1>9, <1>10, ApartSteps
     DEF Next, SocketStep, OperatorStep, Apart, Pair, Connect, Authenticate, Greet, HangUp, vars

\* When everything said between gateway and client has been heard, a session
\* shown as active has a Pi at the client the device is connected with.
THEOREM NoPhantomSessions == Spec => []NoPhantomSession
<1>1. Init => ActiveSessionIsSettled
  BY DEF Init, ActiveSessionIsSettled, Active, NoSession
<1>2. LinkInv /\ ActiveSessionIsSettled => NoPhantomSession
  <2>. SUFFICES ASSUME LinkInv, ActiveSessionIsSettled, NEW d \in Devices, Quiet(d), Active(session[d])
                PROVE  link[conn[d]].pi # 0
    BY DEF NoPhantomSession
  <2>1. PICK c \in Conns : /\ c = conn[d] /\ sock[c].dev = d
                           /\ sock[c].pc \in {"greet", "loop", "detach"}
    BY Reads DEF LinkInv, ActiveSessionIsOnline, OnlineDeviceIsPaired
  <2>2. Settled(c)
    BY <2>1 DEF ActiveSessionIsSettled
  <2>3. /\ down[c] = <<>> /\ up[c] = <<>> /\ ending[c] = 0
        /\ sock[c].pc = "loop" /\ link[c].pc = "run" /\ c \notin cut
    BY <2>1 DEF Quiet
  <2>4. ~InQueue(c) /\ ~Reported(c)
    BY <2>3 DEF InQueue, Reported
  <2>5. ~OnItsWay(c)
    BY DEF Quiet, OnItsWay
  <2>. QED
    BY <2>1, <2>2, <2>3, <2>4, <2>5 DEF Settled, Starting, Replaying
<1>. QED
  BY <1>1, <1>2, SettledStep, LinkInvariant, PTL DEF Spec
=============================================================================
