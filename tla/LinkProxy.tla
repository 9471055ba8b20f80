----------------------------- MODULE LinkProxy ------------------------------
(***************************************************************************)
(* Model calls of a local Power Mode run (link/src/local.rs and the proxy  *)
(* of link/src/main.rs) down to the gateway's run_model: the launcher asks *)
(* home for routes, writes them into Pi's configuration once, and relays   *)
(* each request over the one socket, while the engines behind the routes   *)
(* are relaunched, the head times out, Pi drops an answer or reads it      *)
(* slowly, and the socket goes away.  The cloud endpoint keeps no state.   *)
(***************************************************************************)
EXTENDS Naturals, Sequences, FiniteSets

CONSTANTS
    ModelCalls,   \* requests of Pi; their ids are random and never come again
    Stacks,       \* the engines a run may find running: aliases by engine slot
    NewAliases,   \* aliases of engines launched later
    ChunkCap,     \* 64: capacity of the channel an answer is read from
    MaxBytes,     \* bound: chunks of each call's answer
    MaxEvents     \* bound: calls, and engines launched or stopped, in a run

ASSUME LinkProxyAssumption ==
    /\ ChunkCap \in Nat \ {0} /\ MaxBytes \in [ModelCalls -> Nat] /\ MaxEvents \in Nat

(* An alias is a sequence; the suffix "#2" is an element more. <<>>: no engine *)
NoAlias == <<>>

VARIABLES
    slotEngines,  \* alias of the running engine of each slot
    turns,    \* relaunches so far
    routes,   \* the gateway's Inner.routes: alias by slot, as last published
    stage,    \* the launcher: "start", "asked", "running" or "over"
    listed,   \* routes of this run: sequence of [id, model]
    wire,     \* the socket: "none", "up" or "down"
    writer,   \* the writer task still takes messages from the channel
    reading,  \* the reader task: Idle, Gone, or the call and chunk it finds no room for
    up, down, \* what is under way on the socket
    heads, senders,  \* ProxyShared.heads and chunks
    pipe,     \* the channel each answer is read from
    request,  \* Pi's calls: [pc, model, got, answer]
    job,      \* run_model at the gateway: [pc, route, bound, by, sent, stale]
    cancels,  \* Inner.model_cancels
    cancelled,\* tokens that were cancelled
    missed    \* history: cancels that found no entry

proxyVars == <<slotEngines, turns, routes, stage, listed, wire, writer, reading, up, down,
               heads, senders, pipe, request, job, cancels, cancelled, missed>>
launcher == <<stage, listed>>
linkSide == <<heads, senders, pipe, request, reading>>
gatewaySide == <<job, cancels, cancelled, missed>>
stackSide == <<slotEngines, turns, routes>>

Idle == <<"idle">>
Gone == <<"gone">>
NoChat == [pc |-> "new", model |-> NoAlias, got |-> <<>>, answer |-> "none"]
NoModelJob == [pc |-> "none", route |-> 0, bound |-> NoAlias, by |-> NoAlias, sent |-> 0, stale |-> FALSE]
UpFrame(kind, r) == [kind |-> kind, call |-> r]
DownFrame(kind, r, n) == [kind |-> kind, call |-> r, n |-> n]

-----------------------------------------------------------------------------
(* Pure parts of the launcher *)

(* resolve_cloud: an override hides the file's value even when it is blank;  *)
(* a blank key of the file gives way to the one of the credential manager    *)
CloudOutcome(file, over, keyring) ==
    LET Pick(o, f) == IF o = "absent" THEN f ELSE o
        base == Pick(over.base, file.base)
        model == Pick(over.model, file.model)
        key == IF file.key = "set" THEN "set" ELSE keyring
    IN IF base \in {"absent", "blank"} \/ model # "set" \/ key # "set" THEN "missing"
       ELSE IF base = "https" \/ base = "loopback" THEN "ready" ELSE "error"

CloudFiles == [base : {"absent", "https"}, model : {"absent", "set"}, key : {"blank", "set"}]
CloudOverrides == [base : {"absent", "blank", "http"}, model : {"absent", "set"}]

(* local_model_ids: the second and later engines of one alias get a suffix *)
LocalIds(rs) ==
    [i \in DOMAIN rs |->
        LET n == Cardinality({j \in 1 .. i : rs[j].model = rs[i].model})
        IN IF n = 1 THEN rs[i].model ELSE Append(rs[i].model, n)]

(* route_tables: a later route with the same id replaces the earlier *)
RouteOf(rs, id) ==
    rs[CHOOSE i \in DOMAIN rs :
          LocalIds(rs)[i] = id /\ \A j \in DOMAIN rs : LocalIds(rs)[j] = id => j <= i]
ModelIds(rs) == {LocalIds(rs)[i] : i \in DOMAIN rs}

(* Inner::routes, in the order of the slots *)
Published(table) ==
    SelectSeq([i \in DOMAIN table |-> [id |-> i, model |-> table[i]]], LAMBDA x : x.model # NoAlias)

-----------------------------------------------------------------------------
ProxyInit ==
    /\ slotEngines \in Stacks /\ routes = slotEngines /\ turns = 0
    /\ stage = "start" /\ listed = <<>>
    /\ wire = "none" /\ writer = TRUE /\ reading = Idle /\ up = <<>> /\ down = <<>>
    /\ heads = {} /\ senders = {} /\ pipe = [r \in ModelCalls |-> <<>>]
    /\ request = [r \in ModelCalls |-> NoChat] /\ job = [r \in ModelCalls |-> NoModelJob]
    /\ cancels = {} /\ cancelled = {} /\ missed = {}

Started == Cardinality({r \in ModelCalls : request[r].pc # "new"})

(* An engine is launched in a slot or stopped *)
Relaunched(s) ==
    /\ turns + Started < MaxEvents /\ turns' = turns + 1
    /\ slotEngines' \in {[slotEngines EXCEPT ![s] = a] : a \in (NewAliases \cup {NoAlias}) \ {slotEngines[s]}}
    /\ UNCHANGED <<routes, launcher, wire, writer, up, down, linkSide, gatewaySide>>

(* refresh_routes, every five seconds and at a session's start *)
RefreshRoutes ==
    /\ routes # slotEngines /\ routes' = slotEngines
    /\ UNCHANGED <<slotEngines, turns, launcher, wire, writer, up, down, linkSide, gatewaySide>>

-----------------------------------------------------------------------------
(* The launcher: connect, handshake, Pi *)

(* The socket is gone: frames not yet read may still be there *)
CutWire ==
    /\ wire' = "down" /\ up' = <<>>
    /\ \E n \in 0 .. Len(down) : down' = SubSeq(down, 1, n)

AskRoutes ==
    /\ stage = "start" /\ stage' = "asked" /\ wire' = "up" /\ up' = <<UpFrame("routes", "none")>>
    /\ UNCHANGED <<listed, writer, down, linkSide, gatewaySide, stackSide>>

(* Without home the run needs the cloud, whose configuration was read first *)
WithoutHome ==
    /\ \E f \in CloudFiles, o \in CloudOverrides, k \in {"absent", "set"} :
          stage' = IF CloudOutcome(f, o, k) = "ready" THEN "running" ELSE "over"
    /\ wire' = "down" /\ writer' = FALSE /\ reading' = Gone /\ up' = <<>> /\ down' = <<>>

(* No credentials, no connection, or no answer in time *)
HomeFails ==
    /\ stage \in {"start", "asked"} /\ WithoutHome
    /\ UNCHANGED <<listed, heads, senders, pipe, request, gatewaySide, stackSide>>

(* The routes arrive; a link without routes is given up again *)
TakeRoutes ==
    /\ stage = "asked" /\ down # <<>> /\ Head(down).kind = "routes"
    /\ IF Head(down).n = <<>> THEN WithoutHome /\ UNCHANGED listed
       ELSE /\ listed' = Head(down).n /\ stage' = "running" /\ down' = Tail(down)
            /\ UNCHANGED <<wire, writer, reading, up>>
    /\ UNCHANGED <<heads, senders, pipe, request, gatewaySide, stackSide>>

(* Pi has exited; its requests are dropped and the link's tasks aborted *)
PiExits ==
    /\ stage = "running" /\ stage' = "over"
    /\ wire' = "down" /\ writer' = FALSE /\ reading' = Gone /\ up' = <<>> /\ down' = <<>>
    /\ request' = [r \in ModelCalls |-> IF request[r].pc \in {"wait", "body"}
                                        THEN [request[r] EXCEPT !.pc = "dropped"] ELSE request[r]]
    /\ pipe' = [r \in ModelCalls |-> <<>>]
    /\ UNCHANGED <<listed, heads, senders, gatewaySide, stackSide>>

WireBreaks ==
    /\ wire = "up" /\ CutWire
    /\ UNCHANGED <<launcher, writer, linkSide, gatewaySide, stackSide>>

(* A heartbeat or request that cannot be sent ends the writer *)
WriterEnds ==
    /\ wire = "down" /\ writer /\ writer' = FALSE /\ up' = <<>>
    /\ UNCHANGED <<launcher, wire, down, linkSide, gatewaySide, stackSide>>

-----------------------------------------------------------------------------
(* The proxy *)

(* chat_by_model, chat_route: registered under a new id before it is sent *)
Chat(r) ==
    /\ stage = "running" /\ request[r].pc = "new" /\ turns + Started < MaxEvents
    /\ \E id \in ModelIds(listed) :
          IF writer
            THEN /\ request' = [request EXCEPT ![r] = [NoChat EXCEPT !.pc = "wait", !.model = id]]
                 /\ heads' = heads \cup {r} /\ senders' = senders \cup {r}
                 /\ up' = IF wire = "up" THEN Append(up, UpFrame("request", r)) ELSE up
            ELSE /\ request' = [request EXCEPT ![r] = [NoChat EXCEPT !.pc = "done", !.model = id, !.answer = "502"]]
                 /\ UNCHANGED <<heads, senders, up>>
    /\ UNCHANGED <<launcher, wire, writer, down, pipe, reading, gatewaySide, stackSide>>

(* No head within 120 s *)
HeadTimeout(r) ==
    /\ stage = "running" /\ request[r].pc = "wait"
    /\ request' = [request EXCEPT ![r].pc = "done", ![r].answer = "504"]
    /\ heads' = heads \ {r} /\ senders' = senders \ {r} /\ pipe' = [pipe EXCEPT ![r] = <<>>]
    /\ up' = IF writer /\ wire = "up" THEN Append(up, UpFrame("cancel", r)) ELSE up
    /\ UNCHANGED <<launcher, wire, writer, down, reading, gatewaySide, stackSide>>

(* Pi closes the connection: the handler is dropped, the entries stay *)
PiDrops(r) ==
    /\ request[r].pc \in {"wait", "body"}
    /\ request' = [request EXCEPT ![r].pc = "dropped"] /\ pipe' = [pipe EXCEPT ![r] = <<>>]
    /\ UNCHANGED <<launcher, wire, writer, up, down, heads, senders, reading, gatewaySide, stackSide>>

PiReads(r) ==
    /\ request[r].pc = "body" /\ pipe[r] # <<>>
    /\ request' = [request EXCEPT ![r].got = Append(@, Head(pipe[r]))]
    /\ pipe' = [pipe EXCEPT ![r] = Tail(@)]
    /\ UNCHANGED <<launcher, wire, writer, up, down, heads, senders, reading, gatewaySide, stackSide>>

(* The last sender is gone: the body ends *)
PiEnds(r) ==
    /\ request[r].pc = "body" /\ pipe[r] = <<>> /\ r \notin senders /\ reading \notin {<<"full", r, n>> : n \in 1 .. MaxBytes[r]}
    /\ request' = [request EXCEPT ![r].pc = "done"]
    /\ UNCHANGED <<launcher, wire, writer, up, down, heads, senders, pipe, reading, gatewaySide, stackSide>>

(* The waiting handler gets its head, with the status of the answer *)
Heads(r, answer) ==
    /\ heads' = heads \ {r}
    /\ request' = IF r \in heads /\ request[r].pc = "wait"
                  THEN [request EXCEPT ![r].pc = "body", ![r].answer = answer] ELSE request

(* The reader takes a chunk, and waits while the channel is full *)
TakeChunk ==
    /\ reading = Idle /\ stage = "running" /\ down # <<>> /\ Head(down).kind = "chunk"
    /\ down' = Tail(down)
    /\ LET r == Head(down).call IN
       IF r \in senders /\ request[r].pc \in {"wait", "body"} /\ Len(pipe[r]) = ChunkCap
         THEN reading' = <<"full", r, Head(down).n>> /\ UNCHANGED pipe
         ELSE /\ pipe' = IF r \in senders /\ request[r].pc \in {"wait", "body"}
                         THEN [pipe EXCEPT ![r] = Append(@, Head(down).n)] ELSE pipe
              /\ UNCHANGED reading
    /\ UNCHANGED <<launcher, wire, writer, up, heads, senders, request, gatewaySide, stackSide>>

(* Room again, or nobody reads any more *)
ReaderGoesOn(r) ==
    /\ reading[1] = "full" /\ reading[2] = r /\ reading' = Idle
    /\ \/ /\ request[r].pc \in {"wait", "body"} /\ Len(pipe[r]) < ChunkCap
          /\ pipe' = [pipe EXCEPT ![r] = Append(@, reading[3])]
       \/ request[r].pc \notin {"wait", "body"} /\ UNCHANGED pipe
    /\ UNCHANGED <<launcher, wire, writer, up, down, heads, senders, request, gatewaySide, stackSide>>

(* A head, or the end: with no head before it the answer is a 502 *)
TakeHead ==
    /\ reading = Idle /\ stage = "running" /\ down # <<>> /\ Head(down).kind \in {"head", "end"}
    /\ down' = Tail(down)
    /\ LET r == Head(down).call IN
       IF Head(down).kind = "head" THEN Heads(r, "200") /\ UNCHANGED senders
       ELSE Heads(r, "502") /\ senders' = senders \ {r}
    /\ UNCHANGED <<launcher, wire, writer, up, pipe, reading, gatewaySide, stackSide>>

(* The socket ended: nobody is told, nothing is cleared *)
ReaderEnds ==
    /\ reading = Idle /\ stage = "running" /\ wire = "down" /\ down = <<>> /\ reading' = Gone
    /\ UNCHANGED <<launcher, wire, writer, up, down, heads, senders, pipe, request, gatewaySide, stackSide>>

-----------------------------------------------------------------------------
(* The gateway *)

(* A frame to the client, lost when its socket is gone *)
Send(f) == down' = IF wire = "up" THEN Append(down, f) ELSE down

TakeRoutesRequest ==
    /\ wire = "up" /\ up # <<>> /\ Head(up).kind = "routes" /\ up' = Tail(up)
    /\ Send(DownFrame("routes", "none", Published(routes)))
    /\ UNCHANGED <<launcher, wire, writer, linkSide, gatewaySide, stackSide>>

(* The route is looked up when the request is taken; run_model is a task of its own *)
TakeRequest ==
    /\ wire = "up" /\ up # <<>> /\ Head(up).kind = "request" /\ up' = Tail(up)
    /\ LET r == Head(up).call
           route == RouteOf(listed, request[r].model).id IN
       IF routes[route] = NoAlias
         THEN Send(DownFrame("end", r, 0)) /\ UNCHANGED job
         ELSE /\ job' = [job EXCEPT ![r] = [NoModelJob EXCEPT !.pc = "spawned", !.route = route, !.bound = routes[route]]]
              /\ UNCHANGED down
    /\ UNCHANGED <<launcher, wire, writer, linkSide, cancels, cancelled, missed, stackSide>>

(* cancel_model *)
TakeCancel ==
    /\ wire = "up" /\ up # <<>> /\ Head(up).kind = "cancel" /\ up' = Tail(up)
    /\ LET r == Head(up).call IN
       /\ cancels' = cancels \ {r}
       /\ cancelled' = IF r \in cancels THEN cancelled \cup {r} ELSE cancelled
       /\ missed' = IF r \in cancels THEN missed ELSE missed \cup {r}
    /\ UNCHANGED <<launcher, wire, writer, down, linkSide, job, stackSide>>

\* variant: the model of the request is not compared with the route's
RunModelUnasked(r) ==
    /\ job[r].pc = "spawned" /\ cancels' = cancels \cup {r}
    /\ job' = [job EXCEPT ![r].pc = "asked"]
    /\ UNCHANGED <<launcher, wire, writer, up, down, linkSide, cancelled, missed, stackSide>>

(* run_model registers its token and compares the model asked for with the   *)
(* route's: an id with a suffix is never the route's                         *)
RunModel(r) ==
    /\ job[r].pc = "spawned" /\ cancels' = cancels \cup {r}
    /\ IF request[r].model = job[r].bound
         THEN job' = [job EXCEPT ![r].pc = "asked"] /\ UNCHANGED down
         ELSE job' = [job EXCEPT ![r].pc = "finish"] /\ Send(DownFrame("end", r, 0))
    /\ UNCHANGED <<launcher, wire, writer, up, linkSide, cancelled, missed, stackSide>>

(* The engine on the route's port answers, if there is one *)
EngineAnswers(r) ==
    /\ job[r].pc = "asked" /\ slotEngines[job[r].route] # NoAlias
    /\ job' = [job EXCEPT ![r].pc = IF wire = "up" THEN "stream" ELSE "finish",
                          ![r].by = slotEngines[job[r].route],
                          ![r].stale = slotEngines[job[r].route] # job[r].bound]
    /\ Send(DownFrame("head", r, 0))
    /\ UNCHANGED <<launcher, wire, writer, up, linkSide, cancels, cancelled, missed, stackSide>>

EngineSends(r) ==
    /\ job[r].pc = "stream" /\ job[r].sent < MaxBytes[r]
    /\ IF wire = "up"
         THEN job' = [job EXCEPT ![r].sent = @ + 1] /\ Send(DownFrame("chunk", r, job[r].sent + 1))
         ELSE job' = [job EXCEPT ![r].pc = "finish"] /\ UNCHANGED down
    /\ UNCHANGED <<launcher, wire, writer, up, linkSide, cancels, cancelled, missed, stackSide>>

(* The stream ends or fails, the engine cannot be reached, or the call is    *)
(* cancelled: the client is told with one frame, the same for all            *)
JobEnds(r) ==
    /\ job[r].pc \in {"asked", "stream"}
    /\ job' = [job EXCEPT ![r].pc = "finish"] /\ Send(DownFrame("end", r, 0))
    /\ UNCHANGED <<launcher, wire, writer, up, linkSide, cancels, cancelled, missed, stackSide>>

(* finish_model *)
FinishModel(r) ==
    /\ job[r].pc = "finish" /\ job' = [job EXCEPT ![r].pc = "over"] /\ cancels' = cancels \ {r}
    /\ UNCHANGED <<launcher, wire, writer, up, down, linkSide, cancelled, missed, stackSide>>

ProxyNext ==
    \/ \E s \in DOMAIN slotEngines : Relaunched(s)
    \/ RefreshRoutes \/ AskRoutes \/ HomeFails \/ TakeRoutes \/ PiExits \/ WireBreaks \/ WriterEnds
    \/ \E r \in ModelCalls :
          \/ Chat(r) \/ HeadTimeout(r) \/ PiDrops(r) \/ PiReads(r) \/ PiEnds(r) \/ ReaderGoesOn(r)
          \/ RunModel(r) \/ EngineAnswers(r) \/ EngineSends(r) \/ JobEnds(r) \/ FinishModel(r)
    \/ TakeChunk \/ TakeHead \/ ReaderEnds \/ TakeRoutesRequest \/ TakeRequest \/ TakeCancel

ProxySpec == ProxyInit /\ [][ProxyNext]_proxyVars
-----------------------------------------------------------------------------
(* Properties *)

Under(q, kind, r) == \E i \in DOMAIN q : q[i].kind = kind /\ q[i].call = r
Working(r) == job[r].pc \in {"spawned", "asked", "stream"}

(* An answer comes from the engine Pi named, although slots are relaunched   *)
(* with other models between the listing and the call; only an engine that   *)
(* changed after the last refresh of the routes may answer for another.      *)
RightModelAnswers ==
    \A r \in ModelCalls : job[r].by # NoAlias /\ ~job[r].stale => job[r].by = request[r].model

(* Pi reads the chunks of its own answer in order, and a body that ended is  *)
(* all that the engine had sent, however slowly Pi read and whatever other   *)
(* answers came in between.                                                  *)
AnswerIsWhole ==
    \A r \in ModelCalls :
       /\ \A i \in DOMAIN request[r].got : request[r].got[i] = i
       /\ request[r].pc = "done" /\ request[r].answer = "200" => Len(request[r].got) = job[r].sent

(* A caller that waits or reads will be told the end as long as the socket   *)
(* is up: its entries are there, and the frame that ends it is under way or  *)
(* its call at the gateway still at work.                                    *)
EveryAnswerEnds ==
    \A r \in ModelCalls : wire = "up" /\ stage = "running" =>
       /\ request[r].pc = "wait" => r \in heads /\ r \in senders
       /\ r \in senders => \/ Under(up, "request", r) \/ Working(r) \/ Under(down, "end", r)

(* An engine does not go on for a caller that timed out, unless the cancel   *)
(* arrived before the call had registered its token.                         *)
TimeoutFreesEngine ==
    \A r \in ModelCalls :
       /\ request[r].answer = "504" /\ wire = "up" /\ stage = "running" /\ Working(r)
       /\ ~Under(up, "request", r) /\ ~Under(up, "cancel", r)
       => r \in missed \/ r \in cancelled

(* A token is kept exactly as long as its call may be cancelled.             *)
TokensMatchCalls ==
    \A r \in ModelCalls :
       r \in cancels <=> job[r].pc \in {"asked", "stream", "finish"} /\ r \notin cancelled

ProxyInv == RightModelAnswers /\ AnswerIsWhole /\ EveryAnswerEnds /\ TimeoutFreesEngine /\ TokensMatchCalls
=============================================================================
