----------------------------- MODULE SocketServer -----------------------------
(***************************************************************************)
(* Connection lifecycle of SocketServerBase / SocketServer<WS>             *)
(* (src/server_ws.hpp): accept, the HTTP upgrade under a request timeout,  *)
(* the read loop of a connection, its registration with an Endpoint, the   *)
(* close and error paths, the idle timer, and send to other connections.   *)
(*                                                                         *)
(* A connection is served by a chain of handlers: at most one asynchronous *)
(* operation of the chain is outstanding, and its completion handler       *)
(* issues the next.  Handlers of different chains, and the two timers,     *)
(* run in parallel on NumThreads threads inside io_service::run.  A        *)
(* handler is cut into several actions where another thread can come       *)
(* between two of its accesses to shared state.                            *)
(*                                                                         *)
(* Abstracted: frame contents (see the cases of HeaderRead and             *)
(* ContentRead), time (a timer may expire whenever it is armed, so the     *)
(* reset of an armed timer by its own chain leaves it armed), the          *)
(* Connection allocated ahead for the pending accept.                      *)
(***************************************************************************)
EXTENDS Naturals, FiniteSets

CONSTANTS
  Conn,             \* addresses at which Connection objects are allocated
  Endpoint,         \* the keys of the map endpoint
  NoEndpoint,       \* path or header that starts no session
  NumThreads,       \* num_threads
  TimeoutRequest,   \* timeout_request > 0
  TimeoutIdle,      \* timeout_idle > 0
  Broadcasts,       \* does onmessage send to all of get_connections()?
  MaxWrites         \* bound: outstanding async_writes of data per connection

ASSUME ConnAssumption       == IsFiniteSet(Conn)
ASSUME NoEndpointAssumption == NoEndpoint \notin Endpoint
ASSUME NumThreadsAssumption == NumThreads \in Nat \ {0}
ASSUME FlagAssumption       == {TimeoutRequest, TimeoutIdle, Broadcasts} \subseteq BOOLEAN
ASSUME MaxWritesAssumption  == MaxWrites \in Nat

VARIABLES
  phase,        \* phase[c]: the chain's outstanding operation or running handler
  res,          \* res[c]: outcome posted for the outstanding operation
  sock,         \* sock[c]: the socket: open, reset by the peer, closed by close()
  endp,         \* endp[c]: the endpoint matched by write_handshake
  req,          \* req[c]: the request timer; "expired" = its handler is queued
  idle,         \* idle[c]: timer_idle; "null" = not constructed
  closed,       \* closed[c]: Connection::closed
  closes,       \* closes[c]: Close frames given to async_write so far
  writes,       \* writes[c]: outstanding async_writes of send
  connections,  \* connections[e]: Endpoint::connections
  snap,         \* snap[c]: what the broadcasting handler of c has still to serve
  to,           \* to[c]: whose timer the broadcasting handler of c has to re-arm
  called,       \* called[c]: the last callback made for c (history)
  fault         \* how the process died: "none" while it runs, of a timer that is
                \* "null" or of an exception thrown by "shutdown" or by "parse"

vars == <<phase, res, sock, endp, req, idle, closed, closes, writes,
          connections, snap, to, called, fault>>
chain == <<phase, res>>
timers == <<req, idle>>
closing == <<closed, closes>>
broadcast == <<snap, to>>

-----------------------------------------------------------------------------
\* Operations the chain waits for, and the points its running handler is at.
Pending == {"request", "respond", "header", "length", "content"}
Running == {"register", "onopen", "onmessage", "broadcast", "rearm",
            "closing", "unregister", "onclose", "onerror"}
Phase == {"free"} \cup Pending \cup Running
IdleTimer == {"null", "armed", "off", "rearming", "queued", "closing", "fired"}

TypeOK ==
  /\ phase \in [Conn -> Phase]
  /\ res \in [Conn -> {"pending", "ok", "fail"}]
  /\ sock \in [Conn -> {"open", "reset", "closed"}]
  /\ endp \in [Conn -> Endpoint \cup {NoEndpoint}]
  /\ req \in [Conn -> {"off", "armed", "expired"}]
  /\ idle \in [Conn -> IdleTimer]
  /\ closed \in [Conn -> BOOLEAN]
  /\ closes \in [Conn -> Nat]
  /\ writes \in [Conn -> Nat]
  /\ connections \in [Endpoint -> SUBSET Conn]
  /\ snap \in [Conn -> SUBSET Conn]
  /\ to \in [Conn -> Conn]
  /\ called \in [Conn -> {"none", "onopen", "onmessage", "onclose", "onerror"}]
  /\ fault \in {"none", "null", "shutdown", "parse"}

Registered(c) == \E e \in Endpoint : c \in connections[e]

\* Handlers that hold a thread between two actions.
Busy == {<<"chain", c>> : c \in {d \in Conn : phase[d] \in Running}}
          \cup {<<"idle", c>> : c \in {d \in Conn : idle[d] = "closing"}}
FreeThread == Cardinality(Busy) < NumThreads

\* Somebody holds a shared_ptr to the Connection: a pending or running
\* handler, a timer's wait, an async_write, the registry or a copy of it.
Referenced(c) ==
  \/ phase[c] # "free"
  \/ req[c] = "expired"
  \/ idle[c] \in {"armed", "rearming", "queued", "closing"}
  \/ writes[c] > 0
  \/ Registered(c)
  \/ \E d \in Conn : c \in snap[d]

\* timer_idle is dereferenced whenever timeout_idle > 0.
NullTimer(c) == TimeoutIdle /\ idle[c] = "null"

Init ==
  /\ phase = [c \in Conn |-> "free"]
  /\ res = [c \in Conn |-> "pending"]
  /\ sock = [c \in Conn |-> "closed"]
  /\ endp = [c \in Conn |-> NoEndpoint]
  /\ req = [c \in Conn |-> "off"]
  /\ idle = [c \in Conn |-> "null"]
  /\ closed = [c \in Conn |-> FALSE]
  /\ closes = [c \in Conn |-> 0]
  /\ writes = [c \in Conn |-> 0]
  /\ connections = [e \in Endpoint |-> {}]
  /\ snap = [c \in Conn |-> {}]
  /\ to = [c \in Conn |-> c]
  /\ called = [c \in Conn |-> "none"]
  /\ fault = "none"

-----------------------------------------------------------------------------
\* What the handlers are made of.

\* The handler goes on at p, or returns after issuing the operation p.
Goto(c, p)  == phase' = [phase EXCEPT ![c] = p] /\ UNCHANGED res
Issue(c, p) == /\ phase' = [phase EXCEPT ![c] = p]
               /\ res' = [res EXCEPT ![c] = "pending"]

\* The completion handler of operation p of c starts with outcome r.
Handler(c, p, r) == /\ fault = "none" /\ FreeThread
                    /\ phase[c] = p /\ res[c] = r

\* Variant with a mistake: timer_idle_cancel is forgotten.
UnregisterKeepsTimer(c, next) ==
  /\ connections' = [connections EXCEPT ![endp[c]] = @ \ {c}]
  /\ Goto(c, next)
  /\ UNCHANGED <<idle, fault>>

\* Variant with a mistake: timer_idle_cancel drops the timer it has stopped.
UnregisterDropsTimer(c, next) ==
  IF NullTimer(c)
  THEN /\ fault' = "null"
       /\ UNCHANGED <<chain, idle, connections>>
  ELSE /\ idle' = [idle EXCEPT ![c] = IF @ = "armed" THEN "null" ELSE @]
       /\ connections' = [connections EXCEPT ![endp[c]] = @ \ {c}]
       /\ Goto(c, next)
       /\ UNCHANGED fault

\* timer_idle_cancel, then the erase under connections_mutex, with which
\* connection_close and connection_error begin; next is the callback.
Unregister(c, next) ==
  IF NullTimer(c)
  THEN /\ fault' = "null"
       /\ UNCHANGED <<chain, idle, connections>>
  ELSE /\ idle' = [idle EXCEPT ![c] = IF @ = "armed" THEN "off" ELSE @]
       /\ connections' = [connections EXCEPT ![endp[c]] = @ \ {c}]
       /\ Goto(c, next)
       /\ UNCHANGED fault

\* Variant with a mistake: closed is not looked at.
StartCloseUnchecked(c) == Goto(c, "closing")

\* send_close: the load of closed decides, the store and the send come later.
StartClose(c) == Goto(c, IF closed[c] THEN "unregister" ELSE "closing")

SendClose(c) == /\ closed' = [closed EXCEPT ![c] = TRUE]
                /\ closes' = [closes EXCEPT ![c] = @ + 1]
                /\ writes' = [writes EXCEPT ![c] = @ + 1]

Send(c) == writes[c] < MaxWrites /\ writes' = [writes EXCEPT ![c] = @ + 1]

-----------------------------------------------------------------------------
\* The network and the clock.

PeerReset(c) ==
  /\ fault = "none" /\ Referenced(c) /\ sock[c] = "open"
  /\ sock' = [sock EXCEPT ![c] = "reset"]
  /\ UNCHANGED <<chain, endp, timers, closing, writes, connections, broadcast, called, fault>>

\* The outstanding operation ends; at the peer's end of file it fails too.
Complete(c) ==
  /\ fault = "none" /\ phase[c] \in Pending /\ res[c] = "pending"
  /\ \E r \in {"ok", "fail"} :
       /\ r = "ok" => sock[c] = "open"
       /\ res' = [res EXCEPT ![c] = r]
  /\ UNCHANGED <<phase, sock, endp, timers, closing, writes, connections, broadcast, called, fault>>

\* Variant with a mistake: one write is accounted for twice.
WriteDoneTwice(c) ==
  /\ fault = "none" /\ writes[c] > 0
  /\ writes' = [writes EXCEPT ![c] = @ - 2]
  /\ UNCHANGED <<chain, sock, endp, timers, closing, connections, broadcast, called, fault>>

WriteDone(c) ==
  /\ fault = "none" /\ writes[c] > 0
  /\ writes' = [writes EXCEPT ![c] = @ - 1]
  /\ UNCHANGED <<chain, sock, endp, timers, closing, connections, broadcast, called, fault>>

RequestExpire(c) ==
  /\ fault = "none" /\ req[c] = "armed"
  /\ req' = [req EXCEPT ![c] = "expired"]
  /\ UNCHANGED <<chain, sock, endp, idle, closing, writes, connections, broadcast, called, fault>>

IdleExpire(c) ==
  /\ fault = "none" /\ idle[c] = "armed"
  /\ idle' = [idle EXCEPT ![c] = "queued"]
  /\ UNCHANGED <<chain, sock, endp, req, closing, writes, connections, broadcast, called, fault>>

-----------------------------------------------------------------------------
\* accept, read_handshake, write_handshake, connection_open.

\* Variant with a mistake: the read of the request has no timeout.
AcceptNoTimeout(c) ==
  /\ fault = "none" /\ FreeThread /\ ~Referenced(c)
  /\ Issue(c, "request")
  /\ sock' = [sock EXCEPT ![c] = "open"]
  /\ endp' = [endp EXCEPT ![c] = NoEndpoint]
  /\ idle' = [idle EXCEPT ![c] = "null"]
  /\ closed' = [closed EXCEPT ![c] = FALSE]
  /\ closes' = [closes EXCEPT ![c] = 0]
  /\ called' = [called EXCEPT ![c] = "none"]
  /\ UNCHANGED <<req, writes, connections, broadcast, fault>>

\* A new Connection at an address nobody refers to any more.
Accept(c) ==
  /\ fault = "none" /\ FreeThread /\ ~Referenced(c)
  /\ Issue(c, "request")
  /\ sock' = [sock EXCEPT ![c] = "open"]
  /\ endp' = [endp EXCEPT ![c] = NoEndpoint]
  /\ req' = [req EXCEPT ![c] = IF TimeoutRequest THEN "armed" ELSE "off"]
  /\ idle' = [idle EXCEPT ![c] = "null"]
  /\ closed' = [closed EXCEPT ![c] = FALSE]
  /\ closes' = [closes EXCEPT ![c] = 0]
  /\ called' = [called EXCEPT ![c] = "none"]
  /\ UNCHANGED <<writes, connections, broadcast, fault>>

\* shutdown() throws on a reset socket, and nothing in the thread catches it.
RequestTimeout(c) ==
  /\ fault = "none" /\ FreeThread /\ req[c] = "expired"
  /\ req' = [req EXCEPT ![c] = "off"]
  /\ IF sock[c] = "reset"
     THEN fault' = "shutdown" /\ UNCHANGED sock
     ELSE sock' = [sock EXCEPT ![c] = "closed"] /\ UNCHANGED fault
  /\ UNCHANGED <<chain, endp, idle, closing, writes, connections, broadcast, called>>

\* cancel() has no effect on a handler already queued.  Without a match or
\* a Sec-WebSocket-Key, and when the read fails, the chain ends here; of a
\* request line that is too short substr throws, and nothing catches it.
RequestRead(c) ==
  /\ \/ /\ Handler(c, "request", "ok")
        /\ \E e \in Endpoint \cup {NoEndpoint} :
             /\ endp' = [endp EXCEPT ![c] = e]
             /\ IF e = NoEndpoint THEN Goto(c, "free") ELSE Issue(c, "respond")
        /\ UNCHANGED fault
     \/ Handler(c, "request", "ok") /\ fault' = "parse" /\ UNCHANGED <<chain, endp>>
     \/ Handler(c, "request", "fail") /\ Goto(c, "free") /\ UNCHANGED <<endp, fault>>
  /\ req' = [req EXCEPT ![c] = IF @ = "armed" THEN "off" ELSE @]
  /\ UNCHANGED <<sock, idle, closing, writes, connections, broadcast, called>>

\* connection_open begins with timer_idle_init; a failed write of the answer
\* is a connection_error.
HandshakeWritten(c) ==
  /\ \/ /\ Handler(c, "respond", "ok")
        /\ Goto(c, "register")
        /\ idle' = [idle EXCEPT ![c] = IF TimeoutIdle THEN "armed" ELSE @]
        /\ UNCHANGED <<connections, fault>>
     \/ Handler(c, "respond", "fail") /\ Unregister(c, "onerror")
  /\ UNCHANGED <<sock, endp, req, closing, writes, broadcast, called>>

Register(c) ==
  /\ fault = "none" /\ phase[c] = "register"
  /\ connections' = [connections EXCEPT ![endp[c]] = @ \cup {c}]
  /\ Goto(c, "onopen")
  /\ UNCHANGED <<sock, endp, timers, closing, writes, broadcast, called, fault>>

OnOpen(c) ==
  /\ fault = "none" /\ phase[c] = "onopen"
  /\ called' = [called EXCEPT ![c] = "onopen"]
  /\ Issue(c, "header")
  /\ UNCHANGED <<sock, endp, timers, closing, writes, connections, broadcast, fault>>

-----------------------------------------------------------------------------
\* read_message and read_message_content: any failed read is a connection_error.

\* Variant with a mistake: the branch that calls connection_error is missing.
ReadFailsSilently(c, p) ==
  Handler(c, p, "fail") /\ Goto(c, "free") /\ UNCHANGED <<idle, connections, fault>>

ReadFails(c, p) == Handler(c, p, "fail") /\ Unregister(c, "onerror")

\* The first two bytes: not masked, a short length, or a longer one to read.
HeaderRead(c) ==
  /\ \/ ReadFails(c, "header")
     \/ /\ Handler(c, "header", "ok")
        /\ StartClose(c) \/ Issue(c, "length") \/ Issue(c, "content")
        /\ UNCHANGED <<idle, connections, fault>>
  /\ UNCHANGED <<sock, endp, req, closing, writes, broadcast, called>>

LengthRead(c) ==
  /\ \/ ReadFails(c, "length")
     \/ /\ Handler(c, "length", "ok") /\ Issue(c, "content")
        /\ UNCHANGED <<idle, connections, fault>>
  /\ UNCHANGED <<sock, endp, req, closing, writes, broadcast, called>>

\* The frame is a Close, a ping (answered by a pong), or goes to onmessage.
ContentRead(c) ==
  /\ \/ ReadFails(c, "content") /\ UNCHANGED writes
     \/ /\ Handler(c, "content", "ok")
        /\ \/ StartClose(c) /\ UNCHANGED writes
           \/ Send(c) /\ Issue(c, "header")
           \/ Goto(c, "onmessage") /\ UNCHANGED writes
        /\ UNCHANGED <<idle, connections, fault>>
  /\ UNCHANGED <<sock, endp, req, closing, broadcast, called>>

\* A copy, made under connections_mutex.
GetConnections(e) == connections[e]

\* The application answers, does not, or sends to every connection of its
\* endpoint.
OnMessage(c) ==
  /\ fault = "none" /\ phase[c] = "onmessage"
  /\ called' = [called EXCEPT ![c] = "onmessage"]
  /\ \/ Issue(c, "header") /\ UNCHANGED <<writes, snap>>
     \/ Issue(c, "header") /\ Send(c) /\ UNCHANGED snap
     \/ /\ Broadcasts
        /\ snap' = [snap EXCEPT ![c] = GetConnections(endp[c])]
        /\ Goto(c, "broadcast") /\ UNCHANGED writes
  /\ UNCHANGED <<sock, endp, timers, closing, connections, to, fault>>

\* Variant with a mistake: the result of expires_from_now is not looked at.
SendToAlwaysRearms(c, d) ==
  /\ idle' = [idle EXCEPT ![d] = "rearming"]
  /\ to' = [to EXCEPT ![c] = d]
  /\ Goto(c, "rearm")
  /\ UNCHANGED <<writes, snap, fault>>

\* send, by the handler of c, to a connection d.  timer_idle_reset:
\* expires_from_now takes back a wait that is still armed, and only then is
\* the timer armed again, in the next action.
SendTo(c, d) ==
  CASE NullTimer(d) ->
         fault' = "null" /\ UNCHANGED <<chain, idle, writes, broadcast>>
    [] idle[d] = "armed" ->
         /\ idle' = [idle EXCEPT ![d] = "rearming"]
         /\ to' = [to EXCEPT ![c] = d]
         /\ Goto(c, "rearm")
         /\ UNCHANGED <<writes, snap, fault>>
    [] OTHER ->
         /\ Send(d)
         /\ snap' = [snap EXCEPT ![c] = @ \ {d}]
         /\ UNCHANGED <<chain, idle, to, fault>>

BroadcastSend(c) ==
  /\ fault = "none" /\ phase[c] = "broadcast"
  /\ \E d \in snap[c] : SendTo(c, d)
  /\ UNCHANGED <<sock, endp, req, closing, connections, called>>

BroadcastRearm(c) ==
  /\ fault = "none" /\ phase[c] = "rearm"
  /\ idle' = [idle EXCEPT ![to[c]] = "armed"]
  /\ Send(to[c])
  /\ snap' = [snap EXCEPT ![c] = @ \ {to[c]}]
  /\ to' = [to EXCEPT ![c] = c]
  /\ Goto(c, "broadcast")
  /\ UNCHANGED <<sock, endp, req, closing, connections, called, fault>>

BroadcastEnd(c) ==
  /\ fault = "none" /\ phase[c] = "broadcast" /\ snap[c] = {}
  /\ Issue(c, "header")
  /\ UNCHANGED <<sock, endp, timers, closing, writes, connections, broadcast, called, fault>>

-----------------------------------------------------------------------------
\* The close and error paths, and the idle timer's handler.

\* Variant with a mistake: no return after the Close, the next frame is read.
CloseSendNoReturn(c) ==
  /\ fault = "none" /\ phase[c] = "closing"
  /\ SendClose(c)
  /\ Issue(c, "header")
  /\ UNCHANGED <<sock, endp, timers, connections, broadcast, called, fault>>

CloseSend(c) ==
  /\ fault = "none" /\ phase[c] = "closing"
  /\ SendClose(c)
  /\ Goto(c, "unregister")
  /\ UNCHANGED <<sock, endp, timers, connections, broadcast, called, fault>>

CloseUnregister(c) ==
  /\ fault = "none" /\ phase[c] = "unregister"
  /\ Unregister(c, "onclose")
  /\ UNCHANGED <<sock, endp, req, closing, writes, broadcast, called>>

\* Variant with a mistake: no return after connection_close.
OnCloseNoReturn(c) ==
  /\ fault = "none" /\ phase[c] = "onclose"
  /\ called' = [called EXCEPT ![c] = "onclose"]
  /\ Issue(c, "header")
  /\ UNCHANGED <<sock, endp, timers, closing, writes, connections, broadcast, fault>>

\* The callback that ends the chain: nothing further is read for c.
OnClose(c) ==
  /\ fault = "none" /\ phase[c] = "onclose"
  /\ called' = [called EXCEPT ![c] = "onclose"]
  /\ Goto(c, "free")
  /\ UNCHANGED <<sock, endp, timers, closing, writes, connections, broadcast, fault>>

OnError(c) ==
  /\ fault = "none" /\ phase[c] = "onerror"
  /\ called' = [called EXCEPT ![c] = "onerror"]
  /\ Goto(c, "free")
  /\ UNCHANGED <<sock, endp, timers, closing, writes, connections, broadcast, fault>>

IdleTimeout(c) ==
  /\ fault = "none" /\ FreeThread /\ idle[c] = "queued"
  /\ idle' = [idle EXCEPT ![c] = IF closed[c] THEN "fired" ELSE "closing"]
  /\ UNCHANGED <<chain, sock, endp, req, closing, writes, connections, broadcast, called, fault>>

IdleClose(c) ==
  /\ fault = "none" /\ idle[c] = "closing"
  /\ SendClose(c)
  /\ idle' = [idle EXCEPT ![c] = "fired"]
  /\ UNCHANGED <<chain, sock, endp, req, connections, broadcast, called, fault>>

-----------------------------------------------------------------------------
Chain(c) ==
  \/ RequestRead(c) \/ HandshakeWritten(c) \/ Register(c) \/ OnOpen(c)
  \/ HeaderRead(c) \/ LengthRead(c) \/ ContentRead(c) \/ OnMessage(c)
  \/ BroadcastSend(c) \/ BroadcastRearm(c) \/ BroadcastEnd(c)
  \/ CloseSend(c) \/ CloseUnregister(c) \/ OnClose(c) \/ OnError(c)
Timer(c) == RequestTimeout(c) \/ IdleTimeout(c) \/ IdleClose(c)
Environment(c) ==
  PeerReset(c) \/ Complete(c) \/ WriteDone(c) \/ RequestExpire(c) \/ IdleExpire(c)

Next == \E c \in Conn : Accept(c) \/ Chain(c) \/ Timer(c) \/ Environment(c)

Spec == Init /\ [][Next]_vars

\* io_service serves its queue in order, so a handler that is ready again and
\* again is run; the request timer expires; an operation on a socket that is
\* no longer open completes.  Nobody obliges the peer to send anything.
Fairness == \A c \in Conn :
  /\ SF_vars(Chain(c)) /\ SF_vars(Timer(c))
  /\ WF_vars(RequestExpire(c))
  /\ WF_vars(sock[c] # "open" /\ Complete(c))

FairSpec == Spec /\ Fairness

-----------------------------------------------------------------------------
\* Properties.

\* The registry and the chains agree: a connection is registered with the
\* endpoint it asked for, and with no other, exactly from the insert of
\* connection_open (494) to the erase of connection_close or
\* connection_error (506, 516).
Serving == {"onopen", "header", "length", "content", "onmessage", "broadcast",
            "rearm", "closing", "unregister"}
RegistryMatchesChains ==
  \A c \in Conn, e \in Endpoint :
    c \in connections[e] <=> phase[c] \in Serving /\ endp[c] = e

\* No send or callback path finds timer_idle unconstructed, though a copy of
\* the registry is used while the connections in it are closed on another
\* thread or have not had onopen yet, save the one of a handshake that cannot
\* be written (329 leads to 539 before 526 has run).
NullTimerOnlyInHandshake ==
  fault = "null" => TimeoutIdle /\ \E c \in Conn : phase[c] = "respond" /\ res[c] = "fail"

\* A connection whose chain has ended is not kept alive by its idle timer,
\* so its Connection is freed (or it is, once the timer handler has run).
\* Two threads may break this by a send from a broadcast that re-arms the
\* timer (534) after connection_close has cancelled it (503).
NoArmedTimerLeftBehind ==
  \A c \in Conn : phase[c] \in {"free", "onclose", "onerror"} =>
                    idle[c] \notin {"armed", "rearming"}

\* "Send close only once (in case close is initiated by server)" (189).
CloseSentOnce == \A c \in Conn : closes[c] <= 1

\* Once a Close frame is sent, send puts nothing more on the connection:
\* neither data nor a second Close.
NothingSentAfterClose ==
  [][\A c \in Conn : writes'[c] > writes[c] => closes[c] = 0]_vars

\* The idle timer of a Connection runs its handler at most once: after it has
\* expired, no reset of its own chain or of a broadcast on another thread arms
\* it again (expires_from_now returns 0, 533).
IdleFiresOnce ==
  [][\A c \in Conn : idle[c] \in {"queued", "closing", "fired"} =>
       idle'[c] \in {"queued", "closing", "fired"} \/ Accept(c)]_vars

\* "Set timeout on the following boost::asio::async-read or write function"
\* (264): the request timer closes the socket of a connection only while the
\* read of the request is outstanding.
TimeoutOnlyDuringRequest ==
  [][\A c \in Conn : sock[c] = "open" /\ sock'[c] = "closed" =>
       phase[c] \in {"request", "free"}]_vars

\* The callbacks an endpoint sees are those of the abstract specification.
Callbacks == INSTANCE EndpointCallbacks
CallbackOrder == Callbacks!Spec

\* A client that connects and never completes its request is given up: its
\* chain gets past the read, or the process dies first, of the exception of
\* shutdown (250) or of the one of substr (293).
RequestEnds ==
  \A c \in Conn : phase[c] = "request" ~>
                    phase[c] # "request" \/ fault \in {"shutdown", "parse"}

\* A registered connection whose socket is dead leaves the registry, unless
\* the process dies first, of one of these exceptions.
DeadIsUnregistered ==
  \A c \in Conn : Registered(c) /\ sock[c] # "open" ~>
                    ~Registered(c) \/ fault \in {"shutdown", "parse"}
=============================================================================
