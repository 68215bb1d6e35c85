-------------------------- MODULE SocketServerProofs --------------------------
(***************************************************************************)
(* Theorems about SocketServer, for every set of connections and           *)
(* endpoints, every number of threads and every setting of the timeouts.   *)
(***************************************************************************)
EXTENDS SocketServer, FiniteSetTheorems, TLAPS

\* The tuples that UNCHANGED ranges over.
USE DEF vars, chain, timers, closing, broadcast

-----------------------------------------------------------------------------
\* Every variable keeps its type: in particular Endpoint::connections holds
\* connections only and the counters of frames and writes never go negative.
\* The copy that a broadcast takes is typed because a chain that got past the
\* request was given an endpoint.
EndpointMatched ==
  \A c \in Conn : phase[c] \notin {"free", "request"} => endp[c] \in Endpoint

TypeInv == TypeOK /\ EndpointMatched

LEMMA TypeInit == Init => TypeInv
BY DEF Init, TypeInv, TypeOK, EndpointMatched, Phase, IdleTimer

LEMMA UnregisterType ==
  ASSUME TypeOK, NEW c \in Conn, NEW p \in Phase, Unregister(c, p)
  PROVE  /\ phase' \in [Conn -> Phase]
         /\ res' \in [Conn -> {"pending", "ok", "fail"}]
         /\ idle' \in [Conn -> IdleTimer]
         /\ connections' \in [Endpoint -> SUBSET Conn]
         /\ fault' \in {"none", "null", "shutdown", "parse"}
<1>1. CASE NullTimer(c)
  BY <1>1 DEF Unregister, TypeOK
<1>2. CASE ~NullTimer(c)
  BY <1>2, SMTT(30) DEF Unregister, Goto, TypeOK, IdleTimer
<1> QED
  BY <1>1, <1>2

\* A read that fails, and one that goes on.
LEMMA ReadType ==
  ASSUME TypeOK, NEW c \in Conn, NEW p, ReadFails(c, p)
  PROVE  /\ phase' \in [Conn -> Phase]
         /\ res' \in [Conn -> {"pending", "ok", "fail"}]
         /\ idle' \in [Conn -> IdleTimer]
         /\ connections' \in [Endpoint -> SUBSET Conn]
         /\ fault' \in {"none", "null", "shutdown", "parse"}
<1>1. "onerror" \in Phase
  BY DEF Phase, Running
<1> QED
  BY <1>1, UnregisterType DEF ReadFails

LEMMA MoveType ==
  ASSUME TypeOK, NEW c \in Conn, NEW p \in Phase, Goto(c, p) \/ Issue(c, p)
  PROVE  /\ phase' \in [Conn -> Phase]
         /\ res' \in [Conn -> {"pending", "ok", "fail"}]
BY DEF Goto, Issue, TypeOK

LEMMA SendType ==
  ASSUME TypeOK, NEW c \in Conn, Send(c)
  PROVE  writes' \in [Conn -> Nat]
BY DEF Send, TypeOK

LEMMA ChainTypeOK ==
  ASSUME TypeInv, NEW c \in Conn, Chain(c)
  PROVE  TypeOK'
<1> TypeOK
  BY DEF TypeInv
<1>0. /\ {"free", "respond", "header", "length", "content"} \subseteq Phase
      /\ Running \subseteq Phase
      /\ \A p \in Phase : StartClose(c) => \E q \in Phase : Goto(c, q)
  BY DEF Phase, Pending, Running, StartClose
<1>1. CASE RequestRead(c)
  <2>1. endp' \in [Conn -> Endpoint \cup {NoEndpoint}]
    BY <1>1 DEF RequestRead, TypeOK
  <2>2. req' \in [Conn -> {"off", "armed", "expired"}]
    BY <1>1 DEF RequestRead, TypeOK
  <2>3. UNCHANGED chain \/ \E p \in Phase : Goto(c, p) \/ Issue(c, p)
    BY <1>0, <1>1 DEF RequestRead
  <2>4. /\ phase' \in [Conn -> Phase]
        /\ res' \in [Conn -> {"pending", "ok", "fail"}]
    BY <2>3, MoveType DEF TypeOK
  <2>5. fault' \in {"none", "null", "shutdown", "parse"}
    BY <1>1 DEF RequestRead, TypeOK
  <2> QED
    BY <1>1, <2>1, <2>2, <2>4, <2>5 DEF RequestRead, TypeOK
<1>2. CASE HandshakeWritten(c)
  <2>1. CASE Unregister(c, "onerror")
    BY <1>0, <1>2, <2>1, UnregisterType DEF HandshakeWritten, Running, TypeOK
  <2>2. CASE /\ Goto(c, "register")
             /\ idle' = [idle EXCEPT ![c] = IF TimeoutIdle THEN "armed" ELSE @]
             /\ UNCHANGED <<connections, fault>>
    <3>1. idle' \in [Conn -> IdleTimer]
      BY <2>2 DEF TypeOK, IdleTimer
    <3> QED
      BY <1>0, <1>2, <2>2, <3>1, MoveType DEF HandshakeWritten, Running, TypeOK
  <2> QED
    BY <1>2, <2>1, <2>2 DEF HandshakeWritten
<1>3. CASE Register(c)
  <2>1. connections' \in [Endpoint -> SUBSET Conn]
    BY <1>3 DEF Register, TypeOK
  <2> QED
    BY <1>0, <1>3, <2>1, MoveType DEF Register, Running, TypeOK
<1>4. CASE OnOpen(c) \/ OnClose(c) \/ OnError(c)
  <2>1. called' \in [Conn -> {"none", "onopen", "onmessage", "onclose", "onerror"}]
    BY <1>4 DEF OnOpen, OnClose, OnError, TypeOK
  <2> QED
    BY <1>0, <1>4, <2>1, MoveType DEF OnOpen, OnClose, OnError, TypeOK
<1>5. CASE HeaderRead(c)
  <2>1. CASE ReadFails(c, "header")
    BY <1>5, <2>1, ReadType DEF HeaderRead, TypeOK
  <2>2. CASE ~ReadFails(c, "header")
    <3>1. \E p \in Phase : Goto(c, p) \/ Issue(c, p)
      BY <1>0, <1>5, <2>2 DEF HeaderRead
    <3> QED
      BY <1>5, <2>2, <3>1, MoveType DEF HeaderRead, TypeOK
  <2> QED
    BY <2>1, <2>2
<1>6. CASE LengthRead(c)
  <2>1. CASE ReadFails(c, "length")
    BY <1>6, <2>1, ReadType DEF LengthRead, TypeOK
  <2>2. CASE ~ReadFails(c, "length")
    BY <1>0, <1>6, <2>2, MoveType DEF LengthRead, TypeOK
  <2> QED
    BY <2>1, <2>2
<1>7. CASE ContentRead(c)
  <2>1. CASE ReadFails(c, "content")
    BY <1>7, <2>1, ReadType DEF ContentRead, ReadFails, Handler, TypeOK
  <2>2. CASE ~ReadFails(c, "content")
    <3>1. \E p \in Phase : Goto(c, p) \/ Issue(c, p)
      BY <1>0, <1>7, <2>2 DEF ContentRead, Running
    <3>2. writes' \in [Conn -> Nat]
      BY <1>7, <2>2, SendType DEF ContentRead, TypeOK
    <3> QED
      BY <1>7, <2>2, <3>1, <3>2, MoveType DEF ContentRead, TypeOK
  <2> QED
    BY <2>1, <2>2
<1>8. CASE OnMessage(c)
  <2>1. called' \in [Conn -> {"none", "onopen", "onmessage", "onclose", "onerror"}]
    BY <1>8 DEF OnMessage, TypeOK
  <2>2. writes' \in [Conn -> Nat]
    BY <1>8, SendType DEF OnMessage, TypeOK
  <2>3. snap' \in [Conn -> SUBSET Conn]
    <3>1. connections[endp[c]] \in SUBSET Conn
      BY <1>8 DEF OnMessage, TypeInv, TypeOK, EndpointMatched
    <3> QED
      BY <1>8, <3>1 DEF OnMessage, GetConnections, TypeOK
  <2>4. \E p \in Phase : Goto(c, p) \/ Issue(c, p)
    BY <1>0, <1>8 DEF OnMessage, Running
  <2> QED
    BY <1>8, <2>1, <2>2, <2>3, <2>4, MoveType DEF OnMessage, TypeOK
<1>9. CASE BroadcastSend(c)
  <2> PICK d \in snap[c] : SendTo(c, d)
    BY <1>9 DEF BroadcastSend
  <2> d \in Conn
    BY DEF TypeOK
  <2>1. CASE NullTimer(d)
    BY <1>9, <2>1 DEF BroadcastSend, SendTo, NullTimer, TypeOK
  <2>2. CASE ~NullTimer(d) /\ idle[d] = "armed"
    <3>1. /\ idle' = [idle EXCEPT ![d] = "rearming"]
          /\ to' = [to EXCEPT ![c] = d]
      BY <2>2 DEF SendTo
    <3>2. idle' \in [Conn -> IdleTimer] /\ to' \in [Conn -> Conn]
      BY <3>1 DEF TypeOK, IdleTimer
    <3> QED
      BY <1>0, <1>9, <2>2, <3>2, MoveType DEF BroadcastSend, SendTo, Running, TypeOK
  <2>3. CASE ~NullTimer(d) /\ idle[d] # "armed"
    <3>1. /\ writes' \in [Conn -> Nat]
          /\ snap' \in [Conn -> SUBSET Conn]
      BY <2>3, SendType DEF SendTo, TypeOK
    <3> QED
      BY <1>9, <2>3, <3>1 DEF BroadcastSend, SendTo, TypeOK
  <2> QED
    BY <2>1, <2>2, <2>3
<1>10. CASE BroadcastRearm(c)
  <2>0. to[c] \in Conn
    BY DEF TypeOK
  <2>1. /\ idle' \in [Conn -> IdleTimer]
        /\ writes' \in [Conn -> Nat]
        /\ snap' \in [Conn -> SUBSET Conn]
        /\ to' \in [Conn -> Conn]
    BY <1>10, <2>0, SendType DEF BroadcastRearm, TypeOK, IdleTimer
  <2> QED
    BY <1>0, <1>10, <2>1, MoveType DEF BroadcastRearm, Running, TypeOK
<1>11. CASE BroadcastEnd(c)
  BY <1>0, <1>11, MoveType DEF BroadcastEnd, TypeOK
<1>12. CASE CloseSend(c)
  <2>1. /\ closed' \in [Conn -> BOOLEAN]
        /\ closes' \in [Conn -> Nat]
        /\ writes' \in [Conn -> Nat]
    BY <1>12 DEF CloseSend, SendClose, TypeOK
  <2> QED
    BY <1>0, <1>12, <2>1, MoveType DEF CloseSend, Running, TypeOK
<1>13. CASE CloseUnregister(c)
  BY <1>0, <1>13, UnregisterType DEF CloseUnregister, Running, TypeOK
<1> QED
  BY <1>1, <1>2, <1>3, <1>4, <1>5, <1>6, <1>7, <1>8, <1>9, <1>10, <1>11,
     <1>12, <1>13 DEF Chain

\* The chain leaves the request with an endpoint, which stays what it is.
LEMMA ChainEndpointMatched ==
  ASSUME TypeInv, NEW c \in Conn, Chain(c)
  PROVE  EndpointMatched'
<1> USE DEF TypeInv, TypeOK, EndpointMatched
<1>1. CASE RequestRead(c)
  BY <1>1 DEF RequestRead, Goto, Issue
<1>2. CASE ~RequestRead(c)
  <2>1. endp' = endp /\ phase[c] \notin {"free", "request"}
    BY <1>2 DEF Chain, HandshakeWritten, Register, OnOpen, HeaderRead, LengthRead, ContentRead,
                OnMessage, BroadcastSend, BroadcastRearm, BroadcastEnd, CloseSend,
                CloseUnregister, OnClose, OnError, ReadFails, Handler
  <2>2. \A d \in Conn \ {c} : phase'[d] = phase[d]
    BY <1>2 DEF Chain, HandshakeWritten, Register, OnOpen, HeaderRead, LengthRead, ContentRead,
                OnMessage, BroadcastSend, BroadcastRearm, BroadcastEnd, CloseSend,
                CloseUnregister, OnClose, OnError, ReadFails, Unregister, SendTo, StartClose,
                Goto, Issue
  <2> QED
    BY <2>1, <2>2
<1> QED
  BY <1>1, <1>2

LEMMA TypeNext == TypeInv /\ [Next]_vars => TypeInv'
<1> SUFFICES ASSUME TypeInv, [Next]_vars PROVE TypeInv'
  OBVIOUS
<1> USE DEF TypeInv
<1>1. ASSUME NEW c \in Conn, Accept(c) PROVE TypeInv'
  <2>1. TypeOK'
    BY <1>1 DEF Accept, Issue, TypeOK, Phase, Pending, IdleTimer
  <2>2. EndpointMatched'
    BY <1>1 DEF Accept, Issue, TypeOK, EndpointMatched
  <2> QED
    BY <2>1, <2>2
<1>2. ASSUME NEW c \in Conn, Chain(c) PROVE TypeInv'
  <2>1. TypeOK'
    BY <1>2, ChainTypeOK
  <2>2. EndpointMatched'
    BY <1>2, ChainEndpointMatched
  <2> QED
    BY <2>1, <2>2
<1>3. ASSUME NEW c \in Conn, Timer(c) PROVE TypeInv'
  <2>1. CASE RequestTimeout(c)
    BY <2>1 DEF RequestTimeout, TypeOK, EndpointMatched
  <2>2. CASE IdleTimeout(c)
    BY <2>2 DEF IdleTimeout, TypeOK, EndpointMatched, IdleTimer
  <2>3. CASE IdleClose(c)
    BY <2>3 DEF IdleClose, SendClose, TypeOK, EndpointMatched, IdleTimer
  <2> QED
    BY <1>3, <2>1, <2>2, <2>3 DEF Timer
<1>4. ASSUME NEW c \in Conn, Environment(c) PROVE TypeInv'
  BY <1>4 DEF Environment, PeerReset, Complete, WriteDone, RequestExpire,
              IdleExpire, TypeOK, EndpointMatched, IdleTimer
<1>5. CASE UNCHANGED vars
  BY <1>5 DEF TypeOK, EndpointMatched
<1> QED
  BY <1>1, <1>2, <1>3, <1>4, <1>5 DEF Next

LEMMA TypeInvariant == Spec => []TypeInv
BY TypeInit, TypeNext, PTL DEF Spec

THEOREM TypeCorrect == Spec => []TypeOK
BY TypeInvariant, PTL DEF TypeInv

-----------------------------------------------------------------------------
\* The registry of an endpoint holds the connections its chains serve.

\* A handler moves its own chain only.
LEMMA OtherChains ==
  ASSUME TypeInv, NEW c \in Conn, Chain(c)
  PROVE  /\ phase' \in [Conn -> Phase]
         /\ \A d \in Conn \ {c} : phase'[d] = phase[d]
<1>1. phase' \in [Conn -> Phase]
  BY ChainTypeOK DEF TypeOK
<1>2. \A d \in Conn \ {c} : phase'[d] = phase[d]
  BY DEF TypeInv, TypeOK, Chain, RequestRead, HandshakeWritten, Register, OnOpen, HeaderRead,
         LengthRead, ContentRead, OnMessage, BroadcastSend, BroadcastRearm, BroadcastEnd,
         CloseSend, CloseUnregister, OnClose, OnError, ReadFails, Unregister, SendTo,
         StartClose, Goto, Issue
<1> QED
  BY <1>1, <1>2

\* The actions in which connection_close or connection_error takes c out.
Leaving(c) == \/ HandshakeWritten(c) /\ Unregister(c, "onerror")
              \/ (HeaderRead(c) \/ LengthRead(c) \/ ContentRead(c)) /\ Unregister(c, "onerror")
              \/ CloseUnregister(c) /\ Unregister(c, "onclose")

\* Every step of a chain enters the registry, leaves it, or stays on its side.
LEMMA ChainCases ==
  ASSUME TypeInv, NEW c \in Conn, Chain(c)
  PROVE  \/ RequestRead(c)
         \/ Register(c)
         \/ Leaving(c)
         \/ /\ phase[c] \notin Serving /\ phase'[c] \notin Serving
            /\ UNCHANGED <<endp, connections>>
         \/ /\ phase[c] \in Serving /\ phase'[c] \in Serving
            /\ UNCHANGED <<endp, connections>>
<1> USE DEF TypeInv, TypeOK, Serving, Goto, Issue
<1>1. CASE HandshakeWritten(c)
  BY <1>1 DEF HandshakeWritten, Leaving, Handler
<1>2. CASE HeaderRead(c) \/ LengthRead(c) \/ ContentRead(c)
  BY <1>2 DEF HeaderRead, LengthRead, ContentRead, ReadFails, Leaving, Handler, StartClose
<1>3. CASE OnOpen(c) \/ OnMessage(c) \/ BroadcastRearm(c) \/ BroadcastEnd(c)
  BY <1>3 DEF OnOpen, OnMessage, BroadcastRearm, BroadcastEnd
<1>4. CASE BroadcastSend(c)
  BY <1>4 DEF BroadcastSend, SendTo
<1>5. CASE CloseSend(c) \/ OnClose(c) \/ OnError(c)
  BY <1>5 DEF CloseSend, OnClose, OnError
<1>6. CASE CloseUnregister(c)
  BY <1>6 DEF CloseUnregister, Leaving
<1> QED
  BY <1>1, <1>2, <1>3, <1>4, <1>5, <1>6 DEF Chain

LEMMA RegistryNext ==
  ASSUME TypeInv, RegistryMatchesChains, [Next]_vars
  PROVE  RegistryMatchesChains'
<1> USE DEF TypeInv, TypeOK, RegistryMatchesChains
<1>1. ASSUME NEW c \in Conn, Accept(c) PROVE RegistryMatchesChains'
  BY <1>1 DEF Accept, Referenced, Issue, Serving
<1>2. ASSUME NEW c \in Conn, Chain(c) PROVE RegistryMatchesChains'
  <2> USE <1>2, OtherChains
  <2>1. CASE RequestRead(c)
    <3>1. phase[c] \notin Serving /\ phase'[c] \notin Serving
      BY <2>1 DEF RequestRead, Handler, Serving, Goto, Issue
    <3> QED
      BY <2>1, <3>1 DEF RequestRead
  <2>2. CASE Register(c)
    <3>1. phase[c] \notin Serving /\ phase'[c] \in Serving
      BY <2>2 DEF Register, Serving, Goto
    <3>2. endp[c] \in Endpoint
      BY <2>2 DEF Register, EndpointMatched
    <3> QED
      BY <2>2, <3>1, <3>2 DEF Register
  <2>3. CASE Leaving(c)
    <3> PICK p \in {"onclose", "onerror"} : Unregister(c, p) /\ UNCHANGED endp
      BY <2>3 DEF Leaving, HandshakeWritten, HeaderRead, LengthRead, ContentRead, CloseUnregister
    <3>1. CASE NullTimer(c)
      BY <3>1 DEF Unregister
    <3>2. CASE ~NullTimer(c)
      <4>1. phase'[c] \notin Serving
        BY <3>2 DEF Unregister, Goto, Serving
      <4>2. connections' = [connections EXCEPT ![endp[c]] = @ \ {c}]
        BY <3>2 DEF Unregister
      <4>3. phase[c] \notin {"free", "request"}
        BY <2>3 DEF Leaving, HandshakeWritten, HeaderRead, LengthRead, ContentRead,
                    CloseUnregister, ReadFails, Handler
      <4>4. endp[c] \in Endpoint
        BY <4>3 DEF EndpointMatched
      <4> QED
        BY <4>1, <4>2, <4>4
    <3> QED
      BY <3>1, <3>2
  <2>4. CASE UNCHANGED <<endp, connections>> /\ (phase[c] \in Serving <=> phase'[c] \in Serving)
    BY <2>4
  <2> QED
    BY <2>1, <2>2, <2>3, <2>4, ChainCases
<1>3. ASSUME NEW c \in Conn, Timer(c) \/ Environment(c) PROVE RegistryMatchesChains'
  <2>1. UNCHANGED <<phase, endp, connections>>
    BY <1>3 DEF Timer, RequestTimeout, IdleTimeout, IdleClose, Environment, PeerReset,
                Complete, WriteDone, RequestExpire, IdleExpire
  <2> QED
    BY <2>1
<1>4. CASE UNCHANGED vars
  BY <1>4
<1> QED
  BY <1>1, <1>2, <1>3, <1>4 DEF Next

\* A connection is registered with its endpoint, and with no other, exactly
\* while its chain is between the insert of connection_open and the erase of
\* connection_close or connection_error.
THEOREM RegistryCorrect == Spec => []RegistryMatchesChains
<1>1. Init => RegistryMatchesChains
  BY DEF Init, RegistryMatchesChains, Serving
<1> QED
  BY <1>1, RegistryNext, TypeInvariant, PTL DEF Spec

-----------------------------------------------------------------------------
\* The order of the callbacks.

\* What has been called for c, by the place its chain is at.
CalledMatchesPhase ==
  \A c \in Conn :
    /\ phase[c] \in {"request", "respond", "register", "onopen"} => called[c] = "none"
    /\ phase[c] \in (Serving \ {"onopen"}) \cup {"onclose"} => Callbacks!Live(c)
    /\ phase[c] = "onerror" => Callbacks!Live(c) \/ called[c] = "none"
    /\ phase[c] = "free" => ~Callbacks!Live(c)

LEMMA ChainCalls ==
  ASSUME TypeInv, CalledMatchesPhase, NEW c \in Conn, Chain(c)
  PROVE  CalledMatchesPhase' /\ [Callbacks!Next]_called
<1> USE DEF TypeInv, TypeOK, CalledMatchesPhase, Serving, Callbacks!Live, Goto, Issue
<1>0. \A d \in Conn \ {c} : phase'[d] = phase[d]
  BY OtherChains
<1>1. CASE RequestRead(c)
  BY <1>0, <1>1 DEF RequestRead, Handler
<1>2. CASE Leaving(c)
  <2>1. called' = called
    BY <1>2 DEF Leaving, HandshakeWritten, HeaderRead, LengthRead, ContentRead, CloseUnregister
  <2>2. \/ phase' = phase
        \/ phase'[c] = "onclose" /\ phase[c] = "unregister"
        \/ phase'[c] = "onerror" /\ phase[c] \in {"respond", "header", "length", "content"}
    BY <1>2 DEF Leaving, HandshakeWritten, HeaderRead, LengthRead, ContentRead, CloseUnregister,
                ReadFails, Handler, Unregister
  <2> QED
    BY <1>0, <2>1, <2>2
<1>3. CASE HandshakeWritten(c) \/ Register(c)
  BY <1>0, <1>3, <1>2 DEF HandshakeWritten, Handler, Leaving, Register
<1>4. CASE OnOpen(c)
  <2>1. Callbacks!Open(c)
    BY <1>4 DEF OnOpen, Callbacks!Open
  <2> QED
    BY <1>0, <1>4, <2>1 DEF OnOpen, Callbacks!Next
<1>5. CASE HeaderRead(c) \/ LengthRead(c) \/ ContentRead(c)
  BY <1>0, <1>2, <1>5 DEF HeaderRead, LengthRead, ContentRead, Handler, ReadFails, Leaving, StartClose
<1>6. CASE OnMessage(c)
  <2>1. Callbacks!Message(c)
    BY <1>6 DEF OnMessage, Callbacks!Message
  <2>2. phase'[c] \in {"header", "broadcast"}
    BY <1>6 DEF OnMessage
  <2> QED
    BY <1>0, <1>6, <2>1, <2>2 DEF OnMessage, Callbacks!Next
<1>7. CASE BroadcastSend(c)
  BY <1>0, <1>7 DEF BroadcastSend, SendTo
<1>8. CASE BroadcastRearm(c) \/ BroadcastEnd(c) \/ CloseSend(c)
  BY <1>0, <1>8 DEF BroadcastRearm, BroadcastEnd, CloseSend
<1>9. CASE CloseUnregister(c)
  BY <1>2, <1>9 DEF CloseUnregister, Leaving
<1>10. CASE OnClose(c)
  <2>1. Callbacks!Close(c)
    BY <1>10 DEF OnClose, Callbacks!Close
  <2> QED
    BY <1>0, <1>10, <2>1 DEF OnClose, Callbacks!Next
<1>11. CASE OnError(c)
  <2>1. Callbacks!Error(c)
    BY <1>11 DEF OnError, Callbacks!Error
  <2> QED
    BY <1>0, <1>11, <2>1 DEF OnError, Callbacks!Next
<1> QED
  BY <1>1, <1>3, <1>4, <1>5, <1>6, <1>7, <1>8, <1>9, <1>10, <1>11 DEF Chain

LEMMA CalledNext ==
  ASSUME TypeInv, CalledMatchesPhase, [Next]_vars
  PROVE  CalledMatchesPhase' /\ [Callbacks!Next]_called
<1> USE DEF TypeInv, TypeOK, CalledMatchesPhase, Serving, Callbacks!Live
<1>1. ASSUME NEW c \in Conn, Accept(c) PROVE CalledMatchesPhase' /\ [Callbacks!Next]_called
  <2>1. phase[c] = "free"
    BY <1>1 DEF Accept, Referenced
  <2>2. Callbacks!Reuse(c)
    BY <1>1, <2>1 DEF Accept, Callbacks!Reuse
  <2>3. CalledMatchesPhase'
    BY <1>1 DEF Accept, Issue
  <2> QED
    BY <2>2, <2>3 DEF Callbacks!Next
<1>2. ASSUME NEW c \in Conn, Timer(c) \/ Environment(c)
      PROVE  CalledMatchesPhase' /\ [Callbacks!Next]_called
  <2>1. UNCHANGED <<phase, called>>
    BY <1>2 DEF Timer, RequestTimeout, IdleTimeout, IdleClose, Environment, PeerReset,
                Complete, WriteDone, RequestExpire, IdleExpire
  <2> QED
    BY <2>1
<1>3. CASE UNCHANGED vars
  BY <1>3
<1> QED
  BY <1>1, <1>2, <1>3, ChainCalls DEF Next

\* SocketServer implements EndpointCallbacks: onopen before the messages,
\* one of onclose and onerror last, and no address given to a new Connection
\* between the two.
THEOREM CallbacksImplemented == Spec => CallbackOrder
<1>1. Init => Callbacks!Init /\ CalledMatchesPhase
  BY DEF Init, Callbacks!Init, CalledMatchesPhase, Callbacks!Live, Serving
<1>2. TypeInv /\ CalledMatchesPhase /\ [Next]_vars
        => CalledMatchesPhase' /\ [Callbacks!Next]_called
  BY CalledNext
<1> QED
  BY <1>1, <1>2, TypeInvariant, PTL DEF Spec, CallbackOrder, Callbacks!Spec

-----------------------------------------------------------------------------
\* timer_idle is constructed before anyone can find the connection.

TimerConstructed ==
  TimeoutIdle =>
    /\ \A c \in Conn : phase[c] \in Serving \cup {"register"} => idle[c] # "null"
    /\ \A c \in Conn : \A d \in snap[c] : idle[d] # "null"

TimerInv == TimerConstructed /\ NullTimerOnlyInHandshake

\* No handler destroys the timer, and only a copy of the registry adds to snap.
LEMMA TimerKept ==
  ASSUME TypeInv, NEW c \in Conn, Chain(c) \/ Timer(c) \/ Environment(c)
  PROVE  /\ \A d \in Conn : idle[d] # "null" => idle'[d] # "null"
         /\ \A d \in Conn : snap'[d] \subseteq snap[d] \/ OnMessage(c)
<1> USE DEF TypeInv, TypeOK
<1>1. CASE Timer(c) \/ Environment(c)
  BY <1>1 DEF Timer, RequestTimeout, IdleTimeout, IdleClose, Environment, PeerReset,
              Complete, WriteDone, RequestExpire, IdleExpire
<1>2. CASE BroadcastSend(c)
  BY <1>2 DEF BroadcastSend, SendTo
<1>3. CASE BroadcastRearm(c)
  BY <1>3 DEF BroadcastRearm
<1>4. CASE Chain(c) /\ ~BroadcastSend(c) /\ ~BroadcastRearm(c)
  BY <1>4 DEF Chain, RequestRead, HandshakeWritten, Register, OnOpen, HeaderRead, LengthRead,
              ContentRead, OnMessage, BroadcastEnd, CloseSend, CloseUnregister, OnClose,
              OnError, ReadFails, Unregister, Goto, Issue
<1> QED
  BY <1>1, <1>2, <1>3, <1>4

LEMMA ChainTimerConstructed ==
  ASSUME TypeInv, RegistryMatchesChains, TimerConstructed, TimeoutIdle, NEW c \in Conn, Chain(c)
  PROVE  TimerConstructed'
<1> USE DEF TypeInv, TypeOK, TimerConstructed
<1>1. ASSUME NEW d \in Conn, phase'[d] \in Serving \cup {"register"} PROVE idle'[d] # "null"
  <2>1. CASE phase[d] \in Serving \cup {"register"}
    BY <2>1, TimerKept
  <2>2. CASE phase[d] \notin Serving \cup {"register"}
    <3>1. d = c
      BY <1>1, <2>2, OtherChains
    <3>2. HandshakeWritten(c) /\ phase'[c] = "register"
      <4>1. ~(RequestRead(c) \/ Register(c) \/ Leaving(c)) \/ HandshakeWritten(c)
        BY <1>1, <2>2, <3>1 DEF Leaving, RequestRead, Register, Handler, Goto, Issue, HeaderRead,
              LengthRead, ContentRead, CloseUnregister, ReadFails, Serving
      <4>2. HandshakeWritten(c)
        BY <1>1, <2>2, <3>1, <4>1, ChainCases DEF Chain, OnOpen, HeaderRead, LengthRead,
             ContentRead, OnMessage, BroadcastSend, BroadcastRearm, BroadcastEnd, CloseSend,
             CloseUnregister, OnClose, OnError, ReadFails, Handler, Serving, Goto
      <4> QED
        BY <1>1, <3>1, <4>2 DEF HandshakeWritten, Handler, Unregister, Goto, Serving
    <3> QED
      BY <3>1, <3>2 DEF HandshakeWritten, Handler, Unregister, Goto
  <2> QED
    BY <2>1, <2>2
<1>2. ASSUME NEW d \in Conn, NEW e \in snap'[d] PROVE idle'[e] # "null"
  <2>1. CASE e \in snap[d]
    BY <2>1, TimerKept
  <2>2. CASE e \notin snap[d]
    <3>1. OnMessage(c) /\ d = c /\ e \in connections[endp[c]]
      BY <2>2, TimerKept DEF OnMessage, GetConnections
    <3>2. endp[c] \in Endpoint
      BY <3>1 DEF OnMessage, EndpointMatched
    <3>3. phase[e] \in Serving
      BY <3>1, <3>2 DEF RegistryMatchesChains
    <3> QED
      BY <3>3, <3>2, <3>1, TimerKept
  <2> QED
    BY <2>1, <2>2
<1> QED
  BY <1>1, <1>2

LEMMA TimerNext ==
  ASSUME TypeInv, RegistryMatchesChains, TimerInv, [Next]_vars
  PROVE  TimerInv'
<1> USE DEF TypeInv, TypeOK, TimerInv
<1>1. ASSUME NEW c \in Conn, Accept(c) PROVE TimerInv'
  <2>1. /\ fault = "none" /\ fault' = fault
        /\ phase[c] = "free" /\ phase' = [phase EXCEPT ![c] = "request"]
        /\ idle' = [idle EXCEPT ![c] = "null"] /\ snap' = snap
        /\ \A d \in Conn : c \notin snap[d]
    BY <1>1 DEF Accept, Referenced, Issue
  <2> QED
    BY <2>1 DEF TimerConstructed, NullTimerOnlyInHandshake, Serving
<1>2. ASSUME NEW c \in Conn, Chain(c) PROVE TimerInv'
  <2>1. TimerConstructed'
    <3>1. CASE TimeoutIdle
      BY <1>2, <3>1, ChainTimerConstructed
    <3>2. CASE ~TimeoutIdle
      BY <3>2 DEF TimerConstructed
    <3> QED
      BY <3>1, <3>2
  <2>2. ASSUME fault' = "null" PROVE fault = "null" \/ (TimeoutIdle /\ HandshakeWritten(c) /\ phase' = phase /\ res' = res /\ res[c] = "fail" /\ phase[c] = "respond")
    <3>1. CASE BroadcastSend(c)
      BY <3>1, <2>2 DEF BroadcastSend, SendTo, NullTimer, TimerConstructed
    <3>2. CASE HandshakeWritten(c)
      BY <3>2, <2>2 DEF HandshakeWritten, Handler, Unregister, NullTimer
    <3>3. CASE HeaderRead(c) \/ LengthRead(c) \/ ContentRead(c) \/ CloseUnregister(c)
      <4>1. phase[c] \in Serving
        BY <3>3 DEF HeaderRead, LengthRead, ContentRead, CloseUnregister, ReadFails, Handler, Serving
      <4>2. ~NullTimer(c)
        BY <4>1 DEF TimerConstructed, NullTimer
      <4> QED
        BY <2>2, <3>3, <4>2 DEF HeaderRead, LengthRead, ContentRead, CloseUnregister, ReadFails, Unregister
    <3> QED
      BY <1>2, <2>2, <3>1, <3>2, <3>3 DEF Chain, RequestRead, Register, OnOpen, OnMessage, BroadcastRearm,
           BroadcastEnd, CloseSend, OnClose, OnError
  <2>3. fault = "none"
    BY <1>2 DEF Chain, RequestRead, HandshakeWritten, Register, OnOpen, HeaderRead, LengthRead,
          ContentRead, OnMessage, BroadcastSend, BroadcastRearm, BroadcastEnd, CloseSend,
          CloseUnregister, OnClose, OnError, ReadFails, Handler
  <2> QED
    BY <2>1, <2>2, <2>3 DEF NullTimerOnlyInHandshake
<1>3. ASSUME NEW c \in Conn, Timer(c) \/ Environment(c) PROVE TimerInv'
  <2>1. phase' = phase /\ snap' = snap /\ fault = "none" /\ fault' # "null"
    BY <1>3 DEF Timer, RequestTimeout, IdleTimeout, IdleClose, Environment, PeerReset,
                Complete, WriteDone, RequestExpire, IdleExpire
  <2>2. \A d \in Conn : idle[d] # "null" => idle'[d] # "null"
    BY <1>3, TimerKept
  <2> QED
    BY <2>1, <2>2 DEF TimerConstructed, NullTimerOnlyInHandshake
<1>4. CASE UNCHANGED vars
  BY <1>4 DEF TimerConstructed, NullTimerOnlyInHandshake
<1> QED
  BY <1>1, <1>2, <1>3, <1>4 DEF Next

\* However many threads send to copies of the registry, the only path that
\* finds timer_idle null is the failed write of a handshake.
THEOREM NullTimerCorrect == Spec => []NullTimerOnlyInHandshake
<1>1. Init => RegistryMatchesChains /\ TimerInv
  BY DEF Init, RegistryMatchesChains, Serving, TimerInv, TimerConstructed, NullTimerOnlyInHandshake
<1>2. TypeInv /\ RegistryMatchesChains /\ TimerInv /\ [Next]_vars
        => RegistryMatchesChains' /\ TimerInv'
  BY RegistryNext, TimerNext
<1>3. TimerInv => NullTimerOnlyInHandshake
  BY DEF TimerInv
<1> QED
  BY <1>1, <1>2, <1>3, TypeInvariant, PTL DEF Spec

-----------------------------------------------------------------------------
\* The idle timer fires once.

\* A timer taken back by a broadcast belongs to the one handler that is about
\* to arm it again; before the handshake is written there is no timer.
RearmOwned ==
  /\ \A c \in Conn : phase[c] = "rearm" => idle[to[c]] = "rearming"
  /\ \A c, d \in Conn : phase[c] = "rearm" /\ phase[d] = "rearm" /\ to[c] = to[d] => c = d
  /\ \A c \in Conn : phase[c] \in {"request", "respond"} => idle[c] = "null"

\* What a step of the chain of c, other than those that reset a timer, does
\* to the timers: it starts or cancels its own.
OwnTimer(c) ==
  /\ UNCHANGED to
  /\ phase[c] # "rearm" /\ phase'[c] # "rearm"
  /\ phase'[c] \in {"request", "respond"} => phase[c] \in {"request", "respond"} /\ UNCHANGED idle
  /\ \/ UNCHANGED idle
     \/ TimeoutIdle /\ phase[c] = "respond" /\ idle' = [idle EXCEPT ![c] = "armed"]
     \/ idle[c] = "armed" /\ idle' = [idle EXCEPT ![c] = "off"]

LEMMA ChainTimers ==
  ASSUME TypeInv, NEW c \in Conn, Chain(c)
  PROVE  BroadcastSend(c) \/ BroadcastRearm(c) \/ OwnTimer(c)
<1> USE DEF TypeInv, TypeOK, OwnTimer, Goto, Issue
<1>1. CASE RequestRead(c)
  BY <1>1 DEF RequestRead, Handler
<1>2. CASE HandshakeWritten(c)
  BY <1>2 DEF HandshakeWritten, Handler, Unregister
<1>3. CASE HeaderRead(c) \/ LengthRead(c) \/ ContentRead(c)
  BY <1>3 DEF HeaderRead, LengthRead, ContentRead, ReadFails, Handler, Unregister, StartClose
<1>4. CASE Register(c) \/ OnOpen(c) \/ OnMessage(c) \/ BroadcastEnd(c) \/ CloseSend(c)
  BY <1>4 DEF Register, OnOpen, OnMessage, BroadcastEnd, CloseSend
<1>5. CASE CloseUnregister(c)
  BY <1>5 DEF CloseUnregister, Unregister
<1>6. CASE OnClose(c) \/ OnError(c)
  BY <1>6 DEF OnClose, OnError
<1> QED
  BY <1>1, <1>2, <1>3, <1>4, <1>5, <1>6 DEF Chain

\* One step of the property, for the connection d.
StaysExpired(d) ==
  idle[d] \in {"queued", "closing", "fired"} =>
    idle'[d] \in {"queued", "closing", "fired"} \/ Accept(d)

LEMMA ChainFiresOnce ==
  ASSUME TypeInv, RearmOwned, NEW c \in Conn, Chain(c)
  PROVE  RearmOwned' /\ \A d \in Conn : StaysExpired(d)
<1> USE DEF TypeInv, TypeOK, RearmOwned
<1>0. \A d \in Conn \ {c} : phase'[d] = phase[d]
  BY OtherChains
<1>1. CASE OwnTimer(c)
  <2>1. \A d \in Conn : phase'[d] = "rearm" => phase[d] = "rearm" /\ to'[d] = to[d]
    BY <1>0, <1>1 DEF OwnTimer
  <2>2. \A d \in Conn : idle[d] = "rearming" => idle'[d] = "rearming"
    BY <1>1 DEF OwnTimer
  <2>3. ASSUME NEW d \in Conn, phase'[d] \in {"request", "respond"} PROVE idle'[d] = "null"
    <3>1. CASE d = c
      BY <1>1, <2>3, <3>1 DEF OwnTimer
    <3>2. CASE d # c
      BY <1>0, <1>1, <2>3, <3>2 DEF OwnTimer
    <3> QED
      BY <3>1, <3>2
  <2>4. \A d \in Conn : StaysExpired(d)
    BY <1>1 DEF OwnTimer, StaysExpired
  <2> QED
    BY <2>1, <2>2, <2>3, <2>4
<1>2. CASE BroadcastSend(c)
  <2> PICK d \in snap[c] : SendTo(c, d)
    BY <1>2 DEF BroadcastSend
  <2>1. CASE ~NullTimer(d) /\ idle[d] = "armed"
    <3>1. /\ idle' = [idle EXCEPT ![d] = "rearming"] /\ to' = [to EXCEPT ![c] = d]
          /\ phase' = [phase EXCEPT ![c] = "rearm"]
      BY <2>1 DEF SendTo, Goto
    <3> QED
      BY <2>1, <3>1 DEF StaysExpired
  <2>2. CASE NullTimer(d) \/ idle[d] # "armed"
    BY <2>2 DEF SendTo, NullTimer, StaysExpired
  <2> QED
    BY <2>1, <2>2
<1>3. CASE BroadcastRearm(c)
  <2>1. /\ phase[c] = "rearm" /\ phase'[c] = "broadcast" /\ to[c] \in Conn
        /\ idle' = [idle EXCEPT ![to[c]] = "armed"] /\ to' = [to EXCEPT ![c] = c]
    BY <1>3 DEF BroadcastRearm, Goto
  <2> QED
    BY <1>0, <2>1 DEF StaysExpired
<1> QED
  BY <1>1, <1>2, <1>3, ChainTimers

LEMMA FiresOnceNext ==
  ASSUME TypeInv, RearmOwned, [Next]_vars
  PROVE  RearmOwned' /\ \A d \in Conn : StaysExpired(d)
<1> USE DEF TypeInv, TypeOK, RearmOwned
<1>1. ASSUME NEW c \in Conn, Accept(c) PROVE RearmOwned' /\ \A d \in Conn : StaysExpired(d)
  <2>1. /\ phase' = [phase EXCEPT ![c] = "request"] /\ idle' = [idle EXCEPT ![c] = "null"]
        /\ to' = to /\ idle[c] # "rearming"
    BY <1>1 DEF Accept, Issue, Referenced
  <2> QED
    BY <1>1, <2>1 DEF StaysExpired
<1>2. ASSUME NEW c \in Conn, Timer(c) \/ Environment(c)
      PROVE  RearmOwned' /\ \A d \in Conn : StaysExpired(d)
  <2>1. /\ phase' = phase /\ to' = to
        /\ \/ idle' = idle
           \/ idle[c] = "armed" /\ idle' = [idle EXCEPT ![c] = "queued"]
           \/ idle[c] \in {"queued", "closing"} /\ idle'[c] \in {"closing", "fired"}
              /\ \A d \in Conn \ {c} : idle'[d] = idle[d]
    BY <1>2 DEF Timer, RequestTimeout, IdleTimeout, IdleClose, Environment, PeerReset,
                Complete, WriteDone, RequestExpire, IdleExpire
  <2> QED
    BY <2>1 DEF StaysExpired
<1>3. CASE UNCHANGED vars
  BY <1>3 DEF StaysExpired
<1> QED
  BY <1>1, <1>2, <1>3, ChainFiresOnce DEF Next

\* No reset, by the connection's own chain or by a broadcast on any thread,
\* arms a timer whose handler has been queued: an idle connection gets at
\* most one "idle timeout".
THEOREM IdleFiresOnceCorrect == Spec => IdleFiresOnce
<1>1. Init => RearmOwned
  BY DEF Init, RearmOwned
<1>2. TypeInv /\ RearmOwned /\ [Next]_vars
        => RearmOwned' /\ \A c \in Conn : StaysExpired(c)
  BY FiresOnceNext
<1> QED
  BY <1>1, <1>2, TypeInvariant, PTL DEF Spec, IdleFiresOnce, StaysExpired

-----------------------------------------------------------------------------
\* What a single thread, or a server without broadcasts or an idle timer,
\* adds.  With one thread a handler that has begun is alone until it ends.

Alone ==
  NumThreads = 1 =>
    /\ \A c, d \in Conn : phase[c] \in Running /\ phase[d] \in Running => c = d
    /\ \A c, d \in Conn : ~(phase[c] \in Running /\ idle[d] = "closing")
    /\ \A c, d \in Conn : idle[c] = "closing" /\ idle[d] = "closing" => c = d

LEMMA BusyFinite == IsFiniteSet(Busy)
<1>1. IsFiniteSet({"chain"} \cup {"idle"})
  BY FS_Singleton, FS_Union
<1>2. IsFiniteSet(({"chain"} \cup {"idle"}) \X Conn)
  BY <1>1, ConnAssumption, FS_Product
<1>3. Busy \subseteq ({"chain"} \cup {"idle"}) \X Conn
  BY DEF Busy
<1> QED
  BY <1>2, <1>3, FS_Subset

LEMMA FreeThreadAlone ==
  ASSUME NumThreads = 1, FreeThread
  PROVE  \A c \in Conn : phase[c] \notin Running /\ idle[c] # "closing"
<1>1. Cardinality(Busy) \in Nat
  BY BusyFinite, FS_CardinalityType
<1>2. Busy = {}
  BY <1>1, BusyFinite, FS_EmptySet DEF FreeThread
<1> QED
  BY <1>2 DEF Busy

\* A chain that was waiting needs a thread to run on.
LEMMA ChainThread ==
  ASSUME TypeInv, NEW c \in Conn, Chain(c)
  PROVE  /\ phase[c] \in Running \/ FreeThread
         /\ \A d \in Conn : idle'[d] = "closing" => idle[d] = "closing"
<1> USE DEF TypeInv, TypeOK
<1>1. phase[c] \in Running \/ FreeThread
  BY DEF Chain, RequestRead, HandshakeWritten, Register, OnOpen, HeaderRead, LengthRead, ContentRead,
         OnMessage, BroadcastSend, BroadcastRearm, BroadcastEnd, CloseSend, CloseUnregister,
         OnClose, OnError, ReadFails, Handler, Running
<1>2. \A d \in Conn : idle'[d] = "closing" => idle[d] = "closing"
  <2>1. CASE OwnTimer(c)
    BY <2>1 DEF OwnTimer
  <2>2. CASE BroadcastSend(c)
    BY <2>2 DEF BroadcastSend, SendTo
  <2>3. CASE BroadcastRearm(c)
    BY <2>3 DEF BroadcastRearm
  <2> QED
    BY <2>1, <2>2, <2>3, ChainTimers
<1> QED
  BY <1>1, <1>2

LEMMA AloneNext ==
  ASSUME TypeInv, Alone, [Next]_vars
  PROVE  Alone'
<1> SUFFICES ASSUME NumThreads = 1 PROVE Alone'
  BY DEF Alone
<1> USE DEF TypeInv, TypeOK, Alone
<1>1. ASSUME NEW c \in Conn, Accept(c) PROVE Alone'
  <2>1. phase' = [phase EXCEPT ![c] = "request"] /\ idle' = [idle EXCEPT ![c] = "null"]
    BY <1>1 DEF Accept, Issue
  <2> QED
    BY <2>1 DEF Running
<1>2. ASSUME NEW c \in Conn, Chain(c) PROVE Alone'
  <2>1. \A d \in Conn \ {c} : phase[d] \notin Running
    BY <1>2, ChainThread, FreeThreadAlone
  <2>2. \A d \in Conn : idle[d] # "closing"
    BY <1>2, ChainThread, FreeThreadAlone
  <2> QED
    BY <1>2, <2>1, <2>2, OtherChains, ChainThread
<1>3. ASSUME NEW c \in Conn, Timer(c) \/ Environment(c) PROVE Alone'
  <2>1. /\ phase' = phase
        /\ \/ \A d \in Conn : idle'[d] = "closing" => idle[d] = "closing"
           \/ FreeThread /\ \A d \in Conn \ {c} : idle'[d] = idle[d]
    BY <1>3 DEF Timer, RequestTimeout, IdleTimeout, IdleClose, Environment, PeerReset,
                Complete, WriteDone, RequestExpire, IdleExpire
  <2>2. CASE \A d \in Conn : idle'[d] = "closing" => idle[d] = "closing"
    BY <2>1, <2>2
  <2>3. CASE FreeThread /\ \A d \in Conn \ {c} : idle'[d] = idle[d]
    BY <2>1, <2>3, FreeThreadAlone
  <2> QED
    BY <2>1, <2>2, <2>3
<1>4. CASE UNCHANGED vars
  BY <1>4
<1> QED
  BY <1>1, <1>2, <1>3, <1>4 DEF Next

\* Without timeout_idle no timer is ever constructed, and only a server that
\* broadcasts is ever broadcasting.
Unused ==
  /\ ~TimeoutIdle => \A c \in Conn : idle[c] = "null" /\ phase[c] # "rearm"
  /\ ~Broadcasts => \A c \in Conn : phase[c] \notin {"broadcast", "rearm"}

LEMMA UnusedNext ==
  ASSUME TypeInv, Unused, [Next]_vars
  PROVE  Unused'
<1> USE DEF TypeInv, TypeOK, Unused
<1>1. ASSUME NEW c \in Conn, Accept(c) PROVE Unused'
  BY <1>1 DEF Accept, Issue
<1>2. ASSUME NEW c \in Conn, Chain(c) PROVE Unused'
  <2>1. ASSUME ~TimeoutIdle PROVE UNCHANGED idle /\ phase'[c] # "rearm"
    <3>1. CASE OwnTimer(c)
      BY <2>1, <3>1 DEF OwnTimer
    <3>2. CASE BroadcastSend(c)
      BY <2>1, <3>2 DEF BroadcastSend, SendTo, NullTimer
    <3>3. ~BroadcastRearm(c)
      BY <2>1 DEF BroadcastRearm
    <3> QED
      BY <1>2, <3>1, <3>2, <3>3, ChainTimers
  <2>2. ASSUME ~Broadcasts PROVE phase'[c] \notin {"broadcast", "rearm"}
    <3> USE DEF Goto, Issue
    <3>1. CASE RequestRead(c) \/ HandshakeWritten(c) \/ Register(c) \/ OnOpen(c)
      BY <2>2, <3>1 DEF RequestRead, HandshakeWritten, Unregister, Handler, Register, OnOpen
    <3>2. CASE HeaderRead(c) \/ LengthRead(c) \/ ContentRead(c)
      BY <2>2, <3>2 DEF HeaderRead, LengthRead, ContentRead, ReadFails, Unregister, Handler, StartClose
    <3>3. CASE OnMessage(c) \/ CloseSend(c) \/ OnClose(c) \/ OnError(c)
      BY <2>2, <3>3 DEF OnMessage, CloseSend, OnClose, OnError
    <3>4. CASE CloseUnregister(c)
      BY <2>2, <3>4 DEF CloseUnregister, Unregister
    <3>5. ~(BroadcastSend(c) \/ BroadcastRearm(c) \/ BroadcastEnd(c))
      BY <2>2 DEF BroadcastSend, BroadcastRearm, BroadcastEnd
    <3> QED
      BY <1>2, <3>1, <3>2, <3>3, <3>4, <3>5 DEF Chain
  <2> QED
    BY <1>2, <2>1, <2>2, OtherChains
<1>3. ASSUME NEW c \in Conn, Timer(c) \/ Environment(c) PROVE Unused'
  BY <1>3 DEF Timer, RequestTimeout, IdleTimeout, IdleClose, Environment, PeerReset,
              Complete, WriteDone, RequestExpire, IdleExpire
<1>4. CASE UNCHANGED vars
  BY <1>4
<1> QED
  BY <1>1, <1>2, <1>3, <1>4 DEF Next

-----------------------------------------------------------------------------
\* The Close frame.

CloseInv ==
  \A c \in Conn :
    /\ closes[c] <= 1
    /\ closes[c] = 1 => closed[c]
    /\ phase[c] = "closing" \/ idle[c] = "closing" => closes[c] = 0
    /\ ~(phase[c] = "closing" /\ idle[c] = "closing")

\* Only two actions send a Close frame.
LEMMA ChainCloses ==
  ASSUME TypeInv, NEW c \in Conn, Chain(c)
  PROVE  \/ CloseSend(c)
         \/ /\ UNCHANGED <<closed, closes>>
            /\ phase'[c] = "closing" => phase[c] = "closing" \/ (FreeThread /\ ~closed[c])
<1> USE DEF TypeInv, TypeOK, Goto, Issue
<1>1. CASE RequestRead(c) \/ HandshakeWritten(c) \/ Register(c) \/ OnOpen(c)
  BY <1>1 DEF RequestRead, HandshakeWritten, Unregister, Handler, Register, OnOpen
<1>2. CASE HeaderRead(c) \/ LengthRead(c) \/ ContentRead(c)
  BY <1>2 DEF HeaderRead, LengthRead, ContentRead, ReadFails, Unregister, Handler, StartClose
<1>3. CASE OnMessage(c) \/ OnClose(c) \/ OnError(c) \/ BroadcastRearm(c) \/ BroadcastEnd(c)
  BY <1>3 DEF OnMessage, OnClose, OnError, BroadcastRearm, BroadcastEnd
<1>4. CASE CloseUnregister(c)
  BY <1>4 DEF CloseUnregister, Unregister
<1>5. CASE BroadcastSend(c)
  BY <1>5 DEF BroadcastSend, SendTo
<1> QED
  BY <1>1, <1>2, <1>3, <1>4, <1>5 DEF Chain

LEMMA CloseNext ==
  ASSUME NumThreads = 1 \/ ~TimeoutIdle, TypeInv, Alone, Unused, CloseInv, [Next]_vars
  PROVE  CloseInv'
<1> USE DEF TypeInv, TypeOK, CloseInv
<1>1. ASSUME NEW c \in Conn, Accept(c) PROVE CloseInv'
  BY <1>1 DEF Accept, Issue
<1>2. ASSUME NEW c \in Conn, CloseSend(c) PROVE CloseInv'
  BY <1>2 DEF CloseSend, SendClose, Goto
<1>3. ASSUME NEW c \in Conn, Chain(c), ~CloseSend(c) PROVE CloseInv'
  <2>1. UNCHANGED <<closed, closes>>
    BY <1>3, ChainCloses
  <2>2. \A d \in Conn : idle'[d] = "closing" => idle[d] = "closing"
    BY <1>3, ChainThread
  <2>3. ASSUME phase'[c] = "closing", phase[c] # "closing"
        PROVE  ~closed[c] /\ \A d \in Conn : idle[d] # "closing"
    <3>1. FreeThread /\ ~closed[c]
      BY <1>3, <2>3, ChainCloses
    <3>2. CASE NumThreads = 1
      BY <3>1, <3>2, FreeThreadAlone
    <3>3. CASE ~TimeoutIdle
      BY <3>1, <3>3 DEF Unused
    <3> QED
      BY <3>1, <3>2, <3>3
  <2>4. ASSUME NEW d \in Conn, phase'[d] = "closing" PROVE closes[d] = 0 /\ idle[d] # "closing"
    <3>1. CASE phase[d] = "closing"
      BY <3>1
    <3>2. CASE phase[d] # "closing"
      <4>1. d = c
        BY <1>3, <2>4, <3>2, OtherChains
      <4> QED
        BY <2>3, <2>4, <3>2, <4>1
    <3> QED
      BY <3>1, <3>2
  <2> QED
    BY <2>1, <2>2, <2>4
<1>4. ASSUME NEW c \in Conn, IdleTimeout(c) PROVE CloseInv'
  <2>1. phase[c] # "closing"
    <3>1. CASE NumThreads = 1
      BY <1>4, <3>1, FreeThreadAlone DEF IdleTimeout, Running
    <3>2. CASE ~TimeoutIdle
      BY <1>4, <3>2 DEF IdleTimeout, Unused
    <3> QED
      BY <3>1, <3>2
  <2> QED
    BY <1>4, <2>1, SMTT(30) DEF IdleTimeout
<1>5. ASSUME NEW c \in Conn, IdleClose(c) PROVE CloseInv'
  BY <1>5 DEF IdleClose, SendClose
<1>6. ASSUME NEW c \in Conn, RequestTimeout(c) \/ Environment(c) PROVE CloseInv'
  BY <1>6 DEF RequestTimeout, Environment, PeerReset, Complete, WriteDone, RequestExpire, IdleExpire
<1>7. CASE UNCHANGED vars
  BY <1>7
<1> QED
  BY <1>1, <1>2, <1>3, <1>4, <1>5, <1>6, <1>7 DEF Next, Timer

LEMMA SideConditions == Spec => [](TypeInv /\ Alone /\ Unused)
<1>1. Init => TypeInv /\ Alone /\ Unused
  BY TypeInit DEF Init, Alone, Unused, Running
<1>2. TypeInv /\ Alone /\ Unused /\ [Next]_vars => TypeInv' /\ Alone' /\ Unused'
  BY TypeNext, AloneNext, UnusedNext
<1> QED
  BY <1>1, <1>2, PTL DEF Spec

\* "Send close only once": true of a server with one thread, and of one
\* without an idle timeout, whatever its number of connections.
THEOREM CloseSentOnceCorrect ==
  ASSUME NumThreads = 1 \/ ~TimeoutIdle
  PROVE  Spec => []CloseSentOnce
<1>1. Init => CloseInv
  BY DEF Init, CloseInv
<1>2. TypeInv /\ Alone /\ Unused /\ CloseInv /\ [Next]_vars => CloseInv'
  BY CloseNext
<1>3. CloseInv => CloseSentOnce
  BY DEF CloseInv, CloseSentOnce
<1> QED
  BY <1>1, <1>2, <1>3, SideConditions, PTL DEF Spec

\* After the Close frame the chain is on its way out.
Silent == \A c \in Conn : closes[c] > 0 => phase[c] \in {"unregister", "onclose", "free"}

SendsOnlyOpen == \A c \in Conn : writes'[c] > writes[c] => closes[c] = 0

LEMMA SilentNext ==
  ASSUME ~TimeoutIdle, ~Broadcasts, TypeInv, Unused, Silent, [Next]_vars
  PROVE  Silent' /\ SendsOnlyOpen
<1> USE DEF TypeInv, TypeOK, Silent, SendsOnlyOpen, Goto, Issue
<1>1. ASSUME NEW c \in Conn, Accept(c) PROVE Silent' /\ SendsOnlyOpen
  BY <1>1 DEF Accept
<1>2. ASSUME NEW c \in Conn, Chain(c) PROVE Silent' /\ SendsOnlyOpen
  <2>0. \A d \in Conn \ {c} : phase'[d] = phase[d]
    BY <1>2, OtherChains
  <2>1. CASE RequestRead(c) \/ HandshakeWritten(c) \/ Register(c) \/ OnOpen(c)
    BY <2>0, <2>1, SMTT(30) DEF RequestRead, HandshakeWritten, Handler, Register, OnOpen
  <2>2. CASE HeaderRead(c) \/ LengthRead(c)
    <3>1. closes[c] = 0 /\ UNCHANGED <<closes, writes>>
      BY <2>2 DEF HeaderRead, LengthRead, ReadFails, Handler
    <3> QED
      BY <2>0, <3>1, SMTT(30)
  <2>3. CASE ContentRead(c) \/ OnMessage(c)
    <3>1. closes[c] = 0 /\ UNCHANGED closes
      BY <2>3 DEF ContentRead, OnMessage, ReadFails, Handler
    <3>2. \A d \in Conn \ {c} : writes'[d] = writes[d]
      BY <2>3 DEF ContentRead, OnMessage, Send
    <3> QED
      BY <2>0, <3>1, <3>2, SMTT(30)
  <2>5. CASE CloseSend(c)
    BY <2>0, <2>5 DEF CloseSend, SendClose
  <2>6. CASE CloseUnregister(c) \/ OnClose(c) \/ OnError(c)
    BY <2>0, <2>6, SMTT(30) DEF CloseUnregister, Unregister, OnClose, OnError
  <2>7. ~(BroadcastSend(c) \/ BroadcastRearm(c) \/ BroadcastEnd(c))
    BY DEF Unused, BroadcastSend, BroadcastRearm, BroadcastEnd
  <2> QED
    BY <1>2, <2>1, <2>2, <2>3, <2>5, <2>6, <2>7 DEF Chain
<1>3. ASSUME NEW c \in Conn, Timer(c) \/ Environment(c) PROVE Silent' /\ SendsOnlyOpen
  BY <1>3, SMTT(30) DEF Unused, Timer, RequestTimeout, IdleTimeout, IdleClose, Environment,
              PeerReset, Complete, WriteDone, RequestExpire, IdleExpire
<1>4. CASE UNCHANGED vars
  BY <1>4
<1> QED
  BY <1>1, <1>2, <1>3, <1>4 DEF Next

\* As websocket.cpp configures the server, nothing follows the Close frame.
THEOREM NothingSentAfterCloseCorrect ==
  ASSUME ~TimeoutIdle, ~Broadcasts
  PROVE  Spec => NothingSentAfterClose
<1>1. Init => Silent
  BY DEF Init, Silent
<1>2. TypeInv /\ Unused /\ Silent /\ [Next]_vars => Silent' /\ SendsOnlyOpen
  BY SilentNext
<1> QED
  BY <1>1, <1>2, SideConditions, PTL DEF Spec, NothingSentAfterClose, SendsOnlyOpen

-----------------------------------------------------------------------------
\* No timer outlives the chain.

\* With one thread a broadcast is alone with a copy whose members are all
\* still being served, so that it re-arms the timers of such connections only.
Owner(d) == \E c \in Conn : phase[c] = "rearm" /\ to[c] = d

TimerServed ==
  /\ \A d \in Conn : idle[d] = "rearming" => Owner(d)
  /\ \A c \in Conn : phase[c] \in {"broadcast", "rearm"} => \A d \in snap[c] : phase[d] \in Serving
  /\ \A c \in Conn : phase[c] = "rearm" => phase[to[c]] \in Serving
  /\ \A c \in Conn : idle[c] \in {"armed", "rearming"} => phase[c] \in Serving \cup {"register"}

\* The steps of a chain that is not broadcasting, seen from the timers.
LEMMA ChainServed ==
  ASSUME TypeInv, NEW c \in Conn, Chain(c), phase[c] \notin {"broadcast", "rearm"}
  PROVE  /\ OwnTimer(c)
         /\ \A d \in Conn : snap'[d] = snap[d] \/ (d = c /\ phase'[c] = "broadcast")
         /\ phase'[c] = "broadcast" => OnMessage(c)
         /\ phase[c] \in Serving \cup {"register"} =>
              \/ phase'[c] \in Serving \cup {"register"}
              \/ idle' = [idle EXCEPT ![c] = IF @ = "armed" THEN "off" ELSE @]
         /\ phase[c] = "respond" /\ idle' # idle /\ idle[c] = "null" => phase'[c] = "register"
<1> USE DEF TypeInv, TypeOK, Goto, Issue
<1>0. ~BroadcastSend(c) /\ ~BroadcastRearm(c) /\ ~BroadcastEnd(c)
  BY DEF BroadcastSend, BroadcastRearm, BroadcastEnd
<1>1. OwnTimer(c)
  BY <1>0, ChainTimers
<1>2. CASE RequestRead(c)
  BY <1>1, <1>2 DEF RequestRead, Handler, Serving
<1>3. CASE HandshakeWritten(c)
  BY <1>1, <1>3 DEF HandshakeWritten, Handler, Unregister, Serving
<1>4. CASE Register(c) \/ OnOpen(c) \/ CloseSend(c) \/ OnClose(c) \/ OnError(c)
  BY <1>1, <1>4 DEF Register, OnOpen, CloseSend, OnClose, OnError, Serving
<1>5. CASE HeaderRead(c) \/ LengthRead(c) \/ ContentRead(c)
  <2>1. CASE Unregister(c, "onerror") /\ snap' = snap /\ phase[c] # "respond"
    BY <1>1, <2>1 DEF Unregister, Serving
  <2>2. CASE phase'[c] \in Serving \ {"broadcast"} /\ snap' = snap /\ phase[c] # "respond"
    BY <1>1, <2>2 DEF Serving
  <2> QED
    BY <1>5, <2>1, <2>2 DEF HeaderRead, LengthRead, ContentRead, ReadFails, Handler, StartClose, Serving
<1>6. CASE OnMessage(c)
  BY <1>1, <1>6 DEF OnMessage, Serving
<1>7. CASE CloseUnregister(c)
  BY <1>1, <1>7 DEF CloseUnregister, Unregister, Serving
<1> QED
  BY <1>0, <1>2, <1>3, <1>4, <1>5, <1>6, <1>7 DEF Chain

LEMMA BroadcastServed ==
  ASSUME NumThreads = 1 \/ ~Broadcasts, TypeInv, Alone, Unused, TimerServed,
         NEW c \in Conn, BroadcastSend(c) \/ BroadcastRearm(c) \/ BroadcastEnd(c)
  PROVE  TimerServed'
<1> USE DEF TypeInv, TypeOK, TimerServed, Owner
<1>0. /\ \A d \in Conn \ {c} : phase[d] \notin {"broadcast", "rearm"} /\ phase'[d] = phase[d]
      /\ phase[c] \in {"broadcast", "rearm"} /\ phase[c] \in Serving /\ phase'[c] \in Serving
  <2>1. phase[c] \in {"broadcast", "rearm"}
    BY DEF BroadcastSend, BroadcastRearm, BroadcastEnd
  <2>2. NumThreads = 1
    BY <2>1 DEF Unused
  <2>3. \A d \in Conn \ {c} : phase[d] \notin {"broadcast", "rearm"}
    BY <2>1, <2>2 DEF Alone, Running
  <2>4. Chain(c)
    BY DEF Chain
  <2>5. phase'[c] \in Serving
    BY <2>1 DEF BroadcastSend, SendTo, BroadcastRearm, BroadcastEnd, Goto, Issue, Serving
  <2> QED
    BY <2>1, <2>3, <2>4, <2>5, OtherChains DEF Serving
<1>1. CASE BroadcastSend(c)
  <2> PICK d \in snap[c] : SendTo(c, d)
    BY <1>1 DEF BroadcastSend
  <2>0. phase[c] = "broadcast" /\ phase[d] \in Serving /\ \A e \in Conn : idle[e] # "rearming"
    BY <1>0, <1>1 DEF BroadcastSend
  <2>1. CASE ~NullTimer(d) /\ idle[d] = "armed"
    <3>1. /\ idle' = [idle EXCEPT ![d] = "rearming"] /\ to' = [to EXCEPT ![c] = d]
          /\ phase' = [phase EXCEPT ![c] = "rearm"] /\ snap' = snap
      BY <2>1 DEF SendTo, Goto
    <3>2. \A e \in Conn : phase[e] \in Serving => phase'[e] \in Serving
      BY <1>0
    <3> QED
      BY <1>0, <2>0, <3>1, <3>2 DEF Serving
  <2>2. CASE NullTimer(d) \/ idle[d] # "armed"
    <3>1. /\ phase' = phase /\ idle' = idle /\ to' = to
          /\ snap'[c] \subseteq snap[c] /\ \A e \in Conn \ {c} : snap'[e] = snap[e]
      BY <2>2 DEF SendTo, NullTimer
    <3> QED
      BY <1>0, <2>0, <3>1
  <2> QED
    BY <2>1, <2>2
<1>2. CASE BroadcastRearm(c)
  <2>1. /\ phase[c] = "rearm" /\ phase'[c] = "broadcast" /\ to[c] \in Conn
        /\ idle' = [idle EXCEPT ![to[c]] = "armed"]
        /\ snap' = [snap EXCEPT ![c] = @ \ {to[c]}]
    BY <1>2 DEF BroadcastRearm, Goto
  <2>2. \A d \in Conn : idle'[d] # "rearming"
    BY <1>0, <2>1
  <2>3. \A d \in Conn : phase[d] \in Serving => phase'[d] \in Serving
    BY <1>0
  <2>4. phase[to[c]] \in Serving
    BY <2>1
  <2>5. \A d \in Conn : phase'[d] # "rearm"
    BY <1>0, <2>1
  <2>6. \A d \in Conn : phase'[d] = "broadcast" => d = c /\ snap'[d] \subseteq snap[d]
    BY <1>0, <2>1
  <2>7. \A d \in Conn : idle'[d] = "armed" => phase'[d] \in Serving \cup {"register"}
    BY <1>0, <2>1, <2>3, <2>4
  <2>8. ASSUME NEW b \in Conn, phase'[b] = "broadcast", NEW d \in snap'[b]
        PROVE  phase'[d] \in Serving
    <3>1. b = c /\ d \in snap[c]
      BY <2>6, <2>8
    <3>2. phase[d] \in Serving
      BY <2>1, <3>1
    <3> QED
      BY <2>3, <3>1, <3>2
  <2> QED
    BY <2>2, <2>5, <2>7, <2>8
<1>3. CASE BroadcastEnd(c)
  <2>1. /\ phase[c] = "broadcast" /\ phase'[c] = "header" /\ idle' = idle
    BY <1>3 DEF BroadcastEnd, Issue
  <2>2. \A d \in Conn : phase'[d] \notin {"broadcast", "rearm"} /\ idle'[d] # "rearming"
    BY <1>0, <2>1
  <2>3. \A d \in Conn : phase[d] \in Serving \cup {"register"} => phase'[d] \in Serving \cup {"register"}
    BY <1>0
  <2> QED
    BY <2>1, <2>2, <2>3
<1> QED
  BY <1>1, <1>2, <1>3

\* A step of a handler that is not serving is one of no other that is.
LEMMA NoneElseServes ==
  ASSUME NumThreads = 1 \/ ~Broadcasts, TypeInv, Alone, Unused, NEW c \in Conn, Chain(c),
         phase[c] \notin {"broadcast", "rearm"}
  PROVE  \A d \in Conn : phase[d] \notin {"broadcast", "rearm"}
<1>1. CASE NumThreads = 1
  <2>1. CASE phase[c] \in Running
    BY <1>1, <2>1 DEF Alone, Running
  <2>2. CASE FreeThread
    BY <1>1, <2>2, FreeThreadAlone DEF Running
  <2> QED
    BY <2>1, <2>2, ChainThread
<1>2. CASE ~Broadcasts
  BY <1>2 DEF Unused
<1> QED
  BY <1>1, <1>2

LEMMA ServedNext ==
  ASSUME NumThreads = 1 \/ ~Broadcasts, TypeInv, Alone, Unused, RegistryMatchesChains,
         RearmOwned, TimerServed, [Next]_vars
  PROVE  TimerServed'
<1> USE DEF TypeInv, TypeOK, TimerServed, Owner
<1>1. ASSUME NEW c \in Conn, Accept(c) PROVE TimerServed'
  <2>1. /\ phase[c] = "free" /\ idle[c] \notin {"armed", "rearming"}
        /\ phase' = [phase EXCEPT ![c] = "request"] /\ idle' = [idle EXCEPT ![c] = "null"]
        /\ snap' = snap /\ to' = to
    BY <1>1 DEF Accept, Referenced, Issue
  <2> QED
    BY <2>1 DEF Serving
<1>2. ASSUME NEW c \in Conn, Chain(c), phase[c] \notin {"broadcast", "rearm"} PROVE TimerServed'
  <2> USE <1>2, ChainServed
  <2>1. \A d \in Conn \ {c} : phase'[d] = phase[d]
    BY OtherChains
  <2>2. \A d \in Conn : phase[d] \notin {"broadcast", "rearm"}
    BY NoneElseServes, Zenon
  <2>3. \A d \in Conn : idle[d] # "rearming"
    BY <2>2
  <2>4. \A d \in Conn : idle'[d] # "rearming" /\ phase'[d] # "rearm"
    BY <2>1, <2>2, <2>3 DEF OwnTimer
  <2>5. ASSUME NEW b \in Conn, phase'[b] = "broadcast", NEW d \in snap'[b]
        PROVE  phase'[d] \in Serving
    <3>1. b = c /\ OnMessage(c)
      BY <2>1, <2>2, <2>5
    <3>2. phase[c] = "onmessage" /\ phase'[c] = "broadcast"
      BY <2>5, <3>1 DEF OnMessage
    <3>3. endp[c] \in Endpoint
      BY <3>2 DEF EndpointMatched
    <3>4. ~Issue(c, "header")
      BY <3>2 DEF Issue
    <3>5. snap' = [snap EXCEPT ![c] = connections[endp[c]]]
      BY <3>1, <3>4 DEF OnMessage, GetConnections
    <3>6. d \in connections[endp[c]] /\ d \in Conn
      BY <2>5, <3>1, <3>3, <3>5
    <3>7. phase[d] \in Serving
      BY <3>3, <3>6 DEF RegistryMatchesChains
    <3> QED
      BY <2>1, <2>5, <3>1, <3>6, <3>7 DEF Serving
  <2>6. ASSUME NEW d \in Conn, idle'[d] = "armed"
        PROVE  phase'[d] \in Serving \cup {"register"}
    <3>1. CASE d # c
      <4>1. idle'[d] = idle[d]
        BY <3>1 DEF OwnTimer
      <4> QED
        BY <2>1, <2>6, <3>1, <4>1
    <3>2. CASE d = c /\ idle[c] = "armed"
      <4>1. phase[c] \in Serving \cup {"register"}
        BY <3>2
      <4>2. ~(idle' = [idle EXCEPT ![c] = IF @ = "armed" THEN "off" ELSE @])
        BY <2>6, <3>2
      <4> QED
        BY <3>2, <4>1, <4>2
    <3>3. CASE d = c /\ idle[c] # "armed"
      <4>1. phase[c] = "respond" /\ idle' # idle
        BY <2>6, <3>3 DEF OwnTimer
      <4>2. idle[c] = "null"
        BY <4>1 DEF RearmOwned
      <4> QED
        BY <3>3, <4>1, <4>2
    <3> QED
      BY <3>1, <3>2, <3>3
  <2> QED
    BY <2>4, <2>5, <2>6
<1>3. ASSUME NEW c \in Conn, Chain(c), phase[c] \in {"broadcast", "rearm"} PROVE TimerServed'
  <2>1. BroadcastSend(c) \/ BroadcastRearm(c) \/ BroadcastEnd(c)
    BY <1>3 DEF Chain, RequestRead, HandshakeWritten, Register, OnOpen, HeaderRead, LengthRead,
         ContentRead, OnMessage, CloseSend, CloseUnregister, OnClose, OnError, ReadFails, Handler
  <2> QED
    BY <2>1, BroadcastServed
<1>4. ASSUME NEW c \in Conn, Timer(c) \/ Environment(c) PROVE TimerServed'
  <2>1. /\ phase' = phase /\ snap' = snap /\ to' = to
        /\ \A d \in Conn : idle'[d] \in {"armed", "rearming"} => idle'[d] = idle[d]
    BY <1>4 DEF Timer, RequestTimeout, IdleTimeout, IdleClose, Environment, PeerReset,
                Complete, WriteDone, RequestExpire, IdleExpire
  <2> QED
    BY <2>1
<1>5. CASE UNCHANGED vars
  BY <1>5
<1> QED
  BY <1>1, <1>2, <1>3, <1>4, <1>5 DEF Next

\* With one thread, or without broadcasts, connection_close and
\* connection_error leave no armed timer to keep the Connection alive.
THEOREM NoArmedTimerCorrect ==
  ASSUME NumThreads = 1 \/ ~Broadcasts
  PROVE  Spec => []NoArmedTimerLeftBehind
<1>1. Init => RegistryMatchesChains /\ RearmOwned /\ TimerServed
  BY DEF Init, RegistryMatchesChains, RearmOwned, TimerServed, Serving
<1>2. TypeInv /\ Alone /\ Unused /\ RegistryMatchesChains /\ RearmOwned /\ TimerServed /\ [Next]_vars
        => RegistryMatchesChains' /\ RearmOwned' /\ TimerServed'
  BY RegistryNext, FiresOnceNext, ServedNext
<1>3. TimerServed => NoArmedTimerLeftBehind
  BY DEF TimerServed, NoArmedTimerLeftBehind, Serving
<1> QED
  BY <1>1, <1>2, <1>3, SideConditions, PTL DEF Spec
=============================================================================
