-------------------------- MODULE EndpointCallbacks --------------------------
(***************************************************************************)
(* What SocketServer promises to the application behind an Endpoint        *)
(* (server_ws.hpp:84-88): for every Connection object the callbacks come   *)
(* in the order onopen, then any number of onmessage, then exactly one of  *)
(* onclose and onerror and nothing more; a handshake whose answer cannot   *)
(* be written reports onerror alone.  The application may key its own      *)
(* state by the address of the Connection, as serverResource.hpp does:     *)
(* an address comes back only after its terminal callback.                 *)
(***************************************************************************)
CONSTANT Conn              \* addresses of Connection objects

VARIABLE called            \* called[c]: the last callback made for address c

Callback == {"none", "onopen", "onmessage", "onclose", "onerror"}

Init == called = [c \in Conn |-> "none"]

Live(c) == called[c] \in {"onopen", "onmessage"}

\* The Endpoint's callbacks, each for the connection it is given.
Open(c)    == called[c] = "none" /\ called' = [called EXCEPT ![c] = "onopen"]
Message(c) == Live(c) /\ called' = [called EXCEPT ![c] = "onmessage"]
Close(c)   == Live(c) /\ called' = [called EXCEPT ![c] = "onclose"]
Error(c)   == /\ Live(c) \/ called[c] = "none"
              /\ called' = [called EXCEPT ![c] = "onerror"]

\* The address is given to a new Connection.
Reuse(c)   == ~Live(c) /\ called' = [called EXCEPT ![c] = "none"]

Next == \E c \in Conn : Open(c) \/ Message(c) \/ Close(c) \/ Error(c) \/ Reuse(c)

Spec == Init /\ [][Next]_called
=============================================================================
