--------------------------- MODULE MessageChannel ---------------------------
(***************************************************************************)
(* What one direction of a WebSocket connection promises to the programs   *)
(* at its ends (send and onmessage of server_ws.hpp and client_ws.hpp):    *)
(* messages are received whole, once each and in the order in which they   *)
(* were sent, until the receiver stops; after a close or an error it       *)
(* receives nothing more.  A channel that is broken promises nothing:      *)
(* Wire says when that is.                                                 *)
(***************************************************************************)
EXTENDS Naturals, Sequences

CONSTANT Message

VARIABLES sent, received, state

Init == sent = <<>> /\ received = <<>> /\ state = "open"

Send == /\ \E m \in Message : sent' = Append(sent, m)
        /\ UNCHANGED <<received, state>>

Receive == /\ state = "open" /\ Len(received) < Len(sent)
           /\ received' = Append(received, sent[Len(received) + 1])
           /\ UNCHANGED <<sent, state>>

Stop == /\ state = "open" /\ state' \in {"ended", "broken"}
        /\ UNCHANGED <<sent, received>>

Break == /\ state' = "broken"
         /\ sent' = sent \/ \E m \in Message : sent' = Append(sent, m)

Next == Send \/ Receive \/ Stop \/ Break

Spec == Init /\ [][Next]_<<sent, received, state>>
=============================================================================
