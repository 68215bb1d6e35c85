-------------------------------- MODULE MCWire --------------------------------
(***************************************************************************)
(* Wire for TLC: the first frame of an end, if it is a message, is the     *)
(* shortest that needs further length bytes.  The numbers of bytes read    *)
(* behind a handshake end within a header, and behind a short frame.  Wire *)
(* takes two statuses: when both ends close at once, each must report the  *)
(* one that the other gave.                                                *)
(***************************************************************************)
EXTENDS Wire

Long     == [i \in 1 .. 126 |-> i]
MCData   == <<Long, <<7>>, <<8>> >>
MCMasks  == {<<1, 2, 4, 8>>}
MCBehind == {0, 3, 8}

\* Not reached: no length here has more than two bytes.
MCOvershift(byte, k) == 0
=============================================================================
