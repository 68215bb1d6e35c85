------------------------------- MODULE Frames -------------------------------
(***************************************************************************)
(* The header of a WebSocket frame as both ends write it (send,            *)
(* server_ws.hpp:150-168, client_ws.hpp:93-111) and read it (read_message, *)
(* server_ws.hpp:357-423, client_ws.hpp:264-331): the code of fin, rsv and *)
(* opcode, the length with the mask bit, and 0, 2 or 8 further bytes of    *)
(* the length, the most significant one first.                             *)
(***************************************************************************)
EXTENDS Integers, Sequences

\* What a build makes of byte << 8k for k > 3, which is undefined for an int.
CONSTANT Overshift(_, _)

Byte == 0 .. 255

LengthCode(length) == CASE length < 126                    -> length
                        [] length >= 126 /\ length <= 65535 -> 126
                        [] OTHER                            -> 127

NumBytes(code) == CASE code = 126 -> 2
                    [] code = 127 -> 8
                    [] OTHER      -> 0

\* (length >> 8k) % 256: the byte of weight 256^k.
ByteOf(length, k) ==
  CASE k = 0 -> length % 256
    [] k = 1 -> (length \div 256) % 256
    [] k = 2 -> (length \div 65536) % 256
    [] k = 3 -> (length \div 16777216) % 256
    [] k = 4 -> ((length \div 16777216) \div 256) % 256
    [] k = 5 -> ((length \div 16777216) \div 65536) % 256
    [] k = 6 -> ((length \div 16777216) \div 16777216) % 256
    [] k = 7 -> (((length \div 16777216) \div 16777216) \div 256) % 256

\* Variant with a mistake: the least significant byte goes first.
LengthBytesSwapped(length) == LET num == NumBytes(LengthCode(length))
                              IN  [c \in 1 .. num |-> ByteOf(length, c - 1)]

LengthBytes(length) == LET num == NumBytes(LengthCode(length))
                       IN  [c \in 1 .. num |-> ByteOf(length, num - c)]

Header(op, masked, length) ==
  <<op, LengthCode(length) + IF masked THEN 128 ELSE 0>> \o LengthBytes(length)

(* The reader adds up length_bytes[c] << 8k, a shift of a 32-bit int that  *)
(* is then converted to size_t: from 128 << 24 on it is negative and takes *)
(* the high half of size_t with it.                                        *)
Shifted(byte, k) == CASE k = 0 \/ byte = 0           -> byte
                      [] k = 1 /\ byte # 0           -> byte * 256
                      [] k = 2 /\ byte # 0           -> byte * 65536
                      [] k = 3 /\ byte \in 1 .. 127  -> byte * 16777216
                      [] k = 3 /\ byte > 127         ->
                           byte * 16777216 + (65536 * 65536 - 1) * (65536 * 65536)
                      [] OTHER                       -> Overshift(byte, k)

LengthOf(bytes) ==
  IF Len(bytes) = 2 THEN Shifted(bytes[1], 1) + Shifted(bytes[2], 0)
  ELSE Shifted(bytes[1], 7) + Shifted(bytes[2], 6) + Shifted(bytes[3], 5) + Shifted(bytes[4], 4)
       + Shifted(bytes[5], 3) + Shifted(bytes[6], 2) + Shifted(bytes[7], 1) + Shifted(bytes[8], 0)
=============================================================================
