---------------------------- MODULE FramesProofs ----------------------------
(***************************************************************************)
(* What read_message makes of the length that send writes, for every       *)
(* length: it is right below 2^31, and wrong from there to 2^32, because   *)
(* the bytes are shifted as 32-bit ints.  The limits are written as        *)
(* products: TLC's numbers end at 2^31 - 1.                                *)
(***************************************************************************)
EXTENDS Frames, TLAPS

TwoTo31 == 32768 * 65536
TwoTo32 == 65536 * 65536

\* A number below 2^32 is the sum of its four bytes.
LEMMA FourBytes ==
  ASSUME NEW n \in Nat, n < TwoTo32
  PROVE  /\ n = (n % 256) + 256 * ((n \div 256) % 256) + 65536 * ((n \div 65536) % 256)
                + 16777216 * (n \div 16777216)
         /\ n \div 16777216 \in 0 .. 255
<1>1. n = (n % 256) + 256 * (n \div 256)
  OBVIOUS
<1>2. n \div 256 = ((n \div 256) % 256) + 256 * (n \div 65536)
  OBVIOUS
<1>3. n \div 65536 = ((n \div 65536) % 256) + 256 * (n \div 16777216)
  OBVIOUS
<1>4. n \div 16777216 \in 0 .. 255
  BY DEF TwoTo32
<1> QED
  BY <1>1, <1>2, <1>3, <1>4

\* The bytes that are sent are bytes, and the upper four are 0 below 2^32.
LEMMA ByteOfType ==
  ASSUME NEW n \in Nat, NEW k \in 0 .. 7
  PROVE  ByteOf(n, k) \in Byte /\ (n < TwoTo32 /\ k > 3 => ByteOf(n, k) = 0)
<1>1. \A q \in Nat : q % 256 \in Byte
  BY DEF Byte
<1>2. /\ n \div 256 \in Nat /\ n \div 65536 \in Nat /\ n \div 16777216 \in Nat
      /\ (n \div 16777216) \div 256 \in Nat /\ (n \div 16777216) \div 65536 \in Nat
      /\ (n \div 16777216) \div 16777216 \in Nat
      /\ ((n \div 16777216) \div 16777216) \div 256 \in Nat
  OBVIOUS
<1>3. ByteOf(n, k) \in Byte
  BY <1>1, <1>2 DEF ByteOf
<1>4. ASSUME n < TwoTo32, k > 3 PROVE ByteOf(n, k) = 0
  <2>1. n \div 16777216 \in 0 .. 255
    BY <1>4, FourBytes
  <2>2. \A q \in 0 .. 255 : /\ (q \div 256) % 256 = 0 /\ (q \div 65536) % 256 = 0
                            /\ (q \div 16777216) % 256 = 0
                            /\ ((q \div 16777216) \div 256) % 256 = 0
    OBVIOUS
  <2> QED
    BY <2>1, <2>2, <1>4 DEF ByteOf
<1> QED
  BY <1>3, <1>4

\* The length of the further bytes, one by one.
LEMMA LengthBytesAre ==
  ASSUME NEW n \in Nat, n > 125
  PROVE  /\ n <= 65535 => LengthBytes(n) = <<ByteOf(n, 1), ByteOf(n, 0)>>
         /\ n > 65535  => LengthBytes(n) = <<ByteOf(n, 7), ByteOf(n, 6), ByteOf(n, 5), ByteOf(n, 4),
                                             ByteOf(n, 3), ByteOf(n, 2), ByteOf(n, 1), ByteOf(n, 0)>>
<1>1. ASSUME n <= 65535 PROVE LengthBytes(n) = <<ByteOf(n, 1), ByteOf(n, 0)>>
  <2>1. NumBytes(LengthCode(n)) = 2
    BY <1>1 DEF NumBytes, LengthCode
  <2>2. LengthBytes(n) = [c \in 1 .. 2 |-> ByteOf(n, 2 - c)]
    BY <2>1 DEF LengthBytes
  <2> QED
    BY <2>2
<1>2. ASSUME n > 65535
      PROVE LengthBytes(n) = <<ByteOf(n, 7), ByteOf(n, 6), ByteOf(n, 5), ByteOf(n, 4),
                               ByteOf(n, 3), ByteOf(n, 2), ByteOf(n, 1), ByteOf(n, 0)>>
  <2>1. NumBytes(LengthCode(n)) = 8
    BY <1>2 DEF NumBytes, LengthCode
  <2>2. LengthBytes(n) = [c \in 1 .. 8 |-> ByteOf(n, 8 - c)]
    BY <2>1 DEF LengthBytes
  <2> QED
    BY <2>2
<1> QED
  BY <1>1, <1>2

\* What is read, as a sum of the lower bytes; the upper ones are 0.
LEMMA LengthOfIs ==
  ASSUME NEW n \in Nat, n > 125, n < TwoTo32
  PROVE  LengthOf(LengthBytes(n)) =
           IF n <= 65535 THEN Shifted(ByteOf(n, 1), 1) + ByteOf(n, 0)
           ELSE Shifted(ByteOf(n, 3), 3) + Shifted(ByteOf(n, 2), 2)
                + Shifted(ByteOf(n, 1), 1) + ByteOf(n, 0)
<1>1. \A k \in 0 .. 7 : ByteOf(n, k) \in Byte
  BY ByteOfType
<1>2. \A k \in 4 .. 7 : ByteOf(n, k) = 0
  BY ByteOfType
<1>3. \A k \in 0 .. 7 : Shifted(0, k) = 0
  BY DEF Shifted
<1>4. \A b \in Byte : Shifted(b, 0) = b /\ Shifted(b, 1) \in Nat /\ Shifted(b, 2) \in Nat
                      /\ Shifted(b, 3) \in Nat
  <2>1. \A b \in Byte : Shifted(b, 0) = b /\ Shifted(b, 1) \in Nat /\ Shifted(b, 2) \in Nat
    BY DEF Shifted, Byte
  <2>2. (65536 * 65536 - 1) * (65536 * 65536) \in Nat
    <3> DEFINE k == 65536 * 65536
               m == 65536 * 65536 - 1
    <3>1. m \in Nat /\ k \in Nat
      OBVIOUS
    <3> HIDE DEF m, k
    <3>2. m * k \in Nat
      BY <3>1
    <3> QED
      BY <3>2 DEF m, k
  <2>3. ASSUME NEW b \in Byte PROVE Shifted(b, 3) \in Nat
    <3>1. CASE b = 0
      BY <3>1 DEF Shifted
    <3>2. CASE b \in 1 .. 127
      BY <3>2 DEF Shifted
    <3>3. CASE b > 127
      BY <2>2, <3>3 DEF Shifted, Byte
    <3> QED
      BY <3>1, <3>2, <3>3 DEF Byte
  <2> QED
    BY <2>1, <2>3
<1>5. CASE n <= 65535
  <2>1. LengthBytes(n) = <<ByteOf(n, 1), ByteOf(n, 0)>>
    BY <1>5, LengthBytesAre
  <2> QED
    BY <2>1, <1>5, <1>1, <1>4 DEF LengthOf
<1>6. CASE n > 65535
  <2>1. LengthBytes(n) = <<ByteOf(n, 7), ByteOf(n, 6), ByteOf(n, 5), ByteOf(n, 4),
                           ByteOf(n, 3), ByteOf(n, 2), ByteOf(n, 1), ByteOf(n, 0)>>
    BY <1>6, LengthBytesAre
  <2>2. LengthOf(LengthBytes(n)) = 0 + 0 + 0 + 0
          + Shifted(ByteOf(n, 3), 3) + Shifted(ByteOf(n, 2), 2)
          + Shifted(ByteOf(n, 1), 1) + ByteOf(n, 0)
    BY <2>1, <1>1, <1>2, <1>3, <1>4 DEF LengthOf
  <2> QED
    BY <2>2, <1>6, <1>1, <1>4
<1> QED
  BY <1>5, <1>6

\* send writes and read_message reads the same length, for all lengths below 2^31
\* that need further bytes.
THEOREM LengthRoundTrip ==
  \A n \in Nat : n > 125 /\ n < TwoTo31 => LengthOf(LengthBytes(n)) = n
<1> SUFFICES ASSUME NEW n \in Nat, n > 125, n < TwoTo31
             PROVE  LengthOf(LengthBytes(n)) = n
  OBVIOUS
<1> DEFINE b0 == n % 256
           b1 == (n \div 256) % 256
           b2 == (n \div 65536) % 256
           b3 == n \div 16777216
<1>0. n < TwoTo32
  BY DEF TwoTo31, TwoTo32
<1>1. n = b0 + 256 * b1 + 65536 * b2 + 16777216 * b3
  BY <1>0, FourBytes
<1>2. b0 \in 0 .. 255 /\ b1 \in 0 .. 255 /\ b2 \in 0 .. 255
  OBVIOUS
<1>3. b3 \in 0 .. 127
  BY DEF TwoTo31
<1>4. ByteOf(n, 0) = b0 /\ ByteOf(n, 1) = b1 /\ ByteOf(n, 2) = b2 /\ ByteOf(n, 3) = b3
  BY <1>3 DEF ByteOf
<1> HIDE DEF b0, b1, b2, b3
<1>5. Shifted(b1, 1) = 256 * b1 /\ Shifted(b2, 2) = 65536 * b2
  BY <1>2 DEF Shifted
<1>6. Shifted(b3, 3) = 16777216 * b3
  BY <1>3 DEF Shifted
<1>7. CASE n <= 65535
  <2>1. b2 = 0 /\ b3 = 0
    BY <1>1, <1>2, <1>3, <1>7
  <2> QED
    BY <2>1, <1>0, <1>1, <1>2, <1>4, <1>5, <1>7, LengthOfIs
<1>8. CASE n > 65535
  BY <1>0, <1>1, <1>2, <1>3, <1>4, <1>5, <1>6, <1>8, LengthOfIs
<1> QED
  BY <1>7, <1>8

\* From 2^31 to 2^32 the fifth length byte is shifted into the sign of an int:
\* read_message takes the length for another, more than 2^63.
THEOREM LengthLimit ==
  \A n \in Nat : n >= TwoTo31 /\ n < TwoTo32 =>
    LengthOf(LengthBytes(n)) = n + (TwoTo32 - 1) * TwoTo32
<1> SUFFICES ASSUME NEW n \in Nat, n >= TwoTo31, n < TwoTo32
             PROVE  LengthOf(LengthBytes(n)) = n + (TwoTo32 - 1) * TwoTo32
  OBVIOUS
<1> DEFINE b0 == n % 256
           b1 == (n \div 256) % 256
           b2 == (n \div 65536) % 256
           b3 == n \div 16777216
<1>0. n > 65535
  BY DEF TwoTo31
<1>1. n = b0 + 256 * b1 + 65536 * b2 + 16777216 * b3
  BY FourBytes
<1>2. b0 \in 0 .. 255 /\ b1 \in 0 .. 255 /\ b2 \in 0 .. 255
  OBVIOUS
<1>3. b3 \in 128 .. 255
  BY DEF TwoTo31, TwoTo32
<1>4. ByteOf(n, 0) = b0 /\ ByteOf(n, 1) = b1 /\ ByteOf(n, 2) = b2 /\ ByteOf(n, 3) = b3
  BY <1>3 DEF ByteOf
<1> HIDE DEF b0, b1, b2, b3
<1>5. Shifted(b1, 1) = 256 * b1 /\ Shifted(b2, 2) = 65536 * b2
  BY <1>2 DEF Shifted
<1>6. Shifted(b3, 3) = 16777216 * b3 + (TwoTo32 - 1) * TwoTo32
  BY <1>3 DEF Shifted, TwoTo32
<1> QED
  BY <1>0, <1>1, <1>2, <1>3, <1>4, <1>5, <1>6, LengthOfIs DEF TwoTo32
=============================================================================
