----------------------------- MODULE WireBytes -----------------------------
(***************************************************************************)
(* What the proofs about Wire need of its data, for frames of any length   *)
(* that is read back: that exclusive or with the same byte twice gives the *)
(* byte back (XorTwice), so that what one end masks the other unmasks; that *)
(* the header, the length and the data of a frame are read back as they    *)
(* were coded (DecodeHeader ... DecodeMasked); and what order the bytes of *)
(* several frames have on a line that takes them piece by piece (Line),    *)
(* and what of them was read when a reader is in step.  Nothing here is    *)
(* about states: lines, frames and buffers are parameters of the lemmas.   *)
(***************************************************************************)
EXTENDS Wire, FramesProofs, DataTheorems, SequenceTheorems, TLAPS

\* A byte is the sum of its bits,
LEMMA ByteBits ==
  ASSUME NEW a \in Byte
  PROVE  a = (a % 2) + 2 * ((a \div 2) % 2) + 4 * ((a \div 4) % 2) + 8 * ((a \div 8) % 2)
             + 16 * ((a \div 16) % 2) + 32 * ((a \div 32) % 2) + 64 * ((a \div 64) % 2)
             + 128 * ((a \div 128) % 2)
BY SMTT(30) DEF Byte

\* and the bits of a sum of bits are these.
LEMMA BitsOf ==
  ASSUME NEW b0 \in 0 .. 1, NEW b1 \in 0 .. 1, NEW b2 \in 0 .. 1, NEW b3 \in 0 .. 1,
         NEW b4 \in 0 .. 1, NEW b5 \in 0 .. 1, NEW b6 \in 0 .. 1, NEW b7 \in 0 .. 1,
         NEW x, x = b0 + 2 * b1 + 4 * b2 + 8 * b3 + 16 * b4 + 32 * b5 + 64 * b6 + 128 * b7
  PROVE  /\ (x \div 1) % 2 = b0 /\ (x \div 2) % 2 = b1 /\ (x \div 4) % 2 = b2 /\ (x \div 8) % 2 = b3
         /\ (x \div 16) % 2 = b4 /\ (x \div 32) % 2 = b5 /\ (x \div 64) % 2 = b6
         /\ (x \div 128) % 2 = b7
<1>0. x \in Nat
  OBVIOUS
<1>1. (x \div 1) % 2 = b0
  OBVIOUS
<1>2. (x \div 2) % 2 = b1
  OBVIOUS
<1>3. (x \div 4) % 2 = b2
  OBVIOUS
<1>4. (x \div 8) % 2 = b3
  OBVIOUS
<1>5. (x \div 16) % 2 = b4
  OBVIOUS
<1>6. (x \div 32) % 2 = b5
  OBVIOUS
<1>7. (x \div 64) % 2 = b6
  OBVIOUS
<1>8. (x \div 128) % 2 = b7
  OBVIOUS
<1> QED
  BY <1>1, <1>2, <1>3, <1>4, <1>5, <1>6, <1>7, <1>8

\* Exclusive or with the same byte twice gives the byte back, and a byte in between.
LEMMA XorTwice ==
  ASSUME NEW a \in Byte, NEW b \in Byte
  PROVE  Xor(a, b) \in Byte /\ Xor(Xor(a, b), b) = a
<1> DEFINE A(bit) == (a \div bit) % 2
           B(bit) == (b \div bit) % 2
           d(bit) == IF A(bit) = B(bit) THEN 0 ELSE 1
           x == d(1) + 2 * d(2) + 4 * d(4) + 8 * d(8) + 16 * d(16) + 32 * d(32) + 64 * d(64)
                + 128 * d(128)
<1>1. \A bit \in {1, 2, 4, 8, 16, 32, 64, 128} : A(bit) \in 0 .. 1 /\ B(bit) \in 0 .. 1
  BY DEF Byte
<1>2. \A bit \in {1, 2, 4, 8, 16, 32, 64, 128} : Differ(a, b, bit) = bit * d(bit)
  BY DEF Differ
<1>3. \A bit \in {1, 2, 4, 8, 16, 32, 64, 128} : d(bit) \in 0 .. 1
  OBVIOUS
<1>4. Xor(a, b) = x
  <2> HIDE DEF d
  <2> QED
    BY <1>2, <1>3 DEF Xor
<1>5. x \in Byte
  <2> HIDE DEF d
  <2> QED
    BY <1>3 DEF Byte
<1>6. \A bit \in {1, 2, 4, 8, 16, 32, 64, 128} : (x \div bit) % 2 = d(bit)
  <2> HIDE DEF d
  <2>1. /\ (x \div 1) % 2 = d(1) /\ (x \div 2) % 2 = d(2) /\ (x \div 4) % 2 = d(4)
        /\ (x \div 8) % 2 = d(8) /\ (x \div 16) % 2 = d(16) /\ (x \div 32) % 2 = d(32)
        /\ (x \div 64) % 2 = d(64) /\ (x \div 128) % 2 = d(128)
    BY <1>3, BitsOf
  <2> QED
    BY <2>1
<1>7. \A bit \in {1, 2, 4, 8, 16, 32, 64, 128} : Differ(x, b, bit) = bit * A(bit)
  <2> HIDE DEF x
  <2> SUFFICES ASSUME NEW bit \in {1, 2, 4, 8, 16, 32, 64, 128}
               PROVE  Differ(x, b, bit) = bit * A(bit)
    OBVIOUS
  <2>1. (x \div bit) % 2 = IF A(bit) = B(bit) THEN 0 ELSE 1
    BY <1>6
  <2>2. CASE B(bit) = 0
    BY <2>1, <2>2, <1>1 DEF Differ
  <2>3. CASE B(bit) = 1
    BY <2>1, <2>3, <1>1 DEF Differ
  <2> QED
    BY <2>2, <2>3, <1>1
<1>8. Xor(x, b) = a
  <2>1. a = A(1) + 2 * A(2) + 4 * A(4) + 8 * A(8) + 16 * A(16) + 32 * A(32) + 64 * A(64)
            + 128 * A(128)
    <3>1. a \div 1 = a
      BY DEF Byte
    <3> QED
      BY <3>1, ByteBits
  <2> HIDE DEF x, A
  <2> QED
    BY <2>1, <1>7, <1>1 DEF Xor
<1> QED
  BY <1>4, <1>5, <1>8

\* What is masked is unmasked with the same mask: send_from of the client and
\* read_message_content of the server do the same.
LEMMA UnmaskTwice ==
  ASSUME NEW mask \in [1 .. 4 -> Byte], NEW data \in Seq(Byte)
  PROVE  /\ Unmask(mask, data) \in Seq(Byte) /\ Len(Unmask(mask, data)) = Len(data)
         /\ Unmask(mask, Unmask(mask, data)) = data
<1> DEFINE coded == Unmask(mask, data)
<1>1. \A c \in 1 .. Len(data) : ((c - 1) % 4) + 1 \in 1 .. 4
  OBVIOUS
<1>2. /\ coded = [c \in 1 .. Len(data) |-> Xor(data[c], mask[((c - 1) % 4) + 1])]
      /\ \A c \in 1 .. Len(data) : data[c] \in Byte /\ mask[((c - 1) % 4) + 1] \in Byte
  BY <1>1 DEF Unmask
<1>3. \A c \in 1 .. Len(data) : coded[c] \in Byte
  BY <1>2, XorTwice
<1>4. coded \in [1 .. Len(data) -> Byte]
  BY <1>2, <1>3
<1>5. coded \in Seq(Byte) /\ Len(coded) = Len(data) /\ DOMAIN coded = 1 .. Len(data)
  BY <1>4, IsASeq, LenProperties
<1>6. Unmask(mask, coded) = [c \in 1 .. Len(data) |-> Xor(coded[c], mask[((c - 1) % 4) + 1])]
  <2> HIDE DEF coded
  <2> QED
    BY <1>5 DEF Unmask
<1>7. \A c \in 1 .. Len(data) : Xor(coded[c], mask[((c - 1) % 4) + 1]) = data[c]
  BY <1>2, XorTwice
<1>8. data = [c \in 1 .. Len(data) |-> data[c]]
  OBVIOUS
<1> QED
  BY <1>5, <1>6, <1>7, <1>8

-----------------------------------------------------------------------------
\* The length code of a frame with n bytes of data, and its further length bytes.
LEMMA LengthCodeIs ==
  ASSUME NEW n \in Nat
  PROVE  /\ LengthCode(n) \in Nat /\ LengthCode(n) <= 127 /\ NumBytes(LengthCode(n)) \in {0, 2, 8}
         /\ NumBytes(LengthCode(n)) = 0 <=> n < 126
         /\ n < 126 => LengthCode(n) = n
         /\ LengthBytes(n) \in Seq(Byte) /\ Len(LengthBytes(n)) = NumBytes(LengthCode(n))
<1>1. /\ n < 126 => LengthCode(n) = n
      /\ n >= 126 /\ n <= 65535 => LengthCode(n) = 126
      /\ n > 65535 => LengthCode(n) = 127
  BY DEF LengthCode
<1>2. /\ NumBytes(126) = 2 /\ NumBytes(127) = 8 /\ \A c \in 0 .. 125 : NumBytes(c) = 0
  BY DEF NumBytes
<1> DEFINE num == NumBytes(LengthCode(n))
<1>3. num \in {0, 2, 8} /\ (num = 0 <=> n < 126)
  BY <1>1, <1>2
<1>4. LengthBytes(n) = [c \in 1 .. num |-> ByteOf(n, num - c)]
  BY DEF LengthBytes
<1> HIDE DEF num
<1>5. \A c \in 1 .. num : num - c \in 0 .. 7
  BY <1>3
<1>6. \A c \in 1 .. num : ByteOf(n, num - c) \in Byte
  BY <1>5, ByteOfType
<1>7. LengthBytes(n) \in [1 .. num -> Byte]
  BY <1>4, <1>6
<1>8. LengthBytes(n) \in Seq(Byte) /\ Len(LengthBytes(n)) = num
  BY <1>7, <1>3, IsASeq, LenProperties
<1>9. LengthCode(n) \in Nat /\ LengthCode(n) <= 127 /\ (n < 126 => LengthCode(n) = n)
  BY <1>1
<1> QED
  <2>1. NumBytes(LengthCode(n)) \in {0, 2, 8} /\ (NumBytes(LengthCode(n)) = 0 <=> n < 126)
    BY <1>3, Zenon DEF num
  <2>2. LengthBytes(n) \in Seq(Byte) /\ Len(LengthBytes(n)) = NumBytes(LengthCode(n))
    BY <1>8, Zenon DEF num
  <2> QED
    BY <2>1, <2>2, <1>9, Zenon

Code(data) == LengthCode(Len(data))
Num(data)  == NumBytes(LengthCode(Len(data)))
More(data) == LengthBytes(Len(data))

\* The same of the data themselves.
LEMMA NumIs ==
  ASSUME NEW data \in Seq(Byte)
  PROVE  /\ Len(data) \in Nat /\ Code(data) \in Nat /\ Code(data) <= 127 /\ Num(data) \in {0, 2, 8}
         /\ Num(data) = 0 <=> Len(data) < 126
         /\ Len(data) < 126 => Code(data) = Len(data)
         /\ More(data) \in Seq(Byte) /\ Len(More(data)) = Num(data)
<1>1. Len(data) \in Nat
  OBVIOUS
<1> QED
  BY <1>1, LengthCodeIs, Zenon DEF Num, Code, More

\* A byte is a natural number up to 255; the provers need not see the range.
LEMMA ByteIs ==
  /\ \A x \in Byte : x \in Nat /\ x <= 255
  /\ \A x \in Nat : x <= 255 => x \in Byte
BY DEF Byte

\* Three sequences, one behind the other.
LEMMA ThreeParts ==
  ASSUME NEW S, NEW s1 \in Seq(S), NEW s2 \in Seq(S), NEW s3 \in Seq(S)
  PROVE  LET c == (s1 \o s2) \o s3
         IN  /\ c \in Seq(S) /\ Len(c) = Len(s1) + Len(s2) + Len(s3)
             /\ \A i \in 1 .. Len(s1) : c[i] = s1[i]
             /\ \A i \in 1 .. Len(s2) : c[Len(s1) + i] = s2[i]
             /\ \A i \in 1 .. Len(s3) : c[Len(s1) + Len(s2) + i] = s3[i]
<1> DEFINE t == s1 \o s2
           c == t \o s3
<1>1. /\ t \in Seq(S) /\ Len(t) = Len(s1) + Len(s2)
      /\ \A i \in 1 .. Len(s1) : t[i] = s1[i]
      /\ \A i \in 1 .. Len(s2) : t[Len(s1) + i] = s2[i]
  BY TwoParts, SMT
<1> HIDE DEF t
<1>2. t \in Seq(S)
  BY <1>1
<1>4. /\ c \in Seq(S) /\ Len(c) = Len(t) + Len(s3)
      /\ \A i \in 1 .. Len(t) : c[i] = t[i]
      /\ \A i \in 1 .. Len(s3) : c[Len(t) + i] = s3[i]
  BY <1>2, TwoParts, SMT
<1> HIDE DEF c
<1>5. Len(s1) \in Nat /\ Len(s2) \in Nat /\ Len(s3) \in Nat
  OBVIOUS
<1>6. c \in Seq(S) /\ Len(c) = Len(s1) + Len(s2) + Len(s3)
  BY <1>1, <1>4, <1>5
<1>7. \A i \in 1 .. Len(s1) : c[i] = s1[i]
  BY <1>1, <1>4, <1>5
<1>8. \A i \in 1 .. Len(s2) : c[Len(s1) + i] = s2[i]
  BY <1>1, <1>4, <1>5
<1>9. \A i \in 1 .. Len(s3) : c[Len(s1) + Len(s2) + i] = s3[i]
  BY <1>1, <1>4, <1>5
<1> QED
  BY <1>6, <1>7, <1>8, <1>9, Zenon DEF c, t

\* The header of a frame.
LEMMA HeaderIs ==
  ASSUME NEW op \in Byte, NEW data \in Seq(Byte), NEW code \in Byte
  PROVE  LET head == <<op, code>> \o More(data)
         IN  /\ head \in Seq(Byte) /\ Len(head) = 2 + Num(data) /\ head[1] = op /\ head[2] = code
             /\ \A i \in 1 .. Num(data) : head[2 + i] = More(data)[i]
<1> DEFINE two  == <<op, code>>
           more == More(data)
           head == two \o more
<1> PICK num \in {0, 2, 8} : num = Num(data)
  BY NumIs
<1>1. two \in Seq(Byte)
  OBVIOUS
<1>2. Len(two) = 2 /\ two[1] = op /\ two[2] = code
  OBVIOUS
<1>3. more \in Seq(Byte)
  BY NumIs
<1>4. Len(more) = num
  BY NumIs
<1> HIDE DEF two, more
<1>6. /\ head \in Seq(Byte) /\ Len(head) = Len(two) + Len(more)
      /\ \A i \in 1 .. Len(two) : head[i] = two[i]
      /\ \A i \in 1 .. Len(more) : head[Len(two) + i] = more[i]
  BY <1>1, <1>3, TwoParts, SMT
<1> HIDE DEF head
<1>7. Len(head) = 2 + num
  BY <1>2, <1>4, <1>6
<1>8. head[1] = op /\ head[2] = code
  BY <1>2, <1>6
<1>9. \A i \in 1 .. num : head[2 + i] = more[i]
  BY <1>2, <1>4, <1>6
<1> QED
  BY <1>6, <1>7, <1>8, <1>9, Zenon DEF head, two, more

\* The bytes of a frame without a mask, and of one with a mask.
Plain(c, op, data) ==
  /\ c \in Seq(Byte) /\ Len(c) = 2 + Num(data) + Len(data)
  /\ c[1] = op /\ c[2] = Code(data)
  /\ \A i \in 1 .. Num(data) : c[2 + i] = More(data)[i]
  /\ \A i \in 1 .. Len(data) : c[2 + Num(data) + i] = data[i]

Masked(c, op, mask, data) ==
  /\ c \in Seq(Byte) /\ Len(c) = 2 + Num(data) + 4 + Len(data)
  /\ c[1] = op /\ c[2] = Code(data) + 128
  /\ \A i \in 1 .. Num(data) : c[2 + i] = More(data)[i]
  /\ \A i \in 1 .. 4 : c[2 + Num(data) + i] = mask[i]
  /\ \A i \in 1 .. Len(data) : c[2 + Num(data) + 4 + i] = Unmask(mask, data)[i]

\* A frame of the server,
LEMMA EncodePlain ==
  ASSUME NEW op \in Byte, NEW data \in Seq(Byte)
  PROVE  Plain(Encode(op, <<>>, data), op, data)
<1> DEFINE code == Code(data)
           none == <<>>
           head == <<op, code>> \o More(data)
           c    == (head \o none) \o data
<1> PICK num \in {0, 2, 8} : num = Num(data)
  BY NumIs
<1>1. Len(data) \in Nat
  OBVIOUS
<1>2. code \in Byte
  BY NumIs, ByteIs
<1>3. Encode(op, <<>>, data) = c
  <2>1. code + 0 = code
    BY NumIs
  <2> QED
    BY <2>1 DEF Encode, Header, Code, More
<1>4. /\ head \in Seq(Byte) /\ Len(head) = 2 + Num(data) /\ head[1] = op /\ head[2] = code
      /\ \A i \in 1 .. Num(data) : head[2 + i] = More(data)[i]
  <2> HIDE DEF code
  <2> QED
    BY <1>2, HeaderIs, SMT
<1>6. none \in Seq(Byte) /\ Len(none) = 0
  OBVIOUS
<1> HIDE DEF head, none, code
<1>5. head \in Seq(Byte) /\ none \in Seq(Byte)
  BY <1>4, <1>6
<1>7. /\ c \in Seq(Byte) /\ Len(c) = Len(head) + Len(none) + Len(data)
      /\ \A i \in 1 .. Len(head) : c[i] = head[i]
      /\ \A i \in 1 .. Len(data) : c[Len(head) + Len(none) + i] = data[i]
  BY <1>5, ThreeParts, SMT
<1> HIDE DEF c
<1>8. Len(head) = 2 + num /\ Len(none) = 0
  BY <1>4, <1>6
<1>9. Len(c) = 2 + num + Len(data)
  BY <1>1, <1>7, <1>8
<1>10. c[1] = op /\ c[2] = code
  BY <1>4, <1>7, <1>8
<1>11. \A i \in 1 .. num : c[2 + i] = More(data)[i]
  BY <1>4, <1>7, <1>8, SMTT(30)
<1>12. \A i \in 1 .. Len(data) : c[2 + num + i] = data[i]
  BY <1>7, <1>8
<1> QED
  BY <1>3, <1>7, <1>9, <1>10, <1>11, <1>12, Zenon DEF code, Plain

\* and one of the client, have these parts.
LEMMA EncodeMasked ==
  ASSUME NEW op \in Byte, NEW mask \in [1 .. 4 -> Byte], NEW data \in Seq(Byte)
  PROVE  mask # <<>> /\ Masked(Encode(op, mask, data), op, mask, data)
<1> DEFINE code == Code(data) + 128
           head == <<op, code>> \o More(data)
           body == Unmask(mask, data)
           c    == (head \o mask) \o body
<1> PICK num \in {0, 2, 8} : num = Num(data)
  BY NumIs
<1>1. Len(data) \in Nat
  OBVIOUS
<1>2. code \in Byte
  <2>1. Code(data) \in Nat /\ Code(data) <= 127
    BY NumIs
  <2>2. code \in Nat /\ code <= 255
    BY <2>1
  <2> QED
    BY <2>2, ByteIs
<1>3. mask # <<>>
  <2>1. DOMAIN mask # {} /\ DOMAIN <<>> = {}
    OBVIOUS
  <2> QED
    BY <2>1
<1>4. Encode(op, mask, data) = c
  BY <1>3 DEF Encode, Header, Code, More
<1>5. /\ head \in Seq(Byte) /\ Len(head) = 2 + Num(data) /\ head[1] = op /\ head[2] = code
      /\ \A i \in 1 .. Num(data) : head[2 + i] = More(data)[i]
  <2> HIDE DEF code
  <2> QED
    BY <1>2, HeaderIs, SMT
<1>6. mask \in Seq(Byte) /\ Len(mask) = 4
  <2>1. mask = [i \in 1 .. 4 |-> mask[i]] /\ \A i \in 1 .. 4 : mask[i] \in Byte
    OBVIOUS
  <2> QED
    BY <2>1, IsASeq, LenProperties
<1>7. body \in Seq(Byte) /\ Len(body) = Len(data)
  BY UnmaskTwice
<1> HIDE DEF head, body, code
<1>8. head \in Seq(Byte) /\ mask \in Seq(Byte) /\ body \in Seq(Byte)
  BY <1>5, <1>6, <1>7
<1>9. /\ c \in Seq(Byte) /\ Len(c) = Len(head) + Len(mask) + Len(body)
      /\ \A i \in 1 .. Len(head) : c[i] = head[i]
      /\ \A i \in 1 .. Len(mask) : c[Len(head) + i] = mask[i]
      /\ \A i \in 1 .. Len(body) : c[Len(head) + Len(mask) + i] = body[i]
  BY <1>8, ThreeParts, SMTT(30)
<1> HIDE DEF c
<1>10. Len(head) = 2 + num /\ Len(mask) = 4 /\ Len(body) = Len(data)
  BY <1>5, <1>6, <1>7
<1>11. Len(c) = 2 + num + 4 + Len(data)
  BY <1>1, <1>9, <1>10
<1>12. c[1] = op /\ c[2] = code
  <2>1. 1 \in 1 .. Len(head) /\ 2 \in 1 .. Len(head)
    BY <1>10
  <2> QED
    BY <1>5, <1>9, <2>1
<1>13. \A i \in 1 .. num : c[2 + i] = More(data)[i]
  <2> TAKE i \in 1 .. num
  <2>1. 2 + i \in 1 .. Len(head)
    BY <1>10
  <2> QED
    BY <1>5, <1>9, <2>1
<1>14. \A i \in 1 .. 4 : c[2 + num + i] = mask[i]
  BY <1>9, <1>10
<1>15. \A i \in 1 .. Len(data) : c[2 + num + 4 + i] = body[i]
  BY <1>9, <1>10
<1> QED
  BY <1>3, <1>4, <1>9, <1>11, <1>12, <1>13, <1>14, <1>15, Zenon DEF body, code, Masked

Mask == [1 .. 4 -> Byte] \cup {<<>>}

\* What a reader makes of the first two bytes.
LEMMA DecodeHeader ==
  ASSUME NEW op \in Byte, NEW mask \in Mask, NEW data \in Seq(Byte),
         NEW c, c = Encode(op, mask, data)
  PROVE  /\ c \in Seq(Byte) /\ c[1] = op
         /\ Len(c) = 2 + Num(data) + (IF mask = <<>> THEN 0 ELSE 4) + Len(data)
         /\ c[2] % 128 = Code(data) /\ (c[2] >= 128 <=> mask # <<>>)
<1> PICK num \in {0, 2, 8} : num = Num(data)
  BY NumIs
<1> PICK code \in Nat : code = Code(data) /\ code <= 127
  BY NumIs
<1>1. Len(data) \in Nat
  OBVIOUS
<1>2. CASE mask = <<>>
  <2>1. Plain(c, op, data)
    BY <1>2, EncodePlain
  <2>2. /\ c \in Seq(Byte) /\ Len(c) = 2 + num + Len(data) /\ c[1] = op /\ c[2] = code
    BY <2>1 DEF Plain
  <2>3. code % 128 = code /\ ~ (code >= 128)
    BY <1>1
  <2> QED
    BY <2>2, <2>3, <1>1, <1>2
<1>3. CASE mask # <<>>
  <2>1. mask \in [1 .. 4 -> Byte]
    BY <1>3 DEF Mask
  <2>2. Masked(c, op, mask, data)
    BY <2>1, EncodeMasked
  <2>3. /\ c \in Seq(Byte) /\ Len(c) = 2 + num + 4 + Len(data) /\ c[1] = op
        /\ c[2] = code + 128
    BY <2>2 DEF Masked
  <2>4. (code + 128) % 128 = code /\ code + 128 >= 128
    BY <1>1
  <2> QED
    BY <2>3, <2>4, <1>1, <1>3
<1> QED
  BY <1>2, <1>3

\* What it makes of further length bytes.
LEMMA DecodeLength ==
  ASSUME NEW op \in Byte, NEW mask \in Mask, NEW data \in Seq(Byte),
         Num(data) > 0, Len(data) <= MaxLength,
         NEW c, c = Encode(op, mask, data)
  PROVE  LengthOf([i \in 1 .. Num(data) |-> c[2 + i]]) = Len(data)
<1> PICK num \in {0, 2, 8} : num = Num(data)
  BY NumIs
<1>1. Len(data) \in Nat /\ Len(data) > 125 /\ Len(data) < TwoTo31
  <2>1. Len(data) \in Nat
    OBVIOUS
  <2>2. ~ (Len(data) < 126)
    BY NumIs
  <2> QED
    BY <2>1, <2>2 DEF TwoTo31, MaxLength
<1>2. LengthOf(More(data)) = Len(data)
  BY <1>1, LengthRoundTrip DEF More
<1>3. \A i \in 1 .. num : c[2 + i] = More(data)[i]
  <2>1. CASE mask = <<>>
    <3>1. Plain(c, op, data)
      BY <2>1, EncodePlain
    <3> QED
      BY <3>1 DEF Plain
  <2>2. CASE mask \in [1 .. 4 -> Byte]
    <3>1. Masked(c, op, mask, data)
      BY <2>2, EncodeMasked
    <3> QED
      BY <3>1 DEF Masked
  <2> QED
    BY <2>1, <2>2 DEF Mask
<1>4. More(data) = [i \in 1 .. Num(data) |-> More(data)[i]]
  BY DEF LengthBytes, Num, More
<1>5. [i \in 1 .. Num(data) |-> c[2 + i]] = More(data)
  BY <1>3, <1>4
<1> QED
  BY <1>2, <1>5

\* What the client makes of the content.
LEMMA DecodePlain ==
  ASSUME NEW op \in Byte, NEW data \in Seq(Byte),
         NEW c, c = Encode(op, <<>>, data)
  PROVE  [i \in 1 .. Len(data) |-> c[2 + Num(data) + i]] = data
<1> PICK num \in {0, 2, 8} : num = Num(data)
  BY NumIs
<1>1. \A i \in 1 .. Len(data) : c[2 + num + i] = data[i]
  <2>1. Plain(c, op, data)
    BY EncodePlain
  <2> QED
    BY <2>1 DEF Plain
<1>2. [i \in 1 .. Len(data) |-> c[2 + num + i]] = [i \in 1 .. Len(data) |-> data[i]]
  BY <1>1
<1> QED
  <2>1. data = [i \in 1 .. Len(data) |-> data[i]]
    OBVIOUS
  <2> QED
    BY <1>2, <2>1

\* The mask and the data b behind a header, and the data that they are.
Remains(b, c, data) == b = [i \in 1 .. Len(data) + 4 |-> c[2 + Num(data) + i]]
Unmasked(b, length) == Unmask(SubSeq(b, 1, 4), SubSeq(b, 5, 4 + length))

\* What the server makes of it.
LEMMA DecodeMasked ==
  ASSUME NEW op \in Byte, NEW mask \in [1 .. 4 -> Byte], NEW data \in Seq(Byte),
         NEW c, c = Encode(op, mask, data),
         NEW b, Remains(b, c, data)
  PROVE  Unmasked(b, Len(data)) = data
<1> PICK num \in {0, 2, 8} : num = Num(data)
  BY NumIs
<1> DEFINE coded == Unmask(mask, data)
<1>1. num \in Nat /\ Len(data) \in Nat
  OBVIOUS
<1>2. /\ \A i \in 1 .. 4 : c[2 + num + i] = mask[i]
      /\ \A i \in 1 .. Len(data) : c[2 + num + 4 + i] = coded[i]
  <2>1. Masked(c, op, mask, data)
    BY EncodeMasked
  <2> QED
    BY <2>1 DEF Masked
<1>3. /\ coded \in Seq(Byte) /\ Len(coded) = Len(data) /\ Unmask(mask, coded) = data
  BY UnmaskTwice
<1>8. b = [i \in 1 .. Len(data) + 4 |-> c[2 + num + i]]
  BY DEF Remains
<1> HIDE DEF coded
<1>4. \A i \in 1 .. 4 : b[i] = mask[i]
  <2> TAKE i \in 1 .. 4
  <2>1. i \in 1 .. Len(data) + 4
    BY <1>1
  <2> QED
    BY <1>2, <1>8, <2>1
<1>5. \A i \in 5 .. 4 + Len(data) : b[i] = coded[i - 4]
  <2> TAKE i \in 5 .. 4 + Len(data)
  <2>1. i - 4 \in 1 .. Len(data) /\ 2 + num + 4 + (i - 4) = 2 + num + i
        /\ i \in 1 .. Len(data) + 4
    BY <1>1
  <2>2. c[2 + num + 4 + (i - 4)] = coded[i - 4]
    BY <2>1, <1>2, Zenon
  <2> QED
    BY <2>1, <2>2, <1>8
<1>6. SubSeq(b, 1, 4) = mask
  <2>1. /\ SubSeq(b, 1, 4) \in Seq(Byte) /\ Len(SubSeq(b, 1, 4)) = 4
        /\ \A i \in 1 .. 4 : SubSeq(b, 1, 4)[i] = b[1 + i - 1]
    <3>1. \A i \in 1 .. 4 : b[i] \in Byte
      BY <1>4
    <3> QED
      BY <3>1, SubSeqProperties
  <2>2. SubSeq(b, 1, 4) = [i \in 1 .. 4 |-> SubSeq(b, 1, 4)[i]]
    BY <2>1, LenProperties
  <2> QED
    BY <2>1, <2>2, <1>4
<1>7. SubSeq(b, 5, 4 + Len(data)) = coded
  <2>1. coded = [i \in 1 .. Len(data) |-> coded[i]]
    BY <1>3
  <2>2. SubSeq(b, 5, 4 + Len(data)) = [i \in 1 .. Len(data) |-> b[i + 4]]
    BY <1>1
  <2>3. ASSUME NEW i \in 1 .. Len(data) PROVE b[i + 4] = coded[i]
    <3>1. i + 4 \in 5 .. 4 + Len(data) /\ (i + 4) - 4 = i
      BY <1>1
    <3> QED
      BY <3>1, <1>5
  <2> QED
    BY <2>1, <2>2, <2>3, Zenon
<1> QED
  BY <1>3, <1>6, <1>7, Zenon DEF Unmasked

-----------------------------------------------------------------------------
\* The L bytes w of a line, the M writes p under way, the sizes z of the N
\* frames that were sent.
FrameAt(w, i) == w[i][1]
PlaceAt(w, i) == w[i][2]
FrameOf(p, j) == p[j].frame
GoneOf(p, j)  == p[j].gone
Size(z, k)    == Len(z[k].bytes)

LineType(w, L, p, M, z, N) ==
  /\ L \in Nat /\ M \in Nat /\ N \in Nat
  /\ \A k \in 1 .. N : Size(z, k) \in Nat /\ Size(z, k) >= 2
  /\ \A i \in 1 .. L : FrameAt(w, i) \in 1 .. N /\ PlaceAt(w, i) \in Nat /\ PlaceAt(w, i) >= 1
  /\ \A j \in 1 .. M : FrameOf(p, j) \in 1 .. N /\ GoneOf(p, j) \in Nat

PendingRises(p, M) == \A i, j \in 1 .. M : i < j => FrameOf(p, i) < FrameOf(p, j)

SomeLeft(p, M, z) == \A j \in 1 .. M : GoneOf(p, j) < Size(z, FrameOf(p, j))

InFrame(w, L, z) == \A i \in 1 .. L : PlaceAt(w, i) <= Size(z, FrameAt(w, i))

NotYet(w, L, p, M) == \A i \in 1 .. L, j \in 1 .. M :
  FrameAt(w, i) = FrameOf(p, j) => PlaceAt(w, i) <= GoneOf(p, j)

OnLine(w, L, k, a) == \E i \in 1 .. L : FrameAt(w, i) = k /\ PlaceAt(w, i) = a
ToCome(p, M, k, a) == \E j \in 1 .. M : FrameOf(p, j) = k /\ GoneOf(p, j) < a

NoneLost(w, L, p, M, z, N) == \A k \in 1 .. N : \A a \in 1 .. Size(z, k) :
  OnLine(w, L, k, a) \/ ToCome(p, M, k, a)

Unbegun(w, L, p, M) == \A i \in 1 .. L, j \in 1 .. M :
  GoneOf(p, j) = 0 => FrameAt(w, i) < FrameOf(p, j)

Rising(w, L) == \A i, j \in 1 .. L : i < j /\ FrameAt(w, i) = FrameAt(w, j) =>
  PlaceAt(w, i) < PlaceAt(w, j) /\ PlaceAt(w, j) - PlaceAt(w, i) <= j - i

FirstsInOrder(w, L) == \A i, j \in 1 .. L :
  PlaceAt(w, i) = 1 /\ PlaceAt(w, j) = 1 /\ FrameAt(w, i) < FrameAt(w, j) => i < j

Runs(w, L) == \A i, j \in 1 .. L :
  i <= j /\ (\A x \in i .. j : FrameAt(w, x) = FrameAt(w, i))
    => PlaceAt(w, j) = PlaceAt(w, i) + (j - i)

Line(w, L, p, M, z, N) ==
  /\ LineType(w, L, p, M, z, N) /\ PendingRises(p, M) /\ SomeLeft(p, M, z) /\ InFrame(w, L, z)
  /\ NotYet(w, L, p, M) /\ NoneLost(w, L, p, M, z, N) /\ Unbegun(w, L, p, M) /\ Rising(w, L)
  /\ FirstsInOrder(w, L) /\ Runs(w, L)

-----------------------------------------------------------------------------
\* A frame of size m joins the others.
Joins(p, M, z, N, m, p2, z2) ==
  /\ \A k \in 1 .. N : Size(z2, k) = Size(z, k)
  /\ \A j \in 1 .. M : FrameOf(p2, j) = FrameOf(p, j) /\ GoneOf(p2, j) = GoneOf(p, j)
  /\ Size(z2, N + 1) = m /\ FrameOf(p2, M + 1) = N + 1 /\ GoneOf(p2, M + 1) = 0

\* A frame that joins leaves the line right.
LEMMA LineSends ==
  ASSUME NEW w, NEW p, NEW z, NEW L \in Nat, NEW M \in Nat, NEW N \in Nat,
         Line(w, L, p, M, z, N), NEW m \in Nat, m >= 2,
         NEW p2, NEW z2, Joins(p, M, z, N, m, p2, z2)
  PROVE  Line(w, L, p2, M + 1, z2, N + 1)
<1>1. /\ \A k \in 1 .. N : Size(z, k) \in Nat /\ Size(z, k) >= 2
      /\ \A i \in 1 .. L : FrameAt(w, i) \in 1 .. N /\ PlaceAt(w, i) \in Nat /\ PlaceAt(w, i) >= 1
      /\ \A j \in 1 .. M : FrameOf(p, j) \in 1 .. N /\ GoneOf(p, j) \in Nat
  BY DEF Line, LineType
<1>2. ASSUME NEW j \in 1 .. M + 1
      PROVE  \/ j \in 1 .. M /\ FrameOf(p2, j) = FrameOf(p, j) /\ GoneOf(p2, j) = GoneOf(p, j)
             \/ j = M + 1 /\ FrameOf(p2, j) = N + 1 /\ GoneOf(p2, j) = 0
  BY DEF Joins
<1>3. ASSUME NEW k \in 1 .. N + 1
      PROVE  \/ k \in 1 .. N /\ Size(z2, k) = Size(z, k)
             \/ k = N + 1 /\ Size(z2, k) = m
  BY DEF Joins
<1>4. LineType(w, L, p2, M + 1, z2, N + 1)
  <2>1. \A k \in 1 .. N + 1 : Size(z2, k) \in Nat /\ Size(z2, k) >= 2
    BY <1>1, <1>3
  <2>2. \A j \in 1 .. M + 1 : FrameOf(p2, j) \in 1 .. N + 1 /\ GoneOf(p2, j) \in Nat
    BY <1>1, <1>2
  <2> QED
    BY <2>1, <2>2, <1>1 DEF LineType
<1>5. PendingRises(p2, M + 1)
  <2>1. PendingRises(p, M)
    BY DEF Line
  <2> QED
    BY <2>1, <1>1, <1>2 DEF PendingRises
<1>6. SomeLeft(p2, M + 1, z2)
  <2>1. SomeLeft(p, M, z)
    BY DEF Line
  <2> QED
    BY <2>1, <1>1, <1>2, <1>3 DEF SomeLeft
<1>7. InFrame(w, L, z2)
  <2>1. InFrame(w, L, z)
    BY DEF Line
  <2> QED
    BY <2>1, <1>1, <1>3 DEF InFrame
<1>8. NotYet(w, L, p2, M + 1)
  <2>1. NotYet(w, L, p, M)
    BY DEF Line
  <2> QED
    BY <2>1, <1>1, <1>2 DEF NotYet
<1>9. NoneLost(w, L, p2, M + 1, z2, N + 1)
  <2>1. NoneLost(w, L, p, M, z, N)
    BY DEF Line
  <2> SUFFICES ASSUME NEW k \in 1 .. N + 1, NEW a \in 1 .. Size(z2, k)
               PROVE  OnLine(w, L, k, a) \/ ToCome(p2, M + 1, k, a)
    BY DEF NoneLost
  <2>2. CASE k = N + 1
    <3>1. M + 1 \in 1 .. M + 1 /\ FrameOf(p2, M + 1) = N + 1 /\ GoneOf(p2, M + 1) = 0
      BY DEF Joins
    <3>2. Size(z2, k) \in Nat
      BY <2>2, <1>3
    <3>3. a > 0
      BY <3>2
    <3> QED
      BY <2>2, <3>1, <3>3 DEF ToCome
  <2>3. CASE k \in 1 .. N
    <3>1. OnLine(w, L, k, a) \/ ToCome(p, M, k, a)
      BY <2>1, <2>3, <1>3 DEF NoneLost
    <3>2. CASE ToCome(p, M, k, a)
      <4>1. PICK j \in 1 .. M : FrameOf(p, j) = k /\ GoneOf(p, j) < a
        BY <3>2 DEF ToCome
      <4>2. j \in 1 .. M + 1 /\ FrameOf(p2, j) = k /\ GoneOf(p2, j) < a
        BY <4>1, <1>2
      <4> QED
        BY <4>2 DEF ToCome
    <3> QED
      BY <3>1, <3>2
  <2> QED
    BY <2>2, <2>3
<1>10. Unbegun(w, L, p2, M + 1)
  <2>1. Unbegun(w, L, p, M)
    BY DEF Line
  <2> QED
    BY <2>1, <1>1, <1>2 DEF Unbegun
<1> QED
  BY <1>4, <1>5, <1>6, <1>7, <1>8, <1>9, <1>10 DEF Line

\* n bytes of the write i, of the frame k of which g bytes were gone, go to the line.
Moves(w, L, p, M, z, i, k, g, n, w2, p2, M2) ==
  /\ FrameOf(p, i) = k /\ GoneOf(p, i) = g /\ g + n <= Size(z, k)
  /\ g > 0 \/ \A j \in 1 .. i - 1 : GoneOf(p, j) > 0
  /\ \A x \in 1 .. L : FrameAt(w2, x) = FrameAt(w, x) /\ PlaceAt(w2, x) = PlaceAt(w, x)
  /\ \A t \in 1 .. n : FrameAt(w2, L + t) = k /\ PlaceAt(w2, L + t) = g + t
  /\ PendingRises(p2, M2)
  /\ \A j \in 1 .. M2 :
       \/ FrameOf(p2, j) = k /\ GoneOf(p2, j) = g + n /\ g + n < Size(z, k)
       \/ FrameOf(p2, j) # k /\ \E j0 \in 1 .. M :
            FrameOf(p2, j) = FrameOf(p, j0) /\ GoneOf(p2, j) = GoneOf(p, j0)
  /\ \A j0 \in 1 .. M : j0 # i => \E j \in 1 .. M2 :
            FrameOf(p2, j) = FrameOf(p, j0) /\ GoneOf(p2, j) = GoneOf(p, j0)
  /\ g + n < Size(z, k) => \E j \in 1 .. M2 : FrameOf(p2, j) = k /\ GoneOf(p2, j) = g + n

\* A transfer leaves the line right.
LEMMA LineMoves ==
  ASSUME NEW w, NEW p, NEW z, NEW L \in Nat, NEW M \in Nat, NEW N \in Nat,
         Line(w, L, p, M, z, N), NEW i \in 1 .. M, NEW k \in 1 .. N, NEW g \in Nat,
         NEW n \in Nat, n >= 1, NEW w2, NEW p2, NEW M2 \in Nat,
         Moves(w, L, p, M, z, i, k, g, n, w2, p2, M2)
  PROVE  Line(w2, L + n, p2, M2, z, N)
<1>1. /\ \A x \in 1 .. N : Size(z, x) \in Nat /\ Size(z, x) >= 2
      /\ \A x \in 1 .. L : FrameAt(w, x) \in 1 .. N /\ PlaceAt(w, x) \in Nat /\ PlaceAt(w, x) >= 1
      /\ \A j \in 1 .. M : FrameOf(p, j) \in 1 .. N /\ GoneOf(p, j) \in Nat
  BY DEF Line, LineType
<1>2. FrameOf(p, i) = k /\ GoneOf(p, i) = g /\ g + n <= Size(z, k)
  BY DEF Moves
<1>3. ASSUME NEW x \in 1 .. L + n
      PROVE  \/ /\ x \in 1 .. L
                /\ FrameAt(w2, x) = FrameAt(w, x) /\ PlaceAt(w2, x) = PlaceAt(w, x)
             \/ x > L /\ FrameAt(w2, x) = k /\ PlaceAt(w2, x) = g + (x - L)
  <2>1. CASE x <= L
    BY <2>1 DEF Moves
  <2>2. CASE ~ (x <= L)
    <3> DEFINE t == x - L
    <3>1. t \in 1 .. n /\ L + t = x
      BY <2>2
    <3>2. FrameAt(w2, L + t) = k /\ PlaceAt(w2, L + t) = g + t
      <4> HIDE DEF t
      <4> QED
        BY <3>1 DEF Moves
    <3> QED
      BY <2>2, <3>1, <3>2
  <2> QED
    BY <2>1, <2>2
<1>p1. ASSUME NEW j \in 1 .. M2
       PROVE  \/ FrameOf(p2, j) = k /\ GoneOf(p2, j) = g + n /\ g + n < Size(z, k)
              \/ FrameOf(p2, j) # k /\ \E j0 \in 1 .. M :
                   FrameOf(p2, j) = FrameOf(p, j0) /\ GoneOf(p2, j) = GoneOf(p, j0)
  BY DEF Moves
\* The bytes of k that are gone are on the line; none further is.
<1>i1. \A j \in 1 .. M : FrameOf(p, j) = k => j = i
  <2>1. PendingRises(p, M)
    BY DEF Line
  <2> QED
    BY <2>1, <1>1, <1>2 DEF PendingRises
<1>i2. \A x \in 1 .. L : FrameAt(w, x) = k => PlaceAt(w, x) <= g
  <2>1. NotYet(w, L, p, M)
    BY DEF Line
  <2> QED
    BY <2>1, <1>2 DEF NotYet
<1>i3. ASSUME NEW a \in 1 .. g PROVE \E x \in 1 .. L : FrameAt(w, x) = k /\ PlaceAt(w, x) = a
  <2>1. a \in 1 .. Size(z, k)
    BY <1>1, <1>2
  <2>2. OnLine(w, L, k, a) \/ ToCome(p, M, k, a)
    BY <2>1 DEF Line, NoneLost
  <2>3. ~ ToCome(p, M, k, a)
    BY <1>i1, <1>2 DEF ToCome
  <2> QED
    BY <2>2, <2>3 DEF OnLine
<1>i4. ASSUME g = 0, NEW x \in 1 .. L PROVE FrameAt(w, x) < k
  <2>1. Unbegun(w, L, p, M)
    BY DEF Line
  <2> QED
    BY <2>1, <1>2, <1>i4 DEF Unbegun
<1>i5. ASSUME g = 0, NEW j \in 1 .. M, FrameOf(p, j) # k, GoneOf(p, j) = 0
       PROVE  k < FrameOf(p, j)
  <2>1. g > 0 \/ \A x \in 1 .. i - 1 : GoneOf(p, x) > 0
    BY DEF Moves
  <2>2. i < j
    BY <2>1, <1>2, <1>i5
  <2>3. PendingRises(p, M)
    BY DEF Line
  <2> QED
    BY <2>2, <2>3, <1>2 DEF PendingRises
<1>6. LineType(w2, L + n, p2, M2, z, N)
  <2>1. \A x \in 1 .. L + n :
          FrameAt(w2, x) \in 1 .. N /\ PlaceAt(w2, x) \in Nat /\ PlaceAt(w2, x) >= 1
    BY <1>1, <1>3
  <2>2. \A j \in 1 .. M2 : FrameOf(p2, j) \in 1 .. N /\ GoneOf(p2, j) \in Nat
    BY <1>1, <1>p1
  <2> QED
    BY <1>1, <2>1, <2>2 DEF LineType
<1>7. PendingRises(p2, M2)
  BY DEF Moves
<1>8. SomeLeft(p2, M2, z)
  <2>1. SomeLeft(p, M, z)
    BY DEF Line
  <2> QED
    BY <2>1, <1>p1 DEF SomeLeft
<1>9. InFrame(w2, L + n, z)
  <2>1. InFrame(w, L, z)
    BY DEF Line
  <2> QED
    BY <2>1, <1>1, <1>2, <1>3 DEF InFrame
<1>10. NotYet(w2, L + n, p2, M2)
  <2>1. NotYet(w, L, p, M)
    BY DEF Line
  <2> SUFFICES ASSUME NEW x \in 1 .. L + n, NEW j \in 1 .. M2, FrameAt(w2, x) = FrameOf(p2, j)
               PROVE  PlaceAt(w2, x) <= GoneOf(p2, j)
    BY DEF NotYet
  <2>2. CASE FrameOf(p2, j) = k
    BY <2>2, <1>p1, <1>1, <1>3, <1>i2
  <2>3. CASE FrameOf(p2, j) # k
    BY <2>1, <2>3, <1>p1, <1>3 DEF NotYet
  <2> QED
    BY <2>2, <2>3
<1>11. NoneLost(w2, L + n, p2, M2, z, N)
  <2> SUFFICES ASSUME NEW f \in 1 .. N, NEW a \in 1 .. Size(z, f)
               PROVE  OnLine(w2, L + n, f, a) \/ ToCome(p2, M2, f, a)
    BY DEF NoneLost
  <2>0. a \in Nat /\ Size(z, f) \in Nat
    BY <1>1
  <2>1. OnLine(w, L, f, a) \/ ToCome(p, M, f, a)
    BY DEF Line, NoneLost
  <2>2. CASE OnLine(w, L, f, a)
    <3>1. PICK x \in 1 .. L : FrameAt(w, x) = f /\ PlaceAt(w, x) = a
      BY <2>2 DEF OnLine
    <3>2. x \in 1 .. L + n /\ FrameAt(w2, x) = f /\ PlaceAt(w2, x) = a
      BY <3>1, <1>3
    <3> QED
      BY <3>2 DEF OnLine
  <2>3. CASE ToCome(p, M, f, a)
    <3>1. PICK j0 \in 1 .. M : FrameOf(p, j0) = f /\ GoneOf(p, j0) < a
      BY <2>3 DEF ToCome
    <3>2. CASE j0 # i
      <4>1. PICK j \in 1 .. M2 : FrameOf(p2, j) = FrameOf(p, j0) /\ GoneOf(p2, j) = GoneOf(p, j0)
        BY <3>2 DEF Moves
      <4> QED
        BY <3>1, <4>1 DEF ToCome
    <3>3. CASE j0 = i /\ a <= g + n
      <4> DEFINE x == L + (a - g)
      <4>1. f = k /\ x \in 1 .. L + n /\ x > L /\ g + (x - L) = a
        BY <2>0, <3>1, <3>3, <1>2
      <4>2. FrameAt(w2, x) = k /\ PlaceAt(w2, x) = a
        <5> HIDE DEF x
        <5> QED
          BY <4>1, <1>3
      <4> QED
        BY <4>1, <4>2 DEF OnLine
    <3>4. CASE j0 = i /\ ~ (a <= g + n)
      <4>1. f = k /\ g + n < Size(z, k) /\ g + n < a
        BY <2>0, <3>1, <3>4, <1>2
      <4>2. PICK j \in 1 .. M2 : FrameOf(p2, j) = k /\ GoneOf(p2, j) = g + n
        BY <4>1 DEF Moves
      <4> QED
        BY <4>1, <4>2 DEF ToCome
    <3> QED
      BY <3>2, <3>3, <3>4
  <2> QED
    BY <2>1, <2>2, <2>3
<1>12. Unbegun(w2, L + n, p2, M2)
  <2>1. Unbegun(w, L, p, M)
    BY DEF Line
  <2> SUFFICES ASSUME NEW x \in 1 .. L + n, NEW j \in 1 .. M2, GoneOf(p2, j) = 0
               PROVE  FrameAt(w2, x) < FrameOf(p2, j)
    BY DEF Unbegun
  <2>2. PICK j0 \in 1 .. M : FrameOf(p2, j) = FrameOf(p, j0) /\ GoneOf(p, j0) = 0
                             /\ FrameOf(p, j0) # k
    BY <1>p1
  <2>3. CASE x \in 1 .. L
    BY <2>1, <2>2, <2>3, <1>3 DEF Unbegun
  <2>4. CASE x \notin 1 .. L
    <3>0. FrameAt(w2, x) = k
      BY <2>4, <1>3
    <3>1. CASE g = 0
      BY <3>0, <3>1, <2>2, <1>i5
    <3>2. CASE g > 0
      <4>1. PICK x0 \in 1 .. L : FrameAt(w, x0) = k
        BY <3>2, <1>i3
      <4>2. FrameAt(w, x0) < FrameOf(p, j0)
        BY <2>1, <2>2 DEF Unbegun
      <4> QED
        BY <4>1, <4>2, <3>0, <2>2
    <3> QED
      BY <3>1, <3>2
  <2> QED
    BY <2>3, <2>4
<1>13. Rising(w2, L + n)
  <2>1. Rising(w, L)
    BY DEF Line
  <2> SUFFICES ASSUME NEW x \in 1 .. L + n, NEW y \in 1 .. L + n,
                      x < y, FrameAt(w2, x) = FrameAt(w2, y)
               PROVE  PlaceAt(w2, x) < PlaceAt(w2, y) /\ PlaceAt(w2, y) - PlaceAt(w2, x) <= y - x
    BY DEF Rising
  <2>2. CASE y \in 1 .. L
    <3>1. /\ x \in 1 .. L /\ FrameAt(w, x) = FrameAt(w, y)
          /\ PlaceAt(w2, x) = PlaceAt(w, x) /\ PlaceAt(w2, y) = PlaceAt(w, y)
      BY <2>2, <1>3
    <3> QED
      BY <2>1, <2>2, <3>1 DEF Rising
  <2>3. CASE x \notin 1 .. L
    <3>1. PlaceAt(w2, x) = g + (x - L) /\ PlaceAt(w2, y) = g + (y - L)
      BY <2>3, <1>3
    <3> QED
      BY <3>1
  <2>4. CASE x \in 1 .. L /\ y \notin 1 .. L
    <3>1. PlaceAt(w2, y) = g + (y - L) /\ y > L /\ FrameAt(w2, y) = k
      BY <2>4, <1>3
    <3>2. FrameAt(w, x) = k /\ PlaceAt(w2, x) = PlaceAt(w, x)
      BY <2>4, <3>1, <1>3
    <3>3. PlaceAt(w, x) \in Nat /\ PlaceAt(w, x) >= 1 /\ PlaceAt(w, x) <= g
      BY <2>4, <3>2, <1>1, <1>i2
    <3>4. PICK x0 \in 1 .. L : FrameAt(w, x0) = k /\ PlaceAt(w, x0) = g
      BY <3>3, <1>i3
    <3>5. x <= x0 /\ g - PlaceAt(w, x) <= x0 - x
      <4>1. CASE x0 < x
        <5>1. PlaceAt(w, x0) < PlaceAt(w, x)
          BY <4>1, <2>1, <2>4, <3>2, <3>4 DEF Rising
        <5> QED
          BY <5>1, <3>3, <3>4
      <4>2. CASE x < x0
        BY <4>2, <2>1, <2>4, <3>2, <3>4 DEF Rising
      <4>3. CASE x = x0
        BY <4>3, <3>3, <3>4
      <4> QED
        BY <4>1, <4>2, <4>3, <2>4
    <3> QED
      BY <3>1, <3>2, <3>3, <3>5
  <2> QED
    BY <2>2, <2>3, <2>4
<1>14. FirstsInOrder(w2, L + n)
  <2>1. FirstsInOrder(w, L)
    BY DEF Line
  <2> SUFFICES ASSUME NEW x \in 1 .. L + n, NEW y \in 1 .. L + n, PlaceAt(w2, x) = 1,
                      PlaceAt(w2, y) = 1, FrameAt(w2, x) < FrameAt(w2, y)
               PROVE  x < y
    BY DEF FirstsInOrder
  <2>2. CASE x \in 1 .. L
    BY <2>1, <2>2, <1>3 DEF FirstsInOrder
  <2>3. CASE x \notin 1 .. L
    <3>1. g = 0 /\ FrameAt(w2, x) = k
      BY <2>3, <1>3
    <3>2. y \in 1 .. L /\ FrameAt(w2, y) = FrameAt(w, y)
      BY <3>1, <1>3
    <3>3. FrameAt(w, y) < k /\ FrameAt(w, y) \in Nat
      BY <3>1, <3>2, <1>i4, <1>1
    <3> QED
      BY <3>1, <3>2, <3>3
  <2> QED
    BY <2>2, <2>3
<1>15. Runs(w2, L + n)
  <2>1. Runs(w, L)
    BY DEF Line
  <2> SUFFICES ASSUME NEW x \in 1 .. L + n, NEW y \in 1 .. L + n, x <= y,
                      \A v \in x .. y : FrameAt(w2, v) = FrameAt(w2, x)
               PROVE  PlaceAt(w2, y) = PlaceAt(w2, x) + (y - x)
    BY DEF Runs
  <2>2. CASE y \in 1 .. L
    <3>1. /\ x \in 1 .. L /\ FrameAt(w2, x) = FrameAt(w, x)
          /\ PlaceAt(w2, x) = PlaceAt(w, x) /\ PlaceAt(w2, y) = PlaceAt(w, y)
      BY <2>2, <1>3
    <3>2. \A v \in x .. y : FrameAt(w, v) = FrameAt(w, x)
      BY <2>2, <3>1, <1>3
    <3> QED
      BY <2>1, <2>2, <3>1, <3>2 DEF Runs
  <2>3. CASE x \notin 1 .. L
    <3>1. PlaceAt(w2, x) = g + (x - L) /\ PlaceAt(w2, y) = g + (y - L)
      BY <2>3, <1>3
    <3> QED
      BY <3>1
  <2>4. CASE x \in 1 .. L /\ y \notin 1 .. L
    <3>1. y > L /\ FrameAt(w2, y) = k /\ PlaceAt(w2, y) = g + (y - L)
      BY <2>4, <1>3
    <3>2. FrameAt(w, x) = k /\ PlaceAt(w2, x) = PlaceAt(w, x)
      BY <2>4, <3>1, <1>3
    <3>3. \A v \in x .. L : FrameAt(w, v) = FrameAt(w, x)
      <4> TAKE v \in x .. L
      <4>1. v \in x .. y /\ v \in 1 .. L /\ v \in 1 .. L + n
        BY <2>4, <3>1
      <4> QED
        BY <4>1, <1>3, <2>4
    <3>4. L \in 1 .. L /\ L \in x .. L /\ FrameAt(w, L) = k
      BY <2>4, <3>2, <3>3
    <3>5. PlaceAt(w, L) = PlaceAt(w, x) + (L - x)
      BY <2>1, <2>4, <3>3, <3>4 DEF Runs
    <3>6. PlaceAt(w, L) = g
      <4>1. PlaceAt(w, L) \in Nat /\ PlaceAt(w, L) >= 1 /\ PlaceAt(w, L) <= g
        BY <3>4, <1>1, <1>i2
      <4>2. PICK x0 \in 1 .. L : FrameAt(w, x0) = k /\ PlaceAt(w, x0) = g
        BY <4>1, <1>i3
      <4>3. CASE x0 < L
        <5>1. Rising(w, L)
          BY DEF Line
        <5>2. PlaceAt(w, x0) < PlaceAt(w, L)
          BY <5>1, <4>2, <4>3, <3>4 DEF Rising
        <5> QED
          BY <5>2, <4>1, <4>2
      <4> QED
        BY <4>2, <4>3
    <3>7. PlaceAt(w, x) \in Nat
      BY <2>4, <1>1
    <3> QED
      BY <3>1, <3>2, <3>5, <3>6, <3>7, <2>4
  <2> QED
    BY <2>2, <2>3, <2>4
<1> QED
  BY <1>6, <1>7, <1>8, <1>9, <1>10, <1>11, <1>12, <1>13, <1>14, <1>15 DEF Line

-----------------------------------------------------------------------------
\* What was taken from the front of a line: of its first c bytes, the first h of
\* the frame k; the frames up to f whole; none of a frame after f.
Met(w, c, k, h) ==
  /\ \A a \in 1 .. h : OnLine(w, c, k, a)
  /\ \A i \in 1 .. c : FrameAt(w, i) = k => PlaceAt(w, i) <= h
AllMet(w, c, z, f) == \A k \in 1 .. f : \A a \in 1 .. Size(z, k) : OnLine(w, c, k, a)
Within(w, c, f) == \A i \in 1 .. c : FrameAt(w, i) <= f

\* The next n bytes: of which frame they are, and from which place on.
AllOf(w, c, n, k)    == \A x \in c + 1 .. c + n : FrameAt(w, x) = k
Numbered(w, c, n, h) == \A x \in c + 1 .. c + n : PlaceAt(w, x) = h + (x - c)

\* Two frames overlap on a line.
TornLine(w, L, p, M) == \E i \in 1 .. L - 1 :
  /\ FrameAt(w, i) # FrameAt(w, i + 1)
  /\ \/ \E x \in i + 1 .. L : FrameAt(w, x) = FrameAt(w, i)
     \/ \E j \in 1 .. M : FrameOf(p, j) = FrameAt(w, i)

\* What a line is made of.
LEMMA LineTypes ==
  ASSUME NEW w, NEW p, NEW z, NEW L \in Nat, NEW M \in Nat, NEW N \in Nat,
         Line(w, L, p, M, z, N)
  PROVE  /\ \A x \in 1 .. N : Size(z, x) \in Nat /\ Size(z, x) >= 2
         /\ \A x \in 1 .. L : FrameAt(w, x) \in 1 .. N /\ PlaceAt(w, x) \in Nat /\ PlaceAt(w, x) >= 1
         /\ \A j \in 1 .. M : FrameOf(p, j) \in 1 .. N /\ GoneOf(p, j) \in Nat
BY DEF Line, LineType

\* The greatest of the naturals up to n with a property.
LEMMA LastOne ==
  ASSUME NEW n \in Nat, NEW S \in SUBSET (1 .. n), S # {}
  PROVE  \E y \in S : \A x \in S : x <= y
<1> DEFINE T == {m \in Nat : n - m \in S}
<1>1. PICK x0 \in S : TRUE
  OBVIOUS
<1>2. n - x0 \in Nat /\ n - (n - x0) = x0
  OBVIOUS
<1>3. T \in SUBSET Nat /\ T # {}
  BY <1>1, <1>2
<1> HIDE DEF T
<1>4. Min(T) \in T /\ \A y \in T : Min(T) <= y
  BY <1>3, MinIsLeast
<1>5. PICK m \in T : \A y \in T : m <= y
  BY <1>4
<1>6. m \in Nat /\ n - m \in S
  BY <1>5 DEF T
<1>7. ASSUME NEW x \in S PROVE x <= n - m
  <2>1. n - x \in Nat /\ n - (n - x) = x
    OBVIOUS
  <2>2. n - x \in T
    BY <2>1 DEF T
  <2> QED
    BY <1>5, <1>6, <2>1, <2>2
<1> QED
  BY <1>6, <1>7

\* Behind the first h bytes of a frame, the bytes of that frame come with the
\* next numbers.
LEMMA NextBytes ==
  ASSUME NEW w, NEW p, NEW z, NEW L \in Nat, NEW M \in Nat, NEW N \in Nat,
         Line(w, L, p, M, z, N), NEW c \in Nat, NEW n \in Nat, c + n <= L,
         NEW k \in 1 .. N, NEW h \in Nat, Met(w, c, k, h),
         AllOf(w, c, n, k)
  PROVE  Numbered(w, c, n, h) /\ (n > 0 => h + n <= Size(z, k))
<1>0. \A x \in c + 1 .. c + n : FrameAt(w, x) = k
  BY DEF AllOf
<1>1. CASE n = 0
  BY <1>1 DEF Numbered
<1>2. CASE n > 0
  <2> DEFINE s == c + 1
  <2>1. s \in 1 .. L /\ s \in c + 1 .. c + n /\ FrameAt(w, s) = k
    BY <1>0, <1>2
  <2>2. PlaceAt(w, s) \in Nat /\ PlaceAt(w, s) >= 1 /\ Size(z, k) \in Nat
    <3> HIDE DEF s
    <3> QED
      BY <2>1, LineTypes
  <2>i. InFrame(w, L, z) /\ Rising(w, L) /\ NotYet(w, L, p, M)
    BY DEF Line
  <2>3. PlaceAt(w, s) <= Size(z, k)
    BY <2>i, <2>1 DEF InFrame
  <2>4. PlaceAt(w, s) > h
    <3> SUFFICES ASSUME PlaceAt(w, s) <= h PROVE FALSE
      BY <2>2
    <3>1. PICK i \in 1 .. c : FrameAt(w, i) = k /\ PlaceAt(w, i) = PlaceAt(w, s)
      BY <2>2 DEF Met, OnLine
    <3>2. i \in 1 .. L /\ i < s
      OBVIOUS
    <3>3. PlaceAt(w, i) < PlaceAt(w, s)
      BY <2>i, <2>1, <3>1, <3>2 DEF Rising
    <3> QED
      BY <3>1, <3>3, <2>2
  <2>5. PlaceAt(w, s) = h + 1
    <3> SUFFICES ASSUME PlaceAt(w, s) > h + 1 PROVE FALSE
      BY <2>2, <2>4
    <3>1. h + 1 \in 1 .. Size(z, k)
      BY <2>2, <2>3
    <3>2. OnLine(w, L, k, h + 1) \/ ToCome(p, M, k, h + 1)
      BY <3>1 DEF Line, NoneLost
    <3>3. CASE OnLine(w, L, k, h + 1)
      <4>1. PICK y \in 1 .. L : FrameAt(w, y) = k /\ PlaceAt(w, y) = h + 1
        BY <3>3 DEF OnLine
      <4>2. CASE y \in 1 .. c
        BY <4>1, <4>2 DEF Met
      <4>3. CASE y = s
        BY <4>1, <4>3
      <4>4. CASE y > s
        <5>1. PlaceAt(w, s) < PlaceAt(w, y)
          BY <2>i, <2>1, <4>1, <4>4 DEF Rising
        <5> QED
          BY <5>1, <4>1, <2>2
      <4> QED
        BY <4>2, <4>3, <4>4
    <3>4. CASE ToCome(p, M, k, h + 1)
      <4>1. PICK j \in 1 .. M : FrameOf(p, j) = k /\ GoneOf(p, j) < h + 1
        BY <3>4 DEF ToCome
      <4>2. PlaceAt(w, s) <= GoneOf(p, j)
        BY <2>i, <2>1, <4>1 DEF NotYet
      <4>3. GoneOf(p, j) \in Nat
        BY LineTypes
      <4> QED
        BY <4>1, <4>2, <4>3, <2>2
    <3> QED
      BY <3>2, <3>3, <3>4
  <2>6. ASSUME NEW x \in c + 1 .. c + n PROVE PlaceAt(w, x) = h + (x - c)
    <3>1. s \in 1 .. L /\ x \in 1 .. L /\ s <= x
      OBVIOUS
    <3>2. \A v \in s .. x : FrameAt(w, v) = FrameAt(w, s)
      <4> TAKE v \in s .. x
      <4>1. v \in c + 1 .. c + n
        OBVIOUS
      <4> QED
        BY <4>1, <2>1, <1>0
    <3>3. PlaceAt(w, x) = PlaceAt(w, s) + (x - s)
      <4>1. Runs(w, L)
        BY DEF Line
      <4> HIDE DEF s
      <4> QED
        BY <4>1, <3>1, <3>2 DEF Runs
    <3> QED
      BY <3>3, <2>5
  <2>7. h + n <= Size(z, k)
    <3>1. c + n \in 1 .. L /\ c + n \in c + 1 .. c + n
      BY <1>2
    <3>2. PlaceAt(w, c + n) = h + ((c + n) - c) /\ FrameAt(w, c + n) = k
      BY <2>6, <3>1, <1>0
    <3>3. PlaceAt(w, c + n) <= Size(z, k)
      BY <2>i, <3>1, <3>2 DEF InFrame
    <3> QED
      BY <3>2, <3>3
  <2> QED
    BY <2>6, <2>7 DEF Numbered
<1> QED
  BY <1>1, <1>2

\* The bytes taken count as met.
LEMMA MetMore ==
  ASSUME NEW w, NEW p, NEW z, NEW L \in Nat, NEW M \in Nat, NEW N \in Nat,
         Line(w, L, p, M, z, N), NEW c \in Nat, NEW n \in Nat, c + n <= L,
         NEW k \in 1 .. N, NEW h \in Nat, Met(w, c, k, h),
         AllOf(w, c, n, k)
  PROVE  Met(w, c + n, k, h + n)
<1>1. \A x \in c + 1 .. c + n : FrameAt(w, x) = k /\ PlaceAt(w, x) = h + (x - c)
  <2>1. Numbered(w, c, n, h)
    BY NextBytes
  <2> QED
    BY <2>1 DEF Numbered, AllOf
<1>2. ASSUME NEW a \in 1 .. h + n PROVE OnLine(w, c + n, k, a)
  <2>1. CASE a \in 1 .. h
    <3>1. PICK i \in 1 .. c : FrameAt(w, i) = k /\ PlaceAt(w, i) = a
      BY <2>1 DEF Met, OnLine
    <3>2. i \in 1 .. c + n
      OBVIOUS
    <3> QED
      BY <3>1, <3>2 DEF OnLine
  <2>2. CASE a \notin 1 .. h
    <3> DEFINE x == c + (a - h)
    <3>1. x \in c + 1 .. c + n /\ x \in 1 .. c + n /\ h + (x - c) = a
      BY <2>2
    <3> HIDE DEF x
    <3>2. FrameAt(w, x) = k /\ PlaceAt(w, x) = a
      BY <3>1, <1>1
    <3> QED
      BY <3>1, <3>2 DEF OnLine
  <2> QED
    BY <2>1, <2>2
<1>3. ASSUME NEW i \in 1 .. c + n, FrameAt(w, i) = k PROVE PlaceAt(w, i) <= h + n
  <2>1. i \in 1 .. L
    OBVIOUS
  <2>2. PlaceAt(w, i) \in Nat
    BY <2>1, LineTypes
  <2>3. CASE i \in 1 .. c
    <3>1. PlaceAt(w, i) <= h
      BY <2>3, <1>3 DEF Met
    <3> QED
      BY <3>1, <2>2
  <2>4. CASE i \in c + 1 .. c + n
    BY <2>4, <1>1
  <2> QED
    BY <2>3, <2>4
<1> QED
  BY <1>2, <1>3 DEF Met

\* Behind whole frames comes the next one.
LEMMA NoOldFrame ==
  ASSUME NEW w, NEW p, NEW z, NEW L \in Nat, NEW M \in Nat, NEW N \in Nat,
         Line(w, L, p, M, z, N), NEW c \in Nat, NEW f \in 0 .. N,
         AllMet(w, c, z, f), NEW x \in c + 1 .. L
  PROVE  FrameAt(w, x) > f
<1>0. x \in 1 .. L
  OBVIOUS
<1>1. FrameAt(w, x) \in 1 .. N /\ PlaceAt(w, x) \in Nat /\ PlaceAt(w, x) >= 1
  BY <1>0, LineTypes
<1> SUFFICES ASSUME FrameAt(w, x) <= f PROVE FALSE
  BY <1>1
<1>2. PlaceAt(w, x) <= Size(z, FrameAt(w, x)) /\ Size(z, FrameAt(w, x)) \in Nat
  BY <1>0, <1>1, LineTypes DEF Line, InFrame
<1>3. FrameAt(w, x) \in 1 .. f /\ PlaceAt(w, x) \in 1 .. Size(z, FrameAt(w, x))
  BY <1>1, <1>2
<1>4. PICK i \in 1 .. c : FrameAt(w, i) = FrameAt(w, x) /\ PlaceAt(w, i) = PlaceAt(w, x)
  BY <1>3 DEF AllMet, OnLine
<1>5. i \in 1 .. L /\ i < x
  OBVIOUS
<1>6. PlaceAt(w, i) < PlaceAt(w, x)
  BY <1>0, <1>4, <1>5 DEF Line, Rising
<1> QED
  BY <1>1, <1>4, <1>6

\* Behind frames that are whole the next frame begins.
LEMMA NextFrame ==
  ASSUME NEW w, NEW p, NEW z, NEW L \in Nat, NEW M \in Nat, NEW N \in Nat,
         Line(w, L, p, M, z, N), NEW c \in Nat, NEW f \in 0 .. N, c + 1 <= L,
         AllMet(w, c, z, f), Within(w, c, f)
  PROVE  FrameAt(w, c + 1) = f + 1
<1> DEFINE x == c + 1
<1>0. x \in 1 .. L /\ x \in c + 1 .. L
  OBVIOUS
<1> PICK k \in 1 .. N : k = FrameAt(w, x)
  BY <1>0, LineTypes
<1>1. k > f
  BY <1>0, NoOldFrame
<1> SUFFICES ASSUME k > f + 1 PROVE FALSE
  BY <1>1
<1>2. Met(w, c, k, 0)
  <2>1. \A i \in 1 .. c : FrameAt(w, i) # k
    <3> TAKE i \in 1 .. c
    <3>1. i \in 1 .. L
      OBVIOUS
    <3>2. FrameAt(w, i) <= f /\ FrameAt(w, i) \in 1 .. N
      BY <3>1, LineTypes DEF Within
    <3> QED
      BY <3>2, <1>1
  <2> QED
    BY <2>1 DEF Met
<1>3. AllOf(w, c, 1, k)
  BY DEF AllOf
<1>4. PlaceAt(w, x) = 1
  <2>1. PlaceAt(w, x) = 0 + (x - c)
    <3>1. Numbered(w, c, 1, 0)
      BY <1>2, <1>3, NextBytes
    <3> QED
      BY <3>1 DEF Numbered
  <2> QED
    BY <2>1
<1>5. f + 1 \in 1 .. N /\ 1 \in 1 .. Size(z, f + 1)
  <2>1. f + 1 \in 1 .. N
    OBVIOUS
  <2>2. Size(z, f + 1) \in Nat /\ Size(z, f + 1) >= 2
    BY <2>1, LineTypes
  <2> QED
    BY <2>1, <2>2
<1>6. OnLine(w, L, f + 1, 1) \/ ToCome(p, M, f + 1, 1)
  BY <1>5 DEF Line, NoneLost
<1>7. CASE OnLine(w, L, f + 1, 1)
  <2>1. PICK i \in 1 .. L : FrameAt(w, i) = f + 1 /\ PlaceAt(w, i) = 1
    BY <1>7 DEF OnLine
  <2>2. i < x
    <3>1. FirstsInOrder(w, L)
      BY DEF Line
    <3> HIDE DEF x
    <3>2. FrameAt(w, i) < FrameAt(w, x)
      BY <2>1
    <3> QED
      BY <3>1, <3>2, <2>1, <1>0, <1>4 DEF FirstsInOrder
  <2>3. i \in 1 .. c
    BY <2>2
  <2>4. f + 1 <= f
    BY <2>1, <2>3 DEF Within
  <2> QED
    BY <2>4
<1>8. CASE ToCome(p, M, f + 1, 1)
  <2>1. PICK j \in 1 .. M : FrameOf(p, j) = f + 1 /\ GoneOf(p, j) < 1
    BY <1>8 DEF ToCome
  <2>2. GoneOf(p, j) = 0
    <3>1. GoneOf(p, j) \in Nat
      BY LineTypes
    <3> QED
      BY <3>1, <2>1
  <2>3. FrameAt(w, x) < FrameOf(p, j)
    <3>1. Unbegun(w, L, p, M)
      BY DEF Line
    <3> HIDE DEF x
    <3> QED
      BY <3>1, <2>2, <1>0 DEF Unbegun
  <2> QED
    BY <2>1, <2>3
<1> QED
  BY <1>6, <1>7, <1>8

-----------------------------------------------------------------------------
\* Behind a part of a frame begins another one.
LEMMA TornBy ==
  ASSUME NEW w, NEW p, NEW z, NEW L \in Nat, NEW M \in Nat, NEW N \in Nat,
         Line(w, L, p, M, z, N), NEW y \in 1 .. L - 1,
         FrameAt(w, y) # FrameAt(w, y + 1), PlaceAt(w, y) < Size(z, FrameAt(w, y))
  PROVE  TornLine(w, L, p, M)
<1>1. y \in 1 .. L /\ y + 1 \in 1 .. L
  OBVIOUS
<1>2. FrameAt(w, y) \in 1 .. N /\ PlaceAt(w, y) \in Nat /\ PlaceAt(w, y) >= 1
  BY <1>1, LineTypes
<1> PICK k \in 1 .. N, a \in Nat : k = FrameAt(w, y) /\ a = PlaceAt(w, y)
  BY <1>2
<1>3. a + 1 \in 1 .. Size(z, k)
  <2>1. Size(z, k) \in Nat
    BY LineTypes
  <2> QED
    BY <2>1
<1>4. OnLine(w, L, k, a + 1) \/ ToCome(p, M, k, a + 1)
  BY <1>3 DEF Line, NoneLost
<1>5. CASE OnLine(w, L, k, a + 1)
  <2>1. PICK x \in 1 .. L : FrameAt(w, x) = k /\ PlaceAt(w, x) = a + 1
    BY <1>5 DEF OnLine
  <2>2. CASE x < y
    <3>1. PlaceAt(w, x) < PlaceAt(w, y)
      BY <2>1, <2>2, <1>1 DEF Line, Rising
    <3> QED
      BY <3>1, <2>1
  <2>3. x # y
    BY <2>1
  <2>4. x # y + 1
    BY <2>1
  <2>5. CASE x \in y + 1 .. L
    BY <2>1, <2>5 DEF TornLine
  <2> QED
    BY <2>2, <2>3, <2>5
<1>6. CASE ToCome(p, M, k, a + 1)
  <2>1. PICK j \in 1 .. M : FrameOf(p, j) = k
    BY <1>6 DEF ToCome
  <2> QED
    BY <2>1 DEF TornLine
<1> QED
  BY <1>4, <1>5, <1>6

\* Where a header is awaited, only an overlap brings anything else.
LEMMA LostHeader ==
  ASSUME NEW w, NEW p, NEW z, NEW L \in Nat, NEW M \in Nat, NEW N \in Nat,
         Line(w, L, p, M, z, N), NEW c \in Nat, NEW f \in 0 .. N, c + 2 <= L,
         AllMet(w, c, z, f), Within(w, c, f), FrameAt(w, c + 2) # FrameAt(w, c + 1)
  PROVE  TornLine(w, L, p, M)
<1>1. FrameAt(w, c + 1) = f + 1
  BY NextFrame
<1>2. c + 1 \in 1 .. L /\ c + 1 \in 1 .. L - 1 /\ (c + 1) + 1 = c + 2
  OBVIOUS
<1>3. f + 1 \in 1 .. N /\ Size(z, f + 1) \in Nat /\ Size(z, f + 1) >= 2
  <2>0. FrameAt(w, c + 1) \in 1 .. N
    <3> DEFINE x == c + 1
    <3>1. x \in 1 .. L
      OBVIOUS
    <3> HIDE DEF x
    <3>2. FrameAt(w, x) \in 1 .. N
      BY <3>1, LineTypes
    <3> QED
      BY <3>2 DEF x
  <2>1. f + 1 \in 1 .. N
    BY <1>1, <2>0
  <2> QED
    BY <2>1, LineTypes
<1>4. Met(w, c, f + 1, 0)
  <2>1. \A i \in 1 .. c : FrameAt(w, i) # f + 1
    <3> TAKE i \in 1 .. c
    <3>1. i \in 1 .. L
      OBVIOUS
    <3>2. FrameAt(w, i) <= f /\ FrameAt(w, i) \in 1 .. N
      BY <3>1, LineTypes DEF Within
    <3> QED
      BY <3>2
  <2> QED
    BY <2>1 DEF Met
<1>5. AllOf(w, c, 1, f + 1)
  BY <1>1 DEF AllOf
<1>6. Numbered(w, c, 1, 0)
  BY <1>3, <1>4, <1>5, NextBytes
<1>7. PlaceAt(w, c + 1) = 1
  BY <1>6 DEF Numbered
<1>8. PlaceAt(w, c + 1) < Size(z, FrameAt(w, c + 1))
  BY <1>1, <1>3, <1>7
<1>9. FrameAt(w, c + 1) # FrameAt(w, (c + 1) + 1)
  BY <1>2
<1> QED
  BY <1>2, <1>8, <1>9, TornBy

\* The last byte of the frame k before the position i.
LEMMA LastOfFrame ==
  ASSUME NEW w, NEW k, NEW c \in Nat, NEW i \in Nat, c < i, OnLine(w, c, k, 1),
         FrameAt(w, i) # k
  PROVE  \E y \in 1 .. i - 1 : FrameAt(w, y) = k /\ FrameAt(w, y + 1) # k
<1> DEFINE S == {y \in 1 .. i - 1 : FrameAt(w, y) = k}
<1>1. PICK y0 \in 1 .. c : FrameAt(w, y0) = k
  BY DEF OnLine
<1>2. y0 \in S /\ i - 1 \in Nat /\ S \in SUBSET (1 .. i - 1)
  BY <1>1
<1>3. PICK y \in S : \A x \in S : x <= y
  <2> HIDE DEF S
  <2> QED
    BY <1>2, LastOne
<1>4. y \in 1 .. i - 1 /\ FrameAt(w, y) = k
  OBVIOUS
<1>5. FrameAt(w, y + 1) # k
  <2>1. CASE y + 1 = i
    BY <2>1
  <2>2. CASE y + 1 \in 1 .. i - 1
    <3>1. y + 1 \notin S
      BY <1>3, <1>4
    <3> QED
      BY <3>1, <2>2
  <2> QED
    BY <2>1, <2>2, <1>4
<1> QED
  BY <1>4, <1>5

\* The n bytes after the first h are in the frame k.
Room(z, k, h, n) == h + n <= Size(z, k)

\* A byte of another frame where the rest of a frame should be: two writes overlapped.
LEMMA LostMid ==
  ASSUME NEW w, NEW p, NEW z, NEW L \in Nat, NEW M \in Nat, NEW N \in Nat,
         Line(w, L, p, M, z, N), NEW c \in Nat, NEW n \in Nat, c + n <= L,
         NEW k \in 1 .. N, NEW h \in Nat, h >= 1, Room(z, k, h, n), Met(w, c, k, h),
         NEW i \in c + 1 .. c + n, FrameAt(w, i) # k
  PROVE  TornLine(w, L, p, M)
<1>0. h + n <= Size(z, k)
  BY DEF Room
<1>1. Size(z, k) \in Nat
  BY LineTypes
\* The first such byte.
<1> DEFINE S == {x \in c + 1 .. c + n : FrameAt(w, x) # k}
<1>2. S \in SUBSET Nat /\ i \in S
  OBVIOUS
<1>3. PICK x \in S : \A y \in S : x <= y
  <2> HIDE DEF S
  <2>1. S \in SUBSET Nat /\ S # {}
    BY <1>2
  <2>2. Min(S) \in S /\ \A y \in S : Min(S) <= y
    BY <2>1, MinIsLeast
  <2> QED
    BY <2>2
<1>4. x \in c + 1 .. c + n /\ FrameAt(w, x) # k
  OBVIOUS
<1>5. \A y \in c + 1 .. x - 1 : FrameAt(w, y) = k
  <2> TAKE y \in c + 1 .. x - 1
  <2>1. y \in c + 1 .. c + n /\ ~ (x <= y)
    BY <1>4
  <2> QED
    BY <2>1, <1>3
<1> HIDE DEF S
<1>6. PICK m \in Nat : m = x - 1 - c /\ m < n
  BY <1>4
<1>7. c + m <= L /\ x - 1 = c + m /\ c + m \in Nat
  BY <1>4, <1>6
<1>8. AllOf(w, c, m, k)
  BY <1>5, <1>7 DEF AllOf
<1>9. Met(w, c + m, k, h + m)
  BY <1>7, <1>8, MetMore
<1>10. OnLine(w, c, k, 1) /\ c < x /\ x \in Nat
  BY <1>4 DEF Met
<1>11. PICK y \in 1 .. x - 1 : FrameAt(w, y) = k /\ FrameAt(w, y + 1) # k
  BY <1>4, <1>10, LastOfFrame
<1>12. y \in 1 .. c + m /\ y \in 1 .. L - 1 /\ y \in 1 .. L
  BY <1>4, <1>7
<1>13. PlaceAt(w, y) \in Nat /\ PlaceAt(w, y) <= h + m
  BY <1>9, <1>11, <1>12, LineTypes DEF Met
<1>14. PlaceAt(w, y) < Size(z, FrameAt(w, y))
  BY <1>0, <1>1, <1>6, <1>11, <1>13
<1> QED
  BY <1>11, <1>12, <1>14, TornBy

-----------------------------------------------------------------------------
\* The frame k is complete behind a buffer with b bytes.
Complete(w, L, p, M, k, b) ==
  /\ \A j \in 1 .. M : FrameOf(p, j) # k
  /\ \A i \in 1 .. L : FrameAt(w, i) = k => i + b <= L

\* Every byte of a frame that is complete is on the line.
LEMMA CompleteHas ==
  ASSUME NEW w, NEW p, NEW z, NEW L \in Nat, NEW M \in Nat, NEW N \in Nat,
         Line(w, L, p, M, z, N), NEW k \in 1 .. N, NEW b \in Nat, Complete(w, L, p, M, k, b),
         NEW a \in 1 .. Size(z, k)
  PROVE  \E i \in 1 .. L : FrameAt(w, i) = k /\ PlaceAt(w, i) = a /\ i + b <= L
<1>1. OnLine(w, L, k, a) \/ ToCome(p, M, k, a)
  BY DEF Line, NoneLost
<1>2. ~ ToCome(p, M, k, a)
  BY DEF Complete, ToCome
<1>3. PICK i \in 1 .. L : FrameAt(w, i) = k /\ PlaceAt(w, i) = a
  BY <1>1, <1>2 DEF OnLine
<1>4. i + b <= L
  BY <1>3 DEF Complete
<1> QED
  BY <1>3, <1>4

\* A reader that waits for a header has met every frame that is complete.
LEMMA HeldHeader ==
  ASSUME NEW w, NEW p, NEW z, NEW L \in Nat, NEW M \in Nat, NEW N \in Nat,
         Line(w, L, p, M, z, N), NEW c \in Nat, NEW f \in 0 .. N, Within(w, c, f),
         NEW b \in Nat, c + b + 2 > L, NEW k \in 1 .. N, k > f, Complete(w, L, p, M, k, b)
  PROVE  FALSE
<1>1. 1 \in 1 .. Size(z, k) /\ 2 \in 1 .. Size(z, k)
  <2>1. Size(z, k) \in Nat /\ Size(z, k) >= 2
    BY LineTypes
  <2> QED
    BY <2>1
<1>2. PICK i \in 1 .. L : FrameAt(w, i) = k /\ PlaceAt(w, i) = 1 /\ i + b <= L
  BY <1>1, CompleteHas
<1>3. PICK j \in 1 .. L : FrameAt(w, j) = k /\ PlaceAt(w, j) = 2 /\ j + b <= L
  BY <1>1, CompleteHas
<1>4. i \notin 1 .. c /\ j \notin 1 .. c
  BY <1>2, <1>3 DEF Within
<1>5. i = c + 1 /\ j = c + 1
  BY <1>2, <1>3, <1>4
<1> QED
  BY <1>2, <1>3, <1>5

\* Behind the first c bytes, and b that wait in a buffer, there are fewer than n.
Short(L, c, b, n) == c + b + n > L

\* One that waits for more of the frame r has met every frame that is complete.
LEMMA HeldMid ==
  ASSUME NEW w, NEW p, NEW z, NEW L \in Nat, NEW M \in Nat, NEW N \in Nat,
         Line(w, L, p, M, z, N), NEW c \in Nat, c <= L, NEW n \in Nat, n >= 1,
         NEW r \in 1 .. N, NEW h \in Nat, h >= 1, Room(z, r, h, n), Met(w, c, r, h),
         Within(w, c, r), ~ TornLine(w, L, p, M),
         NEW b \in Nat, Short(L, c, b, n), NEW k \in 1 .. N, k >= r, Complete(w, L, p, M, k, b)
  PROVE  FALSE
<1>0. h + n <= Size(z, r) /\ c + b + n > L
  BY DEF Room, Short
<1>1. Size(z, r) \in Nat /\ Size(z, k) \in Nat /\ Size(z, k) >= 2
  BY LineTypes
<1>2. Rising(w, L) /\ NotYet(w, L, p, M)
  BY DEF Line
<1>3. CASE k = r
  <2>0. h + 1 \in 1 .. Size(z, k) /\ h + n \in 1 .. Size(z, k)
    BY <1>0, <1>1, <1>3
  <2>1. PICK x \in 1 .. L : FrameAt(w, x) = k /\ PlaceAt(w, x) = h + 1
    BY <2>0, CompleteHas
  <2>2. PICK y \in 1 .. L : FrameAt(w, y) = k /\ PlaceAt(w, y) = h + n /\ y + b <= L
    BY <2>0, CompleteHas
  <2>3. x \notin 1 .. c
    BY <2>1, <1>3 DEF Met
  <2>4. CASE x < y
    <3>1. PlaceAt(w, y) - PlaceAt(w, x) <= y - x
      BY <1>2, <2>1, <2>2, <2>4 DEF Rising
    <3> QED
      BY <1>0, <3>1, <2>1, <2>2, <2>3
  <2>5. CASE y < x
    <3>1. PlaceAt(w, y) < PlaceAt(w, x)
      BY <1>2, <2>1, <2>2, <2>5 DEF Rising
    <3> QED
      BY <1>0, <3>1, <2>1, <2>2
  <2>6. CASE x = y
    BY <1>0, <2>6, <2>1, <2>2, <2>3
  <2> QED
    BY <2>4, <2>5, <2>6
<1>4. CASE k # r
  <2>1. PICK i \in 1 .. L : FrameAt(w, i) = k /\ i + b <= L
    <3>1. 1 \in 1 .. Size(z, k)
      BY <1>1
    <3> QED
      BY <3>1, CompleteHas
  <2>2. i \notin 1 .. c
    BY <2>1, <1>4 DEF Within
  <2>3. OnLine(w, c, r, 1) /\ c < i /\ i \in Nat
    BY <2>2 DEF Met
  <2>4. PICK y \in 1 .. i - 1 : FrameAt(w, y) = r /\ FrameAt(w, y + 1) # r
    BY <2>1, <2>3, <1>4, LastOfFrame
  <2>5. y \in 1 .. L /\ y \in 1 .. L - 1 /\ y < i
    BY <2>1, <2>4
  <2>6. PlaceAt(w, y) \in Nat
    BY <2>5, LineTypes
  <2>7. PlaceAt(w, y) >= Size(z, r)
    <3> SUFFICES ASSUME PlaceAt(w, y) < Size(z, FrameAt(w, y)) PROVE FALSE
      BY <2>4, <2>6, <1>1
    <3>1. TornLine(w, L, p, M)
      BY <2>4, <2>5, TornBy
    <3> QED
      BY <3>1
  <2>8. h + 1 \in 1 .. Size(z, r)
    BY <1>0, <1>1
  <2>9. OnLine(w, L, r, h + 1) \/ ToCome(p, M, r, h + 1)
    BY <2>8 DEF Line, NoneLost
  <2>10. CASE OnLine(w, L, r, h + 1)
    <3>1. PICK x \in 1 .. L : FrameAt(w, x) = r /\ PlaceAt(w, x) = h + 1
      BY <2>10 DEF OnLine
    <3>2. x \notin 1 .. c
      BY <3>1 DEF Met
    <3>3. CASE x < y
      <4>1. PlaceAt(w, y) - PlaceAt(w, x) <= y - x
        BY <1>2, <2>4, <2>5, <3>1, <3>3 DEF Rising
      <4> QED
        BY <4>1, <1>0, <1>1, <2>1, <2>5, <2>6, <2>7, <3>1, <3>2
    <3>4. CASE y < x
      <4>1. PlaceAt(w, y) < PlaceAt(w, x)
        BY <1>2, <2>4, <2>5, <3>1, <3>4 DEF Rising
      <4> QED
        BY <4>1, <3>1, <2>6, <2>7, <1>0, <1>1
    <3>5. CASE x = y
      BY <3>5, <3>1, <3>2, <1>0, <1>1, <2>1, <2>5, <2>7
    <3> QED
      BY <3>3, <3>4, <3>5
  <2>11. CASE ToCome(p, M, r, h + 1)
    <3>1. PICK j \in 1 .. M : FrameOf(p, j) = r /\ GoneOf(p, j) < h + 1
      BY <2>11 DEF ToCome
    <3>2. PlaceAt(w, y) <= GoneOf(p, j) /\ GoneOf(p, j) \in Nat
      BY <1>2, <2>4, <2>5, <3>1, LineTypes DEF NotYet
    <3> QED
      BY <3>1, <3>2, <2>6, <2>7, <1>0, <1>1
  <2> QED
    BY <2>9, <2>10, <2>11
<1> QED
  BY <1>3, <1>4
=============================================================================
