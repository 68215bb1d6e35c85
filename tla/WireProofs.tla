----------------------------- MODULE WireProofs -----------------------------
(***************************************************************************)
(* The theorems about Wire: every property that its run checks holds for   *)
(* any data, masks, statuses, pieces and number of frames.                 *)
(*                                                                         *)
(* The inductive invariant IInv says, at each end, of its output (OutOK):  *)
(* every frame sent is the coding of its data, the messages among them are *)
(* counted, and the bytes on the line and in the writes under way are those *)
(* of the frames in an order that the socket can bring about; of its input *)
(* (ReadOK): the reader stands, as long as it is in step, exactly behind   *)
(* the frames it has read whole and what it has read of one more, and has  *)
(* given to onmessage the messages among the former; of its close           *)
(* (CloseOf): one close frame at most, with the status it was told unless   *)
(* the program began.                                                      *)
(***************************************************************************)
EXTENDS WireBytes

\* What e has sent: s, and the messages m among it.
Upto(s, k) == IF k = 0 THEN 0 ELSE s[k].upto
StatusBytes(status) == <<status \div 256, status % 256>>

FrameOK(e, f) ==
  /\ \E mask \in MasksOf(e) : f.bytes = Encode(f.op, mask, f.data)
  /\ Len(f.data) <= MaxLength
  /\ f.op = Close => \E status \in Status \cup {1002} : f.data = StatusBytes(status)

CountOK(s, m, k) ==
  /\ s[k].upto = Upto(s, k - 1) + (IF IsMessage(s[k].op) THEN 1 ELSE 0)
  /\ s[k].upto <= Len(m)
  /\ IsMessage(s[k].op) => m[s[k].upto] = [op |-> s[k].op, data |-> s[k].data]

SentOK(e, s, m) ==
  /\ \A k \in 1 .. Len(s) : FrameOK(e, s[k]) /\ CountOK(s, m, k)
  /\ \A j, k \in 1 .. Len(s) : j <= k => s[j].upto <= s[k].upto
  /\ Upto(s, Len(s)) = Len(m)

LineOf(e) == Line(wire[e], Len(wire[e]), pending[e], Len(pending[e]), sent[e], Len(sent[e]))

\* The reader r at e: the bytes w and the frames s come from the other end.
Mid(r)     == r.phase \in {"length", "content"}
Eaten(r)   == IF r.phase = "length" THEN 2 ELSE 2 + NumBytes(r.code)
WholeOf(r) == IF Mid(r) THEN r.frame - 1 ELSE r.frame

Framing(e, r, f) ==
  /\ r.op = f.op /\ r.code = Code(f.data)
  /\ \E mask \in MasksOf(Other(e)) : /\ (mask # <<>>) = (e = "server")
                                     /\ f.bytes = Encode(f.op, mask, f.data)
  /\ r.phase = "length" => Num(f.data) > 0
  /\ r.phase = "content" => r.length = Len(f.data)

Started(r) ==
  /\ r.start >= 1 /\ r.start <= r.taken + 1
  /\ r.phase \in {"handshake", "answer"} => r.frame = 0 /\ r.start = 1
  /\ r.phase = "handshake" => r.behind = 0

MidOK(e, r, w, s) == Mid(r) =>
  r.frame \in 1 .. Len(s) /\ Framing(e, r, s[r.frame]) /\ Met(w, r.start - 1, r.frame, Eaten(r))

Synced(e, r) == /\ r.phase \notin {"garbled", "failed", "closed"}
                /\ e = "client" => r.behind = 0

StepOK(r, w, s, g) ==
  /\ r.taken = r.start - 1 + r.behind
  /\ Within(w, r.start - 1, r.frame)
  /\ AllMet(w, r.start - 1, s, WholeOf(r))
  /\ Len(g) = Upto(s, WholeOf(r))

ReadOK(e, r, w, s, g) ==
  /\ Started(r) /\ MidOK(e, r, w, s)
  /\ Synced(e, r) => StepOK(r, w, s, g)

ReaderOf(e) == ReadOK(e, reader[e], wire[Other(e)], sent[Other(e)], got[e])

CloseOf(e) ==
  /\ \A i, j \in 1 .. Len(sent[e]) : sent[e][i].op = Close /\ sent[e][j].op = Close => i = j
  /\ \A i \in 1 .. Len(sent[e]) : sent[e][i].op = Close =>
       /\ closed[e]
       /\ ~ began[e] => told[e] # None /\ sent[e][i].data = StatusBytes(told[e])
  /\ told[e] # None => reader[e].phase = "closed"
  /\ told[e] \notin {None, 1002} =>
       \E i \in 1 .. Len(sent[Other(e)]) :
         sent[Other(e)][i].op = Close /\ sent[Other(e)][i].data = StatusBytes(told[e])

-----------------------------------------------------------------------------
USE DEF vars, history

\* The two ends are each other's other.
LEMMA Ends ==
  /\ Other("client") = "server" /\ Other("server") = "client"
  /\ \A e \in End : Other(e) \in End /\ Other(e) # e /\ Other(Other(e)) = e
BY DEF Other, End

\* What an end masks with is a mask, or none.
LEMMA MasksAre == ASSUME NEW e PROVE MasksOf(e) \subseteq Mask
<1>1. Masks \subseteq [1 .. 4 -> Byte]
  BY BytesAssumption, Zenon
<1> QED
  BY <1>1, Zenon DEF MasksOf, Mask

\* The first bytes that are sent are bytes,
LEMMA OpsAre == {Text, Close, Ping, Ping + 1} \subseteq Byte
<1>1. Text \in Nat /\ Text <= 255 /\ Close \in Nat /\ Close <= 255 /\ Ping \in Nat /\ Ping <= 255
      /\ Ping + 1 \in Nat /\ Ping + 1 <= 255
  BY DEF Text, Close, Ping
<1> QED
  BY <1>1, ByteIs

\* of three kinds: messages, closes and pings.
LEMMA OpKinds ==
  /\ IsMessage(Text) /\ ~ IsMessage(Close) /\ ~ IsMessage(Ping) /\ IsMessage(Ping + 1)
  /\ Close % 16 = 8 /\ Ping % 16 = 9 /\ Text # Close /\ Text # Ping /\ Close # Ping
  /\ Ping + 1 # Close /\ Ping + 1 # Ping /\ Text % 16 \notin {8, 9} /\ (Ping + 1) % 16 \notin {8, 9}
BY DEF IsMessage, Text, Close, Ping

\* One more frame.
LEMMA SentMore ==
  ASSUME NEW e, NEW s \in Seq(Sent), NEW m \in Seq(Posted), SentOK(e, s, m),
         NEW f \in Sent, FrameOK(e, f), NEW m2 \in Seq(Posted),
         m2 = IF IsMessage(f.op) THEN Append(m, [op |-> f.op, data |-> f.data]) ELSE m,
         f.upto = Len(m2), NEW s2, s2 = Append(s, f)
  PROVE  SentOK(e, s2, m2)
<1> DEFINE n == Len(s)
<1>0. n \in Nat /\ Len(m) \in Nat
  OBVIOUS
<1>1. s2 \in Seq(Sent) /\ Len(s2) = n + 1 /\ (\A k \in 1 .. n : s2[k] = s[k]) /\ s2[n + 1] = f
  OBVIOUS
<1>2. /\ Len(m2) = Len(m) + (IF IsMessage(f.op) THEN 1 ELSE 0)
      /\ \A x \in 1 .. Len(m) : m2[x] = m[x]
      /\ IsMessage(f.op) => m2[Len(m2)] = [op |-> f.op, data |-> f.data]
  OBVIOUS
<1>3. \A k \in 1 .. n : s[k] \in Sent
  OBVIOUS
<1>4. \A k \in 1 .. n : s[k].upto \in Nat /\ s[k].upto <= Len(m)
  BY <1>3 DEF Sent, SentOK, CountOK
<1>5. \A k \in 0 .. n : Upto(s2, k) = Upto(s, k)
  BY <1>0, <1>1 DEF Upto
<1>6. Upto(s, n) = Len(m)
  BY DEF SentOK
<1>7. CountOK(s2, m2, n + 1)
  <2>1. Upto(s2, (n + 1) - 1) = Len(m)
    BY <1>0, <1>5, <1>6
  <2> QED
    BY <2>1, <1>1, <1>2 DEF CountOK
<1>8. ASSUME NEW k \in 1 .. n PROVE CountOK(s2, m2, k)
  <2>1. CountOK(s, m, k)
    BY DEF SentOK
  <2>2. Upto(s2, k - 1) = Upto(s, k - 1) /\ s2[k] = s[k]
    BY <1>1, <1>5
  <2>3. s[k].upto <= Len(m2)
    BY <1>0, <1>2, <1>4
  <2>4. IsMessage(s[k].op) => s[k].upto \in 1 .. Len(m)
    <3>1. Upto(s, k - 1) \in Nat
      BY <1>4 DEF Upto
    <3> QED
      BY <3>1, <2>1, <1>4 DEF CountOK
  <2> QED
    BY <2>1, <2>2, <2>3, <2>4, <1>2 DEF CountOK
<1>9. \A k \in 1 .. n + 1 : FrameOK(e, s2[k]) /\ CountOK(s2, m2, k)
  <2> TAKE k \in 1 .. n + 1
  <2>1. CASE k = n + 1
    BY <2>1, <1>1, <1>7
  <2>2. CASE k \in 1 .. n
    BY <2>2, <1>1, <1>8 DEF SentOK
  <2> QED
    BY <2>1, <2>2, <1>0
<1>10. ASSUME NEW j \in 1 .. n + 1, NEW k \in 1 .. n + 1, j <= k PROVE s2[j].upto <= s2[k].upto
  <2>1. CASE k \in 1 .. n
    BY <2>1, <1>1, <1>10 DEF SentOK
  <2>2. CASE k = n + 1 /\ j \in 1 .. n
    BY <2>2, <1>1, <1>2, <1>4
  <2>3. CASE k = n + 1 /\ j = n + 1
    BY <2>3, <1>1, <1>0, <1>2
  <2> QED
    BY <2>1, <2>2, <2>3, <1>0
<1>11. Upto(s2, n + 1) = Len(m2)
  BY <1>0, <1>1 DEF Upto
<1> HIDE DEF n
<1> QED
  BY <1>1, <1>9, <1>10, <1>11 DEF SentOK

\* What may be sent: the programs' messages, pings, pongs and closes.
Sendable(op, data) ==
  /\ op \in {Text, Close, Ping, Ping + 1} /\ data \in Seq(Byte) /\ Len(data) <= MaxLength
  /\ op = Close => \E status \in Status \cup {1002} : data = StatusBytes(status)

Pending == [frame : Nat, gone : Nat]

\* What e has sent, and the line it goes on, are right.
OutOK(e) == /\ sent[e] \in Seq(Sent) /\ messages[e] \in Seq(Posted)
            /\ pending[e] \in Seq(Pending) /\ wire[e] \in Seq(Nat \X Nat)
            /\ SentOK(e, sent[e], messages[e]) /\ LineOf(e)

OnlyAt(e) == \A o \in End : o # e =>
  /\ sent'[o] = sent[o] /\ messages'[o] = messages[o]
  /\ pending'[o] = pending[o] /\ wire'[o] = wire[o]

Functions == /\ sent = [o \in End |-> sent[o]] /\ messages = [o \in End |-> messages[o]]
             /\ pending = [o \in End |-> pending[o]] /\ wire = [o \in End |-> wire[o]]

\* The frame f has been sent at e.
SentOne(e, f) ==
  /\ sent'[e] = Append(sent[e], f)
  /\ messages'[e] = IF IsMessage(f.op) THEN Append(messages[e], [op |-> f.op, data |-> f.data])
                    ELSE messages[e]

\* A frame written for data that may be sent is a right one.
LEMMA SendableFrame ==
  ASSUME NEW e, NEW f, NEW mask \in MasksOf(e), f.bytes = Encode(f.op, mask, f.data),
         Sendable(f.op, f.data)
  PROVE  FrameOK(e, f)
<1>1. Len(f.data) <= MaxLength
  BY Zenon DEF Sendable
<1>2. f.op = Close => \E status \in Status \cup {1002} : f.data = StatusBytes(status)
  BY Zenon DEF Sendable
<1> QED
  BY <1>1, <1>2 DEF FrameOK

\* send at e leaves what e has sent, and its line, right.
LEMMA SendStep ==
  ASSUME NEW e \in End, OutOK(e), Functions, NEW op, NEW data, Sendable(op, data),
         Send(e, op, data), wire' = wire
  PROVE  /\ OutOK(e)' /\ Functions' /\ OnlyAt(e)
         /\ \E f \in Sent : f.op = op /\ f.data = data /\ SentOne(e, f)
<1> DEFINE posted == IF IsMessage(op) THEN Append(messages[e], [op |-> op, data |-> data])
                     ELSE messages[e]
           F(mask) == [op |-> op, data |-> data, bytes |-> Encode(op, mask, data),
                       upto |-> Len(posted)]
           w == [frame |-> Len(sent[e]) + 1, gone |-> 0]
<1>1. PICK mask \in MasksOf(e) : sent' = [sent EXCEPT ![e] = Append(@, F(mask))]
  BY Zenon DEF Send
<1>2. messages' = [messages EXCEPT ![e] = posted]
  BY Zenon DEF Send
<1>3. pending' = [pending EXCEPT ![e] = Append(@, w)]
  BY Zenon DEF Send
<1> DEFINE f == F(mask)
<1>4. op \in Byte /\ data \in Seq(Byte) /\ mask \in Mask /\ op \in {Text, Close, Ping, Ping + 1}
  BY OpsAre, MasksAre DEF Sendable
<1>5. Encode(op, mask, data) \in Seq(Byte) /\ Len(Encode(op, mask, data)) >= 2
  <2>1. Len(data) \in Nat
    BY <1>4
  <2> PICK num \in {0, 2, 8} : num = Num(data)
    BY <1>4, NumIs
  <2> DEFINE c == Encode(op, mask, data)
  <2>2. c \in Seq(Byte) /\ Len(c) = 2 + Num(data) + (IF mask = <<>> THEN 0 ELSE 4) + Len(data)
    BY <1>4, DecodeHeader
  <2> HIDE DEF c
  <2>3. c \in Seq(Byte) /\ Len(c) >= 2
    BY <2>1, <2>2
  <2> QED
    BY <2>3 DEF c
<1>6. posted \in Seq(Posted)
  <2>1. [op |-> op, data |-> data] \in Posted
    BY <1>4 DEF Posted
  <2> QED
    BY <2>1 DEF OutOK
<1>7. f.op = op /\ f.data = data /\ f.bytes = Encode(op, mask, data) /\ f.upto = Len(posted)
  OBVIOUS
<1>8. f \in Sent
  <2>1. Len(posted) \in Nat
    BY <1>6
  <2> HIDE DEF posted
  <2> QED
    BY <2>1, <1>4, <1>5 DEF Sent
<1>9. FrameOK(e, f)
  <2> HIDE DEF f, posted
  <2>1. mask \in MasksOf(e) /\ f.bytes = Encode(f.op, mask, f.data)
    BY <1>7, Zenon
  <2>2. Sendable(f.op, f.data)
    BY <1>7, Zenon
  <2> QED
    BY <2>1, <2>2, SendableFrame, Zenon
<1>10. sent'[e] = Append(sent[e], f) /\ messages'[e] = posted /\ pending'[e] = Append(pending[e], w)
       /\ wire'[e] = wire[e]
  BY <1>1, <1>2, <1>3 DEF Functions
<1>11. OnlyAt(e) /\ Functions'
  BY <1>1, <1>2, <1>3 DEF OnlyAt, Functions
<1> HIDE DEF f, posted
<1>12. messages'[e] = IF IsMessage(f.op) THEN Append(messages[e], [op |-> f.op, data |-> f.data])
                      ELSE messages[e]
  BY <1>7, <1>10, Zenon DEF posted
<1>13. SentOne(e, f)
  BY <1>10, <1>12, Zenon DEF SentOne
<1>14. SentOK(e, sent'[e], messages'[e])
  <2>1. sent[e] \in Seq(Sent) /\ messages[e] \in Seq(Posted) /\ SentOK(e, sent[e], messages[e])
    BY DEF OutOK
  <2>2. messages'[e] \in Seq(Posted) /\ f.upto = Len(messages'[e])
    BY <1>6, <1>7, <1>10
  <2> QED
    BY <2>1, <2>2, <1>8, <1>9, <1>10, <1>12, SentMore
<1>15. w \in Pending /\ w.frame = Len(sent[e]) + 1 /\ w.gone = 0
  BY DEF OutOK, Pending
<1> HIDE DEF w
<1>16. sent[e] \in Seq(Sent) /\ pending[e] \in Seq(Pending) /\ messages[e] \in Seq(Posted)
       /\ wire[e] \in Seq(Nat \X Nat)
  BY DEF OutOK
<1>17. /\ sent'[e] \in Seq(Sent) /\ Len(sent'[e]) = Len(sent[e]) + 1
       /\ (\A k \in 1 .. Len(sent[e]) : sent'[e][k] = sent[e][k])
       /\ sent'[e][Len(sent[e]) + 1] = f
  BY <1>16, <1>8, <1>10
<1>18. /\ pending'[e] \in Seq(Pending) /\ Len(pending'[e]) = Len(pending[e]) + 1
       /\ (\A k \in 1 .. Len(pending[e]) : pending'[e][k] = pending[e][k])
       /\ pending'[e][Len(pending[e]) + 1] = w
  BY <1>16, <1>15, <1>10
<1>19. LineOf(e)'
  <2> DEFINE s == sent[e]  s2 == sent'[e]  p == pending[e]  p2 == pending'[e]  m == Len(f.bytes)
  <2>1. Len(s) \in Nat /\ Len(p) \in Nat /\ Len(wire[e]) \in Nat
    BY <1>16
  <2>2. m \in Nat /\ m >= 2
    BY <1>5, <1>7
  <2>3. Joins(p, Len(p), s, Len(s), m, p2, s2)
    BY <1>15, <1>17, <1>18 DEF Joins, Size, FrameOf, GoneOf
  <2>4. Line(wire[e], Len(wire[e]), p, Len(p), s, Len(s))
    BY DEF OutOK, LineOf
  <2> HIDE DEF s, s2, p, p2, m
  <2>5. Line(wire[e], Len(wire[e]), p2, Len(p) + 1, s2, Len(s) + 1)
    BY <2>1, <2>2, <2>3, <2>4, LineSends
  <2> QED
    BY <2>5, <1>10, <1>17, <1>18 DEF LineOf, s, s2, p, p2
<1>20. OutOK(e)'
  BY <1>6, <1>10, <1>14, <1>16, <1>17, <1>18, <1>19 DEF OutOK
<1> QED
  BY <1>7, <1>8, <1>11, <1>13, <1>20

-----------------------------------------------------------------------------
\* The writes p2 after n more bytes of the write i of p, of the frame k of size m.
PendingMoved(p, M, i, k, g, n, m, p2, M2) ==
  /\ PendingRises(p2, M2)
  /\ \A j \in 1 .. M2 :
       \/ FrameOf(p2, j) = k /\ GoneOf(p2, j) = g + n /\ g + n < m
       \/ FrameOf(p2, j) # k /\ \E j0 \in 1 .. M :
            FrameOf(p2, j) = FrameOf(p, j0) /\ GoneOf(p2, j) = GoneOf(p, j0)
  /\ \A j0 \in 1 .. M : j0 # i => \E j \in 1 .. M2 :
            FrameOf(p2, j) = FrameOf(p, j0) /\ GoneOf(p2, j) = GoneOf(p, j0)
  /\ g + n < m => \E j \in 1 .. M2 : FrameOf(p2, j) = k /\ GoneOf(p2, j) = g + n

\* Where the write j was before the write i was removed.
Before(i, j) == IF j < i THEN j ELSE j + 1

Removed(p, M, i, p2) == \A j \in 1 .. M - 1 :
  FrameOf(p2, j) = FrameOf(p, Before(i, j)) /\ GoneOf(p2, j) = GoneOf(p, Before(i, j))

\* Two writes under way are of two frames.
LEMMA OtherFrames ==
  ASSUME NEW p, NEW M \in Nat, NEW i \in 1 .. M, PendingRises(p, M),
         \A j \in 1 .. M : FrameOf(p, j) \in Nat
  PROVE  \A j \in 1 .. M : j # i => FrameOf(p, j) # FrameOf(p, i)
BY DEF PendingRises

\* What a write that is done leaves under way,
LEMMA WhenRemoved ==
  ASSUME NEW p, NEW p2, NEW M \in Nat, NEW i \in 1 .. M, NEW k \in Nat, NEW g \in Nat,
         NEW n \in Nat, NEW m \in Nat, PendingRises(p, M),
         \A j \in 1 .. M : FrameOf(p, j) \in Nat,
         FrameOf(p, i) = k, g + n = m, Removed(p, M, i, p2)
  PROVE  PendingMoved(p, M, i, k, g, n, m, p2, M - 1)
<1>1. ASSUME NEW j \in 1 .. M - 1
      PROVE  Before(i, j) \in 1 .. M /\ Before(i, j) # i
  BY DEF Before
<1>2. ASSUME NEW a \in 1 .. M - 1, NEW b \in 1 .. M - 1, a < b
      PROVE  Before(i, a) < Before(i, b)
  BY <1>2 DEF Before
<1>3. PendingRises(p2, M - 1)
  BY <1>1, <1>2 DEF Removed, PendingRises
<1>4. \A j \in 1 .. M - 1 : FrameOf(p2, j) # k /\ \E j0 \in 1 .. M :
         FrameOf(p2, j) = FrameOf(p, j0) /\ GoneOf(p2, j) = GoneOf(p, j0)
  <2>1. \A j \in 1 .. M : j # i => FrameOf(p, j) # k
    BY OtherFrames
  <2> QED
    BY <2>1, <1>1 DEF Removed
<1>5. ASSUME NEW j0 \in 1 .. M, j0 # i
      PROVE  \E j \in 1 .. M - 1 : FrameOf(p2, j) = FrameOf(p, j0) /\ GoneOf(p2, j) = GoneOf(p, j0)
  <2>1. \E j \in 1 .. M - 1 : Before(i, j) = j0
    <3>1. CASE j0 < i
      <4>1. j0 \in 1 .. M - 1 /\ Before(i, j0) = j0
        BY <3>1 DEF Before
      <4> QED
        BY <4>1
    <3>2. CASE j0 > i
      <4>1. j0 - 1 \in 1 .. M - 1 /\ Before(i, j0 - 1) = j0
        BY <3>2 DEF Before
      <4> QED
        BY <4>1
    <3> QED
      BY <3>1, <3>2, <1>5
  <2> QED
    BY <2>1 DEF Removed
<1> QED
  BY <1>3, <1>4, <1>5 DEF PendingMoved

Advanced(p, M, i, g, p2) == \A j \in 1 .. M :
  FrameOf(p2, j) = FrameOf(p, j) /\ GoneOf(p2, j) = IF j = i THEN g ELSE GoneOf(p, j)

\* and one that is not.
LEMMA WhenAdvanced ==
  ASSUME NEW p, NEW p2, NEW M \in Nat, NEW i \in 1 .. M, NEW k \in Nat, NEW g \in Nat,
         NEW n \in Nat, NEW m \in Nat, PendingRises(p, M),
         \A j \in 1 .. M : FrameOf(p, j) \in Nat,
         FrameOf(p, i) = k, g + n < m, Advanced(p, M, i, g + n, p2)
  PROVE  PendingMoved(p, M, i, k, g, n, m, p2, M)
<1>1. \A j \in 1 .. M : j # i => FrameOf(p, j) # k
  BY OtherFrames
<1>2. PendingRises(p2, M)
  BY DEF Advanced, PendingRises
<1>3. \A j \in 1 .. M :
       \/ FrameOf(p2, j) = k /\ GoneOf(p2, j) = g + n /\ g + n < m
       \/ FrameOf(p2, j) # k /\ \E j0 \in 1 .. M :
            FrameOf(p2, j) = FrameOf(p, j0) /\ GoneOf(p2, j) = GoneOf(p, j0)
  BY <1>1 DEF Advanced
<1>4. \A j0 \in 1 .. M : j0 # i => \E j \in 1 .. M :
            FrameOf(p2, j) = FrameOf(p, j0) /\ GoneOf(p2, j) = GoneOf(p, j0)
  BY DEF Advanced
<1>5. FrameOf(p2, i) = k /\ GoneOf(p2, i) = g + n
  BY DEF Advanced
<1> QED
  BY <1>2, <1>3, <1>4, <1>5 DEF PendingMoved

\* What a transfer does to a line, put together.
LEMMA MovesIs ==
  ASSUME NEW w, NEW p, NEW z, NEW L \in Nat, NEW M \in Nat, NEW i \in 1 .. M, NEW k \in Nat,
         NEW g \in Nat, NEW n \in Nat, NEW w2, NEW p2, NEW M2 \in Nat,
         FrameOf(p, i) = k, GoneOf(p, i) = g, g + n <= Size(z, k),
         g > 0 \/ \A j \in 1 .. i - 1 : GoneOf(p, j) > 0,
         \A x \in 1 .. L : FrameAt(w2, x) = FrameAt(w, x) /\ PlaceAt(w2, x) = PlaceAt(w, x),
         \A t \in 1 .. n : FrameAt(w2, L + t) = k /\ PlaceAt(w2, L + t) = g + t,
         PendingMoved(p, M, i, k, g, n, Size(z, k), p2, M2)
  PROVE  Moves(w, L, p, M, z, i, k, g, n, w2, p2, M2)
BY Zenon DEF Moves, PendingMoved

\* What the socket takes, on the line.
Grown(w, k, g, n, w2) == w2 = w \o [j \in 1 .. n |-> <<k, g + j>>]

Longer(w, k, g, n, w2) ==
  /\ w2 \in Seq(Nat \X Nat) /\ Len(w2) = Len(w) + n
  /\ \A x \in 1 .. Len(w) : w2[x] = w[x]
  /\ \A t \in 1 .. n : FrameAt(w2, Len(w) + t) = k /\ PlaceAt(w2, Len(w) + t) = g + t

\* The bytes that a transfer puts on a line.
LEMMA WireGrows ==
  ASSUME NEW w \in Seq(Nat \X Nat), NEW k \in Nat, NEW g \in Nat, NEW n \in Nat, NEW w2,
         Grown(w, k, g, n, w2)
  PROVE  Longer(w, k, g, n, w2)
<1> DEFINE more == [j \in 1 .. n |-> <<k, g + j>>]
<1>1. \A j \in 1 .. n : more[j] = <<k, g + j>>
  OBVIOUS
<1>2. \A j \in 1 .. n : <<k, g + j>> \in Nat \X Nat
  OBVIOUS
<1>3. more \in [1 .. n -> Nat \X Nat]
  BY <1>2
<1>4. more \in Seq(Nat \X Nat)
  <2> HIDE DEF more
  <2> QED
    BY <1>3, IsASeq, SMT
<1>5. Len(more) = n
  <2> HIDE DEF more
  <2> QED
    BY <1>3, LenProperties, SMT
<1>6. w2 = w \o more
  BY DEF Grown
<1> HIDE DEF more
<1>7. /\ w2 \in Seq(Nat \X Nat) /\ Len(w2) = Len(w) + Len(more)
      /\ \A x \in 1 .. Len(w) : w2[x] = w[x]
      /\ \A t \in 1 .. Len(more) : w2[Len(w) + t] = more[t]
  <2>1. /\ w \o more \in Seq(Nat \X Nat) /\ Len(w \o more) = Len(w) + Len(more)
        /\ \A x \in 1 .. Len(w) : (w \o more)[x] = w[x]
        /\ \A t \in 1 .. Len(more) : (w \o more)[Len(w) + t] = more[t]
    BY <1>4, TwoParts, SMT
  <2> QED
    BY <2>1, <1>6, Zenon
<1>8. ASSUME NEW t \in 1 .. n
      PROVE  FrameAt(w2, Len(w) + t) = k /\ PlaceAt(w2, Len(w) + t) = g + t
  <2>1. w2[Len(w) + t] = <<k, g + t>>
    BY <1>1, <1>5, <1>7
  <2>2. <<k, g + t>>[1] = k /\ <<k, g + t>>[2] = g + t
    OBVIOUS
  <2> QED
    BY <2>1, <2>2, Zenon DEF FrameAt, PlaceAt
<1> QED
  BY <1>5, <1>7, <1>8 DEF Longer

-----------------------------------------------------------------------------
\* n bytes of a write are taken by the socket.
LEMMA TransferStep ==
  ASSUME NEW e \in End, OutOK(e), Functions, NEW i \in DOMAIN pending[e],
         NEW n \in Nat, n >= 1,
         pending[e][i].gone + n <= Len(sent[e][pending[e][i].frame].bytes),
         Transfer(e, i, n)
  PROVE  /\ OutOK(e)' /\ Functions' /\ OnlyAt(e) /\ sent' = sent /\ messages' = messages
         /\ Len(wire[e]) <= Len(wire'[e])
         /\ \A x \in 1 .. Len(wire[e]) : wire'[e][x] = wire[e][x]
<1> DEFINE p  == pending[e]
           p2 == pending'[e]
           w  == wire[e]
           w2 == wire'[e]
           s  == sent[e]
<1>0. p \in Seq(Pending) /\ w \in Seq(Nat \X Nat) /\ s \in Seq(Sent)
  BY DEF OutOK
<1>p. PICK L \in Nat, M \in Nat, N \in Nat : L = Len(w) /\ M = Len(p) /\ N = Len(s)
  BY <1>0
<1>1. Line(w, L, p, M, s, N)
  BY <1>p DEF OutOK, LineOf
<1>2. i \in 1 .. M
  <2>1. i \in DOMAIN p /\ p \in Seq(Pending) /\ M = Len(p)
    BY <1>0, <1>p, Zenon
  <2> HIDE DEF p
  <2> QED
    BY <2>1
<1> DEFINE k == p[i].frame
           g == p[i].gone
           more == [j \in 1 .. n |-> <<k, g + j>>]
<1>3. k \in 1 .. N /\ g \in Nat /\ g + n <= Size(s, k) /\ Size(s, k) \in Nat
  <2>1. FrameOf(p, i) \in 1 .. N /\ GoneOf(p, i) \in Nat
    BY <1>1, <1>2, LineTypes
  <2>2. k \in 1 .. N /\ g \in Nat
    BY <2>1 DEF FrameOf, GoneOf
  <2>3. Size(s, k) \in Nat
    BY <1>1, <2>2, LineTypes
  <2> QED
    BY <2>2, <2>3 DEF Size
<1>4. wire' = [wire EXCEPT ![e] = @ \o more]
  BY Zenon DEF Transfer
<1>5. pending' = [pending EXCEPT ![e] =
                    IF g + n = Size(s, k) THEN RemoveAt(@, i)
                    ELSE [@ EXCEPT ![i] = [frame |-> k, gone |-> g + n]]]
  BY Zenon DEF Transfer, Size
<1>6. sent' = sent /\ messages' = messages
  <2>1. UNCHANGED <<reader, closed, told, got, history, began>>
    BY Zenon DEF Transfer
  <2> QED
    BY <2>1
<1>7. /\ w2 = w \o more
      /\ p2 = IF g + n = Size(s, k) THEN RemoveAt(p, i)
              ELSE [p EXCEPT ![i] = [frame |-> k, gone |-> g + n]]
  BY <1>4, <1>5 DEF Functions
<1>8. OnlyAt(e) /\ Functions'
  BY <1>4, <1>5, <1>6 DEF OnlyAt, Functions
<1>9. GoneOf(p, i) > 0 \/ \A j \in 1 .. i - 1 : GoneOf(p, j) > 0
  BY Zenon DEF Transfer, GoneOf
<1>10. /\ w2 \in Seq(Nat \X Nat) /\ Len(w2) = Len(w) + n
       /\ \A x \in 1 .. Len(w) : w2[x] = w[x]
       /\ \A t \in 1 .. n : FrameAt(w2, Len(w) + t) = k /\ PlaceAt(w2, Len(w) + t) = g + t
  <2>1. k \in Nat /\ g \in Nat /\ n \in Nat /\ w \in Seq(Nat \X Nat)
    BY <1>0, <1>3
  <2>2. Grown(w, k, g, n, w2)
    BY <1>7, Zenon DEF Grown
  <2> HIDE DEF w, w2, k, g, more
  <2>3. Longer(w, k, g, n, w2)
    BY <2>1, <2>2, WireGrows
  <2> QED
    BY <2>3, Zenon DEF Longer
<1> HIDE DEF more
<1>11. FrameOf(p, i) = k /\ GoneOf(p, i) = g
  BY DEF FrameOf, GoneOf
<1>12. PendingRises(p, M) /\ \A j \in 1 .. M : FrameOf(p, j) \in Nat
  <2>1. \A j \in 1 .. M : FrameOf(p, j) \in 1 .. N
    BY <1>1, LineTypes
  <2>2. PendingRises(p, M)
    BY <1>1 DEF Line
  <2> HIDE DEF p
  <2> QED
    BY <2>1, <2>2
<1>13. ASSUME g + n = Size(s, k)
       PROVE  p2 \in Seq(Pending) /\ Len(p2) = M - 1 /\ Removed(p, M, i, p2)
  <2>1. p2 = RemoveAt(p, i)
    BY <1>7, <1>13
  <2> HIDE DEF p, p2
  <2>2. /\ RemoveAt(p, i) \in Seq(Pending) /\ Len(RemoveAt(p, i)) = M - 1
        /\ \A j \in 1 .. M - 1 : RemoveAt(p, i)[j] = IF j < i THEN p[j] ELSE p[j + 1]
    BY <1>0, <1>p, <1>2, RemoveIs
  <2>3. \A j \in 1 .. M - 1 : p2[j] = p[Before(i, j)]
    BY <2>1, <2>2, Zenon DEF Before
  <2>4. Removed(p, M, i, p2)
    BY <2>3, Zenon DEF Removed, FrameOf, GoneOf
  <2> QED
    BY <2>1, <2>2, <2>4
<1>14. ASSUME g + n # Size(s, k)
       PROVE  p2 \in Seq(Pending) /\ Len(p2) = M /\ Advanced(p, M, i, g + n, p2)
  <2> DEFINE v == [frame |-> k, gone |-> g + n]
  <2>1. v \in Pending /\ v.frame = k /\ v.gone = g + n
    BY <1>3 DEF Pending
  <2> HIDE DEF v
  <2>2. p2 = [p EXCEPT ![i] = v]
    BY <1>7, <1>14 DEF v
  <2> HIDE DEF p, p2, k
  <2>3. /\ p2 \in Seq(Pending) /\ Len(p2) = M
        /\ \A j \in 1 .. M : p2[j] = IF j = i THEN v ELSE p[j]
    BY <2>1, <2>2, <1>0, <1>2, <1>p
  <2>4. \A j \in 1 .. M : FrameOf(p2, j) = FrameOf(p, j)
                          /\ GoneOf(p2, j) = IF j = i THEN g + n ELSE GoneOf(p, j)
    BY <2>1, <2>3, <1>11 DEF FrameOf, GoneOf
  <2> QED
    BY <2>3, <2>4 DEF Advanced
<1>15. p2 \in Seq(Pending)
  BY <1>13, <1>14
<1>16. PendingMoved(p, M, i, k, g, n, Size(s, k), p2, Len(p2))
  <2>1. k \in Nat
    BY <1>3
  <2> HIDE DEF p, p2, k, g, s
  <2>2. CASE g + n = Size(s, k)
    <3>1. PendingMoved(p, M, i, k, g, n, Size(s, k), p2, M - 1)
      BY <2>1, <2>2, <1>2, <1>3, <1>11, <1>12, <1>13, WhenRemoved
    <3> QED
      BY <2>2, <3>1, <1>13, Zenon
  <2>3. CASE g + n # Size(s, k)
    <3>1. g + n < Size(s, k)
      BY <2>3, <1>3
    <3> QED
      <4>1. PendingMoved(p, M, i, k, g, n, Size(s, k), p2, M)
        BY <2>1, <2>3, <3>1, <1>2, <1>3, <1>11, <1>12, <1>14, WhenAdvanced
      <4> QED
        BY <2>3, <4>1, <1>14, Zenon
  <2> QED
    BY <2>2, <2>3
<1>17. PICK M2 \in Nat : M2 = Len(p2)
  BY <1>15
<1>18. Moves(w, L, p, M, s, i, k, g, n, w2, p2, M2)
  <2>1. \A x \in 1 .. L : FrameAt(w2, x) = FrameAt(w, x) /\ PlaceAt(w2, x) = PlaceAt(w, x)
    BY <1>10, <1>p DEF FrameAt, PlaceAt
  <2>2. \A t \in 1 .. n : FrameAt(w2, L + t) = k /\ PlaceAt(w2, L + t) = g + t
    BY <1>10, <1>p
  <2>3. k \in Nat
    BY <1>3
  <2>4. PendingMoved(p, M, i, k, g, n, Size(s, k), p2, M2)
    BY <1>16, <1>17, Zenon
  <2> HIDE DEF k, g, w, w2, p, p2, s
  <2> QED
    BY <2>1, <2>2, <2>3, <2>4, <1>2, <1>3, <1>9, <1>11, MovesIs
<1>19. Line(w2, L + n, p2, M2, s, N)
  <2> HIDE DEF k, g, w, w2, p, p2, s
  <2> QED
    BY <1>1, <1>2, <1>3, <1>18, LineMoves
<1>20. OutOK(e)'
  <2>1. LineOf(e)'
    <3>1. Len(w2) = L + n /\ sent'[e] = s
      BY <1>6, <1>10, <1>p
    <3> HIDE DEF w, s
    <3> QED
      BY <3>1, <1>p, <1>17, <1>19, Zenon DEF LineOf
  <2>2. SentOK(e, sent[e], messages[e])' /\ sent'[e] \in Seq(Sent) /\ messages'[e] \in Seq(Posted)
    BY <1>6 DEF OutOK
  <2> QED
    BY <2>1, <2>2, <1>10, <1>15 DEF OutOK
<1> QED
  BY <1>6, <1>8, <1>10, <1>20

-----------------------------------------------------------------------------
\* n bytes of the line w, behind the first c.
At(w, c, n, s) == [i \in 1 .. n |-> s[FrameAt(w, c + i)].bytes[PlaceAt(w, c + i)]]

\* What e reads from: the line w of the frames s that the other end has sent.
Feed(e, w, L, p, M, s, N, m) ==
  /\ Line(w, L, p, M, s, N) /\ N = Len(s)
  /\ \A k \in 1 .. N : s[k] \in Sent /\ FrameOK(Other(e), s[k]) /\ CountOK(s, m, k)

\* They are as many bytes.
LEMMA AtType ==
  ASSUME NEW e, NEW w, NEW p, NEW s, NEW m, NEW L \in Nat, NEW M \in Nat, NEW N \in Nat,
         Feed(e, w, L, p, M, s, N, m), NEW c \in Nat, NEW n \in Nat, c + n <= L
  PROVE  At(w, c, n, s) \in Seq(Byte) /\ Len(At(w, c, n, s)) = n
<1>1. Line(w, L, p, M, s, N)
  BY DEF Feed
<1>2. ASSUME NEW i \in 1 .. n PROVE At(w, c, n, s)[i] \in Byte
  <2>1. c + i \in 1 .. L
    OBVIOUS
  <2> PICK k \in 1 .. N, a \in Nat : k = FrameAt(w, c + i) /\ a = PlaceAt(w, c + i) /\ a >= 1
    BY <1>1, <2>1, LineTypes
  <2>2. a <= Size(s, k)
    BY <1>1, <2>1 DEF Line, InFrame
  <2>3. s[k].bytes \in Seq(Byte)
    <3>1. s[k] \in Sent
      BY DEF Feed
    <3> QED
      BY <3>1 DEF Sent
  <2>4. s[k].bytes[a] \in Byte
    BY <2>2, <2>3 DEF Size
  <2> QED
    BY <2>4 DEF At
<1>3. At(w, c, n, s) \in [1 .. n -> Byte]
  BY <1>2 DEF At
<1> QED
  BY <1>3, IsASeq, LenProperties, SMT

\* The first l of them are those of the frame k behind its first h.
Shows(w, c, n, s, l, k, h) == \A i \in 1 .. l : At(w, c, n, s)[i] = s[k].bytes[h + i]

\* If they are of one frame, they are its next bytes.
LEMMA AtAre ==
  ASSUME NEW e, NEW w, NEW p, NEW s, NEW m, NEW L \in Nat, NEW M \in Nat, NEW N \in Nat,
         Feed(e, w, L, p, M, s, N, m), NEW c \in Nat, NEW n \in Nat, c + n <= L,
         NEW l \in Nat, l <= n, NEW k \in 1 .. N, NEW h \in Nat, Met(w, c, k, h), AllOf(w, c, l, k)
  PROVE  Shows(w, c, n, s, l, k, h)
<1>1. Line(w, L, p, M, s, N) /\ c + l <= L
  BY DEF Feed
<1>2. Numbered(w, c, l, h)
  BY <1>1, NextBytes
<1> SUFFICES ASSUME NEW i \in 1 .. l PROVE At(w, c, n, s)[i] = s[k].bytes[h + i]
  BY DEF Shows
<1>3. c + i \in c + 1 .. c + l /\ (c + i) - c = i /\ i \in 1 .. n
  OBVIOUS
<1>4. FrameAt(w, c + i) = k /\ PlaceAt(w, c + i) = h + i
  BY <1>2, <1>3 DEF Numbered, AllOf
<1> QED
  BY <1>3, <1>4 DEF At

\* c bytes of its line are before the buffer of r.
AtFront(r, c) == c = r.start - 1

\* The reader goes n bytes further.
Goes(r, r2, n) == r2.start = r.start + n /\ r2.taken = r.taken + n /\ r2.behind = r.behind

\* What is on a part of a line is on a longer part.
LEMMA OnLineMore ==
  ASSUME NEW w, NEW c \in Nat, NEW d \in Nat, c <= d, NEW k, NEW a, OnLine(w, c, k, a)
  PROVE  OnLine(w, d, k, a)
BY DEF OnLine

\* The same of whole frames,
LEMMA AllMetMore ==
  ASSUME NEW w, NEW c \in Nat, NEW d \in Nat, c <= d, NEW z, NEW f, AllMet(w, c, z, f)
  PROVE  AllMet(w, d, z, f)
BY OnLineMore DEF AllMet

\* and of the last frame met, if the further bytes are of one after it.
LEMMA WithinMore ==
  ASSUME NEW w, NEW L \in Nat, NEW c \in Nat, NEW n \in Nat, NEW f \in Nat, NEW k \in Nat, f <= k,
         \A i \in 1 .. c : FrameAt(w, i) \in Nat,
         Within(w, c, f), AllOf(w, c, n, k)
  PROVE  Within(w, c + n, k)
<1> SUFFICES ASSUME NEW i \in 1 .. c + n PROVE FrameAt(w, i) <= k
  BY DEF Within
<1>1. CASE i \in 1 .. c
  BY <1>1 DEF Within
<1>2. CASE i \in c + 1 .. c + n
  BY <1>2 DEF AllOf
<1> QED
  BY <1>1, <1>2

\* How a frame of the other end begins.
LEMMA FrameBegins ==
  ASSUME NEW e \in End, NEW f \in Sent, FrameOK(e, f)
  PROVE  /\ f.bytes[1] = f.op /\ f.bytes[2] % 128 = Code(f.data)
         /\ f.bytes[1] \in Byte /\ f.bytes[2] \in Byte /\ Code(f.data) \in Byte
         /\ Len(f.bytes) \in Nat
         /\ \E mask \in MasksOf(e) : /\ f.bytes = Encode(f.op, mask, f.data)
                                     /\ (mask # <<>>) = (f.bytes[2] >= 128)
                                     /\ Len(f.bytes) = 2 + Num(f.data) + (IF mask = <<>> THEN 0 ELSE 4)
                                                       + Len(f.data)
<1>1. PICK mask \in MasksOf(e) : f.bytes = Encode(f.op, mask, f.data)
  BY Zenon DEF FrameOK
<1>2. f.op \in Byte /\ f.data \in Seq(Byte) /\ f.bytes \in Seq(Byte) /\ mask \in Mask
  BY OpsAre, MasksAre DEF Sent
<1>3. /\ f.bytes[1] = f.op
      /\ Len(f.bytes) = 2 + Num(f.data) + (IF mask = <<>> THEN 0 ELSE 4) + Len(f.data)
      /\ f.bytes[2] % 128 = Code(f.data) /\ (f.bytes[2] >= 128 <=> mask # <<>>)
  <2> DEFINE op == f.op
             data == f.data
             c == f.bytes
  <2>1. op \in Byte /\ mask \in Mask /\ data \in Seq(Byte) /\ c = Encode(op, mask, data)
    BY <1>1, <1>2
  <2> HIDE DEF op, data, c
  <2>2. /\ c[1] = op /\ Len(c) = 2 + Num(data) + (IF mask = <<>> THEN 0 ELSE 4) + Len(data)
        /\ c[2] % 128 = Code(data) /\ (c[2] >= 128 <=> mask # <<>>)
    BY <2>1, DecodeHeader
  <2> QED
    BY <2>2 DEF op, data, c
<1>4. Len(f.bytes) \in Nat /\ Len(f.bytes) >= 2
  <2> DEFINE masked == IF mask = <<>> THEN 0 ELSE 4
             l == Len(f.bytes)
  <2>1. PICK num \in {0, 2, 8}, n \in Nat : num = Num(f.data) /\ n = Len(f.data)
    BY <1>2, NumIs
  <2>2. l = 2 + num + masked + n
    BY <1>3, <2>1, Zenon
  <2>3. masked \in Nat
    OBVIOUS
  <2> HIDE DEF masked, l
  <2>4. l \in Nat /\ l >= 2
    BY <2>2, <2>3
  <2> QED
    BY <2>4 DEF l
<1>5. f.bytes[1] \in Byte /\ f.bytes[2] \in Byte
  BY <1>2, <1>4
<1>6. Code(f.data) \in Byte
  <2>1. Code(f.data) \in Nat /\ Code(f.data) <= 127
    BY <1>2, NumIs
  <2> QED
    BY <2>1, ByteIs
<1>7. (mask # <<>>) = (f.bytes[2] >= 128)
  BY <1>3
<1> QED
  BY <1>1, <1>3, <1>4, <1>5, <1>6, <1>7

\* A reader that has read a header is right,
LEMMA HeaderKeeps ==
  ASSUME NEW e \in End, NEW w, NEW p, NEW s, NEW m, NEW g,
         NEW L \in Nat, NEW M \in Nat, NEW N \in Nat, Feed(e, w, L, p, M, s, N, m),
         NEW r \in Reader, r.phase = "header", ReadOK(e, r, w, s, g),
         NEW c \in Nat, AtFront(r, c), c + 2 <= L,
         NEW k \in 1 .. N, AllOf(w, c, 2, k),
         \A i \in 1 .. c : FrameAt(w, i) # k,
         NEW r2, Goes(r, r2, 2), r2.frame = k, r2.op = s[k].bytes[1], r2.code = s[k].bytes[2] % 128,
         (s[k].bytes[2] >= 128) = (e = "server"),
         \/ NumBytes(r2.code) > 0 /\ r2.phase = "length"
         \/ ~ (NumBytes(r2.code) > 0) /\ r2.phase = "content" /\ r2.length = r2.code
  PROVE  ReadOK(e, r2, w, s, g)
<1> DEFINE f == s[k]
<1>0. N = Len(s)
  BY DEF Feed
<1>1. Line(w, L, p, M, s, N) /\ f \in Sent /\ FrameOK(Other(e), f)
  BY DEF Feed
<1>2. r.start \in Nat /\ r.taken \in Nat /\ r.behind \in Nat /\ r.frame \in Nat
  BY DEF Reader
<1>3. Other(e) \in End
  BY Ends
<1>4. /\ f.bytes[1] = f.op /\ f.bytes[2] % 128 = Code(f.data)
      /\ \E mask \in MasksOf(Other(e)) : /\ f.bytes = Encode(f.op, mask, f.data)
                                         /\ (mask # <<>>) = (f.bytes[2] >= 128)
  <2> HIDE DEF f
  <2> QED
    BY <1>1, <1>3, FrameBegins
<1>5. f.data \in Seq(Byte)
  BY <1>1 DEF Sent
<1>6. r2.op = f.op /\ r2.code = Code(f.data)
  BY <1>4
<1>7. \E mask \in MasksOf(Other(e)) : /\ (mask # <<>>) = (e = "server")
                                      /\ f.bytes = Encode(f.op, mask, f.data)
  BY <1>4
<1> HIDE DEF f
<1>8. NumBytes(r2.code) = Num(f.data) /\ Num(f.data) \in {0, 2, 8}
      /\ (Num(f.data) = 0 => Code(f.data) = Len(f.data))
  BY <1>5, <1>6, NumIs DEF Code, Num
<1>9. Framing(e, r2, f)
  <2>1. r2.phase = "length" => Num(f.data) > 0
    BY <1>8
  <2>2. r2.phase = "content" => r2.length = Len(f.data)
    BY <1>6, <1>8
  <2> QED
    BY <1>6, <1>7, <2>1, <2>2, Zenon DEF Framing
<1>10. Met(w, c, k, 0)
  BY DEF Met
<1>11. Met(w, c + 2, k, 2)
  <2>1. Met(w, c + 2, k, 0 + 2)
    BY <1>1, <1>10, MetMore
  <2> QED
    BY <2>1
<1>12. r2.start = r.start + 2 /\ r2.taken = r.taken + 2 /\ r2.behind = r.behind
  BY DEF Goes
<1>13. r2.start - 1 = c + 2
  BY <1>2, <1>12 DEF AtFront
<1>14. Eaten(r2) = 2
  BY <1>8 DEF Eaten
<1>15. MidOK(e, r2, w, s)
  BY <1>0, <1>9, <1>11, <1>13, <1>14, Zenon DEF MidOK, f
<1>16. Started(r2)
  BY <1>2, <1>12 DEF Started, ReadOK
<1>17. ASSUME Synced(e, r2) PROVE StepOK(r2, w, s, g)
  <2>1. Synced(e, r)
    BY <1>17, <1>12 DEF Synced
  <2>2. StepOK(r, w, s, g) /\ WholeOf(r) = r.frame
    BY <2>1 DEF ReadOK, WholeOf, Mid
  <2>3. r.taken = c + r.behind /\ Within(w, c, r.frame) /\ AllMet(w, c, s, r.frame)
        /\ Len(g) = Upto(s, r.frame)
    <3>1. r.start - 1 = c
      BY DEF AtFront
    <3> QED
      BY <2>2, <3>1, Zenon DEF StepOK
  <2>4. r.frame \in 0 .. N
    <3> SUFFICES ASSUME r.frame > N PROVE FALSE
      BY <1>2
    <3>1. 1 \in 1 .. Size(s, k)
      <4>1. Size(s, k) \in Nat /\ Size(s, k) >= 2
        BY <1>1, LineTypes
      <4> QED
        BY <4>1
    <3>2. k \in 1 .. r.frame
      BY <1>2
    <3>3. OnLine(w, c, k, 1)
      BY <2>3, <3>1, <3>2 DEF AllMet
    <3> QED
      BY <3>3 DEF OnLine
  <2>5. k = r.frame + 1
    <3>1. FrameAt(w, c + 1) = k
      BY DEF AllOf
    <3>2. FrameAt(w, c + 1) = r.frame + 1
      BY <1>1, <2>3, <2>4, NextFrame
    <3> QED
      BY <3>1, <3>2
  <2>6. WholeOf(r2) = r.frame
    BY <1>2, <2>5 DEF WholeOf, Mid
  <2>7. AllMet(w, c + 2, s, r.frame)
    BY <2>3, AllMetMore
  <2>8. Within(w, c + 2, k)
    <3>1. \A i \in 1 .. c : FrameAt(w, i) \in Nat
      <4> TAKE i \in 1 .. c
      <4>1. i \in 1 .. L
        OBVIOUS
      <4>2. FrameAt(w, i) \in 1 .. N
        BY <1>1, <4>1, LineTypes
      <4> QED
        BY <4>2
    <3>2. Within(w, c, r.frame) /\ r.frame <= k
      BY <1>2, <2>3, <2>5
    <3>3. k \in Nat /\ 2 \in Nat
      OBVIOUS
    <3> QED
      BY <1>2, <3>1, <3>2, <3>3, WithinMore, Zenon
  <2>9. r2.taken = r2.start - 1 + r2.behind
    <3>1. r.taken = c + r.behind /\ c = r.start - 1
      BY <2>3 DEF AtFront
    <3> QED
      BY <1>2, <1>12, <3>1
  <2> QED
    BY <1>13, <2>3, <2>6, <2>7, <2>8, <2>9 DEF StepOK
<1> QED
  BY <1>15, <1>16, <1>17 DEF ReadOK

\* What e waits for.
Waits(e, r, n) ==
  /\ r.phase = "header"  => n = 2
  /\ r.phase = "length"  => n = NumBytes(r.code)
  /\ r.phase = "content" => n = r.length + IF e = "server" THEN 4 ELSE 0

\* The reader that is in the middle of a frame.
Middle(e, r, w, c, n, s, m, N) ==
  /\ r.frame \in 1 .. N /\ s[r.frame] \in Sent /\ FrameOK(Other(e), s[r.frame])
  /\ CountOK(s, m, r.frame)
  /\ Framing(e, r, s[r.frame]) /\ Met(w, c, r.frame, Eaten(r))
  /\ Eaten(r) \in Nat /\ n \in Nat /\ Eaten(r) >= 2
  /\ NumBytes(r.code) = Num(s[r.frame].data)
  /\ Size(s, r.frame) = 2 + Num(s[r.frame].data) + (IF e = "server" THEN 4 ELSE 0)
                        + Len(s[r.frame].data)
  /\ r.phase = "length" => n = Num(s[r.frame].data) /\ Eaten(r) = 2 /\ n > 0
  /\ r.phase = "content" =>
       /\ n = Len(s[r.frame].data) + (IF e = "server" THEN 4 ELSE 0)
       /\ Eaten(r) = 2 + Num(s[r.frame].data) /\ Eaten(r) + n = Size(s, r.frame)

\* That is where a reader in the middle of a frame is.
LEMMA InTheMiddle ==
  ASSUME NEW e \in End, NEW w, NEW p, NEW s, NEW m, NEW g,
         NEW L \in Nat, NEW M \in Nat, NEW N \in Nat, Feed(e, w, L, p, M, s, N, m),
         NEW r \in Reader, Mid(r), ReadOK(e, r, w, s, g),
         NEW c \in Nat, AtFront(r, c), NEW n, Waits(e, r, n)
  PROVE  Middle(e, r, w, c, n, s, m, N)
<1> DEFINE f == s[r.frame]
<1>1. r.frame \in 1 .. N /\ Framing(e, r, f) /\ Met(w, c, r.frame, Eaten(r))
  <2>1. MidOK(e, r, w, s)
    BY DEF ReadOK
  <2>2. r.frame \in 1 .. Len(s) /\ Framing(e, r, f) /\ Met(w, r.start - 1, r.frame, Eaten(r))
    BY <2>1, Zenon DEF MidOK
  <2>3. c = r.start - 1 /\ N = Len(s)
    BY DEF AtFront, Feed
  <2> QED
    BY <2>2, <2>3, Zenon
<1>2. f \in Sent /\ FrameOK(Other(e), f) /\ CountOK(s, m, r.frame)
  BY <1>1 DEF Feed
<1>3. r.code = Code(f.data) /\ (r.phase = "length" => Num(f.data) > 0)
      /\ (r.phase = "content" => r.length = Len(f.data))
  BY <1>1, Zenon DEF Framing
<1>4. NumBytes(r.code) = Num(f.data)
  BY <1>3, Zenon DEF Num, Code
<1>5. PICK mask \in MasksOf(Other(e)) : (mask # <<>>) = (e = "server")
                                         /\ f.bytes = Encode(f.op, mask, f.data)
  BY <1>1, Zenon DEF Framing
<1>6. f.op \in Byte /\ f.data \in Seq(Byte) /\ mask \in Mask
  BY <1>2, OpsAre, MasksAre DEF Sent
<1> HIDE DEF f
<1>7. Len(f.bytes) = 2 + Num(f.data) + (IF mask = <<>> THEN 0 ELSE 4) + Len(f.data)
  BY <1>5, <1>6, DecodeHeader, SMTT(30)
<1>8. Num(f.data) \in {0, 2, 8} /\ Len(f.data) \in Nat
  BY <1>6, NumIs
<1>p. PICK num \in {0, 2, 8}, len \in Nat, four \in {0, 4} :
      num = Num(f.data) /\ len = Len(f.data) /\ four = IF e = "server" THEN 4 ELSE 0
  BY <1>8
<1>9. Len(f.bytes) = 2 + num + four + len
  BY <1>5, <1>7, <1>p
<1>9a. Size(s, r.frame) = 2 + num + four + len
  BY <1>9 DEF Size, f
<1>10. ASSUME r.phase = "length" PROVE n = num /\ num > 0 /\ Eaten(r) = 2
  BY <1>3, <1>4, <1>10, <1>p DEF Waits, Eaten
<1>11. ASSUME r.phase = "content" PROVE n = len + four /\ Eaten(r) = 2 + num
  BY <1>3, <1>4, <1>11, <1>p DEF Waits, Eaten
<1>12. Eaten(r) \in Nat /\ n \in Nat /\ Eaten(r) >= 2
       /\ (r.phase = "content" => Eaten(r) + n = Size(s, r.frame))
  <2>1. r.phase = "length" \/ r.phase = "content"
    BY DEF Mid
  <2>2. CASE r.phase = "length"
    <3>1. n = num /\ Eaten(r) = 2
      BY <1>10, <2>2
    <3> QED
      BY <2>2, <3>1
  <2>3. CASE r.phase = "content"
    <3>1. n = len + four /\ Eaten(r) = 2 + num
      BY <1>11, <2>3
    <3>2. /\ 2 + num \in Nat /\ 2 + num >= 2 /\ len + four \in Nat
          /\ (2 + num) + (len + four) = 2 + num + four + len
      OBVIOUS
    <3> QED
      BY <1>9a, <3>1, <3>2, Zenon
  <2> QED
    BY <2>1, <2>2, <2>3
<1>13. s[r.frame] = f
  BY DEF f
<1> QED
  BY <1>1, <1>2, <1>4, <1>9a, <1>10, <1>11, <1>12, <1>13, <1>p DEF Middle

\* Where the reader stands in a line after the next n bytes of its frame k.
LEMMA FurtherWithin ==
  ASSUME NEW w, NEW p, NEW z, NEW L \in Nat, NEW M \in Nat, NEW N \in Nat,
         Line(w, L, p, M, z, N), NEW c \in Nat, NEW n \in Nat, c + n <= L,
         NEW k \in 1 .. N, AllOf(w, c, n, k), Within(w, c, k)
  PROVE  Within(w, c + n, k)
<1>1. \A i \in 1 .. c : FrameAt(w, i) \in Nat
  <2> TAKE i \in 1 .. c
  <2>1. i \in 1 .. L
    OBVIOUS
  <2>2. FrameAt(w, i) \in 1 .. N
    BY <2>1, LineTypes
  <2> QED
    BY <2>2
<1>2. k \in Nat /\ k <= k
  OBVIOUS
<1> QED
  BY <1>1, <1>2, WithinMore, Zenon

\* and one that has read a length,
LEMMA LengthKeeps ==
  ASSUME NEW e \in End, NEW w, NEW p, NEW s, NEW m, NEW g,
         NEW L \in Nat, NEW M \in Nat, NEW N \in Nat, Feed(e, w, L, p, M, s, N, m),
         NEW r \in Reader, r.phase = "length", ReadOK(e, r, w, s, g),
         NEW c \in Nat, AtFront(r, c), NEW n, Waits(e, r, n), c + n <= L,
         AllOf(w, c, n, r.frame),
         NEW r2, Goes(r, r2, n), r2.phase = "content", r2.frame = r.frame, r2.op = r.op,
         r2.code = r.code, r2.length = LengthOf(At(w, c, n, s))
  PROVE  ReadOK(e, r2, w, s, g) /\ r2.length \in Nat
<1> DEFINE k == r.frame
           f == s[k]
<1>0. Mid(r)
  BY DEF Mid
<1>1. /\ k \in 1 .. N /\ f \in Sent /\ FrameOK(Other(e), f)
      /\ Framing(e, r, f) /\ Met(w, c, k, Eaten(r)) /\ n \in Nat /\ n > 0
      /\ NumBytes(r.code) = Num(f.data) /\ n = Num(f.data) /\ Eaten(r) = 2
  <2>1. Middle(e, r, w, c, n, s, m, N)
    BY <1>0, InTheMiddle
  <2> QED
    BY <2>1 DEF Middle
<1>2. Line(w, L, p, M, s, N)
  BY DEF Feed
<1>3. r.start \in Nat /\ r.taken \in Nat /\ r.behind \in Nat /\ k \in Nat
  BY DEF Reader
<1>4. f.data \in Seq(Byte) /\ Len(f.data) <= MaxLength /\ Len(f.data) \in Nat
  BY <1>1, SMTT(30) DEF Sent, FrameOK
<1>5. PICK mask \in MasksOf(Other(e)) : (mask # <<>>) = (e = "server")
                                         /\ f.bytes = Encode(f.op, mask, f.data)
  BY <1>1, Zenon DEF Framing
<1>6. f.op \in Byte /\ mask \in Mask
  BY <1>1, OpsAre, MasksAre DEF Sent
<1>7. At(w, c, n, s) = [i \in 1 .. n |-> f.bytes[2 + i]]
  <2>1. n <= n /\ 2 \in Nat /\ Met(w, c, k, 2)
    BY <1>1
  <2>2. Shows(w, c, n, s, n, k, 2)
    <3>1. k \in 1 .. N /\ n \in Nat
      BY <1>1
    <3> QED
      BY <2>1, <3>1, AtAre
  <2>3. At(w, c, n, s) = [i \in 1 .. n |-> At(w, c, n, s)[i]]
    BY DEF At
  <2> QED
    BY <2>2, <2>3, Zenon DEF Shows
<1>8. LengthOf(At(w, c, n, s)) = Len(f.data)
  <2> HIDE DEF f
  <2>1. LengthOf([i \in 1 .. Num(f.data) |-> f.bytes[2 + i]]) = Len(f.data)
    <3>1. Num(f.data) > 0
      BY <1>1
    <3> QED
      BY <3>1, <1>4, <1>5, <1>6, DecodeLength
  <2> QED
    BY <1>1, <1>7, <2>1, Zenon
<1>9. Framing(e, r2, f)
  <2>1. r.op = f.op /\ r.code = Code(f.data)
    BY <1>1, Zenon DEF Framing
  <2> HIDE DEF f
  <2> QED
    BY <2>1, <1>5, <1>8 DEF Framing
<1>10. r2.start = r.start + n /\ r2.taken = r.taken + n /\ r2.behind = r.behind
  BY DEF Goes
<1>11. r.start - 1 = c
  BY DEF AtFront
<1>12. r2.start - 1 = c + n
  BY <1>1, <1>3, <1>10, <1>11
<1>13. MidOK(e, r2, w, s)
  <2>1. Eaten(r2) = 2 + n
    BY <1>1 DEF Eaten
  <2>2. Met(w, c, k, 2) /\ 2 \in Nat
    BY <1>1
  <2>3. Met(w, c + n, k, 2 + n)
    BY <1>1, <1>2, <2>2, MetMore, Zenon
  <2>4. k \in 1 .. Len(s)
    BY <1>1 DEF Feed
  <2> QED
    BY <1>9, <1>12, <2>1, <2>3, <2>4, Zenon DEF MidOK
<1>14. Started(r2)
  <2>1. r.start >= 1 /\ r.start <= r.taken + 1
    BY DEF ReadOK, Started
  <2>2. r2.start >= 1 /\ r2.start <= r2.taken + 1
    BY <1>1, <1>3, <1>10, <2>1
  <2> QED
    BY <2>2 DEF Started
<1>15. ASSUME Synced(e, r2) PROVE StepOK(r2, w, s, g)
  <2>1. Synced(e, r)
    BY <1>15, <1>10 DEF Synced
  <2>2. StepOK(r, w, s, g) /\ WholeOf(r) = k - 1 /\ WholeOf(r2) = k - 1
    BY <2>1, <1>0 DEF ReadOK, WholeOf, Mid
  <2>3. r.taken = c + r.behind /\ Within(w, c, k) /\ AllMet(w, c, s, k - 1)
        /\ Len(g) = Upto(s, k - 1)
    BY <2>2, <1>11, Zenon DEF StepOK
  <2>4. Within(w, c + n, k)
    <3>1. Within(w, c, k)
      BY <2>3
    <3> QED
      BY <1>1, <1>2, <3>1, FurtherWithin, Zenon
  <2>5. AllMet(w, c + n, s, k - 1)
    <3>1. AllMet(w, c, s, k - 1) /\ c <= c + n /\ c + n \in Nat
      BY <1>1, <2>3
    <3> QED
      BY <3>1, AllMetMore, Zenon
  <2>6. r2.taken = r2.start - 1 + r2.behind
    <3>1. r.taken = r.start - 1 + r.behind
      BY <2>3, <1>11
    <3> QED
      BY <1>1, <1>3, <1>10, <3>1
  <2> QED
    BY <1>12, <2>2, <2>3, <2>4, <2>5, <2>6, Zenon DEF StepOK
<1> QED
  BY <1>4, <1>8, <1>13, <1>14, <1>15, Zenon DEF ReadOK

\* The data of a message, read with n bytes, or d at the client.
DataOf(e, r, w, c, n, d, s) ==
  IF e = "server" THEN Unmasked(At(w, c, n, s), r.length)
  ELSE At(w, c, d, s)

\* The data begin with those of the frame, and are those in a reader in step.
Whole(e, r, data, f) ==
  /\ data \in Seq(Byte) /\ Len(data) >= Len(f.data)
  /\ \A i \in 1 .. Len(f.data) : data[i] = f.data[i]
  /\ Synced(e, r) => data = f.data

\* Sequences of the same elements are the same.
LEMMA SameBytes ==
  ASSUME NEW S, NEW a \in Seq(S), NEW b \in Seq(S), Len(a) = Len(b),
         \A i \in 1 .. Len(b) : a[i] = b[i]
  PROVE  a = b
OBVIOUS

\* What is read as the data of a message are its data: the masks cancel, and the
\* client takes no byte of another frame with them when it is in step.
LEMMA ContentData ==
  ASSUME NEW e \in End, NEW w, NEW p, NEW s, NEW m, NEW g,
         NEW L \in Nat, NEW M \in Nat, NEW N \in Nat, Feed(e, w, L, p, M, s, N, m),
         NEW r \in Reader, r.phase = "content", ReadOK(e, r, w, s, g),
         NEW c \in Nat, AtFront(r, c), NEW n, Waits(e, r, n), r.taken + n <= L,
         AllOf(w, c, n, r.frame)
  PROVE  Whole(e, r, DataOf(e, r, w, c, n, r.taken + n - r.start + 1, s), s[r.frame])
<1> DEFINE k == r.frame
           f == s[k]
           d == r.taken + n - r.start + 1
<1>0. Mid(r) /\ r.phase # "length"
  BY DEF Mid
<1>1. /\ k \in 1 .. N /\ f \in Sent /\ FrameOK(Other(e), f)
      /\ Framing(e, r, f) /\ Met(w, c, k, Eaten(r)) /\ n \in Nat
      /\ n = Len(f.data) + (IF e = "server" THEN 4 ELSE 0)
      /\ Eaten(r) = 2 + Num(f.data) /\ Eaten(r) \in Nat
  <2>1. Middle(e, r, w, c, n, s, m, N)
    BY <1>0, InTheMiddle
  <2> QED
    BY <2>1 DEF Middle
<1>3. r.start \in Nat /\ r.taken \in Nat /\ r.behind \in Nat /\ k \in Nat
  BY DEF Reader
<1>4. f.data \in Seq(Byte) /\ Len(f.data) \in Nat
  BY <1>1 DEF Sent
<1>5. PICK mask \in MasksOf(Other(e)) : (mask # <<>>) = (e = "server")
                                         /\ f.bytes = Encode(f.op, mask, f.data)
  BY <1>1, Zenon DEF Framing
<1>6. f.op \in Byte /\ mask \in Mask
  BY <1>1, OpsAre, MasksAre DEF Sent
<1>7. r.start >= 1 /\ r.start <= r.taken + 1
  BY DEF ReadOK, Started
<1>8. r.start - 1 = c
  BY DEF AtFront
<1>9. d \in Nat /\ n <= d /\ c + d <= L /\ c + n <= L /\ (r.taken = c => d = n)
  <2>1. n \in Nat
    BY <1>1
  <2> QED
    BY <2>1, <1>3, <1>7, <1>8
<1>10. r.length = Len(f.data)
  BY <1>1, Zenon DEF Framing
<1> HIDE DEF d
<1>11. CASE e = "server"
  <2>1. At(w, c, n, s) = [i \in 1 .. Len(f.data) + 4 |-> f.bytes[2 + Num(f.data) + i]]
    <3>1. Shows(w, c, n, s, n, k, Eaten(r))
      <4>1. n <= n
        BY <1>1
      <4> QED
        BY <1>1, <1>9, <4>1, AtAre
    <3>2. At(w, c, n, s) = [i \in 1 .. n |-> At(w, c, n, s)[i]]
      BY DEF At
    <3>3. n = Len(f.data) + 4
      BY <1>1, <1>11
    <3>4. Eaten(r) = 2 + Num(f.data)
      BY <1>1
    <3>5. \A i \in 1 .. n : At(w, c, n, s)[i] = f.bytes[2 + Num(f.data) + i]
      BY <3>1, <3>4, Zenon DEF Shows
    <3> QED
      BY <3>2, <3>3, <3>5, Zenon
  <2>2. mask \in [1 .. 4 -> Byte]
    BY <1>5, <1>6, <1>11 DEF Mask
  <2>3. DataOf(e, r, w, c, n, d, s) = f.data
    <3>1. Remains(At(w, c, n, s), f.bytes, f.data)
      BY <2>1, Zenon DEF Remains
    <3>2. Unmasked(At(w, c, n, s), Len(f.data)) = f.data
      BY <1>4, <1>5, <1>6, <2>2, <3>1, DecodeMasked
    <3> QED
      BY <1>10, <1>11, <3>2, Zenon DEF DataOf
  <2> QED
    BY <1>4, <2>3 DEF Whole, d
<1>12. CASE e # "server"
  <2>1. DataOf(e, r, w, c, n, d, s) = At(w, c, d, s) /\ n = Len(f.data)
    BY <1>1, <1>12 DEF DataOf
  <2>2. At(w, c, d, s) \in Seq(Byte) /\ Len(At(w, c, d, s)) = d
    BY <1>9, AtType
  <2>3. Shows(w, c, d, s, n, k, Eaten(r))
    BY <1>1, <1>9, AtAre
  <2>4. mask = <<>>
    BY <1>5, <1>12
  <2>5. ASSUME NEW i \in 1 .. Len(f.data) PROVE At(w, c, d, s)[i] = f.data[i]
    <3>1. At(w, c, d, s)[i] = f.bytes[2 + Num(f.data) + i]
      <4>1. Eaten(r) = 2 + Num(f.data)
        BY <1>1
      <4> QED
        BY <2>1, <2>3, <4>1, Zenon DEF Shows
    <3>2. Plain(f.bytes, f.op, f.data)
      <4> HIDE DEF f
      <4> QED
        BY <1>4, <1>5, <1>6, <2>4, EncodePlain
    <3> QED
      BY <3>1, <3>2, Zenon DEF Plain
  <2>6. ASSUME Synced(e, r) PROVE At(w, c, d, s) = f.data
    <3>1. e = "client" /\ r.behind = 0
      BY <1>12, <2>6 DEF Synced, End
    <3>2. r.taken = r.start - 1 + r.behind
      BY <2>6 DEF ReadOK, StepOK
    <3>3. r.taken = c
      BY <1>3, <1>8, <3>1, <3>2
    <3>4. Len(At(w, c, d, s)) = Len(f.data)
      BY <1>9, <2>1, <2>2, <3>3
    <3> HIDE DEF f
    <3> QED
      BY <1>4, <2>2, <2>5, <3>4, SameBytes, Zenon
  <2>7. Len(At(w, c, d, s)) >= Len(f.data)
    BY <1>4, <1>9, <2>1, <2>2
  <2> QED
    BY <2>1, <2>2, <2>5, <2>6, <2>7, Zenon DEF Whole, d
<1> QED
  BY <1>11, <1>12

\* What reader r still has to take at the front of the line is part of the line,
LEMMA FrontFits ==
  ASSUME NEW r \in Reader, Started(r), NEW c \in Nat, AtFront(r, c), NEW n \in Nat,
         NEW L \in Nat, r.taken + n <= L
  PROVE  r.start - 1 = c /\ c + n \in Nat /\ c + n <= L
<1>1. r.start \in Nat /\ r.taken \in Nat
  BY DEF Reader
<1> QED
  BY <1>1 DEF Started, AtFront

\* and the frame that follows starts where r has then read to,
LEMMA NextStarts ==
  ASSUME NEW r \in Reader, Started(r), NEW n \in Nat, NEW e, NEW r2, r2.phase = "header",
         r2.taken = r.taken + n, r2.start = (IF e = "client" THEN r.taken + n + 1 ELSE r.start + n)
  PROVE  Started(r2)
<1>1. r.start \in Nat /\ r.taken \in Nat
  BY DEF Reader
<1> QED
  BY <1>1 DEF Started

\* A reader that has read the data and goes on to the next message stays right.
LEMMA NextKeeps ==
  ASSUME NEW e \in End, NEW w, NEW p, NEW s, NEW m, NEW g,
         NEW L \in Nat, NEW M \in Nat, NEW N \in Nat, Feed(e, w, L, p, M, s, N, m),
         NEW r \in Reader, r.phase = "content", ReadOK(e, r, w, s, g),
         NEW c \in Nat, AtFront(r, c), NEW n, Waits(e, r, n), r.taken + n <= L,
         AllOf(w, c, n, r.frame),
         NEW r2, r2.phase = "header", r2.frame = r.frame, r2.taken = r.taken + n,
         r2.behind = r.behind, r2.start = (IF e = "client" THEN r.taken + n + 1 ELSE r.start + n),
         NEW g2, Len(g2) = Len(g) + IF IsMessage(s[r.frame].op) THEN 1 ELSE 0
  PROVE  ReadOK(e, r2, w, s, g2)
<1> DEFINE k == r.frame
<1>0. Mid(r) /\ ~ Mid(r2)
  BY DEF Mid
<1>1. /\ k \in 1 .. N /\ CountOK(s, m, k) /\ Met(w, c, k, Eaten(r)) /\ n \in Nat
      /\ Eaten(r) \in Nat /\ Eaten(r) + n = Size(s, k)
  <2>1. Middle(e, r, w, c, n, s, m, N)
    BY <1>0, InTheMiddle
  <2> QED
    BY <2>1 DEF Middle
<1>2. Line(w, L, p, M, s, N)
  BY DEF Feed
<1>3. r.start \in Nat /\ r.taken \in Nat /\ r.behind \in Nat /\ k \in Nat
  BY DEF Reader
<1>n. n \in Nat
  BY <1>1, Zenon
<1>4. Started(r)
  BY Zenon DEF ReadOK
<1>5. r.start - 1 = c /\ c + n \in Nat /\ c + n <= L
  BY <1>n, <1>4, FrontFits
<1>6. Started(r2)
  BY <1>n, <1>4, NextStarts, Zenon
<1>7. MidOK(e, r2, w, s)
  BY <1>0 DEF MidOK
<1>8. ASSUME Synced(e, r2) PROVE StepOK(r2, w, s, g2)
  <2>1. Synced(e, r)
    BY <1>8 DEF Synced
  <2>2. StepOK(r, w, s, g) /\ WholeOf(r) = k - 1 /\ WholeOf(r2) = k
    BY <2>1, <1>0 DEF ReadOK, WholeOf
  <2>3. r.taken = c + r.behind /\ Within(w, c, k) /\ AllMet(w, c, s, k - 1)
        /\ Len(g) = Upto(s, k - 1)
    BY <2>2, <1>5, Zenon DEF StepOK
  <2>4. Within(w, c + n, k)
    <3>1. Within(w, c, k)
      BY <2>3
    <3> QED
      BY <1>1, <1>2, <1>5, <3>1, FurtherWithin, Zenon
  <2>5. AllMet(w, c + n, s, k)
    <3>1. AllMet(w, c + n, s, k - 1)
      <4>1. AllMet(w, c, s, k - 1) /\ c <= c + n
        BY <1>1, <2>3
      <4> QED
        BY <1>5, <4>1, AllMetMore, Zenon
    <3>2. Met(w, c + n, k, Size(s, k))
      <4>1. Met(w, c + n, k, Eaten(r) + n)
        BY <1>1, <1>2, <1>5, MetMore, Zenon
      <4> QED
        BY <1>1, <4>1, Zenon
    <3> SUFFICES ASSUME NEW j \in 1 .. k, NEW a \in 1 .. Size(s, j) PROVE OnLine(w, c + n, j, a)
      BY DEF AllMet
    <3>3. CASE j \in 1 .. k - 1
      BY <3>1, <3>3 DEF AllMet
    <3>4. CASE j = k
      BY <3>2, <3>4 DEF Met
    <3> QED
      BY <1>3, <3>3, <3>4
  <2>6. r2.start - 1 = c + n /\ r2.taken = r2.start - 1 + r2.behind
    <3>1. r.taken = r.start - 1 + r.behind
      BY <2>3, <1>5
    <3>2. e = "client" => r.behind = 0
      BY <2>1 DEF Synced
    <3> QED
      <4>1. CASE e = "client"
        <5>1. r2.start = r.taken + n + 1 /\ r.behind = 0
          BY <3>2, <4>1
        <5>2. r.taken = c
          BY <1>3, <1>5, <3>1, <5>1
        <5>3. r2.taken = c + n /\ r2.behind = 0 /\ r2.start = c + n + 1
          BY <5>1, <5>2
        <5> QED
          BY <1>n, <5>3
      <4>2. CASE e # "client"
        <5>1. r2.start = r.start + n
          BY <4>2
        <5>2. r.start = c + 1 /\ r.taken = c + r.behind
          BY <1>3, <1>5, <3>1, SMTT(30)
        <5>3. r2.start = c + 1 + n /\ r2.taken = c + r.behind + n /\ r2.behind = r.behind
          BY <5>1, <5>2
        <5>4. r.behind \in Nat
          BY <1>3
        <5> QED
          BY <1>n, <5>3, <5>4, SMTT(30)
      <4> QED
        BY <4>1, <4>2
  <2>7. Len(g2) = Upto(s, k)
    <3>1. s[k].upto = Upto(s, k - 1) + (IF IsMessage(s[k].op) THEN 1 ELSE 0)
      BY <1>1 DEF CountOK
    <3>2. Upto(s, k) = s[k].upto
      BY <1>1 DEF Upto
    <3> QED
      BY <2>3, <3>1, <3>2
  <2> QED
    BY <2>2, <2>4, <2>5, <2>6, <2>7 DEF StepOK
<1> QED
  BY <1>6, <1>7, <1>8 DEF ReadOK

\* A longer line of more frames.
Extends(w, L, s, N, w2, s2) ==
  /\ \A i \in 1 .. L : FrameAt(w2, i) = FrameAt(w, i) /\ PlaceAt(w2, i) = PlaceAt(w, i)
  /\ \A k \in 1 .. N : s2[k] = s[k]
  /\ N = Len(s) /\ Len(s2) \in Nat /\ N <= Len(s2)

\* What a reader took is still what it was.
LEMMA ReaderGrown ==
  ASSUME NEW e, NEW w, NEW s, NEW g, NEW L \in Nat, NEW N \in Nat, NEW w2, NEW s2,
         Extends(w, L, s, N, w2, s2), NEW r \in Reader, r.taken <= L, r.frame <= N,
         ReadOK(e, r, w, s, g)
  PROVE  ReadOK(e, r, w2, s2, g)
<1>1. r.start \in Nat /\ r.taken \in Nat /\ r.frame \in Nat /\ Started(r)
  BY DEF Reader, ReadOK
<1>2. PICK c \in Nat : c = r.start - 1 /\ c <= L
  BY <1>1 DEF Started
<1>3. \A i \in 1 .. c : FrameAt(w2, i) = FrameAt(w, i) /\ PlaceAt(w2, i) = PlaceAt(w, i)
  <2> TAKE i \in 1 .. c
  <2>1. i \in 1 .. L
    BY <1>2
  <2> QED
    BY <2>1 DEF Extends
<1>4. \A k, a : OnLine(w, c, k, a) => OnLine(w2, c, k, a)
  BY <1>3 DEF OnLine
<1>5. MidOK(e, r, w2, s2)
  <2> SUFFICES ASSUME Mid(r)
               PROVE  /\ r.frame \in 1 .. Len(s2) /\ Framing(e, r, s2[r.frame])
                      /\ Met(w2, c, r.frame, Eaten(r))
    BY <1>2 DEF MidOK
  <2>1. /\ r.frame \in 1 .. Len(s) /\ Framing(e, r, s[r.frame])
        /\ Met(w, c, r.frame, Eaten(r))
    BY <1>2, Zenon DEF ReadOK, MidOK
  <2>2. r.frame \in 1 .. N /\ N \in Nat /\ Len(s2) \in Nat /\ N <= Len(s2)
    BY <2>1 DEF Extends
  <2>3. s2[r.frame] = s[r.frame] /\ r.frame \in 1 .. Len(s2)
    BY <2>2 DEF Extends
  <2>4. Met(w2, c, r.frame, Eaten(r))
    BY <1>3, <1>4, <2>1 DEF Met
  <2> QED
    BY <2>1, <2>3, <2>4, Zenon
<1>6. ASSUME Synced(e, r) PROVE StepOK(r, w2, s2, g)
  <2>1. /\ r.taken = r.start - 1 + r.behind /\ Within(w, c, r.frame)
        /\ AllMet(w, c, s, WholeOf(r)) /\ Len(g) = Upto(s, WholeOf(r))
    BY <1>2, <1>6, Zenon DEF ReadOK, StepOK
  <2>2. WholeOf(r) \in 0 .. N
    <3>1. Mid(r) => r.frame \in 1 .. Len(s)
      BY DEF ReadOK, MidOK
    <3>2. Mid(r) => r.frame >= 1
      BY <3>1
    <3> QED
      BY <1>1, <3>2 DEF WholeOf
  <2>3. Within(w2, c, r.frame)
    BY <1>3, <2>1 DEF Within
  <2>4. \A k \in 1 .. WholeOf(r) : s2[k] = s[k]
    <3> TAKE k \in 1 .. WholeOf(r)
    <3>1. k \in 1 .. N
      BY <2>2
    <3> QED
      BY <3>1 DEF Extends
  <2>5. AllMet(w2, c, s2, WholeOf(r))
    <3> SUFFICES ASSUME NEW k \in 1 .. WholeOf(r), NEW a \in 1 .. Size(s2, k)
                 PROVE  OnLine(w2, c, k, a)
      BY DEF AllMet
    <3>1. a \in 1 .. Size(s, k)
      BY <2>4 DEF Size
    <3>2. OnLine(w, c, k, a)
      BY <2>1, <3>1 DEF AllMet
    <3> QED
      BY <1>4, <3>2
  <2>6. Upto(s2, WholeOf(r)) = Upto(s, WholeOf(r))
    <3>1. WholeOf(r) # 0 => WholeOf(r) \in 1 .. WholeOf(r)
      BY <2>2
    <3> QED
      BY <2>4, <3>1 DEF Upto
  <2> QED
    BY <1>2, <2>1, <2>3, <2>5, <2>6, Zenon DEF StepOK
<1> QED
  BY <1>1, <1>5, <1>6 DEF ReadOK

-----------------------------------------------------------------------------
RestOK ==
  /\ reader \in [End -> Reader] /\ got \in [End -> Seq(Posted)]
  /\ closed \in [End -> BOOLEAN] /\ began \in [End -> BOOLEAN]
  /\ told \in [End -> Status \cup {None, 1002}]

BoundsOf(e) == /\ reader[e].taken <= Len(wire[Other(e)])
               /\ reader[e].frame <= Len(sent[Other(e)])

IInv == /\ Functions /\ RestOK
        /\ \A e \in End : OutOK(e) /\ ReaderOf(e) /\ BoundsOf(e) /\ CloseOf(e)

-----------------------------------------------------------------------------
\* The inductive invariant gives the types.
LEMMA TypeIsOK == IInv => TypeOK
<1> SUFFICES ASSUME IInv PROVE TypeOK
  OBVIOUS
<1>1. Functions /\ RestOK /\ \A e \in End : OutOK(e) /\ BoundsOf(e)
  BY DEF IInv
<1>2. \A e \in End : sent[e] \in Seq(Sent) /\ messages[e] \in Seq(Posted)
                     /\ pending[e] \in Seq(Pending) /\ wire[e] \in Seq(Nat \X Nat)
  BY <1>1 DEF OutOK
<1>3. sent \in [End -> Seq(Sent)] /\ messages \in [End -> Seq(Posted)]
      /\ pending \in [End -> Seq([frame : Nat, gone : Nat])] /\ wire \in [End -> Seq(Nat \X Nat)]
  BY <1>1, <1>2 DEF Functions, Pending
<1>4. ASSUME NEW e \in End
      PROVE  /\ \A i \in DOMAIN pending[e] : pending[e][i].frame \in DOMAIN sent[e]
             /\ \A i \in DOMAIN wire[e] : wire[e][i][1] \in DOMAIN sent[e]
             /\ reader[e].taken <= Len(wire[Other(e)])
             /\ reader[e].frame \in 0 .. Len(sent[Other(e)])
  <2>1. Line(wire[e], Len(wire[e]), pending[e], Len(pending[e]), sent[e], Len(sent[e]))
    BY <1>1 DEF OutOK, LineOf
  <2>2. /\ Len(wire[e]) \in Nat /\ Len(pending[e]) \in Nat /\ Len(sent[e]) \in Nat
        /\ DOMAIN wire[e] = 1 .. Len(wire[e]) /\ DOMAIN pending[e] = 1 .. Len(pending[e])
        /\ DOMAIN sent[e] = 1 .. Len(sent[e])
    BY <1>2
  <2>3. /\ \A i \in 1 .. Len(wire[e]) : FrameAt(wire[e], i) \in 1 .. Len(sent[e])
        /\ \A i \in 1 .. Len(pending[e]) : FrameOf(pending[e], i) \in 1 .. Len(sent[e])
    BY <2>1, <2>2, LineTypes
  <2>4. Other(e) \in End
    BY Ends
  <2>5. reader[e].frame \in Nat /\ Len(sent[Other(e)]) \in Nat
    BY <1>1, <1>2, <2>4, SMTT(30) DEF RestOK, Reader
  <2> QED
    BY <1>1, <2>2, <2>3, <2>5 DEF FrameAt, FrameOf, BoundsOf
<1> QED
  BY <1>1, <1>3, <1>4 DEF RestOK, TypeOK

-----------------------------------------------------------------------------
\* What a step may do: the output of e grows,
Grows(e) == /\ Extends(wire[e], Len(wire[e]), sent[e], Len(sent[e]), wire'[e], sent'[e])
            /\ Len(wire[e]) <= Len(wire'[e])
OutMoves == Functions' /\ \A e \in End : OutOK(e)' /\ Grows(e)

\* the reader at e takes what there is,
ReaderMoves(e) ==
  /\ ReadOK(e, reader'[e], wire[Other(e)], sent[Other(e)], got'[e])
  /\ reader'[e].taken <= Len(wire[Other(e)]) /\ reader'[e].frame <= Len(sent[Other(e)])

\* and e closes, once.
MayClose(e, f) == /\ ~ closed[e] /\ closed'[e]
                  /\ began'[e] \/ (told'[e] # None /\ f.data = StatusBytes(told'[e]))

CloseMoves(e) ==
  /\ \A i \in 1 .. Len(sent'[e]) : sent'[e][i].op = Close =>
       i \in 1 .. Len(sent[e]) \/ (i = Len(sent[e]) + 1 /\ MayClose(e, sent'[e][i]))
  /\ closed[e] => closed'[e]
  /\ began[e] => began'[e]
  /\ \/ told'[e] = told[e]
     \/ told[e] = None /\ (told'[e] \notin {None, 1002} => \E i \in 1 .. Len(sent[Other(e)]) :
          sent[Other(e)][i].op = Close /\ sent[Other(e)][i].data = StatusBytes(told'[e]))
  /\ told'[e] # None => reader'[e].phase = "closed"

\* A step of these kinds keeps what IInv says of the close frames,
LEMMA CloseStep ==
  ASSUME IInv, OutMoves, NEW e \in End, CloseMoves(e)
  PROVE  CloseOf(e)'
<1> DEFINE s == sent[e]  s2 == sent'[e]  o == sent[Other(e)]  o2 == sent'[Other(e)]
<1>0. Other(e) \in End
  BY Ends
<1>1. /\ Len(s) \in Nat /\ Len(s2) \in Nat /\ Len(s) <= Len(s2)
      /\ \A i \in 1 .. Len(s) : s2[i] = s[i]
  <2>1. s \in Seq(Sent)
    BY DEF IInv, OutOK
  <2> QED
    BY <2>1 DEF OutMoves, Grows, Extends
<1>2. /\ Len(o) \in Nat /\ Len(o2) \in Nat /\ Len(o) <= Len(o2)
      /\ \A i \in 1 .. Len(o) : o2[i] = o[i]
  <2>1. o \in Seq(Sent)
    BY <1>0 DEF IInv, OutOK
  <2> QED
    BY <2>1, <1>0 DEF OutMoves, Grows, Extends
<1>3. /\ \A i, j \in 1 .. Len(s) : s[i].op = Close /\ s[j].op = Close => i = j
      /\ \A i \in 1 .. Len(s) : s[i].op = Close =>
           /\ closed[e]
           /\ ~ began[e] => told[e] # None /\ s[i].data = StatusBytes(told[e])
      /\ told[e] \notin {None, 1002} =>
           \E i \in 1 .. Len(o) : o[i].op = Close /\ o[i].data = StatusBytes(told[e])
  BY DEF IInv, CloseOf
<1>4. /\ \A i \in 1 .. Len(s2) : s2[i].op = Close =>
           i \in 1 .. Len(s) \/ (i = Len(s) + 1 /\ MayClose(e, s2[i]))
      /\ closed[e] => closed'[e]
      /\ began[e] => began'[e]
      /\ \/ told'[e] = told[e]
         \/ told[e] = None /\ (told'[e] \notin {None, 1002} => \E i \in 1 .. Len(o) :
              o[i].op = Close /\ o[i].data = StatusBytes(told'[e]))
      /\ told'[e] # None => reader'[e].phase = "closed"
  BY DEF CloseMoves
<1> HIDE DEF s, s2, o, o2
<1>5. \A i, j \in 1 .. Len(s2) : s2[i].op = Close /\ s2[j].op = Close => i = j
  <2> SUFFICES ASSUME NEW i \in 1 .. Len(s2), NEW j \in 1 .. Len(s2),
                      s2[i].op = Close, s2[j].op = Close
               PROVE  i = j
    OBVIOUS
  <2>1. i \in 1 .. Len(s) => closed[e]
    BY <1>1, <1>3
  <2>2. j \in 1 .. Len(s) => closed[e]
    BY <1>1, <1>3
  <2>3. CASE i \in 1 .. Len(s) /\ j \in 1 .. Len(s)
    BY <1>1, <1>3, <2>3
  <2>4. CASE ~ (i \in 1 .. Len(s) /\ j \in 1 .. Len(s))
    BY <1>4, <2>1, <2>2, <2>4 DEF MayClose
  <2> QED
    BY <2>3, <2>4
<1>6. ASSUME NEW i \in 1 .. Len(s2), s2[i].op = Close
      PROVE  closed'[e] /\ (~ began'[e] => told'[e] # None /\ s2[i].data = StatusBytes(told'[e]))
  <2>1. CASE i \in 1 .. Len(s)
    <3>1. s2[i] = s[i] /\ s[i].op = Close
      BY <1>1, <1>6, <2>1
    <3> QED
      BY <1>3, <1>4, <2>1, <3>1
  <2>2. CASE MayClose(e, s2[i])
    BY <2>2 DEF MayClose
  <2> QED
    BY <1>4, <1>6, <2>1, <2>2
<1>7. ASSUME told'[e] \notin {None, 1002}
      PROVE  \E i \in 1 .. Len(o2) : o2[i].op = Close /\ o2[i].data = StatusBytes(told'[e])
  <2>1. PICK i \in 1 .. Len(o) : o[i].op = Close /\ o[i].data = StatusBytes(told'[e])
    BY <1>3, <1>4, <1>7
  <2>2. i \in 1 .. Len(o2) /\ o2[i] = o[i]
    BY <1>2
  <2> QED
    BY <2>1, <2>2
<1> QED
  BY <1>4, <1>5, <1>6, <1>7 DEF CloseOf, s2, o2

\* and all of IInv.
LEMMA Assemble ==
  ASSUME IInv, OutMoves, RestOK', \A e \in End : ReaderMoves(e) /\ CloseMoves(e)
  PROVE  IInv'
<1> SUFFICES ASSUME NEW e \in End PROVE (OutOK(e) /\ ReaderOf(e) /\ BoundsOf(e) /\ CloseOf(e))'
  BY DEF IInv, OutMoves
<1>1. OutOK(e)'
  BY DEF OutMoves
<1>2. CloseOf(e)'
  BY CloseStep
<1>3. Other(e) \in End
  BY Ends
<1> DEFINE o == Other(e)
           w == wire[o]
           s == sent[o]
<1>4. w \in Seq(Nat \X Nat) /\ s \in Seq(Sent)
  BY <1>3 DEF IInv, OutOK
<1>5. Extends(w, Len(w), s, Len(s), wire'[o], sent'[o]) /\ Len(w) <= Len(wire'[o])
  BY <1>3 DEF OutMoves, Grows
<1>6. wire'[o] \in Seq(Nat \X Nat) /\ sent'[o] \in Seq(Sent)
  BY <1>3 DEF OutMoves, OutOK
<1>7. ReadOK(e, reader'[e], w, s, got'[e]) /\ reader'[e].taken <= Len(w) /\ reader'[e].frame <= Len(s)
  BY DEF ReaderMoves
<1>8. reader'[e] \in Reader
  BY DEF RestOK
<1>9. Len(w) \in Nat /\ Len(s) \in Nat /\ Len(wire'[o]) \in Nat /\ Len(sent'[o]) \in Nat
  BY <1>4, <1>6
<1> HIDE DEF w, s, o
<1>10. ReadOK(e, reader'[e], wire'[o], sent'[o], got'[e])
  BY <1>5, <1>7, <1>8, <1>9, ReaderGrown
<1>11. ReaderOf(e)'
  BY <1>10, Zenon DEF ReaderOf, o
<1>12. reader'[e].taken <= Len(wire'[o]) /\ reader'[e].frame <= Len(sent'[o])
  <2>1. Len(s) <= Len(sent'[o])
    BY <1>5 DEF Extends
  <2>2. reader'[e].taken \in Nat /\ reader'[e].frame \in Nat
    BY <1>8 DEF Reader
  <2> QED
    BY <1>5, <1>7, <1>9, <2>1, <2>2
<1>13. BoundsOf(e)'
  BY <1>12, Zenon DEF BoundsOf, o
<1> QED
  BY <1>1, <1>2, <1>11, <1>13

-----------------------------------------------------------------------------
\* Steps without output, and with output of one end.
LEMMA NoOutput ==
  ASSUME IInv, sent' = sent, messages' = messages, pending' = pending, wire' = wire
  PROVE  OutMoves
<1>1. ASSUME NEW e \in End PROVE OutOK(e)' /\ Grows(e)
  <2>1. OutOK(e)
    BY DEF IInv
  <2>2. Len(sent[e]) \in Nat /\ Len(wire[e]) \in Nat
    BY <2>1 DEF OutOK
  <2>3. OutOK(e)'
    BY <2>1 DEF OutOK, LineOf
  <2> QED
    BY <2>2, <2>3 DEF Grows, Extends
<1>2. Functions'
  BY DEF IInv, Functions
<1> QED
  BY <1>1, <1>2 DEF OutMoves

\* The output of the other end stays as it is.
LEMMA OthersOutput ==
  ASSUME IInv, NEW e \in End, OutOK(e)', Functions', OnlyAt(e), Grows(e)
  PROVE  OutMoves
<1> SUFFICES ASSUME NEW o \in End, o # e PROVE OutOK(o)' /\ Grows(o)
  BY DEF OutMoves
<1>1. OutOK(o)
  BY DEF IInv
<1>2. sent'[o] = sent[o] /\ messages'[o] = messages[o] /\ pending'[o] = pending[o]
      /\ wire'[o] = wire[o]
  BY DEF OnlyAt
<1>3. Len(sent[o]) \in Nat /\ Len(wire[o]) \in Nat
  BY <1>1 DEF OutOK
<1>4. OutOK(o)'
  BY <1>1, <1>2 DEF OutOK, LineOf
<1> QED
  BY <1>2, <1>3, <1>4 DEF Grows, Extends

\* The frame f has been sent at e, and nothing at the other end.
OneSent(e, f) == /\ f \in Sent
                 /\ sent'[e] = Append(sent[e], f)
                 /\ \A o \in End : o # e => sent'[o] = sent[o]

\* send is a step of this kind,
LEMMA SendOutput ==
  ASSUME IInv, NEW e \in End, NEW op, NEW data, Sendable(op, data), Send(e, op, data), wire' = wire
  PROVE  OutMoves /\ \E f \in Sent : f.op = op /\ f.data = data /\ OneSent(e, f)
<1>1. OutOK(e) /\ Functions
  BY DEF IInv
<1>2. OutOK(e)' /\ Functions' /\ OnlyAt(e)
  BY <1>1, SendStep
<1>3. PICK f \in Sent : f.op = op /\ f.data = data /\ SentOne(e, f)
  BY <1>1, SendStep
<1>4. sent'[e] = Append(sent[e], f) /\ sent[e] \in Seq(Sent) /\ wire[e] \in Seq(Nat \X Nat)
  BY <1>1, <1>3 DEF SentOne, OutOK
<1>5. Grows(e)
  <2>1. Len(sent'[e]) = Len(sent[e]) + 1 /\ \A k \in 1 .. Len(sent[e]) : sent'[e][k] = sent[e][k]
    BY <1>4
  <2> QED
    BY <1>4, <2>1 DEF Grows, Extends
<1>6. OutMoves
  BY <1>2, <1>5, OthersOutput
<1>7. OneSent(e, f)
  BY <1>2, <1>4 DEF OneSent, OnlyAt
<1> QED
  BY <1>3, <1>6, <1>7

\* and a reader that does nothing is right when more output comes.
LEMMA ReaderStays ==
  ASSUME IInv, NEW e \in End, reader'[e] = reader[e], got'[e] = got[e]
  PROVE  ReaderMoves(e)
BY Zenon DEF IInv, ReaderOf, BoundsOf, ReaderMoves

\* A close at e is none at the other end.
LEMMA CloseStays ==
  ASSUME IInv, NEW e \in End, closed'[e] = closed[e], began'[e] = began[e], told'[e] = told[e],
         reader'[e].phase = reader[e].phase \/ told[e] = None,
         \A i \in 1 .. Len(sent'[e]) : sent'[e][i].op = Close => i \in 1 .. Len(sent[e])
  PROVE  CloseMoves(e)
<1>1. told[e] # None => reader[e].phase = "closed"
  BY DEF IInv, CloseOf
<1> QED
  BY <1>1 DEF CloseMoves

\* A reader that waits was not told to close.
LEMMA NotTold ==
  ASSUME IInv, NEW e \in End, reader[e].phase # "closed"
  PROVE  told[e] = None
BY DEF IInv, CloseOf

-----------------------------------------------------------------------------
\* An update of a function changes it in one place.
LEMMA ExceptIs ==
  ASSUME NEW S, NEW T, NEW f \in [S -> T], NEW x \in S, NEW v \in T, NEW g,
         g = [f EXCEPT ![x] = v]
  PROVE  g \in [S -> T] /\ g[x] = v /\ \A y \in S : y # x => g[y] = f[y]
  OBVIOUS

\* A step at one end.
LEMMA AtOneEnd ==
  ASSUME IInv, NEW e \in End, NEW r2 \in Reader, reader' = [reader EXCEPT ![e] = r2],
         got' \in [End -> Seq(Posted)], closed' \in [End -> BOOLEAN], began' \in [End -> BOOLEAN],
         told' \in [End -> Status \cup {None, 1002}],
         \A x \in End : x # e => /\ got'[x] = got[x] /\ closed'[x] = closed[x]
                                 /\ began'[x] = began[x] /\ told'[x] = told[x]
                                 /\ sent'[x] = sent[x],
         OutMoves, CloseMoves(e),
         ReadOK(e, r2, wire[Other(e)], sent[Other(e)], got'[e]),
         r2.taken <= Len(wire[Other(e)]), r2.frame <= Len(sent[Other(e)])
  PROVE  IInv' /\ OutMoves
<1>1. reader \in [End -> Reader]
  BY DEF IInv, RestOK
<1>2. reader' \in [End -> Reader] /\ reader'[e] = r2 /\ \A x \in End : x # e => reader'[x] = reader[x]
  BY <1>1, ExceptIs
<1>3. RestOK'
  BY <1>2 DEF RestOK
<1>4. ASSUME NEW x \in End PROVE ReaderMoves(x) /\ CloseMoves(x)
  <2>1. CASE x = e
    BY <1>2, <2>1 DEF ReaderMoves
  <2>2. CASE x # e
    <3>1. ReaderMoves(x)
      BY <1>2, <2>2, ReaderStays
    <3>2. reader'[x].phase = reader[x].phase
      BY <1>2, <2>2
    <3>3. sent'[x] = sent[x] /\ \A i \in 1 .. Len(sent'[x]) : sent'[x][i].op = Close => i \in 1 .. Len(sent[x])
      BY <2>2
    <3>4. CloseMoves(x)
      BY <2>2, <3>2, <3>3, CloseStays
    <3> QED
      BY <3>1, <3>4
  <2> QED
    BY <2>1, <2>2
<1> QED
  BY <1>3, <1>4, Assemble

\* Only the reader at e goes on.
LEMMA OnlyReader ==
  ASSUME IInv, NEW e \in End, NEW r2 \in Reader, reader' = [reader EXCEPT ![e] = r2],
         UNCHANGED <<pending, wire, closed, told, got, history, began>>,
         reader[e].phase # "closed",
         ReadOK(e, r2, wire[Other(e)], sent[Other(e)], got[e]),
         r2.taken <= Len(wire[Other(e)]), r2.frame <= Len(sent[Other(e)])
  PROVE  IInv' /\ OutMoves
<1>1. /\ sent' = sent /\ messages' = messages /\ pending' = pending /\ wire' = wire
      /\ closed' = closed /\ told' = told /\ got' = got /\ began' = began
  OBVIOUS
<1>2. OutMoves
  BY <1>1, NoOutput
<1>3. told[e] = None
  BY NotTold
<1>4. \A i \in 1 .. Len(sent'[e]) : sent'[e][i].op = Close => i \in 1 .. Len(sent[e])
  BY <1>1
<1>5. CloseMoves(e)
  BY <1>1, <1>3, <1>4, CloseStays
<1>6. /\ got' \in [End -> Seq(Posted)] /\ closed' \in [End -> BOOLEAN] /\ began' \in [End -> BOOLEAN]
      /\ told' \in [End -> Status \cup {None, 1002}]
  BY <1>1 DEF IInv, RestOK
<1>7. \A x \in End : x # e => /\ got'[x] = got[x] /\ closed'[x] = closed[x]
                               /\ began'[x] = began[x] /\ told'[x] = told[x]
                               /\ sent'[x] = sent[x]
  BY <1>1
<1>8. ReadOK(e, r2, wire[Other(e)], sent[Other(e)], got'[e])
  BY <1>1
<1> QED
  BY <1>2, <1>5, <1>6, <1>7, <1>8, AtOneEnd, ZenonT(40)

\* Nobody reads.
LEMMA NobodyReads ==
  ASSUME IInv, UNCHANGED <<reader, told, got>>, OutMoves,
         closed' \in [End -> BOOLEAN], began' \in [End -> BOOLEAN],
         \A e \in End : CloseMoves(e)
  PROVE  IInv' /\ OutMoves
<1>1. reader' = reader /\ told' = told /\ got' = got
  OBVIOUS
<1>2. RestOK'
  BY <1>1 DEF IInv, RestOK
<1>3. \A e \in End : ReaderMoves(e)
  BY <1>1, ReaderStays
<1> QED
  BY <1>2, <1>3, Assemble

-----------------------------------------------------------------------------
\* What IInv says of the reader at e.
LEMMA ReaderType ==
  ASSUME IInv, NEW e \in End
  PROVE  /\ reader[e] \in Reader /\ Other(e) \in End /\ OutOK(Other(e))
         /\ ReadOK(e, reader[e], wire[Other(e)], sent[Other(e)], got[e])
         /\ reader[e].taken <= Len(wire[Other(e)]) /\ reader[e].frame <= Len(sent[Other(e)])
BY Ends DEF IInv, RestOK, ReaderOf, BoundsOf

\* The read of the handshake keeps the invariant.
LEMMA HandshakeStep ==
  ASSUME IInv, NEW e \in End, NEW phase \in {"answer", "header"}, HandshakeRead(e, phase)
  PROVE  IInv' /\ OutMoves
<1> DEFINE r == reader[e]
           w == wire[Other(e)]
           s == sent[Other(e)]
<1>1. /\ r \in Reader /\ ReadOK(e, r, w, s, got[e]) /\ r.frame <= Len(s)
  BY ReaderType
<1>2. PICK k \in Behind \cap 0 .. Len(w) :
        reader' = [reader EXCEPT ![e] = [@ EXCEPT !.phase = phase, !.taken = k, !.behind = k]]
  BY Zenon DEF HandshakeRead
<1>3. r.phase = "handshake" /\ UNCHANGED <<pending, wire, closed, told, got, history, began>>
  BY Zenon DEF HandshakeRead
<1> DEFINE r2 == [r EXCEPT !.phase = phase, !.taken = k, !.behind = k]
<1>4. reader' = [reader EXCEPT ![e] = r2]
  <2>1. reader \in [End -> Reader]
    BY DEF IInv, RestOK
  <2> QED
    BY <1>2, <2>1
<1>5. k \in Nat /\ k <= Len(w)
  <2>1. w \in Seq(Nat \X Nat)
    BY ReaderType DEF OutOK
  <2> QED
    BY <2>1
<1>6. r2 \in Reader /\ r2.phase = phase /\ r2.taken = k /\ r2.behind = k /\ r2.start = r.start
      /\ r2.frame = r.frame
  BY <1>1, <1>5 DEF Reader
<1>7. Started(r) /\ (Synced(e, r) => StepOK(r, w, s, got[e]))
  BY <1>1 DEF ReadOK
<1>8. r.frame = 0 /\ r.start = 1 /\ r.behind = 0
  BY <1>3, <1>7 DEF Started
<1>9. Synced(e, r)
  BY <1>3, <1>8 DEF Synced
<1> HIDE DEF r2, r, w, s
<1>10. Len(got[e]) = 0
  BY <1>3, <1>7, <1>8, <1>9 DEF StepOK, WholeOf, Mid, Upto
<1>11. ReadOK(e, r2, w, s, got[e])
  <2>1. Started(r2)
    BY <1>5, <1>6, <1>8 DEF Started
  <2>2. ~ Mid(r2)
    BY <1>6 DEF Mid
  <2>3. StepOK(r2, w, s, got[e])
    BY <1>5, <1>6, <1>8, <1>10, <2>2 DEF StepOK, WholeOf, Upto, Within, AllMet
  <2> QED
    BY <2>1, <2>2, <2>3 DEF ReadOK, MidOK
<1>12. r2.taken <= Len(w) /\ r2.frame <= Len(s)
  BY <1>1, <1>5, <1>6
<1> QED
  BY <1>3, <1>4, <1>6, <1>11, <1>12, OnlyReader DEF r, w, s

\* The reader stops, or opens: where it stands is the same.
LEMMA PhaseStep ==
  ASSUME IInv, NEW e \in End, NEW phase \in {"header", "failed", "garbled"},
         reader[e].phase \in {"answer", "header", "length", "content"},
         phase = "header" => reader[e].phase = "answer",
         reader' = [reader EXCEPT ![e].phase = phase],
         UNCHANGED <<pending, wire, closed, told, got, history, began>>
  PROVE  IInv' /\ OutMoves
<1> DEFINE r == reader[e]
           w == wire[Other(e)]
           s == sent[Other(e)]
           r2 == [r EXCEPT !.phase = phase]
<1>1. r \in Reader /\ ReadOK(e, r, w, s, got[e]) /\ r.taken <= Len(w) /\ r.frame <= Len(s)
  BY ReaderType
<1>2. reader' = [reader EXCEPT ![e] = r2]
  <2>1. reader \in [End -> Reader]
    BY DEF IInv, RestOK
  <2> QED
    BY <2>1
<1>3. r2 \in Reader /\ r2.phase = phase /\ r2.taken = r.taken /\ r2.behind = r.behind
      /\ r2.start = r.start /\ r2.frame = r.frame
  BY <1>1 DEF Reader
<1> HIDE DEF r2, r, w, s
<1>4. Started(r2) /\ ~ Mid(r2)
  BY <1>1, <1>3 DEF ReadOK, Started, Mid
<1>5. ASSUME Synced(e, r2) PROVE StepOK(r2, w, s, got[e])
  <2>1. phase = "header" /\ r.phase = "answer"
    BY <1>3, <1>5 DEF Synced, r
  <2>2. Synced(e, r) /\ ~ Mid(r)
    BY <1>3, <1>5, <2>1 DEF Synced, Mid
  <2>3. StepOK(r, w, s, got[e])
    BY <1>1, <2>2 DEF ReadOK
  <2> QED
    BY <1>3, <1>4, <2>2, <2>3 DEF StepOK, WholeOf
<1>6. ReadOK(e, r2, w, s, got[e])
  BY <1>4, <1>5 DEF ReadOK, MidOK
<1>7. r2.taken <= Len(w) /\ r2.frame <= Len(s) /\ reader[e].phase # "closed"
  BY <1>1, <1>3
<1> QED
  BY <1>2, <1>3, <1>6, <1>7, OnlyReader DEF r, w, s

-----------------------------------------------------------------------------
\* The two bytes of a status give the status back.
LEMMA StatusBytesAre ==
  ASSUME NEW status \in Status \cup {1002}
  PROVE  /\ status \in Nat /\ status <= 65535
         /\ StatusBytes(status) \in Seq(Byte) /\ Len(StatusBytes(status)) = 2
         /\ StatusBytes(status)[1] * 256 + StatusBytes(status)[2] = status
<1>1. status \in Nat /\ status <= 65535
  BY StatusAssumption
<1>2. /\ status \div 256 \in Nat /\ status \div 256 <= 255
      /\ status % 256 \in Nat /\ status % 256 <= 255
      /\ (status \div 256) * 256 + (status % 256) = status
  BY <1>1
<1>3. status \div 256 \in Byte /\ status % 256 \in Byte
  BY <1>2, ByteIs
<1>4. /\ StatusBytes(status) \in Seq(Byte) /\ Len(StatusBytes(status)) = 2
      /\ StatusBytes(status)[1] = status \div 256 /\ StatusBytes(status)[2] = status % 256
  BY <1>3 DEF StatusBytes
<1> QED
  BY <1>1, <1>2, <1>4

\* What one more frame f at e adds.
LEMMA AddsOne ==
  ASSUME IInv, NEW e \in End, NEW f, OneSent(e, f)
  PROVE  \A i \in 1 .. Len(sent'[e]) : \/ i \in 1 .. Len(sent[e])
                                       \/ i = Len(sent[e]) + 1 /\ sent'[e][i] = f
<1>1. sent[e] \in Seq(Sent) /\ f \in Sent /\ sent'[e] = Append(sent[e], f)
  BY DEF IInv, OutOK, OneSent
<1> QED
  BY <1>1

\* send_close at e.
Closes(e, status) ==
  /\ OutMoves /\ closed' \in [End -> BOOLEAN] /\ closed'[e]
  /\ \A x \in End : x # e => closed'[x] = closed[x] /\ sent'[x] = sent[x]
  /\ \A i \in 1 .. Len(sent'[e]) : sent'[e][i].op = Close =>
       \/ i \in 1 .. Len(sent[e])
       \/ i = Len(sent[e]) + 1 /\ ~ closed[e] /\ sent'[e][i].data = StatusBytes(status)

\* send_close sends at most one close frame.
LEMMA CloseOutput ==
  ASSUME IInv, NEW e \in End, NEW status \in Status \cup {1002}, SendClose(e, status), wire' = wire
  PROVE  Closes(e, status)
<1>1. closed' = [closed EXCEPT ![e] = TRUE]
  BY ZenonT(40) DEF SendClose
<1>2. closed \in [End -> BOOLEAN]
  BY DEF IInv, RestOK
<1>3. closed' \in [End -> BOOLEAN] /\ closed'[e] /\ \A x \in End : x # e => closed'[x] = closed[x]
  BY <1>1, <1>2, ExceptIs
<1>4. CASE closed[e]
  <2>1. UNCHANGED <<pending, history>>
    BY <1>4 DEF SendClose
  <2>2. sent' = sent /\ messages' = messages /\ pending' = pending
    BY <2>1
  <2>3. OutMoves
    BY <2>2, NoOutput
  <2> QED
    BY <1>3, <2>2, <2>3 DEF Closes
<1>5. CASE ~ closed[e]
  <2>1. Send(e, Close, StatusBytes(status))
    BY <1>5 DEF SendClose, StatusBytes
  <2>2. Sendable(Close, StatusBytes(status))
    <3>1. StatusBytes(status) \in Seq(Byte) /\ Len(StatusBytes(status)) = 2
      BY StatusBytesAre
    <3>2. 2 <= MaxLength
      BY DEF MaxLength
    <3> QED
      BY <3>1, <3>2 DEF Sendable
  <2>3. OutMoves
    BY <2>1, <2>2, SendOutput
  <2>4. PICK f \in Sent : f.op = Close /\ f.data = StatusBytes(status) /\ OneSent(e, f)
    BY <2>1, <2>2, SendOutput
  <2>5. \A x \in End : x # e => sent'[x] = sent[x]
    BY <2>4 DEF OneSent
  <2>6. \A i \in 1 .. Len(sent'[e]) : \/ i \in 1 .. Len(sent[e])
                                      \/ i = Len(sent[e]) + 1 /\ sent'[e][i] = f
    BY <2>4, AddsOne
  <2> QED
    <3>1. \A i \in 1 .. Len(sent'[e]) : sent'[e][i].op = Close =>
            \/ i \in 1 .. Len(sent[e])
            \/ i = Len(sent[e]) + 1 /\ ~ closed[e] /\ sent'[e][i].data = StatusBytes(status)
      <4> SUFFICES ASSUME NEW i \in 1 .. Len(sent'[e]), i \notin 1 .. Len(sent[e])
                   PROVE  i = Len(sent[e]) + 1 /\ ~ closed[e] /\ sent'[e][i].data = StatusBytes(status)
        OBVIOUS
      <4>1. i = Len(sent[e]) + 1 /\ sent'[e][i] = f
        BY <2>6
      <4> QED
        BY <1>5, <2>4, <4>1
    <3>2. \A x \in End : x # e => closed'[x] = closed[x] /\ sent'[x] = sent[x]
      BY <1>3, <2>5
    <3> QED
      BY <1>3, <2>3, <3>1, <3>2 DEF Closes
<1> QED
  BY <1>4, <1>5

\* A program that sends keeps the invariant,
LEMMA ProgramSendsStep ==
  ASSUME IInv, NEW e \in End, NEW op, NEW data, Sendable(op, data), op # Close,
         ProgramSends(e, op, data)
  PROVE  IInv' /\ OutMoves
<1>1. Send(e, op, data)
  BY Zenon DEF ProgramSends
<1>2. UNCHANGED <<wire, reader, closed, told, got, began>>
  BY Zenon DEF ProgramSends
<1>3. wire' = wire /\ UNCHANGED <<reader, told, got>> /\ closed' = closed /\ began' = began
  BY <1>2
<1>4. OutMoves
  BY <1>1, <1>3, SendOutput
<1>5. PICK f \in Sent : f.op = op /\ f.data = data /\ OneSent(e, f)
  BY <1>1, <1>3, SendOutput
<1>6. \A x \in End : \A i \in 1 .. Len(sent'[x]) :
        sent'[x][i].op = Close => i \in 1 .. Len(sent[x])
  <2> TAKE x \in End
  <2>1. CASE x = e
    BY <1>5, <2>1, AddsOne
  <2>2. CASE x # e
    BY <1>5, <2>2 DEF OneSent
  <2> QED
    BY <2>1, <2>2
<1>7. \A x \in End : CloseMoves(x)
  BY <1>3, <1>6, CloseStays
<1>8. closed' \in [End -> BOOLEAN] /\ began' \in [End -> BOOLEAN]
  BY <1>3 DEF IInv, RestOK
<1> QED
  BY <1>3, <1>4, <1>7, <1>8, NobodyReads

\* one that closes,
LEMMA ProgramClosesStep ==
  ASSUME IInv, NEW e \in End, NEW status \in Status, ProgramCloses(e, status)
  PROVE  IInv' /\ OutMoves
<1>1. SendClose(e, status) /\ began' = [began EXCEPT ![e] = TRUE]
      /\ UNCHANGED <<wire, reader, told, got>>
  BY Zenon DEF ProgramCloses
<1>2. wire' = wire /\ UNCHANGED <<reader, told, got>>
  BY <1>1
<1>3. Closes(e, status)
  BY <1>1, <1>2, CloseOutput
<1>4. began \in [End -> BOOLEAN] /\ closed \in [End -> BOOLEAN]
  BY DEF IInv, RestOK
<1>5. began' \in [End -> BOOLEAN] /\ began'[e] /\ \A x \in End : x # e => began'[x] = began[x]
  BY <1>1, <1>4, Zenon
<1>6. ASSUME NEW x \in End PROVE CloseMoves(x)
  <2>1. told'[x] = told[x] /\ reader'[x] = reader[x]
    BY <1>2
  <2>2. CASE x = e
    <3>1. \A i \in 1 .. Len(sent'[e]) : sent'[e][i].op = Close =>
            i \in 1 .. Len(sent[e]) \/ (i = Len(sent[e]) + 1 /\ MayClose(e, sent'[e][i]))
      BY <1>3, <1>5, Zenon DEF Closes, MayClose
    <3>2. closed'[e]
      BY <1>3, Zenon DEF Closes
    <3>3. told'[e] # None => reader'[e].phase = "closed"
      BY <2>1, <2>2 DEF IInv, CloseOf
    <3> QED
      BY <1>5, <2>1, <2>2, <3>1, <3>2, <3>3, Zenon DEF CloseMoves
  <2>3. CASE x # e
    <3>1. closed'[x] = closed[x] /\ sent'[x] = sent[x] /\ began'[x] = began[x]
      BY <1>3, <1>5, <2>3, Zenon DEF Closes
    <3> QED
      BY <2>1, <3>1, CloseStays
  <2> QED
    BY <2>2, <2>3
<1>7. OutMoves /\ closed' \in [End -> BOOLEAN]
  BY <1>3, Zenon DEF Closes
<1> QED
  BY <1>2, <1>5, <1>6, <1>7, NobodyReads

\* and a socket that takes bytes.
LEMMA WritesStep ==
  ASSUME IInv, NEW e \in End, Writes(e)
  PROVE  IInv' /\ OutMoves
<1>1. PICK i \in DOMAIN pending[e] :
        \E n \in {Len(sent[e][pending[e][i].frame].bytes) - pending[e][i].gone} \cup
                 {k \in Pieces : k < Len(sent[e][pending[e][i].frame].bytes) - pending[e][i].gone
                                 /\ pending[e][i].gone = 0} : Transfer(e, i, n)
  BY Zenon DEF Writes
<1> DEFINE left == Len(sent[e][pending[e][i].frame].bytes) - pending[e][i].gone
<1>2. PICK n \in {left} \cup {k \in Pieces : k < left /\ pending[e][i].gone = 0} : Transfer(e, i, n)
  BY <1>1
<1>3. OutOK(e) /\ Functions
  BY DEF IInv
<1>4. Line(wire[e], Len(wire[e]), pending[e], Len(pending[e]), sent[e], Len(sent[e]))
      /\ Len(wire[e]) \in Nat /\ Len(pending[e]) \in Nat /\ Len(sent[e]) \in Nat
      /\ i \in 1 .. Len(pending[e])
  <2>1. LineOf(e) /\ wire[e] \in Seq(Nat \X Nat) /\ pending[e] \in Seq(Pending)
        /\ sent[e] \in Seq(Sent)
    BY <1>3 DEF OutOK
  <2> DEFINE p == pending[e]
  <2>2. Len(wire[e]) \in Nat /\ Len(p) \in Nat /\ Len(sent[e]) \in Nat
    BY <2>1
  <2>3. i \in DOMAIN p /\ p \in Seq(Pending)
    BY <2>1, Zenon
  <2> HIDE DEF p
  <2>4. i \in 1 .. Len(p)
    BY <2>3
  <2> QED
    BY <2>1, <2>2, <2>4, Zenon DEF LineOf, p
<1>5. left \in Nat /\ left >= 1 /\ pending[e][i].gone \in Nat
      /\ pending[e][i].gone + left = Len(sent[e][pending[e][i].frame].bytes)
  <2>1. FrameOf(pending[e], i) \in 1 .. Len(sent[e]) /\ GoneOf(pending[e], i) \in Nat
    BY <1>4, LineTypes
  <2>2. Size(sent[e], FrameOf(pending[e], i)) \in Nat
    BY <1>4, <2>1, LineTypes
  <2>3. GoneOf(pending[e], i) < Size(sent[e], FrameOf(pending[e], i))
    BY <1>4 DEF Line, SomeLeft
  <2>4. GoneOf(pending[e], i) \in Nat
    BY <2>1
  <2> DEFINE gone == pending[e][i].gone
             size == Len(sent[e][pending[e][i].frame].bytes)
  <2>5. gone \in Nat /\ size \in Nat /\ gone < size
    BY <2>2, <2>3, <2>4 DEF FrameOf, GoneOf, Size
  <2>6. left = size - gone
    OBVIOUS
  <2> HIDE DEF left, gone, size
  <2>7. left \in Nat /\ left >= 1 /\ gone \in Nat /\ gone + left = size
    BY <2>5, <2>6
  <2> QED
    BY <2>7 DEF gone, size
<1>6. \A k \in Pieces : k \in Nat /\ k # 0
  BY BytesAssumption
<1>7. n \in Nat /\ n >= 1 /\ n <= left
  <2> HIDE DEF left
  <2> QED
    BY <1>2, <1>5, <1>6
<1>8. pending[e][i].gone + n <= Len(sent[e][pending[e][i].frame].bytes)
  <2> HIDE DEF left
  <2> QED
    BY <1>5, <1>7, SMTT(30)
<1>9. /\ OutOK(e)' /\ Functions' /\ OnlyAt(e) /\ sent' = sent /\ messages' = messages
      /\ Len(wire[e]) <= Len(wire'[e])
      /\ \A x \in 1 .. Len(wire[e]) : wire'[e][x] = wire[e][x]
  BY <1>2, <1>3, <1>7, <1>8, TransferStep
<1>10. UNCHANGED <<reader, closed, told, got, history, began>>
  BY <1>2, Zenon DEF Transfer
<1>11. UNCHANGED <<reader, told, got>> /\ closed' = closed /\ began' = began
  BY <1>10
<1>12. Grows(e)
  BY <1>4, <1>9, SMTT(30) DEF Grows, Extends, FrameAt, PlaceAt
<1>13. OutMoves
  BY <1>9, <1>12, OthersOutput
<1>14. \A x \in End : CloseMoves(x)
  <2> TAKE x \in End
  <2>1. \A j \in 1 .. Len(sent'[x]) : sent'[x][j].op = Close => j \in 1 .. Len(sent[x])
    BY <1>9
  <2> QED
    BY <1>11, <2>1, CloseStays
<1>15. closed' \in [End -> BOOLEAN] /\ began' \in [End -> BOOLEAN]
  BY <1>11 DEF IInv, RestOK
<1> QED
  BY <1>11, <1>13, <1>14, <1>15, NobodyReads

-----------------------------------------------------------------------------
\* What e reads is the line of the other end.
LEMMA FeedIs ==
  ASSUME IInv, NEW e \in End, NEW o, o = Other(e)
  PROVE  /\ Len(wire[o]) \in Nat /\ Len(pending[o]) \in Nat /\ Len(sent[o]) \in Nat
         /\ Feed(e, wire[o], Len(wire[o]), pending[o], Len(pending[o]), sent[o], Len(sent[o]),
                 messages[o])
<1>1. o \in End /\ OutOK(o)
  BY Ends DEF IInv
<1>2. sent[o] \in Seq(Sent) /\ pending[o] \in Seq(Pending) /\ wire[o] \in Seq(Nat \X Nat)
      /\ SentOK(o, sent[o], messages[o]) /\ LineOf(o)
  BY <1>1, Zenon DEF OutOK
<1>3. \A k \in 1 .. Len(sent[o]) : sent[o][k] \in Sent
  BY <1>2
<1>4. \A k \in 1 .. Len(sent[o]) : FrameOK(Other(e), sent[o][k]) /\ CountOK(sent[o], messages[o], k)
  BY <1>2, Zenon DEF SentOK
<1>5. Len(wire[o]) \in Nat /\ Len(pending[o]) \in Nat /\ Len(sent[o]) \in Nat
  BY <1>2
<1>6. Feed(e, wire[o], Len(wire[o]), pending[o], Len(pending[o]), sent[o], Len(sent[o]),
           messages[o])
  BY <1>2, <1>3, <1>4, Zenon DEF Feed, LineOf
<1> QED
  BY <1>5, <1>6

\* What Bytes gives are the bytes behind those that were taken.
LEMMA BytesAre ==
  ASSUME NEW e \in End, NEW n \in Nat, NEW c \in Nat, AtFront(reader[e], c), reader[e].start \in Nat
  PROVE  Bytes(e, n) = At(wire[Other(e)], c, n, sent[Other(e)])
<1>1. \A i \in 1 .. n : reader[e].start + i - 1 = c + i
  BY DEF AtFront
<1>2. \A i \in 1 .. n : Ahead(e, i) = wire[Other(e)][c + i]
  BY <1>1, Zenon DEF Ahead
<1> QED
  BY <1>2, Zenon DEF Bytes, At, FrameAt, PlaceAt

\* e has the next n bytes, all of the frame k, behind the first c of the line.
InPlace(e, c, n, k) ==
  /\ AtFront(reader[e], c) /\ Need(e) = n /\ Waits(e, reader[e], n)
  /\ reader[e].taken + n <= Len(wire[Other(e)]) /\ c + n <= Len(wire[Other(e)])
  /\ AllOf(wire[Other(e)], c, n, k)
  /\ reader[e].phase # "header" => k = reader[e].frame
  /\ reader[e].phase = "header" =>
       Ahead(e, 1)[1] = k /\ \A i \in 1 .. c : FrameAt(wire[Other(e)], i) # k

\* What the read at e waits for, and where it is.
LEMMA WaitsFor ==
  ASSUME IInv, NEW e \in End, Reading(e)
  PROVE  /\ Waits(e, reader[e], Need(e)) /\ Need(e) \in Nat
         /\ \E c \in Nat : /\ AtFront(reader[e], c) /\ c <= reader[e].taken
                           /\ \A i \in Nat : i >= 1 => Ahead(e, i) = wire[Other(e)][c + i]
<1> DEFINE r == reader[e]
<1>0. r.phase \in {"header", "length", "content"}
  BY DEF Reading
<1>1. Waits(e, r, Need(e))
  BY <1>0 DEF Waits, Need
<1>2. r \in Reader /\ ReadOK(e, r, wire[Other(e)], sent[Other(e)], got[e])
  BY ReaderType
<1>3. r.start \in Nat /\ r.taken \in Nat /\ r.start >= 1 /\ r.start <= r.taken + 1
  BY <1>2 DEF Reader, ReadOK, Started
<1>4. PICK c \in Nat : c = r.start - 1 /\ c <= r.taken
  BY <1>3
<1>5. AtFront(r, c) /\ c <= r.taken
  BY <1>4 DEF AtFront
<1>6. \A i \in Nat : i >= 1 => Ahead(e, i) = wire[Other(e)][c + i]
  <2>1. \A i \in Nat : r.start + i - 1 = c + i
    BY <1>3, <1>4
  <2> QED
    BY <2>1, Zenon DEF Ahead
<1>7. Need(e) \in Nat
  <2>1. CASE r.phase = "header"
    <3>1. Need(e) = 2
      BY <1>1, <2>1 DEF Waits
    <3> QED
      BY <3>1
  <2>2. CASE r.phase # "header"
    <3>1. Mid(r)
      BY <1>0, <2>2 DEF Mid
    <3>2. PICK o \in End : o = Other(e)
      BY Ends
    <3>3. Middle(e, r, wire[o], c, Need(e), sent[o], messages[o], Len(sent[o]))
      BY <1>1, <1>2, <1>5, <3>1, <3>2, FeedIs, InTheMiddle
    <3> QED
      BY <3>3, Zenon DEF Middle
  <2> QED
    BY <2>1, <2>2
<1> QED
  BY <1>1, <1>5, <1>6, <1>7, Zenon

-----------------------------------------------------------------------------
\* A read that arrived in step has its bytes in place.
LEMMA IsInPlace ==
  ASSUME IInv, NEW e \in End, Arrived(e), InStep(e)
  PROVE  \E c \in Nat, n \in Nat : \E k \in 1 .. Len(sent[Other(e)]) : InPlace(e, c, n, k)
<1> DEFINE r == reader[e]
           w == wire[Other(e)]
           n == Need(e)
<1>1. Reading(e) /\ r.taken + n <= Len(w)
  BY DEF Arrived
<1>2. Waits(e, r, n) /\ n \in Nat
  BY <1>1, WaitsFor
<1>3. PICK c \in Nat : /\ AtFront(r, c) /\ c <= r.taken
                       /\ \A i \in Nat : i >= 1 => Ahead(e, i) = w[c + i]
  BY <1>1, WaitsFor
<1>4. PICK o \in End : o = Other(e)
  BY Ends
<1>5. Feed(e, w, Len(w), pending[o], Len(pending[o]), sent[o], Len(sent[o]), messages[o])
      /\ Len(w) \in Nat /\ Len(pending[o]) \in Nat /\ Len(sent[o]) \in Nat
  BY <1>4, FeedIs
<1>6. r \in Reader /\ ReadOK(e, r, w, sent[o], got[e])
  BY <1>4, ReaderType
<1>7. r.taken \in Nat /\ c + n <= Len(w)
  <2>1. r.taken \in Nat
    BY <1>6 DEF Reader
  <2> HIDE DEF r, w, n
  <2> QED
    BY <2>1, <1>1, <1>2, <1>3, <1>5, SMTT(30)
<1> DEFINE k == IF r.phase = "header" THEN Ahead(e, 1)[1] ELSE r.frame
<1>8. /\ \A i \in 1 .. n : Ahead(e, i)[1] = k
      /\ r.phase = "header" => \A i \in 1 .. r.start - 1 : w[i][1] # k
  BY Zenon DEF InStep
<1>9. AllOf(w, c, n, k)
  <2> HIDE DEF k, w, n, r
  <2> SUFFICES ASSUME NEW x \in c + 1 .. c + n PROVE FrameAt(w, x) = k
    BY DEF AllOf
  <2> DEFINE i == x - c
  <2>1. i \in 1 .. n /\ i \in Nat /\ i >= 1 /\ c + i = x
    BY <1>2
  <2> HIDE DEF i
  <2>2. Ahead(e, i) = w[x] /\ Ahead(e, i)[1] = k
    BY <2>1, <1>3, <1>8
  <2> QED
    BY <2>2 DEF FrameAt
<1>10. r.phase = "header" => Ahead(e, 1)[1] = k /\ \A i \in 1 .. c : FrameAt(w, i) # k
  <2> HIDE DEF w
  <2> QED
    BY <1>3, <1>8, Zenon DEF AtFront, FrameAt
<1>11. k \in 1 .. Len(sent[o])
  <2>1. CASE r.phase = "header"
    <3>1. n = 2
      BY <1>2, <2>1 DEF Waits
    <3>2. c + 1 \in 1 .. Len(w) /\ c + 1 \in c + 1 .. c + n
      <4> HIDE DEF w, n
      <4> QED
        BY <3>1, <1>5, <1>7
    <3>3. FrameAt(w, c + 1) \in 1 .. Len(sent[o])
      BY <3>2, <1>5, LineTypes DEF Feed
    <3>4. FrameAt(w, c + 1) = k
      <4> HIDE DEF w, n, k
      <4> QED
        BY <3>2, <1>9 DEF AllOf
    <3> QED
      BY <3>3, <3>4
  <2>2. CASE r.phase # "header"
    <3>1. Mid(r)
      BY <1>1, <2>2 DEF Mid, Reading
    <3>2. Middle(e, r, w, c, n, sent[o], messages[o], Len(sent[o]))
      BY <1>2, <1>3, <1>5, <1>6, <3>1, InTheMiddle
    <3> QED
      BY <2>2, <3>2, Zenon DEF Middle
  <2> QED
    BY <2>1, <2>2
<1>12. r.phase # "header" => k = r.frame
  OBVIOUS
<1>13. InPlace(e, c, n, k)
  <2> HIDE DEF k
  <2> QED
    BY <1>1, <1>2, <1>3, <1>7, <1>9, <1>10, <1>12 DEF InPlace
<1> HIDE DEF k, n
<1> QED
  BY <1>2, <1>4, <1>11, <1>13

\* Taken(e), after n bytes.
LEMMA TakenIs ==
  ASSUME NEW e \in End, reader[e] \in Reader, NEW n \in Nat, Need(e) = n
  PROVE  /\ Taken(e) \in Reader /\ Taken(e).start = reader[e].start + n
         /\ Taken(e).taken = reader[e].taken + n /\ Taken(e).behind = reader[e].behind
         /\ Taken(e).phase = reader[e].phase /\ Taken(e).op = reader[e].op
         /\ Taken(e).code = reader[e].code /\ Taken(e).length = reader[e].length
         /\ Taken(e).frame = reader[e].frame
<1> DEFINE r == reader[e]
           start == r.start + n
           taken == r.taken + n
           t == [r EXCEPT !.start = start, !.taken = taken]
<1>1. Taken(e) = [r EXCEPT !.start = @ + n, !.taken = @ + n]
  BY Zenon DEF Taken
<1>2. [r EXCEPT !.start = @ + n, !.taken = @ + n] = t
  BY DEF Reader
<1>3. start \in Nat /\ taken \in Nat
  BY DEF Reader
<1> HIDE DEF start, taken
<1>4. /\ t \in Reader /\ t.start = start /\ t.taken = taken /\ t.behind = r.behind
      /\ t.phase = r.phase /\ t.op = r.op /\ t.code = r.code /\ t.length = r.length
      /\ t.frame = r.frame
  BY <1>3 DEF Reader
<1> QED
  BY <1>1, <1>2, <1>4, Zenon DEF start, taken

\* The read of a header keeps the invariant.
LEMMA HeaderStep ==
  ASSUME IInv, NEW e \in End, HeaderRead(e)
  PROVE  IInv' /\ OutMoves
<1> DEFINE r == reader[e]
           w == wire[Other(e)]
           s == sent[Other(e)]
           m == messages[Other(e)]
           b == Bytes(e, 2)
<1>1. r.phase = "header" /\ Arrived(e) /\ InStep(e)
  BY DEF HeaderRead
<1>2. PICK c \in Nat, n0 \in Nat : \E k \in 1 .. Len(s) : InPlace(e, c, n0, k)
  BY <1>1, IsInPlace
<1>3. PICK k \in 1 .. Len(s) : InPlace(e, c, n0, k)
  BY <1>2
<1>4. n0 = 2
  BY <1>1, <1>3 DEF InPlace, Waits
<1>5. /\ AtFront(r, c) /\ Need(e) = 2 /\ r.taken + 2 <= Len(w) /\ c + 2 <= Len(w)
      /\ AllOf(w, c, 2, k) /\ Ahead(e, 1)[1] = k /\ \A i \in 1 .. c : FrameAt(w, i) # k
  BY <1>1, <1>3, <1>4, Zenon DEF InPlace
<1>6. PICK o \in End : o = Other(e)
  BY Ends
<1>7. Feed(e, w, Len(w), pending[o], Len(pending[o]), s, Len(s), m)
      /\ Len(w) \in Nat /\ Len(pending[o]) \in Nat /\ Len(s) \in Nat
  BY <1>6, FeedIs
<1>8. r \in Reader /\ ReadOK(e, r, w, s, got[e]) /\ r.taken <= Len(w) /\ r.frame <= Len(s)
  BY ReaderType
<1>9. b[1] = s[k].bytes[1] /\ b[2] = s[k].bytes[2]
  <2>1. r.start \in Nat
    BY <1>8 DEF Reader
  <2>2. b = At(w, c, 2, s)
    BY <1>5, <2>1, BytesAre
  <2>3. Met(w, c, k, 0)
    BY <1>5 DEF Met
  <2> HIDE DEF b, w, s, m, r
  <2>4. Shows(w, c, 2, s, 2, k, 0)
    BY <1>5, <1>7, <2>3, AtAre
  <2>5. \A i \in 1 .. 2 : b[i] = s[k].bytes[0 + i]
    BY <2>2, <2>4, Zenon DEF Shows
  <2> QED
    BY <2>5
<1>10. /\ b[1] \in Byte /\ b[2] \in Byte /\ b[2] % 128 \in Byte
  <2>1. s[k] \in Sent /\ FrameOK(Other(e), s[k])
    BY <1>7 DEF Feed
  <2>2. Other(e) \in End
    BY Ends
  <2> HIDE DEF b, s
  <2>3. b[1] \in Byte /\ b[2] \in Byte /\ b[2] % 128 = Code(s[k].data) /\ Code(s[k].data) \in Byte
    BY <1>9, <2>1, <2>2, FrameBegins
  <2> QED
    BY <2>3
<1> DEFINE code == b[2] % 128
           t == Taken(e)
           q == [t EXCEPT !.op = b[1], !.code = code, !.frame = Ahead(e, 1)[1]]
<1>11. t \in Reader /\ t.start = r.start + 2 /\ t.taken = r.taken + 2 /\ t.behind = r.behind
  BY <1>5, <1>8, TakenIs
<1>12. \/ /\ (b[2] >= 128) = (e = "server")
          /\ reader' = [reader EXCEPT ![e] =
                 IF NumBytes(code) > 0 THEN [q EXCEPT !.phase = "length"]
                 ELSE [q EXCEPT !.phase = "content", !.length = code]]
          /\ UNCHANGED <<pending, closed, told, history>>
       \/ /\ SendClose(e, 1002)
          /\ told' = [told EXCEPT ![e] = 1002]
          /\ reader' = [reader EXCEPT ![e] = [q EXCEPT !.phase = "closed"]]
  BY DEF HeaderRead
<1>13. wire' = wire /\ got' = got /\ began' = began
  <2>1. UNCHANGED <<wire, got, began>>
    BY DEF HeaderRead
  <2> QED
    BY <2>1
<1> HIDE DEF b, t
<1>14. q \in Reader /\ q.start = r.start + 2 /\ q.taken = r.taken + 2 /\ q.behind = r.behind
       /\ q.op = b[1] /\ q.code = b[2] % 128 /\ q.frame = k
  <2> DEFINE b1 == b[1]
             b2 == code
             a1 == Ahead(e, 1)[1]
             q2 == [t EXCEPT !.op = b1, !.code = b2, !.frame = a1]
  <2>1. b1 \in Byte /\ b2 \in Byte /\ a1 = k /\ a1 \in Nat
    BY <1>5, <1>7, <1>10
  <2> HIDE DEF b1, b2, a1
  <2>2. /\ q2 \in Reader /\ q2.start = t.start /\ q2.taken = t.taken /\ q2.behind = t.behind
        /\ q2.op = b1 /\ q2.code = b2 /\ q2.frame = a1
    BY <1>11, <2>1 DEF Reader
  <2> QED
    BY <1>11, <2>1, <2>2, Zenon DEF b1, b2, a1
<1> HIDE DEF q
<1>15. told[e] = None
  BY <1>1, NotTold
<1>16. CASE /\ (b[2] >= 128) = (e = "server")
            /\ reader' = [reader EXCEPT ![e] =
                 IF NumBytes(code) > 0 THEN [q EXCEPT !.phase = "length"]
                 ELSE [q EXCEPT !.phase = "content", !.length = code]]
            /\ UNCHANGED <<pending, closed, told, history>>
  <2> DEFINE r2 == IF NumBytes(code) > 0 THEN [q EXCEPT !.phase = "length"]
                   ELSE [q EXCEPT !.phase = "content", !.length = code]
  <2>1. reader' = [reader EXCEPT ![e] = r2]
    BY <1>16
  <2>2. UNCHANGED <<pending, wire, closed, told, got, history, began>>
    BY <1>13, <1>16
  <2>3. /\ r2 \in Reader /\ r2.start = r.start + 2 /\ r2.taken = r.taken + 2 /\ r2.behind = r.behind
        /\ r2.op = b[1] /\ r2.code = b[2] % 128 /\ r2.frame = k
        /\ \/ NumBytes(code) > 0 /\ r2.phase = "length"
           \/ ~ (NumBytes(code) > 0) /\ r2.phase = "content" /\ r2.length = code
    <3>1. CASE NumBytes(code) > 0
      <4>1. r2 = [q EXCEPT !.phase = "length"]
        BY <3>1
      <4> HIDE DEF r2, code
      <4> QED
        BY <3>1, <4>1, <1>14 DEF Reader
    <3>2. CASE ~ (NumBytes(code) > 0)
      <4>1. r2 = [q EXCEPT !.phase = "content", !.length = code]
        BY <3>2
      <4>2. code \in Nat
        BY <1>10, ByteIs
      <4> HIDE DEF r2, code
      <4> QED
        BY <3>2, <4>1, <4>2, <1>14 DEF Reader
    <3> QED
      BY <3>1, <3>2
  <2> HIDE DEF r2
  <2>4. Goes(r, r2, 2) /\ r2.op = s[k].bytes[1] /\ r2.code = s[k].bytes[2] % 128
        /\ (s[k].bytes[2] >= 128) = (e = "server")
    BY <2>3, <1>9, <1>16 DEF Goes
  <2>5. \/ NumBytes(r2.code) > 0 /\ r2.phase = "length"
        \/ ~ (NumBytes(r2.code) > 0) /\ r2.phase = "content" /\ r2.length = r2.code
    BY <2>3
  <2>6. ReadOK(e, r2, w, s, got[e])
    <3> HIDE DEF r, w, s, m, code
    <3> QED
      BY <1>1, <1>5, <1>7, <1>8, <2>3, <2>4, <2>5, HeaderKeeps DEF r
  <2>7. r2.taken <= Len(w) /\ r2.frame <= Len(s)
    BY <1>5, <1>7, <2>3
  <2> HIDE DEF code
  <2> QED
    BY <1>1, <2>1, <2>2, <2>3, <2>6, <2>7, OnlyReader
<1>17. CASE /\ SendClose(e, 1002)
            /\ told' = [told EXCEPT ![e] = 1002]
            /\ reader' = [reader EXCEPT ![e] = [q EXCEPT !.phase = "closed"]]
  <2> DEFINE r2 == [q EXCEPT !.phase = "closed"]
  <2>1. r2 \in Reader /\ r2.phase = "closed" /\ r2.start = r.start + 2 /\ r2.taken = r.taken + 2
        /\ r2.frame = k
    BY <1>14 DEF Reader
  <2>2. reader' = [reader EXCEPT ![e] = r2]
    BY <1>17
  <2> HIDE DEF r2
  <2>3. ReadOK(e, r2, w, s, got'[e])
    <3>1. Started(r)
      BY <1>8 DEF ReadOK
    <3>2. r.start \in Nat /\ r.taken \in Nat
      BY <1>8 DEF Reader
    <3> HIDE DEF r
    <3> QED
      BY <2>1, <3>1, <3>2 DEF ReadOK, Started, MidOK, Mid, Synced
  <2>4. r2.taken <= Len(w) /\ r2.frame <= Len(s)
    BY <1>5, <1>7, <2>1
  <2>5. Closes(e, 1002)
    BY <1>13, <1>17, CloseOutput
  <2>6. told' \in [End -> Status \cup {None, 1002}] /\ told'[e] = 1002
        /\ \A x \in End : x # e => told'[x] = told[x]
    BY <1>17 DEF IInv, RestOK
  <2>7. reader'[e] = r2
    BY <2>2 DEF IInv, RestOK
  <2>8. CloseMoves(e)
    <3>1. 1002 # None
      BY DEF None
    <3>2. \A i \in 1 .. Len(sent'[e]) : sent'[e][i].op = Close =>
            i \in 1 .. Len(sent[e]) \/ (i = Len(sent[e]) + 1 /\ MayClose(e, sent'[e][i]))
      <4>1. ASSUME NEW f, f.data = StatusBytes(1002), ~ closed[e] PROVE MayClose(e, f)
        <5>1. closed'[e]
          BY <2>5 DEF Closes
        <5> QED
          BY <2>6, <3>1, <4>1, <5>1 DEF MayClose
      <4> QED
        BY <2>5, <4>1 DEF Closes
    <3>3. closed'[e]
      BY <2>5 DEF Closes
    <3> QED
      BY <1>13, <1>15, <2>1, <2>6, <2>7, <3>2, <3>3 DEF CloseMoves
  <2>9. OutMoves /\ closed' \in [End -> BOOLEAN]
        /\ \A x \in End : x # e => closed'[x] = closed[x] /\ sent'[x] = sent[x]
    BY <2>5 DEF Closes
  <2>10. got' \in [End -> Seq(Posted)] /\ began' \in [End -> BOOLEAN]
    BY <1>13 DEF IInv, RestOK
  <2>11. \A x \in End : x # e => /\ got'[x] = got[x] /\ closed'[x] = closed[x]
                                 /\ began'[x] = began[x] /\ told'[x] = told[x]
                                 /\ sent'[x] = sent[x]
    BY <1>13, <2>6, <2>9
  <2> QED
    BY <2>1, <2>2, <2>3, <2>4, <2>6, <2>8, <2>9, <2>10, <2>11, AtOneEnd, ZenonT(40)
<1> QED
  BY <1>12, <1>16, <1>17

\* The read of a length keeps the invariant.
LEMMA LengthStep ==
  ASSUME IInv, NEW e \in End, LengthRead(e)
  PROVE  IInv' /\ OutMoves
<1> DEFINE r == reader[e]
           w == wire[Other(e)]
           s == sent[Other(e)]
           m == messages[Other(e)]
<1>1. r.phase = "length" /\ Arrived(e) /\ InStep(e)
  BY Zenon DEF LengthRead
<1>2. PICK c \in Nat, n \in Nat : \E k \in 1 .. Len(s) : InPlace(e, c, n, k)
  BY <1>1, IsInPlace
<1>3. PICK k \in 1 .. Len(s) : InPlace(e, c, n, k)
  BY <1>2
<1>4. /\ AtFront(r, c) /\ Need(e) = n /\ Waits(e, r, n) /\ r.taken + n <= Len(w) /\ c + n <= Len(w)
      /\ AllOf(w, c, n, r.frame)
  BY <1>1, <1>3, Zenon DEF InPlace
<1>5. PICK o \in End : o = Other(e)
  BY Ends
<1>6. Feed(e, w, Len(w), pending[o], Len(pending[o]), s, Len(s), m)
      /\ Len(w) \in Nat /\ Len(pending[o]) \in Nat /\ Len(s) \in Nat
  BY <1>5, FeedIs
<1>7. r \in Reader /\ ReadOK(e, r, w, s, got[e]) /\ r.frame <= Len(s)
  BY ReaderType
<1>8. Bytes(e, Need(e)) = At(w, c, n, s)
  <2>1. r.start \in Nat
    BY <1>7 DEF Reader
  <2>2. Bytes(e, n) = At(w, c, n, s)
    BY <1>4, <2>1, BytesAre
  <2> QED
    BY <1>4, <2>2, Zenon
<1> DEFINE t == Taken(e)
           l == LengthOf(Bytes(e, Need(e)))
           r2 == [t EXCEPT !.phase = "content", !.length = l]
<1>9. t \in Reader /\ t.start = r.start + n /\ t.taken = r.taken + n /\ t.behind = r.behind
      /\ t.op = r.op /\ t.code = r.code /\ t.frame = r.frame
  BY <1>4, <1>7, TakenIs
<1>10. reader' = [reader EXCEPT ![e] = r2]
  BY Zenon DEF LengthRead
<1>11. UNCHANGED <<pending, wire, closed, told, got, history, began>>
  BY Zenon DEF LengthRead
<1>12. l = LengthOf(At(w, c, n, s))
  BY <1>8, Zenon
<1> HIDE DEF t, l
<1>13. /\ r2.phase = "content" /\ r2.length = l /\ r2.start = r.start + n /\ r2.taken = r.taken + n
       /\ r2.behind = r.behind /\ r2.op = r.op /\ r2.code = r.code /\ r2.frame = r.frame
       /\ (l \in Nat => r2 \in Reader)
  BY <1>9 DEF Reader
<1> HIDE DEF r2
<1>14. Goes(r, r2, n)
  BY <1>13 DEF Goes
<1>15. ReadOK(e, r2, w, s, got[e]) /\ r2.length \in Nat
  <2>1. r2.length = LengthOf(At(w, c, n, s))
    BY <1>12, <1>13
  <2>2. r.phase = "length" /\ r2.phase = "content" /\ r2.frame = r.frame /\ r2.op = r.op
        /\ r2.code = r.code
    BY <1>1, <1>13
  <2>3. /\ Feed(e, w, Len(w), pending[o], Len(pending[o]), s, Len(s), m)
        /\ Len(w) \in Nat /\ Len(pending[o]) \in Nat /\ Len(s) \in Nat
        /\ AtFront(r, c) /\ Waits(e, r, n) /\ c + n <= Len(w) /\ AllOf(w, c, n, r.frame)
        /\ r \in Reader /\ ReadOK(e, r, w, s, got[e])
    BY <1>4, <1>6, <1>7
  <2> HIDE DEF w, s, m, r
  <2> QED
    BY <1>14, <2>1, <2>2, <2>3, LengthKeeps, ZenonT(40)
<1>16. r2 \in Reader /\ r2.taken <= Len(w) /\ r2.frame <= Len(s)
  BY <1>4, <1>7, <1>13, <1>15
<1> QED
  BY <1>1, <1>10, <1>11, <1>15, <1>16, OnlyReader

-----------------------------------------------------------------------------
\* The message whose data e has read: n bytes of the line behind the first c.
HasRead(e, c, n) ==
  /\ reader[e].phase = "content" /\ InPlace(e, c, n, reader[e].frame)
  /\ reader[e].frame \in 1 .. Len(sent[Other(e)])
  /\ sent[Other(e)][reader[e].frame] \in Sent
  /\ reader[e].op = sent[Other(e)][reader[e].frame].op
  /\ reader[e].length = Len(sent[Other(e)][reader[e].frame].data)
  /\ Whole(e, reader[e], DataRead(e), sent[Other(e)][reader[e].frame])
  /\ Taken(e) \in Reader /\ Taken(e).start = reader[e].start + n
  /\ Taken(e).taken = reader[e].taken + n /\ Taken(e).behind = reader[e].behind
  /\ Taken(e).frame = reader[e].frame

\* There is such a message when the content was read in step.
LEMMA MessageIs ==
  ASSUME IInv, NEW e \in End, reader[e].phase = "content", Arrived(e), InStep(e)
  PROVE  \E c \in Nat, n \in Nat : HasRead(e, c, n)
<1> DEFINE r == reader[e]
           w == wire[Other(e)]
           s == sent[Other(e)]
           m == messages[Other(e)]
<1>2. PICK c \in Nat, n \in Nat : \E k \in 1 .. Len(s) : InPlace(e, c, n, k)
  BY IsInPlace
<1>3. InPlace(e, c, n, r.frame)
  BY <1>2 DEF InPlace
<1>4. /\ AtFront(r, c) /\ Need(e) = n /\ Waits(e, r, n) /\ r.taken + n <= Len(w) /\ c + n <= Len(w)
      /\ AllOf(w, c, n, r.frame)
  BY <1>3, Zenon DEF InPlace
<1>5. PICK o \in End : o = Other(e)
  BY Ends
<1>6. Feed(e, w, Len(w), pending[o], Len(pending[o]), s, Len(s), m)
      /\ Len(w) \in Nat /\ Len(pending[o]) \in Nat /\ Len(s) \in Nat
  BY <1>5, FeedIs
<1>7. r \in Reader /\ ReadOK(e, r, w, s, got[e])
  BY ReaderType
<1>8. r.start \in Nat /\ r.taken \in Nat /\ r.start >= 1 /\ r.start <= r.taken + 1
  BY <1>7 DEF Reader, ReadOK, Started
<1>9. /\ Taken(e) \in Reader /\ Taken(e).start = r.start + n
      /\ Taken(e).taken = r.taken + n /\ Taken(e).behind = r.behind
      /\ Taken(e).frame = r.frame
  BY <1>4, <1>7, TakenIs
<1> DEFINE d == r.taken + n - r.start + 1
<1>10. Bytes(e, Need(e)) = At(w, c, n, s) /\ Bytes(e, Taken(e).taken - r.start + 1) = At(w, c, d, s)
  <2>1. Bytes(e, n) = At(w, c, n, s)
    BY <1>4, <1>8, BytesAre
  <2>2. d \in Nat
    BY <1>8
  <2>3. Bytes(e, d) = At(w, c, d, s)
    <3> HIDE DEF d
    <3> QED
      BY <1>4, <1>8, <2>2, BytesAre
  <2>4. Taken(e).taken - r.start + 1 = d
    <3> DEFINE taken == Taken(e).taken
    <3>1. taken = r.taken + n
      BY <1>9
    <3> HIDE DEF taken
    <3>2. taken - r.start + 1 = d
      BY <1>8, <3>1
    <3> QED
      BY <3>2, Zenon DEF taken
  <2> HIDE DEF d
  <2> QED
    BY <1>4, <2>1, <2>3, <2>4, Zenon
<1>11. DataRead(e) = DataOf(e, r, w, c, n, d, s)
  <2> HIDE DEF d
  <2> QED
    BY <1>10, Zenon DEF DataRead, DataOf, Unmasked
<1>12. Mid(r)
  BY DEF Mid
<1>13. Middle(e, r, w, c, n, s, m, Len(s))
  BY <1>4, <1>5, <1>6, <1>7, <1>12, InTheMiddle
<1>14. Whole(e, r, DataOf(e, r, w, c, n, r.taken + n - r.start + 1, s), s[r.frame])
  <2> HIDE DEF r, w, s, m
  <2> QED
    BY <1>4, <1>6, <1>7, ContentData DEF r
<1>15. r.frame \in 1 .. Len(s) /\ s[r.frame] \in Sent /\ Framing(e, r, s[r.frame])
  BY <1>13, Zenon DEF Middle
<1>16. r.op = s[r.frame].op /\ r.length = Len(s[r.frame].data)
  BY <1>15, Zenon DEF Framing
<1> HIDE DEF d
<1>17. HasRead(e, c, n)
  <2>1. Whole(e, r, DataRead(e), s[r.frame])
    BY <1>11, <1>14, Zenon DEF d
  <2> QED
    BY <1>3, <1>9, <1>15, <1>16, <2>1, Zenon DEF HasRead
<1> QED
  BY <1>17

-----------------------------------------------------------------------------
\* A status that e may report.
Statuses == Status \cup {1002}

MayReport(e, status) ==
  /\ status \in Statuses
  /\ status # 1002 => \E i \in 1 .. Len(sent[Other(e)]) :
       sent[Other(e)][i].op = Close /\ sent[Other(e)][i].data = StatusBytes(status)

\* e stops, told to close with a status.
LEMMA StopsTold ==
  ASSUME IInv, NEW e \in End, told[e] = None, NEW r2 \in Reader, r2.phase = "closed", Started(r2),
         r2.taken <= Len(wire[Other(e)]), r2.frame <= Len(sent[Other(e)]),
         reader' = [reader EXCEPT ![e] = r2],
         NEW status, MayReport(e, status), SendClose(e, status), told' = [told EXCEPT ![e] = status],
         wire' = wire, got' = got, began' = began
  PROVE  IInv' /\ OutMoves
<1>0. status \in Status \cup {1002} /\ (status # 1002 => \E i \in 1 .. Len(sent[Other(e)]) :
        sent[Other(e)][i].op = Close /\ sent[Other(e)][i].data = StatusBytes(status))
  BY DEF MayReport, Statuses
<1>1. ReadOK(e, r2, wire[Other(e)], sent[Other(e)], got'[e])
  BY DEF ReadOK, MidOK, Mid, Synced
<1>2. Closes(e, status)
  BY <1>0, CloseOutput
<1>3. told' \in [End -> Status \cup {None, 1002}] /\ told'[e] = status
      /\ \A x \in End : x # e => told'[x] = told[x]
  BY <1>0 DEF IInv, RestOK
<1>4. reader'[e] = r2
  BY DEF IInv, RestOK
<1>5. status # None
  <2>1. status \in Nat
    BY <1>0, StatusBytesAre
  <2> QED
    BY <2>1 DEF None
<1>6. ASSUME NEW f, f.data = StatusBytes(status), ~ closed[e] PROVE MayClose(e, f)
  <2>1. closed'[e]
    BY <1>2 DEF Closes
  <2> QED
    BY <1>3, <1>5, <1>6, <2>1 DEF MayClose
<1>7. \A i \in 1 .. Len(sent'[e]) : sent'[e][i].op = Close =>
        i \in 1 .. Len(sent[e]) \/ (i = Len(sent[e]) + 1 /\ MayClose(e, sent'[e][i]))
  BY <1>2, <1>6 DEF Closes
<1>8. closed'[e]
  BY <1>2 DEF Closes
<1>9. CloseMoves(e)
  BY <1>0, <1>3, <1>4, <1>7, <1>8 DEF CloseMoves
<1>10. OutMoves /\ closed' \in [End -> BOOLEAN]
       /\ \A x \in End : x # e => closed'[x] = closed[x] /\ sent'[x] = sent[x]
  BY <1>2 DEF Closes
<1>11. got' \in [End -> Seq(Posted)] /\ began' \in [End -> BOOLEAN]
  BY DEF IInv, RestOK
<1>12. \A x \in End : x # e => /\ got'[x] = got[x] /\ closed'[x] = closed[x]
                               /\ began'[x] = began[x] /\ told'[x] = told[x]
                               /\ sent'[x] = sent[x]
  BY <1>3, <1>10
<1> QED
  BY <1>1, <1>3, <1>9, <1>10, <1>11, <1>12, AtOneEnd, Zenon

\* The status that a whole close frame gives.
Gives(f, data, length, status) ==
  /\ f.data = StatusBytes(status)
  /\ (IF length >= 2 THEN data[1] * 256 + data[2] ELSE 0) = status

\* The status that is read from a close frame is the one it was sent with.
LEMMA StatusRead ==
  ASSUME NEW e \in End, NEW r, NEW f \in Sent, NEW x, FrameOK(x, f), f.op = Close, NEW data,
         Whole(e, r, data, f), NEW length, length = Len(f.data)
  PROVE  \E status \in Statuses : Gives(f, data, length, status)
<1>1. PICK status \in Status \cup {1002} : f.data = StatusBytes(status)
  BY DEF FrameOK
<1>2. /\ status \in Nat /\ Len(f.data) = 2
      /\ f.data[1] * 256 + f.data[2] = status
  <2>1. /\ status \in Nat /\ Len(StatusBytes(status)) = 2
        /\ StatusBytes(status)[1] * 256 + StatusBytes(status)[2] = status
    BY StatusBytesAre
  <2> QED
    BY <1>1, <2>1
<1>3. 1 \in 1 .. Len(f.data) /\ 2 \in 1 .. Len(f.data)
  BY <1>2
<1>4. data[1] = f.data[1] /\ data[2] = f.data[2]
  BY <1>3 DEF Whole
<1>5. length >= 2
  BY <1>2
<1>6. data[1] * 256 + data[2] = status
  BY <1>2, <1>4
<1>7. (IF length >= 2 THEN data[1] * 256 + data[2] ELSE 0) = status
  BY <1>5, <1>6
<1> QED
  BY <1>1, <1>7 DEF Gives, Statuses

\* The reader of the next message.
LEMMA NextMessageIs ==
  ASSUME NEW e \in End, Taken(e) \in Reader
  PROVE  /\ NextMessage(e) \in Reader /\ NextMessage(e).phase = "header"
         /\ NextMessage(e).start = IF e = "client" THEN Taken(e).taken + 1 ELSE Taken(e).start
         /\ NextMessage(e).taken = Taken(e).taken /\ NextMessage(e).behind = Taken(e).behind
         /\ NextMessage(e).frame = Taken(e).frame
<1> DEFINE t == Taken(e)
           start == IF e = "client" THEN t.taken + 1 ELSE t.start
           q == [t EXCEPT !.phase = "header", !.start = start]
<1>1. NextMessage(e) = [t EXCEPT !.phase = "header",
                                 !.start = IF e = "client" THEN Taken(e).taken + 1 ELSE @]
  BY Zenon DEF NextMessage
<1> HIDE DEF t
<1>2. [t EXCEPT !.phase = "header", !.start = IF e = "client" THEN t.taken + 1 ELSE @] = q
  BY DEF Reader, t
<1>3. start \in Nat
  BY DEF Reader, t
<1> HIDE DEF start
<1>4. /\ q \in Reader /\ q.phase = "header" /\ q.start = start /\ q.taken = t.taken
      /\ q.behind = t.behind /\ q.frame = t.frame
  BY <1>3 DEF Reader, t
<1> QED
  BY <1>1, <1>2, <1>4, Zenon DEF start, t

\* The reader has the next message.
LEMMA NextStep ==
  ASSUME IInv, NEW e \in End, NEW c \in Nat, NEW n \in Nat, HasRead(e, c, n), NEW g2,
         Len(g2) = Len(got[e]) + IF IsMessage(reader[e].op) THEN 1 ELSE 0
  PROVE  /\ NextMessage(e) \in Reader
         /\ ReadOK(e, NextMessage(e), wire[Other(e)], sent[Other(e)], g2)
         /\ NextMessage(e).taken <= Len(wire[Other(e)]) /\ NextMessage(e).frame <= Len(sent[Other(e)])
<1> DEFINE r == reader[e]
           w == wire[Other(e)]
           s == sent[Other(e)]
           m == messages[Other(e)]
           r2 == NextMessage(e)
<1>1. /\ r.phase = "content" /\ InPlace(e, c, n, r.frame) /\ r.op = s[r.frame].op
      /\ r.frame \in 1 .. Len(s)
      /\ Taken(e) \in Reader /\ Taken(e).start = r.start + n /\ Taken(e).taken = r.taken + n
      /\ Taken(e).behind = r.behind /\ Taken(e).frame = r.frame
  BY Zenon DEF HasRead
<1>2. /\ AtFront(r, c) /\ Waits(e, r, n) /\ r.taken + n <= Len(w) /\ AllOf(w, c, n, r.frame)
  BY <1>1, Zenon DEF InPlace
<1>3. PICK o \in End : o = Other(e)
  BY Ends
<1>4. Feed(e, w, Len(w), pending[o], Len(pending[o]), s, Len(s), m)
      /\ Len(w) \in Nat /\ Len(pending[o]) \in Nat /\ Len(s) \in Nat
  BY <1>3, FeedIs
<1>5. r \in Reader /\ ReadOK(e, r, w, s, got[e])
  BY ReaderType
<1>6. /\ r2 \in Reader /\ r2.phase = "header"
      /\ r2.start = IF e = "client" THEN Taken(e).taken + 1 ELSE Taken(e).start
      /\ r2.taken = Taken(e).taken /\ r2.behind = Taken(e).behind /\ r2.frame = Taken(e).frame
  BY <1>1, NextMessageIs
<1>7. /\ r2.start = (IF e = "client" THEN r.taken + n + 1 ELSE r.start + n)
      /\ r2.taken = r.taken + n /\ r2.behind = r.behind /\ r2.frame = r.frame
  BY <1>1, <1>6, Zenon
<1>8. Len(g2) = Len(got[e]) + IF IsMessage(s[r.frame].op) THEN 1 ELSE 0
  BY <1>1, Zenon
<1>9. ReadOK(e, r2, w, s, g2)
  <2>1. r2.phase = "header" /\ r.phase = "content"
    BY <1>1, <1>6
  <2> HIDE DEF r, w, s, m, r2
  <2> QED
    BY <1>2, <1>4, <1>5, <1>7, <1>8, <2>1, NextKeeps, ZenonT(60)
<1>10. r2.taken <= Len(w)
  BY <1>2, <1>7, Zenon
<1>11. r2.frame <= Len(s)
  <2>1. r.frame <= Len(s)
    BY <1>1
  <2> QED
    BY <1>7, <2>1, Zenon
<1> QED
  BY <1>6, <1>9, <1>10, <1>11, Zenon

\* The read of the content keeps the invariant.
LEMMA ContentStep ==
  ASSUME IInv, NEW e \in End, ContentRead(e)
  PROVE  IInv' /\ OutMoves
<1> DEFINE r == reader[e]
           w == wire[Other(e)]
           s == sent[Other(e)]
           f == s[r.frame]
           data == DataRead(e)
           status == IF r.length >= 2 THEN data[1] * 256 + data[2] ELSE 0
<1>1. r.phase = "content" /\ Arrived(e) /\ InStep(e)
  BY Zenon DEF ContentRead, CloseRead
<1>2. PICK c \in Nat, n \in Nat : HasRead(e, c, n)
  BY <1>1, MessageIs
<1>3. /\ r.frame \in 1 .. Len(s) /\ f \in Sent /\ r.op = f.op /\ r.length = Len(f.data)
      /\ Whole(e, r, data, f) /\ InPlace(e, c, n, r.frame)
      /\ Taken(e) \in Reader /\ Taken(e).start = r.start + n /\ Taken(e).taken = r.taken + n
      /\ Taken(e).frame = r.frame
  BY <1>2, Zenon DEF HasRead
<1>4. \/ /\ r.op % 16 = 8 /\ SendClose(e, status) /\ told' = [told EXCEPT ![e] = status]
         /\ reader' = [reader EXCEPT ![e] = [Taken(e) EXCEPT !.phase = "closed"]]
         /\ got' = got
      \/ /\ r.op % 16 = 9 /\ Send(e, r.op + 1, <<>>)
         /\ reader' = [reader EXCEPT ![e] = NextMessage(e)]
         /\ UNCHANGED <<closed, told, got>>
      \/ /\ IsMessage(r.op)
         /\ got' = [got EXCEPT ![e] = Append(@, [op |-> r.op, data |-> data])]
         /\ reader' = [reader EXCEPT ![e] = NextMessage(e)]
         /\ UNCHANGED <<pending, closed, told, history>>
  BY Zenon DEF ContentRead, CloseRead
<1>5. wire' = wire /\ began' = began
  <2>1. UNCHANGED <<wire, began>>
    BY Zenon DEF ContentRead, CloseRead
  <2> QED
    BY <2>1
<1>6. told[e] = None
  BY <1>1, NotTold
<1>7. r \in Reader /\ ReadOK(e, r, w, s, got[e]) /\ Other(e) \in End /\ OutOK(Other(e))
  BY ReaderType
<1>8. FrameOK(Other(e), f)
  <2>1. SentOK(Other(e), s, messages[Other(e)])
    BY <1>7 DEF OutOK
  <2> QED
    BY <1>3, <2>1, Zenon DEF SentOK
<1>9. f.op \in {Text, Close, Ping, Ping + 1}
  BY <1>3 DEF Sent
<1> HIDE DEF data
<1>10. CASE /\ r.op % 16 = 8 /\ SendClose(e, status) /\ told' = [told EXCEPT ![e] = status]
            /\ reader' = [reader EXCEPT ![e] = [Taken(e) EXCEPT !.phase = "closed"]]
            /\ got' = got
  <2> DEFINE t == Taken(e)
             r2 == [t EXCEPT !.phase = "closed"]
  <2>1. f.op = Close
    <3>1. f.op % 16 = 8
      BY <1>3, <1>10, Zenon
    <3> QED
      BY <3>1, <1>9, OpKinds
  <2>2. PICK st \in Statuses : f.data = StatusBytes(st) /\ status = st
    <3>1. r.length = Len(f.data) /\ Whole(e, r, data, f) /\ f \in Sent /\ f.op = Close
      BY <1>3, <2>1
    <3> HIDE DEF f, r
    <3>2. \E st \in Statuses : Gives(f, data, r.length, st)
      BY <1>8, <3>1, StatusRead, Zenon
    <3> QED
      BY <3>2, Zenon DEF Gives
  <2> HIDE DEF status
  <2>3. SendClose(e, st) /\ told' = [told EXCEPT ![e] = st] /\ got' = got
        /\ reader' = [reader EXCEPT ![e] = r2]
    BY <1>10, <2>2
  <2>4. /\ r2 \in Reader /\ r2.phase = "closed" /\ r2.start = t.start /\ r2.taken = t.taken
        /\ r2.frame = t.frame
    <3>1. t \in Reader
      BY <1>3
    <3> HIDE DEF t
    <3> QED
      BY <3>1 DEF Reader
  <2>5. r2.start = r.start + n /\ r2.taken = r.taken + n /\ r2.frame = r.frame
    BY <1>3, <2>4, Zenon
  <2> HIDE DEF r2
  <2>6. Started(r2)
    <3>1. Started(r) /\ r.start \in Nat /\ r.taken \in Nat
      BY <1>7 DEF ReadOK, Reader
    <3> HIDE DEF r
    <3> QED
      BY <2>4, <2>5, <3>1 DEF Started
  <2>7. r2.taken <= Len(w) /\ r2.frame <= Len(s)
    <3>1. r.taken + n <= Len(w)
      BY <1>3, Zenon DEF InPlace
    <3>2. r2.taken <= Len(w)
      BY <2>5, <3>1, Zenon
    <3>3. r.frame <= Len(s)
      BY <1>3
    <3> QED
      BY <2>5, <3>2, <3>3, Zenon
  <2>8. s[r.frame].op = Close /\ s[r.frame].data = StatusBytes(st) /\ r.frame \in 1 .. Len(s)
    BY <1>3, <2>1, <2>2
  <2>9. \E i \in 1 .. Len(s) : s[i].op = Close /\ s[i].data = StatusBytes(st)
    BY <2>8
  <2>10. MayReport(e, st)
    BY <2>9 DEF MayReport
  <2> HIDE DEF r, f
  <2> QED
    BY <1>5, <1>6, <2>3, <2>4, <2>6, <2>7, <2>10, StopsTold, Zenon
<1>11. CASE /\ r.op % 16 = 9 /\ Send(e, r.op + 1, <<>>)
            /\ reader' = [reader EXCEPT ![e] = NextMessage(e)]
            /\ UNCHANGED <<closed, told, got>>
  <2>1. r.op = Ping
    <3>1. f.op % 16 = 9
      BY <1>3, <1>11, Zenon
    <3> QED
      BY <3>1, <1>3, <1>9, OpKinds
  <2>2. Send(e, Ping + 1, <<>>) /\ closed' = closed /\ told' = told /\ got' = got
    BY <1>11, <2>1
  <2>3. Sendable(Ping + 1, <<>>) /\ ~ IsMessage(Ping) /\ Ping + 1 # Close
    <3>1. 0 <= MaxLength
      BY DEF MaxLength
    <3>2. Ping + 1 # Close
      BY OpKinds
    <3> QED
      BY <3>1, <3>2, OpKinds DEF Sendable
  <2>4. OutMoves
    BY <1>5, <2>2, <2>3, SendOutput
  <2>5. PICK y \in Sent : y.op = Ping + 1 /\ OneSent(e, y)
    BY <1>5, <2>2, <2>3, SendOutput
  <2>6. \A i \in 1 .. Len(sent'[e]) : sent'[e][i].op = Close => i \in 1 .. Len(sent[e])
    BY <2>3, <2>5, AddsOne
  <2>7. CloseMoves(e)
    BY <1>5, <1>6, <2>2, <2>6, CloseStays
  <2>8. ~ IsMessage(r.op) /\ Len(got[e]) \in Nat
    <3>1. got[e] \in Seq(Posted)
      BY DEF IInv, RestOK
    <3> QED
      BY <2>1, <2>3, <3>1
  <2>9. Len(got'[e]) = Len(got[e]) + IF IsMessage(r.op) THEN 1 ELSE 0
    BY <2>2, <2>8
  <2>10. /\ NextMessage(e) \in Reader /\ ReadOK(e, NextMessage(e), w, s, got'[e])
         /\ NextMessage(e).taken <= Len(w) /\ NextMessage(e).frame <= Len(s)
    BY <1>2, <2>9, NextStep
  <2>11. /\ got' \in [End -> Seq(Posted)] /\ closed' \in [End -> BOOLEAN]
         /\ began' \in [End -> BOOLEAN] /\ told' \in [End -> Status \cup {None, 1002}]
    BY <1>5, <2>2 DEF IInv, RestOK
  <2>12. \A x \in End : x # e => /\ got'[x] = got[x] /\ closed'[x] = closed[x]
                                 /\ began'[x] = began[x] /\ told'[x] = told[x]
                                 /\ sent'[x] = sent[x]
    BY <1>5, <2>2, <2>5 DEF OneSent
  <2>13. reader' = [reader EXCEPT ![e] = NextMessage(e)]
    BY <1>11
  <2> QED
    BY <2>4, <2>7, <2>10, <2>11, <2>12, <2>13, AtOneEnd, ZenonT(40)
<1>12. CASE /\ IsMessage(r.op)
            /\ got' = [got EXCEPT ![e] = Append(@, [op |-> r.op, data |-> data])]
            /\ reader' = [reader EXCEPT ![e] = NextMessage(e)]
            /\ UNCHANGED <<pending, closed, told, history>>
  <2>1. /\ sent' = sent /\ messages' = messages /\ pending' = pending
        /\ closed' = closed /\ told' = told
    BY <1>12
  <2>2. OutMoves
    BY <1>5, <2>1, NoOutput
  <2>3. \A i \in 1 .. Len(sent'[e]) : sent'[e][i].op = Close => i \in 1 .. Len(sent[e])
    BY <2>1
  <2>4. CloseMoves(e)
    BY <1>5, <1>6, <2>1, <2>3, CloseStays
  <2> DEFINE post == [op |-> r.op, data |-> data]
  <2>5. post \in Posted
    <3>1. r.op \in Byte
      BY <1>7 DEF Reader
    <3>2. data \in Seq(Byte)
      BY <1>3, Zenon DEF Whole
    <3> QED
      BY <3>1, <3>2 DEF Posted
  <2>6. got' = [got EXCEPT ![e] = Append(@, post)]
    BY <1>12
  <2> HIDE DEF post
  <2>7. got' \in [End -> Seq(Posted)] /\ got'[e] = Append(got[e], post) /\ got[e] \in Seq(Posted)
        /\ \A x \in End : x # e => got'[x] = got[x]
    BY <2>5, <2>6 DEF IInv, RestOK
  <2>8. Len(got'[e]) = Len(got[e]) + 1
    BY <2>5, <2>7
  <2>9. Len(got'[e]) = Len(got[e]) + IF IsMessage(r.op) THEN 1 ELSE 0
    BY <1>12, <2>8, Zenon
  <2>10. /\ NextMessage(e) \in Reader /\ ReadOK(e, NextMessage(e), w, s, got'[e])
         /\ NextMessage(e).taken <= Len(w) /\ NextMessage(e).frame <= Len(s)
    BY <1>2, <2>9, NextStep
  <2>11. /\ closed' \in [End -> BOOLEAN]
         /\ began' \in [End -> BOOLEAN] /\ told' \in [End -> Status \cup {None, 1002}]
    BY <1>5, <2>1 DEF IInv, RestOK
  <2>12. \A x \in End : x # e => /\ got'[x] = got[x] /\ closed'[x] = closed[x]
                                 /\ began'[x] = began[x] /\ told'[x] = told[x]
                                 /\ sent'[x] = sent[x]
    BY <1>5, <2>1, <2>7
  <2>13. reader' = [reader EXCEPT ![e] = NextMessage(e)]
    BY <1>12
  <2> QED
    BY <2>2, <2>4, <2>7, <2>10, <2>11, <2>12, <2>13, AtOneEnd, ZenonT(40)
<1> QED
  BY <1>4, <1>10, <1>11, <1>12, Zenon

-----------------------------------------------------------------------------
\* The invariant holds in the beginning,
LEMMA InitHolds == Init => IInv
<1> SUFFICES ASSUME Init PROVE IInv
  OBVIOUS
<1> DEFINE r0 == [phase |-> "handshake", start |-> 1, taken |-> 0, behind |-> 0,
                  op |-> 0, code |-> 0, length |-> 0, frame |-> 0]
<1>1. /\ pending = [e \in End |-> <<>>] /\ wire = [e \in End |-> <<>>]
      /\ reader = [e \in End |-> r0] /\ closed = [e \in End |-> FALSE]
      /\ told = [e \in End |-> None] /\ got = [e \in End |-> <<>>]
      /\ sent = [e \in End |-> <<>>] /\ messages = [e \in End |-> <<>>]
      /\ began = [e \in End |-> FALSE]
  BY Zenon DEF Init
<1>2. r0 \in Reader /\ r0.phase = "handshake" /\ r0.start = 1 /\ r0.taken = 0 /\ r0.behind = 0
      /\ r0.frame = 0
  <2>1. 0 \in Byte
    BY ByteIs
  <2> QED
    BY <2>1 DEF Reader
<1> HIDE DEF r0
<1>3. Functions
  <2>1. sent = [o \in End |-> sent[o]]
    BY <1>1, Zenon
  <2>2. messages = [o \in End |-> messages[o]]
    BY <1>1, Zenon
  <2>3. pending = [o \in End |-> pending[o]]
    BY <1>1, Zenon
  <2>4. wire = [o \in End |-> wire[o]]
    BY <1>1, Zenon
  <2> QED
    BY <2>1, <2>2, <2>3, <2>4, Zenon DEF Functions
<1>4. RestOK
  <2>1. reader \in [End -> Reader] /\ closed \in [End -> BOOLEAN] /\ began \in [End -> BOOLEAN]
    BY <1>1, <1>2
  <2>2. told \in [End -> Status \cup {None, 1002}]
    BY <1>1
  <2>3. got \in [End -> Seq(Posted)]
    BY <1>1
  <2> QED
    BY <2>1, <2>2, <2>3 DEF RestOK
<1> SUFFICES ASSUME NEW e \in End PROVE OutOK(e) /\ ReaderOf(e) /\ BoundsOf(e) /\ CloseOf(e)
  BY <1>3, <1>4 DEF IInv
<1>5. Other(e) \in End
  BY Ends
<1>6. /\ pending[e] = <<>> /\ wire[e] = <<>> /\ sent[e] = <<>> /\ messages[e] = <<>>
      /\ wire[Other(e)] = <<>> /\ sent[Other(e)] = <<>> /\ reader[e] = r0 /\ got[e] = <<>>
      /\ told[e] = None
  BY <1>1, <1>5
<1>7. OutOK(e)
  <2>1. Len(sent[e]) = 0 /\ Len(wire[e]) = 0 /\ Len(pending[e]) = 0 /\ Len(messages[e]) = 0
        /\ sent[e] \in Seq(Sent) /\ messages[e] \in Seq(Posted)
        /\ pending[e] \in Seq(Pending) /\ wire[e] \in Seq(Nat \X Nat)
    BY <1>6
  <2>2. SentOK(e, sent[e], messages[e])
    BY <2>1 DEF SentOK, Upto
  <2>3. Line(wire[e], 0, pending[e], 0, sent[e], 0)
    BY DEF Line, LineType, PendingRises, SomeLeft, InFrame, NotYet, NoneLost, Unbegun, Rising,
           FirstsInOrder, Runs
  <2>4. LineOf(e)
    BY <2>1, <2>3, Zenon DEF LineOf
  <2> QED
    BY <2>1, <2>2, <2>4 DEF OutOK
<1>8. ReaderOf(e)
  <2> DEFINE w == wire[Other(e)]
             s == sent[Other(e)]
  <2>1. Started(r0) /\ ~ Mid(r0)
    BY <1>2 DEF Started, Mid
  <2>2. MidOK(e, r0, w, s)
    BY <2>1 DEF MidOK
  <2>3. StepOK(r0, w, s, got[e])
    <3>1. WholeOf(r0) = 0 /\ Len(got[e]) = 0
      BY <1>2, <1>6, <2>1 DEF WholeOf
    <3> QED
      BY <1>2, <3>1 DEF StepOK, Within, AllMet, Upto
  <2> QED
    BY <1>6, <2>1, <2>2, <2>3, Zenon DEF ReaderOf, ReadOK
<1>9. BoundsOf(e)
  <2>1. Len(wire[Other(e)]) = 0 /\ Len(sent[Other(e)]) = 0 /\ reader[e].taken = 0
        /\ reader[e].frame = 0
    BY <1>2, <1>6
  <2> QED
    BY <2>1 DEF BoundsOf
<1>10. CloseOf(e)
  <2>1. Len(sent[e]) = 0
    BY <1>6
  <2> QED
    BY <1>6, <2>1 DEF CloseOf
<1> QED
  BY <1>7, <1>8, <1>9, <1>10

\* What a program sends can be sent.
LEMMA DataSendable ==
  ASSUME IInv, NEW e \in End, MaySend(e)
  PROVE  Sendable(Text, Data[Len(sent[e]) + 1]) /\ Sendable(Ping, <<>>)
<1>1. Other(e) \in End /\ Other(e) # e
  BY Ends
<1>2. Len(sent["client"]) \in Nat /\ Len(sent["server"]) \in Nat
  <2>1. sent["client"] \in Seq(Sent) /\ sent["server"] \in Seq(Sent)
    BY DEF IInv, OutOK, End
  <2> QED
    BY <2>1
<1>3. Data \in Seq(Seq(Byte)) /\ Len(Data) = MaxFrames /\ MaxFrames \in Nat
  <2>1. Data \in Seq(Seq(Byte)) /\ Len(Data) = MaxFrames
    BY BytesAssumption, Zenon
  <2> QED
    BY <2>1
<1>4. Len(sent[e]) + 1 \in 1 .. Len(Data)
  <2>1. Len(sent["client"]) + Len(sent["server"]) < Len(Data)
    BY <1>3, Zenon DEF MaySend
  <2>2. Len(Data) \in Nat
    BY <1>3
  <2>a. \A a, b, d \in Nat : a + b < d => a + 1 \in 1 .. d /\ b + 1 \in 1 .. d
    OBVIOUS
  <2>3. Len(sent["client"]) + 1 \in 1 .. Len(Data) /\ Len(sent["server"]) + 1 \in 1 .. Len(Data)
    BY <1>2, <2>1, <2>2, <2>a, Zenon
  <2> QED
    BY <2>3 DEF End
<1>5. Data[Len(sent[e]) + 1] \in Seq(Byte) /\ Len(Data[Len(sent[e]) + 1]) <= MaxLength
  BY <1>3, <1>4, LengthAssumption
<1>6. 0 <= MaxLength
  BY DEF MaxLength
<1> QED
  <2>1. Text # Close /\ Ping # Close
    BY OpKinds
  <2>2. <<>> \in Seq(Byte) /\ Len(<<>>) = 0
    OBVIOUS
  <2>3. Sendable(Text, Data[Len(sent[e]) + 1])
    BY <1>5, <2>1 DEF Sendable
  <2>4. Sendable(Ping, <<>>)
    BY <1>6, <2>1, <2>2 DEF Sendable
  <2> QED
    BY <2>3, <2>4

\* and every step keeps it.
LEMMA NextHolds == IInv /\ [Next]_vars => IInv' /\ OutMoves
<1> SUFFICES ASSUME IInv, [Next]_vars PROVE IInv' /\ OutMoves
  OBVIOUS
<1>1. CASE RequestRead
  <2>1. HandshakeRead("server", "answer") /\ "server" \in End
    BY <1>1, Zenon DEF RequestRead, End
  <2> QED
    BY <2>1, HandshakeStep
<1>2. CASE Opened
  <2>1. reader["server"].phase = "answer" /\ reader' = [reader EXCEPT !["server"].phase = "header"]
        /\ UNCHANGED <<pending, wire, closed, told, got, history, began>>
    BY <1>2, Zenon DEF Opened
  <2>2. "server" \in End
    BY DEF End
  <2> QED
    BY <2>1, <2>2, PhaseStep
<1>3. CASE AnswerRead
  <2>1. HandshakeRead("client", "header") /\ "client" \in End
    BY <1>3, Zenon DEF AnswerRead, End
  <2> QED
    BY <2>1, HandshakeStep
<1>4. CASE \E e \in End : \/ MaySend(e) /\ ProgramSends(e, Text, Data[Len(sent[e]) + 1])
                          \/ MaySend(e) /\ ProgramSends(e, Ping, <<>>)
                          \/ \E status \in Status : ProgramCloses(e, status)
                          \/ Writes(e) \/ Reads(e) \/ ReadFails(e)
  <2> PICK e \in End : \/ MaySend(e) /\ ProgramSends(e, Text, Data[Len(sent[e]) + 1])
                       \/ MaySend(e) /\ ProgramSends(e, Ping, <<>>)
                       \/ \E status \in Status : ProgramCloses(e, status)
                       \/ Writes(e) \/ Reads(e) \/ ReadFails(e)
    BY <1>4
  <2>1. CASE MaySend(e) /\ ProgramSends(e, Text, Data[Len(sent[e]) + 1])
    BY <2>1, DataSendable, OpKinds, ProgramSendsStep
  <2>2. CASE MaySend(e) /\ ProgramSends(e, Ping, <<>>)
    BY <2>2, DataSendable, OpKinds, ProgramSendsStep
  <2>3. CASE \E status \in Status : ProgramCloses(e, status)
    BY <2>3, ProgramClosesStep
  <2>4. CASE Writes(e)
    BY <2>4, WritesStep
  <2>5. CASE HeaderRead(e)
    BY <2>5, HeaderStep
  <2>6. CASE LengthRead(e)
    BY <2>6, LengthStep
  <2>7. CASE ContentRead(e)
    BY <2>7, ContentStep
  <2>8. CASE LosesStep(e)
    <3>1. Reading(e)
      BY <2>8, Zenon DEF LosesStep, Arrived
    <3>2. reader' = [reader EXCEPT ![e].phase = "garbled"]
          /\ UNCHANGED <<pending, wire, closed, told, got, history, began>>
      BY <2>8, Zenon DEF LosesStep
    <3>3. reader[e].phase \in {"answer", "header", "length", "content"}
      BY <3>1 DEF Reading
    <3> QED
      BY <3>2, <3>3, PhaseStep
  <2>9. CASE ReadFails(e)
    <3>1. reader' = [reader EXCEPT ![e].phase = "failed"] /\ Reading(e)
          /\ UNCHANGED <<pending, wire, closed, told, got, history, began>>
      BY <2>9, Zenon DEF ReadFails
    <3>2. reader[e].phase \in {"answer", "header", "length", "content"}
      BY <3>1 DEF Reading
    <3> QED
      BY <3>1, <3>2, PhaseStep
  <2> QED
    BY <2>1, <2>2, <2>3, <2>4, <2>5, <2>6, <2>7, <2>8, <2>9, Zenon DEF Reads
<1>5. CASE UNCHANGED vars
  <2>1. /\ pending' = pending /\ wire' = wire /\ reader' = reader /\ closed' = closed
        /\ told' = told /\ got' = got /\ sent' = sent /\ messages' = messages /\ began' = began
    BY <1>5
  <2>2. OutMoves
    BY <2>1, NoOutput
  <2>3. \A e \in End : CloseMoves(e)
    <3> TAKE e \in End
    <3>1. \A i \in 1 .. Len(sent'[e]) : sent'[e][i].op = Close => i \in 1 .. Len(sent[e])
      BY <2>1
    <3> QED
      BY <2>1, <3>1, CloseStays
  <2>4. closed' \in [End -> BOOLEAN] /\ began' \in [End -> BOOLEAN]
    BY <2>1 DEF IInv, RestOK
  <2> QED
    BY <2>1, <2>2, <2>3, <2>4, NobodyReads
<1> QED
  BY <1>1, <1>2, <1>3, <1>4, <1>5, Zenon DEF Next

\* The inductive invariant of the connection.
THEOREM WireInvariant == Spec => []IInv
<1>1. Init => IInv
  BY InitHolds
<1>2. IInv /\ [Next]_vars => IInv'
  BY NextHolds
<1> QED
  BY <1>1, <1>2, PTL DEF Spec

\* The state has its types: no read is past the bytes that came, no write or read
\* is of a frame that was not sent.
THEOREM WireType == Spec => []TypeOK
<1>1. IInv => TypeOK
  BY TypeIsOK
<1> QED
  BY <1>1, WireInvariant, PTL

-----------------------------------------------------------------------------
\* Statuses with the same bytes are the same.
LEMMA SameStatus ==
  ASSUME NEW a \in Statuses, NEW b \in Statuses, StatusBytes(a) = StatusBytes(b)
  PROVE  a = b
<1>1. a = StatusBytes(a)[1] * 256 + StatusBytes(a)[2]
  BY StatusBytesAre DEF Statuses
<1>2. b = StatusBytes(b)[1] * 256 + StatusBytes(b)[2]
  BY StatusBytesAre DEF Statuses
<1> QED
  BY <1>1, <1>2

\* What each end was told was sent, once, by the other.
LEMMA TellsOne ==
  ASSUME IInv, NEW e \in End, told[e] \notin {None, 1002}
  PROVE  \E i \in DOMAIN sent[Other(e)] :
           /\ sent[Other(e)][i].op = Close
           /\ sent[Other(e)][i].data = StatusBytes(told[e])
           /\ \A j \in DOMAIN sent[Other(e)] : sent[Other(e)][j].op = Close => j = i
<1>1. Other(e) \in End
  BY Ends
<1>2. DOMAIN sent[Other(e)] = 1 .. Len(sent[Other(e)])
  <2>1. sent[Other(e)] \in Seq(Sent)
    BY <1>1 DEF IInv, OutOK
  <2> QED
    BY <2>1
<1>3. PICK i \in 1 .. Len(sent[Other(e)]) :
        sent[Other(e)][i].op = Close /\ sent[Other(e)][i].data = StatusBytes(told[e])
  BY DEF IInv, CloseOf
<1>4. \A j \in 1 .. Len(sent[Other(e)]) : sent[Other(e)][j].op = Close => j = i
  BY <1>1, <1>3 DEF IInv, CloseOf
<1> QED
  BY <1>2, <1>3, <1>4

\* The invariant gives the agreement on the status.
LEMMA CloseIsAgreed == IInv => CloseAgreed
<1> SUFFICES ASSUME IInv PROVE CloseAgreed
  OBVIOUS
<1>1. \A e \in End : told[e] \in Status \cup {None, 1002}
  BY DEF IInv, RestOK
<1>2. ASSUME NEW e \in End, ~ began[e], \A x \in End : told[x] \notin {None, 1002}
      PROVE  told[Other(e)] = told[e]
  <2>1. Other(e) \in End /\ Other(Other(e)) = e
    BY Ends
  <2>2. PICK i \in DOMAIN sent[e] :
          sent[e][i].op = Close /\ sent[e][i].data = StatusBytes(told[Other(e)])
    BY <2>1, <1>2, TellsOne
  <2>3. i \in 1 .. Len(sent[e])
    <3>1. sent[e] \in Seq(Sent)
      BY DEF IInv, OutOK
    <3> QED
      BY <3>1
  <2>4. sent[e][i].data = StatusBytes(told[e])
    BY <1>2, <2>2, <2>3 DEF IInv, CloseOf
  <2>5. told[e] \in Status /\ told[Other(e)] \in Status
    BY <1>1, <1>2, <2>1
  <2>6. StatusBytes(told[Other(e)]) = StatusBytes(told[e])
    BY <2>2, <2>4, Zenon
  <2>7. told[e] \in Statuses /\ told[Other(e)] \in Statuses
    BY <2>5 DEF Statuses
  <2> QED
    BY <2>6, <2>7, SameStatus, Zenon
<1>3. ASSUME \E e \in End : ~ began[e], \A e \in End : told[e] \notin {None, 1002}
      PROVE  told["client"] = told["server"]
  <2>1. PICK e \in End : ~ began[e]
    BY <1>3
  <2>2. told[Other(e)] = told[e]
    BY <1>2, <1>3, <2>1
  <2> QED
    BY <2>2, Ends DEF End
<1>4. \A e \in End : told[e] \notin {None, 1002} =>
       \E i \in DOMAIN sent[Other(e)] :
         /\ sent[Other(e)][i].op = Close
         /\ sent[Other(e)][i].data = <<told[e] \div 256, told[e] % 256>>
         /\ \A j \in DOMAIN sent[Other(e)] : sent[Other(e)][j].op = Close => j = i
  BY TellsOne DEF StatusBytes
<1> QED
  BY <1>3, <1>4, ZenonT(40) DEF CloseAgreed

\* Both ends report the status of the one that closed, unless both began to close.
THEOREM WireCloseAgreed == Spec => []CloseAgreed
<1>1. IInv => CloseAgreed
  BY CloseIsAgreed
<1> QED
  BY <1>1, WireInvariant, PTL

-----------------------------------------------------------------------------
\* Where two frames overlap, whatever is still being written.
Overlap(w, L, z, y) == /\ y \in 1 .. L - 1 /\ FrameAt(w, y) # FrameAt(w, y + 1)
                       /\ PlaceAt(w, y) < Size(z, FrameAt(w, y))

\* Where two writes overlap, the frame ahead is not complete.
LEMMA TornWhere ==
  ASSUME NEW w, NEW p, NEW z, NEW L \in Nat, NEW M \in Nat, NEW N \in Nat,
         Line(w, L, p, M, z, N), TornLine(w, L, p, M)
  PROVE  \E y \in Nat : Overlap(w, L, z, y)
<1>1. PICK y \in 1 .. L - 1 :
        /\ FrameAt(w, y) # FrameAt(w, y + 1)
        /\ \/ \E x \in y + 1 .. L : FrameAt(w, x) = FrameAt(w, y)
           \/ \E j \in 1 .. M : FrameOf(p, j) = FrameAt(w, y)
  BY DEF TornLine
<1>2. y \in 1 .. L
  OBVIOUS
<1>3. PICK k \in 1 .. N, a \in Nat : k = FrameAt(w, y) /\ a = PlaceAt(w, y)
  BY <1>2, LineTypes
<1>4. Size(z, k) \in Nat
  BY LineTypes
<1>5. CASE \E x \in y + 1 .. L : FrameAt(w, x) = FrameAt(w, y)
  <2>1. PICK x \in y + 1 .. L : FrameAt(w, x) = FrameAt(w, y)
    BY <1>5
  <2>2. x \in 1 .. L /\ y < x
    BY <1>2
  <2>3. PICK b \in Nat : b = PlaceAt(w, x)
    BY <2>2, LineTypes
  <2>4. a < b
    BY <1>2, <1>3, <2>1, <2>2, <2>3 DEF Line, Rising
  <2>5. b <= Size(z, k)
    BY <1>3, <2>1, <2>2, <2>3 DEF Line, InFrame
  <2>6. a < Size(z, k)
    BY <1>4, <2>4, <2>5
  <2> QED
    BY <1>1, <1>3, <2>6 DEF Overlap
<1>6. CASE \E j \in 1 .. M : FrameOf(p, j) = FrameAt(w, y)
  <2>1. PICK j \in 1 .. M : FrameOf(p, j) = FrameAt(w, y)
    BY <1>6
  <2>2. PICK g \in Nat : g = GoneOf(p, j)
    BY LineTypes
  <2>3. a <= g
    BY <1>2, <1>3, <2>1, <2>2 DEF Line, NotYet
  <2>4. g < Size(z, k)
    BY <1>3, <2>1, <2>2 DEF Line, SomeLeft
  <2>5. a < Size(z, k)
    BY <1>4, <2>3, <2>4
  <2> QED
    BY <1>1, <1>3, <2>5 DEF Overlap
<1> QED
  BY <1>1, <1>5, <1>6

\* A line on which two frames overlap stays such a line.
LEMMA TornStays ==
  ASSUME NEW w, NEW p, NEW z, NEW L \in Nat, NEW M \in Nat, NEW N \in Nat,
         Line(w, L, p, M, z, N), TornLine(w, L, p, M),
         NEW w2, NEW p2, NEW z2, NEW L2 \in Nat, NEW M2 \in Nat, NEW N2 \in Nat,
         Line(w2, L2, p2, M2, z2, N2), Extends(w, L, z, N, w2, z2), L <= L2
  PROVE  TornLine(w2, L2, p2, M2)
<1>1. PICK y \in Nat : Overlap(w, L, z, y)
  BY TornWhere
<1>2. y \in 1 .. L /\ y + 1 \in 1 .. L /\ y \in 1 .. L2 - 1
  BY <1>1 DEF Overlap
<1>3. FrameAt(w2, y) = FrameAt(w, y) /\ FrameAt(w2, y + 1) = FrameAt(w, y + 1)
      /\ PlaceAt(w2, y) = PlaceAt(w, y)
  BY <1>2 DEF Extends
<1>4. FrameAt(w, y) \in 1 .. N
  BY <1>2, LineTypes
<1>5. Size(z2, FrameAt(w, y)) = Size(z, FrameAt(w, y))
  BY <1>4 DEF Extends, Size
<1>6. FrameAt(w2, y) # FrameAt(w2, y + 1) /\ PlaceAt(w2, y) < Size(z2, FrameAt(w2, y))
  BY <1>1, <1>3, <1>5, Zenon DEF Overlap
<1> QED
  BY <1>2, <1>6, TornBy

\* What Torn says of the variables, TornLine says of a line.
LEMMA TornIs ==
  ASSUME IInv, NEW e \in End
  PROVE  Torn(e) <=> TornLine(wire[e], Len(wire[e]), pending[e], Len(pending[e]))
<1>1. wire[e] \in Seq(Nat \X Nat) /\ pending[e] \in Seq(Pending)
  BY DEF IInv, OutOK
<1>2. DOMAIN pending[e] = 1 .. Len(pending[e])
  BY <1>1
<1> QED
  BY <1>2 DEF Torn, TornLine, FrameAt, FrameOf

\* Writes that overlapped once have overlapped for good.
LEMMA TornKept ==
  ASSUME IInv, IInv', OutMoves, NEW e \in End, Torn(e)
  PROVE  Torn(e)'
<1>1. TornLine(wire[e], Len(wire[e]), pending[e], Len(pending[e]))
  BY TornIs
<1>2. OutOK(e) /\ OutOK(e)' /\ Grows(e)
  BY DEF IInv, OutMoves
<1>3. /\ Line(wire[e], Len(wire[e]), pending[e], Len(pending[e]), sent[e], Len(sent[e]))
      /\ Len(wire[e]) \in Nat /\ Len(pending[e]) \in Nat /\ Len(sent[e]) \in Nat
  BY <1>2 DEF OutOK, LineOf
<1>4. /\ Line(wire'[e], Len(wire'[e]), pending'[e], Len(pending'[e]), sent'[e], Len(sent'[e]))
      /\ Len(wire'[e]) \in Nat /\ Len(pending'[e]) \in Nat /\ Len(sent'[e]) \in Nat
  BY <1>2 DEF OutOK, LineOf
<1>5. Extends(wire[e], Len(wire[e]), sent[e], Len(sent[e]), wire'[e], sent'[e])
      /\ Len(wire[e]) <= Len(wire'[e])
  BY <1>2 DEF Grows
<1>6. TornLine(wire'[e], Len(wire'[e]), pending'[e], Len(pending'[e]))
  BY <1>1, <1>3, <1>4, <1>5, TornStays, Zenon
<1>7. wire'[e] \in Seq(Nat \X Nat) /\ pending'[e] \in Seq(Pending)
  BY <1>2 DEF OutOK
<1>8. DOMAIN pending'[e] = 1 .. Len(pending'[e])
  BY <1>7
<1> QED
  BY <1>6, <1>8 DEF Torn, TornLine, FrameAt, FrameOf

-----------------------------------------------------------------------------
\* Where a reader in step can lose it: at a header,
LEMMA LostAtHeader ==
  ASSUME NEW e \in End, NEW w, NEW p, NEW s, NEW m, NEW g,
         NEW L \in Nat, NEW M \in Nat, NEW N \in Nat, Feed(e, w, L, p, M, s, N, m),
         NEW r \in Reader, r.phase = "header", ReadOK(e, r, w, s, g), Synced(e, r), r.frame <= N,
         NEW c \in Nat, AtFront(r, c), c + 2 <= L,
         \/ FrameAt(w, c + 2) # FrameAt(w, c + 1)
         \/ \E i \in 1 .. c : FrameAt(w, i) = FrameAt(w, c + 1)
  PROVE  TornLine(w, L, p, M)
<1>1. Line(w, L, p, M, s, N)
  BY DEF Feed
<1>2. r.frame \in Nat /\ WholeOf(r) = r.frame
  BY DEF Reader, WholeOf, Mid
<1>3. r.start - 1 = c
  BY DEF AtFront
<1>4. AllMet(w, c, s, r.frame) /\ Within(w, c, r.frame)
  BY <1>2, <1>3, Zenon DEF ReadOK, StepOK
<1>5. r.frame \in 0 .. N
  BY <1>2
<1>6. \A i \in 1 .. c : FrameAt(w, i) # FrameAt(w, c + 1)
  <2> SUFFICES ASSUME NEW i \in 1 .. c, FrameAt(w, i) = FrameAt(w, c + 1) PROVE FALSE
    OBVIOUS
  <2>1. FrameAt(w, i) <= r.frame
    BY <1>4 DEF Within
  <2>2. c + 1 \in c + 1 .. L
    OBVIOUS
  <2>3. FrameAt(w, c + 1) > r.frame
    BY <1>1, <1>4, <1>5, <2>2, NoOldFrame
  <2>4. i \in 1 .. L
    OBVIOUS
  <2>5. FrameAt(w, i) \in 1 .. N
    BY <1>1, <2>4, LineTypes
  <2> QED
    BY <1>2, <2>1, <2>3, <2>5
<1> QED
  BY <1>1, <1>4, <1>5, <1>6, LostHeader

\* What e waits for in the middle of a frame is in the frame.
LEMMA RoomInFrame ==
  ASSUME NEW e \in End, NEW w, NEW s, NEW m, NEW N, NEW r, Mid(r), NEW c, NEW n \in Nat,
         NEW h \in Nat, h = Eaten(r), Middle(e, r, w, c, n, s, m, N)
  PROVE  Room(s, r.frame, h, n)
<1>1. s[r.frame].data \in Seq(Byte)
  BY DEF Middle, Sent
<1>2. PICK num \in {0, 2, 8}, len \in Nat, four \in {0, 4} :
        /\ num = Num(s[r.frame].data) /\ len = Len(s[r.frame].data)
        /\ four = IF e = "server" THEN 4 ELSE 0
  BY <1>1, NumIs, ZenonT(40)
<1>3. Size(s, r.frame) = 2 + num + four + len
  BY <1>2 DEF Middle
<1>4. CASE r.phase = "length"
  <2>1. n = num /\ h = 2
    BY <1>2, <1>4 DEF Middle
  <2>2. 2 + num <= 2 + num + four + len
    OBVIOUS
  <2>3. h + n <= Size(s, r.frame)
    BY <1>3, <2>1, <2>2, Zenon
  <2> QED
    BY <2>3, Zenon DEF Room
<1>5. CASE r.phase = "content"
  <2>1. h + n = Size(s, r.frame)
    BY <1>5, Zenon DEF Middle
  <2>2. h + n <= h + n
    OBVIOUS
  <2>3. h + n <= Size(s, r.frame)
    BY <2>1, <2>2, Zenon
  <2> QED
    BY <2>3, Zenon DEF Room
<1> QED
  BY <1>4, <1>5 DEF Mid

\* and in the middle of a frame.
LEMMA LostInside ==
  ASSUME NEW e \in End, NEW w, NEW p, NEW s, NEW m, NEW g,
         NEW L \in Nat, NEW M \in Nat, NEW N \in Nat, Feed(e, w, L, p, M, s, N, m),
         NEW r \in Reader, Mid(r), ReadOK(e, r, w, s, g),
         NEW c \in Nat, AtFront(r, c), NEW n \in Nat, Waits(e, r, n), c + n <= L,
         NEW i \in 1 .. n, FrameAt(w, c + i) # r.frame
  PROVE  TornLine(w, L, p, M)
<1>1. Line(w, L, p, M, s, N)
  BY DEF Feed
<1>2. Middle(e, r, w, c, n, s, m, N)
  BY InTheMiddle
<1>3. PICK h \in Nat : h = Eaten(r)
  BY <1>2 DEF Middle
<1>4. r.frame \in 1 .. N /\ Met(w, c, r.frame, h) /\ h >= 1
  BY <1>2, <1>3 DEF Middle
<1>5. Room(s, r.frame, h, n)
  BY <1>2, <1>3, RoomInFrame, Zenon
<1> DEFINE x == c + i
<1>6. x \in c + 1 .. c + n /\ FrameAt(w, x) # r.frame
  OBVIOUS
<1> HIDE DEF x
<1>7. PICK k \in 1 .. N : k = r.frame
  BY <1>4
<1>8. Met(w, c, k, h) /\ h >= 1 /\ Room(s, k, h, n) /\ FrameAt(w, x) # k
  BY <1>4, <1>5, <1>6, <1>7, Zenon
<1>9. x \in c + 1 .. c + n
  BY <1>6
<1> QED
  BY <1>1, <1>8, <1>9, LostMid

\* A reader that is out of step now was in step before.
LEMMA LosesByTorn ==
  ASSUME IInv, NEW e \in End, Arrived(e), ~ InStep(e),
         ~ (e = "client" /\ reader[e].behind > 0)
  PROVE  Torn(Other(e))
<1> DEFINE r == reader[e]
           w == wire[Other(e)]
           s == sent[Other(e)]
<1>1. Reading(e) /\ r.taken + Need(e) <= Len(w)
  BY DEF Arrived
<1>2. PICK n \in Nat : n = Need(e) /\ Waits(e, r, n)
  BY <1>1, WaitsFor
<1>3. PICK c \in Nat : /\ AtFront(r, c) /\ c <= r.taken
                       /\ \A i \in Nat : i >= 1 => Ahead(e, i) = w[c + i]
  BY <1>1, WaitsFor
<1>4. PICK o \in End : o = Other(e)
  BY Ends
<1>5. Feed(e, w, Len(w), pending[o], Len(pending[o]), s, Len(s), messages[o])
      /\ Len(w) \in Nat /\ Len(pending[o]) \in Nat /\ Len(s) \in Nat
  BY <1>4, FeedIs
<1>6. r \in Reader /\ ReadOK(e, r, w, s, got[e]) /\ r.frame <= Len(s)
  BY ReaderType
<1>7. r.phase \in {"header", "length", "content"}
  BY <1>1 DEF Reading
<1>8. Synced(e, r)
  <2>1. r.behind \in Nat
    BY <1>6 DEF Reader
  <2> QED
    BY <1>7, <2>1 DEF Synced
<1>9. c + n <= Len(w)
  <2>1. r.taken \in Nat
    BY <1>6 DEF Reader
  <2>2. r.taken + n <= Len(w)
    BY <1>1, <1>2, Zenon
  <2>3. c <= r.taken /\ Len(w) \in Nat
    BY <1>3, <1>5, Zenon
  <2> HIDE DEF r, w
  <2> QED
    BY <2>1, <2>2, <2>3
<1> DEFINE k == IF r.phase = "header" THEN Ahead(e, 1)[1] ELSE r.frame
<1>10. \/ \E i \in 1 .. n : Ahead(e, i)[1] # k
       \/ r.phase = "header" /\ \E i \in 1 .. r.start - 1 : w[i][1] = k
  BY <1>2, Zenon DEF InStep
<1>11. \A i \in 1 .. n : Ahead(e, i)[1] = FrameAt(w, c + i)
  BY <1>3 DEF FrameAt
<1>12. TornLine(w, Len(w), pending[o], Len(pending[o]))
  <2>1. CASE r.phase = "header"
    <3>1. n = 2
      BY <1>2, <2>1 DEF Waits
    <3>2. k = FrameAt(w, c + 1)
      BY <1>11, <2>1, <3>1
    <3> HIDE DEF k
    <3>3. \/ FrameAt(w, c + 2) # FrameAt(w, c + 1)
          \/ \E i \in 1 .. c : FrameAt(w, i) = FrameAt(w, c + 1)
      <4>1. CASE \E i \in 1 .. n : Ahead(e, i)[1] # k
        BY <4>1, <1>11, <3>1, <3>2
      <4>2. CASE \E i \in 1 .. r.start - 1 : w[i][1] = k
        <5>1. r.start - 1 = c
          BY <1>3 DEF AtFront
        <5> QED
          BY <4>2, <3>2, <5>1, Zenon DEF FrameAt
      <4> QED
        BY <1>10, <4>1, <4>2
    <3>4. c + 2 <= Len(w)
      BY <1>9, <3>1
    <3> HIDE DEF r, w, s
    <3> QED
      BY <1>3, <1>5, <1>6, <1>8, <2>1, <3>3, <3>4, LostAtHeader
  <2>2. CASE r.phase # "header"
    <3>1. Mid(r)
      BY <1>7, <2>2 DEF Mid
    <3>2. k = r.frame
      BY <2>2
    <3>3. PICK i \in 1 .. n : FrameAt(w, c + i) # r.frame
      BY <1>10, <1>11, <2>2, <3>2
    <3>4. AtFront(r, c) /\ Waits(e, r, n)
      BY <1>2, <1>3
    <3> HIDE DEF r, w, s, k
    <3> QED
      BY <1>5, <1>6, <1>9, <3>1, <3>3, <3>4, LostInside, Zenon
  <2> QED
    BY <2>1, <2>2
<1> QED
  BY <1>4, <1>12, TornIs

\* What the steps of a reader do.
BecomesAt(e, r2) == /\ reader' = [reader EXCEPT ![e] = r2] /\ r2.behind = reader[e].behind
                 /\ reader[e].phase \in {"header", "length", "content"}

\* A read takes the reader on in the connection it is in.
LEMMA TakesOn ==
  ASSUME IInv, NEW e \in End, Arrived(e)
  PROVE  /\ Taken(e) \in Reader /\ Taken(e).behind = reader[e].behind
         /\ reader[e].phase \in {"header", "length", "content"}
<1>1. Reading(e)
  BY Zenon DEF Arrived
<1>2. PICK n \in Nat : n = Need(e)
  BY <1>1, WaitsFor
<1>3. reader[e] \in Reader
  BY ReaderType
<1> QED
  BY <1>1, <1>2, <1>3, TakenIs DEF Reading

\* A close is no message.
LEMMA ClosePosts ==
  ASSUME IInv, NEW e \in End, NEW status, SendClose(e, status)
  PROVE  messages' = messages
<1>1. UNCHANGED <<pending, history>> \/ Send(e, Close, <<status \div 256, status % 256>>)
  BY Zenon DEF SendClose
<1>2. CASE UNCHANGED <<pending, history>>
  BY <1>2
<1>3. CASE Send(e, Close, <<status \div 256, status % 256>>)
  <2>1. messages' = [messages EXCEPT ![e] = messages[e]]
    BY <1>3, OpKinds, Zenon DEF Send
  <2>2. messages = [o \in End |-> messages[o]]
    BY DEF IInv, Functions
  <2> QED
    BY <2>1, <2>2
<1> QED
  BY <1>1, <1>2, <1>3

\* What the reads of a header, a length and a content do to the reader and to the
\* messages.
LEMMA HeaderDoes ==
  ASSUME IInv, NEW e \in End, HeaderRead(e)
  PROVE  /\ \E r2 : BecomesAt(e, r2) /\ r2.phase \in {"length", "content", "closed"}
         /\ messages' = messages /\ got' = got
<1> DEFINE b == Bytes(e, 2)
           code == b[2] % 128
           t == Taken(e)
           q == [t EXCEPT !.op = b[1], !.code = code, !.frame = Ahead(e, 1)[1]]
<1>1. Arrived(e)
  BY Zenon DEF HeaderRead
<1>2. t \in Reader /\ t.behind = reader[e].behind
      /\ reader[e].phase \in {"header", "length", "content"}
  BY <1>1, TakesOn
<1>3. \/ /\ (b[2] >= 128) = (e = "server")
         /\ reader' = [reader EXCEPT ![e] =
                 IF NumBytes(code) > 0 THEN [q EXCEPT !.phase = "length"]
                 ELSE [q EXCEPT !.phase = "content", !.length = code]]
         /\ UNCHANGED <<pending, closed, told, history>>
      \/ /\ SendClose(e, 1002)
         /\ told' = [told EXCEPT ![e] = 1002]
         /\ reader' = [reader EXCEPT ![e] = [q EXCEPT !.phase = "closed"]]
  BY DEF HeaderRead
<1>4. UNCHANGED <<wire, got, began>>
  BY DEF HeaderRead
<1>5. got' = got
  BY <1>4
<1> HIDE DEF t
<1>6. /\ [q EXCEPT !.phase = "length"].phase = "length"
      /\ [q EXCEPT !.phase = "length"].behind = reader[e].behind
      /\ [q EXCEPT !.phase = "closed"].phase = "closed"
      /\ [q EXCEPT !.phase = "closed"].behind = reader[e].behind
      /\ [q EXCEPT !.phase = "content", !.length = code].phase = "content"
      /\ [q EXCEPT !.phase = "content", !.length = code].behind = reader[e].behind
  <2> DEFINE b1 == b[1]
             a1 == Ahead(e, 1)[1]
             b2 == code
             q2 == [t EXCEPT !.op = b1, !.code = b2, !.frame = a1]
  <2> HIDE DEF b1, a1, b2
  <2>1. /\ [q2 EXCEPT !.phase = "length"].phase = "length"
        /\ [q2 EXCEPT !.phase = "length"].behind = reader[e].behind
        /\ [q2 EXCEPT !.phase = "closed"].phase = "closed"
        /\ [q2 EXCEPT !.phase = "closed"].behind = reader[e].behind
        /\ [q2 EXCEPT !.phase = "content", !.length = b2].phase = "content"
        /\ [q2 EXCEPT !.phase = "content", !.length = b2].behind = reader[e].behind
    BY <1>2 DEF Reader
  <2> QED
    BY <2>1 DEF b1, a1, b2
<1> HIDE DEF q, code
<1>7. CASE /\ reader' = [reader EXCEPT ![e] =
                 IF NumBytes(code) > 0 THEN [q EXCEPT !.phase = "length"]
                 ELSE [q EXCEPT !.phase = "content", !.length = code]]
           /\ UNCHANGED <<pending, closed, told, history>>
  <2>1. messages' = messages
    BY <1>7
  <2>2. CASE NumBytes(code) > 0
    <3>1. BecomesAt(e, [q EXCEPT !.phase = "length"])
      BY <1>2, <1>6, <1>7, <2>2 DEF BecomesAt
    <3> QED
      BY <1>5, <1>6, <2>1, <3>1
  <2>3. CASE ~ (NumBytes(code) > 0)
    <3>1. BecomesAt(e, [q EXCEPT !.phase = "content", !.length = code])
      BY <1>2, <1>6, <1>7, <2>3 DEF BecomesAt
    <3> QED
      BY <1>5, <1>6, <2>1, <3>1
  <2> QED
    BY <2>2, <2>3
<1>8. CASE /\ SendClose(e, 1002)
           /\ reader' = [reader EXCEPT ![e] = [q EXCEPT !.phase = "closed"]]
  <2>1. messages' = messages
    BY <1>8, ClosePosts
  <2>2. BecomesAt(e, [q EXCEPT !.phase = "closed"])
    BY <1>2, <1>6, <1>8 DEF BecomesAt
  <2> QED
    BY <1>5, <1>6, <2>1, <2>2
<1> QED
  BY <1>3, <1>7, <1>8

\* The same of a length,
LEMMA LengthDoes ==
  ASSUME IInv, NEW e \in End, LengthRead(e)
  PROVE  /\ \E r2 : BecomesAt(e, r2) /\ r2.phase = "content"
         /\ messages' = messages /\ got' = got
<1> DEFINE t == Taken(e)
           l == LengthOf(Bytes(e, Need(e)))
           r2 == [t EXCEPT !.phase = "content", !.length = l]
<1>1. Arrived(e) /\ reader' = [reader EXCEPT ![e] = r2]
  BY Zenon DEF LengthRead
<1>2. t \in Reader /\ t.behind = reader[e].behind
      /\ reader[e].phase \in {"header", "length", "content"}
  BY <1>1, TakesOn
<1>3. UNCHANGED <<pending, wire, closed, told, got, history, began>>
  BY Zenon DEF LengthRead
<1> HIDE DEF t, l
<1>4. r2.phase = "content" /\ r2.behind = reader[e].behind
  BY <1>2 DEF Reader
<1> HIDE DEF r2
<1>5. BecomesAt(e, r2)
  BY <1>1, <1>2, <1>4 DEF BecomesAt
<1> QED
  BY <1>3, <1>4, <1>5

\* A pong joins the messages of e; or e gives a message to onmessage.
Pongs(e) == /\ got' = got
            /\ messages' = [messages EXCEPT ![e] = Append(@, [op |-> Ping + 1, data |-> <<>>])]
Delivers(e) == /\ reader[e].phase = "content" /\ IsMessage(reader[e].op) /\ messages' = messages
             /\ got' = [got EXCEPT ![e] = Append(@, [op |-> reader[e].op, data |-> DataRead(e)])]

\* and of a content.
LEMMA ContentDoes ==
  ASSUME IInv, NEW e \in End, ContentRead(e)
  PROVE  \E r2 : /\ BecomesAt(e, r2)
                 /\ \/ r2.phase = "closed" /\ messages' = messages /\ got' = got
                    \/ r2.phase = "header" /\ (Pongs(e) \/ Delivers(e))
<1> DEFINE r == reader[e]
           data == DataRead(e)
           status == IF r.length >= 2 THEN data[1] * 256 + data[2] ELSE 0
           t == Taken(e)
           q == [t EXCEPT !.phase = "closed"]
           r2 == NextMessage(e)
<1>1. r.phase = "content" /\ Arrived(e) /\ InStep(e)
  BY Zenon DEF ContentRead, CloseRead
<1>2. \/ /\ SendClose(e, status) /\ reader' = [reader EXCEPT ![e] = q] /\ got' = got
      \/ /\ r.op % 16 = 9 /\ Send(e, r.op + 1, <<>>)
         /\ reader' = [reader EXCEPT ![e] = r2]
         /\ UNCHANGED <<closed, told, got>>
      \/ /\ IsMessage(r.op)
         /\ got' = [got EXCEPT ![e] = Append(@, [op |-> r.op, data |-> data])]
         /\ reader' = [reader EXCEPT ![e] = r2]
         /\ UNCHANGED <<pending, closed, told, history>>
  BY Zenon DEF ContentRead, CloseRead
<1>3. t \in Reader /\ t.behind = r.behind
  BY <1>1, TakesOn
<1>4. r2.phase = "header" /\ r2.behind = r.behind
  BY <1>3, NextMessageIs, Zenon
<1> HIDE DEF r2, data
<1>5. CASE SendClose(e, status) /\ reader' = [reader EXCEPT ![e] = q] /\ got' = got
  <2>1. messages' = messages
    BY <1>5, ClosePosts
  <2>2. q.phase = "closed" /\ q.behind = r.behind
    <3> HIDE DEF t
    <3> QED
      BY <1>3 DEF Reader
  <2> HIDE DEF q
  <2>3. BecomesAt(e, q)
    BY <1>1, <1>5, <2>2 DEF BecomesAt
  <2> QED
    BY <1>5, <2>1, <2>2, <2>3
<1>6. CASE /\ r.op % 16 = 9 /\ Send(e, r.op + 1, <<>>)
           /\ reader' = [reader EXCEPT ![e] = r2]
           /\ UNCHANGED <<closed, told, got>>
  <2>1. BecomesAt(e, r2)
    BY <1>1, <1>4, <1>6 DEF BecomesAt
  <2>2. r.op = Ping
    <3>1. PICK c \in Nat, n \in Nat : HasRead(e, c, n)
      BY <1>1, MessageIs
    <3>2. r.op \in {Text, Close, Ping, Ping + 1}
      BY <3>1 DEF HasRead, Sent
    <3> QED
      BY <1>6, <3>2, OpKinds
  <2>3. Send(e, Ping + 1, <<>>) /\ got' = got
    BY <1>6, <2>2
  <2>4. Pongs(e)
    <3>1. messages' = [messages EXCEPT ![e] = Append(messages[e], [op |-> Ping + 1, data |-> <<>>])]
      BY <2>3, OpKinds, Zenon DEF Send
    <3> QED
      BY <2>3, <3>1 DEF Pongs
  <2> QED
    BY <1>4, <2>1, <2>4
<1>7. CASE /\ IsMessage(r.op)
           /\ got' = [got EXCEPT ![e] = Append(@, [op |-> r.op, data |-> data])]
           /\ reader' = [reader EXCEPT ![e] = r2]
           /\ UNCHANGED <<pending, closed, told, history>>
  <2>1. BecomesAt(e, r2)
    BY <1>1, <1>4, <1>7 DEF BecomesAt
  <2>2. messages' = messages
    BY <1>7
  <2>3. Delivers(e)
    BY <1>1, <1>7, <2>2, Zenon DEF Delivers, data
  <2> QED
    BY <1>4, <2>1, <2>3
<1> QED
  BY <1>2, <1>5, <1>6, <1>7, Zenon

\* A reader is out of step because it lost it, or was before.
Garbled(e) == /\ reader'[e].behind = reader[e].behind
              /\ \/ reader[e].phase = "garbled"
                 \/ Arrived(e) /\ ~ InStep(e)

\* There is no other reason.
LEMMA GarbledBy ==
  ASSUME IInv, [Next]_vars, NEW e \in End, reader'[e].phase = "garbled"
  PROVE  Garbled(e)
<1>0. reader \in [End -> Reader]
  BY DEF IInv, RestOK
<1>1. ASSUME NEW x \in End, NEW r2, reader' = [reader EXCEPT ![x] = r2], r2.phase # "garbled"
      PROVE  Garbled(e)
  <2>1. x # e
    BY <1>0, <1>1
  <2>2. reader'[e] = reader[e]
    BY <1>0, <1>1, <2>1
  <2> QED
    BY <2>2, Zenon DEF Garbled
<1>2. ASSUME reader' = reader PROVE Garbled(e)
  BY <1>2, Zenon DEF Garbled
<1>3. ASSUME NEW x \in End, NEW phase, reader' = [reader EXCEPT ![x].phase = phase],
             phase # "garbled"
      PROVE  Garbled(e)
  <2> DEFINE r2 == [reader[x] EXCEPT !.phase = phase]
  <2>1. reader' = [reader EXCEPT ![x] = r2]
    BY <1>0, <1>3
  <2>2. r2.phase # "garbled"
    BY <1>0, <1>3 DEF Reader
  <2> HIDE DEF r2
  <2> QED
    BY <1>1, <2>1, <2>2
<1>4. ASSUME NEW x \in End, NEW phase, phase # "garbled", HandshakeRead(x, phase) PROVE Garbled(e)
  <2>1. PICK k : reader' = [reader EXCEPT ![x] =
                             [@ EXCEPT !.phase = phase, !.taken = k, !.behind = k]]
    BY <1>4, Zenon DEF HandshakeRead
  <2> DEFINE r2 == [reader[x] EXCEPT !.phase = phase, !.taken = k, !.behind = k]
  <2>2. reader' = [reader EXCEPT ![x] = r2]
    BY <1>0, <2>1
  <2>3. r2.phase # "garbled"
    BY <1>0, <1>4 DEF Reader
  <2> HIDE DEF r2
  <2> QED
    BY <1>1, <2>2, <2>3
<1>5. CASE RequestRead \/ AnswerRead
  BY <1>4, <1>5 DEF RequestRead, AnswerRead, End
<1>6. CASE Opened
  BY <1>3, <1>6 DEF Opened, End
<1>7. CASE UNCHANGED vars
  BY <1>2, <1>7
<1>8. CASE \E x \in End : \/ MaySend(x) /\ ProgramSends(x, Text, Data[Len(sent[x]) + 1])
                          \/ MaySend(x) /\ ProgramSends(x, Ping, <<>>)
                          \/ \E status \in Status : ProgramCloses(x, status)
                          \/ Writes(x)
  <2>1. reader' = reader
    BY <1>8 DEF ProgramSends, ProgramCloses, Writes, Transfer
  <2> QED
    BY <1>2, <2>1
<1>9. CASE \E x \in End : ReadFails(x)
  BY <1>3, <1>9 DEF ReadFails
<1>10. ASSUME NEW x \in End, HeaderRead(x) PROVE Garbled(e)
  <2>1. PICK r2 : BecomesAt(x, r2) /\ r2.phase # "garbled"
    BY <1>10, HeaderDoes
  <2> QED
    BY <1>1, <2>1, Zenon DEF BecomesAt
<1>11. ASSUME NEW x \in End, LengthRead(x) PROVE Garbled(e)
  <2>1. PICK r2 : BecomesAt(x, r2) /\ r2.phase # "garbled"
    BY <1>11, LengthDoes
  <2> QED
    BY <1>1, <2>1, Zenon DEF BecomesAt
<1>12. ASSUME NEW x \in End, ContentRead(x) PROVE Garbled(e)
  <2>1. PICK r2 : BecomesAt(x, r2) /\ r2.phase # "garbled"
    BY <1>12, ContentDoes
  <2> QED
    BY <1>1, <2>1, Zenon DEF BecomesAt
<1>13. ASSUME NEW x \in End, LosesStep(x) PROVE Garbled(e)
  <2>1. Arrived(x) /\ ~ InStep(x) /\ reader' = [reader EXCEPT ![x].phase = "garbled"]
    BY <1>13, Zenon DEF LosesStep
  <2>2. reader'[e].behind = reader[e].behind
    BY <1>0, <2>1 DEF Reader
  <2>3. CASE x = e
    BY <2>1, <2>2, <2>3 DEF Garbled
  <2>4. CASE x # e
    <3>1. reader'[e] = reader[e]
      BY <1>0, <2>1, <2>4
    <3> QED
      BY <3>1, Zenon DEF Garbled
  <2> QED
    BY <2>3, <2>4
<1> QED
  BY <1>5, <1>6, <1>7, <1>8, <1>9, <1>10, <1>11, <1>12, <1>13, Zenon DEF Next, Reads

-----------------------------------------------------------------------------
\* Every step keeps the reader in step, or two writes have overlapped.
LEMMA StepKept == IInv /\ StepIsKept /\ [Next]_vars => StepIsKept'
<1> SUFFICES ASSUME IInv, StepIsKept, [Next]_vars, NEW e \in End, reader'[e].phase = "garbled"
             PROVE  Torn(Other(e))' \/ (e = "client" /\ reader'[e].behind > 0)
  BY DEF StepIsKept
<1>1. IInv' /\ OutMoves
  BY NextHolds
<1>2. Garbled(e)
  BY GarbledBy
<1>3. Other(e) \in End
  BY Ends
<1>4. Torn(Other(e)) \/ (e = "client" /\ reader[e].behind > 0)
  <2>1. CASE reader[e].phase = "garbled"
    BY <2>1 DEF StepIsKept
  <2>2. CASE Arrived(e) /\ ~ InStep(e)
    BY <2>2, LosesByTorn
  <2> QED
    BY <1>2, <2>1, <2>2 DEF Garbled
<1>5. Torn(Other(e)) => Torn(Other(e))'
  BY <1>1, <1>3, TornKept
<1>6. reader'[e].behind = reader[e].behind
  BY <1>2 DEF Garbled
<1> QED
  BY <1>4, <1>5, <1>6

\* A reader takes data for a header only if two writes of the other end overlapped,
\* or, at the client, if bytes came behind the answer.
THEOREM WireStepIsKept == Spec => []StepIsKept
<1>1. Init => StepIsKept
  BY DEF Init, StepIsKept
<1>2. IInv /\ StepIsKept /\ [Next]_vars => StepIsKept'
  BY StepKept
<1> QED
  BY <1>1, <1>2, WireInvariant, PTL DEF Spec

-----------------------------------------------------------------------------
\* The messages up to the frame k come before those up to a later one.
Mounting(s, N) == \A j, k \in 1 .. N : j <= k => s[j].upto <= s[k].upto

\* A reader in step that waits has all the messages that are complete.
LEMMA HoldsNothing ==
  ASSUME NEW e \in End, NEW w, NEW p, NEW s, NEW m, NEW g,
         NEW L \in Nat, NEW M \in Nat, NEW N \in Nat, Feed(e, w, L, p, M, s, N, m),
         NEW r \in Reader, ReadOK(e, r, w, s, g), Synced(e, r), r.frame <= N, r.taken <= L,
         r.phase \in {"header", "length", "content"},
         NEW c \in Nat, AtFront(r, c), NEW n \in Nat, Waits(e, r, n),
         NEW b \in Nat, r.behind = b, Short(L, c, b, n), ~ TornLine(w, L, p, M),
         Mounting(s, N), NEW k \in 1 .. N, Complete(w, L, p, M, k, b)
  PROVE  s[k].upto <= Len(g)
<1>1. Line(w, L, p, M, s, N)
  BY DEF Feed
<1>2. r.start \in Nat /\ r.taken \in Nat /\ r.frame \in Nat /\ r.behind \in Nat
  BY DEF Reader
<1>3. r.start - 1 = c
  BY DEF AtFront
<1>4. /\ r.taken = c + r.behind /\ Within(w, c, r.frame) /\ Len(g) = Upto(s, WholeOf(r))
  BY <1>3, Zenon DEF ReadOK, StepOK
<1>5. c + b <= L /\ c + b + n > L
  <2>1. c + b + n > L
    BY DEF Short
  <2>2. r.taken = c + b
    BY <1>4, Zenon
  <2>3. c + b <= L
    BY <2>2, Zenon
  <2> QED
    BY <2>1, <2>3
<1>6. n >= 1 /\ c <= L
  BY <1>5
<1>7. PICK f \in 0 .. N : f = WholeOf(r)
  <2>1. Mid(r) => r.frame \in 1 .. N
    BY DEF ReadOK, MidOK, Feed
  <2>2. WholeOf(r) \in 0 .. N
    BY <1>2, <2>1 DEF WholeOf
  <2> QED
    BY <2>2
<1>8. k <= f
  <2> SUFFICES ASSUME ~ (k <= f) PROVE FALSE
    OBVIOUS
  <2>1. CASE r.phase = "header"
    <3>1. r.frame = f
      BY <1>7, <2>1 DEF WholeOf, Mid
    <3>2. Within(w, c, f)
      BY <1>4, <3>1, Zenon
    <3>3. n = 2
      BY <2>1 DEF Waits
    <3>4. c + b + 2 > L
      BY <1>5, <3>3
    <3>5. k > f
      OBVIOUS
    <3> QED
      BY <1>1, <3>2, <3>4, <3>5, HeldHeader
  <2>2. CASE r.phase # "header"
    <3>1. Mid(r)
      BY <2>2 DEF Mid
    <3>2. Middle(e, r, w, c, n, s, m, N)
      BY <3>1, InTheMiddle
    <3>3. PICK h \in Nat, t \in 1 .. N : h = Eaten(r) /\ t = r.frame
      BY <3>2 DEF Middle
    <3>4. Met(w, c, t, h) /\ h >= 1 /\ Within(w, c, t)
      <4>1. Met(w, c, r.frame, Eaten(r)) /\ Eaten(r) >= 2
        BY <3>2 DEF Middle
      <4>2. Met(w, c, t, h) /\ h >= 2
        BY <4>1, <3>3, Zenon
      <4>3. Within(w, c, t)
        BY <1>4, <3>3, Zenon
      <4> QED
        BY <4>2, <4>3
    <3>5. Room(s, t, h, n)
      BY <3>1, <3>2, <3>3, RoomInFrame, Zenon
    <3>6. k >= t
      <4>1. f = t - 1
        BY <1>7, <3>1, <3>3 DEF WholeOf
      <4> QED
        BY <4>1
    <3> QED
      BY <1>1, <1>6, <3>4, <3>5, <3>6, HeldMid
  <2> QED
    BY <2>1, <2>2
<1>9. f \in 1 .. N /\ Upto(s, f) = s[f].upto
  BY <1>8 DEF Upto
<1>10. s[k].upto <= s[f].upto
  BY <1>8, <1>9 DEF Mounting
<1> QED
  BY <1>4, <1>7, <1>9, <1>10, Zenon

\* In a state of the invariant no complete message stays behind in a buffer.
LEMMA NothingIsHeldBack == IInv => NothingHeldBack
<1> SUFFICES ASSUME IInv, NEW e \in End, Reading(e), ~ Arrived(e), ~ Torn(Other(e)),
                    e = "client" => reader[e].behind = 0,
                    NEW k \in DOMAIN sent[Other(e)],
                    \A i \in DOMAIN pending[Other(e)] : pending[Other(e)][i].frame # k,
                    \A i \in DOMAIN wire[Other(e)] : wire[Other(e)][i][1] = k =>
                          i + reader[e].behind <= Len(wire[Other(e)])
             PROVE  Len(got[e]) >= sent[Other(e)][k].upto
  BY Zenon DEF NothingHeldBack
<1> DEFINE r == reader[e]
           w == wire[Other(e)]
           s == sent[Other(e)]
<1>1. PICK o \in End : o = Other(e)
  BY Ends
<1>2. Feed(e, w, Len(w), pending[o], Len(pending[o]), s, Len(s), messages[o])
      /\ Len(w) \in Nat /\ Len(pending[o]) \in Nat /\ Len(s) \in Nat
  BY <1>1, FeedIs
<1>3. r \in Reader /\ ReadOK(e, r, w, s, got[e]) /\ r.frame <= Len(s) /\ r.taken <= Len(w)
  BY ReaderType
<1>4. PICK n \in Nat : n = Need(e) /\ Waits(e, r, n)
  BY WaitsFor
<1>5. PICK c \in Nat : AtFront(r, c)
  BY WaitsFor
<1>6. PICK b \in Nat : b = r.behind
  BY <1>3 DEF Reader
<1>7. r.phase \in {"header", "length", "content"}
  BY DEF Reading
<1>8. Synced(e, r)
  BY <1>7 DEF Synced
<1>9. OutOK(o)
  BY DEF IInv
<1>10. s \in Seq(Sent) /\ w \in Seq(Nat \X Nat) /\ pending[o] \in Seq(Pending)
  BY <1>1, <1>9 DEF OutOK
<1>11. k \in 1 .. Len(s)
  BY <1>10
<1>12. Complete(w, Len(w), pending[o], Len(pending[o]), k, b)
  <2>1. DOMAIN w = 1 .. Len(w) /\ DOMAIN pending[o] = 1 .. Len(pending[o])
    BY <1>10
  <2> QED
    BY <1>1, <1>6, <2>1, Zenon DEF Complete, FrameAt, FrameOf
<1>13. ~ TornLine(w, Len(w), pending[o], Len(pending[o]))
  BY <1>1, TornIs
<1>14. Short(Len(w), c, b, n)
  <2>1. ~ (r.taken + n <= Len(w))
    BY <1>4, Zenon DEF Arrived
  <2>2. r.taken = r.start - 1 + r.behind
    BY <1>3, <1>8 DEF ReadOK, StepOK
  <2>3. r.start - 1 = c
    BY <1>5 DEF AtFront
  <2>4. r.taken = c + b
    BY <1>6, <2>2, <2>3, Zenon
  <2>5. ~ (c + b + n <= Len(w))
    BY <2>1, <2>4, Zenon
  <2> HIDE DEF w
  <2> QED
    BY <2>5, <1>2 DEF Short
<1>15. Mounting(s, Len(s))
  BY <1>1, <1>9 DEF OutOK, SentOK, Mounting
<1>16. s[k].upto <= Len(got[e])
  <2>1. r.behind = b /\ Waits(e, r, n) /\ AtFront(r, c)
    BY <1>4, <1>5, <1>6
  <2> HIDE DEF r, w, s
  <2> QED
    BY <1>2, <1>3, <1>7, <1>8, <1>11, <1>12, <1>13, <1>14, <1>15, <2>1, HoldsNothing, Zenon
<1>17. s[k].upto \in Nat /\ Len(got[e]) \in Nat
  <2>1. s[k] \in Sent /\ got[e] \in Seq(Posted)
    BY <1>10, <1>11 DEF IInv, RestOK
  <2> QED
    BY <2>1 DEF Sent
<1> HIDE DEF r, w
<1> QED
  BY <1>16, <1>17

\* While it waits for more bytes, a reader has given to onmessage all the messages
\* that are complete behind its buffer.
THEOREM WireNothingHeldBack == Spec => []NothingHeldBack
<1>1. IInv => NothingHeldBack
  BY NothingIsHeldBack
<1> QED
  BY <1>1, WireInvariant, PTL

-----------------------------------------------------------------------------
\* What a step is to the channel to e.
StateOf(e, r) ==
  IF r.phase = "garbled" \/ (e = "client" /\ r.behind > 0) THEN "broken"
  ELSE IF r.phase \in {"closed", "failed"} THEN "ended" ELSE "open"

ChannelMoves(m, g, c, m2, g2, c2) ==
  \/ m2 = m /\ g2 = g /\ c2 = c
  \/ (\E x \in Frame : m2 = Append(m, x)) /\ g2 = g /\ c2 = c
  \/ c = "open" /\ c2 = "open" /\ Len(g) < Len(m) /\ g2 = Append(g, m[Len(g) + 1]) /\ m2 = m
  \/ c = "open" /\ c2 \in {"ended", "broken"} /\ m2 = m /\ g2 = g
  \/ c2 = "broken" /\ m2 = m

Channel(e) == ChannelMoves(messages[Other(e)], got[e], StateOf(e, reader[e]),
                           messages'[Other(e)], got'[e], StateOf(e, reader'[e]))

\* x may send a message, and its reader may go on.
Says(x) == \/ messages' = messages
           \/ \E f \in Frame : messages' = [messages EXCEPT ![x] = Append(messages[x], f)]

MovesOn(x) == \E r2 : /\ reader' = [reader EXCEPT ![x] = r2]
                      /\ reader[x].phase \notin {"closed", "failed", "garbled"}
                      /\ reader[x].behind > 0 => r2.behind > 0

\* How the messages for e change when x sends one.
LEMMA SaysTo ==
  ASSUME IInv, NEW x \in End, Says(x), NEW e \in End
  PROVE  /\ \/ messages'[Other(e)] = messages[Other(e)]
            \/ x = Other(e) /\ \E f \in Frame : messages'[Other(e)] = Append(messages[Other(e)], f)
         /\ x = e => messages'[Other(e)] = messages[Other(e)]
<1>1. messages = [o \in End |-> messages[o]]
  BY DEF IInv, Functions
<1>2. Other(e) \in End /\ Other(e) # e
  BY Ends
<1>3. CASE messages' = messages
  BY <1>3
<1>4. CASE \E f \in Frame : messages' = [messages EXCEPT ![x] = Append(messages[x], f)]
  <2>1. PICK f \in Frame : messages' = [messages EXCEPT ![x] = Append(messages[x], f)]
    BY <1>4
  <2>2. CASE x = Other(e)
    BY <1>1, <1>2, <2>1, <2>2
  <2>3. CASE x # Other(e)
    BY <1>1, <1>2, <2>1, <2>3
  <2> QED
    BY <2>2, <2>3
<1> QED
  BY <1>3, <1>4 DEF Says

\* A step that sends, or does nothing, is one of the channel;
LEMMA ChannelHears ==
  ASSUME IInv, NEW x \in End, Says(x), reader' = reader, got' = got, NEW e \in End
  PROVE  Channel(e)
<1>1. \/ messages'[Other(e)] = messages[Other(e)]
      \/ \E f \in Frame : messages'[Other(e)] = Append(messages[Other(e)], f)
  BY SaysTo, Zenon
<1> QED
  BY <1>1, Zenon DEF Channel, ChannelMoves

\* so is one that takes the reader on or ends it,
LEMMA ChannelStops ==
  ASSUME IInv, NEW x \in End, Says(x), MovesOn(x), got' = got, NEW e \in End
  PROVE  Channel(e)
<1>1. /\ \/ messages'[Other(e)] = messages[Other(e)]
         \/ \E f \in Frame : messages'[Other(e)] = Append(messages[Other(e)], f)
      /\ x = e => messages'[Other(e)] = messages[Other(e)]
  BY SaysTo, Zenon
<1>2. PICK r2 : /\ reader' = [reader EXCEPT ![x] = r2]
                /\ reader[x].phase \notin {"closed", "failed", "garbled"}
                /\ reader[x].behind > 0 => r2.behind > 0
  BY DEF MovesOn
<1>3. reader \in [End -> Reader]
  BY DEF IInv, RestOK
<1>4. CASE x # e
  <2>1. reader'[e] = reader[e]
    BY <1>2, <1>3, <1>4
  <2> QED
    BY <1>1, <2>1, Zenon DEF Channel, ChannelMoves
<1>5. CASE x = e
  <2>1. reader'[e] = r2
    BY <1>2, <1>3, <1>5
  <2>2. StateOf(e, reader[e]) # "open" => StateOf(e, r2) = "broken"
    BY <1>2, <1>5, Zenon DEF StateOf
  <2>3. StateOf(e, r2) \in {"open", "ended", "broken"}
    BY DEF StateOf
  <2>4. messages'[Other(e)] = messages[Other(e)] /\ got'[e] = got[e]
    BY <1>1, <1>5
  <2> QED
    BY <2>1, <2>2, <2>3, <2>4, Zenon DEF Channel, ChannelMoves
<1> QED
  BY <1>4, <1>5

\* The message that e in step gives to onmessage is the next one.
LEMMA NextIsDelivered ==
  ASSUME IInv, NEW e \in End, reader[e].phase = "content", Arrived(e), InStep(e),
         Synced(e, reader[e]), IsMessage(reader[e].op)
  PROVE  /\ Len(got[e]) < Len(messages[Other(e)])
         /\ messages[Other(e)][Len(got[e]) + 1] = [op |-> reader[e].op, data |-> DataRead(e)]
<1> DEFINE r == reader[e]
           s == sent[Other(e)]
           m == messages[Other(e)]
           w == wire[Other(e)]
           f == s[r.frame]
<1>1. PICK c \in Nat, n \in Nat : HasRead(e, c, n)
  BY MessageIs
<1>2. r.op = f.op /\ f \in Sent /\ DataRead(e) = f.data /\ r.frame \in 1 .. Len(s)
  BY <1>1, Zenon DEF HasRead, Whole
<1>3. ReadOK(e, r, w, s, got[e])
  BY ReaderType
<1>4. Len(got[e]) = Upto(s, r.frame - 1)
  <2>1. Len(got[e]) = Upto(s, WholeOf(r))
    BY <1>3, Zenon DEF ReadOK, StepOK
  <2> QED
    BY <2>1 DEF WholeOf, Mid
<1>5. CountOK(s, m, r.frame)
  <2>1. OutOK(Other(e))
    BY Ends DEF IInv
  <2> QED
    BY <1>2, <2>1 DEF OutOK, SentOK
<1>6. /\ f.upto = Len(got[e]) + 1 /\ f.upto <= Len(m)
      /\ m[f.upto] = [op |-> f.op, data |-> f.data]
  BY <1>2, <1>4, <1>5, Zenon DEF CountOK
<1>7. Len(got[e]) \in Nat /\ Len(m) \in Nat
  <2>1. got[e] \in Seq(Posted) /\ m \in Seq(Posted)
    BY Ends DEF IInv, RestOK, OutOK
  <2> QED
    BY <2>1
<1>8. Len(got[e]) + 1 <= Len(m)
  BY <1>6, Zenon
<1>9. Len(got[e]) < Len(m)
  <2> DEFINE a == Len(got[e])
             b == Len(m)
  <2> HIDE DEF a, b, m
  <2>1. a \in Nat /\ b \in Nat /\ a + 1 <= b
    BY <1>7, <1>8 DEF a, b
  <2>2. a < b
    BY <2>1
  <2> QED
    BY <2>2 DEF a, b
<1> QED
  BY <1>2, <1>6, <1>9, Zenon

\* and one that gives a message to onmessage.
LEMMA ChannelDelivers ==
  ASSUME IInv, NEW x \in End, ContentRead(x), NEW r2, BecomesAt(x, r2), r2.phase = "header",
         Delivers(x), NEW e \in End
  PROVE  Channel(e)
<1>1. /\ reader' = [reader EXCEPT ![x] = r2] /\ r2.behind = reader[x].behind
      /\ messages' = messages /\ IsMessage(reader[x].op) /\ reader[x].phase = "content"
      /\ got' = [got EXCEPT ![x] = Append(@, [op |-> reader[x].op, data |-> DataRead(x)])]
  BY Zenon DEF BecomesAt, Delivers
<1>2. Arrived(x) /\ InStep(x)
  BY Zenon DEF ContentRead, CloseRead
<1>3. reader \in [End -> Reader] /\ got \in [End -> Seq(Posted)]
  BY DEF IInv, RestOK
<1>4. CASE x # e
  <2>1. reader'[e] = reader[e] /\ got'[e] = got[e] /\ messages'[Other(e)] = messages[Other(e)]
    BY <1>1, <1>3, <1>4
  <2> QED
    BY <2>1, Zenon DEF Channel, ChannelMoves
<1>5. CASE x = e
  <2>1. /\ reader'[e] = r2
        /\ got'[e] = Append(got[e], [op |-> reader[e].op, data |-> DataRead(e)])
        /\ messages'[Other(e)] = messages[Other(e)]
    BY <1>1, <1>3, <1>5
  <2>2. CASE e = "client" /\ reader[e].behind > 0
    <3>1. StateOf(e, r2) = "broken"
      BY <1>1, <1>5, <2>2, Zenon DEF StateOf
    <3> QED
      BY <2>1, <3>1, Zenon DEF Channel, ChannelMoves
  <2>3. CASE ~ (e = "client" /\ reader[e].behind > 0)
    <3>1. StateOf(e, reader[e]) = "open" /\ StateOf(e, r2) = "open"
      BY <1>1, <1>5, <2>3 DEF StateOf
    <3>2. Synced(e, reader[e])
      BY <1>1, <1>3, <1>5, <2>3 DEF Synced, Reader
    <3>3. /\ Len(got[e]) < Len(messages[Other(e)])
          /\ messages[Other(e)][Len(got[e]) + 1] = [op |-> reader[e].op, data |-> DataRead(e)]
      BY <1>1, <1>2, <1>5, <3>2, NextIsDelivered, Zenon
    <3>4. got'[e] = Append(got[e], messages[Other(e)][Len(got[e]) + 1])
      BY <2>1, <3>3, Zenon
    <3> QED
      BY <2>1, <3>1, <3>3, <3>4, Zenon DEF Channel, ChannelMoves
  <2> QED
    BY <2>2, <2>3
<1> QED
  BY <1>4, <1>5

\* What a program sends is among Data.
LEMMA DataAt ==
  ASSUME IInv, NEW e \in End, MaySend(e)
  PROVE  Len(sent[e]) + 1 \in DOMAIN Data
<1>1. sent["client"] \in Seq(Sent) /\ sent["server"] \in Seq(Sent)
  BY DEF IInv, OutOK, End
<1>2. Len(sent["client"]) \in Nat /\ Len(sent["server"]) \in Nat
  BY <1>1
<1>3. Data \in Seq(Seq(Byte)) /\ Len(Data) = MaxFrames
  BY BytesAssumption, Zenon
<1>4. Len(sent["client"]) + Len(sent["server"]) < Len(Data)
  BY <1>3, Zenon DEF MaySend
<1>5. \A a, b, d \in Nat : a + b < d => a + 1 \in 1 .. d /\ b + 1 \in 1 .. d
  OBVIOUS
<1>6. Len(Data) \in Nat /\ DOMAIN Data = 1 .. Len(Data)
  BY <1>3
<1>7. Len(sent["client"]) + 1 \in 1 .. Len(Data) /\ Len(sent["server"]) + 1 \in 1 .. Len(Data)
  BY <1>2, <1>4, <1>5, <1>6, Zenon
<1> QED
  BY <1>6, <1>7 DEF End

\* Pings and closes are no messages.
LEMMA SilentSend ==
  ASSUME IInv, NEW e \in End, NEW op, NEW data, ~ IsMessage(op), Send(e, op, data)
  PROVE  messages' = messages
<1>1. messages' = [messages EXCEPT ![e] = messages[e]]
  BY Zenon DEF Send
<1>2. messages = [o \in End |-> messages[o]]
  BY DEF IInv, Functions
<1> QED
  BY <1>1, <1>2

\* What the programs and the sockets do to the messages.
LEMMA ProgramsSay ==
  ASSUME IInv, NEW x \in End,
         \/ MaySend(x) /\ ProgramSends(x, Text, Data[Len(sent[x]) + 1])
         \/ MaySend(x) /\ ProgramSends(x, Ping, <<>>)
         \/ \E status \in Status : ProgramCloses(x, status)
         \/ Writes(x)
  PROVE  Says(x) /\ reader' = reader /\ got' = got
<1>1. reader' = reader /\ got' = got
  BY Zenon DEF ProgramSends, ProgramCloses, Writes, Transfer
<1>2. CASE MaySend(x) /\ ProgramSends(x, Text, Data[Len(sent[x]) + 1])
  <2> DEFINE d == Data[Len(sent[x]) + 1]
  <2>1. Len(sent[x]) + 1 \in DOMAIN Data
    BY <1>2, DataAt
  <2>2. [op |-> Text, data |-> d] \in Frame
    BY <2>1 DEF Frame, Range
  <2>3. Send(x, Text, d)
    BY <1>2, Zenon DEF ProgramSends
  <2> HIDE DEF d
  <2>4. messages' = [messages EXCEPT ![x] = Append(messages[x], [op |-> Text, data |-> d])]
    BY <2>3, OpKinds, Zenon DEF Send
  <2> QED
    BY <1>1, <2>2, <2>4, Zenon DEF Says
<1>3. CASE MaySend(x) /\ ProgramSends(x, Ping, <<>>)
  <2>1. Send(x, Ping, <<>>)
    BY <1>3, Zenon DEF ProgramSends
  <2>2. messages' = messages
    BY <2>1, SilentSend, OpKinds
  <2> QED
    BY <1>1, <2>2 DEF Says
<1>4. CASE \E status \in Status : ProgramCloses(x, status)
  <2>1. PICK status \in Status : SendClose(x, status)
    BY <1>4, Zenon DEF ProgramCloses
  <2>2. messages' = messages
    BY <2>1, ClosePosts
  <2> QED
    BY <1>1, <2>2 DEF Says
<1>5. CASE Writes(x)
  <2>1. messages' = messages
    <3>1. PICK i, n : Transfer(x, i, n)
      BY <1>5, Zenon DEF Writes
    <3>2. UNCHANGED <<reader, closed, told, got, history, began>>
      BY <3>1, Zenon DEF Transfer
    <3> QED
      BY <3>2
  <2> QED
    BY <1>1, <2>1 DEF Says
<1> QED
  BY <1>2, <1>3, <1>4, <1>5

\* Every step is one of the channel to e, or none.
LEMMA ChannelStep ==
  ASSUME IInv, [Next]_vars, NEW e \in End
  PROVE  Channel(e)
<1>0. reader \in [End -> Reader]
  BY DEF IInv, RestOK
<1>1. ASSUME NEW x \in End, NEW phase, reader[x].phase \notin {"closed", "failed", "garbled"},
             reader' = [reader EXCEPT ![x].phase = phase], messages' = messages, got' = got
      PROVE  Channel(e)
  <2> DEFINE r2 == [reader[x] EXCEPT !.phase = phase]
  <2>1. reader' = [reader EXCEPT ![x] = r2]
    BY <1>0, <1>1
  <2>2. r2.behind = reader[x].behind
    BY <1>0 DEF Reader
  <2> HIDE DEF r2
  <2>3. MovesOn(x)
    BY <1>1, <2>1, <2>2 DEF MovesOn
  <2>4. Says(x)
    BY <1>1 DEF Says
  <2> QED
    BY <1>1, <2>3, <2>4, ChannelStops
<1>2. ASSUME NEW x \in End, NEW phase, HandshakeRead(x, phase) PROVE Channel(e)
  <2>1. PICK k : reader' = [reader EXCEPT ![x] =
                             [@ EXCEPT !.phase = phase, !.taken = k, !.behind = k]]
    BY <1>2, Zenon DEF HandshakeRead
  <2>2. reader[x].phase = "handshake" /\ UNCHANGED <<pending, wire, closed, told, got, history, began>>
    BY <1>2, Zenon DEF HandshakeRead
  <2> DEFINE r2 == [reader[x] EXCEPT !.phase = phase, !.taken = k, !.behind = k]
  <2>3. reader' = [reader EXCEPT ![x] = r2]
    BY <1>0, <2>1
  <2>4. reader[x].behind = 0
    BY <2>2, ReaderType DEF ReadOK, Started
  <2> HIDE DEF r2
  <2>5. MovesOn(x)
    <3>1. ~ (reader[x].behind > 0)
      BY <2>4
    <3>2. reader[x].phase \notin {"closed", "failed", "garbled"}
      BY <2>2
    <3> QED
      BY <2>3, <3>1, <3>2, Zenon DEF MovesOn
  <2>6. Says(x) /\ got' = got
    BY <2>2 DEF Says
  <2> QED
    BY <2>5, <2>6, ChannelStops
<1>3. ASSUME NEW x \in End, NEW r2, BecomesAt(x, r2), got' = got, Says(x)
      PROVE  Channel(e)
  <2>1. reader[x].phase \notin {"closed", "failed", "garbled"}
    BY <1>3 DEF BecomesAt
  <2>2. reader' = [reader EXCEPT ![x] = r2] /\ r2.behind = reader[x].behind
    BY <1>3, Zenon DEF BecomesAt
  <2>3. reader[x].behind > 0 => r2.behind > 0
    BY <2>2, Zenon
  <2>4. MovesOn(x)
    BY <2>1, <2>2, <2>3, Zenon DEF MovesOn
  <2> QED
    BY <1>3, <2>4, ChannelStops
<1>4. CASE RequestRead \/ AnswerRead
  BY <1>2, <1>4 DEF RequestRead, AnswerRead, End
<1>5. CASE Opened
  <2>1. reader["server"].phase = "answer" /\ reader' = [reader EXCEPT !["server"].phase = "header"]
        /\ UNCHANGED <<pending, wire, closed, told, got, history, began>>
    BY <1>5, Zenon DEF Opened
  <2>2. "server" \in End
    BY DEF End
  <2> QED
    BY <1>1, <2>1, <2>2
<1>6. CASE UNCHANGED vars
  <2>1. reader' = reader /\ got' = got /\ messages' = messages
    BY <1>6
  <2> QED
    BY <2>1, ChannelHears DEF Says
<1>7. ASSUME NEW x \in End,
             \/ MaySend(x) /\ ProgramSends(x, Text, Data[Len(sent[x]) + 1])
             \/ MaySend(x) /\ ProgramSends(x, Ping, <<>>)
             \/ \E status \in Status : ProgramCloses(x, status)
             \/ Writes(x)
      PROVE  Channel(e)
  <2>1. Says(x) /\ reader' = reader /\ got' = got
    BY <1>7, ProgramsSay
  <2> QED
    BY <2>1, ChannelHears
<1>8. ASSUME NEW x \in End, HeaderRead(x) PROVE Channel(e)
  <2>1. PICK r2 : BecomesAt(x, r2) /\ messages' = messages /\ got' = got
    BY <1>8, HeaderDoes
  <2> QED
    BY <1>3, <2>1 DEF Says
<1>9. ASSUME NEW x \in End, LengthRead(x) PROVE Channel(e)
  <2>1. PICK r2 : BecomesAt(x, r2) /\ messages' = messages /\ got' = got
    BY <1>9, LengthDoes
  <2> QED
    BY <1>3, <2>1 DEF Says
<1>10. ASSUME NEW x \in End, ContentRead(x) PROVE Channel(e)
  <2>1. PICK r2 : /\ BecomesAt(x, r2)
                  /\ \/ messages' = messages /\ got' = got
                     \/ r2.phase = "header" /\ (Pongs(x) \/ Delivers(x))
    BY <1>10, ContentDoes
  <2>2. CASE messages' = messages /\ got' = got
    BY <1>3, <2>1, <2>2 DEF Says
  <2>3. CASE Pongs(x)
    <3>1. got' = got
          /\ messages' = [messages EXCEPT ![x] = Append(@, [op |-> Ping + 1, data |-> <<>>])]
      BY <2>3, Zenon DEF Pongs
    <3>2. [op |-> Ping + 1, data |-> <<>>] \in Frame
      BY DEF Frame
    <3>3. Says(x)
      BY <3>1, <3>2, Zenon DEF Says
    <3> QED
      BY <1>3, <2>1, <3>1, <3>3
  <2>4. CASE r2.phase = "header" /\ Delivers(x)
    BY <1>10, <2>1, <2>4, ChannelDelivers
  <2> QED
    BY <2>1, <2>2, <2>3, <2>4
<1>11. ASSUME NEW x \in End, LosesStep(x) \/ ReadFails(x) PROVE Channel(e)
  <2>1. /\ UNCHANGED <<pending, wire, closed, told, got, history, began>>
        /\ Reading(x) /\ \E phase : reader' = [reader EXCEPT ![x].phase = phase]
    BY <1>11, Zenon DEF LosesStep, ReadFails, Arrived
  <2>2. messages' = messages /\ got' = got
    BY <2>1
  <2> QED
    BY <1>1, <2>1, <2>2 DEF Reading
<1> QED
  BY <1>4, <1>5, <1>6, <1>7, <1>8, <1>9, <1>10, <1>11, Zenon DEF Next, Reads

-----------------------------------------------------------------------------
\* ChannelOf is StateOf of the variables.
LEMMA StateIs ==
  ASSUME NEW e \in End
  PROVE  ChannelOf(e) = StateOf(e, reader[e]) /\ ChannelOf(e)' = StateOf(e, reader'[e])
BY Zenon DEF ChannelOf, StateOf

\* The channel is open and empty in the beginning.
LEMMA ChannelBegins ==
  ASSUME Init, NEW e \in End
  PROVE  got[e] = <<>> /\ messages[Other(e)] = <<>> /\ ChannelOf(e) = "open"
BY Ends DEF Init, ChannelOf

\* The client's messages are given to the server's onmessage whole, once and in order,
\* and none behind a close: the connection implements the channel to the server.
THEOREM WireChannelToServer == Spec => ChannelToServer
<1>1. Init => ToServer!Init
  BY ChannelBegins, Ends DEF End, ToServer!Init
<1>2. IInv /\ [Next]_vars => [ToServer!Next]_<<messages["client"], got["server"], ChannelOf("server")>>
  <2> SUFFICES ASSUME IInv, [Next]_vars
               PROVE  [ToServer!Next]_<<messages["client"], got["server"], ChannelOf("server")>>
    OBVIOUS
  <2>1. "server" \in End /\ Other("server") = "client"
    BY Ends DEF End
  <2>2. ChannelMoves(messages["client"], got["server"], ChannelOf("server"),
                     messages'["client"], got'["server"], ChannelOf("server")')
    BY <2>1, ChannelStep, StateIs DEF Channel
  <2> QED
    BY <2>2 DEF ChannelMoves, ToServer!Next, ToServer!Send, ToServer!Receive, ToServer!Stop, ToServer!Break
<1> QED
  BY <1>1, <1>2, WireInvariant, PTL DEF Spec, ChannelToServer, ToServer!Spec

\* The same in the other direction: the connection implements the channel to the
\* client, as long as no byte came behind the answer to the handshake.
THEOREM WireChannelToClient == Spec => ChannelToClient
<1>1. Init => ToClient!Init
  BY ChannelBegins, Ends DEF End, ToClient!Init
<1>2. IInv /\ [Next]_vars => [ToClient!Next]_<<messages["server"], got["client"], ChannelOf("client")>>
  <2> SUFFICES ASSUME IInv, [Next]_vars
               PROVE  [ToClient!Next]_<<messages["server"], got["client"], ChannelOf("client")>>
    OBVIOUS
  <2>1. "client" \in End /\ Other("client") = "server"
    BY Ends DEF End
  <2>2. ChannelMoves(messages["server"], got["client"], ChannelOf("client"),
                     messages'["server"], got'["client"], ChannelOf("client")')
    BY <2>1, ChannelStep, StateIs DEF Channel
  <2> QED
    BY <2>2 DEF ChannelMoves, ToClient!Next, ToClient!Send, ToClient!Receive, ToClient!Stop, ToClient!Break
<1> QED
  BY <1>1, <1>2, WireInvariant, PTL DEF Spec, ChannelToClient, ToClient!Spec
=============================================================================
