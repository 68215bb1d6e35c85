-------------------------------- MODULE Wire --------------------------------
(***************************************************************************)
(* One connection between the server (server_ws.hpp) and the client        *)
(* (client_ws.hpp), byte by byte: both ends send frames, at any time and   *)
(* without a queue, and read the other's with a chain of asynchronous      *)
(* reads, each of which waits for a number of further bytes from the       *)
(* socket (transfer_exactly) and then takes that many from the front of    *)
(* its buffer.  The read of the handshake may have put bytes into the      *)
(* buffer already: the server keeps one buffer for the whole connection,   *)
(* the client has a new one for every message.                             *)
(*                                                                         *)
(* Refines MessageChannel in both directions.  A socket may take less than *)
(* a whole frame at once; between two parts of it another frame may go.    *)
(* Abstracted: the text of the handshake and of reasons, idle timers and   *)
(* threads (SocketServer).                                                 *)
(***************************************************************************)
EXTENDS Frames, SequencesExt, FiniteSets

CONSTANTS
  Data,        \* Data[k]: what the k-th frame of an end carries if it is a message
  Masks,       \* masks the client may draw
  Status,      \* statuses the programs close with
  Others,      \* ends at which another program runs: it may send before its
               \*   handshake is done, and get the mask bit wrong
  Pieces,      \* sizes of the first part when a socket does not take a whole frame
  Behind,      \* how many bytes may be read together with a handshake
  MaxFrames    \* bound: frames sent by both when a program sends another

End == {"client", "server"}
Other(e) == CHOOSE f \in End : f # e
None == -1

ASSUME BytesAssumption == /\ Data \in Seq(Seq(Byte)) /\ Len(Data) = MaxFrames
                          /\ Masks \subseteq [1 .. 4 -> Byte] /\ Pieces \subseteq Nat \ {0}

ASSUME StatusAssumption == \A status \in Status : status \in Nat /\ status <= 65535

\* The longest length that is read back, 2^31 - 1: FramesProofs, LengthLimit.
MaxLength == 32767 * 65536 + 65535

ASSUME LengthAssumption == \A k \in DOMAIN Data : Len(Data[k]) <= MaxLength

Text  == 129
Close == 136
Ping  == 137

VARIABLES
  pending,     \* pending[e]: e's async_writes under way: a frame, and how many of its
               \*   bytes are gone
  wire,        \* wire[e]: the bytes e's socket has taken: <<frame, place in it>>
  reader,      \* reader[e]: the chain of reads at e
  closed,      \* closed[e]: Connection::closed at e
  told,        \* told[e]: the status onclose was called with
  got,         \* got[e]: the messages onmessage was called with
  sent,        \* history: the frames e has sent
  messages,    \* history: those of them that are neither pings nor closes
  began        \* history: the program at e has called send_close

history == <<sent, messages>>
vars    == <<pending, wire, reader, closed, told, got, history, began>>

-----------------------------------------------------------------------------
\* a ^ b for two bytes, bit by bit.
Differ(a, b, bit) == IF (a \div bit) % 2 = (b \div bit) % 2 THEN 0 ELSE bit
Xor(a, b) == Differ(a, b, 1) + Differ(a, b, 2) + Differ(a, b, 4) + Differ(a, b, 8)
             + Differ(a, b, 16) + Differ(a, b, 32) + Differ(a, b, 64) + Differ(a, b, 128)

Unmask(mask, data) == [c \in DOMAIN data |-> Xor(data[c], mask[((c - 1) % 4) + 1])]

\* The bytes of a frame; a client's mask, <<>> at a server, goes before the data.
Encode(op, mask, data) ==
  Header(op, mask # <<>>, Len(data)) \o mask
    \o IF mask = <<>> THEN data ELSE Unmask(mask, data)

\* Whether e masks its frames: another program may get it wrong.
MasksOf(e) == (IF e = "client" \/ e \in Others THEN Masks ELSE {})
              \cup (IF e = "server" \/ e \in Others THEN {<<>>} ELSE {})

IsMessage(op) == op % 16 \notin {8, 9}

\* send at e: the frame joins those that are being written.
Send(e, op, data) ==
  LET posted == IF IsMessage(op) THEN Append(messages[e], [op |-> op, data |-> data])
                ELSE messages[e]
  IN  /\ \E mask \in MasksOf(e) : sent' = [sent EXCEPT ![e] = Append(@,
           [op |-> op, data |-> data, bytes |-> Encode(op, mask, data), upto |-> Len(posted)])]
      /\ messages' = [messages EXCEPT ![e] = posted]
      /\ pending' = [pending EXCEPT ![e] = Append(@, [frame |-> Len(sent[e]) + 1, gone |-> 0])]

\* send_close at e, only once.
SendClose(e, status) ==
  /\ closed' = [closed EXCEPT ![e] = TRUE]
  /\ IF closed[e] THEN UNCHANGED <<pending, history>>
     ELSE Send(e, Close, <<status \div 256, status % 256>>)

-----------------------------------------------------------------------------
\* What the outstanding read waits for.
Need(e) == LET r == reader[e]
           IN  CASE r.phase = "header"  -> 2
                 [] r.phase = "length"  -> NumBytes(r.code)
                 [] r.phase = "content" -> r.length + IF e = "server" THEN 4 ELSE 0

Reading(e) == reader[e].phase \in {"header", "length", "content"}
Arrived(e) == Reading(e) /\ reader[e].taken + Need(e) <= Len(wire[Other(e)])

\* The byte i of those at the front of the buffer; they may have come long ago.
Ahead(e, i) == wire[Other(e)][reader[e].start + i - 1]
Bytes(e, n) == [i \in 1 .. n |-> sent[Other(e)][Ahead(e, i)[1]].bytes[Ahead(e, i)[2]]]

\* They are what the reader takes them for: the next bytes of one frame.
InStep(e) ==
  LET r     == reader[e]
      frame == IF r.phase = "header" THEN Ahead(e, 1)[1] ELSE r.frame
  IN  /\ \A i \in 1 .. Need(e) : Ahead(e, i)[1] = frame
      /\ r.phase = "header" => \A i \in 1 .. r.start - 1 : wire[Other(e)][i][1] # frame

\* Variant with a mistake: what was read is counted twice.
TakenTwice(e) == [reader[e] EXCEPT !.start = @ + Need(e), !.taken = @ + 2 * Need(e)]

\* Need(e) bytes are read and taken from the buffer.
Taken(e) == [reader[e] EXCEPT !.start = @ + Need(e), !.taken = @ + Need(e)]

\* Variant with a mistake: the server has a new buffer for every message, too.
NextMessageFresh(e) == [Taken(e) EXCEPT !.phase = "header", !.start = Taken(e).taken + 1]

\* The next message: the client forgets what is left in the buffer of the last one.
NextMessage(e) == [Taken(e) EXCEPT !.phase = "header",
                                   !.start = IF e = "client" THEN Taken(e).taken + 1 ELSE @]
-----------------------------------------------------------------------------
Init == /\ pending = [e \in End |-> <<>>] /\ wire = [e \in End |-> <<>>]
        /\ reader = [e \in End |-> [phase |-> "handshake", start |-> 1, taken |-> 0, behind |-> 0,
                                    op |-> 0, code |-> 0, length |-> 0, frame |-> 0]]
        /\ closed = [e \in End |-> FALSE] /\ told = [e \in End |-> None]
        /\ got = [e \in End |-> <<>>] /\ sent = [e \in End |-> <<>>]
        /\ messages = [e \in End |-> <<>>] /\ began = [e \in End |-> FALSE]

\* The read of the other's handshake may take bytes that came behind it.
HandshakeRead(e, phase) ==
  /\ reader[e].phase = "handshake"
  /\ \E k \in Behind \cap 0 .. Len(wire[Other(e)]) :
       reader' = [reader EXCEPT ![e] = [@ EXCEPT !.phase = phase, !.taken = k, !.behind = k]]
  /\ UNCHANGED <<pending, wire, closed, told, got, history, began>>

\* The server reads the request and writes its answer; then it opens.
RequestRead == HandshakeRead("server", "answer")

Opened == /\ reader["server"].phase = "answer"
          /\ reader' = [reader EXCEPT !["server"].phase = "header"]
          /\ UNCHANGED <<pending, wire, closed, told, got, history, began>>

AnswerRead == /\ reader["server"].phase # "handshake"
              /\ HandshakeRead("client", "header")

\* The programs send messages and pings, and close.
MaySend(e) == /\ Len(sent["client"]) + Len(sent["server"]) < MaxFrames
              /\ reader[e].phase \in {"handshake", "answer"} => e \in Others
              /\ reader[e].phase # "failed"

ProgramSends(e, op, data) == /\ Send(e, op, data)
                             /\ UNCHANGED <<wire, reader, closed, told, got, began>>

ProgramCloses(e, status) == /\ MaySend(e) /\ ~closed[e]
                            /\ SendClose(e, status)
                            /\ began' = [began EXCEPT ![e] = TRUE]
                            /\ UNCHANGED <<wire, reader, told, got>>

\* Variant with a mistake: buffers go in any order.
TransferAny(e, i, n) ==
  LET p == pending[e][i]
  IN  /\ wire' = [wire EXCEPT ![e] = @ \o [j \in 1 .. n |-> <<p.frame, p.gone + j>>]]
      /\ pending' = [pending EXCEPT ![e] =
           IF p.gone + n = Len(sent[e][p.frame].bytes) THEN RemoveAt(@, i)
           ELSE [@ EXCEPT ![i] = [frame |-> p.frame, gone |-> p.gone + n]]]
      /\ UNCHANGED <<reader, closed, told, got, history, began>>

\* Variant with a mistake: what the socket does not take at once is forgotten.
TransferSome(e, i, n) ==
  LET p == pending[e][i]
  IN  /\ i = 1
      /\ wire' = [wire EXCEPT ![e] = @ \o [j \in 1 .. n |-> <<p.frame, p.gone + j>>]]
      /\ pending' = [pending EXCEPT ![e] = RemoveAt(@, i)]
      /\ UNCHANGED <<reader, closed, told, got, history, began>>

(* The socket takes n bytes of a buffer of e.  The first bytes of the      *)
(* buffers go in the order of the sends; with a part gone, the rest is     *)
(* written by a new operation, and what was started since may go first.    *)
Transfer(e, i, n) ==
  LET p == pending[e][i]
  IN  /\ p.gone > 0 \/ \A j \in 1 .. i - 1 : pending[e][j].gone > 0
      /\ wire' = [wire EXCEPT ![e] = @ \o [j \in 1 .. n |-> <<p.frame, p.gone + j>>]]
      /\ pending' = [pending EXCEPT ![e] =
           IF p.gone + n = Len(sent[e][p.frame].bytes) THEN RemoveAt(@, i)
           ELSE [@ EXCEPT ![i] = [frame |-> p.frame, gone |-> p.gone + n]]]
      /\ UNCHANGED <<reader, closed, told, got, history, began>>

\* The first two bytes.  A frame with the wrong mask bit is answered with a close.
HeaderRead(e) ==
  /\ reader[e].phase = "header" /\ Arrived(e) /\ InStep(e)
  /\ LET b      == Bytes(e, 2)
         code   == b[2] % 128
         masked == b[2] >= 128
         r      == [Taken(e) EXCEPT !.op = b[1], !.code = code,
                                    !.frame = Ahead(e, 1)[1]]
     IN  \/ /\ masked = (e = "server")
            /\ reader' = [reader EXCEPT ![e] =
                 IF NumBytes(code) > 0 THEN [r EXCEPT !.phase = "length"]
                 ELSE [r EXCEPT !.phase = "content", !.length = code]]
            /\ UNCHANGED <<pending, closed, told, history>>
         \/ /\ masked # (e = "server")
            /\ SendClose(e, 1002)
            /\ told' = [told EXCEPT ![e] = 1002]
            /\ reader' = [reader EXCEPT ![e] = [r EXCEPT !.phase = "closed"]]
  /\ UNCHANGED <<wire, got, began>>

LengthRead(e) ==
  /\ reader[e].phase = "length" /\ Arrived(e) /\ InStep(e)
  /\ reader' = [reader EXCEPT ![e] =
       [Taken(e) EXCEPT !.phase = "content", !.length = LengthOf(Bytes(e, Need(e)))]]
  /\ UNCHANGED <<pending, wire, closed, told, got, history, began>>

\* The data of the message; the client takes all that its buffer holds for it.
DataRead(e) ==
  LET r == reader[e]
      b == Bytes(e, Need(e))
  IN  IF e = "server" THEN Unmask(SubSeq(b, 1, 4), SubSeq(b, 5, 4 + r.length))
      ELSE Bytes(e, Taken(e).taken - r.start + 1)

\* Variant with a mistake: an end that has closed reports its own status.
CloseReadOwn(e, status) ==
  LET own == {k \in DOMAIN sent[e] : sent[e][k].op = Close}
  IN  /\ SendClose(e, status)
      /\ told' = [told EXCEPT ![e] =
           IF own = {} THEN status
           ELSE LET d == sent[e][CHOOSE k \in own : TRUE].data IN d[1] * 256 + d[2]]
      /\ reader' = [reader EXCEPT ![e] = [Taken(e) EXCEPT !.phase = "closed"]]

\* A Close frame is answered, if it is no answer itself, and its status reported.
CloseRead(e, status) ==
  /\ SendClose(e, status)
  /\ told' = [told EXCEPT ![e] = status]
  /\ reader' = [reader EXCEPT ![e] = [Taken(e) EXCEPT !.phase = "closed"]]

ContentRead(e) ==
  /\ reader[e].phase = "content" /\ Arrived(e) /\ InStep(e)
  /\ LET op     == reader[e].op
         data   == DataRead(e)
         status == IF reader[e].length >= 2 THEN data[1] * 256 + data[2] ELSE 0
     IN  \/ /\ op % 16 = 8
            /\ CloseRead(e, status)
            /\ UNCHANGED got
         \/ /\ op % 16 = 9
            /\ Send(e, op + 1, <<>>)
            /\ reader' = [reader EXCEPT ![e] = NextMessage(e)]
            /\ UNCHANGED <<closed, told, got>>
         \/ /\ IsMessage(op)
            /\ got' = [got EXCEPT ![e] = Append(@, [op |-> op, data |-> data])]
            /\ reader' = [reader EXCEPT ![e] = NextMessage(e)]
            /\ UNCHANGED <<pending, closed, told, history>>
  /\ UNCHANGED <<wire, began>>

\* Out of step, the reader takes data for headers: nothing more is said of it.
LosesStep(e) == /\ Arrived(e) /\ ~InStep(e)
                /\ reader' = [reader EXCEPT ![e].phase = "garbled"]
                /\ UNCHANGED <<pending, wire, closed, told, got, history, began>>

ReadFails(e) == /\ Reading(e)
                /\ reader' = [reader EXCEPT ![e].phase = "failed"]
                /\ UNCHANGED <<pending, wire, closed, told, got, history, began>>

Writes(e) == \E i \in DOMAIN pending[e] :
  LET p    == pending[e][i]
      left == Len(sent[e][p.frame].bytes) - p.gone
  IN  \E n \in {left} \cup {k \in Pieces : k < left /\ p.gone = 0} : Transfer(e, i, n)

Reads(e) == HeaderRead(e) \/ LengthRead(e) \/ ContentRead(e) \/ LosesStep(e)

Next == \/ RequestRead \/ Opened \/ AnswerRead
        \/ \E e \in End : \/ MaySend(e) /\ ProgramSends(e, Text, Data[Len(sent[e]) + 1])
                          \/ MaySend(e) /\ ProgramSends(e, Ping, <<>>)
                          \/ \E status \in Status : ProgramCloses(e, status)
                          \/ Writes(e) \/ Reads(e) \/ ReadFails(e)

Spec == Init /\ [][Next]_vars
-----------------------------------------------------------------------------
Posted == [op : Byte, data : Seq(Byte)]
Sent   == [op : {Text, Close, Ping, Ping + 1}, data : Seq(Byte), bytes : Seq(Byte), upto : Nat]
Reader == [phase : {"handshake", "answer", "header", "length", "content", "closed", "failed",
                    "garbled"},
           start : Nat, taken : Nat, behind : Nat, op : Byte, code : Byte, length : Nat,
           frame : Nat]

TypeOK ==
  /\ sent \in [End -> Seq(Sent)] /\ messages \in [End -> Seq(Posted)]
  /\ pending \in [End -> Seq([frame : Nat, gone : Nat])] /\ wire \in [End -> Seq(Nat \X Nat)]
  /\ reader \in [End -> Reader] /\ got \in [End -> Seq(Posted)]
  /\ closed \in [End -> BOOLEAN] /\ began \in [End -> BOOLEAN]
  /\ told \in [End -> Status \cup {None, 1002}]
  /\ \A e \in End : /\ \A i \in DOMAIN pending[e] : pending[e][i].frame \in DOMAIN sent[e]
                    /\ \A i \in DOMAIN wire[e] : wire[e][i][1] \in DOMAIN sent[e]
                    /\ reader[e].taken <= Len(wire[Other(e)])
                    /\ reader[e].frame \in 0 .. Len(sent[Other(e)])

\* Two writes of e overlapped: a frame began before the one ahead was complete.
Torn(e) == \E i \in 1 .. Len(wire[e]) - 1 :
  /\ wire[e][i][1] # wire[e][i + 1][1]
  /\ \/ \E k \in i + 1 .. Len(wire[e]) : wire[e][k][1] = wire[e][i][1]
     \/ \E k \in DOMAIN pending[e] : pending[e][k].frame = wire[e][i][1]

\* Bytes behind the answer to the handshake break the client's channel.
ChannelOf(e) ==
  IF reader[e].phase = "garbled" \/ (e = "client" /\ reader[e].behind > 0) THEN "broken"
  ELSE IF reader[e].phase \in {"closed", "failed"} THEN "ended" ELSE "open"

Frame == [op : {Text, Ping + 1}, data : Range(Data) \cup {<<>>}]
ToServer == INSTANCE MessageChannel WITH Message <- Frame, sent <- messages["client"],
              received <- got["server"], state <- ChannelOf("server")
ToClient == INSTANCE MessageChannel WITH Message <- Frame, sent <- messages["server"],
              received <- got["client"], state <- ChannelOf("client")

(* However the frames are cut and joined on their way, also with bytes     *)
(* behind the request, each message is given to onmessage whole, once and  *)
(* in order, and none behind a close.                                      *)
ChannelToServer == ToServer!Spec
ChannelToClient == ToClient!Spec

(* A reader takes data for a header only if two writes of the other end    *)
(* overlapped, or, at the client, if bytes came behind the answer.         *)
StepIsKept == \A e \in End : reader[e].phase = "garbled" =>
                Torn(Other(e)) \/ (e = "client" /\ reader[e].behind > 0)

(* Both ends report the status the one that closed gave, unless both began *)
(* to close; then each reports the other's, or its own 1002.               *)
CloseAgreed ==
  /\ (\E e \in End : ~began[e]) /\ (\A e \in End : told[e] \notin {None, 1002})
       => told["client"] = told["server"]
  /\ \A e \in End : told[e] \notin {None, 1002} =>
       \E i \in DOMAIN sent[Other(e)] :
         /\ sent[Other(e)][i].op = Close
         /\ sent[Other(e)][i].data = <<told[e] \div 256, told[e] % 256>>
         /\ \A j \in DOMAIN sent[Other(e)] : sent[Other(e)][j].op = Close => j = i

(* While it waits for more bytes, a reader has given to onmessage all the  *)
(* messages that are complete behind its buffer: none stays behind in a    *)
(* buffer but for as many bytes as had come with the request.              *)
NothingHeldBack == \A e \in End :
  LET o == Other(e)
      Complete(k) == /\ \A i \in DOMAIN pending[o] : pending[o][i].frame # k
                     /\ \A i \in DOMAIN wire[o] : wire[o][i][1] = k =>
                          i + reader[e].behind <= Len(wire[o])
  IN  Reading(e) /\ ~Arrived(e) /\ ~Torn(o) /\ (e = "client" => reader[e].behind = 0) =>
        \A k \in DOMAIN sent[o] : Complete(k) =>
          Len(got[e]) >= sent[o][k].upto
=============================================================================
