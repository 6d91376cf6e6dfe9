------------------------------- MODULE Framing -------------------------------
(***************************************************************************)
(* Frames on a byte stream that TCP hands over in chunks of any size, and  *)
(* the two readers that the code has for it: the loop of                   *)
(* IPv6ChatServer::processMessage, which the program runs, and FrameReader *)
(* of the protocol layer, which is to take its place behind other          *)
(* transports.  Both are fed the same chunks here, side by side.  Sealing  *)
(* is left out (RatchetPair has it): a payload travels as it is.           *)
(***************************************************************************)
EXTENDS MsgCodec

CONSTANTS Items,           \* what is sent: texts, of clients old and new, and parts
                           \* of files
          Host,            \* the byte that stands for the sender's address
          MaxMessageSize,  \* the server's limit: 64 KiB in the program
          MaxFrame,        \* FrameReader's limit: 16 MiB in the program
          MaxItems,        \* bound on the items of one connection
          MaxConnections   \* bound on the connections, one after another

ASSUME HostAssumption  == Host \in 1 .. Byte - 1 /\ Host \notin Types
ASSUME LimitAssumption == /\ MaxMessageSize \in Nat /\ MaxFrame \in Nat
                          /\ MaxMessageSize <= MaxFrame /\ MaxFrame < ValuesOf(4)
ASSUME FramingBoundsAssumption == MaxItems \in Nat /\ MaxConnections \in Nat \ {0}

VARIABLES sent,       \* what was written on this connection
          wire,       \* bytes written and not yet read
          server,     \* the server's buffer, what it emitted, and if it reads on
          reader,     \* FrameReader's m_buffer and what it called back
          connections \* connections made so far

vars == <<sent, wire, server, reader, connections>>

-----------------------------------------------------------------------------
(***************************************************************************)
(* The client.                                                             *)
(***************************************************************************)
Payload(item) ==
  CASE item.type = TEXT              -> item.text
    [] item.type = FILE_HEADER       -> EncodeFileHeader(item.id, item.name, item.size)
    [] item.type = FILE_CHUNK        -> EncodeFileChunk(item.id, item.offset, item.data)
    [] item.type = FILE_TRANSFER_END -> EncodeFileEnd(item.id)

\* Clients before the type byte wrote texts without it.
Composed(item) == <<Host, 0>> \o Payload(item)
Frame(item) == IF item.type = TEXT /\ item.legacy
               THEN Composed(item)
               ELSE WrapWithType(item.type, Composed(item))

OnWire(frame) == BigEndian(Len(frame), 4) \o frame

\* What there is to send.  Files are named by FILE_ID_LEN bytes and measured
\* in a qint64, and the length of a frame has four bytes.
FileIds == [1 .. FILE_ID_LEN -> Bytes]
Sizes   == 0 .. ValuesOf(8) \div 2 - 1
Texts   == [type : {TEXT}, text : Seq(Bytes), legacy : BOOLEAN]
Headers == [type : {FILE_HEADER}, id : FileIds, name : Seq(Characters), size : Sizes]
Chunks  == [type : {FILE_CHUNK}, id : FileIds, offset : Sizes, data : Seq(Bytes)]
Ends    == [type : {FILE_TRANSFER_END}, id : FileIds]
ASSUME ItemsAssumption ==
  /\ Items \subseteq Texts \cup Headers \cup Chunks \cup Ends
  /\ \A item \in Items : Len(Frame(item)) < ValuesOf(4)

\* sendTypedFrame.
Send(item) ==
  /\ Len(sent) < MaxItems
  /\ sent' = Append(sent, item)
  /\ wire' = wire \o OnWire(Frame(item))
  /\ UNCHANGED <<server, reader, connections>>

-----------------------------------------------------------------------------
(***************************************************************************)
(* The server's loop.                                                      *)
(***************************************************************************)

\* A byte that is no type is the first of an address: no type byte then.
TypeOf(message) ==
  IF message # <<>> /\ Head(message) \in Types THEN Head(message) ELSE TEXT
RestOf(message) ==
  IF message # <<>> /\ Head(message) \in Types THEN Tail(message) ELSE message

\* The signal for a payload of a type; none for what cannot be decoded.
Decoded(type, payload) ==
  CASE type = TEXT        -> [type |-> TEXT, text |-> payload]
    [] type = FILE_HEADER -> DecodeFileHeader(payload)
    [] type = FILE_CHUNK  -> DecodeFileChunk(payload)
    [] type = FILE_TRANSFER_END /\ Len(payload) >= FILE_ID_LEN ->
         [type |-> FILE_TRANSFER_END, id |-> Left(payload, FILE_ID_LEN)]
    [] OTHER -> Invalid
Emitted(message) ==
  LET rest     == RestOf(message)
      sepIndex == SelectInSeq(rest, LAMBDA b : b = 0)
      event    == Decoded(TypeOf(message), Behind(rest, sepIndex))
  IN  IF sepIndex = 0 \/ event = Invalid THEN <<>> ELSE <<event>>

\* One round of the loop.
ServerStep(s, i) ==
  LET msgLen == NumberAt(s.buffer, 0, 4)
  IN  IF ~s.open \/ Len(s.buffer) < 4 \/ Len(s.buffer) < 4 + msgLen THEN s
      ELSE IF msgLen > MaxMessageSize THEN [s EXCEPT !.open = FALSE, !.buffer = <<>>]
      ELSE [s EXCEPT !.buffer  = Behind(@, 4 + msgLen),
                     !.emitted = @ \o Emitted(Mid(s.buffer, 4, msgLen))]

ProcessMessage(s) == FoldLeft(ServerStep, s, [i \in 1 .. Len(s.buffer) \div 4 |-> i])

\* onReadyRead of a socket that has shaken hands.
ServerReads(data) ==
  IF server.open THEN ProcessMessage([server EXCEPT !.buffer = @ \o data])
                 ELSE server

-----------------------------------------------------------------------------
(***************************************************************************)
(* FrameReader.                                                            *)
(***************************************************************************)

\* Mutant: a length over the limit is waited for.
ReaderStepUnlimited(r, i) ==
  LET len == NumberAt(r.buffer, 0, 4)
  IN  IF Len(r.buffer) < 4 THEN r
      ELSE IF len < 1 THEN [r EXCEPT !.buffer = <<>>]
      ELSE IF Len(r.buffer) < 4 + len THEN r
      ELSE [buffer |-> Behind(r.buffer, 4 + len),
            frames |-> Append(r.frames, [type    |-> r.buffer[5],
                                         payload |-> Mid(r.buffer, 5, len - 1)])]

\* One round of the loop.
ReaderStep(r, i) ==
  LET len == NumberAt(r.buffer, 0, 4)
  IN  IF Len(r.buffer) < 4 THEN r
      ELSE IF len < 1 \/ len > MaxFrame THEN [r EXCEPT !.buffer = <<>>]
      ELSE IF Len(r.buffer) < 4 + len THEN r
      ELSE [buffer |-> Behind(r.buffer, 4 + len),
            frames |-> Append(r.frames, [type    |-> r.buffer[5],
                                         payload |-> Mid(r.buffer, 5, len - 1)])]

Feed(r, data) ==
  LET fed == [r EXCEPT !.buffer = @ \o data]
  IN  FoldLeft(ReaderStep, fed, [i \in 1 .. Len(fed.buffer) \div 4 |-> i])

\* Mutant: the bytes of the old connection stay.
ResetNothing(r) == [r EXCEPT !.frames = <<>>]

\* reset; what was called back before is not part of the next connection.
Reset(r) == [r EXCEPT !.buffer = <<>>, !.frames = <<>>]

-----------------------------------------------------------------------------
Init == /\ sent = <<>> /\ wire = <<>> /\ connections = 1
        /\ server = [buffer |-> <<>>, emitted |-> <<>>, open |-> TRUE]
        /\ reader = [buffer |-> <<>>, frames |-> <<>>]

\* TCP hands over any number of the bytes that have been written.
Arrive(n) ==
  /\ wire'   = Behind(wire, n)
  /\ server' = ServerReads(Left(wire, n))
  /\ reader' = Feed(reader, Left(wire, n))
  /\ UNCHANGED <<sent, connections>>

\* The connection ends, wherever the stream stands, and another one begins.
Reconnect ==
  /\ connections < MaxConnections
  /\ connections' = connections + 1
  /\ sent' = <<>> /\ wire' = <<>>
  /\ server' = [buffer |-> <<>>, emitted |-> <<>>, open |-> TRUE]
  /\ reader' = Reset(reader)

Next == \/ \E item \in Items : Send(item)
        \/ \E n \in 1 .. Len(wire) : Arrive(n)
        \/ Reconnect

Spec == Init /\ [][Next]_vars
-----------------------------------------------------------------------------
(***************************************************************************)
(* Properties.                                                             *)
(***************************************************************************)

\* The shape of the state.  FrameReader never holds as much as a frame of the
\* greatest length it accepts, whatever lengths it meets.
FramingTypeOK ==
  /\ sent \in Seq(Items)
  /\ wire \in Seq(0 .. Byte - 1) /\ server.buffer \in Seq(0 .. Byte - 1)
  /\ connections \in 1 .. MaxConnections
  /\ \A i \in DOMAIN reader.frames : reader.frames[i].type \in 0 .. Byte - 1
  /\ Len(reader.buffer) < 4 + MaxFrame

\* How many bytes have been read, and where the k-th frame ends.
AndFrame(n, item) == n + 4 + Len(Frame(item))
BytesUpTo(k) == FoldLeft(AndFrame, 0, Left(sent, k))
Read == BytesUpTo(Len(sent)) - Len(wire)

\* The frames that have been read whole, up to the first over a limit.
WholeWithin(limit) ==
  Max({k \in 0 .. Len(sent) :
         /\ BytesUpTo(k) <= Read
         /\ \A i \in 1 .. k : Len(Frame(sent[i])) <= limit})

\* What is to arrive: a name that is too long for its field arrives as the
\* characters that fit, and a mark if another one has been cut in two.
NameReceived(name) ==
  LET k == Max({j \in 0 .. Len(name) : Len(ToUtf8(Left(name, j))) <= MaxName})
  IN  IF k < Len(name) /\ Len(ToUtf8(Left(name, k))) < MaxName
      THEN Append(Left(name, k), "?")
      ELSE Left(name, k)
Received(item) ==
  CASE item.type = FILE_HEADER -> [item EXCEPT !.name = NameReceived(@)]
    [] item.type = TEXT        -> [type |-> TEXT, text |-> item.text]
    [] OTHER                   -> item

\* However the stream is cut, processMessage emits exactly the texts and the
\* parts of files that were sent and have been read whole, each with its
\* fields, from clients with and without the type byte; it stops at the
\* first whole frame over its limit, with everything before it delivered.
ServerDeliversExactly ==
  LET n == WholeWithin(MaxMessageSize)
  IN  /\ server.emitted = [i \in 1 .. n |-> Received(sent[i])]
      /\ server.open <=> (n < Len(sent) => BytesUpTo(n + 1) > Read)

\* However the stream is cut, FrameReader calls back with exactly the frames
\* that have been read whole; behind a frame over its limit nothing is
\* promised, but what came before it is not lost.  So in front of the
\* server's limit the two readers agree, except on legacy frames, whose first
\* byte FrameReader takes for a type.
ReaderDeliversExactly ==
  LET n == WholeWithin(MaxFrame)
  IN  /\ Len(reader.frames) >= n
      /\ \A i \in 1 .. n :
           <<reader.frames[i].type>> \o reader.frames[i].payload = Frame(sent[i])
      /\ (\A i \in DOMAIN sent : Len(Frame(sent[i])) <= MaxFrame)
           => Len(reader.frames) = n
=============================================================================
