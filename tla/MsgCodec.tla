------------------------------- MODULE MsgCodec -------------------------------
(***************************************************************************)
(* MessageType.h: the type byte in front of a message, and the payloads of *)
(* a file transfer.  A byte is a number below Byte, a payload a sequence   *)
(* of bytes; the widths of the fields are those of the code.               *)
(***************************************************************************)
EXTENDS Integers, SequencesExt

CONSTANTS Byte,        \* values of a byte: 256 in the program
          FILE_ID_LEN  \* bytes of a file's identifier: 16 in the program

\* Four types and CONTROL, and a byte with which an address can begin.
ASSUME ByteAssumption   == Byte \in Nat /\ Byte >= 6
ASSUME FileIdAssumption == FILE_ID_LEN \in Nat \ {0}

TEXT              == 0
FILE_HEADER       == 1
FILE_CHUNK        == 2
FILE_TRANSFER_END == 3
CONTROL           == Byte - 1
Types == {TEXT, FILE_HEADER, FILE_CHUNK, FILE_TRANSFER_END, CONTROL}

Bytes == 0 .. Byte - 1

WrapWithType(type, composed) == <<type>> \o composed

-----------------------------------------------------------------------------
\* QByteArray: the first n bytes, those behind the first n, n behind the
\* first p; each takes what there is.
Left(s, n)   == SubSeq(s, 1, Min({n, Len(s)}))
Behind(s, n) == SubSeq(s, n + 1, Len(s))
Mid(s, p, n) == Left(Behind(s, p), n)

\* A number shifted by k bytes, to the right or to the left.
DropByte(n, i)    == n \div Byte
MoveByte(n, i)    == n * Byte
ShiftRight(n, k)  == FoldLeft(DropByte, n, [i \in 1 .. k |-> i])
ShiftLeft(n, k)   == FoldLeft(MoveByte, n, [i \in 1 .. k |-> i])

\* How many numbers w bytes can hold.
ValuesOf(w) == ShiftLeft(1, w)

\* The loops that write a number in w bytes, and read it.
BigEndian(n, w)   == [i \in 1 .. w |-> ShiftRight(n, w - i) % Byte]
WithByte(n, b)    == n * Byte + b
FromBigEndian(s)  == FoldLeft(WithByte, 0, s)
NumberAt(s, p, w) == FromBigEndian(Mid(s, p, w))

\* static_cast<int> of four bytes.
ToInt(n) == IF n >= ValuesOf(4) \div 2 THEN n - ValuesOf(4) ELSE n

-----------------------------------------------------------------------------
(***************************************************************************)
(* File names are sequences of characters, of which "e" takes two bytes in *)
(* UTF-8 and "a" one.  A character that is cut in two reads as "?".        *)
(***************************************************************************)
Characters == {"a", "e"}
Utf8(c) == IF c = "a" THEN <<1>> ELSE <<2, 3>>
WithUtf8(bytes, c) == bytes \o Utf8(c)
ToUtf8(name) == FoldLeft(WithUtf8, <<>>, name)

CharacterAt(s, i) == CASE s[i] = 1                                  -> "a"
                       [] s[i] = 2 /\ i < Len(s) /\ s[i + 1] = 3 -> "e"
                       [] s[i] = 2 /\ i = Len(s)                    -> "?"
                       [] OTHER                                     -> ""
WithCharacter(name, c) == IF c = "" THEN name ELSE Append(name, c)
FromUtf8(s) == FoldLeft(WithCharacter, <<>>, [i \in DOMAIN s |-> CharacterAt(s, i)])

MaxName == ValuesOf(2) - 1
Invalid == [type |-> CONTROL]

EncodeFileHeader(id, name, size) ==
  LET fn == Left(ToUtf8(name), MaxName)
  IN  id \o BigEndian(Len(fn), 2) \o fn \o BigEndian(size, 8)

DecodeFileHeader(payload) ==
  LET length == NumberAt(payload, FILE_ID_LEN, 2)
      p      == FILE_ID_LEN + 2
  IN  IF Len(payload) < p + 8 \/ Len(payload) < p + length + 8
      THEN Invalid
      ELSE [type |-> FILE_HEADER, id |-> Left(payload, FILE_ID_LEN),
            name |-> FromUtf8(Mid(payload, p, length)),
            size |-> NumberAt(payload, p + length, 8)]

EncodeFileChunk(id, offset, chunk) ==
  id \o BigEndian(offset, 8) \o BigEndian(Len(chunk), 4) \o chunk

\* Mutant: the length is looked for where the offset is.
DecodeFileChunkShifted(payload) ==
  IF Len(payload) < FILE_ID_LEN + 12 THEN Invalid
  ELSE [type |-> FILE_CHUNK, id |-> Left(payload, FILE_ID_LEN),
        offset |-> NumberAt(payload, FILE_ID_LEN, 8),
        data |-> Mid(payload, FILE_ID_LEN + 12,
                     NumberAt(payload, FILE_ID_LEN + 4, 4))]

DecodeFileChunk(payload) ==
  LET length == NumberAt(payload, FILE_ID_LEN + 8, 4)
      p      == FILE_ID_LEN + 12
  IN  IF Len(payload) < p \/ Len(payload) < p + ToInt(length)
      THEN Invalid
      ELSE [type |-> FILE_CHUNK, id |-> Left(payload, FILE_ID_LEN),
            offset |-> NumberAt(payload, FILE_ID_LEN, 8),
            data |-> Mid(payload, p, length)]

EncodeFileEnd(id) == id
=============================================================================
