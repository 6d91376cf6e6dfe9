------------------------------ MODULE MCProtocol ------------------------------
(***************************************************************************)
(* The protocol layer for TLC: Framing with a few items, and the codecs of *)
(* handshake lines and of mailed keys over bounded inputs.                 *)
(***************************************************************************)
EXTENDS Framing, HandshakeCodec, KeyExchange

VARIABLE input  \* what a codec is given, instead of what a stream carries

Ones(n) == [i \in 1 .. n |-> 1]
Es(n)   == [i \in 1 .. n |-> "e"]
Text(n, legacy) == [type |-> TEXT, text |-> Ones(n), legacy |-> legacy]

\* Texts of no byte, of a new client and of an old one, over the server's
\* limit and over both limits; a file's header with a name that is cut inside
\* a character, which makes a frame of just the server's limit; one part of
\* the file, and its end.
MCItems ==
  {Text(0, FALSE), Text(0, TRUE), Text(MaxMessageSize - 2, FALSE),
   Text(MaxFrame, FALSE),
   [type |-> FILE_HEADER, id |-> <<2>>, name |-> <<"a">> \o Es(MaxName \div 2 + 1),
    size |-> ValuesOf(5) + 4],
   [type |-> FILE_CHUNK, id |-> <<3>>, offset |-> ValuesOf(6) + 1, data |-> <<0, 5>>],
   [type |-> FILE_TRANSFER_END, id |-> <<0>>]}

-----------------------------------------------------------------------------
\* Inputs of the codecs.
MCKeys == {<<255, 255, 255, 255>>, <<0, 15, 255, 240>>, <<1, 2, 3, 4>>}

\* Lines of this build, of others, of legacy ones, and all of them cut
\* behind a word or with a word that is no numeral.
MCLines ==
  LET full == {Build(prefix, key, 1234, v, m) :
                 prefix \in {InitPrefix, AckPrefix}, key \in MCKeys,
                 v \in {CURRENT, CURRENT + 1, CURRENT - 1, 65536, 65535, 131072},
                 m \in {MIN_COMPAT, CURRENT, CURRENT + 1}}
  IN  UNION {{SubSeq(line, 1, n) : n \in 1 .. 5} : line \in full}
        \union {[line EXCEPT ![i] = <<Pad>>] : line \in full, i \in 3 .. 5}
        \union {BuildNack(<<<<1>>, <<2>>>>)}

\* The codec says of a line what the slot says.
ByCodec(prefix, line) ==
  LET hs == Parse(prefix, line)
  IN  IF ~hs.valid THEN "disconnect"
      ELSE IF hs.hasVersion THEN VersionsJudged(hs.ver, hs.min) ELSE "plain"

Insert(s, i, inset) == SubSeq(s, 1, i) \o inset \o SubSeq(s, i + 1, Len(s))

\* A mail program breaks a text into lines, some indented.
Broken(text) ==
  {Insert(Insert(text, j, inset), i, <<NewLine>>) :
     i \in 0 .. Len(text), j \in 0 .. Len(text),
     inset \in {<<>>, <<NewLine>>, <<Space, NewLine, Space>>}}

\* A comment goes on a line of its own.
Commented(text) ==
  {text, <<Hash, 1, NewLine>> \o text, <<Slash, Slash, 1, NewLine>> \o text,
   text \o <<NewLine, Space, Hash>>}

BeginsAsComment(text) ==
  \E line \in Range(LinesOf(text)) :
    LET t == Trimmed(line) IN Len(t) >= 2 /\ t[1] = Slash /\ t[2] = Slash

NoInput == [kind |-> "none"]

LineArrives ==
  \E line \in MCLines : input' = [kind |-> "line", line |-> line]
LineIsWritten ==
  \E key \in MCKeys, ts \in {0, 9, 10, 987654} :
    input' = [kind |-> "handshake", key |-> key, ts |-> ts]
KeyIsMailed ==
  \E key \in MCKeys : \E text \in {ExportPublicKey(key), ToBase64(key)} :
    \E broken \in Broken(text) : \E mailed \in Commented(broken) :
      input' = [kind |-> "mail", key |-> key, broken |-> broken, mailed |-> mailed]

MCInit == Init /\ input = NoInput
MCNext == \/ Next /\ input = NoInput /\ UNCHANGED input
          \/ /\ Init /\ input = NoInput
             /\ LineArrives \/ LineIsWritten \/ KeyIsMailed
             /\ UNCHANGED vars
MCSpec == MCInit /\ [][MCNext]_<<vars, input>>

-----------------------------------------------------------------------------
\* HandshakeCodec and the two slots speak one protocol: each line, of any
\* version, whole or cut behind a word, is judged alike by the codec and by
\* the server's or the client's own parser; the client's line is the codec's;
\* and what is built is read back field by field.
CodecSpeaksTheProtocol ==
  /\ input.kind = "line" =>
       LET line == input.line
       IN  /\ ByCodec(InitPrefix, line) = ServerJudges(line)
           /\ IF line[1] = NackPrefix
              THEN ParseNack(line) = <<<<1>>, <<2>>>>
              ELSE ByCodec(AckPrefix, line) = ClientJudges(line)
  /\ input.kind = "handshake" =>
       LET line == ClientLine(input.key, input.ts)
           hs   == Parse(InitPrefix, line)
       IN  /\ line = Build(InitPrefix, input.key, input.ts, CURRENT, MIN_COMPAT)
           /\ hs.valid /\ hs.hasVersion /\ hs.key = input.key /\ hs.ts = input.ts
           /\ hs.ver = CURRENT /\ hs.min = MIN_COMPAT

\* A mailed key is imported as it was exported, with or without its header,
\* however the mail breaks it into lines and whatever comments it adds, and
\* never as another key.  The exception is a line that begins with "//",
\* which is base64 too: that line is lost, and with it the key.
KeySurvivesMail ==
  input.kind = "mail" =>
    ImportPublicKey(input.mailed)
      = IF BeginsAsComment(input.broken) THEN NoKey ELSE input.key
=============================================================================
