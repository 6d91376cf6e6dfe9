---------------------------- MODULE HandshakeCodec ----------------------------
(***************************************************************************)
(* Handshake lines: HandshakeCodec of the protocol layer, which is to take *)
(* the place of the parsing that client and server do in their own slots,  *)
(* beside that parsing.  A line is a sequence of words, as split by        *)
(* spaces, a word a sequence of characters.                                *)
(***************************************************************************)
EXTENDS Base64

InitPrefix == <<68>>
AckPrefix  == <<69>>
NackPrefix == <<70>>

-----------------------------------------------------------------------------
\* ProtocolVersion.h, with the program's numbers.
CURRENT                 == 1 * 65536 + 2 * 256
MIN_COMPAT              == 1 * 65536
RATCHET_FEATURE_VERSION == 1 * 65536 + 2 * 256

MajorOf(v) == (v \div 65536) % 256
IsCompatibleWith(remoteCurrent, remoteMinCompat) ==
  /\ MajorOf(CURRENT) = MajorOf(remoteCurrent)
  /\ MIN_COMPAT <= remoteCurrent
  /\ remoteMinCompat <= CURRENT
SupportsRatchet(remoteCurrent) ==
  CURRENT >= RATCHET_FEATURE_VERSION /\ remoteCurrent >= RATCHET_FEATURE_VERSION

-----------------------------------------------------------------------------
\* The codec.  buildInit and buildAck differ in their prefix only, and so do
\* parseInit and parseAck.
Build(prefix, key, ts, ver, min) ==
  <<prefix, ToBase64(key), Numeral(ts, 10), Numeral(ver, 16), Numeral(min, 16)>>
BuildNack(reason) == <<NackPrefix>> \o reason

NoHandshake == [valid |-> FALSE]

\* Mutant: the versions are read in base ten.
ParseDecimal(prefix, line) ==
  IF Len(line) < 2 \/ line[1] # prefix THEN NoHandshake
  ELSE LET ts  == IF Len(line) >= 3 THEN ToNumber(line[3], 10) ELSE NotANumber
           ver == IF Len(line) >= 5 THEN ToNumber(line[4], 10) ELSE NotANumber
           min == IF Len(line) >= 5 THEN ToNumber(line[5], 10) ELSE NotANumber
       IN  [valid |-> FromBase64(line[2]) # <<>>, key |-> FromBase64(line[2]),
            ts |-> ts, hasVersion |-> NotANumber \notin {ver, min},
            ver |-> ver, min |-> min]

Parse(prefix, line) ==
  IF Len(line) < 2 \/ line[1] # prefix THEN NoHandshake
  ELSE LET ts  == IF Len(line) >= 3 THEN ToNumber(line[3], 10) ELSE NotANumber
           ver == IF Len(line) >= 5 THEN ToNumber(line[4], 16) ELSE NotANumber
           min == IF Len(line) >= 5 THEN ToNumber(line[5], 16) ELSE NotANumber
       IN  [valid |-> FromBase64(line[2]) # <<>>, key |-> FromBase64(line[2]),
            ts |-> ts, hasVersion |-> NotANumber \notin {ver, min},
            ver |-> ver, min |-> min]

ParseNack(line) ==
  IF Len(line) < 2 \/ line[1] # NackPrefix THEN <<>> ELSE Tail(line)

-----------------------------------------------------------------------------
\* What the slots do themselves: the client's line, and what either end makes
\* of the other's.
ClientLine(key, ts) ==
  <<InitPrefix, ToBase64(key), Numeral(ts, 10),
    Numeral(CURRENT, 16), Numeral(MIN_COMPAT, 16)>>

VersionsJudged(ver, min) ==
  IF ~IsCompatibleWith(ver, min) THEN "incompatible"
  ELSE IF SupportsRatchet(ver) THEN "ratchet" ELSE "plain"

Judged(line) ==
  LET ver == ToNumber(line[4], 16)
      min == ToNumber(line[5], 16)
  IN  IF Len(line) < 5 \/ NotANumber \in {ver, min} THEN "plain"
      ELSE VersionsJudged(ver, min)

ServerJudges(line) ==
  IF Len(line) < 2 \/ line[1] # InitPrefix THEN "disconnect" ELSE Judged(line)
ClientJudges(line) ==
  CASE Len(line) >= 2 /\ line[1] = AckPrefix  -> Judged(line)
    [] Len(line) >= 2 /\ line[1] = NackPrefix -> "incompatible"
    [] OTHER                                  -> "disconnect"
=============================================================================
