------------------------------ MODULE ChatLink ------------------------------
(***************************************************************************)
(* One TCP connection from an IPv6ChatClient to an IPv6ChatServer, from    *)
(* the client's onConnected to the end of the connection: the handshake    *)
(* lines, the choice between a ratchet and a plain session, the rotation   *)
(* lines among the encrypted frames, and what the two onReadyRead slots do *)
(* with the pieces in which TCP hands the stream over.                     *)
(*                                                                         *)
(* What is written is split into pieces at the places that the handlers    *)
(* tell apart, and a read takes any number of pieces.  "torn" records that *)
(* a read has stopped inside a prefix or inside the answer, which the      *)
(* handlers do not wait out.  The server never writes frames: a reply      *)
(* travels on a connection of its own, in the other direction.             *)
(***************************************************************************)
EXTENDS RatchetSession, SequencesExt

CONSTANTS Messages,     \* plaintexts
          Builds,       \* versions: [current, min], as 10 * major + minor
          RotateEvery,  \* messages between rotations: 100 in the program
          MaxSends      \* bound on the messages sent

ASSUME BuildsAssumption      == Builds \subseteq [current : Nat, min : Nat]
ASSUME RotateEveryAssumption == RotateEvery \in Nat \ {0}
ASSUME MaxSendsAssumption    == MaxSends \in Nat

VARIABLES client,  \* the client's state for its socket
          server,  \* the server's state for its socket
          c2s,     \* pieces written by the client and not yet read
          s2c,     \* pieces written by the server and not yet read
          sent,    \* messages the client has encrypted and written
          failed,  \* the network has broken the connection
          torn,    \* a read has stopped where the code does not expect it
          clientFirst  \* the hash of the client's key is the smaller one

vars == <<client, server, c2s, s2c, sent, failed, torn, clientFirst>>

-----------------------------------------------------------------------------
(***************************************************************************)
(* The wire.                                                               *)
(***************************************************************************)

\* hello: inside "HANDSHAKE ", inside the line, the newline; pubkey alike.
\* ack: inside "HANDSHAKE_ACK ", inside the key, up to the time stamp, the
\* two version fields and the newline.  frame: its head, the rest.
Pieces == [hello |-> 3, pubkey |-> 3, ack |-> 4, nack |-> 1, frame |-> 2]

Split(item) == [i \in 1 .. Pieces[item.kind] |-> [item |-> item, piece |-> i]]

Completes(piece) == piece.piece = Pieces[piece.item.kind]

\* The numbers of pieces that one read may take from a stream, and those
\* that stop inside the answer or the prefix of a line.
Reads(stream) == 1 .. Len(stream)
Tears(stream, n) ==
  \/ stream[n].item.kind = "ack" /\ ~Completes(stream[n])
  \/ stream[n].item.kind \in {"hello", "pubkey"} /\ stream[n].piece = 1

Take(stream, n) == SubSeq(stream, 1, n)
Drop(stream, n) == SubSeq(stream, n + 1, Len(stream))

\* A buffer starts with the prefix of a line, with a whole item.
StartsWith(buf, kind) == Len(buf) >= 2 /\ buf[1].item.kind = kind
StartsWhole(buf, kind) ==
  Len(buf) >= Pieces[kind] /\ buf[1].item.kind = kind

-----------------------------------------------------------------------------
(***************************************************************************)
(* ProtocolVersion.h.                                                      *)
(***************************************************************************)
Major(v) == v \div 10
RatchetFeatureVersion == 12

\* Mutant: the remote end's own minimum is not looked at.
IsCompatibleOneSided(mine, remote) ==
  /\ Major(mine.current) = Major(remote.current)
  /\ mine.min <= remote.current

IsCompatibleWith(mine, remote) ==
  /\ Major(mine.current) = Major(remote.current)
  /\ mine.min <= remote.current
  /\ remote.min <= mine.current

\* Mutant: only the remote end's version counts.
SupportsRatchetRemote(mine, remote) == remote.current >= RatchetFeatureVersion

SupportsRatchet(mine, remote) ==
  /\ mine.current >= RatchetFeatureVersion
  /\ remote.current >= RatchetFeatureVersion

ThisBuild == [current |-> 12, min |-> 10]

-----------------------------------------------------------------------------
(***************************************************************************)
(* Sessions.  A plain SodiumSession is named by the pair of keys it was    *)
(* derived from; it has no state.  A key read only in part is no one's.    *)
(***************************************************************************)
ClientKey(n) == <<"client", n>>
ServerKey    == <<"server", 0>>
BrokenKey    == <<"broken", 0>>

NoSession == "none"
PlainSession(k, l) == {k, l}
PlainCipher(s, m)  == [key |-> s, plain |-> m]

-----------------------------------------------------------------------------
Init ==
  /\ \E mine, theirs \in Builds :
       /\ ThisBuild \in {mine, theirs}
       /\ client = [state |-> "connecting", build |-> mine, mode |-> "none",
                    session |-> NoSession, key |-> 0, since |-> 0]
       /\ server = [state |-> "open", build |-> theirs, mode |-> "none",
                    session |-> NoSession, ready |-> FALSE, buf |-> <<>>,
                    got |-> <<>>, errors |-> 0]
  /\ c2s = <<>> /\ s2c = <<>> /\ sent = <<>>
  /\ failed = FALSE /\ torn = FALSE
  /\ clientFirst \in BOOLEAN

-----------------------------------------------------------------------------
(***************************************************************************)
(* The client.                                                             *)
(***************************************************************************)

\* onConnected.
ClientConnected ==
  /\ client.state = "connecting"
  /\ client' = [client EXCEPT !.state = "awaiting"]
  /\ c2s' = c2s \o Split([kind |-> "hello", key |-> ClientKey(0),
                          build |-> client.build])
  /\ UNCHANGED <<server, s2c, sent, failed, torn, clientFirst>>

\* onDisconnected: all that was kept for the socket goes.
ClientForgets(c) == [c EXCEPT !.state = "closed", !.mode = "none",
                              !.session = NoSession, !.since = 0]

\* A first rotation is made, and announced, as soon as the session exists.
StartRatchet(peerKey) ==
  /\ client' = [client EXCEPT
                  !.state = "ready", !.mode = "ratchet", !.key = 1,
                  !.session = PrepareRatchetStep(
                     NewSession(ClientKey(0), peerKey, clientFirst), ClientKey(1))]
  /\ c2s' = c2s \o Split([kind |-> "pubkey", pub |-> ClientKey(1)])

StartPlain(peerKey) ==
  /\ client' = [client EXCEPT !.state = "ready", !.mode = "plain",
                              !.session = PlainSession(ClientKey(0), peerKey)]
  /\ UNCHANGED c2s

\* onReadyRead takes what there is for the whole answer, and is unhooked.
\* An answer that stops before the version fields passes for a legacy one,
\* one that stops inside the key has another key.
ClientReadyRead ==
  /\ client.state = "awaiting" /\ ~failed
  /\ \E n \in Reads(s2c) :
       LET item == s2c[1].item
           full == n = 4 /\ IsCompatibleWith(client.build, item.build)
       IN  /\ s2c' = Drop(s2c, n)
           /\ torn' = (torn \/ Tears(s2c, n))
           /\ CASE item.kind = "nack" \/ n = 1 ->
                     /\ client' = ClientForgets(client)
                     /\ UNCHANGED c2s
                [] item.kind = "ack" /\ n = 2 -> StartPlain(BrokenKey)
                [] item.kind = "ack" /\ n = 3 -> StartPlain(item.key)
                [] full /\ SupportsRatchet(client.build, item.build) ->
                     StartRatchet(item.key)
                [] full /\ ~SupportsRatchet(client.build, item.build) ->
                     StartPlain(item.key)
                [] n = 4 /\ ~full ->
                     /\ client' = ClientForgets(client)
                     /\ UNCHANGED c2s
  /\ UNCHANGED <<server, sent, failed, clientFirst>>

\* Mutant: the threshold is passed before the key is rotated.
RotationDueLate(c) == c.mode = "ratchet" /\ c.since > RotateEvery

\* sendTypedFrame counts the messages since the last rotation ...
RotationDue(c) == c.mode = "ratchet" /\ c.since >= RotateEvery

\* Mutant: the rotation does not restart the count.
RotatedNoReset(c) ==
  IF RotationDue(c)
  THEN [c EXCEPT !.session = PrepareRatchetStep(@, ClientKey(c.key + 1)),
                 !.key = @ + 1]
  ELSE c

\* ... and rotates before the message that follows the last one allowed ...
Rotated(c) ==
  IF RotationDue(c)
  THEN [c EXCEPT !.session = PrepareRatchetStep(@, ClientKey(c.key + 1)),
                 !.key = @ + 1, !.since = 0]
  ELSE c

\* Mutant: the new key is not announced.
AnnouncementMissing(c) == <<>>

\* ... announcing the new key ahead of that message.
Announcement(c) ==
  IF RotationDue(c)
  THEN Split([kind |-> "pubkey", pub |-> ClientKey(c.key + 1)])
  ELSE <<>>

Sealed(c, m) == IF c.mode = "ratchet" THEN Encrypt(c.session, m)
                                      ELSE PlainCipher(c.session, m)

AfterSealing(c) == IF c.mode = "ratchet"
                   THEN [c EXCEPT !.session = AfterEncrypt(@), !.since = @ + 1]
                   ELSE c

\* sendTypedFrame, past its guards.
ClientSend(m) ==
  /\ client.state = "ready"
  /\ Len(sent) < MaxSends
  /\ client' = AfterSealing(Rotated(client))
  /\ c2s'  = c2s \o Announcement(client)
                 \o Split([kind |-> "frame", cipher |-> Sealed(Rotated(client), m)])
  /\ sent' = Append(sent, m)
  /\ UNCHANGED <<server, s2c, failed, torn, clientFirst>>

\* onDisconnected, once the answer, if it is still awaited, has been read.
ClientSeesClose ==
  /\ client.state # "closed"
  /\ \/ failed
     \/ server.state = "closed" /\ (client.state = "awaiting" => s2c = <<>>)
  /\ client' = ClientForgets(client)
  /\ UNCHANGED <<server, c2s, s2c, sent, failed, torn, clientFirst>>

-----------------------------------------------------------------------------
(***************************************************************************)
(* The server.                                                             *)
(***************************************************************************)
Handshaked(s) == s.mode # "none"

\* Mutant: the socket is not closed.
ServerForgetsOpen(s) == [s EXCEPT !.mode = "none", !.buf = <<>>,
                                  !.session = NoSession, !.ready = FALSE]

\* onClientDisconnected: all that was kept for the socket goes.
ServerForgets(s) == [s EXCEPT !.state = "closed", !.mode = "none", !.buf = <<>>,
                              !.session = NoSession, !.ready = FALSE]

\* Mutant: an incomplete item is not kept for the next read.
BufferedAfresh(n) == Take(c2s, n)

\* onReadyRead begins by moving what has come to the buffer.
Buffered(n) == server.buf \o Take(c2s, n)
ServerReads(n) ==
  /\ server.state = "open" /\ ~failed
  /\ n \in Reads(c2s)
  /\ c2s' = Drop(c2s, n)
  /\ torn' = (torn \/ Tears(c2s, n))
  /\ UNCHANGED <<client, sent, failed, clientFirst>>

ServerWaits(n) ==
  /\ server' = [server EXCEPT !.buf = Buffered(n)]
  /\ UNCHANGED s2c

\* The buffer does not start with "HANDSHAKE ": disconnect.
ServerRefusesEarlyData ==
  \E n \in Reads(c2s) :
    /\ ServerReads(n)
    /\ ~Handshaked(server)
    /\ ~StartsWith(Buffered(n), "hello")
    /\ server' = ServerForgets(server)
    /\ UNCHANGED s2c

\* The handshake line has no newline yet.
ServerAwaitsHello ==
  \E n \in Reads(c2s) :
    /\ ServerReads(n)
    /\ ~Handshaked(server)
    /\ StartsWith(Buffered(n), "hello") /\ ~StartsWhole(Buffered(n), "hello")
    /\ ServerWaits(n)

\* The versions do not fit: HANDSHAKE_NACK, disconnect.
ServerRejects ==
  \E n \in Reads(c2s) :
    /\ ServerReads(n)
    /\ ~Handshaked(server)
    /\ StartsWhole(Buffered(n), "hello")
    /\ ~IsCompatibleWith(server.build, Buffered(n)[1].item.build)
    /\ s2c' = s2c \o Split([kind |-> "nack"])
    /\ server' = ServerForgets(server)

NewServerSession(mode, peerKey) ==
  IF mode = "ratchet" THEN NewSession(ServerKey, peerKey, ~clientFirst)
                      ELSE PlainSession(ServerKey, peerKey)

\* Session and HANDSHAKE_ACK; what follows the line waits for the next read.
ServerAccepts ==
  \E n \in Reads(c2s) :
    LET hello == Buffered(n)[1].item
        mode  == IF SupportsRatchet(server.build, hello.build) THEN "ratchet"
                                                               ELSE "plain"
    IN  /\ ServerReads(n)
        /\ ~Handshaked(server)
        /\ StartsWhole(Buffered(n), "hello")
        /\ IsCompatibleWith(server.build, hello.build)
        /\ server' = [server EXCEPT
                        !.mode = mode, !.session = NewServerSession(mode, hello.key),
                        !.buf = Drop(Buffered(n), Pieces["hello"])]
        /\ s2c' = s2c \o Split([kind |-> "ack", key |-> ServerKey,
                                build |-> server.build])

\* Mutant: one item is taken in each read.
LeadingOne(buf, kind) ==
  IF Len(buf) >= Pieces[kind] /\ buf[1].item.kind = kind THEN 1 ELSE 0

\* How many whole items of a kind stand at the head of a buffer.
Leading(buf, kind) ==
  LET width == Pieces[kind]
  IN  Max({n \in 0 .. Len(buf) \div width :
             \A i \in 1 .. n * width : buf[i].item.kind = kind})

\* Those items, and the buffer without them.
LeadingItems(buf, kind) ==
  [i \in 1 .. Leading(buf, kind) |-> buf[i * Pieces[kind]].item]
Beyond(buf, kind) == Drop(buf, Leading(buf, kind) * Pieces[kind])

ApplyLine(s, line) ==
  [s EXCEPT !.session = ApplyPeerRatchetKey(@, line.pub), !.ready = TRUE]

\* Every rotation line at the head of the buffer, of a ratchet session only.
ConsumeRatchetLines(s) ==
  IF s.mode # "ratchet" THEN s
  ELSE [FoldLeft(ApplyLine, s, LeadingItems(s.buf, "pubkey"))
          EXCEPT !.buf = Beyond(s.buf, "pubkey")]

Opens(s, c) == IF s.mode = "ratchet" THEN Decrypts(s.session, c)
                                     ELSE s.session = c.key

DecryptFrame(s, frame) ==
  [s EXCEPT !.session = IF s.mode = "ratchet" THEN AfterDecrypt(@, frame.cipher)
                                              ELSE @,
            !.got = IF Opens(s, frame.cipher) THEN Append(@, frame.cipher.plain)
                                              ELSE @,
            !.errors = IF Opens(s, frame.cipher) THEN @ ELSE @ + 1]

\* processMessage: every whole frame at the head of the buffer.  A rotation
\* line behind a frame reads as a frame whose length never comes.
ProcessMessage(s) ==
  [FoldLeft(DecryptFrame, s, LeadingItems(s.buf, "frame"))
     EXCEPT !.buf = Beyond(s.buf, "frame")]

\* A rotation line has no newline yet.
ServerAwaitsPubkey ==
  \E n \in Reads(c2s) :
    LET s == ConsumeRatchetLines([server EXCEPT !.buf = Buffered(n)])
    IN  /\ ServerReads(n)
        /\ Handshaked(server)
        /\ s.mode = "ratchet" /\ StartsWith(s.buf, "pubkey")
        /\ server' = s
        /\ UNCHANGED s2c

\* No rotation line at the head, and none has been read before.
ServerRefusesUnready ==
  \E n \in Reads(c2s) :
    LET s == ConsumeRatchetLines([server EXCEPT !.buf = Buffered(n)])
    IN  /\ ServerReads(n)
        /\ Handshaked(server)
        /\ s.mode = "ratchet" /\ ~StartsWith(s.buf, "pubkey") /\ ~s.ready
        /\ server' = ServerForgets(s)
        /\ UNCHANGED s2c

ServerProcesses ==
  \E n \in Reads(c2s) :
    LET s == ConsumeRatchetLines([server EXCEPT !.buf = Buffered(n)])
    IN  /\ ServerReads(n)
        /\ Handshaked(server)
        /\ s.mode = "ratchet" => s.ready /\ ~StartsWith(s.buf, "pubkey")
        /\ server' = ProcessMessage(s)
        /\ UNCHANGED s2c

\* onClientDisconnected, once what the client wrote has been read.
ServerSeesClose ==
  /\ server.state = "open"
  /\ failed \/ (client.state = "closed" /\ c2s = <<>>)
  /\ server' = ServerForgets(server)
  /\ UNCHANGED <<client, c2s, s2c, sent, failed, torn, clientFirst>>

-----------------------------------------------------------------------------
\* The network breaks the connection: what is in flight is lost.
NetworkFails ==
  /\ client.state # "connecting" /\ ~failed
  /\ failed' = TRUE
  /\ c2s' = <<>> /\ s2c' = <<>>
  /\ UNCHANGED <<client, server, sent, torn, clientFirst>>

ServerStep == \/ ServerRefusesEarlyData \/ ServerAwaitsHello \/ ServerRejects
              \/ ServerAccepts \/ ServerAwaitsPubkey \/ ServerRefusesUnready
              \/ ServerProcesses

Next == \/ ClientConnected
        \/ ClientReadyRead
        \/ \E m \in Messages : ClientSend(m)
        \/ ClientSeesClose
        \/ ServerStep
        \/ ServerSeesClose
        \/ NetworkFails

\* The event loops run and TCP delivers; nobody is obliged to send, and the
\* network need not fail.
Fairness == /\ WF_vars(ClientConnected)
            /\ WF_vars(ClientReadyRead)
            /\ WF_vars(ClientSeesClose)
            /\ WF_vars(ServerStep)
            /\ WF_vars(ServerSeesClose)

Spec == Init /\ [][Next]_vars /\ Fairness
-----------------------------------------------------------------------------
(***************************************************************************)
(* Properties.                                                             *)
(***************************************************************************)
States == {"connecting", "awaiting", "ready", "open", "closed"}
Modes  == {"none", "plain", "ratchet"}

\* The shape of the state; only a ratchet session is ever ready for frames.
TypeOK ==
  /\ client.state \in States /\ server.state \in States
  /\ client.mode \in Modes /\ server.mode \in Modes
  /\ client.build \in Builds /\ server.build \in Builds
  /\ client.since \in 0 .. RotateEvery
  /\ sent \in Seq(Messages) /\ server.got \in Seq(Messages)
  /\ server.ready => server.mode = "ratchet" /\ Epoch(server.session) >= 2

\* What the server hands to the window is what the client sent, in order,
\* with nothing missing in between, however the stream was cut.
DeliveredInOrder == IsPrefix(server.got, sent)

\* The server never meets a frame that it cannot decrypt, across handshake,
\* first rotation and periodic rotations, unless a read was torn.
NothingGarbled == ~torn => server.errors = 0

Compatible == IsCompatibleWith(server.build, client.build)

\* Neither end gives up a connection to a compatible peer that the network
\* has not broken, unless a read was torn.
StaysOpen == server.state = "open" /\ client.state # "closed"
HealthyStaysOpen == (Compatible /\ ~failed /\ ~torn) => StaysOpen

\* When both ends have a session it is of the same kind, unless a read was
\* torn.
ModesAgree ==
  (client.mode # "none" /\ server.mode # "none" /\ ~torn)
    => client.mode = server.mode

\* A ratchet frame is sealed after a rotation, at most RotateEvery of them
\* after the same one (the threshold test of sendTypedFrame).
RatchetFrame(piece) ==
  piece.item.kind = "frame" /\ "ctr" \in DOMAIN piece.item.cipher
FreshEnoughKeys ==
  \A i \in 1 .. Len(c2s) : RatchetFrame(c2s[i]) =>
    /\ Len(c2s[i].item.cipher.key.root) >= 2
    /\ c2s[i].item.cipher.key.step < RotateEvery

\* A whole frame stays in the server's buffer only behind a rotation line.
StuckOnlyBehindRotation ==
  (\E i \in 1 .. Len(server.buf) :
     server.buf[i].item.kind = "frame" /\ Completes(server.buf[i]))
  => server.buf[1].item.kind = "pubkey"

\* The handshake comes to an end at the client, whatever it is.
HandshakeEnds == <>(client.state \in {"ready", "closed"})

\* A frame waits behind a frame and a rotation line that came in one read.
Stalled == Len(server.buf) > 0 /\ server.buf[1].item.kind = "pubkey"

\* Every message written arrives, unless the network breaks the connection
\* or a read was torn, or waits behind a rotation line.
ArriveUnlessStalled ==
  \A n \in 1 .. MaxSends :
    (Len(sent) = n) ~> (Len(server.got) >= n \/ failed \/ torn \/ Stalled)

\* The comment of sendTypedFrame on rotations: the peer reads the new key,
\* applies it, and then decrypts the message.  Every message arrives.
AllArrive ==
  \A n \in 1 .. MaxSends :
    (Len(sent) = n) ~> (Len(server.got) >= n \/ failed \/ torn)
=============================================================================
