-------------------------- MODULE ChatLink_proofs ---------------------------
(***************************************************************************)
(* What is proved of ChatLink: every invariant of its run, for every set   *)
(* of messages and of builds, every threshold of rotation and every width  *)
(* of the counters.                                                        *)
(***************************************************************************)
EXTENDS ChatLink, SequenceTheorems, TLAPS

-----------------------------------------------------------------------------
(***************************************************************************)
(* Types.                                                                  *)
(***************************************************************************)
Keys     == {"client", "server", "broken"} \X Nat
Roots    == Seq(SUBSET Keys)
Chains   == [root : Roots, label : Labels, step : Nat]
Counters == 0 .. CounterMod - 1
Sessions == [root : Roots, send : Chains, recv : Chains, sendCtr : Counters,
             recvCtr : Counters, self : Keys, peer : Keys]
AnySession == {NoSession} \cup (SUBSET Keys) \cup Sessions

RatchetCiphers == [ctr : Counters, key : Chains, plain : Messages]
PlainCiphers   == [key : SUBSET Keys, plain : Messages]
Hellos  == [kind : {"hello"}, key : Keys, build : Builds]
Pubkeys == [kind : {"pubkey"}, pub : Keys]
Frames  == [kind : {"frame"}, cipher : RatchetCiphers \cup PlainCiphers]
Answers == [kind : {"ack"}, key : Keys, build : Builds] \cup [kind : {"nack"}]

ClientItems  == Hellos \cup Pubkeys \cup Frames
ClientPieces == [item : ClientItems, piece : Nat]
ServerPieces == [item : Answers, piece : Nat]

Clients == [state : {"connecting", "awaiting", "ready", "closed"},
            build : Builds, mode : Modes, session : AnySession,
            key : Nat, since : 0 .. RotateEvery]
Servers == [state : {"open", "closed"}, build : Builds, mode : Modes,
            session : AnySession, ready : BOOLEAN, buf : Seq(ClientPieces),
            got : Seq(Messages), errors : Nat]

LinkTypes ==
  /\ client \in Clients /\ server \in Servers
  /\ c2s \in Seq(ClientPieces) /\ s2c \in Seq(ServerPieces)
  /\ sent \in Seq(Messages)
  /\ failed \in BOOLEAN /\ torn \in BOOLEAN /\ clientFirst \in BOOLEAN

-----------------------------------------------------------------------------
(***************************************************************************)
(* The inductive invariant.                                                *)
(***************************************************************************)

\* A session is of the kind that the mode says.
Fits(mode, s) ==
  /\ mode = "none"    => s = NoSession
  /\ mode = "plain"   => s \in SUBSET Keys
  /\ mode = "ratchet" => s \in Sessions /\ Len(s.root) >= 1

\* What the ends keep for the connection agrees with itself.
Talks(c) == /\ Fits(c.mode, c.session)
            /\ c.state = "ready" <=> c.mode # "none"
            /\ c.mode = "ratchet" => /\ Len(c.session.root) >= 2
                                     /\ c.session.send.root = c.session.root
                                     /\ c.session.send.step = c.since
Able(s) == /\ Fits(s.mode, s.session)
           /\ s.ready => s.mode = "ratchet" /\ Len(s.session.root) >= 2

ClientShape ==
  /\ Talks(client)
  /\ client.state \in {"connecting", "awaiting"} => sent = <<>> /\ client.since = 0

ServerShape ==
  /\ Able(server)
  /\ server.state = "closed" => server.mode = "none" /\ server.buf = <<>>
  /\ server.state = "open" /\ server.mode = "none" =>
       server.got = <<>> /\ server.errors = 0

\* All that the client has written and the server has not yet worked off.
Rest == server.buf \o c2s

\* A stream of whole items: each begins after the last piece of the one before.
Whole(r) ==
  /\ \A j \in 1 .. Len(r) : r[j].piece \in 1 .. Pieces[r[j].item.kind]
  /\ Len(r) > 0 => r[1].piece = 1 /\ Completes(r[Len(r)])
  /\ \A j \in 1 .. Len(r) - 1 :
       IF Completes(r[j]) THEN r[j + 1].piece = 1
       ELSE r[j + 1] = [item |-> r[j].item, piece |-> r[j].piece + 1]

Live == server.state = "open" /\ ~failed

\* The handshake: what each end has done, the other has not yet seen.
Hello == [kind |-> "hello", key |-> ClientKey(0), build |-> client.build]
Ack   == [kind |-> "ack", key |-> ServerKey, build |-> server.build]
Nack  == [kind |-> "nack"]

AgreedMode == IF SupportsRatchet(server.build, client.build) THEN "ratchet"
                                                             ELSE "plain"

Handshake ==
  /\ client.state = "connecting" =>
       server.state = "open" /\ server.mode = "none" /\ s2c = <<>> /\ ~failed
  /\ client.state = "awaiting" /\ ~failed =>
       \/ server.mode = "none" /\ s2c = <<>>
       \/ server.state = "closed" /\ s2c = Split(Nack) /\ ~Compatible
       \/ server.mode # "none" /\ s2c = Split(Ack)
  /\ Live /\ server.mode = "none" =>
       /\ client.state \in {"connecting", "awaiting"}
       /\ Rest = IF client.state = "connecting" THEN <<>> ELSE Split(Hello)
  /\ Live /\ server.mode # "none" /\ client.state = "awaiting" =>
       /\ Rest = <<>> /\ server.got = <<>> /\ server.errors = 0 /\ ~server.ready
       /\ server.mode = AgreedMode /\ Compatible
       /\ server.session = NewServerSession(server.mode, ClientKey(0))

\* What reading a piece makes of a session and of the number of messages got,
\* when log is what the client has sent.
Readers == [session : AnySession, count : Nat]
Passes(log, mode, a, p, b) ==
  IF ~Completes(p) THEN b = a
  ELSE \/ /\ p.item.kind = "pubkey" /\ mode = "ratchet"
          /\ b.session = ApplyPeerRatchetKey(a.session, p.item.pub)
          /\ b.count = a.count
       \/ /\ p.item.kind = "frame" /\ b.count = a.count + 1
          /\ a.count < Len(log) /\ p.item.cipher.plain = log[a.count + 1]
          /\ \/ /\ mode = "ratchet" /\ Decrypts(a.session, p.item.cipher)
                /\ b.session = AfterDecrypt(a.session, p.item.cipher)
             \/ /\ mode = "plain" /\ p.item.cipher.key = a.session
                /\ b.session = a.session

\* after is what reading r piece by piece makes of a session.
Replays(log, mode, after, r) ==
  /\ \A j \in 0 .. Len(r) : after[j] \in Readers /\ Fits(mode, after[j].session)
  /\ \A j \in 1 .. Len(r) : /\ r[j].item.kind \in {"pubkey", "frame"}
                            /\ Passes(log, mode, after[j - 1], r[j], after[j])

\* The receiving half of s is the mirror image of the sending half of c.
Mirrors(c, s) ==
  /\ c.root = s.root /\ c.send = s.recv /\ c.sendCtr = s.recvCtr
  /\ c.self = s.peer /\ c.peer = s.self
Match(mode, c, s) == /\ mode = "ratchet" => Mirrors(c, s)
                     /\ mode = "plain" => c = s

\* A server s that reads all of r opens every frame and gets every message of
\* the log, and its session is then the counterpart of the client c's.
Keeps(c, log, after, s, r) ==
  /\ Replays(log, s.mode, after, r)
  /\ after[0] = [session |-> s.session, count |-> Len(s.got)]
  /\ after[Len(r)].count = Len(log)
  /\ c.state = "ready" =>
       /\ c.mode = s.mode
       /\ Match(s.mode, c.session, after[Len(r)].session)

\* Before any frame comes the line of the first rotation.
RotatesFirst(c, s, r) ==
  s.mode = "ratchet" /\ ~s.ready =>
    IF r = <<>> THEN c.state = "closed" ELSE r[1].item.kind = "pubkey"

Honest(c, log, s, r) ==
  (\E after : Keeps(c, log, after, s, r)) /\ RotatesFirst(c, s, r)

\* After a torn answer the client seals with a key that the server has not.
Foreign(c, s, r) ==
  /\ s.got = <<>> /\ ~s.ready /\ c.mode # "ratchet"
  /\ \E k \in SUBSET Keys :
       /\ \A j \in 1 .. Len(r) : /\ r[j].item.kind = "frame"
                                 /\ r[j].item.cipher.key = k
       /\ c.mode = "plain" => c.session = k
       /\ s.mode = "plain" => s.session # k

Flow ==
  Live /\ server.mode # "none" /\ client.state \in {"ready", "closed"} =>
    /\ Whole(Rest)
    /\ \/ Honest(client, sent, server, Rest)
       \/ torn /\ Foreign(client, server, Rest)

\* What has been got is the beginning of what has been sent.
Copies(got, log) == Len(got) <= Len(log) /\ got = Take(log, Len(got))

LinkInv ==
  /\ LinkTypes /\ ClientShape /\ ServerShape /\ Handshake /\ Flow
  /\ Copies(server.got, sent) /\ NothingGarbled /\ HealthyStaysOpen /\ ModesAgree
  /\ FreshEnoughKeys /\ StuckOnlyBehindRotation

-----------------------------------------------------------------------------
(***************************************************************************)
(* Pieces, items and streams.                                              *)
(***************************************************************************)
LineLoop  == INSTANCE Loops WITH Op <- ApplyLine
FrameLoop == INSTANCE Loops WITH Op <- DecryptFrame

LEMMA Induction ==
  ASSUME NEW S, 0 \in S, \A n \in Nat : n \in S => n + 1 \in S
  PROVE  Nat \subseteq S
BY LineLoop!InductionOverNat

LEMMA PieceCounts ==
  /\ Pieces["hello"] = 3 /\ Pieces["pubkey"] = 3 /\ Pieces["frame"] = 2
  /\ Pieces["ack"] = 4 /\ Pieces["nack"] = 1
BY DEF Pieces

LEMMA ItemKinds ==
  /\ \A item \in ClientItems :
       /\ item.kind \in {"hello", "pubkey", "frame"}
       /\ Pieces[item.kind] \in 2 .. 3
  /\ \A item \in Answers :
       /\ item.kind \in {"ack", "nack"}
       /\ Pieces[item.kind] \in 1 .. 4
BY PieceCounts DEF ClientItems, Hellos, Pubkeys, Frames, Answers

LEMMA SplitFacts ==
  ASSUME NEW item \in ClientItems
  PROVE  /\ Split(item) \in Seq(ClientPieces)
         /\ Len(Split(item)) = Pieces[item.kind]
         /\ \A i \in 1 .. Pieces[item.kind] :
              Split(item)[i] = [item |-> item, piece |-> i]
<1> DEFINE w == Pieces[item.kind]
<1>1. w \in Nat
  BY ItemKinds
<1> HIDE DEF w
<1>2. \A i \in 1 .. w : [item |-> item, piece |-> i] \in ClientPieces
  BY <1>1 DEF ClientPieces
<1>3. Split(item) = [i \in 1 .. w |-> [item |-> item, piece |-> i]]
  BY DEF Split, w
<1> QED BY <1>1, <1>2, <1>3 DEF w

LEMMA SplitAnswer ==
  ASSUME NEW item \in Answers
  PROVE  /\ Split(item) \in Seq(ServerPieces)
         /\ Len(Split(item)) = Pieces[item.kind]
         /\ \A i \in 1 .. Pieces[item.kind] :
              Split(item)[i] = [item |-> item, piece |-> i]
<1> DEFINE w == Pieces[item.kind]
<1>1. w \in Nat
  BY ItemKinds
<1> HIDE DEF w
<1>2. \A i \in 1 .. w : [item |-> item, piece |-> i] \in ServerPieces
  BY <1>1 DEF ServerPieces
<1>3. Split(item) = [i \in 1 .. w |-> [item |-> item, piece |-> i]]
  BY DEF Split, w
<1> QED BY <1>1, <1>2, <1>3 DEF w

\* A read moves what it takes to the end of the buffer.
LEMMA DropFacts ==
  ASSUME NEW S, NEW r \in Seq(S), NEW k \in 0 .. Len(r)
  PROVE  /\ Drop(r, k) \in Seq(S) /\ Len(Drop(r, k)) = Len(r) - k
         /\ \A j \in 1 .. Len(r) - k : Drop(r, k)[j] = r[j + k]
         /\ Take(r, k) \in Seq(S) /\ Len(Take(r, k)) = k
         /\ \A j \in 1 .. k : Take(r, k)[j] = r[j]
<1>1. Len(r) \in Nat /\ \A j \in 1 .. Len(r) : r[j] \in S
  OBVIOUS
<1>2. Drop(r, k) \in Seq(S) /\ Len(Drop(r, k)) = Len(r) - k
  BY DEF Drop
<1>3. \A j \in 1 .. Len(r) - k : Drop(r, k)[j] = r[j + k]
  BY <1>1 DEF Drop
<1>4. Take(r, k) \in Seq(S) /\ Len(Take(r, k)) = k
  BY DEF Take
<1>5. \A j \in 1 .. k : Take(r, k)[j] = r[j]
  BY <1>1 DEF Take
<1> QED BY <1>2, <1>3, <1>4, <1>5

LEMMA ConcatFacts ==
  ASSUME NEW S, NEW b \in Seq(S), NEW c \in Seq(S)
  PROVE  /\ b \o c \in Seq(S) /\ Len(b \o c) = Len(b) + Len(c)
         /\ Len(b) \in Nat /\ Len(c) \in Nat
         /\ \A j \in 1 .. Len(b) : (b \o c)[j] = b[j]
         /\ \A j \in Len(b) + 1 .. Len(b) + Len(c) : (b \o c)[j] = c[j - Len(b)]
<1>1. /\ b \o c \in Seq(S) /\ Len(b \o c) = Len(b) + Len(c)
      /\ \A j \in 1 .. Len(b) + Len(c) :
           (b \o c)[j] = IF j <= Len(b) THEN b[j] ELSE c[j - Len(b)]
  BY ConcatProperties
<1>2. Len(b) \in Nat /\ Len(c) \in Nat
  OBVIOUS
<1>3. ASSUME NEW j \in 1 .. Len(b) PROVE (b \o c)[j] = b[j]
  <2>1. j \in 1 .. Len(b) + Len(c) /\ j <= Len(b) BY <1>2
  <2> QED BY <1>1, <2>1
<1>4. ASSUME NEW j \in Len(b) + 1 .. Len(b) + Len(c)
      PROVE  (b \o c)[j] = c[j - Len(b)]
  <2>1. j \in 1 .. Len(b) + Len(c) /\ ~(j <= Len(b)) BY <1>2
  <2> QED BY <1>1, <2>1
<1> QED BY <1>1, <1>2, <1>3, <1>4

LEMMA TakeDrop ==
  ASSUME NEW S, NEW b \in Seq(S), NEW c \in Seq(S), NEW n \in 0 .. Len(c)
  PROVE  (b \o Take(c, n)) \o Drop(c, n) = b \o c
<1>1. Take(c, n) \o Drop(c, n) = c
  <2>1. SubSeq(c, 1, n) \o SubSeq(c, n + 1, Len(c)) = SubSeq(c, 1, Len(c))
    <3>1. 1 \in 1 .. Len(c) + 1 /\ n \in 1 - 1 .. Len(c) /\ Len(c) \in n .. Len(c)
      OBVIOUS
    <3> QED BY <3>1, ConcatAdjacentSubSeq
  <2>2. SubSeq(c, 1, Len(c)) = c
    OBVIOUS
  <2> QED BY <2>1, <2>2, Zenon DEF Take, Drop
<1>2. Take(c, n) \in Seq(S) /\ Drop(c, n) \in Seq(S)
  BY DropFacts
<1> DEFINE t == Take(c, n)
           d == Drop(c, n)
<1> HIDE DEF t, d
<1>3. t \in Seq(S) /\ d \in Seq(S)
  BY <1>2 DEF t, d
<1>4. (b \o t) \o d = b \o (t \o d)
  BY <1>3, ConcatAssociative
<1>5. t \o d = c
  BY <1>1 DEF t, d
<1>6. (b \o t) \o d = b \o c
  BY <1>4, <1>5, Zenon
<1> QED BY <1>6, Zenon DEF t, d

LEMMA DropConcat ==
  ASSUME NEW S, NEW b \in Seq(S), NEW c \in Seq(S), NEW k \in 0 .. Len(b)
  PROVE  Drop(b, k) \o c = Drop(b \o c, k)
<1> DEFINE d == Drop(b, k)
           bc == b \o c
           y == Drop(bc, k)
           n == Len(b)
           m == Len(c)
<1>1. /\ n \in Nat /\ m \in Nat /\ k \in 0 .. n
      /\ bc \in Seq(S) /\ Len(bc) = n + m
      /\ \A j \in 1 .. n : bc[j] = b[j]
      /\ \A j \in n + 1 .. n + m : bc[j] = c[j - n]
  BY ConcatFacts
<1>2. d \in Seq(S) /\ Len(d) = n - k /\ \A j \in 1 .. n - k : d[j] = b[j + k]
  BY DropFacts
<1> HIDE DEF d, bc
<1>3. y \in Seq(S) /\ Len(y) = n + m - k /\ \A j \in 1 .. n + m - k : y[j] = bc[j + k]
  <2>1. k \in 0 .. Len(bc) /\ bc \in Seq(S) BY <1>1
  <2>2. /\ Drop(bc, k) \in Seq(S) /\ Len(Drop(bc, k)) = Len(bc) - k
        /\ \A j \in 1 .. Len(bc) - k : Drop(bc, k)[j] = bc[j + k]
    BY <2>1, DropFacts
  <2> QED BY <1>1, <2>2
<1>4. /\ d \o c \in Seq(S) /\ Len(d \o c) = (n - k) + m
      /\ \A j \in 1 .. n - k : (d \o c)[j] = d[j]
      /\ \A j \in (n - k) + 1 .. (n - k) + m : (d \o c)[j] = c[j - (n - k)]
  <2>1. /\ d \o c \in Seq(S) /\ Len(d \o c) = Len(d) + m
        /\ \A j \in 1 .. Len(d) : (d \o c)[j] = d[j]
        /\ \A j \in Len(d) + 1 .. Len(d) + m : (d \o c)[j] = c[j - Len(d)]
    BY <1>2, ConcatFacts
  <2> QED BY <1>2, <2>1
<1> HIDE DEF y, n, m
<1>5. ASSUME NEW j \in 1 .. n + m - k PROVE (d \o c)[j] = y[j]
  <2>1. CASE j <= n - k
    <3>1. j \in 1 .. n - k /\ j + k \in 1 .. n BY <1>1, <2>1
    <3>2. (d \o c)[j] = b[j + k] BY <1>2, <1>4, <3>1
    <3>3. bc[j + k] = b[j + k] BY <1>1, <3>1
    <3> QED BY <1>3, <3>2, <3>3
  <2>2. CASE j > n - k
    <3>1. j \in (n - k) + 1 .. (n - k) + m /\ j + k \in n + 1 .. n + m
          /\ j - (n - k) = (j + k) - n
      BY <1>1, <2>2
    <3>2. (d \o c)[j] = c[(j + k) - n] BY <1>4, <3>1
    <3>3. bc[j + k] = c[(j + k) - n] BY <1>1, <3>1
    <3> QED BY <1>3, <3>2, <3>3
  <2>3. n \in Nat /\ m \in Nat /\ k \in 0 .. n BY <1>1
  <2>4. j <= n - k \/ j > n - k BY <2>3
  <2> QED BY <2>1, <2>2, <2>4
<1>6. Len(d \o c) = Len(y) /\ Len(y) = n + m - k
  BY <1>1, <1>3, <1>4
<1> DEFINE x == d \o c
<1> HIDE DEF x
<1>7. x = y
  <2>1. x \in Seq(S) /\ y \in Seq(S) /\ Len(x) = Len(y)
        /\ \A i \in 1 .. Len(x) : x[i] = y[i]
    BY <1>3, <1>4, <1>5, <1>6 DEF x
  <2> QED BY <2>1, SeqEqual
<1> QED BY <1>7 DEF x, d, y, bc

LEMMA WholeAppend ==
  ASSUME NEW r \in Seq(ClientPieces), Whole(r), NEW item \in ClientItems
  PROVE  Whole(r \o Split(item))
<1> DEFINE q == Split(item)
           w == Pieces[item.kind]
           n == Len(r)
           t == r \o q
<1>1. /\ q \in Seq(ClientPieces) /\ Len(q) = w /\ w \in 2 .. 3 /\ n \in Nat
      /\ \A i \in 1 .. w : q[i] = [item |-> item, piece |-> i]
  BY SplitFacts, ItemKinds
<1> HIDE DEF q, w, n
<1>2. /\ t \in Seq(ClientPieces) /\ Len(t) = n + w
      /\ \A j \in 1 .. n : t[j] = r[j]
      /\ \A j \in n + 1 .. n + w : t[j] = [item |-> item, piece |-> j - n]
  <2>1. /\ t \in Seq(ClientPieces) /\ Len(t) = n + w
        /\ \A j \in 1 .. n : t[j] = r[j]
        /\ \A j \in n + 1 .. n + w : t[j] = q[j - n]
    <3>1. /\ r \o q \in Seq(ClientPieces) /\ Len(r \o q) = Len(r) + Len(q)
          /\ \A j \in 1 .. Len(r) : (r \o q)[j] = r[j]
          /\ \A j \in Len(r) + 1 .. Len(r) + Len(q) : (r \o q)[j] = q[j - Len(r)]
      BY <1>1, ConcatFacts
    <3> QED BY <1>1, <3>1 DEF n
  <2>2. ASSUME NEW j \in n + 1 .. n + w
        PROVE  t[j] = [item |-> item, piece |-> j - n]
    <3>1. j - n \in 1 .. w BY <1>1
    <3> HIDE DEF t
    <3> QED BY <1>1, <2>1, <3>1
  <2> QED BY <2>1, <2>2
<1> HIDE DEF t
<1>3. ASSUME NEW j \in n + 1 .. n + w PROVE Completes(t[j]) <=> j = n + w
  <2>1. t[j].item = item /\ t[j].piece = j - n
    <3>1. t[j] = [item |-> item, piece |-> j - n] BY <1>2
    <3> QED BY <3>1
  <2>2. Completes(t[j]) <=> j - n = w
    BY <2>1 DEF Completes, w
  <2> QED BY <1>1, <2>2
<1>4. \A j \in 1 .. Len(t) : t[j].piece \in 1 .. Pieces[t[j].item.kind]
  <2> SUFFICES ASSUME NEW j \in 1 .. Len(t)
               PROVE  t[j].piece \in 1 .. Pieces[t[j].item.kind]
    OBVIOUS
  <2>1. CASE j \in 1 .. n
    <3>1. t[j] = r[j] BY <1>2, <2>1
    <3>2. r[j].piece \in 1 .. Pieces[r[j].item.kind] BY <2>1 DEF Whole, n
    <3> QED BY <3>1, <3>2
  <2>2. CASE j \in n + 1 .. n + w
    <3>1. t[j].item = item /\ t[j].piece = j - n
      <4>1. t[j] = [item |-> item, piece |-> j - n] BY <1>2, <2>2
      <4> QED BY <4>1
    <3>2. j - n \in 1 .. w BY <1>1, <2>2
    <3> QED BY <3>1, <3>2 DEF w
  <2> QED BY <1>1, <1>2, <2>1, <2>2
<1>5. t[1].piece = 1 /\ Completes(t[Len(t)])
  <2>1. Completes(t[Len(t)]) BY <1>1, <1>2, <1>3
  <2>2. CASE n = 0 BY <1>1, <1>2, <2>1, <2>2
  <2>3. CASE n > 0 BY <1>1, <1>2, <2>1, <2>3 DEF Whole, n
  <2> QED BY <1>1, <2>2, <2>3
<1>6. ASSUME NEW j \in 1 .. Len(t) - 1
      PROVE  IF Completes(t[j]) THEN t[j + 1].piece = 1
             ELSE t[j + 1] = [item |-> t[j].item, piece |-> t[j].piece + 1]
  <2>1. CASE j \in 1 .. n - 1
    <3>1. IF Completes(r[j]) THEN r[j + 1].piece = 1
          ELSE r[j + 1] = [item |-> r[j].item, piece |-> r[j].piece + 1]
      BY <2>1 DEF Whole, n
    <3>2. t[j] = r[j] /\ t[j + 1] = r[j + 1] BY <1>1, <1>2, <2>1
    <3> QED BY <3>1, <3>2
  <2>2. CASE j = n
    <3>1. Completes(t[j]) BY <1>1, <1>2, <2>2 DEF Whole, n
    <3>2. t[j + 1].piece = 1 BY <1>1, <1>2, <2>2
    <3> QED BY <3>1, <3>2
  <2>3. CASE j \in n + 1 .. n + w - 1
    <3>1. ~Completes(t[j]) BY <1>1, <1>3, <2>3
    <3>2. t[j] = [item |-> item, piece |-> j - n]
          /\ t[j + 1] = [item |-> item, piece |-> (j + 1) - n]
      BY <1>1, <1>2, <2>3
    <3>3. (j + 1) - n = (j - n) + 1 BY <1>1
    <3> QED BY <3>1, <3>2, <3>3
  <2> QED BY <1>1, <1>2, <2>1, <2>2, <2>3
<1> QED BY <1>4, <1>5, <1>6 DEF Whole, t, q

LEMMA WholeDrop ==
  ASSUME NEW r \in Seq(ClientPieces), Whole(r), NEW k \in 0 .. Len(r),
         k = 0 \/ Completes(r[k])
  PROVE  Whole(Drop(r, k))
<1> DEFINE d == Drop(r, k)
<1>1. /\ Len(d) = Len(r) - k /\ Len(r) \in Nat
      /\ \A j \in 1 .. Len(r) - k : d[j] = r[j + k]
  BY DropFacts
<1> HIDE DEF d
<1>2. \A j \in 1 .. Len(d) : d[j].piece \in 1 .. Pieces[d[j].item.kind]
  BY <1>1 DEF Whole
<1>3. ASSUME Len(d) > 0 PROVE d[1].piece = 1 /\ Completes(d[Len(d)])
  <2>1. Completes(d[Len(d)]) BY <1>1, <1>3 DEF Whole
  <2>2. d[1].piece = 1
    <3>1. d[1] = r[k + 1] BY <1>1, <1>3
    <3>2. CASE k = 0 BY <3>1, <3>2, <1>1, <1>3 DEF Whole
    <3>3. CASE k # 0
      <4>1. k \in 1 .. Len(r) - 1 /\ Completes(r[k]) BY <1>1, <1>3, <3>3
      <4> QED BY <3>1, <4>1 DEF Whole
    <3> QED BY <3>2, <3>3
  <2> QED BY <2>1, <2>2
<1>4. ASSUME NEW j \in 1 .. Len(d) - 1
      PROVE  IF Completes(d[j]) THEN d[j + 1].piece = 1
             ELSE d[j + 1] = [item |-> d[j].item, piece |-> d[j].piece + 1]
  <2>1. j + k \in 1 .. Len(r) - 1 /\ d[j] = r[j + k] /\ d[j + 1] = r[(j + k) + 1]
    BY <1>1
  <2> QED BY <2>1 DEF Whole
<1> QED BY <1>2, <1>3, <1>4 DEF Whole, d

-----------------------------------------------------------------------------
(***************************************************************************)
(* What stands at the head of a buffer.                                    *)
(***************************************************************************)
LEMMA LeadingFacts ==
  ASSUME NEW buf \in Seq(ClientPieces), NEW kind \in {"pubkey", "frame"},
         NEW w \in {2, 3}, w = Pieces[kind]
  PROVE  /\ Leading(buf, kind) \in Nat /\ Leading(buf, kind) * w <= Len(buf)
         /\ \A i \in 1 .. Leading(buf, kind) * w : buf[i].item.kind = kind
         /\ (Leading(buf, kind) + 1) * w <= Len(buf) =>
              \E i \in 1 .. (Leading(buf, kind) + 1) * w : buf[i].item.kind # kind
<1> DEFINE N == Len(buf) \div w
           T == {n \in 0 .. N : \A i \in 1 .. n * w : buf[i].item.kind = kind}
           L == Max(T)
<1>1. Len(buf) \in Nat /\ N \in Nat /\ N * w <= Len(buf) /\ Len(buf) < (N + 1) * w
  OBVIOUS
<1>2. 0 \in T /\ T \in SUBSET (0 .. N)
  BY <1>1
<1>3. L \in T /\ \A n \in T : n <= L
  <2> HIDE DEF T, N
  <2>1. T \in SUBSET (0 .. N) /\ T # {} /\ N \in Nat
    BY <1>1, <1>2
  <2>2. LineLoop!Max(T) \in T /\ \A n \in T : n <= LineLoop!Max(T)
    BY <2>1, LineLoop!GreatestNatural
  <2> QED BY <2>2 DEF Max, LineLoop!Max
<1>4. Leading(buf, kind) = L
  BY DEF Leading
<1> HIDE DEF N, L
<1>5. L \in 0 .. N /\ \A i \in 1 .. L * w : buf[i].item.kind = kind
  BY <1>3
<1>6. L \in Nat /\ L <= N
  BY <1>1, <1>5
<1>7. L * w <= Len(buf)
  <2>1. CASE w = 2 BY <1>1, <1>6, <2>1
  <2>2. CASE w = 3 BY <1>1, <1>6, <2>2
  <2> QED BY <2>1, <2>2
<1>8. ASSUME (L + 1) * w <= Len(buf),
             \A i \in 1 .. (L + 1) * w : buf[i].item.kind = kind
      PROVE  FALSE
  <2>1. L + 1 <= N
    <3>1. CASE w = 2 BY <1>1, <1>6, <1>8, <3>1
    <3>2. CASE w = 3 BY <1>1, <1>6, <1>8, <3>2
    <3> QED BY <3>1, <3>2
  <2>2. L + 1 \in 0 .. N
    BY <1>1, <1>6, <2>1
  <2>3. L + 1 \in T
    BY <1>8, <2>2
  <2>4. L + 1 <= L
    BY <1>3, <2>3
  <2> QED BY <1>6, <2>4
<1> QED BY <1>4, <1>5, <1>6, <1>7, <1>8

\* In a stream of whole items the leading pieces of a kind make whole items.
LEMMA LeadingLines ==
  ASSUME NEW buf \in Seq(ClientPieces)
  PROVE  LET L == Leading(buf, "pubkey")
         IN  /\ L \in Nat /\ L * 3 <= Len(buf) /\ Len(buf) \in Nat
             /\ \A i \in 1 .. L * 3 : buf[i].item.kind = "pubkey"
<1>1. 3 \in {2, 3} /\ 3 = Pieces["pubkey"] /\ "pubkey" \in {"pubkey", "frame"}
  BY PieceCounts
<1> QED BY <1>1, LeadingFacts

LEMMA LeadingFrames ==
  ASSUME NEW buf \in Seq(ClientPieces)
  PROVE  LET M == Leading(buf, "frame")
         IN  /\ M \in Nat /\ M * 2 <= Len(buf) /\ Len(buf) \in Nat
             /\ \A i \in 1 .. M * 2 : buf[i].item.kind = "frame"
             /\ (M + 1) * 2 <= Len(buf) =>
                  \E i \in 1 .. (M + 1) * 2 : buf[i].item.kind # "frame"
<1>1. 2 \in {2, 3} /\ 2 = Pieces["frame"] /\ "frame" \in {"pubkey", "frame"}
  BY PieceCounts
<1> QED BY <1>1, LeadingFacts

LEMMA PairPlaces ==
  ASSUME NEW m \in Nat
  PROVE  2 * (m + 1) - 1 = 2 * m + 1 /\ 2 * (m + 1) = (2 * m + 1) + 1
OBVIOUS

LEMMA WholeFrames ==
  ASSUME NEW r \in Seq(ClientPieces), Whole(r), NEW L \in Nat, L * 2 <= Len(r),
         \A i \in 1 .. L * 2 : r[i].item.kind = "frame"
  PROVE  \A m \in 1 .. L : ~Completes(r[2 * m - 1]) /\ Completes(r[2 * m])
<1> DEFINE S == {m \in Nat : m \in 1 .. L =>
                               r[2 * m - 1].piece = 1 /\ r[2 * m].piece = 2}
<1>0. Len(r) \in Nat
  OBVIOUS
<1>1. 0 \in S
  OBVIOUS
<1>2. ASSUME NEW m \in Nat, m \in S PROVE m + 1 \in S
  <2> SUFFICES ASSUME m + 1 \in 1 .. L
               PROVE  r[2 * (m + 1) - 1].piece = 1 /\ r[2 * (m + 1)].piece = 2
    OBVIOUS
  <2>1. 2 * (m + 1) - 1 = 2 * m + 1 /\ 2 * (m + 1) = (2 * m + 1) + 1
    BY PairPlaces
  <2>2. 2 * m + 1 \in 1 .. L * 2 /\ 2 * m + 1 \in 1 .. Len(r) - 1
    BY <1>0
  <2>3. r[2 * m + 1].piece = 1
    <3>1. CASE m = 0
      <4>1. Len(r) > 0 BY <1>0, <2>2
      <4>2. r[1].piece = 1 BY <4>1 DEF Whole
      <4> QED BY <3>1, <4>2
    <3>2. CASE m # 0
      <4>1. m \in 1 .. L /\ 2 * m \in 1 .. L * 2 /\ 2 * m \in 1 .. Len(r) - 1
        BY <1>0, <3>2
      <4>2. r[2 * m].piece = 2 /\ r[2 * m].item.kind = "frame"
        BY <1>2, <4>1
      <4>3. Completes(r[2 * m]) BY <4>2, PieceCounts DEF Completes
      <4> QED BY <4>1, <4>3 DEF Whole
    <3> QED BY <3>1, <3>2
  <2>4. ~Completes(r[2 * m + 1])
    <3>1. r[2 * m + 1].item.kind = "frame" BY <2>2
    <3> QED BY <2>3, <3>1, PieceCounts DEF Completes
  <2>5. r[(2 * m + 1) + 1]
         = [item |-> r[2 * m + 1].item, piece |-> r[2 * m + 1].piece + 1]
    BY <2>2, <2>4 DEF Whole
  <2>6. r[(2 * m + 1) + 1].piece = 2
    BY <2>3, <2>5
  <2> QED BY <2>1, <2>3, <2>6
<1>3. Nat \subseteq S
  <2> HIDE DEF S
  <2> QED BY <1>1, <1>2, Induction
<1>4. ASSUME NEW m \in 1 .. L
      PROVE  ~Completes(r[2 * m - 1]) /\ Completes(r[2 * m])
  <2>1. r[2 * m - 1].piece = 1 /\ r[2 * m].piece = 2
    BY <1>3
  <2>2. r[2 * m - 1].item.kind = "frame" /\ r[2 * m].item.kind = "frame"
    OBVIOUS
  <2> QED BY <2>1, <2>2, PieceCounts DEF Completes
<1> QED BY <1>4

LEMMA WholeLines ==
  ASSUME NEW r \in Seq(ClientPieces), Whole(r), NEW L \in Nat, L * 3 <= Len(r),
         \A i \in 1 .. L * 3 : r[i].item.kind = "pubkey"
  PROVE  \A m \in 1 .. L : /\ ~Completes(r[3 * m - 2]) /\ ~Completes(r[3 * m - 1])
                           /\ Completes(r[3 * m])
<1> DEFINE S == {m \in Nat : m \in 1 .. L =>
                   /\ r[3 * m - 2].piece = 1 /\ r[3 * m - 1].piece = 2
                   /\ r[3 * m].piece = 3}
<1>0. Len(r) \in Nat
  OBVIOUS
<1>1. 0 \in S
  OBVIOUS
<1>2. ASSUME NEW m \in Nat, m \in S PROVE m + 1 \in S
  <2> SUFFICES ASSUME m + 1 \in 1 .. L
               PROVE  /\ r[3 * (m + 1) - 2].piece = 1
                      /\ r[3 * (m + 1) - 1].piece = 2
                      /\ r[3 * (m + 1)].piece = 3
    OBVIOUS
  <2>1. /\ 3 * (m + 1) - 2 = 3 * m + 1 /\ 3 * (m + 1) - 1 = 3 * m + 2
        /\ 3 * (m + 1) = 3 * m + 3
        /\ (3 * m + 1) + 1 = 3 * m + 2 /\ (3 * m + 2) + 1 = 3 * m + 3
    OBVIOUS
  <2>2. /\ 3 * m + 1 \in 1 .. L * 3 /\ 3 * m + 1 \in 1 .. Len(r) - 1
        /\ 3 * m + 2 \in 1 .. L * 3 /\ 3 * m + 2 \in 1 .. Len(r) - 1
    BY <1>0
  <2>3. r[3 * m + 1].piece = 1
    <3>1. CASE m = 0
      <4>1. Len(r) > 0 BY <1>0, <2>2
      <4>2. r[1].piece = 1 BY <4>1 DEF Whole
      <4> QED BY <3>1, <4>2
    <3>2. CASE m # 0
      <4>1. m \in 1 .. L /\ 3 * m \in 1 .. L * 3 /\ 3 * m \in 1 .. Len(r) - 1
        BY <1>0, <3>2
      <4>2. r[3 * m].piece = 3 /\ r[3 * m].item.kind = "pubkey"
        BY <1>2, <4>1
      <4>3. Completes(r[3 * m]) BY <4>2, PieceCounts DEF Completes
      <4> QED BY <4>1, <4>3 DEF Whole
    <3> QED BY <3>1, <3>2
  <2>4. ~Completes(r[3 * m + 1])
    <3>1. r[3 * m + 1].item.kind = "pubkey" BY <2>2
    <3> QED BY <2>3, <3>1, PieceCounts DEF Completes
  <2>5. r[3 * m + 2].piece = 2
    <3>1. r[(3 * m + 1) + 1]
           = [item |-> r[3 * m + 1].item, piece |-> r[3 * m + 1].piece + 1]
      BY <2>2, <2>4 DEF Whole
    <3>2. r[(3 * m + 1) + 1].piece = 2 BY <2>3, <3>1
    <3> QED BY <2>1, <3>2
  <2>6. ~Completes(r[3 * m + 2])
    <3>1. r[3 * m + 2].item.kind = "pubkey" BY <2>2
    <3> QED BY <2>5, <3>1, PieceCounts DEF Completes
  <2>7. r[3 * m + 3].piece = 3
    <3>1. r[(3 * m + 2) + 1]
           = [item |-> r[3 * m + 2].item, piece |-> r[3 * m + 2].piece + 1]
      BY <2>2, <2>6 DEF Whole
    <3>2. r[(3 * m + 2) + 1].piece = 3 BY <2>5, <3>1
    <3> QED BY <2>1, <3>2
  <2> QED BY <2>1, <2>3, <2>5, <2>7
<1>3. Nat \subseteq S
  <2> HIDE DEF S
  <2> QED BY <1>1, <1>2, Induction
<1>4. ASSUME NEW m \in 1 .. L
      PROVE  /\ ~Completes(r[3 * m - 2]) /\ ~Completes(r[3 * m - 1])
             /\ Completes(r[3 * m])
  <2>1. r[3 * m - 2].piece = 1 /\ r[3 * m - 1].piece = 2 /\ r[3 * m].piece = 3
    BY <1>3
  <2>2. /\ r[3 * m - 2].item.kind = "pubkey" /\ r[3 * m - 1].item.kind = "pubkey"
        /\ r[3 * m].item.kind = "pubkey"
    <3>1. 3 * m - 2 \in 1 .. L * 3 /\ 3 * m - 1 \in 1 .. L * 3 /\ 3 * m \in 1 .. L * 3
      OBVIOUS
    <3> QED BY <3>1
  <2> QED BY <2>1, <2>2, PieceCounts DEF Completes
<1> QED BY <1>4

-----------------------------------------------------------------------------
(***************************************************************************)
(* What reading a stream makes of a session: a part of it, more of it.     *)
(***************************************************************************)
LEMMA ReplaysDrop ==
  ASSUME NEW log, NEW mode, NEW after, NEW r \in Seq(ClientPieces),
         NEW K \in 0 .. Len(r), Replays(log, mode, after, r)
  PROVE  Replays(log, mode, [j \in 0 .. Len(r) - K |-> after[j + K]], Drop(r, K))
<1> DEFINE n == Len(r) - K
           later == [j \in 0 .. n |-> after[j + K]]
           d == Drop(r, K)
<1>1. Len(d) = n /\ Len(r) \in Nat /\ n \in Nat /\ \A j \in 1 .. n : d[j] = r[j + K]
  BY DropFacts
<1>2. \A j \in 0 .. n : later[j] = after[j + K]
  OBVIOUS
<1> HIDE DEF later, d
<1>3. ASSUME NEW j \in 0 .. n
      PROVE  later[j] \in Readers /\ Fits(mode, later[j].session)
  <2>1. j + K \in 0 .. Len(r) BY <1>1
  <2> QED BY <1>2, <2>1 DEF Replays
<1>4. ASSUME NEW j \in 1 .. n
      PROVE  /\ d[j].item.kind \in {"pubkey", "frame"}
             /\ Passes(log, mode, later[j - 1], d[j], later[j])
  <2>1. j + K \in 1 .. Len(r) /\ j - 1 \in 0 .. n /\ j \in 0 .. n
        /\ (j - 1) + K = (j + K) - 1
    BY <1>1
  <2>2. later[j - 1] = after[(j + K) - 1] /\ later[j] = after[j + K] /\ d[j] = r[j + K]
    BY <1>1, <1>2, <2>1
  <2> QED BY <2>1, <2>2 DEF Replays
<1> QED BY <1>1, <1>3, <1>4 DEF Replays, later, d

LEMMA KeepsDrop ==
  ASSUME NEW c, NEW log, NEW after, NEW s, NEW t, NEW r \in Seq(ClientPieces),
         NEW K \in 0 .. Len(r), Keeps(c, log, after, s, r), t.mode = s.mode,
         t.session = after[K].session, Len(t.got) = after[K].count
  PROVE  \E later : Keeps(c, log, later, t, Drop(r, K))
<1> DEFINE n == Len(r) - K
           later == [j \in 0 .. n |-> after[j + K]]
           d == Drop(r, K)
<1>1. Len(d) = n /\ Len(r) \in Nat /\ n \in Nat
  BY DropFacts
<1>2. Replays(log, t.mode, later, d)
  BY ReplaysDrop DEF Keeps
<1>3. later[0] = after[K] /\ later[n] = after[Len(r)]
  BY <1>1
<1> HIDE DEF later, d
<1>4. after[K] = [session |-> t.session, count |-> Len(t.got)]
  BY DEF Keeps, Replays, Readers
<1>5. Keeps(c, log, later, t, d)
  BY <1>1, <1>2, <1>3, <1>4 DEF Keeps
<1> QED BY <1>5 DEF d

\* What reads r as after does can go on to read longer, ending with b.
Continues(log, mode, after, longer, b) ==
  \E more : /\ Replays(log, mode, more, longer)
            /\ more[0] = after[0] /\ more[Len(longer)] = b

LEMMA ReplaysAppend ==
  ASSUME NEW log, NEW mode, NEW after, NEW r \in Seq(ClientPieces),
         NEW item \in Pubkeys \cup Frames, NEW b \in Readers,
         Replays(log, mode, after, r), Fits(mode, b.session),
         Passes(log, mode, after[Len(r)],
                [item |-> item, piece |-> Pieces[item.kind]], b)
  PROVE  Continues(log, mode, after, r \o Split(item), b)
<1> DEFINE q == Split(item)
           w == Pieces[item.kind]
           n == Len(r)
           longer == r \o q
           more == [j \in 0 .. n + w |-> IF j <= n THEN after[j]
                                         ELSE IF j < n + w THEN after[n] ELSE b]
<1>1. /\ q \in Seq(ClientPieces) /\ Len(q) = w /\ w \in 2 .. 3 /\ n \in Nat
      /\ \A i \in 1 .. w : q[i] = [item |-> item, piece |-> i]
      /\ item \in ClientItems /\ item.kind \in {"pubkey", "frame"}
  BY SplitFacts, ItemKinds DEF ClientItems, Pubkeys, Frames
<1>2. /\ longer \in Seq(ClientPieces) /\ Len(longer) = n + w
      /\ \A j \in 1 .. n : longer[j] = r[j]
      /\ \A j \in n + 1 .. n + w : longer[j] = q[j - n]
  <2> HIDE DEF q
  <2> QED BY <1>1, ConcatFacts
<1>3. /\ \A j \in 0 .. n : more[j] = after[j]
      /\ \A j \in n .. n + w - 1 : more[j] = after[n]
      /\ more[n + w] = b
  BY <1>1
<1> HIDE DEF more, longer, q, n
<1>4. ASSUME NEW j \in 0 .. n + w
      PROVE  more[j] \in Readers /\ Fits(mode, more[j].session)
  <2>1. CASE j \in 0 .. n BY <1>3, <2>1 DEF Replays, n
  <2>2. CASE j \in n .. n + w - 1
    <3>1. after[n] \in Readers /\ Fits(mode, after[n].session)
      BY <1>1 DEF Replays, n
    <3> QED BY <1>3, <2>2, <3>1
  <2>3. CASE j = n + w BY <1>3, <2>3
  <2> QED BY <1>1, <2>1, <2>2, <2>3
<1>5. ASSUME NEW j \in 1 .. n + w
      PROVE  /\ longer[j].item.kind \in {"pubkey", "frame"}
             /\ Passes(log, mode, more[j - 1], longer[j], more[j])
  <2>1. CASE j \in 1 .. n
    <3>1. more[j - 1] = after[j - 1] /\ more[j] = after[j] /\ longer[j] = r[j]
      BY <1>1, <1>2, <1>3, <2>1
    <3> QED BY <2>1, <3>1 DEF Replays, n
  <2>2. CASE j \in n + 1 .. n + w
    <3>1. longer[j] = [item |-> item, piece |-> j - n]
      <4>1. j - n \in 1 .. w BY <1>1, <2>2
      <4> QED BY <1>1, <1>2, <2>2, <4>1
    <3>2. more[j - 1] = after[n]
      <4>1. j - 1 \in n .. n + w - 1 BY <1>1, <2>2
      <4> QED BY <1>3, <4>1
    <3>3. longer[j].item = item /\ longer[j].piece = j - n
      BY <3>1
    <3>4. CASE j = n + w
      <4>1. j - n = w BY <1>1, <3>4
      <4> QED BY <1>1, <1>3, <3>1, <3>2, <3>3, <3>4, <4>1 DEF n, w
    <3>5. CASE j # n + w
      <4>1. j \in n .. n + w - 1 BY <1>1, <2>2, <3>5
      <4>2. more[j] = after[n] BY <1>3, <4>1
      <4>3. j - n # w BY <1>1, <2>2, <3>5
      <4>4. ~Completes(longer[j]) BY <3>3, <4>3 DEF Completes, w
      <4> QED BY <1>1, <3>2, <3>3, <4>2, <4>4 DEF Passes
    <3> QED BY <3>4, <3>5
  <2> QED BY <1>1, <2>1, <2>2
<1>6. Replays(log, mode, more, longer)
  BY <1>2, <1>4, <1>5 DEF Replays
<1>7. more[0] = after[0] /\ more[Len(longer)] = b
  BY <1>1, <1>2, <1>3
<1> QED BY <1>6, <1>7 DEF Continues, longer, q

LEMMA ReplaysLonger ==
  ASSUME NEW log \in Seq(Messages), NEW m \in Messages, NEW mode, NEW after,
         NEW r \in Seq(ClientPieces), Replays(log, mode, after, r)
  PROVE  Replays(Append(log, m), mode, after, r)
<1> DEFINE more == Append(log, m)
<1>1. /\ Len(log) \in Nat /\ Len(more) = Len(log) + 1
      /\ \A i \in 1 .. Len(log) : more[i] = log[i]
  OBVIOUS
<1> HIDE DEF more
<1>2. ASSUME NEW j \in 1 .. Len(r)
      PROVE  Passes(more, mode, after[j - 1], r[j], after[j])
  <2>1. Passes(log, mode, after[j - 1], r[j], after[j])
    BY DEF Replays
  <2>2. after[j - 1].count \in Nat
    <3>1. j - 1 \in 0 .. Len(r) OBVIOUS
    <3> QED BY <3>1 DEF Replays, Readers
  <2>3. ASSUME after[j - 1].count < Len(log)
        PROVE  /\ after[j - 1].count < Len(more)
               /\ more[after[j - 1].count + 1] = log[after[j - 1].count + 1]
    <3> DEFINE x == after[j - 1].count
    <3>1. x \in Nat /\ x < Len(log) BY <2>2, <2>3
    <3> HIDE DEF x
    <3>2. x + 1 \in 1 .. Len(log) BY <1>1, <3>1
    <3>3. x < Len(more) /\ more[x + 1] = log[x + 1] BY <1>1, <3>1, <3>2
    <3> QED BY <3>3 DEF x
  <2> QED BY <2>1, <2>3 DEF Passes
<1>3. Replays(more, mode, after, r)
  BY <1>2 DEF Replays
<1> QED BY <1>3 DEF more

-----------------------------------------------------------------------------
(***************************************************************************)
(* The two loops of the server.                                            *)
(***************************************************************************)
LEMMA SessionKinds ==
  /\ NoSession \in AnySession
  /\ \A k \in SUBSET Keys : k \in AnySession
  /\ \A s \in Sessions : s \in AnySession
<1>1. NoSession \in {NoSession} \cup (SUBSET Keys) \cup Sessions
  OBVIOUS
<1>2. \A k \in SUBSET Keys : k \in {NoSession} \cup (SUBSET Keys) \cup Sessions
  OBVIOUS
<1>3. \A s \in Sessions : s \in {NoSession} \cup (SUBSET Keys) \cup Sessions
  OBVIOUS
<1> QED BY <1>1, <1>2, <1>3 DEF AnySession
LEMMA RatchetKeyType ==
  ASSUME NEW s \in Sessions, NEW pub \in Keys
  PROVE  /\ ApplyPeerRatchetKey(s, pub) \in Sessions
         /\ Len(ApplyPeerRatchetKey(s, pub).root) = Len(s.root) + 1
<1> DEFINE root == Append(s.root, {s.self, pub})
<1>1. root \in Roots /\ Len(root) = Len(s.root) + 1
  BY DEF Sessions, Roots
<1> HIDE DEF root
<1>2. Chain(root, "send-v2") \in Chains /\ Chain(root, "recv-v2") \in Chains
  BY <1>1 DEF Chain, Chains, Labels
<1>3. ApplyPeerRatchetKey(s, pub)
        = [s EXCEPT !.root = root, !.self = s.self, !.peer = pub,
                    !.send = Chain(root, "recv-v2"), !.recv = Chain(root, "send-v2")]
  BY DEF ApplyPeerRatchetKey, DoRatchet, root
<1> QED BY <1>1, <1>2, <1>3 DEF Sessions

\* The two loops, as operators of their session and what they go through.
AllLines(s, lines)   == FoldLeft(ApplyLine, s, lines)
AllFrames(s, frames) == FoldLeft(DecryptFrame, s, frames)

LEMMA LineSteps ==
  ASSUME NEW s, NEW items \in Seq(ClientItems)
  PROVE  \E at : /\ at[0] = s
                 /\ \A i \in 1 .. Len(items) : at[i] = ApplyLine(at[i - 1], items[i])
                 /\ AllLines(s, items) = at[Len(items)]
<1>1. \E at : /\ at[0] = s
              /\ \A i \in 1 .. Len(items) : at[i] = ApplyLine(at[i - 1], items[i])
              /\ LineLoop!Fold(s, items) = at[Len(items)]
  BY LineLoop!FoldSteps
<1>2. LineLoop!Fold(s, items) = AllLines(s, items)
  BY DEF AllLines, LineLoop!Fold, LineLoop!FoldLeft, FoldLeft,
         LineLoop!MapThenFoldSet, MapThenFoldSet, LineLoop!Max, Max
<1> QED BY <1>1, <1>2

LEMMA FrameSteps ==
  ASSUME NEW s, NEW items \in Seq(ClientItems)
  PROVE  \E at : /\ at[0] = s
                 /\ \A i \in 1 .. Len(items) :
                      at[i] = DecryptFrame(at[i - 1], items[i])
                 /\ AllFrames(s, items) = at[Len(items)]
<1>1. \E at : /\ at[0] = s
              /\ \A i \in 1 .. Len(items) : at[i] = DecryptFrame(at[i - 1], items[i])
              /\ FrameLoop!Fold(s, items) = at[Len(items)]
  BY FrameLoop!FoldSteps
<1>2. FrameLoop!Fold(s, items) = AllFrames(s, items)
  BY DEF AllFrames, FrameLoop!Fold, FrameLoop!FoldLeft, FoldLeft,
         FrameLoop!MapThenFoldSet, MapThenFoldSet, FrameLoop!Max, Max
<1> QED BY <1>1, <1>2

\* The places of the pieces of the line, or the frame, that follows the first i.
LEMMA LinePlaces ==
  ASSUME NEW i \in Nat, NEW L \in Nat, NEW n \in Nat, i + 1 \in 0 .. L, L * 3 <= n
  PROVE  /\ i + 1 \in 1 .. L /\ 3 * (i + 1) - 2 = i * 3 + 1
         /\ 3 * (i + 1) - 1 = i * 3 + 2
         /\ 3 * (i + 1) = i * 3 + 3 /\ (i + 1) * 3 = i * 3 + 3
         /\ i * 3 + 1 \in 1 .. n /\ i * 3 + 2 \in 1 .. n
         /\ i * 3 + 3 \in 1 .. n /\ i * 3 \in 0 .. n
         /\ (i * 3 + 1) - 1 = i * 3 /\ (i * 3 + 2) - 1 = i * 3 + 1
         /\ (i * 3 + 3) - 1 = i * 3 + 2 /\ i * 3 + 3 \in 1 .. L * 3
OBVIOUS

LEMMA FramePlaces ==
  ASSUME NEW i \in Nat, NEW M \in Nat, NEW n \in Nat, i + 1 \in 0 .. M, M * 2 <= n
  PROVE  /\ i + 1 \in 1 .. M /\ 2 * (i + 1) - 1 = i * 2 + 1
         /\ 2 * (i + 1) = i * 2 + 2 /\ (i + 1) * 2 = i * 2 + 2
         /\ i * 2 + 1 \in 1 .. n /\ i * 2 + 2 \in 1 .. n
         /\ (i * 2 + 1) - 1 = i * 2 /\ (i * 2 + 2) - 1 = i * 2 + 1
         /\ i * 2 + 2 \in 1 .. M * 2
OBVIOUS

LEMMA LinesFold ==
  ASSUME NEW s \in Servers, s.mode = "ratchet",
         NEW rest \in Seq(ClientPieces), Whole(s.buf \o rest),
         NEW log, NEW after, Replays(log, s.mode, after, s.buf \o rest),
         after[0].session = s.session
  PROVE  LET t == AllLines(s, LeadingItems(s.buf, "pubkey"))
             L == Leading(s.buf, "pubkey")
         IN  /\ t = [s EXCEPT !.session = after[L * 3].session,
                              !.ready = L > 0 \/ s.ready]
             /\ after[L * 3].count = after[0].count
             /\ L > 0 => Len(after[L * 3].session.root) >= 2
<1> DEFINE b == s.buf
           r == b \o rest
           L == Leading(b, "pubkey")
           items == LeadingItems(b, "pubkey")
<1>1. /\ b \in Seq(ClientPieces) /\ Len(b) \in Nat
      /\ L \in Nat /\ L * 3 <= Len(b)
      /\ \A i \in 1 .. L * 3 : b[i].item.kind = "pubkey"
  <2>1. b \in Seq(ClientPieces) BY DEF Servers
  <2> QED BY <2>1, LeadingLines
<1> HIDE DEF L
<1>2. /\ r \in Seq(ClientPieces) /\ Len(r) = Len(b) + Len(rest) /\ Len(rest) \in Nat
      /\ \A i \in 1 .. Len(b) : r[i] = b[i]
  <2> HIDE DEF b
  <2> QED BY <1>1, ConcatFacts
<1> HIDE DEF b, r
<1>3. L * 3 <= Len(r) /\ \A i \in 1 .. L * 3 : r[i].item.kind = "pubkey" /\ r[i] = b[i]
  BY <1>1, <1>2
<1>4. Whole(r) /\ Replays(log, "ratchet", after, r)
  BY DEF r, b
<1>5. \A m \in 1 .. L : /\ ~Completes(r[3 * m - 2]) /\ ~Completes(r[3 * m - 1])
                        /\ Completes(r[3 * m])
  BY <1>1, <1>2, <1>3, <1>4, WholeLines
<1>6. /\ items \in Seq(ClientItems) /\ Len(items) = L
      /\ \A i \in 1 .. L : items[i] = r[3 * i].item /\ items[i].pub \in Keys
                           /\ items[i].kind = "pubkey"
  <2>1. items = [i \in 1 .. L |-> b[i * 3].item]
    BY PieceCounts DEF LeadingItems, L
  <2>2. ASSUME NEW i \in 1 .. L
        PROVE  /\ b[i * 3].item = r[3 * i].item /\ b[i * 3].item \in ClientItems
               /\ r[3 * i].item.pub \in Keys /\ r[3 * i].item.kind = "pubkey"
    <3>1. i * 3 = 3 * i /\ 3 * i \in 1 .. L * 3 /\ 3 * i \in 1 .. Len(b)
      BY <1>1
    <3>2. b[3 * i] \in ClientPieces BY <1>1, <3>1
    <3>3. b[3 * i].item \in ClientItems BY <3>2 DEF ClientPieces
    <3>4. b[3 * i].item.kind = "pubkey" /\ b[3 * i] = r[3 * i] BY <1>3, <3>1
    <3> QED BY <3>1, <3>3, <3>4 DEF ClientItems, Hellos, Pubkeys, Frames
  <2>3. L \in Nat BY <1>1
  <2>4. items \in Seq(ClientItems) /\ Len(items) = L
    <3> HIDE DEF L
    <3> QED BY <2>1, <2>2, <2>3
  <2>5. ASSUME NEW i \in 1 .. L PROVE items[i] = b[i * 3].item
    BY <2>1
  <2>6. ASSUME NEW i \in 1 .. L
        PROVE  /\ items[i] = r[3 * i].item /\ items[i].pub \in Keys
               /\ items[i].kind = "pubkey"
    <3>1. items[i] = r[3 * i].item BY <2>2, <2>5
    <3> HIDE DEF items
    <3> QED BY <2>2, <3>1
  <2> QED BY <2>4, <2>6
<1> HIDE DEF items
<1>7. PICK at : /\ at[0] = s
                /\ \A i \in 1 .. L : at[i] = ApplyLine(at[i - 1], items[i])
                /\ AllLines(s, items) = at[L]
  <2>1. items \in Seq(ClientItems) /\ Len(items) = L
    BY <1>6
  <2>2. \E at : /\ at[0] = s
                /\ \A i \in 1 .. Len(items) : at[i] = ApplyLine(at[i - 1], items[i])
                /\ AllLines(s, items) = at[Len(items)]
    BY <2>1, LineSteps
  <2> QED BY <2>1, <2>2
<1>8. AllLines(s, items) = at[L]
  BY <1>7
<1> DEFINE After(i) == [s EXCEPT !.session = after[i * 3].session,
                                 !.ready = i > 0 \/ s.ready]
           S == {i \in Nat : i \in 0 .. L =>
                   at[i] = After(i) /\ after[i * 3].count = after[0].count}
<1>9. 0 \in S
  <2>1. s = [s EXCEPT !.session = s.session, !.ready = s.ready]
    BY DEF Servers
  <2>2. s.ready = (0 > 0 \/ s.ready)
    BY DEF Servers
  <2>3. at[0] = After(0)
    <3>1. 0 * 3 = 0 OBVIOUS
    <3> QED BY <1>7, <2>1, <2>2, <3>1
  <2>4. after[0 * 3].count = after[0].count
    <3>1. 0 * 3 = 0 OBVIOUS
    <3> QED BY <3>1
  <2> HIDE DEF After
  <2> QED BY <2>3, <2>4
<1>10. ASSUME NEW i \in Nat, i + 1 \in 0 .. L
       PROVE  /\ after[(i + 1) * 3].session
                   = ApplyPeerRatchetKey(after[i * 3].session, items[i + 1].pub)
              /\ after[(i + 1) * 3].count = after[i * 3].count
              /\ after[i * 3].session \in Sessions /\ Len(after[i * 3].session.root) >= 1
  <2>1. /\ i + 1 \in 1 .. L /\ 3 * (i + 1) - 2 = i * 3 + 1 /\ 3 * (i + 1) - 1 = i * 3 + 2
        /\ 3 * (i + 1) = i * 3 + 3 /\ (i + 1) * 3 = i * 3 + 3
        /\ i * 3 + 1 \in 1 .. Len(r) /\ i * 3 + 2 \in 1 .. Len(r)
        /\ i * 3 + 3 \in 1 .. Len(r) /\ i * 3 \in 0 .. Len(r)
        /\ (i * 3 + 1) - 1 = i * 3 /\ (i * 3 + 2) - 1 = i * 3 + 1
        /\ (i * 3 + 3) - 1 = i * 3 + 2 /\ i * 3 + 3 \in 1 .. L * 3
    <3>1. L \in Nat /\ Len(r) \in Nat /\ L * 3 <= Len(r)
      BY <1>1, <1>2, <1>3
    <3> QED BY <1>10, <3>1, LinePlaces
  <2>2. /\ ~Completes(r[i * 3 + 1]) /\ ~Completes(r[i * 3 + 2])
        /\ Completes(r[i * 3 + 3])
    BY <1>5, <2>1
  <2>3. /\ Passes(log, "ratchet", after[i * 3], r[i * 3 + 1], after[i * 3 + 1])
        /\ Passes(log, "ratchet", after[i * 3 + 1], r[i * 3 + 2], after[i * 3 + 2])
        /\ Passes(log, "ratchet", after[i * 3 + 2], r[i * 3 + 3], after[i * 3 + 3])
    BY <1>4, <2>1 DEF Replays
  <2>4. after[i * 3 + 2] = after[i * 3]
    BY <2>2, <2>3 DEF Passes
  <2>5. r[i * 3 + 3].item = items[i + 1] /\ r[i * 3 + 3].item.kind = "pubkey"
    BY <1>3, <1>6, <2>1
  <2>6. /\ after[i * 3 + 3].session
             = ApplyPeerRatchetKey(after[i * 3].session, items[i + 1].pub)
        /\ after[i * 3 + 3].count = after[i * 3].count
    BY <2>2, <2>3, <2>4, <2>5 DEF Passes
  <2>7. Fits("ratchet", after[i * 3].session)
    BY <1>4, <2>1 DEF Replays
  <2> QED BY <2>1, <2>6, <2>7 DEF Fits
<1>11. ASSUME NEW i \in Nat, i \in S PROVE i + 1 \in S
  <2> SUFFICES ASSUME i + 1 \in 0 .. L
               PROVE  /\ at[i + 1] = After(i + 1)
                      /\ after[(i + 1) * 3].count = after[0].count
    OBVIOUS
  <2>1. i \in 0 .. L /\ i + 1 \in 1 .. L /\ (i + 1) - 1 = i /\ i + 1 > 0
    BY <1>1
  <2>2. at[i] = After(i) /\ after[i * 3].count = after[0].count
    BY <1>11, <2>1
  <2>3. at[i + 1] = ApplyLine(at[i], items[i + 1])
    BY <1>7, <2>1
  <2>4. ApplyLine(After(i), items[i + 1]) = After(i + 1)
    BY <1>10, <2>1 DEF ApplyLine, Servers
  <2> QED BY <1>10, <2>2, <2>3, <2>4
<1>12. Nat \subseteq S
  <2> HIDE DEF S
  <2> QED BY <1>9, <1>11, Induction
<1>13. at[L] = After(L) /\ after[L * 3].count = after[0].count
  <2>1. L \in Nat /\ L \in 0 .. L BY <1>1
  <2>2. L \in S
    <3> HIDE DEF S
    <3> QED BY <1>12, <2>1
  <2> HIDE DEF After
  <2> QED BY <2>1, <2>2
<1>14. ASSUME L > 0 PROVE Len(after[L * 3].session.root) >= 2
  <2>1. L - 1 \in Nat /\ (L - 1) + 1 = L /\ L \in 0 .. L
    BY <1>1, <1>14
  <2>2. /\ after[L * 3].session
             = ApplyPeerRatchetKey(after[(L - 1) * 3].session, items[L].pub)
        /\ after[(L - 1) * 3].session \in Sessions
        /\ Len(after[(L - 1) * 3].session.root) >= 1
    BY <1>10, <2>1
  <2>3. items[L].pub \in Keys
    BY <1>6, <2>1, <1>14
  <2>4. Len(after[L * 3].session.root) = Len(after[(L - 1) * 3].session.root) + 1
    BY <2>2, <2>3, RatchetKeyType
  <2>5. Len(after[(L - 1) * 3].session.root) \in Nat
    BY <2>2 DEF Sessions, Roots
  <2> QED BY <2>2, <2>4, <2>5
<1> QED BY <1>8, <1>13, <1>14 DEF items, L, b

LEMMA LongerCopy ==
  ASSUME NEW log \in Seq(Messages), NEW n \in Nat, n < Len(log)
  PROVE  Append(Take(log, n), log[n + 1]) = Take(log, n + 1)
<1> DEFINE p == Take(log, n)
           q == Take(log, n + 1)
           a == Append(p, log[n + 1])
<1>1. Len(log) \in Nat /\ n + 1 \in 1 .. Len(log) /\ log[n + 1] \in Messages
  OBVIOUS
<1>2. /\ p \in Seq(Messages) /\ Len(p) = n /\ \A i \in 1 .. n : p[i] = log[i]
      /\ q \in Seq(Messages) /\ Len(q) = n + 1
      /\ \A i \in 1 .. n + 1 : q[i] = log[i]
  BY <1>1 DEF Take
<1> HIDE DEF p, q
<1>3. /\ a \in Seq(Messages) /\ Len(a) = n + 1 /\ \A i \in 1 .. n : a[i] = p[i]
      /\ a[n + 1] = log[n + 1]
  <2>1. /\ Append(p, log[n + 1]) \in Seq(Messages)
        /\ Len(Append(p, log[n + 1])) = Len(p) + 1
        /\ \A i \in 1 .. Len(p) : Append(p, log[n + 1])[i] = p[i]
        /\ Append(p, log[n + 1])[Len(p) + 1] = log[n + 1]
    BY <1>1, <1>2, AppendProperties
  <2> QED BY <1>2, <2>1
<1> HIDE DEF a
<1>4. ASSUME NEW i \in 1 .. n + 1 PROVE a[i] = q[i]
  <2>1. CASE i \in 1 .. n BY <1>2, <1>3, <2>1
  <2>2. CASE i = n + 1 BY <1>2, <1>3, <2>2
  <2> QED BY <2>1, <2>2
<1>5. a = q
  <2>1. Len(a) = Len(q) /\ \A i \in 1 .. Len(a) : a[i] = q[i]
    BY <1>2, <1>3, <1>4
  <2> QED BY <1>2, <1>3, <2>1, SeqEqual
<1> QED BY <1>5 DEF a, p, q

\* What the frames make of s, when the last of them makes end of the session.
FramesOpened(s, t, end, log) ==
  /\ t = [s EXCEPT !.session = end.session, !.got = Take(log, end.count)]
  /\ end.count \in 0 .. Len(log)
  /\ s.mode = "ratchet" => end.session.root = s.session.root

LEMMA FramesFold ==
  ASSUME NEW s \in Servers, s.mode # "none",
         NEW rest \in Seq(ClientPieces), Whole(s.buf \o rest),
         NEW log \in Seq(Messages), NEW after,
         Replays(log, s.mode, after, s.buf \o rest),
         after[0] = [session |-> s.session, count |-> Len(s.got)],
         Copies(s.got, log)
  PROVE  FramesOpened(s, AllFrames(s, LeadingItems(s.buf, "frame")),
                      after[Leading(s.buf, "frame") * 2], log)
<1> DEFINE b == s.buf
           r == b \o rest
           M == Leading(b, "frame")
           items == LeadingItems(b, "frame")
<1>1. /\ b \in Seq(ClientPieces) /\ Len(b) \in Nat
      /\ M \in Nat /\ M * 2 <= Len(b)
      /\ \A i \in 1 .. M * 2 : b[i].item.kind = "frame"
  <2>1. b \in Seq(ClientPieces) BY DEF Servers
  <2> QED BY <2>1, LeadingFrames
<1> HIDE DEF M
<1>2. /\ r \in Seq(ClientPieces) /\ Len(r) = Len(b) + Len(rest) /\ Len(rest) \in Nat
      /\ \A i \in 1 .. Len(b) : r[i] = b[i]
  <2> HIDE DEF b
  <2> QED BY <1>1, ConcatFacts
<1> HIDE DEF b, r
<1>3. M * 2 <= Len(r) /\ \A i \in 1 .. M * 2 : r[i].item.kind = "frame" /\ r[i] = b[i]
  BY <1>1, <1>2
<1>4. Whole(r) /\ Replays(log, s.mode, after, r)
  BY DEF r, b
<1>5. \A m \in 1 .. M : ~Completes(r[2 * m - 1]) /\ Completes(r[2 * m])
  BY <1>1, <1>2, <1>3, <1>4, WholeFrames
<1>6. /\ items \in Seq(ClientItems) /\ Len(items) = M
      /\ \A i \in 1 .. M : items[i] = r[2 * i].item /\ items[i].kind = "frame"
  <2>1. items = [i \in 1 .. M |-> b[i * 2].item]
    BY PieceCounts DEF LeadingItems, M
  <2>2. ASSUME NEW i \in 1 .. M
        PROVE  /\ b[i * 2].item = r[2 * i].item /\ b[i * 2].item \in ClientItems
               /\ r[2 * i].item.kind = "frame"
    <3>1. i * 2 = 2 * i /\ 2 * i \in 1 .. M * 2 /\ 2 * i \in 1 .. Len(b)
      BY <1>1
    <3>2. b[2 * i] \in ClientPieces BY <1>1, <3>1
    <3>3. b[2 * i].item \in ClientItems BY <3>2 DEF ClientPieces
    <3>4. b[2 * i].item.kind = "frame" /\ b[2 * i] = r[2 * i] BY <1>3, <3>1
    <3> QED BY <3>1, <3>3, <3>4
  <2>3. M \in Nat BY <1>1
  <2>4. items \in Seq(ClientItems) /\ Len(items) = M
    <3> HIDE DEF M
    <3> QED BY <2>1, <2>2, <2>3
  <2>5. ASSUME NEW i \in 1 .. M PROVE items[i] = b[i * 2].item
    BY <2>1
  <2>6. ASSUME NEW i \in 1 .. M
        PROVE  items[i] = r[2 * i].item /\ items[i].kind = "frame"
    <3>1. items[i] = r[2 * i].item BY <2>2, <2>5
    <3> HIDE DEF items
    <3> QED BY <2>2, <3>1
  <2> QED BY <2>4, <2>6
<1> HIDE DEF items
<1>7. PICK at : /\ at[0] = s
                /\ \A i \in 1 .. M : at[i] = DecryptFrame(at[i - 1], items[i])
                /\ AllFrames(s, items) = at[M]
  <2>1. items \in Seq(ClientItems) /\ Len(items) = M
    BY <1>6
  <2>2. \E at : /\ at[0] = s
                /\ \A i \in 1 .. Len(items) : at[i] = DecryptFrame(at[i - 1], items[i])
                /\ AllFrames(s, items) = at[Len(items)]
    BY <2>1, FrameSteps
  <2> QED BY <2>1, <2>2
<1>8. AllFrames(s, items) = at[M]
  BY <1>7
<1> DEFINE After(i) == [s EXCEPT !.session = after[i * 2].session,
                                 !.got = Take(log, after[i * 2].count)]
           S == {i \in Nat : i \in 0 .. M =>
                   /\ at[i] = After(i) /\ after[i * 2].count \in 0 .. Len(log)
                   /\ s.mode = "ratchet" => after[i * 2].session.root = s.session.root}
<1>9. 0 \in S
  <2>0. 0 * 2 = 0 OBVIOUS
  <2>1. /\ s = [s EXCEPT !.session = s.session, !.got = s.got]
        /\ Len(s.got) <= Len(log) /\ s.got = Take(log, Len(s.got))
    BY DEF Servers, Copies
  <2>2. at[0] = After(0)
    <3>1. After(0) = [s EXCEPT !.session = s.session, !.got = s.got]
      <4>1. after[0 * 2].session = s.session /\ after[0 * 2].count = Len(s.got)
        BY <2>0
      <4>2. Take(log, after[0 * 2].count) = s.got
        BY <2>1, <4>1
      <4> QED BY <4>1, <4>2, Zenon
    <3> HIDE DEF After
    <3> QED BY <1>7, <2>1, <3>1
  <2>3. after[0 * 2].count \in 0 .. Len(log)
    <3>1. Len(s.got) \in Nat /\ Len(log) \in Nat BY DEF Servers
    <3> QED BY <2>0, <2>1, <3>1
  <2>4. after[0 * 2].session.root = s.session.root
    BY <2>0
  <2> HIDE DEF After
  <2> QED BY <2>2, <2>3, <2>4
<1>10. ASSUME NEW i \in Nat, i + 1 \in 0 .. M, after[i * 2].count \in 0 .. Len(log)
       PROVE  LET a == after[i * 2]
                  d == after[(i + 1) * 2]
                  c == items[i + 1].cipher
              IN  /\ d.count = a.count + 1 /\ d.count \in 0 .. Len(log)
                  /\ c.plain = log[a.count + 1]
                  /\ \/ /\ s.mode = "ratchet" /\ Decrypts(a.session, c)
                        /\ d.session = AfterDecrypt(a.session, c)
                     \/ /\ s.mode = "plain" /\ c.key = a.session
                        /\ d.session = a.session
                  /\ s.mode = "ratchet" => d.session.root = a.session.root
  <2>1. /\ i + 1 \in 1 .. M /\ 2 * (i + 1) - 1 = i * 2 + 1
        /\ 2 * (i + 1) = i * 2 + 2 /\ (i + 1) * 2 = i * 2 + 2
        /\ i * 2 + 1 \in 1 .. Len(r) /\ i * 2 + 2 \in 1 .. Len(r)
        /\ (i * 2 + 1) - 1 = i * 2 /\ (i * 2 + 2) - 1 = i * 2 + 1
        /\ i * 2 + 2 \in 1 .. M * 2
    <3>1. M \in Nat /\ Len(r) \in Nat /\ M * 2 <= Len(r)
      BY <1>1, <1>2, <1>3
    <3> QED BY <1>10, <3>1, FramePlaces
  <2>2. ~Completes(r[i * 2 + 1]) /\ Completes(r[i * 2 + 2])
    BY <1>5, <2>1
  <2>3. /\ Passes(log, s.mode, after[i * 2], r[i * 2 + 1], after[i * 2 + 1])
        /\ Passes(log, s.mode, after[i * 2 + 1], r[i * 2 + 2], after[i * 2 + 2])
    BY <1>4, <2>1 DEF Replays
  <2>4. after[i * 2 + 1] = after[i * 2]
    BY <2>2, <2>3 DEF Passes
  <2>5. r[i * 2 + 2].item = items[i + 1] /\ r[i * 2 + 2].item.kind = "frame"
    BY <1>3, <1>6, <2>1
  <2>6. LET a == after[i * 2]
            d == after[i * 2 + 2]
            c == items[i + 1].cipher
        IN  /\ d.count = a.count + 1 /\ a.count < Len(log)
            /\ c.plain = log[a.count + 1]
            /\ \/ /\ s.mode = "ratchet" /\ Decrypts(a.session, c)
                  /\ d.session = AfterDecrypt(a.session, c)
               \/ /\ s.mode = "plain" /\ c.key = a.session
                  /\ d.session = a.session
    BY <2>2, <2>3, <2>4, <2>5 DEF Passes
  <2>7. after[i * 2 + 2].count \in 0 .. Len(log)
    <3> DEFINE x == after[i * 2].count
    <3>1. x \in 0 .. Len(log) /\ x < Len(log) /\ Len(log) \in Nat BY <1>10, <2>6
    <3> HIDE DEF x
    <3>2. x + 1 \in 0 .. Len(log) BY <3>1
    <3> QED BY <2>6, <3>2 DEF x
  <2>8. s.mode = "ratchet" => after[i * 2 + 2].session.root = after[i * 2].session.root
    <3> SUFFICES ASSUME s.mode = "ratchet"
                 PROVE  after[i * 2 + 2].session.root = after[i * 2].session.root
      OBVIOUS
    <3>1. after[i * 2].session \in Sessions
      <4>1. i * 2 \in 0 .. Len(r) BY <2>1
      <4>2. Fits(s.mode, after[i * 2].session) BY <1>4, <4>1 DEF Replays
      <4> QED BY <4>2 DEF Fits
    <3>2. after[i * 2 + 2].session
            = AfterDecrypt(after[i * 2].session, items[i + 1].cipher)
      BY <2>6
    <3> QED BY <3>1, <3>2 DEF AfterDecrypt, Sessions
  <2> QED BY <2>1, <2>6, <2>7, <2>8
<1>11. ASSUME NEW i \in Nat, i \in S PROVE i + 1 \in S
  <2> SUFFICES ASSUME i + 1 \in 0 .. M
               PROVE  /\ at[i + 1] = After(i + 1)
                      /\ after[(i + 1) * 2].count \in 0 .. Len(log)
                      /\ s.mode = "ratchet" =>
                           after[(i + 1) * 2].session.root = s.session.root
    OBVIOUS
  <2>1. i \in 0 .. M /\ i + 1 \in 1 .. M /\ (i + 1) - 1 = i
    <3>1. M \in Nat BY <1>1
    <3> QED BY <3>1
  <2>2. /\ at[i] = After(i) /\ after[i * 2].count \in 0 .. Len(log)
        /\ s.mode = "ratchet" => after[i * 2].session.root = s.session.root
    BY <1>11, <2>1
  <2>3. at[i + 1] = DecryptFrame(at[i], items[i + 1])
    BY <1>7, <2>1
  <2> DEFINE a == after[i * 2]
             d == after[(i + 1) * 2]
             c == items[i + 1].cipher
  <2>4. /\ d.count = a.count + 1 /\ d.count \in 0 .. Len(log)
        /\ c.plain = log[a.count + 1]
        /\ \/ /\ s.mode = "ratchet" /\ Decrypts(a.session, c)
              /\ d.session = AfterDecrypt(a.session, c)
           \/ /\ s.mode = "plain" /\ c.key = a.session
              /\ d.session = a.session
        /\ s.mode = "ratchet" => d.session.root = a.session.root
    BY <1>10, <2>2
  <2>5. a.count \in Nat /\ a.count < Len(log)
    <3> DEFINE x == a.count
               y == d.count
    <3>1. x \in 0 .. Len(log) /\ y = x + 1 /\ y \in 0 .. Len(log) /\ Len(log) \in Nat
      BY <2>2, <2>4
    <3> HIDE DEF x, y
    <3>2. x \in Nat /\ x < Len(log) BY <3>1
    <3> QED BY <3>2 DEF x
  <2>6. Append(Take(log, a.count), log[a.count + 1]) = Take(log, d.count)
    BY <2>4, <2>5, LongerCopy
  <2> HIDE DEF a, d, c
  <2>7. After(i) = [s EXCEPT !.session = a.session, !.got = Take(log, a.count)]
    BY DEF a
  <2>8. After(i + 1) = [s EXCEPT !.session = d.session, !.got = Take(log, d.count)]
    BY DEF d
  <2>9. Opens(After(i), c) /\ d.session = IF s.mode = "ratchet" THEN AfterDecrypt(a.session, c)
                                          ELSE a.session
    BY <2>4, <2>7 DEF Opens, Servers
  <2>10. DecryptFrame(After(i), items[i + 1]) = After(i + 1)
    <3> HIDE DEF After
    <3>1. After(i).session = a.session /\ After(i).mode = s.mode
          /\ After(i).got = Take(log, a.count)
      BY <2>7 DEF Servers
    <3>2. DecryptFrame(After(i), items[i + 1])
            = [After(i) EXCEPT !.session = d.session,
                               !.got = Append(@, c.plain), !.errors = @]
      BY <2>9, <3>1 DEF DecryptFrame, c
    <3>3. Append(After(i).got, c.plain) = Take(log, d.count)
      BY <2>4, <2>6, <3>1
    <3>4. DecryptFrame(After(i), items[i + 1])
            = [After(i) EXCEPT !.session = d.session, !.got = Take(log, d.count),
                               !.errors = @]
      BY <3>2, <3>3
    <3>5. [After(i) EXCEPT !.session = d.session, !.got = Take(log, d.count),
                           !.errors = @]
            = [s EXCEPT !.session = d.session, !.got = Take(log, d.count)]
      BY <2>7 DEF Servers
    <3> QED BY <2>8, <3>4, <3>5
  <2> QED BY <2>2, <2>3, <2>4, <2>10 DEF a, d
<1>12. Nat \subseteq S
  <2> HIDE DEF S
  <2> QED BY <1>9, <1>11, Induction
<1>13. /\ at[M] = After(M) /\ after[M * 2].count \in 0 .. Len(log)
       /\ s.mode = "ratchet" => after[M * 2].session.root = s.session.root
  <2>1. M \in Nat /\ M \in 0 .. M BY <1>1
  <2>2. M \in S
    <3> HIDE DEF S
    <3> QED BY <1>12, <2>1
  <2> HIDE DEF After
  <2> QED BY <2>1, <2>2
<1> QED BY <1>8, <1>13 DEF FramesOpened, items, M, b

LEMMA ForeignFold ==
  ASSUME NEW s \in Servers, s.mode = "plain",
         \A j \in 1 .. Len(s.buf) : s.buf[j].item.cipher.key # s.session
  PROVE  AllFrames(s, LeadingItems(s.buf, "frame"))
           = [s EXCEPT !.errors = @ + Leading(s.buf, "frame")]
<1> DEFINE b == s.buf
           M == Leading(b, "frame")
           items == LeadingItems(b, "frame")
<1>1. /\ b \in Seq(ClientPieces) /\ Len(b) \in Nat
      /\ M \in Nat /\ M * 2 <= Len(b)
      /\ \A i \in 1 .. M * 2 : b[i].item.kind = "frame"
  <2>1. b \in Seq(ClientPieces) BY DEF Servers
  <2> QED BY <2>1, LeadingFrames
<1> HIDE DEF M
<1>2. /\ items \in Seq(ClientItems) /\ Len(items) = M
      /\ \A i \in 1 .. M : items[i].cipher.key # s.session
  <2>1. items = [i \in 1 .. M |-> b[i * 2].item]
    BY PieceCounts DEF LeadingItems, M
  <2>2. ASSUME NEW i \in 1 .. M
        PROVE  b[i * 2].item \in ClientItems /\ b[i * 2].item.cipher.key # s.session
    <3>1. i * 2 \in 1 .. Len(b)
      BY <1>1
    <3>2. b[i * 2] \in ClientPieces BY <1>1, <3>1
    <3>3. b[i * 2].item \in ClientItems BY <3>2 DEF ClientPieces
    <3> QED BY <3>1, <3>3
  <2>3. M \in Nat BY <1>1
  <2>4. items \in Seq(ClientItems) /\ Len(items) = M
    <3> HIDE DEF M
    <3> QED BY <2>1, <2>2, <2>3
  <2>5. ASSUME NEW i \in 1 .. M PROVE items[i] = b[i * 2].item
    BY <2>1
  <2> HIDE DEF items
  <2>6. \A i \in 1 .. M : items[i].cipher.key # s.session
    BY <2>2, <2>5
  <2> QED BY <2>4, <2>6
<1> HIDE DEF items
<1>3. PICK at : /\ at[0] = s
                /\ \A i \in 1 .. Len(items) : at[i] = DecryptFrame(at[i - 1], items[i])
                /\ AllFrames(s, items) = at[Len(items)]
  <2>1. items \in Seq(ClientItems) BY <1>2
  <2> QED BY <2>1, FrameSteps
<1>4. /\ \A i \in 1 .. M : at[i] = DecryptFrame(at[i - 1], items[i])
      /\ AllFrames(s, items) = at[M]
  BY <1>2, <1>3
<1> DEFINE After(i) == [s EXCEPT !.errors = @ + i]
           S == {i \in Nat : i \in 0 .. M => at[i] = After(i)}
<1>5. 0 \in S
  <2>1. s = After(0)
    <3>1. s.errors + 0 = s.errors BY DEF Servers
    <3> QED BY <3>1 DEF Servers
  <2> HIDE DEF After
  <2> QED BY <1>3, <2>1
<1>6. ASSUME NEW i \in Nat, i \in S PROVE i + 1 \in S
  <2> SUFFICES ASSUME i + 1 \in 0 .. M PROVE at[i + 1] = After(i + 1)
    OBVIOUS
  <2>1. i \in 0 .. M /\ i + 1 \in 1 .. M /\ (i + 1) - 1 = i
    <3>1. M \in Nat BY <1>1
    <3> QED BY <3>1
  <2>2. at[i + 1] = DecryptFrame(After(i), items[i + 1])
    BY <1>4, <1>6, <2>1
  <2>3. ~Opens(After(i), items[i + 1].cipher) /\ After(i).mode = "plain"
    BY <1>2, <2>1 DEF Opens, Servers
  <2>4. DecryptFrame(After(i), items[i + 1])
          = [After(i) EXCEPT !.session = @, !.got = @, !.errors = @ + 1]
    <3> HIDE DEF After
    <3> QED BY <2>3 DEF DecryptFrame
  <2>5. [After(i) EXCEPT !.session = @, !.got = @, !.errors = @ + 1] = After(i + 1)
    <3>1. (s.errors + i) + 1 = s.errors + (i + 1) BY DEF Servers
    <3> QED BY <3>1 DEF Servers
  <2> HIDE DEF After
  <2> QED BY <2>2, <2>4, <2>5
<1>7. Nat \subseteq S
  <2> HIDE DEF S
  <2> QED BY <1>5, <1>6, Induction
<1>8. at[M] = After(M)
  <2>1. M \in Nat /\ M \in 0 .. M BY <1>1
  <2>2. M \in S
    <3> HIDE DEF S
    <3> QED BY <1>7, <2>1
  <2> HIDE DEF After
  <2> QED BY <2>1, <2>2
<1> QED BY <1>4, <1>8 DEF items, M, b

\* After the loop over the frames, what is left does not begin with a whole one.
FramesOnlyBehindRotation(buf) ==
  (\E i \in 1 .. Len(buf) : buf[i].item.kind = "frame" /\ Completes(buf[i]))
    => buf[1].item.kind = "pubkey"

LEMMA BeyondFrames ==
  ASSUME NEW buf \in Seq(ClientPieces), NEW rest \in Seq(ClientPieces),
         Whole(buf \o rest),
         \A j \in 1 .. Len(buf) : buf[j].item.kind \in {"pubkey", "frame"}
  PROVE  LET M == Leading(buf, "frame")
         IN  /\ M * 2 \in 0 .. Len(buf)
             /\ Whole(Drop(buf \o rest, M * 2))
             /\ FramesOnlyBehindRotation(Drop(buf, M * 2))
<1> DEFINE r == buf \o rest
           M == Leading(buf, "frame")
           d == Drop(buf, M * 2)
<1>1. /\ Len(buf) \in Nat /\ M \in Nat /\ M * 2 <= Len(buf)
      /\ \A i \in 1 .. M * 2 : buf[i].item.kind = "frame"
      /\ (M + 1) * 2 <= Len(buf) =>
           \E i \in 1 .. (M + 1) * 2 : buf[i].item.kind # "frame"
  BY LeadingFrames
<1>2. /\ r \in Seq(ClientPieces) /\ Len(r) = Len(buf) + Len(rest) /\ Len(rest) \in Nat
      /\ \A i \in 1 .. Len(buf) : r[i] = buf[i]
  BY ConcatFacts
<1> HIDE DEF M, r
<1>3. M * 2 \in 0 .. Len(buf) /\ M * 2 \in 0 .. Len(r)
  <2>1. /\ Len(buf) \in Nat /\ M \in Nat /\ M * 2 <= Len(buf) /\ Len(rest) \in Nat
        /\ Len(r) = Len(buf) + Len(rest)
    BY <1>1, <1>2
  <2> QED BY <2>1
<1>4. M = 0 \/ Completes(r[M * 2])
  <2>1. Whole(r) BY DEF r
  <2>2. \A m \in 1 .. M : ~Completes(r[2 * m - 1]) /\ Completes(r[2 * m])
    <3>1. M * 2 <= Len(r) /\ \A i \in 1 .. M * 2 : r[i].item.kind = "frame"
      BY <1>1, <1>2, <1>3
    <3> QED BY <1>1, <1>2, <2>1, <3>1, WholeFrames
  <2>3. M # 0 => M \in 1 .. M /\ 2 * M = M * 2 BY <1>1
  <2> QED BY <2>2, <2>3
<1>5. Whole(Drop(r, M * 2))
  <2>1. M * 2 = 0 \/ Completes(r[M * 2]) BY <1>1, <1>4
  <2>2. Whole(r) BY DEF r
  <2> QED BY <1>2, <1>3, <2>1, <2>2, WholeDrop
<1>6. /\ Len(d) = Len(buf) - M * 2
      /\ \A j \in 1 .. Len(buf) - M * 2 : d[j] = buf[j + M * 2]
  BY <1>3, DropFacts
<1> HIDE DEF d
<1>7. ASSUME NEW i \in 1 .. Len(d), d[i].item.kind = "frame", Completes(d[i])
      PROVE  d[1].item.kind = "pubkey"
  <2> SUFFICES ASSUME d[1].item.kind # "pubkey" PROVE FALSE
    OBVIOUS
  <2> DEFINE o == M * 2
             e == Drop(r, o)
  <2>1. /\ Len(e) = Len(r) - o
        /\ \A j \in 1 .. Len(r) - o : e[j] = r[j + o]
    BY <1>2, <1>3, DropFacts
  <2>2. o \in Nat /\ o <= Len(buf) /\ Len(d) = Len(buf) - o /\ Len(e) = Len(r) - o
        /\ Len(d) <= Len(e) /\ Len(d) \in Nat /\ Len(e) \in Nat /\ Len(d) >= 1
    BY <1>1, <1>2, <1>3, <1>6, <2>1
  <2> HIDE DEF e
  <2>3. \A j \in 1 .. Len(d) : d[j] = e[j] /\ d[j] = buf[j + o]
    <3> TAKE j \in 1 .. Len(d)
    <3>1. j \in 1 .. Len(buf) - o /\ j \in 1 .. Len(r) - o /\ j + o \in 1 .. Len(buf)
      BY <1>2, <2>2
    <3>2. d[j] = buf[j + o] /\ e[j] = r[j + o] BY <1>6, <2>1, <3>1
    <3> QED BY <1>2, <3>1, <3>2
  <2>4. d[1].item.kind = "frame"
    <3>1. 1 \in 1 .. Len(d) /\ 1 + o \in 1 .. Len(buf) BY <1>1, <2>2
    <3> QED BY <2>3, <3>1
  <2>5. d[1].piece = 1
    <3>1. e[1].piece = 1 BY <1>5, <2>2 DEF Whole, e
    <3> QED BY <2>2, <2>3, <3>1
  <2>6. ~Completes(d[1])
    BY <2>4, <2>5, PieceCounts DEF Completes
  <2>7. 2 \in 1 .. Len(d) /\ 1 \in 1 .. Len(d) /\ 1 \in 1 .. Len(e) - 1
    <3>1. i # 1 BY <1>7, <2>6
    <3> QED BY <2>2, <3>1
  <2>8. d[2].item.kind = "frame"
    <3>1. ~Completes(e[1]) BY <2>3, <2>6, <2>7
    <3>2. e[1 + 1] = [item |-> e[1].item, piece |-> e[1].piece + 1]
      BY <1>5, <2>7, <3>1 DEF Whole, e
    <3>3. e[2].item = e[1].item BY <3>2
    <3> QED BY <2>3, <2>4, <2>7, <3>3
  <2>9. buf[o + 1].item.kind = "frame" /\ buf[o + 2].item.kind = "frame"
    <3>1. d[1] = buf[1 + o] /\ d[2] = buf[2 + o] BY <2>3, <2>7
    <3>2. 1 + o = o + 1 /\ 2 + o = o + 2 BY <2>2
    <3> QED BY <2>4, <2>8, <3>1, <3>2
  <2>10. (M + 1) * 2 = o + 2 /\ o + 2 <= Len(buf)
    BY <1>1, <2>2, <2>7
  <2>11. \A j \in 1 .. o + 2 : j \in 1 .. o \/ j = o + 1 \/ j = o + 2
    <3>1. o \in Nat BY <2>2
    <3> HIDE DEF o
    <3> QED BY <3>1
  <2> QED BY <1>1, <2>9, <2>10, <2>11
<1> QED BY <1>3, <1>5, <1>7 DEF FramesOnlyBehindRotation, d, M, r

\* Taking the rotation lines leaves a server that can go on.
LEMMA ConsumesHonestly ==
  ASSUME NEW s \in Servers, s.mode # "none", Able(s),
         NEW rest \in Seq(ClientPieces), NEW c, NEW log,
         Whole(s.buf \o rest), Honest(c, log, s, s.buf \o rest)
  PROVE  LET t == ConsumeRatchetLines(s)
         IN  /\ t \in Servers /\ Able(t)
             /\ t.state = s.state /\ t.build = s.build /\ t.mode = s.mode
             /\ t.got = s.got /\ t.errors = s.errors
             /\ Whole(t.buf \o rest) /\ Honest(c, log, t, t.buf \o rest)
             /\ ~t.ready => t = s
<1> DEFINE b == s.buf
           r == b \o rest
           L == Leading(b, "pubkey")
           t == ConsumeRatchetLines(s)
<1>1. CASE s.mode # "ratchet"
  BY <1>1 DEF ConsumeRatchetLines
<1>2. CASE s.mode = "ratchet"
  <2>1. PICK after : Keeps(c, log, after, s, r)
    BY DEF Honest
  <2>2. Replays(log, s.mode, after, r)
        /\ after[0] = [session |-> s.session, count |-> Len(s.got)]
    BY <2>1 DEF Keeps
  <2>3. /\ AllLines(s, LeadingItems(b, "pubkey"))
             = [s EXCEPT !.session = after[L * 3].session, !.ready = L > 0 \/ s.ready]
        /\ after[L * 3].count = after[0].count
        /\ L > 0 => Len(after[L * 3].session.root) >= 2
    <3>1. after[0].session = s.session BY <2>2
    <3> QED BY <1>2, <2>2, <3>1, LinesFold
  <2>4. /\ b \in Seq(ClientPieces) /\ Len(b) \in Nat
        /\ L \in Nat /\ L * 3 <= Len(b)
        /\ \A i \in 1 .. L * 3 : b[i].item.kind = "pubkey"
    <3>1. b \in Seq(ClientPieces) BY DEF Servers
    <3> QED BY <3>1, LeadingLines
  <2>5. t = [s EXCEPT !.session = after[L * 3].session, !.ready = L > 0 \/ s.ready,
                      !.buf = Drop(b, L * 3)]
    <3>1. t = [[s EXCEPT !.session = after[L * 3].session, !.ready = L > 0 \/ s.ready]
                 EXCEPT !.buf = Drop(b, L * 3)]
      BY <1>2, <2>3, PieceCounts DEF ConsumeRatchetLines, Beyond, AllLines
    <3> HIDE DEF t
    <3> QED BY <3>1 DEF Servers
  <2> HIDE DEF t, L, b, r
  <2>6. /\ r \in Seq(ClientPieces) /\ Len(r) = Len(b) + Len(rest) /\ Len(rest) \in Nat
        /\ \A i \in 1 .. Len(b) : r[i] = b[i]
    BY <2>4, ConcatFacts DEF r
  <2>7. L * 3 \in 0 .. Len(b) /\ L * 3 \in 0 .. Len(r)
    <3>1. Len(b) \in Nat /\ L \in Nat /\ L * 3 <= Len(b) /\ Len(rest) \in Nat
          /\ Len(r) = Len(b) + Len(rest)
      BY <2>4, <2>6
    <3> QED BY <3>1
  <2>8. /\ after[L * 3] \in Readers /\ Fits(s.mode, after[L * 3].session)
        /\ after[L * 3].session \in AnySession
    BY <2>2, <2>7 DEF Replays, Readers
  <2>9. Drop(b, L * 3) \in Seq(ClientPieces) /\ Drop(b, L * 3) \o rest = Drop(r, L * 3)
    <3>1. Drop(b, L * 3) \in Seq(ClientPieces)
      BY <2>4, <2>7, DropFacts
    <3>2. Drop(b, L * 3) \o rest = Drop(b \o rest, L * 3)
      BY <2>4, <2>7, DropConcat
    <3> QED BY <3>1, <3>2 DEF r
  <2>10. t \in Servers
    <3>1. (L > 0 \/ s.ready) \in BOOLEAN OBVIOUS
    <3> QED BY <2>5, <2>8, <2>9, <3>1 DEF Servers
  <2>11. /\ t.state = s.state /\ t.build = s.build /\ t.mode = s.mode
         /\ t.got = s.got /\ t.errors = s.errors /\ t.buf = Drop(b, L * 3)
         /\ t.session = after[L * 3].session /\ t.ready = (L > 0 \/ s.ready)
    BY <2>5 DEF Servers
  <2>12. ~t.ready => L = 0
    <3>1. ~t.ready => ~(L > 0) BY <2>11, Zenon
    <3> QED BY <2>4, <3>1
  <2>13. L = 0 => t.session = s.session /\ t.buf = b
    <3> SUFFICES ASSUME L = 0 PROVE t.session = s.session /\ t.buf = b
      OBVIOUS
    <3>1. L * 3 = 0 OBVIOUS
    <3>2. after[0].session = s.session BY <2>2
    <3>3. Drop(b, 0) = b BY <2>4 DEF Drop
    <3> QED BY <2>11, <3>1, <3>2, <3>3
  <2>14. ~t.ready => t = s
    <3> SUFFICES ASSUME ~t.ready PROVE t = s
      OBVIOUS
    <3>1. s.ready = FALSE /\ t.ready = FALSE BY <2>10, <2>11 DEF Servers
    <3> QED BY <2>10, <2>11, <2>12, <2>13, <3>1 DEF Servers, b
  <2>15. Able(t)
    <3>1. t.ready => Len(t.session.root) >= 2
      <4>1. CASE L > 0 BY <2>3, <2>11, <4>1 DEF L, b
      <4>2. CASE ~(L > 0)
        <5>1. L = 0 BY <2>4, <4>2
        <5> QED BY <2>11, <2>13, <4>2, <5>1 DEF Able
      <4> QED BY <4>1, <4>2
    <3> QED BY <1>2, <2>8, <2>11, <3>1 DEF Able
  <2>16. Whole(t.buf \o rest)
    <3>1. Whole(r) BY DEF r, b
    <3>2. L * 3 = 0 \/ Completes(r[L * 3])
      <4>1. \A m \in 1 .. L : /\ ~Completes(r[3 * m - 2]) /\ ~Completes(r[3 * m - 1])
                              /\ Completes(r[3 * m])
        <5>1. L * 3 <= Len(r)
          BY <2>4, <2>6
        <5>2. ASSUME NEW i \in 1 .. L * 3 PROVE r[i].item.kind = "pubkey"
          <6> DEFINE w == L * 3
          <6>1. w \in 0 .. Len(b) /\ Len(b) \in Nat /\ i \in 1 .. w BY <2>4, <2>7
          <6> HIDE DEF w
          <6>2. i \in 1 .. Len(b) BY <6>1
          <6>3. r[i] = b[i] BY <2>6, <6>2
          <6> QED BY <2>4, <6>3
        <5> QED BY <2>4, <2>6, <3>1, <5>1, <5>2, WholeLines
      <4>2. L # 0 => L \in 1 .. L /\ 3 * L = L * 3 BY <2>4
      <4>3. L = 0 => L * 3 = 0 OBVIOUS
      <4> QED BY <4>1, <4>2, <4>3
    <3> QED BY <2>6, <2>7, <2>9, <2>11, <3>1, <3>2, WholeDrop
  <2>17. Honest(c, log, t, t.buf \o rest)
    <3>1. \E later : Keeps(c, log, later, t, Drop(r, L * 3))
      <4>1. Len(t.got) = after[L * 3].count
        BY <2>2, <2>3, <2>11 DEF L, b
      <4> QED BY <2>1, <2>6, <2>7, <2>11, <4>1, KeepsDrop
    <3>2. RotatesFirst(c, t, t.buf \o rest)
      <4>1. RotatesFirst(c, s, r) BY DEF Honest, r, b
      <4>2. ~t.ready => t = s /\ t.buf \o rest = r BY <2>14 DEF r, b
      <4> QED BY <4>1, <4>2 DEF RotatesFirst
    <3> QED BY <2>9, <2>11, <3>1, <3>2 DEF Honest
  <2> QED BY <2>10, <2>11, <2>14, <2>15, <2>16, <2>17 DEF t, b
<1> QED BY <1>1, <1>2

\* So does decrypting the frames, which are all opened.
LEMMA ProcessesHonestly ==
  ASSUME NEW s \in Servers, s.mode # "none", Able(s), s.mode = "ratchet" => s.ready,
         NEW rest \in Seq(ClientPieces), NEW c, NEW log \in Seq(Messages),
         Whole(s.buf \o rest), Honest(c, log, s, s.buf \o rest),
         Copies(s.got, log)
  PROVE  LET t == ProcessMessage(s)
         IN  /\ t \in Servers /\ Able(t)
             /\ t.state = s.state /\ t.build = s.build /\ t.mode = s.mode
             /\ t.errors = s.errors /\ t.ready = s.ready
             /\ Whole(t.buf \o rest) /\ Honest(c, log, t, t.buf \o rest)
             /\ Copies(t.got, log) /\ FramesOnlyBehindRotation(t.buf)
<1> DEFINE b == s.buf
           r == b \o rest
           M == Leading(b, "frame")
           t == ProcessMessage(s)
<1>1. PICK after : Keeps(c, log, after, s, r)
  BY DEF Honest
<1>2. Replays(log, s.mode, after, r)
      /\ after[0] = [session |-> s.session, count |-> Len(s.got)]
  BY <1>1 DEF Keeps
<1>3. /\ AllFrames(s, LeadingItems(b, "frame"))
           = [s EXCEPT !.session = after[M * 2].session,
                       !.got = Take(log, after[M * 2].count)]
      /\ after[M * 2].count \in 0 .. Len(log)
      /\ s.mode = "ratchet" => after[M * 2].session.root = s.session.root
  <2>1. Replays(log, s.mode, after, s.buf \o rest)
    BY <1>2
  <2>2. FramesOpened(s, AllFrames(s, LeadingItems(s.buf, "frame")),
                     after[Leading(s.buf, "frame") * 2], log)
    BY <1>2, <2>1, FramesFold
  <2> QED BY <2>2 DEF FramesOpened
<1>4. t = [s EXCEPT !.session = after[M * 2].session,
                    !.got = Take(log, after[M * 2].count),
                    !.buf = Drop(b, M * 2)]
  <2>1. t = [[s EXCEPT !.session = after[M * 2].session,
                       !.got = Take(log, after[M * 2].count)]
               EXCEPT !.buf = Drop(b, M * 2)]
    BY <1>3, PieceCounts DEF ProcessMessage, Beyond, AllFrames
  <2> HIDE DEF t
  <2> QED BY <2>1 DEF Servers
<1>5. b \in Seq(ClientPieces)
  BY DEF Servers
<1> HIDE DEF t, M, b
<1>6. /\ r \in Seq(ClientPieces) /\ Len(r) = Len(b) + Len(rest) /\ Len(rest) \in Nat
      /\ Len(b) \in Nat /\ \A i \in 1 .. Len(b) : r[i] = b[i]
  BY <1>5, ConcatFacts
<1> HIDE DEF r
<1>7. \A j \in 1 .. Len(b) : b[j].item.kind \in {"pubkey", "frame"}
  BY <1>2, <1>6 DEF Replays
<1>8. /\ M * 2 \in 0 .. Len(b) /\ Whole(Drop(r, M * 2))
      /\ FramesOnlyBehindRotation(Drop(b, M * 2))
  <2>1. Whole(r) BY DEF r, b
  <2> QED BY <1>5, <1>7, <2>1, BeyondFrames DEF r, M
<1>9. M * 2 \in 0 .. Len(r)
  BY <1>6, <1>8
<1>10. /\ after[M * 2] \in Readers /\ Fits(s.mode, after[M * 2].session)
       /\ after[M * 2].session \in AnySession
  BY <1>2, <1>9 DEF Replays, Readers
<1>11. Drop(b, M * 2) \in Seq(ClientPieces) /\ Drop(b, M * 2) \o rest = Drop(r, M * 2)
  <2>1. Drop(b, M * 2) \in Seq(ClientPieces)
    BY <1>5, <1>8, DropFacts
  <2>2. Drop(b, M * 2) \o rest = Drop(b \o rest, M * 2)
    BY <1>5, <1>8, DropConcat
  <2> QED BY <2>1, <2>2 DEF r
<1> DEFINE k == after[M * 2].count
<1>12. /\ Take(log, k) \in Seq(Messages) /\ Len(Take(log, k)) = k
       /\ k \in Nat /\ k <= Len(log)
  <2>1. k \in 0 .. Len(log) /\ Len(log) \in Nat BY <1>3
  <2> HIDE DEF k
  <2> QED BY <2>1 DEF Take
<1>13. t \in Servers
  BY <1>4, <1>10, <1>11, <1>12 DEF Servers
<1>14. /\ t.state = s.state /\ t.build = s.build /\ t.mode = s.mode
       /\ t.got = Take(log, k) /\ t.errors = s.errors /\ t.ready = s.ready
       /\ t.session = after[M * 2].session /\ t.buf = Drop(b, M * 2)
  BY <1>4 DEF Servers
<1>15. Copies(t.got, log)
  <2> HIDE DEF k
  <2> QED BY <1>12, <1>14 DEF Copies
<1>16. \E later : Keeps(c, log, later, t, Drop(r, M * 2))
  <2>1. Len(t.got) = after[M * 2].count
    BY <1>12, <1>14
  <2>2. t.mode = s.mode /\ t.session = after[M * 2].session
    BY <1>14
  <2> QED BY <1>1, <1>6, <1>9, <2>1, <2>2, KeepsDrop
<1>17. RotatesFirst(c, t, t.buf \o rest)
  BY <1>14 DEF RotatesFirst
<1>18. Honest(c, log, t, t.buf \o rest)
  BY <1>11, <1>14, <1>16, <1>17 DEF Honest
<1>19. Able(t)
  <2>1. Fits(t.mode, t.session) BY <1>10, <1>14
  <2>2. t.ready => t.mode = "ratchet" /\ Len(t.session.root) >= 2
    BY <1>3, <1>14 DEF Able, M, b
  <2> QED BY <2>1, <2>2 DEF Able
<1> QED BY <1>8, <1>11, <1>13, <1>14, <1>15, <1>18, <1>19 DEF t, b

-----------------------------------------------------------------------------
(***************************************************************************)
(* Sending: the rotation line and the frame, at the end of the stream.     *)
(***************************************************************************)
LEMMA PrepareType ==
  ASSUME NEW s \in Sessions, NEW pub \in Keys
  PROVE  LET t == PrepareRatchetStep(s, pub)
         IN  /\ t \in Sessions /\ Len(t.root) = Len(s.root) + 1
             /\ t.send.root = t.root /\ t.send.step = 0
<1> DEFINE root == Append(s.root, {pub, s.peer})
<1>1. root \in Roots /\ Len(root) = Len(s.root) + 1
  BY DEF Sessions, Roots
<1> HIDE DEF root
<1>2. Chain(root, "send-v2") \in Chains /\ Chain(root, "recv-v2") \in Chains
  BY <1>1 DEF Chain, Chains, Labels
<1>3. PrepareRatchetStep(s, pub)
        = [s EXCEPT !.root = root, !.self = pub, !.peer = s.peer,
                    !.send = Chain(root, "send-v2"), !.recv = Chain(root, "recv-v2")]
  BY DEF PrepareRatchetStep, DoRatchet, root
<1>4. Chain(root, "send-v2").root = root /\ Chain(root, "send-v2").step = 0
  BY DEF Chain
<1> QED BY <1>1, <1>2, <1>3, <1>4 DEF Sessions

LEMMA CounterType ==
  ASSUME NEW n \in Counters
  PROVE  Bump(n) \in Counters
BY CounterModAssumption DEF Bump, Counters

LEMMA AdvanceType ==
  ASSUME NEW k \in Chains
  PROVE  Advance(k) \in Chains /\ Advance(k).root = k.root /\ Advance(k).step = k.step + 1
BY DEF Advance, Chains

LEMMA MessageTypes ==
  ASSUME NEW s \in Sessions, NEW m \in Messages
  PROVE  /\ Encrypt(s, m) \in RatchetCiphers
         /\ AfterEncrypt(s) \in Sessions /\ AfterEncrypt(s).root = s.root
         /\ AfterEncrypt(s).send = Advance(s.send)
<1>1. s.sendCtr \in Counters /\ s.send \in Chains
  BY DEF Sessions
<1>2. Bump(s.sendCtr) \in Counters /\ Advance(s.send) \in Chains
  BY <1>1, CounterType, AdvanceType
<1>3. AfterEncrypt(s) = [s EXCEPT !.send = Advance(s.send), !.sendCtr = Bump(s.sendCtr)]
  BY DEF AfterEncrypt
<1> QED BY <1>1, <1>2, <1>3 DEF Encrypt, RatchetCiphers, Sessions

LEMMA AfterDecryptType ==
  ASSUME NEW s \in Sessions, NEW x
  PROVE  AfterDecrypt(s, x) \in Sessions /\ AfterDecrypt(s, x).root = s.root
<1>1. s.recvCtr \in Counters /\ s.recv \in Chains
  BY DEF Sessions
<1>2. Bump(s.recvCtr) \in Counters /\ Advance(s.recv) \in Chains
  BY <1>1, CounterType, AdvanceType
<1>3. AfterDecrypt(s, x) = s \/
      AfterDecrypt(s, x)
        = [s EXCEPT !.recv = Advance(s.recv), !.recvCtr = Bump(s.recvCtr)]
  BY DEF AfterDecrypt
<1> QED BY <1>2, <1>3 DEF Sessions

LEMMA MirrorRotates ==
  ASSUME NEW c \in Sessions, NEW s \in Sessions, NEW pub \in Keys, Mirrors(c, s)
  PROVE  Mirrors(PrepareRatchetStep(c, pub), ApplyPeerRatchetKey(s, pub))
<1> DEFINE root == Append(c.root, {pub, c.peer})
<1>1. Append(s.root, {s.self, pub}) = root
  <2>1. {s.self, pub} = {pub, c.peer} BY DEF Mirrors
  <2> QED BY <2>1 DEF Mirrors
<1> HIDE DEF root
<1>2. PrepareRatchetStep(c, pub)
        = [c EXCEPT !.root = root, !.self = pub, !.peer = c.peer,
                    !.send = Chain(root, "send-v2"), !.recv = Chain(root, "recv-v2")]
  BY DEF PrepareRatchetStep, DoRatchet, root
<1>3. ApplyPeerRatchetKey(s, pub)
        = [s EXCEPT !.root = root, !.self = s.self, !.peer = pub,
                    !.send = Chain(root, "recv-v2"), !.recv = Chain(root, "send-v2")]
  BY <1>1 DEF ApplyPeerRatchetKey, DoRatchet
<1> QED BY <1>2, <1>3 DEF Mirrors, Sessions

LEMMA MirrorReads ==
  ASSUME NEW c \in Sessions, NEW s \in Sessions, NEW m, Mirrors(c, s)
  PROVE  /\ Decrypts(s, Encrypt(c, m))
         /\ Mirrors(AfterEncrypt(c), AfterDecrypt(s, Encrypt(c, m)))
<1>1. Encrypt(c, m).ctr = s.recvCtr /\ Encrypt(c, m).key = s.recv
  BY DEF Mirrors, Encrypt
<1>2. Decrypts(s, Encrypt(c, m)) /\ InOrder(s, Encrypt(c, m))
  BY <1>1 DEF Decrypts, InOrder
<1>3. AfterDecrypt(s, Encrypt(c, m))
        = [s EXCEPT !.recv = Advance(s.recv), !.recvCtr = Bump(s.recvCtr)]
  BY <1>2 DEF AfterDecrypt
<1>4. AfterEncrypt(c) = [c EXCEPT !.send = Advance(c.send), !.sendCtr = Bump(c.sendCtr)]
  BY DEF AfterEncrypt
<1> QED BY <1>2, <1>3, <1>4 DEF Mirrors, Sessions

LEMMA RotationTypes ==
  ASSUME NEW c \in Clients, Talks(c), c.state = "ready"
  PROVE  /\ Rotated(c) \in Clients /\ Talks(Rotated(c)) /\ ~RotationDue(Rotated(c))
         /\ Rotated(c).state = "ready" /\ Rotated(c).mode = c.mode
         /\ Rotated(c).build = c.build
         /\ Announcement(c) \in Seq(ClientPieces)
         /\ \A j \in 1 .. Len(Announcement(c)) : Announcement(c)[j].item.kind = "pubkey"
         /\ ~RotationDue(c) => Rotated(c) = c /\ Announcement(c) = <<>>
         /\ RotationDue(c) =>
              /\ c.mode = "ratchet" /\ c.session \in Sessions
              /\ ClientKey(c.key + 1) \in Keys
              /\ Rotated(c).session = PrepareRatchetStep(c.session, ClientKey(c.key + 1))
              /\ Announcement(c) = Split([kind |-> "pubkey", pub |-> ClientKey(c.key + 1)])
<1>1. CASE ~RotationDue(c)
  BY <1>1 DEF Rotated, Announcement
<1>2. CASE RotationDue(c)
  <2> DEFINE pub  == ClientKey(c.key + 1)
             item == [kind |-> "pubkey", pub |-> pub]
             d    == Rotated(c)
             t    == PrepareRatchetStep(c.session, pub)
  <2>1. c.mode = "ratchet" /\ c.session \in Sessions /\ Len(c.session.root) >= 2
        /\ c.key \in Nat
    BY <1>2 DEF RotationDue, Talks, Fits, Clients
  <2>2. pub \in Keys /\ item \in Pubkeys /\ c.key + 1 \in Nat
    BY <2>1 DEF ClientKey, Keys, Pubkeys
  <2> HIDE DEF pub
  <2>3. d = [c EXCEPT !.session = t, !.key = c.key + 1, !.since = 0]
        /\ Announcement(c) = Split(item)
    BY <1>2 DEF Rotated, Announcement, pub
  <2>4. t \in Sessions /\ Len(t.root) = Len(c.session.root) + 1
        /\ t.send.root = t.root /\ t.send.step = 0
    BY <2>1, <2>2, PrepareType
  <2>5. Len(t.root) >= 2
    <3>1. Len(c.session.root) \in Nat BY <2>1 DEF Sessions, Roots
    <3> QED BY <2>1, <2>4, <3>1
  <2> HIDE DEF t, d
  <2>6. d \in Clients
    <3>1. 0 \in 0 .. RotateEvery BY RotateEveryAssumption
    <3>2. t \in AnySession BY <2>4, SessionKinds
    <3> QED BY <2>2, <2>3, <3>1, <3>2 DEF Clients
  <2>7. /\ d.state = "ready" /\ d.mode = c.mode /\ d.build = c.build
        /\ d.session = t /\ d.since = 0
    BY <2>3 DEF Clients
  <2>8. Talks(d) /\ ~RotationDue(d)
    <3>1. ~(0 >= RotateEvery) BY RotateEveryAssumption
    <3>2. Len(t.root) >= 1
      <4>1. Len(t.root) \in Nat BY <2>4 DEF Sessions, Roots
      <4> QED BY <2>5, <4>1
    <3> QED BY <2>1, <2>4, <2>5, <2>7, <3>1, <3>2 DEF Talks, Fits, RotationDue
  <2>9. /\ Split(item) \in Seq(ClientPieces) /\ Len(Split(item)) = 3
        /\ \A j \in 1 .. 3 : Split(item)[j] = [item |-> item, piece |-> j]
    <3>1. item \in ClientItems /\ item.kind = "pubkey" BY <2>2 DEF ClientItems
    <3> HIDE DEF item
    <3> QED BY <3>1, SplitFacts, PieceCounts
  <2>10. \A j \in 1 .. Len(Announcement(c)) : Announcement(c)[j].item.kind = "pubkey"
    <3>1. Announcement(c) = Split(item) BY <2>3
    <3>2. ASSUME NEW j \in 1 .. 3 PROVE Split(item)[j].item.kind = "pubkey"
      <4>1. Split(item)[j].item = item BY <2>9
      <4>2. item.kind = "pubkey" OBVIOUS
      <4> QED BY <4>1, <4>2
    <3> HIDE DEF item
    <3> QED BY <2>9, <3>1, <3>2
  <2>11. Announcement(c) = Split([kind |-> "pubkey", pub |-> ClientKey(c.key + 1)])
    BY <2>3 DEF pub
  <2>12. Announcement(c) \in Seq(ClientPieces)
    BY <2>3, <2>9
  <2>13. Rotated(c).session = PrepareRatchetStep(c.session, ClientKey(c.key + 1))
         /\ ClientKey(c.key + 1) \in Keys
    BY <2>2, <2>7 DEF d, t, pub
  <2> HIDE DEF item
  <2> QED BY <1>2, <2>1, <2>6, <2>7, <2>8, <2>10, <2>11, <2>12, <2>13 DEF d
<1> QED BY <1>1, <1>2

LEMMA RotatesHonestly ==
  ASSUME NEW c \in Clients, Talks(c), c.state = "ready", NEW s \in Servers,
         NEW log, NEW after, NEW r \in Seq(ClientPieces),
         Whole(r), Keeps(c, log, after, s, r)
  PROVE  /\ Whole(r \o Announcement(c))
         /\ \E more : Keeps(Rotated(c), log, more, s, r \o Announcement(c))
<1>1. CASE ~RotationDue(c)
  <2>1. Rotated(c) = c /\ Announcement(c) = <<>>
    BY <1>1, RotationTypes
  <2>2. r \o <<>> = r
    OBVIOUS
  <2> QED BY <2>1, <2>2
<1>2. CASE RotationDue(c)
  <2> DEFINE pub  == ClientKey(c.key + 1)
             item == [kind |-> "pubkey", pub |-> pub]
             n    == Len(r)
             e    == after[n]
             d    == Rotated(c)
             t    == PrepareRatchetStep(c.session, pub)
             b    == [session |-> ApplyPeerRatchetKey(e.session, pub), count |-> e.count]
  <2>1. /\ c.mode = "ratchet" /\ c.session \in Sessions /\ pub \in Keys
        /\ d.session = t /\ d.state = "ready" /\ d.mode = "ratchet"
        /\ Announcement(c) = Split(item)
    BY <1>2, RotationTypes
  <2> HIDE DEF pub
  <2>2. item \in Pubkeys
    BY <2>1 DEF Pubkeys
  <2> HIDE DEF t, d
  <2>3. /\ Replays(log, s.mode, after, r) /\ s.mode = "ratchet"
        /\ after[0] = [session |-> s.session, count |-> Len(s.got)]
        /\ e.count = Len(log) /\ Mirrors(c.session, e.session)
    BY <2>1 DEF Keeps, Match
  <2>4. e \in Readers /\ e.session \in Sessions /\ Len(e.session.root) >= 1
    BY <2>3 DEF Replays, Fits
  <2>5. b \in Readers /\ Fits(s.mode, b.session)
    <3> DEFINE x == ApplyPeerRatchetKey(e.session, pub)
    <3>1. x \in Sessions /\ Len(x.root) = Len(e.session.root) + 1
      BY <2>1, <2>4, RatchetKeyType
    <3> HIDE DEF x
    <3>2. Len(e.session.root) \in Nat BY <2>4 DEF Sessions, Roots
    <3>3. Len(x.root) >= 1 BY <2>4, <3>1, <3>2
    <3>4. x \in AnySession BY <3>1, SessionKinds
    <3>5. e.count \in Nat BY <2>4 DEF Readers
    <3>6. b = [session |-> x, count |-> e.count] BY DEF x
    <3> HIDE DEF b
    <3>7. b.session = x /\ b \in Readers BY <3>4, <3>5, <3>6 DEF Readers
    <3> QED BY <2>3, <3>1, <3>3, <3>7 DEF Fits
  <2>6. Passes(log, s.mode, e, [item |-> item, piece |-> Pieces[item.kind]], b)
    <3> DEFINE p == [item |-> item, piece |-> Pieces[item.kind]]
    <3>1. p.item = item /\ p.piece = Pieces[p.item.kind]
      OBVIOUS
    <3>2. item.kind = "pubkey" /\ item.pub = pub
      OBVIOUS
    <3>3. b.session = ApplyPeerRatchetKey(e.session, pub) /\ b.count = e.count
      OBVIOUS
    <3> HIDE DEF p, item, b
    <3> QED BY <2>3, <3>1, <3>2, <3>3 DEF Passes, Completes
  <2>7. item.kind = "pubkey" /\ item \in Pubkeys \cup Frames
    BY <2>2
  <2> DEFINE longer == r \o Split(item)
  <2>8. PICK more : /\ Replays(log, s.mode, more, longer)
                     /\ more[0] = after[0] /\ more[Len(longer)] = b
    <3> HIDE DEF b, item
    <3>1. Replays(log, s.mode, after, r) BY <2>3
    <3>2. Continues(log, s.mode, after, r \o Split(item), b)
      BY <2>5, <2>6, <2>7, <3>1, ReplaysAppend
    <3> QED BY <3>2 DEF Continues
  <2>9. b.count = Len(log) /\ Mirrors(t, b.session)
    BY <2>1, <2>2, <2>3, <2>4, MirrorRotates DEF t
  <2> HIDE DEF b, item, longer, e
  <2>10. Keeps(d, log, more, s, longer)
    BY <2>1, <2>3, <2>8, <2>9 DEF Keeps, Match
  <2>11. Whole(longer) /\ Split(item) \in Seq(ClientPieces)
    <3>1. item \in ClientItems BY <2>2 DEF ClientItems
    <3> QED BY <3>1, WholeAppend, SplitFacts DEF longer
  <2> HIDE DEF t
  <2>12. Whole(r \o Announcement(c))
    BY <2>1, <2>11 DEF longer, item, pub
  <2>13. Keeps(Rotated(c), log, more, s, r \o Announcement(c))
    BY <2>1, <2>10 DEF longer, d, item, pub
  <2> QED BY <2>12, <2>13
<1> QED BY <1>1, <1>2

LEMMA SealTypes ==
  ASSUME NEW c \in Clients, Talks(c), c.state = "ready", ~RotationDue(c),
         NEW m \in Messages
  PROVE  /\ Sealed(c, m) \in RatchetCiphers \cup PlainCiphers
         /\ AfterSealing(c) \in Clients /\ Talks(AfterSealing(c))
         /\ AfterSealing(c).state = "ready" /\ AfterSealing(c).mode = c.mode
         /\ AfterSealing(c).build = c.build
         /\ c.mode = "ratchet" =>
              /\ Sealed(c, m) = Encrypt(c.session, m)
              /\ AfterSealing(c).session = AfterEncrypt(c.session)
              /\ Len(Sealed(c, m).key.root) >= 2
              /\ Sealed(c, m).key.step < RotateEvery
         /\ c.mode = "plain" =>
              /\ Sealed(c, m) = [key |-> c.session, plain |-> m]
              /\ AfterSealing(c) = c
<1>1. c.mode \in {"plain", "ratchet"}
  BY DEF Talks, Clients, Modes
<1>2. CASE c.mode = "plain"
  <2>1. Sealed(c, m) = [key |-> c.session, plain |-> m] /\ AfterSealing(c) = c
    BY <1>2 DEF Sealed, PlainCipher, AfterSealing
  <2>2. c.session \in SUBSET Keys
    BY <1>2 DEF Talks, Fits
  <2>3. Sealed(c, m) \in PlainCiphers
    BY <2>1, <2>2 DEF PlainCiphers
  <2> QED BY <1>2, <2>1, <2>3
<1>3. CASE c.mode = "ratchet"
  <2> DEFINE s == c.session
             d == AfterSealing(c)
  <2>1. /\ s \in Sessions /\ Len(s.root) >= 2 /\ Len(s.root) >= 1
        /\ s.send.root = s.root /\ s.send.step = c.since /\ s.send \in Chains
    BY <1>3 DEF Talks, Fits, Sessions
  <2>2. c.since \in 0 .. RotateEvery /\ c.since < RotateEvery
        /\ c.since + 1 \in 0 .. RotateEvery
    <3>1. c.since \in 0 .. RotateEvery BY DEF Clients
    <3>2. ~(c.since >= RotateEvery) BY <1>3 DEF RotationDue
    <3> QED BY <3>1, <3>2, RotateEveryAssumption
  <2>3. d = [c EXCEPT !.session = AfterEncrypt(s), !.since = c.since + 1]
    BY <1>3 DEF AfterSealing
  <2> HIDE DEF d
  <2>4. /\ Encrypt(s, m) \in RatchetCiphers
        /\ AfterEncrypt(s) \in Sessions /\ AfterEncrypt(s).root = s.root
        /\ AfterEncrypt(s).send = Advance(s.send)
        /\ Advance(s.send).root = s.send.root /\ Advance(s.send).step = s.send.step + 1
    BY <2>1, MessageTypes, AdvanceType
  <2>5. AfterEncrypt(s) \in AnySession
    BY <2>4, SessionKinds
  <2>6. d \in Clients
    BY <2>2, <2>3, <2>5 DEF Clients
  <2>7. /\ d.state = "ready" /\ d.mode = c.mode /\ d.build = c.build
        /\ d.session = AfterEncrypt(s) /\ d.since = c.since + 1
    BY <2>3 DEF Clients
  <2>8. Talks(d)
    BY <1>3, <2>1, <2>4, <2>7 DEF Talks, Fits
  <2>9. Sealed(c, m) = Encrypt(s, m) /\ Sealed(c, m).key = s.send
    BY <1>3 DEF Sealed, Encrypt
  <2> QED BY <1>3, <2>1, <2>2, <2>4, <2>6, <2>7, <2>8, <2>9 DEF d
<1> QED BY <1>1, <1>2, <1>3

LEMMA SealsHonestly ==
  ASSUME NEW c \in Clients, Talks(c), c.state = "ready", ~RotationDue(c),
         NEW s \in Servers, NEW log \in Seq(Messages), NEW m \in Messages, NEW after,
         NEW r \in Seq(ClientPieces), Keeps(c, log, after, s, r),
         NEW frame \in Frames, frame.kind = "frame", frame.cipher = Sealed(c, m)
  PROVE  \E more : Keeps(AfterSealing(c), Append(log, m), more, s, r \o Split(frame))
<1> DEFINE n == Len(r)
           e == after[n]
           d == AfterSealing(c)
           newLog == Append(log, m)
           x == Sealed(c, m)
           t == IF c.mode = "ratchet" THEN AfterDecrypt(e.session, x) ELSE e.session
           b == [session |-> t, count |-> e.count + 1]
           longer == r \o Split(frame)
<1>1. /\ Replays(log, s.mode, after, r) /\ s.mode = c.mode
      /\ after[0] = [session |-> s.session, count |-> Len(s.got)]
      /\ e.count = Len(log) /\ Match(c.mode, c.session, e.session)
  BY DEF Keeps
<1>2. e \in Readers /\ Fits(c.mode, e.session) /\ Len(log) \in Nat
  BY <1>1 DEF Replays
<1>3. Replays(newLog, s.mode, after, r)
  BY <1>1, ReplaysLonger
<1>4. Len(newLog) = Len(log) + 1 /\ newLog[Len(log) + 1] = m
  BY AppendProperties
<1>5. c.mode \in {"plain", "ratchet"}
  BY DEF Talks, Clients, Modes
<1>6. d.state = "ready" /\ d.mode = c.mode
  BY SealTypes
<1> HIDE DEF e, d, newLog, x
<1>7. t \in AnySession /\ Fits(c.mode, t) /\ Match(c.mode, d.session, t)
  <2>1. CASE c.mode = "ratchet"
    <3>1. /\ c.session \in Sessions /\ e.session \in Sessions
          /\ Len(e.session.root) >= 1 /\ Mirrors(c.session, e.session)
      BY <1>1, <1>2, <2>1 DEF Talks, Fits, Match
    <3>2. x = Encrypt(c.session, m) /\ d.session = AfterEncrypt(c.session)
      BY <2>1, SealTypes DEF x, d
    <3>3. t = AfterDecrypt(e.session, x)
      BY <2>1
    <3>4. Mirrors(d.session, t)
      BY <3>1, <3>2, <3>3, MirrorReads
    <3>5. t \in Sessions /\ t.root = e.session.root
      BY <3>1, <3>3, AfterDecryptType
    <3> QED BY <2>1, <3>1, <3>4, <3>5, SessionKinds DEF Fits, Match
  <2>2. CASE c.mode = "plain"
    <3>1. t = e.session /\ d = c
      BY <2>2, SealTypes DEF d
    <3> QED BY <1>1, <1>2, <2>2, <3>1 DEF Readers
  <2> QED BY <1>5, <2>1, <2>2
<1>8. /\ c.mode = "ratchet" => Decrypts(e.session, x)
      /\ c.mode = "plain" => x.key = e.session
      /\ x.plain = m
  <2>1. CASE c.mode = "ratchet"
    <3>1. /\ c.session \in Sessions /\ e.session \in Sessions
          /\ Mirrors(c.session, e.session)
      BY <1>1, <1>2, <2>1 DEF Talks, Fits, Match
    <3>2. x = Encrypt(c.session, m)
      BY <2>1, SealTypes DEF x
    <3> QED BY <2>1, <3>1, <3>2, MirrorReads DEF Encrypt
  <2>2. CASE c.mode = "plain"
    <3>1. x = [key |-> c.session, plain |-> m]
      BY <2>2, SealTypes DEF x
    <3>2. c.session = e.session
      BY <1>1, <2>2 DEF Match
    <3> QED BY <2>2, <3>1, <3>2
  <2> QED BY <1>5, <2>1, <2>2
<1>9. /\ c.mode = "ratchet" => t = AfterDecrypt(e.session, x)
      /\ c.mode = "plain" => t = e.session
  OBVIOUS
<1> HIDE DEF t
<1>10. b \in Readers /\ b.session = t /\ b.count = e.count + 1
  BY <1>2, <1>7 DEF Readers
<1> HIDE DEF b
<1>11. Passes(newLog, s.mode, e, [item |-> frame, piece |-> Pieces[frame.kind]], b)
  <2> DEFINE p == [item |-> frame, piece |-> Pieces[frame.kind]]
  <2>1. p.item = frame /\ p.piece = Pieces[p.item.kind]
    OBVIOUS
  <2>2. frame.kind = "frame" /\ frame.cipher = x
    BY DEF x
  <2> HIDE DEF p
  <2>3. e.count < Len(newLog) /\ newLog[e.count + 1] = m
    BY <1>1, <1>2, <1>4
  <2> QED BY <1>1, <1>5, <1>8, <1>9, <1>10, <2>1, <2>2, <2>3 DEF Passes, Completes
<1>12. PICK more : /\ Replays(newLog, s.mode, more, longer)
                   /\ more[0] = after[0] /\ more[Len(longer)] = b
  <2>1. Fits(s.mode, b.session) /\ frame \in Pubkeys \cup Frames
    BY <1>1, <1>7, <1>10
  <2>0. /\ b \in Readers
        /\ Passes(newLog, s.mode, after[Len(r)],
                  [item |-> frame, piece |-> Pieces[frame.kind]], b)
    BY <1>10, <1>11 DEF e
  <2>2. Continues(newLog, s.mode, after, r \o Split(frame), b)
    BY <1>3, <2>0, <2>1, ReplaysAppend
  <2> QED BY <2>2 DEF Continues
<1> HIDE DEF longer
<1>13. Keeps(d, newLog, more, s, longer)
  BY <1>1, <1>4, <1>6, <1>7, <1>10, <1>12 DEF Keeps
<1> QED BY <1>13 DEF d, newLog, longer

-----------------------------------------------------------------------------
(***************************************************************************)
(* A stream that is empty, and one that the server cannot decrypt.         *)
(***************************************************************************)
LEMMA EmptyHonest ==
  ASSUME NEW c, NEW s \in Servers, Able(s), s.got = <<>>,
         c.state = "ready" => c.mode = s.mode /\ Match(s.mode, c.session, s.session),
         s.mode = "ratchet" /\ ~s.ready => c.state = "closed"
  PROVE  Whole(<<>>) /\ Honest(c, <<>>, s, <<>>)
<1> DEFINE e == [session |-> s.session, count |-> 0]
           after == [j \in 0 .. 0 |-> e]
<1>1. after[0] = e /\ Len(<<>>) = 0
  OBVIOUS
<1>2. e \in Readers /\ e.session = s.session /\ e.count = 0
  BY DEF Readers, Servers
<1> HIDE DEF e, after
<1>3. Replays(<<>>, s.mode, after, <<>>)
  <2>1. ASSUME NEW j \in 0 .. 0
        PROVE  after[j] \in Readers /\ Fits(s.mode, after[j].session)
    <3>1. j = 0 OBVIOUS
    <3> QED BY <1>1, <1>2, <3>1 DEF Able
  <2> QED BY <1>1, <2>1 DEF Replays
<1>4. Keeps(c, <<>>, after, s, <<>>)
  BY <1>1, <1>2, <1>3 DEF Keeps, e
<1>5. RotatesFirst(c, s, <<>>)
  BY DEF RotatesFirst
<1>6. Whole(<<>>)
  BY DEF Whole
<1> QED BY <1>4, <1>5, <1>6 DEF Honest

LEMMA ConsumesForeign ==
  ASSUME NEW s \in Servers, NEW rest \in Seq(ClientPieces), NEW c,
         Foreign(c, s, s.buf \o rest)
  PROVE  ConsumeRatchetLines(s) = s
<1> DEFINE b == s.buf
           L == Leading(b, "pubkey")
<1>1. CASE s.mode # "ratchet"
  BY <1>1 DEF ConsumeRatchetLines
<1>2. CASE s.mode = "ratchet"
  <2>1. /\ b \in Seq(ClientPieces) /\ Len(b) \in Nat
        /\ L \in Nat /\ L * 3 <= Len(b)
        /\ \A i \in 1 .. L * 3 : b[i].item.kind = "pubkey"
    <3>1. b \in Seq(ClientPieces) BY DEF Servers
    <3> QED BY <3>1, LeadingLines
  <2>2. L = 0
    <3> SUFFICES ASSUME L # 0 PROVE FALSE
      OBVIOUS
    <3> HIDE DEF L
    <3>1. 1 \in 1 .. L * 3 /\ 1 \in 1 .. Len(b)
      <4>1. L \in Nat /\ L # 0 /\ L * 3 <= Len(b) /\ Len(b) \in Nat BY <2>1
      <4> QED BY <4>1
    <3>2. b[1].item.kind = "pubkey" BY <2>1, <3>1
    <3>3. (b \o rest)[1] = b[1] /\ 1 \in 1 .. Len(b \o rest)
      <4> HIDE DEF b
      <4>1. /\ Len(b \o rest) = Len(b) + Len(rest) /\ Len(rest) \in Nat /\ Len(b) \in Nat
            /\ \A j \in 1 .. Len(b) : (b \o rest)[j] = b[j]
        BY <2>1, ConcatFacts
      <4> QED BY <3>1, <4>1
    <3>4. (b \o rest)[1].item.kind = "frame" BY <3>3 DEF Foreign
    <3> QED BY <3>2, <3>3, <3>4
  <2>3. LeadingItems(b, "pubkey") = <<>>
    BY <2>2 DEF LeadingItems
  <2>4. AllLines(s, <<>>) = s
    <3>1. <<>> \in Seq(ClientItems) /\ Len(<<>>) = 0 OBVIOUS
    <3> DEFINE none == <<>>
    <3>2. none \in Seq(ClientItems) /\ Len(none) = 0 BY <3>1
    <3> HIDE DEF none
    <3>3. \E at : /\ at[0] = s
                  /\ \A i \in 1 .. Len(none) : at[i] = ApplyLine(at[i - 1], none[i])
                  /\ AllLines(s, none) = at[Len(none)]
      BY <3>2, LineSteps
    <3>4. AllLines(s, none) = s BY <3>2, <3>3
    <3> QED BY <3>4 DEF none
  <2>5. Beyond(b, "pubkey") = b
    <3>1. L * Pieces["pubkey"] = 0 BY <2>2, PieceCounts
    <3>2. Beyond(b, "pubkey") = Drop(b, 0) BY <3>1 DEF Beyond
    <3> HIDE DEF b
    <3> QED BY <2>1, <3>2 DEF Drop
  <2>6. ConsumeRatchetLines(s) = [s EXCEPT !.buf = b]
    BY <1>2, <2>3, <2>4, <2>5 DEF ConsumeRatchetLines, AllLines
  <2> QED BY <2>6 DEF Servers
<1> QED BY <1>1, <1>2

LEMMA ProcessesForeign ==
  ASSUME NEW s \in Servers, s.mode = "plain", Able(s),
         NEW rest \in Seq(ClientPieces), NEW c,
         Whole(s.buf \o rest), Foreign(c, s, s.buf \o rest)
  PROVE  LET t == ProcessMessage(s)
         IN  /\ t \in Servers /\ Able(t)
             /\ t.state = s.state /\ t.build = s.build /\ t.mode = s.mode
             /\ t.got = s.got /\ t.ready = s.ready
             /\ Whole(t.buf \o rest) /\ Foreign(c, t, t.buf \o rest)
             /\ FramesOnlyBehindRotation(t.buf)
<1> DEFINE b == s.buf
           r == b \o rest
           M == Leading(b, "frame")
           t == ProcessMessage(s)
<1>1. b \in Seq(ClientPieces) /\ M \in Nat
  <2>1. b \in Seq(ClientPieces) BY DEF Servers
  <2> QED BY <2>1, LeadingFrames
<1>2. PICK k \in SUBSET Keys :
         /\ \A j \in 1 .. Len(r) : /\ r[j].item.kind = "frame"
                                   /\ r[j].item.cipher.key = k
         /\ c.mode = "plain" => c.session = k
         /\ s.session # k
  BY DEF Foreign
<1> HIDE DEF b
<1>3. /\ r \in Seq(ClientPieces) /\ Len(r) = Len(b) + Len(rest) /\ Len(rest) \in Nat
      /\ Len(b) \in Nat /\ \A i \in 1 .. Len(b) : r[i] = b[i]
  BY <1>1, ConcatFacts
<1> HIDE DEF r
<1>4. \A j \in 1 .. Len(b) : /\ b[j].item.kind = "frame"
                             /\ b[j].item.cipher.key # s.session
  BY <1>2, <1>3
<1>5. AllFrames(s, LeadingItems(b, "frame")) = [s EXCEPT !.errors = @ + M]
  BY <1>4, ForeignFold DEF b
<1>6. t = [s EXCEPT !.errors = @ + M, !.buf = Drop(b, M * 2)]
  <2>1. t = [[s EXCEPT !.errors = @ + M] EXCEPT !.buf = Drop(b, M * 2)]
    BY <1>5, PieceCounts DEF ProcessMessage, Beyond, AllFrames, b
  <2> HIDE DEF t
  <2> QED BY <2>1 DEF Servers
<1> HIDE DEF t, M
<1>7. /\ M * 2 \in 0 .. Len(b) /\ Whole(Drop(r, M * 2))
      /\ FramesOnlyBehindRotation(Drop(b, M * 2))
  <2>1. Whole(r) BY DEF r, b
  <2> QED BY <1>1, <1>4, <2>1, BeyondFrames DEF r, M
<1>8. Drop(b, M * 2) \in Seq(ClientPieces) /\ Drop(b, M * 2) \o rest = Drop(r, M * 2)
  <2>1. Drop(b, M * 2) \in Seq(ClientPieces)
    BY <1>1, <1>7, DropFacts
  <2>2. Drop(b, M * 2) \o rest = Drop(b \o rest, M * 2)
    BY <1>1, <1>7, DropConcat
  <2> QED BY <2>1, <2>2 DEF r
<1>9. t \in Servers
  <2>1. s.errors + M \in Nat BY <1>1 DEF Servers
  <2> QED BY <1>6, <1>8, <2>1 DEF Servers
<1>10. /\ t.state = s.state /\ t.build = s.build /\ t.mode = s.mode
       /\ t.got = s.got /\ t.ready = s.ready /\ t.session = s.session
       /\ t.buf = Drop(b, M * 2)
  BY <1>6 DEF Servers
<1>11. Able(t)
  BY <1>10 DEF Able
<1>12. Foreign(c, t, t.buf \o rest)
  <2> DEFINE o == M * 2
             e == Drop(r, o)
  <2>1. o \in 0 .. Len(r) BY <1>3, <1>7
  <2>2. /\ Len(e) = Len(r) - o
        /\ \A j \in 1 .. Len(r) - o : e[j] = r[j + o]
    BY <1>3, <2>1, DropFacts
  <2>3. ASSUME NEW j \in 1 .. Len(e)
        PROVE  e[j].item.kind = "frame" /\ e[j].item.cipher.key = k
    <3>1. j \in 1 .. Len(r) - o /\ j + o \in 1 .. Len(r)
      BY <1>3, <2>1, <2>2
    <3> HIDE DEF e, o
    <3> QED BY <1>2, <2>2, <3>1
  <2> HIDE DEF e
  <2>4. Foreign(c, t, e)
    BY <1>2, <1>10, <2>3 DEF Foreign
  <2> QED BY <1>8, <1>10, <2>4 DEF e
<1> QED BY <1>7, <1>8, <1>9, <1>10, <1>11, <1>12 DEF t

-----------------------------------------------------------------------------
(***************************************************************************)
(* The invariant holds at the beginning.                                   *)
(***************************************************************************)
LEMMA LinkInit == Init => LinkInv
<1> SUFFICES ASSUME Init PROVE LinkInv
  OBVIOUS
<1>1. PICK mine \in Builds, theirs \in Builds :
        /\ client = [state |-> "connecting", build |-> mine, mode |-> "none",
                     session |-> NoSession, key |-> 0, since |-> 0]
        /\ server = [state |-> "open", build |-> theirs, mode |-> "none",
                     session |-> NoSession, ready |-> FALSE, buf |-> <<>>,
                     got |-> <<>>, errors |-> 0]
  BY DEF Init
<1>2. /\ c2s = <<>> /\ s2c = <<>> /\ sent = <<>>
      /\ failed = FALSE /\ torn = FALSE /\ clientFirst \in BOOLEAN
  BY DEF Init
<1>3. /\ client.state = "connecting" /\ client.mode = "none"
      /\ client.session = NoSession /\ client.since = 0
      /\ server.state = "open" /\ server.mode = "none"
      /\ server.session = NoSession /\ server.ready = FALSE /\ server.buf = <<>>
      /\ server.got = <<>> /\ server.errors = 0
  BY <1>1
<1>4. LinkTypes
  <2>1. 0 \in 0 .. RotateEvery BY RotateEveryAssumption
  <2>2. client \in Clients BY <1>1, <2>1, SessionKinds DEF Clients, Modes
  <2>3. server \in Servers BY <1>1, SessionKinds DEF Servers, Modes
  <2>4. /\ c2s \in Seq(ClientPieces) /\ s2c \in Seq(ServerPieces)
        /\ sent \in Seq(Messages)
    BY <1>2
  <2>5. failed \in BOOLEAN /\ torn \in BOOLEAN
    BY <1>2
  <2> QED BY <1>2, <2>2, <2>3, <2>4, <2>5 DEF LinkTypes
<1>5. ClientShape /\ ServerShape
  BY <1>2, <1>3 DEF ClientShape, ServerShape, Talks, Able, Fits
<1>6. Rest = <<>>
  BY <1>2, <1>3 DEF Rest
<1>7. Handshake /\ Flow
  BY <1>2, <1>3, <1>6 DEF Handshake, Flow
<1>8. Copies(server.got, sent)
  BY <1>2, <1>3 DEF Copies, Take
<1>9. NothingGarbled /\ HealthyStaysOpen /\ ModesAgree
  BY <1>3 DEF NothingGarbled, HealthyStaysOpen, StaysOpen, ModesAgree
<1>10. FreshEnoughKeys /\ StuckOnlyBehindRotation
  BY <1>2, <1>3 DEF FreshEnoughKeys, StuckOnlyBehindRotation
<1> QED BY <1>4, <1>5, <1>7, <1>8, <1>9, <1>10 DEF LinkInv

-----------------------------------------------------------------------------
(***************************************************************************)
(* The server reads.                                                       *)
(***************************************************************************)
Fresh(q) ==
  \A i \in 1 .. Len(q) : RatchetFrame(q[i]) =>
    /\ Len(q[i].item.cipher.key.root) >= 2
    /\ q[i].item.cipher.key.step < RotateEvery

LEMMA FreshDrop ==
  ASSUME NEW q \in Seq(ClientPieces), NEW n \in 0 .. Len(q), Fresh(q)
  PROVE  Fresh(Drop(q, n))
<1> DEFINE d == Drop(q, n)
<1>1. Len(d) = Len(q) - n /\ Len(q) \in Nat /\ \A j \in 1 .. Len(q) - n : d[j] = q[j + n]
  BY DropFacts
<1> HIDE DEF d
<1>2. ASSUME NEW j \in 1 .. Len(d), RatchetFrame(d[j])
      PROVE  /\ Len(d[j].item.cipher.key.root) >= 2
             /\ d[j].item.cipher.key.step < RotateEvery
  <2>1. d[j] = q[j + n] /\ j + n \in 1 .. Len(q) BY <1>1
  <2> QED BY <1>2, <2>1 DEF Fresh
<1> QED BY <1>2 DEF Fresh, d

LEMMA FreshConcat ==
  ASSUME NEW b \in Seq(ClientPieces), NEW c \in Seq(ClientPieces), Fresh(b), Fresh(c)
  PROVE  Fresh(b \o c)
<1> DEFINE d == b \o c
<1>1. /\ Len(d) = Len(b) + Len(c) /\ Len(b) \in Nat /\ Len(c) \in Nat
      /\ \A j \in 1 .. Len(b) : d[j] = b[j]
      /\ \A j \in Len(b) + 1 .. Len(b) + Len(c) : d[j] = c[j - Len(b)]
  BY ConcatFacts
<1> HIDE DEF d
<1>2. ASSUME NEW j \in 1 .. Len(d), RatchetFrame(d[j])
      PROVE  /\ Len(d[j].item.cipher.key.root) >= 2
             /\ d[j].item.cipher.key.step < RotateEvery
  <2>1. CASE j \in 1 .. Len(b) BY <1>1, <1>2, <2>1 DEF Fresh
  <2>2. CASE j \in Len(b) + 1 .. Len(b) + Len(c)
    <3>1. d[j] = c[j - Len(b)] /\ j - Len(b) \in 1 .. Len(c) BY <1>1, <2>2
    <3> QED BY <1>2, <3>1 DEF Fresh
  <2>3. j \in 1 .. Len(b) \/ j \in Len(b) + 1 .. Len(b) + Len(c)
    <3>1. j \in 1 .. Len(b) + Len(c) /\ Len(b) \in Nat /\ Len(c) \in Nat BY <1>1
    <3> QED BY <3>1
  <2> QED BY <2>1, <2>2, <2>3
<1> QED BY <1>2 DEF Fresh, d

\* What a read leaves to be read.
LEMMA ReadFacts ==
  ASSUME LinkInv, NEW n, ServerReads(n)
  PROVE  /\ Live /\ failed' = failed /\ client' = client /\ sent' = sent
         /\ clientFirst' = clientFirst /\ (torn => torn') /\ torn' \in BOOLEAN
         /\ Buffered(n) \in Seq(ClientPieces) /\ c2s' \in Seq(ClientPieces)
         /\ Buffered(n) \o c2s' = Rest
         /\ Rest \in Seq(ClientPieces) /\ Len(Rest) >= Len(Buffered(n))
         /\ Len(Buffered(n)) >= 1 /\ Len(Buffered(n)) \in Nat
         /\ \A i \in 1 .. Len(Buffered(n)) : Buffered(n)[i] = Rest[i]
         /\ Len(Buffered(n)) < 2 => torn' = (torn \/ Tears(Rest, 1))
         /\ FreshEnoughKeys'
<1>1. /\ n \in 1 .. Len(c2s) /\ c2s \in Seq(ClientPieces)
      /\ server.buf \in Seq(ClientPieces) /\ Len(c2s) \in Nat /\ n \in 0 .. Len(c2s)
      /\ Len(server.buf) \in Nat
  BY DEF LinkInv, LinkTypes, ServerReads, Reads, Servers
<1>2. /\ Live /\ failed' = failed /\ client' = client /\ sent' = sent
      /\ clientFirst' = clientFirst /\ torn' = (torn \/ Tears(c2s, n))
      /\ c2s' = Drop(c2s, n)
  BY DEF ServerReads, Live, LinkInv, LinkTypes
<1>3. /\ Take(c2s, n) \in Seq(ClientPieces) /\ Len(Take(c2s, n)) = n
      /\ Drop(c2s, n) \in Seq(ClientPieces) /\ Len(Drop(c2s, n)) = Len(c2s) - n
      /\ \A j \in 1 .. n : Take(c2s, n)[j] = c2s[j]
  BY <1>1, DropFacts
<1> DEFINE b == Buffered(n)
           t == Take(c2s, n)
<1>4. /\ b \in Seq(ClientPieces) /\ Len(b) = Len(server.buf) + n
      /\ \A j \in Len(server.buf) + 1 .. Len(server.buf) + n :
           b[j] = t[j - Len(server.buf)]
  <2> HIDE DEF t
  <2>1. t \in Seq(ClientPieces) /\ Len(t) = n BY <1>3 DEF t
  <2>2. b = server.buf \o t BY DEF Buffered, t
  <2> QED BY <1>1, <2>1, <2>2, ConcatFacts
<1>5. b \o c2s' = Rest
  BY <1>1, <1>2, TakeDrop DEF Buffered, Rest
<1> HIDE DEF b
<1>6. /\ Rest \in Seq(ClientPieces) /\ Len(Rest) = Len(b) + Len(c2s')
      /\ Len(c2s') \in Nat /\ Len(b) \in Nat
      /\ \A i \in 1 .. Len(b) : Rest[i] = b[i]
  <2>1. c2s' \in Seq(ClientPieces) BY <1>2, <1>3
  <2>2. /\ b \o c2s' \in Seq(ClientPieces) /\ Len(b \o c2s') = Len(b) + Len(c2s')
        /\ Len(c2s') \in Nat /\ Len(b) \in Nat
        /\ \A i \in 1 .. Len(b) : (b \o c2s')[i] = b[i]
    <3> DEFINE d == c2s'
    <3>1. b \in Seq(ClientPieces) /\ d \in Seq(ClientPieces) BY <1>4, <2>1
    <3> HIDE DEF d
    <3>2. /\ b \o d \in Seq(ClientPieces) /\ Len(b \o d) = Len(b) + Len(d)
          /\ Len(d) \in Nat /\ Len(b) \in Nat
          /\ \A i \in 1 .. Len(b) : (b \o d)[i] = b[i]
      BY <3>1, ConcatFacts
    <3> QED BY <3>2 DEF d
  <2> QED BY <1>5, <2>2
<1>7. Len(b) >= 1 /\ Len(Rest) >= Len(b)
  BY <1>1, <1>4, <1>6
<1>8. ASSUME Len(b) < 2 PROVE torn' = (torn \/ Tears(Rest, 1))
  <2>1. n = 1 /\ Len(server.buf) = 0 /\ Len(b) = 1
    BY <1>1, <1>4, <1>7, <1>8
  <2>2. Rest[1] = c2s[1]
    <3>1. 1 \in Len(server.buf) + 1 .. Len(server.buf) + n /\ 1 - Len(server.buf) = 1
          /\ 1 \in 1 .. n /\ 1 \in 1 .. Len(b)
      BY <2>1
    <3>2. b[1] = t[1] BY <1>4, <3>1
    <3>3. t[1] = c2s[1] BY <1>3, <3>1
    <3>4. Rest[1] = b[1] BY <1>6, <3>1
    <3> QED BY <3>2, <3>3, <3>4
  <2>3. Tears(c2s, n) = Tears(Rest, 1)
    BY <2>1, <2>2 DEF Tears, Completes
  <2> QED BY <1>2, <2>3
<1>9. FreshEnoughKeys'
  <2>1. Fresh(c2s) BY DEF LinkInv, FreshEnoughKeys, Fresh
  <2>2. Fresh(Drop(c2s, n)) BY <1>1, <2>1, FreshDrop
  <2> QED BY <1>2, <2>2 DEF FreshEnoughKeys, Fresh
<1>10. (torn => torn') /\ torn' \in BOOLEAN
  BY <1>2 DEF LinkInv, LinkTypes
<1> QED BY <1>2, <1>3, <1>4, <1>5, <1>6, <1>7, <1>8, <1>9, <1>10 DEF b

-----------------------------------------------------------------------------
(***************************************************************************)
(* The server before the handshake.                                        *)
(***************************************************************************)
LEMMA ItemTypes ==
  ASSUME LinkTypes
  PROVE  /\ Hello \in ClientItems /\ Hello.kind = "hello" /\ Hello.key = ClientKey(0)
         /\ Hello.build = client.build
         /\ Ack \in Answers /\ Ack.kind = "ack" /\ Ack.key = ServerKey
         /\ Ack.build = server.build
         /\ Nack \in Answers /\ Nack.kind = "nack"
         /\ ServerKey \in Keys /\ ClientKey(0) \in Keys /\ BrokenKey \in Keys
<1>1. client.build \in Builds /\ server.build \in Builds
  BY DEF LinkTypes, Clients, Servers
<1>2. ServerKey \in Keys /\ ClientKey(0) \in Keys /\ BrokenKey \in Keys
  BY DEF ServerKey, ClientKey, BrokenKey, Keys
<1>3. Hello \in Hellos
  BY <1>1, <1>2 DEF Hello, Hellos
<1>4. Ack \in [kind : {"ack"}, key : Keys, build : Builds]
  BY <1>1, <1>2 DEF Ack
<1>5. Nack \in [kind : {"nack"}]
  BY DEF Nack
<1> QED BY <1>2, <1>3, <1>4, <1>5 DEF ClientItems, Answers, Hello, Ack, Nack

LEMMA EarlyRead ==
  ASSUME LinkInv, NEW n, ServerReads(n), ~Handshaked(server)
  PROVE  /\ client.state = "awaiting" /\ Rest = Split(Hello) /\ Len(Rest) = 3
         /\ Len(Buffered(n)) \in 1 .. 3
         /\ \A i \in 1 .. 3 : Rest[i] = [item |-> Hello, piece |-> i]
         /\ \A i \in 1 .. Len(Buffered(n)) : Buffered(n)[i].item = Hello
         /\ s2c = <<>> /\ server.state = "open" /\ server.mode = "none"
         /\ server.got = <<>> /\ server.errors = 0 /\ sent = <<>>
         /\ server.session = NoSession /\ server.ready = FALSE
         /\ client.mode = "none"
<1>1. /\ Live /\ Len(Rest) >= Len(Buffered(n)) /\ Len(Buffered(n)) >= 1
      /\ Len(Buffered(n)) \in Nat
      /\ \A i \in 1 .. Len(Buffered(n)) : Buffered(n)[i] = Rest[i]
  BY ReadFacts
<1>2. server.mode = "none" /\ server.state = "open" /\ ~failed
  BY <1>1 DEF Handshaked, Live
<1>3. /\ Split(Hello) \in Seq(ClientPieces) /\ Len(Split(Hello)) = 3
      /\ \A i \in 1 .. 3 : Split(Hello)[i] = [item |-> Hello, piece |-> i]
  <2>1. Hello \in ClientItems /\ Hello.kind = "hello"
    BY ItemTypes DEF LinkInv
  <2> HIDE DEF Hello
  <2> QED BY <2>1, SplitFacts, PieceCounts
<1>4. client.state = "awaiting" /\ Rest = Split(Hello)
  <2>1. /\ client.state \in {"connecting", "awaiting"}
        /\ Rest = IF client.state = "connecting" THEN <<>> ELSE Split(Hello)
    BY <1>1, <1>2 DEF LinkInv, Handshake
  <2>2. client.state = "connecting" => Len(Rest) = 0
    BY <2>1
  <2>3. client.state # "connecting"
    BY <1>1, <2>2
  <2> QED BY <2>1, <2>3
<1>5. s2c = <<>>
  BY <1>2, <1>4 DEF LinkInv, Handshake
<1>6. Len(Buffered(n)) \in 1 .. 3
  <2> DEFINE x == Len(Buffered(n))
  <2>1. Len(Rest) = 3 BY <1>3, <1>4
  <2>2. 3 >= x /\ x >= 1 /\ x \in Nat BY <1>1, <2>1
  <2> HIDE DEF x
  <2>3. x \in 1 .. 3 BY <2>2
  <2> QED BY <2>3 DEF x
<1>7. \A i \in 1 .. Len(Buffered(n)) : Buffered(n)[i].item = Hello
  <2> TAKE i \in 1 .. Len(Buffered(n))
  <2>1. i \in 1 .. 3
    <3> DEFINE x == Len(Buffered(n))
    <3>1. i \in 1 .. x /\ x \in 1 .. 3 BY <1>6
    <3> HIDE DEF x
    <3> QED BY <3>1
  <2>2. Buffered(n)[i] = [item |-> Hello, piece |-> i] BY <1>1, <1>3, <1>4, <2>1
  <2> QED BY <2>2
<1>8. server.ready = FALSE
  BY <1>2 DEF LinkInv, LinkTypes, Servers, ServerShape, Able
<1> QED BY <1>2, <1>3, <1>4, <1>5, <1>7, <1>6, <1>8
        DEF LinkInv, ServerShape, ClientShape, Talks, Able, Fits

\* What stays true when the server has closed its end.
LEMMA ServerClosed ==
  ASSUME LinkInv, NEW s \in Servers, s.got = server.got,
         s.errors = server.errors, s.build = server.build,
         server' = ServerForgets(s), client' = client, sent' = sent,
         c2s' \in Seq(ClientPieces), s2c' \in Seq(ServerPieces),
         failed' = failed, clientFirst' = clientFirst,
         torn' \in BOOLEAN, torn => torn', FreshEnoughKeys',
         client.state # "connecting",
         client.state = "awaiting" /\ ~failed =>
           s2c' = <<>> \/ (s2c' = Split(Nack) /\ ~Compatible),
         torn' \/ ~Compatible \/ failed \/ client.state = "closed"
  PROVE  LinkInv'
<1>1. server' = [s EXCEPT !.state = "closed", !.mode = "none", !.buf = <<>>,
                          !.session = NoSession, !.ready = FALSE]
  BY DEF ServerForgets
<1>2. /\ server'.state = "closed" /\ server'.mode = "none" /\ server'.buf = <<>>
      /\ server'.session = NoSession /\ server'.ready = FALSE
      /\ server'.got = server.got /\ server'.errors = server.errors
      /\ server'.build = server.build
  BY <1>1 DEF Servers
<1>3. server' \in Servers
  <2>1. "none" \in Modes BY DEF Modes
  <2>2. <<>> \in Seq(ClientPieces) /\ NoSession \in AnySession BY SessionKinds
  <2>3. "closed" \in {"open", "closed"} /\ FALSE \in BOOLEAN OBVIOUS
  <2> QED BY <1>1, <2>1, <2>2, <2>3 DEF Servers
<1>4. LinkTypes'
  BY <1>3 DEF LinkInv, LinkTypes
<1>5. ClientShape' /\ ServerShape'
  BY <1>2 DEF LinkInv, ClientShape, ServerShape, Talks, Able, Fits
<1>6. Nack' = Nack /\ Compatible' = Compatible
  BY <1>2 DEF Nack, Compatible
<1>7. Handshake' /\ Flow'
  BY <1>2, <1>6 DEF Handshake, Flow, Live
<1>8. Copies(server.got, sent)'
  BY <1>2 DEF LinkInv
<1>9. NothingGarbled' /\ ModesAgree'
  BY <1>2 DEF LinkInv, NothingGarbled, ModesAgree
<1>10. HealthyStaysOpen'
  <2>1. client.state = "closed" => ~Compatible \/ failed \/ torn
    BY DEF LinkInv, HealthyStaysOpen, StaysOpen
  <2> QED BY <1>6, <2>1 DEF HealthyStaysOpen
<1>11. StuckOnlyBehindRotation'
  BY <1>2 DEF StuckOnlyBehindRotation
<1> QED BY <1>4, <1>5, <1>7, <1>8, <1>9, <1>10, <1>11 DEF LinkInv

LEMMA RefusesEarlyDataInv == LinkInv /\ ServerRefusesEarlyData => LinkInv'
<1> SUFFICES ASSUME LinkInv, NEW n, ServerReads(n), ~Handshaked(server),
                    ~StartsWith(Buffered(n), "hello"),
                    server' = ServerForgets(server), s2c' = s2c
             PROVE  LinkInv'
  BY DEF ServerRefusesEarlyData
<1>1. /\ Live /\ failed' = failed /\ client' = client /\ sent' = sent
      /\ clientFirst' = clientFirst /\ (torn => torn') /\ torn' \in BOOLEAN
      /\ c2s' \in Seq(ClientPieces)
      /\ Len(Buffered(n)) < 2 => torn' = (torn \/ Tears(Rest, 1))
      /\ FreshEnoughKeys'
  BY ReadFacts
<1>2. /\ client.state = "awaiting" /\ Len(Buffered(n)) \in 1 .. 3
      /\ Rest[1] = [item |-> Hello, piece |-> 1]
      /\ Buffered(n)[1].item = Hello /\ s2c = <<>>
  <2>1. 1 \in 1 .. 3 OBVIOUS
  <2>2. Len(Buffered(n)) \in 1 .. 3 BY EarlyRead
  <2>3. 1 \in 1 .. Len(Buffered(n)) BY <2>2
  <2> QED BY <2>1, <2>2, <2>3, EarlyRead
<1>3. Hello.kind = "hello"
  BY ItemTypes DEF LinkInv
<1>4. Len(Buffered(n)) < 2
  BY <1>2, <1>3 DEF StartsWith
<1>5. Tears(Rest, 1)
  <2>1. Rest[1].item = Hello /\ Rest[1].piece = 1 BY <1>2
  <2> QED BY <1>3, <2>1 DEF Tears
<1>6. torn'
  BY <1>1, <1>4, <1>5
<1>7. server \in Servers /\ s2c' \in Seq(ServerPieces)
  BY DEF LinkInv, LinkTypes
<1> QED BY <1>1, <1>2, <1>6, <1>7, ServerClosed

LEMMA RejectsInv == LinkInv /\ ServerRejects => LinkInv'
<1> SUFFICES ASSUME LinkInv, NEW n, ServerReads(n), ~Handshaked(server),
                    ~IsCompatibleWith(server.build, Buffered(n)[1].item.build),
                    s2c' = s2c \o Split([kind |-> "nack"]),
                    server' = ServerForgets(server)
             PROVE  LinkInv'
  BY DEF ServerRejects
<1>1. /\ Live /\ failed' = failed /\ client' = client /\ sent' = sent
      /\ clientFirst' = clientFirst /\ (torn => torn') /\ torn' \in BOOLEAN
      /\ c2s' \in Seq(ClientPieces) /\ FreshEnoughKeys'
  BY ReadFacts
<1>2. /\ client.state = "awaiting" /\ Buffered(n)[1].item = Hello /\ s2c = <<>>
  <2>1. 1 \in 1 .. Len(Buffered(n))
    <3>1. Len(Buffered(n)) \in 1 .. 3 BY EarlyRead
    <3> QED BY <3>1
  <2> QED BY <2>1, EarlyRead
<1>3. ~Compatible
  <2>1. Hello.build = client.build BY ItemTypes DEF LinkInv
  <2> QED BY <1>2, <2>1 DEF Compatible
<1>4. s2c' = Split(Nack) /\ Split(Nack) \in Seq(ServerPieces)
  <2>1. Split(Nack) \in Seq(ServerPieces)
    BY ItemTypes, SplitAnswer DEF LinkInv
  <2>2. <<>> \o Split(Nack) = Split(Nack) BY <2>1
  <2> QED BY <1>2, <2>1, <2>2 DEF Nack
<1>5. server \in Servers
  BY DEF LinkInv, LinkTypes
<1> QED BY <1>1, <1>2, <1>3, <1>4, <1>5, ServerClosed

LEMMA AwaitsHelloInv == LinkInv /\ ServerAwaitsHello => LinkInv'
<1> SUFFICES ASSUME LinkInv, NEW n, ServerReads(n), ~Handshaked(server),
                    server' = [server EXCEPT !.buf = Buffered(n)], s2c' = s2c
             PROVE  LinkInv'
  BY DEF ServerAwaitsHello, ServerWaits
<1>1. /\ Live /\ failed' = failed /\ client' = client /\ sent' = sent
      /\ clientFirst' = clientFirst /\ (torn => torn') /\ torn' \in BOOLEAN
      /\ Buffered(n) \in Seq(ClientPieces) /\ c2s' \in Seq(ClientPieces)
      /\ Buffered(n) \o c2s' = Rest /\ FreshEnoughKeys'
  BY ReadFacts
<1>2. /\ client.state = "awaiting" /\ server.mode = "none"
      /\ \A i \in 1 .. Len(Buffered(n)) : Buffered(n)[i].item = Hello
  BY EarlyRead
<1>3. /\ server'.state = server.state /\ server'.mode = server.mode
      /\ server'.buf = Buffered(n) /\ server'.session = server.session
      /\ server'.ready = server.ready /\ server'.got = server.got
      /\ server'.errors = server.errors /\ server'.build = server.build
      /\ server' \in Servers
  BY <1>1 DEF LinkInv, LinkTypes, Servers
<1>4. LinkTypes'
  BY <1>1, <1>3 DEF LinkInv, LinkTypes
<1>5. ClientShape' /\ ServerShape'
  BY <1>1, <1>2, <1>3
     DEF LinkInv, Live, ClientShape, ServerShape, Talks, Able, Fits
<1>6. Rest' = Rest
  BY <1>1, <1>3 DEF Rest
<1>7. Compatible' = Compatible /\ Nack' = Nack /\ Ack' = Ack /\ Hello' = Hello
  BY <1>1, <1>3 DEF Compatible, Nack, Ack, Hello
<1>8. Handshake' /\ Flow'
  BY <1>1, <1>2, <1>3, <1>6, <1>7 DEF LinkInv, Handshake, Flow, Live
<1>9. Copies(server.got, sent)'
  BY <1>1, <1>3 DEF LinkInv
<1>10. NothingGarbled' /\ HealthyStaysOpen' /\ ModesAgree'
  BY <1>1, <1>2, <1>3, <1>7
     DEF LinkInv, NothingGarbled, HealthyStaysOpen, StaysOpen, ModesAgree, Live
<1>11. StuckOnlyBehindRotation'
  <2>1. Hello.kind = "hello" BY ItemTypes DEF LinkInv
  <2> QED BY <1>2, <1>3, <2>1 DEF StuckOnlyBehindRotation
<1> QED BY <1>1, <1>4, <1>5, <1>8, <1>9, <1>10, <1>11 DEF LinkInv

LEMMA NewSessionType ==
  ASSUME NEW self \in Keys, NEW peer \in Keys, NEW selfFirst \in BOOLEAN
  PROVE  /\ NewSession(self, peer, selfFirst) \in Sessions
         /\ NewSession(self, peer, selfFirst).root = <<{self, peer}>>
         /\ Len(NewSession(self, peer, selfFirst).root) = 1
<1> DEFINE root == <<{self, peer}>>
           out  == IF selfFirst THEN "send" ELSE "recv"
           in   == IF selfFirst THEN "recv" ELSE "send"
<1>1. root \in Roots /\ Len(root) = 1
  BY DEF Roots
<1> HIDE DEF root
<1>2. Chain(root, out) \in Chains /\ Chain(root, in) \in Chains
  BY <1>1 DEF Chain, Chains, Labels
<1>3. 0 \in Counters
  BY CounterModAssumption DEF Counters
<1>4. NewSession(self, peer, selfFirst)
        = [root |-> root, send |-> Chain(root, out), recv |-> Chain(root, in),
           sendCtr |-> 0, recvCtr |-> 0, self |-> self, peer |-> peer]
  BY DEF NewSession, root
<1> HIDE DEF out, in
<1>5. NewSession(self, peer, selfFirst) \in Sessions
  BY <1>1, <1>2, <1>3, <1>4 DEF Sessions
<1> QED BY <1>1, <1>4, <1>5 DEF root

LEMMA NewServerSessionType ==
  ASSUME NEW mode \in {"plain", "ratchet"}, clientFirst \in BOOLEAN
  PROVE  /\ NewServerSession(mode, ClientKey(0)) \in AnySession
         /\ Fits(mode, NewServerSession(mode, ClientKey(0)))
<1>1. ServerKey \in Keys /\ ClientKey(0) \in Keys
  BY DEF ServerKey, ClientKey, Keys
<1>2. CASE mode = "ratchet"
  <2> DEFINE s == NewSession(ServerKey, ClientKey(0), ~clientFirst)
  <2>1. (~clientFirst) \in BOOLEAN OBVIOUS
  <2>2. s \in Sessions /\ Len(s.root) = 1 BY <1>1, <2>1, NewSessionType
  <2>3. NewServerSession(mode, ClientKey(0)) = s BY <1>2 DEF NewServerSession
  <2> HIDE DEF s
  <2>4. s \in AnySession BY <2>2, SessionKinds
  <2>5. Len(s.root) >= 1 BY <2>2
  <2>6. Fits("ratchet", s) BY <2>2, <2>5 DEF Fits
  <2> QED BY <1>2, <2>3, <2>4, <2>6
<1>3. CASE mode = "plain"
  <2> DEFINE k == PlainSession(ServerKey, ClientKey(0))
  <2>1. k \in SUBSET Keys BY <1>1 DEF PlainSession
  <2>2. NewServerSession(mode, ClientKey(0)) = k BY <1>3 DEF NewServerSession
  <2> HIDE DEF k
  <2> QED BY <1>3, <2>1, <2>2, SessionKinds DEF Fits
<1> QED BY <1>2, <1>3

LEMMA AcceptsInv == LinkInv /\ ServerAccepts => LinkInv'
<1> SUFFICES ASSUME LinkInv, ServerAccepts PROVE LinkInv'
  OBVIOUS
<1>0. PICK n \in Reads(c2s) :
        LET hello == Buffered(n)[1].item
            mode  == IF SupportsRatchet(server.build, hello.build) THEN "ratchet"
                                                                   ELSE "plain"
        IN  /\ ServerReads(n) /\ ~Handshaked(server)
            /\ StartsWhole(Buffered(n), "hello")
            /\ IsCompatibleWith(server.build, hello.build)
            /\ server' = [server EXCEPT
                            !.mode = mode, !.session = NewServerSession(mode, hello.key),
                            !.buf = Drop(Buffered(n), Pieces["hello"])]
            /\ s2c' = s2c \o Split([kind |-> "ack", key |-> ServerKey,
                                    build |-> server.build])
  BY DEF ServerAccepts
<1> DEFINE b == Buffered(n)
           mode == AgreedMode
           session == NewServerSession(mode, ClientKey(0))
<1>1. /\ Live /\ failed' = failed /\ client' = client /\ sent' = sent
      /\ clientFirst' = clientFirst /\ (torn => torn') /\ torn' \in BOOLEAN
      /\ b \in Seq(ClientPieces) /\ c2s' \in Seq(ClientPieces)
      /\ b \o c2s' = Rest /\ FreshEnoughKeys'
  BY <1>0, ReadFacts
<1>2. /\ client.state = "awaiting" /\ server.mode = "none" /\ client.mode = "none"
      /\ Len(Rest) = 3 /\ s2c = <<>> /\ server.got = <<>> /\ server.errors = 0
      /\ sent = <<>> /\ server.ready = FALSE
  BY <1>0, EarlyRead
<1>3. b[1].item = Hello
  <2>1. Len(b) \in 1 .. 3 BY <1>0, EarlyRead
  <2>2. \A i \in 1 .. Len(b) : b[i].item = Hello BY <1>0, EarlyRead
  <2>3. 1 \in 1 .. Len(b) BY <2>1
  <2> HIDE DEF b
  <2> QED BY <2>2, <2>3
<1>4. Hello.build = client.build /\ Hello.key = ClientKey(0)
  BY ItemTypes DEF LinkInv
<1>5. /\ Compatible /\ StartsWhole(b, "hello")
      /\ server' = [server EXCEPT !.mode = mode, !.session = session,
                                  !.buf = Drop(b, Pieces["hello"])]
  BY <1>0, <1>3, <1>4 DEF Compatible, AgreedMode
<1>6. s2c' = Split(Ack) /\ Split(Ack) \in Seq(ServerPieces)
  <2>1. Split(Ack) \in Seq(ServerPieces)
    BY ItemTypes, SplitAnswer DEF LinkInv
  <2>2. <<>> \o Split(Ack) = Split(Ack) BY <2>1
  <2> QED BY <1>0, <1>2, <2>1, <2>2 DEF Ack
<1> HIDE DEF b
<1>7. Drop(b, Pieces["hello"]) = <<>> /\ c2s' = <<>>
  <2> DEFINE d == c2s'
  <2>1. Len(b) >= 3 BY <1>5, PieceCounts DEF StartsWhole
  <2>2. d \in Seq(ClientPieces) BY <1>1
  <2> HIDE DEF d
  <2>3. Len(b \o d) = Len(b) + Len(d) /\ Len(b) \in Nat /\ Len(d) \in Nat
    BY <1>1, <2>2, ConcatFacts
  <2>4. b \o d = Rest BY <1>1 DEF d
  <2>5. Len(b) = 3 /\ Len(d) = 0
    <3>1. Len(b \o d) = Len(Rest) BY <2>4
    <3>2. Len(Rest) = 3 BY <1>2
    <3> DEFINE x == Len(b \o d)
               l == Len(b)
               k == Len(d)
    <3>3. x = 3 /\ x = l + k /\ l \in Nat /\ k \in Nat /\ l >= 3
      BY <2>1, <2>3, <3>1, <3>2
    <3> HIDE DEF x, l, k
    <3>4. l = 3 /\ k = 0 BY <3>3
    <3> QED BY <3>4 DEF l, k
  <2>6. d = <<>> BY <2>2, <2>5
  <2>7. Drop(b, 3) \in Seq(ClientPieces) /\ Len(Drop(b, 3)) = 0
    <3>1. 3 \in 0 .. Len(b) BY <2>5
    <3>2. Drop(b, 3) \in Seq(ClientPieces) /\ Len(Drop(b, 3)) = Len(b) - 3
      BY <1>1, <3>1, DropFacts
    <3> QED BY <2>5, <3>2
  <2>8. Drop(b, 3) = <<>> BY <2>7
  <2> QED BY <2>6, <2>8, PieceCounts DEF d
<1>8. mode \in {"plain", "ratchet"}
  BY DEF AgreedMode
<1>9. session \in AnySession /\ Fits(mode, session)
  BY <1>8, NewServerSessionType DEF LinkInv, LinkTypes
<1> HIDE DEF mode, session
<1>10. /\ server'.state = server.state /\ server'.mode = mode
       /\ server'.buf = <<>> /\ server'.session = session
       /\ server'.ready = FALSE /\ server'.got = <<>>
       /\ server'.errors = 0 /\ server'.build = server.build
       /\ server' \in Servers
  <2>1. server \in Servers BY DEF LinkInv, LinkTypes
  <2>2. <<>> \in Seq(ClientPieces) /\ mode \in Modes BY <1>8 DEF Modes
  <2>3. server' = [server EXCEPT !.mode = mode, !.session = session, !.buf = <<>>]
    BY <1>5, <1>7
  <2> QED BY <1>2, <1>9, <2>1, <2>2, <2>3 DEF Servers
<1>11. LinkTypes'
  BY <1>1, <1>6, <1>10 DEF LinkInv, LinkTypes
<1>12. ClientShape' /\ ServerShape'
  BY <1>1, <1>8, <1>9, <1>10 DEF LinkInv, Live, ClientShape, ServerShape, Talks, Able
<1>13. Rest' = <<>>
  BY <1>7, <1>10 DEF Rest
<1>14. /\ Compatible' = Compatible /\ Ack' = Ack /\ AgreedMode' = AgreedMode
       /\ NewServerSession(server.mode, ClientKey(0))' = session
  BY <1>1, <1>10 DEF Compatible, Ack, AgreedMode, NewServerSession, session
<1>15. Handshake'
  BY <1>1, <1>2, <1>5, <1>6, <1>8, <1>10, <1>13, <1>14 DEF Handshake, Live, mode
<1>16. Flow'
  BY <1>1, <1>2 DEF Flow
<1>17. Copies(server.got, sent)'
  BY <1>1, <1>2, <1>10 DEF Copies, Take
<1>18. NothingGarbled' /\ HealthyStaysOpen' /\ ModesAgree'
  BY <1>1, <1>2, <1>10, <1>14
     DEF LinkInv, NothingGarbled, HealthyStaysOpen, StaysOpen, ModesAgree, Live
<1>19. StuckOnlyBehindRotation'
  BY <1>10 DEF StuckOnlyBehindRotation
<1> QED BY <1>1, <1>11, <1>12, <1>15, <1>16, <1>17, <1>18, <1>19 DEF LinkInv

-----------------------------------------------------------------------------
(***************************************************************************)
(* The server after the handshake.                                         *)
(***************************************************************************)

\* What it has to go on with, once the read is in its buffer.
LEMMA LateRead ==
  ASSUME LinkInv, NEW n, ServerReads(n), Handshaked(server)
  PROVE  LET t == [server EXCEPT !.buf = Buffered(n)]
         IN  /\ t \in Servers /\ Able(t) /\ t.mode # "none" /\ t.buf = Buffered(n)
             /\ t.state = "open" /\ t.build = server.build /\ t.mode = server.mode
             /\ t.got = server.got /\ t.errors = server.errors
             /\ t.ready = server.ready
             /\ t.buf \o c2s' = Rest /\ c2s' \in Seq(ClientPieces) /\ Whole(Rest)
             /\ client.state \in {"ready", "closed"}
             /\ \/ Honest(client, sent, t, Rest)
                \/ torn /\ Foreign(client, t, Rest)
<1> DEFINE t == [server EXCEPT !.buf = Buffered(n)]
<1>1. /\ Live /\ Buffered(n) \in Seq(ClientPieces) /\ c2s' \in Seq(ClientPieces)
      /\ Buffered(n) \o c2s' = Rest
      /\ Len(Rest) >= Len(Buffered(n)) /\ Len(Buffered(n)) >= 1
      /\ Len(Buffered(n)) \in Nat
  BY ReadFacts
<1>2. server \in Servers /\ Able(server) /\ server.mode # "none"
  BY DEF LinkInv, LinkTypes, ServerShape, Handshaked
<1>3. /\ t \in Servers /\ t.buf = Buffered(n)
      /\ t.state = server.state /\ t.build = server.build /\ t.mode = server.mode
      /\ t.got = server.got /\ t.errors = server.errors
      /\ t.ready = server.ready /\ t.session = server.session
  BY <1>1, <1>2 DEF Servers
<1> HIDE DEF t
<1>4. client.state \in {"ready", "closed"}
  <2>1. Rest # <<>>
    <3>1. Len(Rest) # 0
      <4> DEFINE x == Len(Buffered(n))
      <4>1. Len(Rest) >= x /\ x >= 1 /\ x \in Nat BY <1>1
      <4> HIDE DEF x
      <4> QED BY <4>1
    <3> QED BY <3>1
  <2>2. client.state # "connecting"
    BY <1>2 DEF LinkInv, Handshake
  <2>3. client.state # "awaiting"
    BY <1>1, <1>2, <2>1 DEF LinkInv, Handshake
  <2> QED BY <2>2, <2>3 DEF LinkInv, LinkTypes, Clients
<1>5. /\ Whole(Rest)
      /\ \/ Honest(client, sent, server, Rest)
         \/ torn /\ Foreign(client, server, Rest)
  BY <1>1, <1>2, <1>4 DEF LinkInv, Flow
<1>6. Honest(client, sent, server, Rest) => Honest(client, sent, t, Rest)
  BY <1>3 DEF Honest, Keeps, RotatesFirst
<1>7. Foreign(client, server, Rest) => Foreign(client, t, Rest)
  BY <1>3 DEF Foreign
<1>8. Able(t) /\ t.state = "open"
  BY <1>1, <1>2, <1>3 DEF Able, Live
<1> QED BY <1>1, <1>2, <1>3, <1>4, <1>5, <1>6, <1>7, <1>8 DEF t

\* What stays true when the server goes on with the connection.
LEMMA ServerGoesOn ==
  ASSUME LinkInv, Live, server.mode # "none", client.state \in {"ready", "closed"},
         failed' = failed, client' = client, sent' = sent,
         clientFirst' = clientFirst, torn => torn', torn' \in BOOLEAN,
         c2s' \in Seq(ClientPieces), s2c' = s2c, FreshEnoughKeys',
         server' \in Servers, Able(server'), server'.state = "open",
         server'.build = server.build, server'.mode = server.mode,
         Whole(Rest'),
         \/ Honest(client, sent, server', Rest')
         \/ torn' /\ Foreign(client, server', Rest'),
         Copies(server'.got, sent), server'.errors = server.errors \/ torn',
         StuckOnlyBehindRotation'
  PROVE  LinkInv'
<1>1. LinkTypes'
  BY DEF LinkInv, LinkTypes
<1>2. ClientShape' /\ ServerShape'
  BY DEF LinkInv, ClientShape, ServerShape
<1>3. Handshake' /\ Flow'
  BY DEF Handshake, Flow, Live
<1>4. Copies(server.got, sent)'
  OBVIOUS
<1>5. Compatible' = Compatible
  BY DEF Compatible
<1>6. NothingGarbled' /\ HealthyStaysOpen' /\ ModesAgree'
  BY <1>5 DEF LinkInv, NothingGarbled, HealthyStaysOpen, StaysOpen, ModesAgree, Live
<1> QED BY <1>1, <1>2, <1>3, <1>4, <1>6 DEF LinkInv

\* What it has to go on with after the rotation lines.
LEMMA ServerConsumes ==
  ASSUME LinkInv, NEW n, ServerReads(n), Handshaked(server)
  PROVE  LET u == ConsumeRatchetLines([server EXCEPT !.buf = Buffered(n)])
         IN  /\ u \in Servers /\ Able(u) /\ u.state = "open"
             /\ u.build = server.build /\ u.mode = server.mode
             /\ u.got = server.got /\ u.errors = server.errors
             /\ Whole(u.buf \o c2s')
             /\ \/ Honest(client, sent, u, u.buf \o c2s')
                \/ torn /\ Foreign(client, u, u.buf \o c2s')
             /\ ~u.ready => u.buf = Buffered(n)
<1> DEFINE t == [server EXCEPT !.buf = Buffered(n)]
           d == c2s'
           u == ConsumeRatchetLines(t)
<1>1. /\ t \in Servers /\ Able(t) /\ t.mode # "none" /\ t.buf = Buffered(n)
      /\ t.state = "open" /\ t.build = server.build /\ t.mode = server.mode
      /\ t.got = server.got /\ t.errors = server.errors
      /\ t.buf \o d = Rest /\ d \in Seq(ClientPieces) /\ Whole(Rest)
      /\ \/ Honest(client, sent, t, Rest)
         \/ torn /\ Foreign(client, t, Rest)
  BY LateRead
<1> HIDE DEF t, d, u
<1>2. Whole(t.buf \o d)
  BY <1>1
<1>3. CASE Honest(client, sent, t, Rest)
  <2>1. Honest(client, sent, t, t.buf \o d)
    BY <1>1, <1>3
  <2>2. /\ u \in Servers /\ Able(u)
        /\ u.state = t.state /\ u.build = t.build /\ u.mode = t.mode
        /\ u.got = t.got /\ u.errors = t.errors
        /\ Whole(u.buf \o d) /\ Honest(client, sent, u, u.buf \o d)
        /\ ~u.ready => u = t
    BY <1>1, <1>2, <2>1, ConsumesHonestly DEF u
  <2> QED BY <1>1, <2>2 DEF t, d, u
<1>4. CASE torn /\ Foreign(client, t, Rest)
  <2>1. Foreign(client, t, t.buf \o d)
    BY <1>1, <1>4
  <2>2. u = t
    BY <1>1, <2>1, ConsumesForeign DEF u
  <2> QED BY <1>1, <1>2, <1>4, <2>1, <2>2 DEF t, d, u
<1> QED BY <1>1, <1>3, <1>4

LEMMA AwaitsPubkeyInv == LinkInv /\ ServerAwaitsPubkey => LinkInv'
<1> SUFFICES ASSUME LinkInv, NEW n, ServerReads(n), Handshaked(server),
                    LET s == ConsumeRatchetLines([server EXCEPT !.buf = Buffered(n)])
                    IN  /\ s.mode = "ratchet" /\ StartsWith(s.buf, "pubkey")
                        /\ server' = s,
                    s2c' = s2c
             PROVE  LinkInv'
  BY DEF ServerAwaitsPubkey
<1> DEFINE u == ConsumeRatchetLines([server EXCEPT !.buf = Buffered(n)])
<1>1. /\ u \in Servers /\ Able(u) /\ u.state = "open"
      /\ u.build = server.build /\ u.mode = server.mode
      /\ u.got = server.got /\ u.errors = server.errors
      /\ Whole(u.buf \o c2s')
      /\ \/ Honest(client, sent, u, u.buf \o c2s')
         \/ torn /\ Foreign(client, u, u.buf \o c2s')
  BY ServerConsumes
<1>2. u.mode = "ratchet" /\ StartsWith(u.buf, "pubkey") /\ server' = u
  OBVIOUS
<1> HIDE DEF u
<1>3. /\ Live /\ failed' = failed /\ client' = client /\ sent' = sent
      /\ clientFirst' = clientFirst /\ (torn => torn') /\ torn' \in BOOLEAN
      /\ c2s' \in Seq(ClientPieces) /\ FreshEnoughKeys'
  BY ReadFacts
<1>4. client.state \in {"ready", "closed"} /\ server.mode # "none"
  BY LateRead DEF Handshaked
<1>5. Rest' = u.buf \o c2s'
  BY <1>2 DEF Rest
<1>6. /\ Whole(Rest')
      /\ \/ Honest(client, sent, server', Rest')
         \/ torn' /\ Foreign(client, server', Rest')
  BY <1>1, <1>2, <1>3, <1>5
<1>7. Copies(server'.got, sent) /\ server'.errors = server.errors
  BY <1>1, <1>2 DEF LinkInv
<1>8. StuckOnlyBehindRotation'
  BY <1>2 DEF StuckOnlyBehindRotation, StartsWith
<1> QED BY <1>1, <1>2, <1>3, <1>4, <1>6, <1>7, <1>8, ServerGoesOn

LEMMA RefusesUnreadyInv == LinkInv /\ ServerRefusesUnready => LinkInv'
<1> SUFFICES ASSUME LinkInv, NEW n, ServerReads(n), Handshaked(server),
                    LET s == ConsumeRatchetLines([server EXCEPT !.buf = Buffered(n)])
                    IN  /\ s.mode = "ratchet" /\ ~StartsWith(s.buf, "pubkey")
                        /\ ~s.ready /\ server' = ServerForgets(s),
                    s2c' = s2c
             PROVE  LinkInv'
  BY DEF ServerRefusesUnready
<1> DEFINE u == ConsumeRatchetLines([server EXCEPT !.buf = Buffered(n)])
           b == Buffered(n)
<1>1. /\ u \in Servers /\ u.build = server.build
      /\ u.got = server.got /\ u.errors = server.errors
      /\ \/ Honest(client, sent, u, u.buf \o c2s')
         \/ torn /\ Foreign(client, u, u.buf \o c2s')
      /\ ~u.ready => u.buf = b
  BY ServerConsumes
<1>2. /\ u.mode = "ratchet" /\ ~StartsWith(u.buf, "pubkey") /\ ~u.ready
      /\ server' = ServerForgets(u)
  OBVIOUS
<1>3. /\ failed' = failed /\ client' = client /\ sent' = sent
      /\ clientFirst' = clientFirst /\ (torn => torn') /\ torn' \in BOOLEAN
      /\ c2s' \in Seq(ClientPieces) /\ FreshEnoughKeys'
      /\ b \o c2s' = Rest /\ Len(Rest) >= Len(b) /\ Len(b) >= 1 /\ Len(b) \in Nat
      /\ \A i \in 1 .. Len(b) : b[i] = Rest[i]
      /\ Len(b) < 2 => torn' = (torn \/ Tears(Rest, 1))
      /\ Rest \in Seq(ClientPieces)
  BY ReadFacts
<1>4. client.state \in {"ready", "closed"} /\ Whole(Rest)
  BY LateRead
<1> HIDE DEF u, b
<1>5. torn'
  <2>1. CASE Honest(client, sent, u, u.buf \o c2s')
    <3>1. RotatesFirst(client, u, Rest)
      BY <1>1, <1>2, <1>3, <2>1 DEF Honest
    <3>2. Len(Rest) > 0 /\ 1 \in 1 .. Len(b)
      <4> DEFINE x == Len(b)
                 y == Len(Rest)
      <4>1. y >= x /\ x >= 1 /\ x \in Nat /\ y \in Nat BY <1>3
      <4> HIDE DEF x, y
      <4>2. y > 0 /\ 1 \in 1 .. x BY <4>1
      <4> QED BY <4>2 DEF x, y
    <3>3. Rest # <<>>
      <4>1. Len(<<>>) = 0 OBVIOUS
      <4> QED BY <3>2, <4>1
    <3>4. Rest[1].item.kind = "pubkey" /\ Rest[1].piece = 1
      BY <1>2, <1>4, <3>1, <3>2, <3>3 DEF RotatesFirst, Whole
    <3>5. b[1].item.kind = "pubkey"
      BY <1>3, <3>2, <3>4
    <3>6. Len(b) < 2
      BY <1>1, <1>2, <1>3, <3>5 DEF StartsWith
    <3>7. Tears(Rest, 1)
      BY <3>4 DEF Tears
    <3> QED BY <1>3, <3>6, <3>7
  <2>2. CASE torn
    BY <1>3, <2>2
  <2> QED BY <1>1, <2>1, <2>2
<1>6. s2c' \in Seq(ServerPieces)
  BY DEF LinkInv, LinkTypes
<1> QED BY <1>1, <1>2, <1>3, <1>4, <1>5, <1>6, ServerClosed

LEMMA ProcessesInv == LinkInv /\ ServerProcesses => LinkInv'
<1> SUFFICES ASSUME LinkInv, NEW n, ServerReads(n), Handshaked(server),
                    LET s == ConsumeRatchetLines([server EXCEPT !.buf = Buffered(n)])
                    IN  /\ s.mode = "ratchet" => s.ready
                        /\ server' = ProcessMessage(s),
                    s2c' = s2c
             PROVE  LinkInv'
  BY DEF ServerProcesses
<1> DEFINE u == ConsumeRatchetLines([server EXCEPT !.buf = Buffered(n)])
           d == c2s'
           v == ProcessMessage(u)
<1>1. /\ u \in Servers /\ Able(u) /\ u.state = "open"
      /\ u.build = server.build /\ u.mode = server.mode
      /\ u.got = server.got /\ u.errors = server.errors
      /\ Whole(u.buf \o d)
      /\ \/ Honest(client, sent, u, u.buf \o d)
         \/ torn /\ Foreign(client, u, u.buf \o d)
  BY ServerConsumes
<1>2. (u.mode = "ratchet" => u.ready) /\ server' = v
  OBVIOUS
<1> HIDE DEF u
<1>3. /\ Live /\ failed' = failed /\ client' = client /\ sent' = sent
      /\ clientFirst' = clientFirst /\ (torn => torn') /\ torn' \in BOOLEAN
      /\ d \in Seq(ClientPieces) /\ FreshEnoughKeys'
  BY ReadFacts
<1>4. client.state \in {"ready", "closed"} /\ server.mode # "none"
  BY LateRead DEF Handshaked
<1>5. Rest' = v.buf \o d
  BY <1>2 DEF Rest
<1>6. Copies(u.got, sent) /\ sent \in Seq(Messages)
  BY <1>1 DEF LinkInv, LinkTypes
<1> HIDE DEF d, v
<1>7. CASE Honest(client, sent, u, u.buf \o d)
  <2>1. /\ v \in Servers /\ Able(v)
        /\ v.state = u.state /\ v.build = u.build /\ v.mode = u.mode
        /\ v.errors = u.errors
        /\ Whole(v.buf \o d) /\ Honest(client, sent, v, v.buf \o d)
        /\ Copies(v.got, sent) /\ FramesOnlyBehindRotation(v.buf)
    BY <1>1, <1>2, <1>3, <1>4, <1>6, <1>7, ProcessesHonestly DEF v
  <2>2. StuckOnlyBehindRotation'
    BY <1>2, <2>1 DEF StuckOnlyBehindRotation, FramesOnlyBehindRotation
  <2>3. Whole(Rest') /\ Honest(client, sent, server', Rest')
    BY <1>2, <1>5, <2>1
  <2>4. /\ server' \in Servers /\ Able(server') /\ server'.state = "open"
        /\ server'.build = server.build /\ server'.mode = server.mode
        /\ Copies(server'.got, sent) /\ server'.errors = server.errors
    BY <1>1, <1>2, <2>1
  <2> QED BY <1>3, <1>4, <2>2, <2>3, <2>4, ServerGoesOn DEF d
<1>8. CASE torn /\ Foreign(client, u, u.buf \o d)
  <2>1. u.mode = "plain"
    <3>1. ~u.ready BY <1>8 DEF Foreign
    <3> QED BY <1>1, <1>2, <1>4, <3>1 DEF Servers, Modes
  <2>2. /\ v \in Servers /\ Able(v)
        /\ v.state = u.state /\ v.build = u.build /\ v.mode = u.mode
        /\ v.got = u.got
        /\ Whole(v.buf \o d) /\ Foreign(client, v, v.buf \o d)
        /\ FramesOnlyBehindRotation(v.buf)
    BY <1>1, <1>3, <1>8, <2>1, ProcessesForeign DEF v
  <2>3. StuckOnlyBehindRotation'
    BY <1>2, <2>2 DEF StuckOnlyBehindRotation, FramesOnlyBehindRotation
  <2>4. Whole(Rest') /\ Foreign(client, server', Rest') /\ torn'
    BY <1>2, <1>3, <1>5, <1>8, <2>2
  <2>5. /\ server' \in Servers /\ Able(server') /\ server'.state = "open"
        /\ server'.build = server.build /\ server'.mode = server.mode
        /\ Copies(server'.got, sent)
    BY <1>1, <1>2, <1>6, <2>2
  <2> QED BY <1>3, <1>4, <2>3, <2>4, <2>5, ServerGoesOn DEF d
<1> QED BY <1>1, <1>7, <1>8

-----------------------------------------------------------------------------
(***************************************************************************)
(* The client.                                                             *)
(***************************************************************************)
LEMMA ClientConnectedInv == LinkInv /\ ClientConnected => LinkInv'
<1> SUFFICES ASSUME LinkInv, ClientConnected PROVE LinkInv'
  OBVIOUS
<1>1. /\ client.state = "connecting" /\ client' = [client EXCEPT !.state = "awaiting"]
      /\ c2s' = c2s \o Split(Hello)
      /\ server' = server /\ s2c' = s2c /\ sent' = sent /\ failed' = failed
      /\ torn' = torn /\ clientFirst' = clientFirst
  BY DEF ClientConnected, Hello
<1>2. /\ client'.state = "awaiting" /\ client'.build = client.build
      /\ client'.mode = client.mode /\ client'.session = client.session
      /\ client'.since = client.since /\ client' \in Clients
  BY <1>1 DEF LinkInv, LinkTypes, Clients
<1>3. /\ server.state = "open" /\ server.mode = "none" /\ s2c = <<>> /\ ~failed
      /\ Rest = <<>>
  BY <1>1 DEF LinkInv, Handshake, Live
<1>4. c2s = <<>> /\ server.buf = <<>>
  <2> DEFINE b == server.buf
  <2>1. b \in Seq(ClientPieces) /\ c2s \in Seq(ClientPieces) /\ Len(b \o c2s) = 0
    BY <1>3 DEF LinkInv, LinkTypes, Servers, Rest
  <2> HIDE DEF b
  <2>2. Len(b \o c2s) = Len(b) + Len(c2s) /\ Len(b) \in Nat /\ Len(c2s) \in Nat
    BY <2>1, ConcatFacts
  <2>3. Len(b) = 0 /\ Len(c2s) = 0 BY <2>1, <2>2
  <2>4. b = <<>> /\ c2s = <<>> BY <2>1, <2>3
  <2> QED BY <2>4 DEF b
<1>5. /\ Split(Hello) \in Seq(ClientPieces) /\ Len(Split(Hello)) = 3
      /\ \A i \in 1 .. 3 : Split(Hello)[i].item.kind = "hello"
  <2>1. Hello \in ClientItems /\ Hello.kind = "hello"
    BY ItemTypes DEF LinkInv
  <2> HIDE DEF Hello
  <2>2. /\ Split(Hello) \in Seq(ClientPieces) /\ Len(Split(Hello)) = 3
        /\ \A i \in 1 .. 3 : Split(Hello)[i] = [item |-> Hello, piece |-> i]
    BY <2>1, SplitFacts, PieceCounts
  <2> QED BY <2>1, <2>2
<1>6. c2s' = Split(Hello)
  BY <1>1, <1>4, <1>5
<1>7. Rest' = Split(Hello)
  BY <1>1, <1>4, <1>5, <1>6 DEF Rest
<1>8. Hello' = Hello /\ Compatible' = Compatible
  BY <1>1, <1>2 DEF Hello, Compatible
<1>9. LinkTypes'
  BY <1>1, <1>2, <1>5, <1>6 DEF LinkInv, LinkTypes
<1>10. ClientShape' /\ ServerShape'
  BY <1>1, <1>2 DEF LinkInv, ClientShape, ServerShape, Talks, Able
<1>11. Handshake' /\ Flow'
  BY <1>1, <1>2, <1>3, <1>7, <1>8 DEF Handshake, Flow, Live
<1>12. Copies(server.got, sent)'
  BY <1>1 DEF LinkInv
<1>13. NothingGarbled' /\ HealthyStaysOpen' /\ ModesAgree'
  BY <1>1, <1>2, <1>3 DEF LinkInv, NothingGarbled, HealthyStaysOpen, StaysOpen, ModesAgree
<1>14. FreshEnoughKeys'
  BY <1>5, <1>6 DEF FreshEnoughKeys, RatchetFrame
<1>15. StuckOnlyBehindRotation'
  BY <1>1 DEF LinkInv, StuckOnlyBehindRotation
<1> QED BY <1>9, <1>10, <1>11, <1>12, <1>13, <1>14, <1>15 DEF LinkInv

\* What stays true when the client takes a step past the handshake.
LEMMA ClientMovesOn ==
  ASSUME LinkInv, client' \in Clients, Talks(client'),
         client'.build = client.build, client'.state \in {"ready", "closed"},
         server' = server, failed' = failed, clientFirst' = clientFirst,
         torn => torn', torn' \in BOOLEAN, sent' \in Seq(Messages),
         c2s' \in Seq(ClientPieces), s2c' \in Seq(ServerPieces), FreshEnoughKeys',
         Copies(server.got, sent'), Live => server.mode # "none",
         Live => /\ Whole(Rest')
                 /\ \/ Honest(client', sent', server, Rest')
                    \/ torn' /\ Foreign(client', server, Rest'),
         client'.state = "closed" =>
           client.state = "closed" \/ torn' \/ failed \/ ~Compatible,
         client'.mode \in {client.mode, server.mode, "none"} \/ torn'
  PROVE  LinkInv'
<1>1. LinkTypes'
  BY DEF LinkInv, LinkTypes
<1>2. ClientShape' /\ ServerShape'
  BY DEF LinkInv, ClientShape, ServerShape
<1>3. Handshake' /\ Flow'
  BY DEF Handshake, Flow, Live
<1>4. Copies(server.got, sent)'
  OBVIOUS
<1>5. Compatible' = Compatible
  BY DEF Compatible
<1>6. NothingGarbled' /\ HealthyStaysOpen' /\ ModesAgree'
  BY <1>5 DEF LinkInv, NothingGarbled, HealthyStaysOpen, StaysOpen, ModesAgree
<1>7. StuckOnlyBehindRotation'
  BY DEF LinkInv, StuckOnlyBehindRotation
<1> QED BY <1>1, <1>2, <1>3, <1>4, <1>6, <1>7 DEF LinkInv

LEMMA ForgetsType ==
  ASSUME NEW c \in Clients
  PROVE  /\ ClientForgets(c) \in Clients /\ Talks(ClientForgets(c))
         /\ ClientForgets(c).state = "closed" /\ ClientForgets(c).mode = "none"
         /\ ClientForgets(c).build = c.build
<1> DEFINE d == ClientForgets(c)
<1>1. d = [c EXCEPT !.state = "closed", !.mode = "none", !.session = NoSession,
                    !.since = 0]
  BY DEF ClientForgets
<1> HIDE DEF d
<1>2. d \in Clients
  <2>1. 0 \in 0 .. RotateEvery /\ "none" \in Modes BY RotateEveryAssumption DEF Modes
  <2> QED BY <1>1, <2>1, SessionKinds DEF Clients
<1>3. d.state = "closed" /\ d.mode = "none" /\ d.session = NoSession /\ d.build = c.build
  BY <1>1 DEF Clients
<1> QED BY <1>2, <1>3 DEF Talks, Fits, d

LEMMA ClientSeesCloseInv == LinkInv /\ ClientSeesClose => LinkInv'
<1> SUFFICES ASSUME LinkInv, ClientSeesClose PROVE LinkInv'
  OBVIOUS
<1>1. /\ client' = ClientForgets(client) /\ ~Live
      /\ server' = server /\ c2s' = c2s /\ s2c' = s2c /\ sent' = sent
      /\ failed' = failed /\ torn' = torn /\ clientFirst' = clientFirst
  BY DEF ClientSeesClose, Live
<1>2. /\ client \in Clients /\ c2s \in Seq(ClientPieces) /\ s2c \in Seq(ServerPieces)
      /\ torn \in BOOLEAN /\ sent \in Seq(Messages) /\ FreshEnoughKeys
      /\ Copies(server.got, sent)
  BY DEF LinkInv, LinkTypes
<1>3. /\ client' \in Clients /\ Talks(client') /\ client'.build = client.build
      /\ client'.state = "closed" /\ client'.mode = "none"
  BY <1>1, <1>2, ForgetsType
<1>4. FreshEnoughKeys'
  BY <1>1, <1>2 DEF FreshEnoughKeys
<1>5. torn \/ failed \/ ~Compatible
  BY <1>1 DEF LinkInv, LinkTypes, Servers, HealthyStaysOpen, StaysOpen, Live
<1> QED BY <1>1, <1>2, <1>3, <1>4, <1>5, ClientMovesOn

LEMMA ServerSeesCloseInv == LinkInv /\ ServerSeesClose => LinkInv'
<1> SUFFICES ASSUME LinkInv, ServerSeesClose PROVE LinkInv'
  OBVIOUS
<1>1. /\ server' = ServerForgets(server)
      /\ failed \/ client.state = "closed"
      /\ client' = client /\ c2s' = c2s /\ s2c' = s2c /\ sent' = sent
      /\ failed' = failed /\ torn' = torn /\ clientFirst' = clientFirst
  BY DEF ServerSeesClose
<1>2. /\ server \in Servers /\ c2s \in Seq(ClientPieces) /\ s2c \in Seq(ServerPieces)
      /\ torn \in BOOLEAN /\ FreshEnoughKeys
      /\ client.state = "connecting" => ~failed
  BY DEF LinkInv, LinkTypes, Handshake
<1>3. FreshEnoughKeys'
  BY <1>1, <1>2 DEF FreshEnoughKeys
<1>4. client.state # "connecting"
  BY <1>1, <1>2
<1>5. ~(client.state = "awaiting" /\ ~failed)
  BY <1>1
<1> QED BY <1>1, <1>2, <1>3, <1>4, <1>5, ServerClosed

LEMMA NetworkFailsInv == LinkInv /\ NetworkFails => LinkInv'
<1> SUFFICES ASSUME LinkInv, NetworkFails PROVE LinkInv'
  OBVIOUS
<1>1. /\ client.state # "connecting" /\ failed' = TRUE
      /\ c2s' = <<>> /\ s2c' = <<>>
      /\ client' = client /\ server' = server /\ sent' = sent
      /\ torn' = torn /\ clientFirst' = clientFirst
  BY DEF NetworkFails
<1>2. LinkTypes'
  BY <1>1 DEF LinkInv, LinkTypes
<1>3. ClientShape' /\ ServerShape'
  BY <1>1 DEF LinkInv, ClientShape, ServerShape
<1>4. Handshake' /\ Flow'
  BY <1>1 DEF Handshake, Flow, Live
<1>5. Copies(server.got, sent)'
  BY <1>1 DEF LinkInv
<1>6. NothingGarbled' /\ HealthyStaysOpen' /\ ModesAgree'
  BY <1>1 DEF LinkInv, NothingGarbled, HealthyStaysOpen, ModesAgree
<1>7. FreshEnoughKeys' /\ StuckOnlyBehindRotation'
  BY <1>1 DEF LinkInv, FreshEnoughKeys, StuckOnlyBehindRotation
<1> QED BY <1>2, <1>3, <1>4, <1>5, <1>6, <1>7 DEF LinkInv

\* The answer that the client reads is what the server has made of the hello.
LEMMA AnswerRead ==
  ASSUME LinkInv, client.state = "awaiting", ~failed, NEW n \in Reads(s2c)
  PROVE  /\ Drop(s2c, n) \in Seq(ServerPieces)
         /\ \/ n = 1 /\ server.state = "closed" /\ ~Compatible
            \/ /\ s2c[1].item = Ack /\ n \in 1 .. 4 /\ (n < 4 => Tears(s2c, n))
               /\ Live /\ server.mode = AgreedMode /\ Compatible
               /\ Rest = <<>> /\ server.got = <<>> /\ ~server.ready
               /\ server.session = NewServerSession(server.mode, ClientKey(0))
<1>1. s2c \in Seq(ServerPieces) /\ n \in 1 .. Len(s2c) /\ Len(s2c) \in Nat
  BY DEF LinkInv, LinkTypes, Reads
<1>2. Drop(s2c, n) \in Seq(ServerPieces)
  <2>1. n \in 0 .. Len(s2c) BY <1>1
  <2> QED BY <1>1, <2>1, DropFacts
<1>3. s2c # <<>>
  BY <1>1
<1>4. CASE server.state = "closed" /\ s2c = Split(Nack) /\ ~Compatible
  <2>1. Nack \in Answers /\ Nack.kind = "nack" BY ItemTypes DEF LinkInv
  <2> HIDE DEF Nack
  <2>2. Len(s2c) = 1
    <3>1. Pieces[Nack.kind] = 1 BY <2>1, PieceCounts
    <3> QED BY <1>4, <2>1, <3>1, SplitAnswer
  <2>3. n = 1 BY <1>1, <2>2
  <2> QED BY <1>2, <1>4, <2>3
<1>5. CASE server.mode # "none" /\ s2c = Split(Ack)
  <2>1. Ack \in Answers /\ Ack.kind = "ack" BY ItemTypes DEF LinkInv
  <2> HIDE DEF Ack
  <2>2. /\ Len(s2c) = 4
        /\ \A i \in 1 .. 4 : s2c[i] = [item |-> Ack, piece |-> i]
    <3>1. Pieces[Ack.kind] = 4 BY <2>1, PieceCounts
    <3> QED BY <1>5, <2>1, <3>1, SplitAnswer
  <2>3. n \in 1 .. 4 /\ 1 \in 1 .. 4 BY <1>1, <2>2
  <2>4. s2c[1].item = Ack /\ s2c[n].item = Ack /\ s2c[n].piece = n BY <2>2, <2>3
  <2>5. n < 4 => Tears(s2c, n)
    BY <2>1, <2>3, <2>4, PieceCounts DEF Tears, Completes
  <2>6. server.state = "open"
    BY <1>5 DEF LinkInv, ServerShape, LinkTypes, Servers
  <2>7. Live BY <2>6 DEF Live
  <2> QED BY <1>2, <1>5, <2>3, <2>4, <2>5, <2>7 DEF LinkInv, Handshake
<1> QED BY <1>3, <1>4, <1>5 DEF LinkInv, Handshake

PlainClient(c, k) ==
  [c EXCEPT !.state = "ready", !.mode = "plain",
            !.session = PlainSession(ClientKey(0), k)]

LEMMA PlainStarts ==
  ASSUME NEW c \in Clients, NEW k \in Keys
  PROVE  LET d == PlainClient(c, k)
         IN  /\ d \in Clients /\ Talks(d) /\ d.build = c.build
             /\ d.state = "ready" /\ d.mode = "plain"
             /\ d.session = PlainSession(ClientKey(0), k) /\ d.session \in SUBSET Keys
<1> DEFINE d == PlainClient(c, k)
           s == PlainSession(ClientKey(0), k)
<1>1. s \in SUBSET Keys
  BY DEF PlainSession, ClientKey, Keys
<1> HIDE DEF s
<1>2. s \in AnySession
  BY <1>1, SessionKinds
<1>3. d = [c EXCEPT !.state = "ready", !.mode = "plain", !.session = s]
  BY DEF s, PlainClient
<1> HIDE DEF d
<1>4. d \in Clients
  BY <1>2, <1>3 DEF Clients, Modes
<1>5. d.state = "ready" /\ d.mode = "plain" /\ d.session = s /\ d.build = c.build
  BY <1>3 DEF Clients
<1>6. Talks(d)
  BY <1>1, <1>5 DEF Talks, Fits
<1> QED BY <1>1, <1>4, <1>5, <1>6 DEF s, d

\* Both ends derive one plain session; from a broken key comes another.
LEMMA PlainKeys ==
  /\ PlainSession(ClientKey(0), ServerKey) = PlainSession(ServerKey, ClientKey(0))
  /\ PlainSession(ClientKey(0), BrokenKey) # PlainSession(ServerKey, ClientKey(0))
<1>1. BrokenKey # ServerKey /\ BrokenKey # ClientKey(0)
  BY DEF BrokenKey, ServerKey, ClientKey
<1> QED BY <1>1 DEF PlainSession

FirstSession(first) ==
  PrepareRatchetStep(NewSession(ClientKey(0), ServerKey, first), ClientKey(1))
RatchetClient(c, first) ==
  [c EXCEPT !.state = "ready", !.mode = "ratchet", !.key = 1,
            !.session = FirstSession(first)]

LEMMA RatchetStarts ==
  ASSUME NEW c \in Clients, c.since = 0, NEW first \in BOOLEAN
  PROVE  LET d == RatchetClient(c, first)
         IN  /\ d \in Clients /\ Talks(d) /\ d.build = c.build
             /\ d.state = "ready" /\ d.mode = "ratchet"
             /\ d.session = FirstSession(first)
<1> DEFINE o == NewSession(ClientKey(0), ServerKey, first)
           s == FirstSession(first)
           d == RatchetClient(c, first)
<1>1. ClientKey(0) \in Keys /\ ClientKey(1) \in Keys /\ ServerKey \in Keys
  BY DEF ClientKey, ServerKey, Keys
<1>2. o \in Sessions /\ Len(o.root) = 1
  BY <1>1, NewSessionType
<1> HIDE DEF o
<1>3. /\ s \in Sessions /\ Len(s.root) = Len(o.root) + 1
      /\ s.send.root = s.root /\ s.send.step = 0
  BY <1>1, <1>2, PrepareType DEF FirstSession, o
<1> HIDE DEF s, d
<1>4. Len(s.root) >= 2 /\ Len(s.root) >= 1 /\ s \in AnySession
  BY <1>2, <1>3, SessionKinds
<1>5. d = [c EXCEPT !.state = "ready", !.mode = "ratchet", !.key = 1, !.session = s]
  BY DEF d, s, RatchetClient
<1>6. d \in Clients
  <2>1. "ratchet" \in Modes /\ "ready" \in {"connecting", "awaiting", "ready", "closed"}
        /\ 1 \in Nat
    BY DEF Modes
  <2>2. s \in AnySession BY <1>4
  <2> QED BY <1>5, <2>1, <2>2 DEF Clients
<1>7. /\ d.state = "ready" /\ d.mode = "ratchet" /\ d.session = s /\ d.build = c.build
      /\ d.since = 0
  BY <1>5 DEF Clients
<1>8. Talks(d)
  BY <1>3, <1>4, <1>7 DEF Talks, Fits
<1> QED BY <1>6, <1>7, <1>8 DEF s, d

\* The two ends start as mirror images, with opposite chains.
LEMMA MirrorStarts ==
  ASSUME NEW first \in BOOLEAN
  PROVE  Mirrors(NewSession(ClientKey(0), ServerKey, first),
                 NewSession(ServerKey, ClientKey(0), ~first))
<1>1. {ClientKey(0), ServerKey} = {ServerKey, ClientKey(0)}
  OBVIOUS
<1> QED BY <1>1 DEF Mirrors, NewSession

\* The line of the first rotation is all that a new ratchet session awaits.
LEMMA FirstLine ==
  ASSUME NEW first \in BOOLEAN, NEW d, d.state = "ready", d.mode = "ratchet",
         d.session = FirstSession(first), NEW s \in Servers, Able(s),
         s.mode = "ratchet", s.got = <<>>,
         s.session = NewSession(ServerKey, ClientKey(0), ~first)
  PROVE  LET r == Split([kind |-> "pubkey", pub |-> ClientKey(1)])
         IN  r \in Seq(ClientPieces) /\ Whole(r) /\ Honest(d, <<>>, s, r)
<1> DEFINE pub  == ClientKey(1)
           item == [kind |-> "pubkey", pub |-> pub]
           none == <<>>
           c    == [state |-> "closed"]
           x    == ApplyPeerRatchetKey(s.session, pub)
           b    == [session |-> x, count |-> 0]
           r    == Split(item)
<1>1. /\ ClientKey(0) \in Keys /\ pub \in Keys /\ ServerKey \in Keys
      /\ item \in Pubkeys \cup Frames /\ item \in ClientItems
      /\ item.kind = "pubkey" /\ item.pub = pub
  BY DEF ClientKey, ServerKey, Keys, Pubkeys, ClientItems
<1>2. Whole(<<>>) /\ Honest(c, <<>>, s, <<>>)
  <2>1. c.state = "closed" /\ c.state # "ready" OBVIOUS
  <2> HIDE DEF c
  <2> QED BY <2>1, EmptyHonest
<1>3. none \in Seq(ClientPieces) /\ Len(none) = 0 /\ none \o r = r
  <2>1. r \in Seq(ClientPieces) BY <1>1, SplitFacts
  <2> HIDE DEF r
  <2> QED BY <2>1
<1>4. PICK after : Keeps(c, none, after, s, none)
  BY <1>2 DEF Honest
<1>5. r \in Seq(ClientPieces) /\ Len(r) = 3 /\ r[1] = [item |-> item, piece |-> 1]
  <2>1. /\ Split(item) \in Seq(ClientPieces) /\ Len(Split(item)) = 3
        /\ \A i \in 1 .. 3 : Split(item)[i] = [item |-> item, piece |-> i]
    <3>1. item \in ClientItems /\ item.kind = "pubkey" BY <1>1
    <3> HIDE DEF item
    <3>2. Pieces[item.kind] = 3 BY <3>1, PieceCounts
    <3> QED BY <3>1, <3>2, SplitFacts
  <2>2. 1 \in 1 .. 3 OBVIOUS
  <2> HIDE DEF item
  <2> QED BY <2>1, <2>2 DEF r
<1>6. Whole(r)
  <2>1. Whole(none \o Split(item))
    <3> HIDE DEF item
    <3> QED BY <1>1, <1>2, <1>3, WholeAppend DEF none
  <2> QED BY <1>3, <2>1
<1> HIDE DEF none, item, pub, c, r
<1>7. /\ Replays(none, s.mode, after, none)
      /\ after[0] = [session |-> s.session, count |-> Len(s.got)]
      /\ after[Len(none)].count = Len(none) /\ Len(s.got) = 0
  <2>1. Len(<<>>) = 0 OBVIOUS
  <2> QED BY <1>4, <2>1 DEF Keeps
<1>8. x \in Sessions /\ Len(x.root) >= 1
  <2>1. (~first) \in BOOLEAN OBVIOUS
  <2> DEFINE z == NewSession(ServerKey, ClientKey(0), ~first)
  <2>2. z \in Sessions /\ Len(z.root) = 1 /\ s.session = z
    BY <1>1, <2>1, NewSessionType
  <2> HIDE DEF z
  <2>3. x \in Sessions /\ Len(x.root) = Len(s.session.root) + 1
    BY <1>1, <2>2, RatchetKeyType
  <2> HIDE DEF x
  <2> QED BY <2>2, <2>3
<1>9. Mirrors(d.session, x)
  <2> DEFINE p == NewSession(ClientKey(0), ServerKey, first)
  <2>1. (~first) \in BOOLEAN OBVIOUS
  <2>2. p \in Sessions /\ s.session \in Sessions /\ Mirrors(p, s.session)
    BY <1>1, <2>1, NewSessionType, MirrorStarts
  <2>3. d.session = PrepareRatchetStep(p, pub) BY DEF pub, FirstSession
  <2> HIDE DEF p
  <2> QED BY <1>1, <2>2, <2>3, MirrorRotates
<1>10. b \in Readers /\ b.session = x /\ b.count = 0 /\ Fits(s.mode, b.session)
  <2> HIDE DEF x
  <2>1. x \in AnySession BY <1>8, SessionKinds
  <2>2. b.session = x /\ b.count = 0 /\ b \in Readers BY <2>1 DEF Readers
  <2> HIDE DEF b
  <2> QED BY <1>8, <2>2 DEF Fits
<1>11. Passes(none, s.mode, after[Len(none)],
              [item |-> item, piece |-> Pieces[item.kind]], b)
  <2> DEFINE q == [item |-> item, piece |-> Pieces[item.kind]]
             e == after[Len(none)]
  <2>1. q.item = item /\ q.piece = Pieces[q.item.kind] OBVIOUS
  <2>2. e.session = s.session /\ e.count = 0
    BY <1>3, <1>7
  <2>3. b.session = ApplyPeerRatchetKey(e.session, pub) /\ b.count = e.count
    BY <1>10, <2>2
  <2>4. q.item.kind = "pubkey" /\ q.item.pub = pub
    BY <1>1, <2>1
  <2> HIDE DEF q, b, x, e
  <2>5. Passes(none, s.mode, e, q, b)
    BY <2>1, <2>3, <2>4 DEF Passes, Completes
  <2> QED BY <2>5 DEF q, e
<1> HIDE DEF b, x
<1>12. PICK more : /\ Replays(none, s.mode, more, r)
                   /\ more[0] = after[0] /\ more[Len(r)] = b
  <2>1. Continues(none, s.mode, after, none \o Split(item), b)
    BY <1>1, <1>3, <1>7, <1>10, <1>11, ReplaysAppend
  <2>2. Continues(none, s.mode, after, r, b)
    BY <1>3, <2>1 DEF r
  <2> QED BY <2>2 DEF Continues
<1>13. Keeps(d, none, more, s, r)
  BY <1>3, <1>7, <1>9, <1>10, <1>12 DEF Keeps, Match
<1>14. RotatesFirst(d, s, r)
  <2>1. r # <<>>
    <3>1. r = <<>> => Len(r) = 0 OBVIOUS
    <3>2. Len(r) = 3 BY <1>5
    <3> QED BY <3>1, <3>2
  <2>2. r[1].item.kind = "pubkey" BY <1>1, <1>5
  <2> QED BY <2>1, <2>2 DEF RotatesFirst
<1>15. Honest(d, none, s, r)
  BY <1>13, <1>14 DEF Honest
<1> QED BY <1>5, <1>6, <1>15 DEF none, r, item, pub

LEMMA ReadyReadInv == LinkInv /\ ClientReadyRead => LinkInv'
<1> SUFFICES ASSUME LinkInv, ClientReadyRead PROVE LinkInv'
  OBVIOUS
<1>1. client.state = "awaiting" /\ ~failed
  BY DEF ClientReadyRead
<1>2. PICK n \in Reads(s2c) :
        LET item == s2c[1].item
            full == n = 4 /\ IsCompatibleWith(client.build, item.build)
        IN  /\ s2c' = Drop(s2c, n)
            /\ torn' = (torn \/ Tears(s2c, n))
            /\ CASE item.kind = "nack" \/ n = 1 ->
                      /\ client' = ClientForgets(client)
                      /\ UNCHANGED c2s
                 [] item.kind = "ack" /\ n = 2 -> StartPlain(BrokenKey)
                 [] item.kind = "ack" /\ n = 3 -> StartPlain(item.key)
                 [] full /\ SupportsRatchet(client.build, item.build) ->
                      StartRatchet(item.key)
                 [] full /\ ~SupportsRatchet(client.build, item.build) ->
                      StartPlain(item.key)
                 [] n = 4 /\ ~full ->
                      /\ client' = ClientForgets(client)
                      /\ UNCHANGED c2s
  BY DEF ClientReadyRead
<1>3. /\ server' = server /\ sent' = sent /\ failed' = failed
      /\ clientFirst' = clientFirst
  BY DEF ClientReadyRead
<1>4. /\ Drop(s2c, n) \in Seq(ServerPieces)
      /\ \/ n = 1 /\ server.state = "closed" /\ ~Compatible
         \/ /\ s2c[1].item = Ack /\ n \in 1 .. 4 /\ (n < 4 => Tears(s2c, n))
            /\ Live /\ server.mode = AgreedMode /\ Compatible
            /\ Rest = <<>> /\ server.got = <<>> /\ ~server.ready
            /\ server.session = NewServerSession(server.mode, ClientKey(0))
  BY <1>1, AnswerRead
<1>5. /\ client \in Clients /\ server \in Servers /\ Able(server)
      /\ c2s \in Seq(ClientPieces) /\ server.buf \in Seq(ClientPieces)
      /\ sent = <<>> /\ sent \in Seq(Messages) /\ torn \in BOOLEAN
      /\ clientFirst \in BOOLEAN /\ client.since = 0 /\ FreshEnoughKeys
      /\ Copies(server.got, sent)
  BY <1>1 DEF LinkInv, LinkTypes, ClientShape, ServerShape, Servers
<1>6. /\ s2c' \in Seq(ServerPieces) /\ (torn => torn') /\ torn' \in BOOLEAN
      /\ Tears(s2c, n) => torn'
  BY <1>2, <1>4, <1>5
<1>7. /\ Nack.kind = "nack" /\ Ack.kind = "ack" /\ Ack.key = ServerKey
      /\ Ack.build = server.build /\ ServerKey \in Keys /\ BrokenKey \in Keys
  BY ItemTypes DEF LinkInv
<1>8. /\ UNCHANGED c2s => c2s' \in Seq(ClientPieces) /\ FreshEnoughKeys'
      /\ UNCHANGED c2s => Rest' = Rest
  BY <1>3, <1>5 DEF FreshEnoughKeys, Rest
<1>9. CASE n = 1 /\ server.state = "closed" /\ ~Compatible
  <2>1. client' = ClientForgets(client) /\ UNCHANGED c2s
    BY <1>2, <1>9
  <2>2. /\ client' \in Clients /\ Talks(client') /\ client'.build = client.build
        /\ client'.state = "closed" /\ client'.mode = "none"
    BY <1>5, <2>1, ForgetsType
  <2>3. ~Live BY <1>9 DEF Live
  <2> QED BY <1>3, <1>5, <1>6, <1>8, <1>9, <2>1, <2>2, <2>3, ClientMovesOn
<1>10. CASE /\ s2c[1].item = Ack /\ n \in 1 .. 4 /\ (n < 4 => Tears(s2c, n))
            /\ Live /\ server.mode = AgreedMode /\ Compatible
            /\ Rest = <<>> /\ server.got = <<>> /\ ~server.ready
            /\ server.session = NewServerSession(server.mode, ClientKey(0))
  <2>1. /\ server.mode \in {"plain", "ratchet"} /\ server.mode # "none"
        /\ IsCompatibleWith(client.build, server.build)
        /\ SupportsRatchet(client.build, server.build) <=> server.mode = "ratchet"
    BY <1>10 DEF AgreedMode, Compatible, IsCompatibleWith, SupportsRatchet
  <2>2. /\ server.mode = "ratchet" =>
             server.session = NewSession(ServerKey, ClientKey(0), ~clientFirst)
        /\ server.mode = "plain" =>
             server.session = PlainSession(ServerKey, ClientKey(0))
    BY <1>10 DEF NewServerSession
  <2>3. Whole(<<>>)
    BY DEF Whole
  <2> DEFINE item == s2c[1].item
  <2>10. /\ item.kind = "ack" /\ item.key = ServerKey
         /\ IsCompatibleWith(client.build, item.build)
         /\ SupportsRatchet(client.build, item.build) <=> server.mode = "ratchet"
    <3>1. item = Ack BY <1>10
    <3> HIDE DEF item
    <3> QED BY <1>7, <2>1, <3>1
  <2>4. CASE n = 1
    <3>1. client' = ClientForgets(client) /\ UNCHANGED c2s
      BY <1>2, <2>4
    <3>2. /\ client' \in Clients /\ Talks(client') /\ client'.build = client.build
          /\ client'.state = "closed" /\ client'.mode = "none"
      BY <1>5, <3>1, ForgetsType
    <3>3. torn' BY <1>6, <1>10, <2>4
    <3>4. Rest' = <<>> BY <1>8, <1>10, <3>1
    <3>5. Honest(client', <<>>, server, <<>>)
      <4> DEFINE c == client'
      <4>1. c.state = "closed" BY <3>2
      <4> HIDE DEF c
      <4>2. Honest(c, <<>>, server, <<>>) BY <1>5, <1>10, <4>1, EmptyHonest
      <4> QED BY <4>2 DEF c
    <3>6. Whole(Rest') /\ Honest(client', sent', server, Rest')
      BY <1>3, <1>5, <2>3, <3>4, <3>5
    <3> QED BY <1>3, <1>5, <1>6, <1>8, <2>1, <3>1, <3>2, <3>3, <3>6, ClientMovesOn
  <2>5. ASSUME NEW k \in Keys, StartPlain(k), k = BrokenKey \/ k = ServerKey,
               (k = ServerKey /\ server.mode = "plain") \/ torn'
        PROVE  LinkInv'
    <3>1. client' = PlainClient(client, k) /\ UNCHANGED c2s
      BY <2>5 DEF StartPlain, PlainClient
    <3>2. /\ client' \in Clients /\ Talks(client') /\ client'.build = client.build
          /\ client'.state = "ready" /\ client'.mode = "plain"
          /\ client'.session = PlainSession(ClientKey(0), k)
          /\ client'.session \in SUBSET Keys
      BY <1>5, <3>1, PlainStarts
    <3>3. Rest' = <<>> BY <1>8, <1>10, <3>1
    <3>4. CASE k = ServerKey /\ server.mode = "plain"
      <4>1. client'.session = server.session
        BY <2>2, <3>2, <3>4, PlainKeys
      <4> DEFINE c == client'
      <4>2. c.mode = server.mode /\ Match(server.mode, c.session, server.session)
        BY <3>2, <3>4, <4>1 DEF Match
      <4> HIDE DEF c
      <4>3. Honest(c, <<>>, server, <<>>)
        BY <1>5, <1>10, <3>4, <4>2, EmptyHonest
      <4>4. Honest(client', <<>>, server, <<>>) BY <4>3 DEF c
      <4>5. Whole(Rest') /\ Honest(client', sent', server, Rest')
        BY <1>3, <1>5, <2>3, <3>3, <4>4
      <4> QED BY <1>3, <1>5, <1>6, <1>8, <2>1, <3>1, <3>2, <3>4, <4>5, ClientMovesOn
    <3>5. CASE torn' /\ ~(k = ServerKey /\ server.mode = "plain")
      <4>1. server.mode = "plain" => server.session # client'.session
        BY <2>2, <2>5, <3>2, <3>5, PlainKeys
      <4> DEFINE c == client'
      <4>2. Foreign(c, server, <<>>)
        <5>1. c.mode = "plain" /\ c.session \in SUBSET Keys BY <3>2
        <5>2. server.mode = "plain" => server.session # c.session BY <4>1
        <5> HIDE DEF c
        <5>3. Len(<<>>) = 0 OBVIOUS
        <5> QED BY <1>10, <5>1, <5>2, <5>3 DEF Foreign
      <4>3. Foreign(client', server, <<>>) BY <4>2 DEF c
      <4>4. Whole(Rest') /\ Foreign(client', server, Rest')
        BY <2>3, <3>3, <4>3
      <4> QED BY <1>3, <1>5, <1>6, <1>8, <2>1, <3>1, <3>2, <3>5, <4>4, ClientMovesOn
    <3> QED BY <2>5, <3>4, <3>5
  <2>6. CASE n = 2
    <3>1. StartPlain(BrokenKey) BY <1>2, <2>6, <2>10
    <3>2. torn' BY <1>6, <1>10, <2>6
    <3> QED BY <1>7, <2>5, <3>1, <3>2
  <2>7. CASE n = 3
    <3>1. StartPlain(ServerKey) BY <1>2, <2>7, <2>10
    <3>2. torn' BY <1>6, <1>10, <2>7
    <3> QED BY <1>7, <2>5, <3>1, <3>2
  <2>8. CASE n = 4 /\ server.mode = "plain"
    <3>1. StartPlain(ServerKey) BY <1>2, <2>8, <2>10
    <3> QED BY <1>7, <2>5, <2>8, <3>1
  <2>9. CASE n = 4 /\ server.mode = "ratchet"
    <3> DEFINE line == [kind |-> "pubkey", pub |-> ClientKey(1)]
               c == client'
               r == Split(line)
    <3>1. StartRatchet(ServerKey) BY <1>2, <2>9, <2>10
    <3>2. c = RatchetClient(client, clientFirst) /\ c2s' = c2s \o r
      BY <3>1 DEF StartRatchet, RatchetClient, FirstSession
    <3> HIDE DEF c
    <3>3. /\ c \in Clients /\ Talks(c) /\ c.build = client.build
          /\ c.state = "ready" /\ c.mode = "ratchet"
          /\ c.session = FirstSession(clientFirst)
      <4>1. client \in Clients /\ client.since = 0 /\ clientFirst \in BOOLEAN
        BY <1>5
      <4> QED BY <3>2, <4>1, RatchetStarts
    <3>4. r \in Seq(ClientPieces) /\ Whole(r) /\ Honest(c, <<>>, server, r)
      BY <1>5, <1>10, <2>2, <2>9, <3>3, FirstLine
    <3>5. \A j \in 1 .. Len(r) : r[j].item.kind = "pubkey"
      <4>1. line \in ClientItems /\ line.kind = "pubkey"
        BY DEF ClientItems, Pubkeys, ClientKey, Keys
      <4> HIDE DEF line
      <4>2. Len(r) = 3 /\ \A j \in 1 .. 3 : r[j] = [item |-> line, piece |-> j]
        BY <4>1, SplitFacts, PieceCounts
      <4> HIDE DEF r
      <4> QED BY <4>1, <4>2
    <3> HIDE DEF r, line
    <3>6. c2s = <<>> /\ server.buf = <<>>
      <4> DEFINE b == server.buf
      <4>1. b \in Seq(ClientPieces) /\ c2s \in Seq(ClientPieces) /\ Len(b \o c2s) = 0
        BY <1>5, <1>10 DEF Rest
      <4> HIDE DEF b
      <4>2. Len(b \o c2s) = Len(b) + Len(c2s) /\ Len(b) \in Nat /\ Len(c2s) \in Nat
        BY <4>1, ConcatFacts
      <4>3. Len(b) = 0 /\ Len(c2s) = 0 BY <4>1, <4>2
      <4>4. b = <<>> /\ c2s = <<>> BY <4>1, <4>3
      <4> QED BY <4>4 DEF b
    <3>7. c2s' = r BY <3>2, <3>4, <3>6
    <3>8. Rest' = r BY <1>3, <3>4, <3>6, <3>7 DEF Rest
    <3>9. FreshEnoughKeys' BY <3>5, <3>7 DEF FreshEnoughKeys, RatchetFrame
    <3>10. Whole(Rest') /\ Honest(client', sent', server, Rest')
      BY <1>3, <1>5, <3>4, <3>8 DEF c
    <3> QED BY <1>3, <1>5, <1>6, <2>1, <2>9, <3>3, <3>4, <3>7, <3>9, <3>10,
               ClientMovesOn DEF c
  <2> QED BY <1>10, <2>1, <2>4, <2>6, <2>7, <2>8, <2>9
<1> QED BY <1>4, <1>9, <1>10

LEMMA CopiesLonger ==
  ASSUME NEW got \in Seq(Messages), NEW log \in Seq(Messages), NEW m \in Messages,
         Copies(got, log)
  PROVE  Copies(got, Append(log, m))
<1> DEFINE k == Len(got)
           a == Append(log, m)
           p == Take(log, k)
           q == Take(a, k)
<1>1. k \in Nat /\ k <= Len(log) /\ Len(log) \in Nat /\ got = p
  BY DEF Copies
<1>2. /\ a \in Seq(Messages) /\ Len(a) = Len(log) + 1
      /\ \A i \in 1 .. Len(log) : a[i] = log[i]
  BY AppendProperties
<1> HIDE DEF a, k
<1>3. /\ p \in Seq(Messages) /\ Len(p) = k /\ \A i \in 1 .. k : p[i] = log[i]
      /\ q \in Seq(Messages) /\ Len(q) = k /\ \A i \in 1 .. k : q[i] = a[i]
  <2>1. k \in 0 .. Len(log) /\ k \in 0 .. Len(a) BY <1>1, <1>2
  <2>2. p \in Seq(Messages) /\ Len(p) = k /\ \A i \in 1 .. k : p[i] = log[i]
    BY <2>1, DropFacts
  <2>3. a \in Seq(Messages) BY <1>2
  <2>4. q \in Seq(Messages) /\ Len(q) = k /\ \A i \in 1 .. k : q[i] = a[i]
    BY <2>1, <2>3, DropFacts
  <2> QED BY <2>2, <2>4
<1> HIDE DEF p, q
<1>4. p = q
  <2>1. \A i \in 1 .. Len(p) : p[i] = q[i]
    BY <1>1, <1>2, <1>3
  <2> QED BY <1>3, <2>1, SeqEqual
<1>5. k <= Len(a)
  BY <1>1, <1>2
<1> QED BY <1>1, <1>4, <1>5 DEF Copies, a, k, q

LEMMA ForeignAppend ==
  ASSUME NEW c, NEW s, NEW r \in Seq(ClientPieces), Foreign(c, s, r),
         c.mode = "plain", NEW q \in Seq(ClientPieces),
         \A j \in 1 .. Len(q) : /\ q[j].item.kind = "frame"
                                /\ q[j].item.cipher.key = c.session
  PROVE  Foreign(c, s, r \o q)
<1>1. PICK k \in SUBSET Keys :
        /\ \A j \in 1 .. Len(r) : /\ r[j].item.kind = "frame"
                                  /\ r[j].item.cipher.key = k
        /\ c.mode = "plain" => c.session = k
        /\ s.mode = "plain" => s.session # k
  BY DEF Foreign
<1> DEFINE d == r \o q
<1>2. /\ Len(d) = Len(r) + Len(q) /\ Len(r) \in Nat /\ Len(q) \in Nat
      /\ \A j \in 1 .. Len(r) : d[j] = r[j]
      /\ \A j \in Len(r) + 1 .. Len(r) + Len(q) : d[j] = q[j - Len(r)]
  BY ConcatFacts
<1> HIDE DEF d
<1>3. ASSUME NEW j \in 1 .. Len(d)
      PROVE  d[j].item.kind = "frame" /\ d[j].item.cipher.key = k
  <2>1. CASE j \in 1 .. Len(r) BY <1>1, <1>2, <2>1
  <2>2. CASE j \in Len(r) + 1 .. Len(r) + Len(q)
    <3>1. d[j] = q[j - Len(r)] /\ j - Len(r) \in 1 .. Len(q) BY <1>2, <2>2
    <3> QED BY <1>1, <3>1
  <2>3. j \in 1 .. Len(r) \/ j \in Len(r) + 1 .. Len(r) + Len(q)
    <3>1. j \in 1 .. Len(r) + Len(q) /\ Len(r) \in Nat /\ Len(q) \in Nat BY <1>2
    <3> QED BY <3>1
  <2> QED BY <2>1, <2>2, <2>3
<1> QED BY <1>1, <1>3 DEF Foreign, d

LEMMA SendInv ==
  ASSUME LinkInv, NEW m \in Messages, ClientSend(m)
  PROVE  LinkInv'
<1> DEFINE q == Rotated(client)
           d == AfterSealing(q)
           A == Announcement(client)
           frame == [kind |-> "frame", cipher |-> Sealed(q, m)]
           F == Split(frame)
<1>1. /\ client.state = "ready" /\ client' = d /\ c2s' = (c2s \o A) \o F
      /\ sent' = Append(sent, m) /\ server' = server /\ s2c' = s2c
      /\ failed' = failed /\ torn' = torn /\ clientFirst' = clientFirst
  BY DEF ClientSend
<1>2. /\ client \in Clients /\ Talks(client) /\ server \in Servers
      /\ c2s \in Seq(ClientPieces) /\ s2c \in Seq(ServerPieces)
      /\ sent \in Seq(Messages) /\ torn \in BOOLEAN /\ FreshEnoughKeys
      /\ Copies(server.got, sent)
      /\ server.buf \in Seq(ClientPieces) /\ server.got \in Seq(Messages)
  BY DEF LinkInv, LinkTypes, ClientShape, Servers
<1>3. /\ q \in Clients /\ Talks(q) /\ ~RotationDue(q)
      /\ q.state = "ready" /\ q.mode = client.mode /\ q.build = client.build
      /\ A \in Seq(ClientPieces)
      /\ \A j \in 1 .. Len(A) : A[j].item.kind = "pubkey"
      /\ client.mode # "ratchet" => q = client /\ A = <<>>
  <2>1. client.mode # "ratchet" => ~RotationDue(client) BY DEF RotationDue
  <2> QED BY <1>1, <1>2, <2>1, RotationTypes
<1> HIDE DEF q, A
<1>4. /\ Sealed(q, m) \in RatchetCiphers \cup PlainCiphers
      /\ d \in Clients /\ Talks(d) /\ d.state = "ready" /\ d.mode = q.mode
      /\ d.build = q.build
      /\ q.mode = "ratchet" =>
           /\ Len(Sealed(q, m).key.root) >= 2
           /\ Sealed(q, m).key.step < RotateEvery
      /\ q.mode = "plain" => Sealed(q, m) = [key |-> q.session, plain |-> m] /\ d = q
  BY <1>3, SealTypes
<1>5. /\ frame \in Frames /\ frame \in ClientItems /\ frame.kind = "frame"
      /\ frame.cipher = Sealed(q, m)
  BY <1>4 DEF Frames, ClientItems
<1> HIDE DEF d, frame
<1>6. /\ F \in Seq(ClientPieces) /\ Len(F) = 2
      /\ \A i \in 1 .. 2 : F[i] = [item |-> frame, piece |-> i]
  BY <1>5, SplitFacts, PieceCounts
<1>7. q.mode \in {"plain", "ratchet"}
  BY <1>3 DEF Talks, Clients, Modes
<1> HIDE DEF F
<1>8. c2s \o A \in Seq(ClientPieces) /\ c2s' \in Seq(ClientPieces)
  <2> DEFINE e == c2s \o A
  <2>1. e \in Seq(ClientPieces) BY <1>2, <1>3, ConcatFacts
  <2> HIDE DEF e
  <2>2. e \o F \in Seq(ClientPieces) BY <1>6, <2>1, ConcatFacts
  <2> QED BY <1>1, <2>1, <2>2 DEF e
<1>9. Rest' = (Rest \o A) \o F /\ Rest \in Seq(ClientPieces) /\ Rest \o A \in Seq(ClientPieces)
  <2> DEFINE b == server.buf
             e == c2s \o A
  <2>1. b \in Seq(ClientPieces) BY <1>2
  <2>2. Rest' = b \o (e \o F) /\ Rest = b \o c2s BY <1>1 DEF Rest
  <2>3. (b \o c2s) \o A = b \o e
    <3> HIDE DEF b
    <3>1. c2s \in Seq(ClientPieces) /\ A \in Seq(ClientPieces) BY <1>2, <1>3
    <3> QED BY <2>1, <3>1, ConcatAssociative
  <2>4. b \o c2s \in Seq(ClientPieces) /\ b \o e \in Seq(ClientPieces)
    <3> HIDE DEF b, e
    <3>1. e \in Seq(ClientPieces) BY <1>8 DEF e
    <3> QED BY <1>2, <2>1, <3>1, ConcatFacts
  <2> HIDE DEF b, e
  <2>5. (b \o e) \o F = b \o (e \o F)
    <3>1. e \in Seq(ClientPieces) BY <1>8 DEF e
    <3> QED BY <1>6, <2>1, <3>1, ConcatAssociative
  <2> QED BY <2>2, <2>3, <2>4, <2>5
<1>10. FreshEnoughKeys'
  <2>1. Fresh(c2s) BY <1>2 DEF FreshEnoughKeys, Fresh
  <2>2. Fresh(A) BY <1>3 DEF Fresh, RatchetFrame
  <2>3. Fresh(F)
    <3>1. ASSUME NEW i \in 1 .. Len(F), RatchetFrame(F[i])
          PROVE  /\ Len(F[i].item.cipher.key.root) >= 2
                 /\ F[i].item.cipher.key.step < RotateEvery
      <4>1. F[i].item = frame /\ "ctr" \in DOMAIN frame.cipher
        BY <1>6, <3>1 DEF RatchetFrame
      <4>2. q.mode # "plain"
        <5>1. q.mode = "plain" => DOMAIN frame.cipher = {"key", "plain"}
          BY <1>4, <1>5
        <5> QED BY <4>1, <5>1
      <4> QED BY <1>4, <1>5, <1>7, <4>1, <4>2
    <3> QED BY <3>1 DEF Fresh
  <2>4. Fresh(c2s \o A) BY <1>2, <1>3, <2>1, <2>2, FreshConcat
  <2>5. Fresh((c2s \o A) \o F) BY <1>6, <1>8, <2>3, <2>4, FreshConcat
  <2> QED BY <1>1, <2>5 DEF FreshEnoughKeys, Fresh
<1>11. Copies(server.got, sent') /\ sent' \in Seq(Messages)
  BY <1>1, <1>2, CopiesLonger
<1>12. Live => server.mode # "none"
  BY <1>1 DEF LinkInv, Handshake
<1>13. ASSUME Live
       PROVE  /\ Whole(Rest')
              /\ \/ Honest(client', sent', server, Rest')
                 \/ torn' /\ Foreign(client', server, Rest')
  <2>1. /\ Whole(Rest)
        /\ \/ Honest(client, sent, server, Rest)
           \/ torn /\ Foreign(client, server, Rest)
    BY <1>1, <1>12, <1>13 DEF LinkInv, Flow
  <2> DEFINE log == Append(sent, m)
             R == Rest
  <2>2. R \in Seq(ClientPieces) /\ R \o A \in Seq(ClientPieces) /\ Whole(R)
    BY <1>9, <2>1
  <2> HIDE DEF R
  <2>3. CASE Honest(client, sent, server, Rest)
    <3>1. PICK after : Keeps(client, sent, after, server, R)
      BY <2>3 DEF Honest, R
    <3>2. PICK more : Keeps(q, sent, more, server, R \o A)
      BY <1>1, <1>2, <2>2, <3>1, RotatesHonestly DEF q, A
    <3>3. Whole(R \o A)
      BY <1>1, <1>2, <2>2, <3>1, RotatesHonestly DEF A
    <3>4. PICK last : Keeps(d, log, last, server, (R \o A) \o F)
      BY <1>2, <1>3, <1>5, <2>2, <3>2, SealsHonestly DEF d, F
    <3>5. Whole((R \o A) \o F)
      BY <1>5, <2>2, <3>3, WholeAppend DEF F
    <3>6. RotatesFirst(d, server, (R \o A) \o F)
      <4>1. SUFFICES ASSUME server.mode = "ratchet", ~server.ready
                     PROVE  RotatesFirst(d, server, (R \o A) \o F)
        BY DEF RotatesFirst
      <4>2. R # <<>> /\ R[1].item.kind = "pubkey"
        BY <1>1, <2>3, <4>1 DEF Honest, RotatesFirst, R
      <4> DEFINE x == R \o A
                 y == x \o F
      <4>3. /\ Len(x) = Len(R) + Len(A) /\ Len(R) \in Nat /\ Len(A) \in Nat
            /\ \A j \in 1 .. Len(R) : x[j] = R[j]
        BY <1>3, <2>2, ConcatFacts
      <4>4. Len(R) >= 1 BY <2>2, <4>2
      <4>5. 1 \in 1 .. Len(R) /\ Len(x) >= 1 BY <4>3, <4>4
      <4>6. x \in Seq(ClientPieces) /\ F \in Seq(ClientPieces) BY <1>6, <2>2
      <4> HIDE DEF x
      <4>7. /\ Len(y) = Len(x) + Len(F) /\ Len(x) \in Nat /\ Len(F) \in Nat
            /\ \A j \in 1 .. Len(x) : y[j] = x[j]
        BY <4>6, ConcatFacts
      <4> HIDE DEF y
      <4>8. 1 \in 1 .. Len(x) /\ Len(y) >= 1 BY <4>5, <4>7
      <4>9. y[1].item.kind = "pubkey" BY <4>2, <4>3, <4>5, <4>7, <4>8
      <4>10. y # <<>>
        <5>1. y = <<>> => Len(y) = 0 OBVIOUS
        <5> QED BY <4>8, <5>1
      <4>11. RotatesFirst(d, server, y)
        BY <4>9, <4>10 DEF RotatesFirst
      <4> QED BY <4>11 DEF x, y
    <3>7. Honest(d, log, server, (R \o A) \o F)
      BY <3>4, <3>6 DEF Honest
    <3> QED BY <1>1, <1>9, <3>5, <3>7 DEF R
  <2>4. CASE torn /\ Foreign(client, server, Rest)
    <3>1. client.mode = "plain" /\ q = client /\ A = <<>> /\ d = client
      BY <1>3, <1>4, <1>7, <2>4 DEF Foreign
    <3>2. R \o A = R
      BY <2>2, <3>1
    <3>3. Whole(R \o F)
      BY <1>5, <2>2, WholeAppend DEF F
    <3>4. \A j \in 1 .. Len(F) : /\ F[j].item.kind = "frame"
                                 /\ F[j].item.cipher.key = client.session
      <4>1. frame.cipher.key = client.session BY <1>4, <1>5, <3>1
      <4> QED BY <1>5, <1>6, <4>1
    <3>5. Foreign(client, server, R \o F)
      BY <1>6, <2>2, <2>4, <3>1, <3>4, ForeignAppend DEF R
    <3>6. Rest' = R \o F /\ client' = client
      BY <1>1, <1>9, <3>1, <3>2 DEF R
    <3> QED BY <1>1, <2>4, <3>3, <3>5, <3>6
  <2> QED BY <2>1, <2>3, <2>4
<1>14. /\ client' \in Clients /\ Talks(client') /\ client'.build = client.build
       /\ client'.state = "ready" /\ client'.mode = client.mode
  BY <1>1, <1>3, <1>4
<1> QED BY <1>1, <1>2, <1>8, <1>10, <1>11, <1>12, <1>13, <1>14, ClientMovesOn

-----------------------------------------------------------------------------
(***************************************************************************)
(* The invariant is inductive, and says what the run checks.               *)
(***************************************************************************)
LEMMA StutterInv == LinkInv /\ UNCHANGED vars => LinkInv'
<1> SUFFICES ASSUME LinkInv, UNCHANGED vars PROVE LinkInv'
  OBVIOUS
<1>1. /\ client' = client /\ server' = server /\ c2s' = c2s /\ s2c' = s2c
      /\ sent' = sent /\ failed' = failed /\ torn' = torn /\ clientFirst' = clientFirst
  BY DEF vars
<1>2. Rest' = Rest /\ Live' = Live /\ Hello' = Hello /\ Ack' = Ack /\ Nack' = Nack
  BY <1>1 DEF Rest, Live, Hello, Ack, Nack
<1>3. /\ Compatible' = Compatible /\ AgreedMode' = AgreedMode
      /\ NewServerSession(server.mode, ClientKey(0))'
           = NewServerSession(server.mode, ClientKey(0))
  BY <1>1 DEF Compatible, AgreedMode, NewServerSession
<1>4. LinkTypes' /\ ClientShape' /\ ServerShape'
  BY <1>1 DEF LinkInv, LinkTypes, ClientShape, ServerShape
<1>5. Handshake'
  BY <1>1, <1>2, <1>3 DEF LinkInv, Handshake
<1>6. Flow'
  BY <1>1, <1>2 DEF LinkInv, Flow
<1>7. Copies(server.got, sent)'
  BY <1>1 DEF LinkInv
<1>8. NothingGarbled' /\ HealthyStaysOpen' /\ ModesAgree'
  BY <1>1, <1>3 DEF LinkInv, NothingGarbled, HealthyStaysOpen, StaysOpen, ModesAgree
<1>9. FreshEnoughKeys' /\ StuckOnlyBehindRotation'
  BY <1>1 DEF LinkInv, FreshEnoughKeys, StuckOnlyBehindRotation
<1> QED BY <1>4, <1>5, <1>6, <1>7, <1>8, <1>9 DEF LinkInv

LEMMA LinkInductive == LinkInv /\ [Next]_vars => LinkInv'
<1> SUFFICES ASSUME LinkInv, [Next]_vars PROVE LinkInv'
  OBVIOUS
<1>1. CASE ClientConnected BY <1>1, ClientConnectedInv
<1>2. CASE ClientReadyRead BY <1>2, ReadyReadInv
<1>3. CASE \E m \in Messages : ClientSend(m) BY <1>3, SendInv
<1>4. CASE ClientSeesClose BY <1>4, ClientSeesCloseInv
<1>5. CASE ServerRefusesEarlyData BY <1>5, RefusesEarlyDataInv
<1>6. CASE ServerAwaitsHello BY <1>6, AwaitsHelloInv
<1>7. CASE ServerRejects BY <1>7, RejectsInv
<1>8. CASE ServerAccepts BY <1>8, AcceptsInv
<1>9. CASE ServerAwaitsPubkey BY <1>9, AwaitsPubkeyInv
<1>10. CASE ServerRefusesUnready BY <1>10, RefusesUnreadyInv
<1>11. CASE ServerProcesses BY <1>11, ProcessesInv
<1>12. CASE ServerSeesClose BY <1>12, ServerSeesCloseInv
<1>13. CASE NetworkFails BY <1>13, NetworkFailsInv
<1>14. CASE UNCHANGED vars BY <1>14, StutterInv
<1> QED
  BY <1>1, <1>2, <1>3, <1>4, <1>5, <1>6, <1>7, <1>8, <1>9, <1>10, <1>11, <1>12,
     <1>13, <1>14 DEF Next, ServerStep

\* The invariant of the link holds throughout.
THEOREM LinkInvariant == Spec => []LinkInv
BY LinkInit, LinkInductive, PTL DEF Spec

\* What is kept for a connection has its type at both ends, and the server is
\* ready for frames only with a ratchet session whose root has been rotated.
THEOREM TypesHold == Spec => []TypeOK
<1>1. LinkInv => TypeOK
  <2> SUFFICES ASSUME LinkInv PROVE TypeOK
    OBVIOUS
  <2>1. /\ client \in Clients /\ server \in Servers /\ sent \in Seq(Messages)
        /\ Able(server)
    BY DEF LinkInv, LinkTypes, ServerShape
  <2>2. /\ client.state \in States /\ server.state \in States
        /\ client.mode \in Modes /\ server.mode \in Modes
        /\ client.build \in Builds /\ server.build \in Builds
        /\ client.since \in 0 .. RotateEvery /\ server.got \in Seq(Messages)
    BY <2>1 DEF Clients, Servers, States
  <2>3. server.ready => server.mode = "ratchet" /\ Epoch(server.session) >= 2
    BY <2>1 DEF Able, Epoch
  <2> QED BY <2>1, <2>2, <2>3 DEF TypeOK
<1> QED
  BY <1>1, LinkInvariant, PTL

\* The messages that the server hands to the window are, in order and without
\* a gap, the first of those that sendTypedFrame has written, whatever pieces
\* TCP delivers and however many rotation lines lie among the frames.
THEOREM ArrivalInOrder == Spec => []DeliveredInOrder
<1>1. LinkInv => DeliveredInOrder
  <2> SUFFICES ASSUME LinkInv PROVE DeliveredInOrder
    OBVIOUS
  <2> DEFINE got == server.got
             k   == Len(got)
  <2>1. got \in Seq(Messages) /\ sent \in Seq(Messages) /\ Copies(got, sent)
    BY DEF LinkInv, LinkTypes, Servers
  <2> HIDE DEF got
  <2>2. k \in 0 .. Len(sent) /\ got = Take(sent, k)
    BY <2>1 DEF Copies
  <2>3. \A i \in 1 .. k : got[i] = sent[i]
    BY <2>1, <2>2, DropFacts
  <2>4. IsPrefix(got, sent)
    BY <2>1, <2>2, <2>3 DEF IsPrefix
  <2> QED BY <2>4 DEF DeliveredInOrder, got
<1> QED
  BY <1>1, LinkInvariant, PTL

\* The server's decrypt never fails on a connection of which no read has been
\* torn, across the handshake and every rotation.
THEOREM EveryFrameOpens == Spec => []NothingGarbled
<1>1. LinkInv => NothingGarbled
  BY DEF LinkInv
<1> QED
  BY <1>1, LinkInvariant, PTL

\* disconnect is called, at either end, only on an incompatible peer, on a
\* broken connection, or after a torn read.
THEOREM OpenWhileHealthy == Spec => []HealthyStaysOpen
<1>1. LinkInv => HealthyStaysOpen
  BY DEF LinkInv
<1> QED
  BY <1>1, LinkInvariant, PTL

\* The two ends, each of which chooses for itself from the versions, choose
\* the same kind of session.
THEOREM SameKindOfSession == Spec => []ModesAgree
<1>1. LinkInv => ModesAgree
  BY DEF LinkInv
<1> QED
  BY <1>1, LinkInvariant, PTL

\* sendTypedFrame seals at most RotateEvery messages with the chain of one
\* rotation, and none before the first.
THEOREM KeysFreshEnough == Spec => []FreshEnoughKeys
<1>1. LinkInv => FreshEnoughKeys
  BY DEF LinkInv
<1> QED
  BY <1>1, LinkInvariant, PTL

\* processMessage leaves a whole frame in the buffer only behind a rotation
\* line, which it takes for a frame with a length that never comes.
THEOREM StuckBehindRotationOnly == Spec => []StuckOnlyBehindRotation
<1>1. LinkInv => StuckOnlyBehindRotation
  BY DEF LinkInv
<1> QED
  BY <1>1, LinkInvariant, PTL
=============================================================================
