------------------------ MODULE RatchetPair_proofs --------------------------
(***************************************************************************)
(* What is proved of RatchetPair, for every set of messages, every bound   *)
(* and every width of the counters.                                        *)
(***************************************************************************)
EXTENDS RatchetPair, SequenceTheorems, TLAPS

LEMMA CounterFacts ==
  /\ 0 \in Counters
  /\ \A c \in Counters : Bump(c) \in Counters
BY CounterModAssumption, SMT DEF Counters, Bump

LEMMA PeerFacts ==
  \A p \in Party : Peer(p) \in Party /\ Peer(p) # p /\ Peer(Peer(p)) = p
BY PartiesAssumption DEF Party, Peer

\* A chain starts well typed and stays so as it advances.
LEMMA ChainTypes ==
  /\ \A r \in Roots, l \in Labels : Chain(r, l) \in Chains
  /\ \A c \in Chains : Advance(c) \in Chains
BY SMT DEF Chain, Advance, Chains

LEMMA NewSessionType ==
  ASSUME NEW self \in Keys, NEW peer \in Keys, NEW first \in BOOLEAN
  PROVE  NewSession(self, peer, first) \in Sessions
<1>1. <<{self, peer}>> \in Roots BY DEF Roots
<1>2. \A l \in {"send", "recv"} : Chain(<<{self, peer}>>, l) \in Chains
  BY <1>1, ChainTypes DEF Labels
<1> QED BY <1>1, <1>2, CounterFacts DEF NewSession, Sessions

LEMMA DoRatchetType ==
  ASSUME NEW s \in Sessions, NEW self \in Keys, NEW peer \in Keys,
         NEW initiator \in BOOLEAN
  PROVE  DoRatchet(s, self, peer, initiator) \in Sessions
<1> DEFINE root == Append(s.root, {self, peer})
<1>1. root \in Roots BY DEF Roots, Sessions
<1>2. \A l \in {"send-v2", "recv-v2"} : Chain(root, l) \in Chains
  BY <1>1, ChainTypes DEF Labels
<1> HIDE DEF root
<1>3. QED BY <1>1, <1>2 DEF DoRatchet, Sessions, root

LEMMA AfterEncryptType ==
  ASSUME NEW s \in Sessions
  PROVE  AfterEncrypt(s) \in Sessions
<1>1. Advance(s.send) \in Chains /\ Bump(s.sendCtr) \in Counters
  BY ChainTypes, CounterFacts DEF Sessions
<1> QED BY <1>1 DEF AfterEncrypt, Sessions

LEMMA AfterDecryptType ==
  ASSUME NEW s \in Sessions, NEW c
  PROVE  AfterDecrypt(s, c) \in Sessions
<1>1. Advance(s.recv) \in Chains /\ Bump(s.recvCtr) \in Counters
  BY ChainTypes, CounterFacts DEF Sessions
<1> QED BY <1>1 DEF AfterDecrypt, Sessions

LEMMA HalfType ==
  ASSUME NEW s \in Sessions, NEW n \in Nat
  PROVE  Half(s, n) \in Halves
BY DEF Half, Halves, Sessions

LEMMA EpochType ==
  ASSUME NEW s \in Sessions
  PROVE  Epoch(s) \in Nat
BY DEF Epoch, Sessions, Roots

LEMMA FrameType ==
  ASSUME NEW s \in Sessions, NEW m \in Messages
  PROVE  Frame(Encrypt(s, m), Epoch(s)) \in Items
BY EpochType DEF Frame, Encrypt, Items, Ciphers, Sessions

\* Overwriting a place of a sequence, or none, leaves a sequence.
LEMMA OverwriteType ==
  ASSUME NEW S, NEW seq \in Seq(S), NEW i \in Nat, NEW e \in S
  PROVE  [seq EXCEPT ![i] = e] \in Seq(S)
<1>1. CASE i \in 1 .. Len(seq) BY <1>1, ExceptSeq
<1>2. CASE i \notin 1 .. Len(seq)
  <2>1. [seq EXCEPT ![i] = e] = seq BY <1>2
  <2> QED BY <2>1
<1> QED BY <1>1, <1>2

\* The state keeps its type: whatever the two ends write and read, each
\* session object stays well formed and no end reads past what was written.
THEOREM TypeCorrect == Spec => []TypeOK
<1>1. Init => TypeOK
  <2> SUFFICES ASSUME Init PROVE TypeOK
    OBVIOUS
  <2>1. session \in [Party -> Sessions]
    <3>1. \A p \in Party : Key(p, 0) \in Keys /\ Key(Peer(p), 0) \in Keys
      BY PeerFacts DEF Key, Keys
    <3>2. PICK f \in BOOLEAN :
            session = [p \in Party |-> NewSession(Key(p, 0), Key(Peer(p), 0),
                                                  (p = Client) = f)]
      BY DEF Init
    <3>3. \A p \in Party :
            NewSession(Key(p, 0), Key(Peer(p), 0), (p = Client) = f) \in Sessions
      BY <3>1, NewSessionType
    <3> QED BY <3>2, <3>3
  <2>2. halves \in [Party -> Seq(Halves)]
    <3>1. \A p \in Party : Half(session[p], 0) \in Halves
      BY <2>1, HalfType
    <3> QED BY <3>1 DEF Init
  <2> QED BY <2>1, <2>2, MaxItemsAssumption DEF Init, TypeOK
<1>2. TypeOK /\ [Next]_vars => TypeOK'
  <2> SUFFICES ASSUME TypeOK, [Next]_vars PROVE TypeOK'
    OBVIOUS
  <2> USE DEF TypeOK
  <2>1. ASSUME NEW p \in Party, NEW m \in Messages, Send(p, m) PROVE TypeOK'
    <3>1. AfterEncrypt(session[p]) \in Sessions BY AfterEncryptType
    <3>2. Half(AfterEncrypt(session[p]), Len(sent[p]) + 1) \in Halves
      BY <3>1, HalfType
    <3>3. Frame(Encrypt(session[p], m), Epoch(session[p])) \in Items
      BY FrameType
    <3>4. session' \in [Party -> Sessions] /\ log' \in [Party -> Seq(Items)]
      BY <2>1, <3>1, <3>3 DEF Send
    <3>5. sent' \in [Party -> Seq(Messages)] /\ halves' \in [Party -> Seq(Halves)]
      BY <2>1, <3>2 DEF Send
    <3>6. \A q \in Party : done'[q] <= Len(log'[q]) /\ Len(log'[q]) <= MaxItems
      BY <2>1, MaxItemsAssumption DEF Send
    <3> QED BY <2>1, <3>4, <3>5, <3>6 DEF Send
  <2>2. ASSUME NEW p \in Party, Rotate(p) PROVE TypeOK'
    <3> DEFINE new == Key(p, session[p].self[2] + 1)
               s   == PrepareRatchetStep(session[p], new)
    <3>1. new \in Keys /\ session[p].peer \in Keys
      <4>1. session[p].self \in Party \X Nat /\ session[p].peer \in Keys
        BY DEF Sessions, Keys
      <4>2. session[p].self[2] + 1 \in Nat BY <4>1
      <4> QED BY <4>1, <4>2 DEF Keys, Key
    <3>2. s \in Sessions
      BY <3>1, DoRatchetType DEF PrepareRatchetStep
    <3>3. Half(s, Len(sent[p])) \in Halves
      BY <3>2, HalfType
    <3>4. Pubkey(new) \in Items
      BY <3>1 DEF Pubkey, Items
    <3> HIDE DEF new, s
    <3>5. session' = [session EXCEPT ![p] = s]
          /\ log' = [log EXCEPT ![p] = Append(@, Pubkey(new))]
          /\ halves' = [halves EXCEPT ![p] = Append(@, Half(s, Len(sent[p])))]
      BY <2>2 DEF Rotate, new, s
    <3>6. \A q \in Party : done'[q] <= Len(log'[q]) /\ Len(log'[q]) <= MaxItems
      BY <2>2, <3>5, MaxItemsAssumption DEF Rotate
    <3> QED BY <2>2, <3>2, <3>3, <3>4, <3>5, <3>6 DEF Rotate
  <2>3. ASSUME NEW p \in Party, ReceiveFrame(p) PROVE TypeOK'
    <3> DEFINE q == Peer(p)
               c == NextItem(p).cipher
    <3>1. q \in Party BY PeerFacts
    <3>2. NextItem(p) \in Items /\ NextItem(p).kind = "frame"
      BY <2>3 DEF ReceiveFrame, InFlight, NextItem
    <3>3. c.plain \in Messages /\ NextItem(p).epoch \in Nat
      BY <3>2 DEF Items, Ciphers
    <3>4. AfterDecrypt(session[q], c) \in Sessions
      BY <3>1, AfterDecryptType
    <3>5. Epoch(session[q]) \in Nat
      BY <3>1, EpochType
    <3> DEFINE r == [wrote |-> NextItem(p).epoch, read |-> Epoch(session[q]),
                     ok |-> Decrypts(session[q], c)]
    <3>6. r \in Receipts
      BY <3>3, <3>5 DEF Receipts, Decrypts, InOrder
    <3>7. session' \in [Party -> Sessions]
      BY <2>3, <3>1, <3>4 DEF ReceiveFrame
    <3>8. delivered' \in [Party -> Seq(Messages)]
      BY <2>3, <3>3 DEF ReceiveFrame
    <3>9. receipts' \in [Party -> Seq(Receipts)]
      <4>1. receipts' = [receipts EXCEPT ![p] = Append(@, r)]
        BY <2>3 DEF ReceiveFrame
      <4> HIDE DEF r
      <4> QED BY <3>6, <4>1
    <3>10. \A x \in Party : done'[x] <= Len(log'[x]) /\ Len(log'[x]) <= MaxItems
      BY <2>3 DEF ReceiveFrame, InFlight
    <3> QED BY <2>3, <3>7, <3>8, <3>9, <3>10 DEF ReceiveFrame
  <2>4. ASSUME NEW p \in Party, ReceivePubkey(p) PROVE TypeOK'
    <3> DEFINE q == Peer(p)
               s == ApplyPeerRatchetKey(session[q], NextItem(p).pub)
    <3>1. q \in Party BY PeerFacts
    <3>2. NextItem(p) \in Items /\ NextItem(p).kind = "pubkey"
      BY <2>4 DEF ReceivePubkey, InFlight, NextItem
    <3>3. NextItem(p).pub \in Keys
      BY <3>2 DEF Items
    <3>4. s \in Sessions
      <4>1. session[q] \in Sessions /\ session[q].self \in Keys
        BY <3>1 DEF Sessions
      <4> QED BY <3>3, <4>1, DoRatchetType DEF ApplyPeerRatchetKey
    <3>5. Half(s, Len(sent[q])) \in Halves
      BY <3>1, <3>4, HalfType
    <3> HIDE DEF s, q
    <3>6. session' = [session EXCEPT ![q] = s]
          /\ halves' = [halves EXCEPT ![q] =
                          [@ EXCEPT ![Len(log[q]) + 1] = Half(s, Len(sent[q]))]]
      BY <2>4 DEF ReceivePubkey, s, q
    <3>7. halves' \in [Party -> Seq(Halves)]
      <4>1. halves[q] \in Seq(Halves) /\ Len(log[q]) + 1 \in Nat BY <3>1
      <4>2. [halves[q] EXCEPT ![Len(log[q]) + 1] = Half(s, Len(sent[q]))]
              \in Seq(Halves)
        BY <3>5, <4>1, OverwriteType
      <4> QED BY <3>6, <4>2
    <3>8. \A x \in Party : done'[x] <= Len(log'[x]) /\ Len(log'[x]) <= MaxItems
      BY <2>4 DEF ReceivePubkey, InFlight
    <3>9. session' \in [Party -> Sessions] BY <3>4, <3>6
    <3>10. done' \in [Party -> Nat]
           /\ UNCHANGED <<log, sent, delivered, receipts>>
      BY <2>4 DEF ReceivePubkey
    <3> QED BY <3>7, <3>8, <3>9, <3>10
  <2>5. CASE UNCHANGED vars
    BY <2>5 DEF vars
  <2> QED BY <2>1, <2>2, <2>3, <2>4, <2>5 DEF Next
<1> QED BY <1>1, <1>2, PTL DEF Spec
-----------------------------------------------------------------------------
(***************************************************************************)
(* The client's frames are decrypted in order.                             *)
(***************************************************************************)

\* What encrypting does to the sending half ...
LEMMA HalfOfEncrypt ==
  ASSUME NEW s \in Sessions, NEW m \in Messages, NEW n \in Nat
  PROVE  Wrote(Half(s, n), Frame(Encrypt(s, m), Epoch(s)),
               Half(AfterEncrypt(s), n + 1))
BY DEF Wrote, Half, Frame, Encrypt, AfterEncrypt, Sessions

\* ... and what preparing a rotation does to it.
LEMMA HalfOfRotate ==
  ASSUME NEW s \in Sessions, NEW k \in Keys, NEW n \in Nat
  PROVE  Wrote(Half(s, n), Pubkey(k), Half(PrepareRatchetStep(s, k), n))
BY DEF Wrote, Half, Pubkey, PrepareRatchetStep, DoRatchet, Sessions

\* A session that mirrors the half a frame was written with decrypts it, and
\* mirrors the next half afterwards.
LEMMA MirrorDecrypts ==
  ASSUME NEW s \in Sessions, NEW h \in Halves, NEW g, NEW item,
         item.kind = "frame", Wrote(h, item, g), Mirrors(h, s)
  PROVE  /\ Decrypts(s, item.cipher)
         /\ Mirrors(g, AfterDecrypt(s, item.cipher))
         /\ g.count = h.count + 1
<1>1. InOrder(s, item.cipher) /\ Decrypts(s, item.cipher)
  BY DEF Wrote, Mirrors, Decrypts, InOrder
<1>2. AfterDecrypt(s, item.cipher)
        = [s EXCEPT !.recv = Advance(@), !.recvCtr = Bump(@)]
  BY <1>1 DEF AfterDecrypt
<1> QED BY <1>1, <1>2 DEF Mirrors, Sessions, Wrote

\* Likewise for the new key of a rotation.
LEMMA MirrorRotates ==
  ASSUME NEW s \in Sessions, NEW h \in Halves, NEW g, NEW item,
         item.kind = "pubkey", Wrote(h, item, g), Mirrors(h, s)
  PROVE  /\ Mirrors(g, ApplyPeerRatchetKey(s, item.pub))
         /\ g.count = h.count
<1> DEFINE root == Append(h.root, {item.pub, h.peer})
<1>1. /\ g.root = root /\ g.self = item.pub /\ g.peer = h.peer
      /\ g.chain = Chain(root, "send-v2")
      /\ g.ctr = h.ctr /\ g.count = h.count
  BY DEF Wrote
<1>2. Append(s.root, {s.self, item.pub}) = root
  <2>1. {item.pub, h.peer} = {s.self, item.pub} BY DEF Mirrors
  <2> QED BY <2>1 DEF Mirrors
<1>3. ApplyPeerRatchetKey(s, item.pub)
        = [s EXCEPT !.root = root, !.self = s.self, !.peer = item.pub,
                    !.send = Chain(root, "recv-v2"),
                    !.recv = Chain(root, "send-v2")]
  BY <1>2 DEF ApplyPeerRatchetKey, DoRatchet
<1> HIDE DEF root
<1> QED BY <1>1, <1>3 DEF Mirrors, Sessions

\* Only the sending half counts: reading leaves it alone.
LEMMA HalfOfDecrypt ==
  ASSUME NEW s \in Sessions, NEW c, NEW n
  PROVE  Half(AfterDecrypt(s, c), n) = Half(s, n)
BY DEF Half, AfterDecrypt, Sessions

\* And writing leaves the receiving half alone.
LEMMA MirrorOfEncrypt ==
  ASSUME NEW s \in Sessions, NEW h, Mirrors(h, s)
  PROVE  Mirrors(h, AfterEncrypt(s))
BY DEF Mirrors, AfterEncrypt, Sessions

LEMMA ForwardInit == Init => ForwardInv
<1> SUFFICES ASSUME Init PROVE ForwardInv
  OBVIOUS
<1> USE PartiesAssumption DEF Party
<1>1. PICK f \in BOOLEAN :
        session = [p \in Party |-> NewSession(Key(p, 0), Key(Peer(p), 0),
                                              (p = Client) = f)]
  BY DEF Init
<1>2. /\ session[Client] = NewSession(Key(Client, 0), Key(Server, 0), f)
      /\ session[Server] = NewSession(Key(Server, 0), Key(Client, 0), ~f)
  BY <1>1 DEF Peer
<1>3. halves[Client] = <<Half(session[Client], 0)>>
      /\ log[Client] = <<>> /\ log[Server] = <<>> /\ done[Client] = 0
      /\ sent[Client] = <<>> /\ delivered[Client] = <<>>
      /\ receipts[Client] = <<>>
  BY DEF Init
<1>4. Mirrors(Half(session[Client], 0), session[Server])
  <2>1. {Key(Client, 0), Key(Server, 0)} = {Key(Server, 0), Key(Client, 0)}
    OBVIOUS
  <2> QED BY <1>2, <2>1 DEF Mirrors, Half, NewSession
<1>5. Half(session[Client], 0).count = 0 BY DEF Half
<1>6. ServerNeverRotates BY <1>3 DEF ServerNeverRotates
<1>7. HalvesFollowLog BY <1>3 DEF HalvesFollowLog
<1>8. CountsNameMessages BY <1>3, <1>5 DEF CountsNameMessages
<1>9. ServerMirrorsClient BY <1>3, <1>4, <1>5 DEF ServerMirrorsClient
<1>10. ForwardInSync BY <1>3 DEF ForwardInSync
<1> QED BY <1>6, <1>7, <1>8, <1>9, <1>10 DEF ForwardInv

\* Something was written by the client: the log and the halves grow together.
LEMMA ClientWrites ==
  ASSUME TypeOK, TypeOK', ForwardInv,
         NEW item \in Items, NEW g \in Halves,
         log' = [log EXCEPT ![Client] = Append(@, item)],
         halves' = [halves EXCEPT ![Client] = Append(@, g)],
         g = Half(session'[Client], Len(sent'[Client])),
         Wrote(halves[Client][Len(log[Client]) + 1], item, g)
  PROVE  HalvesFollowLog'
<1> DEFINE n == Len(log[Client])
           h == halves[Client]
<1>1. h \in Seq(Halves) /\ n \in Nat /\ Len(h) = n + 1
      /\ log[Client] \in Seq(Items)
  BY DEF TypeOK, ForwardInv, HalvesFollowLog, Party
<1>2. /\ halves'[Client] = Append(h, g)
      /\ log'[Client] = Append(log[Client], item)
  BY DEF TypeOK, Party
<1>3. /\ Len(halves'[Client]) = n + 2 /\ Len(log'[Client]) = n + 1
      /\ halves'[Client][n + 2] = g /\ log'[Client][n + 1] = item
      /\ \A i \in 1 .. n + 1 : halves'[Client][i] = h[i]
      /\ \A i \in 1 .. n : log'[Client][i] = log[Client][i]
  BY <1>1, <1>2
<1>4. \A i \in 1 .. n : Wrote(h[i], log[Client][i], h[i + 1])
  BY DEF ForwardInv, HalvesFollowLog
<1>5. ASSUME NEW i \in 1 .. n + 1
      PROVE  Wrote(halves'[Client][i], log'[Client][i], halves'[Client][i + 1])
  <2>1. CASE i = n + 1 BY <1>1, <1>3, <2>1
  <2>2. CASE i \in 1 .. n BY <1>1, <1>3, <1>4, <2>2
  <2> QED BY <1>1, <2>1, <2>2
<1> HIDE DEF n, h
<1>6. n + 1 + 1 = n + 2 BY <1>1 DEF n
<1> QED BY <1>3, <1>5, <1>6 DEF HalvesFollowLog

LEMMA ForwardStep ==
  ASSUME Rotators \subseteq {Client}
  PROVE  TypeOK /\ TypeOK' /\ ForwardInv /\ [Next]_vars => ForwardInv'
<1> SUFFICES ASSUME TypeOK, TypeOK', ForwardInv, [Next]_vars
             PROVE  ForwardInv'
  OBVIOUS
<1> DEFINE n == Len(log[Client])
           h == halves[Client]
           d == done[Client]
<1>p. Client \in Party /\ Server \in Party /\ Client # Server
      /\ Peer(Client) = Server /\ Peer(Server) = Client
      /\ Party = {Client, Server}
  BY PartiesAssumption DEF Party, Peer
<1>t. /\ session[Client] \in Sessions /\ session[Server] \in Sessions
      /\ h \in Seq(Halves) /\ log[Client] \in Seq(Items)
      /\ log[Server] \in Seq(Items)
      /\ sent[Client] \in Seq(Messages) /\ n \in Nat /\ d \in Nat /\ d <= n
      /\ receipts[Client] \in Seq(Receipts)
      /\ delivered[Client] \in Seq(Messages)
  BY <1>p DEF TypeOK
<1>h. /\ Len(h) = n + 1
      /\ h[n + 1] = Half(session[Client], Len(sent[Client]))
      /\ \A i \in 1 .. n : Wrote(h[i], log[Client][i], h[i + 1])
  BY DEF ForwardInv, HalvesFollowLog
<1>n. /\ n \in Nat /\ d \in Nat /\ d <= n
      /\ Len(sent[Client]) \in Nat /\ Len(receipts[Client]) \in Nat
      /\ Len(log[Server]) \in Nat
  BY <1>t
<1>g. \A i \in 1 .. n + 1 : h[i] \in Halves /\ h[i].count \in Nat
  <2>1. \A i \in 1 .. n + 1 : h[i] \in Halves
    BY <1>t, <1>h, ElementOfSeq
  <2> QED BY <2>1 DEF Halves
<1>c. /\ \A i \in 1 .. n + 1 : h[i].count <= Len(sent[Client])
      /\ \A i \in 1 .. n : log[Client][i].kind = "frame" =>
           /\ h[i].count < Len(sent[Client])
           /\ log[Client][i].cipher.plain = sent[Client][h[i].count + 1]
  BY <1>h DEF ForwardInv, CountsNameMessages
<1>m. /\ Mirrors(h[d + 1], session[Server])
      /\ h[d + 1].count = Len(receipts[Client])
  BY DEF ForwardInv, ServerMirrorsClient
<1>d. delivered[Client] = SubSeq(sent[Client], 1, Len(receipts[Client]))
      /\ ServerNeverRotates
  BY DEF ForwardInv, ForwardInSync
<1>1. ASSUME NEW m \in Messages, Send(Client, m) PROVE ForwardInv'
  <2> DEFINE item == Frame(Encrypt(session[Client], m), Epoch(session[Client]))
             g    == Half(AfterEncrypt(session[Client]), Len(sent[Client]) + 1)
  <2>1. /\ log' = [log EXCEPT ![Client] = Append(@, item)]
        /\ halves' = [halves EXCEPT ![Client] = Append(@, g)]
        /\ sent' = [sent EXCEPT ![Client] = Append(@, m)]
        /\ session' = [session EXCEPT ![Client] = AfterEncrypt(@)]
        /\ UNCHANGED <<done, delivered, receipts>>
    BY <1>1 DEF Send
  <2>2. item \in Items /\ item.kind = "frame" /\ item.cipher.plain = m
    BY <1>t, FrameType DEF Frame, Encrypt
  <2>3. g \in Halves /\ g.count = Len(sent[Client]) + 1
    <3>1. AfterEncrypt(session[Client]) \in Sessions BY <1>t, AfterEncryptType
    <3>2. Len(sent[Client]) + 1 \in Nat BY <1>n
    <3>3. g \in Halves BY <3>1, <3>2, HalfType
    <3> QED BY <3>3 DEF Half
  <2>4. Wrote(h[n + 1], item, g)
    <3>1. Wrote(Half(session[Client], Len(sent[Client])), item, g)
      BY <1>t, <1>n, HalfOfEncrypt
    <3> QED BY <3>1, <1>h
  <2>5. g = Half(session'[Client], Len(sent'[Client]))
    BY <2>1, <1>t, <1>p DEF TypeOK
  <2> HIDE DEF item, g
  <2>6. HalvesFollowLog'
    BY <2>1, <2>2, <2>3, <2>4, <2>5, ClientWrites
  <2>7. /\ halves'[Client] = Append(h, g) /\ log'[Client] = Append(log[Client], item)
        /\ sent'[Client] = Append(sent[Client], m)
        /\ session'[Server] = session[Server]
        /\ log'[Server] = log[Server]
    BY <2>1, <1>p DEF TypeOK
  <2>8. /\ \A i \in 1 .. n + 1 : halves'[Client][i] = h[i]
        /\ \A i \in 1 .. n : log'[Client][i] = log[Client][i]
        /\ halves'[Client][n + 2] = g /\ log'[Client][n + 1] = item
        /\ Len(halves'[Client]) = n + 2 /\ Len(log'[Client]) = n + 1
        /\ Len(sent'[Client]) = Len(sent[Client]) + 1
        /\ \A i \in 1 .. Len(sent[Client]) : sent'[Client][i] = sent[Client][i]
        /\ sent'[Client][Len(sent[Client]) + 1] = m
    <3>1. /\ \A i \in 1 .. n + 1 : halves'[Client][i] = h[i]
          /\ halves'[Client][n + 2] = g /\ Len(halves'[Client]) = n + 2
      BY <2>3, <2>7, <1>t, <1>h
    <3>2. /\ \A i \in 1 .. n : log'[Client][i] = log[Client][i]
          /\ log'[Client][n + 1] = item /\ Len(log'[Client]) = n + 1
      BY <2>2, <2>7, <1>t
    <3>3. /\ Len(sent'[Client]) = Len(sent[Client]) + 1
          /\ \A i \in 1 .. Len(sent[Client]) : sent'[Client][i] = sent[Client][i]
          /\ sent'[Client][Len(sent[Client]) + 1] = m
      BY <2>7, <1>t
    <3> QED BY <3>1, <3>2, <3>3
  <2>9. CountsNameMessages'
    <3>1. \A i \in 1 .. n + 2 : halves'[Client][i].count <= Len(sent'[Client])
      <4> SUFFICES ASSUME NEW i \in 1 .. n + 2
                   PROVE  halves'[Client][i].count <= Len(sent'[Client])
        OBVIOUS
      <4>1. CASE i = n + 2 BY <4>1, <2>3, <2>8, <1>t
      <4>2. CASE i \in 1 .. n + 1
        <5>1. h[i].count \in Nat /\ h[i].count <= Len(sent[Client])
          BY <4>2, <1>g, <1>c
        <5>2. halves'[Client][i] = h[i] BY <4>2, <2>8
        <5> QED BY <5>1, <5>2, <2>8, <1>n
      <4> QED BY <4>1, <4>2, <1>n
    <3>2. ASSUME NEW i \in 1 .. n + 1, log'[Client][i].kind = "frame"
          PROVE  /\ halves'[Client][i].count < Len(sent'[Client])
                 /\ log'[Client][i].cipher.plain
                      = sent'[Client][halves'[Client][i].count + 1]
      <4>1. CASE i = n + 1
        <5>1. halves'[Client][i].count = Len(sent[Client])
          <6>1. halves'[Client][i] = h[n + 1] BY <4>1, <2>8, <1>n
          <6> QED BY <6>1, <1>h DEF Half
        <5> QED BY <4>1, <5>1, <2>2, <2>8, <1>n
      <4>2. CASE i \in 1 .. n
        <5>2. h[i].count \in Nat BY <4>2, <1>g, <1>n
        <5>3. /\ h[i].count < Len(sent[Client])
              /\ log[Client][i].cipher.plain = sent[Client][h[i].count + 1]
          BY <4>2, <3>2, <2>8, <1>c
        <5>4. h[i].count + 1 \in 1 .. Len(sent[Client]) BY <5>2, <5>3, <1>n
        <5>5. halves'[Client][i] = h[i] /\ log'[Client][i] = log[Client][i]
          BY <4>2, <2>8, <1>n
        <5>6. sent'[Client][h[i].count + 1] = sent[Client][h[i].count + 1]
          BY <5>4, <2>8
        <5>7. h[i].count < Len(sent'[Client]) BY <5>2, <5>3, <2>8, <1>n
        <5> QED BY <5>3, <5>5, <5>6, <5>7
      <4> QED BY <4>1, <4>2, <1>n
    <3> QED BY <3>1, <3>2, <2>8 DEF CountsNameMessages
  <2>10. ServerMirrorsClient'
    <3>1. done'[Client] = d /\ receipts'[Client] = receipts[Client]
      BY <2>1
    <3>2. \A i \in 1 .. n + 1 : halves'[Client][i] = h[i]
      BY <2>8
    <3>3. halves'[Client][d + 1] = h[d + 1]
      <4>1. d + 1 \in 1 .. n + 1 BY <1>n
      <4> HIDE DEF d, n, h
      <4> QED BY <4>1, <3>2
    <3> QED BY <3>1, <3>3, <2>7, <1>m DEF ServerMirrorsClient
  <2>11. ForwardInSync'
    <3>1. Len(receipts[Client]) <= Len(sent[Client])
      <4>1. d + 1 \in 1 .. n + 1 BY <1>n
      <4> QED BY <4>1, <1>m, <1>c
    <3>2. SubSeq(sent'[Client], 1, Len(receipts[Client]))
            = SubSeq(sent[Client], 1, Len(receipts[Client]))
      BY <3>1, <2>7, <1>t
    <3> QED BY <3>2, <2>1, <1>d DEF ForwardInSync
  <2>12. ServerNeverRotates' BY <2>7, <1>d DEF ServerNeverRotates
  <2> QED BY <2>6, <2>9, <2>10, <2>11, <2>12 DEF ForwardInv
<1>2. ASSUME NEW m \in Messages, Send(Server, m) PROVE ForwardInv'
  <2>1. /\ log'[Client] = log[Client] /\ halves'[Client] = h
        /\ sent'[Client] = sent[Client] /\ session'[Client] = session[Client]
        /\ session'[Server] = AfterEncrypt(session[Server])
        /\ log'[Server] = Append(log[Server],
              Frame(Encrypt(session[Server], m), Epoch(session[Server])))
        /\ UNCHANGED <<done, delivered, receipts>>
    BY <1>2, <1>p DEF Send, TypeOK
  <2>2. Mirrors(h[d + 1], session'[Server])
    BY <2>1, <1>m, <1>t, MirrorOfEncrypt
  <2>3. ServerNeverRotates'
    <3> DEFINE item == Frame(Encrypt(session[Server], m), Epoch(session[Server]))
    <3>1. item.kind = "frame" BY DEF Frame
    <3> HIDE DEF item
    <3>2. \A i \in 1 .. Len(log[Server]) : log[Server][i].kind = "frame"
      BY <1>d DEF ServerNeverRotates
    <3>3. /\ Len(log'[Server]) = Len(log[Server]) + 1
          /\ log'[Server][Len(log[Server]) + 1] = item
          /\ \A i \in 1 .. Len(log[Server]) : log'[Server][i] = log[Server][i]
      <4>1. item \in Items BY <1>2, <1>t, FrameType DEF item
      <4>2. log'[Server] = Append(log[Server], item) BY <2>1 DEF item
      <4> QED BY <4>1, <4>2, <1>t
    <3> SUFFICES ASSUME NEW i \in 1 .. Len(log[Server]) + 1
                 PROVE  log'[Server][i].kind = "frame"
      BY <3>3 DEF ServerNeverRotates
    <3>4. CASE i = Len(log[Server]) + 1 BY <3>1, <3>3, <3>4
    <3>5. CASE i \in 1 .. Len(log[Server]) BY <3>2, <3>3, <3>5
    <3> QED BY <3>4, <3>5, <1>n
  <2> QED BY <2>1, <2>2, <2>3 DEF ForwardInv, HalvesFollowLog,
            CountsNameMessages, ServerMirrorsClient, ForwardInSync
<1>3. ASSUME NEW p \in Party, Rotate(p) PROVE ForwardInv'
  <2>0. p = Client BY <1>3 DEF Rotate
  <2> DEFINE new  == Key(Client, session[Client].self[2] + 1)
             s    == PrepareRatchetStep(session[Client], new)
             item == Pubkey(new)
             g    == Half(s, Len(sent[Client]))
  <2>1. /\ log' = [log EXCEPT ![Client] = Append(@, item)]
        /\ halves' = [halves EXCEPT ![Client] = Append(@, g)]
        /\ session' = [session EXCEPT ![Client] = s]
        /\ UNCHANGED <<done, sent, delivered, receipts>>
    BY <1>3, <2>0 DEF Rotate
  <2>2. new \in Keys
    <3>1. session[Client].self \in Party \X Nat BY <1>t DEF Sessions, Keys
    <3>2. session[Client].self[2] + 1 \in Nat BY <3>1
    <3> QED BY <3>2, <1>p DEF Keys, Key
  <2> HIDE DEF new
  <2>3. item \in Items /\ item.kind = "pubkey"
    BY <2>2 DEF Pubkey, Items
  <2>4. g \in Halves /\ g.count = Len(sent[Client])
    <3>1. session[Client].peer \in Keys BY <1>t DEF Sessions
    <3>2. s \in Sessions
      BY <2>2, <3>1, <1>t, DoRatchetType DEF PrepareRatchetStep
    <3> HIDE DEF s
    <3> QED BY <1>t, <3>2, HalfType DEF Half
  <2>5. Wrote(h[n + 1], item, g)
    BY <2>2, <1>t, <1>h, HalfOfRotate
  <2> HIDE DEF s, item
  <2>6. g = Half(session'[Client], Len(sent'[Client]))
    BY <2>1, <1>t, <1>p DEF TypeOK
  <2> HIDE DEF g
  <2>7. HalvesFollowLog'
    BY <2>1, <2>3, <2>4, <2>5, <2>6, ClientWrites
  <2>8. /\ halves'[Client] = Append(h, g) /\ log'[Client] = Append(log[Client], item)
        /\ session'[Server] = session[Server] /\ log'[Server] = log[Server]
    BY <2>1, <1>p DEF TypeOK
  <2>9. /\ \A i \in 1 .. n + 1 : halves'[Client][i] = h[i]
        /\ \A i \in 1 .. n : log'[Client][i] = log[Client][i]
        /\ halves'[Client][n + 2] = g /\ log'[Client][n + 1] = item
        /\ Len(halves'[Client]) = n + 2 /\ Len(log'[Client]) = n + 1
    BY <2>3, <2>4, <2>8, <1>t, <1>h
  <2>10. CountsNameMessages'
    <3>1. \A i \in 1 .. n + 2 : halves'[Client][i].count <= Len(sent[Client])
      <4> SUFFICES ASSUME NEW i \in 1 .. n + 2
                   PROVE  halves'[Client][i].count <= Len(sent[Client])
        OBVIOUS
      <4>1. CASE i = n + 2 BY <4>1, <2>4, <2>9, <1>n
      <4>2. CASE i \in 1 .. n + 1 BY <4>2, <2>9, <1>c
      <4> QED BY <4>1, <4>2, <1>n
    <3>2. \A i \in 1 .. n + 1 : log'[Client][i].kind = "frame" => i \in 1 .. n
      BY <2>3, <2>9, <1>t
    <3> QED BY <3>1, <3>2, <2>1, <2>9, <1>c, <1>t DEF CountsNameMessages
  <2>11. ServerMirrorsClient'
    <3>1. done'[Client] = d /\ receipts'[Client] = receipts[Client]
      BY <2>1
    <3>2. \A i \in 1 .. n + 1 : halves'[Client][i] = h[i]
      BY <2>9
    <3>3. halves'[Client][d + 1] = h[d + 1]
      <4>1. d + 1 \in 1 .. n + 1 BY <1>n
      <4> HIDE DEF d, n, h
      <4> QED BY <4>1, <3>2
    <3> QED BY <3>1, <3>3, <2>8, <1>m DEF ServerMirrorsClient
  <2> QED BY <2>1, <2>7, <2>8, <2>10, <2>11, <1>d
          DEF ForwardInv, ForwardInSync, ServerNeverRotates
<1>4. ASSUME ReceiveFrame(Client) PROVE ForwardInv'
  <2> DEFINE item == log[Client][d + 1]
  <2>1. d + 1 \in 1 .. n /\ item.kind = "frame"
    BY <1>4, <1>n DEF ReceiveFrame, InFlight, NextItem
  <2>2. Wrote(h[d + 1], item, h[d + 2]) /\ h[d + 1] \in Halves
    <3>1. d + 1 + 1 = d + 2 /\ d + 1 \in 1 .. n + 1 BY <1>n
    <3> QED BY <2>1, <3>1, <1>h, <1>g
  <2>3. /\ Decrypts(session[Server], item.cipher)
        /\ Mirrors(h[d + 2], AfterDecrypt(session[Server], item.cipher))
        /\ h[d + 2].count = h[d + 1].count + 1
    <3>1. session[Server] \in Sessions BY <1>t
    <3> HIDE DEF item, h, d
    <3> QED BY <2>1, <2>2, <3>1, <1>m, MirrorDecrypts
  <2>4. /\ session' = [session EXCEPT ![Server] = AfterDecrypt(@, item.cipher)]
        /\ done' = [done EXCEPT ![Client] = @ + 1]
        /\ delivered' = [delivered EXCEPT ![Client] = Append(@, item.cipher.plain)]
        /\ UNCHANGED <<log, sent, halves>>
    BY <1>4, <1>p, <2>3 DEF ReceiveFrame, NextItem
  <2>5. Len(receipts'[Client]) = Len(receipts[Client]) + 1
    <3> DEFINE r == [wrote |-> item.epoch, read |-> Epoch(session[Server]),
                     ok |-> Decrypts(session[Server], item.cipher)]
    <3>1. receipts' = [receipts EXCEPT ![Client] = Append(@, r)]
      BY <1>4, <1>p DEF ReceiveFrame, NextItem
    <3> HIDE DEF r
    <3>2. receipts'[Client] = Append(receipts[Client], r)
      BY <3>1, <1>p DEF TypeOK
    <3> QED BY <3>2, <1>t
  <2>6. /\ session'[Server] = AfterDecrypt(session[Server], item.cipher)
        /\ session'[Client] = session[Client]
        /\ done'[Client] = d + 1
        /\ delivered'[Client] = Append(delivered[Client], item.cipher.plain)
    BY <2>4, <1>p DEF TypeOK
  <2>7. item.cipher.plain = sent[Client][Len(receipts[Client]) + 1]
        /\ Len(receipts[Client]) < Len(sent[Client])
    BY <2>1, <1>c, <1>m
  <2> HIDE DEF item
  <2>8. HalvesFollowLog'
    BY <2>4, <2>6, <1>h DEF HalvesFollowLog
  <2>9. CountsNameMessages' /\ ServerNeverRotates'
    BY <2>4 DEF ForwardInv, CountsNameMessages, ServerNeverRotates
  <2>10. ServerMirrorsClient'
    <3>1. d + 1 + 1 = d + 2 BY <1>t
    <3> QED BY <3>1, <2>3, <2>4, <2>5, <2>6, <1>m DEF ServerMirrorsClient
  <2>11. ForwardInSync'
    <3> DEFINE k == Len(receipts[Client])
    <3>1. k \in Nat BY <1>t
    <3> HIDE DEF k
    <3>2. SubSeq(sent[Client], 1, k + 1)
            = Append(SubSeq(sent[Client], 1, k), sent[Client][k + 1])
      BY <3>1, <2>7, <1>t DEF k
    <3> QED BY <3>2, <2>4, <2>5, <2>6, <2>7, <1>d DEF ForwardInSync, k
  <2> QED BY <2>8, <2>9, <2>10, <2>11 DEF ForwardInv
<1>5. ASSUME ReceivePubkey(Client) PROVE ForwardInv'
  <2> DEFINE item == log[Client][d + 1]
             s    == ApplyPeerRatchetKey(session[Server], item.pub)
  <2>1. d + 1 \in 1 .. n /\ item.kind = "pubkey"
    BY <1>5, <1>n DEF ReceivePubkey, InFlight, NextItem
  <2>2. Wrote(h[d + 1], item, h[d + 2]) /\ h[d + 1] \in Halves
    <3>1. d + 1 + 1 = d + 2 /\ d + 1 \in 1 .. n + 1 BY <1>n
    <3> QED BY <2>1, <3>1, <1>h, <1>g
  <2>3. Mirrors(h[d + 2], s) /\ h[d + 2].count = h[d + 1].count
    BY <2>1, <2>2, <1>m, <1>t, MirrorRotates
  <2> HIDE DEF s
  <2>4. /\ session' = [session EXCEPT ![Server] = s]
        /\ done' = [done EXCEPT ![Client] = @ + 1]
        /\ \E g : halves' = [halves EXCEPT ![Server] = g]
        /\ UNCHANGED <<log, sent, delivered, receipts>>
    BY <1>5, <1>p DEF ReceivePubkey, NextItem, s
  <2>5. /\ session'[Server] = s /\ session'[Client] = session[Client]
        /\ done'[Client] = d + 1 /\ halves'[Client] = h
    BY <2>4, <1>p DEF TypeOK
  <2>6. ServerMirrorsClient'
    <3>1. d + 1 + 1 = d + 2 BY <1>t
    <3> QED BY <3>1, <2>3, <2>4, <2>5, <1>m DEF ServerMirrorsClient
  <2> QED BY <2>4, <2>5, <2>6 DEF ForwardInv, HalvesFollowLog,
            CountsNameMessages, ServerNeverRotates, ForwardInSync
<1>6. ASSUME ReceiveFrame(Server) PROVE ForwardInv'
  <2>1. /\ session' = [session EXCEPT ![Client] =
                         AfterDecrypt(@, NextItem(Server).cipher)]
        /\ done'[Client] = d /\ delivered'[Client] = delivered[Client]
        /\ receipts'[Client] = receipts[Client]
        /\ UNCHANGED <<log, sent, halves>>
    BY <1>6, <1>p DEF ReceiveFrame, TypeOK
  <2>2. session'[Server] = session[Server]
        /\ session'[Client]
             = AfterDecrypt(session[Client], NextItem(Server).cipher)
    BY <2>1, <1>p DEF TypeOK
  <2>3. Half(session'[Client], Len(sent[Client]))
          = Half(session[Client], Len(sent[Client]))
    BY <2>2, <1>t, HalfOfDecrypt
  <2> QED BY <2>1, <2>2, <2>3 DEF ForwardInv, HalvesFollowLog,
            CountsNameMessages, ServerMirrorsClient, ServerNeverRotates,
            ForwardInSync
<1>7. ReceivePubkey(Server) => FALSE
  <2> SUFFICES ASSUME ReceivePubkey(Server) PROVE FALSE
    OBVIOUS
  <2>1. done[Server] + 1 \in 1 .. Len(log[Server])
    BY <1>p, <1>n DEF ReceivePubkey, InFlight, TypeOK
  <2>2. log[Server][done[Server] + 1].kind = "pubkey"
    BY DEF ReceivePubkey, NextItem
  <2> QED BY <2>1, <2>2, <1>d DEF ServerNeverRotates
<1>8. CASE UNCHANGED vars
  BY <1>8 DEF vars, ForwardInv, HalvesFollowLog, CountsNameMessages,
       ServerMirrorsClient, ServerNeverRotates, ForwardInSync
<1> QED BY <1>1, <1>2, <1>3, <1>4, <1>5, <1>6, <1>7, <1>8, <1>p DEF Next

\* Every frame of the client is decrypted by the server, in order and once,
\* through any number of rotations and whatever the server writes, as long
\* as the client is the only end that rotates.
THEOREM ForwardSafe ==
  ASSUME Rotators \subseteq {Client}
  PROVE  Spec => []ForwardInSync
<1>1. TypeOK /\ TypeOK' /\ ForwardInv /\ [Next]_vars => ForwardInv'
  BY ForwardStep
<1>2. ForwardInv => ForwardInSync
  BY DEF ForwardInv
<1> QED BY <1>1, <1>2, ForwardInit, TypeCorrect, PTL DEF Spec

\* Once both ends have read all there is they hold the same root key: the last
\* half that the client wrote is the one it has, and the server mirrors it.
THEOREM RootsMeet ==
  ASSUME Rotators \subseteq {Client}
  PROVE  Spec => []RootsAgreeWhenQuiet
<1>1. TypeOK /\ TypeOK' /\ ForwardInv /\ [Next]_vars => ForwardInv'
  BY ForwardStep
<1>2. TypeOK /\ ForwardInv => RootsAgreeWhenQuiet
  <2> SUFFICES ASSUME TypeOK, ForwardInv, Quiet
               PROVE  session[Client].root = session[Server].root
    BY DEF RootsAgreeWhenQuiet
  <2>1. done[Client] = Len(log[Client])
    <3>1. Client \in Party BY DEF Party
    <3>2. /\ done[Client] \in Nat /\ Len(log[Client]) \in Nat
          /\ done[Client] <= Len(log[Client])
      BY <3>1 DEF TypeOK
    <3>3. ~(done[Client] < Len(log[Client])) BY <3>1 DEF Quiet, InFlight
    <3> QED BY <3>2, <3>3
  <2>2. halves[Client][Len(log[Client]) + 1].root = session[Client].root
    BY DEF ForwardInv, HalvesFollowLog, Half
  <2>3. halves[Client][done[Client] + 1].root = session[Server].root
    BY DEF ForwardInv, ServerMirrorsClient, Mirrors
  <2> QED BY <2>1, <2>2, <2>3
<1> QED BY <1>1, <1>2, ForwardInit, TypeCorrect, PTL DEF Spec

\* The client's stream implements a FIFO channel: every step of the pair is a
\* step of FifoChannel or leaves its variables alone.
THEOREM ForwardRefinesFifo ==
  ASSUME Rotators \subseteq {Client}
  PROVE  Spec => Fifo!Safety
<1>1. Init => Fifo!Init
  BY PartiesAssumption DEF Init, Fifo!Init, Party
<1>2. TypeOK /\ TypeOK' /\ ForwardInv /\ ForwardInv' /\ [Next]_vars
        => [Fifo!Next]_(Fifo!fifoVars)
  <2> SUFFICES ASSUME TypeOK, TypeOK', ForwardInv, ForwardInv', [Next]_vars
               PROVE  Fifo!Next \/ UNCHANGED <<sent[Client], delivered[Client]>>
    BY DEF Fifo!fifoVars
  <2>p. Client \in Party /\ Server \in Party /\ Client # Server
        /\ Party = {Client, Server}
    BY PartiesAssumption DEF Party
  <2>1. ASSUME NEW m \in Messages, Send(Client, m) PROVE Fifo!Next
    BY <2>1, <2>p DEF Send, Fifo!Next, Fifo!Send, TypeOK
  <2>2. ASSUME NEW m \in Messages, Send(Server, m)
        PROVE  UNCHANGED <<sent[Client], delivered[Client]>>
    BY <2>2, <2>p DEF Send, TypeOK
  <2>3. ASSUME NEW p \in Party, Rotate(p) \/ ReceivePubkey(p)
        PROVE  UNCHANGED <<sent[Client], delivered[Client]>>
    BY <2>3 DEF Rotate, ReceivePubkey
  <2>4. ASSUME ReceiveFrame(Server)
        PROVE  UNCHANGED <<sent[Client], delivered[Client]>>
    BY <2>4, <2>p DEF ReceiveFrame, TypeOK
  <2>5. ASSUME ReceiveFrame(Client) PROVE Fifo!Next
    <3> DEFINE k == Len(receipts[Client])
    <3>1. sent[Client] \in Seq(Messages) /\ k \in Nat /\ sent' = sent
      BY <2>5, <2>p DEF ReceiveFrame, TypeOK
    <3>2. Len(receipts'[Client]) = k + 1
      <4> DEFINE r == [wrote |-> NextItem(Client).epoch,
                       read  |-> Epoch(session[Peer(Client)]),
                       ok    |-> Decrypts(session[Peer(Client)],
                                          NextItem(Client).cipher)]
      <4>1. receipts' = [receipts EXCEPT ![Client] = Append(@, r)]
        BY <2>5 DEF ReceiveFrame
      <4> HIDE DEF r
      <4>2. receipts[Client] \in Seq(Receipts)
            /\ receipts'[Client] = Append(receipts[Client], r)
        BY <4>1, <2>p DEF TypeOK
      <4> QED BY <4>2
    <3>3. k + 1 <= Len(sent[Client])
      <4>1. halves'[Client][done'[Client] + 1].count = k + 1
        BY <3>2 DEF ForwardInv, ServerMirrorsClient
      <4>2. done'[Client] + 1 \in 1 .. Len(halves'[Client])
        <5>1. done'[Client] \in Nat /\ Len(log'[Client]) \in Nat
              /\ done'[Client] <= Len(log'[Client])
          BY <2>p DEF TypeOK
        <5>2. Len(halves'[Client]) = Len(log'[Client]) + 1
          BY DEF ForwardInv, HalvesFollowLog
        <5> QED BY <5>1, <5>2
      <4>3. halves'[Client][done'[Client] + 1].count <= Len(sent'[Client])
        BY <4>2 DEF ForwardInv, CountsNameMessages
      <4> QED BY <4>1, <4>3, <3>1
    <3> HIDE DEF k
    <3>4. delivered[Client] = SubSeq(sent[Client], 1, k)
          /\ delivered'[Client] = SubSeq(sent[Client], 1, k + 1)
      BY <3>1, <3>2 DEF ForwardInv, ForwardInSync, k
    <3>5. SubSeq(sent[Client], 1, k + 1)
            = Append(SubSeq(sent[Client], 1, k), sent[Client][k + 1])
          /\ Len(SubSeq(sent[Client], 1, k)) = k
      BY <3>1, <3>3
    <3>6. Fifo!Deliver
      BY <3>1, <3>3, <3>4, <3>5 DEF Fifo!Deliver
    <3> QED BY <3>6 DEF Fifo!Next
  <2>6. CASE UNCHANGED vars
    BY <2>6 DEF vars
  <2> QED BY <2>1, <2>2, <2>3, <2>4, <2>5, <2>6, <2>p DEF Next
<1>3. TypeOK /\ TypeOK' /\ ForwardInv /\ [Next]_vars => ForwardInv'
  BY ForwardStep
<1> QED BY <1>1, <1>2, <1>3, ForwardInit, TypeCorrect, PTL DEF Spec, Fifo!Safety
-----------------------------------------------------------------------------
(***************************************************************************)
(* No message key is used twice.                                           *)
(***************************************************************************)

\* What one step may do to what end x seals with: nothing, ...
Idles(x) ==
  /\ log'[x] = log[x]
  /\ session'[x].send = session[x].send
  /\ session'[x].root = session[x].root

\* ... seal one frame with the chain and move the chain on, ...
Seals(x) ==
  \E item \in Items :
    /\ log'[x] = Append(log[x], item)
    /\ item.kind = "frame" => item.cipher.key = session[x].send
    /\ session'[x].send = Advance(session[x].send)
    /\ session'[x].root = session[x].root

\* ... or restart the chain from a longer root.
Restarts(x) ==
  /\ \/ log'[x] = log[x]
     \/ \E item \in Items : /\ log'[x] = Append(log[x], item)
                            /\ item.kind = "pubkey"
  /\ Len(session'[x].root) = Len(session[x].root) + 1
  /\ session'[x].send = Chain(session'[x].root,
                              IF x = Client THEN "send-v2" ELSE "recv-v2")

LEMMA StepOfEnd ==
  ASSUME Rotators \subseteq {Client}, TypeOK, ServerNeverRotates, [Next]_vars,
         NEW x \in Party
  PROVE  Idles(x) \/ Seals(x) \/ Restarts(x)
<1>p. Client \in Party /\ Server \in Party /\ Client # Server
      /\ Peer(Client) = Server /\ Peer(Server) = Client
      /\ Party = {Client, Server}
  BY PartiesAssumption DEF Party, Peer
<1>t. \A p \in Party : /\ session[p] \in Sessions
                       /\ session[p].root \in Seq(SUBSET Keys)
  BY DEF TypeOK, Sessions, Roots
<1>1. ASSUME NEW p \in Party, NEW m \in Messages, Send(p, m)
      PROVE  Idles(x) \/ Seals(x)
  <2>1. CASE x = p
    <3> DEFINE item == Frame(Encrypt(session[x], m), Epoch(session[x]))
    <3>1. item \in Items /\ item.cipher.key = session[x].send
      BY <1>1, <1>t, FrameType DEF Frame, Encrypt
    <3>2. /\ log'[x] = Append(log[x], item)
          /\ session'[x] = AfterEncrypt(session[x])
      BY <1>1, <2>1 DEF Send, TypeOK
    <3>3. /\ session'[x].send = Advance(session[x].send)
          /\ session'[x].root = session[x].root
      BY <3>2, <1>t DEF AfterEncrypt, Sessions
    <3> HIDE DEF item
    <3> QED BY <3>1, <3>2, <3>3 DEF Seals
  <2>2. CASE x # p
    BY <1>1, <2>2 DEF Send, TypeOK, Idles
  <2> QED BY <2>1, <2>2
<1>2. ASSUME NEW p \in Party, Rotate(p) PROVE Idles(x) \/ Restarts(x)
  <2>1. p = Client BY <1>2 DEF Rotate
  <2>2. CASE x = Client
    <3> DEFINE new == Key(x, session[x].self[2] + 1)
               s   == PrepareRatchetStep(session[x], new)
    <3>1. /\ log'[x] = Append(log[x], Pubkey(new))
          /\ session'[x] = s
      BY <1>2, <2>1, <2>2 DEF Rotate, TypeOK
    <3>2. Pubkey(new) \in Items /\ Pubkey(new).kind = "pubkey"
      <4>1. session[x].self \in Party \X Nat BY <1>t DEF Sessions, Keys
      <4>2. new \in Keys BY <4>1 DEF Keys, Key
      <4> QED BY <4>2 DEF Pubkey, Items
    <3>3. /\ s.root = Append(session[x].root, {new, session[x].peer})
          /\ s.send = Chain(s.root, "send-v2")
      BY <1>t DEF PrepareRatchetStep, DoRatchet, Sessions
    <3> HIDE DEF new, s
    <3>4. Len(s.root) = Len(session[x].root) + 1 BY <3>3, <1>t
    <3> QED BY <2>2, <3>1, <3>2, <3>3, <3>4 DEF Restarts
  <2>3. CASE x # Client
    BY <1>2, <2>1, <2>3 DEF Rotate, TypeOK, Idles
  <2> QED BY <2>2, <2>3
<1>3. ASSUME NEW p \in Party, ReceiveFrame(p) PROVE Idles(x)
  <2>1. log' = log BY <1>3 DEF ReceiveFrame
  <2>2. CASE x = Peer(p)
    <3>1. session'[x] = AfterDecrypt(session[x], NextItem(p).cipher)
      BY <1>3, <2>2 DEF ReceiveFrame, TypeOK
    <3>2. session'[x].send = session[x].send /\ session'[x].root = session[x].root
      BY <3>1, <1>t DEF AfterDecrypt, Sessions
    <3> QED BY <2>1, <3>2 DEF Idles
  <2>3. CASE x # Peer(p)
    BY <1>3, <2>1, <2>3 DEF ReceiveFrame, TypeOK, Idles
  <2> QED BY <2>2, <2>3
<1>4. ASSUME NEW p \in Party, ReceivePubkey(p) PROVE Idles(x) \/ Restarts(x)
  <2>1. p = Client
    <3> SUFFICES ASSUME p = Server PROVE FALSE
      BY <1>p
    <3>1. done[Server] + 1 \in 1 .. Len(log[Server])
      <4>1. done[Server] \in Nat /\ Len(log[Server]) \in Nat
            /\ done[Server] < Len(log[Server])
        BY <1>4, <1>p DEF ReceivePubkey, InFlight, TypeOK
      <4> QED BY <4>1
    <3>2. log[Server][done[Server] + 1].kind = "pubkey"
      BY <1>4 DEF ReceivePubkey, NextItem
    <3> QED BY <3>1, <3>2 DEF ServerNeverRotates
  <2>2. log' = log BY <1>4 DEF ReceivePubkey
  <2>3. CASE x = Server
    <3> DEFINE s == ApplyPeerRatchetKey(session[x], NextItem(Client).pub)
    <3>1. session'[x] = s
      BY <1>4, <1>p, <2>1, <2>3 DEF ReceivePubkey, TypeOK
    <3>2. /\ s.root = Append(session[x].root,
                             {session[x].self, NextItem(Client).pub})
          /\ s.send = Chain(s.root, "recv-v2")
      BY <1>t DEF ApplyPeerRatchetKey, DoRatchet, Sessions
    <3> HIDE DEF s
    <3>3. Len(s.root) = Len(session[x].root) + 1 BY <3>2, <1>t
    <3> QED BY <2>2, <2>3, <1>p, <3>1, <3>2, <3>3 DEF Restarts
  <2>4. CASE x # Server
    BY <1>4, <1>p, <2>1, <2>2, <2>4 DEF ReceivePubkey, TypeOK, Idles
  <2> QED BY <2>3, <2>4
<1>5. CASE UNCHANGED vars
  BY <1>5 DEF vars, Idles
<1> QED BY <1>1, <1>2, <1>3, <1>4, <1>5 DEF Next

\* Earlier is transitive, and both ways a chain moves are moves forward.
LEMMA EarlierFacts ==
  /\ \A c \in Chains : Earlier(c, Advance(c))
  /\ \A a, b, c \in Chains : Earlier(a, b) /\ Earlier(b, c) => Earlier(a, c)
  /\ \A c \in Chains : ~Earlier(c, c)
<1> USE DEF Earlier, Advance, Chains, Roots
<1>1. \A c \in Chains : Len(c.root) \in Nat /\ c.step \in Nat
  OBVIOUS
<1>2. \A c \in Chains : Advance(c).root = c.root /\ Advance(c).step = c.step + 1
  OBVIOUS
<1>3. \A c \in Chains : Earlier(c, Advance(c))
  BY <1>1, <1>2
<1>4. \A a, b, c \in Chains : Earlier(a, b) /\ Earlier(b, c) => Earlier(a, c)
  BY <1>1
<1>5. \A c \in Chains : ~Earlier(c, c)
  BY <1>1
<1> QED BY <1>3, <1>4, <1>5

LEMMA FrameKeyType ==
  ASSUME TypeOK, NEW x \in Party, NEW i \in 1 .. Len(log[x]),
         log[x][i].kind = "frame"
  PROVE  log[x][i].cipher.key \in Chains
<1>1. log[x][i] \in Items BY DEF TypeOK
<1> QED BY <1>1 DEF Items, Ciphers

LEMMA KeysForwardStep ==
  ASSUME TypeOK, TypeOK', NEW x \in Party, KeysGoForwardAt(x),
         Idles(x) \/ Seals(x) \/ Restarts(x)
  PROVE  KeysGoForwardAt(x)'
<1> DEFINE n == Len(log[x])
           K(i) == log[x][i].cipher.key
           F(i) == log[x][i].kind = "frame"
<1>t. /\ n \in Nat /\ log[x] \in Seq(Items)
      /\ session[x].send \in Chains /\ session'[x].send \in Chains
      /\ session[x].root \in Seq(SUBSET Keys)
      /\ session'[x].root \in Seq(SUBSET Keys)
  BY DEF TypeOK, Sessions, Roots
<1>k. \A i \in 1 .. n : F(i) => K(i) \in Chains
  BY FrameKeyType
<1>o. /\ session[x].send.root = session[x].root
      /\ Len(session[x].root) >= 1
      /\ \A i \in 1 .. n : F(i) =>
           /\ Earlier(K(i), session[x].send)
           /\ \A j \in 1 .. i - 1 : F(j) => Earlier(K(j), K(i))
  BY DEF KeysGoForwardAt
<1>1. CASE Idles(x)
  BY <1>1, <1>o DEF Idles, KeysGoForwardAt
\* The new head lies ahead of the old one: what was behind stays behind.
<1>2. ASSUME Earlier(session[x].send, session'[x].send)
      PROVE  \A i \in 1 .. n : F(i) => Earlier(K(i), session'[x].send)
  BY <1>2, <1>t, <1>k, <1>o, EarlierFacts
<1>3. CASE Seals(x)
  <2>1. PICK item \in Items : /\ log'[x] = Append(log[x], item)
                              /\ item.kind = "frame" => item.cipher.key = session[x].send
    BY <1>3 DEF Seals
  <2>2. /\ session'[x].send = Advance(session[x].send)
        /\ session'[x].root = session[x].root
    BY <1>3 DEF Seals
  <2>3. Earlier(session[x].send, session'[x].send)
    BY <2>2, <1>t, EarlierFacts
  <2>4. session'[x].send.root = session'[x].root
    BY <2>2, <1>o, <1>t DEF Advance, Chains
  <2>5. /\ Len(log'[x]) = n + 1 /\ log'[x][n + 1] = item
        /\ \A i \in 1 .. n : log'[x][i] = log[x][i]
    BY <2>1, <1>t
  <2>6. ASSUME NEW i \in 1 .. n + 1, log'[x][i].kind = "frame"
        PROVE  /\ Earlier(log'[x][i].cipher.key, session'[x].send)
               /\ \A j \in 1 .. i - 1 : log'[x][j].kind = "frame" =>
                    Earlier(log'[x][j].cipher.key, log'[x][i].cipher.key)
    <3>1. CASE i = n + 1
      <4>1. log'[x][i].cipher.key = session[x].send BY <3>1, <2>1, <2>5, <2>6
      <4>2. \A j \in 1 .. i - 1 : log'[x][j] = log[x][j] /\ j \in 1 .. n
        BY <3>1, <2>5, <1>t
      <4> QED BY <4>1, <4>2, <2>3, <1>o
    <3>2. CASE i \in 1 .. n
      <4>1. /\ log'[x][i] = log[x][i]
            /\ \A j \in 1 .. i - 1 : log'[x][j] = log[x][j]
        BY <3>2, <2>5, <1>t
      <4> QED BY <3>2, <4>1, <2>3, <2>6, <1>2, <1>o
    <3> QED BY <3>1, <3>2, <1>t
  <2> QED BY <2>2, <2>4, <2>5, <2>6, <1>o DEF KeysGoForwardAt
<1>4. CASE Restarts(x)
  <2>1. /\ Len(session'[x].root) = Len(session[x].root) + 1
        /\ session'[x].send.root = session'[x].root
    BY <1>4 DEF Restarts, Chain
  <2>2. Earlier(session[x].send, session'[x].send)
    BY <2>1, <1>o, <1>t DEF Earlier
  <2>3. CASE log'[x] = log[x]
    BY <2>1, <2>2, <2>3, <1>2, <1>o, <1>t DEF KeysGoForwardAt
  <2>4. CASE \E item \in Items : /\ log'[x] = Append(log[x], item)
                                 /\ item.kind = "pubkey"
    <3>1. /\ Len(log'[x]) = n + 1 /\ log'[x][n + 1].kind = "pubkey"
          /\ \A i \in 1 .. n : log'[x][i] = log[x][i]
      BY <2>4, <1>t
    <3>2. ASSUME NEW i \in 1 .. n + 1, log'[x][i].kind = "frame"
          PROVE  /\ Earlier(log'[x][i].cipher.key, session'[x].send)
                 /\ \A j \in 1 .. i - 1 : log'[x][j].kind = "frame" =>
                      Earlier(log'[x][j].cipher.key, log'[x][i].cipher.key)
      <4>1. i \in 1 .. n BY <3>1, <3>2, <1>t
      <4>2. /\ log'[x][i] = log[x][i]
            /\ \A j \in 1 .. i - 1 : log'[x][j] = log[x][j]
        BY <3>1, <4>1, <1>t
      <4> QED BY <4>1, <4>2, <3>2, <2>2, <1>2, <1>o
    <3> QED BY <2>1, <3>1, <3>2, <1>o, <1>t DEF KeysGoForwardAt
  <2> QED BY <1>4, <2>3, <2>4 DEF Restarts
<1> QED BY <1>1, <1>3, <1>4

LEMMA LabelsStep ==
  ASSUME TypeOK, TypeOK', NEW x \in Party, NEW f \in BOOLEAN, LabelsAt(x, f),
         KeysGoForwardAt(x), Idles(x) \/ Seals(x) \/ Restarts(x)
  PROVE  LabelsAt(x, f)'
<1> DEFINE n == Len(log[x])
<1>t. /\ n \in Nat /\ log[x] \in Seq(Items)
      /\ session[x].send \in Chains
      /\ session[x].root \in Seq(SUBSET Keys)
  BY DEF TypeOK, Sessions, Roots
<1>o. /\ session[x].send.label = LabelOf(x, f, session[x].send)
      /\ Len(session[x].root) >= 1
      /\ \A i \in 1 .. n : log[x][i].kind = "frame" =>
           log[x][i].cipher.key.label = LabelOf(x, f, log[x][i].cipher.key)
  BY DEF LabelsAt, KeysGoForwardAt
<1>1. CASE Idles(x)
  BY <1>1, <1>o DEF Idles, LabelsAt
<1>2. CASE Seals(x)
  <2>1. PICK item \in Items : /\ log'[x] = Append(log[x], item)
                              /\ item.kind = "frame" => item.cipher.key = session[x].send
    BY <1>2 DEF Seals
  <2>2. session'[x].send = Advance(session[x].send)
    BY <1>2 DEF Seals
  <2>3. session'[x].send.label = LabelOf(x, f, session'[x].send)
    BY <2>2, <1>o, <1>t DEF Advance, LabelOf, Chains
  <2>4. /\ Len(log'[x]) = n + 1 /\ log'[x][n + 1] = item
        /\ \A i \in 1 .. n : log'[x][i] = log[x][i]
    BY <2>1, <1>t
  <2>5. ASSUME NEW i \in 1 .. n + 1, log'[x][i].kind = "frame"
        PROVE  log'[x][i].cipher.key.label = LabelOf(x, f, log'[x][i].cipher.key)
    <3>1. CASE i = n + 1 BY <3>1, <2>1, <2>4, <2>5, <1>o
    <3>2. CASE i \in 1 .. n BY <3>2, <2>4, <2>5, <1>o
    <3> QED BY <3>1, <3>2, <1>t
  <2> QED BY <2>3, <2>4, <2>5 DEF LabelsAt
<1>3. CASE Restarts(x)
  <2>1. session'[x].send.label = LabelOf(x, f, session'[x].send)
    <3>1. /\ session'[x].send.root = session'[x].root
          /\ session'[x].send.label
               = IF x = Client THEN "send-v2" ELSE "recv-v2"
      BY <1>3 DEF Restarts, Chain
    <3>2. Len(session'[x].root) # 1
      BY <1>3, <1>o, <1>t DEF Restarts
    <3> QED BY <3>1, <3>2 DEF LabelOf
  <2>2. CASE log'[x] = log[x]
    BY <2>1, <2>2, <1>o DEF LabelsAt
  <2>3. CASE \E item \in Items : /\ log'[x] = Append(log[x], item)
                                 /\ item.kind = "pubkey"
    <3>1. /\ Len(log'[x]) = n + 1 /\ log'[x][n + 1].kind = "pubkey"
          /\ \A i \in 1 .. n : log'[x][i] = log[x][i]
      BY <2>3, <1>t
    <3>2. \A i \in 1 .. n + 1 : log'[x][i].kind = "frame" =>
            i \in 1 .. n /\ log'[x][i] = log[x][i]
      BY <3>1, <1>t
    <3> QED BY <2>1, <3>1, <3>2, <1>o DEF LabelsAt
  <2> QED BY <1>3, <2>2, <2>3 DEF Restarts
<1> QED BY <1>1, <1>2, <1>3

LEMMA KeyInit == Init => KeyInv
<1> SUFFICES ASSUME Init PROVE KeyInv
  OBVIOUS
<1>1. PICK f \in BOOLEAN :
        session = [p \in Party |-> NewSession(Key(p, 0), Key(Peer(p), 0),
                                              (p = Client) = f)]
  BY DEF Init
<1>2. \A p \in Party :
        /\ log[p] = <<>>
        /\ session[p].send.root = session[p].root
        /\ Len(session[p].root) = 1
        /\ session[p].send.label = IF (p = Client) = f THEN "send" ELSE "recv"
  BY <1>1 DEF Init, NewSession, Chain
<1>e. \A p \in Party : 1 .. Len(log[p]) = {}
  BY <1>2
<1>3. \A p \in Party : KeysGoForwardAt(p)
  BY <1>2, <1>e DEF KeysGoForwardAt
<1>4. \A p \in Party : LabelsAt(p, f)
  BY <1>2, <1>e DEF LabelsAt, LabelOf
<1> QED BY <1>3, <1>4 DEF KeyInv, KeysGoForward, LabelsOpposite

LEMMA KeyStep ==
  ASSUME Rotators \subseteq {Client}
  PROVE  TypeOK /\ TypeOK' /\ ForwardInv /\ KeyInv /\ [Next]_vars => KeyInv'
<1> SUFFICES ASSUME TypeOK, TypeOK', ForwardInv, KeyInv, [Next]_vars
             PROVE  KeyInv'
  OBVIOUS
<1>1. \A x \in Party : Idles(x) \/ Seals(x) \/ Restarts(x)
  BY StepOfEnd DEF ForwardInv
<1>2. KeysGoForward'
  BY <1>1, KeysForwardStep DEF KeyInv, KeysGoForward
<1>3. PICK f \in BOOLEAN : \A x \in Party : LabelsAt(x, f)
  BY DEF KeyInv, LabelsOpposite
<1>4. \A x \in Party : LabelsAt(x, f)'
  BY <1>1, <1>3, LabelsStep DEF KeyInv, KeysGoForward
<1> QED BY <1>2, <1>4 DEF KeyInv, LabelsOpposite

LEMMA KeyInvImplies == TypeOK /\ KeyInv => KeysNeverReused
<1> SUFFICES ASSUME TypeOK, KeyInv,
                    NEW p \in Party, NEW q \in Party,
                    NEW i \in 1 .. Len(log[p]), NEW j \in 1 .. Len(log[q]),
                    log[p][i].kind = "frame", log[q][j].kind = "frame",
                    log[p][i].cipher.key = log[q][j].cipher.key
             PROVE  p = q /\ i = j
  BY DEF KeysNeverReused
<1>1. p = q
  <2> SUFFICES ASSUME p # q PROVE FALSE
    OBVIOUS
  <2> DEFINE key == log[p][i].cipher.key
  <2>1. PICK f \in BOOLEAN : LabelsAt(p, f) /\ LabelsAt(q, f)
    BY DEF KeyInv, LabelsOpposite
  <2>2. key.label = LabelOf(p, f, key) /\ key.label = LabelOf(q, f, key)
    BY <2>1 DEF LabelsAt
  <2>3. (p = Client) # (q = Client)
    BY PartiesAssumption DEF Party
  <2> HIDE DEF key
  <2> QED BY <2>2, <2>3 DEF LabelOf
<1>2. i = j
  <2>1. KeysGoForwardAt(p) BY DEF KeyInv, KeysGoForward
  <2>2. Len(log[p]) \in Nat BY DEF TypeOK
  <2>3. ~Earlier(log[p][i].cipher.key, log[p][i].cipher.key)
    BY FrameKeyType, EarlierFacts
  <2>4. CASE i < j
    <3>1. i \in 1 .. j - 1 BY <2>2, <2>4, <1>1
    <3> QED BY <3>1, <2>1, <2>3, <1>1 DEF KeysGoForwardAt
  <2>5. CASE j < i
    <3>1. j \in 1 .. i - 1 BY <2>2, <2>5, <1>1
    <3> QED BY <3>1, <2>1, <2>3, <1>1 DEF KeysGoForwardAt
  <2> QED BY <2>2, <2>4, <2>5, <1>1
<1> QED BY <1>1, <1>2

\* No two frames, of either end, are ever sealed with the same message key,
\* as long as the client is the only end that rotates.
THEOREM KeysAreFresh ==
  ASSUME Rotators \subseteq {Client}
  PROVE  Spec => []KeysNeverReused
<1>1. TypeOK /\ TypeOK' /\ ForwardInv /\ [Next]_vars => ForwardInv'
  BY ForwardStep
<1>2. TypeOK /\ TypeOK' /\ ForwardInv /\ KeyInv /\ [Next]_vars => KeyInv'
  BY KeyStep
<1> QED BY <1>1, <1>2, ForwardInit, KeyInit, KeyInvImplies, TypeCorrect, PTL
        DEF Spec
-----------------------------------------------------------------------------
(***************************************************************************)
(* The counters, whichever ends rotate: they name frames, not chains, and  *)
(* wrap around together.                                                   *)
(***************************************************************************)

(***************************************************************************)
(* Remainders.                                                             *)
(***************************************************************************)
LEMMA Euclid ==
  \A m, n \in Nat :
    m > 0 => /\ n % m \in 0 .. m - 1 /\ n \div m \in Nat
             /\ n % m = n - m * (n \div m)
OBVIOUS

LEMMA Remainder ==
  ASSUME NEW m \in Nat \ {0}, NEW q \in Nat, NEW r \in 0 .. m - 1
  PROVE  (m * q + r) % m = r
OBVIOUS

\* A counter that has wrapped wraps on like one that has not.
LEMMA SuccessorOfRemainder ==
  ASSUME NEW m \in Nat \ {0}, NEW n \in Nat
  PROVE  ((n % m) + 1) % m = (n + 1) % m
<1> DEFINE q == n \div m
           r == n % m
<1>1. q \in Nat /\ r \in 0 .. m - 1 /\ r = n - m * q
  BY Euclid
<1>2. m * q \in Nat /\ n = m * q + r
  BY <1>1
<1> HIDE DEF q, r
<1>3. CASE r + 1 < m
  <2>1. r + 1 \in 0 .. m - 1 BY <1>1, <1>3
  <2>2. (m * q + (r + 1)) % m = r + 1 BY <2>1, <1>1, Remainder
  <2>3. (r + 1) % m = r + 1 BY <1>1, <1>3
  <2>4. m * q + (r + 1) = n + 1 BY <1>1, <1>2
  <2> QED BY <2>2, <2>3, <2>4 DEF r
<1>4. CASE r + 1 = m
  <2>1. (m * (q + 1) + 0) % m = 0 BY <1>1, <1>4, Remainder
  <2>2. (r + 1) % m = 0 BY <1>1, <1>4
  <2>3. m * (q + 1) + 0 = n + 1 BY <1>1, <1>2, <1>4
  <2> QED BY <2>1, <2>2, <2>3 DEF r
<1> QED BY <1>1, <1>3, <1>4

LEMMA BumpOfCount ==
  ASSUME NEW n \in Nat
  PROVE  Bump(n % CounterMod) = (n + 1) % CounterMod
BY CounterModAssumption, SuccessorOfRemainder DEF Bump

-----------------------------------------------------------------------------
(***************************************************************************)
(* The inductive invariant.  halves[p] counts the frames before each item  *)
(* of p; a frame carries the count before it, and what the peer has read   *)
(* is the count at the place where it reads.                               *)
(***************************************************************************)
CountersAt(p) ==
  LET n == Len(log[p])
      h == halves[p]
  IN  /\ Len(h) = n + 1
      /\ h[n + 1].count = Len(sent[p])
      /\ session[p].sendCtr = Len(sent[p]) % CounterMod
      /\ \A i \in 1 .. n + 1 : h[i].ctr = h[i].count % CounterMod
      /\ \A i \in 1 .. n :
           IF log[p][i].kind = "frame"
           THEN log[p][i].cipher.ctr = h[i].ctr /\ h[i + 1].count = h[i].count + 1
           ELSE h[i + 1].count = h[i].count
      /\ h[done[p] + 1].count = Len(receipts[p])

CountersInv == (\A p \in Party : CountersAt(p)) /\ CountersInStep

LEMMA InitCounters == Init => CountersInv
<1> SUFFICES ASSUME Init PROVE CountersInv
  OBVIOUS
<1>1. 0 % CounterMod = 0
  BY CounterModAssumption
<1>2. \A p \in Party : session[p].sendCtr = 0 /\ session[p].recvCtr = 0
  BY DEF Init, NewSession
<1>3. \A p \in Party : halves[p] = <<Half(session[p], 0)>>
  BY DEF Init
<1>4. ASSUME NEW p \in Party PROVE CountersAt(p)
  <2>1. /\ Len(halves[p]) = 1
        /\ halves[p][1].count = 0 /\ halves[p][1].ctr = 0
    <3>1. Half(session[p], 0).count = 0 /\ Half(session[p], 0).ctr = 0
      BY <1>2 DEF Half
    <3> QED BY <1>3, <3>1
  <2>2. log[p] = <<>> /\ sent[p] = <<>> /\ receipts[p] = <<>> /\ done[p] = 0
    BY DEF Init
  <2> QED BY <1>1, <1>2, <2>1, <2>2 DEF CountersAt
<1>5. CountersInStep
  BY <1>1, <1>2, PeerFacts DEF Init, CountersInStep
<1> QED BY <1>4, <1>5 DEF CountersInv

\* What is written at one end concerns the account of that end alone.
LEMMA OtherAccount ==
  ASSUME NEW q \in Party, CountersAt(q),
         log'[q] = log[q], sent'[q] = sent[q], done'[q] = done[q],
         receipts'[q] = receipts[q], session'[q].sendCtr = session[q].sendCtr,
         halves'[q] = halves[q]
  PROVE  CountersAt(q)'
BY DEF CountersAt

\* An item is written: a frame counts one, a public key none.
LEMMA WriteKeepsAccount ==
  ASSUME NEW p \in Party, TypeOK, CountersAt(p),
         NEW item \in Items, NEW g \in Halves,
         log' = [log EXCEPT ![p] = Append(@, item)],
         halves' = [halves EXCEPT ![p] = Append(@, g)],
         UNCHANGED <<done, receipts>>,
         session'[p].sendCtr = g.ctr, g.count = Len(sent'[p]),
         \/ /\ item.kind = "frame" /\ item.cipher.ctr = session[p].sendCtr
            /\ g.ctr = Bump(session[p].sendCtr)
            /\ Len(sent'[p]) = Len(sent[p]) + 1
         \/ /\ item.kind = "pubkey" /\ g.ctr = session[p].sendCtr
            /\ Len(sent'[p]) = Len(sent[p])
  PROVE  CountersAt(p)'
<1> DEFINE n == Len(log[p])
           h == halves[p]
<1>1. /\ log[p] \in Seq(Items) /\ h \in Seq(Halves) /\ n \in Nat
      /\ Len(sent[p]) \in Nat /\ done[p] \in Nat /\ done[p] <= n
  BY DEF TypeOK
<1>2. /\ Len(h) = n + 1 /\ h[n + 1].count = Len(sent[p])
      /\ session[p].sendCtr = Len(sent[p]) % CounterMod
      /\ \A i \in 1 .. n + 1 : h[i].ctr = h[i].count % CounterMod
      /\ \A i \in 1 .. n :
           IF log[p][i].kind = "frame"
           THEN log[p][i].cipher.ctr = h[i].ctr /\ h[i + 1].count = h[i].count + 1
           ELSE h[i + 1].count = h[i].count
      /\ h[done[p] + 1].count = Len(receipts[p])
  BY DEF CountersAt
<1>3. log'[p] = Append(log[p], item) /\ halves'[p] = Append(h, g)
  BY DEF TypeOK
<1> HIDE DEF n, h
<1>4. /\ Len(log'[p]) = n + 1 /\ log'[p][n + 1] = item
      /\ \A i \in 1 .. n : log'[p][i] = log[p][i]
  BY <1>1, <1>3 DEF n
<1>5. /\ Len(halves'[p]) = n + 2 /\ halves'[p][n + 2] = g
      /\ \A i \in 1 .. n + 1 : halves'[p][i] = h[i]
  <2>1. halves'[p] = Append(h, g) /\ h \in Seq(Halves) /\ Len(h) = n + 1 /\ n \in Nat
    BY <1>1, <1>2, <1>3
  <2>2. /\ Len(Append(h, g)) = Len(h) + 1 /\ Append(h, g)[Len(h) + 1] = g
        /\ \A i \in 1 .. Len(h) : Append(h, g)[i] = h[i]
    BY <2>1, AppendProperties
  <2>3. Len(h) + 1 = n + 2
    BY <2>1
  <2> QED BY <2>1, <2>2, <2>3
<1>n. n \in Nat
  BY <1>1
<1>6. g.ctr = Len(sent'[p]) % CounterMod
  BY <1>1, <1>2, BumpOfCount
<1>7. \A i \in 1 .. n + 2 : halves'[p][i].ctr = halves'[p][i].count % CounterMod
  <2> SUFFICES ASSUME NEW i \in 1 .. n + 2
               PROVE  halves'[p][i].ctr = halves'[p][i].count % CounterMod
    OBVIOUS
  <2>1. CASE i = n + 2 BY <2>1, <1>5, <1>6
  <2>2. CASE i \in 1 .. n + 1 BY <2>2, <1>2, <1>5
  <2>3. i = n + 2 \/ i \in 1 .. n + 1 BY <1>n
  <2> QED BY <2>1, <2>2, <2>3
<1>8. ASSUME NEW i \in 1 .. n + 1
      PROVE  IF log'[p][i].kind = "frame"
             THEN /\ log'[p][i].cipher.ctr = halves'[p][i].ctr
                  /\ halves'[p][i + 1].count = halves'[p][i].count + 1
             ELSE halves'[p][i + 1].count = halves'[p][i].count
  <2>1. CASE i = n + 1
    <3>1. log'[p][i] = item /\ halves'[p][i] = h[n + 1] /\ halves'[p][i + 1] = g
      BY <2>1, <1>1, <1>4, <1>5
    <3>2. h[n + 1].ctr = session[p].sendCtr /\ h[n + 1].count = Len(sent[p])
      BY <1>1, <1>2
    <3> QED BY <3>1, <3>2
  <2>2. CASE i \in 1 .. n
    <3>1. i \in 1 .. n + 1 /\ i + 1 \in 1 .. n + 1
      BY <2>2, <1>1
    <3>2. /\ log'[p][i] = log[p][i] /\ halves'[p][i] = h[i]
          /\ halves'[p][i + 1] = h[i + 1]
      BY <2>2, <3>1, <1>4, <1>5
    <3> QED BY <2>2, <3>2, <1>2
  <2>3. i = n + 1 \/ i \in 1 .. n BY <1>n
  <2> QED BY <2>1, <2>2, <2>3
<1>9. halves'[p][done'[p] + 1].count = Len(receipts'[p])
  <2>1. done[p] + 1 \in 1 .. n + 1 BY <1>1
  <2> QED BY <2>1, <1>2, <1>5
<1>10. Len(log'[p]) = n + 1 /\ Len(halves'[p]) = Len(log'[p]) + 1
       /\ (Len(log'[p]) + 1 = n + 2)
  BY <1>4, <1>5, <1>n
<1> HIDE DEF n, h
<1>11. /\ halves'[p][Len(log'[p]) + 1].count = Len(sent'[p])
       /\ session'[p].sendCtr = Len(sent'[p]) % CounterMod
  BY <1>5, <1>6, <1>10
<1>12. /\ \A i \in 1 .. Len(log'[p]) + 1 :
            halves'[p][i].ctr = halves'[p][i].count % CounterMod
       /\ \A i \in 1 .. Len(log'[p]) :
            IF log'[p][i].kind = "frame"
            THEN /\ log'[p][i].cipher.ctr = halves'[p][i].ctr
                 /\ halves'[p][i + 1].count = halves'[p][i].count + 1
            ELSE halves'[p][i + 1].count = halves'[p][i].count
  BY <1>7, <1>8, <1>10
<1> QED BY <1>9, <1>10, <1>11, <1>12 DEF CountersAt

\* Rotation leaves the counters, at either end.
LEMMA PrepareKeepsCounters ==
  ASSUME NEW s \in Sessions, NEW new
  PROVE  /\ PrepareRatchetStep(s, new).sendCtr = s.sendCtr
         /\ PrepareRatchetStep(s, new).recvCtr = s.recvCtr
BY DEF PrepareRatchetStep, DoRatchet, Sessions

LEMMA ApplyKeepsCounters ==
  ASSUME NEW s \in Sessions, NEW pub
  PROVE  /\ ApplyPeerRatchetKey(s, pub).sendCtr = s.sendCtr
         /\ ApplyPeerRatchetKey(s, pub).recvCtr = s.recvCtr
BY DEF ApplyPeerRatchetKey, DoRatchet, Sessions

\* An account whose halves are written anew with the same counts and counters.
LEMMA SameAccount ==
  ASSUME NEW q \in Party, TypeOK, CountersAt(q),
         log'[q] = log[q], sent'[q] = sent[q], done'[q] = done[q],
         receipts'[q] = receipts[q], session'[q].sendCtr = session[q].sendCtr,
         Len(halves'[q]) = Len(halves[q]),
         \A i \in 1 .. Len(halves[q]) : /\ halves'[q][i].ctr = halves[q][i].ctr
                                        /\ halves'[q][i].count = halves[q][i].count
  PROVE  CountersAt(q)'
<1> DEFINE n == Len(log[q])
<1>1. /\ n \in Nat /\ done[q] \in Nat /\ done[q] <= n
  BY DEF TypeOK
<1>2. /\ Len(halves[q]) = n + 1 /\ halves[q][n + 1].count = Len(sent[q])
      /\ session[q].sendCtr = Len(sent[q]) % CounterMod
      /\ \A i \in 1 .. n + 1 : halves[q][i].ctr = halves[q][i].count % CounterMod
      /\ \A i \in 1 .. n :
           IF log[q][i].kind = "frame"
           THEN /\ log[q][i].cipher.ctr = halves[q][i].ctr
                /\ halves[q][i + 1].count = halves[q][i].count + 1
           ELSE halves[q][i + 1].count = halves[q][i].count
      /\ halves[q][done[q] + 1].count = Len(receipts[q])
  BY DEF CountersAt
<1>3. Len(log'[q]) = n
  OBVIOUS
<1> HIDE DEF n
<1>4. n + 1 \in 1 .. n + 1 /\ done[q] + 1 \in 1 .. n + 1
      /\ \A i \in 1 .. n : i \in 1 .. n + 1 /\ i + 1 \in 1 .. n + 1
  BY <1>1
<1>5. \A i \in 1 .. n + 1 : /\ halves'[q][i].ctr = halves[q][i].ctr
                            /\ halves'[q][i].count = halves[q][i].count
  BY <1>2
<1>6. /\ halves'[q][n + 1].count = Len(sent'[q])
      /\ halves'[q][done'[q] + 1].count = Len(receipts'[q])
      /\ session'[q].sendCtr = Len(sent'[q]) % CounterMod
  BY <1>2, <1>4, <1>5
<1>7. \A i \in 1 .. n + 1 : halves'[q][i].ctr = halves'[q][i].count % CounterMod
  BY <1>2, <1>5
<1>8. \A i \in 1 .. n :
           IF log'[q][i].kind = "frame"
           THEN /\ log'[q][i].cipher.ctr = halves'[q][i].ctr
                /\ halves'[q][i + 1].count = halves'[q][i].count + 1
           ELSE halves'[q][i + 1].count = halves'[q][i].count
  BY <1>2, <1>4, <1>5
<1> QED BY <1>2, <1>3, <1>6, <1>7, <1>8 DEF CountersAt

LEMMA StepCounters == TypeOK /\ TypeOK' /\ CountersInv /\ [Next]_vars => CountersInv'
<1> SUFFICES ASSUME TypeOK, TypeOK', CountersInv, [Next]_vars PROVE CountersInv'
  OBVIOUS
<1>1. \A p \in Party : CountersAt(p)
  BY DEF CountersInv
<1>2. \A p \in Party : session[Peer(p)].recvCtr = Len(receipts[p]) % CounterMod
  BY DEF CountersInv, CountersInStep
<1>3. ASSUME UNCHANGED receipts,
             \A q \in Party : session'[q].recvCtr = session[q].recvCtr
      PROVE  CountersInStep'
  BY <1>2, <1>3, PeerFacts DEF CountersInStep
<1>4. \A p \in Party : session[p] \in Sessions /\ session'[p] \in Sessions
  BY DEF TypeOK
<1>5. ASSUME NEW p \in Party, NEW m \in Messages, Send(p, m) PROVE CountersInv'
  <2> DEFINE item == Frame(Encrypt(session[p], m), Epoch(session[p]))
             g    == Half(AfterEncrypt(session[p]), Len(sent[p]) + 1)
  <2>1. /\ log' = [log EXCEPT ![p] = Append(@, item)]
        /\ halves' = [halves EXCEPT ![p] = Append(@, g)]
        /\ sent' = [sent EXCEPT ![p] = Append(@, m)]
        /\ session' = [session EXCEPT ![p] = AfterEncrypt(@)]
        /\ UNCHANGED <<done, delivered, receipts>>
    BY <1>5 DEF Send
  <2>2. item \in Items /\ item.kind = "frame" /\ item.cipher.ctr = session[p].sendCtr
    BY <1>4, FrameType DEF Frame, Encrypt
  <2>3. /\ AfterEncrypt(session[p]).sendCtr = Bump(session[p].sendCtr)
        /\ AfterEncrypt(session[p]).recvCtr = session[p].recvCtr
    BY <1>4 DEF AfterEncrypt, Sessions
  <2>4. Len(sent[p]) \in Nat /\ sent[p] \in Seq(Messages)
    BY DEF TypeOK
  <2>5. /\ g \in Halves /\ g.ctr = Bump(session[p].sendCtr)
        /\ g.count = Len(sent[p]) + 1
    <3>1. AfterEncrypt(session[p]) \in Sessions BY <1>4, AfterEncryptType
    <3>2. g \in Halves BY <3>1, <2>4, HalfType
    <3> QED BY <3>2, <2>3 DEF Half
  <2>6. /\ session'[p] = AfterEncrypt(session[p])
        /\ sent'[p] = Append(sent[p], m) /\ Len(sent'[p]) = Len(sent[p]) + 1
    BY <2>1, <2>4 DEF TypeOK
  <2> HIDE DEF item, g
  <2>7. CountersAt(p)'
    BY <1>1, <2>1, <2>2, <2>3, <2>5, <2>6, WriteKeepsAccount
  <2>8. ASSUME NEW q \in Party, q # p PROVE CountersAt(q)'
    <3>1. /\ log'[q] = log[q] /\ sent'[q] = sent[q] /\ session'[q] = session[q]
          /\ halves'[q] = halves[q]
      BY <2>1, <2>8 DEF TypeOK
    <3> QED BY <1>1, <2>1, <3>1, OtherAccount
  <2>9. CountersInStep'
    <3>1. \A q \in Party : session'[q].recvCtr = session[q].recvCtr
      BY <2>1, <2>3 DEF TypeOK
    <3> QED BY <1>3, <2>1, <3>1
  <2> QED BY <2>7, <2>8, <2>9 DEF CountersInv
<1>6. ASSUME NEW p \in Party, Rotate(p) PROVE CountersInv'
  <2> DEFINE new  == Key(p, session[p].self[2] + 1)
             s    == PrepareRatchetStep(session[p], new)
             item == Pubkey(new)
             g    == Half(s, Len(sent[p]))
  <2>1. /\ log' = [log EXCEPT ![p] = Append(@, item)]
        /\ halves' = [halves EXCEPT ![p] = Append(@, g)]
        /\ session' = [session EXCEPT ![p] = s]
        /\ UNCHANGED <<done, sent, delivered, receipts>>
    BY <1>6 DEF Rotate
  <2>2. new \in Keys
    <3>1. session[p].self \in Party \X Nat BY <1>4 DEF Sessions, Keys
    <3>2. session[p].self[2] + 1 \in Nat BY <3>1
    <3> QED BY <3>2 DEF Keys, Key
  <2> HIDE DEF new
  <2>3. item \in Items /\ item.kind = "pubkey"
    BY <2>2 DEF Pubkey, Items
  <2>4. s.sendCtr = session[p].sendCtr /\ s.recvCtr = session[p].recvCtr
    BY <1>4, PrepareKeepsCounters
  <2>5. s \in Sessions
    <3>1. session[p].peer \in Keys BY <1>4 DEF Sessions
    <3> QED BY <2>2, <3>1, <1>4, DoRatchetType DEF PrepareRatchetStep
  <2> HIDE DEF s, item
  <2>6. g \in Halves /\ g.ctr = session[p].sendCtr /\ g.count = Len(sent[p])
    <3>1. Len(sent[p]) \in Nat BY DEF TypeOK
    <3>2. g \in Halves BY <2>5, <3>1, HalfType
    <3> QED BY <3>2, <2>4 DEF Half
  <2>7. session'[p] = s
    BY <2>1 DEF TypeOK
  <2> HIDE DEF g
  <2>8. CountersAt(p)'
    BY <1>1, <2>1, <2>3, <2>4, <2>6, <2>7, WriteKeepsAccount
  <2>9. ASSUME NEW q \in Party, q # p PROVE CountersAt(q)'
    <3>1. /\ log'[q] = log[q] /\ session'[q] = session[q] /\ halves'[q] = halves[q]
      BY <2>1, <2>9 DEF TypeOK
    <3> QED BY <1>1, <2>1, <3>1, OtherAccount
  <2>10. CountersInStep'
    <3>1. \A q \in Party : session'[q].recvCtr = session[q].recvCtr
      BY <2>1, <2>4 DEF TypeOK
    <3> QED BY <1>3, <2>1, <3>1
  <2> QED BY <2>8, <2>9, <2>10 DEF CountersInv
<1>7. ASSUME NEW p \in Party, ReceiveFrame(p) PROVE CountersInv'
  <2> DEFINE q == Peer(p)
             c == NextItem(p).cipher
             d == done[p]
  <2>1. /\ q \in Party /\ q # p /\ Peer(q) = p
    BY PeerFacts
  <2>2. /\ session' = [session EXCEPT ![q] = AfterDecrypt(@, c)]
        /\ done' = [done EXCEPT ![p] = @ + 1]
        /\ InFlight(p) /\ NextItem(p).kind = "frame"
        /\ UNCHANGED <<log, sent, halves>>
    BY <1>7 DEF ReceiveFrame
  <2>3. /\ Len(receipts'[p]) = Len(receipts[p]) + 1
        /\ receipts'[q] = receipts[q]
    BY <1>7, <2>1 DEF ReceiveFrame, TypeOK
  <2>4. d \in Nat /\ d + 1 \in 1 .. Len(log[p]) /\ d + 1 \in 1 .. Len(log[p]) + 1
    BY <2>2 DEF InFlight, TypeOK
  <2>5. /\ c.ctr = halves[p][d + 1].ctr
        /\ halves[p][d + 1].ctr = halves[p][d + 1].count % CounterMod
        /\ halves[p][d + 1].count = Len(receipts[p])
        /\ halves[p][d + 2].count = halves[p][d + 1].count + 1
    <3>1. (d + 1) + 1 = d + 2 BY <2>4
    <3> QED BY <1>1, <2>2, <2>4, <3>1 DEF CountersAt, NextItem
  <2>6. InOrder(session[q], c)
    BY <1>2, <2>5 DEF InOrder
  <2>7. Len(receipts[p]) \in Nat
    BY DEF TypeOK
  <2>8. /\ AfterDecrypt(session[q], c).recvCtr = Bump(session[q].recvCtr)
        /\ AfterDecrypt(session[q], c).sendCtr = session[q].sendCtr
    BY <1>4, <2>1, <2>6 DEF AfterDecrypt, Sessions
  <2> HIDE DEF c
  <2>9. /\ session'[q].recvCtr = Len(receipts'[p]) % CounterMod
        /\ session'[q].sendCtr = session[q].sendCtr
        /\ session'[p] = session[p] /\ done'[q] = done[q] /\ done'[p] = d + 1
    <3>1. session'[q] = AfterDecrypt(session[q], c) /\ session'[p] = session[p]
      BY <2>1, <2>2 DEF TypeOK
    <3>2. done'[q] = done[q] /\ done'[p] = d + 1
      BY <2>1, <2>2 DEF TypeOK
    <3>3. Bump(session[q].recvCtr) = (Len(receipts[p]) + 1) % CounterMod
      BY <1>2, <2>7, BumpOfCount
    <3> QED BY <2>3, <2>8, <3>1, <3>2, <3>3
  <2>10. \A o \in Party : o = p \/ o = q
    BY <2>1 DEF Party
  <2> HIDE DEF q, d
  <2>11. CountersInStep'
    <3>1. session'[p].recvCtr = Len(receipts'[q]) % CounterMod
      BY <1>2, <2>1, <2>3, <2>9
    <3>2. Peer(p) = q
      BY DEF q
    <3> QED BY <2>1, <2>9, <2>10, <3>1, <3>2 DEF CountersInStep
  <2>12. CountersAt(q)'
    BY <1>1, <2>1, <2>2, <2>3, <2>9, OtherAccount
  <2>13. CountersAt(p)'
    <3>1. (d + 1) + 1 = d + 2 BY <2>4
    <3>2. halves'[p][done'[p] + 1].count = Len(receipts'[p])
      BY <2>2, <2>3, <2>5, <2>9, <3>1
    <3> QED BY <1>1, <2>2, <2>9, <3>2 DEF CountersAt
  <2> QED BY <2>10, <2>11, <2>12, <2>13 DEF CountersInv
<1>8. ASSUME NEW p \in Party, ReceivePubkey(p) PROVE CountersInv'
  <2> DEFINE q == Peer(p)
             s == ApplyPeerRatchetKey(session[q], NextItem(p).pub)
             d == done[p]
  <2>1. /\ q \in Party /\ q # p /\ Peer(q) = p
    BY PeerFacts
  <2>2. /\ session' = [session EXCEPT ![q] = s]
        /\ done' = [done EXCEPT ![p] = @ + 1]
        /\ InFlight(p) /\ NextItem(p).kind = "pubkey"
        /\ halves' = [halves EXCEPT ![q] =
                        [@ EXCEPT ![Len(log[q]) + 1] = Half(s, Len(sent[q]))]]
        /\ UNCHANGED <<log, sent, delivered, receipts>>
    BY <1>8 DEF ReceivePubkey
  <2>3. s.sendCtr = session[q].sendCtr /\ s.recvCtr = session[q].recvCtr
    BY <1>4, <2>1, ApplyKeepsCounters
  <2> HIDE DEF s
  <2>4. d \in Nat /\ d + 1 \in 1 .. Len(log[p]) /\ d + 1 \in 1 .. Len(log[p]) + 1
    BY <2>2 DEF InFlight, TypeOK
  <2>5. /\ halves[p][d + 1].count = Len(receipts[p])
        /\ halves[p][d + 2].count = halves[p][d + 1].count
    <3>1. (d + 1) + 1 = d + 2 BY <2>4
    <3>2. log[p][d + 1].kind # "frame" BY <2>2 DEF NextItem
    <3> QED BY <1>1, <2>4, <3>1, <3>2 DEF CountersAt
  <2>6. /\ session'[q] = s /\ session'[p] = session[p]
        /\ done'[q] = done[q] /\ done'[p] = d + 1
        /\ halves'[p] = halves[p]
        /\ halves'[q] = [halves[q] EXCEPT ![Len(log[q]) + 1] = Half(s, Len(sent[q]))]
    BY <2>1, <2>2 DEF TypeOK
  <2>7. \A o \in Party : o = p \/ o = q
    BY <2>1 DEF Party
  <2>8. CountersInStep'
    <3>1. \A o \in Party : session'[o].recvCtr = session[o].recvCtr
      BY <2>3, <2>6, <2>7
    <3> QED BY <1>3, <2>2, <3>1
  <2>9. CountersAt(q)'
    <3> DEFINE n == Len(log[q])
               h == halves[q]
               g == Half(s, Len(sent[q]))
    <3>1. /\ Len(h) = n + 1 /\ h[n + 1].count = Len(sent[q])
          /\ session[q].sendCtr = Len(sent[q]) % CounterMod
          /\ h[n + 1].ctr = h[n + 1].count % CounterMod
      <4>1. n + 1 \in 1 .. n + 1 BY <2>1 DEF TypeOK
      <4> QED BY <1>1, <2>1, <4>1 DEF CountersAt
    <3>2. h \in Seq(Halves)
      BY <2>1 DEF TypeOK
    <3>3. g.count = h[n + 1].count /\ g.ctr = h[n + 1].ctr
      BY <2>3, <3>1 DEF Half
    <3> HIDE DEF g, h, n
    <3>4. halves'[q] = [h EXCEPT ![n + 1] = g]
      BY <2>6 DEF g, h, n
    <3>5. /\ Len(halves'[q]) = Len(h)
          /\ \A i \in 1 .. Len(h) : /\ halves'[q][i].ctr = h[i].ctr
                                    /\ halves'[q][i].count = h[i].count
      BY <3>2, <3>3, <3>4
    <3> QED BY <1>1, <2>1, <2>2, <2>3, <2>6, <3>5, SameAccount DEF h
  <2>10. CountersAt(p)'
    <3>1. (d + 1) + 1 = d + 2 BY <2>4
    <3>2. halves'[p][done'[p] + 1].count = Len(receipts'[p])
      BY <2>2, <2>5, <2>6, <3>1
    <3>3. /\ log'[p] = log[p] /\ sent'[p] = sent[p] /\ session'[p] = session[p]
          /\ halves'[p] = halves[p]
      BY <2>2, <2>6
    <3> QED BY <1>1, <3>2, <3>3 DEF CountersAt
  <2> QED BY <2>7, <2>8, <2>9, <2>10 DEF CountersInv
<1>9. CASE UNCHANGED vars
  BY <1>1, <1>2, <1>9 DEF CountersInv, CountersInStep, CountersAt, vars
<1> QED BY <1>5, <1>6, <1>7, <1>8, <1>9 DEF Next

\* decrypt never meets a counter it does not expect, whichever ends rotate,
\* at whatever moment, and however narrow the counters are: a crossing frame
\* fails by its MAC alone.
THEOREM CountersNeverPart == Spec => []CountersInStep
<1>1. CountersInv => CountersInStep
  BY DEF CountersInv
<1> QED BY <1>1, InitCounters, StepCounters, TypeCorrect, PTL DEF Spec
-----------------------------------------------------------------------------
(***************************************************************************)
(* The other direction, when only the client rotates.  A frame that has    *)
(* crossed a rotation was sealed with an older root than the client opens  *)
(* it with, and uses up a step of the new chain: from then on the step at  *)
(* which the client reads is ahead of the one at which the server writes,  *)
(* until the next rotation restarts both.                                  *)
(***************************************************************************)

\* Root r is the beginning of root s.
Leads(r, s) == Len(r) <= Len(s) /\ \A n \in 1 .. Len(r) : r[n] = s[n]

\* The roots at every place of the stream are beginnings of the client's, and
\* the epochs noted are their lengths.
RootsLead ==
  LET h == halves[Client]
  IN  /\ \A i \in 1 .. Len(h) : /\ Len(h[i].root) >= 1
                                /\ Leads(h[i].root, session[Client].root)
      /\ \A i \in 1 .. Len(log[Client]) : log[Client][i].kind = "frame" =>
           log[Client][i].epoch = Len(h[i].root)
      /\ \A j \in 1 .. Len(log[Server]) :
           LET key == log[Server][j].cipher.key
           IN  /\ Leads(key.root, session[Client].root)
               /\ log[Server][j].epoch = Len(key.root)
      /\ session[Client].recv.root = session[Client].root
      /\ session[Server].send.root = session[Server].root

\* The label of a chain of the server's direction, which began with first.
Labelled(chain, first) ==
  chain.label = IF Len(chain.root) = 1 THEN first ELSE "recv-v2"

LabelsMeet ==
  \E first \in Labels :
    /\ Labelled(session[Server].send, first)
    /\ Labelled(session[Client].recv, first)
    /\ \A j \in 1 .. Len(log[Server]) : Labelled(log[Server][j].cipher.key, first)

\* With n frames of the server before it, what is at this step in this epoch
\* lies that many steps behind the last of an older epoch.
WritesAt(items, n, step, epoch) ==
  /\ step <= n
  /\ \A i \in 1 .. n : /\ items[i].epoch <= epoch
                       /\ items[i].epoch < epoch <=> i + step <= n
ReadsAt(reads, n, step, epoch) ==
  /\ step <= n
  /\ \A i \in 1 .. n : /\ reads[i].read <= epoch
                       /\ reads[i].read < epoch <=> i + step <= n

StepsCountFrames ==
  LET items == log[Server]
  IN  /\ WritesAt(items, Len(items), session[Server].send.step,
                  Epoch(session[Server]))
      /\ \A j \in 1 .. Len(items) :
           WritesAt(items, j - 1, items[j].cipher.key.step, items[j].epoch)
      /\ ReadsAt(receipts[Server], done[Server], session[Client].recv.step,
                 Epoch(session[Client]))

\* A receipt for every frame read; none is read in an earlier epoch than that
\* in which it was written, and of the client's none in another.
ReceiptsKept ==
  /\ Len(receipts[Server]) = done[Server]
  /\ \A i \in 1 .. done[Server] :
       /\ receipts[Server][i].wrote = log[Server][i].epoch
       /\ receipts[Server][i].wrote <= receipts[Server][i].read
  /\ \A i \in 1 .. Len(receipts[Client]) :
       receipts[Client][i].ok /\ ~Crossed(receipts[Client][i])

FailsAt(p) ==
  \A i \in 1 .. Len(receipts[p]) :
    receipts[p][i].ok <=>
      ~ \E k \in 1 .. i : /\ Crossed(receipts[p][k])
                          /\ receipts[p][k].read = receipts[p][i].read

CrossInv == /\ RootsLead /\ LabelsMeet /\ StepsCountFrames /\ ReceiptsKept
            /\ FailsAt(Server)

LEMMA LeadsFacts ==
  ASSUME NEW r \in Roots, NEW s \in Roots
  PROVE  /\ Leads(s, s)
         /\ \A e : e \in SUBSET Keys /\ Leads(r, s) => Leads(r, Append(s, e))
         /\ Leads(r, s) /\ Len(r) = Len(s) => r = s
<1>1. /\ Len(r) \in Nat /\ Len(s) \in Nat
      /\ DOMAIN r = 1 .. Len(r) /\ DOMAIN s = 1 .. Len(s)
  BY DEF Roots
<1>2. Leads(s, s)
  BY <1>1 DEF Leads
<1>3. ASSUME NEW e \in SUBSET Keys, Leads(r, s) PROVE Leads(r, Append(s, e))
  <2>1. /\ Len(Append(s, e)) = Len(s) + 1
        /\ \A n \in 1 .. Len(s) : Append(s, e)[n] = s[n]
    BY DEF Roots
  <2> QED BY <1>1, <1>3, <2>1 DEF Leads
<1>4. ASSUME Leads(r, s), Len(r) = Len(s) PROVE r = s
  <2>1. \A n \in 1 .. Len(s) : r[n] = s[n]
    BY <1>1, <1>4 DEF Leads
  <2> QED BY <1>1, <1>4, <2>1, SeqEqual DEF Roots
<1> QED BY <1>2, <1>3, <1>4

\* The client's direction never fails, the server's as its account says.
LEMMA CrossInvImplies == CrossInv => FailsExactlyAfterCrossing
<1> SUFFICES ASSUME CrossInv, NEW p \in Party PROVE FailsAt(p)
  BY DEF FailsExactlyAfterCrossing, FailsAt
<1>1. CASE p = Server
  BY <1>1 DEF CrossInv
<1>2. CASE p = Client
  BY <1>2 DEF CrossInv, ReceiptsKept, FailsAt
<1> QED BY <1>1, <1>2 DEF Party

\* What the invariants say of the types of the two ends' state.
LEMMA EndTypes ==
  ASSUME TypeOK
  PROVE  /\ Client \in Party /\ Server \in Party /\ Client # Server
         /\ Peer(Client) = Server /\ Peer(Server) = Client
         /\ Party = {Client, Server}
         /\ session[Client] \in Sessions /\ session[Server] \in Sessions
         /\ halves[Client] \in Seq(Halves)
         /\ log[Client] \in Seq(Items) /\ log[Server] \in Seq(Items)
         /\ receipts[Client] \in Seq(Receipts) /\ receipts[Server] \in Seq(Receipts)
         /\ done[Client] \in Nat /\ done[Client] <= Len(log[Client])
         /\ done[Server] \in Nat /\ done[Server] <= Len(log[Server])
<1>1. /\ Client \in Party /\ Server \in Party /\ Client # Server
      /\ Peer(Client) = Server /\ Peer(Server) = Client
      /\ Party = {Client, Server}
  BY PartiesAssumption DEF Party, Peer
<1> QED BY <1>1 DEF TypeOK

LEMMA SessionTypes ==
  ASSUME NEW s \in Sessions
  PROVE  /\ s.root \in Roots /\ Epoch(s) \in Nat /\ Epoch(s) = Len(s.root)
         /\ s.send \in Chains /\ s.send.root \in Roots /\ s.send.step \in Nat
         /\ s.send.label \in Labels
         /\ s.recv \in Chains /\ s.recv.root \in Roots /\ s.recv.step \in Nat
         /\ s.recv.label \in Labels
         /\ s.self \in Keys /\ s.peer \in Keys
BY EpochType DEF Sessions, Chains, Epoch

LEMMA ServerFrames ==
  ASSUME TypeOK, ServerNeverRotates, NEW j \in 1 .. Len(log[Server])
  PROVE  /\ log[Server][j].kind = "frame" /\ log[Server][j].epoch \in Nat
         /\ log[Server][j].cipher.key \in Chains
         /\ log[Server][j].cipher.key.root \in Roots
         /\ log[Server][j].cipher.key.step \in Nat
         /\ log[Server][j].cipher.plain \in Messages
<1>1. log[Server][j] \in Items /\ log[Server][j].kind = "frame"
  BY EndTypes DEF ServerNeverRotates
<1>2. log[Server][j].epoch \in Nat /\ log[Server][j].cipher \in Ciphers
  BY <1>1 DEF Items
<1> QED BY <1>1, <1>2 DEF Ciphers, Chains

\* The server's root is one of those that lead the client's.
LEMMA ServerRootLeads ==
  ASSUME TypeOK, ForwardInv, RootsLead
  PROVE  /\ Leads(session[Server].root, session[Client].root)
         /\ Len(session[Server].root) >= 1 /\ Len(session[Client].root) >= 1
<1> DEFINE h == halves[Client]
           d == done[Client] + 1
           n == Len(log[Client]) + 1
<1>1. d \in 1 .. n /\ n \in 1 .. n
  BY EndTypes
<1>2. Len(h) = n /\ h[n] = Half(session[Client], Len(sent[Client]))
      /\ h[d].root = session[Server].root
  BY DEF ForwardInv, HalvesFollowLog, ServerMirrorsClient, Mirrors
<1>3. \A i \in 1 .. n : Len(h[i].root) >= 1 /\ Leads(h[i].root, session[Client].root)
  BY <1>2 DEF RootsLead
<1> HIDE DEF h, d, n
<1> QED BY <1>1, <1>2, <1>3 DEF Half

LEMMA CrossInit == Init => CrossInv
<1> SUFFICES ASSUME Init PROVE CrossInv
  OBVIOUS
<1> USE PartiesAssumption DEF Party
<1>1. PICK f \in BOOLEAN :
        session = [p \in Party |-> NewSession(Key(p, 0), Key(Peer(p), 0),
                                              (p = Client) = f)]
  BY DEF Init
<1>2. /\ session[Client] = NewSession(Key(Client, 0), Key(Server, 0), f)
      /\ session[Server] = NewSession(Key(Server, 0), Key(Client, 0), ~f)
  BY <1>1 DEF Peer
<1>3. /\ halves[Client] = <<Half(session[Client], 0)>>
      /\ log[Client] = <<>> /\ log[Server] = <<>> /\ done[Server] = 0
      /\ receipts[Client] = <<>> /\ receipts[Server] = <<>>
  BY DEF Init
<1>4. /\ session[Client].root \in Roots /\ Len(session[Client].root) = 1
      /\ session[Client].recv.root = session[Client].root
      /\ session[Server].send.root = session[Server].root
      /\ session[Client].recv.step = 0 /\ session[Server].send.step = 0
  <2>1. <<{Key(Client, 0), Key(Server, 0)}>> \in Roots
    BY DEF Roots, Key, Keys
  <2> QED BY <1>2, <2>1 DEF NewSession, Chain
<1>5. RootsLead
  <2>1. Leads(session[Client].root, session[Client].root)
    BY <1>4, LeadsFacts
  <2>2. /\ Len(halves[Client]) = 1
        /\ halves[Client][1].root = session[Client].root
    BY <1>3 DEF Half
  <2>3. ASSUME NEW i \in 1 .. Len(halves[Client])
        PROVE  /\ Len(halves[Client][i].root) >= 1
               /\ Leads(halves[Client][i].root, session[Client].root)
    <3>1. i = 1 BY <2>2
    <3> QED BY <1>4, <2>1, <2>2, <3>1
  <2>4. Len(log[Client]) = 0 /\ Len(log[Server]) = 0
    BY <1>3
  <2> QED BY <1>4, <2>3, <2>4 DEF RootsLead
<1>6. LabelsMeet
  <2>1. /\ session[Client].recv.label = (IF f THEN "recv" ELSE "send")
        /\ session[Server].send.label = (IF f THEN "recv" ELSE "send")
        /\ Len(session[Server].send.root) = 1 /\ Len(session[Client].recv.root) = 1
    BY <1>2 DEF NewSession, Chain
  <2> QED BY <1>3, <2>1 DEF LabelsMeet, Labelled, Labels
<1>7. StepsCountFrames
  BY <1>3, <1>4 DEF StepsCountFrames, WritesAt, ReadsAt
<1>8. ReceiptsKept /\ FailsAt(Server)
  BY <1>3 DEF ReceiptsKept, FailsAt
<1> QED BY <1>5, <1>6, <1>7, <1>8 DEF CrossInv

LEMMA CrossSendClient ==
  ASSUME TypeOK, TypeOK', ForwardInv, CrossInv, NEW m \in Messages, Send(Client, m)
  PROVE  CrossInv'
<1> DEFINE item == Frame(Encrypt(session[Client], m), Epoch(session[Client]))
           g    == Half(AfterEncrypt(session[Client]), Len(sent[Client]) + 1)
           h    == halves[Client]
           n    == Len(log[Client])
           root == session[Client].root
<1>1. /\ log'[Client] = Append(log[Client], item) /\ log'[Server] = log[Server]
      /\ halves'[Client] = Append(h, g)
      /\ session'[Client] = AfterEncrypt(session[Client])
      /\ session'[Server] = session[Server]
      /\ UNCHANGED <<done, receipts>>
  BY EndTypes DEF Send, TypeOK
<1>2. /\ session'[Client].root = root
      /\ session'[Client].recv = session[Client].recv
      /\ Epoch(session'[Client]) = Epoch(session[Client])
  BY <1>1, EndTypes DEF AfterEncrypt, Sessions, Epoch
<1>3. /\ h \in Seq(Halves) /\ n \in Nat /\ log[Client] \in Seq(Items)
      /\ root \in Roots /\ Epoch(session[Client]) = Len(root) /\ Len(root) >= 1
  BY EndTypes, SessionTypes, ServerRootLeads DEF CrossInv
<1>4. /\ Len(h) = n + 1 /\ h[n + 1].root = root
  BY DEF ForwardInv, HalvesFollowLog, Half
<1>5. g.root = root
  BY EndTypes DEF Half, AfterEncrypt, Sessions
<1>6. item.epoch = Len(root)
  BY <1>3 DEF Frame
<1> HIDE DEF g, item
<1>7. /\ Len(halves'[Client]) = n + 2 /\ halves'[Client][n + 2] = g
      /\ \A i \in 1 .. n + 1 : halves'[Client][i] = h[i]
      /\ Len(log'[Client]) = n + 1 /\ log'[Client][n + 1] = item
      /\ \A i \in 1 .. n : log'[Client][i] = log[Client][i]
  <2>1. /\ Len(Append(h, g)) = n + 2 /\ Append(h, g)[n + 2] = g
        /\ \A i \in 1 .. n + 1 : Append(h, g)[i] = h[i]
    BY <1>3, <1>4
  <2>2. /\ Len(Append(log[Client], item)) = n + 1
        /\ Append(log[Client], item)[n + 1] = item
        /\ \A i \in 1 .. n : Append(log[Client], item)[i] = log[Client][i]
    BY <1>3
  <2> QED BY <1>1, <2>1, <2>2
<1> HIDE DEF h, n
<1>8. RootsLead'
  <2>1. ASSUME NEW i \in 1 .. Len(halves'[Client])
        PROVE  /\ Len(halves'[Client][i].root) >= 1
               /\ Leads(halves'[Client][i].root, session'[Client].root)
    <3>1. CASE i = n + 2
      BY <3>1, <1>2, <1>3, <1>5, <1>7, LeadsFacts
    <3>2. CASE i \in 1 .. n + 1
      <4>1. Len(h[i].root) >= 1 /\ Leads(h[i].root, root)
        BY <3>2, <1>4 DEF CrossInv, RootsLead, h
      <4> QED BY <3>2, <4>1, <1>2, <1>7
    <3> QED BY <3>1, <3>2, <1>3, <1>7
  <2>2. ASSUME NEW i \in 1 .. Len(log'[Client]), log'[Client][i].kind = "frame"
        PROVE  log'[Client][i].epoch = Len(halves'[Client][i].root)
    <3>1. CASE i = n + 1
      <4>1. n + 1 \in 1 .. n + 1 BY <1>3
      <4> QED BY <3>1, <4>1, <1>4, <1>6, <1>7
    <3>2. CASE i \in 1 .. n
      <4>1. i \in 1 .. n + 1 /\ log'[Client][i] = log[Client][i]
            /\ halves'[Client][i] = h[i]
        BY <3>2, <1>3, <1>7
      <4> QED BY <2>2, <3>2, <4>1 DEF CrossInv, RootsLead, h, n
    <3> QED BY <3>1, <3>2, <1>3, <1>7
  <2> QED BY <1>1, <1>2, <2>1, <2>2 DEF CrossInv, RootsLead
<1>9. LabelsMeet'
  BY <1>1, <1>2 DEF CrossInv, LabelsMeet, Labelled
<1>10. StepsCountFrames'
  BY <1>1, <1>2 DEF CrossInv, StepsCountFrames, WritesAt, ReadsAt
<1>11. ReceiptsKept' /\ FailsAt(Server)'
  BY <1>1 DEF CrossInv, ReceiptsKept, FailsAt
<1> QED BY <1>8, <1>9, <1>10, <1>11 DEF CrossInv

LEMMA CrossSendServer ==
  ASSUME TypeOK, TypeOK', ForwardInv, CrossInv, NEW m \in Messages, Send(Server, m)
  PROVE  CrossInv'
<1> DEFINE item == Frame(Encrypt(session[Server], m), Epoch(session[Server]))
           n    == Len(log[Server])
           s    == session[Server]
<1>1. /\ log'[Server] = Append(log[Server], item) /\ log'[Client] = log[Client]
      /\ halves'[Client] = halves[Client]
      /\ session'[Server] = AfterEncrypt(s)
      /\ session'[Client] = session[Client]
      /\ UNCHANGED <<done, receipts>>
  BY EndTypes DEF Send, TypeOK
<1>2. /\ s \in Sessions /\ s.send \in Chains /\ s.send.step \in Nat
      /\ Epoch(s) = Len(s.root) /\ Epoch(s) \in Nat
      /\ n \in Nat /\ log[Server] \in Seq(Items) /\ done[Server] <= n
      /\ done[Server] \in Nat
  BY EndTypes, SessionTypes
<1>3. /\ session'[Server].send.root = s.send.root
      /\ session'[Server].send.label = s.send.label
      /\ session'[Server].send.step = s.send.step + 1
      /\ session'[Server].root = s.root
      /\ Epoch(session'[Server]) = Epoch(s)
  BY <1>1, <1>2 DEF AfterEncrypt, Sessions, Advance, Chains, Epoch
<1>4. item.epoch = Epoch(s) /\ item.cipher.key = s.send
  BY DEF Frame, Encrypt
<1> HIDE DEF item
<1>5. /\ Len(log'[Server]) = n + 1 /\ log'[Server][n + 1] = item
      /\ \A i \in 1 .. n : log'[Server][i] = log[Server][i]
  BY <1>1, <1>2
<1> HIDE DEF n
<1>6. /\ Leads(s.root, session[Client].root) /\ s.send.root = s.root
  BY ServerRootLeads DEF CrossInv, RootsLead
<1> HIDE DEF s
<1>7. RootsLead'
  <2>1. ASSUME NEW j \in 1 .. Len(log'[Server])
        PROVE  /\ Leads(log'[Server][j].cipher.key.root, session'[Client].root)
               /\ log'[Server][j].epoch = Len(log'[Server][j].cipher.key.root)
    <3>1. CASE j = n + 1
      BY <3>1, <1>1, <1>2, <1>4, <1>5, <1>6
    <3>2. CASE j \in 1 .. n
      BY <3>2, <1>1, <1>5 DEF CrossInv, RootsLead, n
    <3> QED BY <3>1, <3>2, <1>2, <1>5
  <2> QED BY <1>1, <1>3, <1>6, <2>1 DEF CrossInv, RootsLead
<1>8. LabelsMeet'
  <2>1. PICK first \in Labels :
          /\ Labelled(s.send, first)
          /\ Labelled(session[Client].recv, first)
          /\ \A j \in 1 .. n : Labelled(log[Server][j].cipher.key, first)
    BY DEF CrossInv, LabelsMeet, n, s
  <2>2. ASSUME NEW j \in 1 .. n + 1
        PROVE  Labelled(log'[Server][j].cipher.key, first)
    <3>1. CASE j = n + 1 BY <3>1, <2>1, <1>4, <1>5
    <3>2. CASE j \in 1 .. n BY <3>2, <2>1, <1>5
    <3> QED BY <3>1, <3>2, <1>2
  <2>3. Labelled(session'[Server].send, first)
    BY <2>1, <1>3 DEF Labelled
  <2> QED BY <2>1, <2>2, <2>3, <1>1, <1>5 DEF LabelsMeet
<1>9. StepsCountFrames'
  <2>1. WritesAt(log[Server], n, s.send.step, Epoch(s))
        /\ \A j \in 1 .. n : WritesAt(log[Server], j - 1,
                                     log[Server][j].cipher.key.step,
                                     log[Server][j].epoch)
    BY DEF CrossInv, StepsCountFrames, n, s
  <2>2. WritesAt(log'[Server], n + 1, s.send.step + 1, Epoch(s))
    <3>1. ASSUME NEW i \in 1 .. n + 1
          PROVE  /\ log'[Server][i].epoch <= Epoch(s)
                 /\ log'[Server][i].epoch < Epoch(s) <=> i + (s.send.step + 1) <= n + 1
      <4>1. CASE i = n + 1
        BY <4>1, <1>2, <1>4, <1>5
      <4>2. CASE i \in 1 .. n
        <5>1. /\ log[Server][i].epoch <= Epoch(s)
              /\ log[Server][i].epoch < Epoch(s) <=> i + s.send.step <= n
          BY <4>2, <2>1 DEF WritesAt
        <5>2. i + s.send.step <= n <=> i + (s.send.step + 1) <= n + 1
          BY <4>2, <1>2
        <5> QED BY <4>2, <5>1, <5>2, <1>5
      <4> QED BY <4>1, <4>2, <1>2
    <3>2. s.send.step + 1 <= n + 1
      BY <2>1, <1>2 DEF WritesAt
    <3> QED BY <3>1, <3>2 DEF WritesAt
  <2>3. ASSUME NEW j \in 1 .. n + 1
        PROVE  WritesAt(log'[Server], j - 1, log'[Server][j].cipher.key.step,
                        log'[Server][j].epoch)
    <3>1. \A i \in 1 .. j - 1 : i \in 1 .. n /\ log'[Server][i] = log[Server][i]
      BY <1>2, <1>5
    <3>2. CASE j = n + 1
      <4>1. j - 1 = n BY <3>2, <1>2
      <4>2. log'[Server][j].cipher.key.step = s.send.step
            /\ log'[Server][j].epoch = Epoch(s)
        BY <3>2, <1>4, <1>5
      <4> QED BY <3>1, <4>1, <4>2, <2>1 DEF WritesAt
    <3>3. CASE j \in 1 .. n
      <4>1. log'[Server][j] = log[Server][j] BY <3>3, <1>5
      <4>2. WritesAt(log[Server], j - 1, log[Server][j].cipher.key.step,
                     log[Server][j].epoch)
        BY <3>3, <2>1
      <4> QED BY <3>1, <4>1, <4>2 DEF WritesAt
    <3> QED BY <3>2, <3>3, <1>2
  <2>4. ReadsAt(receipts'[Server], done'[Server], session'[Client].recv.step,
                Epoch(session'[Client]))
    BY <1>1 DEF CrossInv, StepsCountFrames, ReadsAt
  <2> QED BY <2>2, <2>3, <2>4, <1>3, <1>5 DEF StepsCountFrames
<1>10. ReceiptsKept'
  <2>1. \A i \in 1 .. done[Server] : log'[Server][i] = log[Server][i]
    BY <1>2, <1>5
  <2> QED BY <1>1, <2>1 DEF CrossInv, ReceiptsKept
<1>11. FailsAt(Server)'
  BY <1>1 DEF CrossInv, FailsAt
<1> QED BY <1>7, <1>8, <1>9, <1>10, <1>11 DEF CrossInv

LEMMA CrossRotate ==
  ASSUME TypeOK, TypeOK', ForwardInv, CrossInv, Rotate(Client)
  PROVE  CrossInv'
<1> DEFINE new  == Key(Client, session[Client].self[2] + 1)
           s    == PrepareRatchetStep(session[Client], new)
           item == Pubkey(new)
           g    == Half(s, Len(sent[Client]))
           h    == halves[Client]
           n    == Len(log[Client])
           root == session[Client].root
           next == Append(root, {new, session[Client].peer})
<1>1. /\ log'[Client] = Append(log[Client], item) /\ log'[Server] = log[Server]
      /\ halves'[Client] = Append(h, g)
      /\ session'[Client] = s /\ session'[Server] = session[Server]
      /\ UNCHANGED <<done, receipts>>
  BY EndTypes DEF Rotate, TypeOK
<1>2. new \in Keys /\ session[Client].peer \in Keys
  <2>1. session[Client].self \in Party \X Nat /\ session[Client].peer \in Keys
    BY EndTypes, SessionTypes DEF Keys
  <2>2. session[Client].self[2] + 1 \in Nat BY <2>1
  <2> QED BY <2>1, <2>2, EndTypes DEF Keys, Key
<1>3. /\ h \in Seq(Halves) /\ n \in Nat /\ log[Client] \in Seq(Items)
      /\ root \in Roots /\ Len(root) \in Nat /\ Epoch(session[Client]) = Len(root)
      /\ Len(root) >= 1 /\ done[Server] \in Nat /\ done[Server] <= Len(log[Server])
  <2>1. Len(root) \in Nat BY EndTypes, SessionTypes DEF Roots
  <2> QED BY <2>1, EndTypes, SessionTypes, ServerRootLeads DEF CrossInv
<1> HIDE DEF new
<1>4. /\ s.root = next /\ s.recv.root = next /\ s.recv.step = 0
      /\ s.recv.label = "recv-v2"
  BY EndTypes DEF PrepareRatchetStep, DoRatchet, Chain, Sessions
<1>5. g.root = next
  BY <1>4 DEF Half
<1>6. /\ next \in Roots /\ Len(next) = Len(root) + 1 /\ Epoch(s) = Len(root) + 1
  <2>1. {new, session[Client].peer} \in SUBSET Keys BY <1>2
  <2> QED BY <1>3, <1>4, <2>1 DEF Roots, Epoch
<1>7. /\ Leads(next, next) /\ \A r \in Roots : Leads(r, root) => Leads(r, next)
  <2>1. {new, session[Client].peer} \in SUBSET Keys BY <1>2
  <2> QED BY <1>3, <1>6, <2>1, LeadsFacts
<1>8. item.kind = "pubkey"
  BY DEF Pubkey
<1>9. Len(h) = n + 1
  BY DEF ForwardInv, HalvesFollowLog
<1> HIDE DEF s, g, item, next
<1>10. /\ Len(halves'[Client]) = n + 2 /\ halves'[Client][n + 2] = g
       /\ \A i \in 1 .. n + 1 : halves'[Client][i] = h[i]
       /\ Len(log'[Client]) = n + 1 /\ log'[Client][n + 1] = item
       /\ \A i \in 1 .. n : log'[Client][i] = log[Client][i]
  <2>1. /\ Len(Append(h, g)) = n + 2 /\ Append(h, g)[n + 2] = g
        /\ \A i \in 1 .. n + 1 : Append(h, g)[i] = h[i]
    BY <1>3, <1>9
  <2>2. /\ Len(Append(log[Client], item)) = n + 1
        /\ Append(log[Client], item)[n + 1] = item
        /\ \A i \in 1 .. n : Append(log[Client], item)[i] = log[Client][i]
    BY <1>3
  <2> QED BY <1>1, <2>1, <2>2
<1>11. \A i \in 1 .. n + 1 : h[i].root \in Roots
  <2>1. \A i \in 1 .. n + 1 : h[i] \in Halves BY <1>3, <1>9, ElementOfSeq
  <2> QED BY <2>1 DEF Halves
<1>12. \A j \in 1 .. Len(log[Server]) :
         /\ log[Server][j].cipher.key.root \in Roots
         /\ log[Server][j].epoch \in Nat
         /\ log[Server][j].epoch <= Len(root)
         /\ log[Server][j].epoch = Len(log[Server][j].cipher.key.root)
         /\ Leads(log[Server][j].cipher.key.root, root)
  <2> TAKE j \in 1 .. Len(log[Server])
  <2>1. /\ log[Server][j].cipher.key.root \in Roots /\ log[Server][j].epoch \in Nat
    BY ServerFrames DEF ForwardInv
  <2>2. /\ log[Server][j].epoch = Len(log[Server][j].cipher.key.root)
        /\ Leads(log[Server][j].cipher.key.root, root)
    BY DEF CrossInv, RootsLead
  <2> QED BY <2>1, <2>2 DEF Leads
<1> HIDE DEF h, n, root
<1>13. RootsLead'
  <2>1. ASSUME NEW i \in 1 .. Len(halves'[Client])
        PROVE  /\ Len(halves'[Client][i].root) >= 1
               /\ Leads(halves'[Client][i].root, session'[Client].root)
    <3>1. CASE i = n + 2
      BY <3>1, <1>1, <1>3, <1>4, <1>5, <1>6, <1>7, <1>10
    <3>2. CASE i \in 1 .. n + 1
      <4>1. Len(h[i].root) >= 1 /\ Leads(h[i].root, root) /\ h[i].root \in Roots
        BY <3>2, <1>9, <1>11 DEF CrossInv, RootsLead, h, root
      <4> QED BY <3>2, <4>1, <1>1, <1>4, <1>7, <1>10
    <3> QED BY <3>1, <3>2, <1>3, <1>10
  <2>2. ASSUME NEW i \in 1 .. Len(log'[Client]), log'[Client][i].kind = "frame"
        PROVE  log'[Client][i].epoch = Len(halves'[Client][i].root)
    <3>1. i # n + 1
      BY <2>2, <1>8, <1>10
    <3>2. i \in 1 .. n
      BY <3>1, <1>3, <1>10
    <3>3. i \in 1 .. n + 1 /\ log'[Client][i] = log[Client][i]
          /\ halves'[Client][i] = h[i]
      BY <3>2, <1>3, <1>10
    <3> QED BY <2>2, <3>2, <3>3 DEF CrossInv, RootsLead, h, n
  <2>3. \A j \in 1 .. Len(log'[Server]) :
          /\ Leads(log'[Server][j].cipher.key.root, session'[Client].root)
          /\ log'[Server][j].epoch = Len(log'[Server][j].cipher.key.root)
    BY <1>1, <1>4, <1>7, <1>12
  <2> QED BY <1>1, <1>4, <2>1, <2>2, <2>3 DEF CrossInv, RootsLead
<1>14. LabelsMeet'
  <2>1. PICK first \in Labels :
          /\ Labelled(session[Server].send, first)
          /\ \A j \in 1 .. Len(log[Server]) :
               Labelled(log[Server][j].cipher.key, first)
    BY DEF CrossInv, LabelsMeet
  <2>2. Labelled(session'[Client].recv, first)
    BY <1>1, <1>3, <1>4, <1>6 DEF Labelled
  <2> QED BY <1>1, <2>1, <2>2 DEF LabelsMeet
<1>15. ReadsAt(receipts[Server], done[Server], 0, Len(root) + 1)
  <2>1. ASSUME NEW i \in 1 .. done[Server]
        PROVE  /\ receipts[Server][i].read \in Nat
               /\ receipts[Server][i].read <= Len(root)
    <3>1. Len(receipts[Server]) = done[Server]
      BY DEF CrossInv, ReceiptsKept
    <3>2. receipts[Server][i] \in Receipts
      BY <3>1, EndTypes, ElementOfSeq
    <3>3. receipts[Server][i].read <= Epoch(session[Client])
      BY DEF CrossInv, StepsCountFrames, ReadsAt
    <3> QED BY <3>2, <3>3, <1>3 DEF Receipts
  <2> QED BY <2>1, <1>3 DEF ReadsAt
<1>16. StepsCountFrames'
  <2>1. /\ session'[Client].recv.step = 0 /\ Epoch(session'[Client]) = Len(root) + 1
    BY <1>1, <1>4, <1>6
  <2> QED BY <1>1, <1>15, <2>1 DEF CrossInv, StepsCountFrames
<1>17. ReceiptsKept' /\ FailsAt(Server)'
  BY <1>1 DEF CrossInv, ReceiptsKept, FailsAt
<1> QED BY <1>13, <1>14, <1>16, <1>17 DEF CrossInv

\* The server reads a frame of the client: it opens, in the epoch in which it
\* was sealed.
LEMMA CrossReadsFrame ==
  ASSUME TypeOK, TypeOK', ForwardInv, CrossInv, ReceiveFrame(Client)
  PROVE  CrossInv'
<1> DEFINE h == halves[Client]
           d == done[Client]
           s == session[Server]
           c == NextItem(Client).cipher
           r == [wrote |-> NextItem(Client).epoch, read |-> Epoch(s),
                 ok |-> Decrypts(s, c)]
<1>1. /\ session'[Client] = session[Client]
      /\ session'[Server] = AfterDecrypt(s, c)
      /\ done'[Server] = done[Server]
      /\ receipts'[Server] = receipts[Server]
      /\ receipts'[Client] = Append(receipts[Client], r)
      /\ UNCHANGED <<log, halves>>
  BY EndTypes DEF ReceiveFrame, TypeOK
<1>2. /\ d + 1 \in 1 .. Len(log[Client]) /\ NextItem(Client) = log[Client][d + 1]
      /\ NextItem(Client).kind = "frame"
      /\ h \in Seq(Halves) /\ Len(h) = Len(log[Client]) + 1
      /\ d + 1 \in 1 .. Len(h) /\ d + 2 \in 1 .. Len(h) /\ (d + 1) + 1 = d + 2
  <2> DEFINE n == Len(log[Client])
  <2>1. d \in Nat /\ n \in Nat /\ d < n /\ h \in Seq(Halves)
    BY EndTypes DEF ReceiveFrame, InFlight
  <2>2. Len(h) = n + 1
    BY DEF ForwardInv, HalvesFollowLog
  <2>3. NextItem(Client) = log[Client][d + 1] /\ NextItem(Client).kind = "frame"
    BY DEF ReceiveFrame, NextItem
  <2> HIDE DEF d, n, h
  <2>4. /\ d + 1 \in 1 .. n /\ d + 1 \in 1 .. n + 1 /\ d + 2 \in 1 .. n + 1
        /\ (d + 1) + 1 = d + 2
    BY <2>1
  <2> QED BY <2>1, <2>2, <2>3, <2>4 DEF n
<1>3. Mirrors(h[d + 1], s) /\ Wrote(h[d + 1], NextItem(Client), h[d + 2])
  BY <1>2 DEF ForwardInv, ServerMirrorsClient, HalvesFollowLog
<1>4. Decrypts(s, c)
  <2>1. h[d + 1] \in Halves BY <1>2, ElementOfSeq
  <2> QED BY <1>2, <1>3, <2>1, EndTypes, MirrorDecrypts
<1>5. NextItem(Client).epoch = Epoch(s)
  BY <1>2, <1>3 DEF CrossInv, RootsLead, Mirrors, Epoch
<1>6. r.ok /\ ~Crossed(r)
  BY <1>4, <1>5 DEF Crossed
<1>7. /\ session'[Server].root = s.root /\ session'[Server].send = s.send
      /\ Epoch(session'[Server]) = Epoch(s)
  BY <1>1, EndTypes DEF AfterDecrypt, Sessions, Epoch
<1> HIDE DEF r, h, d, s, c
<1>8. RootsLead' /\ LabelsMeet' /\ StepsCountFrames'
  BY <1>1, <1>7 DEF CrossInv, RootsLead, LabelsMeet, StepsCountFrames, s
<1>9. ReceiptsKept'
  <2> DEFINE n == Len(receipts[Client])
  <2>1. r \in Receipts
    BY <1>4, <1>5, EndTypes, SessionTypes DEF Receipts, r, s
  <2>2. /\ n \in Nat /\ Len(receipts'[Client]) = n + 1
        /\ receipts'[Client][n + 1] = r
        /\ \A i \in 1 .. n : receipts'[Client][i] = receipts[Client][i]
    BY <1>1, <2>1, EndTypes
  <2>3. \A i \in 1 .. n : receipts[Client][i].ok /\ ~Crossed(receipts[Client][i])
    BY DEF CrossInv, ReceiptsKept
  <2> HIDE DEF n
  <2>4. ASSUME NEW i \in 1 .. n + 1
        PROVE  receipts'[Client][i].ok /\ ~Crossed(receipts'[Client][i])
    <3>1. CASE i = n + 1 BY <3>1, <2>2, <1>6
    <3>2. CASE i \in 1 .. n BY <3>2, <2>2, <2>3
    <3> QED BY <3>1, <3>2, <2>2
  <2> QED BY <1>1, <2>2, <2>4 DEF CrossInv, ReceiptsKept
<1>10. FailsAt(Server)'
  BY <1>1 DEF CrossInv, FailsAt
<1> QED BY <1>8, <1>9, <1>10 DEF CrossInv

\* The server reads a new key: its sending chain begins again, in an epoch
\* later than that of any frame it has written.
LEMMA CrossReadsKey ==
  ASSUME TypeOK, TypeOK', ForwardInv, ForwardInv', CrossInv, ReceivePubkey(Client)
  PROVE  CrossInv'
<1> DEFINE s == session[Server]
           t == ApplyPeerRatchetKey(s, NextItem(Client).pub)
           n == Len(log[Server])
<1>1. /\ session'[Client] = session[Client] /\ session'[Server] = t
      /\ done'[Server] = done[Server] /\ halves'[Client] = halves[Client]
      /\ UNCHANGED <<log, receipts>>
  BY EndTypes DEF ReceivePubkey, TypeOK
<1>2. /\ t.send.root = t.root /\ t.send.step = 0 /\ t.send.label = "recv-v2"
      /\ t.root = Append(s.root, {s.self, NextItem(Client).pub})
  BY EndTypes DEF ApplyPeerRatchetKey, DoRatchet, Chain, Sessions
<1>3. /\ s.root \in Roots /\ Len(s.root) \in Nat /\ Len(s.root) >= 1
      /\ Epoch(s) = Len(s.root) /\ n \in Nat
  <2>1. s.root \in Roots /\ Epoch(s) = Len(s.root) BY EndTypes, SessionTypes
  <2>2. Len(s.root) \in Nat BY <2>1 DEF Roots
  <2> QED BY <2>1, <2>2, EndTypes, ServerRootLeads DEF CrossInv
<1>4. Len(t.root) = Len(s.root) + 1 /\ Epoch(t) = Len(s.root) + 1
  BY <1>2, <1>3 DEF Roots, Epoch
<1> HIDE DEF t, s
<1>5. RootsLead'
  BY <1>1, <1>2 DEF CrossInv, RootsLead
<1>6. LabelsMeet'
  <2>1. PICK first \in Labels :
          /\ Labelled(session[Client].recv, first)
          /\ \A j \in 1 .. n : Labelled(log[Server][j].cipher.key, first)
    BY DEF CrossInv, LabelsMeet
  <2>2. Labelled(t.send, first)
    BY <1>2, <1>3, <1>4 DEF Labelled
  <2> QED BY <1>1, <2>1, <2>2 DEF LabelsMeet
<1>7. StepsCountFrames'
  <2>1. WritesAt(log[Server], n, 0, Len(s.root) + 1)
    <3>1. ASSUME NEW j \in 1 .. n
          PROVE  log[Server][j].epoch \in Nat /\ log[Server][j].epoch <= Len(s.root)
      BY <1>3, ServerFrames
         DEF CrossInv, StepsCountFrames, WritesAt, s, ForwardInv
    <3> HIDE DEF n
    <3> QED BY <1>3, <3>1 DEF WritesAt
  <2> QED BY <1>1, <1>2, <1>4, <2>1 DEF CrossInv, StepsCountFrames
<1>8. ReceiptsKept' /\ FailsAt(Server)'
  BY <1>1 DEF CrossInv, ReceiptsKept, FailsAt
<1> QED BY <1>5, <1>6, <1>7, <1>8 DEF CrossInv

\* Up to step places before the n-th, x is below e, and from there on e.
Turns(x, n, step, e) ==
  step <= n /\ \A i \in 1 .. n : x[i] <= e /\ (x[i] < e <=> i + step <= n)
CrossesInto(e, w, r, n) == \E i \in 1 .. n : w[i] # r[i] /\ r[i] = e

\* Of n frames the epochs in which they were written turn to e where the
\* writing chain begins, and those in which they were read where the reading
\* chain begins: the chains are at the same step unless some frame was written
\* before e and read in it.
LEMMA StepsMeet ==
  ASSUME NEW n \in Nat, NEW a \in Nat, NEW b \in Nat, NEW e \in Nat,
         NEW w \in [1 .. n -> Nat], NEW r \in [1 .. n -> Nat],
         Turns(w, n, a, e), Turns(r, n, b, e), \A i \in 1 .. n : w[i] <= r[i]
  PROVE  a = b <=> ~CrossesInto(e, w, r, n)
<1> USE DEF Turns, CrossesInto
<1>1. ASSUME a = b, NEW i \in 1 .. n, w[i] # r[i], r[i] = e PROVE FALSE
  <2>1. w[i] < e BY <1>1
  <2>2. i + b <= n BY <1>1, <2>1
  <2>3. r[i] < e BY <2>2
  <2> QED BY <1>1, <2>3
<1>2. ASSUME a < b PROVE \E i \in 1 .. n : w[i] # r[i] /\ r[i] = e
  <2> DEFINE i == n - a
  <2>1. i \in 1 .. n /\ i + a <= n /\ ~(i + b <= n)
    BY <1>2
  <2> HIDE DEF i
  <2>2. w[i] < e /\ ~(r[i] < e) /\ r[i] <= e /\ r[i] \in Nat /\ w[i] \in Nat
    BY <2>1
  <2>3. w[i] # r[i] /\ r[i] = e
    BY <2>2
  <2> QED BY <2>1, <2>3
<1>3. ASSUME b < a PROVE FALSE
  <2> DEFINE i == n - b
  <2>1. i \in 1 .. n /\ i + b <= n /\ ~(i + a <= n)
    BY <1>3
  <2> HIDE DEF i
  <2>2. r[i] < e /\ ~(w[i] < e) /\ w[i] <= r[i] /\ r[i] \in Nat /\ w[i] \in Nat
    BY <2>1
  <2> QED BY <2>2
<1> QED BY <1>1, <1>2, <1>3

\* The client reads a frame of the server: it has the counter that the client
\* expects, and its key is the client's exactly if neither it nor a frame read
\* before it in this epoch has crossed a rotation.
LEMMA CrossClientReads ==
  ASSUME TypeOK, TypeOK', ForwardInv, CountersInv, CrossInv, ReceiveFrame(Server)
  PROVE  CrossInv'
<1> DEFINE d == done[Server]
           s == session[Client]
           f == log[Server][d + 1]
           c == f.cipher
           e == Epoch(s)
           r == [wrote |-> f.epoch, read |-> e, ok |-> Decrypts(s, c)]
           seen == receipts[Server]
           items == log[Server]
<1>1. /\ session'[Client] = AfterDecrypt(s, c)
      /\ session'[Server] = session[Server]
      /\ done'[Server] = d + 1
      /\ receipts'[Server] = Append(seen, r)
      /\ receipts'[Client] = receipts[Client]
      /\ UNCHANGED <<log, halves>>
  BY EndTypes DEF ReceiveFrame, NextItem, TypeOK
<1>2. /\ d \in Nat /\ d + 1 \in 1 .. Len(items) /\ Len(items) \in Nat
      /\ d + 1 \in 1 .. Len(items) + 1
  BY EndTypes DEF ReceiveFrame, InFlight
<1>3. /\ f.kind = "frame" /\ f.epoch \in Nat /\ c.key \in Chains
      /\ c.key.root \in Roots /\ c.key.step \in Nat
  BY <1>2, ServerFrames DEF ForwardInv
<1>4. /\ s \in Sessions /\ s.root \in Roots /\ e \in Nat /\ e = Len(s.root)
      /\ s.recv \in Chains /\ s.recv.step \in Nat
  BY EndTypes, SessionTypes
<1>5. InOrder(s, c)
  <2>1. CountersAt(Server) /\ s.recvCtr = Len(seen) % CounterMod
    BY EndTypes DEF CountersInv, CountersInStep
  <2>2. /\ c.ctr = halves[Server][d + 1].ctr
        /\ halves[Server][d + 1].ctr = halves[Server][d + 1].count % CounterMod
        /\ halves[Server][d + 1].count = Len(seen)
    BY <1>2, <1>3, <2>1 DEF CountersAt
  <2> QED BY <2>1, <2>2 DEF InOrder
<1>6. /\ session'[Client].root = s.root /\ Epoch(session'[Client]) = e
      /\ session'[Client].recv = Advance(s.recv)
      /\ session'[Client].recv.step = s.recv.step + 1
      /\ session'[Client].recv.root = s.recv.root
      /\ session'[Client].recv.label = s.recv.label
  BY <1>1, <1>4, <1>5 DEF AfterDecrypt, Sessions, Epoch, Advance, Chains
<1>7. Len(seen) = d
      /\ \A i \in 1 .. d : /\ seen[i].wrote = items[i].epoch
                           /\ seen[i].wrote <= seen[i].read
  BY DEF CrossInv, ReceiptsKept
<1>8. \A i \in 1 .. d : seen[i] \in Receipts
  BY <1>7, EndTypes, ElementOfSeq
<1>9. /\ WritesAt(items, d, c.key.step, f.epoch)
      /\ ReadsAt(seen, d, s.recv.step, e)
  <2>1. (d + 1) - 1 = d BY <1>2
  <2>2. WritesAt(items, (d + 1) - 1, c.key.step, f.epoch)
    <3> DEFINE j == d + 1
    <3>1. WritesAt(items, j - 1, items[j].cipher.key.step, items[j].epoch)
      <4>1. j \in 1 .. Len(items) BY <1>2
      <4> HIDE DEF j
      <4> QED BY <4>1 DEF CrossInv, StepsCountFrames
    <3> QED BY <3>1
  <2>3. ReadsAt(seen, d, s.recv.step, e)
    BY DEF CrossInv, StepsCountFrames
  <2> QED BY <2>1, <2>2, <2>3
<1>10. /\ Leads(c.key.root, s.root) /\ f.epoch = Len(c.key.root)
       /\ f.epoch <= e /\ s.recv.root = s.root
  <2>1. Leads(c.key.root, s.root) /\ f.epoch = Len(c.key.root)
        /\ s.recv.root = s.root
    BY <1>2 DEF CrossInv, RootsLead
  <2> QED BY <1>4, <2>1 DEF Leads
<1>11. c.key = s.recv <=> f.epoch = e /\ c.key.step = s.recv.step
  <2>1. ASSUME c.key = s.recv PROVE f.epoch = e /\ c.key.step = s.recv.step
    BY <2>1, <1>4, <1>10
  <2>2. ASSUME f.epoch = e, c.key.step = s.recv.step PROVE c.key = s.recv
    <3>1. c.key.root = s.recv.root
      BY <2>2, <1>3, <1>4, <1>10, LeadsFacts
    <3>2. c.key.label = s.recv.label
      BY <1>2, <3>1 DEF CrossInv, LabelsMeet, Labelled
    <3> QED BY <2>2, <3>1, <3>2, <1>3, <1>4 DEF Chains
  <2> QED BY <2>1, <2>2
<1>12. r \in Receipts
  BY <1>3, <1>4 DEF Receipts, Decrypts, InOrder
<1>13. r.ok <=> c.key = s.recv
  BY <1>5 DEF Decrypts
<1>14. r.wrote = f.epoch /\ r.read = e
  OBVIOUS
<1> HIDE DEF r, c, f, d, s, e, seen, items
<1>15. /\ Len(receipts'[Server]) = d + 1 /\ receipts'[Server][d + 1] = r
       /\ \A i \in 1 .. d : receipts'[Server][i] = seen[i]
  <2>1. seen \in Seq(Receipts) BY EndTypes DEF seen
  <2> QED BY <1>1, <1>2, <1>7, <1>12, <2>1
<1>16. RootsLead' /\ LabelsMeet'
  <2>1. RootsLead'
    BY <1>1, <1>6 DEF CrossInv, RootsLead, s
  <2>2. LabelsMeet'
    BY <1>1, <1>6 DEF CrossInv, LabelsMeet, Labelled, s
  <2> QED BY <2>1, <2>2
<1>17. StepsCountFrames'
  <2>1. ASSUME NEW i \in 1 .. d + 1
        PROVE  /\ receipts'[Server][i].read <= e
               /\ receipts'[Server][i].read < e <=> i + (s.recv.step + 1) <= d + 1
    <3>1. CASE i = d + 1
      BY <3>1, <1>2, <1>4, <1>14, <1>15
    <3>2. CASE i \in 1 .. d
      <4>1. /\ seen[i].read <= e
            /\ seen[i].read < e <=> i + s.recv.step <= d
        BY <3>2, <1>9 DEF ReadsAt
      <4>2. i + s.recv.step <= d <=> i + (s.recv.step + 1) <= d + 1
        BY <3>2, <1>2, <1>4
      <4> QED BY <3>2, <4>1, <4>2, <1>15
    <3> QED BY <3>1, <3>2, <1>2
  <2>2. s.recv.step + 1 <= d + 1
    BY <1>2, <1>4, <1>9 DEF ReadsAt
  <2>3. ReadsAt(receipts'[Server], d + 1, s.recv.step + 1, e)
    BY <2>1, <2>2 DEF ReadsAt
  <2> QED BY <1>1, <1>6, <2>3 DEF CrossInv, StepsCountFrames
<1>18. ReceiptsKept'
  <2>1. ASSUME NEW i \in 1 .. d + 1
        PROVE  /\ receipts'[Server][i].wrote = items[i].epoch
               /\ receipts'[Server][i].wrote <= receipts'[Server][i].read
    <3>1. CASE i = d + 1
      BY <3>1, <1>10, <1>14, <1>15 DEF f, items
    <3>2. CASE i \in 1 .. d
      BY <3>2, <1>7, <1>15
    <3> QED BY <3>1, <3>2, <1>2
  <2> QED BY <1>1, <1>15, <2>1 DEF CrossInv, ReceiptsKept, items
<1>19. r.ok <=> ~ \E k \in 1 .. d + 1 : /\ Crossed(receipts'[Server][k])
                                        /\ receipts'[Server][k].read = e
  <2>1. CASE f.epoch # e
    <3>1. Crossed(receipts'[Server][d + 1]) /\ receipts'[Server][d + 1].read = e
      BY <2>1, <1>14, <1>15 DEF Crossed
    <3>2. d + 1 \in 1 .. d + 1 BY <1>2
    <3> QED BY <2>1, <3>1, <3>2, <1>11, <1>13
  <2>2. CASE f.epoch = e
    <3> DEFINE w == [i \in 1 .. d |-> items[i].epoch]
               v == [i \in 1 .. d |-> seen[i].read]
    <3>1. \A i \in 1 .. d :
            /\ w[i] \in Nat /\ v[i] \in Nat /\ w[i] <= v[i]
            /\ w[i] <= e /\ (w[i] < e <=> i + c.key.step <= d)
            /\ v[i] <= e /\ (v[i] < e <=> i + s.recv.step <= d)
      <4> TAKE i \in 1 .. d
      <4>1. seen[i].wrote \in Nat /\ seen[i].read \in Nat
        BY <1>8 DEF Receipts
      <4> QED BY <2>2, <4>1, <1>7, <1>9 DEF WritesAt, ReadsAt
    <3>2. c.key.step <= d /\ s.recv.step <= d
      BY <1>9 DEF WritesAt, ReadsAt
    <3>3. c.key.step = s.recv.step <=> ~ \E i \in 1 .. d : w[i] # v[i] /\ v[i] = e
      <4> DEFINE a == c.key.step
                 b == s.recv.step
      <4>1. Turns(w, d, a, e) /\ Turns(v, d, b, e)
        BY <3>1, <3>2 DEF Turns
      <4>2. /\ d \in Nat /\ a \in Nat /\ b \in Nat /\ e \in Nat
            /\ w \in [1 .. d -> Nat] /\ v \in [1 .. d -> Nat]
            /\ \A i \in 1 .. d : w[i] <= v[i]
        BY <1>2, <1>3, <1>4, <3>1
      <4> HIDE DEF a, b, w, v
      <4>3. a = b <=> ~CrossesInto(e, w, v, d)
        BY ONLY <4>1, <4>2, StepsMeet
      <4> QED BY <4>3 DEF a, b, CrossesInto
    <3> HIDE DEF w, v
    <3>4. \A i \in 1 .. d :
            w[i] # v[i] /\ v[i] = e <=> /\ Crossed(receipts'[Server][i])
                                        /\ receipts'[Server][i].read = e
      BY <1>7, <1>15 DEF Crossed, w, v
    <3>5. ~Crossed(receipts'[Server][d + 1])
      BY <2>2, <1>14, <1>15 DEF Crossed
    <3>6. \A k : k \in 1 .. d + 1 <=> k \in 1 .. d \/ k = d + 1
      BY <1>2
    <3> QED BY <2>2, <3>3, <3>4, <3>5, <3>6, <1>11, <1>13
  <2> QED BY <2>1, <2>2
<1>20. FailsAt(Server)'
  <2>1. ASSUME NEW i \in 1 .. d + 1
        PROVE  receipts'[Server][i].ok <=>
                 ~ \E k \in 1 .. i :
                     /\ Crossed(receipts'[Server][k])
                     /\ receipts'[Server][k].read = receipts'[Server][i].read
    <3>1. CASE i = d + 1
      BY <3>1, <1>14, <1>15, <1>19
    <3>2. CASE i \in 1 .. d
      <4>1. \A k \in 1 .. i : receipts'[Server][k] = seen[k]
        BY <3>2, <1>2, <1>15
      <4>2. receipts'[Server][i] = seen[i]
        BY <3>2, <1>15
      <4>3. seen[i].ok <=>
              ~ \E k \in 1 .. i : Crossed(seen[k]) /\ seen[k].read = seen[i].read
        BY <3>2, <1>7 DEF CrossInv, FailsAt, seen
      <4> QED BY <4>1, <4>2, <4>3
    <3> QED BY <3>1, <3>2, <1>2
  <2> QED BY <2>1, <1>15 DEF FailsAt
<1> QED BY <1>16, <1>17, <1>18, <1>20 DEF CrossInv

LEMMA CrossStep ==
  ASSUME Rotators \subseteq {Client}
  PROVE  /\ TypeOK /\ TypeOK' /\ ForwardInv /\ ForwardInv' /\ CountersInv /\ CrossInv
         /\ [Next]_vars
         => CrossInv'
<1> SUFFICES ASSUME TypeOK, TypeOK', ForwardInv, ForwardInv', CountersInv, CrossInv,
                    [Next]_vars
             PROVE  CrossInv'
  OBVIOUS
<1>1. ASSUME NEW p \in Party, NEW m \in Messages, Send(p, m) PROVE CrossInv'
  BY <1>1, CrossSendClient, CrossSendServer DEF Party
<1>2. ASSUME NEW p \in Party, Rotate(p) PROVE CrossInv'
  <2>1. p = Client BY <1>2 DEF Rotate
  <2> QED BY <1>2, <2>1, CrossRotate
<1>3. ASSUME NEW p \in Party, ReceiveFrame(p) PROVE CrossInv'
  BY <1>3, CrossReadsFrame, CrossClientReads DEF Party
<1>4. ASSUME NEW p \in Party, ReceivePubkey(p) PROVE CrossInv'
  <2>1. p # Server
    <3>1. ASSUME p = Server PROVE FALSE
      <4>1. done[Server] + 1 \in 1 .. Len(log[Server])
            /\ log[Server][done[Server] + 1].kind = "pubkey"
        BY <1>4, <3>1, EndTypes DEF ReceivePubkey, InFlight, NextItem
      <4> QED BY <4>1 DEF ForwardInv, ServerNeverRotates
    <3> QED BY <3>1
  <2>2. p = Client BY <2>1 DEF Party
  <2> QED BY <1>4, <2>2, CrossReadsKey
<1>5. CASE UNCHANGED vars
  BY <1>5 DEF vars, CrossInv, RootsLead, LabelsMeet, StepsCountFrames,
              ReceiptsKept, FailsAt
<1> QED BY <1>1, <1>2, <1>3, <1>4, <1>5 DEF Next

\* As long as the client is the only end that rotates, a frame fails to
\* decrypt exactly when it, or an earlier frame that was read in the same
\* epoch, crossed a rotation: the server's direction, which the program does
\* not use, then stays dead until the next rotation.
THEOREM FailsOnlyAfterCrossing ==
  ASSUME Rotators \subseteq {Client}
  PROVE  Spec => []FailsExactlyAfterCrossing
<1>1. TypeOK /\ TypeOK' /\ ForwardInv /\ [Next]_vars => ForwardInv'
  BY ForwardStep
<1>2. /\ TypeOK /\ TypeOK' /\ ForwardInv /\ ForwardInv' /\ CountersInv /\ CrossInv
      /\ [Next]_vars
      => CrossInv'
  BY CrossStep
<1> QED BY <1>1, <1>2, ForwardInit, InitCounters, StepCounters, CrossInit,
           CrossInvImplies, TypeCorrect, PTL DEF Spec
=============================================================================
