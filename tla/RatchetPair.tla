---------------------------- MODULE RatchetPair -----------------------------
(***************************************************************************)
(* Two SodiumRatchetSession objects, one at each end of a TCP connection.  *)
(* The client is the end that connected.  Either end may encrypt, and the  *)
(* ends in Rotators may start a DH rotation: prepareRatchetStep, then the  *)
(* new public key in clear on the same ordered stream as the frames.  The  *)
(* program rotates at the client only; the session's interface leaves the  *)
(* choice to its caller.                                                   *)
(*                                                                         *)
(* log[p] is all that p wrote, done[p] how much of it the peer has read:   *)
(* what lies between is in flight.  sent, delivered, receipts and halves   *)
(* are history, for the properties and the proofs.                         *)
(***************************************************************************)
EXTENDS RatchetSession

CONSTANTS Client, Server,  \* the two ends
          Messages,        \* plaintexts
          Rotators,        \* the ends that start rotations
          MaxItems         \* bound on what each end writes

ASSUME PartiesAssumption  == Client # Server
ASSUME RotatorsAssumption == Rotators \subseteq {Client, Server}
ASSUME MaxItemsAssumption == MaxItems \in Nat

VARIABLES session,    \* the session object of each end
          log,        \* all that each end wrote to its socket
          done,       \* how many items of each end's log were read
          sent,       \* plaintexts each end has encrypted
          delivered,  \* plaintexts of each end that its peer decrypted
          receipts,   \* outcome of each decrypt, by the end that encrypted
          halves      \* sending half with which each item was written, then
                      \* the one with which the next will be

vars == <<session, log, done, sent, delivered, receipts, halves>>

Party   == {Client, Server}
Peer(p) == IF p = Client THEN Server ELSE Client

\* The n-th key pair end p generates.  Generated keys never repeat.
Key(p, n) == <<p, n>>
Keys      == Party \X Nat

Frame(c, e) == [kind |-> "frame", cipher |-> c, epoch |-> e]
Pubkey(k)   == [kind |-> "pubkey", pub |-> k]

\* The part of a session that determines what it writes.
Half(s, n) == [root |-> s.root, chain |-> s.send, ctr |-> s.sendCtr,
               self |-> s.self, peer |-> s.peer, count |-> n]

Init ==
  /\ \E clientFirst \in BOOLEAN :
       session = [p \in Party |->
                    NewSession(Key(p, 0), Key(Peer(p), 0),
                               (p = Client) = clientFirst)]
  /\ log       = [p \in Party |-> <<>>]
  /\ done      = [p \in Party |-> 0]
  /\ sent      = [p \in Party |-> <<>>]
  /\ delivered = [p \in Party |-> <<>>]
  /\ receipts  = [p \in Party |-> <<>>]
  /\ halves    = [p \in Party |-> <<Half(session[p], 0)>>]

\* Encrypt a message and write the frame.
Send(p, m) ==
  /\ Len(log[p]) < MaxItems
  /\ session' = [session EXCEPT ![p] = AfterEncrypt(@)]
  /\ log'  = [log EXCEPT ![p] =
                Append(@, Frame(Encrypt(session[p], m), Epoch(session[p])))]
  /\ sent' = [sent EXCEPT ![p] = Append(@, m)]
  /\ halves' = [halves EXCEPT ![p] =
                  Append(@, Half(AfterEncrypt(session[p]), Len(sent[p]) + 1))]
  /\ UNCHANGED <<done, delivered, receipts>>

\* Rotate the sending end's key and write the new public key.
Rotate(p) ==
  LET new == Key(p, session[p].self[2] + 1)
      s   == PrepareRatchetStep(session[p], new)
  IN  /\ p \in Rotators
      /\ Len(log[p]) < MaxItems
      /\ session' = [session EXCEPT ![p] = s]
      /\ log'     = [log EXCEPT ![p] = Append(@, Pubkey(new))]
      /\ halves'  = [halves EXCEPT ![p] = Append(@, Half(s, Len(sent[p])))]
      /\ UNCHANGED <<done, sent, delivered, receipts>>

InFlight(p) == done[p] < Len(log[p])
NextItem(p) == log[p][done[p] + 1]

\* The peer of p reads a frame of p.
ReceiveFrame(p) ==
  LET q == Peer(p)
      c == NextItem(p).cipher
  IN  /\ InFlight(p)
      /\ NextItem(p).kind = "frame"
      /\ session' = [session EXCEPT ![q] = AfterDecrypt(@, c)]
      /\ done'    = [done EXCEPT ![p] = @ + 1]
      /\ delivered' = [delivered EXCEPT ![p] =
                         IF Decrypts(session[q], c) THEN Append(@, c.plain) ELSE @]
      /\ receipts'  = [receipts EXCEPT ![p] =
                         Append(@, [wrote |-> NextItem(p).epoch,
                                    read  |-> Epoch(session[q]),
                                    ok    |-> Decrypts(session[q], c)])]
      /\ UNCHANGED <<log, sent, halves>>

\* The peer of p reads a RATCHET_PUBKEY line of p.
ReceivePubkey(p) ==
  LET q == Peer(p)
      s == ApplyPeerRatchetKey(session[q], NextItem(p).pub)
  IN  /\ InFlight(p)
      /\ NextItem(p).kind = "pubkey"
      /\ session' = [session EXCEPT ![q] = s]
      /\ done'    = [done EXCEPT ![p] = @ + 1]
      /\ halves'  = [halves EXCEPT ![q] =
                       [@ EXCEPT ![Len(log[q]) + 1] = Half(s, Len(sent[q]))]]
      /\ UNCHANGED <<log, sent, delivered, receipts>>

Receive(p) == ReceiveFrame(p) \/ ReceivePubkey(p)

Next == \E p \in Party : \/ \E m \in Messages : Send(p, m)
                         \/ Rotate(p)
                         \/ ReceiveFrame(p)
                         \/ ReceivePubkey(p)

\* TCP and the event loop keep delivering; nobody is obliged to send.
Fairness == \A p \in Party : WF_vars(Receive(p))
Spec     == Init /\ [][Next]_vars
FairSpec == Spec /\ Fairness
-----------------------------------------------------------------------------
(***************************************************************************)
(* Types.                                                                  *)
(***************************************************************************)
Roots    == Seq(SUBSET Keys)
Chains   == [root : Roots, label : Labels, step : Nat]
Counters == 0 .. CounterMod - 1
Sessions == [root : Roots, send : Chains, recv : Chains, sendCtr : Counters,
             recvCtr : Counters, self : Keys, peer : Keys]
Ciphers  == [ctr : Counters, key : Chains, plain : Messages]
Items    == [kind : {"frame"}, cipher : Ciphers, epoch : Nat]
              \cup [kind : {"pubkey"}, pub : Keys]
Halves   == [root : Roots, chain : Chains, ctr : Counters, self : Keys,
             peer : Keys, count : Nat]
Receipts == [wrote : Nat, read : Nat, ok : BOOLEAN]

\* The shape of the state; no more than MaxItems are written by one end.
TypeOK ==
  /\ session   \in [Party -> Sessions]
  /\ log       \in [Party -> Seq(Items)]
  /\ done      \in [Party -> Nat]
  /\ sent      \in [Party -> Seq(Messages)]
  /\ delivered \in [Party -> Seq(Messages)]
  /\ receipts  \in [Party -> Seq(Receipts)]
  /\ halves    \in [Party -> Seq(Halves)]
  /\ \A p \in Party : done[p] <= Len(log[p]) /\ Len(log[p]) <= MaxItems

(***************************************************************************)
(* Properties.                                                             *)
(***************************************************************************)

\* The receiver of the client's frames decrypts every one it reads, in the
\* order of encryption, across any number of rotations by the client and
\* whatever the server writes meanwhile (the claim made where the client
\* rotates before a send, IPv6ChatClient::sendTypedFrame).
ForwardInSync ==
  delivered[Client] = SubSeq(sent[Client], 1, Len(receipts[Client]))

\* No two frames, of one end or of both, are ever sealed with the same
\* message key: rotation must leave every chain it has used.
KeysNeverReused ==
  \A p, q \in Party : \A i \in 1 .. Len(log[p]), j \in 1 .. Len(log[q]) :
    (/\ log[p][i].kind = "frame"
     /\ log[q][j].kind = "frame"
     /\ log[p][i].cipher.key = log[q][j].cipher.key) => (p = q /\ i = j)

\* decrypt never meets a counter it does not expect, failed MACs, rotations
\* and counter wrap-around included: the counter only counts frames read.
CountersInStep ==
  \A p \in Party :
    session[Peer(p)].recvCtr = Len(receipts[p]) % CounterMod

\* When the streams are drained the two ends hold the same root key: what
\* IRatchetSession promises of prepareRatchetStep and applyPeerRatchetKey.
Quiet == \A p \in Party : ~InFlight(p)
RootsAgreeWhenQuiet == Quiet => session[Client].root = session[Server].root

\* A frame was read in another epoch than it was written in: it crossed a
\* rotation on the wire.
Crossed(r) == r.wrote # r.read

\* With one end rotating, a frame fails to decrypt exactly when it, or an
\* earlier frame read in the same epoch, crossed a rotation: a crossing
\* frame uses up a step of the new receiving chain, and the direction stays
\* dead until the next rotation restarts both chains.
FailsExactlyAfterCrossing ==
  \A p \in Party : \A i \in 1 .. Len(receipts[p]) :
    receipts[p][i].ok <=>
      ~ \E k \in 1 .. i : /\ Crossed(receipts[p][k])
                          /\ receipts[p][k].read = receipts[p][i].read

\* The client's stream implements the promise of an encrypted connection.
Fifo == INSTANCE FifoChannel
          WITH sent <- sent[Client], delivered <- delivered[Client]
ForwardIsFifo == Fifo!Spec
-----------------------------------------------------------------------------
(***************************************************************************)
(* The inductive invariants, for an instance where only the client rotates.*)
(* What the server's session is when it has read i items of the client is  *)
(* the mirror image of the client's sending half as item i + 1 was written.*)
(***************************************************************************)

ServerNeverRotates ==
  \A i \in 1 .. Len(log[Server]) : log[Server][i].kind = "frame"

\* Writing the item took the sending half from h to g.
Wrote(h, item, g) ==
  /\ g.peer = h.peer
  /\ \/ /\ item.kind = "frame"
        /\ item.cipher.ctr = h.ctr
        /\ item.cipher.key = h.chain
        /\ g.root  = h.root
        /\ g.self  = h.self
        /\ g.chain = Advance(h.chain)
        /\ g.ctr   = Bump(h.ctr)
        /\ g.count = h.count + 1
     \/ /\ item.kind = "pubkey"
        /\ g.root  = Append(h.root, {item.pub, h.peer})
        /\ g.self  = item.pub
        /\ g.chain = Chain(g.root, "send-v2")
        /\ g.ctr   = h.ctr
        /\ g.count = h.count

HalvesFollowLog ==
  LET n == Len(log[Client])
      h == halves[Client]
  IN  /\ Len(h) = n + 1
      /\ h[n + 1] = Half(session[Client], Len(sent[Client]))
      /\ \A i \in 1 .. n : Wrote(h[i], log[Client][i], h[i + 1])

CountsNameMessages ==
  LET h == halves[Client]
  IN  /\ \A i \in 1 .. Len(h) : h[i].count <= Len(sent[Client])
      /\ \A i \in 1 .. Len(log[Client]) :
           log[Client][i].kind = "frame" =>
             /\ h[i].count < Len(sent[Client])
             /\ log[Client][i].cipher.plain = sent[Client][h[i].count + 1]

Mirrors(h, s) ==
  /\ h.root = s.root
  /\ h.chain = s.recv
  /\ h.ctr = s.recvCtr
  /\ h.self = s.peer
  /\ h.peer = s.self

ServerMirrorsClient ==
  LET h == halves[Client][done[Client] + 1]
  IN  /\ Mirrors(h, session[Server])
      /\ h.count = Len(receipts[Client])

\* The inductive invariant behind ForwardInSync.
ForwardInv ==
  /\ ServerNeverRotates
  /\ HalvesFollowLog
  /\ CountsNameMessages
  /\ ServerMirrorsClient
  /\ ForwardInSync

\* Chain key k comes strictly before chain key l in the life of one end.
Earlier(k, l) ==
  \/ Len(k.root) < Len(l.root)
  \/ Len(k.root) = Len(l.root) /\ k.step < l.step

\* The label of what end p seals with: opposite for the two ends.
LabelOf(p, clientFirst, chain) ==
  IF Len(chain.root) = 1
  THEN IF (p = Client) = clientFirst THEN "send" ELSE "recv"
  ELSE IF p = Client THEN "send-v2" ELSE "recv-v2"

\* What end p seals with next lies ahead of all it has sealed with.
KeysGoForwardAt(p) ==
  /\ session[p].send.root = session[p].root
  /\ Len(session[p].root) >= 1
  /\ \A i \in 1 .. Len(log[p]) : log[p][i].kind = "frame" =>
       /\ Earlier(log[p][i].cipher.key, session[p].send)
       /\ \A j \in 1 .. i - 1 : log[p][j].kind = "frame" =>
            Earlier(log[p][j].cipher.key, log[p][i].cipher.key)

LabelsAt(p, clientFirst) ==
  /\ session[p].send.label = LabelOf(p, clientFirst, session[p].send)
  /\ \A i \in 1 .. Len(log[p]) : log[p][i].kind = "frame" =>
       log[p][i].cipher.key.label
         = LabelOf(p, clientFirst, log[p][i].cipher.key)

KeysGoForward  == \A p \in Party : KeysGoForwardAt(p)
LabelsOpposite == \E f \in BOOLEAN : \A p \in Party : LabelsAt(p, f)

\* The inductive invariant behind KeysNeverReused.
KeyInv == KeysGoForward /\ LabelsOpposite
=============================================================================
