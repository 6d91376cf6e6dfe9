--------------------------- MODULE RatchetSession ---------------------------
(***************************************************************************)
(* The cryptographic session of src/encrypting/sodium: the state of one    *)
(* SodiumRatchetSession object and what each of its methods does to it.    *)
(*                                                                         *)
(* Cryptography is symbolic.  A public key stands for its key pair.  A     *)
(* Diffie-Hellman secret is the unordered pair of the two public keys it   *)
(* was computed from, so both ends compute the same one.  A root key is    *)
(* the sequence of everything hashed into it.  HKDF and HMAC are free      *)
(* constructors: a chain key is the triple (root, label, step), and the    *)
(* message key drawn from a chain key is named by that chain key.  A MAC   *)
(* verifies exactly when the key that opens is the key that sealed.        *)
(***************************************************************************)
EXTENDS Naturals, Sequences

CONSTANT CounterMod  \* the counters are quint32: 2^32 in the program

ASSUME CounterModAssumption == CounterMod \in Nat \ {0}

Labels == {"send", "recv", "send-v2", "recv-v2"}

\* hkdfExpand(root, label): a fresh chain at its first step.
Chain(root, label) == [root |-> root, label |-> label, step |-> 0]

\* nextChainKey = HMAC(chainKey, 0x02).
Advance(chain) == [chain EXCEPT !.step = @ + 1]

\* Mutant: a counter that does not wrap.
BumpUnbounded(counter) == counter + 1

\* ++m_sendCounter, ++m_recvCounter.
Bump(counter) == (counter + 1) % CounterMod

\* Mutant: both ends take the same label for both directions.
NewSessionOneLabel(self, peer, selfFirst) ==
  LET root == <<{self, peer}>>
  IN  [root |-> root, send |-> Chain(root, "send"), recv |-> Chain(root, "send"),
       sendCtr |-> 0, recvCtr |-> 0, self |-> self, peer |-> peer]

(***************************************************************************)
(* createRatchetSession and the constructor: the first root key is a hash  *)
(* of the two public keys in the order of their hashes, hence of the pair; *)
(* selfFirst is the outcome of selfHash < peerHash at this end, and gives  *)
(* the two ends opposite chains.                                           *)
(***************************************************************************)
NewSession(self, peer, selfFirst) ==
  LET root == <<{self, peer}>>
      out  == IF selfFirst THEN "send" ELSE "recv"
      in   == IF selfFirst THEN "recv" ELSE "send"
  IN  [root |-> root, send |-> Chain(root, out), recv |-> Chain(root, in),
       sendCtr |-> 0, recvCtr |-> 0, self |-> self, peer |-> peer]

\* Mutant: rotation resets the sending counter.
DoRatchetResets(s, newSelf, newPeer, initiator) ==
  LET root == Append(s.root, {newSelf, newPeer})
      out  == IF initiator THEN "send-v2" ELSE "recv-v2"
      in   == IF initiator THEN "recv-v2" ELSE "send-v2"
  IN  [s EXCEPT !.root = root, !.self = newSelf, !.peer = newPeer,
                !.send = Chain(root, out), !.recv = Chain(root, in),
                !.sendCtr = 0]

(***************************************************************************)
(* doRatchet: the secret of the two given keys is hashed into the root,    *)
(* and both chains restart from the new root.  The counters go on.         *)
(***************************************************************************)
DoRatchet(s, newSelf, newPeer, initiator) ==
  LET root == Append(s.root, {newSelf, newPeer})
      out  == IF initiator THEN "send-v2" ELSE "recv-v2"
      in   == IF initiator THEN "recv-v2" ELSE "send-v2"
  IN  [s EXCEPT !.root = root, !.self = newSelf, !.peer = newPeer,
                !.send = Chain(root, out), !.recv = Chain(root, in)]

\* prepareRatchetStep: newPub is the key pair just generated.
PrepareRatchetStep(s, newPub) == DoRatchet(s, newPub, s.peer, TRUE)

\* Mutants: the passive end takes the rotating end's chains, or computes the
\* secret with the key the peer has just replaced.
ApplyAsInitiator(s, pub) == DoRatchet(s, s.self, pub, TRUE)
ApplyStaleKey(s, pub)    == DoRatchet(s, s.self, s.peer, FALSE)

\* applyPeerRatchetKey: the passive end keeps its own key pair.
ApplyPeerRatchetKey(s, pub) == DoRatchet(s, s.self, pub, FALSE)

\* How many secrets have gone into the root: the session's DH epoch.
Epoch(s) == Len(s.root)

\* encrypt: the ciphertext (its counter travels in clear) ...
Encrypt(s, plain) == [ctr |-> s.sendCtr, key |-> s.send, plain |-> plain]

\* ... and the session after it.
AfterEncrypt(s) == [s EXCEPT !.send = Advance(@), !.sendCtr = Bump(@)]

\* decrypt succeeds when the counter is the expected one and the MAC verifies.
InOrder(s, c)  == c.ctr = s.recvCtr
Decrypts(s, c) == InOrder(s, c) /\ c.key = s.recv

\* Mutant: nothing moves unless the MAC verifies.
AfterDecryptChecked(s, c) ==
  IF Decrypts(s, c) THEN [s EXCEPT !.recv = Advance(@), !.recvCtr = Bump(@)]
                    ELSE s

(***************************************************************************)
(* The session after decrypt.  The receiving chain moves before the MAC is *)
(* checked, so a ciphertext that fails its MAC uses up its counter; one    *)
(* with the wrong counter is refused before anything moves.                *)
(***************************************************************************)
AfterDecrypt(s, c) ==
  IF InOrder(s, c) THEN [s EXCEPT !.recv = Advance(@), !.recvCtr = Bump(@)]
                   ELSE s
=============================================================================
