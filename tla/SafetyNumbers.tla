---------------------------- MODULE SafetyNumbers ----------------------------
(***************************************************************************)
(* The safety numbers that two users read to each other, over module       *)
(* Connections: which public keys the clients and servers keep for their   *)
(* sockets, and which of them the window looks up.                         *)
(*                                                                         *)
(* What Connections calls a host is here a link <<a, b>>: the client of    *)
(* user a and the server of user b.  Links do not share a table entry, so  *)
(* any set of them is an instance of Connections.  The handshake is split: *)
(* the server's half comes first.  A key pair is made for every socket at  *)
(* each end and named by the socket, which is not used again while any     *)
(* table holds a key of it.  A number is the digest of two keys, whatever  *)
(* their order: here, their set.                                           *)
(***************************************************************************)
EXTENDS Connections

ASSUME LinksAssumption == \A h \in Hosts : h = <<h[1], h[2]>> /\ h[1] # h[2]

VARIABLES handshaked,  \* sockets for which their server has made a key
          known        \* peerPublicKeys of each client: the socket it read
                       \* the server's key from, or None

numberVars == <<vars, handshaked, known>>

Reverse(h)   == <<h[2], h[1]>>
ClientKey(s) == <<"client", s>>
ServerKey(s) == <<"server", s>>

NumbersInit == Init /\ handshaked = {} /\ known = [h \in Hosts |-> None]

Unkeyed == UNCHANGED <<handshaked, known>>

\* The server reads HANDSHAKE, makes its key pair and answers.
ServerGreets(s) ==
  /\ clientEnd[s] = "connected" /\ serverEnd[s] = "listed"
  /\ s \notin handshaked
  /\ handshaked' = handshaked \cup {s}
  /\ UNCHANGED <<vars, known>>

\* The client reads HANDSHAKE_ACK and keeps the server's key.
ClientGreets(s) ==
  /\ s \in handshaked
  /\ HandshakeDone(s)
  /\ known' = [known EXCEPT ![Host(s)] = s]
  /\ UNCHANGED handshaked

\* onDisconnected drops the peer's key by the peer's name; a socket that
\* never was connected has no onDisconnected.
KnownAfter(h, s) ==
  IF clientEnd[s] = "connecting" THEN known ELSE [known EXCEPT ![h] = None]

ClientLoses(s) ==
  /\ ClientSeesBreak(s)
  /\ known' = KnownAfter(Host(s), s)
  /\ UNCHANGED handshaked

\* Mutant: the server keeps its key of a socket that is gone.
KeysKept(s) == handshaked

\* onClientDisconnected drops the key.
KeysAfter(s) == handshaked \ {s}

ServerLoses(s) ==
  /\ ServerSeesBreak(s)
  /\ handshaked' = KeysAfter(s)
  /\ UNCHANGED known

Connects(h)    == ConnectToPeer(h) /\ Unkeyed
Establishes(s)  == Establish(s) /\ Unkeyed
Connected(s)    == OnConnected(s) /\ Unkeyed
Admits(s)       == OnNewConnection(s) /\ Unkeyed

NumbersNext == \/ \E h \in Hosts : Connects(h)
               \/ \E s \in Socket : \/ Establishes(s) \/ Connected(s) \/ Admits(s)
                                    \/ ServerGreets(s) \/ ClientGreets(s)
                                    \/ ClientLoses(s) \/ ServerLoses(s)
                                    \/ NetworkBreaks(s) /\ Unkeyed

\* As in Connections.
NumbersFairness ==
  /\ \A h \in Hosts : WF_numberVars(Connects(h))
  /\ \A s \in Socket :
       /\ WF_numberVars(Establishes(s)) /\ WF_numberVars(Connected(s))
       /\ WF_numberVars(Admits(s))
       /\ WF_numberVars(ServerGreets(s)) /\ WF_numberVars(ClientGreets(s))
       /\ WF_numberVars(ClientLoses(s)) /\ WF_numberVars(ServerLoses(s))

NumbersSpec == NumbersInit /\ [][NumbersNext]_numberVars /\ NumbersFairness
-----------------------------------------------------------------------------
(***************************************************************************)
(* What the window looks up.                                               *)
(***************************************************************************)

\* localPublicKey of server and client: the key of the last socket of a map,
\* in an order that the sockets' addresses in memory decide.
ServerKeysOf(a) == {ServerKey(s) : s \in {t \in handshaked : Host(t)[2] = a}}
ClientKeysOf(a) == {ClientKey(s) : s \in {t \in Socket : Host(t)[1] = a /\ Live(t)}}

\* Mutant: the client's keys are preferred.
LookupClientFirst(a) ==
  IF ClientKeysOf(a) # {} THEN ClientKeysOf(a) ELSE ServerKeysOf(a)

\* lookupLocalPublicKey.
LookupLocalPublicKey(a) ==
  IF ServerKeysOf(a) # {} THEN ServerKeysOf(a) ELSE ClientKeysOf(a)

\* The server keeps a peer's key under the port of the socket, which the
\* peer's system has chosen; a contact has the port at which the peer listens.
StoredUnder(s) == <<Host(s)[1], "dynamic">>
ContactID(h)   == <<h[2], "listening">>

\* lookupPeerPublicKey: the client's table, then the server's.
LookupPeerPublicKey(h) ==
  IF known[h] # None THEN {ServerKey(known[h])}
  ELSE {ClientKey(s) : s \in {t \in handshaked :
                                Host(t)[2] = h[1] /\ StoredUnder(t) = ContactID(h)}}

\* compute sorts the two keys before it digests them.
Compute(k, l) == {k, l}

\* showSafetyNumber: the numbers that user h[1] may be shown for h[2].
SafetyNumber(h) ==
  {Compute(k, l) : k \in LookupLocalPublicKey(h[1]), l \in LookupPeerPublicKey(h)}
-----------------------------------------------------------------------------
(***************************************************************************)
(* Properties.                                                             *)
(***************************************************************************)

\* The types of both modules; a server makes keys for listed sockets only.
NumbersTypeOK ==
  /\ TypeOK
  /\ handshaked \subseteq {s \in Socket : serverEnd[s] = "listed"}
  /\ known \in [Hosts -> Socket \cup {None}]

\* The inductive invariant behind NumbersAgree: a client knows the key of a
\* socket that is ready, and while that is up its server has the key.
NumbersInv ==
  /\ NumbersTypeOK
  /\ OneListedPerHost
  /\ \A h \in Hosts : known[h] # None =>
       Host(known[h]) = h /\ clientEnd[known[h]] = "ready"
  /\ \A s \in Socket : clientEnd[s] = "ready" =>
       network[s] # "none" /\ (network[s] = "up" => s \in handshaked)

\* The connection that a client has keys of is up.
Up(h) == known[h] # None /\ network[known[h]] = "up"

\* With connections up in both directions the two users read the same
\* number, whatever connections there were before and however their ends
\* came to see the breaks.
NumbersAgree ==
  \A h \in Hosts : (Reverse(h) \in Hosts /\ Up(h) /\ Up(Reverse(h))) =>
    \A m \in SafetyNumber(h), n \in SafetyNumber(Reverse(h)) : m = n

\* After the last break both users come to have a number, and the same.
NumbersSettle ==
  \A h \in Hosts :
    <>[](SafetyNumber(h) # {} /\ SafetyNumber(h) = SafetyNumber(Reverse(h)))

\* lookupPeerPublicKey's comment, and the notice of showSafetyNumber: once a
\* handshake with the peer is complete, by whichever connection, each of the
\* two users has a number for the other.
NumberAfterHandshake ==
  \A s \in Socket :
    (clientEnd[s] = "ready" /\ s \in handshaked /\ network[s] = "up")
      => SafetyNumber(Host(s)) # {} /\ SafetyNumber(Reverse(Host(s))) # {}
=============================================================================
