------------------------- MODULE SafetyNumbers_proofs ------------------------
(***************************************************************************)
(* Proofs about modules Connections and SafetyNumbers, for every set of    *)
(* hosts and sockets and any number of breaks.  The theorems about Spec,   *)
(* in the first half, use only the assumptions of Connections.             *)
(***************************************************************************)
EXTENDS SafetyNumbers, TLAPS

-----------------------------------------------------------------------------
(***************************************************************************)
(* The tables of connections.                                              *)
(***************************************************************************)
LEMMA SocketIsPair ==
  ASSUME NEW s \in Socket
  PROVE  Host(s) \in Hosts /\ s # None
BY DEF Socket, Host, None

LEMMA InitTypes == Init => TypeOK
BY SocketIsPair, FailuresAssumption
   DEF Init, TypeOK, ClientStates, NetworkStates, ServerStates

\* No step leaves the types, and the server never holds a connection that is
\* not there.
LEMMA StepTypes == TypeOK /\ [Next]_vars => TypeOK'
<1> SUFFICES ASSUME TypeOK, [Next]_vars PROVE TypeOK'
  OBVIOUS
<1> USE SocketIsPair, FailuresAssumption
    DEF TypeOK, ClientStates, NetworkStates, ServerStates
<1>1. ASSUME NEW h \in Hosts, ConnectToPeer(h) PROVE TypeOK'
  BY <1>1 DEF ConnectToPeer
<1>2. ASSUME NEW s \in Socket, Establish(s) PROVE TypeOK'
  BY <1>2 DEF Establish
<1>3. ASSUME NEW s \in Socket, OnConnected(s) PROVE TypeOK'
  BY <1>3 DEF OnConnected
<1>4. ASSUME NEW s \in Socket, OnNewConnection(s) PROVE TypeOK'
  BY <1>4 DEF OnNewConnection, Admit, Broken
<1>5. ASSUME NEW s \in Socket, HandshakeDone(s) PROVE TypeOK'
  BY <1>5 DEF HandshakeDone
<1>6. ASSUME NEW s \in Socket, NetworkBreaks(s) PROVE TypeOK'
  BY <1>6 DEF NetworkBreaks
<1>7. ASSUME NEW s \in Socket, ClientSeesBreak(s) PROVE TypeOK'
  BY <1>7 DEF ClientSeesBreak, Forget, Broken
<1>8. ASSUME NEW s \in Socket, ServerSeesBreak(s) PROVE TypeOK'
  BY <1>8 DEF ServerSeesBreak, Broken
<1>9. CASE UNCHANGED vars
  BY <1>9 DEF vars
<1> QED
  BY <1>1, <1>2, <1>3, <1>4, <1>5, <1>6, <1>7, <1>8, <1>9 DEF Next

\* The state keeps its shape.
THEOREM TypeCorrect == Spec => []TypeOK
BY InitTypes, StepTypes, PTL DEF Spec

-----------------------------------------------------------------------------
\* The server lists one connection from an address at a time, for any number
\* of clients, attempts and breaks.
LEMMA StepListed ==
  TypeOK /\ OneListedPerHost /\ [Next]_vars => OneListedPerHost'
<1> SUFFICES ASSUME TypeOK, OneListedPerHost, [Next]_vars
             PROVE  OneListedPerHost'
  OBVIOUS
<1>1. CASE serverEnd' = serverEnd
  BY <1>1 DEF OneListedPerHost, Listed
<1>2. ASSUME NEW s \in Socket, OnNewConnection(s) PROVE OneListedPerHost'
  BY <1>2, SocketIsPair DEF OnNewConnection, Admit, OneListedPerHost, Listed, TypeOK
<1>3. ASSUME NEW s \in Socket, serverEnd[s] # "listed",
             serverEnd' = [serverEnd EXCEPT ![s] = "pending"]
      PROVE  OneListedPerHost'
  BY <1>3 DEF OneListedPerHost, Listed, TypeOK
<1>4. ASSUME NEW s \in Socket, serverEnd' = [serverEnd EXCEPT ![s] = "free"]
      PROVE  OneListedPerHost'
  BY <1>4 DEF OneListedPerHost, Listed, TypeOK
<1>5. ASSUME NEW s \in Socket, Establish(s) PROVE OneListedPerHost'
  <2>1. serverEnd[s] # "listed"
    BY <1>5 DEF Establish, TypeOK
  <2> QED
    BY <1>3, <1>5, <2>1 DEF Establish
<1> QED
  BY <1>1, <1>2, <1>4, <1>5
     DEF Next, vars, ConnectToPeer, OnConnected, HandshakeDone, NetworkBreaks,
         ClientSeesBreak, ServerSeesBreak

THEOREM ListedOnce == Spec => []OneListedPerHost
<1>1. Init => OneListedPerHost
  BY DEF Init, OneListedPerHost, Listed
<1> QED
  BY <1>1, StepListed, TypeCorrect, PTL DEF Spec

-----------------------------------------------------------------------------
\* The server lists a connection before the handshake and drops it only when it
\* is down.
LEMMA StepReady == TypeOK /\ ReadyIsListed /\ [Next]_vars => ReadyIsListed'
<1> SUFFICES ASSUME TypeOK, ReadyIsListed, [Next]_vars PROVE ReadyIsListed'
  OBVIOUS
<1> USE DEF TypeOK, ReadyIsListed
<1>1. ASSUME NEW h \in Hosts, ConnectToPeer(h) PROVE ReadyIsListed'
  BY <1>1 DEF ConnectToPeer
<1>2. ASSUME NEW s \in Socket, Establish(s) PROVE ReadyIsListed'
  BY <1>2 DEF Establish
<1>3. ASSUME NEW s \in Socket, OnConnected(s) PROVE ReadyIsListed'
  BY <1>3 DEF OnConnected
<1>4. ASSUME NEW s \in Socket, OnNewConnection(s) PROVE ReadyIsListed'
  BY <1>4 DEF OnNewConnection, Admit, Broken
<1>5. ASSUME NEW s \in Socket, HandshakeDone(s) PROVE ReadyIsListed'
  BY <1>5 DEF HandshakeDone
<1>6. ASSUME NEW s \in Socket, NetworkBreaks(s) PROVE ReadyIsListed'
  BY <1>6 DEF NetworkBreaks
<1>7. ASSUME NEW s \in Socket, ClientSeesBreak(s) PROVE ReadyIsListed'
  BY <1>7 DEF ClientSeesBreak, Forget, Broken
<1>8. ASSUME NEW s \in Socket, ServerSeesBreak(s) PROVE ReadyIsListed'
  BY <1>8 DEF ServerSeesBreak, Broken
<1>9. CASE UNCHANGED vars
  BY <1>9 DEF vars
<1> QED
  BY <1>1, <1>2, <1>3, <1>4, <1>5, <1>6, <1>7, <1>8, <1>9 DEF Next

\* What a client writes on a connection that is not broken has a reader: no
\* refusal, and no late sight of an older break, takes a ready socket out of
\* the server's table.
THEOREM ReadyHasReader == Spec => []ReadyIsListed
<1>1. Init => ReadyIsListed
  BY DEF Init, ReadyIsListed
<1> QED
  BY <1>1, StepReady, TypeCorrect, PTL DEF Spec

-----------------------------------------------------------------------------
\* TableInv is preserved by users who wait for an attempt to end.
LEMMA StepTable ==
  ASSUME Eager = FALSE
  PROVE  TypeOK /\ TableInv /\ [Next]_vars => TableInv'
<1> SUFFICES ASSUME TypeOK, TableInv, [Next]_vars PROVE TableInv'
  OBVIOUS
<1> USE SocketIsPair DEF TypeOK, TableInv, OneInUse, Live, ClientStates
<1>1. ASSUME NEW h \in Hosts, ConnectToPeer(h) PROVE TableInv'
  <2>1. PICK s \in Socket :
          /\ Host(s) = h /\ Fresh(s) /\ connections[h] = None /\ ~Connecting(h)
          /\ clientEnd' = [clientEnd EXCEPT ![s] = "connecting"]
          /\ connections' = connections
    BY <1>1 DEF ConnectToPeer, MayConnect
  <2>2. \A t \in Socket : Host(t) = h => clientEnd[t] = "free"
    BY <2>1 DEF Connecting
  <2> QED
    BY <2>1, <2>2 DEF Fresh
<1>2. ASSUME NEW s \in Socket, OnConnected(s) PROVE TableInv'
  BY <1>2 DEF OnConnected
<1>3. ASSUME NEW s \in Socket, HandshakeDone(s) PROVE TableInv'
  BY <1>3 DEF HandshakeDone
<1>4. ASSUME NEW s \in Socket, ClientSeesBreak(s) PROVE TableInv'
  BY <1>4 DEF ClientSeesBreak, Forget
<1>5. CASE UNCHANGED <<connections, clientEnd>>
  BY <1>5
<1> QED
  BY <1>1, <1>2, <1>3, <1>4, <1>5
     DEF Next, vars, Establish, OnNewConnection, NetworkBreaks, ServerSeesBreak

\* TableInv says which sockets are named: all that are live, and no other.
LEMMA TableInvExact == TypeOK /\ TableInv => TableIsExact
<1> SUFFICES ASSUME TypeOK, TableInv, NEW h \in Hosts
             PROVE  {s \in Socket : Host(s) = h /\ Live(s)}
                      = {connections[h]} \ {None}
  BY DEF TableIsExact
<1>1. \A s \in Socket : Host(s) = h /\ Live(s) =>
        connections[h] = s /\ s # None
  BY SocketIsPair DEF TableInv
<1>2. connections[h] # None =>
        /\ connections[h] \in Socket
        /\ Host(connections[h]) = h
        /\ Live(connections[h])
  BY DEF TypeOK, TableInv
<1> QED
  BY <1>1, <1>2, Zenon

\* The client's table names exactly the connected socket, as long as no one
\* presses "Write to" during an attempt: what connectToPeer's check relies on.
THEOREM TableExact ==
  ASSUME Eager = FALSE
  PROVE  Spec => []TableIsExact
<1>1. Init => TableInv
  BY SocketIsPair DEF Init, TableInv, OneInUse, Live
<1>2. TypeOK /\ TableInv /\ [Next]_vars => TableInv'
  BY StepTable
<1> QED
  BY <1>1, <1>2, TableInvExact, TypeCorrect, PTL DEF Spec

-----------------------------------------------------------------------------
(***************************************************************************)
(* The keys in the tables, and the safety numbers.                         *)
(***************************************************************************)
\* Every step with keys is a step of Connections, or leaves it alone.
LEMMA StepSimulated == [NumbersNext]_numberVars => [Next]_vars
<1> SUFFICES ASSUME [NumbersNext]_numberVars PROVE [Next]_vars
  OBVIOUS
<1>1. ASSUME NEW h \in Hosts, Connects(h) PROVE Next
  BY <1>1 DEF Connects, Next
<1>2. ASSUME NEW s \in Socket,
             \/ Establishes(s) \/ Connected(s) \/ Admits(s) \/ ClientGreets(s)
             \/ ClientLoses(s) \/ ServerLoses(s) \/ NetworkBreaks(s)
      PROVE  Next
  BY <1>2 DEF Establishes, Connected, Admits, ClientGreets, ClientLoses,
              ServerLoses, Next
<1>3. ASSUME NEW s \in Socket, ServerGreets(s) PROVE UNCHANGED vars
  BY <1>3 DEF ServerGreets
<1> QED
  BY <1>1, <1>2, <1>3 DEF NumbersNext, numberVars

LEMMA InitNumbers == NumbersInit => NumbersInv
BY InitTypes
   DEF NumbersInit, NumbersInv, NumbersTypeOK, Init, OneListedPerHost, Listed

\* One step of the invariant's parts on keys.
LEMMA StepNumbers == NumbersInv /\ [NumbersNext]_numberVars => NumbersInv'
<1> SUFFICES ASSUME NumbersInv, [NumbersNext]_numberVars PROVE NumbersInv'
  OBVIOUS
<1>0. TypeOK /\ TypeOK' /\ OneListedPerHost /\ OneListedPerHost'
  BY StepSimulated, StepTypes, StepListed DEF NumbersInv, NumbersTypeOK
<1> USE <1>0, SocketIsPair
    DEF NumbersInv, NumbersTypeOK, TypeOK, ClientStates, NetworkStates, ServerStates
<1>1. ASSUME NEW h \in Hosts, Connects(h) PROVE NumbersInv'
  <2>1. PICK s \in Socket : Fresh(s)
                            /\ clientEnd' = [clientEnd EXCEPT ![s] = "connecting"]
    BY <1>1 DEF Connects, ConnectToPeer
  <2> QED
    BY <1>1, <2>1 DEF Connects, ConnectToPeer, Unkeyed, Fresh
<1>2. ASSUME NEW s \in Socket, Establishes(s) PROVE NumbersInv'
  BY <1>2 DEF Establishes, Establish, Unkeyed
<1>3. ASSUME NEW s \in Socket, Connected(s) PROVE NumbersInv'
  BY <1>3 DEF Connected, OnConnected, Unkeyed
<1>4. ASSUME NEW s \in Socket, Admits(s) PROVE NumbersInv'
  BY <1>4 DEF Admits, OnNewConnection, Admit, Broken, Unkeyed
<1>5. ASSUME NEW s \in Socket, ServerGreets(s) PROVE NumbersInv'
  BY <1>5 DEF ServerGreets, vars
<1>6. ASSUME NEW s \in Socket, ClientGreets(s) PROVE NumbersInv'
  BY <1>6 DEF ClientGreets, HandshakeDone
<1>7. ASSUME NEW s \in Socket, ClientLoses(s) PROVE NumbersInv'
  BY <1>7 DEF ClientLoses, ClientSeesBreak, KnownAfter, Broken
<1>8. ASSUME NEW s \in Socket, ServerLoses(s) PROVE NumbersInv'
  BY <1>8 DEF ServerLoses, ServerSeesBreak, KeysAfter, Broken
<1>9. ASSUME NEW s \in Socket, NetworkBreaks(s), Unkeyed PROVE NumbersInv'
  BY <1>9 DEF NetworkBreaks, Unkeyed
<1>10. CASE UNCHANGED numberVars
  BY <1>10 DEF numberVars, vars
<1> QED
  BY <1>1, <1>2, <1>3, <1>4, <1>5, <1>6, <1>7, <1>8, <1>9, <1>10 DEF NumbersNext

\* The types of keys and connections.
THEOREM NumbersTypeCorrect == NumbersSpec => []NumbersTypeOK
BY InitNumbers, StepNumbers, PTL DEF NumbersSpec, NumbersInv

\* Keys change nothing in the tables: what is proved of Connections holds.
THEOREM TablesHold ==
  ASSUME Eager = FALSE
  PROVE  NumbersSpec => [](TableIsExact /\ OneListedPerHost)
<1>1. NumbersInit => Init /\ TableInv
  BY SocketIsPair DEF NumbersInit, Init, TableInv, OneInUse, Live
<1>2. NumbersInv => TypeOK /\ OneListedPerHost
  BY DEF NumbersInv, NumbersTypeOK
<1>3. TypeOK /\ TableInv /\ [NumbersNext]_numberVars => TableInv'
  BY StepSimulated, StepTable
<1>4. TypeOK /\ TableInv => TableIsExact
  BY TableInvExact
<1> QED
  BY <1>1, <1>2, <1>3, <1>4, InitNumbers, StepNumbers, PTL DEF NumbersSpec

-----------------------------------------------------------------------------
\* Of two users, the window of each finds one key of its own: that of the
\* socket by which the other writes to it.
LEMMA OwnKey ==
  ASSUME NumbersInv, NEW h \in Hosts, NEW r \in Hosts, r = Reverse(h),
         Hosts \subseteq {h, r}, Up(h), Up(r)
  PROVE  SafetyNumber(h) = {{ServerKey(known[r]), ServerKey(known[h])}}
<1> DEFINE t == known[r]
<1>1. /\ t \in Socket /\ Host(t) = r /\ t \in handshaked
      /\ h[2] # h[1] /\ r[2] = h[1] /\ h # r
  BY LinksAssumption DEF NumbersInv, NumbersTypeOK, Up, Reverse
<1>2. ASSUME NEW x \in handshaked, Host(x)[2] = h[1] PROVE x = t
  <2>1. x \in Socket /\ Host(x) \in Hosts
    BY SocketIsPair DEF NumbersInv, NumbersTypeOK
  <2>2. Host(x) = r
    BY <1>1, <1>2, <2>1
  <2> QED
    BY <1>1, <2>1, <2>2 DEF NumbersInv, NumbersTypeOK, OneListedPerHost, Listed
<1>3. ServerKeysOf(h[1]) = {ServerKey(t)}
  BY <1>1, <1>2 DEF ServerKeysOf
<1>4. LookupLocalPublicKey(h[1]) = {ServerKey(known[r])}
  BY <1>3 DEF LookupLocalPublicKey
<1>5. LookupPeerPublicKey(h) = {ServerKey(known[h])}
  BY DEF LookupPeerPublicKey, Up
<1> QED
  BY <1>4, <1>5 DEF SafetyNumber, Compute

\* Two users who write to each other read the same number, for any sockets,
\* any number of breaks, and eager users too.
THEOREM SameNumber ==
  ASSUME NEW a, NEW b, Hosts \subseteq {<<a, b>>, <<b, a>>}
  PROVE  NumbersSpec => []NumbersAgree
<1>1. NumbersInv => NumbersAgree
  <2> SUFFICES ASSUME NumbersInv, NEW h \in Hosts, Reverse(h) \in Hosts,
                      Up(h), Up(Reverse(h))
               PROVE  SafetyNumber(h) = SafetyNumber(Reverse(h))
                      /\ \E n : SafetyNumber(h) = {n}
    BY DEF NumbersAgree
  <2>1. h = Reverse(Reverse(h)) /\ Hosts \subseteq {h, Reverse(h)}
    BY LinksAssumption DEF Reverse
  <2>2. SafetyNumber(h) = {{ServerKey(known[Reverse(h)]), ServerKey(known[h])}}
    BY <2>1, OwnKey
  <2>3. SafetyNumber(Reverse(h))
          = {{ServerKey(known[h]), ServerKey(known[Reverse(h)])}}
    BY <2>1, OwnKey
  <2> QED
    BY <2>2, <2>3
<1> QED
  BY <1>1, InitNumbers, StepNumbers, PTL DEF NumbersSpec
=============================================================================
