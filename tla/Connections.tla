---------------------------- MODULE Connections -----------------------------
(***************************************************************************)
(* Who is connected to whom: the table "connections" that each             *)
(* IPv6ChatClient keeps for the peer it wants to talk to, the table        *)
(* "clients" of that peer's IPv6ChatServer, and the sockets that the two   *)
(* tables name.  The server takes one connection from an address and       *)
(* refuses a second one while the first is in its table.                   *)
(*                                                                         *)
(* A socket is one TCP connection, with its end at the client, its end at  *)
(* the server and the network between them, each of which learns of a      *)
(* break at its own time.  The handshake is one step: module ChatLink has  *)
(* its detail.  A socket that neither end uses any more is used again.     *)
(***************************************************************************)
EXTENDS Naturals

CONSTANTS Hosts,        \* the addresses of the clients
          Sockets,      \* the sockets that each client may use
          Eager,        \* "Write to" may be pressed while an attempt is on
          MaxFailures   \* bound on the breaks of the network

ASSUME EagerAssumption    == Eager \in BOOLEAN
ASSUME FailuresAssumption == MaxFailures \in Nat

VARIABLES connections,  \* the socket each client has in its table, or None
          clientEnd,    \* state of the client's end of each socket
          network,      \* state of the TCP connection
          serverEnd,    \* state of the server's end
          failures      \* breaks of the network so far

vars == <<connections, clientEnd, network, serverEnd, failures>>

Socket  == Hosts \X Sockets
Host(s) == s[1]
None    == <<>>

ClientStates  == {"free", "connecting", "connected", "ready"}
NetworkStates == {"none", "up", "down"}
ServerStates  == {"free", "pending", "listed"}

Init ==
  /\ connections = [h \in Hosts |-> None]
  /\ clientEnd = [s \in Socket |-> "free"]
  /\ network   = [s \in Socket |-> "none"]
  /\ serverEnd = [s \in Socket |-> "free"]
  /\ failures  = 0

Connecting(h) == \E s \in Socket : Host(s) = h /\ clientEnd[s] = "connecting"
Fresh(s) == clientEnd[s] = "free" /\ serverEnd[s] = "free" /\ network[s] = "none"

\* Mutant: connectToPeer does not look into the table.
MayConnectAnyway(h) == Eager \/ ~Connecting(h)

\* The one check of connectToPeer; Eager is about the user.
MayConnect(h) == connections[h] = None /\ (Eager \/ ~Connecting(h))

\* connectToPeer.
ConnectToPeer(h) ==
  \E s \in Socket :
    /\ Host(s) = h /\ Fresh(s)
    /\ MayConnect(h)
    /\ clientEnd' = [clientEnd EXCEPT ![s] = "connecting"]
    /\ UNCHANGED <<connections, network, serverEnd, failures>>

\* The TCP handshake succeeds ...
Establish(s) ==
  /\ clientEnd[s] = "connecting" /\ network[s] = "none"
  /\ network'   = [network EXCEPT ![s] = "up"]
  /\ serverEnd' = [serverEnd EXCEPT ![s] = "pending"]
  /\ UNCHANGED <<connections, clientEnd, failures>>

\* onConnected: the entry of the table is overwritten.
OnConnected(s) ==
  /\ clientEnd[s] = "connecting" /\ network[s] = "up"
  /\ clientEnd'   = [clientEnd EXCEPT ![s] = "connected"]
  /\ connections' = [connections EXCEPT ![Host(s)] = s]
  /\ UNCHANGED <<network, serverEnd, failures>>

\* Mutant: the server's end is overlooked.
BrokenEarly(atClient, atServer) == IF atClient = "free" THEN "none" ELSE "down"

\* A broken connection is gone when both ends have left it.
Broken(atClient, atServer) ==
  IF atClient = "free" /\ atServer = "free" THEN "none" ELSE "down"

Listed(h) == {s \in Socket : Host(s) = h /\ serverEnd[s] = "listed"}

\* Mutants: the newer connection replaces the older one; no one is refused;
\* the refused socket is not closed.
AdmitNewest(s) ==
  /\ serverEnd' = [t \in Socket |-> IF t = s THEN "listed"
                                    ELSE IF t \in Listed(Host(s)) THEN "free"
                                    ELSE serverEnd[t]]
  /\ UNCHANGED network
AdmitAll(s) ==
  /\ serverEnd' = [serverEnd EXCEPT ![s] = "listed"]
  /\ UNCHANGED network
AdmitForgetful(s) ==
  /\ serverEnd' = [serverEnd EXCEPT ![s] = IF Listed(Host(s)) = {} THEN "listed"
                                                                   ELSE "free"]
  /\ UNCHANGED network

(***************************************************************************)
(* onNewConnection: one connection from an address.  The table never holds *)
(* a socket that has seen its disconnection, as onClientDisconnected runs  *)
(* at once, so the branch for such an entry is not taken.                  *)
(***************************************************************************)
Admit(s) ==
  IF Listed(Host(s)) = {}
  THEN /\ serverEnd' = [serverEnd EXCEPT ![s] = "listed"]
       /\ UNCHANGED network
  ELSE /\ serverEnd' = [serverEnd EXCEPT ![s] = "free"]
       /\ network'   = [network EXCEPT ![s] = Broken(clientEnd[s], "free")]

OnNewConnection(s) ==
  /\ serverEnd[s] = "pending"
  /\ Admit(s)
  /\ UNCHANGED <<connections, clientEnd, failures>>

\* The handshake of a listed connection is carried through at both ends.
HandshakeDone(s) ==
  /\ clientEnd[s] = "connected" /\ network[s] = "up" /\ serverEnd[s] = "listed"
  /\ clientEnd' = [clientEnd EXCEPT ![s] = "ready"]
  /\ UNCHANGED <<connections, network, serverEnd, failures>>

\* An attempt fails, or an established connection breaks.
NetworkBreaks(s) ==
  /\ failures < MaxFailures
  /\ clientEnd[s] # "free" /\ network[s] # "down"
  /\ network'  = [network EXCEPT ![s] = "down"]
  /\ failures' = failures + 1
  /\ UNCHANGED <<connections, clientEnd, serverEnd>>

\* Entries are removed by the peer's name, whichever socket they hold.
Forget(h, s) == [connections EXCEPT ![h] = None]

\* onSocketError, and onDisconnected after it if the socket was connected.
ClientSeesBreak(s) ==
  /\ clientEnd[s] # "free" /\ network[s] = "down"
  /\ clientEnd'   = [clientEnd EXCEPT ![s] = "free"]
  /\ connections' = Forget(Host(s), s)
  /\ network' = [network EXCEPT ![s] = Broken("free", serverEnd[s])]
  /\ UNCHANGED <<serverEnd, failures>>

\* onClientDisconnected: the entry that holds the socket is removed.
ServerSeesBreak(s) ==
  /\ serverEnd[s] = "listed" /\ network[s] = "down"
  /\ serverEnd' = [serverEnd EXCEPT ![s] = "free"]
  /\ network' = [network EXCEPT ![s] = Broken(clientEnd[s], "free")]
  /\ UNCHANGED <<connections, clientEnd, failures>>

Next == \/ \E h \in Hosts : ConnectToPeer(h)
        \/ \E s \in Socket : \/ Establish(s) \/ OnConnected(s)
                             \/ OnNewConnection(s) \/ HandshakeDone(s)
                             \/ NetworkBreaks(s)
                             \/ ClientSeesBreak(s) \/ ServerSeesBreak(s)

\* The user presses "Write to" again while there is no connection; the
\* event loops and the network do their part, and the network need not break.
Fairness == /\ \A h \in Hosts : WF_vars(ConnectToPeer(h))
            /\ \A s \in Socket :
                 /\ WF_vars(Establish(s)) /\ WF_vars(OnConnected(s))
                 /\ WF_vars(OnNewConnection(s)) /\ WF_vars(HandshakeDone(s))
                 /\ WF_vars(ClientSeesBreak(s)) /\ WF_vars(ServerSeesBreak(s))

Spec == Init /\ [][Next]_vars /\ Fairness
-----------------------------------------------------------------------------
\* The shape of the state; what the server holds, it holds of a connection.
TypeOK ==
  /\ connections \in [Hosts -> Socket \cup {None}]
  /\ \A h \in Hosts : connections[h] # None => Host(connections[h]) = h
  /\ clientEnd \in [Socket -> ClientStates]
  /\ network \in [Socket -> NetworkStates]
  /\ serverEnd \in [Socket -> ServerStates]
  /\ \A s \in Socket : serverEnd[s] # "free" => network[s] # "none"
  /\ failures \in 0 .. MaxFailures

Live(s) == clientEnd[s] \in {"connected", "ready"}

\* The table names every connected socket of the client, and nothing else:
\* no connection that the user cannot write to, no entry for a dead socket.
TableIsExact ==
  \A h \in Hosts :
    {s \in Socket : Host(s) = h /\ Live(s)}
      = {connections[h]} \ {None}

\* The server lists one connection from an address, also while the client
\* has left the last one and the server has not yet seen it.
OneListedPerHost == \A h \in Hosts : \A s, t \in Listed(h) : s = t

\* What the client writes has a reader: a ready socket that is not broken
\* is in the server's table.
ReadyIsListed ==
  \A s \in Socket :
    (clientEnd[s] = "ready" /\ network[s] = "up") => serverEnd[s] = "listed"

\* The inductive invariant behind TableIsExact, for users who wait: a client
\* uses one socket at a time, and the table knows it once it is connected.
OneInUse ==
  \A s, t \in Socket :
    (/\ Host(s) = Host(t)
     /\ clientEnd[s] # "free"
     /\ clientEnd[t] # "free") => s = t
TableInv ==
  /\ OneInUse
  /\ \A s \in Socket : Live(s) => connections[Host(s)] = s
  /\ \A h \in Hosts : connections[h] # None => Live(connections[h])

Usable(h) ==
  LET s == connections[h]
  IN  s # None /\ clientEnd[s] = "ready" /\ network[s] = "up"

\* After the last break of the network every client comes to have, and to
\* keep, a connection it can use, however the refusals of an old entry fall.
Reconnects == \A h \in Hosts : <>[]Usable(h)
=============================================================================
