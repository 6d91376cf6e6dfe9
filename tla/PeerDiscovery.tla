---------------------------- MODULE PeerDiscovery ----------------------------
(***************************************************************************)
(* Discovery of peers on the local network (PeerDiscovery): every node     *)
(* multicasts its presence when it starts and at an interval, notes when   *)
(* it last heard each other node, and at another interval drops those it   *)
(* has not heard for too long.  The module follows the table of one node,  *)
(* Self; its own datagrams come back to it as everybody else's.            *)
(*                                                                         *)
(* Time is counted in units of five seconds, of which the code's three     *)
(* periods are multiples, and passes when no timer is due.  A datagram is  *)
(* lost, or arrives within two units, perhaps twice and out of order.      *)
(***************************************************************************)
EXTENDS Naturals, FiniteSets

CONSTANTS Self, Peers,
          MaxLosses   \* bound on the datagrams of a node lost in a row

ASSUME SelfAssumption   == Self \notin Peers
ASSUME LossesAssumption == MaxLosses \in Nat

VARIABLES running,    \* the nodes that are running
          broadcast,  \* time to the next broadcast of each node
          cleanup,    \* time to the next cleanup at Self
          lastSeen,   \* m_peers: for each node, the age of its lastSeenMs
          wire,       \* datagrams on the way to Self
          losses,     \* datagrams of each node lost in a row
          steady      \* history: nodes that have run on since last heard

vars == <<running, broadcast, cleanup, lastSeen, wire, losses, steady>>

Nodes     == Peers \cup {Self}
PEER_TTL  == 12
BROADCAST_INTERVAL == 2
CLEANUP_INTERVAL   == 3
MaxDelay  == 1
Datagrams == [from : Nodes, age : 0 .. MaxDelay, heard : BOOLEAN]

\* No entry in the table: an age beyond all others.
Unknown == PEER_TTL + CLEANUP_INTERVAL + 1
Ages    == 0 .. Unknown
knownPeers == {n \in Nodes : lastSeen[n] # Unknown}

Init ==
  /\ running = {} /\ broadcast = [n \in Nodes |-> 0] /\ cleanup = 0
  /\ lastSeen = [n \in Nodes |-> Unknown]
  /\ wire = {} /\ losses = [n \in Nodes |-> 0] /\ steady = {}

\* A datagram reaches Self's socket if it is bound.
Multicast(n, up) ==
  wire' = IF Self \in up THEN wire \cup {[from |-> n, age |-> 0, heard |-> FALSE]}
                         ELSE wire

\* start: the timers run, and the first broadcast is made at once.
Start(n) ==
  /\ n \notin running
  /\ running' = running \cup {n}
  /\ broadcast' = [broadcast EXCEPT ![n] = BROADCAST_INTERVAL]
  /\ cleanup' = IF n = Self THEN CLEANUP_INTERVAL ELSE cleanup
  /\ Multicast(n, running')
  /\ UNCHANGED <<lastSeen, losses, steady>>

\* stop: the table is cleared, and no one is reported lost.
Stop(n) ==
  /\ n \in running
  /\ running' = running \ {n}
  /\ broadcast' = [broadcast EXCEPT ![n] = 0]
  /\ steady' = steady \ {n}
  /\ IF n = Self
     THEN /\ cleanup' = 0 /\ wire' = {}
          /\ lastSeen' = [m \in Nodes |-> Unknown]
          /\ losses' = [m \in Nodes |-> 0]
     ELSE UNCHANGED <<cleanup, wire, lastSeen, losses>>

\* onBroadcastTick, by a periodic timer.
OnBroadcastTick(n) ==
  /\ n \in running /\ broadcast[n] = 0
  /\ broadcast' = [broadcast EXCEPT ![n] = BROADCAST_INTERVAL]
  /\ Multicast(n, running)
  /\ UNCHANGED <<running, cleanup, lastSeen, losses, steady>>

\* Mutants: only a new peer's time is noted; Self is not left out.
HeardOnce(n) ==
  IF n = Self \/ lastSeen[n] # Unknown THEN lastSeen ELSE [lastSeen EXCEPT ![n] = 0]
HeardAll(n) == [lastSeen EXCEPT ![n] = 0]

\* What a datagram does to the table: that of Self itself is left out.
Heard(n) == IF n = Self THEN lastSeen ELSE [lastSeen EXCEPT ![n] = 0]

\* onReadyRead; the datagram may come once more.
OnReadyRead(d) ==
  LET again == {[d EXCEPT !.heard = TRUE]}
  IN  /\ d \in wire
      /\ lastSeen' = Heard(d.from)
      /\ steady' = IF d.from \in running THEN steady \cup {d.from} ELSE steady
      /\ losses' = [losses EXCEPT ![d.from] = 0]
      /\ \/ wire' = wire \ {d}
         \/ ~d.heard /\ wire' = (wire \ {d}) \cup again
      /\ UNCHANGED <<running, broadcast, cleanup>>

\* The network drops a datagram.
Lose(d) ==
  /\ d \in wire
  /\ \/ d.heard /\ UNCHANGED losses
     \/ /\ ~d.heard /\ losses[d.from] < MaxLosses
        /\ losses' = [losses EXCEPT ![d.from] = @ + 1]
  /\ wire' = wire \ {d}
  /\ UNCHANGED <<running, broadcast, cleanup, lastSeen, steady>>

\* Mutant: an entry is looked at only in the moment it expires.
ExpiredNow(n) == lastSeen[n] = PEER_TTL + 1

Expired(n) == n \in knownPeers /\ lastSeen[n] > PEER_TTL

\* onCleanupTick.
OnCleanupTick ==
  /\ Self \in running /\ cleanup = 0
  /\ cleanup'  = CLEANUP_INTERVAL
  /\ lastSeen' = [n \in Nodes |-> IF Expired(n) THEN Unknown ELSE lastSeen[n]]
  /\ steady'   = {n \in steady : ~Expired(n)}
  /\ UNCHANGED <<running, broadcast, wire, losses>>

\* A timer that is due fires, and a datagram that is late arrives, before
\* more time passes.
TimerDue == \/ \E n \in running : broadcast[n] = 0
            \/ Self \in running /\ cleanup = 0
Overdue  == \E d \in wire : d.age = MaxDelay

Tick ==
  /\ ~TimerDue /\ ~Overdue
  /\ broadcast' = [n \in Nodes |-> IF n \in running THEN broadcast[n] - 1 ELSE 0]
  /\ cleanup'   = IF Self \in running THEN cleanup - 1 ELSE 0
  /\ lastSeen'  = [n \in Nodes |-> IF n \in knownPeers /\ lastSeen[n] < Unknown - 1
                                   THEN lastSeen[n] + 1 ELSE lastSeen[n]]
  /\ wire' = {[d EXCEPT !.age = @ + 1] : d \in wire}
  /\ UNCHANGED <<running, losses, steady>>

Next == \/ \E n \in Nodes : Start(n) \/ Stop(n) \/ OnBroadcastTick(n)
        \/ \E d \in Datagrams : OnReadyRead(d) \/ Lose(d)
        \/ OnCleanupTick \/ Tick

\* Time passes and the event loops run; the network need not lose anything.
Fairness == /\ WF_vars(Tick) /\ WF_vars(OnCleanupTick)
            /\ \A n \in Nodes : WF_vars(OnBroadcastTick(n))
            /\ \A d \in Datagrams : WF_vars(OnReadyRead(d))

Spec == Init /\ [][Next]_vars /\ Fairness
-----------------------------------------------------------------------------
\* The shape of the state; a node is not in its own table.
TypeOK ==
  /\ running \subseteq Nodes /\ steady \subseteq Nodes
  /\ broadcast \in [Nodes -> 0 .. BROADCAST_INTERVAL]
  /\ cleanup \in 0 .. CLEANUP_INTERVAL
  /\ lastSeen \in [Nodes -> Ages]
  /\ wire \subseteq Datagrams
  /\ losses \in [Nodes -> 0 .. MaxLosses]
  /\ Self \notin knownPeers

\* How stale an entry of knownPeers can be: it outlives the time to live at
\* most until the next cleanup.
StaleForOneInterval ==
  \A n \in knownPeers : lastSeen[n] > PEER_TTL
    => lastSeen[n] + cleanup <= PEER_TTL + CLEANUP_INTERVAL

\* The inductive invariant behind it: what Self has heard, and what is on the
\* way to it, it has only while it runs.
StaleInv ==
  /\ StaleForOneInterval
  /\ knownPeers # {} \/ wire # {} => Self \in running

\* A peer that runs on is not dropped, whatever the losses, delays and
\* duplicates, as long as no more than MaxLosses datagrams are lost in a row.
SteadyStaysKnown ==
  [][\A n \in Peers : (n \in knownPeers /\ n \in steady /\ Self \in running')
       => n \in knownPeers']_vars

\* The table of a node that keeps running comes to agree with who is there.
TableFollows ==
  \A p \in Peers :
    /\ <>[](p \in running /\ Self \in running) => <>[](p \in knownPeers)
    /\ <>[](p \notin running) => <>[](p \notin knownPeers)
=============================================================================
