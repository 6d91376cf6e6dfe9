------------------------ MODULE PeerDiscovery_proofs -------------------------
(***************************************************************************)
(* Proofs about module PeerDiscovery, for any number of peers and losses.  *)
(***************************************************************************)
EXTENDS PeerDiscovery, TLAPS

\* The numbers behind the names.
LEMMA Periods ==
  /\ PEER_TTL = 12 /\ BROADCAST_INTERVAL = 2 /\ CLEANUP_INTERVAL = 3
  /\ MaxDelay = 1 /\ Unknown = 16
BY DEF PEER_TTL, BROADCAST_INTERVAL, CLEANUP_INTERVAL, MaxDelay, Unknown

LEMMA InitTypes == Init => TypeOK
BY LossesAssumption, Periods DEF Init, TypeOK, Ages, Nodes, knownPeers

\* No step leaves the types, and Self stays out of its own table.
LEMMA StepTypes == TypeOK /\ [Next]_vars => TypeOK'
<1> SUFFICES ASSUME TypeOK, [Next]_vars PROVE TypeOK'
  OBVIOUS
<1> USE LossesAssumption, Periods DEF TypeOK, Ages, knownPeers
<1>1. ASSUME NEW n \in Nodes, NEW up \in SUBSET Nodes, Multicast(n, up)
      PROVE  wire' \subseteq Datagrams
  <2>1. [from |-> n, age |-> 0, heard |-> FALSE] \in Datagrams
    BY DEF Datagrams
  <2> QED
    BY <1>1, <2>1 DEF Multicast
<1>2. ASSUME NEW n \in Nodes, Start(n) PROVE TypeOK'
  <2>1. running' \subseteq Nodes
    BY <1>2 DEF Start
  <2>2. wire' \subseteq Datagrams
    BY <1>1, <1>2, <2>1 DEF Start
  <2> QED
    BY <1>2, <2>1, <2>2 DEF Start, Nodes
<1>3. ASSUME NEW n \in Nodes, Stop(n) PROVE TypeOK'
  BY <1>3 DEF Stop, Nodes
<1>4. ASSUME NEW n \in Nodes, OnBroadcastTick(n) PROVE TypeOK'
  <2>1. wire' \subseteq Datagrams
    BY <1>1, <1>4 DEF OnBroadcastTick
  <2> QED
    BY <1>4, <2>1 DEF OnBroadcastTick, Nodes
<1>5. ASSUME NEW d \in Datagrams, OnReadyRead(d) PROVE TypeOK'
  <2>1. wire' \subseteq Datagrams
    BY <1>5 DEF OnReadyRead, Datagrams
  <2>2. d.from \in Nodes
    BY DEF Datagrams
  <2> QED
    BY <1>5, <2>1, <2>2 DEF OnReadyRead, Heard, Nodes
<1>6. ASSUME NEW d \in Datagrams, Lose(d) PROVE TypeOK'
  <2>1. d.from \in Nodes
    BY DEF Datagrams
  <2> QED
    BY <1>6, <2>1 DEF Lose, Nodes
<1>7. CASE OnCleanupTick
  BY <1>7 DEF OnCleanupTick, Nodes
<1>8. CASE Tick
  <2>1. wire' \subseteq Datagrams
    BY <1>8 DEF Tick, Overdue, Datagrams
  <2>2. broadcast' \in [Nodes -> 0 .. BROADCAST_INTERVAL]
    BY <1>8 DEF Tick, TimerDue, Nodes
  <2>3. cleanup' \in 0 .. CLEANUP_INTERVAL
    BY <1>8 DEF Tick, TimerDue
  <2>4. lastSeen' \in [Nodes -> Ages] /\ Self \notin knownPeers'
    BY <1>8 DEF Tick, Nodes
  <2> QED
    BY <1>8, <2>1, <2>2, <2>3, <2>4 DEF Tick
<1>9. CASE UNCHANGED vars
  BY <1>9 DEF vars
<1> QED
  BY <1>2, <1>3, <1>4, <1>5, <1>6, <1>7, <1>8, <1>9 DEF Next

\* The state keeps its shape.
THEOREM TypeCorrect == Spec => []TypeOK
BY InitTypes, StepTypes, PTL DEF Spec

-----------------------------------------------------------------------------
\* The inductive invariant: only a running node has a table, and the age of
\* an entry and the time to the next cleanup are bounded together.
LEMMA StepStale ==
  TypeOK /\ StaleInv /\ [Next]_vars => StaleInv'
<1> SUFFICES ASSUME TypeOK, StaleInv, [Next]_vars PROVE StaleInv'
  OBVIOUS
<1> USE Periods DEF TypeOK, StaleInv, StaleForOneInterval, knownPeers, Ages
<1>1. ASSUME NEW n \in Nodes, Start(n) PROVE StaleInv'
  BY <1>1 DEF Start, Multicast
<1>2. ASSUME NEW n \in Nodes, Stop(n) PROVE StaleInv'
  BY <1>2 DEF Stop
<1>3. ASSUME NEW n \in Nodes, OnBroadcastTick(n) PROVE StaleInv'
  BY <1>3 DEF OnBroadcastTick, Multicast
<1>4. ASSUME NEW d \in Datagrams, OnReadyRead(d) PROVE StaleInv'
  <2>1. d.from \in Nodes /\ Self \in running
    BY <1>4 DEF OnReadyRead, Datagrams
  <2> QED
    BY <1>4, <2>1 DEF OnReadyRead, Heard
<1>5. ASSUME NEW d \in Datagrams, Lose(d) PROVE StaleInv'
  BY <1>5 DEF Lose
<1>6. CASE OnCleanupTick
  BY <1>6 DEF OnCleanupTick, Expired
<1>7. CASE Tick
  BY <1>7 DEF Tick, TimerDue
<1>8. CASE UNCHANGED vars
  BY <1>8 DEF vars
<1> QED
  BY <1>1, <1>2, <1>3, <1>4, <1>5, <1>6, <1>7, <1>8 DEF Next

\* No entry of knownPeers outlives its time to live beyond the next cleanup.
THEOREM StaleBounded == Spec => []StaleForOneInterval
<1>1. Init => StaleInv
  BY Periods DEF Init, StaleInv, StaleForOneInterval, knownPeers
<1>2. StaleInv => StaleForOneInterval
  BY DEF StaleInv
<1> QED
  BY <1>1, <1>2, StepStale, TypeCorrect, PTL DEF Spec

-----------------------------------------------------------------------------
(***************************************************************************)
(* Why a peer that runs on is kept.  Its next broadcast is sent only when  *)
(* the last one has arrived or is lost; so its age in the table is at most *)
(* an interval for each loss since it was heard, one for a datagram that   *)
(* is still on the way, and what has passed of the present interval.       *)
(***************************************************************************)
Pending(n) == \E d \in wire : d.from = n /\ ~d.heard

HeardInTime(n) ==
  lastSeen[n] <= BROADCAST_INTERVAL * losses[n] + (BROADCAST_INTERVAL - broadcast[n])
                   + (IF Pending(n) THEN BROADCAST_INTERVAL ELSE 0)

SentBefore == \A d \in wire :
                d.from \in running => d.age + broadcast[d.from] >= BROADCAST_INTERVAL

SteadyInv ==
  /\ steady \subseteq running
  /\ SentBefore
  /\ \A n \in Peers : n \in knownPeers /\ n \in steady => HeardInTime(n)

LEMMA StepSentBefore == TypeOK /\ SentBefore /\ [Next]_vars => SentBefore'
<1> SUFFICES ASSUME TypeOK, SentBefore, [Next]_vars PROVE SentBefore'
  OBVIOUS
<1> USE Periods DEF TypeOK, SentBefore
<1>0. \A d \in Datagrams : d.from \in Nodes /\ d.age \in 0 .. 1
  BY DEF Datagrams
<1>1. ASSUME NEW n \in Nodes, NEW up \in SUBSET Nodes, Multicast(n, up)
      PROVE  \A d \in wire' : d \in wire \/ (d.from = n /\ d.age = 0)
  BY <1>1 DEF Multicast
<1>2. ASSUME NEW n \in Nodes, NEW up \in SUBSET Nodes, Multicast(n, up),
             running' \subseteq running \cup {n},
             broadcast' = [broadcast EXCEPT ![n] = BROADCAST_INTERVAL]
      PROVE  SentBefore'
  <2> SUFFICES ASSUME NEW d \in wire', d.from \in running'
               PROVE  d.age + broadcast'[d.from] >= 2
    OBVIOUS
  <2>1. d \in wire \/ (d.from = n /\ d.age = 0)
    BY <1>1, <1>2
  <2>2. CASE d.from = n
    <3>1. d.age \in Nat BY <1>0, <2>1
    <3>2. broadcast'[d.from] = 2 BY <1>2, <2>2
    <3> QED BY <3>1, <3>2
  <2>3. CASE d.from # n
    <3>1. d \in wire /\ d.from \in running BY <1>2, <2>1, <2>3
    <3>2. broadcast'[d.from] = broadcast[d.from] BY <1>0, <1>2, <2>3, <3>1
    <3> QED BY <3>1, <3>2
  <2> QED BY <2>2, <2>3
<1>3. ASSUME NEW n \in Nodes, Start(n) PROVE SentBefore'
  <2>1. running' \in SUBSET Nodes /\ running' \subseteq running \cup {n}
    BY <1>3 DEF Start
  <2> QED BY <1>2, <1>3, <2>1 DEF Start
<1>4. ASSUME NEW n \in Nodes, OnBroadcastTick(n) PROVE SentBefore'
  BY <1>2, <1>4 DEF OnBroadcastTick
<1>5. ASSUME NEW n \in Nodes, Stop(n) PROVE SentBefore'
  <2> SUFFICES ASSUME NEW d \in wire', d.from \in running'
               PROVE  d.age + broadcast'[d.from] >= 2
    OBVIOUS
  <2>1. d \in wire /\ d.from \in running /\ d.from # n
    BY <1>5 DEF Stop
  <2>2. broadcast'[d.from] = broadcast[d.from]
    BY <1>0, <1>5, <2>1 DEF Stop
  <2> QED BY <2>1, <2>2
<1>6. ASSUME NEW d \in Datagrams, OnReadyRead(d) PROVE SentBefore'
  <2>1. /\ [d EXCEPT !.heard = TRUE].from = d.from
        /\ [d EXCEPT !.heard = TRUE].age = d.age
    BY DEF Datagrams
  <2> QED BY <1>6, <2>1 DEF OnReadyRead
<1>7. ASSUME NEW d \in Datagrams, Lose(d) PROVE SentBefore'
  BY <1>7 DEF Lose
<1>8. CASE OnCleanupTick
  BY <1>8 DEF OnCleanupTick
<1>9. CASE Tick
  <2> SUFFICES ASSUME NEW e \in wire', e.from \in running'
               PROVE  e.age + broadcast'[e.from] >= 2
    OBVIOUS
  <2>1. PICK d \in wire : e = [d EXCEPT !.age = @ + 1]
    BY <1>9 DEF Tick
  <2>2. e.from = d.from /\ e.age = d.age + 1
    BY <2>1 DEF Datagrams
  <2>3. d.from \in running /\ d.from \in Nodes /\ d.age \in Nat
    BY <1>0, <1>9, <2>2 DEF Tick
  <2>4. broadcast'[d.from] = broadcast[d.from] - 1 /\ broadcast[d.from] \in Nat
    BY <1>9, <2>3 DEF Tick
  <2> QED BY <2>2, <2>3, <2>4
<1>10. CASE UNCHANGED vars
  BY <1>10 DEF vars
<1> QED
  BY <1>3, <1>4, <1>5, <1>6, <1>7, <1>8, <1>9, <1>10 DEF Next

\* A node that is steady runs.
LEMMA StepSteady ==
  TypeOK /\ steady \subseteq running /\ [Next]_vars => steady' \subseteq running'
BY DEF Next, vars, Start, Stop, OnBroadcastTick, OnReadyRead, Lose,
       OnCleanupTick, Tick

\* With few enough losses no steady peer expires.
LEMMA SteadyDoesNotExpire ==
  ASSUME (MaxLosses + 2) * BROADCAST_INTERVAL <= PEER_TTL,
         TypeOK, SteadyInv, NEW n \in Peers, n \in steady
  PROVE  ~Expired(n)
<1>1. n \in Nodes
  BY DEF Nodes
<1>2. losses[n] \in 0 .. MaxLosses /\ broadcast[n] \in 0 .. 2 /\ lastSeen[n] \in Nat
  BY <1>1, Periods DEF TypeOK, Ages
<1>3. n \in knownPeers => lastSeen[n] <= 2 * losses[n] + (2 - broadcast[n]) + 2
  BY <1>2, Periods DEF SteadyInv, HeardInTime
<1> QED
  BY <1>2, <1>3, Periods, LossesAssumption DEF Expired

LEMMA StepHeardInTime ==
  ASSUME (MaxLosses + 2) * BROADCAST_INTERVAL <= PEER_TTL
  PROVE  TypeOK /\ StaleInv /\ SteadyInv /\ [Next]_vars
           => \A n \in Peers : n \in knownPeers' /\ n \in steady' => HeardInTime(n)'
<1> SUFFICES ASSUME TypeOK, StaleInv, SteadyInv, [Next]_vars,
                    NEW n \in Peers, n \in knownPeers', n \in steady'
             PROVE  HeardInTime(n)'
  OBVIOUS
<1> USE Periods
<1>0. n \in Nodes /\ n # Self
  BY SelfAssumption DEF Nodes
<1>1. /\ losses[n] \in Nat /\ broadcast[n] \in 0 .. 2 /\ lastSeen[n] \in Nat
      /\ lastSeen \in [Nodes -> Ages] /\ losses \in [Nodes -> 0 .. MaxLosses]
      /\ broadcast \in [Nodes -> 0 .. 2]
  BY <1>0, LossesAssumption DEF TypeOK, Ages
<1>2. ASSUME n \in knownPeers, n \in steady
      PROVE  lastSeen[n] <= 2 * losses[n] + (2 - broadcast[n])
                              + (IF Pending(n) THEN 2 ELSE 0)
  BY <1>2 DEF SteadyInv, HeardInTime
<1>3. n \in knownPeers => Self \in running
  BY DEF StaleInv
\* Steps that leave all that the bound is about, or let it only grow.
<1>4. ASSUME n \in knownPeers, n \in steady, lastSeen'[n] = lastSeen[n],
             losses'[n] = losses[n], broadcast'[n] = broadcast[n],
             Pending(n) => Pending(n)'
      PROVE  HeardInTime(n)'
  BY <1>1, <1>2, <1>4 DEF HeardInTime
<1>5. ASSUME NEW m \in Nodes, Start(m) PROVE HeardInTime(n)'
  <2>1. n \in knownPeers /\ n \in steady /\ n # m
    BY <1>0, <1>5 DEF Start, knownPeers, SteadyInv
  <2>2. Pending(n) => Pending(n)'
    BY <1>5 DEF Start, Multicast, Pending
  <2> QED BY <1>1, <1>4, <1>5, <2>1, <2>2 DEF Start
<1>6. ASSUME NEW m \in Nodes, Stop(m) PROVE HeardInTime(n)'
  <2>1. m # Self
    BY <1>0, <1>6 DEF Stop, knownPeers
  <2>2. n \in knownPeers /\ n \in steady /\ n # m /\ wire' = wire
        /\ lastSeen' = lastSeen /\ losses' = losses
    BY <1>6, <2>1 DEF Stop, knownPeers
  <2>3. Pending(n) => Pending(n)'
    BY <2>2 DEF Pending
  <2> QED BY <1>0, <1>1, <1>4, <1>6, <2>2, <2>3 DEF Stop
<1>7. ASSUME NEW m \in Nodes, OnBroadcastTick(m) PROVE HeardInTime(n)'
  <2>1. n \in knownPeers /\ n \in steady /\ lastSeen' = lastSeen /\ losses' = losses
        /\ broadcast' = [broadcast EXCEPT ![m] = 2]
    BY <1>7 DEF OnBroadcastTick, knownPeers
  <2>2. CASE m # n
    <3>1. Pending(n) => Pending(n)'
      BY <1>7 DEF OnBroadcastTick, Multicast, Pending
    <3> QED BY <1>0, <1>1, <1>4, <2>1, <2>2, <3>1
  <2>3. CASE m = n
    <3>1. broadcast[n] = 0 /\ n \in running /\ broadcast'[n] = 2
      BY <1>1, <1>7, <2>1, <2>3, <1>0 DEF OnBroadcastTick
    <3>2. ~Pending(n)
      <4>1. \A d \in wire : d.age \in 0 .. 1
        BY DEF TypeOK, Datagrams
      <4>2. \A d \in wire : d.from = n => d.age + 0 >= 2
        BY <3>1 DEF SteadyInv, SentBefore
      <4> QED BY <4>1, <4>2 DEF Pending
    <3>3. Pending(n)'
      <4>1. [from |-> n, age |-> 0, heard |-> FALSE] \in wire'
        BY <1>3, <1>7, <2>1, <2>3 DEF OnBroadcastTick, Multicast
      <4> QED BY <4>1 DEF Pending
    <3> QED BY <1>1, <1>2, <2>1, <3>1, <3>2, <3>3 DEF HeardInTime
  <2> QED BY <2>2, <2>3
<1>8. ASSUME NEW d \in Datagrams, OnReadyRead(d) PROVE HeardInTime(n)'
  <2>1. d.from \in Nodes BY DEF Datagrams
  <2>2. CASE d.from = n
    <3>1. lastSeen'[n] = 0 /\ losses'[n] = 0 /\ broadcast'[n] = broadcast[n]
      BY <1>0, <1>1, <1>8, <2>2 DEF OnReadyRead, Heard
    <3> QED BY <1>1, <3>1 DEF HeardInTime
  <2>3. CASE d.from # n
    <3>1. /\ lastSeen'[n] = lastSeen[n] /\ losses'[n] = losses[n]
          /\ broadcast'[n] = broadcast[n]
      BY <1>0, <1>1, <1>8, <2>1, <2>3 DEF OnReadyRead, Heard
    <3>2. n \in knownPeers /\ n \in steady
      BY <1>0, <1>8, <2>3, <3>1 DEF OnReadyRead, knownPeers
    <3>3. Pending(n) => Pending(n)'
      BY <1>8, <2>3 DEF OnReadyRead, Pending
    <3> QED BY <1>4, <3>1, <3>2, <3>3
  <2> QED BY <2>2, <2>3
<1>9. ASSUME NEW d \in Datagrams, Lose(d) PROVE HeardInTime(n)'
  <2>1. /\ n \in knownPeers /\ n \in steady /\ lastSeen' = lastSeen
        /\ broadcast' = broadcast /\ wire' = wire \ {d}
    BY <1>9 DEF Lose, knownPeers
  <2>2. CASE losses'[n] = losses[n] + 1
    <3>1. lastSeen[n] <= 2 * losses[n] + (2 - broadcast[n]) + 2
      BY <1>1, <1>2, <2>1
    <3>2. lastSeen'[n] <= 2 * losses'[n] + (2 - broadcast'[n])
      BY <1>1, <2>1, <2>2, <3>1
    <3>3. lastSeen'[n] \in Nat /\ losses'[n] \in Nat /\ broadcast'[n] \in 0 .. 2
      BY <1>1, <2>1, <2>2
    <3> QED BY <3>2, <3>3 DEF HeardInTime
  <2>3. CASE losses'[n] = losses[n] /\ (d.from # n \/ d.heard)
    <3>1. Pending(n) => Pending(n)'
      BY <2>1, <2>3 DEF Pending
    <3> QED BY <1>4, <2>1, <2>3, <3>1
  <2>4. \/ losses'[n] = losses[n] + 1
        \/ losses'[n] = losses[n] /\ (d.from # n \/ d.heard)
    BY <1>0, <1>1, <1>9 DEF Lose
  <2> QED BY <2>2, <2>3, <2>4
<1>10. CASE OnCleanupTick
  <2>1. n \in steady /\ ~Expired(n)
    BY <1>10 DEF OnCleanupTick
  <2>2. lastSeen'[n] = lastSeen[n] /\ n \in knownPeers
    BY <1>0, <1>10, <2>1 DEF OnCleanupTick, knownPeers
  <2>3. wire' = wire /\ losses' = losses /\ broadcast' = broadcast
    BY <1>10 DEF OnCleanupTick
  <2>4. Pending(n) => Pending(n)'
    BY <2>3 DEF Pending
  <2> QED BY <1>4, <2>1, <2>2, <2>3, <2>4
<1>11. CASE Tick
  <2>1. n \in steady /\ n \in running
    BY <1>11 DEF Tick, SteadyInv
  <2>2. n \in knownPeers
    BY <1>0, <1>1, <1>11 DEF Tick, knownPeers
  <2>3. /\ lastSeen'[n] <= lastSeen[n] + 1 /\ lastSeen'[n] \in Nat
        /\ losses'[n] = losses[n] /\ broadcast'[n] = broadcast[n] - 1
    BY <1>0, <1>1, <1>11, <2>1, <2>2 DEF Tick
  <2>4. Pending(n) => Pending(n)'
    <3> SUFFICES ASSUME NEW d \in wire, d.from = n, ~d.heard PROVE Pending(n)'
      BY DEF Pending
    <3>1. [d EXCEPT !.age = @ + 1] \in wire'
      BY <1>11 DEF Tick
    <3>2. /\ [d EXCEPT !.age = @ + 1].from = n
          /\ ~[d EXCEPT !.age = @ + 1].heard
      BY DEF TypeOK, Datagrams
    <3> QED BY <3>1, <3>2 DEF Pending
  <2> QED BY <1>1, <1>2, <2>1, <2>2, <2>3, <2>4 DEF HeardInTime
<1>12. CASE UNCHANGED vars
  <2>1. Pending(n)' <=> Pending(n)
    BY <1>12 DEF vars, Pending
  <2> QED BY <1>4, <1>12, <2>1 DEF vars, knownPeers
<1> QED
  BY <1>5, <1>6, <1>7, <1>8, <1>9, <1>10, <1>11, <1>12 DEF Next

\* A step that drops an entry drops an expired one, or stops Self.
LEMMA OnlyExpiredDropped ==
  ASSUME TypeOK, [Next]_vars, NEW n \in Peers, n \in knownPeers, ~Expired(n),
         Self \in running'
  PROVE  n \in knownPeers'
<1> USE Periods DEF TypeOK, Ages, knownPeers
<1>0. n \in Nodes /\ lastSeen[n] \in Nat /\ lastSeen[n] # 16
  BY DEF Nodes
<1>1. ASSUME NEW m \in Nodes, Stop(m) PROVE n \in knownPeers'
  BY <1>0, <1>1 DEF Stop
<1>2. ASSUME NEW d \in Datagrams, OnReadyRead(d) PROVE n \in knownPeers'
  BY <1>0, <1>2 DEF OnReadyRead, Heard
<1>3. CASE OnCleanupTick
  BY <1>0, <1>3 DEF OnCleanupTick
<1>4. CASE Tick
  BY <1>0, <1>4 DEF Tick
<1>5. CASE UNCHANGED lastSeen
  BY <1>0, <1>5
<1> QED
  BY <1>1, <1>2, <1>3, <1>4, <1>5
     DEF Next, vars, Start, OnBroadcastTick, Lose

\* For every number of losses in a row that the time to live has room for,
\* beside one broadcast that is on the way and one that is not yet due, the
\* cleanup of onCleanupTick never drops a peer that runs on.
THEOREM SteadyIsKept ==
  ASSUME (MaxLosses + 2) * BROADCAST_INTERVAL <= PEER_TTL
  PROVE  Spec => SteadyStaysKnown
<1> DEFINE Kept == \A n \in Peers :
                     (n \in knownPeers /\ n \in steady /\ Self \in running')
                       => n \in knownPeers'
<1>1. Init => SteadyInv
  BY DEF Init, SteadyInv, SentBefore, knownPeers
<1>2. Init => StaleInv
  BY Periods DEF Init, StaleInv, StaleForOneInterval, knownPeers
<1>3. TypeOK /\ StaleInv /\ SteadyInv /\ [Next]_vars => SteadyInv'
  <2>1. TypeOK /\ SteadyInv /\ [Next]_vars => SentBefore' /\ steady' \subseteq running'
    BY StepSentBefore, StepSteady DEF SteadyInv
  <2> QED BY <2>1, StepHeardInTime DEF SteadyInv
<1>4. TypeOK /\ SteadyInv /\ [Next]_vars => Kept
  BY SteadyDoesNotExpire, OnlyExpiredDropped
<1>5. TypeOK /\ SteadyInv /\ [Next]_vars => [Kept]_vars
  BY <1>4
<1> HIDE DEF Kept
<1>6. Spec => [][Kept]_vars
  BY <1>1, <1>2, <1>3, <1>5, StepStale, TypeCorrect, PTL DEF Spec
<1> QED BY <1>6 DEF Kept, SteadyStaysKnown
=============================================================================
