--------------------------- MODULE Startup_proofs ----------------------------
(***************************************************************************)
(* Proofs about module Startup, for any number of starts, calls and moves  *)
(* of the other process.                                                   *)
(***************************************************************************)
EXTENDS Startup, TLAPS

Holders == {Other} \union {Server(i) : i \in Starts} \union {Probe(i) : i \in Starts}

Calls == [call : {"createClient", "connect"}]
         \union [call : {"detectionFinished"}, start : Starts,
                 state : FirewallStates, reachable : BOOLEAN]

ServerRecords == [state : {"none", "created", "listening", "failed"},
                  met : SUBSET Holders]
WorkerRecords == [stage : {"none", "detecting", "first", "second", "bound", "ended"},
                  state : FirewallStates]

\* What each variable holds.
Shape ==
  /\ status \in {"running", "closed", "crashed"}
  /\ starts \in 0 .. MaxStarts
  /\ early \in BOOLEAN
  /\ client \in Nat
  /\ posted \in Seq(Calls)
  /\ bound \subseteq Holders
  /\ servers \in [Starts -> ServerRecords]
  /\ workers \in [Starts -> WorkerRecords]
  /\ told \subseteq 1 .. starts

\* Servers and workers belong to starts that have been made, and so do the
\* results that are under way.
MadeByStarts ==
  /\ \A i \in Starts : servers[i].state # "none" => i <= starts
  /\ \A i \in Starts : workers[i].stage # "none" => i <= starts
  /\ \A n \in 1 .. Len(posted) :
       posted[n].call = "detectionFinished" => posted[n].start <= starts

\* Who listens has bound the port, and no two holders exclude one another.
PortIsShared ==
  /\ Running => \A i \in Starts :
       servers[i].state = "listening" <=> Server(i) \in bound
  /\ \A h, k \in bound : h # k => ~Excludes(h, k)

\* clients[n] is the number of clients there will have been once the first n
\* posted calls are done: each creation counts one, all of them make one for
\* each start, and a call of the client finds one unless it was made early.
Foreseen(clients) ==
  /\ clients \in [0 .. Len(posted) -> 0 .. starts]
  /\ clients[0] = client
  /\ clients[Len(posted)] = starts
  /\ \A n \in 1 .. Len(posted) :
       /\ clients[n] = (IF posted[n].call = "createClient"
                        THEN clients[n - 1] + 1 ELSE clients[n - 1])
       /\ posted[n].call = "connect" => early \/ clients[n - 1] > 0

QueueInOrder == \E clients \in [0 .. Len(posted) -> 0 .. starts] : Foreseen(clients)

\* The inductive invariant.
StartupInv == /\ Shape /\ MadeByStarts /\ PortIsShared /\ QueueInOrder
              /\ CrashesOnlyEarlyOrWhileDetecting

-----------------------------------------------------------------------------
LEMMA InitStartup == Init => StartupInv
<1> SUFFICES ASSUME Init PROVE StartupInv
  OBVIOUS
<1> USE StartupBoundsAssumption DEF Init
<1>1. Shape
  <2>1. bound \subseteq Holders
    BY DEF Holders
  <2>2. servers \in [Starts -> ServerRecords]
    BY DEF ServerRecords
  <2>3. workers \in [Starts -> WorkerRecords]
    BY DEF WorkerRecords, FirewallStates
  <2>4. posted \in Seq(Calls)
    OBVIOUS
  <2>5. starts \in 0 .. MaxStarts /\ client \in Nat /\ told \subseteq 1 .. starts
    OBVIOUS
  <2>6. early \in BOOLEAN /\ status \in {"running", "closed", "crashed"}
    OBVIOUS
  <2> HIDE DEF Init
  <2> QED
    BY <2>1, <2>2, <2>3, <2>4, <2>5, <2>6 DEF Shape
<1>2. MadeByStarts
  BY DEF MadeByStarts, Starts
<1>3. PortIsShared
  BY DEF PortIsShared, Server, Other, Starts
<1>4. QueueInOrder
  <2> DEFINE clients == [n \in 0 .. Len(posted) |-> 0]
  <2>1. clients \in [0 .. Len(posted) -> 0 .. starts] /\ Foreseen(clients)
    BY DEF Foreseen
  <2> QED
    BY <2>1 DEF QueueInOrder
<1>5. CrashesOnlyEarlyOrWhileDetecting
  BY DEF CrashesOnlyEarlyOrWhileDetecting
<1> QED
  BY <1>1, <1>2, <1>3, <1>4, <1>5 DEF StartupInv

\* A call posted at the end keeps the queue in order.
LEMMA PostKeepsOrder ==
  ASSUME Shape, QueueInOrder, NEW call \in Calls,
         posted' = Append(posted, call),
         client' = client, early \in BOOLEAN, early' \in BOOLEAN, early => early',
         \/ call.call = "createClient" /\ starts' = starts + 1
         \/ call.call = "connect" /\ starts' = starts /\ (early' \/ starts > 0)
         \/ call.call = "detectionFinished" /\ starts' = starts
  PROVE  QueueInOrder'
<1>1. PICK clients \in [0 .. Len(posted) -> 0 .. starts] : Foreseen(clients)
  BY DEF QueueInOrder
<1>2. /\ Len(posted) \in Nat /\ starts \in Nat /\ starts' \in Nat
      /\ starts' >= starts
      /\ Len(posted') = Len(posted) + 1
      /\ \A n \in 1 .. Len(posted) : posted'[n] = posted[n]
      /\ posted'[Len(posted) + 1] = call
  BY DEF Shape
<1>3. PICK more \in [0 .. Len(posted') -> 0 .. starts'] :
        \A n \in 0 .. Len(posted') :
          more[n] = IF n <= Len(posted) THEN clients[n] ELSE starts'
  <2> DEFINE m == [n \in 0 .. Len(posted') |->
                     IF n <= Len(posted) THEN clients[n] ELSE starts']
  <2>1. m \in [0 .. Len(posted') -> 0 .. starts']
    BY <1>2
  <2> QED
    BY <2>1
<1>4. more[0] = client' /\ more[Len(posted')] = starts'
  BY <1>1, <1>2, <1>3 DEF Foreseen
<1>5. ASSUME NEW n \in 1 .. Len(posted')
      PROVE  /\ more[n] = (IF posted'[n].call = "createClient"
                           THEN more[n - 1] + 1 ELSE more[n - 1])
             /\ posted'[n].call = "connect" => early' \/ more[n - 1] > 0
  <2>1. CASE n <= Len(posted)
    <3>1. more[n] = clients[n] /\ more[n - 1] = clients[n - 1]
      BY <1>2, <1>3, <2>1
    <3>2. posted'[n] = posted[n] /\ n \in 1 .. Len(posted)
      BY <1>2, <2>1
    <3> QED
      BY <1>1, <3>1, <3>2 DEF Foreseen
  <2>2. CASE n = Len(posted) + 1
    <3>1. more[n] = starts' /\ more[n - 1] = starts
      BY <1>1, <1>2, <1>3, <2>2 DEF Foreseen
    <3> QED
      BY <1>2, <2>2, <3>1
  <2> QED
    BY <1>2, <2>1, <2>2
<1>6. Foreseen(more)'
  BY <1>3, <1>4, <1>5 DEF Foreseen
<1> QED
  BY <1>3, <1>6 DEF QueueInOrder

\* So does the taking of the first one.
LEMMA TakeKeepsOrder ==
  ASSUME Shape, QueueInOrder, posted # <<>>,
         posted' = Tail(posted), starts' = starts, early' = early,
         client' = (IF Head(posted).call = "createClient" THEN client + 1 ELSE client)
  PROVE  /\ QueueInOrder'
         /\ Head(posted).call = "connect" => early \/ client > 0
<1>1. PICK clients \in [0 .. Len(posted) -> 0 .. starts] : Foreseen(clients)
  BY DEF QueueInOrder
<1>2. /\ Len(posted) \in Nat /\ Len(posted) > 0
      /\ Len(posted') = Len(posted) - 1
      /\ \A n \in 1 .. Len(posted') : posted'[n] = posted[n + 1]
      /\ Head(posted) = posted[1]
  BY DEF Shape
<1>3. PICK rest \in [0 .. Len(posted') -> 0 .. starts'] :
        \A n \in 0 .. Len(posted') : rest[n] = clients[n + 1]
  <2> DEFINE m == [n \in 0 .. Len(posted') |-> clients[n + 1]]
  <2>1. m \in [0 .. Len(posted') -> 0 .. starts']
    BY <1>2
  <2> QED
    BY <2>1
<1>4. rest[0] = client' /\ rest[Len(posted')] = starts'
  BY <1>1, <1>2, <1>3 DEF Foreseen
<1>5. ASSUME NEW n \in 1 .. Len(posted')
      PROVE  /\ rest[n] = (IF posted'[n].call = "createClient"
                           THEN rest[n - 1] + 1 ELSE rest[n - 1])
             /\ posted'[n].call = "connect" => early' \/ rest[n - 1] > 0
  <2>1. rest[n] = clients[n + 1] /\ rest[n - 1] = clients[n]
    BY <1>2, <1>3
  <2>2. posted'[n] = posted[n + 1] /\ n + 1 \in 1 .. Len(posted) /\ (n + 1) - 1 = n
    BY <1>2
  <2> QED
    BY <1>1, <2>1, <2>2 DEF Foreseen
<1>6. Foreseen(rest)'
  BY <1>3, <1>4, <1>5 DEF Foreseen
<1>7. Head(posted).call = "connect" => early \/ client > 0
  BY <1>1, <1>2 DEF Foreseen
<1> QED
  BY <1>3, <1>6, <1>7 DEF QueueInOrder

-----------------------------------------------------------------------------
\* What a step leaves alone.
LEMMA StartupStutter == StartupInv /\ UNCHANGED vars => StartupInv'
<1> SUFFICES ASSUME StartupInv, UNCHANGED vars PROVE StartupInv'
  OBVIOUS
<1> USE DEF vars
<1>1. Shape' /\ MadeByStarts'
  BY DEF StartupInv, Shape, MadeByStarts
<1>2. PortIsShared'
  BY DEF StartupInv, PortIsShared, Running, Excludes
<1>3. QueueInOrder'
  BY DEF StartupInv, QueueInOrder, Foreseen
<1>4. CrashesOnlyEarlyOrWhileDetecting'
  BY DEF StartupInv, CrashesOnlyEarlyOrWhileDetecting, Idle
<1> QED
  BY <1>1, <1>2, <1>3, <1>4 DEF StartupInv

\* The variables keep their types.
LEMMA StepShape == Shape /\ MadeByStarts /\ Next => Shape'
<1> SUFFICES ASSUME Shape, MadeByStarts, Next PROVE Shape'
  OBVIOUS
<1> USE StartupBoundsAssumption DEF Shape
<1>1. CASE PressInvalid
  BY <1>1 DEF PressInvalid, network, window
<1>2. CASE PressStart
  <2>1. starts + 1 \in Starts
    BY <1>2 DEF PressStart, Starts
  <2>2. servers' \in [Starts -> ServerRecords]
    BY <1>2, <2>1 DEF PressStart, ServerRecords
  <2>3. workers' \in [Starts -> WorkerRecords]
    BY <1>2, <2>1 DEF PressStart, WorkerRecords
  <2>4. posted' \in Seq(Calls)
    <3>1. [call |-> "createClient"] \in Calls
      BY DEF Calls
    <3> QED
      BY <1>2, <3>1 DEF PressStart
  <2>5. starts' \in 0 .. MaxStarts /\ told' \subseteq 1 .. starts'
    BY <1>2 DEF PressStart
  <2> QED
    BY <1>2, <2>2, <2>3, <2>4, <2>5 DEF PressStart
<1>3. CASE PressWrite
  <2>1. [call |-> "connect"] \in Calls
    BY DEF Calls
  <2>2. posted' \in Seq(Calls)
    BY <1>3, <2>1 DEF PressWrite
  <2>3. early' \in BOOLEAN
    BY <1>3 DEF PressWrite
  <2> QED
    BY <1>3, <2>2, <2>3 DEF PressWrite, network
<1>4. CASE CloseWindow
  <2>1. status' \in {"running", "closed", "crashed"} /\ bound' \subseteq Holders
    BY <1>4 DEF CloseWindow
  <2> QED
    BY <1>4, <2>1 DEF CloseWindow, window
<1>5. ASSUME NEW accepted \in BOOLEAN, CloseBox(accepted) PROVE Shape'
  BY <1>5 DEF CloseBox, network, window
<1>6. CASE TakePosted
  <2>1. posted' \in Seq(Calls)
    BY <1>6 DEF TakePosted
  <2>2. /\ status' \in {"running", "closed", "crashed"} /\ client' \in Nat
    BY <1>6 DEF TakePosted
  <2>3. told' \subseteq 1 .. starts
    <3>1. ASSUME Head(posted).call = "detectionFinished"
          PROVE  Head(posted).start \in 1 .. starts
      <4>1. posted[1] = Head(posted) /\ posted[1] \in Calls /\ 1 \in 1 .. Len(posted)
        BY <1>6 DEF TakePosted
      <4>2. Head(posted).start \in Starts
        BY <3>1, <4>1 DEF Calls
      <4> QED
        BY <3>1, <4>1, <4>2 DEF MadeByStarts, Starts
    <3> QED
      BY <1>6, <3>1 DEF TakePosted, ShowGuidance
  <2> QED
    BY <1>6, <2>1, <2>2, <2>3 DEF TakePosted, network, window
<1>7. CASE OtherMoves
  <2>1. bound' \subseteq Holders
    BY <1>7 DEF OtherMoves, Holders
  <2> QED
    BY <1>7, <2>1 DEF OtherMoves, window
<1>8. ASSUME NEW i \in Starts, Listen(i) PROVE Shape'
  <2>1. bound' \subseteq Holders
    BY <1>8 DEF Listen, Holders
  <2>2. servers' \in [Starts -> ServerRecords]
    <3>1. Meets(Server(i)) \subseteq Holders
      BY DEF Meets
    <3>2. [state |-> "failed", met |-> Meets(Server(i))] \in ServerRecords
      BY <3>1 DEF ServerRecords
    <3>3. [servers[i] EXCEPT !.state = "listening"] \in ServerRecords
      BY DEF ServerRecords
    <3> QED
      BY <1>8, <3>2, <3>3 DEF Listen
  <2> QED
    BY <1>8, <2>1, <2>2 DEF Listen, window
<1>9. ASSUME NEW i \in Starts, Detect(i) PROVE Shape'
  <2>1. workers' \in [Starts -> WorkerRecords]
    BY <1>9 DEF Detect, WorkerRecords
  <2> QED
    BY <1>9, <2>1 DEF Detect, window
<1>10. ASSUME NEW i \in Starts, NEW reachable \in BOOLEAN,
              posted' = Finished(i, workers[i].state, reachable)
       PROVE  posted' \in Seq(Calls)
  <2>1. workers[i].state \in FirewallStates
    BY DEF WorkerRecords
  <2>2. [call |-> "detectionFinished", start |-> i, state |-> workers[i].state,
         reachable |-> reachable] \in Calls
    BY <2>1 DEF Calls
  <2> QED
    BY <1>10, <2>2 DEF Finished
<1>11. ASSUME NEW i \in Starts, TryPort(i) PROVE Shape'
  <2>1. bound' \subseteq Holders
    BY <1>11 DEF TryPort, Holders
  <2>2. workers' \in [Starts -> WorkerRecords]
    BY <1>11 DEF TryPort, WorkerRecords
  <2>3. posted' \in Seq(Calls)
    BY <1>10, <1>11 DEF TryPort
  <2> QED
    BY <1>11, <2>1, <2>2, <2>3 DEF TryPort, window
<1>12. ASSUME NEW i \in Starts, ReleasePort(i) PROVE Shape'
  <2>1. workers' \in [Starts -> WorkerRecords]
    BY <1>12 DEF ReleasePort, WorkerRecords
  <2>2. posted' \in Seq(Calls)
    BY <1>10, <1>12 DEF ReleasePort
  <2> QED
    BY <1>12, <2>1, <2>2 DEF ReleasePort, window
<1> QED
  BY <1>1, <1>2, <1>3, <1>4, <1>5, <1>6, <1>7, <1>8, <1>9, <1>11, <1>12
     DEF Next, User, Step

\* A start comes before its server, its worker and their results.
LEMMA StepMade == Shape /\ MadeByStarts /\ Next => MadeByStarts'
<1> SUFFICES ASSUME Shape, MadeByStarts, Next PROVE MadeByStarts'
  OBVIOUS
<1> USE DEF MadeByStarts
<1>1. starts \in Nat /\ starts' \in Nat /\ starts' >= starts /\ Len(posted) \in Nat
  <2>1. starts' = starts \/ starts' = starts + 1
    BY DEF Next, User, Step, PressInvalid, PressStart, PressWrite, CloseWindow,
           CloseBox, TakePosted, OtherMoves, Listen, Detect, TryPort,
           ReleasePort, window
  <2> QED
    BY <2>1 DEF Shape
<1>2. ASSUME NEW call \in Calls, posted' = Append(posted, call),
             call.call = "detectionFinished" => call.start <= starts'
      PROVE  \A n \in 1 .. Len(posted') :
               posted'[n].call = "detectionFinished" => posted'[n].start <= starts'
  <2>1. /\ Len(posted') = Len(posted) + 1
        /\ \A n \in 1 .. Len(posted) : posted'[n] = posted[n]
        /\ posted'[Len(posted) + 1] = call
    BY <1>2 DEF Shape
  <2> SUFFICES ASSUME NEW n \in 1 .. Len(posted'),
                      posted'[n].call = "detectionFinished"
               PROVE  posted'[n].start <= starts'
    OBVIOUS
  <2>2. CASE n \in 1 .. Len(posted)
    <3>1. posted[n].call = "detectionFinished" /\ posted[n].start <= starts
      BY <2>1, <2>2
    <3>2. posted[n] \in Calls
      BY <2>2 DEF Shape
    <3>3. posted[n].start \in Nat
      BY <3>1, <3>2 DEF Calls, Starts
    <3> QED
      BY <1>1, <2>1, <2>2, <3>1, <3>3
  <2>3. CASE n = Len(posted) + 1
    BY <1>2, <2>1, <2>3
  <2> QED
    BY <1>1, <2>1, <2>2, <2>3
<1>3. CASE PressStart
  <2>1. [call |-> "createClient"] \in Calls
    BY DEF Calls
  <2>2. \A i \in Starts : i <= starts => i <= starts'
    BY <1>1 DEF Starts
  <2>3. starts' = starts + 1
    BY <1>3 DEF PressStart
  <2>4. \A i \in Starts : /\ servers'[i].state # "none" => i <= starts'
                          /\ workers'[i].stage # "none" => i <= starts'
    BY <1>1, <1>3, <2>2, <2>3 DEF PressStart, Shape, Starts
  <2> QED
    BY <1>2, <1>3, <2>1, <2>4 DEF PressStart
<1>4. CASE PressWrite
  <2>1. [call |-> "connect"] \in Calls
    BY DEF Calls
  <2> QED
    BY <1>2, <1>4, <2>1 DEF PressWrite, network
<1>5. CASE TakePosted
  <2>1. /\ Len(posted') = Len(posted) - 1
        /\ \A n \in 1 .. Len(posted') :
             n + 1 \in 1 .. Len(posted) /\ posted'[n] = posted[n + 1]
    BY <1>5 DEF TakePosted, Shape
  <2>2. starts' = starts /\ UNCHANGED network
    BY <1>5 DEF TakePosted, window
  <2> QED
    BY <2>1, <2>2 DEF network
<1>6. ASSUME NEW i \in Starts, Listen(i) PROVE MadeByStarts'
  BY <1>6 DEF Listen, window, Shape
<1>7. ASSUME NEW i \in Starts, Detect(i) PROVE MadeByStarts'
  BY <1>7 DEF Detect, window, Shape
<1>8. ASSUME NEW i \in Starts, NEW reachable \in BOOLEAN,
             workers[i].stage # "none", starts' = starts,
             posted' = Finished(i, workers[i].state, reachable)
      PROVE  \A n \in 1 .. Len(posted') :
               posted'[n].call = "detectionFinished" => posted'[n].start <= starts'
  <2> DEFINE call == [call |-> "detectionFinished", start |-> i,
                      state |-> workers[i].state, reachable |-> reachable]
  <2>1. workers[i].state \in FirewallStates
    BY DEF Shape, WorkerRecords
  <2>2. call \in Calls /\ call.start <= starts'
    BY <1>8, <2>1 DEF Calls
  <2>3. posted' = Append(posted, call)
    BY <1>8 DEF Finished
  <2> HIDE DEF call
  <2> QED
    BY <1>2, <2>2, <2>3
<1>9. ASSUME NEW i \in Starts, TryPort(i) PROVE MadeByStarts'
  <2>1. \A j \in Starts : workers'[j].stage # "none" => workers[j].stage # "none"
    BY <1>9 DEF TryPort, Shape
  <2>2. UNCHANGED <<starts, servers>>
    BY <1>9 DEF TryPort, window
  <2>3. posted' = posted \/ posted' = Finished(i, workers[i].state, FALSE)
    BY <1>9 DEF TryPort
  <2>4. workers[i].stage # "none"
    BY <1>9 DEF TryPort
  <2> QED
    BY <1>8, <2>1, <2>2, <2>3, <2>4
<1>10. ASSUME NEW i \in Starts, ReleasePort(i) PROVE MadeByStarts'
  <2>1. \A j \in Starts : workers'[j].stage # "none" => workers[j].stage # "none"
    BY <1>10 DEF ReleasePort, Shape
  <2>2. UNCHANGED <<starts, servers>>
    BY <1>10 DEF ReleasePort, window
  <2> QED
    BY <1>8, <1>10, <2>1, <2>2 DEF ReleasePort
<1>11. CASE UNCHANGED <<starts, servers, workers, posted>>
  BY <1>11
<1> QED
  BY <1>3, <1>4, <1>5, <1>6, <1>7, <1>9, <1>10, <1>11
     DEF Next, User, Step, PressInvalid, CloseWindow, CloseBox, OtherMoves,
         network, window

\* Who binds the port excludes none that has it, and a server binds it once.
LEMMA StepPort == Shape /\ MadeByStarts /\ PortIsShared /\ Next => PortIsShared'
<1> SUFFICES ASSUME Shape, MadeByStarts, PortIsShared, Next PROVE PortIsShared'
  OBVIOUS
<1>1. ASSUME clash' = clash, NEW h, bound' = bound \union {h}, Meets(h) = {}
      PROVE  \A k, l \in bound' : k # l => ~Excludes(k, l)'
  <2>1. \A k \in bound : ~Excludes(h, k)
    BY <1>1 DEF Meets
  <2>2. \A k, l : Excludes(k, l)' = Excludes(k, l) /\ Excludes(k, l) = Excludes(l, k)
    BY <1>1 DEF Excludes
  <2> QED
    BY <1>1, <2>1, <2>2 DEF PortIsShared
<1>2. ASSUME clash' = clash, bound' \subseteq bound
      PROVE  \A k, l \in bound' : k # l => ~Excludes(k, l)'
  BY <1>2 DEF PortIsShared, Excludes
<1>3. \A i, j \in Starts :
        /\ Server(i) # Other /\ Server(i) # Probe(j) /\ (Server(i) = Server(j) => i = j)
  BY DEF Server, Probe, Other
<1>4. CASE PressStart
  <2>1. starts + 1 \in Starts /\ servers[starts + 1].state = "none"
    BY <1>4, StartupBoundsAssumption DEF PressStart, Shape, MadeByStarts, Starts
  <2>2. \A i \in Starts : servers'[i].state = "listening" <=> servers[i].state = "listening"
    BY <1>4, <2>1 DEF PressStart, Shape, ServerRecords
  <2> QED
    BY <1>2, <1>4, <2>2 DEF PressStart, PortIsShared, Running
<1>5. CASE CloseWindow
  BY <1>2, <1>5 DEF CloseWindow, PortIsShared, Running
<1>6. ASSUME NEW i \in Starts, Listen(i) PROVE PortIsShared'
  <2>1. CASE /\ Meets(Server(i)) = {}
             /\ bound' = bound \union {Server(i)}
             /\ servers' = [servers EXCEPT ![i].state = "listening"]
    <3>1. clash' = clash /\ servers' = [servers EXCEPT ![i].state = "listening"]
      BY <1>6, <2>1 DEF Listen
    <3>2. \A j \in Starts : servers'[j].state = "listening"
                              <=> (j = i \/ servers[j].state = "listening")
      BY <3>1 DEF Shape, ServerRecords
    <3> QED
      BY <1>1, <1>3, <1>6, <2>1, <3>1, <3>2 DEF PortIsShared, Listen, Running
  <2>2. CASE /\ servers' = [servers EXCEPT ![i] = [state |-> "failed",
                                                   met |-> Meets(Server(i))]]
             /\ UNCHANGED bound
    <3>1. /\ bound' = bound /\ clash' = clash /\ servers[i].state = "created"
          /\ servers' = [servers EXCEPT ![i] = [state |-> "failed",
                                                met |-> Meets(Server(i))]]
      BY <1>6, <2>2 DEF Listen
    <3>2. \A j \in Starts : servers'[j].state = "listening"
                              <=> servers[j].state = "listening"
      BY <3>1 DEF Shape, ServerRecords
    <3> QED
      BY <1>2, <1>6, <3>1, <3>2 DEF PortIsShared, Listen, Running
  <2> QED
    BY <1>6, <2>1, <2>2 DEF Listen
<1>7. ASSUME NEW i \in Starts, TryPort(i) PROVE PortIsShared'
  <2>1. CASE bound' = bound
    BY <1>2, <1>7, <2>1 DEF PortIsShared, TryPort, Running
  <2>2. CASE bound' = bound \union {Probe(i)} /\ Meets(Probe(i)) = {}
    BY <1>1, <1>3, <1>7, <2>2 DEF PortIsShared, TryPort, Running
  <2> QED
    BY <1>7, <2>1, <2>2 DEF TryPort
<1>8. ASSUME NEW i \in Starts, ReleasePort(i) PROVE PortIsShared'
  BY <1>2, <1>3, <1>8 DEF PortIsShared, ReleasePort, Running
<1>9. CASE OtherMoves
  <2>1. CASE Meets(Other) = {} /\ bound' = bound \union {Other}
    BY <1>1, <1>3, <1>9, <2>1 DEF PortIsShared, OtherMoves, Running
  <2>2. CASE bound' = bound \ {Other}
    BY <1>2, <1>3, <1>9, <2>2 DEF PortIsShared, OtherMoves, Running
  <2> QED
    BY <1>9, <2>1, <2>2 DEF OtherMoves
<1>10. CASE UNCHANGED <<servers, bound, clash>> /\ (Running' => Running)
  BY <1>2, <1>10 DEF PortIsShared
<1>11. ASSUME NEW i \in Starts, Detect(i) PROVE PortIsShared'
  BY <1>10, <1>11 DEF Detect, Running
<1>12. CASE PressInvalid \/ PressWrite \/ TakePosted
  BY <1>10, <1>12 DEF PressInvalid, PressWrite, TakePosted, UserFree, Running, network
<1>13. ASSUME NEW accepted \in BOOLEAN, CloseBox(accepted) PROVE PortIsShared'
  BY <1>10, <1>13 DEF CloseBox, Running, network
<1> QED
  BY <1>4, <1>5, <1>6, <1>7, <1>8, <1>9, <1>11, <1>12, <1>13 DEF Next, User, Step

\* The creation of a client stays before the calls of it.
LEMMA StepQueue ==
  Shape /\ Shape' /\ MadeByStarts /\ QueueInOrder /\ Next => QueueInOrder'
<1> SUFFICES ASSUME Shape, Shape', MadeByStarts, QueueInOrder, Next
             PROVE  QueueInOrder'
  OBVIOUS
<1>1. early \in BOOLEAN /\ early' \in BOOLEAN /\ starts \in Nat
  BY DEF Shape
<1>2. CASE PressStart
  <2>1. [call |-> "createClient"] \in Calls
    BY DEF Calls
  <2> QED
    BY <1>1, <1>2, <2>1, PostKeepsOrder DEF PressStart
<1>3. CASE PressWrite
  <2>1. [call |-> "connect"] \in Calls
    BY DEF Calls
  <2>2. early => early'
    BY <1>1, <1>3 DEF PressWrite
  <2>3. early' \/ starts > 0
    <3>1. starts = 0 => early'
      BY <1>3, Zenon DEF PressWrite
    <3> QED
      BY <1>1, <3>1
  <2>4. posted' = Append(posted, [call |-> "connect"]) /\ UNCHANGED <<starts, client>>
    BY <1>3 DEF PressWrite
  <2> QED
    BY <1>1, <2>1, <2>2, <2>3, <2>4, PostKeepsOrder
<1>4. CASE TakePosted
  <2>1. client' = IF Head(posted).call = "createClient" THEN client + 1 ELSE client
    BY <1>4 DEF TakePosted
  <2> QED
    BY <1>4, <2>1, TakeKeepsOrder DEF TakePosted, window
<1>5. ASSUME NEW i \in Starts, NEW reachable \in BOOLEAN,
             posted' = Finished(i, workers[i].state, reachable),
             UNCHANGED <<starts, early, client>>
      PROVE  QueueInOrder'
  <2> DEFINE call == [call |-> "detectionFinished", start |-> i,
                      state |-> workers[i].state, reachable |-> reachable]
  <2>1. workers[i].state \in FirewallStates
    BY DEF Shape, WorkerRecords
  <2>2. call \in Calls /\ call.call = "detectionFinished"
    BY <2>1 DEF Calls
  <2>3. posted' = Append(posted, call)
    BY <1>5 DEF Finished
  <2> HIDE DEF call
  <2> QED
    BY <1>1, <1>5, <2>2, <2>3, PostKeepsOrder
<1>6. CASE UNCHANGED <<posted, starts, early, client>>
  BY <1>6 DEF QueueInOrder, Foreseen
<1>7. ASSUME NEW i \in Starts, TryPort(i) PROVE QueueInOrder'
  BY <1>5, <1>6, <1>7 DEF TryPort, window
<1>8. ASSUME NEW i \in Starts, ReleasePort(i) PROVE QueueInOrder'
  BY <1>5, <1>8 DEF ReleasePort, window
<1>9. ASSUME NEW i \in Starts, Listen(i) \/ Detect(i) PROVE QueueInOrder'
  BY <1>6, <1>9 DEF Listen, Detect, window
<1>10. CASE PressInvalid \/ CloseWindow \/ OtherMoves
  BY <1>6, <1>10 DEF PressInvalid, CloseWindow, OtherMoves, window
<1>11. ASSUME NEW accepted \in BOOLEAN, CloseBox(accepted) PROVE QueueInOrder'
  BY <1>6, <1>11 DEF CloseBox, window
<1> QED
  BY <1>2, <1>3, <1>4, <1>7, <1>8, <1>9, <1>10, <1>11 DEF Next, User, Step

\* A crash is the last step, and either a call that finds no client or the
\* end of a window whose worker goes on.
LEMMA StepCrash ==
  Shape /\ QueueInOrder /\ CrashesOnlyEarlyOrWhileDetecting /\ Next
    => CrashesOnlyEarlyOrWhileDetecting'
<1> SUFFICES ASSUME Shape, QueueInOrder, Next, status' = "crashed"
             PROVE  early' \/ \E i \in Starts : ~Idle(i)'
  BY DEF CrashesOnlyEarlyOrWhileDetecting
<1>1. Running
  BY DEF Next, User, Step, PressInvalid, PressStart, PressWrite, CloseWindow,
         CloseBox, TakePosted, OtherMoves, Listen, Detect, TryPort, ReleasePort,
         UserFree
<1>2. TakePosted \/ CloseWindow
  BY <1>1 DEF Next, User, Step, PressInvalid, PressStart, PressWrite, CloseBox,
         OtherMoves, Listen, Detect, TryPort, ReleasePort, Running
<1>3. CASE TakePosted
  <2>1. Head(posted).call = "connect" /\ client = 0
    BY <1>1, <1>3 DEF TakePosted, Running
  <2>2. client' = IF Head(posted).call = "createClient" THEN client + 1 ELSE client
    BY <1>3 DEF TakePosted
  <2>3. early \/ client > 0
    <3>1. /\ posted # <<>> /\ posted' = Tail(posted)
          /\ UNCHANGED <<starts, early>>
      BY <1>3 DEF TakePosted, window
    <3> QED
      BY <2>1, <2>2, <3>1, TakeKeepsOrder
  <2> QED
    BY <1>3, <2>1, <2>3 DEF TakePosted, window
<1>4. CASE CloseWindow
  BY <1>1, <1>4 DEF CloseWindow, Idle, Running
<1> QED
  BY <1>2, <1>3, <1>4

LEMMA StepStartup == StartupInv /\ [Next]_vars => StartupInv'
<1>1. StartupInv /\ Next => StartupInv'
  BY StepShape, StepMade, StepPort, StepQueue, StepCrash DEF StartupInv
<1> QED
  BY <1>1, StartupStutter

\* The queue's account of clients bounds them by the starts.
LEMMA StartupInvTypes == StartupInv => StartupTypeOK
<1> SUFFICES ASSUME StartupInv PROVE StartupTypeOK
  OBVIOUS
<1>1. PICK clients \in [0 .. Len(posted) -> 0 .. starts] : Foreseen(clients)
  BY DEF StartupInv, QueueInOrder
<1>2. client \in 0 .. starts
  <2>1. Len(posted) \in Nat
    BY DEF StartupInv, Shape
  <2> QED
    BY <1>1, <2>1 DEF Foreseen
<1>3. \A i \in Starts : workers[i].state \in FirewallStates
  BY DEF StartupInv, Shape, WorkerRecords
<1>4. /\ status \in {"running", "closed", "crashed"}
      /\ starts \in 0 .. MaxStarts /\ told \subseteq 1 .. starts
  BY DEF StartupInv, Shape
<1> QED
  BY <1>2, <1>3, <1>4 DEF StartupInv, PortIsShared, StartupTypeOK

-----------------------------------------------------------------------------
LEMMA StartupInvAlways == Spec => []StartupInv
BY InitStartup, StepStartup, PTL DEF Spec

\* The state of a start keeps its shape; no server listens without the port,
\* and no two holders of the port exclude one another.
THEOREM StartupTypeCorrect == Spec => []StartupTypeOK
BY StartupInvAlways, StartupInvTypes, PTL

\* InitClient posts the creation of the client before on_write_to_button_clicked
\* can post a call of it, so that only a call before the first start finds none;
\* the other way to crash is to close the window while a detection runs.
THEOREM CrashesAreKnown == Spec => []CrashesOnlyEarlyOrWhileDetecting
<1>1. StartupInv => CrashesOnlyEarlyOrWhileDetecting
  BY DEF StartupInv
<1> QED
  BY <1>1, StartupInvAlways, PTL
=============================================================================
