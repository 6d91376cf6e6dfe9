------------------------------- MODULE Startup -------------------------------
(***************************************************************************)
(* The start of the program's network side by the main window, and its     *)
(* end: the server that is created in the main thread and listens in a     *)
(* thread of its own, the client that is created by a call posted to the   *)
(* main thread's queue, and the firewall helper's worker, which finds out  *)
(* whether the port can be bound by binding it.  All of it is about one    *)
(* port: the field is read-only after the first start.                     *)
(*                                                                         *)
(* The state of the two buttons does not matter: Enter in the port's field *)
(* and in the peer's fields calls the slots of "Start server" and "Write   *)
(* to" at any time.                                                        *)
(***************************************************************************)
EXTENDS Integers, Sequences

CONSTANTS MaxStarts,  \* bound on the starts
          MaxWrites,  \* bound on the attempts to write to a peer
          MaxMoves,   \* bound on the moves of another process onto the port
          Systems     \* the kinds of sockets that exclude one another, for each
                      \* system and address that the program may run with

ASSUME StartupBoundsAssumption ==
  MaxStarts \in Nat \ {0} /\ MaxWrites \in Nat /\ MaxMoves \in Nat

\* What kinds exclude one another depends on the system and on the addresses:
\* the server's is the one that PastInit was told, IPv6 or IPv4, the probe's
\* are all, the other process may use any.
ClashingKinds == {{"server", "probe"}, {"server", "other"}, {"probe", "other"}}

ASSUME SystemsAssumption == Systems \subseteq SUBSET ClashingKinds

Starts == 1 .. MaxStarts

VARIABLES status,     \* of the program: running, closed or crashed
          clash,      \* the pairs of kinds of sockets that exclude one another
          bound,      \* who has bound the port
          starts,     \* how often the start slot has run
          writes,     \* how often the write slot has run, and ...
          early,      \* ... whether it did before the first start
          posted,     \* the main thread's queue of posted calls and signals
          client,     \* the client that socketClient points to, 0 for none
          servers,    \* each server's state, and whom it met on the port
          workers,    \* each detection's stage and the firewall's state
          boxes,      \* message boxes, the last one on top
          told,       \* the starts whose user was told that the port could not be
                      \* bound
          moves       \* moves of the other process so far

vars == <<status, clash, bound, starts, writes, early, posted,
          client, servers, workers, boxes, told, moves>>
network == <<bound, servers, workers>>
window  == <<starts, writes, early>>

\* detectFirewallState; Disabled, which the guidance treats as Unknown, is left out.
FirewallStates == {"Unknown", "Enabled", "NotManaged"}

\* Holders of the port.
Other     == <<"other", 0>>
Server(i) == <<"server", i>>
Probe(i)  == <<"probe", i>>

Idle(i) == workers[i].stage \in {"none", "ended"}

-----------------------------------------------------------------------------
Init == /\ status = "running" /\ clash \in Systems
        /\ bound \in {{}, {Other}} /\ moves = 0
        /\ starts = 0 /\ writes = 0 /\ early = FALSE
        /\ posted = <<>> /\ client = 0 /\ boxes = <<>> /\ told = {}
        /\ servers = [i \in Starts |-> [state |-> "none", met |-> {}]]
        /\ workers = [i \in Starts |-> [stage |-> "none", state |-> "Unknown"]]

Running == status = "running"

\* A message box keeps the user from the window under it.
UserFree == Running /\ boxes = <<>>

-----------------------------------------------------------------------------
(***************************************************************************)
(* Slots of the window.                                                    *)
(***************************************************************************)

\* Either slot finds a port or an address invalid.
PressInvalid ==
  /\ UserFree
  /\ boxes' = Append(boxes, "warning")
  /\ UNCHANGED <<status, clash, network, window, posted, client, told, moves>>

\* on_start_server_button_clicked: InitServer posts run to the server and
\* starts a detection, InitClient posts the creation of the client.
PressStart ==
  /\ UserFree /\ starts < MaxStarts
  /\ starts' = starts + 1
  /\ servers' = [servers EXCEPT ![starts + 1].state = "created"]
  /\ workers' = [workers EXCEPT ![starts + 1].stage = "detecting"]
  /\ posted'  = Append(posted, [call |-> "createClient"])
  /\ UNCHANGED <<status, clash, bound, writes, early, client, boxes, told, moves>>

\* Mutant: the call does not go through the queue.
PressWriteDirect ==
  /\ UserFree /\ writes < MaxWrites
  /\ writes' = writes + 1
  /\ early'  = (early \/ starts = 0)
  /\ posted' = <<[call |-> "connect"]>> \o posted
  /\ UNCHANGED <<status, clash, network, starts, client, boxes, told, moves>>

\* on_write_to_button_clicked, by the button or by Enter.
PressWrite ==
  /\ UserFree /\ writes < MaxWrites
  /\ writes' = writes + 1
  /\ early'  = (early \/ starts = 0)
  /\ posted' = Append(posted, [call |-> "connect"])
  /\ UNCHANGED <<status, clash, network, starts, client, boxes, told, moves>>

\* Mutant: without a firewall there is no box.
GuidanceQuiet(state, reachable) ==
  CASE reachable /\ state # "Enabled"     -> "none"
    [] reachable /\ state = "Enabled"     -> "rule"
    [] ~reachable /\ state = "Enabled"    -> "unbound"
    [] ~reachable /\ state = "NotManaged" -> "manual"
    [] OTHER                              -> "none"

\* onFirewallDetectionFinished: which box, if any.
Guidance(state, reachable) ==
  CASE reachable /\ state # "Enabled"     -> "none"
    [] reachable /\ state = "Enabled"     -> "rule"
    [] ~reachable /\ state = "Enabled"    -> "unbound"
    [] ~reachable /\ state = "NotManaged" -> "manual"
    [] OTHER                              -> "taken"

\* The two boxes that say "could not be bound locally".
Alarms == {"unbound", "taken"}

ShowGuidance(i, kind) ==
  /\ boxes' = IF kind = "none" THEN boxes ELSE Append(boxes, kind)
  /\ told'  = IF kind \in Alarms THEN told \union {i} ELSE told

\* The main thread takes the next posted call, from a nested loop as well.  A
\* call through a null socketClient crashes.
TakePosted ==
  /\ Running /\ posted # <<>>
  /\ posted' = Tail(posted)
  /\ LET event == Head(posted)
     IN  \/ /\ event.call = "createClient"
            /\ client' = client + 1
            /\ UNCHANGED <<status, boxes, told>>
         \/ /\ event.call = "connect"
            /\ status' = IF client = 0 THEN "crashed" ELSE status
            /\ UNCHANGED <<client, boxes, told>>
         \/ /\ event.call = "detectionFinished"
            /\ ShowGuidance(event.start, Guidance(event.state, event.reachable))
            /\ UNCHANGED <<status, client>>
  /\ UNCHANGED <<clash, network, window, moves>>

\* The user answers the box on top.  "Add firewall rule" asks the system for
\* it, and the outcome is told in another box.
CloseBox(accepted) ==
  /\ Running /\ boxes # <<>>
  /\ LET kind  == boxes[Len(boxes)]
         under == SubSeq(boxes, 1, Len(boxes) - 1)
     IN  boxes' = IF accepted /\ kind \in {"rule", "unbound"}
                  THEN Append(under, "warning") ELSE under
  /\ UNCHANGED <<status, clash, network, window, posted, client, told, moves>>

\* ~MainWindow.  A detection that still runs is a QThread destroyed while it
\* runs, unless it ends while the destructor waits for the other threads.
CloseWindow ==
  /\ UserFree
  /\ \/ /\ \A i \in Starts : Idle(i)
        /\ status' = "closed"
     \/ /\ \E i \in Starts : ~Idle(i)
        /\ status' \in {"closed", "crashed"}
  /\ bound' = bound \intersect {Other}
  /\ UNCHANGED <<clash, window, posted, client, servers, workers, boxes, told, moves>>

-----------------------------------------------------------------------------
(***************************************************************************)
(* The server's thread, the workers and another process.                   *)
(***************************************************************************)

\* Two sockets of one kind always exclude one another.
Excludes(h, k) == h[1] = k[1] \/ {h[1], k[1]} \in clash

\* Mutant: the system compares sockets of one kind only.
MeetsAlike(h) == {k \in bound : k[1] = h[1]}

Meets(h) == {k \in bound : Excludes(h, k)}

\* IPv6ChatServer::run, in the order in which the servers were created.  A
\* server fails to listen on a port that is taken, and on a free one as well if
\* no interface has its address: PastInit takes the address that the host has
\* outside its network, or none if the answer is no address.  A server that
\* cannot listen says so in the log only, and does not try again.
Listen(i) ==
  /\ Running
  /\ servers[i].state = "created"
  /\ \A j \in 1 .. i - 1 : servers[j].state # "created"
  /\ \/ /\ Meets(Server(i)) = {}
        /\ bound'   = bound \union {Server(i)}
        /\ servers' = [servers EXCEPT ![i].state = "listening"]
     \/ /\ servers' = [servers EXCEPT ![i] = [state |-> "failed",
                                              met |-> Meets(Server(i))]]
        /\ UNCHANGED bound
  /\ UNCHANGED <<status, clash, window, posted, client, workers, boxes, told, moves>>

Finished(i, state, reachable) ==
  Append(posted, [call |-> "detectionFinished", start |-> i, state |-> state,
                  reachable |-> reachable])

\* detectFirewallState, then checkPortReachable: listen for IPv6 alone, and
\* if that fails for both families.
Detect(i) ==
  /\ Running /\ workers[i].stage = "detecting"
  /\ \E s \in FirewallStates :
       workers' = [workers EXCEPT ![i] = [stage |-> "first", state |-> s]]
  /\ UNCHANGED <<status, clash, bound, window, posted, client, servers, boxes,
                 told, moves>>

TryPort(i) ==
  /\ Running /\ workers[i].stage \in {"first", "second"}
  /\ \/ /\ Meets(Probe(i)) = {}
        /\ bound'   = bound \union {Probe(i)}
        /\ workers' = [workers EXCEPT ![i].stage = "bound"]
        /\ UNCHANGED posted
     \/ /\ Meets(Probe(i)) # {} /\ workers[i].stage = "first"
        /\ workers' = [workers EXCEPT ![i].stage = "second"]
        /\ UNCHANGED <<bound, posted>>
     \/ /\ Meets(Probe(i)) # {} /\ workers[i].stage = "second"
        /\ workers' = [workers EXCEPT ![i].stage = "ended"]
        /\ posted'  = Finished(i, workers[i].state, FALSE)
        /\ UNCHANGED bound
  /\ UNCHANGED <<status, clash, window, client, servers, boxes, told, moves>>

ReleasePort(i) ==
  /\ Running /\ workers[i].stage = "bound"
  /\ bound'   = bound \ {Probe(i)}
  /\ workers' = [workers EXCEPT ![i].stage = "ended"]
  /\ posted'  = Finished(i, workers[i].state, TRUE)
  /\ UNCHANGED <<status, clash, window, client, servers, boxes, told, moves>>

OtherMoves ==
  /\ Running /\ moves < MaxMoves
  /\ moves' = moves + 1
  /\ \/ Other \in bound /\ bound' = bound \ {Other}
     \/ Meets(Other) = {} /\ bound' = bound \union {Other}
  /\ UNCHANGED <<status, clash, window, posted, client, servers, workers, boxes, told>>

Step(i) == Listen(i) \/ Detect(i) \/ TryPort(i) \/ ReleasePort(i)
User == \/ PressInvalid \/ PressStart \/ PressWrite \/ CloseWindow
        \/ \E accepted \in BOOLEAN : CloseBox(accepted)
Next == User \/ TakePosted \/ OtherMoves \/ \E i \in Starts : Step(i)

\* The threads run; the user and the other process do as they like.
Spec == /\ Init /\ [][Next]_vars
        /\ WF_vars(TakePosted)
        /\ \A i \in Starts : WF_vars(Step(i))
-----------------------------------------------------------------------------
(***************************************************************************)
(* Properties.                                                             *)
(***************************************************************************)

\* The shape of the state, and the port: who listens has bound it, and no two
\* holders exclude one another.
StartupTypeOK ==
  /\ status \in {"running", "closed", "crashed"}
  /\ starts \in 0 .. MaxStarts /\ client \in 0 .. starts /\ told \subseteq 1 .. starts
  /\ \A i \in Starts : workers[i].state \in FirewallStates
  /\ Running => \A i \in Starts :
       servers[i].state = "listening" <=> Server(i) \in bound
  /\ \A h, k \in bound : h # k => ~Excludes(h, k)

\* No call reaches the client before it exists, in whatever order the user
\* starts and writes and the queue is worked off (InitClient and
\* on_write_to_button_clicked), and the window is destroyed without a crash;
\* but for Enter in the peer's fields before the start, and for closing the
\* window while a detection runs.
CrashesOnlyEarlyOrWhileDetecting ==
  status = "crashed" => early \/ \E i \in Starts : ~Idle(i)

\* What keeps the server out keeps the worker out as well, as long as it lasts.
MetLasting(i) == Other \in servers[i].met /\ Excludes(Other, Probe(i))

\* What may keep the news from the user: the server failed, but met no other
\* process that the worker must meet too.  It met only this program's own
\* holders of the port (a worker's attempt, or the first server, which a later
\* worker need not meet), or another process on addresses that do not trouble
\* the worker, or nobody, since its address is not one of this host.  Or the
\* other process moves; or the guidance is about an unmanaged firewall and does
\* not mention the port's state.
Unheard(i) == \/ servers[i].state = "failed" /\ ~MetLasting(i)
              \/ moves > 0
              \/ workers[i].state = "NotManaged"

\* After a start the server listens, or the user comes to hear that the port
\* could not be bound, but for the cases of Unheard: run says so only in the
\* log, so that the worker's own attempt, on other addresses and at another
\* time, must find it out.
ServesOrTells ==
  \A i \in Starts :
    servers[i].state = "created" ~>
      (servers[i].state = "listening" \/ i \in told \/ Unheard(i) \/ ~Running)

\* The text of the guidance box: the port could not be bound, look for another
\* process that uses it.  So it is not shown while a server of this program
\* listens and no other process has the port.
AlarmMeansTaken ==
  \A i \in Starts :
    (servers[i].state = "listening" /\ Other \notin bound /\ Running)
      => \A n \in DOMAIN boxes : boxes[n] \notin Alarms
=============================================================================
