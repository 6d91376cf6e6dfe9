----------------------------- MODULE ChatWindow ------------------------------
(***************************************************************************)
(* MainWindow and what it keeps: the messages in RAM, the encrypted store  *)
(* on disk (MessageStore), the open chat page and the model behind it, the *)
(* list of contacts (ContactListModel), and who is online.                 *)
(*                                                                         *)
(* All handlers run in the main thread.  A message box runs the event loop *)
(* inside the handler that opened it: the network's handlers go on, and    *)
(* may open further boxes, and the rest of the handler runs when its box   *)
(* is closed.  The user can do nothing else meanwhile.  "dialogs" is that  *)
(* stack, each box with what its handler still has to do.                  *)
(*                                                                         *)
(* A chat is named by the peer's address, a client by address and port.    *)
(***************************************************************************)
EXTENDS Naturals, Sequences, FiniteSets, SequencesExt

CONSTANTS Peers, Ports,
          Movers,       \* bound on the peers that change their port
          NoChat,       \* the empty currentChatID
          MaxMessages,  \* bound on the messages of users (and one more send)
          MaxFaults,    \* bound on the failures of the database
          MaxInRam,     \* bound on what a chat in RAM holds for another notice
          MaxDialogs,   \* bound on nested message boxes
          MaxOpens      \* bound on the starts of the program

ASSUME MoversAssumption == Movers \subseteq Peers
ASSUME NoChatAssumption == NoChat \notin Peers
ASSUME BoundsAssumption ==
  {MaxMessages, MaxFaults, MaxInRam, MaxDialogs, MaxOpens} \subseteq Nat

VARIABLES ram,         \* messages: the messages of each chat in memory
          store,       \* the rows of the database, in order of insertion
          enabled,     \* m_enabled: the database was opened at this start
          written,     \* users' messages so far, by whose number they are named
          unsaved,     \* messages whose save has failed
          faults,      \* failures of the database so far
          saved,       \* what the settings hold under store/masterKey
          key,         \* the master key of this start
          opens,       \* starts of the program so far
          shown,       \* currentMessageModel
          current,     \* currentChatID, or NoChat
          clientText,  \* clientID_text: where "send" sends to
          flag,        \* isCurrentChatClientOnline
          contacts,    \* the contact list, top first
          online,      \* connectedClients: peers connected to our server
          connected,   \* clients in the table of our IPv6ChatClient
          listening,   \* the port at which each peer listens now
          queued,      \* sends that were posted to the event loop
          dialogs      \* open message boxes, innermost first

keys    == <<saved, key, opens, enabled>>
disk    == <<store, written, unsaved, faults>>
page    == <<shown, current, clientText, flag>>
network == <<online, connected, listening>>
vars    == <<ram, disk, keys, page, contacts, network, queued, dialogs>>

\* Of a list of marked items those to be kept, in order.
Keep(kept, m) == IF m.keep THEN Append(kept, m.item) ELSE kept
Kept(marked) ==
  LET among[n \in 0 .. Len(marked)] ==
        IF n = 0 THEN <<>> ELSE Keep(among[n - 1], marked[n])
  IN  among[Len(marked)]

NoClient  == <<>>
ChatOf(c) == c[1]
At(p)     == <<p, listening[p]>>
-----------------------------------------------------------------------------
(***************************************************************************)
(* MessageStore.                                                           *)
(***************************************************************************)
KeySize       == 32
Base64Size(n) == 4 * ((n + 2) \div 3)

\* loadOrCreateMasterKey: what is saved is the key if it has a key's size;
\* else a new key is drawn, and its base64 text is saved.
MasterKey(s, fresh)  == IF s.size = KeySize THEN s.key ELSE fresh
SavedAfter(s, fresh) == IF s.size = KeySize THEN s
                        ELSE [size |-> Base64Size(KeySize), key |-> fresh]

NothingSaved == [size |-> 0, key |-> 0]

\* Messages are named by their number; notices are not saved.
NextId        == written + 1
Row(chat)     == [chat |-> chat, id |-> NextId, sealed |-> key]
Message(chat) == [chat |-> chat, id |-> NextId, clear |-> TRUE]
Notice(chat)  == [chat |-> chat, id |-> 0, clear |-> TRUE]

MayFail == faults < MaxFaults

\* Mutant: only what the open page shows is saved.
SaveShown(chat) ==
  /\ written' = NextId
  /\ store' = IF chat = current /\ enabled THEN Append(store, Row(chat)) ELSE store
  /\ UNCHANGED <<unsaved, faults>>

\* saveMessage, whose failure the window does not look at.
Save(chat) ==
  /\ written' = NextId
  /\ \/ enabled /\ store' = Append(store, Row(chat)) /\ UNCHANGED <<unsaved, faults>>
     \/ /\ ~enabled \/ MayFail
        /\ unsaved' = unsaved \cup {NextId}
        /\ faults'  = (IF enabled THEN faults + 1 ELSE faults)
        /\ UNCHANGED store

\* A row that the key does not open is loaded as an empty text.
Loaded(i) ==
  [chat |-> store[i].chat, id |-> store[i].id, clear |-> store[i].sealed = key]

\* loadMessages.
LoadMessages(chat) ==
  IF enabled
  THEN Kept([i \in 1 .. Len(store) |-> [keep |-> store[i].chat = chat,
                                        item |-> Loaded(i)]])
  ELSE <<>>

\* open, after which the window goes on without a store if it has failed.  A
\* key is drawn or read only once the database is there.
Open(start) ==
  \/ /\ enabled' = TRUE
     /\ key'     = MasterKey(saved, start)
     /\ saved'   = SavedAfter(saved, start)
     /\ UNCHANGED faults
  \/ /\ MayFail
     /\ enabled' = FALSE
     /\ faults'  = faults + 1
     /\ UNCHANGED <<key, saved>>

(***************************************************************************)
(* ContactListModel.                                                       *)
(***************************************************************************)
Lowered(list)  == [i \in 1 .. Len(list) |-> [list[i] EXCEPT !.order = @ + 1]]
ByOrder(list)  ==
  LET places == 1 .. Len(list)
      from   == CHOOSE f \in [places -> places] :
                  \A i, j \in places :
                    i < j => f[i] # f[j] /\ list[f[i]].order <= list[f[j]].order
  IN  [i \in places |-> list[from[i]]]
Indices(chat)  == {i \in 1 .. Len(contacts) : contacts[i].chat = chat}
NewContact(c)  == [chat |-> ChatOf(c), client |-> c, order |-> 0, active |-> FALSE]

\* Mutants: no search for the contact; the others keep their order.
AlwaysNew(c) == ByOrder(Append(Lowered(contacts), NewContact(c)))
OnNewMessageTied(c) ==
  IF Indices(ChatOf(c)) = {} THEN ByOrder(Append(contacts, NewContact(c)))
  ELSE LET i == CHOOSE j \in Indices(ChatOf(c)) : TRUE
       IN  ByOrder([contacts EXCEPT ![i].order = 0])

\* onNewMessage: to the top of the list; a contact keeps its first client.
OnNewMessage(c) ==
  IF Indices(ChatOf(c)) = {}
  THEN ByOrder(Append(Lowered(contacts), NewContact(c)))
  ELSE LET i == CHOOSE j \in Indices(ChatOf(c)) : TRUE
       IN  IF i = 1 THEN contacts
           ELSE ByOrder([Lowered(contacts) EXCEPT ![i].order = 0])

\* MessageListModel: the model behind the page, whatever chat that is of.
AddMessage(m) == shown' = Append(shown, m)

SetActive(list, chat) ==
  [i \in 1 .. Len(list) |-> [list[i] EXCEPT !.active = (list[i].chat = chat)]]
-----------------------------------------------------------------------------
(***************************************************************************)
(* MainWindow.                                                             *)
(***************************************************************************)
Init ==
  /\ ram = [p \in Peers |-> <<>>]
  /\ store = <<>> /\ written = 0 /\ unsaved = {}
  /\ \/ enabled = TRUE /\ faults = 0 /\ key = 1 /\ saved = SavedAfter(NothingSaved, 1)
     \/ enabled = FALSE /\ MaxFaults > 0 /\ faults = 1 /\ key = 0 /\ saved = NothingSaved
  /\ opens = 1
  /\ shown = <<>> /\ current = NoChat /\ clientText = NoClient /\ flag = FALSE
  /\ contacts = <<>> /\ online = {} /\ connected = {}
  /\ \E q \in Ports : listening = [p \in Peers |-> q]
  /\ queued = <<>> /\ dialogs = <<>>

\* Mutants: the flag is not looked up; the model is filled before the load.
OnlineFlagKept(chat) == flag
PageBeforeLoad(chat) == ram[chat]

OnlineFlag(chat) == chat \in online

\* setUpMessagesForChatInRAM: history is loaded if there is nothing in RAM.
WithHistory(chat) == IF ram[chat] = <<>> THEN LoadMessages(chat) ELSE ram[chat]
Page(chat)        == WithHistory(chat)

\* openChatPage does nothing for the page that is open.  A history that
\* cannot be loaded is an empty one.
OpenChatPage(chat, c) ==
  IF chat = current
  THEN UNCHANGED <<ram, disk, page, contacts>>
  ELSE /\ flag' = OnlineFlag(chat)
       /\ current' = chat /\ clientText' = c
       /\ \/ /\ ram' = [ram EXCEPT ![chat] = WithHistory(chat)]
             /\ shown' = Page(chat)
             /\ UNCHANGED faults
          \/ /\ enabled /\ ram[chat] = <<>> /\ MayFail
             /\ faults' = faults + 1
             /\ shown' = <<>>
             /\ UNCHANGED ram
       /\ UNCHANGED <<store, written, unsaved>>
       /\ contacts' = SetActive(contacts, chat)

Room == written < MaxMessages

\* onMessageSent: into the model that is there now, whichever chat it is of.
MessageSent(c) ==
  LET chat == ChatOf(c)
  IN  /\ ram'   = [ram EXCEPT ![chat] = Append(@, Message(chat))]
      /\ Save(chat)
      /\ AddMessage(Message(chat))
      /\ contacts' = SetActive(OnNewMessage(c), chat)
      /\ UNCHANGED <<current, clientText, flag>>

\* onMessageArrived, for a frame of a peer that is connected to our server.
MessageArrives(p) ==
  /\ p \in online /\ Room
  /\ ram' = [ram EXCEPT ![p] = Append(@, Message(p))]
  /\ Save(p)
  /\ IF p = current
     THEN /\ AddMessage(Message(p))
          /\ contacts' = SetActive(OnNewMessage(At(p)), p)
     ELSE contacts' = OnNewMessage(At(p)) /\ UNCHANGED shown
  /\ UNCHANGED <<keys, current, clientText, flag, network, queued, dialogs>>

\* onServerClientConnected.
PeerJoins(p) ==
  /\ p \notin online
  /\ online' = online \cup {p}
  /\ flag' = (IF p = current THEN TRUE ELSE flag)
  /\ UNCHANGED <<ram, disk, keys, shown, current, clientText, contacts,
                 connected, listening, queued, dialogs>>

\* onServerClientDisconnected, with its notice on the open page.
PeerLeaves(p) ==
  /\ p \in online
  /\ online' = online \ {p}
  /\ IF p = current
     THEN /\ Len(ram[p]) < MaxInRam
          /\ flag'  = FALSE
          /\ ram'   = [ram EXCEPT ![p] = Append(@, Notice(p))]
          /\ AddMessage(Notice(p))
     ELSE UNCHANGED <<flag, ram, shown>>
  /\ UNCHANGED <<disk, keys, current, clientText, contacts, connected,
                 listening, queued, dialogs>>

\* Whether a handler may open one more box.
MayOpenBox == Len(dialogs) < MaxDialogs
Box(then, c) == [then |-> then, client |-> c]

\* A handshake of our client is complete: the first half of onPeerConnected.
PeerConnected(p) ==
  /\ At(p) \notin connected /\ MayOpenBox
  /\ connected' = connected \cup {At(p)}
  /\ dialogs'   = <<Box("open", At(p))>> \o dialogs
  /\ UNCHANGED <<ram, disk, keys, page, contacts, online, listening, queued>>

\* Our client loses a connection: onPeerDisconnected.
PeerDisconnected(c) ==
  /\ c \in connected /\ MayOpenBox
  /\ connected' = connected \ {c}
  /\ dialogs'   = <<Box("nothing", NoClient)>> \o dialogs
  /\ UNCHANGED <<ram, disk, keys, page, contacts, online, listening, queued>>

\* A peer that has left comes back at another port.
PeerMoves(p) ==
  /\ p \in Movers /\ p \notin online /\ At(p) \notin connected
  /\ \E q \in Ports \ {listening[p]} : listening' = [listening EXCEPT ![p] = q]
  /\ UNCHANGED <<ram, disk, keys, page, contacts, online, connected, queued, dialogs>>

\* The send button: the send is posted to the event loop.
ClickSend ==
  /\ dialogs = <<>> /\ current # NoChat /\ queued = <<>> /\ Room
  /\ queued' = <<clientText>>
  /\ UNCHANGED <<ram, disk, keys, page, contacts, network, dialogs>>

\* sendMessage, which reports the message as sent in any case; without a
\* connection there is a message box first.
SendMessage ==
  /\ queued # <<>>
  /\ queued' = <<>>
  /\ IF Head(queued) \in connected
     THEN MessageSent(Head(queued)) /\ UNCHANGED dialogs
     ELSE /\ MayOpenBox
          /\ dialogs' = <<Box("sent", Head(queued))>> \o dialogs
          /\ UNCHANGED <<ram, disk, page, contacts>>
  /\ UNCHANGED <<keys, network>>

\* The innermost box is closed, and its handler goes on.
CloseBox ==
  /\ dialogs # <<>>
  /\ dialogs' = Tail(dialogs)
  /\ LET box == Head(dialogs)
     IN  \/ /\ box.then = "open"
            /\ OpenChatPage(ChatOf(box.client), box.client)
         \/ box.then = "sent" /\ MessageSent(box.client)
         \/ box.then = "nothing" /\ UNCHANGED <<ram, disk, page, contacts>>
  /\ UNCHANGED <<keys, network, queued>>

\* onContactClicked.
ClickContact ==
  /\ dialogs = <<>>
  /\ \E i \in 1 .. Len(contacts) : OpenChatPage(contacts[i].chat, contacts[i].client)
  /\ UNCHANGED <<keys, network, queued, dialogs>>

\* The program ends, at any point, and is started again.
Restart ==
  /\ opens < MaxOpens
  /\ opens' = opens + 1
  /\ Open(opens')
  /\ ram' = [p \in Peers |-> <<>>]
  /\ shown' = <<>> /\ current' = NoChat /\ clientText' = NoClient /\ flag' = FALSE
  /\ contacts' = <<>> /\ online' = {} /\ connected' = {}
  /\ queued' = <<>> /\ dialogs' = <<>>
  /\ UNCHANGED <<store, written, unsaved, listening>>

Next == \/ \E p \in Peers : \/ MessageArrives(p) \/ PeerJoins(p) \/ PeerLeaves(p)
                            \/ PeerConnected(p) \/ PeerMoves(p)
        \/ \E c \in connected : PeerDisconnected(c)
        \/ ClickSend \/ SendMessage \/ CloseBox \/ ClickContact \/ Restart

Spec == Init /\ [][Next]_vars
-----------------------------------------------------------------------------
Entries  == [chat : Peers, id : 0 .. MaxMessages + 1, clear : BOOLEAN]
Clients  == Peers \X Ports
Contacts == [chat : Peers, client : Clients, order : Nat, active : BOOLEAN]

\* The shape of the state; a chat has one contact, a row one of the keys
\* there have been, and a message is saved or known to have failed.
TypeOK ==
  /\ \A p \in Peers : ram[p] \in Seq(Entries)
  /\ \A i \in 1 .. Len(store) : store[i].chat \in Peers /\ store[i].sealed \in 1 .. opens
  /\ enabled \in BOOLEAN /\ faults \in 0 .. MaxFaults
  /\ {store[i].id : i \in 1 .. Len(store)} = 1 .. written \ unsaved
  /\ key \in 0 .. opens /\ saved.key \in 0 .. opens
  /\ shown \in Seq(Entries) /\ current \in Peers \cup {NoChat}
  /\ clientText \in Clients \cup {NoClient} /\ flag \in BOOLEAN
  /\ contacts \in Seq(Contacts)
  /\ \A p \in Peers : Cardinality(Indices(p)) <= 1
  /\ online \subseteq Peers /\ connected \subseteq Clients
  /\ listening \in [Peers -> Ports]
  /\ queued \in Seq(Clients) /\ Len(dialogs) <= MaxDialogs

\* isCurrentChatClientOnline says whether the peer of the open page is
\* connected, however pages, connections and message boxes alternate.
OnlineFlagRight == current # NoChat => flag = (current \in online)

\* The users' messages of a list but those refused, and those of a chat in the
\* database.
NumbersOf(list, refused) ==
  Kept([i \in 1 .. Len(list) |-> [keep |-> list[i].id \notin refused \cup {0},
                                  item |-> list[i].id]])
OnDisk(chat) ==
  Kept([i \in 1 .. Len(store) |-> [keep |-> store[i].chat = chat,
                                   item |-> store[i].id]])

\* What RAM holds of a chat, less what the database has refused, is the
\* latest part of what is on disk, without a gap: nothing else was shown and
\* not saved, and nothing is skipped in between, whichever saves, loads and
\* starts of the database fail.
RamIsRecentHistory ==
  \A p \in Peers :
    LET inRam == NumbersOf(ram[p], unsaved)
        rows  == OnDisk(p)
    IN  /\ Len(inRam) <= Len(rows)
        /\ inRam = SubSeq(rows, Len(rows) - Len(inRam) + 1, Len(rows))

\* The messages of a list that are of a chat.
Of(chat, list) ==
  Kept([i \in 1 .. Len(list) |-> [keep |-> list[i].chat = chat, item |-> list[i]]])

\* The open page shows all of its chat that RAM holds, in order, notices
\* included, whatever was sent and received while message boxes were open.
ShownIsComplete == current # NoChat => Of(current, shown) = ram[current]

Latest(chat) == Last(NumbersOf(ram[chat], {}))

\* The contact list has the chats in the order of their latest messages.
ContactsByRecency ==
  \A i, j \in 1 .. Len(contacts) :
    i < j => Latest(contacts[i].chat) > Latest(contacts[j].chat)

\* What MessageStore is for: messages loaded from disk can be read, after a
\* restart too.
HistoryIsReadable ==
  \A p \in Peers : \A i \in 1 .. Len(ram[p]) : ram[p][i].clear
=============================================================================
