# Fantom-Chat in TLA+

Fantom-Chat is a peer-to-peer chat program (C++, Qt 6). Every instance is a
server, which others write to, and a client, which writes to others; a
conversation uses one TCP connection in each direction. This directory holds a
specification of the program, model-checked with TLC on small instances, and
proofs of its main results checked by TLAPS. Paths below are relative to
`src/src` unless they say otherwise.

## 1. The system

| Component | State | Operations | Hard about it |
|---|---|---|---|
| Ratchet session, `encrypting/sodium/sessions/SodiumRatchetSession.cpp` | root key, sending and receiving chain, two counters, own and peer key | encrypt, decrypt, prepareRatchetStep, applyPeerRatchetKey | both ends must step alike; decrypt moves before it verifies |
| Chat client, `network/IPv6ChatClient.cpp` | `connections` by address and port; per socket: handshake status, keys, session, messages since the last rotation | connectToPeer, onConnected, onReadyRead, sendTypedFrame, onSocketError, onDisconnected | check and entry lie apart; an answer is read in one go; rotation before a send |
| Chat server, `network/IPv6ChatServer.cpp` | `clients` by address and port; per socket: buffer, handshaked, session, ratchetReady | onNewConnection, onReadyRead, processMessage, onClientDisconnected | text lines and binary frames on one stream, cut anywhere; stale entries |
| Main window, `ui/main_window/mainwindow.cpp`, with `models/` | messages in RAM, open page, model, contacts, connectedClients | openChatPage, onMessageSent, onMessageArrived, four connection slots, send, click | message boxes run the event loop inside a handler; copies of state |
| Start and end, the same window with `utils/FirewallHelper.cpp` | server, client, their threads, the queue of posted calls, the helper's workers, message boxes | start slot, write slot, `InitServer`, `InitClient`, `run`, `detectAsync`, guidance, `~MainWindow` | three threads and another process around one port; slots that come in an order the buttons forbid and Enter does not |
| Message store, `storage/MessageStore.cpp` | database, master key in the settings | open, saveMessage, loadMessages | restart; failures that no one looks at |
| Peer discovery, `network/PeerDiscovery.cpp` | table of peers with the time last heard, two timers | start, stop, onReadyRead, onBroadcastTick, onCleanupTick | loss, delay, duplicates; three periods |
| Protocol layer, `protocol/`, and `utils/MessageType.h` | FrameReader's buffer | feed, reset; build and parse handshake lines; encode and decode parts of files | chunks cut anywhere; widths and limits; the server and the client have the same in their own slots |
| Safety number, `ui/main_window/mainwindow.cpp`, `utils/SafetyNumber.cpp` | the keys that client and server keep for each socket and peer | lookupLocalPublicKey, lookupPeerPublicKey, showSafetyNumber | a number mixes keys of two connections |
| Key exchange by text, `utils/KeyExchange.cpp` | none | exportPublicKey, importPublicKey | what mail does to a text |
| Clock offsets, requests, delegates | little or none | input and output | |

**How they interact.** The window calls `connectToPeer` and posts `sendMessage`
to the event loop; client and server answer with signals. The server lives in a
thread of its own, so its signals reach the window in the order of emission but
later. The client's thread runs, but the client is created by a call posted to
the `QThread` object, which lives in the main thread, so the client shares the
window's event loop (the repository's `README.md` speaks of separate threads).
The client writes `HANDSHAKE`, the server answers `HANDSHAKE_ACK` or
`HANDSHAKE_NACK`; both then choose a ratchet session if both versions are 1.2.0
or later, else a plain one. With a ratchet the client at once sends a
`RATCHET_PUBKEY` line, and again after every 100 messages. Only the client
writes frames on a connection. Discovery is independent: its signals are logged
and nothing else.

**What makes each component correct.** Sessions: what one end seals the other
opens, in order, and no key is used twice. Link: every message arrives, in
order, and a healthy connection to a compatible peer stays open. Tables: they
name the live sockets and nothing else, and a broken connection can be made
again. Safety numbers: both users read the same. Window: page, memory, disk,
contact list and online flag agree.
Discovery: who is there is known, who is gone is forgotten in time. Framing:
what was read whole is handed on, once, as it was sent. Handshake lines: every
parser reads them alike. Start: no call reaches what is not there, and the
server listens or, as far as the code sees to it, the user hears that it does
not.

The list of what is hard to test, each item at its line, is `hazards` in
`PROJECT.json`.

## 2. Modules

    RatchetSession      operators on session records
      RatchetPair       two sessions and two streams; implements FifoChannel
        RatchetPair_proofs
      ChatLink          one connection            (MCChatLink)
        ChatLink_proofs
    Connections         who is connected to whom
      SafetyNumbers     and with which keys       (MCSafetyNumbers)
        SafetyNumbers_proofs  of both
    ChatWindow          the window and the store  (MCChatWindow)
      ChatWindow_proofs
    PeerDiscovery       discovery
      PeerDiscovery_proofs
    Startup             start and end of the network side
      Startup_proofs
    MsgCodec            type byte, parts of files
      Framing           two readers of one byte stream
        Framing_proofs
    Base64              characters, base64, numerals
      HandshakeCodec    handshake lines, in three implementations
      KeyExchange       keys as mailed text
                        (MCProtocol: the last five together)
    Loops               what folds and recursive functions compute, for the proofs

The parts are cut where the code's parts meet: `ChatLink` is what happens on
one connection once TCP has set it up, `Connections` takes a whole handshake as
one step and is about which connections there are, `ChatWindow` takes
connections as coming and going at will and is about what the window does with
the signals. `map` in `PROJECT.json` names the lines of every definition.

**RatchetSession.** Cryptography is symbolic: a public key stands for its key
pair, a Diffie-Hellman secret is the pair of the two keys, a root key the
sequence of all that was hashed into it, a chain key the triple of root, label
and step. A MAC verifies exactly when the key that opens is the key that
sealed. `DoRatchet` restarts both chains and keeps the counters;
`AfterDecrypt` moves the chain for every ciphertext with the expected counter,
also one whose MAC fails, as `decrypt` does (line 352). Counters wrap modulo
`CounterMod`.

**RatchetPair.** Two sessions and two ordered streams. Either end sends; the
ends in `Rotators` rotate. The logs of all that was written, and the histories
beside them, are there for the properties and the proofs. `FifoChannel` is what
a user expects of the client's direction, and `Fifo` the refinement mapping.

**ChatLink.** The bytes of a line or a frame are split at the places that the
handlers tell apart: inside a prefix, inside the line, at its end; inside the
answer also behind the key and before the version fields. A read takes any
number of these pieces. `Server...` actions are the exits of
`IPv6ChatServer::onReadyRead`, one for each: refuse, wait, reject, accept, wait
for a rotation line, refuse before the first rotation, process frames. Each
takes the whole handler, with its loops over lines and frames as folds. The
client's reading of the answer is one action with the outcomes of its parse.
`ServerForgets` and `ClientForgets` are the disconnect slots, run with the
disconnection because `disconnectFromHost` ends in them. `torn` notes that a
read has stopped inside a prefix or inside the answer: the code does not wait
these out, and the properties say what holds without them.

**Connections.** A socket has an end at the client, an end at the server and a
network between, each with its own view. The client's table is overwritten in
`OnConnected` and cleared by the peer's name in `Forget`; the server's is `Admit`.
`Eager` says whether the user presses "Write to" while an attempt is on. The
sockets that the client and the server have left are used again, so runs are
unbounded in length; only breaks are counted.

**SafetyNumbers.** The keys that the sockets of `Connections` carry, and the
window's look-ups. What `Connections` calls a host is here a link from one
user's client to another's server: links share no entry of any table, so
`Connections` applies as it is, each of its actions conjoined with what happens
to the keys, and the handshake split into the server's half and the client's.
The key that `localPublicKey` returns is that of the last socket in a map whose
order is that of addresses in memory, hence any (`ServerKeysOf`,
`ClientKeysOf`). A number is the set of its two keys.

**ChatWindow.** One action per slot or user action. A message box is pushed on
`dialogs` with the rest of its handler, and `CloseBox` runs that rest; network
slots go on meanwhile and the user's actions do not. `queued` is the posted
send. `Restart` keeps the database and the settings. Every call of the database may
fail: a start without database goes on in memory (`Open`), a message that is
not saved stays in RAM and in `unsaved`, a history that cannot be loaded is
empty. A row of the database remembers the key it was sealed with. The 32 bytes of the key and the 44 of its
base64 text are computed (`Base64Size`), since the key's fate hangs on them.
The loop over the rows of a query is `Kept`, which goes through a list of marked
items and keeps those with the mark; the sort of the contacts is any arrangement
by their field `order` (`ByOrder`).

**PeerDiscovery.** The table of one node. Time is in units of five seconds, of
which the code's 10 s, 15 s and 60 s are multiples; a unit passes when no timer
is due. Datagrams are lost, arrive within two units, once or twice, in any
order.

**Startup.** The actions are the slots of the window, the posted calls in their
order (`TakePosted`), the server's `run` in its thread, the worker's detection
and its two attempts to bind the port, and another process. The buttons are
disabled at times, but Enter in the fields calls the same slots, so the model
lets them come at any time no message box is open. `bound` is who has bound the
port. Which kinds of sockets exclude one another, the server's, the worker's on
all addresses, another process's, depends on the system and on the addresses
(`clash`, chosen from the constant `Systems`). `Listen` may also fail on a free
port: the server's address is the one that `PastInit` was told by a web service,
IPv4 or IPv6 (`mainwindow.cpp:246-264`), or none, and no interface need have it.
Of the firewall's states, `Disabled` is left out, which the guidance treats as
`Unknown`.

**MsgCodec, Framing.** Bytes are numbers below `Byte`, fields have the widths of
the code. Shifts are done byte by byte, as the loops of the code do them
(`ShiftRight`, `ShiftLeft`), and `ValuesOf` is how many numbers a field of so many
bytes can hold. What there is to send (`ItemsAssumption`) is a text, or a part of
a file with an identifier of the right length and numbers of a `qint64`, in a
frame whose length fits in its four bytes. `Framing` feeds the same reads to the loop of `processMessage` and to
`FrameReader`, whose loops are folds. Sealing is left out, so a payload arrives
as it was encoded; the frames of `ChatLink` and these are the same ones, there
with their keys and here with their bytes.

**HandshakeCodec, KeyExchange.** A character is a number and the base64 alphabet
comes first, so that `//`, digits and hexadecimal numerals are what they are in
the code. `HandshakeCodec` has the codec's parser, and the server's and the
client's own (`ServerJudges`, `ClientJudges`).

## 3. What the runs show

| Run | Shows | Size |
|---|---|---|
| `pair_client` | As the program uses a session (the client rotates): the client's direction never loses step and refines a FIFO channel; no message key is used twice; counters stay in step; a frame of the other direction fails exactly if it, or an earlier one read in the same epoch, crossed a rotation | 3 items each way, 2 messages, counters modulo 2 |
| `link` | Five builds, one or both ends of the version of this repository; reads that stop anywhere; a break at any time: delivery in order, same kind of session, fresh keys, the handshake ends, messages arrive unless the network breaks, a read is torn, or a frame waits behind a rotation line | 3 messages, rotation every 2 |
| `link_stall` | finding: a rotation line that comes behind a frame in one read holds up what follows | 2 messages, rotation every 1 |
| `connections` | Two users who connect to each other and wait for an attempt to end: exact tables, one listed per address, every ready socket has its reader, everyone reconnects; with both connections up the users read the same safety number, and they come to have one | 2 links, 2 sockets each, 2 breaks |
| `connections_wedged` | finding: pressing "Write to" twice leaves a client that can neither use its connection nor get another | 1 host, 2 sockets, no break |
| `safety_number_missing` | finding: who is only written to is shown no number, since the key is stored under one port and looked up under another | 2 links |
| `window` | Online flag, RAM against disk, page against RAM, order of contacts, through nested boxes, a database that fails, a restart and a peer that changes its port | 2 peers, 2 ports, 2 messages and a posted one, 2 boxes, 1 failure |
| `window_unreadable` | finding, a bug: history cannot be read after a restart | 1 peer, 1 restart |
| `discovery` | With 4 datagrams in a row lost a peer that runs is kept; with 5 it would not be; one that stops is dropped within a cleanup interval after its time to live; the table follows who is there | 1 peer |
| `protocol` | However the stream is cut, the server emits exactly the texts and parts of files that have been read whole, up to its limit, and `FrameReader` calls back with exactly the frames, on a second connection too; codec, server and client judge every handshake line alike; a mailed key comes back as itself or not at all | 2 of 7 items on each of 2 connections, every cut; 6 values of a byte; 3 keys, all places of one line break and one inset |
| `startup` | A crash needs a call before the start, or a window closed during a detection. A server that finds another process on its port, one that keeps out the worker as well and stays, is told of, unless the firewall is unmanaged. Of other failures to listen the user may not hear: see section 5 | 2 starts, 1 call, 1 move, 3 systems |
| `startup_guidance` | finding: the user of a server that listens is told that the port could not be bound | 1 start |

**Why the bounds are enough.** *pair:* three items on each stream hold a frame, a
rotation and a frame in flight against a crossing frame of the other end, and
`CounterMod = 2` wraps within them. *link:* three messages pass the threshold
once, so first rotation, frames on one chain, a periodic rotation and a frame
after it are all on the wire; all of them can be in one buffer. *connections:*
the second socket is the one whose refusal or late break meets the first's
entry; two links because a safety number mixes the keys of both; a break can
meet the old socket and its successor, or one socket of each link. *window:* two chats are the one shown and another;
two boxes let an older handler resume after a newer one; three messages bring a
contact back to the top and leave a history with a gap if one is lost; a notice
comes only into an empty memory (`MaxInRam` = 1), where it hides the history; one failure hits any save, load or start. Ports are only compared, so their
permutations are a symmetry (the run has no liveness property). *discovery:*
entries of different peers do not touch each other, and Self's own datagrams
are there as well. *protocol:* with six values of a byte the two bytes of a
name's length reach 35, so that a name can be too long for them and be cut
inside a character; the header's frame is then exactly as long as the server's
limit allows, and texts go over that limit and over `FrameReader`'s. Two items
make every pair of neighbours, two connections show what is left in a buffer.
*startup:* a second server is the one that meets the first; one move of the
other process lets it come or go between any two attempts. The three systems are
Linux with an IPv6 address, where all kinds exclude one another; systems where
the server's socket and the worker's do not; and Linux with an IPv4 address, where
the other process keeps out the server and not the worker.

**Fairness.** Liveness rests on weak fairness of the handlers (Qt's event loops
call a slot whose signal has been emitted; TCP delivers or breaks), of the
passing of time and of the timers. Nobody is obliged to send, no break or loss
need happen, and peers need not start. In `Startup` the queue of the main
thread, the server's thread and the workers go on; the user and the other
process owe nothing. Two assumptions are stronger. In
`Connections` the user goes on pressing "Write to" while there is no connection:
the code has no retry of its own, and `Reconnects` is about users who try. And
both ends come to see a break in the end; a peer that loses power is seen only
when TCP gives up, as no keep-alive is set. The runs on links and connections
do not check for deadlock: a link may end, and its bounds end a run; so do the bounds of a stream and
of the window's actions, and a program that is closed or has crashed.

Each property of a passing run has a mutant in `PROJECT.json`: a definition
changed as a mistake in the code would change it, under which TLC finds the
property violated. The mutated forms stand beside the definitions they change.

## 4. What is proved

TLAPS proves, for every value of the constants within the assumptions named:

* **RatchetPair_proofs.** `TypeCorrect`, without further assumptions. With
  `Rotators \subseteq {Client}`, which is how the program uses the session,
  `ForwardSafe` (every frame of the client that the server reads is decrypted,
  in order), `RootsMeet` (the ends hold the same root when all has been read),
  `ForwardRefinesFifo` (every step is a step of `FifoChannel` or a stutter),
  `KeysAreFresh`, and `FailsOnlyAfterCrossing` (what the server's direction would
  lose, exactly). Without the assumption they are false: if both
  ends rotate at once the roots part. `CountersNeverPart`, whichever ends rotate
  and for counters of any width: a crossing frame fails by its MAC, never by its
  counter.
* **ChatLink_proofs.** All invariants of the run `link`, for any messages, builds,
  threshold of rotation and width of the counters, reads that stop anywhere and
  breaks: `TypesHold`, `ArrivalInOrder`, `EveryFrameOpens`, `OpenWhileHealthy`,
  `SameKindOfSession`, `KeysFreshEnough`, `StuckBehindRotationOnly`, from one
  inductive invariant (`LinkInvariant`).
* **Loops** holds lemmas that the proofs rest on, for any operator. `FoldSteps`: a fold over a sequence of any length runs through values,
  each made from the one before by one element. The loops of the server over
  lines and frames are folds, and `ChatLink_proofs` takes an instance for each.
  `RecursiveSteps`: the same of a loop written as a recursive function, which
  `ChatWindow_proofs` needs for the loop over the rows of a query.
* **SafetyNumbers_proofs.** Of the connections (`Spec`): `TypeCorrect`, `ListedOnce`
  and `ReadyHasReader`; with `Eager = FALSE` also `TableExact`. For eager users
  TLC's run `connections_wedged` shows how it fails. Of the module with keys
  (`NumbersSpec`): `NumbersTypeCorrect`; `TablesHold`, which carries the
  results on tables over to the module with keys by a step simulation; and
  `SameNumber`: of two users (`Hosts \subseteq {<<a, b>>, <<b, a>>}`), connected
  in both directions, each reads the same number. With a third user it fails:
  the own key may then be that of the third's socket.
* **PeerDiscovery_proofs.** `TypeCorrect` and `StaleBounded`, for any peers and
  any bound on losses; `SteadyIsKept` with
  `(MaxLosses + 2) * BROADCAST_INTERVAL <= PEER_TTL`, the bound at which the run
  `discovery` stands.
* **ChatWindow_proofs.** All invariants of the run `window`, for any peers, ports,
  messages, nesting of message boxes, failures and restarts: `FlagAlwaysRight`,
  `WindowTypeCorrect`, `HistoryWithoutGaps`, `PageMissesNothing`,
  `ContactsInOrder`, the last four from one inductive invariant
  (`WindowInvariant`). They need the bounds to be numbers and `NoChat` to be no peer.
* **Framing_proofs.** For any values of a byte from six up, any items, limits below
  2^32 (`ValuesOf(4)`) and cuts of the stream: `FramingTypeCorrect`,
  `ServerReadsExactly` and `ReaderReadsExactly`, from one inductive invariant
  (`FramingInvariant`). They rest on what the codec does to a single frame:
  `HeaderReadBack` and `ChunkReadBack` (what is encoded is decoded again, but for a
  name that is cut to its field), and `ItemReadBack` (of the frame of an item
  `processMessage` emits that item and nothing else).
* **Startup_proofs.** `StartupTypeCorrect` and `CrashesAreKnown`, for any number of
  starts, calls and moves of the other process, and any systems.

**The inductive invariants.** `ForwardInSync` relates only what was sent and
what was read, and says nothing of the stream between. `ForwardInv` adds
`halves[Client]`, the sending half of the client's session at each item it
wrote: consecutive halves are joined by the item between them
(`HalvesFollowLog`), each frame carries the message that the half's count names
(`CountsNameMessages`), and the server's session mirrors the half at the place
up to which it has read (`ServerMirrorsClient`). A read then moves the mirror
by the very step that wrote the item. The server's own sends and the lines that
the client would read do not touch what is mirrored, since the server never
rotates (`ServerNeverRotates`).
`KeysNeverReused` follows from `KeyInv`: within one end, keys go forward in the
order of epoch and step (`KeysGoForward`); between the ends, labels are opposite
in every epoch (`LabelsOpposite`).
`TableIsExact` rests on `TableInv`: a client that waits uses one socket at a
time. `StaleForOneInterval` needs only, beside itself, that a node that does not
run has heard nothing (`StaleInv`).
`FailsExactlyAfterCrossing` rests on `CrossInv`. A chain's step counts the frames
since the chain began, at the writer those of its epoch (`WritesAt`), at the
reader those read in its epoch (`ReadsAt`), since a frame that crossed a rotation
uses up a step as well. In one epoch the two counts meet exactly if no frame was
written before it and read in it (`StepsMeet`); in different epochs the roots
differ in length, and in the same one they are the same beginning of the client's
(`RootsLead`).
`CountersInStep` rests on `CountersInv`, in which `halves` is an account: each
half's count is that of the frames before it, its counter the count's remainder,
and what a reader has opened or refused is the count at its place.
`SteadyStaysKnown` rests on `SteadyInv`: the age of a steady peer's entry is at
most an interval for each loss, one for a datagram on the way, and what has
passed of the present interval; and a datagram has arrived before the next
broadcast (`SentBefore`), so that at most one is on the way.
`CrashesOnlyEarlyOrWhileDetecting` rests on `StartupInv`, whose core is an account
of the posted calls (`Foreseen`): how many clients there will have been once the
first n of them are done. It ends in the number of starts, and before a call of
the client it is positive unless the user called early; taking the first call
shifts it, posting one lengthens it.
`NumbersAgree` rests on `NumbersInv`: a client knows the key of a socket that is
ready, and while that socket is up its server has made the key; as one socket of
a link is listed, each window finds exactly one own key.

`LinkInv` relates the two ends of a connection through what lies between them,
`Rest`: the server's buffer and what is on the wire. While the handshake runs it
is empty or the greeting (`Handshake`). Afterwards it is a stream of
whole items, cut anywhere (`Whole`), and reading it to its end keeps the promise
(`Keeps`): there is a sequence of sessions, `after`, the first the server's
own, each the next when one more piece is read, every frame opening on the way,
and the last one the mirror image of the client's. A send lengthens the
sequence, a read takes off its beginning, and the mirror argument of
`RatchetPair` is used only at the end. Before any frame comes the line of the
first rotation (`RotatesFirst`), which the loop over lines always finds first.
A torn read may have left the ends with different sessions; then the stream is
`Foreign`, and what has been delivered before is still a beginning of what was
sent (`Copies`).
`WindowInv` has a part for each thing that the window keeps. `RamIsRecentHistory`
alone is not kept by a step: a new message extends both memory and rows only if
its number is new to both, so no number exceeds `written` (`Memory`, `Database`);
and what is in memory must be filed under its own chat for a page opened on it to
show just that. In `Keys` the value that the settings hold never has a key's
size, so no start takes its key from there. `Listed` is stronger than `ContactsByRecency`: the places, the fields
`order` and the newest messages go the same way, and each contact has a message in
memory. The fields therefore never tie, which is what makes the outcome of the
code's unstable sort certain: a contact that moves up gets 0 when all others are
positive, and the arrangement that the sort finds can only be the one with that
contact first and the others as they were (`ToTheTop`). `Events` says that at
most one message of the user is on its way, posted or behind a box (`OnItsWay`),
which bounds what is written. What `Kept` makes of two lists side by side, with
the same marks (`KeptPairs`), and of a list that is extended, is shown by
induction over the list.

`FramingIInv` says where the two readers stand in one stream. `Remains` gives the
bytes that remain behind each item that was sent; a reader that has delivered n
items has in its buffer, followed by the wire, just what remains behind the n-th
(`ServerHas`, `InStep`). That alone does not say that it has delivered all it could:
so the invariant adds that another round of its loop would change nothing
(`ServerIdle`, `ReaderIdle`), from which it follows that the next frame's end is
still on the wire (`NotYetWhole`). A server that has met a frame over its limit
stands before it and is shut; `FrameReader` clears its buffer there and is `Lost`:
nothing is said of its buffer but that its loop is done, and only what it called
back before is known. A round of either loop keeps all this (`ServerRound`,
`ReaderRound`), because what stands first in the stream stands first in the buffer
once that is as long (`TakenFromStream`); and a loop gets as many rounds as the
buffer has room for prefixes, which is enough, since each takes four bytes at
least (`LoopEnds`). The name that is cut inside a character is followed byte by
byte (`NameCut`).

What the server's two loops make of a buffer of any length is shown by induction
over its lines and frames. The provers cannot take an induction principle with an
operator for its hypothesis; `Loops` therefore states induction over the numbers
for a *set*, and what a fold computes for an operator that is a constant of the
module, which an instance replaces by a loop's body.

**Only model-checked.** Liveness (`ForwardIsFifo`'s fairness part,
`HandshakeEnds`, `ArriveUnlessStalled`, `Reconnects`,
`NumbersSettle`, `TableFollows`, `ServesOrTells`), which is
out of the prover's reach; and `CodecSpeaksTheProtocol` and `KeySurvivesMail`, which
compare parsers on lines and mailed texts. They speak of an `input` that TLC
chooses from bounded sets and of insertions that `MCProtocol` defines for those; the
general statement is an induction over texts of any length and over base64 groups,
and the powers of 64 and 256 in it are beyond the provers' arithmetic. All other
invariants of the runs are theorems.

## 5. Where code and words part

The violated runs are listed in `findings` with the lines they refute. Met on
the way, without a run of their own:

* `encrypting/interfaces/IRatchetSession.h:22` leaves rotation to the caller at
  either end; if both rotate at once, both directions are dead for good.
* `utils/RatchetWire.h:19` describes rotation for both directions; the server's
  direction would lose every frame that crosses a rotation. The server writes
  none.
* A read that ends inside the prefix of the first `RATCHET_PUBKEY` line makes the
  server disconnect a healthy client (`network/IPv6ChatServer.cpp:276`), where
  line 252 says that an incomplete line waits. `HealthyStaysOpen` without
  `torn` is violated.
* `ui/main_window/mainwindow.cpp:643` tells the user to push "Write to" with the
  actual port; `openChatPage` does nothing for the page that is open (line 499),
  so that page goes on sending to the old port.
* `ui/main_window/mainwindow.cpp:540` takes a chat with anything in RAM for
  loaded; a message or a notice that comes before the chat is opened hides its
  history until the next start.
* An answer cut before its version fields makes a current client take a current
  server for a legacy one (`network/IPv6ChatClient.cpp:148`).
* `utils/ProtocolVersion.h:29` asks for a remote version of at most this one;
  the function accepts newer ones.
* `ui/main_window/mainwindow.cpp:643` tells the user that "Write to" with the
  actual port makes the connection again; pressed twice, it loses the connection
  for good (the run `connections_wedged`, which quotes `IPv6ChatClient.cpp:23`).
* `network/IPv6ChatServer.cpp:466` says that `localPublicKey` returns the key of
  the latest handshake; it is that of the socket highest in memory, so with three
  users two of them may read different numbers.
* `utils/SafetyNumber.h:20` calls the number the fingerprint of a session; with
  connections in both directions its two keys are of two sessions.
* `network/PeerDiscovery.h:40` lists peers heard within 60 s; an entry may be up
  to 75 s old.
* `FrameReader` takes the first byte of a frame of an old client, which has no
  type byte, for a type; the server does not (`IPv6ChatServer.cpp:313`). Behind
  a frame over its limit it clears its buffer and reads on from wherever the
  next chunk begins.
* `utils/KeyExchange.h:28` strips line numbers from a mailed key; the code does
  not, and such a text is refused. A line of the key that begins with `//` is
  taken for a comment, and the key is refused.
* `utils/FirewallHelper.h:57` says that `requestAddRule` returns false when the
  command has been issued; it returns true then.
* `ui/main_window/mainwindow.cpp:160` leaves the stopping of the server to
  `deleteLater`; its thread has ended by then, so neither the destructor nor
  `stopServer`, which it alone calls, ever runs.
* A server that cannot listen (`network/IPv6ChatServer.cpp:33`) says so in the log.
  The user never hears of it when the server's address is not one of this host,
  which behind address translation it is not (`mainwindow.cpp:246-264`; the
  `return` after the warning about IPv4 is commented out): the port is free, the
  worker's attempt on all addresses succeeds, and the guidance shows no box or one
  about the firewall rule. Nor when the server met only this program's own
  sockets, or another process that the worker's addresses do not meet. `Unheard`
  in `Startup` names these cases, and `ServesOrTells` fails without any of them.
* With an unmanaged firewall the guidance (`mainwindow.cpp:994`) says nothing of
  a port that could not be bound.
* `utils/ProtocolUtils.h:12`, `prependLength`, writes the length in the byte order
  of the machine, where every reader expects big-endian; nothing calls it.

## 6. What is not modelled

* Lines and frames that no honest peer writes: a malformed `RATCHET_PUBKEY` line
  (`tryDecode` has removed the line when `IPv6ChatServer.cpp:251` looks for its
  newline), a frame without separator, a length of 2^32 - 4 or more, with which
  the `quint32` sum of `processMessage` (line 296) wraps.
* A second pending `readyRead` of the server, whose connection is queued: the
  event loop works off posted calls before it looks at sockets again, and the
  server waits on none; a failing `prepareRatchetStep`; a time-out of
  `waitForBytesWritten`; boxes for errors of the handshake (they do in
  `ChatWindow` what the box for a lost connection does).
* The use of deleted objects, the unlocked read of `serverKeys`, the memory of a
  first server and client after a second start.
* The context menu of the contacts, whose action keeps a row while the list may
  be reordered: what it shows may be another contact's number.
* Wall clocks that jump (order of history, ages of peers); inexact timers.
* Clock offsets: each handshake writes one, and nothing reads them but a line of
  the log. The fingerprint of a key: a hash, formatted.
* What the commands of the operating system answer to the firewall helper: any
  of its states (`Disabled` as `Unknown`).
* That the worker's two attempts, for IPv6 alone and then for both families, may
  meet different sockets: in `Startup` both meet the same kinds.
* HTTP, painting, styles, languages: input and output without state of interest.
* QtAwesome, a third-party library with two generated tables of icons. It is
  two thirds of the lines under `src/` and no part of the program's logic.

## 7. Plan

Done, in this order: the session pair and its proofs, the link, the connection
tables, safety numbers and their proofs, the window, discovery and its proofs;
then the failures of the store, the protocol layer with the codecs, start and
end and their proofs, and the proofs about counters, the online flag and steady
peers; then the proofs about the link, about folds and recursive functions, about
frames that cross a rotation, about all that the window keeps, and about framing
and the payloads of a file.

Next: a composition of `ChatLink` with `Connections`, in which a refused socket
runs its handshake.
