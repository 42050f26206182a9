# Verification of mruby-mqtt

mruby-mqtt is an MQTT client for mruby: a small binding (`src/src/mqtt.c`,
`src/mrblib/mqtt_client.rb`) over a bundled copy of the Paho asynchronous C
client (`src/src/MQTTAsync.c` and the files below it).  This directory holds
TLA+ modules that model it, the TLC configurations that check them, and proofs
checked by TLAPS.  `PROJECT.json` is the index: components, runs, mutants, the
map from definitions to source lines, findings, hazards and theorems.

## 1. The system

| part | files | state it keeps | operations |
|---|---|---|---|
| mruby binding | `mqtt.c`, `mqtt_client.rb` | `_self`, `DATA_PTR(_self)` (an `mqtt_state` with the handle), `mqtt_connected`, the Ruby handlers | connect, disconnect, publish, subscribe; one C callback per library callback |
| asynchronous engine | `MQTTAsync.c`, `Clients.c` | the global `commands` list, `handles`; per handle `connected`, `connect_state`, `net`, `m->connect`, `m->disconnect`, `responses`, `pending_write`, `outboundMsgs`, `inboundMsgs`, `messageQueue` | API calls queue commands; `processCommand` and `checkTimeouts` (send thread); `cycle`, `retry` and the handling of a packet (receive thread) |
| protocol | `MQTTProtocolClient.c`, `MQTTProtocolOut.c` | the message lists of a client | the QoS exchanges, keep-alive, retry on reconnection |
| sockets | `Socket.c`, `SocketBuffer.c` | the descriptor sets for select, pending writes, saved partial reads and writes | open, close, ready socket, write, continue a write |
| packets | `MQTTPacket.c`, `MQTTPacketOut.c` | none | encode, decode, send, read |
| persistence | `MQTTPersistence.c`, `MQTTPersistenceDefault.c` | the store, keyed by message | put, remove, restore, clear |
| data structures | `LinkedList.c`, `Tree.c`, `Heap.c`, `utf-8.c` | lists with a `current` pointer, red-black trees, the table of allocations | insert, find, remove; validate |
| threads, log | `Thread.c`, `Log.c`, `StackTrace.c`, `Messages.c` | mutexes, a condition variable, a trace ring | lock, signal, wait |

The program's thread appends commands.  The send thread takes them from the list
and writes packets; what needs an answer moves to `responses`.  The receive
thread selects, lets interrupted writes continue, reads one packet, and calls
back.  Both library threads hold `mqttasync_mutex` for most of a pass, but
select and the writes it completes run without it, and so do the calls of the
application between their test of `connected` and `addCommand`.  Callbacks run
on a library thread with the mutex held, and enter the Ruby interpreter there.

What makes it hard:

* two decisions of the receive thread (the socket, and the result of `cycle`)
  are used after the mutex was released and taken again, while the send thread
  may have closed that descriptor and the kernel given its number to a new
  connection;
* an interrupted write is completed by select on one thread while the other is
  still recording that it was interrupted;
* one list of commands serves all handles and is changed at both ends, by
  timeouts, failed attempts, broken connections and the cleaning of a session;
* a connect is tried with several versions, from three places on two threads,
  and must be reported once;
* a process may end between any two writes to the store, the network and the
  application, and the next one goes on from the files alone;
* a packet that is incomplete is read again from its first byte when more has come,
  and a descriptor that was closed in the middle is soon another connection's;
* a list remembers where its last search ended, and the next search begins there;
* the binding keeps one global object whose state is assigned after the library
  has already started to call back.

What makes each part correct: the binding never uses an `mqtt_state` it has
freed, and `connected?` is true; each request and connect is reported, once; requests
of a handle keep their order; nothing of a clean session outlives it, and nothing of
a kept one is lost; a descriptor has one owner; nothing gets into the middle
of a packet; a handle that cannot proceed does not stop another.  A message of QoS 1 or 2 in a kept
session is delivered, over lost connections and restarts, and one of QoS 2 once; the
store agrees with memory; a packet is read and written whole in whatever pieces it
comes and goes; the lists and the table of allocations keep what was put in them.
`PROJECT.json` lists the hazards one by one with the properties aimed at each.

## 2. Modules

| module | what it is |
|---|---|
| `AsyncClient` | what the library promises an application, without queue, threads or sockets: each handle goes down, connecting, up and back only with the callback that says so, and each call is reported at most once |
| `MQTTAsync` | the engine over its sockets: queue, both threads, TCP connections |
| `MCMQTTAsync` | sets of outcomes and events of its runs |
| `MQTTAsyncProofs` | proofs of its types, of the ownership of descriptors and that packets stay whole; about requests: their order, reported once, never dropped; about what the application is told, up to the refinement of `AsyncClient`; and about the answers to subscribes: what can come is awaited, what is awaited can come |
| `MrubyMQTT` | the binding over `AsyncClient` (`Library == INSTANCE AsyncClient WITH Clients <- Handles`) |
| `MCMrubyMQTT` | a statement of the README of the binding that the code does not keep |
| `MrubyMQTTProofs` | proofs of the binding's types and of its three safety properties |
| `Delivery` | what a quality of service promises for the messages of one direction |
| `FileStore` | the default store: one file per key |
| `MQTTPersistence` | which keys there are, and how a session is restored from them |
| `MQTTProtocolClient` | the session over the store and a broker: QoS exchanges, retries, the queue of refused messages, crashes |
| `MQTTProtocolClientProofs` | its types and the agreement of the store with memory, proved |
| `MQTTProtocolDelivery` | proofs of what the session promises a publishing application, up to the refinement of `Delivery` for outgoing messages |
| `MQTTProtocolArrival` | proofs of what it promises a subscribing one, the refinement for incoming messages |
| `MCMQTTProtocolClient` | its plans of messages, and a comment of the source that the code does not keep |
| `Tree`, `Heap`, `LinkedList` | the red-black tree, the table of allocations over it, and a list over that |
| `MCLinkedList` | the setups of its run |
| `LinkedListProofs` | proofs of the links of a list, of the order of its contents and of the separation of its blocks |
| `PacketIO` | packets read and written in pieces over descriptors that are used again |
| `PacketIOProofs` | proofs that what is written to a connection arrives whole, and that what comes from one is read whole |
| `MCPacketIO` | its traffic, and a comment of the source that the code does not keep |
| `UTF8` | the table of `utf-8.c` against the definition of the encoding, with its proofs |

They compose in two stacks.  `MQTTAsync` is shown to implement `AsyncClient`
(property `KeepsPromise`), and `MrubyMQTT` is built on `AsyncClient`.
`MQTTProtocolClient` extends `MQTTPersistence`, which extends `FileStore`, and implements
`Delivery` twice, once for each direction (`KeepsOutgoing`, `KeepsIncoming`).
`LinkedList` extends `Heap`, which extends `Tree`.

`MQTTAsync` and `MQTTProtocolClient` look at the same library from two sides: the
first keeps threads, sockets and the interleavings of one process and reduces a message
to its acknowledgement; the second keeps messages, identifiers and the store over several
processes and reduces a connection to a pair of sequences.

### MQTTAsync

State and code: `connected`, `connectState`, `socket`, `connect`, `disconnect`,
`responses`, `outbound`, `pendingWrite` are the fields of the same names of
`Clients` and `MQTTAsyncs`.  `commands` is the list as a set of cells with a
position: `ListInsert` at the head takes a position below all others,
`ListAppend` the number of its call.  `net` is the table of descriptors; a socket
has a status, the packet whose write was interrupted (`unsent`), and the packets
that the peer has received and not yet answered (`wire`): the broker is nothing
else.  `Writes` is `Socket_putdatas`: a write is refused while the rest of another
packet is to be written, whether or not the writer has looked before.  Requests and
messages sent again look (`Socket_noPendingWrites`); an acknowledgement, and the
DISCONNECT of a connection that is closed, do not (`CycleIncoming`, `CloseOnly`).  The
packets that answer no request are `Control` packets; a descriptor that was closed
keeps in `wire` the DISCONNECT that the broker got, so that what a close may write is
part of the state.  `inHand` is the QoS 0 publish that the send thread is recording after an
interrupted write.  `receiver` is where the receive thread is, with the results
of `cycle`.  `pendingCall` is an API call between its test of `connected` and
`addCommand`.  `view` and `notified` record what the callbacks have told the
application; `crashed` is set when `writeComplete` would dereference a NULL
command.

Actions: `Connect`, `CheckConnected`, `AddCommand` (application);
`IgnoreConnect`, `ProcessConnect`, `ProcessDisconnect`, `ProcessRequest`,
`ProcessPublish0`, `FlagPendingWrite`, `StoreResponse` (processCommand);
`CheckTimeouts`; `Select`, `ContinueWrite`, `Cycle...`, `Retry`, `Handle...`
(receive thread; `CycleIncoming` is a packet of the broker's own, `KeepAlive` the
PINGREQs of a retry pass); `TcpUp`, `TcpFail`, `PeerClose` (network).  A section under
`mqttasync_mutex` is one action, except where something that does not take the mutex
runs in the middle: the recording of an interrupted publish is three actions.

Abstractions, and why they are sound for the properties:

* a call's number is its token: message identifiers, which the code reuses after
  65535 messages, are in `MQTTProtocolClient`.  `MaxMsgId` bounds the messages in flight;
* the broker answers each packet at most once, in any order.  TCP delivers in order, so this
  adds behaviours; that none of the packets is left behind is in the fairness, below;
* of an incoming packet there is what the engine does with it on this socket: it
  writes an acknowledgement, or nothing.  Acknowledgements and PINGREQs that are
  written completely leave no trace: nothing in the broker waits for them;
* one server URI; `checkConn`'s other reason for a second attempt is the version,
  which is modelled;
* `checkTimeouts` is one action per handle; the loop holds the mutex over all of them
  and the iterations touch different handles, except for the shared list;
* at most one keep-alive expiry per retry pass, and a PINGREQ only where its write is
  interrupted or fails;
* a write that the kernel takes only in part is an interrupted one; the partial
  lengths are in `PacketIO`;
* descriptor 0 stands for both 0 and -1 (no socket);
* the retry after a CONNACK runs over all handles; the model sends only the messages of
  the handle that connected: the others' were sent on the connections they have;
* a QoS 1 or 2 publish ends with one acknowledgement; the packets of QoS 2, inbound
  messages, restored commands and `MQTTAsync_destroy` are in `MQTTProtocolClient`.

### MrubyMQTT

`view`, `calls`, `issued` and `notified` belong to the library.  `self`, `data`,
`freed` and `mqtt_connected` are the binding's globals.  `program` is the
program's thread: a connect is four steps (the test of `mqtt_connected`,
`MQTTAsync_create`, which waits for the mutex, `MQTTAsync_connect`, and the
assignment of `DATA_PTR` and `_self`), a request two (reading `DATA_PTR`, calling
the library).  `callback` is the callback that is running; since callbacks run
with the mutex held there is at most one.  `OnMessage` is `mqtt_msgarrvd`.  `told` is
what the Ruby handlers have told the program, and `overlapped` remembers whether the
program has called connect while an earlier connect was not yet answered or still up.
`FailureHandler` is a program that sets `on_connect_failure`.  Handlers may publish and
subscribe, not connect: a connect in a handler is the default one, which deadlocks
(finding below).  The interpreter, which two threads enter without a lock, is not
modelled, nor the strings that the accessors keep.

### MQTTProtocolClient, MQTTPersistence, FileStore, Delivery

`commands`, `outbound`, `inbound`, `messageQueue`, `msgID` and `qentrySeqno` are the
lists and counters of `Clients` and of the engine, in order; `responses` the identifiers
that await an answer.  `store` is the directory: a function from keys (`<<"s-", 3>>`) to
contents.  `toBroker` and `toClient` are the connection; `held` and `pending` the
broker's half of the exchanges, which is external: it follows MQTT 3.1.1 and sends again
what was not acknowledged.  `published`, `sent`, `received` and `arrived` record what
each side was given and has delivered.

A handler runs under `mqttasync_mutex`, but its effects reach the disk, the socket and
the application one at a time, and the process may end between any two.  So a handler
(`ProcessCommand`, `HandlePublish`, `HandlePubrel`, `HandlePuback`, `HandlePubrec`,
`HandlePubcomp`, `HandlePingresp`, `Retry`, `Connect`) changes the memory and leaves
its effects in `todo`, in the order of the code, and `DoEffect` carries out the first:
`Put`, `RemoveKey`, `Write`, `Deliver`, `TryMessageQueue`.  No other handler starts before
`todo` is empty.  `Crash` may come at any point; `Destroy` between handlers;
`Restart` is `MQTTAsync_create` with all the restoring.

`MQTTPersistence` writes the loop of `MQTTPersistence_restore` as sets: which keys are
discarded (torn records, and a PUBREL without its PUBLISH), where "without" depends on the
place of both keys in the order of the directory.  `WrapMsgID` is
`MQTTPersistence_wrapMsgID`.  `PstKeys` gives the directory in two opposite orders, which
stand for all: what depends on the order compares two keys.

`Faults` names the crashes that the code does not survive; the passing run has none of
them, and each alone breaks a property (see the known deviations):
`starting`, `handling`, `torn`, `order`, `ids`.

Abstractions: the application's call that appends a command and persists it is one step;
interrupted writes are in `MQTTAsync`; a put does not fail; torn `c-` and `q-` records are
left out; the application takes or refuses a message at once.

### Tree, Heap, LinkedList

A node of the tree is known by its position, the turns from the root, which replaces the
pointers to parent and children; a rotation moves positions.  `TreeAdd`, `TreeRemove` and
the two balancing functions follow `Tree.c`.  `Heap` has the tree of records, the sizes,
the total and the mutex; the system's `malloc` is external and gives any free
address.  `LinkedList` has the elements by address, with `first`, `last`, `current`,
`count`; every element and content is a block of the heap, so one action is one call of
the list with the allocations it makes: `Insert` (`ListAppend`, `ListInsert`), `Find`,
`Unlink` (`ListRemove`, `ListDetach` and their `Item` forms), `RemoveHead`, `PopTail`,
`Empty` (`ListEmpty`, `ListFree`; `AllFreed` is its loop).  `ListFindItem` looks at the current element first and
leaves `current` at what it found, as the code does.

### PacketIO

`buffers` is `SocketBuffer.c`'s `def_queue` and `queues`, `writes` its list of pending
writes, `write_pending` that of `Socket.c`.  `ReadPacket` is one call of
`MQTTPacket_Factory`: `Socket_getch` for the header, `MQTTPacket_decode` for the length
and `Socket_getdata` for the rest, each of which takes first what was saved for the
descriptor, and may be interrupted; the bytes that have come are any of
`pieces`.  `Socket_putdatas` gives a packet of several buffers to the kernel, which takes any
part of it; `Socket_continueWrite` computes the rest again from the byte count, and only
the rest of the buffer in which that ends.  `Socket_new` and `Socket_close` use the descriptors again.
The digits of the remaining length are in base `traffic.base`: 128 in the
protocol, and 2 where one digit more than is allowed has to be reached with few bytes.

`Faults`: `pendingClose` closes a descriptor whose packet waits; `lateClose` lets another
descriptor be read between an error and the close that follows it.

### UTF8

`UTF8_char_validate` is a table of byte ranges by length.  The module has the table, row by
row, the code points of a sequence of bytes, and the definition of the encoding (the shortest form
of a code point that is no surrogate), and proves that they agree.  `UTF8_validate` is the walk from
character to character; the code point of each is checked with the length of the whole string, as in the
code, which does not shorten it.

## 3. Runs

Passing:

| run | module | what it shows |
|---|---|---|
| `any_calls` | MQTTAsync | with every fault and every result of a connect or write: types, one owner per descriptor, at most one report per request |
| `clean_session` | MQTTAsync | `ConnectKept`: a connect is never forgotten, but by the two steps it names; `ViewUp`, `ViewDown`: what the application was told agrees with what the library does; `SessionCleared`, `AnswersComing`, `AnswersExpected`: answers and responses of a clean session match; `KeepsPromise`: the engine implements `AsyncClient` |
| `persistent_session` | MQTTAsync | `NothingForgotten`, `InOrder` across lost and resumed connections; `WritesSeparate`: nothing gets into the middle of a packet, with acknowledgements and closes under the send thread's interrupted writes; `RequestAnswered`: every accepted request is reported or its connection ends, under fairness |
| `connect_reported` | MQTTAsync | when only lookups, TCP connects and CONNECTs fail, every connect is reported, under fairness |
| `stalled_client` | MQTTAsync | two handles: one that cannot send, being without a connection, without an identifier or in the middle of a packet, does not keep the other's commands |
| `binding` | MrubyMQTT | no freed `mqtt_state` stays in the object, however the program connects; until it connects while a connect is outstanding, `connected?` is true and every connection can be disconnected |
| `delivery` | MQTTProtocolClient | a crash between any two effects, a lost connection, refusals and a retry, over seven plans: `KeepsOutgoing` and `KeepsIncoming` (no message of QoS 1 or 2 is lost, one of QoS 2 comes once), `StoreAgrees`, `InOrder`, `CompleteIsDelivered`, and under fairness `Settles` (no exchange is left over) and `Arrives` |
| `memory` | LinkedList | lists over the heap over the tree: the tree stays red-black, the table records what can be reached and its size, the links and the current pointer agree, a call adds or removes one content |
| `packets` | PacketIO | packets in any pieces on descriptors used again: what is parsed, saved and unread is what was sent; what is taken is what was written, in order and without gaps |

Violations, each a disagreement between the code and what the repository says of it:

| run | what happens | said at |
|---|---|---|
| `claim_reconnect_failure` | the default reconnect waits for a mutex its own thread holds | `README.md:56` |
| `claim_fresh_id` | after a restart a new message gets the identifier of one restored, which is in flight | `MQTTAsync.c:2159` |
| `claim_cleanup` | closing a descriptor leaves its pending write, which the next connection on it meets | `SocketBuffer.c:121` |

### Known deviations

These too are behaviours of the code that the model contains and that some property
would forbid.  Where a passing run checks that property, the run leaves out the
outcome or fault that leads there, as noted.

Engine:

* A `SOCKET_ERROR` found by `cycle` is used after the mutex was released; the
  descriptor may by then be that of the next attempt, which is closed, and its
  connect is never reported (`MQTTAsync.c:1465`, `1493`).  This and a DISCONNECT left in
  the queue from the connection before are the two steps that `ConnectKept` excepts by name; it
  is checked and proved with everything else that can happen.  `connect_reported` has no `timeout`, no `keepAlive`
  and no `peerClose`, which are the ways for the send thread to be ahead: with them `ConnectEnds` is false.
* In the same way a CONNACK of the previous attempt completes the next one
  (`MQTTAsync.c:1422`, `1534`).
* The DISCONNECT of a close is refused when a packet is unfinished (`Socket.c:444`): the
  broker sees the connection end in the middle of a packet.  An acknowledgement is refused in
  the same way, and the connection then treated as broken (`MQTTAsync.c:2638`, `1493`).
* A QoS 0 write that is interrupted and completed by select before `pending_write` is
  set is never reported (`MQTTAsync.c:1104`), and one whose write fails has no callback
  (`MQTTAsync.c:1135`).  `RequestOnce` therefore says at most once, and
  `RequestAnswered` is about QoS 1 and subscribes.
* `writeComplete` compares a field with itself and frees the first response of the
  client (`MQTTAsync.c:903`), so a subscribe before it is never answered, against
  `MQTTAsync.h:385`: `clean_session` has no QoS 0 publishes.
* The connect timeout fires for `connect_state` -2, a client that is disconnecting,
  and reconnects it (`MQTTAsync.c:1195`, against `MQTTAsync.h:727`).
* The descriptor of an attempt that failed after `socket()` stays in `net.socket`,
  and the next attempt overwrites it without closing it (`MQTTAsync.c:1480`,
  `MQTTProtocolOut.c:97`).  The timeout, or a packet on the old descriptor, may report
  the same connect twice: `clean_session` has no connects that fail at once.
* Duplicate internal disconnects are recognised only at the head of the queue
  (`MQTTAsync.c:748`).
* `MQTTAsync_waitForCompletion` returns with the mutex locked when the client is not
  connected (`MQTTAsync.c:2833`); the binding does not call it.

Binding:

* A second connect before the CONNACK creates a second client, and the first
  can no longer be disconnected (`mqtt.c:323`, against `README.md:104`): `Reachable` and
  `ConnectedReal` are about programs that wait.
* A CONNACK that arrives between `MQTTAsync_connect` and the assignment of `DATA_PTR`
  is ignored by the callback: `on_connect` is never called (`mqtt.c:348`-`358`); this is
  `CallIgnored`, and before the first connect `CallUnattached`.
* `publish`, `subscribe` and `disconnect` before the first connect read through a
  `_self` that is zero (`mqtt.c:384`): `StartUnattached`.
* `connectionLost` is called with a NULL cause, which `mqtt_connlost` interns
  (`mqtt.c:155`): `OnConnectionLost`.

Session and store (in brackets the fault that lets the model do it):

* `ids`: identifiers start at 1 in a new process and `assignMsgId` does not look at
  `outboundMsgs` (`claim_fresh_id`); an acknowledgement then ends the wrong exchange.
  `IdsContinue` is an application that waits for the restored messages.
* A message that a retry interval sends a second time has two acknowledgements to come.  The first ends its exchange;
  when its identifier has meanwhile gone to another message (identifiers start again in a new process, or wrap), the
  second ends that one's, which is then lost (`MQTTProtocolClient.c:569`, `323`): `KeepsOutgoing` fails with a retry on a connection that
  is up, two identifiers, one crash and three messages of QoS 1.  The plans of `delivery` have one identifier more than this
  needs; the interval is 0 by default (`MQTTAsync.h:696`) and the binding leaves it so, which means no retry except on
  reconnection (`MQTTProtocolClient.c:561`).
* `starting`: the command's file is removed before the message's is written
  (`MQTTAsync.c:975`, `1081`); a crash between loses an accepted message, against
  `MQTTAsync.h:1079`.
* `handling`: a message of QoS 1 is acknowledged before it is given to the application, and
  one of QoS 2 is answered with PUBCOMP, or given and its key not yet removed: a crash loses it or delivers it
  twice, against `MQTTAsync.h:1086`.  A refused message is in the same window until its `q-` file is there.
* `torn`: a put that is interrupted leaves a partial file in the place of a good one; the
  restore discards it.
* `order`: commands come back in the order of the directory, since the comparison reads a
  command as if it were a message (`MQTTAsync.c:713`).
* `clearUnix` removes the names in the directory from the working directory of the
  process, so the store of a clean session is never cleared
  (`MQTTPersistenceDefault.c:498`); `PstClear` does nothing, and `StoreAgrees` asks a
  clean session only that what is in memory is stored.
* The result of a put is overwritten by that of the write (`MQTTPacket_send`,
  `MQTTPacket_sends`): a full disk is not noticed.
* A PUBREL for an unknown message is answered only when marked as a duplicate, and a PUBREC for
  an unknown one not at all (`MQTTProtocolClient.c:366`, `414`).  `Settles` shows that with a
  broker that repeats its PUBREL on reconnection, with or without the mark, no exchange of the client is left over.
* Restored subscribe and unsubscribe commands write through a NULL array of topics, and
  such a command in flight counts as complete; neither is in the module, which has publishes.
* Keys are built in nine characters, which seven digits of a sequence number overflow.
* `assignMsgId` does not end when no identifier was used before and all are taken;
  `Publish` is not enabled there.

Packets and memory:

* `lateClose`: after a read error the default queue stays claimed until the descriptor is
  closed, and another descriptor that is interrupted in that time loses its header.
* A read of a descriptor that has no byte saves an unclaimed queue for socket 0, which is
  never freed and hides a second one (`Spurious`).
* A length of five digits can be written and not read; the sender gets no error.
* When `malloc` or `realloc` fail, `heap_mutex` stays locked (`Heap.c:149`, `296`), and after a
  failed `realloc` the record is gone and its size counted as changed: `OutOfMemory`, after which no call returns.
* `list->size` is not reduced on removal; the size of a list is not modelled.
* `ListFindItem` returns a matching current element before an earlier match.

### Bounds

`MaxCalls` bounds the API calls, `MaxSockets` the descriptors, `MaxQueue` the
internal disconnects that may pile up (the code has no limit; four is as many as
the calls of a run), `MaxMsgId` the identifiers (3 makes the limit of
messages in flight bite in `clean_session`, 2 in `stalled_client`).  Four calls are a connect, two
requests that can overtake each other and a disconnect or a second connect; two
descriptors are enough for one to be reused while the other is leaked.  `persistent_session` has
one, since with one client and no leaks a second is never opened.  `stalled_client` has five calls: a connect of each
handle, and three among a message that is interrupted, one that waits for it or for an identifier,
and one of the other handle.  The runs of the engine have 451,697 (`any_calls`), 368,748 (`clean_session`), 91,088
(`persistent_session`), 3,837 (`connect_reported`) and 151,892 (`stalled_client`) distinct states.  Two
handles are needed only for `stalled_client`, since handles share nothing but the
queue and the descriptors.  In the binding, three handles are one in use, one being
replaced and one more; six calls are three connects and three requests.

In `delivery`, five identifiers wrap while three messages are in flight (the first plan starts at the
last but one); the seven plans cover each QoS out and in, two messages of which one can overtake the
other, both directions at once, both forms of the broker's PUBREL, and a clean session.
One crash, one lost connection, two refusals and one retry (`MaxCrashes`, `MaxDrops`,
`MaxRefusals`, `MaxRetries`) are every pair of an interrupted exchange and an interrupted
recovery.  In `memory`, eight addresses reach every case of the removal; the other setups have
up to three elements with the current one anywhere, equal contents, resizes and failing
allocations.  In `packets`, two descriptors are interrupted at the same time, and two or three connections
use them again; the pieces are all lengths for the short packets, and 1, 2 and 127 around
the two-digit length of base 128.  `MaxWrites` is two packets.

Deadlock checking is off only where the process may stop: after a crash, when
the bounds are used up, or when a plan is done.

### Fairness

`SendSpec` assumes that an API call that started returns, and strong fairness of
`ProcessCommand` and `ReceiveThread`: a mutex both threads contend for is granted
to each in the end.  `LiveSpec` of `MQTTAsync` adds that select serves a socket that stays ready
(`getReadySocket` goes through the ready sockets in turn), that among the packets of a ready
socket those that answer a request are read too (`CycleRead`; the connection delivers in order), that the kernel takes the
rest of a packet, and that a TCP connect ends one way or the other.  Nothing makes the
application call, a timeout fire or a peer close.

`LiveSpec` of `MQTTProtocolClient` assumes only that something goes on while
something can (`Progress`): the threads run, the broker answers, a lost connection is noticed (keep-alive)
and made again, and a process that ended is started again.  The last two are the
application's, and they are the premise of any delivery over a broken connection.
Nothing makes it publish, or the connection break.

## 4. Proofs

`MQTTAsyncProofs!TypeCorrect` (`Spec => []TypeOK`) holds for all values of the
constants under the assumptions named in `MQTTAsync`.  One lemma per operator says
what it returns, one per action that it keeps each part of the type (connection,
session, callbacks, attempt, threads, application), and `TypeNext` puts them together.

`MQTTAsyncProofs!SocketsOwnedCorrect` (`Spec => []SocketsOwned`): the invariant is
inductive together with `TypeOK`.  A descriptor is assigned only by `OpenSocket`,
which takes a free one, and no client holds a free one; it is freed only by `CloseOnly`,
which takes it from its only owner; every other write to `net` keeps the statuses
that are not free.

`MQTTAsyncProofs!WritesSeparateCorrect` (`Spec => WritesSeparate`) is about every writer, those
that look for pending output and those that do not.  A write on a socket with an unfinished packet is refused and
leaves the socket as it was; select hands the rest of it over, which is the only way for it to end on a
live connection; the other is a close, whose DISCONNECT is refused for the same reason.  `AllTidy` says that of every
step and every descriptor; the invariant `ClosedEmpty`, that a free descriptor has nothing unsent, is what makes a
connect on it a write to a quiet socket.  The queue of pending writes below, where this is not so, is in `PacketIO` (`claim_cleanup`).

The second part of `MQTTAsyncProofs` follows the numbers of the calls.  The invariant `Known` says that every
number the engine holds, in the queue, in hand, in the responses, in the lists of messages, on a
connection and in the packet just read, is that of a call of this client and of this kind
(packets that answer no request have number 0);
without it nothing can be said of a number that is found somewhere.

* `InOrderCorrect` (`Spec => InOrder`): a command leaves the queue because it is the first of its
  client, because the whole client is removed, or not at all (`LeavesInOrder`); with `Known`,
  the position of a request is the number of its call, so the first is the oldest.
* `RequestOnceCorrect` (`Spec => []RequestOnce`): the invariant `Once` says where a request is, in
  at most one of the places before it is sent, and that as long as a callback may still be called
  for it none has been.  A QoS 0 publish that waits for its write is a response which is never
  acknowledged, and `pending_write` reports it; this is why its response does not count.
* `NothingForgottenCorrect`, for applications that publish nothing at QoS 0: with
  persistent sessions no step takes a request from its place without reporting it (`Remembered`).

The third part of `MQTTAsyncProofs` assumes a user disconnect without a timeout (`~DisconnectDelay`) and a
`Socket_new` that never finds the TCP connect complete (`"ready" \notin ConnectOutcomes`).
With either, TLC finds the library and the application in disagreement (see Known deviations).

* `ViewUpCorrect` (`Spec => []ViewUp`): the callbacks agree with `connected` as long as a CONNACK
  meets only a client that waits for it.  The invariant `Phases` follows the CONNECT: sent at most
  once per connection, in state 3 only, on the connection or answered and in the hand of the receive
  thread, never both.
* `SessionClearedCorrect` (`Spec => []SessionCleared`): `Cleared` adds that the publish
  the send thread is storing is that of a client that is still connected, since the thread
  keeps the mutex.
* `ViewDownCorrect` (`Spec => []ViewDown`) and `KeepsPromiseCorrect` (`Spec => KeepsPromise`) also
  assume an application that waits for the outcome of its connect (`~EagerConnect`) and a
  `Socket_new` that does not leave a socket behind (`"failed" \notin ConnectOutcomes`).  The
  invariant `Attempts` says that a queued CONNECT and a started attempt exclude each other, belong to a
  connect that was not reported, and that only they own a socket before the
  connection is up.  `PromiseNext` is the refinement: one lemma per action shows which step of
  `AsyncClient` it is, or that the application sees nothing of it.
* `ConnectKeptCorrect` (`Spec => ConnectKept`) is for applications that may connect again before the outcome,
  sockets that are left behind, and all the environment does.  A queued CONNECT leaves the queue for an attempt,
  for a callback, or because the library is connecting or connected (`IgnoreConnect`, where `ViewUp` says that the application
  knows); an attempt ends in a CONNACK that is reported, in a CONNECT put back with the other version, or in a callback, and
  the connect timeout meets only attempts that end so (`PhaseKnown`).  Commands are added at the head and the tail and dropped only for the
  whole client, when its session is cleaned, which no step does to a client that is connecting except those two.

The fourth part of `MQTTAsyncProofs` is about SUBACK and UNSUBACK.

* `AnswersExpectedCorrect` (`Spec => []AnswersExpected`), for applications that publish nothing at
  QoS 0 (which is the binding's default: with it, `writeComplete` frees another request's response, see Known deviations): `Expected` says that a subscribe on a connection is there once, for the client connected
  on it, which has its response, and that its answer has not been read.  That an answer which was
  read leaves no second copy to be answered again is what needs `Once`: a request that awaits its answer is not queued.
* `AnswersComingCorrect` (`Spec => []AnswersComing`), under the assumptions of `ViewUpCorrect`:
  `Coming` follows a response from the write of its packet to the handling of its answer, which
  the receive thread carries from `cycle` past an unlock of the mutex.  The step that could break it is a
  descriptor used again between the two; `SessionCleared` and `SocketsOwned` exclude it.

The invariants of these modules were first checked with TLC on variants of `clean_session` and
`persistent_session` (two clients, faults, eager connects), which also showed which of the
assumptions each one needs.

`MQTTProtocolClientProofs!StoreAgreesCorrect` (`Spec => []StoreAgrees`) and `SessionTypeCorrect`
(`Spec => []TypeOK`) hold for all plans, identifiers and bounds, with crashes anywhere, under
`OwnIdsWholeFiles`: no put is torn, and the application waits for restored messages before it publishes
(the faults `torn` and `ids`, without which both are false: a torn `q-` file is no message, and a new message with
the identifier of a restored one replaces its file).  `StoreAgrees` speaks of the state between two handlers; the
invariant `IInv` says what is true between two effects of one:

* a message is in its file or its put is among the effects to come (`Saved`), a file belongs to something in memory or
  its removal is to come (`NothingElse`), and no put or removal to come is of anything else
  (`PutsKnown`, `RemovalsKnown`); a queue entry is put first, before anything can remove it;
* no two lists or files use one identifier or number (`Listed`, `IdsApart`, `FilesApart`): without it a removal
  could take the file of another message.  That a new identifier is free is `AssignedId`: `assignMsgId` looks at the
  commands and the responses, and `IdsContinue` says that every outbound message has a response;
* a `sc-` file lies beside an `s-` file of QoS 2 (`PubrelOfQos2`), so that the restore takes the
  exchange up at the PUBCOMP, and when no process runs nothing is left of the memory (`Resting`).

`Restart` is proved from what the restore returns (`CommandsRestored`, `InboundRestored`, `QueueRestored`,
`OutboundRestored`): each list has each file of its kind once, in whatever order the directory lists them and
however `MQTTPersistence_wrapMsgID` turns the list (`Turned`).

`MQTTProtocolDelivery!CompleteIsDeliveredCorrect` (`Spec => []CompleteIsDelivered`) and `KeepsOutgoingCorrect`
(`Spec => KeepsOutgoing`, the refinement of `Delivery`) hold for all plans, identifiers, crashes, lost connections and orders of the
directory, under `OnlyOnReconnect`: `OwnIdsWholeFiles`, no crash between the removal of a command's file and the put of
its message (`starting`), and a retry interval of 0 (`MaxRetries = 0`).  Without any one of these TLC finds a message lost
(see the known deviations).  The invariant `DInv` follows one exchange through its packets, the memory, the broker and
the files:

* of an exchange there is at most one packet still to be written or on the connection (`OneAtATime`); a resend on
  reconnection meets an empty connection, and a handler writes only when the packet that it answers has been read.  Each packet finds its message in memory,
  in the state that the packet stands for (`AllMeant`), so that an acknowledgement ends the exchange it is about;
* a message that awaits its PUBREC was passed on exactly when the broker holds its identifier, and one that awaits its
  PUBCOMP was passed on (`Half`).  This is why the broker takes a repeated PUBLISH of QoS 2 once;
* the same holds of what the files say of a message, `sc-` file or none, since a new process has nothing else
  (`FilesHalf`), and a message whose `c-` file is there was never written (`Unsent`);
* that the files keep up is a matter of order inside a handler: a message is put before it is written, after the removal of its
  command and with nothing between; a PUBREL is put first of all; an acknowledgement removes the `s-` file before the `sc-` file (`Shapes`);
* with these, what is not delivered stays in a list or, when no process runs, in a file (`KeptUntilDelivered`), which is
  `CompleteIsDelivered` and the guard of `Forget` in `Delivery`.

For the refinement, `BrokerPublish` is the step `Deliver`, `Publish` is `Accept`, and every other step is `Forget` of the
messages that it drops: one lemma per action shows that the client holds nothing afterwards that it did not hold before (`NothingNew`).

`MQTTProtocolArrival!KeepsIncomingCorrect` (`Spec => KeepsIncoming`, the refinement of `Delivery` the other way) holds for all
plans, identifiers, lost connections, refusals of the application, retries and orders of the directory, under `ArrivalAssumptions`:
`OwnIdsWholeFiles`, and no process ends inside a handler that has acknowledged a message and not yet seen it to the
application (`handling`).  A process may end anywhere else, and any number of times.  The two sides share one fact, which the
invariant `AInv` states in three forms:

* in memory: the broker's next answer to a message of QoS 2 and the client's list of inbound messages say the same.  While the
  client has the identifier, or the broker awaits the PUBREC, the message has not been taken; once the PUBREL was handled it has
  (`Half`), and it is in one place only: with the application, in the queue of refused messages, or about to be delivered
  (`Once`).  This is why a repeated PUBLISH or PUBREL is answered and not delivered again;
* on the connection: each packet of an exchange is there once and means what both sides have (`OneAtATime`, `AllMeant`);
* in the files: the same of the `r-` and `q-` files, for which a new process takes the exchange up (`FilesHalf`).  The order of
  the effects is what keeps the two forms together (`Shapes`): the `r-` file is put before the PUBREC is written and removed only after
  its message was delivered or has its `q-` file.

Then a message is with the broker, or taken, or in a file of a session that is kept (`KeptUntilTaken`).  For the refinement, only the
broker brings in a message (`NothingNew`), and one that neither side has any longer was forgotten in a clean session.

`MrubyMQTTProofs!NoDanglingCorrect` (`Spec => []NoDangling`) holds for any number of
connects.  The invariant `Safe` adds that handles are numbered in the order of their
creation, and that the handle the program is still connecting is private: neither
the object nor the running callback has it, so that nothing can free it before
`Attach` stores it.

`MrubyMQTTProofs!TypeCorrect` (`Spec => []TypeOK`) strengthens the types with `Held`: a call that is
under way has a handle, and a callback runs only while the object holds one, so that the
library is never asked about handle 0.

`MrubyMQTTProofs!ConnectedRealCorrect` and `ReachableCorrect`: the invariant `InStep` ties
what the program was told to the views of the handles.  While the program was told
"down" every handle is down, so a connect begins with none alive; while it connects, the object is
empty and no callback runs, so that callbacks which come too early find nothing and change
nothing; once stored, the new handle is the only one that is not down, so a callback can only be
that handle's.  It holds until the program overlaps two connects, which is the premise of both
properties.

`PacketIOProofs!WritesWholeCorrect` (`Spec => []WritesWhole`) and `ReadsWholeCorrect` (`Spec => []ReadsWhole`) hold for any
descriptors, packets, pieces and connections, and in every base of the remaining length.  What is recursive in the module
(`Sums`, `MQTTPacket_encode`, the concatenation of packets) is a function on numbers; its properties are proved by looking at the
least number for which they would fail (`LeastNumber`).

* Writing assumes that no descriptor is closed while a packet waits (`"pendingClose" \notin Faults`; `claim_cleanup` shows what happens
  then).  `WriteInv` says that a descriptor with a pending write has exactly one (`OnePending`), and that the bytes which the kernel has taken
  followed by those from the saved count on are the bytes that were given (`PendingRest`); `RestOf`, which the code
  computes from the buffers and the count, is what starts at that count (`RestOfPacket`), wherever in a buffer it falls.
* Reading assumes that nothing is read between an error and the close of the descriptor (`"lateClose" \notin Faults`).
  `ReadInv` says of each connection that there are packets, all of what the peer sent after those that were parsed, such that
  what is saved for the descriptor followed by what is to come are their bytes, and that what is saved reaches
  neither beyond the header of the first of them nor beyond its data (`RestHeld`); that the default queue is free
  (`DefaultFree`), no two queues are of one descriptor (`OneQueue`), and a descriptor that is not open has none (`NewUnread`).
  `FactoryReads` follows one call of `MQTTPacket_Factory` from the invariant to one of three outcomes: a whole packet, the
  first of those; an interruption, after which what is saved and what is left are the same bytes as before; an error.
  For the remaining length, `ToDecode` says after each digit that the value so far plus the multiplier times what the remaining
  digits encode is the length of the packet.

`UTF8!ValidCharacter`: the table accepts exactly the shortest forms of code points that are no
surrogates, for every string and for both signs of `char`; `EndsAtTerminator`: no accepted
character has a NUL after its first byte.  `ValidString`: `UTF8_validate` accepts a string that ends with a NUL exactly when all of it,
up to that NUL, is characters (`EncodedString`); with `EndsAtTerminator`, the walk stays in the string (`NextInString`)
although every character is checked against the length of all of it.

`LinkedListProofs` is about one list and the heap, for any addresses and sizes.  `Linked(l, c)` says that the two chains of
pointers of the list are those of the sequence `c`; `ListInsert` before the element at a place of `c` gives a list linked as `c` with
one element more (`InsertLinks`), and taking out an element one linked as `c` without it (`TakenOutLinks`): at either end, in between
and for a list of one.  `Chain` then is `c` (`ChainIs`), and `Order` the contents along it.

* `SoundAlways` is the invariant: there is such a sequence, and the elements, the contents and the blocks that
  the program holds are blocks which the system gave out and has not taken back, no two the same.  This is what
  makes it inductive: a new element is at an address that no element has, and what is freed is not of the list.
  It needs nothing of the tree: whether an address is found there or not, no block but that one is given back (`FreeBlocks`).
* `WellLinkedCorrect` (`Spec => []WellLinked`) and `KeepsOrderCorrect` (`Spec => KeepsOrder`) follow; the current pointer
  moves off an element that is taken out to one beside it, which is another one or none (`NeighboursType`).

Only model-checked: all liveness properties, which need fairness and ENABLED; of `MQTTProtocolClient` `InOrder`; of
`LinkedList` `TreeSound` and `Accounted`, which depend on the balance of the tree after every rotation.

## 5. Plan

Proofs, in this order:

1. The tree: `TreeSound` and with it `Accounted`, by the shape of a subtree below a position.
2. `MQTTProtocolClient`: `InOrder`, which follows two messages at a time through every place they can be.

## 6. Not modelled

* `MQTTClient.c`, `MQTTClient.h`: a second, synchronous library over the same lower
  layers.  It defines the symbols that `MQTTAsync.c` defines, the two are never linked
  together, and the binding uses the other.
* `SSLSocket.c`: compiled only with OPENSSL, which the build does not define.
* `Thread.c` and the start and stop of the two threads: the mutexes are in the granularity of the
  actions; the condition variable only shortens a wait that is bounded.
* `MQTTAsync_waitForCompletion`, the only caller of the engine's synchronous helpers, which the binding does not use.
* `Log.c`, `StackTrace.c`, `Messages.c`, `MQTTVersion.c`: diagnostics.
* The mruby interpreter and the accessors of the binding.
* A disk that fails, the layout of a stored record, the fields of each packet type, address
  lookup and the options of a socket, the counting of references to the data of a message.
