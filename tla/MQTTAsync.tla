------------------------------ MODULE MQTTAsync ------------------------------
(***************************************************************************)
(* The asynchronous client engine (src/src/MQTTAsync.c) over its sockets:  *)
(* the command queue that the application appends to, the send thread that *)
(* empties it (processCommand, checkTimeouts), the receive thread          *)
(* (select, cycle, retry, then the handling of what cycle returned) and    *)
(* the TCP connections.  The broker and the network are collapsed into the *)
(* packets of a connection that have not been answered yet.                *)
(*                                                                         *)
(* mqttasync_mutex is held by processCommand, checkTimeouts, cycle (after  *)
(* its select) and the handling; those are single actions unless something *)
(* that does not take the mutex can run in the middle of them.             *)
(***************************************************************************)
EXTENDS Integers, FiniteSets

CONSTANTS
  Clients,          \* the handles created with MQTTAsync_create
  CleanClients,     \* those that connect with cleansession = 1
  Requests,         \* the calls the application makes besides connect
  MQTTVersion,      \* connect option: 0 (try 3.1.1, then 3.1), 3 or 4
  DisconnectDelay,  \* may a user disconnect have a timeout that has not elapsed?
  EagerConnect,     \* may the application connect while a connect is outstanding?
  ConnectOutcomes,  \* results of Socket_new that occur
  WriteOutcomes,    \* results of Socket_putdatas that occur
  Events,           \* faults of the environment, and incoming messages, that occur
  MaxMsgId,         \* MAX_MSG_ID
  MaxSockets,       \* bound: file descriptors of the process
  MaxCalls,         \* bound: API calls the application makes
  MaxQueue          \* bound: commands queued before internal disconnects wait

RequestTypes == {"SUBSCRIBE", "UNSUBSCRIBE", "PUBLISH0", "PUBLISH"}
CallTypes == RequestTypes \cup {"CONNECT", "DISCONNECT"}
Versions == {0, 3, 4}

ASSUME CleanClientsAssumption == CleanClients \subseteq Clients
ASSUME RequestsAssumption == Requests \subseteq RequestTypes \cup {"DISCONNECT"}
ASSUME VersionAssumption == MQTTVersion \in Versions
ASSUME SwitchAssumption == DisconnectDelay \in BOOLEAN /\ EagerConnect \in BOOLEAN
ASSUME OutcomeAssumption ==
  /\ ConnectOutcomes \subseteq {"pending", "ready", "failed", "unresolved"}
  /\ WriteOutcomes \subseteq {"complete", "interrupted", "error"}
  /\ Events \subseteq {"tcpFail", "peerClose", "refuse", "timeout", "keepAlive", "incoming"}
ASSUME BoundAssumption ==
  MaxMsgId \in Nat /\ MaxSockets \in Nat /\ MaxCalls \in Nat /\ MaxQueue \in Nat

VARIABLES
  commands,      \* the command list: cells ordered by their position
  connected,     \* Clients.connected
  connectState,  \* Clients.connect_state: 0, 1 TCP started, 3 CONNECT sent, -2 closing
  socket,        \* Clients.net.socket, 0 when there is none
  connect,       \* MQTTAsyncs.connect: whose callbacks, and the version tried
  disconnect,    \* MQTTAsyncs.disconnect: the call it came from, 0 when internal
  responses,     \* MQTTAsyncs.responses: the commands that await an answer
  outbound,      \* Clients.outboundMsgs: the QoS>0 publishes not acknowledged
  pendingWrite,  \* MQTTAsyncs.pending_write: the command pointed to, 0 for NULL
  net,           \* the process's sockets, by descriptor
  inHand,        \* the QoS 0 publish the send thread is storing, with its progress
  receiver,      \* the receive thread: where it is, and cycle's results
  pendingCall,   \* an API call between its check of connected and addCommand
  calls,         \* number of API calls accepted so far
  issued,        \* history: what each call asked for, and of which client
  notified,      \* history: how often a callback of each call was called
  view,          \* what the callbacks have told the application, per client
  crashed        \* the process has dereferenced a NULL command

vars == <<commands, connected, connectState, socket, connect, disconnect, responses,
          outbound, pendingWrite, net, inHand, receiver, pendingCall, calls, issued,
          notified, view, crashed>>

connection == <<connected, connectState, socket>>
session == <<responses, outbound>>
app == <<pendingCall, calls, issued>>
callbacks == <<notified, view>>

-----------------------------------------------------------------------------
(* Types *)

Ids == 1..MaxCalls
Sockets == 1..MaxSockets

Command ==      \* only what the library itself queues has id 0
  {x \in [client : Clients, type : CallTypes, id : Ids \cup {0},
          version : Versions, pos : Int] : x.type \in RequestTypes => x.id \in Ids}
\* packets that answer no call: PUBACK stands for PUBREC, PUBREL and PUBCOMP too
ControlTypes == {"PUBACK", "PINGREQ", "DISCONNECT"}
Packet == [type : {"CONNECT"} \cup ControlTypes \cup RequestTypes, id : Ids \cup {0}]
Control(t) == [type |-> t, id |-> 0]
NoPacket == [type |-> "none", id |-> 0]
Answer == [type : {"none", "CONNACK", "ACK"}, id : Ids \cup {0}, ok : BOOLEAN]
NoAnswer == [type |-> "none", id |-> 0, ok |-> TRUE]
Statuses == {"free", "connecting", "refused", "up", "down"}
Socket == [status : Statuses, unsent : Packet \cup {NoPacket}, wire : SUBSET Packet]
NoSocket == [status |-> "free", unsent |-> NoPacket, wire |-> {}]
Call == [client : Clients, type : CallTypes, id : Ids]
Issue == [client : Clients, type : CallTypes]
NotIssued == [type |-> "none"]
NoCall == [type |-> "none", id |-> 0]
NoCommand == [phase |-> "none"]

TypeOK ==
  /\ commands \subseteq Command
  /\ connected \in [Clients -> BOOLEAN]
  /\ connectState \in [Clients -> {0, 1, 3, -2}]
  /\ socket \in [Clients -> Sockets \cup {0}]
  /\ connect \in [Clients -> [id : Ids \cup {0}, version : Versions]]
  /\ disconnect \in [Clients -> Ids \cup {0}]
  /\ responses \in [Clients -> SUBSET Command]
  /\ outbound \in [Clients -> SUBSET Ids]
  /\ pendingWrite \in [Clients -> Ids \cup {0}]
  /\ net \in [Sockets -> Socket]
  /\ inHand \in [phase : {"written", "flagged"}, command : Command] \cup {NoCommand}
  /\ receiver \in [pc : {"select", "cycle", "retry", "handle"}, sock : Sockets \cup {0},
                   error : BOOLEAN, pack : Answer]
  /\ pendingCall \in Call \cup {NoCall}
  /\ calls \in Ids \cup {0}
  /\ issued \in [Ids -> Issue \cup {NotIssued}]
  /\ notified \in [Ids -> Nat]
  /\ view \in [Clients -> {"down", "connecting", "up"}]
  /\ crashed \in BOOLEAN

-----------------------------------------------------------------------------
(* The command list.  A cell's position orders it: appended commands take  *)
(* the (positive) number of their call, inserted ones a position below     *)
(* every other, so that ListInsert at the head and ListAppend are unions.  *)

Before(x, y) == x.pos < y.pos
First(q, x) == x \in q /\ \A y \in q : x.pos <= y.pos
Front(q) ==
  IF \E x \in q : First(q, x) /\ x.pos < 0
  THEN (CHOOSE x \in q : First(q, x)).pos - 1
  ELSE -1

\* addCommand of a CONNECT or an internal DISCONNECT: the head of the list,
\* unless the head is already a command of that type for that client
AtHead(q, c, t, i, v) ==
  IF \E x \in q : First(q, x) /\ x.client = c /\ x.type = t
  THEN q
  ELSE q \cup {[client |-> c, type |-> t, id |-> i, version |-> v, pos |-> Front(q)]}

\* addCommand of everything else: the tail
AtTail(q, c, t, i) ==
  q \cup {[client |-> c, type |-> t, id |-> i, version |-> 0, pos |-> i]}

\* MQTTAsync_disconnect_internal, which does nothing for a client not connected
WithInternalDisconnect(q, c) == IF connected[c] THEN AtHead(q, c, "DISCONNECT", 0, 0) ELSE q

NoPendingWrites(f) == f \in Sockets => net[f].unsent = NoPacket

\* processCommand's loop: the first command of each client is considered, in
\* list order, and the first one that may run now is taken
AnyOfClient(x) == TRUE     \* mutant: no ignored_clients
FirstOfClient(x) == \A y \in commands : y.client = x.client => x.pos <= y.pos
Eligible(x) ==
  \/ x.type \in {"CONNECT", "DISCONNECT"}
  \/ /\ connected[x.client]
     /\ connectState[x.client] = 0
     /\ NoPendingWrites(socket[x.client])
     /\ Cardinality(outbound[x.client]) < MaxMsgId - 1
SelectedHead(x) ==         \* mutant: only the head of the list is considered
  First(commands, x) /\ Eligible(x)
Selected(x) ==
  /\ x \in commands /\ FirstOfClient(x) /\ Eligible(x)
  /\ \A y \in commands : Before(y, x) /\ FirstOfClient(y) => ~Eligible(y)

Unlocked == inHand = NoCommand /\ receiver.pc # "retry" /\ ~crashed

-----------------------------------------------------------------------------
(* Sockets *)

\* what the application is told by a callback: call i of client c has reported,
\* and c is now v
Notify(i, c, v) ==
  /\ notified' = [notified EXCEPT ![i] = @ + 1]
  /\ view' = [view EXCEPT ![c] = v]

Answerable(p) == IF p.type \in {"PUBLISH0"} \cup ControlTypes THEN {} ELSE {p}

\* results of writing a packet to a socket: refused while the rest of another one
\* is still to be written
WritesAnyway(f) ==        \* mutant: Socket_putdatas does not look for pending output
  IF net[f].status = "connecting" THEN {"interrupted"}
  ELSE {w \in WriteOutcomes : w = "error" => net[f].status \in {"down", "refused"}}
Writes(f) ==
  IF net[f].unsent # NoPacket THEN {"error"}
  ELSE IF net[f].status = "connecting" THEN {"interrupted"}
  ELSE {w \in WriteOutcomes : w = "error" => net[f].status \in {"down", "refused"}}

\* what the write leaves: the broker sees only what is written completely to a
\* live connection
Received(s, p) == IF s.status = "up" THEN [s EXCEPT !.wire = @ \cup Answerable(p)] ELSE s
Written(s, p, w) ==
  IF w = "complete" THEN Received(s, p)
  ELSE IF w = "interrupted" THEN [s EXCEPT !.unsent = p]
  ELSE s

CloseOnlyToMinusOne(c) ==        \* mutant: net.socket = -1
  /\ connected' = [connected EXCEPT ![c] = FALSE]
  /\ connectState' = [connectState EXCEPT ![c] = 0]
  /\ socket' = [socket EXCEPT ![c] = -1]
  /\ net' = [net EXCEPT ![socket[c]] = NoSocket]

CloseOnlyKeepingSocket(c) ==     \* mutant: net.socket is not reset
  /\ connected' = [connected EXCEPT ![c] = FALSE]
  /\ connectState' = [connectState EXCEPT ![c] = 0]
  /\ UNCHANGED socket
  /\ net' = [net EXCEPT ![socket[c]] = NoSocket]

\* a closed descriptor: what is left of the connection is the DISCONNECT, if the
\* broker got one, until the descriptor is opened again
Closed(s, w) ==
  [NoSocket EXCEPT !.wire =
     IF w = "complete" /\ s.status = "up" THEN {Control("DISCONNECT")} ELSE {}]

\* MQTTAsync_closeOnly: a connected client writes a DISCONNECT first, and closes
\* whatever comes of that
CloseOnly(c) ==
  /\ connected' = [connected EXCEPT ![c] = FALSE]
  /\ connectState' = [connectState EXCEPT ![c] = 0]
  /\ socket' = [socket EXCEPT ![c] = 0]
  /\ \E w \in IF connected[c] THEN Writes(socket[c]) ELSE {"none"} :
       net' = [net EXCEPT ![socket[c]] = Closed(@, w)]

\* MQTTAsync_cleanSession: the session's messages, responses and commands go
WithoutClient(q, c) == {x \in q : x.client # c}
CleanSessionButOutbound(c, q) ==   \* mutant: outboundMsgs is not emptied
  /\ responses' = [responses EXCEPT ![c] = {}]
  /\ UNCHANGED outbound
  /\ commands' = WithoutClient(q, c)
CleanSessionButResponses(c, q) ==  \* mutant: responses is not emptied
  /\ UNCHANGED responses
  /\ outbound' = [outbound EXCEPT ![c] = {}]
  /\ commands' = WithoutClient(q, c)
CleanSession(c, q) ==
  /\ responses' = [responses EXCEPT ![c] = {}]
  /\ outbound' = [outbound EXCEPT ![c] = {}]
  /\ commands' = WithoutClient(q, c)

CloseSessionAlways(c, q) ==        \* mutant: cleans whatever cleansession says
  CloseOnly(c) /\ CleanSession(c, q)

\* MQTTAsync_closeSession, where q is the command list before it
CloseSession(c, q) ==
  /\ CloseOnly(c)
  /\ IF c \in CleanClients THEN CleanSession(c, q)
     ELSE commands' = q /\ UNCHANGED session

\* MQTTAsync_checkConn: is there another protocol version to try?
MoreToTry(v) == MQTTVersion = 0 /\ v = 4

AttemptForgotten(c) ==     \* mutant: the CONNECT is not put back
  IF MoreToTry(connect[c].version)
  THEN CloseOnly(c) /\ UNCHANGED <<commands, session, callbacks>>
  ELSE CloseSession(c, commands) /\ Notify(connect[c].id, c, "down")
AttemptReportedEarly(c) == \* mutant: reports the failure of every attempt
  /\ IF MoreToTry(connect[c].version)
     THEN /\ CloseOnly(c)
          /\ commands' = AtHead(commands, c, "CONNECT", connect[c].id, connect[c].version)
          /\ UNCHANGED session
     ELSE CloseSession(c, commands)
  /\ Notify(connect[c].id, c, "down")

\* what every failure of a started attempt does: try again with what is stored
\* in m->connect, or close the session and call its onFailure
AttemptFailed(c) ==
  IF MoreToTry(connect[c].version)
  THEN /\ CloseOnly(c)
       /\ commands' = AtHead(commands, c, "CONNECT", connect[c].id, connect[c].version)
       /\ UNCHANGED <<session, callbacks>>
  ELSE CloseSession(c, commands) /\ Notify(connect[c].id, c, "down")

-----------------------------------------------------------------------------
(* The application's calls.  The calls that need a connection read         *)
(* connected without the mutex and add the command afterwards.             *)

Connect(c) ==
  LET i == calls + 1 IN
  /\ calls < MaxCalls /\ pendingCall = NoCall /\ ~crashed
  /\ view[c] \in {"down"} \cup (IF EagerConnect THEN {"connecting"} ELSE {})
  /\ calls' = i
  /\ issued' = [issued EXCEPT ![i] = [client |-> c, type |-> "CONNECT"]]
  /\ connect' = [connect EXCEPT ![c].id = i]
  /\ commands' = AtHead(commands, c, "CONNECT", i, 0)
  /\ view' = [view EXCEPT ![c] = "connecting"]
  /\ UNCHANGED <<connection, disconnect, session, pendingWrite, net, inHand, receiver,
                 pendingCall, notified, crashed>>

CheckConnected(c, t) ==
  LET i == calls + 1 IN
  /\ calls < MaxCalls /\ pendingCall = NoCall /\ ~crashed
  /\ t \in Requests
  /\ connected[c]
  /\ calls' = i
  /\ issued' = [issued EXCEPT ![i] = [client |-> c, type |-> t]]
  /\ pendingCall' = [client |-> c, type |-> t, id |-> i]
  /\ UNCHANGED <<commands, connection, connect, disconnect, session, pendingWrite, net,
                 inHand, receiver, callbacks, crashed>>

AddCommand ==
  /\ pendingCall # NoCall /\ ~crashed
  /\ commands' = AtTail(commands, pendingCall.client, pendingCall.type, pendingCall.id)
  /\ pendingCall' = NoCall
  /\ UNCHANGED <<connection, connect, disconnect, session, pendingWrite, net, inHand,
                 receiver, calls, issued, callbacks, crashed>>

-----------------------------------------------------------------------------
(* The send thread: processCommand, one action per kind of command *)

\* a CONNECT for a client that is connected or connecting only overwrites m->connect
IgnoreConnect(x) ==
  LET c == x.client IN
  /\ Unlocked /\ Selected(x) /\ x.type = "CONNECT"
  /\ connectState[c] # 0 \/ connected[c]
  /\ commands' = commands \ {x}
  /\ connect' = [connect EXCEPT ![c] = [id |-> x.id, version |-> x.version]]
  /\ UNCHANGED <<connection, disconnect, session, pendingWrite, net, inHand, receiver,
                 app, callbacks, crashed>>

NextVersion(v) ==
  IF MQTTVersion # 0 THEN MQTTVersion
  ELSE IF v = 0 THEN 4 ELSE 3

\* MQTTProtocol_connect failed: the socket it may have opened is not closed
ConnectFailed(x, v) ==
  LET c == x.client
      q == commands \ {x}
  IN /\ UNCHANGED <<connected, connectState, connect>>
     /\ IF MoreToTry(v)
        THEN commands' = AtHead(q, c, "CONNECT", x.id, v) /\ UNCHANGED callbacks
        ELSE commands' = q /\ Notify(x.id, c, "down")

ConnectStarted(x, v, s) ==
  /\ connectState' = [connectState EXCEPT ![x.client] = s]
  /\ connect' = [connect EXCEPT ![x.client] = [id |-> x.id, version |-> v]]
  /\ commands' = commands \ {x}
  /\ UNCHANGED <<connected, callbacks>>

FreeSockets == {f \in Sockets : net[f].status = "free"}
OpenSocket(c, f, status, wire, unsent) ==
  /\ f \in FreeSockets /\ \A g \in FreeSockets : f <= g
  /\ socket' = [socket EXCEPT ![c] = f]
  /\ net' = [net EXCEPT ![f] = [status |-> status, unsent |-> unsent, wire |-> wire]]

\* MQTTProtocol_connect: the name is looked up, a socket is opened and, when it is
\* connected at once, the CONNECT is written
MQTTProtocol_connect(x, v) ==
  LET c == x.client
      p == [type |-> "CONNECT", id |-> x.id]
  IN \/ /\ "unresolved" \in ConnectOutcomes
        /\ ConnectFailed(x, v) /\ UNCHANGED <<socket, net>>
     \/ /\ FreeSockets = {}
        /\ ConnectFailed(x, v)
        /\ socket' = [socket EXCEPT ![c] = 0] /\ UNCHANGED net
     \/ \E f \in Sockets :
          \/ /\ "failed" \in ConnectOutcomes
             /\ OpenSocket(c, f, "down", {}, NoPacket) /\ ConnectFailed(x, v)
          \/ /\ "pending" \in ConnectOutcomes
             /\ OpenSocket(c, f, "connecting", {}, NoPacket) /\ ConnectStarted(x, v, 1)
          \/ /\ "ready" \in ConnectOutcomes
             /\ OpenSocket(c, f, "up", {p}, NoPacket) /\ ConnectStarted(x, v, 3)
          \/ /\ "ready" \in ConnectOutcomes /\ "interrupted" \in WriteOutcomes
             /\ OpenSocket(c, f, "up", {}, p) /\ ConnectFailed(x, v)
          \/ /\ "ready" \in ConnectOutcomes /\ "error" \in WriteOutcomes
             /\ OpenSocket(c, f, "down", {}, NoPacket) /\ ConnectFailed(x, v)

ProcessConnect(x) ==
  /\ Unlocked /\ Selected(x) /\ x.type = "CONNECT"
  /\ connectState[x.client] = 0 /\ ~connected[x.client]
  /\ MQTTProtocol_connect(x, NextVersion(x.version))
  /\ UNCHANGED <<disconnect, session, pendingWrite, inHand, receiver, app, crashed>>

CheckDisconnectClosed(c, i, q) ==  \* mutant: was_connected read after closeSession
  \/ /\ CloseSession(c, q)
     /\ IF i # 0 THEN Notify(i, c, "down") ELSE UNCHANGED callbacks
  \/ /\ outbound[c] # {} /\ DisconnectDelay /\ i # 0
     /\ connectState' = [connectState EXCEPT ![c] = -2]
     /\ commands' = q
     /\ UNCHANGED <<connected, socket, net, session, callbacks>>

\* checkDisconnect: close now, or wait for the messages in flight until the timeout
CheckDisconnect(c, i, q) ==
  \/ /\ CloseSession(c, q)
     /\ IF i # 0 THEN Notify(i, c, "down")
        ELSE UNCHANGED notified /\ view' = [view EXCEPT ![c] = IF connected[c] THEN "down" ELSE @]
  \/ /\ outbound[c] # {} /\ DisconnectDelay /\ i # 0
     /\ connectState' = [connectState EXCEPT ![c] = -2]
     /\ commands' = q
     /\ UNCHANGED <<connected, socket, net, session, callbacks>>

ProcessDisconnect(x) ==
  LET c == x.client IN
  /\ Unlocked /\ Selected(x) /\ x.type = "DISCONNECT"
  /\ IF connectState[c] # 0 \/ connected[c]
     THEN CheckDisconnect(c, x.id, commands \ {x})
     ELSE commands' = commands \ {x} /\ UNCHANGED <<connection, session, net, callbacks>>
  /\ disconnect' = [disconnect EXCEPT ![c] = x.id]
  /\ UNCHANGED <<connect, pendingWrite, inHand, receiver, app, crashed>>

\* a subscribe, an unsubscribe or a publish of QoS 1 or 2
ProcessRequest(x) ==
  LET c == x.client
      f == socket[c]
      p == [type |-> x.type, id |-> x.id]
      q == commands \ {x}
  IN /\ Unlocked /\ Selected(x) /\ x.type \in {"SUBSCRIBE", "UNSUBSCRIBE", "PUBLISH"}
     /\ outbound' = IF x.type = "PUBLISH" THEN [outbound EXCEPT ![c] = @ \cup {x.id}]
                    ELSE outbound
     /\ \E w \in Writes(f) :
          /\ net' = [net EXCEPT ![f] = Written(@, p, w)]
          /\ IF w = "error"
             THEN /\ commands' = WithInternalDisconnect(q, c)
                  /\ Notify(x.id, c, view[c])
                  /\ UNCHANGED responses
             ELSE /\ commands' = q
                  /\ responses' = [responses EXCEPT ![c] = @ \cup {x}]
                  /\ UNCHANGED callbacks
     /\ UNCHANGED <<connection, connect, disconnect, pendingWrite, inHand, receiver, app,
                    crashed>>

\* a publish of QoS 0: written at once, or stored until its write completes.
\* The write is visible to the receive thread's select from the moment it is
\* interrupted, before pending_write points to the command
ProcessPublish0(x) ==
  LET c == x.client
      f == socket[c]
      p == [type |-> x.type, id |-> x.id]
  IN /\ Unlocked /\ Selected(x) /\ x.type = "PUBLISH0"
     /\ commands' = commands \ {x}
     /\ \E w \in Writes(f) :
          /\ net' = [net EXCEPT ![f] = Written(@, p, w)]
          /\ IF w = "complete" THEN Notify(x.id, c, view[c]) ELSE UNCHANGED callbacks
          /\ inHand' = IF w = "interrupted" THEN [phase |-> "written", command |-> x]
                       ELSE inHand
          /\ pendingWrite' = IF w = "error" THEN [pendingWrite EXCEPT ![c] = x.id]
                             ELSE pendingWrite
     /\ UNCHANGED <<connection, connect, disconnect, session, receiver, app, crashed>>

FlagPendingWrite ==
  /\ inHand.phase = "written" /\ ~crashed
  /\ pendingWrite' = [pendingWrite EXCEPT ![inHand.command.client] = inHand.command.id]
  /\ inHand' = [inHand EXCEPT !.phase = "flagged"]
  /\ UNCHANGED <<commands, connection, connect, disconnect, session, net, receiver, app,
                 callbacks, crashed>>

StoreResponse ==
  /\ inHand.phase = "flagged" /\ ~crashed
  /\ responses' = [responses EXCEPT ![inHand.command.client] = @ \cup {inHand.command}]
  /\ inHand' = NoCommand
  /\ UNCHANGED <<commands, connection, connect, disconnect, outbound, pendingWrite, net,
                 receiver, app, callbacks, crashed>>

\* checkTimeouts for one client; any connect_state other than 0 is taken for an
\* attempt to connect
CheckTimeouts(c) ==
  /\ Unlocked
  /\ \/ connectState[c] # 0 /\ "timeout" \in Events /\ AttemptFailed(c)
     \/ connectState[c] = -2 /\ CheckDisconnect(c, disconnect[c], commands)
  /\ UNCHANGED <<connect, disconnect, pendingWrite, inHand, receiver, app, crashed>>

-----------------------------------------------------------------------------
(* The receive thread *)

ReadableWhenSent(f) ==     \* mutant: no Socket_addPendingWrite after EINPROGRESS
  /\ net[f].unsent = NoPacket
  /\ \/ net[f].status \in {"down", "refused"}
     \/ net[f].status = "up" /\ net[f].wire # {}

\* select: the sockets with something to read, a completed TCP connect included
Readable(f) ==
  /\ net[f].unsent = NoPacket
  /\ \/ net[f].status \in {"down", "refused"}
     \/ net[f].status = "up" /\ net[f].wire # {}
     \/ net[f].status = "up" /\ \E c \in Clients : socket[c] = f /\ connectState[c] = 1
     \/ /\ net[f].status = "up" /\ "incoming" \in Events
        /\ \E c \in Clients : socket[c] = f /\ connected[c]

Select(f) ==
  /\ receiver.pc = "select" /\ ~crashed
  /\ f # 0 => Readable(f)
  /\ receiver' = [pc |-> "cycle", sock |-> f, error |-> TRUE, pack |-> NoAnswer]
  /\ UNCHANGED <<commands, connection, connect, disconnect, session, pendingWrite, net,
                 inHand, app, callbacks, crashed>>

WriteCompleteAgain(c) ==   \* mutant: pending_write is not reset
  IF pendingWrite[c] = 0 \/ responses[c] = {}
  THEN UNCHANGED <<pendingWrite, responses, callbacks, crashed>>
  ELSE /\ \E r \in responses[c] :
            /\ First(responses[c], r)
            /\ responses' = [responses EXCEPT ![c] = @ \ {r}]
       /\ Notify(pendingWrite[c], c, view[c])
       /\ UNCHANGED <<pendingWrite, crashed>>

\* MQTTAsync_writeComplete for client c: the loop over responses stops at the
\* first one, whichever it is, and that one is freed
WriteComplete(c) ==
  IF pendingWrite[c] = 0 THEN UNCHANGED <<pendingWrite, responses, callbacks, crashed>>
  ELSE /\ pendingWrite' = [pendingWrite EXCEPT ![c] = 0]
       /\ IF responses[c] = {}
          THEN crashed' = TRUE /\ UNCHANGED <<responses, callbacks>>
          ELSE /\ \E r \in responses[c] :
                    /\ First(responses[c], r)
                    /\ responses' = [responses EXCEPT ![c] = @ \ {r}]
               /\ Notify(pendingWrite[c], c, view[c])
               /\ UNCHANGED crashed

\* Socket_continueWrites, in select and so without the mutex; an error counts
\* as completion
ContinueWrite(f) ==
  /\ receiver.pc = "select" /\ ~crashed
  /\ net[f].unsent # NoPacket /\ net[f].status \in {"up", "down", "refused"}
  /\ net' = [net EXCEPT ![f] = [Received(@, @.unsent) EXCEPT !.unsent = NoPacket]]
  /\ \/ \E c \in Clients : socket[c] = f /\ WriteComplete(c)
     \/ /\ \A c \in Clients : socket[c] # f
        /\ UNCHANGED <<pendingWrite, responses, callbacks, crashed>>
  /\ UNCHANGED <<commands, connection, connect, disconnect, outbound, inHand, receiver, app>>

Owned(f) == f # 0 /\ \E c \in Clients : socket[c] = f

\* cycle, on a socket that has no client (any more)
CycleNobody ==
  /\ Unlocked /\ receiver.pc = "cycle" /\ ~Owned(receiver.sock)
  /\ receiver' = [receiver EXCEPT !.pc = "retry"]
  /\ UNCHANGED <<commands, connection, connect, disconnect, session, pendingWrite, net,
                 inHand, app, callbacks, crashed>>

\* cycle calls MQTTAsync_connecting: has the TCP connect succeeded?
CycleConnecting(c) ==
  LET f == receiver.sock IN
  /\ Unlocked /\ receiver.pc = "cycle" /\ f # 0 /\ socket[c] = f
  /\ connectState[c] = 1
  /\ \/ /\ net[f].status \in {"refused", "down"}
        /\ AttemptFailed(c)
        /\ receiver' = [receiver EXCEPT !.pc = "retry", !.error = FALSE]
     \/ /\ net[f].status # "refused"
        /\ "error" \in Writes(f)
        /\ AttemptFailed(c)
        /\ receiver' = [receiver EXCEPT !.pc = "retry"]
     \/ /\ net[f].status # "refused"
        /\ \E w \in Writes(f) \ {"error"} :
             net' = [net EXCEPT ![f] = Written(@, [type |-> "CONNECT", id |-> connect[c].id], w)]
        /\ connectState' = [connectState EXCEPT ![c] = 3]
        /\ receiver' = [receiver EXCEPT !.pc = "retry", !.error = FALSE]
        /\ UNCHANGED <<commands, connected, socket, session, callbacks>>
  /\ UNCHANGED <<connect, disconnect, pendingWrite, inHand, app, crashed>>

\* cycle: MQTTPacket_Factory returns SOCKET_ERROR, which ends an attempt
\* whose CONNECT was sent
CycleReadError(c) ==
  LET f == receiver.sock IN
  /\ Unlocked /\ receiver.pc = "cycle" /\ f # 0 /\ socket[c] = f
  /\ connectState[c] # 1 /\ net[f].status \in {"down", "refused"}
  /\ IF connectState[c] = 3 THEN AttemptFailed(c)
     ELSE UNCHANGED <<commands, connection, session, net, callbacks>>
  /\ receiver' = [receiver EXCEPT !.pc = "retry"]
  /\ UNCHANGED <<connect, disconnect, pendingWrite, inHand, app, crashed>>

\* cycle: there is no complete packet to read after all
CycleNothing(c) ==
  LET f == receiver.sock IN
  /\ Unlocked /\ receiver.pc = "cycle" /\ f # 0 /\ socket[c] = f
  /\ connectState[c] # 1
  /\ net[f].status \in {"up", "connecting"} /\ net[f].wire = {}
  /\ receiver' = [receiver EXCEPT !.pc = "retry", !.error = FALSE]
  /\ UNCHANGED <<commands, connection, connect, disconnect, session, pendingWrite, net,
                 inHand, app, callbacks, crashed>>

AcknowledgeFirst(c, i) ==  \* mutant: takes the first response for the one with the token
  IF \E r \in responses[c] : r.id = i
  THEN /\ responses' = [responses EXCEPT ![c] = {r \in @ : ~First(responses[c], r)}]
       /\ Notify(i, c, view[c])
  ELSE UNCHANGED <<responses, callbacks>>

\* the response whose token is i is removed and its callback called
Acknowledge(c, i) ==
  IF \E r \in responses[c] : r.id = i
  THEN /\ responses' = [responses EXCEPT ![c] = {r \in @ : r.id # i}]
       /\ Notify(i, c, view[c])
  ELSE UNCHANGED <<responses, callbacks>>

\* cycle reads a packet: the answer to p.  A PUBACK is dealt with at once, any
\* other answer is left to the handling
CycleRead(c) ==
  LET f == receiver.sock IN
  /\ Unlocked /\ receiver.pc = "cycle" /\ f # 0 /\ socket[c] = f
  /\ connectState[c] # 1
  /\ \E p \in net[f].wire :
       /\ net' = [net EXCEPT ![f].wire = @ \ {p}]
       /\ IF p.type = "PUBLISH"
          THEN /\ outbound' = [outbound EXCEPT ![c] = @ \ {p.id}]
               /\ Acknowledge(c, p.id)
               /\ receiver' = [receiver EXCEPT !.pc = "retry", !.error = FALSE]
          ELSE /\ \E ok \in {TRUE} \cup (IF "refuse" \in Events THEN {FALSE} ELSE {}) :
                    receiver' = [receiver EXCEPT !.pc = "retry", !.error = FALSE,
                      !.pack = [type |-> IF p.type = "CONNECT" THEN "CONNACK" ELSE "ACK",
                                id |-> p.id, ok |-> ok]]
               /\ UNCHANGED <<outbound, responses, callbacks>>
  /\ UNCHANGED <<commands, connection, connect, disconnect, pendingWrite, inHand, app,
                 crashed>>

\* cycle reads a message of the broker's, or the next packet of its exchange.  Most
\* are acknowledged, without looking for a pending write: the send thread may have
\* been interrupted on this socket since select found it ready
CycleIncoming(c) ==
  LET f == receiver.sock IN
  /\ Unlocked /\ receiver.pc = "cycle" /\ f # 0 /\ socket[c] = f
  /\ "incoming" \in Events /\ connected[c] /\ connectState[c] # 1 /\ net[f].status = "up"
  /\ \E w \in Writes(f) \cup {"none"} :
       /\ net' = [net EXCEPT ![f] = Written(@, Control("PUBACK"), w)]
       /\ receiver' = IF w = "error" THEN [receiver EXCEPT !.pc = "retry"]
                      ELSE [receiver EXCEPT !.pc = "retry", !.error = FALSE]
  /\ UNCHANGED <<commands, connection, connect, disconnect, session, pendingWrite, inHand,
                 app, callbacks, crashed>>

\* keepalive disconnects a client whose PINGREQ has not been answered, or could
\* not be written at once
KeepAlive(c) ==
  /\ "keepAlive" \in Events /\ connected[c] /\ Cardinality(commands) < MaxQueue
  /\ commands' = WithInternalDisconnect(commands, c)
  /\ \/ UNCHANGED net
     \/ /\ NoPendingWrites(socket[c])
        /\ \E w \in Writes(socket[c]) \ {"complete"} :
             net' = [net EXCEPT ![socket[c]] = Written(@, Control("PINGREQ"), w)]

\* MQTTAsync_retry ends cycle and releases the mutex; most PINGREQs are written
\* and answered
Retry ==
  /\ receiver.pc = "retry" /\ ~crashed
  /\ receiver' = [receiver EXCEPT !.pc = "handle"]
  /\ \/ UNCHANGED <<commands, net>>
     \/ \E c \in Clients : KeepAlive(c)
  /\ UNCHANGED <<connection, connect, disconnect, session, pendingWrite, inHand, app,
                 callbacks, crashed>>

Done == receiver' = [pc |-> "select", sock |-> 0, error |-> FALSE, pack |-> NoAnswer]

HandleNobody ==
  /\ Unlocked /\ receiver.pc = "handle" /\ Done
  /\ ~Owned(receiver.sock)
  /\ UNCHANGED <<commands, connection, connect, disconnect, session, pendingWrite, net,
                 inHand, app, callbacks, crashed>>

\* cycle returned SOCKET_ERROR; the socket's client is looked up now
HandleError(c) ==
  /\ Unlocked /\ receiver.pc = "handle" /\ Done
  /\ receiver.sock # 0 /\ socket[c] = receiver.sock /\ receiver.error
  /\ IF connected[c]
     THEN /\ Cardinality(commands) < MaxQueue
          /\ commands' = WithInternalDisconnect(commands, c)
          /\ UNCHANGED <<connection, net>>
     ELSE CloseOnly(c) /\ UNCHANGED commands
  /\ UNCHANGED <<connect, disconnect, session, pendingWrite, inHand, app, callbacks, crashed>>

\* MQTTProtocol_retry on reconnection sends the client's outbound messages again,
\* in order, until a write is interrupted or fails.  (It also sends those of any
\* other connected client again, which are on its connection already.)
Resent(s, msgs, m, w) ==
  LET all == [s EXCEPT !.wire = @ \cup {[type |-> "PUBLISH", id |-> i] : i \in {j \in msgs : j < m}}]
  IN Written(IF s.status = "up" THEN all ELSE s, [type |-> "PUBLISH", id |-> m], w)

\* completeConnection succeeded: the session is resumed or cleaned, and the
\* application told
HandleConnected(c) ==
  LET f == socket[c] IN
  /\ Unlocked /\ receiver.pc = "handle" /\ Done
  /\ receiver.sock # 0 /\ f = receiver.sock /\ ~receiver.error
  /\ receiver.pack.type = "CONNACK" /\ receiver.pack.ok /\ connectState[c] = 3
  /\ connected' = [connected EXCEPT ![c] = TRUE]
  /\ connectState' = [connectState EXCEPT ![c] = 0]
  /\ IF c \in CleanClients \/ outbound[c] = {} \/ net[f].unsent # NoPacket
     THEN UNCHANGED net /\ IF c \in CleanClients THEN CleanSession(c, commands)
                           ELSE UNCHANGED <<commands, session>>
     ELSE /\ \E m \in outbound[c], w \in Writes(f) :
               /\ w = "complete" => \A i \in outbound[c] : i <= m
               /\ net' = [net EXCEPT ![f] = Resent(@, outbound[c], m, w)]
               /\ commands' = IF w = "error" THEN AtHead(commands, c, "DISCONNECT", 0, 0)
                              ELSE commands
          /\ UNCHANGED session
  /\ Notify(connect[c].id, c, "up")
  /\ UNCHANGED <<socket, connect, disconnect, pendingWrite, inHand, app, crashed>>

HandleRefused(c) ==
  /\ Unlocked /\ receiver.pc = "handle" /\ Done
  /\ receiver.sock # 0 /\ socket[c] = receiver.sock /\ ~receiver.error
  /\ receiver.pack.type = "CONNACK" /\ (~receiver.pack.ok \/ connectState[c] # 3)
  /\ AttemptFailed(c)
  /\ UNCHANGED <<connect, disconnect, pendingWrite, inHand, app, crashed>>

HandleAck(c) ==
  /\ Unlocked /\ receiver.pc = "handle" /\ Done
  /\ receiver.sock # 0 /\ socket[c] = receiver.sock /\ ~receiver.error
  /\ receiver.pack.type # "CONNACK"
  /\ Acknowledge(c, receiver.pack.id)
  /\ UNCHANGED <<commands, connection, connect, disconnect, outbound, pendingWrite, net,
                 inHand, app, crashed>>

-----------------------------------------------------------------------------
(* The network *)

SetStatus(f, old, new) ==
  /\ net[f].status = old /\ ~crashed
  /\ net' = [net EXCEPT ![f].status = new]
  /\ UNCHANGED <<commands, connection, connect, disconnect, session, pendingWrite, inHand,
                 receiver, app, callbacks, crashed>>

TcpUp(f) == SetStatus(f, "connecting", "up")
TcpFail(f) == "tcpFail" \in Events /\ SetStatus(f, "connecting", "refused")
PeerClose(f) == "peerClose" \in Events /\ SetStatus(f, "up", "down")

-----------------------------------------------------------------------------
Init ==
  /\ commands = {}
  /\ connected = [c \in Clients |-> FALSE]
  /\ connectState = [c \in Clients |-> 0]
  /\ socket = [c \in Clients |-> 0]
  /\ connect = [c \in Clients |-> [id |-> 0, version |-> 0]]
  /\ disconnect = [c \in Clients |-> 0]
  /\ responses = [c \in Clients |-> {}]
  /\ outbound = [c \in Clients |-> {}]
  /\ pendingWrite = [c \in Clients |-> 0]
  /\ net = [f \in Sockets |-> NoSocket]
  /\ inHand = NoCommand
  /\ receiver = [pc |-> "select", sock |-> 0, error |-> FALSE, pack |-> NoAnswer]
  /\ pendingCall = NoCall
  /\ calls = 0
  /\ issued = [i \in Ids |-> NotIssued]
  /\ notified = [i \in Ids |-> 0]
  /\ view = [c \in Clients |-> "down"]
  /\ crashed = FALSE

Application == AddCommand \/ \E c \in Clients : Connect(c) \/ \E t \in CallTypes : CheckConnected(c, t)

ProcessCommand ==
  \/ \E x \in commands : \/ IgnoreConnect(x) \/ ProcessConnect(x) \/ ProcessDisconnect(x)
                         \/ ProcessRequest(x) \/ ProcessPublish0(x)
  \/ FlagPendingWrite \/ StoreResponse

Cycle == CycleNobody \/ \E c \in Clients : \/ CycleConnecting(c) \/ CycleReadError(c)
                                           \/ CycleNothing(c) \/ CycleRead(c)
                                           \/ CycleIncoming(c)

Handle == HandleNobody \/ \E c \in Clients : \/ HandleError(c) \/ HandleConnected(c)
                                             \/ HandleRefused(c) \/ HandleAck(c)

ReceiveThread == Cycle \/ Retry \/ Handle

Network == \E f \in Sockets : TcpUp(f) \/ TcpFail(f) \/ PeerClose(f)

Next ==
  \/ Application
  \/ ProcessCommand
  \/ \E c \in Clients : CheckTimeouts(c)
  \/ Select(0)
  \/ \E f \in Sockets : Select(f) \/ ContinueWrite(f)
  \/ ReceiveThread
  \/ Network

Spec == Init /\ [][Next]_vars
\* An API call that was started returns, and mqttasync_mutex is granted to each
\* thread eventually.  Nothing makes the application call or time pass.
SendSpec == Spec /\ WF_vars(AddCommand) /\ SF_vars(ProcessCommand) /\ SF_vars(ReceiveThread)

\* select returns a socket that stays ready, in turn; a broker answers, among its
\* other messages and in order, and takes the rest of a packet; hosts answer a TCP
\* connect, one way or the other
LiveSpec ==
  /\ SendSpec
  /\ \A c \in Clients : SF_vars(CycleRead(c))
  /\ \A f \in Sockets : /\ SF_vars(Select(f)) /\ SF_vars(ContinueWrite(f))
                        /\ WF_vars(TcpUp(f) \/ TcpFail(f))

-----------------------------------------------------------------------------
(* Properties *)

Up(c) == socket[c] # 0 /\ net[socket[c]].status = "up"
Sent(c) == net[socket[c]].wire \cup {net[socket[c]].unsent}
Subscribing(x) == x.type \in {"SUBSCRIBE", "UNSUBSCRIBE"}
ConnectQueued(c) == \E x \in commands : x.client = c /\ x.type = "CONNECT"

\* No descriptor belongs to two clients, a client's descriptor is open, and a
\* client that is connected, connecting or closing has one.  closeOnly and
\* Socket_new run on either thread, and the kernel reuses descriptors at once.
SocketsOwned ==
  /\ \A c, d \in Clients : socket[c] # 0 /\ socket[c] = socket[d] => c = d
  /\ \A c \in Clients : socket[c] # 0 => net[socket[c]].status # "free"
  /\ \A c \in Clients : connected[c] \/ connectState[c] # 0 => socket[c] # 0

\* A request is reported to the application at most once, whatever is resent,
\* written late or answered twice.
RequestOnce ==
  \A i \in Ids : issued[i].type # "CONNECT" => notified[i] <= 1

\* Requests and user disconnects of one client leave the queue in the order
\* of their calls (processCommand's ignored_clients).
InOrder ==
  [][\A x, y \in commands :
       /\ x.client = y.client /\ 0 < x.id /\ x.id < y.id
       /\ x.type # "CONNECT" /\ y.type # "CONNECT"
       => (x \in commands' => y \in commands')]_vars

\* Nothing gets between the two parts of a packet: while the rest of it is to be
\* written, no other packet takes its place or reaches the broker, be it an
\* acknowledgement, whose writer does not look, or the DISCONNECT of a connection
\* that is closed in the middle of a packet (the refusal of Socket_putdatas).
WritesSeparate ==
  [][\A f \in Sockets :
       net[f].unsent # NoPacket =>
         \/ /\ net'[f].unsent = net[f].unsent
            /\ net'[f].wire \subseteq net[f].wire
         \/ /\ net'[f].unsent = NoPacket
            /\ net'[f].wire \subseteq net[f].wire \cup Answerable(net[f].unsent)]_vars

\* The application believes it is connected exactly while the library is.
ViewUp == \A c \in Clients : view[c] = "up" <=> connected[c]

\* An application that waits for its connect to be reported is waited for, by an
\* attempt under way or a CONNECT in the queue, through timeouts, refusals, lost
\* connections and the other protocol version.  Two steps may end that without a
\* report: an error that cycle found on the connection before, handled when its
\* descriptor is the new attempt's, and a disconnect left from that connection.
ConnectHeld(c) == connectState[c] # 0 \/ ConnectQueued(c)
ConnectKept ==
  [][\A c \in Clients :
       view[c] = "connecting" /\ ConnectHeld(c) /\ view'[c] = "connecting" =>
         \/ ConnectHeld(c)'
         \/ HandleError(c)
         \/ \E x \in commands : x.client = c /\ ProcessDisconnect(x)]_vars

\* A client reported down is left alone: no attempt of an earlier connect goes on.
ViewDown ==
  \A c \in Clients : view[c] = "down" => connectState[c] = 0 /\ ~ConnectQueued(c)

\* Nothing of a clean session outlives its connection.
SessionCleared ==
  \A c \in CleanClients : ~connected[c] => responses[c] = {} /\ outbound[c] = {}

\* In a clean session, a subscribe waits only for an answer that can still come.
AnswersComing ==
  \A c \in CleanClients : Up(c) =>
    \A r \in responses[c] : Subscribing(r) =>
      [type |-> r.type, id |-> r.id] \in Sent(c) \/ receiver.pack.id = r.id

\* An answer that can still come is waited for.
AnswersExpected ==
  \A c \in Clients : Up(c) =>
    \A p \in Sent(c) : Subscribing(p) => \E r \in responses[c] : r.id = p.id

\* Without clean sessions every request is queued, in hand, awaiting its
\* answer, or has been reported.
Waiting(i) ==
  \/ pendingCall.id = i
  \/ \E x \in commands : x.id = i
  \/ inHand # NoCommand /\ inHand.command.id = i
  \/ \E c \in Clients : \E r \in responses[c] : r.id = i
NothingForgotten ==
  CleanClients = {} => \A i \in Ids : issued[i].type \in RequestTypes => Waiting(i) \/ notified[i] > 0
\* A command that may run, the first of its client's, is not left in the queue for
\* ever, whatever another client's is waiting for: a connection, the rest of a
\* packet, or an identifier.
QueueProgress ==
  \A i \in Ids :
    LET Runnable == \E x \in commands : x.id = i /\ FirstOfClient(x) /\ Eligible(x)
    IN Runnable ~> ~Runnable

\* A request accepted on a connection is reported, unless the connection ends.
RequestAnswered ==
  \A c \in Clients, i \in Ids :
    pendingCall.id = i /\ pendingCall.client = c ~> ~connected[c] \/ notified[i] > 0

\* A connect is reported.
ConnectEnds ==
  \A c \in Clients : view[c] = "connecting" ~> view[c] # "connecting"

\* The client keeps what AsyncClient promises: a handle goes from down to
\* connecting to up and back only by the callback that says so, a connect has
\* one outcome, and no call is reported twice.
Promise == INSTANCE AsyncClient
KeepsPromise == Promise!Spec
=============================================================================
