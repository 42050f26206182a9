-------------------------- MODULE MQTTAsyncProofs ---------------------------
(***************************************************************************)
(* Theorems about MQTTAsync, for any clients and any bounds, in four parts:*)
(* the types, who owns a socket and writes to it; what becomes of the      *)
(* application's requests; what the application is told of its             *)
(* connections; and the answers to subscribes. All of them are for any     *)
(* choice of the faults that occur. Those of the third part are for a user *)
(* disconnect without a timeout and a Socket_new that never finds the TCP  *)
(* connection established at once: with either, the runs show that the     *)
(* library and the application may disagree.                               *)
(***************************************************************************)
EXTENDS MQTTAsync, TLAPS

-----------------------------------------------------------------------------
(* What the operators the actions are built from return *)

LEMMA FrontType ==
  ASSUME NEW q \in SUBSET Command
  PROVE  Front(q) \in Int
BY DEF Front, First, Command

LEMMA AtHeadType ==
  ASSUME NEW q \in SUBSET Command, NEW c \in Clients, NEW t \in {"CONNECT", "DISCONNECT"},
         NEW i \in Ids \cup {0}, NEW v \in Versions
  PROVE  AtHead(q, c, t, i, v) \in SUBSET Command
BY FrontType DEF AtHead, Command, CallTypes, RequestTypes

LEMMA AtTailType ==
  ASSUME NEW q \in SUBSET Command, NEW c \in Clients, NEW t \in CallTypes, NEW i \in Ids
  PROVE  AtTail(q, c, t, i) \in SUBSET Command
BY DEF AtTail, Command, Versions, Ids

LEMMA InternalDisconnectType ==
  ASSUME NEW q \in SUBSET Command, NEW c \in Clients
  PROVE  WithInternalDisconnect(q, c) \in SUBSET Command
BY AtHeadType DEF WithInternalDisconnect, CallTypes, Versions

LEMMA WrittenType ==
  ASSUME NEW s \in Socket, NEW p \in Packet, NEW w
  PROVE  Written(s, p, w) \in Socket
BY DEF Written, Received, Answerable, Socket

\* a descriptor closed by c: what is left is at most a DISCONNECT
LEMMA CloseOnlyNet ==
  ASSUME NEW c \in Clients, CloseOnly(c)
  PROVE  \E s \in Socket : /\ net' = [net EXCEPT ![socket[c]] = s]
                           /\ s.status = "free" /\ s.unsent = NoPacket
                           /\ s.wire \subseteq {Control("DISCONNECT")}
<1>1. PICK w : net' = [net EXCEPT ![socket[c]] = Closed(net[socket[c]], w)]
  BY DEF CloseOnly
<1>2. Control("DISCONNECT") \in Packet
  BY DEF Control, Packet, ControlTypes
<1>3. PICK p \in SUBSET {Control("DISCONNECT")} :
        Closed(net[socket[c]], w) = [status |-> "free", unsent |-> NoPacket, wire |-> p]
  BY DEF Closed, NoSocket
<1>4. [status |-> "free", unsent |-> NoPacket, wire |-> p] \in Socket
  BY <1>2 DEF Socket, Statuses
<1>5. QED
  BY <1>1, <1>3, <1>4

\* acknowledgements and PINGREQs: they answer no request, and nothing is written
\* over the rest of another packet
ControlWritten(c) ==
  /\ net' \in [Sockets -> Socket]
  /\ \A f \in Sockets :
       \/ net'[f] = net[f]
       \/ /\ f = socket[c] /\ net[f].unsent = NoPacket
          /\ \E t \in ControlTypes : net'[f] = [net[f] EXCEPT !.unsent = Control(t)]

LEMMA ControlWrite ==
  ASSUME TypeOK, NEW c \in Clients, NEW t \in ControlTypes,
         NEW w \in Writes(socket[c]) \cup {"none"},
         net' = [net EXCEPT ![socket[c]] = Written(@, Control(t), w)]
  PROVE  ControlWritten(c)
<1>1. net \in [Sockets -> Socket]
  BY DEF TypeOK
<1>2. Control(t) \in Packet /\ Answerable(Control(t)) = {}
  BY DEF Control, Packet, Answerable
<1>3. CASE socket[c] \notin Sockets
  BY <1>1, <1>3 DEF ControlWritten
<1>4. CASE socket[c] \in Sockets
  <2>1. net[socket[c]] \in Socket
    BY <1>1, <1>4
  <2>2. Written(net[socket[c]], Control(t), w) \in Socket
    BY <1>2, <2>1, WrittenType
  <2>3. net' \in [Sockets -> Socket] /\ net'[socket[c]] = Written(net[socket[c]], Control(t), w)
    BY <1>1, <1>4, <2>2
  <2>4. \A f \in Sockets \ {socket[c]} : net'[f] = net[f]
    BY <1>1
  <2>5. net[socket[c]].unsent # NoPacket => w \in {"error", "none"}
    BY DEF Writes
  <2>6. Received(net[socket[c]], Control(t)) = net[socket[c]]
    BY <1>2, <2>1 DEF Received, Socket
  <2>7. \/ Written(net[socket[c]], Control(t), w) = net[socket[c]]
        \/ /\ net[socket[c]].unsent = NoPacket
           /\ Written(net[socket[c]], Control(t), w) = [net[socket[c]] EXCEPT !.unsent = Control(t)]
    BY <2>5, <2>6 DEF Written
  <2>8. QED
    BY <2>3, <2>4, <2>7 DEF ControlWritten
<1>5. QED
  BY <1>3, <1>4

LEMMA IncomingWrite ==
  ASSUME TypeOK, NEW c \in Clients, CycleIncoming(c)
  PROVE  /\ ControlWritten(c) /\ connected[c] /\ socket[c] = receiver.sock /\ socket[c] # 0
         /\ UNCHANGED <<commands, connection, connect, disconnect, session, pendingWrite,
                        inHand, app, callbacks, crashed>>
         /\ receiver.pc = "cycle"
         /\ \/ receiver' = [receiver EXCEPT !.pc = "retry"]
            \/ receiver' = [receiver EXCEPT !.pc = "retry", !.error = FALSE]
<1>1. /\ connected[c] /\ socket[c] = receiver.sock /\ socket[c] # 0 /\ receiver.pc = "cycle"
      /\ UNCHANGED <<commands, connection, connect, disconnect, session, pendingWrite,
                     inHand, app, callbacks, crashed>>
  BY DEF CycleIncoming
<1>2. PICK w \in Writes(socket[c]) \cup {"none"} :
        /\ net' = [net EXCEPT ![socket[c]] = Written(@, Control("PUBACK"), w)]
        /\ receiver' = IF w = "error" THEN [receiver EXCEPT !.pc = "retry"]
                       ELSE [receiver EXCEPT !.pc = "retry", !.error = FALSE]
  BY DEF CycleIncoming
<1>3. ControlWritten(c)
  BY <1>2, ControlWrite DEF ControlTypes
<1>4. \/ receiver' = [receiver EXCEPT !.pc = "retry"]
      \/ receiver' = [receiver EXCEPT !.pc = "retry", !.error = FALSE]
  BY <1>2
<1>5. QED
  BY <1>1, <1>3, <1>4

LEMMA KeepAliveWrite ==
  ASSUME TypeOK, NEW c \in Clients, KeepAlive(c)
  PROVE  /\ ControlWritten(c) /\ connected[c]
         /\ commands' = WithInternalDisconnect(commands, c)
<1>1. CASE UNCHANGED net
  BY <1>1 DEF KeepAlive, ControlWritten, TypeOK
<1>2. ASSUME NEW w \in Writes(socket[c]),
             net' = [net EXCEPT ![socket[c]] = Written(@, Control("PINGREQ"), w)]
      PROVE  ControlWritten(c)
  BY <1>2, ControlWrite DEF ControlTypes
<1>3. QED
  BY <1>1, <1>2 DEF KeepAlive

LEMMA NotifyType ==
  ASSUME TypeOK, NEW i, NEW c \in Clients, NEW v \in {"down", "connecting", "up"},
         Notify(i, c, v)
  PROVE  notified' \in [Ids -> Nat] /\ view' \in [Clients -> {"down", "connecting", "up"}]
<1>1. notified \in [Ids -> Nat] /\ view \in [Clients -> {"down", "connecting", "up"}]
  BY DEF TypeOK
<1>2. notified' \in [Ids -> Nat]
  <2>1. ASSUME NEW j \in Ids PROVE notified'[j] \in Nat
    BY <1>1 DEF Notify
  <2>2. notified' = [j \in Ids |-> notified'[j]]
    BY <1>1 DEF Notify
  <2>3. QED
    BY <2>1, <2>2
<1>3. view' \in [Clients -> {"down", "connecting", "up"}]
  BY <1>1 DEF Notify
<1>4. QED
  BY <1>2, <1>3

LEMMA CloseOnlyType ==
  ASSUME TypeOK, NEW c \in Clients, CloseOnly(c)
  PROVE  /\ connected' \in [Clients -> BOOLEAN]
         /\ connectState' \in [Clients -> {0, 1, 3, -2}]
         /\ socket' \in [Clients -> Sockets \cup {0}]
         /\ net' \in [Sockets -> Socket]
<1>1. net' \in [Sockets -> Socket]
  BY CloseOnlyNet DEF TypeOK
<1>2. QED
  BY <1>1 DEF TypeOK, CloseOnly

ConnectionType ==
  /\ connected \in [Clients -> BOOLEAN]
  /\ connectState \in [Clients -> {0, 1, 3, -2}]
  /\ socket \in [Clients -> Sockets \cup {0}]
  /\ net \in [Sockets -> Socket]
SessionType ==
  /\ commands \in SUBSET Command
  /\ responses \in [Clients -> SUBSET Command]
  /\ outbound \in [Clients -> SUBSET Ids]
CallbacksType ==
  /\ notified \in [Ids -> Nat]
  /\ view \in [Clients -> {"down", "connecting", "up"}]

LEMMA CloseSessionType ==
  ASSUME TypeOK, NEW c \in Clients, NEW q \in SUBSET Command, CloseSession(c, q)
  PROVE  ConnectionType' /\ SessionType'
<1>1. ConnectionType'
  BY CloseOnlyType DEF CloseSession, ConnectionType
<1>2. /\ responses \in [Clients -> SUBSET Command]
      /\ outbound \in [Clients -> SUBSET Ids]
  BY DEF TypeOK
<1>3. SessionType'
  <2>1. CASE c \in CleanClients
    <3>1. responses' = [responses EXCEPT ![c] = {}] /\ outbound' = [outbound EXCEPT ![c] = {}]
      BY <2>1 DEF CloseSession, CleanSession
    <3>2. commands' = WithoutClient(q, c)
      BY <2>1 DEF CloseSession, CleanSession
    <3>3. commands' \in SUBSET Command
      BY <3>2 DEF WithoutClient
    <3>4. QED
      BY <1>2, <3>1, <3>3 DEF SessionType
  <2>2. CASE c \notin CleanClients
    <3>1. commands' = q /\ responses' = responses /\ outbound' = outbound
      BY <2>2 DEF CloseSession, session
    <3>2. QED
      BY <1>2, <3>1 DEF SessionType
  <2>3. QED
    BY <2>1, <2>2
<1>4. QED
  BY <1>1, <1>3

LEMMA AttemptFailedType ==
  ASSUME TypeOK, NEW c \in Clients, AttemptFailed(c)
  PROVE  ConnectionType' /\ SessionType' /\ CallbacksType'
<1>1. /\ connect[c].id \in Ids \cup {0} /\ connect[c].version \in Versions
      /\ commands \in SUBSET Command
  BY DEF TypeOK
<1>2. CASE MoreToTry(connect[c].version)
  <2>1. ConnectionType'
    BY <1>2, CloseOnlyType DEF AttemptFailed, ConnectionType
  <2>2. commands' \in SUBSET Command
    BY <1>1, <1>2, AtHeadType DEF AttemptFailed, CallTypes
  <2>3. QED
    BY <1>2, <2>1, <2>2
    DEF AttemptFailed, TypeOK, SessionType, CallbacksType, session, callbacks
<1>3. CASE ~MoreToTry(connect[c].version)
  <2>1. CloseSession(c, commands) /\ Notify(connect[c].id, c, "down")
    BY <1>3 DEF AttemptFailed
  <2>2. QED
    BY <1>1, <2>1, CloseSessionType, NotifyType DEF CallbacksType
<1>4. QED
  BY <1>2, <1>3

LEMMA CheckDisconnectType ==
  ASSUME TypeOK, NEW c \in Clients, NEW i \in Ids \cup {0}, NEW q \in SUBSET Command,
         CheckDisconnect(c, i, q)
  PROVE  ConnectionType' /\ SessionType' /\ CallbacksType'
<1>1. ASSUME CloseSession(c, q),
             IF i # 0 THEN Notify(i, c, "down")
             ELSE UNCHANGED notified
                  /\ view' = [view EXCEPT ![c] = IF connected[c] THEN "down" ELSE @]
      PROVE  ConnectionType' /\ SessionType' /\ CallbacksType'
  <2>1. CASE i # 0
    BY <1>1, <2>1, CloseSessionType, NotifyType DEF CallbacksType
  <2>2. CASE i = 0
    <3>1. CallbacksType
      BY DEF TypeOK, CallbacksType
    <3>2. CallbacksType'
      BY <1>1, <2>2, <3>1 DEF CallbacksType
    <3>3. QED
      BY <1>1, <3>2, CloseSessionType
  <2>3. QED
    BY <2>1, <2>2
<1>2. ASSUME connectState' = [connectState EXCEPT ![c] = -2], commands' = q,
             UNCHANGED <<connected, socket, net, session, callbacks>>
      PROVE  ConnectionType' /\ SessionType' /\ CallbacksType'
  BY <1>2 DEF TypeOK, ConnectionType, SessionType, CallbacksType, session, callbacks
<1>3. QED
  BY <1>1, <1>2 DEF CheckDisconnect

LEMMA OpenSocketType ==
  ASSUME TypeOK, NEW c \in Clients, NEW f \in Sockets, NEW st \in Statuses,
         NEW wire \in SUBSET Packet, NEW unsent \in Packet \cup {NoPacket},
         OpenSocket(c, f, st, wire, unsent)
  PROVE  socket' \in [Clients -> Sockets \cup {0}] /\ net' \in [Sockets -> Socket]
<1>1. [status |-> st, unsent |-> unsent, wire |-> wire] \in Socket
  BY DEF Socket
<1>2. QED
  BY <1>1 DEF OpenSocket, TypeOK

-----------------------------------------------------------------------------
(* Type correctness, one step per action *)

AttemptType ==
  /\ connect \in [Clients -> [id : Ids \cup {0}, version : Versions]]
  /\ disconnect \in [Clients -> Ids \cup {0}]
  /\ pendingWrite \in [Clients -> Ids \cup {0}]
ThreadsType ==
  /\ inHand \in [phase : {"written", "flagged"}, command : Command] \cup {NoCommand}
  /\ receiver \in [pc : {"select", "cycle", "retry", "handle"}, sock : Sockets \cup {0},
                   error : BOOLEAN, pack : Answer]
  /\ crashed \in BOOLEAN
AppType ==
  /\ pendingCall \in Call \cup {NoCall}
  /\ calls \in Ids \cup {0}
  /\ issued \in [Ids -> Issue \cup {NotIssued}]

LEMMA TypeParts ==
  TypeOK <=> /\ ConnectionType /\ SessionType /\ CallbacksType
             /\ AttemptType /\ ThreadsType /\ AppType
BY DEF TypeOK, ConnectionType, SessionType, CallbacksType, AttemptType, ThreadsType, AppType

LEMMA TypeNext ==
  ASSUME ConnectionType', SessionType', CallbacksType', AttemptType', ThreadsType', AppType'
  PROVE  TypeOK'
BY DEF TypeOK, ConnectionType, SessionType, CallbacksType, AttemptType, ThreadsType, AppType

\* What UNCHANGED a part of the state leaves well typed
LEMMA UnchangedType ==
  ASSUME TypeOK
  PROVE  /\ UNCHANGED <<connected, connectState, socket, net>> => ConnectionType'
         /\ UNCHANGED <<commands, responses, outbound>> => SessionType'
         /\ UNCHANGED <<notified, view>> => CallbacksType'
         /\ UNCHANGED <<connect, disconnect, pendingWrite>> => AttemptType'
         /\ UNCHANGED <<inHand, receiver, crashed>> => ThreadsType'
         /\ UNCHANGED <<pendingCall, calls, issued>> => AppType'
BY TypeParts
DEF ConnectionType, SessionType, CallbacksType, AttemptType, ThreadsType, AppType

LEMMA ApplicationType ==
  ASSUME TypeOK, Application
  PROVE  TypeOK'
<1> USE DEF connection, session, app, callbacks
<1>1. ASSUME NEW c \in Clients, Connect(c)
      PROVE  TypeOK'
  <2>1. calls + 1 \in Ids
    BY <1>1, BoundAssumption DEF Connect, TypeOK, Ids
  <2>2. SessionType'
    <3>1. commands' \in SUBSET Command
      BY <1>1, <2>1, AtHeadType DEF Connect, TypeOK, CallTypes, Versions
    <3>2. QED
      BY <1>1, <3>1 DEF Connect, TypeOK, SessionType
  <2>3. AttemptType'
    BY <1>1, <2>1 DEF Connect, TypeOK, AttemptType
  <2>4. AppType'
    BY <1>1, <2>1 DEF Connect, TypeOK, AppType, Issue, CallTypes
  <2>5. CallbacksType'
    BY <1>1 DEF Connect, TypeOK, CallbacksType
  <2>6. ConnectionType' /\ ThreadsType'
    BY <1>1, UnchangedType DEF Connect
  <2>7. QED
    BY <2>2, <2>3, <2>4, <2>5, <2>6, TypeNext
<1>2. ASSUME NEW c \in Clients, NEW t \in CallTypes, CheckConnected(c, t)
      PROVE  TypeOK'
  <2>1. calls + 1 \in Ids
    BY <1>2, BoundAssumption DEF CheckConnected, TypeOK, Ids
  <2>2. AppType'
    BY <1>2, <2>1 DEF CheckConnected, TypeOK, AppType, Issue, Call
  <2>3. ConnectionType' /\ SessionType' /\ CallbacksType' /\ AttemptType' /\ ThreadsType'
    BY <1>2, UnchangedType DEF CheckConnected
  <2>4. QED
    BY <2>2, <2>3, TypeNext
<1>3. ASSUME AddCommand
      PROVE  TypeOK'
  <2>1. pendingCall \in Call
    BY <1>3 DEF AddCommand, TypeOK
  <2>2. SessionType'
    <3>1. commands' \in SUBSET Command
      BY <1>3, <2>1, AtTailType DEF AddCommand, TypeOK, Call
    <3>2. QED
      BY <1>3, <3>1 DEF AddCommand, TypeOK, SessionType
  <2>3. AppType'
    BY <1>3 DEF AddCommand, TypeOK, AppType
  <2>4. ConnectionType' /\ CallbacksType' /\ AttemptType' /\ ThreadsType'
    BY <1>3, UnchangedType DEF AddCommand
  <2>5. QED
    BY <2>2, <2>3, <2>4, TypeNext
<1>4. QED
  BY <1>1, <1>2, <1>3 DEF Application

LEMMA ConnectFailedType ==
  ASSUME TypeOK, NEW x \in commands, NEW v \in Versions, ConnectFailed(x, v)
  PROVE  /\ commands' \in SUBSET Command /\ CallbacksType'
         /\ connected' = connected /\ connectState' = connectState /\ connect' = connect
<1>1. /\ x.client \in Clients /\ x.id \in Ids \cup {0} /\ commands \ {x} \in SUBSET Command
      /\ CallbacksType
  BY DEF TypeOK, Command, CallbacksType
<1>2. CASE MoreToTry(v)
  <2>1. /\ commands' = AtHead(commands \ {x}, x.client, "CONNECT", x.id, v)
        /\ UNCHANGED <<connected, connectState, connect, notified, view>>
    BY <1>2 DEF ConnectFailed, callbacks
  <2>2. commands' \in SUBSET Command
    BY <1>1, <2>1, AtHeadType
  <2>3. QED
    BY <1>1, <2>1, <2>2 DEF CallbacksType
<1>3. CASE ~MoreToTry(v)
  BY <1>1, <1>3, NotifyType DEF ConnectFailed, CallbacksType
<1>4. QED
  BY <1>2, <1>3

LEMMA ConnectStartedType ==
  ASSUME TypeOK, NEW x \in commands, NEW v \in Versions, NEW s \in {1, 3},
         ConnectStarted(x, v, s)
  PROVE  /\ commands' \in SUBSET Command /\ CallbacksType'
         /\ connected' \in [Clients -> BOOLEAN]
         /\ connectState' \in [Clients -> {0, 1, 3, -2}]
         /\ connect' \in [Clients -> [id : Ids \cup {0}, version : Versions]]
<1>1. x.client \in Clients /\ x.id \in Ids \cup {0}
  BY DEF TypeOK, Command
<1>2. QED
  BY <1>1 DEF ConnectStarted, TypeOK, CallbacksType, callbacks

LEMMA ProcessConnectType ==
  ASSUME TypeOK, NEW x \in commands, ProcessConnect(x)
  PROVE  TypeOK'
<1> DEFINE c == x.client
           v == NextVersion(x.version)
           p == [type |-> "CONNECT", id |-> x.id]
<1>1. /\ c \in Clients /\ p \in Packet /\ v \in Versions
  BY VersionAssumption DEF TypeOK, Command, Packet, NextVersion, Versions
<1>2. NoPacket \in Packet \cup {NoPacket} /\ {} \in SUBSET Packet /\ {p} \in SUBSET Packet
  BY <1>1
<1>3. /\ outbound' = outbound /\ responses' = responses /\ disconnect' = disconnect
      /\ pendingWrite' = pendingWrite
      /\ UNCHANGED <<inHand, receiver, crashed>> /\ UNCHANGED <<pendingCall, calls, issued>>
  BY DEF ProcessConnect, session, app
<1>4. ThreadsType' /\ AppType'
  BY <1>3, UnchangedType
<1> DEFINE Rest == /\ connected' \in [Clients -> BOOLEAN]
                   /\ connectState' \in [Clients -> {0, 1, 3, -2}]
                   /\ connect' \in [Clients -> [id : Ids \cup {0}, version : Versions]]
                   /\ commands' \in SUBSET Command /\ CallbacksType'
           Net == socket' \in [Clients -> Sockets \cup {0}] /\ net' \in [Sockets -> Socket]
<1>5. ConnectFailed(x, v) => Rest
  BY <1>1, ConnectFailedType DEF TypeOK
<1>6. \A s \in {1, 3} : ConnectStarted(x, v, s) => Rest
  BY <1>1, ConnectStartedType
<1>7. \A f \in Sockets, st \in Statuses, wire \in SUBSET Packet, u \in Packet \cup {NoPacket} :
        OpenSocket(c, f, st, wire, u) => Net
  BY <1>1, OpenSocketType
<1>8. Rest /\ Net
  <2> HIDE DEF Rest, Net
  <2>1. CASE ConnectFailed(x, v) /\ UNCHANGED <<socket, net>>
    <3>1. Net
      BY <2>1 DEF TypeOK, Net
    <3>2. QED
      BY <1>5, <2>1, <3>1
  <2>2. CASE ConnectFailed(x, v) /\ socket' = [socket EXCEPT ![c] = 0] /\ UNCHANGED net
    <3>1. Net
      BY <2>2 DEF TypeOK, Net
    <3>2. QED
      BY <1>5, <2>2, <3>1
  <2>3. ASSUME NEW f \in Sockets,
               \/ OpenSocket(c, f, "down", {}, NoPacket) /\ ConnectFailed(x, v)
               \/ OpenSocket(c, f, "connecting", {}, NoPacket) /\ ConnectStarted(x, v, 1)
               \/ OpenSocket(c, f, "up", {p}, NoPacket) /\ ConnectStarted(x, v, 3)
               \/ OpenSocket(c, f, "up", {}, p) /\ ConnectFailed(x, v)
        PROVE  Rest /\ Net
    <3>1. {"down", "connecting", "up"} \subseteq Statuses
      BY DEF Statuses
    <3> HIDE DEF v, p
    <3>2. QED
      BY <1>1, <1>2, <1>5, <1>6, <1>7, <2>3, <3>1
  <2>4. QED
    BY <2>1, <2>2, <2>3 DEF ProcessConnect, MQTTProtocol_connect
<1>9. ConnectionType' /\ SessionType' /\ CallbacksType' /\ AttemptType'
  BY <1>3, <1>8 DEF ConnectionType, SessionType, AttemptType, TypeOK
<1>10. QED
  BY <1>4, <1>9, TypeNext

LEMMA WriteType ==
  ASSUME TypeOK, NEW c \in Clients, NEW p \in Packet, NEW w,
         net' = [net EXCEPT ![socket[c]] = Written(@, p, w)]
  PROVE  net' \in [Sockets -> Socket]
<1>1. net \in [Sockets -> Socket]
  BY DEF TypeOK
<1>2. CASE socket[c] \in Sockets
  <2>1. Written(net[socket[c]], p, w) \in Socket
    BY <1>1, <1>2, WrittenType
  <2>2. QED
    BY <1>1, <2>1
<1>3. CASE socket[c] \notin Sockets
  BY <1>1, <1>3
<1>4. QED
  BY <1>2, <1>3

LEMMA ProcessRequestType ==
  ASSUME TypeOK, NEW x \in commands, ProcessRequest(x)
  PROVE  TypeOK'
<1> DEFINE c == x.client
           p == [type |-> x.type, id |-> x.id]
           q == commands \ {x}
<1>1. /\ c \in Clients /\ p \in Packet /\ q \in SUBSET Command /\ x \in Command
      /\ x.id \in Ids \cup {0}
  BY DEF TypeOK, Command, Packet, ProcessRequest, RequestTypes
<1>2. PICK w \in Writes(socket[c]) :
        /\ net' = [net EXCEPT ![socket[c]] = Written(@, p, w)]
        /\ IF w = "error"
           THEN /\ commands' = WithInternalDisconnect(q, c)
                /\ Notify(x.id, c, view[c])
                /\ UNCHANGED responses
           ELSE /\ commands' = q
                /\ responses' = [responses EXCEPT ![c] = @ \cup {x}]
                /\ UNCHANGED callbacks
  BY DEF ProcessRequest
<1>3. /\ UNCHANGED <<connected, connectState, socket>>
      /\ UNCHANGED <<connect, disconnect, pendingWrite>>
      /\ UNCHANGED <<inHand, receiver, crashed>> /\ UNCHANGED <<pendingCall, calls, issued>>
  BY DEF ProcessRequest, connection, app
<1>4. AttemptType' /\ ThreadsType' /\ AppType'
  BY <1>3, UnchangedType
<1>5. ConnectionType'
  <2>1. net' \in [Sockets -> Socket]
    BY <1>1, <1>2, WriteType
  <2>2. QED
    BY <1>3, <2>1 DEF TypeOK, ConnectionType
<1>6. outbound' \in [Clients -> SUBSET Ids]
  <2>1. x.type = "PUBLISH" => x.id \in Ids
    BY <1>1 DEF Command, RequestTypes
  <2>2. QED
    BY <1>1, <2>1 DEF ProcessRequest, TypeOK
<1>7. commands' \in SUBSET Command /\ responses' \in [Clients -> SUBSET Command]
  <2>1. responses \in [Clients -> SUBSET Command]
    BY DEF TypeOK
  <2>2. commands' \in SUBSET Command
    BY <1>1, <1>2, InternalDisconnectType
  <2>3. responses' \in [Clients -> SUBSET Command]
    BY <1>1, <1>2, <2>1
  <2>4. QED
    BY <2>2, <2>3
<1>8. CallbacksType'
  <2>1. view[c] \in {"down", "connecting", "up"}
    BY <1>1 DEF TypeOK
  <2>2. CASE Notify(x.id, c, view[c])
    BY <1>1, <2>1, <2>2, NotifyType DEF CallbacksType
  <2>3. CASE UNCHANGED callbacks
    BY <2>3 DEF TypeOK, CallbacksType, callbacks
  <2>4. QED
    BY <1>2, <2>2, <2>3
<1>9. SessionType'
  BY <1>6, <1>7 DEF SessionType
<1>10. QED
  BY <1>4, <1>5, <1>8, <1>9, TypeNext

LEMMA ProcessPublish0Type ==
  ASSUME TypeOK, NEW x \in commands, ProcessPublish0(x)
  PROVE  TypeOK'
<1> DEFINE c == x.client
           p == [type |-> x.type, id |-> x.id]
<1>1. /\ c \in Clients /\ p \in Packet /\ x \in Command /\ x.id \in Ids \cup {0}
  BY DEF TypeOK, Command, Packet, ProcessPublish0, RequestTypes
<1>2. PICK w \in Writes(socket[c]) :
        /\ net' = [net EXCEPT ![socket[c]] = Written(@, p, w)]
        /\ IF w = "complete" THEN Notify(x.id, c, view[c]) ELSE UNCHANGED callbacks
        /\ inHand' = IF w = "interrupted" THEN [phase |-> "written", command |-> x]
                     ELSE inHand
        /\ pendingWrite' = IF w = "error" THEN [pendingWrite EXCEPT ![c] = x.id]
                           ELSE pendingWrite
  BY DEF ProcessPublish0
<1>3. /\ UNCHANGED <<connected, connectState, socket>> /\ UNCHANGED <<connect, disconnect>>
      /\ UNCHANGED <<responses, outbound>> /\ UNCHANGED <<receiver, crashed>>
      /\ UNCHANGED <<pendingCall, calls, issued>> /\ commands' = commands \ {x}
  BY DEF ProcessPublish0, connection, app, session
<1>4. AppType' /\ SessionType'
  BY <1>3, UnchangedType DEF TypeOK, SessionType
<1>5. ConnectionType'
  <2>1. net' \in [Sockets -> Socket]
    BY <1>1, <1>2, WriteType
  <2>2. QED
    BY <1>3, <2>1 DEF TypeOK, ConnectionType
<1>6. AttemptType'
  BY <1>1, <1>2, <1>3 DEF TypeOK, AttemptType
<1>7. ThreadsType'
  BY <1>1, <1>2, <1>3 DEF TypeOK, ThreadsType
<1>8. CallbacksType'
  <2>1. view[c] \in {"down", "connecting", "up"}
    BY <1>1 DEF TypeOK
  <2>2. CASE Notify(x.id, c, view[c])
    BY <1>1, <2>1, <2>2, NotifyType DEF CallbacksType
  <2>3. CASE UNCHANGED callbacks
    BY <2>3 DEF TypeOK, CallbacksType, callbacks
  <2>4. QED
    BY <1>2, <2>2, <2>3
<1>9. QED
  BY <1>4, <1>5, <1>6, <1>7, <1>8, TypeNext

LEMMA ProcessCommandType ==
  ASSUME TypeOK, ProcessCommand
  PROVE  TypeOK'
<1> USE DEF connection, session, app, callbacks
<1>1. ASSUME NEW x \in commands, IgnoreConnect(x)
      PROVE  TypeOK'
  <2>1. x \in Command
    BY DEF TypeOK
  <2>2. AttemptType'
    BY <1>1, <2>1 DEF IgnoreConnect, TypeOK, AttemptType, Command
  <2>3. SessionType'
    BY <1>1 DEF IgnoreConnect, TypeOK, SessionType
  <2>4. ConnectionType' /\ CallbacksType' /\ ThreadsType' /\ AppType'
    BY <1>1, UnchangedType DEF IgnoreConnect
  <2>5. QED
    BY <2>2, <2>3, <2>4, TypeNext
<1>2. ASSUME NEW x \in commands, ProcessDisconnect(x)
      PROVE  TypeOK'
  <2>1. /\ x.client \in Clients /\ x.id \in Ids \cup {0} /\ commands \ {x} \in SUBSET Command
    BY DEF TypeOK, Command
  <2>2. ConnectionType' /\ SessionType' /\ CallbacksType'
    <3>1. CASE CheckDisconnect(x.client, x.id, commands \ {x})
      BY <2>1, <3>1, CheckDisconnectType
    <3>2. CASE commands' = commands \ {x} /\ UNCHANGED <<connection, session, net, callbacks>>
      BY <2>1, <3>2 DEF TypeOK, ConnectionType, SessionType, CallbacksType
    <3>3. QED
      BY <1>2, <3>1, <3>2 DEF ProcessDisconnect
  <2>3. AttemptType'
    BY <1>2, <2>1 DEF ProcessDisconnect, TypeOK, AttemptType
  <2>4. ThreadsType' /\ AppType'
    BY <1>2, UnchangedType DEF ProcessDisconnect
  <2>5. QED
    BY <2>2, <2>3, <2>4, TypeNext
<1>3. ASSUME FlagPendingWrite
      PROVE  TypeOK'
  <2>1. /\ inHand \in [phase : {"written", "flagged"}, command : Command]
        /\ inHand.command.client \in Clients /\ inHand.command.id \in Ids \cup {0}
    BY <1>3 DEF FlagPendingWrite, TypeOK, NoCommand, Command
  <2>2. AttemptType'
    BY <1>3, <2>1 DEF FlagPendingWrite, TypeOK, AttemptType
  <2>3. ThreadsType'
    BY <1>3, <2>1 DEF FlagPendingWrite, TypeOK, ThreadsType
  <2>4. ConnectionType' /\ SessionType' /\ CallbacksType' /\ AppType'
    BY <1>3, UnchangedType DEF FlagPendingWrite
  <2>5. QED
    BY <2>2, <2>3, <2>4, TypeNext
<1>4. ASSUME StoreResponse
      PROVE  TypeOK'
  <2>1. inHand.command \in Command
    BY <1>4 DEF StoreResponse, TypeOK, NoCommand
  <2>2. SessionType'
    BY <1>4, <2>1 DEF StoreResponse, TypeOK, SessionType
  <2>3. ThreadsType'
    BY <1>4 DEF StoreResponse, TypeOK, ThreadsType
  <2>4. ConnectionType' /\ CallbacksType' /\ AttemptType' /\ AppType'
    BY <1>4, UnchangedType DEF StoreResponse
  <2>5. QED
    BY <2>2, <2>3, <2>4, TypeNext
<1>5. QED
  BY <1>1, <1>2, <1>3, <1>4, ProcessConnectType, ProcessRequestType, ProcessPublish0Type
  DEF ProcessCommand

LEMMA CheckTimeoutsType ==
  ASSUME TypeOK, NEW c \in Clients, CheckTimeouts(c)
  PROVE  TypeOK'
<1>1. commands \in SUBSET Command /\ disconnect[c] \in Ids \cup {0}
  BY DEF TypeOK
<1>2. ConnectionType' /\ SessionType' /\ CallbacksType'
  BY <1>1, AttemptFailedType, CheckDisconnectType DEF CheckTimeouts
<1>3. AttemptType' /\ ThreadsType' /\ AppType'
  BY UnchangedType DEF CheckTimeouts, app
<1>4. QED
  BY <1>2, <1>3, TypeNext

LEMMA AnswerType == NoAnswer \in Answer
BY DEF NoAnswer, Answer

LEMMA SelectType ==
  ASSUME TypeOK, NEW f \in Sockets \cup {0}, Select(f)
  PROVE  TypeOK'
<1>1. ThreadsType'
  BY AnswerType DEF Select, TypeOK, ThreadsType
<1>2. ConnectionType' /\ SessionType' /\ CallbacksType' /\ AttemptType' /\ AppType'
  BY UnchangedType DEF Select, connection, session, app, callbacks
<1>3. QED
  BY <1>1, <1>2, TypeNext

LEMMA WriteCompleteType ==
  ASSUME TypeOK, NEW c \in Clients, WriteComplete(c)
  PROVE  /\ pendingWrite' \in [Clients -> Ids \cup {0}]
         /\ responses' \in [Clients -> SUBSET Command]
         /\ CallbacksType' /\ crashed' \in BOOLEAN
<1>1. /\ pendingWrite \in [Clients -> Ids \cup {0}] /\ crashed \in BOOLEAN
      /\ responses \in [Clients -> SUBSET Command]
      /\ view[c] \in {"down", "connecting", "up"} /\ CallbacksType
  BY DEF TypeOK, CallbacksType
<1>2. CASE pendingWrite[c] = 0
  BY <1>1, <1>2 DEF WriteComplete, CallbacksType, callbacks
<1>3. CASE pendingWrite[c] # 0 /\ responses[c] = {}
  BY <1>1, <1>3 DEF WriteComplete, CallbacksType, callbacks
<1>4. CASE pendingWrite[c] # 0 /\ responses[c] # {}
  <2>1. CallbacksType'
    BY <1>1, <1>4, NotifyType DEF WriteComplete, CallbacksType
  <2>2. QED
    BY <1>1, <1>4, <2>1 DEF WriteComplete
<1>5. QED
  BY <1>2, <1>3, <1>4

LEMMA ContinueWriteType ==
  ASSUME TypeOK, NEW f \in Sockets, ContinueWrite(f)
  PROVE  TypeOK'
<1>1. /\ net \in [Sockets -> Socket] /\ net[f] \in Socket /\ net[f].unsent \in Packet
  BY DEF ContinueWrite, TypeOK, Socket
<1>2. [Received(net[f], net[f].unsent) EXCEPT !.unsent = NoPacket] \in Socket
  BY <1>1 DEF Received, Answerable, Socket
<1>3. ConnectionType'
  <2>1. net' \in [Sockets -> Socket]
    BY <1>1, <1>2 DEF ContinueWrite
  <2>2. QED
    BY <2>1 DEF ContinueWrite, connection, TypeOK, ConnectionType
<1>4. /\ pendingWrite' \in [Clients -> Ids \cup {0}]
      /\ responses' \in [Clients -> SUBSET Command]
      /\ CallbacksType' /\ crashed' \in BOOLEAN
  <2>1. CASE \E c \in Clients : socket[c] = f /\ WriteComplete(c)
    BY <2>1, WriteCompleteType
  <2>2. CASE UNCHANGED <<pendingWrite, responses, callbacks, crashed>>
    BY <2>2 DEF TypeOK, CallbacksType, callbacks
  <2>3. QED
    BY <2>1, <2>2 DEF ContinueWrite
<1>5. SessionType' /\ AttemptType' /\ ThreadsType'
  BY <1>4 DEF ContinueWrite, TypeOK, SessionType, AttemptType, ThreadsType
<1>6. AppType'
  BY UnchangedType DEF ContinueWrite, app
<1>7. QED
  BY <1>3, <1>4, <1>5, <1>6, TypeNext

LEMMA AcknowledgeType ==
  ASSUME TypeOK, NEW c \in Clients, NEW i, Acknowledge(c, i)
  PROVE  responses' \in [Clients -> SUBSET Command] /\ CallbacksType'
<1>1. /\ responses \in [Clients -> SUBSET Command]
      /\ view[c] \in {"down", "connecting", "up"} /\ CallbacksType
  BY DEF TypeOK, CallbacksType
<1>2. CASE \E r \in responses[c] : r.id = i
  <2>1. CallbacksType'
    BY <1>1, <1>2, NotifyType DEF Acknowledge, CallbacksType
  <2>2. QED
    BY <1>1, <1>2, <2>1 DEF Acknowledge
<1>3. CASE UNCHANGED <<responses, callbacks>>
  BY <1>1, <1>3 DEF CallbacksType, callbacks
<1>4. QED
  BY <1>2, <1>3 DEF Acknowledge

LEMMA CycleType ==
  ASSUME TypeOK, Cycle
  PROVE  TypeOK'
<1> USE DEF connection, session, app, callbacks
<1>1. CASE CycleNobody
  <2>1. ThreadsType'
    BY <1>1 DEF CycleNobody, TypeOK, ThreadsType
  <2>2. ConnectionType' /\ SessionType' /\ CallbacksType' /\ AttemptType' /\ AppType'
    BY <1>1, UnchangedType DEF CycleNobody
  <2>3. QED
    BY <2>1, <2>2, TypeNext
<1>2. ASSUME NEW c \in Clients, CycleConnecting(c)
      PROVE  TypeOK'
  <2>1. ThreadsType'
    BY <1>2 DEF CycleConnecting, TypeOK, ThreadsType
  <2>2. ConnectionType' /\ SessionType' /\ CallbacksType'
    <3>1. CASE AttemptFailed(c)
      BY <3>1, AttemptFailedType
    <3>2. ASSUME NEW w,
                 net' = [net EXCEPT ![receiver.sock] =
                           Written(@, [type |-> "CONNECT", id |-> connect[c].id], w)],
                 connectState' = [connectState EXCEPT ![c] = 3],
                 UNCHANGED <<commands, connected, socket, session, callbacks>>
          PROVE  ConnectionType' /\ SessionType' /\ CallbacksType'
      <4>1. [type |-> "CONNECT", id |-> connect[c].id] \in Packet
        BY DEF TypeOK, Packet
      <4>2. net' \in [Sockets -> Socket]
        BY <1>2, <3>2, <4>1, WriteType DEF CycleConnecting
      <4>3. SessionType' /\ CallbacksType'
        BY <3>2, UnchangedType
      <4>4. QED
        BY <3>2, <4>2, <4>3 DEF TypeOK, ConnectionType
    <3>3. QED
      BY <1>2, <3>1, <3>2 DEF CycleConnecting
  <2>3. AttemptType' /\ AppType'
    BY <1>2, UnchangedType DEF CycleConnecting
  <2>4. QED
    BY <2>1, <2>2, <2>3, TypeNext
<1>3. ASSUME NEW c \in Clients, CycleReadError(c)
      PROVE  TypeOK'
  <2>1. ThreadsType'
    BY <1>3 DEF CycleReadError, TypeOK, ThreadsType
  <2>2. ConnectionType' /\ SessionType' /\ CallbacksType'
    BY <1>3, UnchangedType, AttemptFailedType DEF CycleReadError
  <2>3. AttemptType' /\ AppType'
    BY <1>3, UnchangedType DEF CycleReadError
  <2>4. QED
    BY <2>1, <2>2, <2>3, TypeNext
<1>4. ASSUME NEW c \in Clients, CycleNothing(c)
      PROVE  TypeOK'
  <2>1. ThreadsType'
    BY <1>4 DEF CycleNothing, TypeOK, ThreadsType
  <2>2. ConnectionType' /\ SessionType' /\ CallbacksType' /\ AttemptType' /\ AppType'
    BY <1>4, UnchangedType DEF CycleNothing
  <2>3. QED
    BY <2>1, <2>2, TypeNext
<1>5. ASSUME NEW c \in Clients, CycleRead(c)
      PROVE  TypeOK'
  <2>1. receiver.sock \in Sockets /\ net \in [Sockets -> Socket]
    BY <1>5 DEF CycleRead, TypeOK
  <2>2. PICK p \in net[receiver.sock].wire :
          /\ net' = [net EXCEPT ![receiver.sock].wire = @ \ {p}]
          /\ IF p.type = "PUBLISH"
             THEN /\ outbound' = [outbound EXCEPT ![c] = @ \ {p.id}]
                  /\ Acknowledge(c, p.id)
                  /\ receiver' = [receiver EXCEPT !.pc = "retry", !.error = FALSE]
             ELSE /\ \E ok \in BOOLEAN :
                       receiver' = [receiver EXCEPT !.pc = "retry", !.error = FALSE,
                         !.pack = [type |-> IF p.type = "CONNECT" THEN "CONNACK" ELSE "ACK",
                                   id |-> p.id, ok |-> ok]]
                  /\ UNCHANGED <<outbound, responses, callbacks>>
    BY <1>5 DEF CycleRead
  <2>3. p \in Packet
    BY <2>1, <2>2 DEF Socket
  <2>4. ConnectionType'
    <3>1. net[receiver.sock] \in Socket
      BY <2>1
    <3>2. [net[receiver.sock] EXCEPT !.wire = net[receiver.sock].wire \ {p}] \in Socket
      BY <3>1 DEF Socket
    <3>3. net' \in [Sockets -> Socket]
      BY <2>1, <2>2, <3>2
    <3>4. QED
      BY <1>5, <3>3 DEF CycleRead, TypeOK, ConnectionType
  <2>5. ThreadsType'
    <3>1. receiver \in [pc : {"select", "cycle", "retry", "handle"}, sock : Sockets \cup {0},
                        error : BOOLEAN, pack : Answer]
      BY DEF TypeOK
    <3>2. \A ok \in BOOLEAN :
            [type |-> IF p.type = "CONNECT" THEN "CONNACK" ELSE "ACK", id |-> p.id, ok |-> ok]
              \in Answer
      BY <2>3 DEF Packet, Answer
    <3>3. CASE receiver' = [receiver EXCEPT !.pc = "retry", !.error = FALSE]
      BY <1>5, <3>1, <3>3 DEF CycleRead, TypeOK, ThreadsType
    <3>4. ASSUME NEW a \in Answer,
                 receiver' = [receiver EXCEPT !.pc = "retry", !.error = FALSE, !.pack = a]
          PROVE  ThreadsType'
      BY <1>5, <3>1, <3>4 DEF CycleRead, TypeOK, ThreadsType
    <3>5. CASE p.type = "PUBLISH"
      BY <2>2, <3>3, <3>5
    <3>6. CASE p.type # "PUBLISH"
      <4>1. PICK ok \in BOOLEAN :
              receiver' = [receiver EXCEPT !.pc = "retry", !.error = FALSE,
                !.pack = [type |-> IF p.type = "CONNECT" THEN "CONNACK" ELSE "ACK",
                          id |-> p.id, ok |-> ok]]
        BY <2>2, <3>6
      <4>2. QED
        BY <3>2, <3>4, <4>1
    <3>7. QED
      BY <3>5, <3>6
  <2>6. SessionType' /\ CallbacksType'
    <3>1. outbound' \in [Clients -> SUBSET Ids]
      <4>1. outbound \in [Clients -> SUBSET Ids]
        BY DEF TypeOK
      <4>2. outbound' = [outbound EXCEPT ![c] = @ \ {p.id}] \/ outbound' = outbound
        BY <2>2
      <4>3. QED
        BY <4>1, <4>2
    <3>2. responses' \in [Clients -> SUBSET Command] /\ CallbacksType'
      <4>1. CASE Acknowledge(c, p.id)
        BY <4>1, AcknowledgeType
      <4>2. CASE UNCHANGED <<outbound, responses, callbacks>>
        BY <4>2 DEF TypeOK, CallbacksType
      <4>3. QED
        BY <2>2, <4>1, <4>2
    <3>3. QED
      BY <1>5, <3>1, <3>2 DEF CycleRead, TypeOK, SessionType
  <2>7. AttemptType' /\ AppType'
    BY <1>5, UnchangedType DEF CycleRead
  <2>8. QED
    BY <2>4, <2>5, <2>6, <2>7, TypeNext
<1>6. ASSUME NEW c \in Clients, CycleIncoming(c)
      PROVE  TypeOK'
  <2>1. ConnectionType'
    BY <1>6, IncomingWrite DEF ControlWritten, TypeOK, ConnectionType
  <2>2. ThreadsType'
    BY <1>6, IncomingWrite DEF TypeOK, ThreadsType
  <2>3. SessionType' /\ CallbacksType' /\ AttemptType' /\ AppType'
    BY <1>6, IncomingWrite, UnchangedType
  <2>4. QED
    BY <2>1, <2>2, <2>3, TypeNext
<1>7. QED
  BY <1>1, <1>2, <1>3, <1>4, <1>5, <1>6 DEF Cycle

LEMMA RetryType ==
  ASSUME TypeOK, Retry
  PROVE  TypeOK'
<1>1. commands' \in SUBSET Command
  BY InternalDisconnectType, KeepAliveWrite DEF Retry, TypeOK
<1>2. SessionType' /\ ThreadsType'
  BY <1>1 DEF Retry, session, TypeOK, SessionType, ThreadsType
<1>3. ConnectionType'
  BY KeepAliveWrite DEF Retry, connection, TypeOK, ConnectionType, ControlWritten
<1>4. CallbacksType' /\ AttemptType' /\ AppType'
  BY UnchangedType DEF Retry, callbacks, app
<1>5. QED
  BY <1>2, <1>3, <1>4, TypeNext

LEMMA HandleConnectedType ==
  ASSUME TypeOK, NEW c \in Clients, HandleConnected(c)
  PROVE  TypeOK'
<1>1. /\ connected' = [connected EXCEPT ![c] = TRUE]
      /\ connectState' = [connectState EXCEPT ![c] = 0]
      /\ Notify(connect[c].id, c, "up") /\ Done
      /\ UNCHANGED <<socket, connect, disconnect, pendingWrite, inHand, crashed>>
      /\ UNCHANGED <<pendingCall, calls, issued>>
  BY DEF HandleConnected, app
<1>2. /\ net \in [Sockets -> Socket] /\ commands \in SUBSET Command
      /\ outbound \in [Clients -> SUBSET Ids] /\ responses \in [Clients -> SUBSET Command]
  BY DEF TypeOK
<1>3. CallbacksType'
  BY <1>1, NotifyType DEF CallbacksType
<1>4. ThreadsType'
  BY <1>1, AnswerType DEF Done, TypeOK, ThreadsType
<1>5. AttemptType' /\ AppType'
  BY <1>1, UnchangedType
<1>6. net' \in [Sockets -> Socket] /\ SessionType'
  <2>1. CASE c \in CleanClients \/ outbound[c] = {} \/ net[socket[c]].unsent # NoPacket
    <3>1. UNCHANGED net
      BY <2>1 DEF HandleConnected
    <3>2. CASE c \in CleanClients
      <4>1. CleanSession(c, commands)
        BY <2>1, <3>2 DEF HandleConnected
      <4>2. commands' \in SUBSET Command
        BY <1>2, <4>1 DEF CleanSession, WithoutClient
      <4>3. QED
        BY <1>2, <3>1, <4>1, <4>2 DEF CleanSession, SessionType
    <3>3. CASE c \notin CleanClients
      BY <1>2, <2>1, <3>1, <3>3 DEF HandleConnected, session, SessionType
    <3>4. QED
      BY <3>2, <3>3
  <2>2. CASE ~(c \in CleanClients \/ outbound[c] = {} \/ net[socket[c]].unsent # NoPacket)
    <3>1. PICK m \in outbound[c], w \in Writes(socket[c]) :
            /\ net' = [net EXCEPT ![socket[c]] = Resent(@, outbound[c], m, w)]
            /\ commands' = IF w = "error" THEN AtHead(commands, c, "DISCONNECT", 0, 0)
                           ELSE commands
      BY <2>2 DEF HandleConnected
    <3>2. socket[c] \in Sockets
      BY DEF HandleConnected, TypeOK
    <3>3. Resent(net[socket[c]], outbound[c], m, w) \in Socket
      <4> DEFINE s == net[socket[c]]
                 resent == {[type |-> "PUBLISH", id |-> i] : i \in {j \in outbound[c] : j < m}}
                 all == [s EXCEPT !.wire = @ \cup resent]
      <4>1. s \in Socket /\ outbound[c] \in SUBSET Ids
        BY <1>2, <3>2
      <4>2. resent \in SUBSET Packet /\ [type |-> "PUBLISH", id |-> m] \in Packet
        BY <4>1 DEF Packet, RequestTypes
      <4>3. all \in Socket
        <5> HIDE DEF resent
        <5>1. QED
          BY <4>1, <4>2 DEF Socket
      <4>4. QED
        BY <4>1, <4>2, <4>3, WrittenType DEF Resent
    <3>4. net' \in [Sockets -> Socket]
      BY <1>2, <3>1, <3>2, <3>3
    <3>5. commands' \in SUBSET Command
      BY <1>2, <3>1, AtHeadType DEF Versions
    <3>6. UNCHANGED session
      BY <2>2 DEF HandleConnected
    <3>7. QED
      BY <1>2, <3>4, <3>5, <3>6 DEF session, SessionType
  <2>3. QED
    BY <2>1, <2>2
<1>7. ConnectionType'
  BY <1>1, <1>6 DEF TypeOK, ConnectionType
<1>8. QED
  BY <1>3, <1>4, <1>5, <1>6, <1>7, TypeNext

LEMMA HandleType ==
  ASSUME TypeOK, Handle
  PROVE  TypeOK'
<1> USE DEF connection, session, app, callbacks
<1>1. Done => receiver' \in [pc : {"select", "cycle", "retry", "handle"}, sock : Sockets \cup {0},
                             error : BOOLEAN, pack : Answer]
  BY AnswerType DEF Done
<1>2. CASE HandleNobody
  <2>1. ThreadsType'
    BY <1>1, <1>2 DEF HandleNobody, TypeOK, ThreadsType
  <2>2. ConnectionType' /\ SessionType' /\ CallbacksType' /\ AttemptType' /\ AppType'
    BY <1>2, UnchangedType DEF HandleNobody
  <2>3. QED
    BY <2>1, <2>2, TypeNext
<1>3. ASSUME NEW c \in Clients, HandleError(c)
      PROVE  TypeOK'
  <2>1. commands' \in SUBSET Command
    BY <1>3, InternalDisconnectType DEF HandleError, TypeOK
  <2>2. ConnectionType'
    BY <1>3, CloseOnlyType DEF HandleError, TypeOK, ConnectionType
  <2>3. SessionType' /\ ThreadsType'
    BY <1>1, <1>3, <2>1 DEF HandleError, TypeOK, SessionType, ThreadsType
  <2>4. CallbacksType' /\ AttemptType' /\ AppType'
    BY <1>3, UnchangedType DEF HandleError
  <2>5. QED
    BY <2>2, <2>3, <2>4, TypeNext
<1>4. ASSUME NEW c \in Clients, HandleRefused(c)
      PROVE  TypeOK'
  <2>1. ConnectionType' /\ SessionType' /\ CallbacksType'
    BY <1>4, AttemptFailedType DEF HandleRefused
  <2>2. ThreadsType'
    BY <1>1, <1>4 DEF HandleRefused, TypeOK, ThreadsType
  <2>3. AttemptType' /\ AppType'
    BY <1>4, UnchangedType DEF HandleRefused
  <2>4. QED
    BY <2>1, <2>2, <2>3, TypeNext
<1>5. ASSUME NEW c \in Clients, HandleAck(c)
      PROVE  TypeOK'
  <2>1. responses' \in [Clients -> SUBSET Command] /\ CallbacksType'
    BY <1>5, AcknowledgeType DEF HandleAck
  <2>2. SessionType' /\ ThreadsType'
    BY <1>1, <1>5, <2>1 DEF HandleAck, TypeOK, SessionType, ThreadsType
  <2>3. ConnectionType' /\ AttemptType' /\ AppType'
    BY <1>5, UnchangedType DEF HandleAck
  <2>4. QED
    BY <2>1, <2>2, <2>3, TypeNext
<1>6. QED
  BY <1>2, <1>3, <1>4, <1>5, HandleConnectedType DEF Handle

LEMMA NetworkType ==
  ASSUME TypeOK, Network
  PROVE  TypeOK'
<1>1. PICK f \in Sockets, old \in Statuses, new \in Statuses : SetStatus(f, old, new)
  BY DEF Network, TcpUp, TcpFail, PeerClose, Statuses
<1>2. ConnectionType'
  <2>1. net \in [Sockets -> Socket] /\ net[f] \in Socket
    BY DEF TypeOK
  <2>2. [net[f] EXCEPT !.status = new] \in Socket
    BY <2>1 DEF Socket
  <2>3. net' \in [Sockets -> Socket]
    BY <1>1, <2>1, <2>2 DEF SetStatus
  <2>4. QED
    BY <1>1, <2>3 DEF SetStatus, connection, TypeOK, ConnectionType
<1>3. SessionType' /\ CallbacksType' /\ AttemptType' /\ ThreadsType' /\ AppType'
  BY <1>1, UnchangedType DEF SetStatus, session, app, callbacks
<1>4. QED
  BY <1>2, <1>3, TypeNext

LEMMA StutterType ==
  ASSUME TypeOK, UNCHANGED vars
  PROVE  TypeOK'
BY UnchangedType, TypeNext DEF vars, connection, session, app, callbacks

\* Every variable keeps its type, whatever the clients, the bounds and the
\* faults: descriptors, call numbers and connect states stay in range.
THEOREM TypeCorrect == Spec => []TypeOK
<1>1. Init => TypeOK
  <2> SUFFICES ASSUME Init PROVE TypeOK
    OBVIOUS
  <2>1. NoSocket \in Socket /\ 0 \in Versions
    BY DEF NoSocket, Socket, Statuses, Versions
  <2>2. QED
    BY <2>1, AnswerType DEF Init, TypeOK
<1>2. TypeOK /\ [Next]_vars => TypeOK'
  BY ApplicationType, ProcessCommandType, CheckTimeoutsType, SelectType, ContinueWriteType,
     CycleType, RetryType, HandleType, NetworkType, StutterType
  DEF Next, ReceiveThread
<1>3. QED
  BY <1>1, <1>2, PTL DEF Spec

-----------------------------------------------------------------------------
(* SocketsOwned is inductive, given the types *)

LEMMA CloseOnlyOwned ==
  ASSUME TypeOK, SocketsOwned, NEW c \in Clients, CloseOnly(c)
  PROVE  SocketsOwned'
<1>1. /\ socket \in [Clients -> Sockets \cup {0}] /\ net \in [Sockets -> Socket]
      /\ connected \in [Clients -> BOOLEAN] /\ connectState \in [Clients -> {0, 1, 3, -2}]
  BY DEF TypeOK
<1>2. \A d \in Clients : socket'[d] = IF d = c THEN 0 ELSE socket[d]
  BY <1>1 DEF CloseOnly
<1>3. \A d, e \in Clients : socket'[d] # 0 /\ socket'[d] = socket'[e] => d = e
  BY <1>2 DEF SocketsOwned
<1>4. ASSUME NEW d \in Clients, socket'[d] # 0
      PROVE  net'[socket'[d]].status # "free"
  <2>1. d # c /\ socket'[d] = socket[d] /\ socket[d] # 0 /\ socket[d] \in Sockets
    BY <1>1, <1>2, <1>4
  <2>2. socket[d] # socket[c]
    BY <2>1 DEF SocketsOwned
  <2>3. net'[socket[d]] = net[socket[d]]
    BY <1>1, <2>1, <2>2 DEF CloseOnly
  <2>4. QED
    BY <2>1, <2>3 DEF SocketsOwned
<1>5. \A d \in Clients : connected'[d] \/ connectState'[d] # 0 => socket'[d] # 0
  BY <1>1, <1>2 DEF CloseOnly, SocketsOwned
<1>6. QED
  BY <1>3, <1>4, <1>5 DEF SocketsOwned

LEMMA KeptOwned ==
  ASSUME TypeOK, SocketsOwned, UNCHANGED socket,
         \A f \in Sockets : net'[f].status = "free" => net[f].status = "free",
         \A c \in Clients : connected'[c] \/ connectState'[c] # 0 => socket[c] # 0
  PROVE  SocketsOwned'
<1>1. \A c \in Clients : socket[c] \in Sockets \cup {0}
  BY DEF TypeOK
<1>2. QED
  BY <1>1 DEF SocketsOwned

LEMMA UnchangedOwned ==
  ASSUME TypeOK, SocketsOwned, UNCHANGED <<connected, connectState, socket, net>>
  PROVE  SocketsOwned'
BY DEF SocketsOwned

LEMMA OpenSocketOwned ==
  ASSUME TypeOK, SocketsOwned, NEW c \in Clients, NEW f \in Sockets,
         NEW st \in Statuses \ {"free"}, NEW wire, NEW unsent,
         OpenSocket(c, f, st, wire, unsent), UNCHANGED connected,
         \A d \in Clients \ {c} : connectState'[d] = connectState[d]
  PROVE  SocketsOwned'
<1>1. /\ socket \in [Clients -> Sockets \cup {0}] /\ net \in [Sockets -> Socket]
      /\ net[f].status = "free" /\ f # 0
  BY BoundAssumption DEF TypeOK, OpenSocket, FreeSockets, Sockets
<1>2. \A d \in Clients : socket'[d] = IF d = c THEN f ELSE socket[d]
  BY <1>1 DEF OpenSocket
<1>3. \A d \in Clients : socket[d] # f
  BY <1>1 DEF SocketsOwned
<1>4. \A d, e \in Clients : socket'[d] # 0 /\ socket'[d] = socket'[e] => d = e
  BY <1>2, <1>3 DEF SocketsOwned
<1>5. \A d \in Clients : socket'[d] # 0 => net'[socket'[d]].status # "free"
  <2>1. net'[f].status = st
    BY <1>1 DEF OpenSocket
  <2>2. ASSUME NEW d \in Clients, d # c, socket[d] # 0
        PROVE  net'[socket[d]].status # "free"
    BY <1>1, <1>3, <2>2 DEF OpenSocket, SocketsOwned
  <2>3. QED
    BY <1>2, <2>1, <2>2
<1>6. \A d \in Clients : connected'[d] \/ connectState'[d] # 0 => socket'[d] # 0
  BY <1>1, <1>2 DEF SocketsOwned
<1>7. QED
  BY <1>4, <1>5, <1>6 DEF SocketsOwned

LEMMA WriteOwned ==
  ASSUME TypeOK, NEW c \in Clients, NEW p, NEW w,
         net' = [net EXCEPT ![socket[c]] = Written(@, p, w)]
  PROVE  \A f \in Sockets : net'[f].status = net[f].status
<1>1. net \in [Sockets -> Socket]
  BY DEF TypeOK
<1>2. \A s \in Socket : Written(s, p, w).status = s.status
  BY DEF Written, Received, Socket
<1>3. QED
  BY <1>1, <1>2

LEMMA ControlOwned ==
  ASSUME TypeOK, SocketsOwned, NEW c \in Clients, ControlWritten(c),
         UNCHANGED <<connected, connectState, socket>>
  PROVE  SocketsOwned'
<1>1. \A f \in Sockets : net'[f].status = net[f].status
  BY DEF ControlWritten, TypeOK, Socket
<1>2. QED
  BY <1>1, KeptOwned DEF SocketsOwned

LEMMA AttemptFailedOwned ==
  ASSUME TypeOK, SocketsOwned, NEW c \in Clients, AttemptFailed(c)
  PROVE  SocketsOwned'
BY CloseOnlyOwned DEF AttemptFailed, CloseSession

LEMMA CheckDisconnectOwned ==
  ASSUME TypeOK, SocketsOwned, NEW c \in Clients, NEW i, NEW q,
         connectState[c] # 0 \/ connected[c], CheckDisconnect(c, i, q)
  PROVE  SocketsOwned'
<1>1. CASE CloseSession(c, q)
  BY <1>1, CloseOnlyOwned DEF CloseSession
<1>2. CASE /\ connectState' = [connectState EXCEPT ![c] = -2]
           /\ UNCHANGED <<connected, socket, net>>
  <2>1. \A d \in Clients : connected'[d] \/ connectState'[d] # 0 => socket[d] # 0
    BY <1>2 DEF TypeOK, SocketsOwned
  <2>2. QED
    BY <1>2, <2>1, KeptOwned
<1>3. QED
  BY <1>1, <1>2 DEF CheckDisconnect

LEMMA ProcessConnectOwned ==
  ASSUME TypeOK, SocketsOwned, NEW x \in commands, ProcessConnect(x)
  PROVE  SocketsOwned'
<1> DEFINE c == x.client
           v == NextVersion(x.version)
           p == [type |-> "CONNECT", id |-> x.id]
<1>1. c \in Clients
  BY DEF TypeOK, Command
<1>2. ConnectFailed(x, v) => UNCHANGED <<connected, connectState>>
  BY DEF ConnectFailed
<1>3. \A s : ConnectStarted(x, v, s) =>
        UNCHANGED connected /\ \A d \in Clients \ {c} : connectState'[d] = connectState[d]
  BY <1>1 DEF ConnectStarted, TypeOK
<1>4. connectState[c] = 0 /\ ~connected[c]
  BY DEF ProcessConnect
<1>5. CASE ConnectFailed(x, v) /\ UNCHANGED <<socket, net>>
  BY <1>2, <1>5, UnchangedOwned
<1>6. CASE ConnectFailed(x, v) /\ socket' = [socket EXCEPT ![c] = 0] /\ UNCHANGED net
  <2>1. \A d \in Clients : socket'[d] = IF d = c THEN 0 ELSE socket[d]
    BY <1>6 DEF TypeOK
  <2>2. QED
    BY <1>1, <1>2, <1>4, <1>6, <2>1 DEF SocketsOwned
<1>7. ASSUME NEW f \in Sockets, NEW st \in {"down", "connecting", "up"}, NEW wire, NEW u,
             OpenSocket(c, f, st, wire, u), ConnectFailed(x, v)
      PROVE  SocketsOwned'
  <2>1. st \in Statuses \ {"free"}
    BY DEF Statuses
  <2>2. QED
    BY <1>1, <1>2, <1>7, <2>1, OpenSocketOwned
<1>8. ASSUME NEW f \in Sockets, NEW st \in {"down", "connecting", "up"}, NEW wire, NEW u, NEW s,
             OpenSocket(c, f, st, wire, u), ConnectStarted(x, v, s)
      PROVE  SocketsOwned'
  <2>1. st \in Statuses \ {"free"}
    BY DEF Statuses
  <2>2. QED
    BY <1>1, <1>3, <1>8, <2>1, OpenSocketOwned
<1>9. QED
  BY <1>5, <1>6, <1>7, <1>8 DEF ProcessConnect, MQTTProtocol_connect

LEMMA ProcessCommandOwned ==
  ASSUME TypeOK, SocketsOwned, ProcessCommand
  PROVE  SocketsOwned'
<1> USE DEF connection
<1>1. \A x \in commands : x.client \in Clients
  BY DEF TypeOK, Command
<1>2. ASSUME NEW x \in commands, ProcessDisconnect(x)
      PROVE  SocketsOwned'
  BY <1>1, <1>2, CheckDisconnectOwned, UnchangedOwned DEF ProcessDisconnect
<1>3. ASSUME NEW x \in commands, UNCHANGED connection, NEW p, NEW w,
             net' = [net EXCEPT ![socket[x.client]] = Written(@, p, w)]
      PROVE  SocketsOwned'
  <2>1. \A f \in Sockets : net'[f].status = net[f].status
    BY <1>1, <1>3, WriteOwned
  <2>2. QED
    BY <1>3, <2>1, KeptOwned DEF SocketsOwned
<1>4. \A x \in commands : IgnoreConnect(x) => SocketsOwned'
  BY UnchangedOwned DEF IgnoreConnect
<1>5. ASSUME NEW x \in commands, ProcessRequest(x)
      PROVE  SocketsOwned'
  <2>1. UNCHANGED connection
    BY <1>5 DEF ProcessRequest
  <2>2. \E p, w : net' = [net EXCEPT ![socket[x.client]] = Written(@, p, w)]
    BY <1>5 DEF ProcessRequest
  <2>3. QED
    BY <1>3, <2>1, <2>2
<1>6. ASSUME NEW x \in commands, ProcessPublish0(x)
      PROVE  SocketsOwned'
  <2>1. UNCHANGED connection
    BY <1>6 DEF ProcessPublish0
  <2>2. \E p, w : net' = [net EXCEPT ![socket[x.client]] = Written(@, p, w)]
    BY <1>6 DEF ProcessPublish0
  <2>3. QED
    BY <1>3, <2>1, <2>2
<1>7. FlagPendingWrite \/ StoreResponse => SocketsOwned'
  BY UnchangedOwned DEF FlagPendingWrite, StoreResponse
<1>8. QED
  BY <1>2, <1>4, <1>5, <1>6, <1>7, ProcessConnectOwned DEF ProcessCommand

LEMMA CycleOwned ==
  ASSUME TypeOK, SocketsOwned, Cycle
  PROVE  SocketsOwned'
<1> USE DEF connection
<1>1. CASE CycleNobody
  BY <1>1, UnchangedOwned DEF CycleNobody
<1>2. ASSUME NEW c \in Clients, CycleConnecting(c)
      PROVE  SocketsOwned'
  <2>1. CASE AttemptFailed(c)
    BY <2>1, AttemptFailedOwned
  <2>2. ASSUME NEW w, NEW p, UNCHANGED <<connected, socket>>,
               net' = [net EXCEPT ![receiver.sock] = Written(@, p, w)],
               connectState' = [connectState EXCEPT ![c] = 3]
        PROVE  SocketsOwned'
    <3>1. \A f \in Sockets : net'[f].status = net[f].status
      BY <1>2, <2>2, WriteOwned DEF CycleConnecting
    <3>2. \A d \in Clients : connected'[d] \/ connectState'[d] # 0 => socket[d] # 0
      BY <1>2, <2>2 DEF CycleConnecting, TypeOK, SocketsOwned
    <3>3. QED
      BY <2>2, <3>1, <3>2, KeptOwned
  <2>3. QED
    BY <1>2, <2>1, <2>2 DEF CycleConnecting
<1>3. \A c \in Clients : CycleReadError(c) => SocketsOwned'
  BY AttemptFailedOwned, UnchangedOwned DEF CycleReadError
<1>4. \A c \in Clients : CycleNothing(c) => SocketsOwned'
  BY UnchangedOwned DEF CycleNothing
<1>5. ASSUME NEW c \in Clients, CycleRead(c)
      PROVE  SocketsOwned'
  <2>1. PICK p : net' = [net EXCEPT ![receiver.sock].wire = @ \ {p}]
    BY <1>5 DEF CycleRead
  <2>2. \A f \in Sockets : net'[f].status = net[f].status
    BY <2>1 DEF TypeOK, Socket
  <2>3. UNCHANGED <<connected, connectState, socket>>
    BY <1>5 DEF CycleRead
  <2>4. QED
    BY <2>2, <2>3, KeptOwned DEF SocketsOwned
<1>6. \A c \in Clients : CycleIncoming(c) => SocketsOwned'
  BY IncomingWrite, ControlOwned
<1>7. QED
  BY <1>1, <1>2, <1>3, <1>4, <1>5, <1>6 DEF Cycle

LEMMA HandleOwned ==
  ASSUME TypeOK, SocketsOwned, Handle
  PROVE  SocketsOwned'
<1> USE DEF connection
<1>1. CASE HandleNobody
  BY <1>1, UnchangedOwned DEF HandleNobody
<1>2. \A c \in Clients : HandleError(c) => SocketsOwned'
  BY UnchangedOwned, CloseOnlyOwned DEF HandleError
<1>3. \A c \in Clients : HandleRefused(c) => SocketsOwned'
  BY AttemptFailedOwned DEF HandleRefused
<1>4. \A c \in Clients : HandleAck(c) => SocketsOwned'
  BY UnchangedOwned DEF HandleAck
<1>5. ASSUME NEW c \in Clients, HandleConnected(c)
      PROVE  SocketsOwned'
  <2>1. /\ UNCHANGED socket /\ socket[c] # 0
        /\ connected' = [connected EXCEPT ![c] = TRUE]
        /\ connectState' = [connectState EXCEPT ![c] = 0]
    BY <1>5 DEF HandleConnected
  <2>2. \A d \in Clients : connected'[d] \/ connectState'[d] # 0 => socket[d] # 0
    BY <2>1 DEF TypeOK, SocketsOwned
  <2>3. net' = net \/ \E msgs, m, w : net' = [net EXCEPT ![socket[c]] = Resent(@, msgs, m, w)]
    BY <1>5 DEF HandleConnected
  <2>4. \A s \in Socket : \A msgs, m, w : Resent(s, msgs, m, w).status = s.status
    BY DEF Resent, Written, Received, Socket
  <2>5. \A f \in Sockets : net'[f].status = net[f].status
    BY <2>3, <2>4 DEF TypeOK
  <2>6. QED
    BY <2>1, <2>2, <2>5, KeptOwned
<1>6. QED
  BY <1>1, <1>2, <1>3, <1>4, <1>5 DEF Handle

LEMMA OthersOwned ==
  ASSUME TypeOK, SocketsOwned
  PROVE  /\ Application \/ Retry \/ UNCHANGED vars => SocketsOwned'
         /\ \A f : Select(f) => SocketsOwned'
         /\ \A c \in Clients : CheckTimeouts(c) => SocketsOwned'
         /\ \A f \in Sockets : ContinueWrite(f) => SocketsOwned'
         /\ Network => SocketsOwned'
<1> USE DEF connection
<1>1. Application \/ Retry \/ UNCHANGED vars => SocketsOwned'
  <2>1. Application \/ UNCHANGED vars => SocketsOwned'
    BY UnchangedOwned DEF Application, AddCommand, Connect, CheckConnected, vars
  <2>2. Retry => SocketsOwned'
    BY UnchangedOwned, KeepAliveWrite, ControlOwned DEF Retry
  <2>3. QED
    BY <2>1, <2>2
<1>2. \A f : Select(f) => SocketsOwned'
  BY UnchangedOwned DEF Select
<1>3. \A c \in Clients : CheckTimeouts(c) => SocketsOwned'
  BY AttemptFailedOwned, CheckDisconnectOwned DEF CheckTimeouts
<1>4. ASSUME NEW f \in Sockets, ContinueWrite(f)
      PROVE  SocketsOwned'
  <2>1. \A s \in Socket : [Received(s, s.unsent) EXCEPT !.unsent = NoPacket].status = s.status
    BY DEF Received, Socket
  <2>2. \A g \in Sockets : net'[g].status = net[g].status
    BY <1>4, <2>1 DEF ContinueWrite, TypeOK
  <2>3. QED
    BY <1>4, <2>2, KeptOwned DEF ContinueWrite, SocketsOwned
<1>5. ASSUME Network
      PROVE  SocketsOwned'
  <2>1. PICK f \in Sockets, old \in {"connecting", "up"}, new \in {"up", "refused", "down"} :
          SetStatus(f, old, new)
    BY <1>5 DEF Network, TcpUp, TcpFail, PeerClose
  <2>2. \A g \in Sockets : net'[g].status = "free" => net[g].status = "free"
    BY <2>1 DEF SetStatus, TypeOK, Socket
  <2>3. QED
    BY <2>1, <2>2, KeptOwned DEF SetStatus, SocketsOwned
<1>6. QED
  BY <1>1, <1>2, <1>3, <1>4, <1>5

\* Two clients never share a descriptor, and a client that is connected,
\* connecting or closing owns an open one, for any number of clients and
\* descriptors: a descriptor closed and reused by another client's Socket_new
\* is never the one a stale m->c->net.socket still names.
THEOREM SocketsOwnedCorrect == Spec => []SocketsOwned
<1>1. Init => SocketsOwned
  BY DEF Init, SocketsOwned
<1>2. TypeOK /\ SocketsOwned /\ [Next]_vars => SocketsOwned'
  BY ProcessCommandOwned, CycleOwned, HandleOwned, OthersOwned DEF Next, ReceiveThread
<1>3. QED
  BY <1>1, <1>2, TypeCorrect, PTL DEF Spec

-----------------------------------------------------------------------------
(* WritesSeparate: a closed descriptor has nothing left to write, so none is *)
(* opened with the rest of an older connection's packet; and no step, of     *)
(* either thread, touches a packet that is not finished but by finishing it  *)
(* or closing its connection.                                                *)

ClosedEmpty == \A f \in Sockets : net[f].status = "free" => net[f].unsent = NoPacket

Finishing(f) ==
  net[f].unsent # NoPacket =>
    \/ /\ net'[f].unsent = net[f].unsent
       /\ net'[f].wire \subseteq net[f].wire
    \/ /\ net'[f].unsent = NoPacket
       /\ net'[f].wire \subseteq net[f].wire \cup Answerable(net[f].unsent)
Tidy(f) == Finishing(f) /\ (net'[f].status = "free" => net'[f].unsent = NoPacket)
AllTidy == \A f \in Sockets : Tidy(f)

LEMMA UnchangedTidy ==
  ASSUME ClosedEmpty, UNCHANGED net
  PROVE  AllTidy
BY DEF ClosedEmpty, AllTidy, Tidy, Finishing

\* the DISCONNECT of a connection in the middle of a packet is refused
LEMMA CloseOnlyTidy ==
  ASSUME TypeOK, SocketsOwned, ClosedEmpty, NEW c \in Clients, CloseOnly(c)
  PROVE  AllTidy
<1>1. net \in [Sockets -> Socket] /\ socket[c] \in Sockets \cup {0}
  BY DEF TypeOK
<1>2. PICK w \in IF connected[c] THEN Writes(socket[c]) ELSE {"none"} :
        net' = [net EXCEPT ![socket[c]] = Closed(net[socket[c]], w)]
  BY DEF CloseOnly
<1>3. \A f \in Sockets : f # socket[c] => net'[f] = net[f]
  BY <1>1, <1>2
<1>4. ASSUME socket[c] \in Sockets
      PROVE  Tidy(socket[c])
  <2>1. net'[socket[c]] = Closed(net[socket[c]], w)
    BY <1>1, <1>2, <1>4
  <2>2. net'[socket[c]].unsent = NoPacket
    BY <2>1 DEF Closed, NoSocket
  <2>3. ASSUME net[socket[c]].unsent # NoPacket
        PROVE  net'[socket[c]].wire = {}
    <3>1. w # "complete"
      BY <1>2, <2>3 DEF Writes
    <3>2. QED
      BY <2>1, <3>1 DEF Closed, NoSocket
  <2>4. QED
    BY <2>2, <2>3 DEF Tidy, Finishing
<1>5. QED
  BY <1>3, <1>4 DEF ClosedEmpty, AllTidy, Tidy, Finishing

\* what the write of a packet does, or refuses to do, on the socket of a client
LEMMA WriteTidy ==
  ASSUME TypeOK, SocketsOwned, ClosedEmpty, NEW c \in Clients, socket[c] # 0,
         NEW p, NEW w \in Writes(socket[c]),
         net' = [net EXCEPT ![socket[c]] = Written(@, p, w)]
  PROVE  AllTidy
<1>1. net \in [Sockets -> Socket] /\ socket[c] \in Sockets /\ net[socket[c]].status # "free"
  BY DEF TypeOK, SocketsOwned
<1>2. /\ net'[socket[c]] = Written(net[socket[c]], p, w)
      /\ \A f \in Sockets : f # socket[c] => net'[f] = net[f]
  BY <1>1
<1>3. Written(net[socket[c]], p, w).status = net[socket[c]].status
  BY <1>1 DEF Written, Received, Socket
<1>4. net[socket[c]].unsent # NoPacket => net'[socket[c]] = net[socket[c]]
  BY <1>2 DEF Writes, Written
<1>5. Tidy(socket[c])
  BY <1>1, <1>2, <1>3, <1>4 DEF Tidy, Finishing
<1>6. QED
  BY <1>2, <1>5 DEF ClosedEmpty, AllTidy, Tidy, Finishing

LEMMA ControlTidy ==
  ASSUME TypeOK, SocketsOwned, ClosedEmpty, NEW c \in Clients, connected[c], ControlWritten(c)
  PROVE  AllTidy
<1>1. socket[c] # 0 /\ net[socket[c]].status # "free"
  BY DEF SocketsOwned
<1>2. ASSUME NEW f \in Sockets
      PROVE  Tidy(f)
  <2>1. CASE net'[f] = net[f]
    BY <2>1 DEF ClosedEmpty, Tidy, Finishing
  <2>2. CASE f = socket[c] /\ net[f].unsent = NoPacket /\ net'[f].status = net[f].status
    BY <1>1, <2>2 DEF Tidy, Finishing
  <2>3. QED
    BY <2>1, <2>2 DEF ControlWritten, TypeOK, Socket
<1>3. QED
  BY <1>2 DEF AllTidy

LEMMA OpenSocketTidy ==
  ASSUME TypeOK, ClosedEmpty, NEW c \in Clients, NEW f \in Sockets,
         NEW st \in Statuses \ {"free"}, NEW wire, NEW unsent, OpenSocket(c, f, st, wire, unsent)
  PROVE  AllTidy
<1>1. net \in [Sockets -> Socket] /\ net[f].unsent = NoPacket
  BY DEF TypeOK, OpenSocket, FreeSockets, ClosedEmpty
<1>2. net'[f].status = st /\ \A g \in Sockets : g # f => net'[g] = net[g]
  BY <1>1 DEF OpenSocket
<1>3. QED
  BY <1>1, <1>2 DEF ClosedEmpty, AllTidy, Tidy, Finishing

LEMMA AttemptFailedTidy ==
  ASSUME TypeOK, SocketsOwned, ClosedEmpty, NEW c \in Clients, AttemptFailed(c)
  PROVE  AllTidy
BY CloseOnlyTidy DEF AttemptFailed, CloseSession

LEMMA CheckDisconnectTidy ==
  ASSUME TypeOK, SocketsOwned, ClosedEmpty, NEW c \in Clients, NEW i, NEW q,
         CheckDisconnect(c, i, q)
  PROVE  AllTidy
BY CloseOnlyTidy, UnchangedTidy DEF CheckDisconnect, CloseSession

LEMMA ProcessConnectTidy ==
  ASSUME TypeOK, SocketsOwned, ClosedEmpty, NEW x \in commands, ProcessConnect(x)
  PROVE  AllTidy
<1>1. x.client \in Clients
  BY DEF TypeOK, Command
<1>2. \/ UNCHANGED net
      \/ \E f \in Sockets, st \in {"down", "connecting", "up"} : \E wire, u :
           OpenSocket(x.client, f, st, wire, u)
  BY DEF ProcessConnect, MQTTProtocol_connect
<1>3. QED
  BY <1>1, <1>2, UnchangedTidy, OpenSocketTidy DEF Statuses

LEMMA ProcessCommandTidy ==
  ASSUME TypeOK, SocketsOwned, ClosedEmpty, ProcessCommand
  PROVE  AllTidy
<1> USE DEF connection
<1>1. \A x \in commands : x.client \in Clients
  BY DEF TypeOK, Command
<1>2. \A x \in commands : IgnoreConnect(x) => AllTidy
  BY UnchangedTidy DEF IgnoreConnect
<1>3. ASSUME NEW x \in commands, ProcessDisconnect(x)
      PROVE  AllTidy
  BY <1>1, <1>3, CheckDisconnectTidy, UnchangedTidy DEF ProcessDisconnect
<1>4. ASSUME NEW x \in commands, ProcessRequest(x) \/ ProcessPublish0(x)
      PROVE  AllTidy
  <2>1. connected[x.client]
    BY <1>4 DEF ProcessRequest, ProcessPublish0, Selected, Eligible
  <2>2. \E p : \E w \in Writes(socket[x.client]) :
          net' = [net EXCEPT ![socket[x.client]] = Written(@, p, w)]
    BY <1>4 DEF ProcessRequest, ProcessPublish0
  <2>3. x.client \in Clients /\ socket[x.client] # 0
    BY <1>1, <2>1 DEF SocketsOwned
  <2>4. QED
    BY <2>2, <2>3, WriteTidy
<1>5. FlagPendingWrite \/ StoreResponse => AllTidy
  BY UnchangedTidy DEF FlagPendingWrite, StoreResponse
<1>6. QED
  BY <1>2, <1>3, <1>4, <1>5, ProcessConnectTidy DEF ProcessCommand

LEMMA CycleTidy ==
  ASSUME TypeOK, SocketsOwned, ClosedEmpty, Cycle
  PROVE  AllTidy
<1>1. CASE CycleNobody
  BY <1>1, UnchangedTidy DEF CycleNobody
<1>2. ASSUME NEW c \in Clients, CycleConnecting(c)
      PROVE  AllTidy
  <2>1. CASE AttemptFailed(c)
    BY <2>1, AttemptFailedTidy
  <2>2. CASE \E p : \E w \in Writes(receiver.sock) :
               net' = [net EXCEPT ![receiver.sock] = Written(@, p, w)]
    <3>1. socket[c] = receiver.sock /\ socket[c] # 0
      BY <1>2 DEF CycleConnecting
    <3>2. QED
      BY <2>2, <3>1, WriteTidy
  <2>3. QED
    BY <1>2, <2>1, <2>2 DEF CycleConnecting
<1>3. \A c \in Clients : CycleReadError(c) => AllTidy
  BY AttemptFailedTidy, UnchangedTidy DEF CycleReadError
<1>4. \A c \in Clients : CycleNothing(c) => AllTidy
  BY UnchangedTidy DEF CycleNothing
<1>5. ASSUME NEW c \in Clients, CycleRead(c)
      PROVE  AllTidy
  <2>1. PICK p : net' = [net EXCEPT ![receiver.sock].wire = @ \ {p}]
    BY <1>5 DEF CycleRead
  <2>2. QED
    BY <2>1 DEF TypeOK, Socket, ClosedEmpty, AllTidy, Tidy, Finishing
<1>6. \A c \in Clients : CycleIncoming(c) => AllTidy
  BY IncomingWrite, ControlTidy
<1>7. QED
  BY <1>1, <1>2, <1>3, <1>4, <1>5, <1>6 DEF Cycle

LEMMA HandleTidy ==
  ASSUME TypeOK, SocketsOwned, ClosedEmpty, Handle
  PROVE  AllTidy
<1>1. CASE HandleNobody
  BY <1>1, UnchangedTidy DEF HandleNobody
<1>2. \A c \in Clients : HandleError(c) => AllTidy
  BY UnchangedTidy, CloseOnlyTidy DEF HandleError
<1>3. \A c \in Clients : HandleRefused(c) => AllTidy
  BY AttemptFailedTidy DEF HandleRefused
<1>4. \A c \in Clients : HandleAck(c) => AllTidy
  BY UnchangedTidy DEF HandleAck
<1>5. ASSUME NEW c \in Clients, HandleConnected(c)
      PROVE  AllTidy
  <2>1. socket[c] \in Sockets /\ net \in [Sockets -> Socket] /\ net[socket[c]].status # "free"
    BY <1>5 DEF HandleConnected, TypeOK, SocketsOwned
  <2>2. ASSUME net[socket[c]].unsent = NoPacket, NEW msgs, NEW n, NEW w,
               net' = [net EXCEPT ![socket[c]] = Resent(@, msgs, n, w)]
        PROVE  AllTidy
    <3>1. net[socket[c]] \in Socket
      BY <2>1
    <3>2. Resent(net[socket[c]], msgs, n, w).status = net[socket[c]].status
      BY <3>1 DEF Resent, Written, Received, Socket
    <3>3. /\ net'[socket[c]] = Resent(net[socket[c]], msgs, n, w)
          /\ \A f \in Sockets : f # socket[c] => net'[f] = net[f]
      BY <2>1, <2>2
    <3>4. QED
      BY <2>1, <2>2, <3>2, <3>3 DEF ClosedEmpty, AllTidy, Tidy, Finishing
  <2>3. \/ UNCHANGED net
        \/ /\ net[socket[c]].unsent = NoPacket
           /\ \E msgs, n, w : net' = [net EXCEPT ![socket[c]] = Resent(@, msgs, n, w)]
    BY <1>5 DEF HandleConnected
  <2>4. QED
    BY <2>2, <2>3, UnchangedTidy
<1>6. QED
  BY <1>1, <1>2, <1>3, <1>4, <1>5 DEF Handle

LEMMA OthersTidy ==
  ASSUME TypeOK, SocketsOwned, ClosedEmpty
  PROVE  /\ Application \/ Retry \/ UNCHANGED vars => AllTidy
         /\ \A f : Select(f) => AllTidy
         /\ \A c \in Clients : CheckTimeouts(c) => AllTidy
         /\ \A f \in Sockets : ContinueWrite(f) => AllTidy
         /\ Network => AllTidy
<1>1. Application \/ UNCHANGED vars => AllTidy
  BY UnchangedTidy DEF Application, AddCommand, Connect, CheckConnected, vars
<1>2. Retry => AllTidy
  BY UnchangedTidy, KeepAliveWrite, ControlTidy DEF Retry
<1>3. \A f : Select(f) => AllTidy
  BY UnchangedTidy DEF Select
<1>4. \A c \in Clients : CheckTimeouts(c) => AllTidy
  BY AttemptFailedTidy, CheckDisconnectTidy DEF CheckTimeouts
<1>5. ASSUME NEW f \in Sockets, ContinueWrite(f)
      PROVE  AllTidy
  <2>1. net \in [Sockets -> Socket] /\ net[f] \in Socket
    BY DEF TypeOK
  <2>2. net' = [net EXCEPT ![f] = [Received(net[f], net[f].unsent) EXCEPT !.unsent = NoPacket]]
    BY <1>5, <2>1 DEF ContinueWrite
  <2>3. /\ [Received(net[f], net[f].unsent) EXCEPT !.unsent = NoPacket].unsent = NoPacket
        /\ [Received(net[f], net[f].unsent) EXCEPT !.unsent = NoPacket].wire
             \subseteq net[f].wire \cup Answerable(net[f].unsent)
    BY <2>1 DEF Received, Socket
  <2>4. Tidy(f)
    BY <2>1, <2>2, <2>3 DEF Tidy, Finishing
  <2>5. \A g \in Sockets : g # f => net'[g] = net[g]
    BY <2>1, <2>2
  <2>6. QED
    BY <2>4, <2>5 DEF ClosedEmpty, AllTidy, Tidy, Finishing
<1>6. ASSUME Network
      PROVE  AllTidy
  <2>1. PICK f \in Sockets, old \in {"connecting", "up"}, new \in {"up", "refused", "down"} :
          SetStatus(f, old, new)
    BY <1>6 DEF Network, TcpUp, TcpFail, PeerClose
  <2>2. QED
    BY <2>1 DEF SetStatus, TypeOK, Socket, ClosedEmpty, AllTidy, Tidy, Finishing
<1>7. QED
  BY <1>1, <1>2, <1>3, <1>4, <1>5, <1>6

\* Nothing gets between the two parts of a packet, whichever thread writes: the
\* send thread's requests, the receive thread's CONNECTs, acknowledgements, PINGREQs
\* and resends, or the DISCONNECT of either, for any clients, sockets and faults.
THEOREM WritesSeparateCorrect == Spec => WritesSeparate
<1>1. Init => ClosedEmpty
  BY DEF Init, ClosedEmpty, NoSocket
<1>2. TypeOK /\ SocketsOwned /\ ClosedEmpty /\ [Next]_vars => AllTidy
  BY ProcessCommandTidy, CycleTidy, HandleTidy, OthersTidy DEF Next, ReceiveThread
<1>3. AllTidy => ClosedEmpty'
  BY DEF AllTidy, Tidy, ClosedEmpty
<1>4. AllTidy =>
        [\A f \in Sockets :
           net[f].unsent # NoPacket =>
             \/ /\ net'[f].unsent = net[f].unsent
                /\ net'[f].wire \subseteq net[f].wire
             \/ /\ net'[f].unsent = NoPacket
                /\ net'[f].wire \subseteq net[f].wire \cup Answerable(net[f].unsent)]_vars
  BY DEF AllTidy, Tidy, Finishing
<1>5. Spec => [](TypeOK /\ SocketsOwned /\ ClosedEmpty)
  BY <1>1, <1>2, <1>3, TypeCorrect, SocketsOwnedCorrect, PTL DEF Spec
<1>6. QED
  BY <1>2, <1>4, <1>5, PTL DEF Spec, WritesSeparate

-----------------------------------------------------------------------------
(***************************************************************************)
(* The theorems of MQTTAsync about the application's requests: they leave  *)
(* the queue in the order of their calls, and each is reported at most     *)
(* once and never dropped.  The engine follows a request by its number     *)
(* only, through the queue, the responses, the packets on a connection and *)
(* pending_write.                                                          *)
(***************************************************************************)

(* Known: every number that the engine holds is that of a call of the      *)
(* client and of the kind it is held for.                                  *)

IsCall(i, c, t) == i \in Ids /\ issued[i] = [client |-> c, type |-> t]

CallsKnown ==
  /\ \A i \in Ids : i > calls => issued[i] = NotIssued
  /\ pendingCall # NoCall =>
       pendingCall.type # "CONNECT" /\ IsCall(pendingCall.id, pendingCall.client, pendingCall.type)

\* a request or a user disconnect is queued under the number of its call
QueueKnown ==
  \A x \in commands : x.id # 0 =>
    /\ IsCall(x.id, x.client, x.type)
    /\ x.type # "CONNECT" => x.pos = x.id /\ x.version = 0

HandKnown ==
  inHand # NoCommand =>
    IsCall(inHand.command.id, inHand.command.client, "PUBLISH0") /\ inHand.command.type = "PUBLISH0"

ResponsesKnown ==
  \A c \in Clients : \A r \in responses[c] :
    r.type \in RequestTypes /\ IsCall(r.id, c, r.type)

OutboundKnown == \A c \in Clients : \A i \in outbound[c] : IsCall(i, c, "PUBLISH")

AttemptKnown ==
  \A c \in Clients :
    /\ connect[c].id # 0 => IsCall(connect[c].id, c, "CONNECT")
    /\ pendingWrite[c] # 0 => IsCall(pendingWrite[c], c, "PUBLISH0")
    /\ disconnect[c] # 0 => IsCall(disconnect[c], c, "DISCONNECT")

\* what is answered: a QoS 0 publish is not
PacketKnown(p) ==
  /\ p.type \in RequestTypes => p.id \in Ids /\ issued[p.id].type = p.type
  /\ p.type \in ControlTypes => p.id = 0
NetKnown ==
  \A f \in Sockets :
    /\ PacketKnown(net[f].unsent)
    /\ \A p \in net[f].wire : PacketKnown(p) /\ p.type # "PUBLISH0"

PackKnown ==
  /\ receiver.pack.type = "none" => receiver.pack.id = 0
  /\ receiver.pack.type = "ACK" /\ receiver.pack.id # 0 =>
       receiver.pack.id \in Ids /\ issued[receiver.pack.id].type \in {"SUBSCRIBE", "UNSUBSCRIBE"}

Known ==
  /\ CallsKnown /\ QueueKnown /\ HandKnown /\ ResponsesKnown /\ OutboundKnown
  /\ AttemptKnown /\ NetKnown /\ PackKnown


\* a command under no number, or a CONNECT of the application's
Harmless(x) == x.id # 0 => x.type = "CONNECT" /\ IsCall(x.id, x.client, x.type)

LEMMA PartsKept ==
  ASSUME UNCHANGED issued
  PROVE  /\ CallsKnown /\ UNCHANGED <<calls, pendingCall>> => CallsKnown'
         /\ QueueKnown /\ (\A x \in commands' : x \in commands \/ Harmless(x)) => QueueKnown'
         /\ HandKnown /\ UNCHANGED inHand => HandKnown'
         /\ ResponsesKnown /\ (\A c \in Clients : responses'[c] \subseteq responses[c])
            => ResponsesKnown'
         /\ OutboundKnown /\ (\A c \in Clients : outbound'[c] \subseteq outbound[c])
            => OutboundKnown'
         /\ AttemptKnown /\ UNCHANGED <<connect, pendingWrite, disconnect>> => AttemptKnown'
         /\ PackKnown /\ receiver'.pack = receiver.pack => PackKnown'
<1> USE DEF IsCall
<1>1. CallsKnown /\ UNCHANGED <<calls, pendingCall>> => CallsKnown'
  BY DEF CallsKnown
<1>2. QueueKnown /\ (\A x \in commands' : x \in commands \/ Harmless(x)) => QueueKnown'
  BY DEF QueueKnown, Harmless
<1>3. HandKnown /\ UNCHANGED inHand => HandKnown'
  BY DEF HandKnown
<1>4. ResponsesKnown /\ (\A c \in Clients : responses'[c] \subseteq responses[c])
      => ResponsesKnown'
  BY DEF ResponsesKnown
<1>5. OutboundKnown /\ (\A c \in Clients : outbound'[c] \subseteq outbound[c])
      => OutboundKnown'
  BY DEF OutboundKnown
<1>6. AttemptKnown /\ UNCHANGED <<connect, pendingWrite, disconnect>> => AttemptKnown'
  BY DEF AttemptKnown
<1>7. PackKnown /\ receiver'.pack = receiver.pack => PackKnown'
  BY DEF PackKnown
<1>8. QED
  BY <1>1, <1>2, <1>3, <1>4, <1>5, <1>6, <1>7

\* a socket that lost packets, or its status, or everything, and to which nothing
\* was written that is answered
SocketKept(f) ==
  /\ \/ net'[f].unsent \in {net[f].unsent, NoPacket}
     \/ \E t \in ControlTypes : net'[f].unsent = Control(t)
  /\ net'[f].wire \subseteq net[f].wire \cup {Control("DISCONNECT")}

LEMMA ControlKnown ==
  ASSUME NEW t \in ControlTypes
  PROVE  PacketKnown(Control(t)) /\ Control(t).type # "PUBLISH0"
BY DEF PacketKnown, Control, ControlTypes, RequestTypes

LEMMA NoPacketKnown == PacketKnown(NoPacket) /\ PacketKnown(NoPacket)'
BY DEF PacketKnown, NoPacket, RequestTypes, ControlTypes

LEMMA NetUnchanged ==
  ASSUME UNCHANGED issued, NetKnown, \A f \in Sockets : SocketKept(f)
  PROVE  NetKnown'
<1>1. \A p : PacketKnown(p)' <=> PacketKnown(p)
  BY DEF PacketKnown
<1>2. QED
  BY <1>1, NoPacketKnown, ControlKnown DEF NetKnown, SocketKept, ControlTypes

LEMMA AtHeadKept ==
  ASSUME NEW q, NEW c, NEW t, NEW i, NEW v, NEW x \in AtHead(q, c, t, i, v)
  PROVE  \/ x \in q
         \/ x.client = c /\ x.type = t /\ x.id = i
BY DEF AtHead

\* what closing leaves: fewer commands, responses and messages, and a socket less
LEMMA SessionKept ==
  ASSUME TypeOK, Known, UNCHANGED issued,
         \A x \in commands' : x \in commands \/ Harmless(x),
         \A d \in Clients : responses'[d] \subseteq responses[d] /\ outbound'[d] \subseteq outbound[d],
         \A f \in Sockets : SocketKept(f)
  PROVE  QueueKnown' /\ ResponsesKnown' /\ OutboundKnown' /\ NetKnown'
BY PartsKept, NetUnchanged DEF Known

LEMMA CloseOnlyKept ==
  ASSUME TypeOK, NEW c \in Clients, CloseOnly(c)
  PROVE  \A f \in Sockets : SocketKept(f)
BY CloseOnlyNet DEF SocketKept, TypeOK

\* MQTTAsync_retry does nothing, or writes a PINGREQ, or queues a DISCONNECT
LEMMA RetryWrites ==
  ASSUME TypeOK, Retry
  PROVE  /\ receiver' = [receiver EXCEPT !.pc = "handle"]
         /\ UNCHANGED <<connection, connect, disconnect, session, pendingWrite, inHand, app,
                        callbacks, crashed>>
         /\ \/ UNCHANGED <<commands, net>>
            \/ \E c \in Clients : /\ ControlWritten(c) /\ connected[c]
                                   /\ commands' = WithInternalDisconnect(commands, c)
BY KeepAliveWrite DEF Retry

LEMMA ControlWrittenKept ==
  ASSUME NEW c \in Clients, ControlWritten(c), TypeOK
  PROVE  \A f \in Sockets : SocketKept(f)
BY DEF ControlWritten, SocketKept, TypeOK, Socket

LEMMA CloseSessionKept ==
  ASSUME TypeOK, NEW c \in Clients, NEW q, CloseSession(c, q)
  PROVE  /\ commands' \subseteq q
         /\ \A d \in Clients : responses'[d] \subseteq responses[d] /\ outbound'[d] \subseteq outbound[d]
         /\ \A f \in Sockets : SocketKept(f)
<1>1. responses \in [Clients -> SUBSET Command] /\ outbound \in [Clients -> SUBSET Ids]
  BY DEF TypeOK
<1>2. \A f \in Sockets : SocketKept(f)
  BY CloseOnlyKept DEF CloseSession
<1>3. CASE CleanSession(c, q)
  BY <1>1, <1>2, <1>3 DEF CleanSession, WithoutClient
<1>4. CASE commands' = q /\ UNCHANGED session
  BY <1>2, <1>4 DEF session
<1>5. QED
  BY <1>3, <1>4 DEF CloseSession

LEMMA AttemptFailedKept ==
  ASSUME TypeOK, Known, NEW c \in Clients, AttemptFailed(c)
  PROVE  /\ \A x \in commands' : x \in commands \/ Harmless(x)
         /\ \A d \in Clients : responses'[d] \subseteq responses[d] /\ outbound'[d] \subseteq outbound[d]
         /\ \A f \in Sockets : SocketKept(f)
<1>1. CASE MoreToTry(connect[c].version)
  <2>1. \A x : x.client = c /\ x.type = "CONNECT" /\ x.id = connect[c].id => Harmless(x)
    BY DEF Known, AttemptKnown, Harmless
  <2>2. CloseOnly(c) /\ UNCHANGED session
        /\ commands' = AtHead(commands, c, "CONNECT", connect[c].id, connect[c].version)
    BY <1>1 DEF AttemptFailed
  <2>3. \A x \in commands' : x \in commands \/ Harmless(x)
    BY <2>1, <2>2, AtHeadKept
  <2>4. QED
    BY <2>2, <2>3, CloseOnlyKept DEF session
<1>2. CASE ~MoreToTry(connect[c].version)
  BY <1>2, CloseSessionKept DEF AttemptFailed
<1>3. QED
  BY <1>1, <1>2

LEMMA CheckDisconnectKept ==
  ASSUME TypeOK, NEW c \in Clients, NEW i, NEW q, CheckDisconnect(c, i, q)
  PROVE  /\ commands' \subseteq q
         /\ \A d \in Clients : responses'[d] \subseteq responses[d] /\ outbound'[d] \subseteq outbound[d]
         /\ \A f \in Sockets : SocketKept(f)
<1>1. CASE CloseSession(c, q)
  BY <1>1, CloseSessionKept
<1>2. CASE commands' = q /\ UNCHANGED <<net, session>>
  BY <1>2 DEF SocketKept, session
<1>3. QED
  BY <1>1, <1>2 DEF CheckDisconnect

LEMMA InternalDisconnectKept ==
  ASSUME NEW q, NEW c, NEW x \in WithInternalDisconnect(q, c)
  PROVE  x \in q \/ Harmless(x)
BY AtHeadKept DEF WithInternalDisconnect, Harmless

-----------------------------------------------------------------------------
(* Known: the application's calls *)

\* a call takes a number that no call had, so what was known stays known
LEMMA CallAccepted ==
  ASSUME TypeOK, Known, NEW i \in Ids, NEW c \in Clients, NEW t \in CallTypes, i = calls + 1,
         calls' = i, issued' = [issued EXCEPT ![i] = [client |-> c, type |-> t]]
  PROVE  /\ \A j \in Ids : j > calls' => issued'[j] = NotIssued
         /\ issued[i] = NotIssued /\ issued'[i] = [client |-> c, type |-> t]
         /\ \A j \in Ids : j # i => issued'[j] = issued[j]
         /\ \A j, d, s : IsCall(j, d, s) => j # i /\ IsCall(j, d, s)'
         /\ \A p : PacketKnown(p) => PacketKnown(p)'
<1>1. issued \in [Ids -> Issue \cup {NotIssued}] /\ calls \in Ids \cup {0}
  BY DEF TypeOK
<1>2. issued[i] = NotIssued /\ issued[i].type = "none"
  BY <1>1, BoundAssumption DEF Known, CallsKnown, NotIssued, Ids
<1>3. \A j \in Ids : j # i => issued'[j] = issued[j]
  BY <1>1
<1>4. \A j \in Ids : j > calls' => issued'[j] = NotIssued
  BY <1>1, <1>3, BoundAssumption DEF Known, CallsKnown, Ids
<1>5. \A j \in Ids : issued[j].type # "none" => j # i /\ issued'[j] = issued[j]
  BY <1>2, <1>3
<1>6. \A j, d : \A s \in CallTypes : IsCall(j, d, s) => j # i /\ IsCall(j, d, s)'
  BY <1>5 DEF IsCall, CallTypes, RequestTypes
<1>7. \A j, d, s : IsCall(j, d, s) => s \in CallTypes
  BY <1>1 DEF IsCall, Issue, NotIssued, CallTypes
<1>8. \A p : PacketKnown(p) => PacketKnown(p)'
  BY <1>5 DEF PacketKnown, RequestTypes
<1>9. QED
  BY <1>1, <1>2, <1>3, <1>4, <1>6, <1>7, <1>8

LEMMA CallKnown ==
  ASSUME TypeOK, Known, NEW i \in Ids, NEW c \in Clients, NEW t \in CallTypes, i = calls + 1,
         calls' = i, issued' = [issued EXCEPT ![i] = [client |-> c, type |-> t]],
         UNCHANGED <<inHand, responses, outbound, net, receiver>>
  PROVE  HandKnown' /\ ResponsesKnown' /\ OutboundKnown' /\ NetKnown' /\ PackKnown'
<1>1. /\ \A j, d, s : IsCall(j, d, s) => IsCall(j, d, s)'
      /\ \A p : PacketKnown(p) => PacketKnown(p)'
      /\ \A j \in Ids : j # i => issued'[j] = issued[j]
      /\ issued[i] = NotIssued
  BY CallAccepted
<1>2. HandKnown'
  BY <1>1 DEF Known, HandKnown
<1>3. ResponsesKnown'
  BY <1>1 DEF Known, ResponsesKnown
<1>4. OutboundKnown'
  BY <1>1 DEF Known, OutboundKnown
<1>5. NetKnown'
  BY <1>1 DEF Known, NetKnown
<1>6. PackKnown'
  BY <1>1 DEF Known, PackKnown, NotIssued
<1>7. QED
  BY <1>2, <1>3, <1>4, <1>5, <1>6

LEMMA ConnectKnown ==
  ASSUME TypeOK, Known, NEW c \in Clients, Connect(c)
  PROVE  Known'
<1>0. PICK i \in Ids : i = calls + 1
  BY BoundAssumption DEF Connect, TypeOK, Ids
<1> USE DEF connection, session, callbacks
<1>1. /\ "CONNECT" \in CallTypes
      /\ calls' = i /\ issued' = [issued EXCEPT ![i] = [client |-> c, type |-> "CONNECT"]]
  BY <1>0 DEF Connect, CallTypes
<1>2. /\ \A j \in Ids : j > calls' => issued'[j] = NotIssued
      /\ issued'[i] = [client |-> c, type |-> "CONNECT"]
      /\ \A j, d, s : IsCall(j, d, s) => IsCall(j, d, s)'
  BY <1>0, <1>1, CallAccepted
<1>3. UNCHANGED <<inHand, responses, outbound, net, receiver, pendingWrite, disconnect, pendingCall>>
  BY DEF Connect
<1>4. pendingCall = NoCall
  BY DEF Connect
<1>5. CallsKnown'
  BY <1>2, <1>3, <1>4 DEF CallsKnown
<1>6. IsCall(i, c, "CONNECT")'
  BY <1>1, <1>2 DEF IsCall
<1>7. QueueKnown'
  <2>1. commands' = AtHead(commands, c, "CONNECT", i, 0)
    BY <1>0 DEF Connect
  <2>2. \A x \in commands' : x \in commands \/ (x.client = c /\ x.type = "CONNECT" /\ x.id = i)
    BY <2>1, AtHeadKept
  <2>3. QED
    BY <1>2, <1>6, <2>2 DEF Known, QueueKnown
<1>8. AttemptKnown'
  <2>1. connect' = [connect EXCEPT ![c].id = i] /\ connect \in [Clients -> [id : Ids \cup {0}, version : Versions]]
    BY <1>0 DEF Connect, TypeOK
  <2>2. \A d \in Clients : connect'[d].id = IF d = c THEN i ELSE connect[d].id
    BY <2>1
  <2>3. QED
    BY <1>2, <1>3, <1>6, <2>2 DEF Known, AttemptKnown
<1>9. QED
  BY <1>0, <1>1, <1>3, <1>5, <1>7, <1>8, CallKnown DEF Known

LEMMA CheckConnectedKnown ==
  ASSUME TypeOK, Known, NEW c \in Clients, NEW t \in CallTypes, CheckConnected(c, t)
  PROVE  Known'
<1>0. PICK i \in Ids : i = calls + 1
  BY BoundAssumption DEF CheckConnected, TypeOK, Ids
<1> USE DEF connection, session, callbacks
<1>1. /\ t # "CONNECT"
      /\ calls' = i /\ issued' = [issued EXCEPT ![i] = [client |-> c, type |-> t]]
  BY <1>0, RequestsAssumption DEF CheckConnected, RequestTypes
<1>2. /\ \A j \in Ids : j > calls' => issued'[j] = NotIssued
      /\ issued'[i] = [client |-> c, type |-> t]
      /\ \A j, d, s : IsCall(j, d, s) => IsCall(j, d, s)'
  BY <1>0, <1>1, CallAccepted
<1>3. UNCHANGED <<inHand, responses, outbound, net, receiver, pendingWrite, disconnect, connect,
                  commands>>
  BY DEF CheckConnected
<1>4. pendingCall' = [client |-> c, type |-> t, id |-> i]
  BY <1>0 DEF CheckConnected
<1>5. CallsKnown'
  BY <1>1, <1>2, <1>4 DEF CallsKnown, IsCall
<1>6. QueueKnown'
  BY <1>2, <1>3 DEF Known, QueueKnown
<1>7. AttemptKnown'
  BY <1>2, <1>3 DEF Known, AttemptKnown
<1>8. QED
  BY <1>0, <1>1, <1>3, <1>5, <1>6, <1>7, CallKnown DEF Known

LEMMA AddCommandKnown ==
  ASSUME TypeOK, Known, AddCommand
  PROVE  Known'
<1> USE DEF connection, session, callbacks, app
<1>1. /\ UNCHANGED <<issued, calls, connect, disconnect, responses, outbound, pendingWrite, net,
                     inHand, receiver>>
      /\ pendingCall # NoCall /\ pendingCall' = NoCall
      /\ commands' = AtTail(commands, pendingCall.client, pendingCall.type, pendingCall.id)
  BY DEF AddCommand
<1>2. CallsKnown'
  BY <1>1 DEF Known, CallsKnown
<1>3. IsCall(pendingCall.id, pendingCall.client, pendingCall.type)
  BY <1>1 DEF Known, CallsKnown
<1>4. QueueKnown'
  BY <1>1, <1>3 DEF Known, QueueKnown, AtTail, IsCall
<1>5. \A f \in Sockets : SocketKept(f)
  BY <1>1 DEF SocketKept
<1>6. QED
  BY <1>1, <1>2, <1>4, <1>5, PartsKept, NetUnchanged DEF Known

LEMMA ApplicationKnown ==
  ASSUME TypeOK, Known, Application
  PROVE  Known'
BY ConnectKnown, CheckConnectedKnown, AddCommandKnown DEF Application

-----------------------------------------------------------------------------
(* Known: the send thread *)

LEMMA QuietKnown ==
  ASSUME TypeOK, Known,
         UNCHANGED <<issued, calls, pendingCall, connect, disconnect, pendingWrite, inHand>>,
         receiver'.pack \in {receiver.pack, NoAnswer},
         \A x \in commands' : x \in commands \/ Harmless(x),
         \A d \in Clients : responses'[d] \subseteq responses[d] /\ outbound'[d] \subseteq outbound[d],
         \A f \in Sockets : SocketKept(f)
  PROVE  Known'
<1>1. PackKnown'
  BY DEF Known, PackKnown, NoAnswer
<1>2. QED
  BY <1>1, SessionKept, PartsKept DEF Known

LEMMA OpenSocketKnown ==
  ASSUME TypeOK, NetKnown, UNCHANGED issued, NEW c, NEW f \in Sockets, NEW st, NEW wire, NEW u,
         OpenSocket(c, f, st, wire, u),
         u.type \notin RequestTypes \cup ControlTypes,
         \A p \in wire : p.type \notin RequestTypes \cup ControlTypes
  PROVE  NetKnown'
<1>1. \A p : PacketKnown(p)' <=> PacketKnown(p)
  BY DEF PacketKnown
<1>2. \A p : p.type \notin RequestTypes \cup ControlTypes => PacketKnown(p) /\ p.type # "PUBLISH0"
  BY DEF PacketKnown, RequestTypes
<1>3. \A g \in Sockets : net'[g] = IF g = f THEN [status |-> st, unsent |-> u, wire |-> wire] ELSE net[g]
  BY DEF OpenSocket, TypeOK
<1>4. QED
  BY <1>1, <1>2, <1>3 DEF NetKnown

LEMMA ConnectFailedKept ==
  ASSUME Known, NEW x \in commands, x.type = "CONNECT", NEW v, ConnectFailed(x, v)
  PROVE  UNCHANGED connect /\ \A y \in commands' : y \in commands \/ Harmless(y)
<1>1. \A y : y.client = x.client /\ y.type = "CONNECT" /\ y.id = x.id => Harmless(y)
  BY DEF Known, QueueKnown, Harmless
<1>2. QED
  BY <1>1, AtHeadKept DEF ConnectFailed

LEMMA ConnectStartedKnown ==
  ASSUME TypeOK, Known, NEW x \in commands, x.type = "CONNECT", NEW v, NEW s,
         ConnectStarted(x, v, s), UNCHANGED <<issued, disconnect, pendingWrite>>
  PROVE  AttemptKnown' /\ \A y \in commands' : y \in commands
<1>1. x.id # 0 => IsCall(x.id, x.client, "CONNECT")'
  BY DEF Known, QueueKnown, IsCall
<1>2. \A d \in Clients : connect'[d].id = IF d = x.client THEN x.id ELSE connect[d].id
  BY DEF ConnectStarted, TypeOK
<1>3. AttemptKnown'
  BY <1>1, <1>2 DEF Known, AttemptKnown, IsCall
<1>4. QED
  BY <1>3 DEF ConnectStarted

LEMMA ProcessConnectKnown ==
  ASSUME TypeOK, Known, NEW x \in commands, ProcessConnect(x)
  PROVE  Known'
<1> DEFINE c == x.client
           v == NextVersion(x.version)
           p == [type |-> "CONNECT", id |-> x.id]
<1> USE DEF session, app
<1>1. /\ UNCHANGED <<issued, calls, pendingCall, disconnect, pendingWrite, inHand, receiver,
                     responses, outbound>>
      /\ x.type = "CONNECT" /\ MQTTProtocol_connect(x, v)
  BY DEF ProcessConnect
<1>2. NetKnown'
  <2>1. CASE UNCHANGED net
    BY <1>1, <2>1, NetUnchanged DEF Known, SocketKept
  <2>2. ASSUME NEW f \in Sockets, NEW st, NEW wire \in {{}, {p}}, NEW u \in {p, NoPacket},
               OpenSocket(c, f, st, wire, u)
        PROVE  NetKnown'
    <3>1. /\ p.type \notin RequestTypes \cup ControlTypes
          /\ NoPacket.type \notin RequestTypes \cup ControlTypes
      BY DEF RequestTypes, ControlTypes, NoPacket
    <3>2. QED
      BY <1>1, <2>2, <3>1, OpenSocketKnown DEF Known
  <2>3. QED
    BY <1>1, <2>1, <2>2 DEF MQTTProtocol_connect
<1>3. AttemptKnown' /\ \A y \in commands' : y \in commands \/ Harmless(y)
  <2>1. CASE ConnectFailed(x, v)
    BY <1>1, <2>1, ConnectFailedKept, PartsKept DEF Known
  <2>2. CASE \E s : ConnectStarted(x, v, s)
    BY <1>1, <2>2, ConnectStartedKnown
  <2>3. QED
    BY <1>1, <2>1, <2>2 DEF MQTTProtocol_connect
<1>4. QED
  BY <1>1, <1>2, <1>3, PartsKept DEF Known

LEMMA IgnoreConnectKnown ==
  ASSUME TypeOK, Known, NEW x \in commands, IgnoreConnect(x)
  PROVE  Known'
<1> USE DEF session, app, connection
<1>1. /\ UNCHANGED <<issued, calls, pendingCall, disconnect, pendingWrite, inHand, receiver,
                     responses, outbound, net>>
      /\ x.type = "CONNECT" /\ commands' = commands \ {x}
      /\ connect' = [connect EXCEPT ![x.client] = [id |-> x.id, version |-> x.version]]
  BY DEF IgnoreConnect
<1>2. x.id # 0 => IsCall(x.id, x.client, "CONNECT")'
  BY <1>1 DEF Known, QueueKnown, IsCall
<1>3. \A d \in Clients : connect'[d].id = IF d = x.client THEN x.id ELSE connect[d].id
  BY <1>1 DEF TypeOK
<1>4. AttemptKnown'
  BY <1>1, <1>2, <1>3 DEF Known, AttemptKnown, IsCall
<1>5. \A f \in Sockets : SocketKept(f)
  BY <1>1 DEF SocketKept
<1>6. QED
  BY <1>1, <1>4, <1>5, SessionKept, PartsKept DEF Known

LEMMA ProcessDisconnectKnown ==
  ASSUME TypeOK, Known, NEW x \in commands, ProcessDisconnect(x)
  PROVE  Known'
<1> DEFINE c == x.client
<1> USE DEF session, app, connection
<1>1. /\ UNCHANGED <<issued, calls, pendingCall, connect, pendingWrite, inHand, receiver>>
      /\ x.type = "DISCONNECT" /\ disconnect' = [disconnect EXCEPT ![c] = x.id]
  BY DEF ProcessDisconnect
<1>2. /\ \A y \in commands' : y \in commands
      /\ \A d \in Clients : responses'[d] \subseteq responses[d] /\ outbound'[d] \subseteq outbound[d]
      /\ \A f \in Sockets : SocketKept(f)
  <2>1. CASE CheckDisconnect(c, x.id, commands \ {x})
    <3>1. c \in Clients
      BY DEF TypeOK, Command
    <3>2. QED
      BY <2>1, <3>1, CheckDisconnectKept
  <2>2. CASE commands' = commands \ {x} /\ UNCHANGED <<session, net>>
    BY <2>2 DEF SocketKept
  <2>3. QED
    BY <2>1, <2>2 DEF ProcessDisconnect
<1>3. x.id # 0 => IsCall(x.id, c, "DISCONNECT")'
  BY <1>1 DEF Known, QueueKnown, IsCall
<1>4. \A d \in Clients : disconnect'[d] = IF d = c THEN x.id ELSE disconnect[d]
  BY <1>1 DEF TypeOK
<1>5. AttemptKnown'
  BY <1>1, <1>3, <1>4 DEF Known, AttemptKnown, IsCall
<1>6. QED
  BY <1>1, <1>2, <1>5, SessionKept, PartsKept DEF Known

\* a QoS 0 publish is not answered, so it is not on the wire
LEMMA WrittenKnown ==
  ASSUME NEW s \in Socket, NEW p, NEW w,
         PacketKnown(s.unsent), \A m \in s.wire : PacketKnown(m) /\ m.type # "PUBLISH0",
         PacketKnown(p)
  PROVE  /\ PacketKnown(Written(s, p, w).unsent)
         /\ \A m \in Written(s, p, w).wire : PacketKnown(m) /\ m.type # "PUBLISH0"
<1>1. \A m \in Answerable(p) : m = p /\ m.type # "PUBLISH0"
  BY DEF Answerable
<1>2. Received(s, p).unsent = s.unsent
  BY DEF Received, Socket
<1>3. Received(s, p).wire \subseteq s.wire \cup Answerable(p)
  BY DEF Received, Socket
<1>4. CASE w = "complete"
  BY <1>1, <1>2, <1>3, <1>4 DEF Written
<1>5. CASE w # "complete"
  BY <1>5 DEF Written, Socket
<1>6. QED
  BY <1>4, <1>5

LEMMA NetWritten ==
  ASSUME TypeOK, NetKnown, UNCHANGED issued, NEW g, NEW p, NEW w, PacketKnown(p),
         net' = [net EXCEPT ![g] = Written(@, p, w)]
  PROVE  NetKnown'
<1>1. net \in [Sockets -> Socket]
  BY DEF TypeOK
<1>2. \A m : PacketKnown(m)' <=> PacketKnown(m)
  BY DEF PacketKnown
<1>3. \A f \in Sockets : /\ PacketKnown(net'[f].unsent)
                         /\ \A m \in net'[f].wire : PacketKnown(m) /\ m.type # "PUBLISH0"
  BY <1>1, WrittenKnown DEF NetKnown
<1>4. QED
  BY <1>2, <1>3 DEF NetKnown

LEMMA ProcessRequestKnown ==
  ASSUME TypeOK, Known, NEW x \in commands, ProcessRequest(x)
  PROVE  Known'
<1> DEFINE c == x.client
           p == [type |-> x.type, id |-> x.id]
<1> USE DEF session, app, connection
<1>1. /\ UNCHANGED <<issued, calls, pendingCall, connect, disconnect, pendingWrite, inHand, receiver>>
      /\ x.type \in {"SUBSCRIBE", "UNSUBSCRIBE", "PUBLISH"}
  BY DEF ProcessRequest
<1>2. /\ c \in Clients /\ x.id \in Ids /\ x.type \in RequestTypes /\ IsCall(x.id, c, x.type)
      /\ x.client = c
  BY <1>1 DEF TypeOK, Command, Known, QueueKnown, RequestTypes, IsCall, Ids
<1>3. IsCall(x.id, c, x.type)'
  BY <1>1, <1>2 DEF IsCall
<1>4. NetKnown'
  <2>1. PacketKnown(p)
    BY <1>1, <1>2 DEF PacketKnown, IsCall, ControlTypes
  <2>2. \E w : net' = [net EXCEPT ![socket[c]] = Written(@, p, w)]
    BY DEF ProcessRequest
  <2>3. QED
    BY <1>1, <2>1, <2>2, NetWritten DEF Known
<1>5. \A y \in commands' : y \in commands \/ Harmless(y)
  <2>1. commands' = commands \ {x} \/ commands' = WithInternalDisconnect(commands \ {x}, c)
    BY DEF ProcessRequest
  <2>2. QED
    BY <2>1, InternalDisconnectKept
<1>6. ResponsesKnown'
  <2>1. UNCHANGED responses \/ responses' = [responses EXCEPT ![c] = @ \cup {x}]
    BY DEF ProcessRequest
  <2>2. \A d \in Clients : \A r \in responses'[d] : r \in responses[d] \/ (r = x /\ d = c)
    BY <2>1 DEF TypeOK
  <2>3. QED
    BY <1>1, <1>2, <1>3, <2>2 DEF Known, ResponsesKnown, IsCall
<1>7. OutboundKnown'
  <2>1. UNCHANGED outbound \/ (x.type = "PUBLISH" /\ outbound' = [outbound EXCEPT ![c] = @ \cup {x.id}])
    BY DEF ProcessRequest
  <2>2. \A d \in Clients : \A i \in outbound'[d] :
          i \in outbound[d] \/ (i = x.id /\ d = c /\ x.type = "PUBLISH")
    BY <2>1 DEF TypeOK
  <2>3. QED
    BY <1>1, <1>3, <2>2 DEF Known, OutboundKnown, IsCall
<1>8. QED
  BY <1>1, <1>4, <1>5, <1>6, <1>7, PartsKept DEF Known

LEMMA ProcessPublish0Known ==
  ASSUME TypeOK, Known, NEW x \in commands, ProcessPublish0(x)
  PROVE  Known'
<1> DEFINE c == x.client
           p == [type |-> x.type, id |-> x.id]
<1> USE DEF session, app, connection
<1>1. /\ UNCHANGED <<issued, calls, pendingCall, connect, disconnect, responses, outbound, receiver>>
      /\ x.type = "PUBLISH0" /\ commands' = commands \ {x}
  BY DEF ProcessPublish0
<1>2. c \in Clients /\ x.id \in Ids /\ IsCall(x.id, c, "PUBLISH0")
  BY <1>1 DEF TypeOK, Command, Known, QueueKnown, RequestTypes, IsCall, Ids
<1>3. IsCall(x.id, c, "PUBLISH0")'
  BY <1>1, <1>2 DEF IsCall
<1>4. NetKnown'
  <2>1. PacketKnown(p)
    BY <1>1, <1>2 DEF PacketKnown, IsCall, ControlTypes
  <2>2. \E w : net' = [net EXCEPT ![socket[c]] = Written(@, p, w)]
    BY DEF ProcessPublish0
  <2>3. QED
    BY <1>1, <2>1, <2>2, NetWritten DEF Known
<1>5. HandKnown'
  <2>1. inHand' = inHand \/ inHand' = [phase |-> "written", command |-> x]
    BY DEF ProcessPublish0
  <2>2. QED
    BY <1>1, <1>3, <2>1, PartsKept DEF Known, HandKnown
<1>6. AttemptKnown'
  <2>1. UNCHANGED pendingWrite \/ pendingWrite' = [pendingWrite EXCEPT ![c] = x.id]
    BY DEF ProcessPublish0
  <2>2. \A d \in Clients : pendingWrite'[d] = pendingWrite[d] \/ (d = c /\ pendingWrite'[d] = x.id)
    BY <2>1 DEF TypeOK
  <2>3. QED
    BY <1>1, <1>3, <2>2 DEF Known, AttemptKnown, IsCall
<1>7. QED
  BY <1>1, <1>4, <1>5, <1>6, PartsKept DEF Known

LEMMA StoreKnown ==
  ASSUME TypeOK, Known, FlagPendingWrite \/ StoreResponse
  PROVE  Known'
<1> DEFINE x == inHand.command
<1> USE DEF session, app, connection
<1>1. /\ UNCHANGED <<issued, calls, pendingCall, commands, connect, disconnect, outbound, net, receiver>>
      /\ inHand # NoCommand
  BY DEF FlagPendingWrite, StoreResponse, NoCommand
<1>2. x \in Command /\ x.type = "PUBLISH0" /\ IsCall(x.id, x.client, "PUBLISH0")
  BY <1>1 DEF TypeOK, Known, HandKnown
<1>3. \A f \in Sockets : SocketKept(f)
  BY <1>1 DEF SocketKept
<1>4. CASE FlagPendingWrite
  <2>1. UNCHANGED responses /\ inHand' = [inHand EXCEPT !.phase = "flagged"]
        /\ pendingWrite' = [pendingWrite EXCEPT ![x.client] = x.id]
    BY <1>4 DEF FlagPendingWrite
  <2>2. inHand'.command = x
    BY <1>1, <2>1 DEF TypeOK
  <2>3. HandKnown'
    BY <1>1, <1>2, <2>2 DEF HandKnown, IsCall
  <2>4. \A d \in Clients : pendingWrite'[d] = IF d = x.client THEN x.id ELSE pendingWrite[d]
    BY <2>1 DEF TypeOK
  <2>5. AttemptKnown'
    BY <1>1, <1>2, <2>4 DEF Known, AttemptKnown, IsCall
  <2>6. QED
    BY <1>1, <1>3, <2>1, <2>3, <2>5, SessionKept, PartsKept DEF Known
<1>5. CASE StoreResponse
  <2>1. UNCHANGED pendingWrite /\ inHand' = NoCommand
        /\ responses' = [responses EXCEPT ![x.client] = @ \cup {x}]
    BY <1>5 DEF StoreResponse
  <2>2. HandKnown'
    BY <2>1 DEF HandKnown, NoCommand
  <2>3. \A d \in Clients : \A r \in responses'[d] : r \in responses[d] \/ (r = x /\ d = x.client)
    BY <2>1 DEF TypeOK
  <2>4. ResponsesKnown'
    BY <1>1, <1>2, <2>3 DEF Known, ResponsesKnown, IsCall, RequestTypes
  <2>5. QED
    BY <1>1, <1>3, <2>1, <2>2, <2>4, NetUnchanged, PartsKept DEF Known
<1>6. QED
  BY <1>4, <1>5

LEMMA ProcessCommandKnown ==
  ASSUME TypeOK, Known, ProcessCommand
  PROVE  Known'
BY IgnoreConnectKnown, ProcessConnectKnown, ProcessDisconnectKnown, ProcessRequestKnown,
   ProcessPublish0Known, StoreKnown DEF ProcessCommand

-----------------------------------------------------------------------------
(* Known: the receive thread and the network *)

LEMMA CheckTimeoutsKnown ==
  ASSUME TypeOK, Known, NEW c \in Clients, CheckTimeouts(c)
  PROVE  Known'
<1>1. UNCHANGED <<issued, calls, pendingCall, connect, disconnect, pendingWrite, inHand, receiver>>
  BY DEF CheckTimeouts, app
<1>2. AttemptFailed(c) \/ CheckDisconnect(c, disconnect[c], commands)
  BY DEF CheckTimeouts
<1>3. CASE AttemptFailed(c)
  BY <1>1, <1>3, AttemptFailedKept, QuietKnown
<1>4. CASE CheckDisconnect(c, disconnect[c], commands)
  BY <1>1, <1>4, CheckDisconnectKept, QuietKnown
<1>5. QED
  BY <1>2, <1>3, <1>4

LEMMA ContinueWriteKnown ==
  ASSUME TypeOK, Known, NEW f \in Sockets, ContinueWrite(f)
  PROVE  Known'
<1> USE DEF session, app, connection
<1>1. UNCHANGED <<issued, calls, pendingCall, commands, connect, disconnect, outbound, inHand, receiver>>
  BY DEF ContinueWrite
<1>2. NetKnown'
  <2>1. net \in [Sockets -> Socket]
    BY DEF TypeOK
  <2>2. net' = [net EXCEPT ![f] = [Received(net[f], net[f].unsent) EXCEPT !.unsent = NoPacket]]
    BY DEF ContinueWrite
  <2>3. \A m \in Answerable(net[f].unsent) : m = net[f].unsent /\ m.type # "PUBLISH0"
    BY DEF Answerable
  <2>4. net'[f].unsent = NoPacket /\ net'[f].wire \subseteq net[f].wire \cup Answerable(net[f].unsent)
    BY <2>1, <2>2 DEF Received, Socket
  <2>5. \A g \in Sockets : g # f => net'[g] = net[g]
    BY <2>1, <2>2
  <2>6. \A p : PacketKnown(p)' <=> PacketKnown(p)
    BY <1>1 DEF PacketKnown
  <2>7. QED
    BY <2>3, <2>4, <2>5, <2>6, NoPacketKnown DEF Known, NetKnown
<1>3. \A d \in Clients : /\ pendingWrite'[d] \in {pendingWrite[d], 0}
                         /\ responses'[d] \subseteq responses[d]
  <2>1. ASSUME NEW c \in Clients, WriteComplete(c)
        PROVE  \A d \in Clients : /\ pendingWrite'[d] \in {pendingWrite[d], 0}
                                  /\ responses'[d] \subseteq responses[d]
    BY <2>1 DEF WriteComplete, TypeOK
  <2>2. QED
    BY <2>1 DEF ContinueWrite
<1>4. AttemptKnown'
  BY <1>1, <1>3 DEF Known, AttemptKnown, IsCall
<1>5. QED
  BY <1>1, <1>2, <1>3, <1>4, PartsKept DEF Known

LEMMA AcknowledgeKept ==
  ASSUME TypeOK, NEW c \in Clients, NEW i, Acknowledge(c, i)
  PROVE  \A d \in Clients : responses'[d] \subseteq responses[d]
BY DEF Acknowledge, TypeOK

LEMMA CycleReadKnown ==
  ASSUME TypeOK, Known, NEW c \in Clients, CycleRead(c)
  PROVE  Known'
<1> DEFINE f == receiver.sock
<1> USE DEF session, app, connection
<1>1. UNCHANGED <<issued, calls, pendingCall, commands, connect, disconnect, pendingWrite, inHand>>
  BY DEF CycleRead
<1>2. f \in Sockets /\ receiver \in [pc : {"select", "cycle", "retry", "handle"}, sock : Sockets \cup {0},
                                     error : BOOLEAN, pack : Answer]
  BY DEF CycleRead, TypeOK
<1>3. PICK p \in net[f].wire :
        /\ net' = [net EXCEPT ![f].wire = @ \ {p}]
        /\ IF p.type = "PUBLISH"
           THEN /\ outbound' = [outbound EXCEPT ![c] = @ \ {p.id}]
                /\ Acknowledge(c, p.id)
                /\ receiver' = [receiver EXCEPT !.pc = "retry", !.error = FALSE]
           ELSE /\ \E ok \in BOOLEAN :
                     receiver' = [receiver EXCEPT !.pc = "retry", !.error = FALSE,
                       !.pack = [type |-> IF p.type = "CONNECT" THEN "CONNACK" ELSE "ACK",
                                 id |-> p.id, ok |-> ok]]
                /\ UNCHANGED <<outbound, responses>>
  BY DEF CycleRead, callbacks
<1>4. \A g \in Sockets : SocketKept(g)
  <2>1. net \in [Sockets -> Socket] /\ net' = [net EXCEPT ![f].wire = @ \ {p}]
    BY <1>3 DEF TypeOK
  <2>2. \A g \in Sockets : net'[g].unsent = net[g].unsent /\ net'[g].wire \subseteq net[g].wire
    BY <2>1 DEF Socket
  <2>3. QED
    BY <2>2 DEF SocketKept
<1>5. \A d \in Clients : responses'[d] \subseteq responses[d] /\ outbound'[d] \subseteq outbound[d]
  <2>1. Acknowledge(c, p.id) \/ UNCHANGED responses
    BY <1>3
  <2>2. outbound' = [outbound EXCEPT ![c] = @ \ {p.id}] \/ UNCHANGED outbound
    BY <1>3
  <2>3. \A d \in Clients : outbound'[d] \subseteq outbound[d]
    BY <2>2 DEF TypeOK
  <2>4. QED
    BY <2>1, <2>3, AcknowledgeKept
<1>6. PackKnown'
  <2>1. CASE p.type = "PUBLISH"
    <3>1. receiver'.pack = receiver.pack
      BY <1>2, <1>3, <2>1
    <3>2. QED
      BY <1>1, <3>1, PartsKept DEF Known
  <2>2. CASE p.type # "PUBLISH"
    <3>1. PICK ok \in BOOLEAN : receiver'.pack =
            [type |-> IF p.type = "CONNECT" THEN "CONNACK" ELSE "ACK", id |-> p.id, ok |-> ok]
      BY <1>2, <1>3, <2>2
    <3>2. p \in Packet /\ PacketKnown(p) /\ p.type # "PUBLISH0"
      BY <1>2, <1>3 DEF TypeOK, Socket, Known, NetKnown
    <3>3. QED
      BY <1>1, <2>2, <3>1, <3>2 DEF PackKnown, PacketKnown, Packet, RequestTypes
  <2>3. QED
    BY <2>1, <2>2
<1>7. QED
  BY <1>1, <1>4, <1>5, <1>6, SessionKept, PartsKept DEF Known

LEMMA CycleKnown ==
  ASSUME TypeOK, Known, Cycle
  PROVE  Known'
<1> USE DEF session, app, connection
<1>0. receiver \in [pc : {"select", "cycle", "retry", "handle"}, sock : Sockets \cup {0},
                    error : BOOLEAN, pack : Answer]
  BY DEF TypeOK
<1>1. CASE CycleNobody \/ \E c \in Clients : CycleNothing(c)
  <2>1. /\ UNCHANGED <<issued, calls, pendingCall, connect, disconnect, pendingWrite, inHand,
                       commands, responses, outbound, net>>
        /\ receiver'.pack = receiver.pack
    BY <1>0, <1>1 DEF CycleNobody, CycleNothing
  <2>2. QED
    BY <2>1, QuietKnown DEF SocketKept
<1>2. ASSUME NEW c \in Clients, CycleReadError(c)
      PROVE  Known'
  <2>1. /\ UNCHANGED <<issued, calls, pendingCall, connect, disconnect, pendingWrite, inHand>>
        /\ receiver'.pack = receiver.pack
    BY <1>0, <1>2 DEF CycleReadError
  <2>2. AttemptFailed(c) \/ UNCHANGED <<commands, session, net>>
    BY <1>2 DEF CycleReadError
  <2>3. CASE AttemptFailed(c)
    BY <2>1, <2>3, AttemptFailedKept, QuietKnown
  <2>4. CASE UNCHANGED <<commands, session, net>>
    BY <2>1, <2>4, QuietKnown DEF SocketKept
  <2>5. QED
    BY <2>2, <2>3, <2>4
<1>3. ASSUME NEW c \in Clients, CycleConnecting(c)
      PROVE  Known'
  <2> DEFINE p == [type |-> "CONNECT", id |-> connect[c].id]
  <2>1. /\ UNCHANGED <<issued, calls, pendingCall, connect, disconnect, pendingWrite, inHand>>
        /\ receiver'.pack = receiver.pack
    BY <1>0, <1>3 DEF CycleConnecting
  <2>2. CASE AttemptFailed(c)
    BY <2>1, <2>2, AttemptFailedKept, QuietKnown
  <2>3. CASE /\ UNCHANGED <<commands, session>>
             /\ \E w : net' = [net EXCEPT ![receiver.sock] = Written(@, p, w)]
    <3>1. PacketKnown(p)
      BY DEF PacketKnown, RequestTypes, ControlTypes
    <3>2. NetKnown'
      BY <2>1, <2>3, <3>1, NetWritten DEF Known
    <3>3. QED
      BY <2>1, <2>3, <3>2, PartsKept DEF Known
  <2>4. QED
    BY <1>3, <2>2, <2>3 DEF CycleConnecting
<1>4. ASSUME NEW c \in Clients, CycleIncoming(c)
      PROVE  Known'
  <2>1. /\ UNCHANGED <<issued, calls, pendingCall, connect, disconnect, pendingWrite, inHand,
                       commands, responses, outbound>>
        /\ receiver'.pack = receiver.pack
    BY <1>0, <1>4, IncomingWrite
  <2>2. QED
    BY <1>4, <2>1, IncomingWrite, ControlWrittenKept, QuietKnown
<1>5. QED
  BY <1>1, <1>2, <1>3, <1>4, CycleReadKnown DEF Cycle

LEMMA ResentKnown ==
  ASSUME TypeOK, Known, NEW c \in Clients, NEW f \in Sockets, NEW m \in outbound[c], NEW w,
         net' = [net EXCEPT ![f] = Resent(@, outbound[c], m, w)], UNCHANGED issued
  PROVE  NetKnown'
<1> DEFINE earlier == {[type |-> "PUBLISH", id |-> i] : i \in {j \in outbound[c] : j < m}}
           all == [net[f] EXCEPT !.wire = @ \cup earlier]
           s == IF net[f].status = "up" THEN all ELSE net[f]
           p == [type |-> "PUBLISH", id |-> m]
<1>1. net \in [Sockets -> Socket] /\ outbound[c] \subseteq Ids
  BY DEF TypeOK
<1>2. ASSUME NEW i \in outbound[c]
      PROVE  PacketKnown([type |-> "PUBLISH", id |-> i])
  <2>1. i \in Ids /\ issued[i] = [client |-> c, type |-> "PUBLISH"]
    BY DEF Known, OutboundKnown, IsCall
  <2>2. issued[i].type = "PUBLISH"
    BY <2>1
  <2>3. QED
    BY <2>1, <2>2 DEF PacketKnown, ControlTypes
<1>3. \A q \in earlier : PacketKnown(q) /\ q.type # "PUBLISH0" /\ q \in Packet
  BY <1>1, <1>2 DEF Packet, RequestTypes
<1>4. s \in Socket
  <2>1. all \in Socket
    BY <1>1, <1>3 DEF Socket
  <2>2. QED
    BY <1>1, <2>1
<1>5. PacketKnown(s.unsent) /\ \A q \in s.wire : PacketKnown(q) /\ q.type # "PUBLISH0"
  <2>1. s.unsent = net[f].unsent /\ s.wire \subseteq net[f].wire \cup earlier
    BY <1>1 DEF Socket
  <2>2. QED
    BY <1>3, <2>1 DEF Known, NetKnown
<1>6. net'[f] = Written(s, p, w)
  BY <1>1 DEF Resent
<1>7. /\ PacketKnown(net'[f].unsent)
      /\ \A q \in net'[f].wire : PacketKnown(q) /\ q.type # "PUBLISH0"
  BY <1>2, <1>4, <1>5, <1>6, WrittenKnown
<1>8. \A g \in Sockets : g # f => net'[g] = net[g]
  BY <1>1
<1>9. \A q : PacketKnown(q)' <=> PacketKnown(q)
  BY DEF PacketKnown
<1>10. QED
  BY <1>7, <1>8, <1>9 DEF Known, NetKnown

LEMMA HandleKnown ==
  ASSUME TypeOK, Known, Handle
  PROVE  Known'
<1> USE DEF session, app, connection
<1>1. CASE HandleNobody
  <2>1. /\ UNCHANGED <<issued, calls, pendingCall, connect, disconnect, pendingWrite, inHand,
                       commands, responses, outbound, net>>
        /\ receiver'.pack = NoAnswer
    BY <1>1 DEF HandleNobody, Done
  <2>2. QED
    BY <2>1, QuietKnown DEF SocketKept
<1>2. ASSUME NEW c \in Clients, HandleError(c)
      PROVE  Known'
  <2>1. /\ UNCHANGED <<issued, calls, pendingCall, connect, disconnect, pendingWrite, inHand,
                       responses, outbound>>
        /\ receiver'.pack = NoAnswer
    BY <1>2 DEF HandleError, Done
  <2>2. CASE commands' = WithInternalDisconnect(commands, c) /\ UNCHANGED net
    BY <2>1, <2>2, InternalDisconnectKept, QuietKnown DEF SocketKept
  <2>3. CASE CloseOnly(c) /\ UNCHANGED commands
    BY <2>1, <2>3, CloseOnlyKept, QuietKnown
  <2>4. QED
    BY <1>2, <2>2, <2>3 DEF HandleError
<1>3. ASSUME NEW c \in Clients, HandleRefused(c)
      PROVE  Known'
  <2>1. /\ UNCHANGED <<issued, calls, pendingCall, connect, disconnect, pendingWrite, inHand>>
        /\ receiver'.pack = NoAnswer /\ AttemptFailed(c)
    BY <1>3 DEF HandleRefused, Done
  <2>2. QED
    BY <2>1, AttemptFailedKept, QuietKnown
<1>4. ASSUME NEW c \in Clients, HandleAck(c)
      PROVE  Known'
  <2>1. /\ UNCHANGED <<issued, calls, pendingCall, connect, disconnect, pendingWrite, inHand,
                       commands, outbound, net>>
        /\ receiver'.pack = NoAnswer /\ Acknowledge(c, receiver.pack.id)
    BY <1>4 DEF HandleAck, Done
  <2>2. QED
    BY <2>1, AcknowledgeKept, QuietKnown DEF SocketKept
<1>5. ASSUME NEW c \in Clients, HandleConnected(c)
      PROVE  Known'
  <2>1. /\ UNCHANGED <<issued, calls, pendingCall, connect, disconnect, pendingWrite, inHand>>
        /\ receiver'.pack = NoAnswer /\ socket[c] \in Sockets
    BY <1>5 DEF HandleConnected, Done, TypeOK
  <2>2. CASE UNCHANGED net /\ CleanSession(c, commands)
    <3>1. \A x \in commands' : x \in commands
      BY <2>2 DEF CleanSession, WithoutClient
    <3>2. \A d \in Clients : responses'[d] \subseteq responses[d] /\ outbound'[d] \subseteq outbound[d]
      BY <2>2 DEF CleanSession, TypeOK
    <3>3. QED
      BY <2>1, <2>2, <3>1, <3>2, QuietKnown DEF SocketKept
  <2>3. CASE UNCHANGED <<net, commands, session>>
    BY <2>1, <2>3, QuietKnown DEF SocketKept
  <2>4. ASSUME NEW m \in outbound[c], NEW w, UNCHANGED session,
               net' = [net EXCEPT ![socket[c]] = Resent(@, outbound[c], m, w)],
               commands' = IF w = "error" THEN AtHead(commands, c, "DISCONNECT", 0, 0) ELSE commands
        PROVE  Known'
    <3>1. NetKnown'
      BY <2>1, <2>4, ResentKnown
    <3>2. \A x \in commands' : x \in commands \/ Harmless(x)
      BY <2>4, AtHeadKept DEF Harmless
    <3>3. PackKnown'
      BY <2>1 DEF PackKnown, NoAnswer
    <3>4. QED
      BY <2>1, <2>4, <3>1, <3>2, <3>3, PartsKept DEF Known
  <2>5. QED
    BY <1>5, <2>2, <2>3, <2>4 DEF HandleConnected
<1>6. QED
  BY <1>1, <1>2, <1>3, <1>4, <1>5 DEF Handle

LEMMA OthersKnown ==
  ASSUME TypeOK, Known
  PROVE  /\ \A f : Select(f) => Known'
         /\ Retry => Known'
         /\ Network => Known'
         /\ UNCHANGED vars => Known'
<1> USE DEF session, app, connection
<1>0. receiver \in [pc : {"select", "cycle", "retry", "handle"}, sock : Sockets \cup {0},
                    error : BOOLEAN, pack : Answer]
  BY DEF TypeOK
<1>1. ASSUME NEW f, Select(f)
      PROVE  Known'
  <2>1. /\ UNCHANGED <<issued, calls, pendingCall, connect, disconnect, pendingWrite, inHand,
                       commands, responses, outbound, net>>
        /\ receiver'.pack = NoAnswer
    BY <1>1 DEF Select
  <2>2. QED
    BY <2>1, QuietKnown DEF SocketKept
<1>2. ASSUME Retry
      PROVE  Known'
  <2>1. /\ UNCHANGED <<issued, calls, pendingCall, connect, disconnect, pendingWrite, inHand,
                       responses, outbound>>
        /\ receiver'.pack = receiver.pack
    BY <1>0, <1>2, RetryWrites
  <2>2. \A x \in commands' : x \in commands \/ Harmless(x)
    BY <1>2, RetryWrites, InternalDisconnectKept
  <2>3. \A f \in Sockets : SocketKept(f)
    BY <1>2, RetryWrites, ControlWrittenKept DEF SocketKept
  <2>4. QED
    BY <2>1, <2>2, <2>3, QuietKnown
<1>3. ASSUME NEW f \in Sockets, NEW old, NEW new, SetStatus(f, old, new)
      PROVE  Known'
  <2>1. UNCHANGED <<issued, calls, pendingCall, connect, disconnect, pendingWrite, inHand,
                    commands, responses, outbound, receiver>>
    BY <1>3 DEF SetStatus
  <2>2. \A g \in Sockets : SocketKept(g)
    BY <1>3 DEF SetStatus, SocketKept, TypeOK, Socket
  <2>3. QED
    BY <2>1, <2>2, QuietKnown
<1>4. UNCHANGED vars => Known'
  BY QuietKnown DEF vars, SocketKept
<1>5. QED
  BY <1>1, <1>2, <1>3, <1>4 DEF Network, TcpUp, TcpFail, PeerClose

LEMMA KnownNext ==
  ASSUME TypeOK, Known, [Next]_vars
  PROVE  Known'
BY ApplicationKnown, ProcessCommandKnown, CheckTimeoutsKnown, ContinueWriteKnown, CycleKnown,
   HandleKnown, OthersKnown DEF Next, ReceiveThread

LEMMA KnownCorrect == Spec => []Known
<1>1. Init => Known
  BY DEF Init, Known, CallsKnown, QueueKnown, HandKnown, ResponsesKnown, OutboundKnown,
         AttemptKnown, NetKnown, PackKnown, NoSocket, NoPacket, NoAnswer, PacketKnown, RequestTypes
<1>2. TypeOK /\ Known /\ [Next]_vars => Known'
  BY KnownNext
<1>3. QED
  BY <1>1, <1>2, TypeCorrect, PTL DEF Spec

-----------------------------------------------------------------------------
(* InOrder: a command leaves the queue when it is the first of its client, *)
(* or with all the others of its client.                                   *)

LeavesInOrder ==
  \A y \in commands \ commands' :
    FirstOfClient(y) \/ \A x \in commands' : x.client # y.client

LEMMA AtHeadKeeps ==
  ASSUME NEW q, NEW c, NEW t, NEW i, NEW v
  PROVE  q \subseteq AtHead(q, c, t, i, v)
BY DEF AtHead

LEMMA InternalDisconnectKeeps ==
  ASSUME NEW q, NEW c
  PROVE  q \subseteq WithInternalDisconnect(q, c)
BY DEF AtHead, WithInternalDisconnect

LEMMA CloseSessionOrder ==
  ASSUME NEW c, NEW q, CloseSession(c, q), NEW y \in q \ commands'
  PROVE  \A x \in commands' : x.client # y.client
BY DEF CloseSession, CleanSession, WithoutClient

LEMMA AttemptFailedOrder ==
  ASSUME NEW c, AttemptFailed(c)
  PROVE  LeavesInOrder
BY AtHeadKeeps, CloseSessionOrder DEF AttemptFailed, LeavesInOrder

LEMMA SelectedOrder ==
  ASSUME NEW x, Selected(x), commands \ {x} \subseteq commands'
  PROVE  LeavesInOrder
BY DEF Selected, LeavesInOrder

LEMMA ProcessCommandOrder ==
  ASSUME ProcessCommand
  PROVE  LeavesInOrder
<1> USE DEF session, app, connection
<1>1. \A x \in commands : IgnoreConnect(x) => LeavesInOrder
  BY SelectedOrder DEF IgnoreConnect
<1>2. ASSUME NEW x \in commands, ProcessConnect(x)
      PROVE  LeavesInOrder
  <2>1. \A v : ConnectFailed(x, v) => commands \ {x} \subseteq commands'
    BY AtHeadKeeps DEF ConnectFailed
  <2>2. \A v, s : ConnectStarted(x, v, s) => commands \ {x} \subseteq commands'
    BY DEF ConnectStarted
  <2>3. commands \ {x} \subseteq commands'
    BY <1>2, <2>1, <2>2 DEF ProcessConnect, MQTTProtocol_connect
  <2>4. QED
    BY <1>2, <2>3, SelectedOrder DEF ProcessConnect
<1>3. ASSUME NEW x \in commands, ProcessDisconnect(x)
      PROVE  LeavesInOrder
  <2>1. FirstOfClient(x)
    BY <1>3 DEF ProcessDisconnect, Selected
  <2>2. \/ CloseSession(x.client, commands \ {x})
        \/ commands' = commands \ {x}
    BY <1>3 DEF ProcessDisconnect, CheckDisconnect
  <2>3. \A y \in commands \ commands' : y = x \/ \A z \in commands' : z.client # y.client
    BY <2>2, CloseSessionOrder
  <2>4. QED
    BY <2>1, <2>3 DEF LeavesInOrder
<1>4. \A x \in commands : ProcessRequest(x) => LeavesInOrder
  BY InternalDisconnectKeeps, SelectedOrder DEF ProcessRequest
<1>5. \A x \in commands : ProcessPublish0(x) => LeavesInOrder
  BY SelectedOrder DEF ProcessPublish0
<1>6. FlagPendingWrite \/ StoreResponse => LeavesInOrder
  BY DEF FlagPendingWrite, StoreResponse, LeavesInOrder
<1>7. QED
  BY <1>1, <1>2, <1>3, <1>4, <1>5, <1>6 DEF ProcessCommand

LEMMA HandleOrder ==
  ASSUME Handle
  PROVE  LeavesInOrder
<1>1. CASE HandleNobody \/ \E c \in Clients : HandleError(c) \/ HandleAck(c)
  <2>1. \A c : HandleError(c) => commands \subseteq commands'
    BY InternalDisconnectKeeps DEF HandleError
  <2>2. commands \subseteq commands'
    BY <1>1, <2>1 DEF HandleNobody, HandleAck
  <2>3. QED
    BY <2>2 DEF LeavesInOrder
<1>2. CASE \E c \in Clients : HandleRefused(c)
  BY <1>2, AttemptFailedOrder DEF HandleRefused
<1>3. ASSUME NEW c \in Clients, HandleConnected(c)
      PROVE  LeavesInOrder
  <2>1. CleanSession(c, commands) \/ commands \subseteq commands'
    BY <1>3, AtHeadKeeps DEF HandleConnected
  <2>2. QED
    BY <2>1 DEF CleanSession, WithoutClient, LeavesInOrder
<1>4. QED
  BY <1>1, <1>2, <1>3 DEF Handle

LEMMA OthersOrder ==
  /\ Application => LeavesInOrder
  /\ \A c \in Clients : CheckTimeouts(c) => LeavesInOrder
  /\ \A f : Select(f) \/ ContinueWrite(f) => LeavesInOrder
  /\ Cycle \/ Retry \/ Network \/ UNCHANGED vars => LeavesInOrder
<1>1. commands \subseteq commands' => LeavesInOrder
  BY DEF LeavesInOrder
<1>2. Application => commands \subseteq commands'
  <2>1. \A c : Connect(c) => commands \subseteq commands'
    BY AtHeadKeeps DEF Connect
  <2>2. QED
    BY <2>1 DEF Application, CheckConnected, AddCommand, AtTail
<1>3. ASSUME NEW c \in Clients, CheckTimeouts(c)
      PROVE  LeavesInOrder
  <2>1. CASE AttemptFailed(c)
    BY <2>1, AttemptFailedOrder
  <2>2. CASE CheckDisconnect(c, disconnect[c], commands)
    BY <1>1, <2>2, CloseSessionOrder DEF CheckDisconnect, LeavesInOrder
  <2>3. QED
    BY <1>3, <2>1, <2>2 DEF CheckTimeouts
<1>4. \A f : Select(f) \/ ContinueWrite(f) => commands \subseteq commands'
  BY DEF Select, ContinueWrite
<1>5. \A c : CycleConnecting(c) => AttemptFailed(c) \/ commands \subseteq commands'
  BY DEF CycleConnecting
<1>6. \A c : CycleReadError(c) => AttemptFailed(c) \/ commands \subseteq commands'
  BY DEF CycleReadError
<1>7. \A c : CycleRead(c) \/ CycleIncoming(c) \/ CycleNothing(c) \/ CycleNobody
           => commands \subseteq commands'
  BY DEF CycleRead, CycleIncoming, CycleNothing, CycleNobody
<1>8. Retry \/ Network \/ UNCHANGED vars => commands \subseteq commands'
  <2>1. Retry => commands \subseteq commands'
    BY InternalDisconnectKeeps DEF Retry, KeepAlive
  <2>2. QED
    BY <2>1 DEF Network, TcpUp, TcpFail, PeerClose, SetStatus, vars
<1>9. QED
  BY <1>1, <1>2, <1>3, <1>4, <1>5, <1>6, <1>7, <1>8, AttemptFailedOrder DEF Cycle

LEMMA OrderStep ==
  ASSUME TypeOK, Known, [Next]_vars, NEW x \in commands, NEW y \in commands,
         x.client = y.client, 0 < x.id, x.id < y.id, x.type # "CONNECT", y.type # "CONNECT",
         x \in commands'
  PROVE  y \in commands'
<1>1. LeavesInOrder
  BY ProcessCommandOrder, HandleOrder, OthersOrder DEF Next, ReceiveThread
<1>2. x.id \in Nat /\ y.id \in Nat
  BY BoundAssumption DEF TypeOK, Command, Ids
<1>3. x.pos = x.id /\ y.pos = y.id
  BY <1>2 DEF Known, QueueKnown
<1>4. QED
  BY <1>1, <1>2, <1>3 DEF LeavesInOrder, FirstOfClient

\* Requests and user disconnects of one client leave the queue in the order of
\* their calls, for any number of clients and calls, whatever fails, is closed or
\* put back in between (processCommand's ignored_clients, ListRemove and the
\* two ends of addCommand).
THEOREM InOrderCorrect == Spec => InOrder
<1>1. TypeOK /\ Known /\ [Next]_vars =>
        [\A x, y \in commands :
           /\ x.client = y.client /\ 0 < x.id /\ x.id < y.id
           /\ x.type # "CONNECT" /\ y.type # "CONNECT"
           => (x \in commands' => y \in commands')]_vars
  BY OrderStep
<1>2. QED
  BY <1>1, TypeCorrect, KnownCorrect, PTL DEF Spec, InOrder

-----------------------------------------------------------------------------
(* Once: where a request is, and that it has not been reported before.     *)

Held(i) == pendingCall.id = i
Queued(i) == \E x \in commands : x.id = i
Storing(i) == inHand # NoCommand /\ inHand.command.id = i
Unflagged(i) == Storing(i) /\ inHand.phase = "written"
Responding(i) == \E c \in Clients : \E r \in responses[c] : r.id = i
Writing(i) == \E c \in Clients : pendingWrite[c] = i
Closing(i) == \E c \in Clients : connectState[c] = -2 /\ disconnect[c] = i

\* a callback of call i may still be called: the call is not made yet, or it is in
\* a place from which it is reported.  The response of a QoS 0 publish does not
\* count: it is never acknowledged, only the pending write is
Awaited(i) ==
  \/ issued[i] = NotIssued
  \/ Held(i) \/ Queued(i) \/ Unflagged(i) \/ Writing(i) \/ Closing(i)
  \/ Responding(i) /\ issued[i].type # "PUBLISH0"

OnePlace(i) ==
  /\ Held(i) => ~Queued(i)
  /\ Held(i) \/ Queued(i) => ~Storing(i) /\ ~Responding(i) /\ ~Writing(i) /\ ~Closing(i)
  /\ Unflagged(i) => ~Writing(i)

OnceAt(i) == OnePlace(i) /\ (Awaited(i) => notified[i] = 0) /\ notified[i] <= 1
Once == \A i \in Ids : issued[i].type # "CONNECT" => OnceAt(i)

\* call i is in no place where it was not
Shrunk(i) ==
  /\ issued'[i] = issued[i]
  /\ Held(i)' => Held(i)
  /\ Queued(i)' => Queued(i)
  /\ Storing(i)' => Storing(i)
  /\ Unflagged(i)' => Unflagged(i)
  /\ Responding(i)' => Responding(i)
  /\ Writing(i)' => Writing(i)
  /\ Closing(i)' => Closing(i)

\* call i is not reported by this step, or for the first and last time
NotReported(i) == notified'[i] = notified[i]
ReportedFirst(i) == notified[i] = 0 /\ notified'[i] = 1 /\ ~Awaited(i)'

LEMMA ShrunkOnce ==
  ASSUME NEW i \in Ids, OnceAt(i), Shrunk(i), NotReported(i) \/ ReportedFirst(i)
  PROVE  OnceAt(i)'
<1>1. OnePlace(i)'
  BY DEF OnceAt, OnePlace, Shrunk
<1>2. Awaited(i)' => Awaited(i)
  BY DEF Awaited, Shrunk
<1>3. QED
  BY <1>1, <1>2 DEF OnceAt, NotReported, ReportedFirst

LEMMA CallFields ==
  ASSUME NEW i, NEW c, NEW t, IsCall(i, c, t)
  PROVE  i \in Ids /\ i # 0 /\ issued[i].client = c /\ issued[i].type = t
BY DEF IsCall, Ids

LEMMA CommandsShrunk ==
  ASSUME NEW i \in Ids, issued[i].type # "CONNECT",
         \A x \in commands' : x \in commands \/ Harmless(x)
  PROVE  Queued(i)' => Queued(i)
<1>1. i # 0
  BY DEF Ids
<1>2. \A x : Harmless(x) => x.id # i
  BY <1>1 DEF Harmless, IsCall
<1>3. QED
  BY <1>2 DEF Queued

LEMMA PlacesShrunk ==
  ASSUME NEW i \in Ids, issued[i].type # "CONNECT", issued'[i] = issued[i],
         UNCHANGED <<pendingCall, disconnect, inHand>>,
         \A x \in commands' : x \in commands \/ Harmless(x),
         \A d \in Clients : /\ responses'[d] \subseteq responses[d]
                            /\ pendingWrite'[d] \in {pendingWrite[d], 0}
                            /\ connectState'[d] = -2 => connectState[d] = -2
  PROVE  Shrunk(i)
<1>1. i # 0
  BY DEF Ids
<1>2. Queued(i)' => Queued(i)
  BY CommandsShrunk
<1>3. (Held(i)' => Held(i)) /\ (Storing(i)' => Storing(i)) /\ (Unflagged(i)' => Unflagged(i))
  BY DEF Held, Storing, Unflagged
<1>4. Responding(i)' => Responding(i)
  BY DEF Responding
<1>5. Writing(i)' => Writing(i)
  BY <1>1 DEF Writing
<1>6. Closing(i)' => Closing(i)
  BY DEF Closing
<1>7. QED
  BY <1>2, <1>3, <1>4, <1>5, <1>6 DEF Shrunk

LEMMA QuietOnce ==
  ASSUME TypeOK, Known, Once, UNCHANGED <<issued, pendingCall, disconnect, inHand>>,
         \A x \in commands' : x \in commands \/ Harmless(x),
         \A d \in Clients : /\ responses'[d] \subseteq responses[d]
                            /\ pendingWrite'[d] \in {pendingWrite[d], 0}
                            /\ connectState'[d] = -2 => connectState[d] = -2,
         \A i \in Ids : issued[i].type # "CONNECT" => NotReported(i) \/ ReportedFirst(i)
  PROVE  Once'
<1>1. \A i \in Ids : issued[i].type # "CONNECT" => Shrunk(i)
  BY PlacesShrunk
<1>2. \A i \in Ids : issued[i].type # "CONNECT" => OnceAt(i)'
  BY <1>1, ShrunkOnce DEF Once
<1>3. QED
  BY <1>2 DEF Once

\* the callbacks of a connect are not those of a request
LEMMA ConnectReport ==
  ASSUME TypeOK, NEW j, NEW c, j # 0 => IsCall(j, c, "CONNECT"),
         notified' = [notified EXCEPT ![j] = @ + 1]
  PROVE  \A i \in Ids : issued[i].type # "CONNECT" => NotReported(i)
<1>1. \A i \in Ids : issued[i].type # "CONNECT" => i # j
  BY DEF IsCall, Ids
<1>2. QED
  BY <1>1 DEF TypeOK, NotReported

LEMMA OtherReport ==
  ASSUME TypeOK, NEW j, notified' = [notified EXCEPT ![j] = @ + 1]
  PROVE  /\ \A i \in Ids : i # j => NotReported(i)
         /\ j \in Ids /\ notified[j] = 0 /\ ~Awaited(j)' => ReportedFirst(j)
BY DEF TypeOK, NotReported, ReportedFirst

LEMMA CloseOnlyCloses ==
  ASSUME TypeOK, NEW c \in Clients, CloseOnly(c)
  PROVE  \A d \in Clients : connectState'[d] = IF d = c THEN 0 ELSE connectState[d]
BY DEF CloseOnly, TypeOK

LEMMA AttemptFailedOnce ==
  ASSUME TypeOK, Known, NEW c \in Clients, AttemptFailed(c)
  PROVE  /\ \A d \in Clients : connectState'[d] = -2 => connectState[d] = -2
         /\ \A i \in Ids : issued[i].type # "CONNECT" => NotReported(i)
<1>1. CloseOnly(c)
  BY DEF AttemptFailed, CloseSession
<1>2. notified' = notified \/ notified' = [notified EXCEPT ![connect[c].id] = @ + 1]
  BY DEF AttemptFailed, Notify, callbacks
<1>3. connect[c].id # 0 => IsCall(connect[c].id, c, "CONNECT")
  BY DEF Known, AttemptKnown
<1>4. \A i \in Ids : issued[i].type # "CONNECT" => NotReported(i)
  BY <1>2, <1>3, ConnectReport DEF NotReported
<1>5. QED
  BY <1>1, <1>4, CloseOnlyCloses

-----------------------------------------------------------------------------
(* Once: the application's calls *)

LEMMA ApplicationOnce ==
  ASSUME TypeOK, Known, Once, Application
  PROVE  Once'
<1> USE DEF connection, session, callbacks, app
<1>1. ASSUME NEW c \in Clients, Connect(c)
      PROVE  Once'
  <2>1. PICK j \in Ids : j = calls + 1
    BY <1>1, BoundAssumption DEF Connect, TypeOK, Ids
  <2>2. /\ calls' = j /\ issued' = [issued EXCEPT ![j] = [client |-> c, type |-> "CONNECT"]]
        /\ commands' = AtHead(commands, c, "CONNECT", j, 0)
        /\ UNCHANGED <<pendingCall, disconnect, inHand, responses, pendingWrite, connectState, notified>>
    BY <1>1, <2>1 DEF Connect
  <2>3. issued'[j].type = "CONNECT" /\ \A i \in Ids : i # j => issued'[i] = issued[i]
    BY <2>2 DEF TypeOK
  <2>4. ASSUME NEW i \in Ids, i # j, issued[i].type # "CONNECT"
        PROVE  OnceAt(i)'
    <3>1. Queued(i)' => Queued(i)
      BY <2>2, <2>4, AtHeadKept DEF Queued
    <3>2. Shrunk(i)
      BY <2>2, <2>3, <2>4, <3>1
         DEF Shrunk, Held, Storing, Unflagged, Responding, Writing, Closing
    <3>3. QED
      BY <2>2, <2>4, <3>2, ShrunkOnce DEF Once, NotReported
  <2>5. QED
    BY <2>3, <2>4 DEF Once
<1>2. ASSUME NEW c \in Clients, NEW t \in CallTypes, CheckConnected(c, t)
      PROVE  Once'
  <2>1. PICK j \in Ids : j = calls + 1
    BY <1>2, BoundAssumption DEF CheckConnected, TypeOK, Ids
  <2>2. /\ calls' = j /\ issued' = [issued EXCEPT ![j] = [client |-> c, type |-> t]]
        /\ pendingCall = NoCall /\ pendingCall' = [client |-> c, type |-> t, id |-> j]
        /\ UNCHANGED <<commands, disconnect, inHand, responses, pendingWrite, connectState, notified>>
    BY <1>2, <2>1 DEF CheckConnected
  <2>3. /\ \A i \in Ids : i # j => issued'[i] = issued[i]
        /\ \A i, d, s : IsCall(i, d, s) => i # j
        /\ issued[j] = NotIssued
    BY <2>1, <2>2, CallAccepted
  <2>4. ASSUME NEW i \in Ids, i # j, issued[i].type # "CONNECT"
        PROVE  OnceAt(i)'
    <3>1. Shrunk(i)
      BY <2>2, <2>3, <2>4
         DEF Shrunk, Held, Queued, Storing, Unflagged, Responding, Writing, Closing
    <3>2. QED
      BY <2>2, <2>4, <3>1, ShrunkOnce DEF Once, NotReported
  <2>5. OnceAt(j)'
    <3>0. j # 0
      BY DEF Ids
    <3>1. ~Queued(j)' /\ ~Storing(j)' /\ ~Unflagged(j)' /\ ~Responding(j)' /\ ~Writing(j)' /\ ~Closing(j)'
      BY <2>2, <2>3, <3>0 DEF Known, QueueKnown, HandKnown, ResponsesKnown, AttemptKnown,
         Queued, Storing, Unflagged, Responding, Writing, Closing
    <3>2. notified'[j] = 0
      BY <2>2, <2>3 DEF Once, OnceAt, Awaited, NotIssued
    <3>3. QED
      BY <3>1, <3>2 DEF OnceAt, OnePlace
  <2>6. QED
    BY <2>3, <2>4, <2>5 DEF Once
<1>3. ASSUME AddCommand
      PROVE  Once'
  <2> DEFINE j == pendingCall.id
  <2>1. /\ commands' = AtTail(commands, pendingCall.client, pendingCall.type, pendingCall.id)
        /\ pendingCall # NoCall /\ pendingCall' = NoCall
        /\ UNCHANGED <<issued, disconnect, inHand, responses, pendingWrite, connectState, notified>>
    BY <1>3 DEF AddCommand
  <2>2. \A x \in commands' : x \in commands \/ x.id = j
    BY <2>1 DEF AtTail
  <2>3. ASSUME NEW i \in Ids, issued[i].type # "CONNECT"
        PROVE  OnceAt(i)'
    <3>0. i # 0
      BY DEF Ids
    <3>1. OnceAt(i)
      BY <2>3 DEF Once
    <3>2. ~Held(i)'
      BY <2>1, <3>0 DEF Held, NoCall
    <3>3. Queued(i)' => Queued(i) \/ Held(i)
      BY <2>2 DEF Queued, Held
    <3>4. /\ Storing(i)' <=> Storing(i)
          /\ Unflagged(i)' <=> Unflagged(i)
          /\ Responding(i)' <=> Responding(i)
          /\ Writing(i)' <=> Writing(i)
          /\ Closing(i)' <=> Closing(i)
      BY <2>1 DEF Storing, Unflagged, Responding, Writing, Closing
    <3>5. Awaited(i)' => Awaited(i)
      BY <2>1, <3>2, <3>3, <3>4 DEF Awaited
    <3>6. OnePlace(i)'
      BY <3>1, <3>2, <3>3, <3>4 DEF OnceAt, OnePlace
    <3>7. QED
      BY <2>1, <3>1, <3>5, <3>6 DEF OnceAt
  <2>4. QED
    BY <2>1, <2>3 DEF Once
<1>4. QED
  BY <1>1, <1>2, <1>3 DEF Application

-----------------------------------------------------------------------------
(* Once: the send thread *)

\* a command that is taken from the queue is nowhere else, and not reported yet
LEMMA LeftQueue ==
  ASSUME TypeOK, Known, Once, NEW x \in commands, x.id # 0, x.type # "CONNECT",
         UNCHANGED pendingCall,
         \A y \in commands' : y \in commands \ {x} \/ Harmless(y)
  PROVE  /\ x.id \in Ids /\ IsCall(x.id, x.client, x.type) /\ issued[x.id].type # "CONNECT"
         /\ ~Held(x.id)' /\ ~Queued(x.id)'
         /\ ~Storing(x.id) /\ ~Unflagged(x.id) /\ ~Responding(x.id) /\ ~Writing(x.id) /\ ~Closing(x.id)
         /\ notified[x.id] = 0
<1>1. x.id \in Ids /\ IsCall(x.id, x.client, x.type) /\ issued[x.id].type # "CONNECT"
  BY DEF Known, QueueKnown, IsCall
<1>2. OnceAt(x.id) /\ Queued(x.id)
  BY <1>1 DEF Once, Queued
<1>3. ~Held(x.id)'
  BY <1>2 DEF OnceAt, OnePlace, Held
<1>4. ASSUME NEW y \in commands, y.id = x.id
      PROVE  y = x
  <2>1. IsCall(y.id, y.client, y.type) /\ y.client = x.client /\ y.type = x.type
    BY <1>1, <1>4 DEF Known, QueueKnown, IsCall
  <2>2. y.pos = x.pos /\ y.version = x.version
    BY <1>4, <2>1 DEF Known, QueueKnown
  <2>3. QED
    BY <1>4, <2>1, <2>2 DEF TypeOK, Command
<1>5. \A y : Harmless(y) => y.id # x.id
  BY <1>1 DEF Harmless, IsCall
<1>6. ~Queued(x.id)'
  BY <1>4, <1>5 DEF Queued
<1>7. QED
  BY <1>1, <1>2, <1>3, <1>6 DEF OnceAt, OnePlace, Awaited, Unflagged

LEMMA IgnoreConnectOnce ==
  ASSUME TypeOK, Known, Once, NEW x \in commands, IgnoreConnect(x)
  PROVE  Once'
BY QuietOnce DEF IgnoreConnect, session, app, connection, callbacks, NotReported

LEMMA ProcessConnectOnce ==
  ASSUME TypeOK, Known, Once, NEW x \in commands, ProcessConnect(x)
  PROVE  Once'
<1> USE DEF session, app, callbacks
<1>1. /\ UNCHANGED <<issued, pendingCall, disconnect, inHand, responses, pendingWrite>>
      /\ x.type = "CONNECT" /\ connectState[x.client] = 0 /\ x.client \in Clients
  BY DEF ProcessConnect, TypeOK, Command
<1>2. x.id # 0 => IsCall(x.id, x.client, "CONNECT")
  BY <1>1 DEF Known, QueueKnown
<1>3. PICK v : MQTTProtocol_connect(x, v)
  BY DEF ProcessConnect
<1>4. CASE ConnectFailed(x, v)
  <2>1. UNCHANGED connectState
    BY <1>4 DEF ConnectFailed
  <2>2. notified' = notified \/ notified' = [notified EXCEPT ![x.id] = @ + 1]
    BY <1>4 DEF ConnectFailed, Notify
  <2>3. \A i \in Ids : issued[i].type # "CONNECT" => NotReported(i)
    BY <1>2, <2>2, ConnectReport DEF NotReported
  <2>4. \A y \in commands' : y \in commands \/ Harmless(y)
    BY <1>1, <1>4, ConnectFailedKept
  <2>5. QED
    BY <1>1, <2>1, <2>3, <2>4, QuietOnce
<1>5. CASE \E s \in {1, 3} : ConnectStarted(x, v, s)
  <2>1. \A d \in Clients : connectState'[d] = -2 => connectState[d] = -2
    BY <1>1, <1>5 DEF ConnectStarted, TypeOK
  <2>2. notified' = notified /\ \A y \in commands' : y \in commands
    BY <1>5 DEF ConnectStarted
  <2>3. QED
    BY <1>1, <2>1, <2>2, QuietOnce DEF NotReported
<1>6. QED
  BY <1>3, <1>4, <1>5 DEF MQTTProtocol_connect

LEMMA ProcessDisconnectOnce ==
  ASSUME TypeOK, Known, Once, NEW x \in commands, ProcessDisconnect(x)
  PROVE  Once'
<1> DEFINE c == x.client
           j == x.id
<1> USE DEF session, app, connection, callbacks
<1>1. /\ UNCHANGED <<issued, pendingCall, inHand, pendingWrite>>
      /\ x.type = "DISCONNECT" /\ disconnect' = [disconnect EXCEPT ![c] = j]
      /\ c \in Clients
  BY DEF ProcessDisconnect, TypeOK, Command
<1>2. \A d \in Clients : disconnect'[d] = IF d = c THEN j ELSE disconnect[d]
  BY <1>1 DEF TypeOK
<1>3. /\ \A y \in commands' : y \in commands \ {x}
      /\ \A d \in Clients : responses'[d] \subseteq responses[d]
  <2>1. CASE CheckDisconnect(c, j, commands \ {x})
    BY <1>1, <2>1, CheckDisconnectKept
  <2>2. CASE commands' = commands \ {x} /\ UNCHANGED session
    BY <2>2
  <2>3. QED
    BY <2>1, <2>2 DEF ProcessDisconnect
<1>4. \/ /\ \A d \in Clients : connectState'[d] = IF d = c THEN 0 ELSE connectState[d]
         /\ IF j # 0 THEN notified' = [notified EXCEPT ![j] = @ + 1] ELSE UNCHANGED notified
      \/ /\ j # 0 /\ UNCHANGED notified
         /\ \A d \in Clients : d # c => connectState'[d] = connectState[d]
      \/ /\ UNCHANGED <<notified, connectState>> /\ connectState[c] = 0
  <2>1. CASE CloseSession(c, commands \ {x})
             /\ IF j # 0 THEN Notify(j, c, "down") ELSE UNCHANGED notified
    BY <1>1, <2>1, CloseOnlyCloses DEF CloseSession, Notify
  <2>2. CASE j # 0 /\ connectState' = [connectState EXCEPT ![c] = -2] /\ UNCHANGED notified
    BY <1>1, <2>2 DEF TypeOK
  <2>3. CASE UNCHANGED <<notified, connectState>> /\ connectState[c] = 0
    BY <2>3
  <2>4. QED
    BY <2>1, <2>2, <2>3 DEF ProcessDisconnect, CheckDisconnect
<1>5. ASSUME NEW i \in Ids, issued[i].type # "CONNECT", i # j
      PROVE  OnceAt(i)'
  <2>0. i # 0
    BY DEF Ids
  <2>1. Closing(i)' => Closing(i)
    BY <1>2, <1>4, <1>5, <2>0 DEF Closing
  <2>2. Queued(i)' => Queued(i)
    BY <1>3 DEF Queued
  <2>3. Responding(i)' => Responding(i)
    BY <1>3 DEF Responding
  <2>4. Shrunk(i)
    BY <1>1, <2>1, <2>2, <2>3 DEF Shrunk, Held, Storing, Unflagged, Writing
  <2>5. NotReported(i)
    BY <1>4, <1>5, OtherReport DEF NotReported
  <2>6. QED
    BY <1>5, <2>4, <2>5, ShrunkOnce DEF Once
<1>6. ASSUME j # 0
      PROVE  OnceAt(j)'
  <2>1. /\ j \in Ids /\ IsCall(j, c, x.type) /\ ~Held(j)' /\ ~Queued(j)'
        /\ ~Storing(j) /\ ~Unflagged(j) /\ ~Responding(j) /\ ~Writing(j) /\ ~Closing(j)
        /\ notified[j] = 0
    BY <1>1, <1>3, <1>6, LeftQueue
  <2>2. ~Storing(j)' /\ ~Unflagged(j)' /\ ~Responding(j)' /\ ~Writing(j)'
    BY <1>1, <1>3, <2>1 DEF Storing, Unflagged, Responding, Writing
  <2>3. OnePlace(j)'
    BY <2>1, <2>2 DEF OnePlace
  <2>4. CASE UNCHANGED notified
    BY <2>1, <2>3, <2>4 DEF OnceAt
  <2>5. CASE /\ \A d \in Clients : connectState'[d] = IF d = c THEN 0 ELSE connectState[d]
             /\ notified' = [notified EXCEPT ![j] = @ + 1]
    <3>1. ~Closing(j)'
      BY <1>2, <2>1, <2>5 DEF Closing
    <3>2. issued'[j] # NotIssued
      BY <1>1, <2>1 DEF IsCall, NotIssued
    <3>3. notified'[j] = 1
      BY <2>1, <2>5 DEF TypeOK
    <3>4. ~Awaited(j)'
      BY <2>1, <2>2, <3>1, <3>2 DEF Awaited
    <3>5. QED
      BY <2>3, <3>3, <3>4 DEF OnceAt
  <2>6. QED
    BY <1>4, <1>6, <2>4, <2>5
<1>7. QED
  BY <1>1, <1>5, <1>6 DEF Once, Ids

LEMMA ProcessRequestOnce ==
  ASSUME TypeOK, Known, Once, NEW x \in commands, ProcessRequest(x)
  PROVE  Once'
<1> DEFINE c == x.client
           j == x.id
<1> USE DEF session, app, connection, callbacks
<1>1. /\ UNCHANGED <<issued, pendingCall, inHand, pendingWrite, disconnect, connectState>>
      /\ x.type \in {"SUBSCRIBE", "UNSUBSCRIBE", "PUBLISH"} /\ c \in Clients /\ j \in Ids
  BY DEF ProcessRequest, TypeOK, Command, RequestTypes
<1>2. \A y \in commands' : y \in commands \ {x} \/ Harmless(y)
  <2>1. commands' = commands \ {x} \/ commands' = WithInternalDisconnect(commands \ {x}, c)
    BY DEF ProcessRequest
  <2>2. QED
    BY <2>1, InternalDisconnectKept
<1>3. \/ responses' = responses /\ notified' = [notified EXCEPT ![j] = @ + 1]
      \/ responses' = [responses EXCEPT ![c] = @ \cup {x}] /\ notified' = notified
  BY DEF ProcessRequest, Notify
<1>4. /\ issued[j].type # "CONNECT" /\ issued[j] # NotIssued
      /\ ~Held(j)' /\ ~Queued(j)'
      /\ ~Storing(j) /\ ~Unflagged(j) /\ ~Responding(j) /\ ~Writing(j) /\ ~Closing(j)
      /\ notified[j] = 0
  <2>1. x.type # "CONNECT" /\ j # 0
    BY <1>1 DEF Ids
  <2>2. QED
    <3>1. /\ IsCall(j, c, x.type) /\ ~Held(j)' /\ ~Queued(j)'
          /\ ~Storing(j) /\ ~Unflagged(j) /\ ~Responding(j) /\ ~Writing(j) /\ ~Closing(j)
          /\ notified[j] = 0
      BY <1>1, <1>2, <2>1, LeftQueue
    <3>2. issued[j].type = x.type
      BY <3>1, CallFields
    <3>3. QED
      BY <1>1, <3>1, <3>2 DEF NotIssued
<1>5. ASSUME NEW i \in Ids, issued[i].type # "CONNECT", i # j
      PROVE  OnceAt(i)'
  <2>1. Queued(i)' => Queued(i)
    BY <1>2, <1>5, CommandsShrunk
  <2>2. Responding(i)' => Responding(i)
    BY <1>3, <1>5 DEF Responding, TypeOK
  <2>3. Shrunk(i)
    BY <1>1, <2>1, <2>2 DEF Shrunk, Held, Storing, Unflagged, Writing, Closing
  <2>4. NotReported(i)
    BY <1>3, <1>5, OtherReport DEF NotReported
  <2>5. QED
    BY <1>5, <2>3, <2>4, ShrunkOnce DEF Once
<1>6. OnceAt(j)'
  <2>1. ~Storing(j)' /\ ~Unflagged(j)' /\ ~Writing(j)' /\ ~Closing(j)'
    BY <1>1, <1>4 DEF Storing, Unflagged, Writing, Closing
  <2>2. OnePlace(j)'
    BY <1>4, <2>1 DEF OnePlace
  <2>3. CASE notified' = notified
    BY <1>4, <2>2, <2>3 DEF OnceAt
  <2>4. CASE responses' = responses /\ notified' = [notified EXCEPT ![j] = @ + 1]
    <3>1. ~Responding(j)'
      BY <1>4, <2>4 DEF Responding
    <3>2. notified'[j] = 1
      BY <1>1, <1>4, <2>4 DEF TypeOK
    <3>3. ~Awaited(j)'
      BY <1>1, <1>4, <2>1, <3>1 DEF Awaited
    <3>4. QED
      BY <2>2, <3>2, <3>3 DEF OnceAt
  <2>5. QED
    BY <1>3, <2>3, <2>4
<1>7. QED
  BY <1>1, <1>5, <1>6 DEF Once

LEMMA ProcessPublish0Once ==
  ASSUME TypeOK, Known, Once, NEW x \in commands, ProcessPublish0(x)
  PROVE  Once'
<1> DEFINE c == x.client
           j == x.id
<1> USE DEF session, app, connection, callbacks
<1>1. /\ UNCHANGED <<issued, pendingCall, responses, disconnect, connectState>>
      /\ x.type = "PUBLISH0" /\ c \in Clients /\ j \in Ids /\ inHand = NoCommand
      /\ commands' = commands \ {x}
  BY DEF ProcessPublish0, Unlocked, TypeOK, Command, RequestTypes
<1>2. PICK w : /\ IF w = "complete" THEN Notify(j, c, view[c]) ELSE UNCHANGED callbacks
               /\ inHand' = IF w = "interrupted" THEN [phase |-> "written", command |-> x] ELSE inHand
               /\ pendingWrite' = IF w = "error" THEN [pendingWrite EXCEPT ![c] = j] ELSE pendingWrite
  BY DEF ProcessPublish0
<1>3. notified' = IF w = "complete" THEN [notified EXCEPT ![j] = @ + 1] ELSE notified
  BY <1>2 DEF Notify
<1>4. \A d \in Clients : pendingWrite'[d] = IF w = "error" /\ d = c THEN j ELSE pendingWrite[d]
  BY <1>2 DEF TypeOK
<1>5. /\ issued[j].type = "PUBLISH0" /\ issued[j] # NotIssued
      /\ ~Held(j)' /\ ~Queued(j)' /\ ~Responding(j) /\ ~Writing(j) /\ ~Closing(j)
      /\ notified[j] = 0
  <2>1. j # 0
    BY <1>1 DEF Ids
  <2>2. QED
    <3>1. /\ IsCall(j, c, x.type) /\ ~Held(j)' /\ ~Queued(j)'
          /\ ~Responding(j) /\ ~Writing(j) /\ ~Closing(j) /\ notified[j] = 0
      BY <1>1, <2>1, LeftQueue
    <3>2. issued[j].type = "PUBLISH0"
      BY <1>1, <3>1, CallFields
    <3>3. QED
      BY <3>1, <3>2 DEF NotIssued
<1>6. ASSUME NEW i \in Ids, issued[i].type # "CONNECT", i # j
      PROVE  OnceAt(i)'
  <2>1. Queued(i)' => Queued(i)
    BY <1>1 DEF Queued
  <2>2. ~Storing(i)' /\ ~Unflagged(i)'
    BY <1>1, <1>2, <1>6 DEF Storing, Unflagged
  <2>3. Writing(i)' => Writing(i)
    BY <1>4, <1>6 DEF Writing
  <2>4. Shrunk(i)
    BY <1>1, <2>1, <2>2, <2>3 DEF Shrunk, Held, Responding, Closing
  <2>5. NotReported(i)
    BY <1>3, <1>6, OtherReport DEF NotReported
  <2>6. QED
    BY <1>6, <2>4, <2>5, ShrunkOnce DEF Once
<1>7. OnceAt(j)'
  <2>1. ~Responding(j)' /\ ~Closing(j)'
    BY <1>1, <1>5 DEF Responding, Closing
  <2>2. CASE w = "complete"
    <3>1. ~Storing(j)' /\ ~Unflagged(j)' /\ ~Writing(j)'
      BY <1>1, <1>2, <1>5, <2>2 DEF Storing, Unflagged, Writing
    <3>2. notified'[j] = 1
      BY <1>1, <1>3, <1>5, <2>2 DEF TypeOK
    <3>3. OnePlace(j)' /\ ~Awaited(j)'
      BY <1>1, <1>5, <2>1, <3>1 DEF OnePlace, Awaited
    <3>4. QED
      BY <3>2, <3>3 DEF OnceAt
  <2>3. CASE w # "complete"
    <3>1. Unflagged(j)' => ~Writing(j)'
      BY <1>1, <1>2, <1>5, <2>3 DEF Unflagged, Storing, Writing
    <3>2. QED
      BY <1>3, <1>5, <2>3, <3>1 DEF OnceAt, OnePlace
  <2>4. QED
    BY <2>2, <2>3
<1>8. QED
  BY <1>1, <1>6, <1>7 DEF Once

LEMMA StoreOnce ==
  ASSUME TypeOK, Known, Once, FlagPendingWrite \/ StoreResponse
  PROVE  Once'
<1> USE DEF session, app, connection, callbacks
<1>0. PICK x, j : x = inHand.command /\ j = x.id
  OBVIOUS
<1>1. /\ UNCHANGED <<issued, pendingCall, commands, disconnect, connectState, notified>>
      /\ inHand # NoCommand
  BY DEF FlagPendingWrite, StoreResponse, NoCommand
<1>2. x \in Command /\ j \in Ids /\ issued[j].type = "PUBLISH0" /\ Storing(j)
  BY <1>0, <1>1 DEF TypeOK, Known, HandKnown, IsCall, Storing
<1>3. OnceAt(j) /\ ~Held(j) /\ ~Queued(j)
  BY <1>2 DEF Once, OnceAt, OnePlace
<1>4. \/ FlagPendingWrite /\ inHand.phase = "written" /\ UNCHANGED responses
         /\ inHand' = [inHand EXCEPT !.phase = "flagged"]
         /\ \A d \in Clients : pendingWrite'[d] = IF d = x.client THEN j ELSE pendingWrite[d]
      \/ StoreResponse /\ inHand' = NoCommand /\ UNCHANGED pendingWrite
         /\ \A d \in Clients : \A r \in responses'[d] : r \in responses[d] \/ r = x
  BY <1>0 DEF FlagPendingWrite, StoreResponse, TypeOK
<1>5. ~Unflagged(j)' /\ \A i : (Storing(i)' => Storing(i)) /\ (Unflagged(i)' => Unflagged(i))
  BY <1>1, <1>4 DEF Storing, Unflagged, TypeOK
<1>6. ASSUME NEW i \in Ids, issued[i].type # "CONNECT", i # j
      PROVE  OnceAt(i)'
  <2>1. Responding(i)' => Responding(i)
    BY <1>0, <1>4, <1>6 DEF Responding
  <2>2. Writing(i)' => Writing(i)
    BY <1>4, <1>6 DEF Writing
  <2>3. Shrunk(i)
    BY <1>1, <1>5, <2>1, <2>2 DEF Shrunk, Held, Queued, Closing
  <2>4. QED
    BY <1>1, <1>6, <2>3, ShrunkOnce DEF Once, NotReported
<1>7. OnceAt(j)'
  <2>1. ~Held(j)' /\ ~Queued(j)'
    BY <1>1, <1>3 DEF Held, Queued
  <2>2. Closing(j)' => Closing(j)
    BY <1>1 DEF Closing
  <2>3. Writing(j)' => Writing(j) \/ Unflagged(j)
    BY <1>1, <1>2, <1>4 DEF Writing, Unflagged
  <2>4. Awaited(j)' => Awaited(j)
    BY <1>1, <1>2, <1>5, <2>1, <2>2, <2>3 DEF Awaited
  <2>5. QED
    BY <1>1, <1>3, <1>5, <2>1, <2>4 DEF OnceAt, OnePlace
<1>8. QED
  BY <1>1, <1>6, <1>7 DEF Once

LEMMA ProcessCommandOnce ==
  ASSUME TypeOK, Known, Once, ProcessCommand
  PROVE  Once'
BY IgnoreConnectOnce, ProcessConnectOnce, ProcessDisconnectOnce, ProcessRequestOnce,
   ProcessPublish0Once, StoreOnce DEF ProcessCommand

\* a disconnect that waited for its messages is done
LEMMA CheckTimeoutsOnce ==
  ASSUME TypeOK, Known, Once, NEW c \in Clients, CheckTimeouts(c)
  PROVE  Once'
<1> USE DEF session, app, connection, callbacks
<1>0. PICK j : j = disconnect[c]
  OBVIOUS
<1>1. UNCHANGED <<issued, pendingCall, disconnect, pendingWrite, inHand>>
  BY DEF CheckTimeouts
<1>2. CASE AttemptFailed(c)
  BY <1>1, <1>2, AttemptFailedKept, AttemptFailedOnce, QuietOnce
<1>3. CASE connectState[c] = -2 /\ CheckDisconnect(c, j, commands)
  <2>1. /\ \A y \in commands' : y \in commands
        /\ \A d \in Clients : responses'[d] \subseteq responses[d]
    BY <1>3, CheckDisconnectKept
  <2>2. CASE connectState' = [connectState EXCEPT ![c] = -2] /\ UNCHANGED notified
    <3>1. \A d \in Clients : connectState'[d] = connectState[d]
      BY <1>3, <2>2 DEF TypeOK
    <3>2. QED
      BY <1>1, <2>1, <2>2, <3>1, QuietOnce DEF NotReported
  <2>3. CASE CloseSession(c, commands) /\ j = 0 /\ UNCHANGED notified
    <3>1. \A d \in Clients : connectState'[d] = IF d = c THEN 0 ELSE connectState[d]
      BY <2>3, CloseOnlyCloses DEF CloseSession
    <3>2. QED
      BY <1>1, <2>1, <2>3, <3>1, QuietOnce DEF NotReported
  <2>4. CASE CloseSession(c, commands) /\ j # 0 /\ Notify(j, c, "down")
    <3>1. \A d \in Clients : connectState'[d] = IF d = c THEN 0 ELSE connectState[d]
      BY <2>4, CloseOnlyCloses DEF CloseSession
    <3>2. IsCall(j, c, "DISCONNECT") /\ Closing(j)
      BY <1>0, <1>3, <2>4 DEF Known, AttemptKnown, Closing
    <3>3. j \in Ids /\ issued[j].type = "DISCONNECT" /\ issued[j] # NotIssued
      BY <3>2 DEF IsCall, NotIssued
    <3>4. notified[j] = 0 /\ ~Held(j) /\ ~Queued(j)
      BY <3>2, <3>3 DEF Once, OnceAt, OnePlace, Awaited
    <3>5. ~Held(j)' /\ ~Queued(j)'
      BY <1>1, <2>1, <3>4 DEF Held, Queued
    <3>6. ~Closing(j)'
      <4>1. \A d \in Clients : disconnect[d] = j => IsCall(j, d, "DISCONNECT")
        BY <2>4 DEF Known, AttemptKnown
      <4>2. QED
        BY <1>1, <3>1, <3>2, <4>1, CallFields DEF Closing
    <3>7. ~Unflagged(j)' /\ ~Writing(j)'
      <4>1. inHand # NoCommand => issued[inHand.command.id].type = "PUBLISH0"
        BY CallFields DEF Known, HandKnown
      <4>2. \A d \in Clients : pendingWrite[d] # 0 => issued[pendingWrite[d]].type = "PUBLISH0"
        BY CallFields DEF Known, AttemptKnown
      <4>3. QED
        BY <1>1, <2>4, <3>3, <4>1, <4>2 DEF Unflagged, Storing, Writing
    <3>8. ~Responding(j)'
      <4>1. \A d \in Clients : \A r \in responses[d] : issued[r.id].type \in RequestTypes
        BY CallFields DEF Known, ResponsesKnown
      <4>2. QED
        BY <2>1, <3>3, <4>1 DEF Responding, RequestTypes
    <3>9. ~Awaited(j)'
      BY <1>1, <3>3, <3>5, <3>6, <3>7, <3>8 DEF Awaited
    <3>10. \A i \in Ids : NotReported(i) \/ ReportedFirst(i)
      BY <2>4, <3>3, <3>4, <3>9, OtherReport DEF Notify
    <3>11. QED
      BY <1>1, <2>1, <3>1, <3>10, QuietOnce
  <2>5. QED
    BY <1>3, <2>2, <2>3, <2>4 DEF CheckDisconnect
<1>4. QED
  BY <1>0, <1>2, <1>3 DEF CheckTimeouts

-----------------------------------------------------------------------------
(* Once: the receive thread *)

\* what only one kind of call can be
LEMMA KindOfPlace ==
  ASSUME TypeOK, Known, NEW i \in Ids, issued[i].type # "CONNECT"
  PROVE  /\ issued[i].type # "PUBLISH0" => ~Storing(i) /\ ~Unflagged(i) /\ ~Writing(i)
         /\ issued[i].type # "DISCONNECT" => ~Closing(i)
         /\ issued[i].type \notin RequestTypes => ~Responding(i)
<1>0. i # 0
  BY DEF Ids
<1>1. inHand # NoCommand => issued[inHand.command.id].type = "PUBLISH0"
  BY CallFields DEF Known, HandKnown
<1>2. \A d \in Clients : /\ pendingWrite[d] # 0 => issued[pendingWrite[d]].type = "PUBLISH0"
                         /\ disconnect[d] # 0 => issued[disconnect[d]].type = "DISCONNECT"
  BY CallFields DEF Known, AttemptKnown
<1>3. \A d \in Clients : \A r \in responses[d] : issued[r.id].type \in RequestTypes
  BY CallFields DEF Known, ResponsesKnown
<1>4. QED
  BY <1>0, <1>1, <1>2, <1>3 DEF Storing, Unflagged, Writing, Closing, Responding

\* an answer is that of a response, which goes with it
LEMMA AcknowledgeOnce ==
  ASSUME TypeOK, Known, Once, NEW c \in Clients, NEW j, Acknowledge(c, j),
         j \in Ids => issued[j].type # "PUBLISH0",
         UNCHANGED <<issued, pendingCall, disconnect, inHand, commands, pendingWrite, connectState>>
  PROVE  Once'
<1>1. /\ responses \in [Clients -> SUBSET Command]
      /\ \A d \in Clients : responses'[d] \subseteq responses[d]
  BY AcknowledgeKept DEF TypeOK
<1>2. CASE UNCHANGED callbacks
  BY <1>1, <1>2, QuietOnce DEF callbacks, NotReported
<1>3. ASSUME NEW r \in responses[c], r.id = j, Notify(j, c, view[c]),
             responses' = [responses EXCEPT ![c] = {x \in @ : x.id # j}]
      PROVE  Once'
  <2>1. IsCall(j, c, r.type) /\ r.type \in RequestTypes
    BY <1>3 DEF Known, ResponsesKnown
  <2>2. /\ j \in Ids /\ issued[j].type = r.type /\ issued[j].type \in RequestTypes
        /\ issued[j].type \notin {"CONNECT", "DISCONNECT", "PUBLISH0"} /\ issued[j] # NotIssued
    BY <2>1, CallFields DEF RequestTypes, NotIssued
  <2>3. Responding(j) /\ OnceAt(j)
    BY <1>3, <2>2 DEF Once, Responding
  <2>4. notified[j] = 0 /\ ~Held(j) /\ ~Queued(j)
    BY <2>2, <2>3 DEF OnceAt, OnePlace, Awaited
  <2>5. ~Unflagged(j) /\ ~Writing(j) /\ ~Closing(j)
    BY <2>2, KindOfPlace
  <2>6. ~Responding(j)'
    <3>1. \A d \in Clients : \A x \in responses[d] : x.id = j => d = c
      BY <2>1, CallFields DEF Known, ResponsesKnown
    <3>2. QED
      BY <1>1, <1>3, <3>1 DEF Responding
  <2>7. ~Held(j)' /\ ~Queued(j)' /\ ~Unflagged(j)' /\ ~Writing(j)' /\ ~Closing(j)'
    BY <2>4, <2>5 DEF Held, Queued, Unflagged, Storing, Writing, Closing
  <2>8. ~Awaited(j)'
    BY <2>2, <2>6, <2>7 DEF Awaited
  <2>9. \A i \in Ids : NotReported(i) \/ ReportedFirst(i)
    BY <1>3, <2>2, <2>4, <2>8, OtherReport DEF Notify
  <2>10. QED
    BY <1>1, <2>9, QuietOnce
<1>4. QED
  BY <1>2, <1>3 DEF Acknowledge, callbacks

LEMMA WriteCompleteOnce ==
  ASSUME TypeOK, Known, Once, NEW c \in Clients, WriteComplete(c),
         UNCHANGED <<issued, pendingCall, disconnect, inHand, commands, connectState>>
  PROVE  Once'
<1>1. /\ \A d \in Clients : responses'[d] \subseteq responses[d]
      /\ \A d \in Clients : pendingWrite'[d] \in {pendingWrite[d], 0}
  BY DEF WriteComplete, TypeOK
<1>2. CASE UNCHANGED callbacks
  BY <1>1, <1>2, QuietOnce DEF callbacks, NotReported
<1>3. ASSUME NEW j, j = pendingWrite[c], j # 0, Notify(j, c, view[c]),
             pendingWrite' = [pendingWrite EXCEPT ![c] = 0]
      PROVE  Once'
  <2>1. IsCall(j, c, "PUBLISH0") /\ Writing(j)
    BY <1>3 DEF Known, AttemptKnown, Writing
  <2>2. j \in Ids /\ issued[j].type = "PUBLISH0" /\ issued[j] # NotIssued
    BY <2>1, CallFields DEF NotIssued
  <2>3. notified[j] = 0 /\ ~Held(j) /\ ~Queued(j) /\ ~Unflagged(j)
    BY <2>1, <2>2 DEF Once, OnceAt, OnePlace, Awaited
  <2>4. ~Writing(j)'
    <3>1. \A d \in Clients : pendingWrite[d] = j => d = c
      BY <1>3, <2>1, CallFields DEF Known, AttemptKnown
    <3>2. QED
      BY <1>3, <3>1 DEF Writing, TypeOK
  <2>5. ~Held(j)' /\ ~Queued(j)' /\ ~Unflagged(j)' /\ ~Closing(j)'
    BY <2>2, <2>3, KindOfPlace DEF Held, Queued, Unflagged, Storing, Closing
  <2>6. ~Awaited(j)'
    BY <2>2, <2>4, <2>5 DEF Awaited
  <2>7. \A i \in Ids : NotReported(i) \/ ReportedFirst(i)
    BY <1>3, <2>2, <2>3, <2>6, OtherReport DEF Notify
  <2>8. QED
    BY <1>1, <2>7, QuietOnce
<1>4. QED
  BY <1>2, <1>3 DEF WriteComplete, callbacks

LEMMA AttemptOnce ==
  ASSUME TypeOK, Known, Once, NEW c \in Clients, AttemptFailed(c),
         UNCHANGED <<issued, pendingCall, disconnect, inHand, pendingWrite>>
  PROVE  Once'
BY AttemptFailedKept, AttemptFailedOnce, QuietOnce

LEMMA SilentOnce ==
  ASSUME TypeOK, Known, Once,
         UNCHANGED <<issued, pendingCall, disconnect, inHand, pendingWrite, responses, notified>>,
         \A x \in commands' : x \in commands \/ Harmless(x),
         \A d \in Clients : connectState'[d] = -2 => connectState[d] = -2
  PROVE  Once'
BY QuietOnce DEF NotReported

LEMMA CycleOnce ==
  ASSUME TypeOK, Known, Once, Cycle
  PROVE  Once'
<1> USE DEF session, app, connection, callbacks
<1>1. CASE CycleNobody \/ \E c \in Clients : CycleNothing(c)
  BY <1>1, SilentOnce DEF CycleNobody, CycleNothing
<1>2. ASSUME NEW c \in Clients, CycleConnecting(c)
      PROVE  Once'
  <2>1. UNCHANGED <<issued, pendingCall, disconnect, inHand, pendingWrite>>
    BY <1>2 DEF CycleConnecting
  <2>2. CASE AttemptFailed(c)
    BY <2>1, <2>2, AttemptOnce
  <2>3. CASE UNCHANGED <<commands, session, callbacks>> /\ connectState' = [connectState EXCEPT ![c] = 3]
    <3>1. \A d \in Clients : connectState'[d] = -2 => connectState[d] = -2
      BY <2>3 DEF TypeOK
    <3>2. QED
      BY <2>1, <2>3, <3>1, SilentOnce
  <2>4. QED
    BY <1>2, <2>2, <2>3 DEF CycleConnecting
<1>3. ASSUME NEW c \in Clients, CycleReadError(c)
      PROVE  Once'
  <2>1. UNCHANGED <<issued, pendingCall, disconnect, inHand, pendingWrite>>
    BY <1>3 DEF CycleReadError
  <2>2. CASE AttemptFailed(c)
    BY <2>1, <2>2, AttemptOnce
  <2>3. CASE UNCHANGED <<commands, connection, session, callbacks>>
    BY <2>1, <2>3, SilentOnce
  <2>4. QED
    BY <1>3, <2>2, <2>3 DEF CycleReadError
<1>4. ASSUME NEW c \in Clients, CycleRead(c)
      PROVE  Once'
  <2>1. UNCHANGED <<issued, pendingCall, disconnect, inHand, pendingWrite, commands, connectState>>
    BY <1>4 DEF CycleRead
  <2>2. PICK p \in net[receiver.sock].wire :
          \/ p.type = "PUBLISH" /\ Acknowledge(c, p.id)
          \/ UNCHANGED <<responses, callbacks>>
    BY <1>4 DEF CycleRead
  <2>3. receiver.sock \in Sockets
    BY <1>4 DEF CycleRead, TypeOK
  <2>4. p.type = "PUBLISH" => issued[p.id].type = "PUBLISH"
    BY <2>3 DEF Known, NetKnown, PacketKnown, RequestTypes
  <2>5. CASE p.type = "PUBLISH" /\ Acknowledge(c, p.id)
    BY <2>1, <2>4, <2>5, AcknowledgeOnce
  <2>6. CASE UNCHANGED <<responses, callbacks>>
    BY <2>1, <2>6, SilentOnce
  <2>7. QED
    BY <2>2, <2>5, <2>6
<1>5. \A c \in Clients : CycleIncoming(c) => Once'
  BY IncomingWrite, SilentOnce
<1>6. QED
  BY <1>1, <1>2, <1>3, <1>4, <1>5 DEF Cycle

LEMMA HandleOnce ==
  ASSUME TypeOK, Known, Once, Handle
  PROVE  Once'
<1> USE DEF session, app, connection, callbacks
<1>1. CASE HandleNobody
  BY <1>1, SilentOnce DEF HandleNobody
<1>2. ASSUME NEW c \in Clients, HandleError(c)
      PROVE  Once'
  <2>1. /\ UNCHANGED <<issued, pendingCall, disconnect, inHand, pendingWrite, responses, notified>>
        /\ \/ commands' = WithInternalDisconnect(commands, c) /\ UNCHANGED connectState
           \/ CloseOnly(c) /\ UNCHANGED commands
    BY <1>2 DEF HandleError
  <2>2. CASE commands' = WithInternalDisconnect(commands, c) /\ UNCHANGED connectState
    BY <2>1, <2>2, InternalDisconnectKept, SilentOnce
  <2>3. CASE CloseOnly(c) /\ UNCHANGED commands
    <3>1. \A d \in Clients : connectState'[d] = -2 => connectState[d] = -2
      BY <2>3, CloseOnlyCloses
    <3>2. QED
      BY <2>1, <2>3, <3>1, SilentOnce
  <2>4. QED
    BY <2>1, <2>2, <2>3
<1>3. ASSUME NEW c \in Clients, HandleRefused(c)
      PROVE  Once'
  BY <1>3, AttemptOnce DEF HandleRefused
<1>4. ASSUME NEW c \in Clients, HandleAck(c)
      PROVE  Once'
  <2>1. /\ UNCHANGED <<issued, pendingCall, disconnect, inHand, pendingWrite, commands, connectState>>
        /\ Acknowledge(c, receiver.pack.id) /\ receiver.pack.type # "CONNACK"
    BY <1>4 DEF HandleAck
  <2>2. receiver.pack.type \in {"none", "ACK"}
    BY <2>1 DEF TypeOK, Answer
  <2>3. receiver.pack.id \in Ids => issued[receiver.pack.id].type # "PUBLISH0"
    BY <2>2 DEF Known, PackKnown, Ids
  <2>4. QED
    BY <2>1, <2>3, AcknowledgeOnce
<1>5. ASSUME NEW c \in Clients, HandleConnected(c)
      PROVE  Once'
  <2>1. /\ UNCHANGED <<issued, pendingCall, disconnect, inHand, pendingWrite>>
        /\ connectState' = [connectState EXCEPT ![c] = 0]
        /\ notified' = [notified EXCEPT ![connect[c].id] = @ + 1]
    BY <1>5 DEF HandleConnected, Notify
  <2>2. \A d \in Clients : connectState'[d] = -2 => connectState[d] = -2
    BY <2>1 DEF TypeOK
  <2>3. \A i \in Ids : issued[i].type # "CONNECT" => NotReported(i)
    BY <2>1, ConnectReport DEF Known, AttemptKnown
  <2>4. \A d \in Clients : responses'[d] \subseteq responses[d]
    <3>1. UNCHANGED responses \/ responses' = [responses EXCEPT ![c] = {}]
      BY <1>5 DEF HandleConnected, CleanSession
    <3>2. QED
      BY <3>1 DEF TypeOK
  <2>5. \A x \in commands' : x \in commands \/ Harmless(x)
    <3>1. \/ commands' \subseteq commands
          \/ commands' = AtHead(commands, c, "DISCONNECT", 0, 0)
      BY <1>5 DEF HandleConnected, CleanSession, WithoutClient
    <3>2. QED
      BY <3>1, AtHeadKept DEF Harmless
  <2>6. QED
    BY <2>1, <2>2, <2>3, <2>4, <2>5, QuietOnce
<1>6. QED
  BY <1>1, <1>2, <1>3, <1>4, <1>5 DEF Handle

LEMMA OthersOnce ==
  ASSUME TypeOK, Known, Once
  PROVE  /\ \A f : Select(f) => Once'
         /\ \A f : ContinueWrite(f) => Once'
         /\ Retry => Once'
         /\ Network => Once'
         /\ UNCHANGED vars => Once'
<1> USE DEF session, app, connection, callbacks
<1>1. \A f : Select(f) => Once'
  BY SilentOnce DEF Select
<1>2. ASSUME NEW f, ContinueWrite(f)
      PROVE  Once'
  <2>1. UNCHANGED <<issued, pendingCall, disconnect, inHand, commands, connectState>>
    BY <1>2 DEF ContinueWrite
  <2>2. CASE UNCHANGED <<pendingWrite, responses, callbacks>>
    BY <2>1, <2>2, SilentOnce
  <2>3. QED
    BY <1>2, <2>1, <2>2, WriteCompleteOnce DEF ContinueWrite
<1>3. ASSUME Retry
      PROVE  Once'
  <2>1. \A x \in commands' : x \in commands \/ Harmless(x)
    BY <1>3, RetryWrites, InternalDisconnectKept
  <2>2. QED
    BY <1>3, <2>1, RetryWrites, SilentOnce
<1>4. Network => Once'
  BY SilentOnce DEF Network, TcpUp, TcpFail, PeerClose, SetStatus
<1>5. UNCHANGED vars => Once'
  BY SilentOnce DEF vars
<1>6. QED
  BY <1>1, <1>2, <1>3, <1>4, <1>5

LEMMA OnceNext ==
  ASSUME TypeOK, Known, Once, [Next]_vars
  PROVE  Once'
BY ApplicationOnce, ProcessCommandOnce, CheckTimeoutsOnce, CycleOnce, HandleOnce, OthersOnce
   DEF Next, ReceiveThread

LEMMA OnceCorrect == Spec => []Once
<1>1. Init => Once
  BY DEF Init, Once, OnceAt, OnePlace, Held, Queued, Storing, Unflagged, Responding, Writing,
         Closing, NoCall, NoCommand, Ids
<1>2. TypeOK /\ Known /\ Once /\ [Next]_vars => Once'
  BY OnceNext
<1>3. QED
  BY <1>1, <1>2, TypeCorrect, KnownCorrect, PTL DEF Spec

\* A request or a user disconnect is reported to the application at most once, for
\* any number of clients, calls and descriptors: not by the answer and by the
\* write that completes late, not for the disconnect that is closed by the peer while it
\* waits for its messages, and not for a publish that is sent again.
THEOREM RequestOnceCorrect == Spec => []RequestOnce
<1>1. Once => RequestOnce
  BY DEF Once, OnceAt, RequestOnce
<1>2. QED
  BY <1>1, OnceCorrect, PTL

-----------------------------------------------------------------------------
(* NothingForgotten, for an application that publishes nothing with QoS 0: *)
(* the late completion of a QoS 0 write frees the first response of its    *)
(* client, whichever it is, and nothing reports that one any more.         *)

NoneAtQoS0 == \A i \in Ids : issued[i].type # "PUBLISH0"

LEMMA NoneAtQoS0Next ==
  ASSUME "PUBLISH0" \notin Requests, TypeOK, NoneAtQoS0, [Next]_vars
  PROVE  NoneAtQoS0'
<1> USE DEF session, app, connection, callbacks
<1>1. UNCHANGED issued => NoneAtQoS0'
  BY DEF NoneAtQoS0
<1>2. ASSUME NEW c \in Clients, NEW t \in CallTypes, t # "PUBLISH0", NEW i,
             issued' = [issued EXCEPT ![i] = [client |-> c, type |-> t]]
      PROVE  NoneAtQoS0'
  BY <1>2 DEF TypeOK, NoneAtQoS0
<1>3. \A c \in Clients : Connect(c) => NoneAtQoS0'
  BY <1>2 DEF Connect, CallTypes
<1>4. \A c \in Clients, t \in CallTypes : CheckConnected(c, t) => NoneAtQoS0'
  BY <1>2 DEF CheckConnected
<1>5. AddCommand => NoneAtQoS0'
  BY <1>1 DEF AddCommand
<1>6. ProcessCommand => UNCHANGED issued
  BY DEF ProcessCommand, IgnoreConnect, ProcessConnect, ProcessDisconnect, ProcessRequest,
         ProcessPublish0, FlagPendingWrite, StoreResponse
<1>7. Cycle => UNCHANGED issued
  BY DEF Cycle, CycleNobody, CycleConnecting, CycleReadError, CycleNothing, CycleRead,
         CycleIncoming
<1>8. Handle \/ Retry => UNCHANGED issued
  BY DEF Handle, HandleNobody, HandleError, HandleConnected, HandleRefused, HandleAck, Retry
<1>9. /\ \A f : Select(f) \/ ContinueWrite(f) => UNCHANGED issued
      /\ \A c : CheckTimeouts(c) => UNCHANGED issued
      /\ Network \/ UNCHANGED vars => UNCHANGED issued
  BY DEF Select, ContinueWrite, CheckTimeouts, Network, TcpUp, TcpFail, PeerClose, SetStatus, vars
<1>10. QED
  BY <1>1, <1>3, <1>4, <1>5, <1>6, <1>7, <1>8, <1>9 DEF Next, Application, ReceiveThread

\* what holds without clean sessions and without QoS 0
Remembered ==
  \A i \in Ids : issued[i].type \in RequestTypes => Waiting(i) \/ notified[i] > 0

LEMMA ReportGrows ==
  ASSUME TypeOK, notified' = notified \/ \E j : notified' = [notified EXCEPT ![j] = @ + 1]
  PROVE  \A i \in Ids : notified'[i] \in {notified[i], notified[i] + 1}
BY DEF TypeOK

LEMMA QuietRemembered ==
  ASSUME TypeOK, Known, Remembered, UNCHANGED <<issued, pendingCall, inHand>>,
         \A y \in commands : y.type \in RequestTypes => y \in commands',
         \A d \in Clients : responses[d] \subseteq responses'[d],
         notified' = notified \/ \E j : notified' = [notified EXCEPT ![j] = @ + 1]
  PROVE  Remembered'
<1>1. ASSUME NEW i \in Ids, issued[i].type \in RequestTypes, Waiting(i)
      PROVE  Waiting(i)'
  <2>1. \A x \in commands : x.id = i => x.type \in RequestTypes
    BY <1>1, CallFields DEF Known, QueueKnown, Ids
  <2>2. QED
    BY <1>1, <2>1 DEF Waiting
<1>2. \A i \in Ids : notified[i] > 0 => notified'[i] > 0
  BY ReportGrows DEF TypeOK
<1>3. QED
  BY <1>1, <1>2 DEF Remembered

LEMMA PersistentClose ==
  ASSUME CleanClients = {}, NEW c, NEW q, CloseSession(c, q)
  PROVE  commands' = q /\ UNCHANGED session
BY DEF CloseSession

LEMMA AttemptRemembered ==
  ASSUME CleanClients = {}, TypeOK, Known, Remembered, NEW c, AttemptFailed(c),
         UNCHANGED <<issued, pendingCall, inHand>>
  PROVE  Remembered'
<1>1. commands \subseteq commands' /\ UNCHANGED responses
  BY PersistentClose, AtHeadKeeps DEF AttemptFailed, session
<1>2. notified' = notified \/ \E j : notified' = [notified EXCEPT ![j] = @ + 1]
  BY DEF AttemptFailed, Notify, callbacks
<1>3. QED
  BY <1>1, <1>2, QuietRemembered

LEMMA CheckDisconnectRemembered ==
  ASSUME CleanClients = {}, TypeOK, Known, Remembered, NEW c, NEW j, NEW q, CheckDisconnect(c, j, q),
         \A y \in commands : y.type \in RequestTypes => y \in q,
         UNCHANGED <<issued, pendingCall, inHand>>
  PROVE  Remembered'
<1>1. commands' = q /\ UNCHANGED responses
  BY PersistentClose DEF CheckDisconnect, session
<1>2. notified' = notified \/ \E i : notified' = [notified EXCEPT ![i] = @ + 1]
  BY DEF CheckDisconnect, Notify, callbacks
<1>3. QED
  BY <1>1, <1>2, QuietRemembered

LEMMA ApplicationRemembered ==
  ASSUME TypeOK, Known, Remembered, Application
  PROVE  Remembered'
<1> USE DEF session, app, connection, callbacks
<1>1. ASSUME NEW c \in Clients, Connect(c)
      PROVE  Remembered'
  <2>0. PICK j \in Ids : j = calls + 1
    BY <1>1, BoundAssumption DEF Connect, TypeOK, Ids
  <2>1. issued' = [issued EXCEPT ![j] = [client |-> c, type |-> "CONNECT"]]
    BY <1>1, <2>0 DEF Connect
  <2>2. \A i \in Ids : issued'[i].type \in RequestTypes => issued'[i] = issued[i]
    BY <2>1 DEF TypeOK, RequestTypes
  <2>3. commands \subseteq commands' /\ UNCHANGED <<pendingCall, inHand, responses, notified>>
    BY <1>1, AtHeadKeeps DEF Connect
  <2>4. \A i \in Ids : Waiting(i) => Waiting(i)'
    BY <2>3 DEF Waiting
  <2>5. QED
    BY <2>2, <2>3, <2>4 DEF Remembered
<1>2. ASSUME NEW c \in Clients, NEW t \in CallTypes, CheckConnected(c, t)
      PROVE  Remembered'
  <2>0. PICK j \in Ids : j = calls + 1
    BY <1>2, BoundAssumption DEF CheckConnected, TypeOK, Ids
  <2>1. /\ issued' = [issued EXCEPT ![j] = [client |-> c, type |-> t]]
        /\ pendingCall' = [client |-> c, type |-> t, id |-> j]
    BY <1>2, <2>0 DEF CheckConnected
  <2>2. \A i \in Ids : i # j => issued'[i] = issued[i]
    BY <2>1 DEF TypeOK
  <2>3. pendingCall = NoCall /\ UNCHANGED <<commands, inHand, responses, notified>>
    BY <1>2 DEF CheckConnected
  <2>4. \A i \in Ids : Waiting(i) => Waiting(i)'
    BY <2>3 DEF Waiting, NoCall, Ids
  <2>5. Waiting(j)'
    BY <2>1 DEF Waiting
  <2>6. QED
    BY <2>2, <2>3, <2>4, <2>5 DEF Remembered
<1>3. ASSUME AddCommand
      PROVE  Remembered'
  <2>1. /\ commands' = AtTail(commands, pendingCall.client, pendingCall.type, pendingCall.id)
        /\ UNCHANGED <<issued, inHand, responses, notified>>
    BY <1>3 DEF AddCommand
  <2>2. commands \subseteq commands' /\ \E x \in commands' : x.id = pendingCall.id
    <3>1. PICK x : x = [client |-> pendingCall.client, type |-> pendingCall.type,
                        id |-> pendingCall.id, version |-> 0, pos |-> pendingCall.id]
      OBVIOUS
    <3>2. commands' = commands \cup {x}
      BY <2>1, <3>1 DEF AtTail
    <3>3. x.id = pendingCall.id
      BY <3>1
    <3>4. QED
      BY <3>2, <3>3
  <2>3. \A i \in Ids : Waiting(i) => Waiting(i)'
    BY <2>1, <2>2 DEF Waiting
  <2>4. QED
    BY <2>1, <2>3 DEF Remembered
<1>4. QED
  BY <1>1, <1>2, <1>3 DEF Application

LEMMA ProcessRequestRemembered ==
  ASSUME TypeOK, Known, Remembered, NEW x \in commands, ProcessRequest(x)
  PROVE  Remembered'
<1> DEFINE c == x.client
           j == x.id
<1> USE DEF session, app, connection, callbacks
<1>1. /\ UNCHANGED <<issued, pendingCall, inHand>> /\ c \in Clients
      /\ x.type \in RequestTypes /\ j \in Ids
  BY DEF ProcessRequest, TypeOK, Command, RequestTypes
<1>2. commands \ {x} \subseteq commands'
  BY InternalDisconnectKeeps DEF ProcessRequest
<1>3. \/ UNCHANGED responses /\ notified' = [notified EXCEPT ![j] = @ + 1]
      \/ responses' = [responses EXCEPT ![c] = @ \cup {x}] /\ UNCHANGED notified
  BY DEF ProcessRequest, Notify
<1>4. \A d \in Clients : responses[d] \subseteq responses'[d]
  BY <1>3 DEF TypeOK
<1>5. \A i \in Ids : notified[i] > 0 => notified'[i] > 0
  BY <1>3, ReportGrows DEF TypeOK
<1>6. \A i \in Ids : Waiting(i) => Waiting(i)' \/ i = j
  BY <1>1, <1>2, <1>4 DEF Waiting
<1>7. Waiting(j)' \/ notified'[j] > 0
  <2>1. CASE responses' = [responses EXCEPT ![c] = @ \cup {x}]
    <3>1. x \in responses'[c]
      BY <1>1, <2>1 DEF TypeOK
    <3>2. QED
      BY <1>1, <3>1 DEF Waiting
  <2>2. CASE notified' = [notified EXCEPT ![j] = @ + 1]
    BY <1>1, <2>2 DEF TypeOK
  <2>3. QED
    BY <1>3, <2>1, <2>2
<1>8. QED
  BY <1>1, <1>5, <1>6, <1>7 DEF Remembered

LEMMA ProcessCommandRemembered ==
  ASSUME CleanClients = {}, TypeOK, Known, NoneAtQoS0, Remembered, ProcessCommand
  PROVE  Remembered'
<1> USE DEF session, app, connection, callbacks
<1>1. ASSUME NEW x \in commands, IgnoreConnect(x)
      PROVE  Remembered'
  BY <1>1, QuietRemembered DEF IgnoreConnect, RequestTypes
<1>2. ASSUME NEW x \in commands, ProcessConnect(x)
      PROVE  Remembered'
  <2>1. UNCHANGED <<issued, pendingCall, inHand, responses>> /\ x.type = "CONNECT"
    BY <1>2 DEF ProcessConnect
  <2>2. PICK v : MQTTProtocol_connect(x, v)
    BY <1>2 DEF ProcessConnect
  <2>3. CASE ConnectFailed(x, v)
    <3>1. commands \ {x} \subseteq commands'
      BY <2>3, AtHeadKeeps DEF ConnectFailed
    <3>2. notified' = notified \/ \E j : notified' = [notified EXCEPT ![j] = @ + 1]
      BY <2>3 DEF ConnectFailed, Notify
    <3>3. QED
      BY <2>1, <3>1, <3>2, QuietRemembered DEF RequestTypes
  <2>4. CASE \E s : ConnectStarted(x, v, s)
    BY <2>1, <2>4, QuietRemembered DEF ConnectStarted, RequestTypes
  <2>5. QED
    BY <2>2, <2>3, <2>4 DEF MQTTProtocol_connect
<1>3. ASSUME NEW x \in commands, ProcessDisconnect(x)
      PROVE  Remembered'
  <2>1. /\ UNCHANGED <<issued, pendingCall, inHand>>
        /\ \A y \in commands : y.type \in RequestTypes => y \in commands \ {x}
    BY <1>3 DEF ProcessDisconnect, RequestTypes
  <2>2. CASE CheckDisconnect(x.client, x.id, commands \ {x})
    BY <2>1, <2>2, CheckDisconnectRemembered
  <2>3. CASE commands' = commands \ {x} /\ UNCHANGED <<session, callbacks>>
    BY <2>1, <2>3, QuietRemembered
  <2>4. QED
    BY <1>3, <2>2, <2>3 DEF ProcessDisconnect
<1>4. \A x \in commands : ~ProcessPublish0(x)
  BY CallFields DEF ProcessPublish0, Known, QueueKnown, NoneAtQoS0, TypeOK, Command, RequestTypes, Ids
<1>5. ~FlagPendingWrite /\ ~StoreResponse
  BY CallFields DEF FlagPendingWrite, StoreResponse, Known, HandKnown, NoneAtQoS0, NoCommand
<1>6. QED
  BY <1>1, <1>2, <1>3, <1>4, <1>5, ProcessRequestRemembered DEF ProcessCommand

LEMMA AcknowledgeRemembered ==
  ASSUME TypeOK, Known, Remembered, NEW c \in Clients, NEW j, Acknowledge(c, j),
         UNCHANGED <<issued, pendingCall, inHand, commands>>
  PROVE  Remembered'
<1>1. CASE UNCHANGED <<responses, callbacks>>
  BY <1>1, QuietRemembered DEF callbacks
<1>2. ASSUME NEW r \in responses[c], r.id = j, Notify(j, c, view[c]),
             responses' = [responses EXCEPT ![c] = {x \in @ : x.id # j}]
      PROVE  Remembered'
  <2>1. j \in Ids
    BY <1>2 DEF Known, ResponsesKnown, IsCall
  <2>2. notified'[j] > 0 /\ \A i \in Ids : notified[i] > 0 => notified'[i] > 0
    BY <1>2, <2>1 DEF TypeOK, Notify
  <2>3. \A d \in Clients : \A x \in responses[d] : x \in responses'[d] \/ x.id = j
    BY <1>2 DEF TypeOK
  <2>4. \A i \in Ids : Waiting(i) => Waiting(i)' \/ i = j
    BY <2>3 DEF Waiting
  <2>5. QED
    BY <2>2, <2>4 DEF Remembered
<1>3. QED
  BY <1>1, <1>2 DEF Acknowledge

LEMMA CycleRemembered ==
  ASSUME CleanClients = {}, TypeOK, Known, Remembered, Cycle
  PROVE  Remembered'
<1> USE DEF session, app, connection, callbacks
<1>1. CASE CycleNobody \/ \E c \in Clients : CycleNothing(c)
  BY <1>1, QuietRemembered DEF CycleNobody, CycleNothing
<1>2. ASSUME NEW c \in Clients, CycleConnecting(c)
      PROVE  Remembered'
  <2>1. UNCHANGED <<issued, pendingCall, inHand>>
    BY <1>2 DEF CycleConnecting
  <2>2. AttemptFailed(c) \/ UNCHANGED <<commands, session, callbacks>>
    BY <1>2 DEF CycleConnecting
  <2>3. QED
    BY <2>1, <2>2, AttemptRemembered, QuietRemembered
<1>3. ASSUME NEW c \in Clients, CycleReadError(c)
      PROVE  Remembered'
  <2>1. UNCHANGED <<issued, pendingCall, inHand>>
    BY <1>3 DEF CycleReadError
  <2>2. AttemptFailed(c) \/ UNCHANGED <<commands, session, callbacks>>
    BY <1>3 DEF CycleReadError
  <2>3. QED
    BY <2>1, <2>2, AttemptRemembered, QuietRemembered
<1>4. ASSUME NEW c \in Clients, CycleRead(c)
      PROVE  Remembered'
  <2>1. UNCHANGED <<issued, pendingCall, inHand, commands>>
    BY <1>4 DEF CycleRead
  <2>2. (\E j : Acknowledge(c, j)) \/ UNCHANGED <<responses, callbacks>>
    BY <1>4 DEF CycleRead
  <2>3. QED
    BY <2>1, <2>2, AcknowledgeRemembered, QuietRemembered
<1>5. \A c \in Clients : CycleIncoming(c) => Remembered'
  BY IncomingWrite, QuietRemembered
<1>6. QED
  BY <1>1, <1>2, <1>3, <1>4, <1>5 DEF Cycle

LEMMA HandleRemembered ==
  ASSUME CleanClients = {}, TypeOK, Known, Remembered, Handle
  PROVE  Remembered'
<1> USE DEF session, app, connection, callbacks
<1>1. CASE HandleNobody
  BY <1>1, QuietRemembered DEF HandleNobody
<1>2. ASSUME NEW c \in Clients, HandleError(c)
      PROVE  Remembered'
  <2>1. commands \subseteq commands'
    BY <1>2, InternalDisconnectKeeps DEF HandleError
  <2>2. QED
    BY <1>2, <2>1, QuietRemembered DEF HandleError
<1>3. \A c \in Clients : HandleRefused(c) => Remembered'
  BY AttemptRemembered DEF HandleRefused
<1>4. \A c \in Clients : HandleAck(c) => Remembered'
  BY AcknowledgeRemembered DEF HandleAck
<1>5. ASSUME NEW c \in Clients, HandleConnected(c)
      PROVE  Remembered'
  <2>1. commands \subseteq commands'
    BY <1>5, AtHeadKeeps DEF HandleConnected
  <2>2. UNCHANGED <<issued, pendingCall, inHand, responses>> /\ \E j : notified' = [notified EXCEPT ![j] = @ + 1]
    BY <1>5 DEF HandleConnected, Notify
  <2>3. QED
    BY <2>1, <2>2, QuietRemembered
<1>6. QED
  BY <1>1, <1>2, <1>3, <1>4, <1>5 DEF Handle

LEMMA OthersRemembered ==
  ASSUME CleanClients = {}, TypeOK, Known, NoneAtQoS0, Remembered
  PROVE  /\ \A c \in Clients : CheckTimeouts(c) => Remembered'
         /\ \A f : Select(f) => Remembered'
         /\ \A f : ContinueWrite(f) => Remembered'
         /\ Retry => Remembered'
         /\ Network => Remembered'
         /\ UNCHANGED vars => Remembered'
<1> USE DEF session, app, connection, callbacks
<1>1. \A c \in Clients : CheckTimeouts(c) => Remembered'
  BY AttemptRemembered, CheckDisconnectRemembered DEF CheckTimeouts
<1>2. \A f : Select(f) => Remembered'
  BY QuietRemembered DEF Select
<1>3. ASSUME NEW f, ContinueWrite(f)
      PROVE  Remembered'
  <2>1. \A c \in Clients : pendingWrite[c] = 0
    BY CallFields DEF Known, AttemptKnown, NoneAtQoS0
  <2>2. UNCHANGED <<issued, pendingCall, inHand, commands, responses, callbacks>>
    BY <1>3, <2>1 DEF ContinueWrite, WriteComplete
  <2>3. QED
    BY <2>2, QuietRemembered
<1>4. ASSUME Retry
      PROVE  Remembered'
  <2>1. commands \subseteq commands'
    BY <1>4, InternalDisconnectKeeps DEF Retry, KeepAlive
  <2>2. QED
    BY <1>4, <2>1, QuietRemembered DEF Retry
<1>5. Network => Remembered'
  BY QuietRemembered DEF Network, TcpUp, TcpFail, PeerClose, SetStatus
<1>6. UNCHANGED vars => Remembered'
  BY QuietRemembered DEF vars
<1>7. QED
  BY <1>1, <1>2, <1>3, <1>4, <1>5, <1>6

\* Without clean sessions every request that was accepted is queued, awaits its
\* answer, or has been reported, whatever connections fail and are made again, for any
\* number of clients and calls, as long as the application publishes nothing with QoS 0.
THEOREM NothingForgottenCorrect ==
  ASSUME "PUBLISH0" \notin Requests
  PROVE  Spec => []NothingForgotten
<1>1. CASE CleanClients = {}
  <2>1. Init => NoneAtQoS0 /\ Remembered
    BY DEF Init, NoneAtQoS0, Remembered, NotIssued, RequestTypes
  <2>2. TypeOK /\ Known /\ NoneAtQoS0 /\ Remembered /\ [Next]_vars => NoneAtQoS0' /\ Remembered'
    BY <1>1, NoneAtQoS0Next, ApplicationRemembered, ProcessCommandRemembered, CycleRemembered,
       HandleRemembered, OthersRemembered DEF Next, ReceiveThread
  <2>3. Remembered => NothingForgotten
    BY DEF Remembered, NothingForgotten
  <2>4. QED
    BY <2>1, <2>2, <2>3, TypeCorrect, KnownCorrect, PTL DEF Spec
<1>2. CASE CleanClients # {}
  <2>1. NothingForgotten
    BY <1>2 DEF NothingForgotten
  <2>2. QED
    BY <2>1, PTL
<1>3. QED
  BY <1>1, <1>2

-----------------------------------------------------------------------------
(* Phases: where the CONNECT of a client is, from the completed TCP        *)
(* connect to the CONNACK that the receive thread has in hand.             *)

\* the CONNECT of c is on its connection, and has not been answered
Unanswered(c) == \E p \in Sent(c) : p.type = "CONNECT"
\* the receive thread has a CONNACK that it will take for c's
Connack(c) == receiver.pack.type = "CONNACK" /\ receiver.sock = socket[c]

PhaseKnown == \A c \in Clients : connectState[c] # -2 /\ (connected[c] => connectState[c] = 0)
PackFresh == receiver.pc \in {"select", "cycle"} => receiver.pack.type = "none"
ConnectSent == \A c \in Clients : socket[c] # 0 /\ Unanswered(c) => connectState[c] = 3
OneConnect ==
  \A f \in Sockets :
    /\ \A p, q \in net[f].wire : p.type = "CONNECT" /\ q.type = "CONNECT" => p = q
    /\ net[f].unsent.type = "CONNECT" => \A p \in net[f].wire : p.type # "CONNECT"
OneAnswer ==
  \A c \in Clients : socket[c] # 0 /\ Connack(c) => ~connected[c] /\ ~Unanswered(c)

Phases == PhaseKnown /\ ViewUp /\ PackFresh /\ ConnectSent /\ OneConnect /\ OneAnswer

\* the step writes no CONNECT to socket f
NoConnectWritten(f) ==
  /\ \A p \in net'[f].wire : p.type = "CONNECT" =>
       \/ p \in net[f].wire
       \/ p = net[f].unsent /\ net'[f].unsent.type # "CONNECT"
  /\ net'[f].unsent.type = "CONNECT" => net'[f].unsent = net[f].unsent

\* the step leaves c on its connection and in its phase
PhaseKept(c) ==
  /\ socket'[c] = socket[c] /\ connectState'[c] = connectState[c] /\ connected'[c] = connected[c]
\* the step leaves c without a CONNECT on its connection
PhaseFresh(c) ==
  /\ connectState'[c] \in {0, 1} /\ (connected'[c] => connectState'[c] = 0)
  /\ socket'[c] # 0 => ~Unanswered(c)'
  /\ socket'[c] # 0 /\ connected'[c] => ~Connack(c)'

\* the step gives the receive thread no packet
PackKept ==
  \/ receiver'.pack.type = "none"
  \/ /\ receiver'.pack = receiver.pack /\ receiver'.sock = receiver.sock
     /\ receiver'.pc \in {receiver.pc, "retry", "handle"}

LEMMA OneConnectKept ==
  ASSUME OneConnect, \A f \in Sockets : NoConnectWritten(f)
  PROVE  OneConnect'
BY DEF OneConnect, NoConnectWritten

LEMMA UnansweredKept ==
  ASSUME TypeOK, NEW c \in Clients, socket[c] # 0, socket'[c] = socket[c],
         \A f \in Sockets : NoConnectWritten(f), Unanswered(c)'
  PROVE  Unanswered(c)
<1>1. socket[c] \in Sockets
  BY DEF TypeOK
<1>2. NoConnectWritten(socket[c])
  BY <1>1
<1>3. QED
  BY <1>2 DEF Unanswered, Sent, NoConnectWritten

LEMMA PhasesStep ==
  ASSUME TypeOK, Phases, \A f \in Sockets : NoConnectWritten(f),
         \A c \in Clients : PhaseKept(c) \/ PhaseFresh(c),
         PackKept,
         ViewUp'
  PROVE  Phases'
<1>1. PhaseKnown'
  BY DEF Phases, PhaseKnown, PhaseKept, PhaseFresh
<1>2. PackFresh'
  BY DEF Phases, PackFresh, PackKept
<1>3. ConnectSent'
  <2>1. ASSUME NEW c \in Clients, socket'[c] # 0, Unanswered(c)'
        PROVE  connectState'[c] = 3
    BY <2>1, UnansweredKept DEF Phases, ConnectSent, PhaseKept, PhaseFresh
  <2>2. QED
    BY <2>1 DEF ConnectSent
<1>4. OneConnect'
  BY OneConnectKept DEF Phases
<1>5. OneAnswer'
  <2>1. ASSUME NEW c \in Clients, socket'[c] # 0, Connack(c)'
        PROVE  ~connected'[c] /\ ~Unanswered(c)'
    <3>1. receiver'.pack = receiver.pack /\ receiver'.sock = receiver.sock
      BY <2>1 DEF Connack, PackKept
    <3>2. CASE PhaseKept(c)
      BY <2>1, <3>1, <3>2, UnansweredKept DEF Phases, OneAnswer, Connack, PhaseKept
    <3>3. CASE PhaseFresh(c)
      BY <2>1, <3>3 DEF PhaseFresh
    <3>4. QED
      BY <3>2, <3>3
  <2>2. QED
    BY <2>1 DEF OneAnswer
<1>6. QED
  BY <1>1, <1>2, <1>3, <1>4, <1>5 DEF Phases

LEMMA NetKeptNoConnect ==
  ASSUME UNCHANGED net
  PROVE  \A f \in Sockets : NoConnectWritten(f)
BY DEF NoConnectWritten

LEMMA ControlNoConnect ==
  ASSUME TypeOK, NEW c \in Clients, ControlWritten(c)
  PROVE  \A f \in Sockets : NoConnectWritten(f)
BY DEF ControlWritten, NoConnectWritten, Control, ControlTypes, NoPacket, TypeOK, Socket

\* every step that touches no connection
LEMMA SilentPhases ==
  ASSUME TypeOK, Phases, UNCHANGED <<connected, connectState, socket>>,
         UNCHANGED net \/ \E c \in Clients : ControlWritten(c),
         PackKept,
         \A c \in Clients : view'[c] = "up" <=> view[c] = "up"
  PROVE  Phases'
<1>1. \A c \in Clients : PhaseKept(c)
  BY DEF PhaseKept
<1>2. ViewUp'
  BY DEF Phases, ViewUp
<1>3. QED
  BY <1>1, <1>2, NetKeptNoConnect, ControlNoConnect, PhasesStep

LEMMA CloseOnlyFresh ==
  ASSUME TypeOK, NEW c \in Clients, CloseOnly(c)
  PROVE  /\ \A f \in Sockets : NoConnectWritten(f)
         /\ PhaseFresh(c) /\ ~connected'[c]
         /\ \A d \in Clients \ {c} : PhaseKept(d)
<1>1. \A f \in Sockets : NoConnectWritten(f)
  BY CloseOnlyNet DEF TypeOK, NoConnectWritten, NoPacket, Control
<1>2. socket'[c] = 0 /\ ~connected'[c] /\ connectState'[c] = 0
  BY DEF CloseOnly, TypeOK
<1>3. PhaseFresh(c)
  BY <1>2 DEF PhaseFresh
<1>4. \A d \in Clients \ {c} : PhaseKept(d)
  BY DEF CloseOnly, TypeOK, PhaseKept
<1>5. QED
  BY <1>1, <1>2, <1>3, <1>4

\* c is closed, and the application has been told, or did not believe it connected
LEMMA ClosePhases ==
  ASSUME TypeOK, Phases, NEW c \in Clients, CloseOnly(c),
         PackKept,
         \/ view' = [view EXCEPT ![c] = "down"]
         \/ UNCHANGED view /\ ~connected[c]
  PROVE  Phases'
<1>1. /\ \A f \in Sockets : NoConnectWritten(f)
      /\ PhaseFresh(c) /\ ~connected'[c]
      /\ \A d \in Clients \ {c} : PhaseKept(d)
  BY CloseOnlyFresh
<1>2. view'[c] # "up" /\ \A d \in Clients \ {c} : view'[d] = view[d]
  BY DEF TypeOK, Phases, ViewUp
<1>3. ViewUp'
  BY <1>1, <1>2 DEF Phases, ViewUp, PhaseKept
<1>4. QED
  BY <1>1, <1>3, PhasesStep

\* the attempt of a client that is not connected ends
LEMMA AttemptFailedPhases ==
  ASSUME TypeOK, Phases, NEW c \in Clients, AttemptFailed(c), ~connected[c],
         PackKept
  PROVE  Phases'
<1>1. CloseOnly(c)
  BY DEF AttemptFailed, CloseSession
<1>2. view' = view \/ view' = [view EXCEPT ![c] = "down"]
  BY DEF AttemptFailed, Notify, callbacks
<1>3. QED
  BY <1>1, <1>2, ClosePhases

-----------------------------------------------------------------------------
(* Phases: the application and the send thread *)

LEMMA ApplicationPhases ==
  ASSUME TypeOK, Phases, Application
  PROVE  Phases'
<1> USE DEF connection, session, callbacks, app, PackKept
<1>1. ASSUME NEW c \in Clients, Connect(c)
      PROVE  Phases'
  <2>1. view' = [view EXCEPT ![c] = "connecting"] /\ view[c] \in {"down", "connecting"}
    BY <1>1 DEF Connect
  <2>2. \A d \in Clients : view'[d] = "up" <=> view[d] = "up"
    BY <2>1 DEF TypeOK
  <2>3. QED
    BY <1>1, <2>2, SilentPhases DEF Connect
<1>2. ASSUME NEW c \in Clients, NEW t \in CallTypes, CheckConnected(c, t)
      PROVE  Phases'
  BY <1>2, SilentPhases DEF CheckConnected
<1>3. ASSUME AddCommand
      PROVE  Phases'
  BY <1>3, SilentPhases DEF AddCommand
<1>4. QED
  BY <1>1, <1>2, <1>3 DEF Application

LEMMA OpenSocketPhases ==
  ASSUME TypeOK, SocketsOwned, Phases, PackKept, UNCHANGED connected,
         NEW c \in Clients, NEW f \in Sockets, NEW st, OpenSocket(c, f, st, {}, NoPacket),
         ~connected[c], connectState'[c] \in {0, 1},
         \A d \in Clients \ {c} : connectState'[d] = connectState[d],
         \A d \in Clients : view'[d] = "up" <=> view[d] = "up"
  PROVE  Phases'
<1>1. /\ \A g \in Sockets : g # f => net'[g] = net[g]
      /\ net'[f].wire = {} /\ net'[f].unsent = NoPacket
      /\ socket'[c] = f
      /\ \A d \in Clients \ {c} : socket'[d] = socket[d]
  BY DEF OpenSocket, TypeOK
<1>2. \A g \in Sockets : NoConnectWritten(g)
  BY <1>1 DEF NoConnectWritten, NoPacket
<1>3. PhaseFresh(c)
  BY <1>1 DEF PhaseFresh, Unanswered, Sent, NoPacket
<1>4. \A d \in Clients \ {c} : PhaseKept(d)
  BY <1>1 DEF PhaseKept
<1>5. ViewUp'
  BY DEF Phases, ViewUp
<1>6. QED
  BY <1>2, <1>3, <1>4, <1>5, PhasesStep

LEMMA ProcessConnectPhases ==
  ASSUME "ready" \notin ConnectOutcomes, TypeOK, SocketsOwned, Phases,
         NEW x \in commands, ProcessConnect(x)
  PROVE  Phases'
<1> DEFINE c == x.client
<1>1. c \in Clients /\ connectState[c] = 0 /\ ~connected[c] /\ PackKept
  BY DEF PackKept, ProcessConnect, TypeOK, Command
<1>2. PICK v : MQTTProtocol_connect(x, v)
  BY DEF ProcessConnect
<1>3. ConnectFailed(x, v) =>
        /\ UNCHANGED <<connected, connectState>>
        /\ \A d \in Clients : view'[d] = "up" <=> view[d] = "up"
  <2>1. view[c] # "up"
    BY <1>1 DEF Phases, ViewUp
  <2>2. ConnectFailed(x, v) => UNCHANGED <<connected, connectState>>
    BY DEF ConnectFailed
  <2>3. ConnectFailed(x, v) => view' = view \/ view' = [view EXCEPT ![c] = "down"]
    BY DEF ConnectFailed, Notify, callbacks
  <2>4. QED
    BY <1>1, <2>1, <2>2, <2>3 DEF TypeOK
<1>4. ConnectStarted(x, v, 1) =>
        /\ UNCHANGED <<connected, view>> /\ connectState'[c] = 1
        /\ \A d \in Clients \ {c} : connectState'[d] = connectState[d]
  BY <1>1 DEF ConnectStarted, TypeOK, callbacks
<1>5. CASE ConnectFailed(x, v) /\ UNCHANGED <<socket, net>>
  BY <1>1, <1>3, <1>5, SilentPhases
<1>6. CASE ConnectFailed(x, v) /\ socket' = [socket EXCEPT ![c] = 0] /\ UNCHANGED net
  <2>1. /\ socket'[c] = 0 /\ connectState'[c] = 0 /\ ~connected'[c]
        /\ \A d \in Clients \ {c} : PhaseKept(d)
    BY <1>1, <1>3, <1>6 DEF TypeOK, PhaseKept
  <2>2. PhaseFresh(c)
    BY <2>1 DEF PhaseFresh
  <2>3. ViewUp'
    BY <1>3, <1>6 DEF Phases, ViewUp
  <2>4. QED
    BY <1>1, <1>6, <2>1, <2>2, <2>3, NetKeptNoConnect, PhasesStep
<1>7. ASSUME NEW f \in Sockets, NEW st, OpenSocket(c, f, st, {}, NoPacket),
             ConnectFailed(x, v) \/ ConnectStarted(x, v, 1)
      PROVE  Phases'
  BY <1>1, <1>3, <1>4, <1>7, OpenSocketPhases
<1>8. QED
  BY <1>2, <1>5, <1>6, <1>7 DEF MQTTProtocol_connect

LEMMA CheckDisconnectPhases ==
  ASSUME ~DisconnectDelay, TypeOK, Phases, NEW c \in Clients, NEW i, NEW q,
         CheckDisconnect(c, i, q), PackKept
  PROVE  Phases'
<1>1. CloseSession(c, q) /\ (\/ Notify(i, c, "down")
                             \/ view' = [view EXCEPT ![c] = IF connected[c] THEN "down" ELSE @])
  BY DEF CheckDisconnect
<1>2. CloseOnly(c)
  BY <1>1 DEF CloseSession
<1>3. view' = [view EXCEPT ![c] = "down"] \/ (UNCHANGED view /\ ~connected[c])
  BY <1>1 DEF Notify, TypeOK
<1>4. QED
  BY <1>2, <1>3, ClosePhases

\* a packet other than a CONNECT is written
LEMMA WriteNoConnect ==
  ASSUME TypeOK, NEW g, NEW p, NEW w, p.type # "CONNECT",
         net' = [net EXCEPT ![g] = Written(@, p, w)]
  PROVE  \A f \in Sockets : NoConnectWritten(f)
<1>1. net \in [Sockets -> Socket]
  BY DEF TypeOK
<1>2. ASSUME NEW s \in Socket
      PROVE  /\ Written(s, p, w).wire \in {s.wire, s.wire \cup {p}}
             /\ Written(s, p, w).unsent \in {s.unsent, p}
  BY DEF Written, Received, Answerable, Socket
<1>3. ASSUME NEW f \in Sockets
      PROVE  /\ net'[f].wire \in {net[f].wire, net[f].wire \cup {p}}
             /\ net'[f].unsent \in {net[f].unsent, p}
  BY <1>1, <1>2, <1>3
<1>4. QED
  BY <1>3 DEF NoConnectWritten

LEMMA WritePhases ==
  ASSUME TypeOK, Phases, NEW g, NEW p, NEW w, p.type # "CONNECT",
         net' = [net EXCEPT ![g] = Written(@, p, w)],
         PackKept, UNCHANGED <<connected, connectState, socket, view>>
  PROVE  Phases'
<1>1. \A c \in Clients : PhaseKept(c)
  BY DEF PhaseKept
<1>2. ViewUp'
  BY DEF Phases, ViewUp
<1>3. QED
  BY <1>1, <1>2, WriteNoConnect, PhasesStep

\* the callback of a request leaves the view as it is
LEMMA NotifyRequest ==
  ASSUME TypeOK, NEW i, NEW c, Notify(i, c, view[c])
  PROVE  UNCHANGED view
BY DEF Notify, TypeOK

LEMMA ProcessCommandPhases ==
  ASSUME "ready" \notin ConnectOutcomes, ~DisconnectDelay, TypeOK, SocketsOwned, Phases,
         ProcessCommand
  PROVE  Phases'
<1> USE DEF connection, session, callbacks, app, PackKept
<1>1. \A x \in commands : x.client \in Clients
  BY DEF TypeOK, Command
<1>2. \A x \in commands : IgnoreConnect(x) => Phases'
  BY SilentPhases DEF IgnoreConnect
<1>3. ASSUME NEW x \in commands, ProcessDisconnect(x)
      PROVE  Phases'
  <2>1. CASE CheckDisconnect(x.client, x.id, commands \ {x})
    BY <1>1, <1>3, <2>1, CheckDisconnectPhases DEF ProcessDisconnect
  <2>2. CASE UNCHANGED <<connection, session, net, callbacks>>
    BY <1>3, <2>2, SilentPhases DEF ProcessDisconnect
  <2>3. QED
    BY <1>3, <2>1, <2>2 DEF ProcessDisconnect
<1>4. ASSUME NEW x \in commands, ProcessRequest(x)
      PROVE  Phases'
  <2>1. PICK p, w : /\ p = [type |-> x.type, id |-> x.id]
                    /\ net' = [net EXCEPT ![socket[x.client]] = Written(@, p, w)]
    BY <1>4 DEF ProcessRequest
  <2>2. p.type # "CONNECT"
    BY <1>4, <2>1 DEF ProcessRequest
  <2>3. PackKept /\ UNCHANGED <<connected, connectState, socket>>
    BY <1>4 DEF ProcessRequest
  <2>4. UNCHANGED view
    BY <1>4, NotifyRequest DEF ProcessRequest
  <2>5. QED
    BY <2>1, <2>2, <2>3, <2>4, WritePhases
<1>5. ASSUME NEW x \in commands, ProcessPublish0(x)
      PROVE  Phases'
  <2>1. PICK p, w : /\ p = [type |-> x.type, id |-> x.id]
                    /\ net' = [net EXCEPT ![socket[x.client]] = Written(@, p, w)]
    BY <1>5 DEF ProcessPublish0
  <2>2. p.type # "CONNECT"
    BY <1>5, <2>1 DEF ProcessPublish0
  <2>3. PackKept /\ UNCHANGED <<connected, connectState, socket>>
    BY <1>5 DEF ProcessPublish0
  <2>4. UNCHANGED view
    BY <1>5, NotifyRequest DEF ProcessPublish0
  <2>5. QED
    BY <2>1, <2>2, <2>3, <2>4, WritePhases
<1>6. FlagPendingWrite \/ StoreResponse => Phases'
  BY SilentPhases DEF FlagPendingWrite, StoreResponse
<1>7. QED
  BY <1>2, <1>3, <1>4, <1>5, <1>6, ProcessConnectPhases DEF ProcessCommand

\* a client that is not idle is not connected, so that the failure of its attempt
\* contradicts nothing the application was told
LEMMA CheckTimeoutsPhases ==
  ASSUME TypeOK, Phases, NEW c \in Clients, CheckTimeouts(c)
  PROVE  Phases'
<1>1. connectState[c] # 0 /\ AttemptFailed(c) /\ UNCHANGED receiver
  BY DEF CheckTimeouts, Phases, PhaseKnown
<1>2. ~connected[c] /\ PackKept
  BY <1>1 DEF Phases, PhaseKnown, PackKept
<1>3. QED
  BY <1>1, <1>2, AttemptFailedPhases

-----------------------------------------------------------------------------
(* Phases: the receive thread and the network *)

\* the CONNECT is written after the completed TCP connect
LEMMA ConnectWrittenPhases ==
  ASSUME TypeOK, SocketsOwned, Phases, NEW c \in Clients, NEW f \in Sockets, NEW p, NEW w,
         socket[c] = f, connectState[c] = 1, p.type = "CONNECT",
         net' = [net EXCEPT ![f] = Written(@, p, w)],
         connectState' = [connectState EXCEPT ![c] = 3],
         UNCHANGED <<connected, socket, view>>, receiver'.pack.type = "none"
  PROVE  Phases'
<1>0. f # 0 /\ net[f] \in Socket
  BY BoundAssumption DEF Sockets, TypeOK
<1>1. net'[f] = Written(net[f], p, w) /\ \A g \in Sockets \ {f} : net'[g] = net[g]
  BY DEF TypeOK
<1>2. ~Unanswered(c) /\ ~connected[c]
  BY <1>0 DEF Phases, ConnectSent, PhaseKnown
<1>3. net[f].unsent.type # "CONNECT" /\ \A m \in net[f].wire : m.type # "CONNECT"
  BY <1>2 DEF Unanswered, Sent
<1>4. \/ net'[f].wire = net[f].wire /\ net'[f].unsent \in {net[f].unsent, p}
      \/ net'[f].wire = net[f].wire \cup {p} /\ net'[f].unsent = net[f].unsent
  BY <1>0, <1>1 DEF Written, Received, Answerable, ControlTypes, Socket
<1>5. PhaseKnown'
  BY <1>2 DEF Phases, PhaseKnown, TypeOK
<1>6. PackFresh' /\ ViewUp'
  BY DEF Phases, PackFresh, ViewUp
<1>7. ConnectSent'
  <2>1. ASSUME NEW d \in Clients, d # c, socket[d] # 0, Unanswered(d)'
        PROVE  connectState'[d] = 3
    <3>1. socket[d] # f /\ socket[d] \in Sockets
      BY <2>1 DEF SocketsOwned, TypeOK
    <3>2. Unanswered(d)
      BY <1>1, <2>1, <3>1 DEF Unanswered, Sent
    <3>3. QED
      BY <2>1, <3>2 DEF Phases, ConnectSent, TypeOK
  <2>2. connectState'[c] = 3
    BY DEF TypeOK
  <2>3. QED
    BY <2>1, <2>2 DEF ConnectSent
<1>8. OneConnect'
  BY <1>1, <1>3, <1>4 DEF Phases, OneConnect
<1>9. OneAnswer'
  BY DEF OneAnswer, Connack
<1>10. QED
  BY <1>5, <1>6, <1>7, <1>8, <1>9 DEF Phases

\* the answer to p is read: no CONNECT is left when it is the answer to one
LEMMA CycleReadPhases ==
  ASSUME TypeOK, SocketsOwned, Phases, NEW c \in Clients, CycleRead(c)
  PROVE  Phases'
<1> USE DEF connection, session, callbacks, app
<1>0. receiver \in [pc : {"select", "cycle", "retry", "handle"}, sock : Sockets \cup {0},
                    error : BOOLEAN, pack : Answer]
  BY DEF TypeOK
<1>1. PICK f \in Sockets : f = receiver.sock /\ f = socket[c]
  BY <1>0 DEF CycleRead
<1>2. PICK p \in net[f].wire :
        /\ net' = [net EXCEPT ![f].wire = @ \ {p}]
        /\ IF p.type = "PUBLISH"
           THEN /\ Acknowledge(c, p.id)
                /\ receiver'.pack = receiver.pack
           ELSE /\ receiver'.pack.type = (IF p.type = "CONNECT" THEN "CONNACK" ELSE "ACK")
                /\ UNCHANGED view
        /\ receiver'.sock = receiver.sock /\ receiver'.pc = "retry"
  <2>1. PICK p \in net[f].wire :
          /\ net' = [net EXCEPT ![f].wire = @ \ {p}]
          /\ IF p.type = "PUBLISH"
             THEN /\ Acknowledge(c, p.id)
                  /\ receiver' = [receiver EXCEPT !.pc = "retry", !.error = FALSE]
             ELSE /\ \E ok \in BOOLEAN :
                       receiver' = [receiver EXCEPT !.pc = "retry", !.error = FALSE,
                         !.pack = [type |-> IF p.type = "CONNECT" THEN "CONNACK" ELSE "ACK",
                                   id |-> p.id, ok |-> ok]]
                  /\ UNCHANGED view
    BY <1>1 DEF CycleRead
  <2>2. CASE p.type = "PUBLISH"
    BY <1>0, <2>1, <2>2
  <2>3. CASE p.type # "PUBLISH"
    <3>1. PICK ok \in BOOLEAN :
            receiver' = [receiver EXCEPT !.pc = "retry", !.error = FALSE,
              !.pack = [type |-> IF p.type = "CONNECT" THEN "CONNACK" ELSE "ACK",
                        id |-> p.id, ok |-> ok]]
      BY <2>1, <2>3
    <3>2. /\ receiver'.pack.type = (IF p.type = "CONNECT" THEN "CONNACK" ELSE "ACK")
          /\ receiver'.sock = receiver.sock /\ receiver'.pc = "retry"
      BY <1>0, <3>1
    <3>3. QED
      BY <2>1, <2>3, <3>2
  <2>4. QED
    BY <2>2, <2>3
<1>3. UNCHANGED <<connected, connectState, socket>>
  BY DEF CycleRead
<1>4. UNCHANGED view
  BY <1>2, NotifyRequest DEF Acknowledge
<1>5. net'[f] = [net[f] EXCEPT !.wire = @ \ {p}] /\ \A g \in Sockets \ {f} : net'[g] = net[g]
  BY <1>2 DEF TypeOK
<1>6. net'[f].wire = net[f].wire \ {p} /\ net'[f].unsent = net[f].unsent
  BY <1>5 DEF TypeOK, Socket
<1>7. \A g \in Sockets : NoConnectWritten(g)
  BY <1>5, <1>6 DEF NoConnectWritten
<1>8. \A d \in Clients : PhaseKept(d)
  BY <1>3 DEF PhaseKept
<1>9. ViewUp'
  BY <1>3, <1>4 DEF Phases, ViewUp
<1>10. receiver.pack.type = "none"
  BY DEF CycleRead, Phases, PackFresh
<1>11. CASE p.type = "PUBLISH"
  <2>1. PackKept
    BY <1>2, <1>10, <1>11 DEF PackKept
  <2>2. QED
    BY <1>7, <1>8, <1>9, <2>1, PhasesStep
<1>12. CASE p.type # "PUBLISH"
  <2>1. PhaseKnown' /\ PackFresh'
    BY <1>2, <1>3 DEF Phases, PhaseKnown, PackFresh
  <2>2. ConnectSent'
    BY <1>3, <1>7, UnansweredKept DEF Phases, ConnectSent
  <2>3. OneConnect'
    BY <1>7, OneConnectKept DEF Phases
  <2>4. ASSUME NEW d \in Clients, socket'[d] # 0, Connack(d)'
        PROVE  ~connected'[d] /\ ~Unanswered(d)'
    <3>1. d = c /\ p.type = "CONNECT"
      BY <1>1, <1>2, <1>3, <1>12, <2>4 DEF Connack, SocketsOwned
    <3>2. Unanswered(c) /\ socket[c] # 0
      BY <1>1, <1>3, <2>4, <3>1 DEF Unanswered, Sent
    <3>3. ~connected[c]
      BY <3>2 DEF Phases, ConnectSent, PhaseKnown
    <3>4. net[f].unsent.type # "CONNECT" /\ \A q \in net[f].wire : q.type = "CONNECT" => q = p
      BY <3>1 DEF Phases, OneConnect
    <3>5. ~Unanswered(c)'
      BY <1>1, <1>3, <1>6, <3>4 DEF Unanswered, Sent
    <3>6. QED
      BY <1>3, <3>1, <3>3, <3>5
  <2>5. QED
    BY <1>9, <2>1, <2>2, <2>3, <2>4 DEF Phases, OneAnswer
<1>13. QED
  BY <1>11, <1>12

LEMMA CyclePhases ==
  ASSUME TypeOK, SocketsOwned, Phases, Cycle
  PROVE  Phases'
<1> USE DEF connection, session, callbacks, app
<1>0. receiver \in [pc : {"select", "cycle", "retry", "handle"}, sock : Sockets \cup {0},
                    error : BOOLEAN, pack : Answer]
  BY DEF TypeOK
<1>1. ASSUME receiver.pc = "cycle",
             \/ receiver' = [receiver EXCEPT !.pc = "retry"]
             \/ receiver' = [receiver EXCEPT !.pc = "retry", !.error = FALSE]
      PROVE  PackKept /\ receiver'.pack.type = "none"
  BY <1>0, <1>1 DEF PackKept, Phases, PackFresh
<1>2. CASE CycleNobody
  BY <1>1, <1>2, SilentPhases DEF CycleNobody
<1>3. \A c \in Clients : CycleNothing(c) => Phases'
  BY <1>1, SilentPhases DEF CycleNothing
<1>4. ASSUME NEW c \in Clients, CycleConnecting(c)
      PROVE  Phases'
  <2>1. PackKept /\ receiver'.pack.type = "none"
    BY <1>1, <1>4 DEF CycleConnecting
  <2>2. PICK f \in Sockets : f = receiver.sock /\ f = socket[c]
    BY <1>0, <1>4 DEF CycleConnecting
  <2>3. connectState[c] = 1 /\ ~connected[c]
    BY <1>4 DEF CycleConnecting, Phases, PhaseKnown
  <2>4. CASE AttemptFailed(c)
    BY <2>1, <2>3, <2>4, AttemptFailedPhases
  <2>5. ASSUME NEW w, NEW p, p.type = "CONNECT",
               net' = [net EXCEPT ![f] = Written(@, p, w)],
               connectState' = [connectState EXCEPT ![c] = 3],
               UNCHANGED <<connected, socket, view>>
        PROVE  Phases'
    BY <2>1, <2>2, <2>3, <2>5, ConnectWrittenPhases
  <2>6. CASE /\ \E w : net' = [net EXCEPT ![f] = Written(@, [type |-> "CONNECT", id |-> connect[c].id], w)]
             /\ connectState' = [connectState EXCEPT ![c] = 3]
             /\ UNCHANGED <<connected, socket, view>>
    <3>1. PICK w, p : /\ p = [type |-> "CONNECT", id |-> connect[c].id]
                      /\ net' = [net EXCEPT ![f] = Written(@, p, w)]
      BY <2>6
    <3>2. p.type = "CONNECT"
      BY <3>1
    <3>3. QED
      BY <2>5, <2>6, <3>1, <3>2
  <2>7. QED
    BY <1>4, <2>2, <2>4, <2>6 DEF CycleConnecting
<1>5. ASSUME NEW c \in Clients, CycleReadError(c)
      PROVE  Phases'
  <2>1. PackKept
    BY <1>1, <1>5 DEF CycleReadError
  <2>2. CASE connectState[c] = 3 /\ AttemptFailed(c)
    <3>1. ~connected[c]
      BY <2>2 DEF Phases, PhaseKnown
    <3>2. QED
      BY <2>1, <2>2, <3>1, AttemptFailedPhases
  <2>3. CASE UNCHANGED <<connection, net, callbacks>>
    BY <2>1, <2>3, SilentPhases
  <2>4. QED
    BY <1>5, <2>2, <2>3 DEF CycleReadError
<1>6. ASSUME NEW c \in Clients, CycleIncoming(c)
      PROVE  Phases'
  <2>1. PackKept
    BY <1>1, <1>6, IncomingWrite
  <2>2. QED
    BY <1>6, <2>1, IncomingWrite, SilentPhases
<1>7. QED
  BY <1>2, <1>3, <1>4, <1>5, <1>6, CycleReadPhases DEF Cycle

\* the connection is established: nothing is left of the CONNECT
LEMMA HandleConnectedPhases ==
  ASSUME TypeOK, SocketsOwned, Phases, NEW c \in Clients, HandleConnected(c)
  PROVE  Phases'
<1>1. PICK f \in Sockets : f = receiver.sock /\ f = socket[c] /\ f # 0
  BY DEF HandleConnected, TypeOK
<1>2. ~Unanswered(c)
  BY <1>1 DEF HandleConnected, Phases, OneAnswer, Connack
<1>3. receiver'.pack.type = "none"
  BY DEF HandleConnected, Done, NoAnswer
<1>4. \/ net' = net
      \/ \E m, w : net' = [net EXCEPT ![f] = Resent(@, outbound[c], m, w)]
  BY <1>1 DEF HandleConnected
<1>5. ASSUME NEW s \in Socket, NEW msgs, NEW m, NEW w
      PROVE  /\ \A p \in Resent(s, msgs, m, w).wire : p \in s.wire \/ p.type = "PUBLISH"
             /\ LET u == Resent(s, msgs, m, w).unsent IN u = s.unsent \/ u.type = "PUBLISH"
  BY DEF Resent, Written, Received, Answerable, Socket
<1>6. \A g \in Sockets : NoConnectWritten(g)
  <2>1. CASE net' = net
    BY <2>1, NetKeptNoConnect
  <2>2. ASSUME NEW m, NEW w, net' = [net EXCEPT ![f] = Resent(@, outbound[c], m, w)]
        PROVE  \A g \in Sockets : NoConnectWritten(g)
    <3>1. net'[f] = Resent(net[f], outbound[c], m, w) /\ net[f] \in Socket
      BY <2>2 DEF TypeOK
    <3>2. \A g \in Sockets \ {f} : net'[g] = net[g]
      BY <2>2 DEF TypeOK
    <3>3. /\ \A p \in net'[f].wire : p \in net[f].wire \/ p.type = "PUBLISH"
          /\ net'[f].unsent = net[f].unsent \/ net'[f].unsent.type = "PUBLISH"
      BY <1>5, <3>1
    <3>4. QED
      BY <3>2, <3>3 DEF NoConnectWritten
  <2>3. QED
    BY <1>4, <2>1, <2>2
<1>7. /\ socket' = socket
      /\ \A d \in Clients : connected'[d] = IF d = c THEN TRUE ELSE connected[d]
      /\ \A d \in Clients : connectState'[d] = IF d = c THEN 0 ELSE connectState[d]
      /\ \A d \in Clients : view'[d] = IF d = c THEN "up" ELSE view[d]
  BY DEF HandleConnected, Notify, TypeOK
<1>8. PhaseFresh(c)
  <2>1. ~Unanswered(c)'
    BY <1>1, <1>2, <1>6, <1>7, UnansweredKept
  <2>2. ~Connack(c)'
    BY <1>3 DEF Connack
  <2>3. QED
    BY <1>7, <2>1, <2>2 DEF PhaseFresh
<1>9. \A d \in Clients \ {c} : PhaseKept(d)
  BY <1>7 DEF PhaseKept
<1>10. ViewUp'
  BY <1>7 DEF Phases, ViewUp
<1>11. QED
  BY <1>3, <1>6, <1>8, <1>9, <1>10, PhasesStep DEF PackKept

LEMMA HandlePhases ==
  ASSUME TypeOK, SocketsOwned, Phases, Handle
  PROVE  Phases'
<1> USE DEF connection, session, callbacks, app
<1>1. Done => PackKept
  BY DEF Done, NoAnswer, PackKept
<1>2. CASE HandleNobody
  BY <1>1, <1>2, SilentPhases DEF HandleNobody
<1>3. ASSUME NEW c \in Clients, HandleError(c)
      PROVE  Phases'
  BY <1>1, <1>3, SilentPhases, ClosePhases DEF HandleError
<1>4. ASSUME NEW c \in Clients, HandleRefused(c)
      PROVE  Phases'
  <2>1. ~connected[c]
    BY <1>4 DEF HandleRefused, Phases, OneAnswer, Connack
  <2>2. QED
    BY <1>1, <1>4, <2>1, AttemptFailedPhases DEF HandleRefused
<1>5. ASSUME NEW c \in Clients, HandleAck(c)
      PROVE  Phases'
  <2>1. UNCHANGED view
    BY <1>5, NotifyRequest DEF HandleAck, Acknowledge
  <2>2. QED
    BY <1>1, <1>5, <2>1, SilentPhases DEF HandleAck
<1>6. QED
  BY <1>2, <1>3, <1>4, <1>5, HandleConnectedPhases DEF Handle

LEMMA ContinueWritePhases ==
  ASSUME TypeOK, SocketsOwned, Phases, NEW f \in Sockets, ContinueWrite(f)
  PROVE  Phases'
<1> USE DEF connection, session, callbacks, app
<1>1. /\ net' = [net EXCEPT ![f] = [Received(@, @.unsent) EXCEPT !.unsent = NoPacket]]
      /\ UNCHANGED <<connected, connectState, socket, receiver>>
  BY DEF ContinueWrite
<1>2. UNCHANGED view
  BY NotifyRequest DEF ContinueWrite, WriteComplete
<1>3. /\ \A p \in net'[f].wire : p \in net[f].wire \/ p = net[f].unsent
      /\ net'[f].unsent = NoPacket
      /\ \A g \in Sockets \ {f} : net'[g] = net[g]
  BY <1>1 DEF TypeOK, Socket, Received, Answerable
<1>4. \A g \in Sockets : NoConnectWritten(g)
  BY <1>3 DEF NoConnectWritten, NoPacket
<1>5. \A c \in Clients : PhaseKept(c)
  BY <1>1 DEF PhaseKept
<1>6. ViewUp'
  BY <1>1, <1>2 DEF Phases, ViewUp
<1>7. QED
  BY <1>1, <1>4, <1>5, <1>6, PhasesStep DEF PackKept

LEMMA NetworkPhases ==
  ASSUME TypeOK, Phases, Network
  PROVE  Phases'
<1> USE DEF connection, session, callbacks, app
<1>1. PICK f \in Sockets, new \in {"up", "refused", "down"} :
        /\ net' = [net EXCEPT ![f].status = new]
        /\ UNCHANGED <<connected, connectState, socket, receiver, view>>
  BY DEF Network, TcpUp, TcpFail, PeerClose, SetStatus
<1>2. \A g \in Sockets : net'[g].wire = net[g].wire /\ net'[g].unsent = net[g].unsent
  BY <1>1 DEF TypeOK, Socket
<1>3. \A g \in Sockets : NoConnectWritten(g)
  BY <1>2 DEF NoConnectWritten
<1>4. \A c \in Clients : PhaseKept(c)
  BY <1>1 DEF PhaseKept
<1>5. ViewUp'
  BY <1>1 DEF Phases, ViewUp
<1>6. QED
  BY <1>1, <1>3, <1>4, <1>5, PhasesStep DEF PackKept

LEMMA OthersPhases ==
  ASSUME TypeOK, Phases
  PROVE  /\ \A f : Select(f) => Phases'
         /\ Retry => Phases'
         /\ UNCHANGED vars => Phases'
<1> USE DEF connection, session, callbacks, app
<1>1. \A f : Select(f) => Phases'
  BY SilentPhases DEF Select, NoAnswer, PackKept
<1>2. ASSUME Retry
      PROVE  Phases'
  <2>1. PackKept
    BY <1>2 DEF Retry, TypeOK, PackKept
  <2>2. QED
    BY <1>2, <2>1, RetryWrites, SilentPhases
<1>3. UNCHANGED vars => Phases'
  BY SilentPhases DEF vars, PackKept
<1>4. QED
  BY <1>1, <1>2, <1>3

LEMMA PhasesCorrect ==
  ASSUME "ready" \notin ConnectOutcomes, ~DisconnectDelay
  PROVE  Spec => []Phases
<1>1. Init => Phases
  BY DEF Init, Phases, PhaseKnown, ViewUp, PackFresh, ConnectSent, OneConnect, OneAnswer,
         NoAnswer, NoSocket, NoPacket
<1>2. TypeOK /\ SocketsOwned /\ Phases /\ [Next]_vars => Phases'
  BY ApplicationPhases, ProcessCommandPhases, CheckTimeoutsPhases, CyclePhases, HandlePhases,
     ContinueWritePhases, NetworkPhases, OthersPhases DEF Next, ReceiveThread
<1>3. QED
  BY <1>1, <1>2, TypeCorrect, SocketsOwnedCorrect, PTL DEF Spec

\* The application believes a client connected exactly while the library does, for
\* any clients, any mix of faults and any choice of protocol version: no CONNACK is
\* taken for one that another client's connection, on the same descriptor, was waiting for,
\* and no attempt to connect fails once its CONNACK has been accepted.
THEOREM ViewUpCorrect ==
  ASSUME "ready" \notin ConnectOutcomes, ~DisconnectDelay
  PROVE  Spec => []ViewUp
BY PhasesCorrect, PTL DEF Phases

-----------------------------------------------------------------------------
(* Cleared: SessionCleared, and that a QoS 0 publish is stored only for a  *)
(* client that is still connected: the send thread holds the mutex from    *)
(* its write to its response.                                              *)

HandConnected == inHand # NoCommand => connected[inHand.command.client]
Cleared == HandConnected /\ SessionCleared

\* the step empties the session of c, or leaves it at most what it had; a session may
\* grow while its client stays connected
SessionBounded(c) ==
  \/ responses'[c] = {} /\ outbound'[c] = {}
  \/ connected[c] /\ connected'[c]
  \/ ~connected[c] /\ responses'[c] \subseteq responses[c] /\ outbound'[c] \subseteq outbound[c]

LEMMA SessionClearedStep ==
  ASSUME SessionCleared, \A c \in CleanClients : SessionBounded(c)
  PROVE  SessionCleared'
BY DEF SessionCleared, SessionBounded

\* no step but the publish itself finds a publish in hand and ends a connection
LEMMA HandConnectedStep ==
  ASSUME HandConnected, UNCHANGED inHand, inHand = NoCommand \/ UNCHANGED connected
  PROVE  HandConnected'
BY DEF HandConnected

LEMMA SilentCleared ==
  ASSUME Cleared, UNCHANGED <<inHand, connected>>,
         \A c \in Clients : responses'[c] \subseteq responses[c] /\ outbound'[c] \subseteq outbound[c]
  PROVE  Cleared'
<1>1. CleanClients \subseteq Clients
  BY CleanClientsAssumption
<1>2. \A c \in CleanClients : SessionBounded(c)
  BY <1>1 DEF SessionBounded, Cleared, SessionCleared
<1>3. QED
  BY <1>2, SessionClearedStep, HandConnectedStep DEF Cleared

LEMMA CloseOnlyConnected ==
  ASSUME TypeOK, NEW c \in Clients, CloseOnly(c)
  PROVE  \A d \in Clients : connected'[d] = (IF d = c THEN FALSE ELSE connected[d])
BY DEF CloseOnly, TypeOK

LEMMA CloseSessionCleared ==
  ASSUME TypeOK, Cleared, NEW c \in Clients, NEW q, CloseSession(c, q),
         inHand = NoCommand, UNCHANGED inHand
  PROVE  Cleared'
<1>1. CleanClients \subseteq Clients
  BY CleanClientsAssumption
<1>2. \A d \in Clients : connected'[d] = (IF d = c THEN FALSE ELSE connected[d])
  BY CloseOnlyConnected DEF CloseSession
<1>3. ASSUME NEW d \in CleanClients
      PROVE  SessionBounded(d)
  <2>1. CASE d = c
    BY <2>1 DEF CloseSession, CleanSession, SessionBounded, TypeOK
  <2>2. CASE d # c
    <3>1. connected'[d] = connected[d] /\ connected[d] \in BOOLEAN
      BY <1>1, <1>2, <2>2 DEF TypeOK
    <3>2. responses'[d] = responses[d] /\ outbound'[d] = outbound[d]
      BY <1>1, <2>2 DEF CloseSession, CleanSession, TypeOK, session
    <3>3. QED
      BY <3>1, <3>2 DEF SessionBounded
  <2>3. QED
    BY <2>1, <2>2
<1>4. QED
  BY <1>3, SessionClearedStep, HandConnectedStep DEF Cleared

LEMMA AttemptFailedCleared ==
  ASSUME TypeOK, Cleared, NEW c \in Clients, AttemptFailed(c), ~connected[c],
         inHand = NoCommand, UNCHANGED inHand
  PROVE  Cleared'
<1>1. CASE CloseSession(c, commands)
  BY <1>1, CloseSessionCleared
<1>2. CASE CloseOnly(c) /\ UNCHANGED session
  <2>1. UNCHANGED connected
    BY <1>2 DEF CloseOnly, TypeOK
  <2>2. QED
    BY <1>2, <2>1, SilentCleared DEF session
<1>3. QED
  BY <1>1, <1>2 DEF AttemptFailed

\* a session grows only for a client that is connected
LEMMA GrowsCleared ==
  ASSUME TypeOK, Cleared, NEW c \in Clients, connected[c], UNCHANGED connected,
         \A d \in Clients \ {c} : responses'[d] = responses[d] /\ outbound'[d] = outbound[d],
         HandConnected'
  PROVE  Cleared'
<1>1. CleanClients \subseteq Clients
  BY CleanClientsAssumption
<1>2. \A d \in CleanClients : SessionBounded(d)
  BY <1>1 DEF SessionBounded, TypeOK
<1>3. QED
  BY <1>2, SessionClearedStep DEF Cleared

LEMMA ProcessCommandCleared ==
  ASSUME ~DisconnectDelay, TypeOK, Phases, Cleared, ProcessCommand
  PROVE  Cleared'
<1> USE DEF connection, session, callbacks, app
<1>1. \A x \in commands : x.client \in Clients
  BY DEF TypeOK, Command
<1>2. Unlocked => inHand = NoCommand
  BY DEF Unlocked
<1>3. ASSUME NEW x \in commands, Selected(x), x.type \notin {"CONNECT", "DISCONNECT"}
      PROVE  connected[x.client]
  BY <1>3 DEF Selected, Eligible
<1>4. ASSUME NEW x \in commands, IgnoreConnect(x)
      PROVE  Cleared'
  BY <1>4, SilentCleared DEF IgnoreConnect
<1>5. ASSUME NEW x \in commands, ProcessConnect(x)
      PROVE  Cleared'
  <2>1. UNCHANGED connected
    BY <1>5 DEF ProcessConnect, MQTTProtocol_connect, ConnectFailed, ConnectStarted
  <2>2. QED
    BY <1>5, <2>1, SilentCleared DEF ProcessConnect
<1>6. ASSUME NEW x \in commands, ProcessDisconnect(x)
      PROVE  Cleared'
  <2>1. CASE CloseSession(x.client, commands \ {x})
    BY <1>1, <1>2, <1>6, <2>1, CloseSessionCleared DEF ProcessDisconnect
  <2>2. CASE UNCHANGED <<connection, session>>
    BY <1>6, <2>2, SilentCleared DEF ProcessDisconnect
  <2>3. QED
    BY <1>6, <2>1, <2>2 DEF ProcessDisconnect, CheckDisconnect
<1>7. ASSUME NEW x \in commands, ProcessRequest(x)
      PROVE  Cleared'
  <2>1. connected[x.client] /\ UNCHANGED <<connected, inHand>>
    BY <1>3, <1>7 DEF ProcessRequest
  <2>2. HandConnected'
    BY <2>1, HandConnectedStep DEF Cleared
  <2>3. \A d \in Clients \ {x.client} : responses'[d] = responses[d] /\ outbound'[d] = outbound[d]
    BY <1>7 DEF ProcessRequest, TypeOK
  <2>4. QED
    BY <1>1, <2>1, <2>2, <2>3, GrowsCleared
<1>8. ASSUME NEW x \in commands, ProcessPublish0(x)
      PROVE  Cleared'
  <2>1. connected[x.client] /\ UNCHANGED <<connected, responses, outbound>>
    BY <1>3, <1>8 DEF ProcessPublish0
  <2>2. inHand' = NoCommand \/ inHand'.command = x
    BY <1>2, <1>8 DEF ProcessPublish0
  <2>3. HandConnected'
    BY <2>1, <2>2 DEF HandConnected
  <2>4. QED
    BY <1>1, <2>1, <2>3, GrowsCleared
<1>9. ASSUME FlagPendingWrite
      PROVE  Cleared'
  <2>1. inHand # NoCommand /\ inHand'.command = inHand.command
    BY <1>9 DEF FlagPendingWrite, TypeOK, NoCommand
  <2>2. HandConnected'
    BY <1>9, <2>1 DEF FlagPendingWrite, Cleared, HandConnected
  <2>3. SessionCleared'
    BY <1>9 DEF FlagPendingWrite, Cleared, SessionCleared
  <2>4. QED
    BY <2>2, <2>3 DEF Cleared
<1>10. ASSUME StoreResponse
      PROVE  Cleared'
  <2>1. inHand # NoCommand /\ inHand.command.client \in Clients /\ inHand' = NoCommand
    BY <1>10 DEF StoreResponse, TypeOK, NoCommand, Command
  <2>2. connected[inHand.command.client] /\ UNCHANGED <<connected, outbound>>
    BY <1>10, <2>1 DEF StoreResponse, Cleared, HandConnected
  <2>3. HandConnected'
    BY <2>1 DEF HandConnected
  <2>4. \A d \in Clients \ {inHand.command.client} : responses'[d] = responses[d]
    BY <1>10 DEF StoreResponse, TypeOK
  <2>5. QED
    BY <2>1, <2>2, <2>3, <2>4, GrowsCleared
<1>11. QED
  BY <1>4, <1>5, <1>6, <1>7, <1>8, <1>9, <1>10 DEF ProcessCommand

LEMMA CycleCleared ==
  ASSUME TypeOK, Phases, Cleared, Cycle
  PROVE  Cleared'
<1> USE DEF connection, session, callbacks, app
<1>1. Unlocked => inHand = NoCommand
  BY DEF Unlocked
<1>2. CASE CycleNobody \/ \E c \in Clients : CycleNothing(c)
  BY <1>2, SilentCleared DEF CycleNobody, CycleNothing
<1>3. ASSUME NEW c \in Clients, CycleConnecting(c)
      PROVE  Cleared'
  <2>1. ~connected[c] /\ inHand = NoCommand /\ UNCHANGED inHand
    BY <1>1, <1>3 DEF CycleConnecting, Phases, PhaseKnown
  <2>2. CASE AttemptFailed(c)
    BY <2>1, <2>2, AttemptFailedCleared
  <2>3. CASE UNCHANGED <<connected, session>>
    BY <2>1, <2>3, SilentCleared
  <2>4. QED
    BY <1>3, <2>2, <2>3 DEF CycleConnecting
<1>4. ASSUME NEW c \in Clients, CycleReadError(c)
      PROVE  Cleared'
  <2>1. inHand = NoCommand /\ UNCHANGED inHand
    BY <1>1, <1>4 DEF CycleReadError
  <2>2. CASE connectState[c] = 3 /\ AttemptFailed(c)
    <3>1. ~connected[c]
      BY <2>2 DEF Phases, PhaseKnown
    <3>2. QED
      BY <2>1, <2>2, <3>1, AttemptFailedCleared
  <2>3. CASE UNCHANGED <<connection, session>>
    BY <2>1, <2>3, SilentCleared
  <2>4. QED
    BY <1>4, <2>2, <2>3 DEF CycleReadError
<1>5. ASSUME NEW c \in Clients, CycleRead(c)
      PROVE  Cleared'
  <2>1. UNCHANGED <<connected, inHand>>
    BY <1>5 DEF CycleRead
  <2>2. (\E i : Acknowledge(c, i)) \/ UNCHANGED responses
    BY <1>5 DEF CycleRead
  <2>3. \A d \in Clients : responses'[d] \subseteq responses[d]
    BY <2>2, AcknowledgeKept
  <2>4. (\E i : outbound' = [outbound EXCEPT ![c] = @ \ {i}]) \/ UNCHANGED outbound
    BY <1>5 DEF CycleRead
  <2>5. \A d \in Clients : outbound'[d] \subseteq outbound[d]
    BY <2>4 DEF TypeOK
  <2>6. QED
    BY <2>1, <2>3, <2>5, SilentCleared
<1>6. \A c \in Clients : CycleIncoming(c) => Cleared'
  BY IncomingWrite, SilentCleared
<1>7. QED
  BY <1>2, <1>3, <1>4, <1>5, <1>6 DEF Cycle

LEMMA HandleCleared ==
  ASSUME TypeOK, Phases, Cleared, Handle
  PROVE  Cleared'
<1> USE DEF connection, session, callbacks, app
<1>1. Unlocked => inHand = NoCommand
  BY DEF Unlocked
<1>2. CASE HandleNobody
  BY <1>2, SilentCleared DEF HandleNobody
<1>3. ASSUME NEW c \in Clients, HandleError(c)
      PROVE  Cleared'
  <2>1. UNCHANGED connected
    <3>1. CASE connected[c]
      BY <1>3, <3>1 DEF HandleError
    <3>2. CASE ~connected[c] /\ CloseOnly(c)
      BY <3>2 DEF CloseOnly, TypeOK
    <3>3. QED
      BY <1>3, <3>1, <3>2 DEF HandleError
  <2>2. QED
    BY <1>3, <2>1, SilentCleared DEF HandleError
<1>4. ASSUME NEW c \in Clients, HandleRefused(c)
      PROVE  Cleared'
  <2>1. ~connected[c]
    BY <1>4 DEF HandleRefused, Phases, OneAnswer, Connack
  <2>2. QED
    BY <1>1, <1>4, <2>1, AttemptFailedCleared DEF HandleRefused
<1>5. ASSUME NEW c \in Clients, HandleAck(c)
      PROVE  Cleared'
  BY <1>5, AcknowledgeKept, SilentCleared DEF HandleAck
<1>6. ASSUME NEW c \in Clients, HandleConnected(c)
      PROVE  Cleared'
  <2>1. inHand = NoCommand /\ UNCHANGED inHand
    BY <1>1, <1>6 DEF HandleConnected
  <2>2. CleanClients \subseteq Clients
    BY CleanClientsAssumption
  <2>3. \A d \in Clients : connected'[d] = (IF d = c THEN TRUE ELSE connected[d])
    BY <1>6 DEF HandleConnected, TypeOK
  <2>4. ASSUME NEW d \in CleanClients
        PROVE  SessionBounded(d)
    <3>1. CASE d = c
      BY <1>6, <3>1 DEF HandleConnected, CleanSession, SessionBounded, TypeOK
    <3>2. CASE d # c
      <4>1. responses'[d] = responses[d] /\ outbound'[d] = outbound[d]
        BY <1>6, <2>2, <3>2 DEF HandleConnected, CleanSession, TypeOK
      <4>2. connected'[d] = connected[d] /\ connected[d] \in BOOLEAN
        BY <2>2, <2>3, <3>2 DEF TypeOK
      <4>3. QED
        BY <4>1, <4>2 DEF SessionBounded
    <3>3. QED
      BY <3>1, <3>2
  <2>5. QED
    BY <2>1, <2>4, SessionClearedStep, HandConnectedStep DEF Cleared
<1>7. QED
  BY <1>2, <1>3, <1>4, <1>5, <1>6 DEF Handle

LEMMA OthersCleared ==
  ASSUME TypeOK, Phases, Cleared
  PROVE  /\ Application => Cleared'
         /\ \A c \in Clients : CheckTimeouts(c) => Cleared'
         /\ \A f : Select(f) => Cleared'
         /\ \A f : ContinueWrite(f) => Cleared'
         /\ Retry => Cleared'
         /\ Network => Cleared'
         /\ UNCHANGED vars => Cleared'
<1> USE DEF connection, session, callbacks, app
<1>1. Application => Cleared'
  BY SilentCleared DEF Application, Connect, CheckConnected, AddCommand
<1>2. ASSUME NEW c \in Clients, CheckTimeouts(c)
      PROVE  Cleared'
  <2>1. connectState[c] # 0 /\ AttemptFailed(c) /\ inHand = NoCommand /\ UNCHANGED inHand
    BY <1>2 DEF CheckTimeouts, Phases, PhaseKnown, Unlocked
  <2>2. ~connected[c]
    BY <2>1 DEF Phases, PhaseKnown
  <2>3. QED
    BY <2>1, <2>2, AttemptFailedCleared
<1>3. \A f : Select(f) => Cleared'
  BY SilentCleared DEF Select
<1>4. ASSUME NEW f, ContinueWrite(f)
      PROVE  Cleared'
  <2>1. UNCHANGED <<connected, inHand, outbound>>
    BY <1>4 DEF ContinueWrite
  <2>2. \A d \in Clients : responses'[d] \subseteq responses[d]
    BY <1>4 DEF ContinueWrite, WriteComplete, TypeOK
  <2>3. QED
    BY <2>1, <2>2, SilentCleared
<1>5. Retry => Cleared'
  BY SilentCleared DEF Retry
<1>6. Network => Cleared'
  BY SilentCleared DEF Network, TcpUp, TcpFail, PeerClose, SetStatus
<1>7. UNCHANGED vars => Cleared'
  BY SilentCleared DEF vars
<1>8. QED
  BY <1>1, <1>2, <1>3, <1>4, <1>5, <1>6, <1>7

\* Nothing of a clean session outlives its connection, whichever thread ends it: not
\* the response of a QoS 0 publish that was being stored, nor a message
\* of the attempts between two connections, for any clients and any protocol version.
THEOREM SessionClearedCorrect ==
  ASSUME "ready" \notin ConnectOutcomes, ~DisconnectDelay
  PROVE  Spec => []SessionCleared
<1>1. Init => Cleared
  <2>1. CleanClients \subseteq Clients
    BY CleanClientsAssumption
  <2>2. QED
    BY <2>1 DEF Init, Cleared, HandConnected, SessionCleared
<1>2. TypeOK /\ Phases /\ Cleared /\ [Next]_vars => Cleared'
  BY ProcessCommandCleared, CycleCleared, HandleCleared, OthersCleared DEF Next, ReceiveThread
<1>3. Cleared => SessionCleared
  BY DEF Cleared
<1>4. QED
  BY <1>1, <1>2, <1>3, TypeCorrect, PhasesCorrect, PTL DEF Spec

-----------------------------------------------------------------------------
(* Attempts: the application waits for every attempt to connect, queued or *)
(* started, and the attempt's call has not been reported.  This needs an   *)
(* application that does not connect twice, and sockets that are not left  *)
(* behind by a connect that fails at once.                                 *)

IsConnect(x, c) == x.client = c /\ x.type = "CONNECT"

AttemptQueued(c) ==
  \A x \in commands : IsConnect(x, c) =>
    /\ view[c] = "connecting" /\ connectState[c] = 0
    /\ x.id # 0 /\ notified[x.id] = 0
    /\ \A y \in commands : IsConnect(y, c) => y = x
AttemptStarted(c) ==
  connectState[c] # 0 =>
    view[c] = "connecting" /\ connect[c].id # 0 /\ notified[connect[c].id] = 0
SocketUsed(c) == socket[c] # 0 => connectState[c] # 0 \/ connected[c]

AttemptAt(c) == AttemptQueued(c) /\ AttemptStarted(c) /\ SocketUsed(c)
Attempts == \A c \in Clients : AttemptAt(c)

\* the step is one of AsyncClient, or tells the application nothing
PromiseKept == [Promise!Next]_<<view, calls, issued, notified>>

\* no call of d to connect is reported
ConnectSilent(d) == \A i \in Ids : IsCall(i, d, "CONNECT") => notified'[i] = notified[i]

AttemptKept(d) ==
  /\ \A x \in commands' : IsConnect(x, d) => x \in commands
  /\ view'[d] = view[d] /\ connectState'[d] = connectState[d] /\ connect'[d] = connect[d]
  /\ socket'[d] = socket[d] /\ connected'[d] = connected[d]
  /\ ConnectSilent(d)
AttemptOver(d) ==
  /\ connectState'[d] = 0 /\ \A x \in commands' : ~IsConnect(x, d)
  /\ socket'[d] # 0 => connected'[d]

LEMMA AttemptKeptAt ==
  ASSUME TypeOK, Known, NEW d \in Clients, AttemptAt(d), AttemptKept(d)
  PROVE  AttemptAt(d)'
<1>1. AttemptQueued(d)'
  <2>1. ASSUME NEW x \in commands', IsConnect(x, d)
        PROVE  /\ view'[d] = "connecting" /\ connectState'[d] = 0
               /\ x.id # 0 /\ notified'[x.id] = 0
               /\ \A y \in commands' : IsConnect(y, d) => y = x
    <3>1. x \in commands /\ AttemptQueued(d)
      BY <2>1 DEF AttemptKept, AttemptAt
    <3>2. /\ view[d] = "connecting" /\ connectState[d] = 0
          /\ x.id # 0 /\ notified[x.id] = 0
          /\ \A y \in commands : IsConnect(y, d) => y = x
      BY <2>1, <3>1 DEF AttemptQueued
    <3>3. x.id \in Ids /\ IsCall(x.id, d, "CONNECT")
      BY <2>1, <3>1, <3>2 DEF Known, QueueKnown, IsCall, IsConnect
    <3>4. notified'[x.id] = notified[x.id]
      BY <3>3 DEF AttemptKept, ConnectSilent
    <3>5. QED
      BY <3>2, <3>4 DEF AttemptKept
  <2>2. QED
    BY <2>1 DEF AttemptQueued, IsConnect
<1>2. AttemptStarted(d)'
  <2>1. ASSUME connectState[d] # 0
        PROVE  view[d] = "connecting" /\ connect[d].id # 0 /\ notified'[connect[d].id] = 0
    <3>1. view[d] = "connecting" /\ connect[d].id # 0 /\ notified[connect[d].id] = 0
      BY <2>1 DEF AttemptAt, AttemptStarted
    <3>2. connect[d].id \in Ids /\ IsCall(connect[d].id, d, "CONNECT")
      BY <3>1 DEF Known, AttemptKnown, IsCall
    <3>3. QED
      BY <3>1, <3>2 DEF AttemptKept, ConnectSilent
  <2>2. QED
    BY <2>1 DEF AttemptKept, AttemptStarted
<1>3. SocketUsed(d)'
  BY DEF AttemptAt, AttemptKept, SocketUsed
<1>4. QED
  BY <1>1, <1>2, <1>3 DEF AttemptAt

LEMMA AttemptOverAt ==
  ASSUME NEW d \in Clients, AttemptOver(d)
  PROVE  AttemptAt(d)'
BY DEF AttemptOver, AttemptAt, AttemptQueued, AttemptStarted, SocketUsed, IsConnect

\* a client that is not idle has nothing to connect in the queue
LEMMA NothingQueued ==
  ASSUME Phases, Attempts, NEW c \in Clients, connectState[c] # 0 \/ connected[c]
  PROVE  \A x \in commands : ~IsConnect(x, c)
<1>1. AttemptQueued(c)
  BY DEF Attempts, AttemptAt
<1>2. connected[c] => view[c] = "up"
  BY DEF Phases, ViewUp
<1>3. QED
  BY <1>1, <1>2 DEF AttemptQueued

LEMMA AtHeadConnect ==
  ASSUME NEW q, NEW c, NEW i, NEW v, \A x \in q : ~IsConnect(x, c)
  PROVE  /\ \A x \in AtHead(q, c, "CONNECT", i, v) : IsConnect(x, c) => x.id = i
         /\ \A x, y \in AtHead(q, c, "CONNECT", i, v) : IsConnect(x, c) /\ IsConnect(y, c) => x = y
         /\ \A x \in AtHead(q, c, "CONNECT", i, v) : \A d : d # c /\ IsConnect(x, d) => x \in q
BY DEF AtHead, IsConnect

LEMMA InternalDisconnectConnects ==
  ASSUME NEW q, NEW c, NEW x \in AtHead(q, c, "DISCONNECT", 0, 0), NEW d, IsConnect(x, d)
  PROVE  x \in q
BY DEF AtHead, IsConnect

LEMMA ReportSilent ==
  ASSUME TypeOK, NEW d, NEW j, j \in Ids => ~IsCall(j, d, "CONNECT"),
         notified' = [notified EXCEPT ![j] = @ + 1]
  PROVE  ConnectSilent(d)
BY DEF TypeOK, ConnectSilent

LEMMA NotifyIsReport ==
  ASSUME TypeOK, NEW i \in Ids, NEW c, NEW v, notified[i] = 0, Notify(i, c, v)
  PROVE  Promise!Report(i) /\ Promise!Tell(c, v)
BY DEF TypeOK, Notify, Promise!Report, Promise!Tell

LEMMA IsCallPromise ==
  ASSUME NEW i, NEW c, NEW t, IsCall(i, c, t)
  PROVE  i \in Promise!Ids /\ Promise!IsCall(i, c, t)
BY DEF IsCall, Ids, Promise!Ids, Promise!IsCall

\* the callback of a request
LEMMA AnswerPromised ==
  ASSUME TypeOK, NEW c \in Clients, NEW t \in RequestTypes, NEW i, IsCall(i, c, t),
         notified[i] = 0, Notify(i, c, view[c]), UNCHANGED <<calls, issued>>
  PROVE  PromiseKept /\ UNCHANGED view /\ \A d \in Clients : ConnectSilent(d)
<1>1. i \in Ids
  BY DEF IsCall
<1>2. UNCHANGED view
  BY NotifyRequest
<1>3. Promise!Answered(c, t)
  BY <1>1, <1>2, NotifyIsReport, IsCallPromise DEF Promise!Answered
<1>4. \A d \in Clients : ConnectSilent(d)
  <2>1. \A d : ~IsCall(i, d, "CONNECT")
    BY DEF IsCall, RequestTypes
  <2>2. QED
    BY <2>1, ReportSilent DEF Notify
<1>5. QED
  BY <1>2, <1>3, <1>4 DEF PromiseKept, Promise!Next

\* the callback of a connect that has failed
LEMMA RefusedPromised ==
  ASSUME TypeOK, NEW c \in Clients, NEW i, IsCall(i, c, "CONNECT"), notified[i] = 0,
         view[c] = "connecting", Notify(i, c, "down"), UNCHANGED <<calls, issued>>
  PROVE  PromiseKept /\ \A d \in Clients \ {c} : view'[d] = view[d] /\ ConnectSilent(d)
<1>1. i \in Ids
  BY DEF IsCall
<1>2. Promise!Refused(c)
  BY <1>1, NotifyIsReport, IsCallPromise DEF Promise!Refused
<1>3. \A d \in Clients \ {c} : ConnectSilent(d)
  <2>1. \A d : d # c => ~IsCall(i, d, "CONNECT")
    BY DEF IsCall
  <2>2. QED
    BY <2>1, ReportSilent DEF Notify
<1>4. \A d \in Clients \ {c} : view'[d] = view[d]
  BY DEF Notify, TypeOK
<1>5. QED
  BY <1>2, <1>3, <1>4 DEF PromiseKept, Promise!Next

\* every step that leaves all attempts as they are
LEMMA SilentPromise ==
  ASSUME TypeOK, Known, Attempts, UNCHANGED <<view, connectState, connect, socket, connected>>,
         \A x \in commands', d \in Clients : IsConnect(x, d) => x \in commands,
         \A d \in Clients : ConnectSilent(d)
  PROVE  Attempts'
<1>1. \A d \in Clients : AttemptKept(d)
  BY DEF AttemptKept
<1>2. QED
  BY <1>1, AttemptKeptAt DEF Attempts

LEMMA NoReportSilent ==
  ASSUME UNCHANGED notified
  PROVE  \A d \in Clients : ConnectSilent(d)
BY DEF ConnectSilent

\* an attempt under way ends: it is queued again, or reported
LEMMA AttemptFailedPromise ==
  ASSUME TypeOK, Known, Phases, Attempts, NEW c \in Clients, connectState[c] # 0,
         AttemptFailed(c), UNCHANGED <<connect, calls, issued>>
  PROVE  Attempts' /\ PromiseKept
<1>0. PICK i \in Ids : i = connect[c].id /\ IsCall(i, c, "CONNECT") /\ notified[i] = 0
  BY DEF Attempts, AttemptAt, AttemptStarted, Known, AttemptKnown, IsCall
<1>1. view[c] = "connecting" /\ \A x \in commands : ~IsConnect(x, c)
  BY NothingQueued DEF Attempts, AttemptAt, AttemptStarted
<1>2. /\ socket'[c] = 0 /\ ~connected'[c] /\ connectState'[c] = 0
      /\ \A d \in Clients \ {c} : PhaseKept(d)
  <2>1. CloseOnly(c)
    BY DEF AttemptFailed, CloseSession
  <2>2. QED
    BY <2>1, CloseOnlyFresh DEF CloseOnly, TypeOK
<1>3. CASE MoreToTry(connect[c].version)
  <2>1. /\ commands' = AtHead(commands, c, "CONNECT", i, connect[c].version)
        /\ UNCHANGED <<view, notified>>
    BY <1>0, <1>3 DEF AttemptFailed, callbacks
  <2>2. AttemptAt(c)'
    <3>1. \A x, y \in commands' : IsConnect(x, c) => x.id = i /\ (IsConnect(y, c) => y = x)
      BY <1>1, <2>1, AtHeadConnect
    <3>2. i # 0
      BY DEF Ids
    <3>3. AttemptQueued(c)'
      BY <1>0, <1>1, <1>2, <2>1, <3>1, <3>2 DEF AttemptQueued, IsConnect
    <3>4. QED
      BY <1>2, <3>3 DEF AttemptAt, AttemptStarted, SocketUsed
  <2>3. \A d \in Clients \ {c} : AttemptKept(d)
    BY <1>1, <1>2, <2>1, AtHeadConnect, NoReportSilent DEF AttemptKept, PhaseKept
  <2>4. Attempts'
    BY <2>2, <2>3, AttemptKeptAt DEF Attempts
  <2>5. QED
    BY <2>1, <2>4 DEF PromiseKept
<1>4. CASE ~MoreToTry(connect[c].version)
  <2>1. CloseSession(c, commands) /\ Notify(i, c, "down")
    BY <1>0, <1>4 DEF AttemptFailed
  <2>2. commands' \subseteq commands
    BY <2>1, CloseSessionKept
  <2>3. PromiseKept /\ \A d \in Clients \ {c} : view'[d] = view[d] /\ ConnectSilent(d)
    BY <1>0, <1>1, <2>1, RefusedPromised
  <2>4. AttemptOver(c)
    BY <1>1, <1>2, <2>2 DEF AttemptOver
  <2>5. \A d \in Clients \ {c} : AttemptKept(d)
    BY <1>2, <2>2, <2>3 DEF AttemptKept, PhaseKept
  <2>6. QED
    BY <2>3, <2>4, <2>5, AttemptKeptAt, AttemptOverAt DEF Attempts
<1>5. QED
  BY <1>3, <1>4

-----------------------------------------------------------------------------
(* Attempts and the promise: the application and the send thread *)

LEMMA ApplicationPromise ==
  ASSUME ~EagerConnect, TypeOK, Known, Once, Phases, Attempts, Application
  PROVE  Attempts' /\ PromiseKept
<1> USE DEF connection, session, app
<1>1. ASSUME NEW c \in Clients, Connect(c)
      PROVE  Attempts' /\ PromiseKept
  <2>0. PICK j \in Ids : j = calls + 1
    BY <1>1, BoundAssumption DEF Connect, TypeOK, Ids
  <2>1. /\ calls < MaxCalls /\ view[c] = "down" /\ calls' = j
        /\ issued' = [issued EXCEPT ![j] = [client |-> c, type |-> "CONNECT"]]
        /\ connect' = [connect EXCEPT ![c].id = j]
        /\ commands' = AtHead(commands, c, "CONNECT", j, 0)
        /\ view' = [view EXCEPT ![c] = "connecting"]
        /\ UNCHANGED <<connected, connectState, socket, notified>>
    BY <1>1, <2>0 DEF Connect
  <2>2. /\ issued[j] = NotIssued
        /\ \A d : ~IsCall(j, d, "CONNECT")
    BY <2>0, <2>1, CallAccepted DEF CallTypes, IsCall, NotIssued
  <2>3. notified[j] = 0
    BY <2>2 DEF Once, OnceAt, Awaited, NotIssued
  <2>4. connectState[c] = 0 /\ \A x \in commands : ~IsConnect(x, c)
    BY <2>1 DEF Attempts, AttemptAt, AttemptQueued, AttemptStarted
  <2>5. AttemptAt(c)'
    <3>1. \A x, y \in commands' : IsConnect(x, c) => x.id = j /\ (IsConnect(y, c) => y = x)
      BY <2>1, <2>4, AtHeadConnect
    <3>2. j # 0 /\ view'[c] = "connecting"
      BY <2>1 DEF Ids, TypeOK
    <3>3. AttemptQueued(c)'
      BY <2>1, <2>3, <2>4, <3>1, <3>2 DEF AttemptQueued, IsConnect
    <3>4. QED
      BY <2>1, <2>4, <3>3 DEF AttemptAt, AttemptStarted, SocketUsed, Attempts
  <2>6. ASSUME NEW d \in Clients \ {c}
        PROVE  AttemptKept(d)
    <3>1. view'[d] = view[d] /\ connect'[d] = connect[d]
      BY <2>1 DEF TypeOK
    <3>2. \A x \in commands' : IsConnect(x, d) => x \in commands
      BY <2>1, <2>4, AtHeadConnect
    <3>3. QED
      BY <2>1, <3>1, <3>2, NoReportSilent DEF AttemptKept
  <2>7. Attempts'
    BY <2>5, <2>6, AttemptKeptAt DEF Attempts
  <2>8. Promise!Connect(c)
    BY <2>0, <2>1 DEF Promise!Connect, Promise!Accept, Promise!Tell
  <2>9. QED
    BY <2>7, <2>8 DEF PromiseKept, Promise!Next
<1>2. ASSUME NEW c \in Clients, NEW t \in CallTypes, CheckConnected(c, t)
      PROVE  Attempts' /\ PromiseKept
  <2>1. /\ calls < MaxCalls /\ t \in Requests /\ connected[c] /\ calls' = calls + 1
        /\ issued' = [issued EXCEPT ![calls + 1] = [client |-> c, type |-> t]]
        /\ UNCHANGED <<commands, connected, connectState, socket, connect, view, notified>>
    BY <1>2 DEF CheckConnected, callbacks
  <2>2. Attempts'
    BY <2>1, SilentPromise, NoReportSilent
  <2>3. view[c] = "up"
    BY <2>1 DEF Phases, ViewUp
  <2>4. Promise!Request(c, t) /\ t \in RequestTypes \cup {"DISCONNECT"}
    BY <2>1, <2>3, RequestsAssumption DEF Promise!Request, Promise!Accept
  <2>5. QED
    BY <2>2, <2>4 DEF PromiseKept, Promise!Next
<1>3. ASSUME AddCommand
      PROVE  Attempts' /\ PromiseKept
  <2>1. /\ pendingCall # NoCall
        /\ commands' = AtTail(commands, pendingCall.client, pendingCall.type, pendingCall.id)
        /\ UNCHANGED <<connected, connectState, socket, connect, view, notified, calls, issued>>
    BY <1>3 DEF AddCommand, callbacks
  <2>2. \A x \in commands', d \in Clients : IsConnect(x, d) => x \in commands
    BY <2>1 DEF AtTail, IsConnect, Known, CallsKnown
  <2>3. Attempts'
    BY <2>1, <2>2, SilentPromise, NoReportSilent
  <2>4. QED
    BY <2>1, <2>3 DEF PromiseKept
<1>4. QED
  BY <1>1, <1>2, <1>3 DEF Application

\* MQTTProtocol_connect opens a socket only to start an attempt
LEMMA ProcessConnectPromise ==
  ASSUME "ready" \notin ConnectOutcomes, "failed" \notin ConnectOutcomes,
         TypeOK, Known, Phases, Attempts, NEW x \in commands, ProcessConnect(x)
  PROVE  Attempts' /\ PromiseKept
<1>0. PICK c \in Clients : c = x.client
  BY DEF TypeOK, Command
<1>1. /\ connectState[c] = 0 /\ ~connected[c] /\ x.type = "CONNECT"
      /\ UNCHANGED <<calls, issued>>
  BY <1>0 DEF ProcessConnect, app
<1>2. IsConnect(x, c)
  BY <1>0, <1>1 DEF IsConnect
<1>3. /\ view[c] = "connecting" /\ x.id # 0 /\ notified[x.id] = 0
      /\ \A y \in commands : IsConnect(y, c) => y = x
  BY <1>2 DEF Attempts, AttemptAt, AttemptQueued
<1>4. x.id \in Ids /\ IsCall(x.id, c, "CONNECT")
  BY <1>0, <1>1, <1>3 DEF Known, QueueKnown, IsCall
<1>5. socket[c] = 0
  BY <1>1 DEF Attempts, AttemptAt, SocketUsed
<1>6. \A y \in commands \ {x} : ~IsConnect(y, c)
  BY <1>3
<1>7. PICK v : MQTTProtocol_connect(x, v)
  BY DEF ProcessConnect
<1>8. CASE ConnectFailed(x, v) /\ UNCHANGED socket
  <2>1. UNCHANGED <<connected, connectState, connect, socket>>
    BY <1>8 DEF ConnectFailed
  <2>2. CASE MoreToTry(v)
    <3>1. /\ commands' = AtHead(commands \ {x}, c, "CONNECT", x.id, v)
          /\ UNCHANGED <<view, notified>>
      BY <1>0, <1>8, <2>2 DEF ConnectFailed, callbacks
    <3>2. \A y, z \in commands' : IsConnect(y, c) => y.id = x.id /\ (IsConnect(z, c) => z = y)
      BY <1>6, <3>1, AtHeadConnect
    <3>3. AttemptQueued(c)'
      BY <1>1, <1>3, <2>1, <3>1, <3>2 DEF AttemptQueued, IsConnect
    <3>4. AttemptAt(c)'
      BY <1>1, <1>5, <2>1, <3>3 DEF AttemptAt, AttemptStarted, SocketUsed
    <3>5. \A d \in Clients \ {c} : AttemptKept(d)
      BY <1>6, <2>1, <3>1, AtHeadConnect, NoReportSilent DEF AttemptKept
    <3>6. QED
      BY <1>1, <3>1, <3>4, <3>5, AttemptKeptAt DEF Attempts, PromiseKept
  <2>3. CASE ~MoreToTry(v)
    <3>1. commands' = commands \ {x} /\ Notify(x.id, c, "down")
      BY <1>0, <1>8, <2>3 DEF ConnectFailed
    <3>2. PromiseKept /\ \A d \in Clients \ {c} : view'[d] = view[d] /\ ConnectSilent(d)
      BY <1>1, <1>3, <1>4, <3>1, RefusedPromised
    <3>3. AttemptOver(c)
      BY <1>1, <1>5, <1>6, <2>1, <3>1 DEF AttemptOver
    <3>4. \A d \in Clients \ {c} : AttemptKept(d)
      BY <2>1, <3>1, <3>2 DEF AttemptKept
    <3>5. QED
      BY <3>2, <3>3, <3>4, AttemptKeptAt, AttemptOverAt DEF Attempts
  <2>4. QED
    BY <2>2, <2>3
<1>9. ASSUME NEW f, NEW st, OpenSocket(c, f, st, {}, NoPacket), ConnectStarted(x, v, 1)
      PROVE  Attempts' /\ PromiseKept
  <2>1. /\ connectState' = [connectState EXCEPT ![c] = 1]
        /\ connect' = [connect EXCEPT ![c] = [id |-> x.id, version |-> v]]
        /\ socket' = [socket EXCEPT ![c] = f]
        /\ commands' = commands \ {x}
        /\ UNCHANGED <<connected, view, notified>>
    BY <1>0, <1>9 DEF ConnectStarted, OpenSocket, callbacks
  <2>2. connectState'[c] = 1 /\ connect'[c].id = x.id
    BY <2>1 DEF TypeOK
  <2>3. AttemptAt(c)'
    BY <1>3, <1>6, <2>1, <2>2 DEF AttemptAt, AttemptQueued, AttemptStarted, SocketUsed, IsConnect
  <2>4. \A d \in Clients \ {c} :
          connectState'[d] = connectState[d] /\ connect'[d] = connect[d] /\ socket'[d] = socket[d]
    BY <2>1 DEF TypeOK
  <2>5. \A d \in Clients \ {c} : AttemptKept(d)
    BY <2>1, <2>4, NoReportSilent DEF AttemptKept
  <2>6. QED
    BY <1>1, <2>1, <2>3, <2>5, AttemptKeptAt DEF Attempts, PromiseKept
<1>10. \/ ConnectFailed(x, v) /\ UNCHANGED socket
       \/ ConnectFailed(x, v) /\ socket' = [socket EXCEPT ![c] = 0]
       \/ \E f, st : OpenSocket(c, f, st, {}, NoPacket) /\ ConnectStarted(x, v, 1)
  BY <1>0, <1>7 DEF MQTTProtocol_connect
<1>11. socket' = [socket EXCEPT ![c] = 0] => UNCHANGED socket
  BY <1>5 DEF TypeOK
<1>12. QED
  BY <1>8, <1>9, <1>10, <1>11

\* the application is told of the end of a connection or an attempt, by the
\* disconnect's callback or by connectionLost
LEMMA ProcessDisconnectPromise ==
  ASSUME ~DisconnectDelay, TypeOK, Known, Once, Phases, Attempts,
         NEW x \in commands, ProcessDisconnect(x)
  PROVE  Attempts' /\ PromiseKept
<1>0. PICK c \in Clients, i \in Ids \cup {0} : c = x.client /\ i = x.id
  BY DEF TypeOK, Command
<1>1. x.type = "DISCONNECT" /\ UNCHANGED <<connect, calls, issued>>
  BY DEF ProcessDisconnect, app
<1>2. CASE CheckDisconnect(c, i, commands \ {x}) /\ (connectState[c] # 0 \/ connected[c])
  <2>1. /\ CloseSession(c, commands \ {x})
        /\ IF i # 0 THEN Notify(i, c, "down")
           ELSE UNCHANGED notified /\ view' = [view EXCEPT ![c] = IF connected[c] THEN "down" ELSE @]
    BY <1>2 DEF CheckDisconnect
  <2>2. commands' \subseteq commands
    BY <2>1, CloseSessionKept
  <2>3. /\ socket'[c] = 0 /\ connectState'[c] = 0
        /\ \A d \in Clients \ {c} : PhaseKept(d)
    <3>1. CloseOnly(c)
      BY <2>1 DEF CloseSession
    <3>2. QED
      BY <3>1, CloseOnlyFresh DEF CloseOnly, TypeOK
  <2>4. AttemptOver(c)
    BY <1>2, <2>2, <2>3, NothingQueued DEF AttemptOver
  <2>5. \A d \in Clients \ {c} : view'[d] = view[d]
    BY <2>1 DEF Notify, TypeOK
  <2>6. CASE i # 0
    <3>1. i \in Ids /\ IsCall(i, c, "DISCONNECT") /\ issued[i].type = "DISCONNECT"
      BY <1>0, <1>1, <2>6 DEF Known, QueueKnown, IsCall
    <3>2. Queued(i)
      BY <1>0 DEF Queued
    <3>3. notified[i] = 0
      BY <3>1, <3>2 DEF Once, OnceAt, Awaited
    <3>4. view[c] # "down"
      BY <1>2 DEF Attempts, AttemptAt, AttemptStarted, Phases, ViewUp
    <3>5. Promise!Disconnected(c)
      BY <1>1, <2>1, <2>6, <3>1, <3>3, <3>4, NotifyIsReport, IsCallPromise DEF Promise!Disconnected
    <3>6. \A d \in Clients : ConnectSilent(d)
      <4>1. \A d : ~IsCall(i, d, "CONNECT")
        BY <3>1 DEF IsCall
      <4>2. QED
        BY <2>1, <2>6, <4>1, ReportSilent DEF Notify
    <3>7. \A d \in Clients \ {c} : AttemptKept(d)
      BY <1>1, <2>2, <2>3, <2>5, <3>6 DEF AttemptKept, PhaseKept
    <3>8. QED
      BY <2>4, <3>5, <3>7, AttemptKeptAt, AttemptOverAt DEF Attempts, PromiseKept, Promise!Next
  <2>7. CASE i = 0
    <3>1. UNCHANGED notified /\ view' = [view EXCEPT ![c] = IF connected[c] THEN "down" ELSE @]
      BY <2>1, <2>7
    <3>2. \A d \in Clients \ {c} : AttemptKept(d)
      BY <1>1, <2>2, <2>3, <2>5, <3>1, NoReportSilent DEF AttemptKept, PhaseKept
    <3>3. CASE connected[c]
      <4>1. view[c] = "up" /\ view' = [view EXCEPT ![c] = "down"]
        BY <3>1, <3>3 DEF Phases, ViewUp
      <4>2. Promise!Lost(c)
        BY <1>1, <3>1, <4>1 DEF Promise!Lost, Promise!Tell
      <4>3. QED
        BY <2>4, <3>2, <4>2, AttemptKeptAt, AttemptOverAt DEF Attempts, PromiseKept, Promise!Next
    <3>4. CASE ~connected[c]
      <4>1. UNCHANGED view
        BY <3>1, <3>4 DEF TypeOK
      <4>2. QED
        BY <1>1, <2>4, <3>1, <3>2, <4>1, AttemptKeptAt, AttemptOverAt DEF Attempts, PromiseKept
    <3>5. QED
      BY <3>3, <3>4
  <2>8. QED
    BY <2>6, <2>7
<1>3. CASE commands' = commands \ {x} /\ UNCHANGED <<connection, session, net, callbacks>>
  <2>1. UNCHANGED <<connected, connectState, socket, view, notified>>
    BY <1>3 DEF connection, callbacks
  <2>2. Attempts'
    BY <1>1, <1>3, <2>1, SilentPromise, NoReportSilent
  <2>3. QED
    BY <1>1, <2>1, <2>2 DEF PromiseKept
<1>4. QED
  BY <1>0, <1>2, <1>3 DEF ProcessDisconnect

LEMMA RequestPromise ==
  ASSUME TypeOK, Known, Once, Attempts, NEW x \in commands, ProcessRequest(x) \/ ProcessPublish0(x)
  PROVE  Attempts' /\ PromiseKept
<1>0. PICK c \in Clients, i \in Ids, t \in RequestTypes : c = x.client /\ i = x.id /\ t = x.type
  BY DEF TypeOK, Command, ProcessRequest, ProcessPublish0, RequestTypes
<1>1. UNCHANGED <<connect, calls, issued, connected, connectState, socket>>
  BY DEF ProcessRequest, ProcessPublish0, app, connection
<1>2. i \in Ids /\ IsCall(i, c, t) /\ issued[i].type # "CONNECT"
  BY <1>0 DEF TypeOK, Command, Known, QueueKnown, IsCall, Ids, RequestTypes
<1>3. notified[i] = 0
  BY <1>0, <1>2 DEF Once, OnceAt, Awaited, Queued
<1>4. \A y \in commands', d \in Clients : IsConnect(y, d) => y \in commands
  <2>1. \/ commands' = commands \ {x}
        \/ commands' = WithInternalDisconnect(commands \ {x}, c)
    BY <1>0 DEF ProcessRequest, ProcessPublish0
  <2>2. QED
    BY <2>1, InternalDisconnectConnects DEF WithInternalDisconnect
<1>5. CASE Notify(i, c, view[c])
  <2>1. PromiseKept /\ UNCHANGED view /\ \A d \in Clients : ConnectSilent(d)
    BY <1>1, <1>2, <1>3, <1>5, AnswerPromised
  <2>2. QED
    BY <1>1, <1>4, <2>1, SilentPromise
<1>6. CASE UNCHANGED callbacks
  <2>1. UNCHANGED <<view, notified>>
    BY <1>6 DEF callbacks
  <2>2. QED
    BY <1>1, <1>4, <2>1, NoReportSilent, SilentPromise DEF PromiseKept
<1>7. QED
  BY <1>0, <1>5, <1>6 DEF ProcessRequest, ProcessPublish0

LEMMA ProcessCommandPromise ==
  ASSUME "ready" \notin ConnectOutcomes, "failed" \notin ConnectOutcomes, ~DisconnectDelay,
         TypeOK, Known, Once, Phases, Attempts, ProcessCommand
  PROVE  Attempts' /\ PromiseKept
<1> USE DEF connection, session, callbacks, app
<1>1. ASSUME NEW x \in commands, IgnoreConnect(x)
      PROVE  FALSE
  <2>1. x.client \in Clients /\ IsConnect(x, x.client)
    BY <1>1 DEF IgnoreConnect, IsConnect, TypeOK, Command
  <2>2. QED
    BY <1>1, <2>1, NothingQueued DEF IgnoreConnect
<1>2. ASSUME FlagPendingWrite \/ StoreResponse
      PROVE  Attempts' /\ PromiseKept
  <2>1. UNCHANGED <<commands, connected, connectState, socket, connect, view, notified, calls, issued>>
    BY <1>2 DEF FlagPendingWrite, StoreResponse
  <2>2. QED
    BY <2>1, NoReportSilent, SilentPromise DEF PromiseKept
<1>3. QED
  BY <1>1, <1>2, ProcessConnectPromise, ProcessDisconnectPromise, RequestPromise DEF ProcessCommand

-----------------------------------------------------------------------------
(* Attempts and the promise: the receive thread and the rest *)

\* every step that reports nothing and leaves the attempts as they are
LEMMA QuietPromise ==
  ASSUME TypeOK, Known, Attempts,
         UNCHANGED <<view, notified, calls, issued, connectState, connect, socket, connected>>,
         \A x \in commands', d \in Clients : IsConnect(x, d) => x \in commands
  PROVE  Attempts' /\ PromiseKept
BY NoReportSilent, SilentPromise DEF PromiseKept

\* an acknowledgement reports the request whose response it finds
LEMMA AcknowledgePromise ==
  ASSUME TypeOK, Known, Once, Attempts, NEW c \in Clients, NEW i, Acknowledge(c, i),
         i \in Ids => issued[i].type # "PUBLISH0",
         UNCHANGED <<calls, issued, commands, connectState, connect, socket, connected>>
  PROVE  Attempts' /\ PromiseKept
<1>1. CASE UNCHANGED <<responses, callbacks>>
  BY <1>1, QuietPromise DEF callbacks
<1>2. ASSUME NEW r \in responses[c], r.id = i, Notify(i, c, view[c])
      PROVE  Attempts' /\ PromiseKept
  <2>1. PICK t \in RequestTypes : IsCall(i, c, t)
    BY <1>2 DEF Known, ResponsesKnown
  <2>2. i \in Ids /\ issued[i].type = t /\ t # "CONNECT" /\ t # "PUBLISH0"
    BY <2>1 DEF IsCall, RequestTypes
  <2>3. Responding(i)
    BY <1>2 DEF Responding
  <2>4. notified[i] = 0
    BY <2>2, <2>3 DEF Once, OnceAt, Awaited
  <2>5. PromiseKept /\ UNCHANGED view /\ \A d \in Clients : ConnectSilent(d)
    BY <1>2, <2>1, <2>4, AnswerPromised
  <2>6. QED
    BY <2>5, SilentPromise
<1>3. QED
  BY <1>1, <1>2 DEF Acknowledge

LEMMA CyclePromise ==
  ASSUME TypeOK, Known, Once, Phases, Attempts, Cycle
  PROVE  Attempts' /\ PromiseKept
<1> USE DEF connection, session, app
<1>1. CASE CycleNobody \/ \E c \in Clients : CycleNothing(c)
  BY <1>1, QuietPromise DEF CycleNobody, CycleNothing, callbacks
<1>2. ASSUME NEW c \in Clients, CycleConnecting(c)
      PROVE  Attempts' /\ PromiseKept
  <2>1. connectState[c] = 1 /\ UNCHANGED <<connect, calls, issued>>
    BY <1>2 DEF CycleConnecting
  <2>2. CASE AttemptFailed(c)
    BY <2>1, <2>2, AttemptFailedPromise
  <2>3. CASE /\ connectState' = [connectState EXCEPT ![c] = 3]
             /\ UNCHANGED <<commands, connected, socket, view, notified>>
    <3>1. \A d \in Clients : connectState'[d] = (IF d = c THEN 3 ELSE connectState[d])
      BY <2>3 DEF TypeOK
    <3>2. AttemptAt(c)'
      BY <2>1, <2>3, <3>1
         DEF Attempts, AttemptAt, AttemptQueued, AttemptStarted, SocketUsed, IsConnect
    <3>3. \A d \in Clients \ {c} : AttemptKept(d)
      BY <2>1, <2>3, <3>1, NoReportSilent DEF AttemptKept
    <3>4. QED
      BY <2>1, <2>3, <3>2, <3>3, AttemptKeptAt DEF Attempts, PromiseKept
  <2>4. QED
    BY <1>2, <2>2, <2>3 DEF CycleConnecting, callbacks
<1>3. ASSUME NEW c \in Clients, CycleReadError(c)
      PROVE  Attempts' /\ PromiseKept
  <2>1. UNCHANGED <<connect, calls, issued>>
    BY <1>3 DEF CycleReadError
  <2>2. CASE connectState[c] = 3 /\ AttemptFailed(c)
    BY <2>1, <2>2, AttemptFailedPromise
  <2>3. CASE UNCHANGED <<commands, connection, callbacks>>
    BY <2>1, <2>3, QuietPromise DEF callbacks
  <2>4. QED
    BY <1>3, <2>2, <2>3 DEF CycleReadError
<1>4. ASSUME NEW c \in Clients, CycleRead(c)
      PROVE  Attempts' /\ PromiseKept
  <2>1. UNCHANGED <<commands, connected, connectState, socket, connect, calls, issued>>
    BY <1>4 DEF CycleRead
  <2>2. receiver.sock \in Sockets
    BY <1>4 DEF CycleRead, TypeOK
  <2>3. PICK p \in net[receiver.sock].wire :
          (p.type = "PUBLISH" /\ Acknowledge(c, p.id)) \/ UNCHANGED callbacks
    BY <1>4 DEF CycleRead
  <2>4. CASE p.type = "PUBLISH" /\ Acknowledge(c, p.id)
    <3>1. issued[p.id].type = "PUBLISH"
      BY <2>2, <2>4 DEF Known, NetKnown, PacketKnown, RequestTypes
    <3>2. QED
      BY <2>1, <2>4, <3>1, AcknowledgePromise
  <2>5. CASE UNCHANGED callbacks
    BY <2>1, <2>5, QuietPromise DEF callbacks
  <2>6. QED
    BY <2>3, <2>4, <2>5
<1>5. \A c \in Clients : CycleIncoming(c) => Attempts' /\ PromiseKept
  BY IncomingWrite, QuietPromise DEF callbacks
<1>6. QED
  BY <1>1, <1>2, <1>3, <1>4, <1>5 DEF Cycle

LEMMA HandleConnectedPromise ==
  ASSUME TypeOK, Known, Phases, Attempts, NEW c \in Clients, HandleConnected(c)
  PROVE  Attempts' /\ PromiseKept
<1>1. connectState[c] # 0 /\ UNCHANGED <<connect, calls, issued, socket>>
  BY DEF HandleConnected, app
<1>2. PICK i \in Ids : i = connect[c].id /\ IsCall(i, c, "CONNECT") /\ notified[i] = 0
  BY <1>1 DEF Attempts, AttemptAt, AttemptStarted, Known, AttemptKnown, IsCall
<1>3. view[c] = "connecting" /\ \A x \in commands : ~IsConnect(x, c)
  BY <1>1, NothingQueued DEF Attempts, AttemptAt, AttemptStarted
<1>4. Notify(i, c, "up")
  BY <1>2 DEF HandleConnected
<1>5. Promise!Connected(c)
  BY <1>1, <1>2, <1>3, <1>4, NotifyIsReport, IsCallPromise DEF Promise!Connected
<1>6. \A x \in commands', d \in Clients : IsConnect(x, d) => x \in commands
  <2>1. \/ commands' = commands
        \/ commands' = AtHead(commands, c, "DISCONNECT", 0, 0)
        \/ commands' = WithoutClient(commands, c)
    BY DEF HandleConnected, CleanSession
  <2>2. QED
    BY <2>1, InternalDisconnectConnects DEF WithoutClient
<1>7. /\ \A d \in Clients : connected'[d] = (IF d = c THEN TRUE ELSE connected[d])
      /\ \A d \in Clients : connectState'[d] = (IF d = c THEN 0 ELSE connectState[d])
      /\ \A d \in Clients : view'[d] = (IF d = c THEN "up" ELSE view[d])
  BY DEF HandleConnected, Notify, TypeOK
<1>8. AttemptOver(c)
  BY <1>3, <1>6, <1>7 DEF AttemptOver
<1>9. \A d \in Clients \ {c} : AttemptKept(d)
  <2>1. \A d : d # c => ~IsCall(i, d, "CONNECT")
    BY <1>2 DEF IsCall
  <2>2. \A d \in Clients \ {c} : ConnectSilent(d)
    BY <1>4, <2>1, ReportSilent DEF Notify
  <2>3. QED
    BY <1>1, <1>6, <1>7, <2>2 DEF AttemptKept
<1>10. QED
  BY <1>5, <1>8, <1>9, AttemptKeptAt, AttemptOverAt DEF Attempts, PromiseKept, Promise!Next

LEMMA HandlePromise ==
  ASSUME TypeOK, Known, Once, Phases, Attempts, Handle
  PROVE  Attempts' /\ PromiseKept
<1> USE DEF connection, session, app
<1>1. CASE HandleNobody
  BY <1>1, QuietPromise DEF HandleNobody, callbacks
<1>2. ASSUME NEW c \in Clients, HandleError(c)
      PROVE  Attempts' /\ PromiseKept
  <2>1. UNCHANGED <<connect, calls, issued, view, notified>>
    BY <1>2 DEF HandleError, callbacks
  <2>2. CASE /\ commands' = AtHead(commands, c, "DISCONNECT", 0, 0)
             /\ UNCHANGED <<connected, connectState, socket>>
    BY <2>1, <2>2, InternalDisconnectConnects, QuietPromise
  <2>3. CASE ~connected[c] /\ CloseOnly(c) /\ UNCHANGED commands
    <3>1. connectState[c] # 0
      BY <1>2, <2>3 DEF HandleError, Attempts, AttemptAt, SocketUsed
    <3>2. /\ socket'[c] = 0 /\ connectState'[c] = 0
          /\ \A d \in Clients \ {c} : PhaseKept(d)
      BY <2>3, CloseOnlyFresh DEF CloseOnly, TypeOK
    <3>3. AttemptOver(c)
      BY <2>3, <3>1, <3>2, NothingQueued DEF AttemptOver
    <3>4. \A d \in Clients \ {c} : AttemptKept(d)
      BY <2>1, <2>3, <3>2, NoReportSilent DEF AttemptKept, PhaseKept
    <3>5. QED
      BY <2>1, <3>3, <3>4, AttemptKeptAt, AttemptOverAt DEF Attempts, PromiseKept
  <2>4. QED
    BY <1>2, <2>2, <2>3 DEF HandleError, WithInternalDisconnect
<1>3. ASSUME NEW c \in Clients, HandleRefused(c)
      PROVE  Attempts' /\ PromiseKept
  <2>1. ~connected[c] /\ socket[c] # 0
    BY <1>3 DEF HandleRefused, Phases, OneAnswer, Connack
  <2>2. connectState[c] # 0
    BY <2>1 DEF Attempts, AttemptAt, SocketUsed
  <2>3. QED
    BY <1>3, <2>2, AttemptFailedPromise DEF HandleRefused
<1>4. ASSUME NEW c \in Clients, HandleAck(c)
      PROVE  Attempts' /\ PromiseKept
  <2>1. receiver.pack.id \in Ids => issued[receiver.pack.id].type # "PUBLISH0"
    BY <1>4 DEF HandleAck, Known, PackKnown, TypeOK, Answer, Ids
  <2>2. QED
    BY <1>4, <2>1, AcknowledgePromise DEF HandleAck
<1>5. QED
  BY <1>1, <1>2, <1>3, <1>4, HandleConnectedPromise DEF Handle

\* a write that completes late reports the QoS 0 publish it was for
LEMMA ContinueWritePromise ==
  ASSUME TypeOK, Known, Once, Attempts, NEW f, ContinueWrite(f)
  PROVE  Attempts' /\ PromiseKept
<1>1. UNCHANGED <<calls, issued, commands, connectState, connect, socket, connected>>
  BY DEF ContinueWrite, app, connection
<1>2. CASE UNCHANGED callbacks
  BY <1>1, <1>2, QuietPromise DEF callbacks
<1>3. ASSUME NEW c \in Clients, pendingWrite[c] # 0, Notify(pendingWrite[c], c, view[c])
      PROVE  Attempts' /\ PromiseKept
  <2>1. PICK i \in Ids : i = pendingWrite[c] /\ IsCall(i, c, "PUBLISH0")
    BY <1>3 DEF Known, AttemptKnown, IsCall
  <2>2. issued[i].type # "CONNECT" /\ Writing(i)
    BY <2>1 DEF IsCall, Writing
  <2>3. notified[i] = 0
    BY <2>2 DEF Once, OnceAt, Awaited
  <2>4. PromiseKept /\ UNCHANGED view /\ \A d \in Clients : ConnectSilent(d)
    BY <1>1, <1>3, <2>1, <2>3, AnswerPromised DEF RequestTypes
  <2>5. QED
    BY <1>1, <2>4, SilentPromise
<1>4. QED
  BY <1>2, <1>3 DEF ContinueWrite, WriteComplete

LEMMA OthersPromise ==
  ASSUME TypeOK, Known, Phases, Attempts
  PROVE  /\ \A c \in Clients : CheckTimeouts(c) => Attempts' /\ PromiseKept
         /\ \A f : Select(f) => Attempts' /\ PromiseKept
         /\ Retry => Attempts' /\ PromiseKept
         /\ Network => Attempts' /\ PromiseKept
         /\ UNCHANGED vars => Attempts' /\ PromiseKept
<1> USE DEF connection, session, callbacks, app
<1>1. ASSUME NEW c \in Clients, CheckTimeouts(c)
      PROVE  Attempts' /\ PromiseKept
  <2>1. connectState[c] # 0 /\ AttemptFailed(c) /\ UNCHANGED <<connect, calls, issued>>
    BY <1>1 DEF CheckTimeouts, Phases, PhaseKnown
  <2>2. QED
    BY <2>1, AttemptFailedPromise
<1>2. \A f : Select(f) => Attempts' /\ PromiseKept
  BY QuietPromise DEF Select
<1>3. ASSUME Retry
      PROVE  Attempts' /\ PromiseKept
  <2>1. \A x \in commands', d \in Clients : IsConnect(x, d) => x \in commands
    BY <1>3, RetryWrites, InternalDisconnectConnects DEF WithInternalDisconnect
  <2>2. QED
    BY <1>3, <2>1, RetryWrites, QuietPromise
<1>4. Network => Attempts' /\ PromiseKept
  BY QuietPromise DEF Network, TcpUp, TcpFail, PeerClose, SetStatus
<1>5. UNCHANGED vars => Attempts' /\ PromiseKept
  BY QuietPromise DEF vars
<1>6. QED
  BY <1>1, <1>2, <1>3, <1>4, <1>5

LEMMA PromiseNext ==
  ASSUME "ready" \notin ConnectOutcomes, "failed" \notin ConnectOutcomes, ~DisconnectDelay, ~EagerConnect,
         TypeOK, Known, Once, Phases, Attempts, [Next]_vars
  PROVE  Attempts' /\ PromiseKept
BY ApplicationPromise, ProcessCommandPromise, CyclePromise, HandlePromise, ContinueWritePromise,
   OthersPromise DEF Next, ReceiveThread

LEMMA AttemptsCorrect ==
  ASSUME "ready" \notin ConnectOutcomes, "failed" \notin ConnectOutcomes, ~DisconnectDelay, ~EagerConnect
  PROVE  Spec => []Attempts
<1>1. Init => Attempts
  BY DEF Init, Attempts, AttemptAt, AttemptQueued, AttemptStarted, SocketUsed
<1>2. TypeOK /\ Known /\ Once /\ Phases /\ Attempts /\ [Next]_vars => Attempts'
  BY PromiseNext
<1>3. QED
  BY <1>1, <1>2, TypeCorrect, KnownCorrect, OnceCorrect, PhasesCorrect, PTL DEF Spec

\* A client whose application was told that it is down has no attempt to connect under
\* way or queued: no other protocol version is tried after onFailure, and no
\* CONNECT outlives the disconnect that closed its client.
THEOREM ViewDownCorrect ==
  ASSUME "ready" \notin ConnectOutcomes, "failed" \notin ConnectOutcomes, ~DisconnectDelay, ~EagerConnect
  PROVE  Spec => []ViewDown
<1>1. Attempts => ViewDown
  BY DEF Attempts, AttemptAt, AttemptQueued, AttemptStarted, ViewDown, ConnectQueued, IsConnect
<1>2. QED
  BY <1>1, AttemptsCorrect, PTL

\* The engine implements AsyncClient, under the mapping that keeps the application's
\* state and forgets queue, threads and sockets: whatever the two threads, the
\* broker and the network do, a handle changes only as one callback of the promise says, a
\* connect has one outcome, and no call is reported twice.
THEOREM KeepsPromiseCorrect ==
  ASSUME "ready" \notin ConnectOutcomes, "failed" \notin ConnectOutcomes, ~DisconnectDelay, ~EagerConnect
  PROVE  Spec => KeepsPromise
<1>1. Init => Promise!Init
  BY DEF Init, Promise!Init, Ids, Promise!Ids, NotIssued, Promise!NotIssued
<1>2. TypeOK /\ Known /\ Once /\ Phases /\ Attempts /\ [Next]_vars => [Promise!Next]_(Promise!vars)
  BY PromiseNext DEF PromiseKept, Promise!vars
<1>3. QED
  BY <1>1, <1>2, TypeCorrect, KnownCorrect, OnceCorrect, PhasesCorrect, AttemptsCorrect, PTL
     DEF Spec, KeepsPromise, Promise!Spec

-----------------------------------------------------------------------------
(* ConnectKept: a CONNECT leaves the queue for an attempt, and an attempt  *)
(* ends with the CONNECT back in the queue or with a callback, in whichever*)
(* thread; the two steps that end one and say nothing are the exceptions.  *)

\* the step leaves c an attempt or a CONNECT, or tells the application
Kept(c) ==
  view[c] = "connecting" /\ ConnectHeld(c) /\ view'[c] = "connecting" => ConnectHeld(c)'
AllKept ==
  \A c \in Clients :
    \/ Kept(c)
    \/ HandleError(c)
    \/ \E x \in commands : x.client = c /\ ProcessDisconnect(x)

LEMMA HeldKept ==
  ASSUME NEW c, connectState'[c] = connectState[c],
         \A x \in commands : x.client = c /\ x.type = "CONNECT" => x \in commands'
  PROVE  Kept(c)
BY DEF Kept, ConnectHeld, ConnectQueued

\* every step that starts and ends no attempt and takes no command
LEMMA SilentHeld ==
  ASSUME UNCHANGED connectState, commands \subseteq commands'
  PROVE  AllKept
BY HeldKept DEF AllKept

LEMMA AtHeadHas ==
  ASSUME NEW q, NEW c, NEW t, NEW i, NEW v
  PROVE  \E x \in AtHead(q, c, t, i, v) : x.client = c /\ x.type = t
<1>1. CASE \E x \in q : First(q, x) /\ x.client = c /\ x.type = t
  BY <1>1 DEF AtHead
<1>2. CASE ~\E x \in q : First(q, x) /\ x.client = c /\ x.type = t
  <2> DEFINE new == [client |-> c, type |-> t, id |-> i, version |-> v, pos |-> Front(q)]
  <2>1. AtHead(q, c, t, i, v) = q \cup {new}
    BY <1>2 DEF AtHead
  <2>2. new.client = c /\ new.type = t
    OBVIOUS
  <2> HIDE DEF new
  <2>3. QED
    BY <2>1, <2>2
<1>3. QED
  BY <1>1, <1>2

\* closing c takes nothing from another client
LEMMA CloseOnlyHeld ==
  ASSUME TypeOK, NEW c \in Clients, CloseOnly(c),
         \A x \in commands : x.client # c /\ x.type = "CONNECT" => x \in commands'
  PROVE  \A d \in Clients \ {c} : Kept(d)
<1>1. \A d \in Clients \ {c} : connectState'[d] = connectState[d]
  BY DEF CloseOnly, TypeOK
<1>2. QED
  BY <1>1, HeldKept

LEMMA CloseSessionHeld ==
  ASSUME TypeOK, NEW c \in Clients, NEW q, CloseSession(c, q),
         \A x \in commands : x.client # c /\ x.type = "CONNECT" => x \in q
  PROVE  \A d \in Clients \ {c} : Kept(d)
<1>1. \A x \in commands : x.client # c /\ x.type = "CONNECT" => x \in commands'
  BY DEF CloseSession, CleanSession, WithoutClient
<1>2. QED
  BY <1>1, CloseOnlyHeld DEF CloseSession

LEMMA AttemptFailedHeld ==
  ASSUME TypeOK, NEW c \in Clients, AttemptFailed(c)
  PROVE  AllKept
<1>1. CASE MoreToTry(connect[c].version)
  <2>1. /\ CloseOnly(c)
        /\ commands' = AtHead(commands, c, "CONNECT", connect[c].id, connect[c].version)
    BY <1>1 DEF AttemptFailed
  <2>2. ConnectQueued(c)'
    BY <2>1, AtHeadHas DEF ConnectQueued
  <2>3. commands \subseteq commands'
    BY <2>1, AtHeadKeeps
  <2>4. \A d \in Clients \ {c} : Kept(d)
    BY <2>1, <2>3, CloseOnlyHeld
  <2>5. QED
    BY <2>2, <2>4 DEF AllKept, Kept, ConnectHeld
<1>2. CASE ~MoreToTry(connect[c].version)
  <2>1. CloseSession(c, commands) /\ view' = [view EXCEPT ![c] = "down"]
    BY <1>2 DEF AttemptFailed, Notify
  <2>2. view'[c] = "down"
    BY <2>1 DEF TypeOK
  <2>3. \A d \in Clients \ {c} : Kept(d)
    BY <2>1, CloseSessionHeld
  <2>4. QED
    BY <2>2, <2>3 DEF AllKept, Kept
<1>3. QED
  BY <1>1, <1>2

LEMMA ApplicationHeld ==
  ASSUME Application
  PROVE  AllKept
<1>1. \A c : Connect(c) => commands \subseteq commands'
  BY AtHeadKeeps DEF Connect
<1>2. QED
  BY <1>1, SilentHeld DEF Application, Connect, CheckConnected, AddCommand, AtTail, connection

\* only a client that is connecting, or knows that it is connected, has its CONNECT
\* ignored
LEMMA IgnoreConnectHeld ==
  ASSUME TypeOK, ViewUp, NEW x \in commands, IgnoreConnect(x)
  PROVE  AllKept
<1>1. PICK c \in Clients : c = x.client
  BY DEF TypeOK, Command
<1>2. /\ UNCHANGED <<connectState, view>> /\ commands' = commands \ {x}
      /\ connectState[c] # 0 \/ view[c] = "up"
  BY <1>1 DEF IgnoreConnect, connection, callbacks, ViewUp
<1>3. \A d \in Clients \ {c} : Kept(d)
  BY <1>1, <1>2, HeldKept
<1>4. Kept(c)
  BY <1>2 DEF Kept, ConnectHeld
<1>5. QED
  BY <1>3, <1>4 DEF AllKept

LEMMA ProcessConnectHeld ==
  ASSUME TypeOK, NEW x \in commands, ProcessConnect(x)
  PROVE  AllKept
<1>1. PICK c \in Clients : c = x.client
  BY DEF TypeOK, Command
<1>2. PICK v : ConnectFailed(x, v) \/ ConnectStarted(x, v, 1) \/ ConnectStarted(x, v, 3)
  BY DEF ProcessConnect, MQTTProtocol_connect
<1>3. CASE ConnectFailed(x, v)
  <2>1. /\ UNCHANGED connectState
        /\ \/ view'[c] = "down" /\ commands' = commands \ {x}
           \/ commands' = AtHead(commands \ {x}, c, "CONNECT", x.id, v)
    BY <1>1, <1>3 DEF ConnectFailed, Notify, TypeOK
  <2>2. view'[c] = "down" \/ ConnectQueued(c)'
    BY <2>1, AtHeadHas DEF ConnectQueued
  <2>3. commands \ {x} \subseteq commands'
    BY <2>1, AtHeadKeeps
  <2>4. \A d \in Clients \ {c} : Kept(d)
    BY <1>1, <2>1, <2>3, HeldKept
  <2>5. QED
    BY <2>2, <2>4 DEF AllKept, Kept, ConnectHeld
<1>4. ASSUME NEW s \in {1, 3}, ConnectStarted(x, v, s)
      PROVE  AllKept
  <2>1. /\ connectState'[c] = s /\ commands' = commands \ {x}
        /\ \A d \in Clients \ {c} : connectState'[d] = connectState[d]
    BY <1>1, <1>4 DEF ConnectStarted, TypeOK
  <2>2. \A d \in Clients \ {c} : Kept(d)
    BY <1>1, <2>1, HeldKept
  <2>3. QED
    BY <2>1, <2>2 DEF AllKept, Kept, ConnectHeld
<1>5. QED
  BY <1>2, <1>3, <1>4

\* a disconnect ends the attempt of its own client only
LEMMA ProcessDisconnectHeld ==
  ASSUME TypeOK, NEW x \in commands, ProcessDisconnect(x)
  PROVE  AllKept
<1>1. PICK c \in Clients : c = x.client
  BY DEF TypeOK, Command
<1>2. x.type = "DISCONNECT"
  BY DEF ProcessDisconnect
<1>3. \A d \in Clients \ {c} : Kept(d)
  <2>1. CASE CloseSession(c, commands \ {x})
    BY <1>2, <2>1, CloseSessionHeld
  <2>2. CASE connectState' = [connectState EXCEPT ![c] = -2] /\ commands' = commands \ {x}
    <3>1. \A d \in Clients \ {c} : connectState'[d] = connectState[d]
      BY <2>2 DEF TypeOK
    <3>2. QED
      BY <1>2, <2>2, <3>1, HeldKept
  <2>3. CASE UNCHANGED connectState /\ commands' = commands \ {x}
    BY <1>2, <2>3, HeldKept
  <2>4. QED
    BY <1>1, <2>1, <2>2, <2>3 DEF ProcessDisconnect, CheckDisconnect, connection
<1>4. QED
  BY <1>1, <1>3 DEF AllKept

LEMMA ProcessCommandHeld ==
  ASSUME TypeOK, ViewUp, ProcessCommand
  PROVE  AllKept
<1>1. ASSUME NEW x \in commands, ProcessRequest(x) \/ ProcessPublish0(x)
      PROVE  AllKept
  <2>1. UNCHANGED connectState /\ x.type # "CONNECT" /\ commands \ {x} \subseteq commands'
    BY <1>1, AtHeadKeeps DEF ProcessRequest, ProcessPublish0, WithInternalDisconnect, connection
  <2>2. QED
    BY <2>1, HeldKept DEF AllKept
<1>2. FlagPendingWrite \/ StoreResponse => AllKept
  BY SilentHeld DEF FlagPendingWrite, StoreResponse, connection
<1>3. QED
  BY <1>1, <1>2, IgnoreConnectHeld, ProcessConnectHeld, ProcessDisconnectHeld DEF ProcessCommand

LEMMA CycleHeld ==
  ASSUME TypeOK, Cycle
  PROVE  AllKept
<1> USE DEF connection
<1>1. CycleNobody => AllKept
  BY SilentHeld DEF CycleNobody
<1>2. \A c \in Clients : CycleNothing(c) \/ CycleIncoming(c) => AllKept
  BY SilentHeld DEF CycleNothing, CycleIncoming
<1>3. \A c \in Clients : CycleRead(c) => AllKept
  BY SilentHeld DEF CycleRead
<1>4. \A c \in Clients : CycleReadError(c) => AllKept
  BY AttemptFailedHeld, SilentHeld DEF CycleReadError
<1>5. ASSUME NEW c \in Clients, CycleConnecting(c)
      PROVE  AllKept
  <2>1. CASE AttemptFailed(c)
    BY <2>1, AttemptFailedHeld
  <2>2. CASE connectState' = [connectState EXCEPT ![c] = 3] /\ UNCHANGED commands
    <3>1. connectState'[c] = 3 /\ \A d \in Clients \ {c} : connectState'[d] = connectState[d]
      BY <2>2 DEF TypeOK
    <3>2. \A d \in Clients \ {c} : Kept(d)
      BY <2>2, <3>1, HeldKept
    <3>3. QED
      BY <3>1, <3>2 DEF AllKept, Kept, ConnectHeld
  <2>3. QED
    BY <1>5, <2>1, <2>2 DEF CycleConnecting
<1>6. QED
  BY <1>1, <1>2, <1>3, <1>4, <1>5 DEF Cycle

LEMMA HandleHeld ==
  ASSUME TypeOK, Handle
  PROVE  AllKept
<1> USE DEF connection
<1>1. HandleNobody => AllKept
  BY SilentHeld DEF HandleNobody
<1>2. ASSUME NEW c \in Clients, HandleError(c)
      PROVE  AllKept
  <2>1. CASE UNCHANGED connectState /\ commands' = WithInternalDisconnect(commands, c)
    BY <2>1, InternalDisconnectKeeps, SilentHeld
  <2>2. CASE CloseOnly(c) /\ UNCHANGED commands
    BY <1>2, <2>2, CloseOnlyHeld DEF AllKept
  <2>3. QED
    BY <1>2, <2>1, <2>2 DEF HandleError
<1>3. ASSUME NEW c \in Clients, HandleConnected(c)
      PROVE  AllKept
  <2>1. view'[c] = "up" /\ \A d \in Clients \ {c} : connectState'[d] = connectState[d]
    BY <1>3 DEF HandleConnected, Notify, TypeOK
  <2>2. \A x \in commands : x.client # c => x \in commands'
    BY <1>3, AtHeadKeeps DEF HandleConnected, CleanSession, WithoutClient
  <2>3. \A d \in Clients \ {c} : Kept(d)
    BY <2>1, <2>2, HeldKept
  <2>4. QED
    BY <2>1, <2>3 DEF AllKept, Kept
<1>4. \A c \in Clients : HandleRefused(c) => AllKept
  BY AttemptFailedHeld DEF HandleRefused
<1>5. \A c \in Clients : HandleAck(c) => AllKept
  BY SilentHeld DEF HandleAck
<1>6. QED
  BY <1>1, <1>2, <1>3, <1>4, <1>5 DEF Handle

LEMMA OthersHeld ==
  ASSUME TypeOK, PhaseKnown
  PROVE  /\ \A c \in Clients : CheckTimeouts(c) => AllKept
         /\ \A f : Select(f) \/ ContinueWrite(f) => AllKept
         /\ Retry => AllKept
         /\ Network \/ UNCHANGED vars => AllKept
<1> USE DEF connection
<1>1. \A c \in Clients : CheckTimeouts(c) => AllKept
  BY AttemptFailedHeld DEF CheckTimeouts, PhaseKnown
<1>2. \A f : Select(f) \/ ContinueWrite(f) => AllKept
  BY SilentHeld DEF Select, ContinueWrite
<1>3. Retry => AllKept
  BY SilentHeld, InternalDisconnectKeeps DEF Retry, KeepAlive
<1>4. Network \/ UNCHANGED vars => AllKept
  BY SilentHeld DEF Network, TcpUp, TcpFail, PeerClose, SetStatus, vars
<1>5. QED
  BY <1>1, <1>2, <1>3, <1>4

\* An application that waits for its connect to be reported is waited for, by an
\* attempt or a CONNECT in the queue, whatever times out, is refused, closed, lost or
\* asked for, for any clients, clean or not, any MQTTVersion, and an application that
\* may connect again before the outcome; but for an error of an earlier connection
\* and a disconnect left from it.
THEOREM ConnectKeptCorrect ==
  ASSUME "ready" \notin ConnectOutcomes, ~DisconnectDelay
  PROVE  Spec => ConnectKept
<1>1. TypeOK /\ Phases /\ [Next]_vars => AllKept
  BY ApplicationHeld, ProcessCommandHeld, CycleHeld, HandleHeld, OthersHeld
     DEF Next, ReceiveThread, Phases
<1>2. AllKept =>
        [\A c \in Clients :
           view[c] = "connecting" /\ ConnectHeld(c) /\ view'[c] = "connecting" =>
             \/ ConnectHeld(c)'
             \/ HandleError(c)
             \/ \E x \in commands : x.client = c /\ ProcessDisconnect(x)]_vars
  BY DEF AllKept, Kept
<1>3. QED
  BY <1>1, <1>2, TypeCorrect, PhasesCorrect, PTL DEF Spec, ConnectKept

-----------------------------------------------------------------------------
(***************************************************************************)
(* The theorems of MQTTAsync about the answers to subscribes and           *)
(* unsubscribes: whatever can still be answered is waited for, and         *)
(* whatever is waited for can still be answered.                           *)
(***************************************************************************)

(* Expected: a subscribe on a connection belongs to the client connected   *)
(* on it, which has its response; it is there once, and no answer to it    *)
(* has been read.                                                          *)

On(f) == net[f].wire \cup {net[f].unsent}
\* the receive thread has the answer to call i
Taken(i) == receiver.pack.type = "ACK" /\ receiver.pack.id = i

PacketExpected(f, p) ==
  \E c \in Clients : socket[c] = f /\ connected[c] /\ \E r \in responses[c] : r.id = p.id
PacketsExpected ==
  \A f \in Sockets : \A p \in On(f) : Subscribing(p) => PacketExpected(f, p) /\ ~Taken(p.id)
WrittenOnce == \A f \in Sockets : Subscribing(net[f].unsent) => net[f].unsent \notin net[f].wire
TakenLeft == \A i \in Ids : Taken(i) => ~Held(i) /\ ~Queued(i)
ConnectedIdle == \A c \in Clients : connected[c] => connectState[c] \in {0, -2}

Expected == PacketsExpected /\ WrittenOnce /\ TakenLeft /\ ConnectedIdle

\* the step writes no subscribe to socket f
NoSubscribeWritten(f) ==
  /\ \A p \in net'[f].wire : Subscribing(p) =>
       \/ p \in net[f].wire
       \/ p = net[f].unsent /\ net'[f].unsent # p
  /\ Subscribing(net'[f].unsent) => net'[f].unsent = net[f].unsent

\* the step leaves c connected where it was, and takes only a response that no
\* subscribe on the connection waits for
AwaiterKept(c) ==
  /\ socket'[c] = socket[c] /\ connected'[c]
  /\ \A r \in responses[c] : r \in responses'[c] \/ issued[r.id].type = "PUBLISH" \/ Taken(r.id)
\* the step leaves no subscribe on c's connection
ConnectionEmpty(c) == \A f \in Sockets : f = socket[c] => \A p \in On(f)' : ~Subscribing(p)

LEMMA SubscribingKnown ==
  ASSUME Known, NEW f \in Sockets, NEW p \in On(f), Subscribing(p)
  PROVE  p.id \in Ids /\ issued[p.id].type = p.type /\ issued[p.id].type \in {"SUBSCRIBE", "UNSUBSCRIBE"}
<1>1. PacketKnown(p)
  BY DEF Known, NetKnown, On
<1>2. QED
  BY <1>1 DEF PacketKnown, Subscribing, RequestTypes

LEMMA ResponseKnown ==
  ASSUME Known, NEW c \in Clients, NEW r \in responses[c]
  PROVE  r.id \in Ids /\ r.id # 0 /\ issued[r.id].client = c
<1>1. IsCall(r.id, c, r.type)
  BY DEF Known, ResponsesKnown
<1>2. QED
  BY <1>1, CallFields

LEMMA SubscribesKept ==
  ASSUME NEW f \in Sockets, NoSubscribeWritten(f), NEW p \in On(f)', Subscribing(p)
  PROVE  p \in On(f)
BY DEF NoSubscribeWritten, On

LEMMA WrittenOnceKept ==
  ASSUME WrittenOnce, \A f \in Sockets : NoSubscribeWritten(f)
  PROVE  WrittenOnce'
BY DEF WrittenOnce, NoSubscribeWritten

LEMMA PacketsExpectedKept ==
  ASSUME Known, PacketsExpected, \A f \in Sockets : NoSubscribeWritten(f),
         \A c \in Clients : ~connected[c] \/ AwaiterKept(c) \/ ConnectionEmpty(c),
         \A i \in Ids : Taken(i)' => Taken(i)
  PROVE  PacketsExpected'
<1>1. ASSUME NEW f \in Sockets, NEW p \in On(f)', Subscribing(p)
      PROVE  PacketExpected(f, p)' /\ ~Taken(p.id)'
  <2>1. p \in On(f)
    BY <1>1, SubscribesKept
  <2>2. PacketExpected(f, p) /\ ~Taken(p.id)
    BY <1>1, <2>1 DEF PacketsExpected
  <2>3. p.id \in Ids /\ issued[p.id].type # "PUBLISH"
    BY <1>1, <2>1, SubscribingKnown
  <2>4. PICK c \in Clients : socket[c] = f /\ connected[c] /\ \E r \in responses[c] : r.id = p.id
    BY <2>2 DEF PacketExpected
  <2>5. AwaiterKept(c)
    BY <1>1, <2>4 DEF ConnectionEmpty
  <2>6. PICK r \in responses[c] : r.id = p.id
    BY <2>4
  <2>7. r \in responses'[c]
    BY <2>2, <2>3, <2>5, <2>6 DEF AwaiterKept
  <2>8. PacketExpected(f, p)'
    BY <2>4, <2>5, <2>6, <2>7 DEF AwaiterKept, PacketExpected
  <2>9. QED
    BY <2>2, <2>3, <2>8
<1>2. QED
  BY <1>1 DEF PacketsExpected, Subscribing

LEMMA TakenLeftKept ==
  ASSUME Known, TakenLeft, UNCHANGED pendingCall,
         \A x \in commands' : x \in commands \/ Harmless(x),
         \A i \in Ids : Taken(i)' => Taken(i)
  PROVE  TakenLeft'
<1>1. ASSUME NEW i \in Ids, Taken(i)
      PROVE  ~Held(i)' /\ ~Queued(i)'
  <2>1. issued[i].type # "CONNECT"
    BY <1>1 DEF Taken, Known, PackKnown, Ids
  <2>2. Queued(i)' => Queued(i)
    BY <2>1, CommandsShrunk
  <2>3. QED
    BY <1>1, <2>2 DEF TakenLeft, Held
<1>2. QED
  BY <1>1 DEF TakenLeft

LEMMA ExpectedStep ==
  ASSUME Known, Expected, \A f \in Sockets : NoSubscribeWritten(f),
         \A c \in Clients : ~connected[c] \/ AwaiterKept(c) \/ ConnectionEmpty(c),
         \A i \in Ids : Taken(i)' => Taken(i),
         UNCHANGED pendingCall, \A x \in commands' : x \in commands \/ Harmless(x),
         ConnectedIdle'
  PROVE  Expected'
BY WrittenOnceKept, PacketsExpectedKept, TakenLeftKept DEF Expected

LEMMA NetKeptNoSubscribe ==
  ASSUME UNCHANGED net
  PROVE  \A f \in Sockets : NoSubscribeWritten(f)
BY DEF NoSubscribeWritten

LEMMA ControlNoSubscribe ==
  ASSUME TypeOK, NEW c \in Clients, ControlWritten(c)
  PROVE  \A f \in Sockets : NoSubscribeWritten(f)
<1>1. ASSUME NEW f \in Sockets
      PROVE  \/ net'[f] = net[f]
             \/ net'[f].wire = net[f].wire /\ ~Subscribing(net'[f].unsent)
  <2>1. net[f] \in Socket
    BY DEF TypeOK
  <2>2. ASSUME NEW t \in ControlTypes, net'[f] = [net[f] EXCEPT !.unsent = Control(t)]
        PROVE  net'[f].wire = net[f].wire /\ net'[f].unsent = Control(t)
    BY <2>1, <2>2 DEF Socket
  <2>3. \A t \in ControlTypes : ~Subscribing(Control(t))
    BY DEF ControlTypes, Control, Subscribing
  <2>4. net'[f] = net[f] \/ \E t \in ControlTypes : net'[f] = [net[f] EXCEPT !.unsent = Control(t)]
    BY DEF ControlWritten
  <2>5. ASSUME NEW t \in ControlTypes, net'[f] = [net[f] EXCEPT !.unsent = Control(t)]
        PROVE  net'[f].wire = net[f].wire /\ ~Subscribing(net'[f].unsent)
    BY <2>2, <2>3, <2>5
  <2>6. QED
    BY <2>4, <2>5
<1>2. QED
  BY <1>1 DEF NoSubscribeWritten

\* every step that touches no connection and takes no response
LEMMA SilentExpected ==
  ASSUME TypeOK, Known, Expected, UNCHANGED <<connected, connectState, socket, pendingCall>>,
         UNCHANGED net \/ \E c \in Clients : ControlWritten(c),
         \A c \in Clients : \A r \in responses[c] :
           r \in responses'[c] \/ issued[r.id].type = "PUBLISH" \/ Taken(r.id),
         \A i \in Ids : Taken(i)' => Taken(i),
         \A x \in commands' : x \in commands \/ Harmless(x)
  PROVE  Expected'
<1>1. \A c \in Clients : ~connected[c] \/ AwaiterKept(c)
  BY DEF AwaiterKept
<1>2. ConnectedIdle'
  BY DEF Expected, ConnectedIdle
<1>3. QED
  BY <1>1, <1>2, NetKeptNoSubscribe, ControlNoSubscribe, ExpectedStep

\* c is closed: its socket is released with everything on it
LEMMA CloseExpected ==
  ASSUME TypeOK, Known, Expected, NEW c \in Clients, CloseOnly(c), UNCHANGED pendingCall,
         \A d \in Clients \ {c} : responses'[d] = responses[d],
         \A i \in Ids : Taken(i)' => Taken(i),
         \A x \in commands' : x \in commands \/ Harmless(x)
  PROVE  Expected'
<1>1. \A f \in Sockets : NoSubscribeWritten(f)
  BY CloseOnlyNet DEF TypeOK, NoSubscribeWritten, NoPacket, Control, Subscribing
<1>2. ConnectionEmpty(c)
  <2>1. socket[c] \in Sockets =>
          net'[socket[c]].unsent = NoPacket /\ net'[socket[c]].wire \subseteq {Control("DISCONNECT")}
    BY CloseOnlyNet DEF TypeOK
  <2>2. QED
    BY <2>1 DEF ConnectionEmpty, On, NoPacket, Control, Subscribing
<1>3. /\ ~connected'[c]
      /\ \A d \in Clients \ {c} : socket'[d] = socket[d] /\ connected'[d] = connected[d]
                                  /\ connectState'[d] = connectState[d]
  BY DEF CloseOnly, TypeOK
<1>4. \A d \in Clients \ {c} : ~connected[d] \/ AwaiterKept(d)
  BY <1>3 DEF AwaiterKept
<1>5. ConnectedIdle'
  BY <1>3 DEF Expected, ConnectedIdle
<1>6. QED
  BY <1>1, <1>2, <1>4, <1>5, ExpectedStep

LEMMA CloseSessionExpected ==
  ASSUME TypeOK, Known, Expected, NEW c \in Clients, NEW q, CloseSession(c, q), UNCHANGED pendingCall,
         \A x \in q : x \in commands \/ Harmless(x),
         \A i \in Ids : Taken(i)' => Taken(i)
  PROVE  Expected'
<1>1. CloseOnly(c)
  BY DEF CloseSession
<1>2. commands' \subseteq q
  BY CloseSessionKept
<1>3. \A d \in Clients \ {c} : responses'[d] = responses[d]
  BY DEF CloseSession, CleanSession, session, TypeOK
<1>4. QED
  BY <1>1, <1>2, <1>3, CloseExpected

LEMMA AttemptFailedExpected ==
  ASSUME TypeOK, Known, Expected, NEW c \in Clients, AttemptFailed(c), UNCHANGED pendingCall,
         \A i \in Ids : Taken(i)' => Taken(i)
  PROVE  Expected'
<1>1. CASE CloseSession(c, commands)
  BY <1>1, CloseSessionExpected
<1>2. CASE CloseOnly(c) /\ UNCHANGED session
  BY <1>2, AttemptFailedKept, CloseExpected DEF session
<1>3. QED
  BY <1>1, <1>2 DEF AttemptFailed

-----------------------------------------------------------------------------
(* Expected: the application and the send thread *)

\* a call that is new has not been answered
LEMMA CallNotTaken ==
  ASSUME Known, NEW i \in Ids, issued[i] = NotIssued
  PROVE  ~Taken(i)
BY DEF Taken, Known, PackKnown, NotIssued, Ids

LEMMA ApplicationExpected ==
  ASSUME TypeOK, Known, Expected, Application
  PROVE  Expected'
<1> USE DEF connection, session, callbacks, app
<1>0. UNCHANGED <<net, connected, connectState, socket, responses, receiver>>
  BY DEF Application, Connect, CheckConnected, AddCommand
<1>1. PacketsExpected' /\ WrittenOnce' /\ ConnectedIdle'
  BY <1>0 DEF Expected, PacketsExpected, WrittenOnce, ConnectedIdle, PacketExpected, On, Taken, Subscribing
<1>2. \A i : Taken(i)' <=> Taken(i)
  BY <1>0 DEF Taken
<1>3. ASSUME NEW c \in Clients, Connect(c)
      PROVE  TakenLeft'
  <2>1. PICK j \in Ids : j = calls + 1
    BY <1>3, BoundAssumption DEF Connect, TypeOK, Ids
  <2>2. commands' = AtHead(commands, c, "CONNECT", j, 0) /\ UNCHANGED pendingCall
    BY <1>3, <2>1 DEF Connect
  <2>3. issued[j] = NotIssued
    BY <2>1 DEF Known, CallsKnown, TypeOK, Ids
  <2>4. ASSUME NEW i \in Ids, Taken(i)
        PROVE  ~Held(i)' /\ ~Queued(i)'
    <3>1. i # j
      BY <2>3, <2>4, CallNotTaken
    <3>2. ~Held(i) /\ ~Queued(i)
      BY <2>4 DEF Expected, TakenLeft
    <3>3. QED
      BY <2>2, <3>1, <3>2, AtHeadKept DEF Held, Queued
  <2>5. QED
    BY <1>2, <2>4 DEF TakenLeft
<1>4. ASSUME NEW c \in Clients, NEW t \in CallTypes, CheckConnected(c, t)
      PROVE  TakenLeft'
  <2>1. PICK j \in Ids : j = calls + 1
    BY <1>4, BoundAssumption DEF CheckConnected, TypeOK, Ids
  <2>2. UNCHANGED commands /\ pendingCall'.id = j
    BY <1>4, <2>1 DEF CheckConnected
  <2>3. issued[j] = NotIssued
    BY <2>1 DEF Known, CallsKnown, TypeOK, Ids
  <2>4. \A i \in Ids : Taken(i) => i # j
    BY <2>3, CallNotTaken
  <2>5. QED
    BY <1>2, <2>2, <2>4 DEF Expected, TakenLeft, Held, Queued
<1>5. ASSUME AddCommand
      PROVE  TakenLeft'
  <2>1. pendingCall' = NoCall /\ \A x \in commands' : x \in commands \/ x.id = pendingCall.id
    BY <1>5 DEF AddCommand, AtTail
  <2>2. \A i \in Ids : ~Held(i)' /\ (Queued(i)' => Queued(i) \/ Held(i))
    BY <2>1 DEF Held, Queued, NoCall, Ids
  <2>3. QED
    BY <1>2, <2>2 DEF Expected, TakenLeft
<1>6. QED
  BY <1>1, <1>3, <1>4, <1>5 DEF Application, Expected

LEMMA ProcessConnectExpected ==
  ASSUME TypeOK, Known, Expected, NEW x \in commands, ProcessConnect(x)
  PROVE  Expected'
<1> USE DEF session, app
<1>0. PICK c \in Clients : c = x.client
  BY DEF TypeOK, Command
<1>1. /\ ~connected[c] /\ connectState[c] = 0 /\ x.type = "CONNECT"
      /\ UNCHANGED <<responses, receiver, pendingCall>>
  BY <1>0 DEF ProcessConnect
<1>2. PICK v : MQTTProtocol_connect(x, v)
  BY DEF ProcessConnect
<1>3. /\ UNCHANGED connected
      /\ \A d \in Clients \ {c} : connectState'[d] = connectState[d] /\ socket'[d] = socket[d]
  BY <1>0, <1>2
     DEF MQTTProtocol_connect, ConnectFailed, ConnectStarted, OpenSocket, TypeOK
<1>4. \A y \in commands' : y \in commands \/ Harmless(y)
  <2>1. CASE ConnectFailed(x, v)
    BY <1>1, <2>1, ConnectFailedKept
  <2>2. CASE \E s : ConnectStarted(x, v, s)
    BY <2>2 DEF ConnectStarted
  <2>3. QED
    BY <1>2, <2>1, <2>2 DEF MQTTProtocol_connect
<1>5. \A f \in Sockets : NoSubscribeWritten(f)
  <2>1. CASE UNCHANGED net
    BY <2>1, NetKeptNoSubscribe
  <2>2. ASSUME NEW f \in Sockets, NEW st, NEW wire, NEW u, OpenSocket(c, f, st, wire, u),
               ~Subscribing(u), \A p \in wire : ~Subscribing(p)
        PROVE  \A g \in Sockets : NoSubscribeWritten(g)
    BY <2>2 DEF OpenSocket, TypeOK, NoSubscribeWritten
  <2>3. ~Subscribing(NoPacket) /\ ~Subscribing([type |-> "CONNECT", id |-> x.id])
    BY DEF Subscribing, NoPacket
  <2>4. QED
    BY <1>0, <1>2, <2>1, <2>2, <2>3 DEF MQTTProtocol_connect
<1>6. \A d \in Clients : ~connected[d] \/ AwaiterKept(d)
  BY <1>1, <1>3 DEF AwaiterKept
<1>7. ConnectedIdle'
  BY <1>1, <1>3 DEF Expected, ConnectedIdle
<1>8. \A i \in Ids : Taken(i)' => Taken(i)
  BY <1>1 DEF Taken
<1>9. QED
  BY <1>1, <1>4, <1>5, <1>6, <1>7, <1>8, ExpectedStep

LEMMA CheckDisconnectExpected ==
  ASSUME TypeOK, Known, Expected, NEW c \in Clients, NEW i, NEW q, CheckDisconnect(c, i, q),
         q \subseteq commands, UNCHANGED <<pendingCall, receiver>>
  PROVE  Expected'
<1>0. \A j \in Ids : Taken(j)' => Taken(j)
  BY DEF Taken
<1>1. CASE CloseSession(c, q)
  BY <1>0, <1>1, CloseSessionExpected
<1>2. CASE /\ connectState' = [connectState EXCEPT ![c] = -2] /\ commands' = q
           /\ UNCHANGED <<connected, socket, net, session>>
  <2>1. ConnectedIdle'
    BY <1>2 DEF Expected, ConnectedIdle, TypeOK
  <2>2. \A d \in Clients : ~connected[d] \/ AwaiterKept(d)
    BY <1>2 DEF AwaiterKept, session
  <2>3. QED
    BY <1>0, <1>2, <2>1, <2>2, NetKeptNoSubscribe, ExpectedStep
<1>3. QED
  BY <1>1, <1>2 DEF CheckDisconnect

\* a packet that is not a subscribe is written
LEMMA WriteNoSubscribe ==
  ASSUME TypeOK, NEW g, NEW p, NEW w, ~Subscribing(p),
         net' = [net EXCEPT ![g] = Written(@, p, w)]
  PROVE  \A f \in Sockets : NoSubscribeWritten(f)
<1>1. net \in [Sockets -> Socket]
  BY DEF TypeOK
<1>2. ASSUME NEW s \in Socket
      PROVE  /\ Written(s, p, w).wire \in {s.wire, s.wire \cup {p}}
             /\ Written(s, p, w).unsent \in {s.unsent, p}
  BY DEF Written, Received, Answerable, Socket
<1>3. ASSUME NEW f \in Sockets
      PROVE  /\ net'[f].wire \in {net[f].wire, net[f].wire \cup {p}}
             /\ net'[f].unsent \in {net[f].unsent, p}
  BY <1>1, <1>2, <1>3
<1>4. QED
  BY <1>3 DEF NoSubscribeWritten

\* a request that is sent gets its response in the same step, and was in the queue,
\* so that it is on no connection and has no answer yet
LEMMA ProcessRequestExpected ==
  ASSUME TypeOK, SocketsOwned, Known, Once, Expected, NEW x \in commands, ProcessRequest(x)
  PROVE  Expected'
<1> USE DEF connection, session, callbacks, app
<1>a. PICK c \in Clients, f \in Sockets : c = x.client /\ f = socket[c]
  BY DEF TypeOK, Command, ProcessRequest, Selected, Eligible, SocketsOwned
<1>b. PICK p : p = [type |-> x.type, id |-> x.id]
  OBVIOUS
<1>0. c = x.client /\ f = socket[c] /\ p = [type |-> x.type, id |-> x.id]
  BY <1>a, <1>b
<1>1. /\ connected[c] /\ net[f].unsent = NoPacket
      /\ x.type \in {"SUBSCRIBE", "UNSUBSCRIBE", "PUBLISH"}
      /\ UNCHANGED <<connected, connectState, socket, receiver, pendingCall>>
  BY <1>0 DEF ProcessRequest, Selected, Eligible, NoPendingWrites
<1>2. PICK w : /\ net' = [net EXCEPT ![f] = Written(@, p, w)]
               /\ IF w = "error" THEN UNCHANGED responses
                  ELSE responses' = [responses EXCEPT ![c] = @ \cup {x}]
               /\ \/ commands' = WithInternalDisconnect(commands \ {x}, c)
                  \/ commands' = commands \ {x}
  BY <1>0 DEF ProcessRequest
<1>3. \A y \in commands' : y \in commands \/ Harmless(y)
  BY <1>2, InternalDisconnectKept
<1>4. \A d \in Clients : responses[d] \subseteq responses'[d]
  BY <1>2 DEF TypeOK
<1>5. \A d \in Clients : ~connected[d] \/ AwaiterKept(d)
  BY <1>1, <1>4 DEF AwaiterKept
<1>6. ConnectedIdle' /\ \A i \in Ids : Taken(i)' <=> Taken(i)
  BY <1>1 DEF Expected, ConnectedIdle, Taken
<1>7. net[f] \in Socket /\ net'[f] = Written(net[f], p, w) /\ \A g \in Sockets \ {f} : net'[g] = net[g]
  BY <1>2 DEF TypeOK
<1>8. CASE w = "error"
  <2>1. net'[f] = net[f]
    BY <1>7, <1>8 DEF Written
  <2>2. \A g \in Sockets : NoSubscribeWritten(g)
    BY <1>7, <2>1 DEF NoSubscribeWritten
  <2>3. QED
    BY <1>1, <1>3, <1>5, <1>6, <2>2, ExpectedStep
<1>9. CASE x.type = "PUBLISH"
  <2>1. ~Subscribing(p)
    BY <1>0, <1>9 DEF Subscribing
  <2>2. \A g \in Sockets : NoSubscribeWritten(g)
    BY <1>2, <2>1, WriteNoSubscribe
  <2>3. QED
    BY <1>1, <1>3, <1>5, <1>6, <2>2, ExpectedStep
<1>10. CASE w # "error" /\ x.type # "PUBLISH"
  <2>1. x.id \in Ids /\ issued[x.id].type # "CONNECT"
    <3>1. x.id # 0
      BY <1>1 DEF TypeOK, Command, RequestTypes, Ids
    <3>2. IsCall(x.id, x.client, x.type)
      BY <3>1 DEF Known, QueueKnown
    <3>3. QED
      BY <1>1, <3>2, CallFields
  <2>2. Queued(x.id) /\ ~Responding(x.id)
    BY <2>1 DEF Once, OnceAt, OnePlace, Queued
  <2>3. ~Taken(x.id)
    BY <2>1, <2>2 DEF Expected, TakenLeft
  <2>4. p \notin net[f].wire
    <3>1. ASSUME p \in net[f].wire
          PROVE  FALSE
      <4>1. p \in On(f) /\ Subscribing(p)
        BY <1>0, <1>1, <1>10, <3>1 DEF On, Subscribing
      <4>2. PacketExpected(f, p)
        BY <4>1 DEF Expected, PacketsExpected
      <4>3. QED
        BY <1>0, <2>2, <4>2 DEF PacketExpected, Responding
    <3>2. QED
      BY <3>1
  <2>5. \/ net'[f].wire = net[f].wire /\ net'[f].unsent \in {NoPacket, p}
        \/ net'[f].wire = net[f].wire \cup {p} /\ net'[f].unsent = NoPacket
    BY <1>1, <1>7 DEF Written, Received, Answerable, Socket
  <2>6. WrittenOnce'
    <3>1. ~Subscribing(NoPacket)
      BY DEF Subscribing, NoPacket
    <3>2. Subscribing(net'[f].unsent) => net'[f].unsent \notin net'[f].wire
      BY <2>4, <2>5, <3>1
    <3>3. QED
      BY <1>7, <3>2 DEF Expected, WrittenOnce, Subscribing
  <2>7. PacketExpected(f, p)'
    <3>1. x \in responses'[c] /\ x.id = p.id
      BY <1>0, <1>2, <1>10 DEF TypeOK
    <3>2. QED
      BY <1>0, <1>1, <3>1 DEF PacketExpected
  <2>8. ASSUME NEW g \in Sockets, NEW q \in On(g)', Subscribing(q)
        PROVE  PacketExpected(g, q)' /\ ~Taken(q.id)'
    <3>1. CASE g = f /\ q = p
      BY <1>0, <1>6, <2>1, <2>3, <2>7, <3>1
    <3>2. CASE q \in On(g)
      <4>1. PacketExpected(g, q) /\ ~Taken(q.id) /\ q.id \in Ids
        BY <2>8, <3>2, SubscribingKnown DEF Expected, PacketsExpected
      <4>2. PacketExpected(g, q)'
        BY <1>1, <1>4, <4>1 DEF PacketExpected
      <4>3. QED
        BY <1>6, <4>1, <4>2
    <3>3. q \in On(g) \/ (g = f /\ q = p)
      <4>1. CASE g = f
        BY <1>1, <2>5, <2>8, <4>1 DEF On
      <4>2. CASE g # f
        BY <1>7, <2>8, <4>2 DEF On
      <4>3. QED
        BY <4>1, <4>2
    <3>4. QED
      BY <3>1, <3>2, <3>3
  <2>9. PacketsExpected'
    BY <2>8 DEF PacketsExpected, Subscribing
  <2>10. TakenLeft'
    BY <1>1, <1>3, <1>6, TakenLeftKept DEF Expected
  <2>11. QED
    BY <1>6, <2>6, <2>9, <2>10 DEF Expected
<1>11. QED
  BY <1>8, <1>9, <1>10

LEMMA ProcessCommandExpected ==
  ASSUME TypeOK, SocketsOwned, Known, Once, Expected, ProcessCommand
  PROVE  Expected'
<1> USE DEF connection, session, callbacks, app
<1>1. UNCHANGED receiver => \A i \in Ids : Taken(i)' => Taken(i)
  BY DEF Taken
<1>2. \A x \in commands : x.client \in Clients
  BY DEF TypeOK, Command
<1>3. \A x \in commands : IgnoreConnect(x) => Expected'
  BY <1>1, SilentExpected DEF IgnoreConnect
<1>4. ASSUME NEW x \in commands, ProcessDisconnect(x)
      PROVE  Expected'
  <2>1. CASE CheckDisconnect(x.client, x.id, commands \ {x})
    BY <1>2, <1>4, <2>1, CheckDisconnectExpected DEF ProcessDisconnect
  <2>2. CASE commands' = commands \ {x} /\ UNCHANGED <<connection, session, net, callbacks>>
    BY <1>1, <1>4, <2>2, SilentExpected DEF ProcessDisconnect
  <2>3. QED
    BY <1>4, <2>1, <2>2 DEF ProcessDisconnect
<1>5. ASSUME NEW x \in commands, ProcessPublish0(x)
      PROVE  Expected'
  <2>1. PICK p, w : /\ p = [type |-> x.type, id |-> x.id]
                    /\ net' = [net EXCEPT ![socket[x.client]] = Written(@, p, w)]
    BY <1>5 DEF ProcessPublish0
  <2>2. ~Subscribing(p)
    BY <1>5, <2>1 DEF ProcessPublish0, Subscribing
  <2>3. \A f \in Sockets : NoSubscribeWritten(f)
    BY <2>1, <2>2, WriteNoSubscribe
  <2>4. UNCHANGED <<connected, connectState, socket, responses, receiver, pendingCall>> /\ commands' \subseteq commands
    BY <1>5 DEF ProcessPublish0
  <2>5. ConnectedIdle' /\ \A c \in Clients : ~connected[c] \/ AwaiterKept(c)
    BY <2>4 DEF Expected, ConnectedIdle, AwaiterKept
  <2>6. QED
    BY <1>1, <2>3, <2>4, <2>5, ExpectedStep
<1>6. FlagPendingWrite => Expected'
  BY <1>1, SilentExpected DEF FlagPendingWrite
<1>7. ASSUME StoreResponse
      PROVE  Expected'
  <2>1. \A c \in Clients : responses[c] \subseteq responses'[c]
    BY <1>7 DEF StoreResponse, TypeOK
  <2>2. QED
    BY <1>1, <1>7, <2>1, SilentExpected DEF StoreResponse
<1>8. QED
  BY <1>3, <1>4, <1>5, <1>6, <1>7, ProcessConnectExpected, ProcessRequestExpected DEF ProcessCommand

-----------------------------------------------------------------------------
(* Expected: the receive thread *)

\* packets of a socket are only taken from its wire, or its status changes
LEMMA NetShrunkNoSubscribe ==
  ASSUME \A f \in Sockets : net'[f].wire \subseteq net[f].wire /\ net'[f].unsent = net[f].unsent
  PROVE  \A f \in Sockets : NoSubscribeWritten(f)
BY DEF NoSubscribeWritten

\* an answer to a subscribe is read: the call was awaited on this connection alone,
\* so no other packet asks for it, and it is neither queued nor about to be
LEMMA AnswerReadExpected ==
  ASSUME TypeOK, Known, Once, Expected, NEW f \in Sockets, NEW p \in net[f].wire, Subscribing(p),
         net' = [net EXCEPT ![f].wire = @ \ {p}],
         receiver'.pack.type = "ACK", receiver'.pack.id = p.id,
         UNCHANGED <<commands, connected, connectState, socket, responses, pendingCall>>
  PROVE  Expected'
<1>1. /\ net'[f].wire = net[f].wire \ {p} /\ net'[f].unsent = net[f].unsent
      /\ \A g \in Sockets \ {f} : net'[g] = net[g]
  BY DEF TypeOK, Socket
<1>2. \A g \in Sockets : NoSubscribeWritten(g)
  BY <1>1, NetShrunkNoSubscribe
<1>3. p \in On(f) /\ PacketExpected(f, p)
  BY DEF On, Expected, PacketsExpected
<1>4. p.id \in Ids /\ issued[p.id].type = p.type /\ issued[p.id].type # "CONNECT"
  BY <1>3, SubscribingKnown
<1>5. \A i \in Ids : Taken(i)' <=> i = p.id
  BY DEF Taken
<1>6. PICK c \in Clients : socket[c] = f /\ \E r \in responses[c] : r.id = p.id
  BY <1>3 DEF PacketExpected
<1>7. issued[p.id].client = c
  BY <1>6, ResponseKnown
<1>8. ASSUME NEW g \in Sockets, NEW q \in On(g)', Subscribing(q)
      PROVE  PacketExpected(g, q)' /\ ~Taken(q.id)'
  <2>1. q \in On(g)
    BY <1>2, <1>8, SubscribesKept
  <2>2. PacketExpected(g, q)
    BY <1>8, <2>1 DEF Expected, PacketsExpected
  <2>3. q.id \in Ids /\ issued[q.id].type = q.type
    BY <1>8, <2>1, SubscribingKnown
  <2>4. PICK d \in Clients : socket[d] = g /\ \E r \in responses[d] : r.id = q.id
    BY <2>2 DEF PacketExpected
  <2>5. issued[q.id].client = d
    BY <2>4, ResponseKnown
  <2>6. ASSUME q.id = p.id
        PROVE  FALSE
    <3>1. g = f
      BY <1>6, <1>7, <2>4, <2>5, <2>6
    <3>2. q = p
      <4>1. net[g].wire \subseteq Packet /\ net[g].unsent \in Packet \cup {NoPacket}
            /\ net[f].wire \subseteq Packet
        BY DEF TypeOK, Socket
      <4>2. q \in Packet /\ p \in Packet
        BY <1>8, <2>1, <4>1 DEF On, Subscribing, NoPacket
      <4>3. QED
        BY <1>4, <2>3, <2>6, <4>2 DEF Packet
    <3>3. q = net[f].unsent
      BY <1>1, <1>8, <3>1, <3>2 DEF On
    <3>4. QED
      BY <3>2, <3>3 DEF Expected, WrittenOnce
  <2>7. PacketExpected(g, q)'
    BY <2>2 DEF PacketExpected
  <2>8. QED
    BY <1>5, <2>3, <2>6, <2>7
<1>9. PacketsExpected'
  BY <1>8 DEF PacketsExpected, Subscribing
<1>10. ~Held(p.id) /\ ~Queued(p.id)
  BY <1>4, <1>6 DEF Once, OnceAt, OnePlace, Responding
<1>11. TakenLeft'
  BY <1>5, <1>10 DEF TakenLeft, Held, Queued
<1>12. ConnectedIdle'
  BY DEF Expected, ConnectedIdle
<1>13. QED
  BY <1>2, <1>9, <1>11, <1>12, WrittenOnceKept DEF Expected

LEMMA CycleReadExpected ==
  ASSUME TypeOK, Known, Once, Expected, NEW c \in Clients, CycleRead(c)
  PROVE  Expected'
<1> USE DEF connection, session, callbacks, app
<1>0. receiver \in [pc : {"select", "cycle", "retry", "handle"}, sock : Sockets \cup {0},
                    error : BOOLEAN, pack : Answer]
  BY DEF TypeOK
<1>1. PICK f \in Sockets : f = receiver.sock /\ f = socket[c]
  BY <1>0 DEF CycleRead
<1>2. UNCHANGED <<commands, connected, connectState, socket, pendingCall>>
  BY DEF CycleRead
<1>3. PICK p \in net[f].wire :
        /\ net' = [net EXCEPT ![f].wire = @ \ {p}]
        /\ IF p.type = "PUBLISH"
           THEN /\ Acknowledge(c, p.id)
                /\ receiver'.pack = receiver.pack
           ELSE /\ receiver'.pack.type = (IF p.type = "CONNECT" THEN "CONNACK" ELSE "ACK")
                /\ receiver'.pack.id = p.id
                /\ UNCHANGED responses
  <2>1. PICK p \in net[f].wire :
          /\ net' = [net EXCEPT ![f].wire = @ \ {p}]
          /\ IF p.type = "PUBLISH"
             THEN /\ Acknowledge(c, p.id)
                  /\ receiver' = [receiver EXCEPT !.pc = "retry", !.error = FALSE]
             ELSE /\ \E ok \in BOOLEAN :
                       receiver' = [receiver EXCEPT !.pc = "retry", !.error = FALSE,
                         !.pack = [type |-> IF p.type = "CONNECT" THEN "CONNACK" ELSE "ACK",
                                   id |-> p.id, ok |-> ok]]
                  /\ UNCHANGED responses
    BY <1>1 DEF CycleRead
  <2>2. CASE p.type = "PUBLISH"
    <3>1. receiver'.pack = receiver.pack
      BY <1>0, <2>1, <2>2
    <3>2. QED
      BY <2>1, <2>2, <3>1
  <2>3. CASE p.type # "PUBLISH"
    <3>1. PICK ok \in BOOLEAN :
            receiver' = [receiver EXCEPT !.pc = "retry", !.error = FALSE,
              !.pack = [type |-> IF p.type = "CONNECT" THEN "CONNACK" ELSE "ACK",
                        id |-> p.id, ok |-> ok]]
      BY <2>1, <2>3
    <3>2. /\ receiver'.pack.type = (IF p.type = "CONNECT" THEN "CONNACK" ELSE "ACK")
          /\ receiver'.pack.id = p.id
      BY <1>0, <3>1
    <3>3. QED
      BY <2>1, <2>3, <3>2
  <2>4. QED
    BY <2>2, <2>3
<1>4. \A g \in Sockets : NoSubscribeWritten(g)
  <2>1. \A g \in Sockets : net'[g].wire \subseteq net[g].wire /\ net'[g].unsent = net[g].unsent
    BY <1>3 DEF TypeOK, Socket
  <2>2. QED
    BY <2>1, NetShrunkNoSubscribe
<1>5. ConnectedIdle'
  BY <1>2 DEF Expected, ConnectedIdle
<1>6. p \in Packet /\ PacketKnown(p) /\ p.type # "PUBLISH0"
  BY <1>3 DEF TypeOK, Socket, Known, NetKnown
<1>7. CASE p.type = "PUBLISH"
  <2>1. p.id \in Ids /\ issued[p.id].type = "PUBLISH"
    BY <1>6, <1>7 DEF PacketKnown, RequestTypes
  <2>2. \A d \in Clients : \A r \in responses[d] : r \in responses'[d] \/ r.id = p.id
    BY <1>3, <1>7 DEF Acknowledge, TypeOK
  <2>3. \A d \in Clients : ~connected[d] \/ AwaiterKept(d)
    BY <1>2, <2>1, <2>2 DEF AwaiterKept
  <2>4. \A i \in Ids : Taken(i)' => Taken(i)
    BY <1>3, <1>7 DEF Taken
  <2>5. QED
    BY <1>2, <1>4, <1>5, <2>3, <2>4, ExpectedStep
<1>8. CASE p.type = "CONNECT"
  <2>1. \A d \in Clients : ~connected[d] \/ AwaiterKept(d)
    BY <1>2, <1>3, <1>8 DEF AwaiterKept
  <2>2. \A i \in Ids : Taken(i)' => Taken(i)
    BY <1>3, <1>8 DEF Taken
  <2>3. QED
    BY <1>2, <1>4, <1>5, <2>1, <2>2, ExpectedStep
<1>9. CASE Subscribing(p)
  BY <1>2, <1>3, <1>9, AnswerReadExpected DEF Subscribing
<1>10. CASE p.type \in ControlTypes
  <2>1. p.id = 0 /\ p.type \notin {"PUBLISH", "CONNECT"}
    BY <1>6, <1>10 DEF PacketKnown, ControlTypes
  <2>2. \A d \in Clients : ~connected[d] \/ AwaiterKept(d)
    BY <1>2, <1>3, <2>1 DEF AwaiterKept
  <2>3. \A i \in Ids : Taken(i)' => Taken(i)
    BY <1>3, <2>1 DEF Taken, Ids
  <2>4. QED
    BY <1>2, <1>4, <1>5, <2>2, <2>3, ExpectedStep
<1>11. QED
  BY <1>6, <1>7, <1>8, <1>9, <1>10 DEF Packet, RequestTypes, Subscribing

LEMMA CycleExpected ==
  ASSUME TypeOK, Known, Once, Expected, Cycle
  PROVE  Expected'
<1> USE DEF connection, session, callbacks, app
<1>0. receiver \in [pc : {"select", "cycle", "retry", "handle"}, sock : Sockets \cup {0},
                    error : BOOLEAN, pack : Answer]
  BY DEF TypeOK
<1>1. receiver'.pack = receiver.pack => \A i \in Ids : Taken(i)' => Taken(i)
  BY DEF Taken
<1>2. CycleNobody => Expected'
  BY <1>0, <1>1, SilentExpected DEF CycleNobody
<1>3. ASSUME NEW c \in Clients, CycleConnecting(c)
      PROVE  Expected'
  <2>1. receiver'.pack = receiver.pack /\ UNCHANGED pendingCall
    BY <1>0, <1>3 DEF CycleConnecting
  <2>2. CASE AttemptFailed(c)
    BY <1>1, <2>1, <2>2, AttemptFailedExpected
  <2>3. ASSUME NEW f, NEW w,
               net' = [net EXCEPT ![f] = Written(@, [type |-> "CONNECT", id |-> connect[c].id], w)],
               connectState' = [connectState EXCEPT ![c] = 3],
               UNCHANGED <<commands, connected, socket, session>>
        PROVE  Expected'
    <3>1. \A g \in Sockets : NoSubscribeWritten(g)
      <4>1. ~Subscribing([type |-> "CONNECT", id |-> connect[c].id])
        BY DEF Subscribing
      <4>2. QED
        BY <2>3, <4>1, WriteNoSubscribe
    <3>2. ~connected[c]
      BY <1>3 DEF CycleConnecting, Expected, ConnectedIdle
    <3>3. ConnectedIdle'
      BY <2>3, <3>2 DEF Expected, ConnectedIdle, TypeOK
    <3>4. \A d \in Clients : ~connected[d] \/ AwaiterKept(d)
      BY <2>3 DEF AwaiterKept
    <3>5. QED
      BY <1>1, <2>1, <2>3, <3>1, <3>3, <3>4, ExpectedStep
  <2>4. QED
    BY <1>3, <2>2, <2>3 DEF CycleConnecting
<1>4. ASSUME NEW c \in Clients, CycleReadError(c)
      PROVE  Expected'
  <2>1. receiver'.pack = receiver.pack /\ UNCHANGED pendingCall
    BY <1>0, <1>4 DEF CycleReadError
  <2>2. CASE AttemptFailed(c)
    BY <1>1, <2>1, <2>2, AttemptFailedExpected
  <2>3. CASE UNCHANGED <<commands, connection, session, net>>
    BY <1>1, <2>1, <2>3, SilentExpected
  <2>4. QED
    BY <1>4, <2>2, <2>3 DEF CycleReadError
<1>5. ASSUME NEW c \in Clients, CycleNothing(c)
      PROVE  Expected'
  <2>1. receiver'.pack = receiver.pack
    BY <1>0, <1>5 DEF CycleNothing
  <2>2. QED
    BY <1>1, <1>5, <2>1, SilentExpected DEF CycleNothing
<1>6. ASSUME NEW c \in Clients, CycleIncoming(c)
      PROVE  Expected'
  <2>1. receiver'.pack = receiver.pack
    BY <1>0, <1>6, IncomingWrite
  <2>2. QED
    BY <1>1, <1>6, <2>1, IncomingWrite, SilentExpected
<1>7. QED
  BY <1>2, <1>3, <1>4, <1>5, <1>6, CycleReadExpected DEF Cycle

LEMMA HandleConnectedExpected ==
  ASSUME TypeOK, Known, Expected, NEW c \in Clients, HandleConnected(c)
  PROVE  Expected'
<1> USE DEF session, app
<1>1. /\ connectState[c] = 3 /\ UNCHANGED <<socket, pendingCall>>
      /\ \A d \in Clients : connectState'[d] = IF d = c THEN 0 ELSE connectState[d]
      /\ \A d \in Clients : connected'[d] = IF d = c THEN TRUE ELSE connected[d]
  BY DEF HandleConnected, TypeOK
<1>2. ~connected[c]
  BY <1>1 DEF Expected, ConnectedIdle
<1>3. ConnectedIdle'
  BY <1>1 DEF Expected, ConnectedIdle
<1>4. \A i \in Ids : Taken(i)' => Taken(i)
  BY DEF HandleConnected, Done, NoAnswer, Taken
<1>5. /\ \A d \in Clients \ {c} : responses'[d] = responses[d]
      /\ \A x \in commands' : x \in commands \/ Harmless(x)
  <2>1. \A x : x \in AtHead(commands, c, "DISCONNECT", 0, 0) => x \in commands \/ Harmless(x)
    BY AtHeadKept DEF Harmless
  <2>2. responses \in [Clients -> SUBSET Command]
    BY DEF TypeOK
  <2>3. CASE CleanSession(c, commands)
    BY <2>2, <2>3 DEF CleanSession, WithoutClient
  <2>4. CASE UNCHANGED session /\ commands' \in {commands, AtHead(commands, c, "DISCONNECT", 0, 0)}
    BY <2>1, <2>4
  <2>5. QED
    BY <2>3, <2>4 DEF HandleConnected
<1>6. \A d \in Clients : ~connected[d] \/ AwaiterKept(d)
  BY <1>1, <1>2, <1>5 DEF AwaiterKept
<1>7. \/ net' = net
      \/ \E m, w : net' = [net EXCEPT ![socket[c]] = Resent(@, outbound[c], m, w)]
  BY DEF HandleConnected
<1>8. ASSUME NEW s \in Socket, NEW msgs, NEW m, NEW w
      PROVE  /\ \A p \in Resent(s, msgs, m, w).wire : p \in s.wire \/ p.type = "PUBLISH"
             /\ LET u == Resent(s, msgs, m, w).unsent IN u = s.unsent \/ u.type = "PUBLISH"
  BY DEF Resent, Written, Received, Answerable, Socket
<1>9. \A g \in Sockets : NoSubscribeWritten(g)
  <2>1. CASE net' = net
    BY <2>1, NetKeptNoSubscribe
  <2>2. ASSUME NEW m, NEW w, net' = [net EXCEPT ![socket[c]] = Resent(@, outbound[c], m, w)],
               NEW g \in Sockets
        PROVE  NoSubscribeWritten(g)
    <3>1. CASE g = socket[c]
      <4>1. net'[g] = Resent(net[g], outbound[c], m, w) /\ net[g] \in Socket
        BY <2>2, <3>1 DEF TypeOK
      <4>2. /\ \A p \in net'[g].wire : p \in net[g].wire \/ p.type = "PUBLISH"
            /\ net'[g].unsent = net[g].unsent \/ net'[g].unsent.type = "PUBLISH"
        BY <1>8, <4>1
      <4>3. QED
        BY <4>2 DEF NoSubscribeWritten, Subscribing
    <3>2. CASE g # socket[c]
      BY <2>2, <3>2 DEF TypeOK, NoSubscribeWritten
    <3>3. QED
      BY <3>1, <3>2
  <2>3. QED
    BY <1>7, <2>1, <2>2
<1>10. QED
  BY <1>1, <1>3, <1>4, <1>5, <1>6, <1>9, ExpectedStep

LEMMA HandleExpected ==
  ASSUME TypeOK, Known, Expected, Handle
  PROVE  Expected'
<1> USE DEF connection, session, callbacks, app
<1>1. Done => \A i \in Ids : Taken(i)' => Taken(i)
  BY DEF Done, NoAnswer, Taken
<1>2. HandleNobody => Expected'
  BY <1>1, SilentExpected DEF HandleNobody
<1>3. ASSUME NEW c \in Clients, HandleError(c)
      PROVE  Expected'
  <2>1. CASE CloseOnly(c) /\ UNCHANGED commands
    BY <1>1, <1>3, <2>1, CloseExpected DEF HandleError
  <2>2. CASE commands' = WithInternalDisconnect(commands, c) /\ UNCHANGED <<connection, net>>
    BY <1>1, <1>3, <2>2, InternalDisconnectKept, SilentExpected DEF HandleError
  <2>3. QED
    BY <1>3, <2>1, <2>2 DEF HandleError
<1>4. ASSUME NEW c \in Clients, HandleRefused(c)
      PROVE  Expected'
  BY <1>1, <1>4, AttemptFailedExpected DEF HandleRefused
<1>5. ASSUME NEW c \in Clients, HandleAck(c)
      PROVE  Expected'
  <2>1. receiver.pack.type \in {"none", "ACK"}
    BY <1>5 DEF HandleAck, TypeOK, Answer
  <2>2. \A d \in Clients : \A r \in responses[d] : r \in responses'[d] \/ r.id = receiver.pack.id
    BY <1>5 DEF HandleAck, Acknowledge, TypeOK
  <2>3. \A d \in Clients : \A r \in responses[d] : r.id # 0
    BY ResponseKnown
  <2>4. \A d \in Clients : \A r \in responses[d] : r \in responses'[d] \/ Taken(r.id)
    BY <2>1, <2>2, <2>3 DEF Known, PackKnown, Taken
  <2>5. QED
    BY <1>1, <1>5, <2>4, SilentExpected DEF HandleAck
<1>6. QED
  BY <1>2, <1>3, <1>4, <1>5, HandleConnectedExpected DEF Handle

\* without publishes of QoS 0, MQTTAsync_writeComplete has nothing to report
LEMMA ContinueWriteExpected ==
  ASSUME TypeOK, Known, NoneAtQoS0, Expected, NEW f \in Sockets, ContinueWrite(f)
  PROVE  Expected'
<1> USE DEF connection, app
<1>1. /\ net' = [net EXCEPT ![f] = [Received(@, @.unsent) EXCEPT !.unsent = NoPacket]]
      /\ UNCHANGED <<commands, connected, connectState, socket, receiver, pendingCall>>
  BY DEF ContinueWrite
<1>2. \A c \in Clients : pendingWrite[c] = 0
  <2>1. \A c \in Clients : pendingWrite[c] # 0 => IsCall(pendingWrite[c], c, "PUBLISH0")
    BY DEF Known, AttemptKnown
  <2>2. QED
    BY <2>1, CallFields DEF NoneAtQoS0
<1>3. UNCHANGED responses
  BY <1>2 DEF ContinueWrite, WriteComplete
<1>4. /\ \A p \in net'[f].wire : p \in net[f].wire \/ p = net[f].unsent
      /\ net'[f].unsent = NoPacket
      /\ \A g \in Sockets \ {f} : net'[g] = net[g]
  BY <1>1 DEF TypeOK, Socket, Received, Answerable
<1>5. \A g \in Sockets : NoSubscribeWritten(g)
  BY <1>4 DEF NoSubscribeWritten, NoPacket, Subscribing
<1>6. \A c \in Clients : ~connected[c] \/ AwaiterKept(c)
  BY <1>1, <1>3 DEF AwaiterKept
<1>7. ConnectedIdle' /\ \A i \in Ids : Taken(i)' => Taken(i)
  BY <1>1 DEF Expected, ConnectedIdle, Taken
<1>8. QED
  BY <1>1, <1>5, <1>6, <1>7, ExpectedStep

LEMMA OthersExpected ==
  ASSUME TypeOK, Known, Expected
  PROVE  /\ \A f : Select(f) => Expected'
         /\ Retry => Expected'
         /\ \A c \in Clients : CheckTimeouts(c) => Expected'
         /\ Network => Expected'
         /\ UNCHANGED vars => Expected'
<1> USE DEF connection, session, callbacks, app
<1>0. UNCHANGED receiver => \A i \in Ids : Taken(i)' => Taken(i)
  BY DEF Taken
<1>1. ASSUME NEW f, Select(f)
      PROVE  Expected'
  <2>1. \A i \in Ids : Taken(i)' => Taken(i)
    BY <1>1 DEF Select, NoAnswer, Taken
  <2>2. QED
    BY <1>1, <2>1, SilentExpected DEF Select
<1>2. ASSUME Retry
      PROVE  Expected'
  <2>1. \A i \in Ids : Taken(i)' => Taken(i)
    BY <1>2 DEF Retry, TypeOK, Taken
  <2>2. \A x \in commands' : x \in commands \/ Harmless(x)
    BY <1>2, RetryWrites, InternalDisconnectKept
  <2>3. QED
    BY <1>2, <2>1, <2>2, RetryWrites, SilentExpected
<1>3. ASSUME NEW c \in Clients, CheckTimeouts(c)
      PROVE  Expected'
  BY <1>0, <1>3, AttemptFailedExpected, CheckDisconnectExpected DEF CheckTimeouts
<1>4. ASSUME Network
      PROVE  Expected'
  <2>1. PICK f \in Sockets, new \in {"up", "refused", "down"} :
          /\ net' = [net EXCEPT ![f].status = new]
          /\ UNCHANGED <<commands, connected, connectState, socket, responses, receiver, pendingCall>>
    BY <1>4 DEF Network, TcpUp, TcpFail, PeerClose, SetStatus
  <2>2. \A g \in Sockets : net'[g].wire = net[g].wire /\ net'[g].unsent = net[g].unsent
    BY <2>1 DEF TypeOK, Socket
  <2>3. \A g \in Sockets : NoSubscribeWritten(g)
    BY <2>2, NetShrunkNoSubscribe
  <2>4. ConnectedIdle' /\ \A c \in Clients : ~connected[c] \/ AwaiterKept(c)
    BY <2>1 DEF Expected, ConnectedIdle, AwaiterKept
  <2>5. QED
    BY <1>0, <2>1, <2>3, <2>4, ExpectedStep
<1>5. UNCHANGED vars => Expected'
  BY <1>0, SilentExpected DEF vars
<1>6. QED
  BY <1>1, <1>2, <1>3, <1>4, <1>5

LEMMA ExpectedNext ==
  ASSUME TypeOK, SocketsOwned, Known, Once, NoneAtQoS0, Expected, [Next]_vars
  PROVE  Expected'
BY ApplicationExpected, ProcessCommandExpected, CycleExpected, HandleExpected,
   ContinueWriteExpected, OthersExpected DEF Next, ReceiveThread

LEMMA ExpectedCorrect ==
  ASSUME "PUBLISH0" \notin Requests
  PROVE  Spec => []Expected
<1>1. Init => NoneAtQoS0 /\ Expected
  BY DEF Init, NoneAtQoS0, NotIssued, Expected, PacketsExpected, WrittenOnce, TakenLeft, Taken,
         ConnectedIdle, On, NoSocket, NoPacket, NoAnswer, Subscribing
<1>2. TypeOK /\ SocketsOwned /\ Known /\ Once /\ NoneAtQoS0 /\ Expected /\ [Next]_vars
      => NoneAtQoS0' /\ Expected'
  BY NoneAtQoS0Next, ExpectedNext
<1>3. QED
  BY <1>1, <1>2, TypeCorrect, SocketsOwnedCorrect, KnownCorrect, OnceCorrect, PTL DEF Spec

\* AnswersExpected: an answer to a subscribe or an unsubscribe that can still come
\* is waited for, in any session and through every loss of the connection.  It holds
\* for applications that publish nothing at QoS 0: MQTTAsync_writeComplete frees the
\* first response of the client, whatever it waits for.
THEOREM AnswersExpectedCorrect ==
  ASSUME "PUBLISH0" \notin Requests
  PROVE  Spec => []AnswersExpected
<1>1. TypeOK /\ SocketsOwned /\ Expected => AnswersExpected
  <2>1. ASSUME TypeOK, SocketsOwned, Expected, NEW c \in Clients, Up(c),
               NEW p \in Sent(c), Subscribing(p)
        PROVE  \E r \in responses[c] : r.id = p.id
    <3>1. PICK f \in Sockets : f = socket[c]
      BY <2>1 DEF Up, TypeOK
    <3>2. p \in On(f)
      BY <2>1, <3>1 DEF Sent, On
    <3>3. PacketExpected(f, p)
      BY <2>1, <3>2 DEF Expected, PacketsExpected
    <3>4. QED
      BY <2>1, <3>1, <3>3 DEF PacketExpected, SocketsOwned, Up
  <2>2. QED
    BY <2>1 DEF AnswersExpected
<1>2. QED
  BY <1>1, ExpectedCorrect, TypeCorrect, SocketsOwnedCorrect, PTL

-----------------------------------------------------------------------------
(* Coming: in a clean session, the packet of a response that waits for a   *)
(* SUBACK or an UNSUBACK is on the connection, or the receive thread has   *)
(* its answer.  Nothing is promised of a connection that is down.          *)

Live(f) == net[f].status \in {"connecting", "up"}
Asked(f, r) == [type |-> r.type, id |-> r.id] \in On(f)
\* the receive thread has the answer to call i, from socket f
Answering(f, i) == Taken(i) /\ receiver.sock = f

\* cycle returns no packet with an error
PackClean == receiver.pack.type # "none" => ~receiver.error
AnswerComing(c) ==
  \A f \in Sockets : f = socket[c] /\ Live(f) =>
    \A r \in responses[c] : Subscribing(r) => Asked(f, r) \/ Answering(f, r.id)

Coming == PackClean /\ \A c \in CleanClients : AnswerComing(c)

\* the step brings socket f not up, and takes no subscribe from it
LinkKept(f) == Live(f)' => Live(f) /\ \A p \in On(f) : Subscribing(p) => p \in On(f)'
\* no response of c is left for which the step drops the answer
AnswerKept(c) ==
  \A f \in Sockets : f = socket[c] =>
    \A r \in responses'[c] : Answering(f, r.id) => Answering(f, r.id)'
\* the step ends the session or the connection of c, or leaves c what it waits for
PendingKept(c) ==
  \/ responses'[c] = {}
  \/ socket'[c] = 0
  \/ /\ socket'[c] = socket[c]
     /\ \A r \in responses'[c] : Subscribing(r) => r \in responses[c]
     /\ \A f \in Sockets : f = socket[c] => LinkKept(f)
     /\ AnswerKept(c)

\* the receive thread keeps its packet, or has none
PackSame ==
  \/ /\ receiver'.pack = receiver.pack /\ receiver'.sock = receiver.sock
     /\ receiver'.error = receiver.error
  \/ receiver.pack.type = "none" /\ receiver'.pack.type = "none"

LEMMA AnswerComingKept ==
  ASSUME NEW c, AnswerComing(c), PendingKept(c)
  PROVE  AnswerComing(c)'
<1>1. 0 \notin Sockets
  BY DEF Sockets
<1>2. ASSUME NEW f \in Sockets, f = socket'[c], Live(f)', NEW r \in responses'[c], Subscribing(r)
      PROVE  Asked(f, r)' \/ Answering(f, r.id)'
  <2>1. /\ f = socket[c] /\ r \in responses[c] /\ LinkKept(f)
        /\ Answering(f, r.id) => Answering(f, r.id)'
    BY <1>1, <1>2 DEF PendingKept, AnswerKept
  <2>2. Live(f) /\ \A p \in On(f) : Subscribing(p) => p \in On(f)'
    BY <1>2, <2>1 DEF LinkKept
  <2>3. CASE Asked(f, r)
    BY <1>2, <2>2, <2>3 DEF Asked, Subscribing
  <2>4. CASE Answering(f, r.id)
    BY <2>1, <2>4
  <2>5. QED
    BY <1>2, <2>1, <2>2, <2>3, <2>4 DEF AnswerComing
<1>3. QED
  BY <1>2 DEF AnswerComing, Subscribing

LEMMA PackSameKept ==
  ASSUME Coming, PackSame
  PROVE  PackClean' /\ \A c : AnswerKept(c)
BY DEF Coming, PackClean, PackSame, AnswerKept, Answering, Taken

LEMMA ComingStep ==
  ASSUME Coming, PackClean', \A c \in CleanClients : PendingKept(c)
  PROVE  Coming'
BY AnswerComingKept DEF Coming

\* every step that touches no connection
LEMMA ControlLinkKept ==
  ASSUME TypeOK, NEW c \in Clients, ControlWritten(c)
  PROVE  \A f \in Sockets : LinkKept(f)
<1>1. ASSUME NEW f \in Sockets
      PROVE  \/ net'[f] = net[f]
             \/ /\ net'[f].wire = net[f].wire /\ net'[f].status = net[f].status
                /\ net[f].unsent = NoPacket
  BY DEF ControlWritten, TypeOK, Socket
<1>2. ~Subscribing(NoPacket)
  BY DEF Subscribing, NoPacket
<1>3. QED
  BY <1>1, <1>2 DEF LinkKept, Live, On

LEMMA SilentComing ==
  ASSUME TypeOK, Coming, PackSame, UNCHANGED socket,
         UNCHANGED net \/ \E c \in Clients : ControlWritten(c),
         \A c \in CleanClients : \A r \in responses'[c] : Subscribing(r) => r \in responses[c]
  PROVE  Coming'
<1>1. \A f \in Sockets : LinkKept(f)
  BY ControlLinkKept DEF LinkKept, Live, On
<1>2. \A c \in CleanClients : PendingKept(c)
  BY <1>1, PackSameKept DEF PendingKept
<1>3. QED
  BY <1>2, PackSameKept, ComingStep

\* c is closed; no other client loses its answer
LEMMA CloseComing ==
  ASSUME TypeOK, Coming, NEW c \in Clients, CloseOnly(c), PackClean',
         \A d \in Clients \ {c} : responses'[d] = responses[d] /\ AnswerKept(d)
  PROVE  Coming'
<1>1. \A f \in Sockets : LinkKept(f)
  BY CloseOnlyNet DEF TypeOK, LinkKept, Live, On
<1>2. \A d \in Clients : socket'[d] = IF d = c THEN 0 ELSE socket[d]
  BY DEF CloseOnly, TypeOK
<1>3. \A d \in CleanClients : PendingKept(d)
  BY <1>1, <1>2, CleanClientsAssumption DEF PendingKept
<1>4. QED
  BY <1>3, ComingStep

LEMMA CloseSessionComing ==
  ASSUME TypeOK, Coming, NEW c \in Clients, NEW q, CloseSession(c, q), PackClean',
         \A d \in Clients \ {c} : AnswerKept(d)
  PROVE  Coming'
<1>1. CloseOnly(c)
  BY DEF CloseSession
<1>2. \A d \in Clients \ {c} : responses'[d] = responses[d]
  BY DEF CloseSession, CleanSession, session, TypeOK
<1>3. QED
  BY <1>1, <1>2, CloseComing

LEMMA AttemptFailedComing ==
  ASSUME TypeOK, Coming, NEW c \in Clients, AttemptFailed(c), PackClean',
         \A d \in Clients \ {c} : AnswerKept(d)
  PROVE  Coming'
<1>1. CASE CloseSession(c, commands)
  BY <1>1, CloseSessionComing
<1>2. CASE CloseOnly(c) /\ UNCHANGED session
  BY <1>2, CloseComing DEF session
<1>3. QED
  BY <1>1, <1>2 DEF AttemptFailed

\* the connection of c is touched while its session is empty or not clean
LEMMA OneLinkComing ==
  ASSUME TypeOK, SocketsOwned, Coming, PackClean', NEW c \in Clients,
         c \in CleanClients => responses'[c] = {},
         \A d \in Clients \ {c} : /\ responses'[d] = responses[d] /\ socket'[d] = socket[d]
                                  /\ AnswerKept(d),
         \A f \in Sockets : net'[f] = net[f] \/ net[f].status = "free" \/ f = socket[c]
  PROVE  Coming'
<1>1. \A f \in Sockets : net'[f] = net[f] => LinkKept(f)
  BY DEF LinkKept, Live, On
<1>2. ASSUME NEW d \in Clients \ {c}
      PROVE  PendingKept(d)
  <2>1. \A f \in Sockets : f = socket[d] => f # 0 /\ f # socket[c] /\ net[f].status # "free"
    BY <1>2 DEF SocketsOwned, Sockets
  <2>2. QED
    BY <1>1, <1>2, <2>1 DEF PendingKept
<1>3. \A d \in CleanClients : PendingKept(d)
  BY <1>2, CleanClientsAssumption DEF PendingKept
<1>4. QED
  BY <1>3, ComingStep

-----------------------------------------------------------------------------
(* Coming: the application and the send thread *)

LEMMA ApplicationComing ==
  ASSUME TypeOK, Coming, Application
  PROVE  Coming'
BY SilentComing DEF Application, Connect, CheckConnected, AddCommand, PackSame, connection, session

LEMMA ProcessConnectComing ==
  ASSUME TypeOK, SocketsOwned, SessionCleared, Coming, NEW x \in commands, ProcessConnect(x)
  PROVE  Coming'
<1>0. PICK c \in Clients : c = x.client
  BY DEF TypeOK, Command
<1>1. ~connected[c] /\ UNCHANGED <<responses, receiver>>
  BY <1>0 DEF ProcessConnect, session
<1>2. PICK v : MQTTProtocol_connect(x, v)
  BY DEF ProcessConnect
<1>3. \A d \in Clients \ {c} : socket'[d] = socket[d]
  BY <1>0, <1>2 DEF MQTTProtocol_connect, OpenSocket, TypeOK
<1>4. \A f \in Sockets : net'[f] = net[f] \/ net[f].status = "free" \/ f = socket[c]
  BY <1>0, <1>2 DEF MQTTProtocol_connect, OpenSocket, FreeSockets, TypeOK
<1>5. PackSame
  BY <1>1 DEF PackSame
<1>6. QED
  BY <1>1, <1>3, <1>4, <1>5, PackSameKept, OneLinkComing DEF SessionCleared

\* a packet is written to a socket with nothing left to write
LEMMA WriteLinkKept ==
  ASSUME TypeOK, NEW f \in Sockets, NEW p, NEW w, net[f].unsent = NoPacket,
         net' = [net EXCEPT ![f] = Written(@, p, w)]
  PROVE  \A g \in Sockets : LinkKept(g)
<1>1. net[f] \in Socket /\ net'[f] = Written(net[f], p, w) /\ \A g \in Sockets \ {f} : net'[g] = net[g]
  BY DEF TypeOK
<1>2. net'[f].status = net[f].status /\ net[f].wire \subseteq net'[f].wire
  BY <1>1 DEF Written, Received, Answerable, Socket
<1>3. LinkKept(f)
  BY <1>2 DEF LinkKept, Live, On, Subscribing, NoPacket
<1>4. QED
  BY <1>1, <1>3 DEF LinkKept, Live, On

LEMMA ProcessRequestComing ==
  ASSUME TypeOK, SocketsOwned, Coming, NEW x \in commands, ProcessRequest(x)
  PROVE  Coming'
<1> USE DEF connection, session, callbacks, app
<1>a. PICK c \in Clients, f \in Sockets : c = x.client /\ f = socket[c]
  BY DEF TypeOK, Command, ProcessRequest, Selected, Eligible, SocketsOwned
<1>b. PICK p : p = [type |-> x.type, id |-> x.id]
  OBVIOUS
<1>1. /\ net[f].unsent = NoPacket /\ UNCHANGED <<socket, receiver>>
      /\ x.type \notin {"PUBLISH0"} \cup ControlTypes
  BY <1>a DEF ProcessRequest, Selected, Eligible, NoPendingWrites, ControlTypes
<1>2. PICK w \in Writes(f) :
        /\ net' = [net EXCEPT ![f] = Written(@, p, w)]
        /\ IF w = "error" THEN UNCHANGED responses
           ELSE responses' = [responses EXCEPT ![c] = @ \cup {x}]
  BY <1>a, <1>b DEF ProcessRequest
<1>3. \A g \in Sockets : LinkKept(g)
  BY <1>1, <1>2, WriteLinkKept
<1>4. PackSame
  BY <1>1 DEF PackSame
<1>5. \A d \in Clients \ {c} : PendingKept(d)
  <2>1. \A d \in Clients \ {c} : responses'[d] = responses[d]
    BY <1>2 DEF TypeOK
  <2>2. QED
    BY <1>1, <1>3, <1>4, <2>1, PackSameKept DEF PendingKept
<1>6. ASSUME NEW r \in responses'[c], Subscribing(r), Live(f)', AnswerComing(c)
      PROVE  Asked(f, r)' \/ Answering(f, r.id)'
  <2>1. CASE r \in responses[c]
    <3>1. Asked(f, r) \/ Answering(f, r.id)
      BY <1>a, <1>3, <1>6, <2>1 DEF AnswerComing, LinkKept
    <3>2. Asked(f, r) => Asked(f, r)'
      BY <1>3, <1>6 DEF LinkKept, Asked, Subscribing
    <3>3. Answering(f, r.id) => Answering(f, r.id)'
      BY <1>1 DEF Answering, Taken
    <3>4. QED
      BY <3>1, <3>2, <3>3
  <2>2. CASE r \notin responses[c]
    <3>1. w # "error" /\ r = x
      BY <1>2, <1>6, <2>2 DEF TypeOK
    <3>2. net[f] \in Socket /\ net'[f] = Written(net[f], p, w)
      BY <1>2 DEF TypeOK
    <3>3. net'[f].status = net[f].status
      BY <3>2 DEF Written, Received, Socket
    <3>4. w = "interrupted" \/ (w = "complete" /\ net[f].status = "up")
      BY <1>6, <3>1, <3>3, OutcomeAssumption DEF Writes, Live
    <3>5. p \in On(f)'
      BY <1>1, <1>b, <3>2, <3>4 DEF Written, Received, Answerable, On, Socket
    <3>6. QED
      BY <1>b, <3>1, <3>5 DEF Asked
  <2>3. QED
    BY <2>1, <2>2
<1>7. c \in CleanClients => AnswerComing(c)'
  BY <1>a, <1>1, <1>6 DEF Coming, AnswerComing, Subscribing
<1>8. \A d \in CleanClients \ {c} : AnswerComing(d)'
  BY <1>5, AnswerComingKept, CleanClientsAssumption DEF Coming
<1>9. QED
  BY <1>4, <1>7, <1>8, PackSameKept DEF Coming

LEMMA ProcessCommandComing ==
  ASSUME ~DisconnectDelay, TypeOK, SocketsOwned, Known, SessionCleared, Coming, ProcessCommand
  PROVE  Coming'
<1> USE DEF connection, session, callbacks, app
<1>1. UNCHANGED receiver => PackSame
  BY DEF PackSame
<1>2. \A x \in commands : x.client \in Clients
  BY DEF TypeOK, Command
<1>3. \A x \in commands : IgnoreConnect(x) => Coming'
  BY <1>1, SilentComing DEF IgnoreConnect
<1>4. ASSUME NEW x \in commands, ProcessDisconnect(x)
      PROVE  Coming'
  <2>1. CASE CloseSession(x.client, commands \ {x})
    BY <1>1, <1>2, <1>4, <2>1, PackSameKept, CloseSessionComing DEF ProcessDisconnect
  <2>2. CASE UNCHANGED <<connection, session, net>>
    BY <1>1, <1>4, <2>2, SilentComing DEF ProcessDisconnect
  <2>3. QED
    BY <1>4, <2>1, <2>2 DEF ProcessDisconnect, CheckDisconnect
<1>5. ASSUME NEW x \in commands, ProcessPublish0(x)
      PROVE  Coming'
  <2>1. PICK f \in Sockets : f = socket[x.client]
    BY <1>2, <1>5 DEF ProcessPublish0, Selected, Eligible, SocketsOwned, TypeOK
  <2>2. PICK w : net' = [net EXCEPT ![f] = Written(@, [type |-> x.type, id |-> x.id], w)]
    BY <1>5, <2>1 DEF ProcessPublish0
  <2>3. net[f].unsent = NoPacket
    BY <1>5, <2>1 DEF ProcessPublish0, Selected, Eligible, NoPendingWrites
  <2>4. \A g \in Sockets : LinkKept(g)
    BY <2>2, <2>3, WriteLinkKept
  <2>5. UNCHANGED <<socket, responses, receiver>>
    BY <1>5 DEF ProcessPublish0
  <2>6. \A c \in CleanClients : PendingKept(c)
    BY <1>1, <2>4, <2>5, PackSameKept DEF PendingKept
  <2>7. QED
    BY <1>1, <2>5, <2>6, PackSameKept, ComingStep
<1>6. FlagPendingWrite => Coming'
  BY <1>1, SilentComing DEF FlagPendingWrite
<1>7. ASSUME StoreResponse
      PROVE  Coming'
  <2>1. ~Subscribing(inHand.command)
    BY <1>7 DEF StoreResponse, NoCommand, Known, HandKnown, Subscribing
  <2>2. \A c \in CleanClients : \A r \in responses'[c] : Subscribing(r) => r \in responses[c]
    BY <1>7, <2>1, CleanClientsAssumption DEF StoreResponse, TypeOK
  <2>3. QED
    BY <1>1, <1>7, <2>2, SilentComing DEF StoreResponse
<1>8. QED
  BY <1>3, <1>4, <1>5, <1>6, <1>7, ProcessConnectComing, ProcessRequestComing DEF ProcessCommand

-----------------------------------------------------------------------------
(* Coming: the receive thread *)

LEMMA CycleReadComing ==
  ASSUME TypeOK, SocketsOwned, Known, Phases, Coming, NEW c \in Clients, CycleRead(c)
  PROVE  Coming'
<1> USE DEF connection, session, callbacks, app
<1>0. receiver \in [pc : {"select", "cycle", "retry", "handle"}, sock : Sockets \cup {0},
                    error : BOOLEAN, pack : Answer]
  BY DEF TypeOK
<1>1. PICK f \in Sockets : f = receiver.sock /\ f = socket[c]
  BY <1>0 DEF CycleRead
<1>2. UNCHANGED socket /\ receiver'.sock = f /\ ~receiver'.error
  BY <1>0, <1>1 DEF CycleRead
<1>3. PICK p \in net[f].wire :
        /\ net' = [net EXCEPT ![f].wire = @ \ {p}]
        /\ IF p.type = "PUBLISH"
           THEN Acknowledge(c, p.id) /\ receiver'.pack = receiver.pack
           ELSE /\ receiver'.pack.type = (IF p.type = "CONNECT" THEN "CONNACK" ELSE "ACK")
                /\ receiver'.pack.id = p.id
                /\ UNCHANGED responses
  <2>1. PICK p \in net[f].wire :
          /\ net' = [net EXCEPT ![f].wire = @ \ {p}]
          /\ IF p.type = "PUBLISH"
             THEN /\ Acknowledge(c, p.id)
                  /\ receiver' = [receiver EXCEPT !.pc = "retry", !.error = FALSE]
             ELSE /\ \E ok \in BOOLEAN :
                       receiver' = [receiver EXCEPT !.pc = "retry", !.error = FALSE,
                         !.pack = [type |-> IF p.type = "CONNECT" THEN "CONNACK" ELSE "ACK",
                                   id |-> p.id, ok |-> ok]]
                  /\ UNCHANGED responses
    BY <1>1 DEF CycleRead
  <2>2. CASE p.type = "PUBLISH"
    BY <1>0, <2>1, <2>2
  <2>3. CASE p.type # "PUBLISH"
    <3>1. PICK ok \in BOOLEAN :
            receiver' = [receiver EXCEPT !.pc = "retry", !.error = FALSE,
              !.pack = [type |-> IF p.type = "CONNECT" THEN "CONNACK" ELSE "ACK",
                        id |-> p.id, ok |-> ok]]
      BY <2>1, <2>3
    <3>2. /\ receiver'.pack.type = (IF p.type = "CONNECT" THEN "CONNACK" ELSE "ACK")
          /\ receiver'.pack.id = p.id
      BY <1>0, <3>1
    <3>3. QED
      BY <2>1, <2>3, <3>2
  <2>4. QED
    BY <2>2, <2>3
<1>4. \A i : ~Taken(i)
  BY DEF CycleRead, Phases, PackFresh, Taken
<1>5. PackClean'
  BY <1>2 DEF PackClean
<1>6. /\ net'[f].wire = net[f].wire \ {p} /\ net'[f].unsent = net[f].unsent
      /\ net'[f].status = net[f].status
      /\ \A g \in Sockets \ {f} : net'[g] = net[g]
  BY <1>3 DEF TypeOK, Socket
<1>7. \A d \in Clients : responses'[d] \subseteq responses[d]
  BY <1>3 DEF Acknowledge, TypeOK
<1>8. \A g \in Sockets \ {f} : LinkKept(g)
  BY <1>6 DEF LinkKept, Live, On
<1>9. \A d \in Clients : AnswerKept(d)
  BY <1>4 DEF AnswerKept, Answering
<1>10. \A d \in Clients \ {c} : PendingKept(d)
  <2>1. \A d \in Clients \ {c} : \A g \in Sockets : g = socket[d] => g # f
    BY <1>1 DEF SocketsOwned, Sockets
  <2>2. QED
    BY <1>2, <1>7, <1>8, <1>9, <2>1 DEF PendingKept
<1>11. ASSUME NEW r \in responses'[c], Subscribing(r), Live(f)', AnswerComing(c)
       PROVE  Asked(f, r)' \/ Answering(f, r.id)'
  <2>1. Asked(f, r)
    BY <1>1, <1>4, <1>6, <1>7, <1>11 DEF AnswerComing, Answering, Live
  <2>2. CASE [type |-> r.type, id |-> r.id] = p
    <3>1. p.type # "PUBLISH" /\ p.type # "CONNECT" /\ p.id = r.id
      BY <1>11, <2>2 DEF Subscribing
    <3>2. QED
      BY <1>2, <1>3, <3>1 DEF Answering, Taken
  <2>3. CASE [type |-> r.type, id |-> r.id] # p
    BY <1>6, <2>1, <2>3 DEF Asked, On
  <2>4. QED
    BY <2>2, <2>3
<1>12. c \in CleanClients => AnswerComing(c)'
  BY <1>1, <1>2, <1>11 DEF Coming, AnswerComing, Subscribing
<1>13. \A d \in CleanClients \ {c} : AnswerComing(d)'
  BY <1>10, AnswerComingKept, CleanClientsAssumption DEF Coming
<1>14. QED
  BY <1>5, <1>12, <1>13 DEF Coming

LEMMA CycleComing ==
  ASSUME TypeOK, SocketsOwned, Known, Phases, SessionCleared, Coming, Cycle
  PROVE  Coming'
<1> USE DEF connection, session, callbacks, app
<1>0. receiver \in [pc : {"select", "cycle", "retry", "handle"}, sock : Sockets \cup {0},
                    error : BOOLEAN, pack : Answer]
  BY DEF TypeOK
<1>1. receiver.pc = "cycle" /\ receiver'.pack = receiver.pack => PackSame
  BY DEF PackSame, Phases, PackFresh
<1>2. ASSUME CycleNobody
      PROVE  Coming'
  <2>1. PackSame
    BY <1>0, <1>1, <1>2 DEF CycleNobody
  <2>2. QED
    BY <1>2, <2>1, SilentComing DEF CycleNobody
<1>3. ASSUME NEW c \in Clients, CycleConnecting(c)
      PROVE  Coming'
  <2>1. PackSame
    <3>1. receiver'.pack = receiver.pack
      BY <1>0, <1>3 DEF CycleConnecting
    <3>2. QED
      BY <1>1, <1>3, <3>1 DEF CycleConnecting
  <2>2. CASE AttemptFailed(c)
    BY <2>1, <2>2, PackSameKept, AttemptFailedComing
  <2>3. ASSUME NEW w,
               net' = [net EXCEPT ![receiver.sock] = Written(@, [type |-> "CONNECT", id |-> connect[c].id], w)],
               UNCHANGED <<socket, session>>
        PROVE  Coming'
    <3>1. ~connected[c] /\ receiver.sock = socket[c]
      BY <1>3 DEF CycleConnecting, Phases, PhaseKnown
    <3>2. c \in CleanClients => responses'[c] = {}
      BY <2>3, <3>1 DEF SessionCleared
    <3>3. \A f \in Sockets : net'[f] = net[f] \/ f = socket[c]
      BY <2>3, <3>1 DEF TypeOK
    <3>4. QED
      BY <2>1, <2>3, <3>2, <3>3, PackSameKept, OneLinkComing
  <2>4. QED
    BY <1>3, <2>2, <2>3 DEF CycleConnecting
<1>4. ASSUME NEW c \in Clients, CycleReadError(c)
      PROVE  Coming'
  <2>1. PackSame
    <3>1. receiver'.pack = receiver.pack
      BY <1>0, <1>4 DEF CycleReadError
    <3>2. QED
      BY <1>1, <1>4, <3>1 DEF CycleReadError
  <2>2. CASE AttemptFailed(c)
    BY <2>1, <2>2, PackSameKept, AttemptFailedComing
  <2>3. CASE UNCHANGED <<commands, connection, session, net>>
    BY <2>1, <2>3, SilentComing
  <2>4. QED
    BY <1>4, <2>2, <2>3 DEF CycleReadError
<1>5. ASSUME NEW c \in Clients, CycleNothing(c)
      PROVE  Coming'
  <2>1. receiver'.pack = receiver.pack
    BY <1>0, <1>5 DEF CycleNothing
  <2>2. PackSame
    BY <1>1, <1>5, <2>1 DEF CycleNothing
  <2>3. QED
    BY <1>5, <2>2, SilentComing DEF CycleNothing
<1>6. ASSUME NEW c \in Clients, CycleIncoming(c)
      PROVE  Coming'
  <2>1. receiver'.pack = receiver.pack
    BY <1>0, <1>6, IncomingWrite
  <2>2. PackSame
    BY <1>1, <1>6, <2>1, IncomingWrite
  <2>3. QED
    BY <1>6, <2>2, IncomingWrite, SilentComing
<1>7. QED
  BY <1>2, <1>3, <1>4, <1>5, <1>6, CycleReadComing DEF Cycle

\* the handling is done: the receive thread has no packet, and the one it had was of
\* the client that owned its socket
LEMMA DoneComing ==
  ASSUME SocketsOwned, Done
  PROVE  /\ PackClean'
         /\ \A c \in Clients : receiver.sock # 0 /\ socket[c] = receiver.sock =>
              \A d \in Clients \ {c} : AnswerKept(d)
         /\ ~Owned(receiver.sock) \/ receiver.pack.type # "ACK" => \A d \in Clients : AnswerKept(d)
<1>1. PackClean'
  BY DEF Done, NoAnswer, PackClean
<1>2. \A c \in Clients : receiver.sock # 0 /\ socket[c] = receiver.sock =>
        \A d \in Clients \ {c} : AnswerKept(d)
  BY DEF SocketsOwned, AnswerKept, Answering
<1>3. ~Owned(receiver.sock) => \A d \in Clients : AnswerKept(d)
  BY DEF Owned, AnswerKept, Answering, Sockets
<1>4. receiver.pack.type # "ACK" => \A d \in Clients : AnswerKept(d)
  BY DEF AnswerKept, Answering, Taken
<1>5. QED
  BY <1>1, <1>2, <1>3, <1>4

\* a step of the handling that touches no connection
LEMMA QuietComing ==
  ASSUME Coming, PackClean', UNCHANGED <<net, socket>>,
         \A c \in Clients : responses'[c] \subseteq responses[c] /\ AnswerKept(c)
  PROVE  Coming'
<1>1. \A f \in Sockets : LinkKept(f)
  BY DEF LinkKept, Live, On
<1>2. \A c \in CleanClients : PendingKept(c)
  BY <1>1, CleanClientsAssumption DEF PendingKept
<1>3. QED
  BY <1>2, ComingStep

LEMMA HandleComing ==
  ASSUME TypeOK, SocketsOwned, Known, Phases, Coming, Handle
  PROVE  Coming'
<1> USE DEF connection, session, callbacks, app
<1>1. ASSUME HandleNobody
      PROVE  Coming'
  BY <1>1, DoneComing, QuietComing DEF HandleNobody
<1>2. ASSUME NEW c \in Clients, HandleError(c)
      PROVE  Coming'
  <2>1. receiver.pack.type # "ACK"
    BY <1>2 DEF HandleError, Coming, PackClean
  <2>2. PackClean' /\ \A d \in Clients : AnswerKept(d)
    BY <1>2, <2>1, DoneComing DEF HandleError
  <2>3. CASE CloseOnly(c)
    BY <1>2, <2>2, <2>3, CloseComing DEF HandleError
  <2>4. CASE UNCHANGED <<connection, net>>
    BY <1>2, <2>2, <2>4, QuietComing DEF HandleError
  <2>5. QED
    BY <1>2, <2>3, <2>4 DEF HandleError
<1>3. ASSUME NEW c \in Clients, HandleConnected(c)
      PROVE  Coming'
  <2>1. PackClean' /\ \A d \in Clients : AnswerKept(d)
    BY <1>3, DoneComing DEF HandleConnected
  <2>2. UNCHANGED socket
    BY <1>3 DEF HandleConnected
  <2>3. /\ c \in CleanClients => responses'[c] = {}
        /\ \A d \in Clients \ {c} : responses'[d] = responses[d]
    BY <1>3 DEF HandleConnected, CleanSession, TypeOK
  <2>4. \A f \in Sockets : net'[f] = net[f] \/ f = socket[c]
    BY <1>3 DEF HandleConnected, TypeOK
  <2>5. QED
    BY <2>1, <2>2, <2>3, <2>4, OneLinkComing
<1>4. ASSUME NEW c \in Clients, HandleRefused(c)
      PROVE  Coming'
  <2>1. PackClean' /\ \A d \in Clients : AnswerKept(d)
    BY <1>4, DoneComing DEF HandleRefused
  <2>2. QED
    BY <1>4, <2>1, AttemptFailedComing DEF HandleRefused
<1>5. ASSUME NEW c \in Clients, HandleAck(c)
      PROVE  Coming'
  <2>1. PackClean' /\ \A d \in Clients \ {c} : AnswerKept(d)
    BY <1>5, DoneComing DEF HandleAck
  <2>2. \A d \in Clients : responses'[d] \subseteq responses[d]
    BY <1>5 DEF HandleAck, Acknowledge, TypeOK
  <2>3. \A r \in responses'[c] : r.id # receiver.pack.id
    BY <1>5 DEF HandleAck, Acknowledge, TypeOK
  <2>4. AnswerKept(c)
    BY <2>3 DEF AnswerKept, Answering, Taken
  <2>5. QED
    BY <1>5, <2>1, <2>2, <2>4, QuietComing DEF HandleAck
<1>6. QED
  BY <1>1, <1>2, <1>3, <1>4, <1>5 DEF Handle

LEMMA ContinueWriteComing ==
  ASSUME TypeOK, Coming, NEW f \in Sockets, ContinueWrite(f)
  PROVE  Coming'
<1> USE DEF connection, session, callbacks, app
<1>1. /\ net' = [net EXCEPT ![f] = [Received(@, @.unsent) EXCEPT !.unsent = NoPacket]]
      /\ net[f].status # "connecting" /\ UNCHANGED <<socket, receiver>>
  BY DEF ContinueWrite
<1>2. \A c \in Clients : responses'[c] \subseteq responses[c]
  BY DEF ContinueWrite, WriteComplete, TypeOK
<1>3. /\ net'[f].status = net[f].status
      /\ net[f].status = "up" =>
           net'[f].wire = net[f].wire \cup Answerable(net[f].unsent)
      /\ \A g \in Sockets \ {f} : net'[g] = net[g]
  BY <1>1 DEF TypeOK, Socket, Received
<1>4. LinkKept(f)
  BY <1>1, <1>3 DEF LinkKept, Live, On, Subscribing, Answerable
<1>5. \A g \in Sockets : LinkKept(g)
  BY <1>3, <1>4 DEF LinkKept, Live, On
<1>6. PackSame
  BY <1>1 DEF PackSame
<1>7. \A c \in CleanClients : PendingKept(c)
  BY <1>1, <1>2, <1>5, <1>6, PackSameKept, CleanClientsAssumption DEF PendingKept
<1>8. QED
  BY <1>6, <1>7, PackSameKept, ComingStep

LEMMA OthersComing ==
  ASSUME TypeOK, Phases, Coming
  PROVE  /\ \A f : Select(f) => Coming'
         /\ Retry => Coming'
         /\ \A c \in Clients : CheckTimeouts(c) => Coming'
         /\ Network => Coming'
         /\ UNCHANGED vars => Coming'
<1> USE DEF connection, session, callbacks, app
<1>0. UNCHANGED receiver => PackSame
  BY DEF PackSame
<1>1. ASSUME NEW f, Select(f)
      PROVE  Coming'
  <2>1. PackSame
    BY <1>1 DEF Select, NoAnswer, PackSame, Phases, PackFresh
  <2>2. QED
    BY <1>1, <2>1, SilentComing DEF Select
<1>2. ASSUME Retry
      PROVE  Coming'
  <2>1. PackSame
    BY <1>2 DEF Retry, TypeOK, PackSame
  <2>2. QED
    BY <1>2, <2>1, RetryWrites, SilentComing
<1>3. ASSUME NEW c \in Clients, CheckTimeouts(c)
      PROVE  Coming'
  <2>1. AttemptFailed(c) /\ UNCHANGED receiver
    BY <1>3 DEF CheckTimeouts, Phases, PhaseKnown
  <2>2. QED
    BY <1>0, <2>1, PackSameKept, AttemptFailedComing
<1>4. ASSUME Network
      PROVE  Coming'
  <2>1. PICK f \in Sockets, old \in {"up", "connecting"}, new \in {"up", "refused", "down"} :
          /\ net[f].status = old /\ (new = "up" => old = "connecting")
          /\ net' = [net EXCEPT ![f].status = new]
          /\ UNCHANGED <<socket, responses, receiver>>
    BY <1>4 DEF Network, TcpUp, TcpFail, PeerClose, SetStatus
  <2>2. /\ \A g \in Sockets : net'[g].wire = net[g].wire /\ net'[g].unsent = net[g].unsent
        /\ \A g \in Sockets : net'[g].status = IF g = f THEN new ELSE net[g].status
    BY <2>1 DEF TypeOK, Socket
  <2>3. \A g \in Sockets : LinkKept(g)
    BY <2>1, <2>2 DEF LinkKept, Live, On
  <2>4. \A c \in CleanClients : PendingKept(c)
    BY <1>0, <2>1, <2>3, PackSameKept DEF PendingKept
  <2>5. QED
    BY <1>0, <2>1, <2>4, PackSameKept, ComingStep
<1>5. UNCHANGED vars => Coming'
  BY <1>0, SilentComing DEF vars
<1>6. QED
  BY <1>1, <1>2, <1>3, <1>4, <1>5

\* AnswersComing: in a clean session a subscribe is never left waiting on a live
\* connection for an answer that cannot come, whichever thread wrote it, however late,
\* and whichever thread has read its answer.  Proved where the library and the
\* application agree on what is connected (see ViewUpCorrect).
THEOREM AnswersComingCorrect ==
  ASSUME "ready" \notin ConnectOutcomes, ~DisconnectDelay
  PROVE  Spec => []AnswersComing
<1>1. Init => Coming
  BY CleanClientsAssumption DEF Init, Coming, PackClean, NoAnswer, AnswerComing
<1>2. TypeOK /\ SocketsOwned /\ Known /\ Phases /\ SessionCleared /\ Coming /\ [Next]_vars => Coming'
  BY ApplicationComing, ProcessCommandComing, CycleComing, HandleComing, ContinueWriteComing,
     OthersComing DEF Next, ReceiveThread
<1>3. TypeOK /\ Coming => AnswersComing
  BY CleanClientsAssumption
     DEF TypeOK, Coming, AnswersComing, AnswerComing, Up, Live, Asked, Answering, Taken, Sent, On
<1>4. QED
  BY <1>1, <1>2, <1>3, TypeCorrect, SocketsOwnedCorrect, KnownCorrect, PhasesCorrect,
     SessionClearedCorrect, PTL DEF Spec
=============================================================================
