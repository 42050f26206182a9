-------------------------- MODULE MQTTProtocolClient --------------------------
(***************************************************************************)
(* The exchanges of a session that outlives its connections and its        *)
(* process (src/src/MQTTProtocolClient.c, with the callers of MQTTAsync.c) *)
(* over the persistent store: publishing, PUBACK, PUBREC, PUBREL, PUBCOMP, *)
(* the retries of a reconnection, delivery to the application and the      *)
(* queue of what it refused, a crash between any two writes, the restore.  *)
(*                                                                         *)
(* A handler runs under mqttasync_mutex.  Its effects outside the memory   *)
(* of the process, puts, removals, writes and callbacks, are carried out   *)
(* one by one, in their order: todo holds those still to come.             *)
(*                                                                         *)
(* The broker is external: it keeps its half of every exchange and sends   *)
(* it again when the client reconnects, as MQTT 3.1.1 asks.                *)
(***************************************************************************)
EXTENDS MQTTPersistence

CONSTANTS
  Plans,        \* the messages of each direction, and how the client connects
  Faults,       \* crashes and calls that the code is known not to survive
  MaxCrashes,   \* bound: ends of the process
  MaxDrops,     \* bound: connections lost while the process runs
  MaxRefusals,  \* bound: messageArrived returns 0
  MaxRetries    \* bound: retries on a connection that is up

ASSUME PlansAssumption ==
  \A p \in Plans :
    /\ p.out \in Seq(0..2) /\ p.in \in Seq(0..2)
    /\ p.clean \in BOOLEAN /\ p.relDup \in BOOLEAN /\ p.msgID \in 0..MaxMsgId
ASSUME FaultsAssumption == Faults \subseteq {"starting", "handling", "torn", "order", "ids"}
ASSUME BoundsAssumption ==
  MaxCrashes \in Nat /\ MaxDrops \in Nat /\ MaxRefusals \in Nat /\ MaxRetries \in Nat

VARIABLES
  plan,          \* the plan chosen
  running,       \* the process has created its client
  connected,     \* Clients.connected
  msgID,         \* Clients.msgID: the last identifier assigned
  commands,      \* the requests that wait for the send thread
  responses,     \* MQTTAsyncs.responses: the identifiers that await an answer
  outbound,      \* Clients.outboundMsgs
  inbound,       \* Clients.inboundMsgs
  messageQueue,  \* Clients.messageQueue
  qentrySeqno,   \* Clients.qentry_seqno
  todo,          \* the effects of the current handler still to come
  store,         \* the directory of the client
  link,          \* the TCP connection is up
  toBroker,      \* packets on their way to the broker
  toClient,      \* packets on their way to the client
  held,          \* broker: identifiers of QoS 2 whose PUBREL has not come
  pending,       \* broker: messages for the client not acknowledged
  published,     \* the number of messages accepted from the application
  sent,          \* the number of messages that the broker has sent
  received,      \* what the broker has passed on, in order
  arrived,       \* what the application has taken, in order
  faults         \* how many crashes, drops, refusals and retries there were

memory == <<msgID, commands, responses, outbound, inbound, messageQueue, qentrySeqno>>
network == <<link, toBroker, toClient>>
broker == <<held, pending, sent, received>>
vars == <<plan, running, connected, memory, todo, store, network, broker, published,
          arrived, faults>>

-----------------------------------------------------------------------------
(* Types *)

Out == 1..Len(plan.out)
In == 1..Len(plan.in)
MsgIds == 1..MaxMsgId

Packet(type, id, n, qos, dup) == [type |-> type, id |-> id, n |-> n, qos |-> qos, dup |-> dup]
Ack(type, id) == Packet(type, id, 0, 0, FALSE)
PubPacket(m, dup) == Packet("PUBLISH", m.id, m.n, m.qos, dup)

PutOf(key, content) == [op |-> "put", key |-> key, content |-> content]
RemoveOf(key) == [op |-> "remove", key |-> key]
WriteOf(packet) == [op |-> "write", packet |-> packet]
DeliverOf(n) == [op |-> "deliver", n |-> n]
TryQueue == [op |-> "queue"]

TypeOK ==
  /\ plan \in Plans
  /\ running \in BOOLEAN /\ connected \in BOOLEAN /\ link \in BOOLEAN
  /\ msgID \in MsgIds \cup {0}
  /\ \A m \in ToSet(commands) : m.n \in Out /\ m.id \in MsgIds \cup {0}
  /\ responses \subseteq MsgIds
  /\ \A m \in ToSet(outbound) :
       m.id \in MsgIds /\ m.n \in Out /\ m.next \in {"PUBACK", "PUBREC", "PUBCOMP"}
  /\ \A m \in ToSet(inbound) : m.id \in MsgIds /\ m.n \in In
  /\ \A qe \in ToSet(messageQueue) : qe.n \in In /\ qe.seqno \in 1..qentrySeqno
  /\ \A k \in DOMAIN store.files : k \in ToSet(Stems) \X Nat
  /\ \A p \in ToSet(toBroker \o toClient) : p.id \in MsgIds \cup {0}
  /\ held \subseteq MsgIds
  /\ published \in {0} \cup Out /\ sent \in {0} \cup In
  /\ ToSet(received) \subseteq Out /\ ToSet(arrived) \subseteq In

-----------------------------------------------------------------------------
(* Lists of messages *)

\* ListFindItem with messageIDCompare: the first message with the identifier
Found(list, id) == SelectInSeq(list, LAMBDA m : m.id = id)

Count(f) == faults' = [faults EXCEPT ![f] = @ + 1]
MayFault(f, max) == faults[f] < max
Idle == running /\ todo = <<>>

-----------------------------------------------------------------------------
(* The application publishes *)

IdAfterUnlimited(id) == id + 1   \* mutant: identifiers do not wrap
IdAfter(id) == IF id = MaxMsgId THEN 1 ELSE id + 1

\* MQTTAsync_assignMsgId: the identifiers after msgID, until one is neither in a
\* queued command nor in a response; outboundMsgs is not looked at.  The search
\* ends where it began.
IdInUse(id) == id \in responses \/ \E m \in ToSet(commands) : m.id = id
AssignMsgId ==
  LET try[k \in 0..MaxMsgId] == IF k = 0 THEN msgID ELSE IdAfter(try[k - 1])
      tries == IF msgID = 0 THEN MaxMsgId ELSE MaxMsgId - 1
      free == {k \in 1..tries : ~IdInUse(try[k])}
  IN  IF free = {} THEN 0 ELSE try[CHOOSE k \in free : \A j \in free : k <= j]

\* The library starts again at identifier 1 in a new process, whatever it has
\* restored.  Without the fault "ids" the application waits for the restored
\* messages to be delivered.
IdsContinue ==
  /\ msgID = 0 => commands = <<>>
  /\ \A i \in DOMAIN outbound : outbound[i].id \in responses

\* MQTTAsync_send: an identifier is assigned and the command appended and persisted
Publish ==
  LET n == published + 1
      id == IF plan.out[n] = 0 THEN 0 ELSE AssignMsgId
      m == [id |-> id, n |-> n, qos |-> plan.out[n]]
  IN  /\ Idle /\ connected /\ n \in Out
      /\ "ids" \in Faults \/ IdsContinue
      /\ plan.out[n] > 0 => id # 0
      /\ published' = n
      /\ msgID' = IF id = 0 THEN msgID ELSE id
      /\ commands' = Append(commands, m)
      /\ store' = PstPut(store, CommandKey(n), m)
      /\ UNCHANGED <<plan, running, connected, responses, outbound, inbound, messageQueue,
                     qentrySeqno, todo, network, broker, arrived, faults>>

\* the send thread takes the first command: its key is removed before
\* MQTTProtocol_startPublish stores the message.  A write that fails leaves no
\* response.
ProcessCommand ==
  LET m == Head(commands)
      write == <<WriteOf(PubPacket(m, FALSE))>>
  IN  /\ Idle /\ connected /\ commands # <<>>
      /\ Len(outbound) < MaxMsgId - 1
      /\ commands' = Tail(commands)
      /\ \/ /\ m.qos = 0
            /\ todo' = <<RemoveOf(CommandKey(m.n))>> \o write
            /\ UNCHANGED <<outbound, responses>>
         \/ /\ m.qos > 0
            /\ todo' = <<RemoveOf(CommandKey(m.n)), PutOf(SentKey(m.id), m)>> \o write
            /\ outbound' = Append(outbound, Outbound(m, AnswerTo(m.qos)))
            /\ responses' \in {responses \cup {m.id}} \cup (IF link THEN {} ELSE {responses})
      /\ UNCHANGED <<plan, running, connected, msgID, inbound, messageQueue, qentrySeqno,
                     store, network, broker, published, arrived, faults>>

-----------------------------------------------------------------------------
(* The effects of a handler *)

Effect(op) == running /\ todo # <<>> /\ Head(todo).op = op

Put ==
  /\ Effect("put")
  /\ store' = PstPut(store, Head(todo).key, Head(todo).content)
  /\ todo' = Tail(todo)
  /\ UNCHANGED <<plan, running, connected, memory, network, broker, published, arrived, faults>>

RemoveKey ==
  /\ Effect("remove")
  /\ store' = PstRemove(store, Head(todo).key)
  /\ todo' = Tail(todo)
  /\ UNCHANGED <<plan, running, connected, memory, network, broker, published, arrived, faults>>

\* a packet written to a connection that is broken goes nowhere
Write ==
  /\ Effect("write")
  /\ toBroker' = IF link THEN Append(toBroker, Head(todo).packet) ELSE toBroker
  /\ todo' = Tail(todo)
  /\ UNCHANGED <<plan, running, connected, memory, store, link, toClient, broker, published,
                 arrived, faults>>

\* what messageArrived returns: the application may refuse the message
AppTakes(n) == arrived' = Append(arrived, n) /\ UNCHANGED faults
AppRefuses == MayFault("refusal", MaxRefusals) /\ Count("refusal") /\ UNCHANGED arrived

\* Protocol_processPublication: directly, when nothing waits before it
Deliver ==
  LET n == Head(todo).n
      enqueue ==
        /\ qentrySeqno' = qentrySeqno + 1
        /\ messageQueue' = Append(messageQueue, [seqno |-> qentrySeqno + 1, n |-> n])
        /\ todo' = <<PutOf(QueueKey(qentrySeqno + 1), n)>> \o Tail(todo)
  IN  /\ Effect("deliver")
      /\ \/ /\ messageQueue = <<>> /\ connected
            /\ AppTakes(n)
            /\ todo' = Tail(todo)
            /\ UNCHANGED <<messageQueue, qentrySeqno>>
         \/ messageQueue = <<>> /\ connected /\ AppRefuses /\ enqueue
         \/ messageQueue # <<>> /\ enqueue /\ UNCHANGED <<arrived, faults>>
      /\ UNCHANGED <<plan, running, connected, msgID, commands, responses, outbound, inbound,
                     store, network, broker, published>>

\* the receive thread tries the first message of the queue after every packet
TryMessageQueue ==
  /\ Effect("queue")
  /\ \/ /\ messageQueue = <<>>
        /\ todo' = Tail(todo)
        /\ UNCHANGED <<messageQueue, arrived, faults>>
     \/ /\ messageQueue # <<>>
        /\ AppTakes(Head(messageQueue).n)
        /\ messageQueue' = Tail(messageQueue)
        /\ todo' = <<RemoveOf(QueueKey(Head(messageQueue).seqno))>> \o Tail(todo)
     \/ /\ messageQueue # <<>>
        /\ AppRefuses
        /\ todo' = Tail(todo)
        /\ UNCHANGED messageQueue
  /\ UNCHANGED <<plan, running, connected, msgID, commands, responses, outbound, inbound,
                 qentrySeqno, store, network, broker, published>>

DoEffect == Put \/ RemoveKey \/ Write \/ Deliver \/ TryMessageQueue

-----------------------------------------------------------------------------
(* Packets from the broker.  Each handler gives the effects of the packet; *)
(* the receive thread then tries the message queue.                        *)

Reading(type) == Idle /\ connected /\ toClient # <<>> /\ Head(toClient).type = type
ThenQueue(effects) == todo' = effects \o <<TryQueue>>
Read ==
  /\ toClient' = Tail(toClient)
  /\ UNCHANGED <<plan, running, connected, msgID, commands, messageQueue, qentrySeqno, store,
                 link, toBroker, broker, published, arrived, faults>>

\* MQTTProtocol_handlePublishes; of QoS 2, MQTTPacket_Factory has stored it.
\* A message with the identifier of a stored one takes its place in the list.
HandlePublish ==
  LET p == Head(toClient)
      i == Found(inbound, p.id)
      m == Inbound(p)
  IN  /\ Reading("PUBLISH")
      /\ \/ /\ p.qos = 0
            /\ ThenQueue(<<DeliverOf(p.n)>>)
            /\ UNCHANGED inbound
         \/ /\ p.qos = 1
            /\ ThenQueue(<<WriteOf(Ack("PUBACK", p.id)), DeliverOf(p.n)>>)
            /\ UNCHANGED inbound
         \/ /\ p.qos = 2
            /\ ThenQueue(<<PutOf(ReceivedKey(p.id), [id |-> p.id, n |-> p.n, qos |-> 2]),
                           WriteOf(Ack("PUBREC", p.id))>>)
            /\ inbound' = IF i = 0 THEN Append(inbound, m) ELSE ReplaceAt(inbound, i, m)
      /\ UNCHANGED <<responses, outbound>>
      /\ Read

\* the PUBCOMP goes out before the message is delivered; a PUBREL for a message
\* that is not known is answered only when it is marked as a duplicate
HandlePubrel ==
  LET p == Head(toClient)
      i == Found(inbound, p.id)
      pubcomp == WriteOf(Ack("PUBCOMP", p.id))
  IN  /\ Reading("PUBREL")
      /\ \/ /\ i # 0
            /\ ThenQueue(<<pubcomp, DeliverOf(inbound[i].n), RemoveOf(ReceivedKey(p.id))>>)
            /\ inbound' = RemoveAt(inbound, i)
         \/ /\ i = 0
            /\ ThenQueue(IF p.dup THEN <<pubcomp>> ELSE <<>>)
            /\ UNCHANGED inbound
      /\ UNCHANGED <<responses, outbound>>
      /\ Read

\* an acknowledgement ends the exchange when it is the one that is awaited; the
\* response with its identifier is removed in any case (MQTTAsync_cycle)
HandleAck(type) ==
  LET id == Head(toClient).id
      i == Found(outbound, id)
      awaited == i # 0 /\ outbound[i].next = type
      keys == KeysOf(outbound[i])
  IN  /\ Reading(type)
      /\ \/ /\ awaited
            /\ ThenQueue([k \in DOMAIN keys |-> RemoveOf(keys[k])])
            /\ outbound' = RemoveAt(outbound, i)
         \/ /\ ~awaited
            /\ ThenQueue(<<>>)
            /\ UNCHANGED outbound
      /\ responses' = responses \ {id}
      /\ UNCHANGED inbound
      /\ Read

HandlePuback == HandleAck("PUBACK")
HandlePubcomp == HandleAck("PUBCOMP")

SendPubrel(m) ==
  <<PutOf(PubrelKey(m.id), [id |-> m.id, n |-> m.n, qos |-> m.qos]),
    WriteOf(Ack("PUBREL", m.id))>>

HandlePubrec ==
  LET i == Found(outbound, Head(toClient).id)
  IN  /\ Reading("PUBREC")
      /\ \/ /\ i # 0 /\ outbound[i].next = "PUBREC"
            /\ ThenQueue(SendPubrel(outbound[i]))
            /\ outbound' = [outbound EXCEPT ![i].next = "PUBCOMP"]
         \/ /\ ~(i # 0 /\ outbound[i].next = "PUBREC")
            /\ ThenQueue(<<>>)
            /\ UNCHANGED outbound
      /\ UNCHANGED <<responses, inbound>>
      /\ Read

HandlePingrespOnly == FALSE   \* mutant: a PINGRESP does not
\* a PINGRESP makes the receive thread try the message queue
HandlePingresp ==
  /\ Idle /\ connected /\ link /\ messageQueue # <<>>
  /\ todo' = <<TryQueue>>
  /\ UNCHANGED <<plan, running, connected, memory, store, network, broker, published, arrived,
                 faults>>

ReceivePacket == HandlePublish \/ HandlePubrel \/ HandlePuback \/ HandlePubrec \/ HandlePubcomp

-----------------------------------------------------------------------------
(* Retries, connections and the process *)

\* MQTTProtocol_retries for one message: MQTTPacket_sends and MQTTPacket_send put
\* the packet in the store again before they write it
ResendPublish(m) ==   \* mutant: the PUBLISH again, when its PUBREL has been sent
  <<WriteOf(PubPacket([id |-> m.id, n |-> m.n, qos |-> m.qos], TRUE))>>
Resend(m) ==
  IF m.next = "PUBCOMP"
  THEN SendPubrel(m)
  ELSE LET content == [id |-> m.id, n |-> m.n, qos |-> m.qos]
       IN  <<PutOf(SentKey(m.id), content), WriteOf(PubPacket(content, TRUE))>>
ResendsPublishes(list) ==   \* mutant: no PUBREL is sent again
  LET publishes == SelectSeq(list, LAMBDA m : m.next # "PUBCOMP")
  IN  FlattenSeq([i \in DOMAIN publishes |-> Resend(publishes[i])])
Resends(list) == FlattenSeq([i \in DOMAIN list |-> Resend(list[i])])

\* with a retry interval: the messages that have waited for longer than it
Retry ==
  /\ Idle /\ connected /\ outbound # <<>>
  /\ MayFault("retry", MaxRetries) /\ Count("retry")
  /\ \E i \in DOMAIN outbound : todo' = Resends(SubSeq(outbound, 1, i))
  /\ UNCHANGED <<plan, running, connected, memory, store, network, broker, published, arrived>>

\* MQTTAsync_cleanSession
Forgotten ==
  /\ commands' = <<>> /\ responses' = {} /\ outbound' = <<>> /\ inbound' = <<>>
  /\ messageQueue' = <<>>
  /\ msgID' = 0
  /\ UNCHANGED qentrySeqno

\* the client notices that its connection is lost (MQTTAsync_closeSession)
NoticeLost ==
  /\ Idle /\ connected /\ ~link
  /\ connected' = FALSE
  /\ \/ plan.clean /\ Forgotten /\ store' = PstClear(store)
     \/ ~plan.clean /\ UNCHANGED <<memory, store>>
  /\ UNCHANGED <<plan, running, todo, network, broker, published, arrived, faults>>

\* what the broker sends again when the session continues
BrokerPacket(m) ==
  IF m.next = "PUBCOMP"
  THEN Packet("PUBREL", m.id, 0, 0, plan.relDup)
  ELSE Packet("PUBLISH", m.id, m.n, m.qos, TRUE)

\* a CONNACK: MQTTAsync_completeConnection cleans the session or retries all of
\* the messages, after the receive thread has tried the message queue
Connect ==
  /\ Idle /\ ~connected
  /\ connected' = TRUE /\ link' = TRUE
  /\ \/ /\ plan.clean
        /\ Forgotten /\ store' = PstClear(store)
        /\ toClient' = <<>> /\ held' = {} /\ pending' = <<>>
        /\ todo' = <<>>
     \/ /\ ~plan.clean
        /\ toClient' = [i \in DOMAIN pending |-> BrokerPacket(pending[i])]
        /\ todo' = <<TryQueue>> \o Resends(outbound)
        /\ UNCHANGED <<memory, store, held, pending>>
  /\ UNCHANGED <<plan, running, toBroker, sent, received, published, arrived, faults>>

Broken == link' = FALSE /\ toBroker' = <<>> /\ toClient' = <<>>

Drop ==
  /\ link /\ MayFault("drop", MaxDrops) /\ Count("drop")
  /\ Broken
  /\ UNCHANGED <<plan, running, connected, memory, todo, store, broker, published, arrived>>

\* Crashes that the code does not survive.  "starting": the command is removed
\* from the store and the message not yet put there.  "handling": the
\* acknowledgement of an inbound message is written, but the message is neither
\* with the application nor in the queue, or the application has it and its key
\* remains.  "torn": a put is interrupted.
Starting ==
  \E i \in DOMAIN todo : /\ todo[i].op = "put" /\ todo[i].key[1] = "s-"
                         /\ ~PstContainsKey(store, todo[i].key)
                         /\ \A k \in DOMAIN todo : todo[k].op # "remove"
Handling ==
  todo # <<>> /\ \/ Head(todo).op = "deliver"
                 \/ Head(todo).op \in {"put", "remove"} /\ Head(todo).key[1] = "q-"
                 \/ Head(todo).op = "remove" /\ Head(todo).key[1] = "r-"

EndProcess ==
  /\ running /\ MayFault("crash", MaxCrashes) /\ Count("crash")
  /\ running' = FALSE /\ connected' = FALSE /\ Broken
  /\ Forgotten /\ todo' = <<>>
  /\ UNCHANGED <<plan, broker, published, arrived>>

Crash ==
  /\ EndProcess
  /\ "starting" \in Faults \/ ~Starting
  /\ "handling" \in Faults \/ ~Handling
  /\ store' \in {store} \cup (IF "torn" \in Faults /\ Effect("put")
                              THEN {PstPutTorn(store, Head(todo).key)} ELSE {})

\* MQTTAsync_destroy, and the end of the program
Destroy == Idle /\ EndProcess /\ store' = PstClose(store)

\* MQTTAsync_create.  Without the fault "order" the directory lists the commands
\* in the order in which they were made.
Restart ==
  /\ ~running
  /\ running' = TRUE
  /\ \E keys \in PstKeys(store) :
       /\ commands' = RestoreCommands(store, keys)
       /\ "order" \in Faults \/ \A i \in 2..Len(commands') : commands'[i - 1].n < commands'[i].n
       /\ store' = PstOpen(RestoredStore(store, keys))
       /\ inbound' = RestoredInbound(store, keys)
       /\ outbound' = RestoredOutbound(store, keys)
       /\ messageQueue' = RestoreMessageQueue(store, keys)
       /\ qentrySeqno' = IF messageQueue' = <<>> THEN 0 ELSE Last(messageQueue').seqno
  /\ msgID' = 0 /\ responses' = {}
  /\ UNCHANGED <<plan, connected, todo, network, broker, published, arrived, faults>>

-----------------------------------------------------------------------------
(* The broker *)

BrokerReads(type) == toBroker # <<>> /\ Head(toBroker).type = type
BrokerAnswers(packets) ==
  /\ toBroker' = Tail(toBroker)
  /\ toClient' = toClient \o packets
  /\ UNCHANGED <<plan, running, connected, memory, todo, store, link, sent, published, arrived,
                 faults>>

BrokerPublish ==
  LET p == Head(toBroker)
      new == p.qos < 2 \/ p.id \notin held
  IN  /\ BrokerReads("PUBLISH")
      /\ received' = IF new THEN Append(received, p.n) ELSE received
      /\ held' = IF p.qos = 2 THEN held \cup {p.id} ELSE held
      /\ BrokerAnswers(IF p.qos = 0 THEN <<>> ELSE <<Ack(AnswerTo(p.qos), p.id)>>)
      /\ UNCHANGED pending

BrokerPubrel ==
  LET p == Head(toBroker)
  IN  /\ BrokerReads("PUBREL")
      /\ held' = held \ {p.id}
      /\ BrokerAnswers(<<Ack("PUBCOMP", p.id)>>)
      /\ UNCHANGED <<received, pending>>

BrokerAck ==
  LET p == Head(toBroker)
      i == Found(pending, p.id)
  IN  /\ \/ /\ BrokerReads("PUBREC")
            /\ BrokerAnswers(<<Packet("PUBREL", p.id, 0, 0, FALSE)>>)
            /\ pending' = IF i = 0 THEN pending ELSE [pending EXCEPT ![i].next = "PUBCOMP"]
         \/ /\ BrokerReads("PUBACK") \/ BrokerReads("PUBCOMP")
            /\ BrokerAnswers(<<>>)
            /\ pending' = IF i = 0 THEN pending ELSE RemoveAt(pending, i)
      /\ UNCHANGED <<received, held>>

BrokerSend ==
  LET n == sent + 1
      qos == plan.in[n]
      id == CHOOSE i \in MsgIds : Found(pending, i) = 0 /\ \A j \in 1..(i - 1) : Found(pending, j) # 0
      m == [id |-> id, n |-> n, qos |-> qos, next |-> AnswerTo(qos)]
  IN  /\ n \in In
      /\ \E i \in MsgIds : Found(pending, i) = 0
      /\ qos = 0 => link
      /\ sent' = n
      /\ pending' = IF qos = 0 THEN pending ELSE Append(pending, m)
      /\ toClient' = IF link THEN Append(toClient, PubPacket(m, FALSE)) ELSE toClient
      /\ UNCHANGED <<plan, running, connected, memory, todo, store, link, toBroker, held,
                     received, published, arrived, faults>>

BrokerReceive == BrokerPublish \/ BrokerPubrel \/ BrokerAck

-----------------------------------------------------------------------------
(* What the application can ask for *)

TokensSent == {m.id : m \in ToSet(outbound)}   \* mutant: the queued commands are left out
\* MQTTAsync_getPendingTokens: the queued commands and the messages in flight
PendingTokens == {m.id : m \in ToSet(commands) \cup ToSet(outbound)}
MQTTAsync_isComplete(dt) == dt \notin PendingTokens

-----------------------------------------------------------------------------
Init ==
  /\ plan \in Plans
  /\ running = TRUE /\ connected = FALSE
  /\ msgID = plan.msgID
  /\ commands = <<>> /\ responses = {} /\ outbound = <<>> /\ inbound = <<>>
  /\ messageQueue = <<>> /\ qentrySeqno = 0 /\ todo = <<>>
  /\ store = Directory(TRUE, NoFiles)
  /\ link = FALSE /\ toBroker = <<>> /\ toClient = <<>>
  /\ held = {} /\ pending = <<>>
  /\ published = 0 /\ sent = 0 /\ received = <<>> /\ arrived = <<>>
  /\ faults = [crash |-> 0, drop |-> 0, refusal |-> 0, retry |-> 0]

Next ==
  \/ Publish \/ ProcessCommand \/ DoEffect \/ ReceivePacket \/ HandlePingresp
  \/ Retry \/ NoticeLost \/ Connect \/ Drop \/ Crash \/ Destroy \/ Restart
  \/ BrokerReceive \/ BrokerSend

Spec == Init /\ [][Next]_vars

\* Something of this happens as long as it can: the threads keep running, a lost
\* connection is noticed and made again (keepalive, and the application), a process
\* that ended is started again, and the broker answers.
Progress ==
  \/ ProcessCommand \/ DoEffect \/ ReceivePacket \/ HandlePingresp
  \/ NoticeLost \/ Connect \/ Restart \/ BrokerReceive
LiveSpec == Spec /\ WF_vars(Progress)

-----------------------------------------------------------------------------
(* Properties *)

KeysInMemory ==
  {CommandKey(m.n) : m \in ToSet(commands)} \cup {SentKey(m.id) : m \in ToSet(outbound)}
  \cup {PubrelKey(m.id) : m \in {x \in ToSet(outbound) : x.next = "PUBCOMP"}}
  \cup {ReceivedKey(m.id) : m \in ToSet(inbound)}
  \cup {QueueKey(qe.seqno) : qe \in ToSet(messageQueue)}

\* Between two handlers the store holds what is in memory: a key for every queued
\* command, every outbound message, every PUBREL sent, every inbound message of QoS 2
\* and every message of the queue, with its content (the puts and removals of
\* MQTTPacket.c, MQTTProtocolClient.c and MQTTAsync.c); and no other key, unless the
\* session is clean, whose keys are not cleared.
StoreAgrees ==
  Idle =>
    /\ KeysInMemory \subseteq DOMAIN store.files
    /\ ~plan.clean => DOMAIN store.files = KeysInMemory
    /\ \A m \in ToSet(commands) : PstGet(store, CommandKey(m.n)) = m
    /\ \A m \in ToSet(outbound) :
         PstGet(store, SentKey(m.id)) = [id |-> m.id, n |-> m.n, qos |-> m.qos]
    /\ \A m \in ToSet(inbound) : PstGet(store, ReceivedKey(m.id)).n = m.n
    /\ \A qe \in ToSet(messageQueue) : PstGet(store, QueueKey(qe.seqno)) = qe.n

\* The broker passes messages on in the order in which the application published
\* them, over lost connections, crashes and wrapped identifiers; only a copy of an
\* earlier one may come late (MQTTProtocol_retries, MQTTPersistence_wrapMsgID).
InOrder ==
  \A i, j \in DOMAIN received :
    i < j /\ received[j] < received[i] => Contains(SubSeq(received, 1, i - 1), received[j])

\* A message of QoS 1 or 2 that the broker has not passed on has a token, and
\* MQTTAsync_isComplete does not call it complete, also in a process that was
\* started again.
CompleteIsDelivered ==
  Idle /\ ~plan.clean =>
    \A n \in 1..published : plan.out[n] > 0 /\ ~Contains(received, n) =>
      \E m \in ToSet(commands) \cup ToSet(outbound) :
        m.n = n /\ ~MQTTAsync_isComplete(m.id)

-----------------------------------------------------------------------------
(* The promises to both sides *)

InFiles(stems, n) ==
  \E k \in DOMAIN store.files :
    /\ k[1] \in stems
    /\ n = IF k[1] = "q-" THEN PstGet(store, k) ELSE PstGet(store, k).n
InList(list, n) == \E m \in ToSet(list) : m.n = n

OutHeld(n) == InList(commands, n) \/ InList(outbound, n) \/ InFiles({"c-", "s-"}, n)
InHeld(n) ==
  \/ InList(pending, n) \/ InList(toClient, n) \/ InList(inbound, n) \/ InList(messageQueue, n)
  \/ \E i \in DOMAIN todo : todo[i].op = "deliver" /\ todo[i].n = n
  \/ InFiles({"r-", "q-"}, n)

Outgoing == INSTANCE Delivery WITH
  qos <- plan.out, clean <- plan.clean, accepted <- published, delivered <- received,
  forgotten <- {n \in 1..published : ~OutHeld(n)}
Incoming == INSTANCE Delivery WITH
  qos <- plan.in, clean <- plan.clean, accepted <- sent, delivered <- arrived,
  forgotten <- {n \in 1..sent : ~InHeld(n)}

\* A message that MQTTAsync_send accepted is in the queue, in the list or in the
\* store until the broker has it, and one of QoS 2 is passed on once.
KeepsOutgoing == Outgoing!Spec

\* A message that the broker sent is kept by one of them until the application has
\* taken it, and one of QoS 2 is taken once.
KeepsIncoming == Incoming!Spec

Messages == 1..3

\* Every message accepted in a session that is kept is acknowledged in the end: no
\* exchange is left over by the retries of a reconnection or by the restore.
Settles == \A n \in Messages : (~plan.clean /\ n <= published) ~> ~OutHeld(n)

\* Every message of QoS 1 or 2 that the broker sends in a session that is kept
\* reaches the application, also when it is refused at first.
Arrives ==
  \A n \in Messages :
    (~plan.clean /\ n <= sent /\ plan.in[n] > 0) ~> Contains(arrived, n)
=============================================================================
