------------------------ MODULE MQTTProtocolArrival ------------------------
(***************************************************************************)
(* Proofs that the session of MQTTProtocolClient keeps what it promises to *)
(* the application that subscribes: a message that the broker sends is     *)
(* with one of the two sides until the application has taken it, and one   *)
(* of QoS 2 is taken once (KeepsIncoming), over lost connections, refusals *)
(* and the ends of processes that the code survives.                       *)
(*                                                                         *)
(* The invariant AInv follows each exchange through its places:            *)
(*   - on its way: of each exchange there is at most one packet on the     *)
(*     connection or to be written (OneAtATime), and it means what the     *)
(*     broker's message says (AllMeant);                                   *)
(*   - in memory: a message of QoS 2 is with the client exactly once,      *)
(*     as an inbound message before its PUBREL and as one that is          *)
(*     delivered, queued or taken after it (Half, Once);                   *)
(*   - in the files: the same of what a new process would restore          *)
(*     (FilesAgree, FilesHalf), with the order of puts, removals, writes   *)
(*     and calls inside a handler that this rests on (Shapes).             *)
(***************************************************************************)
EXTENDS MQTTProtocolClientProofs

-----------------------------------------------------------------------------
(* Where a message is                                                       *)

Arrived == {arrived[i] : i \in DOMAIN arrived}
Waiting == {messageQueue[i].n : i \in DOMAIN messageQueue}
Coming == {todo[j].n : j \in {k \in DOMAIN todo : todo[k].op = "deliver"}}

\* the application has the message, or the client has put it on the path to it
Taken == Arrived \cup Waiting \cup Coming

\* the exchanges of which the client awaits the PUBREL
Got == {inbound[i].id : i \in DOMAIN inbound}

File(k) == k \in DOMAIN store.files
QueueFiles == {store.files[k] : k \in {l \in DOMAIN store.files : l[1] = "q-"}}
TakenInFiles == Arrived \cup QueueFiles

\* all of the places where one of the two sides has a message
Theirs == {pending[i].n : i \in DOMAIN pending}
OnTheWay == {toClient[i].n : i \in DOMAIN toClient}
InHand == {inbound[i].n : i \in DOMAIN inbound}
ReceivedFiles == {store.files[k].n : k \in {l \in DOMAIN store.files : l[1] = "r-"}}
HeldStill == Theirs \cup OnTheWay \cup InHand \cup Waiting \cup Coming \cup ReceivedFiles \cup QueueFiles

\* The broker alone brings in a message that nobody holds.  (An acknowledgement has no
\* message: its number is 0.)
NothingNew == HeldStill' \subseteq HeldStill \cup {0}

-----------------------------------------------------------------------------
(* The packets of the exchanges of the broker                               *)

Places == {"todo", "toBroker", "toClient"}
Requests == {"PUBLISH", "PUBREL"}

\* a packet of the broker on its way to the client, or an answer that is to be
\* written or on its way back
At(place, j, p) ==
  \/ place = "todo" /\ j \in DOMAIN todo /\ todo[j].op = "write" /\ todo[j].packet = p
     /\ p.type \in Answers
  \/ place = "toBroker" /\ j \in DOMAIN toBroker /\ toBroker[j] = p /\ p.type \in Answers
  \/ place = "toClient" /\ j \in DOMAIN toClient /\ toClient[j] = p /\ p.type \in Requests

\* a PUBLISH of QoS 0 belongs to no exchange
Free(p) == p.type = "PUBLISH" /\ p.qos = 0
Same(p, q) == IF Free(p) \/ Free(q) THEN Free(p) /\ Free(q) /\ p.n = q.n ELSE p.id = q.id

OneAtATime ==
  \A a, b, i, j, p, q : At(a, i, p) /\ At(b, j, q) /\ Same(p, q) => a = b /\ i = j

\* what a packet says of the message m of its exchange
Of(m, p) ==
  /\ m.id = p.id
  /\ p.type = "PUBLISH" => m.n = p.n /\ m.qos = p.qos /\ m.next # "PUBCOMP"
  /\ p.type = "PUBREL" => m.next = "PUBCOMP"
  /\ p.type = "PUBREC" => m.next = "PUBREC" /\ p.id \in Got
  /\ p.type = "PUBACK" => m.qos = 1 /\ m.n \in Taken
  /\ p.type = "PUBCOMP" => m.next = "PUBCOMP" /\ p.id \notin Got /\ m.n \in Taken
Meant(p) ==
  /\ p.type = "PUBLISH" => p.qos = plan.in[p.n] /\ p.n <= sent
  /\ Free(p) => p.n \notin Taken
  /\ ~Free(p) => \E k \in DOMAIN pending : Of(pending[k], p)
AllMeant == \A a, j, p : At(a, j, p) => Meant(p)

Connections ==
  /\ ~link => toBroker = <<>> /\ toClient = <<>>
  /\ ~connected => ~link /\ todo = <<>>

-----------------------------------------------------------------------------
(* What the two sides know of a message                                     *)

Exchanged ==
  /\ \A i, j \in DOMAIN pending :
       pending[i].id = pending[j].id \/ pending[i].n = pending[j].n => i = j
  /\ \A i \in DOMAIN pending :
       /\ pending[i].qos = plan.in[pending[i].n] /\ pending[i].n <= sent
       /\ \/ pending[i].next = AnswerTo(pending[i].qos)
          \/ pending[i].qos = 2 /\ pending[i].next = "PUBCOMP"

Sent ==
  /\ \A n \in Taken : n <= sent
  /\ \A k \in DOMAIN store.files : k[1] = "q-" => store.files[k] <= sent

\* what the client has of the messages of QoS 2 that the broker keeps
Half ==
  running /\ (connected \/ ~plan.clean) =>
    /\ \A i \in DOMAIN inbound : \E k \in DOMAIN pending :
         pending[k].id = inbound[i].id /\ pending[k].n = inbound[i].n /\ pending[k].qos = 2
    /\ \A k \in DOMAIN pending : pending[k].qos = 2 =>
         /\ pending[k].id \in Got \/ pending[k].next = "PUBREC" => pending[k].n \notin Taken
         /\ pending[k].next = "PUBCOMP" /\ pending[k].id \notin Got => pending[k].n \in Taken

\* what is on the path to the application is there once
Once ==
  running /\ (connected \/ ~plan.clean) =>
    /\ \A i, j \in DOMAIN messageQueue :
         plan.in[messageQueue[i].n] # 1 /\ messageQueue[i].n = messageQueue[j].n => i = j
    /\ \A n \in Waiting : plan.in[n] # 1 => n \notin Arrived
    /\ \A n \in Coming : plan.in[n] # 1 => n \notin Arrived \cup Waiting

\* the effects that the end of the process must not separate
DeliverPlace(j) ==
  \/ j = 1
  \/ /\ j = 2 /\ todo[1].op = "write" /\ todo[1].packet.type \in {"PUBACK", "PUBCOMP"}
     /\ \E k \in DOMAIN pending : pending[k].id = todo[1].packet.id /\ pending[k].n = todo[2].n
     /\ todo[1].packet.type = "PUBCOMP" /\ ~plan.clean =>
          /\ File(ReceivedKey(todo[1].packet.id))
          /\ store.files[ReceivedKey(todo[1].packet.id)].n = todo[2].n
RemovalPlace(j) ==
  \/ j = 1
  \/ j = 2 /\ (todo[1].op = "deliver" \/ (todo[1].op = "put" /\ todo[1].key[1] = "q-"))
  \/ /\ j = 3 /\ todo[1].op = "write" /\ todo[1].packet.type = "PUBCOMP"
     /\ todo[1].packet.id = todo[3].key[2]
     /\ todo[2].op = "deliver" /\ todo[2].n = store.files[todo[3].key].n
PutPlace(j) ==
  /\ j = 1 /\ 2 \in DOMAIN todo /\ todo[2].op = "write"
  /\ todo[2].packet.type = "PUBREC" /\ todo[2].packet.id = todo[1].key[2]
Shapes ==
  \A j \in DOMAIN todo :
    /\ todo[j].op = "deliver" => DeliverPlace(j)
    /\ todo[j].op = "remove" /\ todo[j].key[1] = "r-" /\ File(todo[j].key) /\ ~plan.clean =>
         RemovalPlace(j)
    /\ todo[j].op = "remove" /\ todo[j].key[1] = "q-" => j = 1
    /\ todo[j].op = "put" /\ todo[j].key[1] = "r-" => PutPlace(j)

FilesAgree ==
  running /\ ~plan.clean =>
    /\ \A i \in DOMAIN inbound : File(ReceivedKey(inbound[i].id)) =>
         store.files[ReceivedKey(inbound[i].id)].n = inbound[i].n
    /\ \A i \in DOMAIN messageQueue : File(QueueKey(messageQueue[i].seqno)) =>
         store.files[QueueKey(messageQueue[i].seqno)] = messageQueue[i].n

\* between two processes, what the files have of them
FilesHalf ==
  ~running /\ ~plan.clean =>
    /\ \A k \in DOMAIN store.files : k[1] = "r-" => \E i \in DOMAIN pending :
         pending[i].id = k[2] /\ pending[i].n = store.files[k].n /\ pending[i].qos = 2
    /\ \A k \in DOMAIN pending : pending[k].qos = 2 =>
         /\ File(ReceivedKey(pending[k].id)) \/ pending[k].next = "PUBREC" =>
              pending[k].n \notin TakenInFiles
         /\ pending[k].next = "PUBCOMP" /\ ~File(ReceivedKey(pending[k].id)) =>
              pending[k].n \in TakenInFiles
    /\ \A k \in DOMAIN store.files : k[1] = "q-" /\ plan.in[store.files[k]] # 1 =>
         /\ store.files[k] \notin Arrived
         /\ \A l \in DOMAIN store.files : l[1] = "q-" /\ store.files[l] = store.files[k] => k = l

KeptUntilTaken ==
  ~plan.clean =>
    \A n \in 1..sent : plan.in[n] # 0 =>
      \/ \E k \in DOMAIN pending : pending[k].n = n
      \/ IF running THEN n \in Taken ELSE n \in TakenInFiles

Ledger == Half /\ FilesHalf /\ KeptUntilTaken
AInv ==
  /\ OneAtATime /\ AllMeant /\ Connections /\ Exchanged /\ Sent /\ Once /\ Shapes
  /\ FilesAgree /\ Ledger

-----------------------------------------------------------------------------
(* Packets that move                                                        *)

LEMMA AtTypes ==
  ASSUME Typed, NEW a, NEW i, NEW p, At(a, i, p)
  PROVE  /\ a \in Places /\ i \in Nat \ {0}
         /\ p.type \in Requests \cup Answers
         /\ p.type = "PUBLISH" => p.n \in In /\ p.qos \in 0..2 /\ (p.qos # 0 => p.id \in MsgIds)
         /\ p.type # "PUBLISH" => p.id \in MsgIds /\ ~Free(p)
<1>1. a \in Places /\ p.type \in Requests \cup Answers
  BY DEF At, Places
<1>2. i \in Nat \ {0}
  BY DEF At, Typed, EffectsTyped, NetworkTyped
<1>3. p \in Packets(Out) \cup Packets(In) /\ (p.type = "PUBLISH" => p \in Packets(In))
  <2>1. CASE a = "todo"
    <3>1. todo[i] \in Effects /\ todo[i].op = "write" /\ todo[i].packet = p /\ p.type \in Answers
      BY <2>1 DEF At, Typed, EffectsTyped
    <3>2. QED
      BY <3>1, EffectCases DEF Answers
  <2>2. CASE a # "todo"
    BY <2>2 DEF At, Typed, NetworkTyped, Answers
  <2>3. QED
    BY <2>1, <2>2
<1>4. p.id \in 0..MaxMsgId /\ p.qos \in 0..2 /\ (p.type # "PUBLISH" => p.id # 0)
      /\ (p.type = "PUBLISH" => p.n \in In /\ (p.qos # 0 => p.id # 0))
  BY <1>3 DEF Packets
<1>5. p.id # 0 => p.id \in MsgIds
  BY <1>4, MaxMsgIdAssumption DEF MsgIds
<1>6. QED
  BY <1>1, <1>2, <1>4, <1>5 DEF Free

LEMMA NewPlaces ==
  ASSUME Typed', NEW a, NEW i, NEW p, At(a, i, p)'
  PROVE  a \in Places /\ i \in Nat \ {0}
  BY DEF At, Places, Typed, EffectsTyped, NetworkTyped

\* Every packet was at a place before, by d[a] further back, but for one that is new
\* at the place x: what belonged to the same exchange is no longer there.
PacketsMove(d, x, k) ==
  \A a, i, p : At(a, i, p)' =>
    \/ At(a, i + d[a], p)
    \/ /\ a = x /\ i = k
       /\ \A b, j, r : At(b, j, r) /\ Same(p, r) => b \in Places /\ d[b] = 1 /\ j = 1

LEMMA OneAtATimeMoves ==
  ASSUME OneAtATime, Typed', NEW d \in [Places -> {0, 1}], NEW x, NEW k, PacketsMove(d, x, k)
  PROVE  OneAtATime'
<1> SUFFICES ASSUME NEW a, NEW b, NEW i, NEW j, NEW p, NEW q,
                    At(a, i, p)', At(b, j, q)', Same(p, q)
             PROVE  a = b /\ i = j
  BY DEF OneAtATime, Same, Free
<1>1. a \in Places /\ b \in Places /\ i \in Nat \ {0} /\ j \in Nat \ {0}
  BY NewPlaces
<1>2. Same(q, p)
  BY DEF Same
<1> DEFINE New(a1, i1, p1) ==
             /\ a1 = x /\ i1 = k
             /\ \A b1, j1, r : At(b1, j1, r) /\ Same(p1, r) => b1 \in Places /\ d[b1] = 1 /\ j1 = 1
<1>3. At(a, i + d[a], p) \/ New(a, i, p)
  BY DEF PacketsMove
<1>4. At(b, j + d[b], q) \/ New(b, j, q)
  BY DEF PacketsMove
<1>5. CASE At(a, i + d[a], p) /\ At(b, j + d[b], q)
  <2>1. a = b /\ i + d[a] = j + d[b]
    BY <1>5 DEF OneAtATime
  <2>2. d[a] \in {0, 1}
    BY <1>1
  <2>3. QED
    BY <1>1, <2>1, <2>2
<1>6. CASE At(a, i + d[a], p) /\ New(b, j, q)
  <2>1. d[a] = 1 /\ i + d[a] = 1
    BY <1>2, <1>6
  <2>2. QED
    BY <1>1, <2>1
<1>7. CASE New(a, i, p) /\ At(b, j + d[b], q)
  <2>1. d[b] = 1 /\ j + d[b] = 1
    BY <1>7
  <2>2. QED
    BY <1>1, <2>1
<1>8. CASE New(a, i, p) /\ New(b, j, q)
  BY <1>8
<1>9. QED
  BY <1>3, <1>4, <1>5, <1>6, <1>7, <1>8

ShiftOf(q) == [a \in Places |-> IF a = q THEN 1 ELSE 0]

LEMMA Shifts ==
  \A q : /\ ShiftOf(q) \in [Places -> {0, 1}]
         /\ \A a \in Places : /\ a = q => ShiftOf(q)[a] = 1
                              /\ a # q => \A i \in Nat : i + ShiftOf(q)[a] = i
  BY DEF ShiftOf, Places

\* nothing is new: packets stay where they are or go
PacketsStay(d) == \A a, i, p : At(a, i, p)' => At(a, i + d[a], p)

LEMMA StayShift ==
  ASSUME Typed, Typed', NEW q \in Places \cup {""},
         \A i, p : q # "" /\ At(q, i, p)' => At(q, i + 1, p),
         \A a \in Places : \A i, p : a # q /\ At(a, i, p)' => At(a, i, p)
  PROVE  PacketsStay(ShiftOf(q))
<1>1. ASSUME NEW a, NEW i, NEW p, At(a, i, p)' PROVE At(a, i + ShiftOf(q)[a], p)
  <2>1. a \in Places /\ i \in Nat
    BY <1>1, NewPlaces
  <2>2. CASE a = q
    <3>1. q # ""
      BY <2>1, <2>2 DEF Places
    <3>2. ShiftOf(q)[a] = 1
      BY <2>1, <2>2, Shifts
    <3>3. QED
      BY <1>1, <2>2, <3>1, <3>2
  <2>3. CASE a # q
    <3>1. i + ShiftOf(q)[a] = i
      BY <2>1, <2>3, Shifts
    <3>2. At(a, i, p)
      BY <1>1, <2>1, <2>3
    <3>3. QED
      BY <3>1, <3>2
  <2>4. QED
    BY <2>2, <2>3
<1>2. QED
  BY <1>1 DEF PacketsStay

\* the packets of the rest of a queue were one place further back
LEMMA TailPlaces ==
  ASSUME Typed
  PROVE  /\ todo # <<>> /\ todo' = Tail(todo) => \A i, p : At("todo", i, p)' => At("todo", i + 1, p)
         /\ toBroker # <<>> /\ toBroker' = Tail(toBroker) =>
              \A i, p : At("toBroker", i, p)' => At("toBroker", i + 1, p)
         /\ toClient # <<>> /\ toClient' = Tail(toClient) =>
              \A i, p : At("toClient", i, p)' => At("toClient", i + 1, p)
<1>1. /\ todo \in Seq(Effects)
      /\ toBroker \in Seq(Packets(Out)) /\ toClient \in Seq(Packets(In))
  BY DEF Typed, EffectsTyped, NetworkTyped
<1>2. ASSUME todo # <<>>, todo' = Tail(todo), NEW i, NEW p, At("todo", i, p)'
      PROVE  At("todo", i + 1, p)
  <2>1. \A j \in DOMAIN Tail(todo) : j + 1 \in DOMAIN todo /\ Tail(todo)[j] = todo[j + 1]
    BY <1>1, <1>2, Heads
  <2>2. QED
    BY <1>2, <2>1 DEF At
<1>3. ASSUME toBroker # <<>>, toBroker' = Tail(toBroker), NEW i, NEW p, At("toBroker", i, p)'
      PROVE  At("toBroker", i + 1, p)
  <2>1. \A j \in DOMAIN Tail(toBroker) :
          j + 1 \in DOMAIN toBroker /\ Tail(toBroker)[j] = toBroker[j + 1]
    BY <1>1, <1>3, Heads
  <2>2. QED
    BY <1>3, <2>1 DEF At
<1>4. ASSUME toClient # <<>>, toClient' = Tail(toClient), NEW i, NEW p, At("toClient", i, p)'
      PROVE  At("toClient", i + 1, p)
  <2>1. \A j \in DOMAIN Tail(toClient) :
          j + 1 \in DOMAIN toClient /\ Tail(toClient)[j] = toClient[j + 1]
    BY <1>1, <1>4, Heads
  <2>2. QED
    BY <1>4, <2>1 DEF At
<1>5. QED
  BY <1>2, <1>3, <1>4

-----------------------------------------------------------------------------
(* What stays when both sides keep their books                              *)

books == <<plan, running, connected, inbound, pending, sent>>

LEMMA MeantStays ==
  ASSUME UNCHANGED <<plan, pending, sent, Got, Taken>>, NEW p, Meant(p)
  PROVE  Meant(p)'
  BY DEF Meant, Of

LEMMA LedgerStays ==
  ASSUME Ledger, running, UNCHANGED <<books, Taken>>
  PROVE  Ledger'
<1>1. Got' = Got
  BY DEF Got, books
<1>2. Half'
  BY <1>1 DEF Ledger, Half, books
<1>3. FilesHalf'
  BY DEF FilesHalf, books
<1>4. KeptUntilTaken'
  BY DEF Ledger, KeptUntilTaken, books
<1>5. QED
  BY <1>2, <1>3, <1>4 DEF Ledger

\* a step of the client that moves packets and messages and starts nothing
LEMMA Carried ==
  ASSUME Typed, Typed', AInv, running, UNCHANGED <<books, Taken>>, OneAtATime',
         \A a, i, p : At(a, i, p)' => \E b, j : At(b, j, p),
         Shapes', Connections', Sent', Once', FilesAgree'
  PROVE  AInv'
<1>1. AllMeant'
  <2>1. SUFFICES ASSUME NEW a, NEW i, NEW p, At(a, i, p)' PROVE Meant(p)'
    BY DEF AllMeant
  <2>2. Meant(p)
    BY <2>1 DEF AInv, AllMeant
  <2>3. Got' = Got
    BY DEF Got, books
  <2>4. QED
    BY <2>2, <2>3, MeantStays DEF books
<1>2. Exchanged'
  BY DEF AInv, Exchanged, books
<1>3. Ledger'
  BY LedgerStays DEF AInv
<1>4. QED
  BY <1>1, <1>2, <1>3 DEF AInv

LEMMA Moved ==
  ASSUME Typed, Typed', AInv, running, UNCHANGED <<books, Taken>>,
         NEW d \in [Places -> {0, 1}], PacketsStay(d),
         Shapes', Connections', Sent', Once', FilesAgree'
  PROVE  AInv'
<1>1. OneAtATime'
  <2>1. PacketsMove(d, "", 0)
    BY DEF PacketsMove, PacketsStay
  <2>2. QED
    BY <2>1, OneAtATimeMoves DEF AInv
<1>2. QED
  BY <1>1, Carried DEF PacketsStay

\* the files of the messages that come: none is new, none has another content
NoNewFiles ==
  \A k : k[1] \in {"r-", "q-"} /\ File(k)' => File(k) /\ store'.files[k] = store.files[k]

LEMMA FilesAgreeStays ==
  ASSUME FilesAgree, NoNewFiles, UNCHANGED <<plan, running, inbound, messageQueue>>
  PROVE  FilesAgree'
<1>1. \A i : File(ReceivedKey(inbound[i].id))' => /\ File(ReceivedKey(inbound[i].id))
                                                  /\ store'.files[ReceivedKey(inbound[i].id)]
                                                     = store.files[ReceivedKey(inbound[i].id)]
  BY DEF NoNewFiles, ReceivedKey, File
<1>2. \A i : File(QueueKey(messageQueue[i].seqno))' =>
               /\ File(QueueKey(messageQueue[i].seqno))
               /\ store'.files[QueueKey(messageQueue[i].seqno)]
                  = store.files[QueueKey(messageQueue[i].seqno)]
  BY DEF NoNewFiles, QueueKey, File
<1>3. QED
  BY <1>1, <1>2 DEF FilesAgree

LEMMA StillHeld ==
  ASSUME NoNewFiles, Theirs' \subseteq Theirs, OnTheWay' \subseteq OnTheWay \cup Theirs \cup {0},
         InHand' \subseteq InHand \cup OnTheWay, Waiting' \subseteq Waiting \cup Coming,
         Coming' \subseteq Coming \cup InHand \cup OnTheWay
  PROVE  NothingNew
<1>1. ReceivedFiles' \subseteq ReceivedFiles
  BY DEF NoNewFiles, File, ReceivedFiles
<1>2. QueueFiles' \subseteq QueueFiles
  BY DEF NoNewFiles, File, QueueFiles
<1>3. QED
  BY <1>1, <1>2 DEF NothingNew, HeldStill

\* a step that keeps the lists of both sides
LEMMA ListsHeld ==
  ASSUME NoNewFiles, UNCHANGED <<pending, inbound, messageQueue>>,
         OnTheWay' \subseteq OnTheWay \cup {0}, Coming' \subseteq Coming
  PROVE  NothingNew
<1>1. UNCHANGED <<Theirs, InHand, Waiting>>
  BY DEF Theirs, InHand, Waiting
<1>2. QED
  BY <1>1, StillHeld

\* a list and one more
LEMMA Gains ==
  ASSUME NEW S, NEW list \in Seq(S), NEW m \in S
  PROVE  LET more == Append(list, m)
         IN  {more[i].n : i \in DOMAIN more} = {list[i].n : i \in DOMAIN list} \cup {m.n}
<1> DEFINE more == Append(list, m)
<1>1. /\ \A i \in DOMAIN more : (i \in DOMAIN list /\ more[i] = list[i]) \/ more[i] = m
      /\ \A i \in DOMAIN list : i \in DOMAIN more /\ more[i] = list[i]
      /\ \E i \in DOMAIN more : more[i] = m
  BY Appended
<1> HIDE DEF more
<1>2. \A i \in DOMAIN more : more[i].n \in {list[j].n : j \in DOMAIN list} \cup {m.n}
  BY <1>1
<1>3. \A j \in DOMAIN list : list[j].n \in {more[i].n : i \in DOMAIN more}
  BY <1>1
<1>4. m.n \in {more[i].n : i \in DOMAIN more}
  BY <1>1
<1>5. {more[i].n : i \in DOMAIN more} = {list[i].n : i \in DOMAIN list} \cup {m.n}
  BY <1>2, <1>3, <1>4
<1>6. QED
  BY <1>5 DEF more

LEMMA PacketsOnTheWay ==
  ASSUME Typed
  PROVE  /\ toClient' = toClient => OnTheWay' = OnTheWay
         /\ toClient # <<>> /\ toClient' = Tail(toClient) => OnTheWay' \subseteq OnTheWay
         /\ toClient # <<>> => Head(toClient).n \in OnTheWay
         /\ toClient' = <<>> => OnTheWay' = {}
<1>1. toClient \in Seq(Packets(In))
  BY DEF Typed, NetworkTyped
<1>2. ASSUME toClient # <<>>, toClient' = Tail(toClient) PROVE OnTheWay' \subseteq OnTheWay
  <2>1. \A j \in DOMAIN Tail(toClient) : j + 1 \in DOMAIN toClient /\ Tail(toClient)[j] = toClient[j + 1]
    BY <1>1, <1>2, Heads
  <2>2. QED
    BY <1>2, <2>1 DEF OnTheWay
<1>3. ASSUME toClient # <<>> PROVE Head(toClient).n \in OnTheWay
  <2>1. Head(toClient) = toClient[1] /\ 1 \in DOMAIN toClient
    BY <1>1, <1>3, Heads
  <2>2. QED
    BY <2>1 DEF OnTheWay
<1>4. ASSUME toClient' = <<>> PROVE OnTheWay' = {}
  <2> DEFINE none == <<>>
  <2>1. DOMAIN none = {} /\ toClient' = none
    BY <1>4
  <2> HIDE DEF none
  <2>2. QED
    BY <2>1 DEF OnTheWay
<1>5. toClient' = toClient => OnTheWay' = OnTheWay
  BY DEF OnTheWay
<1>6. QED
  BY <1>2, <1>3, <1>4, <1>5

\* ... and that touches no message on its way to the application
LEMMA Aside ==
  ASSUME Typed, Typed', AInv, running, UNCHANGED <<books, messageQueue, arrived, Coming>>,
         NoNewFiles, NEW d \in [Places -> {0, 1}], PacketsStay(d), Shapes', Connections',
         OnTheWay' \subseteq OnTheWay \cup {0}
  PROVE  AInv' /\ NothingNew
<1>1. UNCHANGED <<Waiting, Arrived>>
  BY DEF Waiting, Arrived
<1>2. UNCHANGED Taken
  BY <1>1 DEF Taken
<1>3. Sent'
  <2>1. \A k \in DOMAIN store'.files : k[1] = "q-" => store'.files[k] <= sent'
    BY DEF NoNewFiles, File, AInv, Sent, books
  <2>2. QED
    BY <1>2, <2>1 DEF AInv, Sent, books
<1>4. Once'
  BY <1>1 DEF AInv, Once, books
<1>5. FilesAgree'
  BY FilesAgreeStays DEF AInv, books
<1>6. NothingNew
  BY ListsHeld DEF books
<1>7. QED
  BY <1>2, <1>3, <1>4, <1>5, <1>6, Moved

-----------------------------------------------------------------------------
(* Effects whose place does not matter                                      *)

\* when the first effect is carried out, the others keep their shapes: no file of an
\* inbound message is new that one of them is to remove
LEMMA ShapesTail ==
  ASSUME Typed, Shapes, todo # <<>>, todo' = Tail(todo), plan' = plan,
         \A k : k[1] = "r-" /\ File(k)' /\ HasRemove(k) => File(k)
  PROVE  Shapes'
<1>1. /\ 1 \in DOMAIN todo
      /\ \A j \in DOMAIN todo' : j \in Nat \ {0} /\ j + 1 \in DOMAIN todo /\ todo'[j] = todo[j + 1]
  BY Heads DEF Typed, EffectsTyped
<1>2. SUFFICES ASSUME NEW j \in DOMAIN todo'
               PROVE  /\ todo'[j].op = "deliver" => DeliverPlace(j)'
                      /\ todo'[j].op = "remove" /\ todo'[j].key[1] = "r-" /\ File(todo[j].key)'
                         /\ ~plan.clean => RemovalPlace(j)'
                      /\ todo'[j].op = "remove" /\ todo'[j].key[1] = "q-" => j = 1
                      /\ todo'[j].op = "put" /\ todo'[j].key[1] = "r-" => PutPlace(j)'
  BY DEF Shapes
<1>0. PICK e : e = todo[j + 1]
  OBVIOUS
<1>3. todo'[j] = e /\ e = todo[j + 1] /\ j + 1 \in DOMAIN todo /\ j \in Nat \ {0} /\ j + 1 # 1
  BY <1>0, <1>1
<1>4. /\ e.op = "deliver" => DeliverPlace(j + 1)
      /\ e.op = "remove" /\ e.key[1] = "r-" /\ File(e.key) /\ ~plan.clean => RemovalPlace(j + 1)
      /\ e.op = "remove" => e.key[1] # "q-"
      /\ e.op = "put" => e.key[1] # "r-"
  BY <1>3 DEF Shapes, PutPlace
<1>5. e.op = "remove" => HasRemove(e.key)
  BY <1>3 DEF HasRemove
<1>6. e.op = "deliver" => j = 1
  BY <1>3, <1>4 DEF DeliverPlace
<1>7. ASSUME e.op = "remove", e.key[1] = "r-", File(e.key)', ~plan.clean
      PROVE  j = 1 \/ (j = 2 /\ todo'[1].op = "deliver")
  <2>1. RemovalPlace(j + 1)
    BY <1>4, <1>5, <1>7
  <2>2. j + 1 = 3 => todo'[1] = todo[2]
    <3>1. j + 1 = 3 => j = 2
      BY <1>3
    <3>2. 2 \in DOMAIN todo' => 1 \in DOMAIN todo'
      BY Heads DEF Typed, EffectsTyped
    <3>3. 1 + 1 = 2
      OBVIOUS
    <3>4. QED
      BY <1>1, <3>1, <3>2, <3>3
  <2>3. QED
    BY <1>3, <2>1, <2>2 DEF RemovalPlace
<1>8. QED
  BY <1>3, <1>4, <1>6, <1>7 DEF DeliverPlace, RemovalPlace

\* effects that concern the other direction
IsOutward(e) ==
  \/ e.op = "queue"
  \/ e.op = "write" /\ e.packet.type \in Requests
  \/ e.op \in {"put", "remove"} /\ e.key[1] \in {"c-", "s-", "sc-"}
Outward == {e \in Effects : IsOutward(e)}

LEMMA OutwardEffects ==
  /\ TryQueue \in Outward
  /\ \A p \in Packets(Out) : p.type \in Requests => WriteOf(p) \in Outward
  /\ \A k \in Keys : k[1] \in {"c-", "s-", "sc-"} =>
       /\ RemoveOf(k) \in Outward
       /\ \A c \in OutContents : PutOf(k, c) \in Outward
  BY EffectTypes, EffectForms DEF Outward, IsOutward

LEMMA OutwardWork ==
  ASSUME \A j \in DOMAIN todo' : IsOutward(todo'[j])
  PROVE  Shapes' /\ Coming' = {} /\ \A i, p : ~At("todo", i, p)'
<1>1. ASSUME NEW j \in DOMAIN todo'
      PROVE  /\ todo'[j].op # "deliver"
             /\ todo'[j].op \in {"put", "remove"} => todo'[j].key[1] \notin {"r-", "q-"}
             /\ todo'[j].op = "write" => todo'[j].packet.type \notin Answers
  BY <1>1 DEF IsOutward, Requests, Answers
<1>2. QED
  BY <1>1 DEF Shapes, Coming, At

\* a handler of the other direction
LEMMA OutwardHandler ==
  ASSUME Typed, Typed', AInv, Idle, connected, UNCHANGED <<books, messageQueue, arrived>>,
         UNCHANGED <<link, toBroker>>, NoNewFiles,
         toClient' = toClient \/ (toClient # <<>> /\ toClient' = Tail(toClient)),
         \A j \in DOMAIN todo' : IsOutward(todo'[j])
  PROVE  AInv' /\ NothingNew
<1>1. Shapes' /\ Coming' = {} /\ \A i, p : ~At("todo", i, p)'
  BY OutwardWork
<1>2. Coming = {} /\ running
  <2> DEFINE none == <<>>
  <2>1. DOMAIN none = {}
    OBVIOUS
  <2>2. todo = none
    BY DEF Idle
  <2> HIDE DEF none
  <2>3. QED
    BY <2>1, <2>2 DEF Coming, Idle
<1>3. Connections'
  <2>1. toClient = <<>> => toClient' = <<>>
    OBVIOUS
  <2>2. QED
    BY <2>1 DEF AInv, Connections, books
<1>4. OnTheWay' \subseteq OnTheWay
  BY PacketsOnTheWay
<1>5. CASE toClient' = toClient
  <2>1. PacketsStay(ShiftOf(""))
    <3>1. \A a \in Places : \A i, p : At(a, i, p)' => At(a, i, p)
      BY <1>1, <1>5 DEF At, Places
    <3>2. QED
      BY <3>1, StayShift
  <2>2. QED
    BY <1>1, <1>2, <1>3, <1>4, <2>1, Shifts, Aside
<1>6. CASE toClient # <<>> /\ toClient' = Tail(toClient)
  <2>1. PacketsStay(ShiftOf("toClient"))
    <3>1. \A a \in Places : \A i, p : a # "toClient" /\ At(a, i, p)' => At(a, i, p)
      BY <1>1 DEF At, Places
    <3>2. \A i, p : At("toClient", i, p)' => At("toClient", i + 1, p)
      BY <1>6, TailPlaces
    <3>3. "toClient" \in Places
      BY DEF Places
    <3>4. QED
      BY <3>1, <3>2, <3>3, StayShift
  <2>2. QED
    BY <1>1, <1>2, <1>3, <1>4, <2>1, Shifts, Aside
<1>7. QED
  BY <1>5, <1>6

LEMMA ResendOutward ==
  ASSUME NEW m \in OutMessages
  PROVE  /\ Resend(m) \in Seq(Outward)
         /\ SendPubrel(m) \in Seq(Outward)
<1> DEFINE p1 == PutOf(PubrelKey(m.id), ContentOf(m))
           w1 == WriteOf(Ack("PUBREL", m.id))
           p2 == PutOf(SentKey(m.id), ContentOf(m))
           w2 == WriteOf(PubPacket(ContentOf(m), TRUE))
<1>1. m.id \in MsgIds /\ m.n \in Out /\ m.qos \in {1, 2} /\ m.id \in 0..MaxMsgId /\ m.id # 0
      /\ m.id \in Nat /\ m.n \in Nat
  BY MaxMsgIdAssumption DEF OutMessages, MsgIds, Out
<1>2. p1 \in Outward /\ p2 \in Outward
  <2>1. ContentOf(m) \in OutContents
    BY ContentTypes
  <2>2. PubrelKey(m.id)[1] = "sc-" /\ SentKey(m.id)[1] = "s-"
    BY DEF PubrelKey, SentKey
  <2>3. QED
    BY <1>1, <2>1, <2>2, KeyTypes, OutwardEffects
<1>3. w1 \in Outward
  <2>1. Ack("PUBREL", m.id) \in Packets(Out)
    BY <1>1, PacketTypes
  <2>2. Ack("PUBREL", m.id).type = "PUBREL"
    BY DEF Ack, Packet
  <2>3. QED
    BY <2>1, <2>2, OutwardEffects DEF Requests
<1>4. w2 \in Outward
  <2> DEFINE x == ContentOf(m)
  <2>1. x.id = m.id /\ x.n = m.n /\ x.qos = m.qos
    BY DEF ContentOf
  <2>2. TRUE \in BOOLEAN /\ x.id \in 0..MaxMsgId /\ x.qos \in 0..2 /\ (x.qos # 0 => x.id # 0)
        /\ x.n \in Nat /\ x.n \in Out
    BY <1>1, <2>1
  <2> HIDE DEF x
  <2>3. PubPacket(x, TRUE) \in Packets(Out)
    BY <2>2, PacketTypes
  <2>4. PubPacket(x, TRUE).type = "PUBLISH"
    BY DEF PubPacket, Packet
  <2>5. QED
    BY <2>3, <2>4, OutwardEffects DEF x, Requests
<1>5. SendPubrel(m) = <<p1, w1>>
  BY DEF SendPubrel, ContentOf
<1>6. Resend(m) = IF m.next = "PUBCOMP" THEN SendPubrel(m) ELSE <<p2, w2>>
  BY DEF Resend, ContentOf
<1> HIDE DEF p1, p2, w1, w2
<1>7. QED
  BY <1>2, <1>3, <1>4, <1>5, <1>6

LEMMA ResendsOutward ==
  ASSUME NEW list \in Seq(OutMessages)
  PROVE  Resends(list) \in Seq(Outward)
<1> DEFINE ss == [i \in DOMAIN list |-> Resend(list[i])]
<1>1. ss \in Seq(Seq(Outward))
  <2>1. \A i \in DOMAIN list : Resend(list[i]) \in Seq(Outward)
    BY ResendOutward
  <2>2. DOMAIN list = 1..Len(list) /\ Len(list) \in Nat
    OBVIOUS
  <2>3. QED
    BY <2>1, <2>2
<1>2. QED
  BY <1>1, FlattenType DEF Resends

LEMMA OutwardSequence ==
  ASSUME NEW s \in Seq(Outward)
  PROVE  \A j \in DOMAIN s : IsOutward(s[j])
  BY DEF Outward

-----------------------------------------------------------------------------
(* The steps of the other direction                                         *)

LEMMA NothingNewInStore ==
  ASSUME store' = store
  PROVE  NoNewFiles
  BY DEF NoNewFiles, File

LEMMA PutOther ==
  ASSUME Typed, NEW key, NEW c, key[1] \notin {"r-", "q-"}, store' = PstPut(store, key, c)
  PROVE  NoNewFiles
<1>1. IsDirectory(store)
  BY DEF Typed, StoreTyped
<1>2. /\ DOMAIN store'.files = DOMAIN store.files \cup {key}
      /\ \A k \in DOMAIN store.files : k # key => store'.files[k] = store.files[k]
  BY <1>1, FilesAfterPut
<1>3. QED
  BY <1>2 DEF NoNewFiles, File

LEMMA RemovedNothingNew ==
  ASSUME Typed, NEW key, store' = PstRemove(store, key)
  PROVE  NoNewFiles
<1>1. IsDirectory(store)
  BY DEF Typed, StoreTyped
<1>2. /\ DOMAIN store'.files = DOMAIN store.files \ {key}
      /\ \A k \in DOMAIN store.files : k # key => store'.files[k] = store.files[k]
  BY <1>1, FilesAfterRemove
<1>3. QED
  BY <1>2 DEF NoNewFiles, File

LEMMA NoEffects ==
  ASSUME todo' = <<>>
  PROVE  \A j \in DOMAIN todo' : FALSE
<1> DEFINE none == <<>>
<1>1. DOMAIN none = {}
  OBVIOUS
<1>2. todo' = none
  OBVIOUS
<1> HIDE DEF none
<1>3. QED
  BY <1>1, <1>2

LEMMA PublishArrival ==
  ASSUME Typed, Typed', AInv, Publish
  PROVE  AInv' /\ NothingNew
<1>1. PICK key, c : key[1] = "c-" /\ store' = PstPut(store, key, c)
  <2> DEFINE x == published + 1
             id == IF plan.out[x] = 0 THEN 0 ELSE AssignMsgId
             m == [id |-> id, n |-> x, qos |-> plan.out[x]]
  <2>1. store' = PstPut(store, CommandKey(x), m)
    BY DEF Publish
  <2>2. CommandKey(x)[1] = "c-"
    BY DEF CommandKey
  <2> HIDE DEF m, x
  <2>3. QED
    BY <2>1, <2>2
<1>2. NoNewFiles
  BY <1>1, PutOther
<1>3. /\ Idle /\ connected /\ todo' = <<>>
      /\ UNCHANGED <<books, messageQueue, arrived, link, toBroker, toClient>>
  BY DEF Publish, Idle, books, network, broker
<1>4. QED
  BY <1>2, <1>3, NoEffects, OutwardHandler

LEMMA ProcessCommandArrival ==
  ASSUME Typed, Typed', AInv, ProcessCommand
  PROVE  AInv' /\ NothingNew
<1> DEFINE m == Head(commands)
           w == WriteOf(PubPacket(m, FALSE))
           c == RemoveOf(CommandKey(m.n))
           s == PutOf(SentKey(m.id), m)
           short == <<c>> \o <<w>>
           long == <<c, s>> \o <<w>>
<1>1. /\ Idle /\ connected /\ commands # <<>>
      /\ (m.qos = 0 /\ todo' = short) \/ (m.qos > 0 /\ todo' = long)
      /\ UNCHANGED <<books, messageQueue, arrived, link, toBroker, toClient, store>>
  BY DEF ProcessCommand, books, network, broker
<1>2. plan \in Plans /\ commands \in Seq(CommandContents) /\ m = commands[1] /\ m \in CommandContents
  BY <1>1, Heads DEF Typed, ClientTyped
<1>3. m.n \in Nat /\ m.id \in Nat /\ m.qos \in 0..2 /\ PubPacket(m, FALSE) \in Packets(Out)
      /\ (m.qos # 0 => m \in OutContents)
  <2>1. m.n \in Nat /\ m.id \in Nat /\ m.qos \in 0..2
    BY <1>2, MaxMsgIdAssumption DEF CommandContents, Out
  <2> HIDE DEF m
  <2>2. QED
    BY <1>2, <2>1, MessageTypes
<1> HIDE DEF m
<1>4. w \in Outward
  <2>1. PubPacket(m, FALSE).type = "PUBLISH"
    BY DEF PubPacket, Packet
  <2>2. QED
    BY <1>3, <2>1, OutwardEffects DEF Requests
<1>5. c \in Outward /\ (m.qos # 0 => s \in Outward)
  <2>1. CommandKey(m.n)[1] = "c-" /\ SentKey(m.id)[1] = "s-"
    BY DEF CommandKey, SentKey
  <2>2. QED
    BY <1>3, <2>1, KeyTypes, OutwardEffects
<1> HIDE DEF w, c, s
<1>6. todo' \in Seq(Outward)
  <2>1. <<c>> \in Seq(Outward) /\ <<w>> \in Seq(Outward) /\ (m.qos # 0 => <<c, s>> \in Seq(Outward))
    BY <1>4, <1>5
  <2>2. short \in Seq(Outward) /\ (m.qos # 0 => long \in Seq(Outward))
    BY <2>1
  <2> HIDE DEF short, long
  <2>3. QED
    BY <1>1, <1>3, <2>2
<1>7. QED
  BY <1>1, <1>6, OutwardSequence, NothingNewInStore, OutwardHandler

\* what a handler adds before the message queue is tried
LEMMA ThenQueueOutward ==
  ASSUME NEW s \in Seq(Outward)
  PROVE  s \o <<TryQueue>> \in Seq(Outward)
  BY OutwardEffects, Ended

LEMMA NoOutward == <<>> \in Seq(Outward)
  OBVIOUS

\* the packet is read by a handler of the other direction
LEMMA OutwardRead ==
  ASSUME Typed, Typed', AInv, NEW type, Reading(type), Read, UNCHANGED inbound,
         NEW s \in Seq(Outward), ThenQueue(s)
  PROVE  AInv' /\ NothingNew
<1>1. /\ Idle /\ connected /\ toClient # <<>> /\ toClient' = Tail(toClient)
      /\ UNCHANGED <<books, messageQueue, arrived, link, toBroker, store>>
  BY DEF Reading, Read, books, broker
<1>2. todo' \in Seq(Outward)
  BY ThenQueueOutward DEF ThenQueue
<1>3. QED
  BY <1>1, <1>2, OutwardSequence, NothingNewInStore, OutwardHandler

LEMMA HandleAckArrival ==
  ASSUME Typed, Typed', AInv, NEW type, HandleAck(type)
  PROVE  AInv' /\ NothingNew
<1> DEFINE i == Found(outbound, Head(toClient).id)
           keys == KeysOf(outbound[i])
           rs == [k \in DOMAIN keys |-> RemoveOf(keys[k])]
<1>1. Reading(type) /\ Read /\ UNCHANGED inbound
      /\ ((i # 0 /\ ThenQueue(rs)) \/ ThenQueue(<<>>))
  BY DEF HandleAck
<1>2. outbound \in Seq(OutMessages) /\ (i # 0 => i \in DOMAIN outbound)
  BY FoundProperties DEF Typed, ClientTyped
<1> HIDE DEF i
<1>3. i # 0 => rs \in Seq(Outward)
  <2>1. i # 0 => outbound[i].id \in MsgIds
    BY <1>2 DEF OutMessages
  <2>2. i # 0 => /\ rs \in Seq(Effects)
                 /\ \A j \in DOMAIN rs : rs[j] = RemoveOf(SentKey(outbound[i].id))
                                         \/ rs[j] = RemoveOf(PubrelKey(outbound[i].id))
    BY <2>1, KeysRemoved
  <2> HIDE DEF rs
  <2>3. i # 0 => RemoveOf(SentKey(outbound[i].id)) \in Outward
                 /\ RemoveOf(PubrelKey(outbound[i].id)) \in Outward
    <3>1. SentKey(outbound[i].id)[1] = "s-" /\ PubrelKey(outbound[i].id)[1] = "sc-"
      BY DEF SentKey, PubrelKey
    <3>2. QED
      BY <2>1, <3>1, KeyTypes, OutwardEffects
  <2>4. QED
    BY <2>2, <2>3
<1> HIDE DEF rs
<1>4. QED
  BY <1>1, <1>3, NoOutward, OutwardRead

LEMMA HandlePubrecArrival ==
  ASSUME Typed, Typed', AInv, HandlePubrec
  PROVE  AInv' /\ NothingNew
<1> DEFINE i == Found(outbound, Head(toClient).id)
           rel == [outbound[i] EXCEPT !.next = "PUBCOMP"]
<1>1. Reading("PUBREC") /\ Read /\ UNCHANGED inbound
      /\ ((i # 0 /\ ThenQueue(SendPubrel(outbound[i]))) \/ ThenQueue(<<>>))
  BY DEF HandlePubrec
<1>2. outbound \in Seq(OutMessages) /\ (i # 0 => i \in DOMAIN outbound)
  BY FoundProperties DEF Typed, ClientTyped
<1> HIDE DEF i
<1>3. i # 0 => SendPubrel(outbound[i]) \in Seq(Outward)
  <2>1. i # 0 => outbound[i] \in OutMessages
    BY <1>2
  <2>2. i # 0 => rel.id = outbound[i].id /\ rel.n = outbound[i].n /\ rel.qos = outbound[i].qos
    BY <2>1 DEF OutMessages
  <2>3. QED
    BY <2>1, ResendOutward
<1>4. QED
  BY <1>1, <1>3, NoOutward, OutwardRead

LEMMA HandlePingrespArrival ==
  ASSUME Typed, Typed', AInv, HandlePingresp
  PROVE  AInv' /\ NothingNew
<1> DEFINE e == <<TryQueue>>
<1>1. /\ Idle /\ connected /\ todo' = e
      /\ UNCHANGED <<books, messageQueue, arrived, link, toBroker, toClient, store>>
  BY DEF HandlePingresp, books, memory, network, broker
<1>2. e \in Seq(Outward)
  BY OutwardEffects
<1> HIDE DEF e
<1>3. QED
  BY <1>1, <1>2, OutwardSequence, NothingNewInStore, OutwardHandler

LEMMA RetryArrival ==
  ASSUME Typed, Typed', AInv, Retry
  PROVE  AInv' /\ NothingNew
<1>1. /\ Idle /\ connected
      /\ UNCHANGED <<books, messageQueue, arrived, link, toBroker, toClient, store>>
  BY DEF Retry, books, memory, network, broker
<1>2. PICK i \in DOMAIN outbound : todo' = Resends(SubSeq(outbound, 1, i))
  BY DEF Retry
<1>3. SubSeq(outbound, 1, i) \in Seq(OutMessages)
  <2>1. outbound \in Seq(OutMessages)
    BY DEF Typed, ClientTyped
  <2>2. QED
    BY <2>1
<1>4. todo' \in Seq(Outward)
  BY <1>2, <1>3, ResendsOutward
<1>5. QED
  BY <1>1, <1>4, OutwardSequence, NothingNewInStore, OutwardHandler

-----------------------------------------------------------------------------
(* The effects of a handler                                                 *)

LEMMA ComingTail ==
  ASSUME Typed, todo # <<>>, todo' = Tail(todo)
  PROVE  /\ Head(todo).op # "deliver" => Coming' = Coming
         /\ Shapes /\ Head(todo).op = "deliver" => Coming = {Head(todo).n} /\ Coming' = {}
<1>1. /\ 1 \in DOMAIN todo /\ Head(todo) = todo[1]
      /\ \A j \in DOMAIN todo' : j \in Nat \ {0} /\ j + 1 \in DOMAIN todo /\ todo'[j] = todo[j + 1]
      /\ \A j \in DOMAIN todo : j \in Nat \ {0} /\ (j # 1 => j - 1 \in DOMAIN todo' /\ todo'[j - 1] = todo[j])
  BY Heads DEF Typed, EffectsTyped
<1>2. Coming' \subseteq Coming
  BY <1>1 DEF Coming
<1>3. ASSUME Head(todo).op # "deliver" PROVE Coming \subseteq Coming'
  <2>1. SUFFICES ASSUME NEW j \in DOMAIN todo, todo[j].op = "deliver" PROVE todo[j].n \in Coming'
    BY DEF Coming
  <2>2. j # 1 /\ j - 1 \in DOMAIN todo' /\ todo'[j - 1] = todo[j]
    BY <1>1, <1>3, <2>1
  <2>3. PICK k : k = j - 1
    OBVIOUS
  <2>4. PICK e : e = todo[j]
    OBVIOUS
  <2>5. k \in DOMAIN todo' /\ todo'[k] = e /\ e.op = "deliver"
    BY <2>1, <2>2, <2>3, <2>4
  <2>6. e.n \in Coming'
    BY <2>5 DEF Coming
  <2>7. QED
    BY <2>4, <2>6
<1>4. ASSUME Shapes, Head(todo).op = "deliver"
      PROVE  \A j \in DOMAIN todo : todo[j].op = "deliver" <=> j = 1
  BY <1>1, <1>4 DEF Shapes, DeliverPlace
<1>5. ASSUME Shapes, Head(todo).op = "deliver" PROVE Coming = {Head(todo).n} /\ Coming' = {}
  <2>1. Coming = {Head(todo).n}
    BY <1>1, <1>4, <1>5 DEF Coming
  <2>2. \A j \in DOMAIN todo' : todo'[j].op # "deliver"
    <3>1. SUFFICES ASSUME NEW j \in DOMAIN todo', todo'[j].op = "deliver" PROVE FALSE
      OBVIOUS
    <3>2. j + 1 = 1 /\ j \in Nat \ {0}
      BY <1>1, <1>4, <1>5, <3>1
    <3>3. QED
      BY <3>2
  <2>3. QED
    BY <2>1, <2>2 DEF Coming
<1>6. QED
  BY <1>2, <1>3, <1>5

\* the files stay as they are while an effect is carried out
LEMMA SameFilesTail ==
  ASSUME Typed, Shapes, todo # <<>>, todo' = Tail(todo), plan' = plan, NoNewFiles
  PROVE  Shapes'
<1>1. \A k : k[1] = "r-" /\ File(k)' => File(k)
  BY DEF NoNewFiles
<1>2. QED
  BY <1>1, ShapesTail

\* a step that only does away with the first effect
LEMMA TailStays ==
  ASSUME Typed, Typed', todo # <<>>, todo' = Tail(todo), UNCHANGED <<toBroker, toClient>>
  PROVE  PacketsStay(ShiftOf("todo"))
<1>1. \A i, p : At("todo", i, p)' => At("todo", i + 1, p)
  BY TailPlaces
<1>2. \A a \in Places : \A i, p : a # "todo" /\ At(a, i, p)' => At(a, i, p)
  BY DEF At, Places
<1>3. "todo" \in Places
  BY DEF Places
<1>4. QED
  BY <1>1, <1>2, <1>3, StayShift

LEMMA RemoveKeyArrival ==
  ASSUME Typed, Typed', AInv, RemoveKey
  PROVE  AInv' /\ NothingNew
<1>1. /\ running /\ todo # <<>> /\ Head(todo).op = "remove" /\ todo' = Tail(todo)
      /\ UNCHANGED <<books, messageQueue, arrived, link, toBroker, toClient>>
  BY DEF RemoveKey, Effect, books, memory, network, broker
<1>2. NoNewFiles
  BY RemovedNothingNew DEF RemoveKey
<1>3. Coming' = Coming
  BY <1>1, ComingTail
<1>4. Shapes'
  BY <1>1, <1>2, SameFilesTail DEF AInv, books
<1>5. Connections'
  <2>1. connected
    BY <1>1 DEF AInv, Connections
  <2>2. QED
    BY <1>1, <2>1 DEF AInv, Connections, books
<1>6. PacketsStay(ShiftOf("todo"))
  BY <1>1, TailStays
<1>7. QED
  BY <1>1, <1>2, <1>3, <1>4, <1>5, <1>6, PacketsOnTheWay, Shifts, Aside

LEMMA WriteArrival ==
  ASSUME Typed, Typed', AInv, Write
  PROVE  AInv' /\ NothingNew
<1>1. /\ running /\ todo # <<>> /\ Head(todo).op = "write" /\ todo' = Tail(todo)
      /\ UNCHANGED <<books, messageQueue, arrived, link, toClient, store>>
      /\ toBroker' = IF link THEN Append(toBroker, Head(todo).packet) ELSE toBroker
  BY DEF Write, Effect, books, memory, broker
<1>2. NoNewFiles
  BY <1>1, NothingNewInStore
<1>3. Coming' = Coming
  BY <1>1, ComingTail
<1>4. Shapes'
  BY <1>1, <1>2, SameFilesTail DEF AInv, books
<1>5. connected
  BY <1>1 DEF AInv, Connections
<1>6. Connections'
  BY <1>1, <1>5 DEF AInv, Connections, books
<1>7. CASE ~link
  <2>1. PacketsStay(ShiftOf("todo"))
    BY <1>1, <1>7, TailStays
  <2>2. QED
    BY <1>1, <1>2, <1>3, <1>4, <1>6, <2>1, PacketsOnTheWay, Shifts, Aside
<1>8. CASE link
  <2> DEFINE w == Head(todo).packet
  <2>1. toBroker \in Seq(Packets(Out)) /\ w \in Packets(Out) /\ todo[1] = Head(todo) /\ 1 \in DOMAIN todo
    <3>1. Head(todo) \in Effects
      BY <1>1, TodoTyped
    <3>2. QED
      BY <1>1, <3>1, EffectCases, Heads DEF Typed, EffectsTyped, NetworkTyped
  <2>2. ASSUME NEW i, NEW p, At("toBroker", i, p)'
        PROVE  At("toBroker", i, p) \/ (i = Len(toBroker) + 1 /\ At("todo", 1, p))
    <3>1. \A j \in DOMAIN toBroker' : \/ j \in DOMAIN toBroker /\ toBroker'[j] = toBroker[j]
                                      \/ j = Len(toBroker) + 1 /\ toBroker'[j] = w
      BY <1>1, <1>8, <2>1, Appended
    <3>2. QED
      BY <1>1, <2>1, <2>2, <3>1 DEF At
  <2>3. \A i, p : At("toClient", i, p)' => At("toClient", i, p)
    BY <1>1 DEF At
  <2>4. \A i, p : At("todo", i, p)' => At("todo", i + 1, p)
    BY <1>1, TailPlaces
  <2>5. ASSUME NEW a, NEW i, NEW p, At(a, i, p)'
        PROVE  \/ At(a, i + ShiftOf("todo")[a], p)
               \/ a = "toBroker" /\ i = Len(toBroker) + 1 /\ At("todo", 1, p)
    <3>1. a \in Places /\ i \in Nat
      BY <2>5, NewPlaces
    <3>2. a = "todo" \/ i + ShiftOf("todo")[a] = i
      BY <3>1, Shifts
    <3>3. ShiftOf("todo")["todo"] = 1
      BY Shifts DEF Places
    <3>4. QED
      BY <2>2, <2>3, <2>4, <2>5, <3>1, <3>2, <3>3 DEF Places
  <2>6. OneAtATime'
    <3>1. PacketsMove(ShiftOf("todo"), "toBroker", Len(toBroker) + 1)
      <4>1. ASSUME NEW p, At("todo", 1, p), NEW b, NEW j, NEW r, At(b, j, r), Same(p, r)
            PROVE  b \in Places /\ ShiftOf("todo")[b] = 1 /\ j = 1
        BY <4>1, Shifts DEF AInv, OneAtATime, Places
      <4>2. QED
        BY <2>5, <4>1 DEF PacketsMove
    <3>2. QED
      BY <3>1, Shifts, OneAtATimeMoves DEF AInv
  <2>7. Sent' /\ Once' /\ FilesAgree' /\ UNCHANGED Taken
    <3>1. UNCHANGED <<Waiting, Arrived>>
      BY <1>1 DEF Waiting, Arrived
    <3>2. UNCHANGED Taken
      BY <1>3, <3>1 DEF Taken
    <3>3. QED
      BY <1>1, <1>2, <1>3, <3>1, <3>2, FilesAgreeStays DEF AInv, Sent, Once, books
  <2>8. NothingNew
    BY <1>1, <1>2, <1>3, PacketsOnTheWay, ListsHeld DEF books
  <2>9. QED
    BY <1>1, <1>4, <1>6, <2>5, <2>6, <2>7, <2>8, Carried
<1>9. QED
  BY <1>7, <1>8

LEMMA ShapesStay ==
  ASSUME Shapes, UNCHANGED <<plan, todo, store, pending>>
  PROVE  Shapes'
<1>1. \A j \in DOMAIN todo : DeliverPlace(j) => DeliverPlace(j)'
  BY DEF DeliverPlace, File
<1>2. \A j \in DOMAIN todo : RemovalPlace(j) => RemovalPlace(j)'
  BY DEF RemovalPlace
<1>3. \A j \in DOMAIN todo : PutPlace(j) => PutPlace(j)'
  BY DEF PutPlace
<1>4. \A k : File(k)' <=> File(k)
  BY DEF File
<1>5. QED
  BY <1>1, <1>2, <1>3, <1>4 DEF Shapes

\* the connection carries packets while the process runs
LEMMA LinkUp ==
  ASSUME Connections, Resting, link \/ toBroker # <<>> \/ toClient # <<>>
  PROVE  link /\ connected /\ running
  BY DEF Connections, Resting

LEMMA DropArrival ==
  ASSUME Typed, Typed', Session, AInv, Drop
  PROVE  AInv' /\ NothingNew
<1>1. /\ link /\ toBroker' = <<>> /\ toClient' = <<>>
      /\ UNCHANGED <<books, messageQueue, arrived, todo, store>>
  BY DEF Drop, Broken, books, memory, broker
<1>2. connected /\ running
  BY <1>1, LinkUp DEF AInv, Session
<1>3. NoNewFiles
  BY <1>1, NothingNewInStore
<1>4. Shapes'
  BY <1>1, ShapesStay DEF AInv, books
<1>5. Connections'
  BY <1>1, <1>2 DEF Connections, books
<1>6. PacketsStay(ShiftOf(""))
  <2>1. \A a \in Places : \A i, p : At(a, i, p)' => At(a, i, p)
    <3> DEFINE none == <<>>
    <3>1. DOMAIN none = {}
      OBVIOUS
    <3>2. toBroker' = none /\ toClient' = none
      BY <1>1
    <3> HIDE DEF none
    <3>3. QED
      BY <1>1, <3>1, <3>2 DEF At, Places
  <2>2. QED
    BY <2>1, StayShift
<1>7. Coming' = Coming
  BY <1>1 DEF Coming
<1>8. QED
  BY <1>1, <1>2, <1>3, <1>4, <1>5, <1>6, <1>7, PacketsOnTheWay, Shifts, Aside

\* an answer of the broker carries no message
LEMMA AnswersOnTheWay ==
  ASSUME Typed, NEW ps, ps = <<>> \/ \E q \in Packets(In) : q.n = 0 /\ ps = <<q>>,
         toClient' = toClient \o ps
  PROVE  OnTheWay' \subseteq OnTheWay \cup {0}
<1>1. toClient \in Seq(Packets(In))
  BY DEF Typed, NetworkTyped
<1>2. CASE ps = <<>>
  <2>1. toClient' = toClient
    BY <1>1, <1>2
  <2>2. QED
    BY <2>1, PacketsOnTheWay
<1>3. CASE ps # <<>>
  <2>1. PICK q \in Packets(In) : q.n = 0 /\ ps = <<q>>
    BY <1>3
  <2>2. \A i \in DOMAIN toClient' : (i \in DOMAIN toClient /\ toClient'[i] = toClient[i]) \/ toClient'[i] = q
    BY <1>1, <2>1, Ended
  <2>3. QED
    BY <2>1, <2>2 DEF OnTheWay
<1>4. QED
  BY <1>2, <1>3

\* the broker reads a packet of the other direction and answers it
LEMMA BrokerOutward ==
  ASSUME Typed, Typed', Session, AInv, toBroker # <<>>, NEW ps, BrokerAnswers(ps), pending' = pending,
         ps = <<>> \/ \E q \in Packets(In) : q.type \in Answers /\ q.n = 0 /\ ps = <<q>>
  PROVE  AInv' /\ NothingNew
<1>1. /\ toBroker' = Tail(toBroker) /\ toClient' = toClient \o ps
      /\ UNCHANGED <<books, messageQueue, arrived, todo, store, link>>
  BY DEF BrokerAnswers, books, memory
<1>2. link /\ connected /\ running
  BY LinkUp DEF AInv, Session
<1>3. NoNewFiles
  BY <1>1, NothingNewInStore
<1>4. Shapes'
  BY <1>1, ShapesStay DEF AInv, books
<1>5. Connections'
  BY <1>1, <1>2 DEF Connections, books
<1>6. PacketsStay(ShiftOf("toBroker"))
  <2>1. toClient \in Seq(Packets(In))
    BY DEF Typed, NetworkTyped
  <2>2. ASSUME NEW i, NEW p, At("toClient", i, p)' PROVE At("toClient", i, p)
    <3>1. i \in DOMAIN toClient' /\ toClient'[i] = p /\ p.type \in Requests
      BY <2>2 DEF At
    <3>2. CASE ps = <<>>
      <4>1. toClient' = toClient
        BY <1>1, <2>1, <3>2
      <4>2. QED
        BY <2>2, <4>1 DEF At
    <3>3. CASE ps # <<>>
      <4>1. PICK q \in Packets(In) : q.type \in Answers /\ ps = <<q>>
        BY <3>3
      <4>2. (i \in DOMAIN toClient /\ p = toClient[i]) \/ p = q
        BY <1>1, <2>1, <3>1, <4>1, Ended
      <4>3. QED
        BY <3>1, <4>1, <4>2 DEF At, Answers, Requests
    <3>4. QED
      BY <3>2, <3>3
  <2>3. \A i, p : At("toBroker", i, p)' => At("toBroker", i + 1, p)
    BY <1>1, TailPlaces
  <2>4. \A i, p : At("todo", i, p)' => At("todo", i, p)
    BY <1>1 DEF At
  <2>5. \A a \in Places : \A i, p : a # "toBroker" /\ At(a, i, p)' => At(a, i, p)
    BY <2>2, <2>4 DEF Places
  <2>6. QED
    BY <2>3, <2>5, StayShift DEF Places
<1>7. Coming' = Coming
  BY <1>1 DEF Coming
<1>8. OnTheWay' \subseteq OnTheWay \cup {0}
  BY <1>1, AnswersOnTheWay
<1>9. QED
  BY <1>1, <1>2, <1>3, <1>4, <1>5, <1>6, <1>7, <1>8, Shifts, Aside

LEMMA BrokerPublishArrival ==
  ASSUME Typed, Typed', Session, AInv, BrokerPublish
  PROVE  AInv' /\ NothingNew
<1> DEFINE p == Head(toBroker)
           q == Ack(AnswerTo(p.qos), p.id)
           one == <<q>>
           ps == IF p.qos = 0 THEN <<>> ELSE one
<1>1. toBroker # <<>> /\ p.type = "PUBLISH" /\ BrokerAnswers(ps) /\ pending' = pending
  BY DEF BrokerPublish, BrokerReads
<1>2. p.qos \in 0..2 /\ (p.qos # 0 => p.id \in MsgIds)
  BY <1>1, PacketSent
<1>3. p.qos # 0 => q \in Packets(In) /\ q.type \in Answers /\ q.n = 0
  <2>1. AnswerTo(p.qos) \in Answers
    BY DEF AnswerTo, Answers
  <2>2. QED
    BY <1>2, <2>1, PacketTypes DEF Ack, Packet
<1> HIDE DEF q
<1>4. ps = <<>> \/ \E x \in Packets(In) : x.type \in Answers /\ x.n = 0 /\ ps = <<x>>
  BY <1>3
<1> HIDE DEF ps
<1>5. QED
  BY <1>1, <1>4, BrokerOutward

LEMMA BrokerPubrelArrival ==
  ASSUME Typed, Typed', Session, AInv, BrokerPubrel
  PROVE  AInv' /\ NothingNew
<1> DEFINE q == Ack("PUBCOMP", Head(toBroker).id)
           ps == <<q>>
<1>1. toBroker # <<>> /\ BrokerAnswers(ps) /\ pending' = pending /\ Head(toBroker).type = "PUBREL"
  BY DEF BrokerPubrel, BrokerReads
<1>2. q \in Packets(In) /\ q.type \in Answers /\ q.n = 0
  <2>1. Head(toBroker).id \in MsgIds
    BY <1>1, PacketSent
  <2>2. "PUBCOMP" \in Answers
    BY DEF Answers
  <2>3. QED
    BY <2>1, <2>2, PacketTypes DEF Ack, Packet
<1> HIDE DEF q
<1>3. \E x \in Packets(In) : x.type \in Answers /\ x.n = 0 /\ ps = <<x>>
  BY <1>2
<1> HIDE DEF ps
<1>4. QED
  BY <1>1, <1>3, BrokerOutward

LEMMA ArrivedTakes ==
  ASSUME Typed, NEW n, AppTakes(n)
  PROVE  Arrived' = Arrived \cup {n}
<1>1. arrived \in Seq(In \cup {n}) /\ arrived' = Append(arrived, n)
  BY DEF Typed, NetworkTyped, AppTakes
<1>2. \A i \in DOMAIN arrived' : arrived'[i] \in Arrived \cup {n}
  BY <1>1, Appended DEF Arrived
<1>3. \A i \in DOMAIN arrived : i \in DOMAIN arrived' /\ arrived'[i] = arrived[i]
  BY <1>1, Appended
<1>4. \E i \in DOMAIN arrived' : arrived'[i] = n
  BY <1>1, Appended
<1>5. Arrived \subseteq Arrived' /\ n \in Arrived'
  BY <1>3, <1>4 DEF Arrived
<1>6. QED
  BY <1>2, <1>5 DEF Arrived

\* the application takes the first message of the queue
LEMMA QueueTaken ==
  ASSUME Typed, Typed', AInv, running, messageQueue # <<>>, messageQueue' = Tail(messageQueue),
         AppTakes(Head(messageQueue).n), Coming' = Coming,
         UNCHANGED <<plan, running, connected, inbound, sent, store>>
  PROVE  UNCHANGED Taken /\ Sent' /\ Once' /\ FilesAgree'
<1> DEFINE h == Head(messageQueue)
<1>1. /\ h = messageQueue[1] /\ 1 \in DOMAIN messageQueue
      /\ \A j \in DOMAIN messageQueue' : /\ j \in Nat \ {0} /\ j + 1 \in DOMAIN messageQueue
                                         /\ messageQueue'[j] = messageQueue[j + 1]
      /\ \A j \in DOMAIN messageQueue :
           j # 1 => j - 1 \in DOMAIN messageQueue' /\ messageQueue'[j - 1] = messageQueue[j]
  <2>1. messageQueue \in Seq(Entries)
    BY DEF Typed, ClientTyped
  <2>2. QED
    BY <2>1, Heads
<1>2. Waiting = Waiting' \cup {h.n}
  <2>1. Waiting' \subseteq Waiting /\ h.n \in Waiting
    BY <1>1 DEF Waiting
  <2>2. ASSUME NEW j \in DOMAIN messageQueue PROVE messageQueue[j].n \in Waiting' \cup {h.n}
    <3>1. PICK k, e : k = j - 1 /\ e = messageQueue[j]
      OBVIOUS
    <3>2. j # 1 => k \in DOMAIN messageQueue' /\ messageQueue'[k] = e
      BY <1>1, <3>1
    <3>3. j # 1 => e.n \in Waiting'
      BY <3>2 DEF Waiting
    <3>4. QED
      BY <1>1, <3>1, <3>3
  <2>3. QED
    BY <2>1, <2>2 DEF Waiting
<1>3. Arrived' = Arrived \cup {h.n}
  BY ArrivedTakes
<1>4. UNCHANGED Taken
  BY <1>2, <1>3 DEF Taken
<1>5. Sent'
  BY <1>4 DEF AInv, Sent
<1>6. Once'
  <2>1. SUFFICES ASSUME running /\ (connected \/ ~plan.clean)
                 PROVE  /\ \A i, j \in DOMAIN messageQueue' :
                             plan.in[messageQueue'[i].n] # 1 /\ messageQueue'[i].n = messageQueue'[j].n
                               => i = j
                        /\ \A n \in Waiting' : plan.in[n] # 1 => n \notin Arrived'
                        /\ \A n \in Coming : plan.in[n] # 1 => n \notin Arrived' \cup Waiting'
    BY DEF Once
  <2>2. /\ \A i, j \in DOMAIN messageQueue :
             plan.in[messageQueue[i].n] # 1 /\ messageQueue[i].n = messageQueue[j].n => i = j
        /\ \A n \in Waiting : plan.in[n] # 1 => n \notin Arrived
        /\ \A n \in Coming : plan.in[n] # 1 => n \notin Arrived \cup Waiting
    BY <2>1 DEF AInv, Once
  <2>3. ASSUME NEW i \in DOMAIN messageQueue', NEW j \in DOMAIN messageQueue',
               plan.in[messageQueue'[i].n] # 1, messageQueue'[i].n = messageQueue'[j].n
        PROVE  i = j
    <3>1. i + 1 = j + 1
      BY <1>1, <2>2, <2>3
    <3>2. QED
      BY <1>1, <3>1
  <2>4. ASSUME NEW i \in DOMAIN messageQueue', plan.in[messageQueue'[i].n] # 1
        PROVE  messageQueue'[i].n # h.n
    <3>1. messageQueue'[i].n = h.n => i + 1 = 1 /\ i \in Nat \ {0}
      BY <1>1, <2>2, <2>4
    <3>2. QED
      BY <3>1
  <2>5. \A n \in Waiting' : plan.in[n] # 1 => n # h.n
    BY <2>4 DEF Waiting
  <2>6. QED
    BY <1>2, <1>3, <2>2, <2>3, <2>5
<1>7. FilesAgree'
  <2>1. SUFFICES ASSUME ~plan.clean
                 PROVE  /\ \A i \in DOMAIN inbound : File(ReceivedKey(inbound[i].id)) =>
                             store.files[ReceivedKey(inbound[i].id)].n = inbound[i].n
                        /\ \A i \in DOMAIN messageQueue' : File(QueueKey(messageQueue'[i].seqno)) =>
                             store.files[QueueKey(messageQueue'[i].seqno)] = messageQueue'[i].n
    BY DEF FilesAgree, File
  <2>2. QED
    BY <1>1, <2>1 DEF AInv, FilesAgree
<1>8. QED
  BY <1>4, <1>5, <1>6, <1>7

LEMMA TryMessageQueueArrival ==
  ASSUME Typed, Typed', AInv, TryMessageQueue
  PROVE  AInv' /\ NothingNew
<1>1. /\ running /\ todo # <<>> /\ Head(todo).op = "queue"
      /\ UNCHANGED <<books, link, toBroker, toClient, store>>
  BY DEF TryMessageQueue, Effect, books, network, broker
<1>2. NoNewFiles
  BY <1>1, NothingNewInStore
<1>3. Connections'
  BY <1>1 DEF AInv, Connections, books
<1>4. CASE todo' = Tail(todo) /\ UNCHANGED <<messageQueue, arrived>>
  <2>1. Coming' = Coming
    BY <1>1, <1>4, ComingTail
  <2>2. Shapes'
    BY <1>1, <1>2, <1>4, SameFilesTail DEF AInv, books
  <2>3. PacketsStay(ShiftOf("todo"))
    BY <1>1, <1>4, TailStays
  <2>4. QED
    BY <1>1, <1>2, <1>3, <1>4, <2>1, <2>2, <2>3, PacketsOnTheWay, Shifts, Aside
<1>5. CASE /\ messageQueue # <<>> /\ AppTakes(Head(messageQueue).n)
           /\ messageQueue' = Tail(messageQueue)
           /\ todo' = <<RemoveOf(QueueKey(Head(messageQueue).seqno))>> \o Tail(todo)
  <2> DEFINE e == RemoveOf(QueueKey(Head(messageQueue).seqno))
  <2>1. e \in Effects /\ e.op = "remove" /\ e.key[1] = "q-"
    <3>1. Head(messageQueue).seqno \in Nat
      BY <1>5, QueueTypes, Heads
    <3>2. QED
      BY <3>1, KeyTypes, EffectTypes, EffectForms DEF QueueKey
  <2> HIDE DEF e
  <2>2. todo' = <<e>> \o Tail(todo)
    BY <1>5 DEF e
  <2>3. /\ 1 \in DOMAIN todo' /\ todo'[1] = e
        /\ \A j \in DOMAIN todo' : j # 1 => j \in DOMAIN todo /\ todo'[j] = todo[j]
    BY <1>1, <2>1, <2>2, AfterReplaced
  <2>4. todo \in Seq(Effects) /\ todo[1] = Head(todo) /\ todo' \in Seq(Effects) /\ e \in Effects
        /\ Tail(todo) \in Seq(Effects)
    <3>1. todo \in Seq(Effects)
      BY DEF Typed, EffectsTyped
    <3>2. Tail(todo) \in Seq(Effects) /\ Head(todo) = todo[1]
      BY <1>1, TodoTyped
    <3>3. QED
      BY <2>1, <2>2, <3>1, <3>2, Joined
  <2>5. \A j \in DOMAIN todo' : j # 1 =>
          /\ todo[j].op = "deliver" => FALSE
          /\ todo[j].op = "remove" /\ todo[j].key[1] = "r-" /\ ~plan.clean => ~File(todo[j].key)
          /\ todo[j].op = "remove" => todo[j].key[1] # "q-"
          /\ todo[j].op = "put" => todo[j].key[1] # "r-"
    BY <1>1, <2>3, <2>4 DEF AInv, Shapes, DeliverPlace, RemovalPlace, PutPlace
  <2>6. Coming' = Coming
    <3>1. \A j \in DOMAIN todo' : todo'[j].op # "deliver"
      BY <2>1, <2>3, <2>5
    <3>2. \A j \in DOMAIN todo : todo[j].op # "deliver"
      BY <1>1, <2>4 DEF AInv, Shapes, DeliverPlace
    <3>3. QED
      BY <3>1, <3>2 DEF Coming
  <2>7. Shapes'
    <3>1. plan' = plan /\ \A k : File(k)' <=> File(k)
      BY <1>1 DEF File, books
    <3>2. ASSUME NEW j \in DOMAIN todo'
          PROVE  /\ todo'[j].op # "deliver"
                 /\ todo'[j].op = "remove" /\ todo'[j].key[1] = "r-" /\ ~plan.clean =>
                      ~File(todo'[j].key)
                 /\ todo'[j].op = "remove" /\ todo'[j].key[1] = "q-" => j = 1
                 /\ todo'[j].op = "put" => todo'[j].key[1] # "r-"
      BY <2>1, <2>3, <2>5
    <3>3. \A j \in DOMAIN todo' : File(todo'[j].key) <=> File(todo[j].key)'
      BY <1>1 DEF File
    <3>4. QED
      BY <3>1, <3>2, <3>3 DEF Shapes
  <2>8. PacketsStay(ShiftOf(""))
    <3>1. \A i, p : At("todo", i, p)' => At("todo", i, p)
      BY <2>1, <2>3 DEF At
    <3>2. \A a \in Places : \A i, p : At(a, i, p)' => At(a, i, p)
      BY <1>1, <3>1 DEF At, Places
    <3>3. QED
      BY <3>2, StayShift
  <2>9. UNCHANGED Taken /\ Sent' /\ Once' /\ FilesAgree'
    BY <1>1, <1>5, <2>6, QueueTaken DEF books
  <2>10. NothingNew
    <3>1. \A k \in DOMAIN messageQueue' : k + 1 \in DOMAIN messageQueue /\ messageQueue'[k] = messageQueue[k + 1]
      BY <1>5, QueueTypes, Heads
    <3>2. Waiting' \subseteq Waiting
      BY <3>1 DEF Waiting
    <3>3. UNCHANGED <<Theirs, InHand, OnTheWay>>
      BY <1>1 DEF Theirs, InHand, OnTheWay, books
    <3>4. QED
      BY <1>2, <2>6, <3>2, <3>3, StillHeld
  <2>11. QED
    BY <1>1, <1>3, <2>7, <2>8, <2>9, <2>10, Shifts, Moved
<1>6. QED
  BY <1>4, <1>5 DEF TryMessageQueue, AppRefuses

LEMMA PutArrival ==
  ASSUME Typed, Typed', Session, AInv, Put
  PROVE  AInv' /\ NothingNew
<1> DEFINE key == Head(todo).key
           c == Head(todo).content
<1>1. /\ running /\ todo # <<>> /\ Head(todo).op = "put" /\ todo' = Tail(todo)
      /\ UNCHANGED <<books, messageQueue, arrived, link, toBroker, toClient>>
      /\ store' = PstPut(store, key, c)
  BY DEF Put, Effect, books, memory, network, broker
<1>2. /\ key[1] = "r-" => \E i \in DOMAIN inbound :
                            key = ReceivedKey(inbound[i].id) /\ c = ReceivedOf(inbound[i])
      /\ key[1] = "q-" => \E i \in DOMAIN messageQueue :
                            key = QueueKey(messageQueue[i].seqno) /\ c = messageQueue[i].n
  BY <1>1, PutFirst
<1> HIDE DEF key, c
<1>3. /\ DOMAIN store'.files = DOMAIN store.files \cup {key} /\ store'.files[key] = c
      /\ \A k \in DOMAIN store.files : k # key => store'.files[k] = store.files[k]
  BY <1>1, FilesAfterPut DEF Typed, StoreTyped
<1>4. UNCHANGED <<Coming, Waiting, Arrived, Taken>>
  <2>1. Coming' = Coming
    BY <1>1, ComingTail
  <2>2. UNCHANGED <<Waiting, Arrived>>
    BY <1>1 DEF Waiting, Arrived
  <2>3. QED
    BY <2>1, <2>2 DEF Taken
<1>5. Shapes'
  <2>1. ASSUME NEW k, k[1] = "r-", File(k)', HasRemove(k) PROVE File(k)
    <3>1. k # key
      <4>1. PICK j \in DOMAIN todo : todo[j].op = "remove" /\ todo[j].key = k
        BY <2>1 DEF HasRemove
      <4>2. \A i \in DOMAIN inbound : inbound[i].id # k[2]
        BY <2>1, <4>1 DEF Session, RemovalsKnown, RemovalKnown
      <4>3. QED
        BY <1>2, <2>1, <4>2 DEF ReceivedKey
    <3>2. QED
      BY <1>3, <2>1, <3>1 DEF File
  <2>2. QED
    BY <1>1, <2>1, ShapesTail DEF AInv, books
<1>6. Connections'
  BY <1>1 DEF AInv, Connections, books
<1>7. PacketsStay(ShiftOf("todo"))
  BY <1>1, TailStays
<1>8. Sent'
  <2>1. key[1] = "q-" => c <= sent
    BY <1>2 DEF AInv, Sent, Taken, Waiting
  <2>2. QED
    BY <1>1, <1>3, <1>4, <2>1 DEF AInv, Sent, books
<1>9. Once'
  BY <1>1, <1>4 DEF AInv, Once, books
<1>10. FilesAgree'
  <2>1. SUFFICES ASSUME ~plan.clean
                 PROVE  /\ \A i \in DOMAIN inbound : File(ReceivedKey(inbound[i].id))' =>
                             store'.files[ReceivedKey(inbound[i].id)].n = inbound[i].n
                        /\ \A i \in DOMAIN messageQueue : File(QueueKey(messageQueue[i].seqno))' =>
                             store'.files[QueueKey(messageQueue[i].seqno)] = messageQueue[i].n
    BY <1>1 DEF FilesAgree, File, books
  <2>2. ASSUME NEW i \in DOMAIN inbound, File(ReceivedKey(inbound[i].id))'
        PROVE  store'.files[ReceivedKey(inbound[i].id)].n = inbound[i].n
    <3>1. CASE ReceivedKey(inbound[i].id) = key
      <4>1. PICK j \in DOMAIN inbound : key = ReceivedKey(inbound[j].id) /\ c = ReceivedOf(inbound[j])
        BY <1>2, <3>1 DEF ReceivedKey
      <4>2. inbound[j].id = inbound[i].id
        BY <3>1, <4>1 DEF ReceivedKey
      <4>3. j = i
        BY <4>2 DEF Session, Listed
      <4>4. QED
        BY <1>3, <3>1, <4>1, <4>3 DEF ReceivedOf
    <3>2. CASE ReceivedKey(inbound[i].id) # key
      BY <1>1, <1>3, <2>1, <2>2, <3>2 DEF AInv, FilesAgree, File, books
    <3>3. QED
      BY <3>1, <3>2
  <2>3. ASSUME NEW i \in DOMAIN messageQueue, File(QueueKey(messageQueue[i].seqno))'
        PROVE  store'.files[QueueKey(messageQueue[i].seqno)] = messageQueue[i].n
    <3>1. CASE QueueKey(messageQueue[i].seqno) = key
      <4>1. PICK j \in DOMAIN messageQueue :
              key = QueueKey(messageQueue[j].seqno) /\ c = messageQueue[j].n
        BY <1>2, <3>1 DEF QueueKey
      <4>2. messageQueue[j].seqno = messageQueue[i].seqno
        BY <3>1, <4>1 DEF QueueKey
      <4>3. j = i
        <5>1. \A k \in DOMAIN messageQueue : k \in Nat /\ messageQueue[k].seqno \in Nat
          BY QueueTypes
        <5>2. ~(i < j) /\ ~(j < i)
          BY <4>2, <5>1 DEF Session, Listed
        <5>3. QED
          BY <5>1, <5>2
      <4>4. QED
        BY <1>3, <3>1, <4>1, <4>3
    <3>2. CASE QueueKey(messageQueue[i].seqno) # key
      BY <1>1, <1>3, <2>1, <2>3, <3>2 DEF AInv, FilesAgree, File
    <3>3. QED
      BY <3>1, <3>2
  <2>4. QED
    BY <2>2, <2>3
<1>11. NothingNew
  <2>1. key[1] = "r-" => c.n \in InHand
    BY <1>2 DEF InHand, ReceivedOf
  <2>2. key[1] = "q-" => c \in Waiting
    BY <1>2 DEF Waiting
  <2>3. ReceivedFiles' \subseteq ReceivedFiles \cup InHand
    BY <1>3, <2>1 DEF ReceivedFiles
  <2>4. QueueFiles' \subseteq QueueFiles \cup Waiting
    BY <1>3, <2>2 DEF QueueFiles
  <2>5. UNCHANGED <<Theirs, InHand, OnTheWay>>
    BY <1>1 DEF Theirs, InHand, OnTheWay, books
  <2>6. QED
    BY <1>4, <2>3, <2>4, <2>5 DEF NothingNew, HeldStill
<1>12. QED
  BY <1>1, <1>4, <1>5, <1>6, <1>7, <1>8, <1>9, <1>10, <1>11, Shifts, Moved

\* nothing else is on its way while a message is delivered
LEMMA DeliveredFirst ==
  ASSUME Typed, AInv, todo # <<>>, Head(todo).op = "deliver"
  PROVE  /\ Coming = {Head(todo).n} /\ Head(todo).n \in In
         /\ \A j \in DOMAIN todo : j # 1 =>
              /\ todo[j].op # "deliver"
              /\ todo[j].op = "remove" /\ todo[j].key[1] = "r-" /\ File(todo[j].key) /\ ~plan.clean =>
                   j = 2
              /\ todo[j].op = "remove" => todo[j].key[1] # "q-"
              /\ todo[j].op = "put" => todo[j].key[1] # "r-"
<1>1. /\ 1 \in DOMAIN todo /\ Head(todo) = todo[1] /\ Head(todo) \in Effects
  BY TodoTyped, Heads DEF Typed, EffectsTyped
<1>2. \A j \in DOMAIN todo : j # 1 =>
              /\ todo[j].op # "deliver"
              /\ todo[j].op = "remove" /\ todo[j].key[1] = "r-" /\ File(todo[j].key) /\ ~plan.clean =>
                   j = 2
              /\ todo[j].op = "remove" => todo[j].key[1] # "q-"
              /\ todo[j].op = "put" => todo[j].key[1] # "r-"
  BY <1>1 DEF AInv, Shapes, DeliverPlace, RemovalPlace, PutPlace
<1>3. Coming = {Head(todo).n}
  BY <1>1, <1>2 DEF Coming
<1>4. QED
  BY <1>1, <1>2, <1>3, EffectCases

LEMMA DeliverTaken ==
  ASSUME Typed, Typed', Session, AInv, Deliver, messageQueue = <<>>, AppTakes(Head(todo).n),
         todo' = Tail(todo), UNCHANGED messageQueue
  PROVE  AInv' /\ NothingNew
<1> DEFINE n == Head(todo).n
<1>1. /\ running /\ todo # <<>> /\ Head(todo).op = "deliver"
      /\ UNCHANGED <<books, link, toBroker, toClient, store>>
  BY DEF Deliver, Effect, books, network, broker
<1>2. NoNewFiles
  BY <1>1, NothingNewInStore
<1>3. Coming = {n} /\ Coming' = {} /\ Arrived' = Arrived \cup {n} /\ Waiting' = Waiting
  BY <1>1, ComingTail, ArrivedTakes DEF AInv, Waiting
<1>4. UNCHANGED Taken
  BY <1>3 DEF Taken
<1>5. Shapes'
  BY <1>1, <1>2, SameFilesTail DEF AInv, books
<1>6. Connections'
  BY <1>1 DEF AInv, Connections, books
<1>7. PacketsStay(ShiftOf("todo"))
  BY <1>1, TailStays
<1>8. Sent' /\ FilesAgree'
  BY <1>1, <1>2, <1>4, FilesAgreeStays DEF AInv, Sent, books
<1>9. Once'
  <2> DEFINE none == <<>>
  <2>1. messageQueue' = none
    OBVIOUS
  <2>2. DOMAIN none = {}
    OBVIOUS
  <2> HIDE DEF none
  <2>3. DOMAIN messageQueue' = {} /\ Waiting' = {}
    BY <2>1, <2>2 DEF Waiting
  <2>4. QED
    BY <1>3, <2>3 DEF Once
<1>10. NothingNew
  BY <1>1, <1>2, <1>3, PacketsOnTheWay, ListsHeld DEF books
<1>11. QED
  BY <1>1, <1>4, <1>5, <1>6, <1>7, <1>8, <1>9, <1>10, Shifts, Moved

LEMMA DeliverQueued ==
  ASSUME Typed, Typed', Session, AInv, Deliver, UNCHANGED arrived,
         qentrySeqno' = qentrySeqno + 1,
         messageQueue' = Append(messageQueue, [seqno |-> qentrySeqno + 1, n |-> Head(todo).n]),
         todo' = <<PutOf(QueueKey(qentrySeqno + 1), Head(todo).n)>> \o Tail(todo)
  PROVE  AInv' /\ NothingNew
<1> DEFINE n == Head(todo).n
           q == [seqno |-> qentrySeqno + 1, n |-> n]
           e == PutOf(QueueKey(qentrySeqno + 1), n)
<1>1. /\ running /\ todo # <<>> /\ Head(todo).op = "deliver"
      /\ UNCHANGED <<books, link, toBroker, toClient, store>>
  BY DEF Deliver, Effect, books, network, broker
<1>2. /\ Coming = {n} /\ n \in In
      /\ \A j \in DOMAIN todo : j # 1 =>
              /\ todo[j].op # "deliver"
              /\ todo[j].op = "remove" /\ todo[j].key[1] = "r-" /\ File(todo[j].key) /\ ~plan.clean =>
                   j = 2
              /\ todo[j].op = "remove" => todo[j].key[1] # "q-"
              /\ todo[j].op = "put" => todo[j].key[1] # "r-"
  BY <1>1, DeliveredFirst
<1>3. e \in Effects /\ e.op = "put" /\ e.key = QueueKey(qentrySeqno + 1) /\ e.key[1] = "q-"
  BY <1>2, QueueTypes, KeyTypes, EffectTypes, EffectForms DEF QueueKey
<1>4. /\ q \in Entries /\ messageQueue \in Seq(Entries)
  BY <1>2, QueueTypes DEF Entries
<1>5. messageQueue' = Append(messageQueue, q) /\ todo' = <<e>> \o Tail(todo) /\ q.n = n
      /\ q.seqno = qentrySeqno + 1
  OBVIOUS
<1> HIDE DEF e, q
<1>6. /\ 1 \in DOMAIN todo' /\ todo'[1] = e
      /\ \A j \in DOMAIN todo' : j # 1 => j \in DOMAIN todo /\ todo'[j] = todo[j]
  BY <1>1, <1>3, <1>5, AfterReplaced
<1>7. /\ \A i \in DOMAIN messageQueue : i \in DOMAIN messageQueue' /\ messageQueue'[i] = messageQueue[i]
      /\ \A i \in DOMAIN messageQueue' : \/ i \in DOMAIN messageQueue /\ messageQueue'[i] = messageQueue[i]
                                         \/ i = Len(messageQueue) + 1 /\ messageQueue'[i] = q
      /\ Len(messageQueue) + 1 \in DOMAIN messageQueue' /\ messageQueue'[Len(messageQueue) + 1] = q
  BY <1>4, <1>5, Appended
<1>8. Coming' = {} /\ Waiting' = Waiting \cup {n} /\ Arrived' = Arrived
  <2>1. \A j \in DOMAIN todo' : todo'[j].op # "deliver"
    BY <1>2, <1>3, <1>6
  <2>2. Coming' = {}
    BY <2>1 DEF Coming
  <2>3. Waiting' \subseteq Waiting \cup {n}
    BY <1>5, <1>7 DEF Waiting
  <2>4. Waiting \subseteq Waiting'
    BY <1>7 DEF Waiting
  <2>5. n \in Waiting'
    BY <1>5, <1>7 DEF Waiting
  <2>6. QED
    BY <2>2, <2>3, <2>4, <2>5 DEF Arrived
<1>9. UNCHANGED Taken
  BY <1>2, <1>8 DEF Taken
<1>10. Shapes'
  <2>1. plan' = plan /\ \A k : File(k)' <=> File(k)
    BY <1>1 DEF File, books
  <2>2. ASSUME NEW j \in DOMAIN todo'
        PROVE  /\ todo'[j].op # "deliver"
               /\ todo'[j].op = "remove" /\ todo'[j].key[1] = "r-" /\ ~plan.clean
                  /\ File(todo'[j].key) => j = 2
               /\ todo'[j].op = "remove" => todo'[j].key[1] # "q-"
               /\ todo'[j].op = "put" => todo'[j].key[1] # "r-"
    BY <1>2, <1>3, <1>6
  <2>3. \A j \in DOMAIN todo' : File(todo[j].key)' <=> File(todo'[j].key)
    BY <1>1 DEF File
  <2>4. todo'[1].op = "put" /\ todo'[1].key[1] = "q-"
    BY <1>3, <1>6
  <2>5. QED
    BY <2>1, <2>2, <2>3, <2>4 DEF Shapes, RemovalPlace
<1>11. Connections'
  BY <1>1 DEF AInv, Connections, books
<1>12. PacketsStay(ShiftOf(""))
  <2>1. \A i, p : At("todo", i, p)' => At("todo", i, p)
    BY <1>3, <1>6 DEF At
  <2>2. \A a \in Places : \A i, p : At(a, i, p)' => At(a, i, p)
    BY <1>1, <2>1 DEF At, Places
  <2>3. QED
    BY <2>2, StayShift
<1>13. Sent'
  BY <1>1, <1>9 DEF AInv, Sent, books
<1>14. Once'
  <2>1. SUFFICES ASSUME running /\ (connected \/ ~plan.clean)
                 PROVE  /\ \A i, j \in DOMAIN messageQueue' :
                             plan.in[messageQueue'[i].n] # 1 /\ messageQueue'[i].n = messageQueue'[j].n
                               => i = j
                        /\ \A m \in Waiting' : plan.in[m] # 1 => m \notin Arrived
    BY <1>1, <1>8 DEF Once, books
  <2>2. /\ \A i, j \in DOMAIN messageQueue :
             plan.in[messageQueue[i].n] # 1 /\ messageQueue[i].n = messageQueue[j].n => i = j
        /\ \A m \in Waiting : plan.in[m] # 1 => m \notin Arrived
        /\ plan.in[n] # 1 => n \notin Arrived \cup Waiting
    BY <1>2, <2>1 DEF AInv, Once
  <2>3. \A i \in DOMAIN messageQueue : messageQueue[i].n \in Waiting
    BY DEF Waiting
  <2>4. QED
    BY <1>5, <1>7, <1>8, <2>2, <2>3
<1>15. FilesAgree'
  <2>1. SUFFICES ASSUME ~plan.clean
                 PROVE  /\ \A i \in DOMAIN inbound : File(ReceivedKey(inbound[i].id)) =>
                             store.files[ReceivedKey(inbound[i].id)].n = inbound[i].n
                        /\ \A i \in DOMAIN messageQueue' : File(QueueKey(messageQueue'[i].seqno)) =>
                             store.files[QueueKey(messageQueue'[i].seqno)] = messageQueue'[i].n
    BY <1>1 DEF FilesAgree, File, books
  <2>2. ~File(QueueKey(qentrySeqno + 1))
    <3> DEFINE k == QueueKey(qentrySeqno + 1)
    <3>1. k[1] = "q-" /\ k[2] = qentrySeqno + 1
      BY DEF QueueKey
    <3>2. ~InMemory(k)
      BY <3>1, QueueTypes DEF InMemory, Session, Listed
    <3>3. ~HasRemove(k)
      BY <3>1, QueueTypes DEF HasRemove, Session, RemovalsKnown, RemovalKnown
    <3>4. QED
      BY <1>1, <2>1, <3>2, <3>3 DEF Session, NothingElse, File
  <2>3. QED
    BY <1>1, <1>5, <1>7, <2>1, <2>2 DEF AInv, FilesAgree
<1>16. NothingNew
  <2>1. UNCHANGED <<Theirs, InHand, OnTheWay>>
    BY <1>1 DEF Theirs, InHand, OnTheWay, books
  <2>2. NoNewFiles
    BY <1>1, NothingNewInStore
  <2>3. QED
    BY <1>2, <1>8, <2>1, <2>2, StillHeld
<1>17. QED
  BY <1>1, <1>9, <1>10, <1>11, <1>12, <1>13, <1>14, <1>15, <1>16, Shifts, Moved

LEMMA DeliverArrival ==
  ASSUME Typed, Typed', Session, AInv, Deliver
  PROVE  AInv' /\ NothingNew
<1>1. \/ messageQueue = <<>> /\ AppTakes(Head(todo).n) /\ todo' = Tail(todo) /\ UNCHANGED messageQueue
      \/ /\ UNCHANGED arrived /\ qentrySeqno' = qentrySeqno + 1
         /\ messageQueue' = Append(messageQueue, [seqno |-> qentrySeqno + 1, n |-> Head(todo).n])
         /\ todo' = <<PutOf(QueueKey(qentrySeqno + 1), Head(todo).n)>> \o Tail(todo)
  BY DEF Deliver, AppRefuses
<1>2. QED
  BY <1>1, DeliverTaken, DeliverQueued

-----------------------------------------------------------------------------
(* The packets of the broker                                                *)

\* one, two or three effects and then the message queue
LEMMA QueueLast ==
  ASSUME NEW a, NEW b, NEW c, NEW d
  PROVE  /\ DOMAIN (<<>> \o <<d>>) = {1} /\ (<<>> \o <<d>>)[1] = d
         /\ DOMAIN (<<a>> \o <<d>>) = {1, 2} /\ (<<a>> \o <<d>>)[1] = a /\ (<<a>> \o <<d>>)[2] = d
         /\ DOMAIN (<<a, b>> \o <<d>>) = {1, 2, 3} /\ (<<a, b>> \o <<d>>)[1] = a
         /\ (<<a, b>> \o <<d>>)[2] = b /\ (<<a, b>> \o <<d>>)[3] = d
         /\ DOMAIN (<<a, b, c>> \o <<d>>) = {1, 2, 3, 4} /\ (<<a, b, c>> \o <<d>>)[1] = a
         /\ (<<a, b, c>> \o <<d>>)[2] = b /\ (<<a, b, c>> \o <<d>>)[3] = c
         /\ (<<a, b, c>> \o <<d>>)[4] = d
<1> DEFINE S == {a, b, c, d}
<1>1. <<>> \in Seq(S) /\ <<a>> \in Seq(S) /\ <<a, b>> \in Seq(S) /\ <<a, b, c>> \in Seq(S)
      /\ <<d>> \in Seq(S) /\ d \in S
  OBVIOUS
<1> HIDE DEF S
<1>2. DOMAIN (<<>> \o <<d>>) = {1} /\ (<<>> \o <<d>>)[1] = d
  OBVIOUS
<1>3. DOMAIN (<<a>> \o <<d>>) = {1, 2} /\ (<<a>> \o <<d>>)[1] = a /\ (<<a>> \o <<d>>)[2] = d
  OBVIOUS
<1>4. DOMAIN (<<a, b>> \o <<d>>) = {1, 2, 3} /\ (<<a, b>> \o <<d>>)[1] = a
         /\ (<<a, b>> \o <<d>>)[2] = b /\ (<<a, b>> \o <<d>>)[3] = d
  OBVIOUS
<1>5. DOMAIN (<<a, b, c>> \o <<d>>) = {1, 2, 3, 4} /\ (<<a, b, c>> \o <<d>>)[1] = a
         /\ (<<a, b, c>> \o <<d>>)[2] = b /\ (<<a, b, c>> \o <<d>>)[3] = c
         /\ (<<a, b, c>> \o <<d>>)[4] = d
  OBVIOUS
<1>6. QED
  BY <1>2, <1>3, <1>4, <1>5

\* a packet of the broker is read: it is the only one of its exchange
LEMMA ReadStart ==
  ASSUME Typed, AInv, NEW type, Reading(type), type \in Requests, Read
  PROVE  LET p == Head(toClient)
         IN  /\ running /\ connected /\ todo = <<>> /\ toClient # <<>> /\ toClient' = Tail(toClient)
             /\ UNCHANGED <<plan, running, connected, pending, sent, messageQueue, arrived, store,
                            link, toBroker>>
             /\ Coming = {} /\ UNCHANGED <<Waiting, Arrived>>
             /\ p.type = type /\ At("toClient", 1, p) /\ Meant(p)
             /\ \A a, i, q : At(a, i, q) /\ Same(p, q) => a = "toClient" /\ i = 1
<1> DEFINE p == Head(toClient)
<1>1. /\ running /\ connected /\ todo = <<>> /\ toClient # <<>> /\ toClient' = Tail(toClient)
      /\ UNCHANGED <<plan, running, connected, pending, sent, messageQueue, arrived, store,
                     link, toBroker>>
      /\ p.type = type
  BY DEF Reading, Idle, Read, broker
<1>2. At("toClient", 1, p)
  <2>1. 1 \in DOMAIN toClient /\ p = toClient[1]
    BY <1>1, Heads DEF Typed, NetworkTyped
  <2>2. QED
    BY <1>1, <2>1 DEF At
<1>3. Meant(p) /\ \A a, i, q : At(a, i, q) /\ Same(p, q) => a = "toClient" /\ i = 1
  BY <1>2 DEF AInv, AllMeant, OneAtATime
<1>4. Coming = {}
  <2>1. \A j \in DOMAIN todo : FALSE
    <3> DEFINE none == <<>>
    <3>1. DOMAIN none = {} /\ todo = none
      BY <1>1
    <3> HIDE DEF none
    <3>2. QED
      BY <3>1
  <2>2. QED
    BY <2>1 DEF Coming
<1>5. UNCHANGED <<Waiting, Arrived>>
  BY <1>1 DEF Waiting, Arrived
<1>6. QED
  BY <1>1, <1>2, <1>3, <1>4, <1>5

\* ... and its answer takes its place
LEMMA ReadMoves ==
  ASSUME Typed, Typed', AInv, NEW type, Reading(type), type \in Requests, Read, NEW k,
         \A i, q : At("todo", i, q)' =>
           i = k /\ ~Free(q) /\ ~Free(Head(toClient)) /\ q.id = Head(toClient).id
  PROVE  /\ OneAtATime'
         /\ \A a, i, q : At(a, i, q)' =>
              a = "todo" \/ \E b, j : At(b, j, q) /\ ~Same(Head(toClient), q)
<1> DEFINE p == Head(toClient)
<1>1. /\ toClient # <<>> /\ toClient' = Tail(toClient) /\ toBroker' = toBroker
      /\ \A a, i, q : At(a, i, q) /\ Same(p, q) => a = "toClient" /\ i = 1
  BY ReadStart
<1>2. ASSUME NEW a, NEW i, NEW q, At(a, i, q)', a # "todo"
      PROVE  At(a, i + ShiftOf("toClient")[a], q) /\ i + ShiftOf("toClient")[a] # (IF a = "toClient" THEN 1 ELSE 0)
  <2>1. a \in Places /\ i \in Nat \ {0}
    BY <1>2, NewPlaces
  <2>2. CASE a = "toClient"
    <3>1. ShiftOf("toClient")[a] = 1
      BY <2>1, <2>2, Shifts
    <3>2. At(a, i + 1, q)
      BY <1>1, <1>2, <2>2, TailPlaces
    <3>3. QED
      BY <2>1, <2>2, <3>1, <3>2
  <2>3. CASE a # "toClient"
    <3>1. i + ShiftOf("toClient")[a] = i
      BY <2>1, <2>3, Shifts
    <3>2. At(a, i, q)
      BY <1>1, <1>2, <2>1, <2>3 DEF At, Places
    <3>3. QED
      BY <2>1, <2>3, <3>1, <3>2
  <2>4. QED
    BY <2>2, <2>3
<1>3. \A a, i, q : At(a, i, q)' => a = "todo" \/ \E b, j : At(b, j, q) /\ ~Same(p, q)
  BY <1>1, <1>2
<1>4. OneAtATime'
  <2>1. PacketsMove(ShiftOf("toClient"), "todo", k)
    <3>1. ASSUME NEW q, NEW i, At("todo", i, q)', NEW b, NEW j, NEW r, At(b, j, r), Same(q, r)
          PROVE  b \in Places /\ ShiftOf("toClient")[b] = 1 /\ j = 1
      <4>1. Same(p, r)
        BY <3>1 DEF Same
      <4>2. b = "toClient" /\ j = 1
        BY <1>1, <3>1, <4>1
      <4>3. QED
        BY <4>2, Shifts DEF Places
    <3>2. \A i, q : At("todo", i, q)' => i = k
      OBVIOUS
    <3>3. QED
      BY <1>2, <3>1, <3>2 DEF PacketsMove
  <2>2. QED
    BY <2>1, Shifts, OneAtATimeMoves DEF AInv
<1>5. QED
  BY <1>3, <1>4

\* a message is on the path to the application: QoS 0, or QoS 1 with its PUBACK
LEMMA OnThePath ==
  ASSUME Typed, Typed', AInv, Reading("PUBLISH"), Read, UNCHANGED inbound, NEW p,
         p = Head(toClient), p.qos \in {0, 1}, Coming' = {p.n}, Shapes', OneAtATime',
         \A a, i, q : At(a, i, q)' =>
           \/ p.qos = 1 /\ q.type = "PUBACK" /\ q.id = p.id
           \/ \E b, j : At(b, j, q) /\ ~Same(p, q)
  PROVE  AInv' /\ NothingNew
<1>1. /\ running /\ connected /\ todo = <<>> /\ toClient' = Tail(toClient) /\ p.type = "PUBLISH"
      /\ UNCHANGED <<plan, running, connected, pending, sent, messageQueue, arrived, store,
                     link, toBroker>>
      /\ Coming = {} /\ UNCHANGED <<Waiting, Arrived>>
      /\ Meant(p)
  BY ReadStart DEF Requests
<1>2. /\ plan.in[p.n] = p.qos /\ p.n <= sent
      /\ p.qos = 0 => p.n \notin Taken
      /\ p.qos = 1 => \E k \in DOMAIN pending : Of(pending[k], p)
  BY <1>1 DEF Meant, Free
<1>3. Taken' = Taken \cup {p.n} /\ Got' = Got
  BY <1>1 DEF Taken, Got
<1>4. AllMeant'
  <2>1. SUFFICES ASSUME NEW a, NEW i, NEW q, At(a, i, q)' PROVE Meant(q)'
    BY DEF AllMeant
  <2>2. CASE p.qos = 1 /\ q.type = "PUBACK" /\ q.id = p.id
    <3>1. PICK k \in DOMAIN pending : Of(pending[k], p)
      BY <1>2, <2>2
    <3>2. pending[k].id = q.id /\ pending[k].n = p.n /\ pending[k].qos = 1
      BY <1>1, <2>2, <3>1 DEF Of
    <3>3. QED
      BY <1>1, <1>3, <2>2, <3>2 DEF Meant, Of, Free
  <2>3. ASSUME ~Same(p, q), \E b, j : At(b, j, q) PROVE Meant(q)'
    <3>1. Meant(q)
      BY <2>3 DEF AInv, AllMeant
    <3>2. Free(q) => q.n \notin Taken'
      <4>1. Free(q) => q.n # p.n
        BY <1>1, <1>2, <2>3, <3>1 DEF Same, Free, Meant
      <4>2. QED
        BY <1>3, <3>1, <4>1 DEF Meant
    <3>3. ASSUME NEW k \in DOMAIN pending, Of(pending[k], q) PROVE Of(pending[k], q)'
      BY <1>1, <1>3, <3>3 DEF Of
    <3>4. QED
      BY <1>1, <3>1, <3>2, <3>3 DEF Meant, Free
  <2>4. QED
    BY <2>1, <2>2, <2>3
<1>5. Sent' /\ FilesAgree' /\ Exchanged' /\ Connections'
  <2>1. NoNewFiles
    BY <1>1, NothingNewInStore
  <2>2. FilesAgree'
    BY <1>1, <2>1, FilesAgreeStays DEF AInv
  <2>3. Sent'
    BY <1>1, <1>2, <1>3 DEF AInv, Sent
  <2>4. Exchanged'
    BY <1>1 DEF AInv, Exchanged
  <2>5. Connections'
    <3>1. toClient # <<>>
      BY DEF Reading
    <3>2. link
      BY <3>1 DEF AInv, Connections
    <3>3. QED
      BY <1>1, <3>2 DEF Connections
  <2>6. QED
    BY <2>2, <2>3, <2>4, <2>5
<1>6. Once'
  BY <1>1, <1>2 DEF AInv, Once, Taken
<1>7. Ledger'
  <2>1. \A k \in DOMAIN pending : pending[k].qos = 2 => pending[k].n # p.n
    BY <1>2 DEF AInv, Exchanged
  <2>2. Half'
    BY <1>1, <1>3, <2>1 DEF AInv, Ledger, Half
  <2>3. FilesHalf'
    BY <1>1 DEF FilesHalf
  <2>4. KeptUntilTaken'
    BY <1>1, <1>3 DEF AInv, Ledger, KeptUntilTaken
  <2>5. QED
    BY <2>2, <2>3, <2>4 DEF Ledger
<1>8. NothingNew
  <2>1. toClient # <<>>
    BY DEF Reading
  <2>2. OnTheWay' \subseteq OnTheWay /\ p.n \in OnTheWay
    BY <1>1, <2>1, PacketsOnTheWay
  <2>3. UNCHANGED <<Theirs, InHand>>
    BY <1>1 DEF Theirs, InHand
  <2>4. QED
    BY <1>1, <2>2, <2>3, NothingNewInStore, StillHeld
<1>9. QED
  BY <1>4, <1>5, <1>6, <1>7, <1>8 DEF AInv

LEMMA HandlePublish0Arrival ==
  ASSUME Typed, Typed', AInv, HandlePublish, Head(toClient).qos = 0
  PROVE  AInv' /\ NothingNew
<1> DEFINE p == Head(toClient)
           e == DeliverOf(p.n)
<1>1. Reading("PUBLISH") /\ Read /\ UNCHANGED inbound /\ todo' = <<e>> \o <<TryQueue>>
  BY DEF HandlePublish, ThenQueue
<1>2. e.op = "deliver" /\ e.n = p.n /\ TryQueue.op = "queue"
  BY EffectForms
<1> HIDE DEF e
<1>3. DOMAIN todo' = {1, 2} /\ todo'[1] = e /\ todo'[2] = TryQueue
  BY <1>1, QueueLast
<1>4. \A j \in DOMAIN todo' : (todo'[j] = e /\ j = 1) \/ todo'[j] = TryQueue
  BY <1>3
<1>5. Coming' = {p.n}
  BY <1>2, <1>3, <1>4 DEF Coming
<1>6. \A i, q : ~At("todo", i, q)'
  BY <1>2, <1>4 DEF At
<1>7. Shapes'
  BY <1>2, <1>4 DEF Shapes, DeliverPlace
<1>8. /\ OneAtATime'
      /\ \A a, i, q : At(a, i, q)' => \E b, j : At(b, j, q) /\ ~Same(p, q)
  BY <1>1, <1>6, ReadMoves DEF Requests
<1>9. QED
  BY <1>1, <1>5, <1>7, <1>8, OnThePath

LEMMA HandlePublish1Arrival ==
  ASSUME Typed, Typed', AInv, HandlePublish, Head(toClient).qos = 1
  PROVE  AInv' /\ NothingNew
<1> DEFINE p == Head(toClient)
           x == Ack("PUBACK", p.id)
           w == WriteOf(x)
           e == DeliverOf(p.n)
<1>1. Reading("PUBLISH") /\ Read /\ UNCHANGED inbound /\ todo' = <<w, e>> \o <<TryQueue>>
  BY DEF HandlePublish, ThenQueue
<1>2. e.op = "deliver" /\ e.n = p.n /\ TryQueue.op = "queue" /\ w.op = "write" /\ w.packet = x
      /\ x.type = "PUBACK" /\ x.id = p.id
  BY EffectForms DEF Ack, Packet
<1> HIDE DEF e, w, x
<1>3. DOMAIN todo' = {1, 2, 3} /\ todo'[1] = w /\ todo'[2] = e /\ todo'[3] = TryQueue
  BY <1>1, QueueLast
<1>4. \A j \in DOMAIN todo' : (todo'[j] = w /\ j = 1) \/ (todo'[j] = e /\ j = 2) \/ todo'[j] = TryQueue
  BY <1>3
<1>5. Coming' = {p.n}
  BY <1>2, <1>3, <1>4 DEF Coming
<1>6. \A i, q : At("todo", i, q)' => i = 1 /\ q = x
  BY <1>2, <1>4 DEF At
<1>7. /\ plan' = plan /\ pending' = pending /\ p.type = "PUBLISH" /\ Meant(p)
  BY <1>1, ReadStart DEF Requests
<1>8. Shapes'
  <2>1. PICK k \in DOMAIN pending : pending[k].id = p.id /\ pending[k].n = p.n
    BY <1>7 DEF Meant, Of, Free
  <2>2. k \in DOMAIN pending' /\ pending'[k].id = x.id /\ pending'[k].n = e.n
    BY <1>2, <1>7, <2>1
  <2>3. DeliverPlace(2)'
    BY <1>2, <1>3, <2>2 DEF DeliverPlace
  <2>4. \A j \in DOMAIN todo' : j = 2 \/ todo'[j].op \notin {"deliver", "put", "remove"}
    BY <1>2, <1>4
  <2>5. todo'[2].op = "deliver"
    BY <1>2, <1>3
  <2>6. ASSUME NEW j \in DOMAIN todo'
        PROVE  /\ todo'[j].op = "deliver" => DeliverPlace(j)'
               /\ todo'[j].op \notin {"put", "remove"}
    BY <2>3, <2>4, <2>5
  <2>7. QED
    BY <2>6 DEF Shapes
<1>9. /\ OneAtATime'
      /\ \A a, i, q : At(a, i, q)' => a = "todo" \/ \E b, j : At(b, j, q) /\ ~Same(p, q)
  BY <1>1, <1>2, <1>6, <1>7, ReadMoves DEF Requests, Free
<1>10. QED
  BY <1>1, <1>2, <1>5, <1>6, <1>8, <1>9, OnThePath

\* the exchanges of which the client awaits a PUBREL, after a PUBLISH of QoS 2
LEMMA InboundGains ==
  ASSUME Typed, HandlePublish, Head(toClient).qos = 2
  PROVE  LET p == Head(toClient)
         IN  /\ Got' = Got \cup {p.id}
             /\ \A i \in DOMAIN inbound' : inbound'[i] = Inbound(p) \/ \E j \in DOMAIN inbound : inbound'[i] = inbound[j]
<1> DEFINE p == Head(toClient)
           m == Inbound(p)
           i == Found(inbound, p.id)
<1>1. inbound' = IF i = 0 THEN Append(inbound, m) ELSE ReplaceAt(inbound, i, m)
  BY DEF HandlePublish
<1>2. inbound \in Seq(InMessages) /\ i \in 0..Len(inbound) /\ (i # 0 => inbound[i].id = p.id)
  BY FoundProperties DEF Typed, ClientTyped
<1>3. m.id = p.id
  BY DEF Inbound
<1> HIDE DEF i, m
<1>4. CASE i = 0
  <2>1. inbound \in Seq(InMessages \cup {m}) /\ inbound' = Append(inbound, m)
    BY <1>1, <1>2, <1>4
  <2>2. /\ \A k \in DOMAIN inbound' : inbound'[k] = m \/ \E j \in DOMAIN inbound : inbound'[k] = inbound[j]
        /\ \A k \in DOMAIN inbound : k \in DOMAIN inbound' /\ inbound'[k] = inbound[k]
        /\ \E k \in DOMAIN inbound' : inbound'[k] = m
    BY <2>1, Appended
  <2>3. Got' \subseteq Got \cup {p.id}
    BY <1>3, <2>2 DEF Got
  <2>4. Got \subseteq Got'
    BY <2>2 DEF Got
  <2>5. p.id \in Got'
    BY <1>3, <2>2 DEF Got
  <2>6. QED
    BY <2>2, <2>3, <2>4, <2>5 DEF m
<1>5. CASE i # 0
  <2>1. /\ DOMAIN inbound' = DOMAIN inbound /\ i \in DOMAIN inbound
        /\ \A k \in DOMAIN inbound : inbound'[k] = IF k = i THEN m ELSE inbound[k]
    BY <1>1, <1>2, <1>5 DEF ReplaceAt
  <2>2. \A k \in DOMAIN inbound : inbound'[k].id = inbound[k].id
    BY <1>2, <1>3, <1>5, <2>1
  <2>3. Got' = Got /\ p.id \in Got
    BY <1>2, <1>5, <2>1, <2>2 DEF Got
  <2>4. \A k \in DOMAIN inbound' : inbound'[k] = m \/ inbound'[k] = inbound[k]
    BY <2>1
  <2>5. QED
    BY <2>1, <2>3, <2>4 DEF m
<1>6. QED
  BY <1>4, <1>5

LEMMA HandlePublish2Arrival ==
  ASSUME Typed, Typed', Session, AInv, HandlePublish, Head(toClient).qos = 2
  PROVE  AInv' /\ NothingNew
<1> DEFINE p == Head(toClient)
           x == Ack("PUBREC", p.id)
           w == WriteOf(x)
           e == PutOf(ReceivedKey(p.id), [id |-> p.id, n |-> p.n, qos |-> 2])
<1>1. Reading("PUBLISH") /\ Read /\ todo' = <<e, w>> \o <<TryQueue>>
  BY DEF HandlePublish, ThenQueue
<1>2. e.op = "put" /\ e.key = ReceivedKey(p.id) /\ e.key[1] = "r-" /\ e.key[2] = p.id
      /\ TryQueue.op = "queue" /\ w.op = "write" /\ w.packet = x
      /\ x.type = "PUBREC" /\ x.id = p.id
  BY EffectForms DEF Ack, Packet, ReceivedKey
<1> HIDE DEF e, w, x
<1>3. DOMAIN todo' = {1, 2, 3} /\ todo'[1] = e /\ todo'[2] = w /\ todo'[3] = TryQueue
  BY <1>1, QueueLast
<1>4. \A j \in DOMAIN todo' : (todo'[j] = e /\ j = 1) \/ (todo'[j] = w /\ j = 2) \/ todo'[j] = TryQueue
  BY <1>3
<1>5. Coming' = {}
  BY <1>2, <1>4 DEF Coming
<1>6. \A i, q : At("todo", i, q)' => i = 2 /\ q = x
  BY <1>2, <1>4 DEF At
<1>7. /\ running /\ connected /\ todo = <<>> /\ p.type = "PUBLISH" /\ toClient # <<>>
      /\ UNCHANGED <<plan, running, connected, pending, sent, messageQueue, arrived, store,
                     link, toBroker>>
      /\ Coming = {} /\ UNCHANGED <<Waiting, Arrived>>
      /\ Meant(p)
  BY <1>1, ReadStart DEF Requests
<1>8. PICK m \in DOMAIN pending : pending[m].id = p.id /\ pending[m].n = p.n /\ pending[m].qos = 2
                                  /\ pending[m].next = "PUBREC"
  <2>1. PICK k \in DOMAIN pending : Of(pending[k], p)
    BY <1>7 DEF Meant, Free
  <2>2. QED
    BY <1>7, <2>1 DEF AInv, Exchanged, Of, AnswerTo
<1>9. Shapes'
  <2>1. \A j \in DOMAIN todo' : j = 1 \/ todo'[j].op \notin {"deliver", "put", "remove"}
    BY <1>2, <1>4
  <2>2. todo'[1].op = "put" /\ todo'[1].key[1] = "r-"
    BY <1>2, <1>3
  <2>3. PutPlace(1)'
    BY <1>2, <1>3 DEF PutPlace
  <2>4. ASSUME NEW j \in DOMAIN todo'
        PROVE  /\ todo'[j].op = "put" => PutPlace(j)'
               /\ todo'[j].op \notin {"deliver", "remove"}
    BY <2>1, <2>2, <2>3
  <2>5. QED
    BY <2>4 DEF Shapes
<1>10. /\ OneAtATime'
       /\ \A a, i, q : At(a, i, q)' => a = "todo" \/ \E b, j : At(b, j, q) /\ ~Same(p, q)
  BY <1>1, <1>2, <1>6, <1>7, ReadMoves DEF Requests, Free
<1>11. Taken' = Taken
  BY <1>5, <1>7 DEF Taken
<1>12. /\ Got' = Got \cup {p.id}
       /\ \A i \in DOMAIN inbound' : \/ inbound'[i].id = p.id /\ inbound'[i].n = p.n
                                     \/ \E j \in DOMAIN inbound : inbound'[i] = inbound[j]
  BY InboundGains DEF Inbound
<1>13. AllMeant'
  <2>1. SUFFICES ASSUME NEW a, NEW i, NEW q, At(a, i, q)' PROVE Meant(q)'
    BY DEF AllMeant
  <2>2. CASE a = "todo"
    <3>1. q.type = "PUBREC" /\ q.id = p.id
      BY <1>2, <1>6, <2>1, <2>2
    <3>2. m \in DOMAIN pending' /\ Of(pending[m], q)'
      BY <1>7, <1>8, <1>12, <3>1 DEF Of
    <3>3. QED
      BY <3>1, <3>2 DEF Meant, Free
  <2>3. CASE a # "todo"
    <3>1. ~Same(p, q) /\ Meant(q)
      BY <1>10, <2>1, <2>3 DEF AInv, AllMeant
    <3>2. q.type = "PUBCOMP" => q.id # p.id
      BY <1>7, <3>1 DEF Same, Free
    <3>3. ASSUME NEW k \in DOMAIN pending, Of(pending[k], q) PROVE Of(pending[k], q)'
      BY <1>7, <1>11, <1>12, <3>2, <3>3 DEF Of
    <3>4. QED
      BY <1>7, <1>11, <3>1, <3>3 DEF Meant, Free
  <2>4. QED
    BY <2>2, <2>3
<1>14. Half'
  <2>1. SUFFICES
          /\ \A i \in DOMAIN inbound' : \E k \in DOMAIN pending :
               pending[k].id = inbound'[i].id /\ pending[k].n = inbound'[i].n /\ pending[k].qos = 2
          /\ \A k \in DOMAIN pending : pending[k].qos = 2 =>
               /\ pending[k].id \in Got' \/ pending[k].next = "PUBREC" => pending[k].n \notin Taken
               /\ pending[k].next = "PUBCOMP" /\ pending[k].id \notin Got' => pending[k].n \in Taken
    BY <1>7, <1>11 DEF Half
  <2>2. /\ \A i \in DOMAIN inbound : \E k \in DOMAIN pending :
             pending[k].id = inbound[i].id /\ pending[k].n = inbound[i].n /\ pending[k].qos = 2
        /\ \A k \in DOMAIN pending : pending[k].qos = 2 =>
             /\ pending[k].id \in Got \/ pending[k].next = "PUBREC" => pending[k].n \notin Taken
             /\ pending[k].next = "PUBCOMP" /\ pending[k].id \notin Got => pending[k].n \in Taken
    BY <1>7 DEF AInv, Ledger, Half
  <2>3. \A k \in DOMAIN pending : pending[k].id = p.id => k = m
    BY <1>8 DEF AInv, Exchanged
  <2>4. \A i \in DOMAIN inbound' : \E k \in DOMAIN pending :
               pending[k].id = inbound'[i].id /\ pending[k].n = inbound'[i].n /\ pending[k].qos = 2
    BY <1>8, <1>12, <2>2
  <2>5. QED
    BY <1>8, <1>12, <2>2, <2>3, <2>4
<1>15. FilesAgree'
  <2>1. SUFFICES ASSUME ~plan.clean
                 PROVE  /\ \A i \in DOMAIN inbound' : File(ReceivedKey(inbound'[i].id)) =>
                             store.files[ReceivedKey(inbound'[i].id)].n = inbound'[i].n
                        /\ \A i \in DOMAIN messageQueue : File(QueueKey(messageQueue[i].seqno)) =>
                             store.files[QueueKey(messageQueue[i].seqno)] = messageQueue[i].n
    BY <1>7 DEF FilesAgree, File
  <2>2. /\ \A i \in DOMAIN inbound : File(ReceivedKey(inbound[i].id)) =>
             store.files[ReceivedKey(inbound[i].id)].n = inbound[i].n
        /\ \A i \in DOMAIN messageQueue : File(QueueKey(messageQueue[i].seqno)) =>
             store.files[QueueKey(messageQueue[i].seqno)] = messageQueue[i].n
    BY <1>7, <2>1 DEF AInv, FilesAgree
  <2>3. ASSUME File(ReceivedKey(p.id)) PROVE store.files[ReceivedKey(p.id)].n = p.n
    <3>1. InMemory(ReceivedKey(p.id))
      BY <1>7, <2>1, <2>3, AtRest DEF File
    <3>2. PICK i \in DOMAIN inbound : inbound[i].id = p.id
      BY <3>1 DEF InMemory, ReceivedKey
    <3>3. PICK k \in DOMAIN pending : pending[k].id = inbound[i].id /\ pending[k].n = inbound[i].n
      BY <1>7 DEF AInv, Ledger, Half
    <3>4. k = m
      BY <1>8, <3>2, <3>3 DEF AInv, Exchanged
    <3>5. QED
      BY <1>8, <2>2, <2>3, <3>2, <3>3, <3>4
  <2>4. QED
    BY <1>12, <2>2, <2>3
<1>16. Sent' /\ Exchanged' /\ Connections' /\ Once'
  <2>1. link
    BY <1>7 DEF AInv, Connections
  <2>2. QED
    BY <1>5, <1>7, <1>11, <2>1 DEF AInv, Sent, Exchanged, Connections, Once
<1>17. FilesHalf' /\ KeptUntilTaken'
  BY <1>7, <1>11 DEF AInv, Ledger, FilesHalf, KeptUntilTaken
<1>18. NothingNew
  <2>1. OnTheWay' \subseteq OnTheWay /\ p.n \in OnTheWay
    BY <1>1, <1>7, PacketsOnTheWay DEF Read
  <2>2. InHand' \subseteq InHand \cup {p.n}
    BY <1>12 DEF InHand
  <2>3. Theirs' = Theirs
    BY <1>7 DEF Theirs
  <2>4. QED
    BY <1>5, <1>7, <2>1, <2>2, <2>3, NothingNewInStore, StillHeld
<1>19. QED
  BY <1>9, <1>10, <1>13, <1>14, <1>15, <1>16, <1>17, <1>18 DEF AInv, Ledger

LEMMA HandlePublishArrival ==
  ASSUME Typed, Typed', Session, AInv, HandlePublish
  PROVE  AInv' /\ NothingNew
<1>1. Head(toClient).qos \in {0, 1, 2}
  BY DEF HandlePublish
<1>2. QED
  BY <1>1, HandlePublish0Arrival, HandlePublish1Arrival, HandlePublish2Arrival

\* the PUBREL of a message that the client does not have
LEMMA HandlePubrelUnknown ==
  ASSUME Typed, Typed', AInv, HandlePubrel, Found(inbound, Head(toClient).id) = 0
  PROVE  AInv' /\ NothingNew
<1> DEFINE p == Head(toClient)
           x == Ack("PUBCOMP", p.id)
           w == WriteOf(x)
           short == <<>> \o <<TryQueue>>
           long == <<w>> \o <<TryQueue>>
<1>1. /\ Reading("PUBREL") /\ Read /\ UNCHANGED inbound
      /\ \/ todo' = short
         \/ todo' = long
  BY DEF HandlePubrel, ThenQueue
<1>2. TryQueue.op = "queue" /\ w.op = "write" /\ w.packet = x /\ x.type = "PUBCOMP" /\ x.id = p.id
  BY EffectForms DEF Ack, Packet
<1> HIDE DEF w, x
<1>3. \A j \in DOMAIN todo' : (todo'[j] = w /\ j = 1) \/ todo'[j] = TryQueue
  <2>1. /\ DOMAIN short = {1} /\ short[1] = TryQueue
        /\ DOMAIN long = {1, 2} /\ long[1] = w /\ long[2] = TryQueue
    BY QueueLast
  <2> HIDE DEF short, long
  <2>2. QED
    BY <1>1, <2>1
<1>4. Coming' = {} /\ Shapes'
  BY <1>2, <1>3 DEF Coming, Shapes
<1>5. \A i, q : At("todo", i, q)' => i = 1 /\ q = x
  BY <1>2, <1>3 DEF At
<1>6. /\ running /\ connected /\ todo = <<>> /\ p.type = "PUBREL" /\ toClient # <<>>
      /\ UNCHANGED <<plan, running, connected, pending, sent, messageQueue, arrived, store,
                     link, toBroker>>
      /\ Coming = {} /\ UNCHANGED <<Waiting, Arrived>>
      /\ Meant(p)
  BY <1>1, ReadStart DEF Requests
<1>7. /\ OneAtATime'
      /\ \A a, i, q : At(a, i, q)' => a = "todo" \/ \E b, j : At(b, j, q) /\ ~Same(p, q)
  <2>1. \A i, q : At("todo", i, q)' => i = 1 /\ ~Free(q) /\ ~Free(p) /\ q.id = p.id
    BY <1>2, <1>5, <1>6 DEF Free
  <2>2. Reading("PUBREL") /\ Read /\ "PUBREL" \in Requests
    BY <1>1 DEF Requests
  <2>3. QED
    BY <2>1, <2>2, ReadMoves
<1>8. Taken' = Taken /\ Got' = Got
  BY <1>1, <1>4, <1>6 DEF Taken, Got
<1>9. p.id \notin Got
  <2>1. inbound \in Seq(InMessages)
    BY DEF Typed, ClientTyped
  <2>2. QED
    BY <2>1, FoundProperties DEF Got
<1>10. AllMeant'
  <2>1. SUFFICES ASSUME NEW a, NEW i, NEW q, At(a, i, q)' PROVE Meant(q)'
    BY DEF AllMeant
  <2>2. CASE a = "todo"
    <3>1. q.type = "PUBCOMP" /\ q.id = p.id
      BY <1>2, <1>5, <2>1, <2>2
    <3>2. PICK k \in DOMAIN pending : pending[k].id = p.id /\ pending[k].next = "PUBCOMP"
      BY <1>6 DEF Meant, Of, Free
    <3>3. pending[k].n \in Taken
      BY <1>6, <1>9, <3>2 DEF AInv, Exchanged, AnswerTo, Ledger, Half
    <3>4. QED
      BY <1>6, <1>8, <1>9, <3>1, <3>2, <3>3 DEF Meant, Of, Free
  <2>3. CASE a # "todo"
    <3>1. Meant(q)
      BY <1>7, <2>1, <2>3 DEF AInv, AllMeant
    <3>2. QED
      BY <1>6, <1>8, <3>1, MeantStays
  <2>4. QED
    BY <2>2, <2>3
<1>11. Sent' /\ Exchanged' /\ Connections' /\ Once'
  <2>1. link
    BY <1>6 DEF AInv, Connections
  <2>2. QED
    BY <1>4, <1>6, <1>8, <2>1 DEF AInv, Sent, Exchanged, Connections, Once
<1>12. FilesAgree'
  BY <1>1, <1>6, NothingNewInStore, FilesAgreeStays DEF AInv
<1>13. Ledger'
  BY <1>1, <1>6, <1>8, LedgerStays DEF AInv, books
<1>14. NothingNew
  <2>1. OnTheWay' \subseteq OnTheWay
    BY <1>1, <1>6, PacketsOnTheWay DEF Read
  <2>2. QED
    BY <1>1, <1>4, <1>6, <2>1, NothingNewInStore, ListsHeld
<1>15. QED
  BY <1>4, <1>7, <1>10, <1>11, <1>12, <1>13, <1>14 DEF AInv

\* the PUBREL of a message that is now on the path to the application
LEMMA HandlePubrelKnown ==
  ASSUME Typed, Typed', Session, AInv, HandlePubrel, Found(inbound, Head(toClient).id) # 0
  PROVE  AInv' /\ NothingNew
<1> DEFINE p == Head(toClient)
           f == Found(inbound, p.id)
           x == Ack("PUBCOMP", p.id)
           w == WriteOf(x)
           e == DeliverOf(inbound[f].n)
           r == RemoveOf(ReceivedKey(p.id))
<1>1. Reading("PUBREL") /\ Read /\ inbound' = RemoveAt(inbound, f) /\ todo' = <<w, e, r>> \o <<TryQueue>>
  BY DEF HandlePubrel, ThenQueue
<1>2. /\ e.op = "deliver" /\ e.n = inbound[f].n
      /\ r.op = "remove" /\ r.key = ReceivedKey(p.id)
      /\ TryQueue.op = "queue" /\ w.op = "write" /\ w.packet = x
      /\ x.type = "PUBCOMP" /\ x.id = p.id
  BY EffectForms DEF Ack, Packet
<1> HIDE DEF e, w, x, r
<1>3. DOMAIN todo' = {1, 2, 3, 4} /\ todo'[1] = w /\ todo'[2] = e /\ todo'[3] = r /\ todo'[4] = TryQueue
  BY <1>1, QueueLast
<1>4. \A j \in DOMAIN todo' : \/ (todo'[j] = w /\ j = 1) \/ (todo'[j] = e /\ j = 2)
                              \/ (todo'[j] = r /\ j = 3) \/ todo'[j] = TryQueue
  BY <1>3
<1>5. \A i, q : At("todo", i, q)' => i = 1 /\ q = x
  BY <1>2, <1>4 DEF At
<1>6. /\ running /\ connected /\ todo = <<>> /\ p.type = "PUBREL" /\ toClient # <<>>
      /\ UNCHANGED <<plan, running, connected, pending, sent, messageQueue, arrived, store,
                     link, toBroker>>
      /\ Coming = {} /\ UNCHANGED <<Waiting, Arrived>>
      /\ Meant(p)
  BY <1>1, ReadStart DEF Requests
<1>7. inbound \in Seq(InMessages) /\ f \in 1..Len(inbound) /\ f \in DOMAIN inbound
      /\ inbound[f].id = p.id
  <2>1. inbound \in Seq(InMessages)
    BY DEF Typed, ClientTyped
  <2>2. /\ f \in 0..Len(inbound) /\ (f # 0 => inbound[f].id = p.id) /\ f # 0
        /\ Len(inbound) \in Nat /\ DOMAIN inbound = 1..Len(inbound)
    BY <2>1, FoundProperties
  <2> HIDE DEF f
  <2>3. QED
    BY <2>1, <2>2
<1>8. /\ \A k \in DOMAIN inbound' : /\ \E l \in DOMAIN inbound : inbound'[k] = inbound[l]
                                    /\ inbound'[k].id # p.id
      /\ \A l \in DOMAIN inbound : inbound[l].id # p.id => \E k \in DOMAIN inbound' : inbound'[k] = inbound[l]
  <2>1. \A k, l \in DOMAIN inbound : inbound[k].id = inbound[l].id => k = l
    BY DEF Session, Listed
  <2> HIDE DEF f
  <2>2. PICK g : g = f
    OBVIOUS
  <2>3. /\ inbound' = RemoveAt(inbound, g) /\ g \in 1..Len(inbound) /\ inbound[g].id = p.id
        /\ inbound \in Seq(InMessages) /\ g \in DOMAIN inbound
    BY <1>1, <1>7, <2>2
  <2>4. LET R == RemoveAt(inbound, g)
        IN  /\ \A k \in DOMAIN R : \E l \in DOMAIN inbound : l # g /\ R[k] = inbound[l]
            /\ \A l \in DOMAIN inbound : l # g => \E k \in DOMAIN R : R[k] = inbound[l]
            /\ \A k \in DOMAIN R : R[k].id # inbound[g].id
    BY <2>1, <2>3, RemoveAtElements
  <2>5. QED
    BY <2>3, <2>4
<1> DEFINE n == inbound[f].n
<1>9. PICK m \in DOMAIN pending : /\ pending[m].id = p.id /\ pending[m].n = n /\ pending[m].qos = 2
                                  /\ pending[m].next = "PUBCOMP"
  <2>1. PICK k \in DOMAIN pending : pending[k].id = p.id /\ pending[k].n = n /\ pending[k].qos = 2
    BY <1>6, <1>7 DEF AInv, Ledger, Half
  <2>2. PICK l \in DOMAIN pending : pending[l].id = p.id /\ pending[l].next = "PUBCOMP"
    BY <1>6 DEF Meant, Of, Free
  <2>3. QED
    BY <2>1, <2>2 DEF AInv, Exchanged
<1>10. n \notin Taken /\ n <= sent /\ plan.in[n] = 2
  <2>1. p.id \in Got
    BY <1>7 DEF Got
  <2>2. QED
    BY <1>6, <1>9, <2>1 DEF AInv, Ledger, Half, Exchanged
<1> HIDE DEF f
<1>11. PICK y : y = n
  OBVIOUS
<1>12. Coming' = {y} /\ Taken' = Taken \cup {y}
  <2>1. Coming' = {y}
    BY <1>2, <1>3, <1>4, <1>11 DEF Coming
  <2>2. QED
    BY <1>6, <2>1 DEF Taken
<1>13. Got' = Got \ {p.id}
  <2>1. Got' \subseteq Got \ {p.id}
    BY <1>8 DEF Got
  <2>2. Got \ {p.id} \subseteq Got'
    <3>1. SUFFICES ASSUME NEW l \in DOMAIN inbound, inbound[l].id # p.id PROVE inbound[l].id \in Got'
      BY DEF Got
    <3>2. PICK g : g = inbound[l]
      OBVIOUS
    <3>3. \E k \in DOMAIN inbound' : inbound'[k] = g
      BY <1>8, <3>1, <3>2
    <3>4. g.id \in Got'
      BY <3>3 DEF Got
    <3>5. QED
      BY <3>2, <3>4
  <2>3. QED
    BY <2>1, <2>2
<1>14. /\ OneAtATime'
       /\ \A a, i, q : At(a, i, q)' => a = "todo" \/ \E b, j : At(b, j, q) /\ ~Same(p, q)
  <2>1. \A i, q : At("todo", i, q)' => i = 1 /\ ~Free(q) /\ ~Free(p) /\ q.id = p.id
    BY <1>2, <1>5, <1>6 DEF Free
  <2>2. Reading("PUBREL") /\ Read /\ "PUBREL" \in Requests
    BY <1>1 DEF Requests
  <2>3. QED
    BY <2>1, <2>2, ReadMoves
<1>15. AllMeant'
  <2>1. SUFFICES ASSUME NEW a, NEW i, NEW q, At(a, i, q)' PROVE Meant(q)'
    BY DEF AllMeant
  <2>2. CASE a = "todo"
    <3>1. q.type = "PUBCOMP" /\ q.id = p.id
      BY <1>2, <1>5, <2>1, <2>2
    <3>2. QED
      BY <1>6, <1>9, <1>11, <1>12, <1>13, <3>1 DEF Meant, Of, Free
  <2>3. CASE a # "todo"
    <3>1. ~Same(p, q) /\ Meant(q)
      BY <1>14, <2>1, <2>3 DEF AInv, AllMeant
    <3>2. q.type # "PUBLISH" => q.id # p.id
      BY <1>6, <3>1 DEF Same, Free
    <3>3. Free(q) => q.n # y
      BY <1>10, <1>11, <3>1 DEF Free, Meant
    <3>4. ASSUME NEW k \in DOMAIN pending, Of(pending[k], q) PROVE Of(pending[k], q)'
      BY <1>6, <1>12, <1>13, <3>2, <3>4 DEF Of
    <3>5. QED
      BY <1>6, <1>12, <3>1, <3>3, <3>4 DEF Meant, Free
  <2>4. QED
    BY <2>2, <2>3
<1>16. FilesAgree'
  <2>1. FilesAgree
    BY DEF AInv
  <2>2. QED
    BY <1>6, <1>8, <2>1 DEF FilesAgree, File
<1>17. ~plan.clean => File(ReceivedKey(p.id)) /\ store.files[ReceivedKey(p.id)].n = y
  <2>1. FileIs(ReceivedKey(p.id), ReceivedOf(inbound[f]))
    BY <1>6, <1>7, AtRest DEF Session
  <2>2. ReceivedOf(inbound[f]).n = y
    BY <1>11 DEF ReceivedOf
  <2>3. QED
    BY <2>1, <2>2 DEF FileIs, File
<1>18. Shapes'
  <2>1. PICK k : k = ReceivedKey(p.id)
    OBVIOUS
  <2>2. k[1] = "r-" /\ k[2] = p.id /\ (~plan.clean => File(k) /\ store.files[k].n = y)
    BY <1>17, <2>1 DEF ReceivedKey
  <2>3. DeliverPlace(2)'
    <3>1. \E l \in DOMAIN pending' : pending'[l].id = todo'[1].packet.id /\ pending'[l].n = todo'[2].n
      BY <1>2, <1>3, <1>6, <1>9
    <3>2. ReceivedKey(todo'[1].packet.id) = k
      BY <1>2, <1>3, <2>1
    <3>3. todo'[1].op = "write" /\ todo'[1].packet.type = "PUBCOMP" /\ todo'[2].n = y
      BY <1>2, <1>3, <1>11
    <3>4. QED
      BY <1>6, <2>2, <3>1, <3>2, <3>3 DEF DeliverPlace, File
  <2>4. ~plan.clean => RemovalPlace(3)'
    BY <1>2, <1>3, <1>6, <1>11, <2>1, <2>2 DEF RemovalPlace
  <2>5. ASSUME NEW j \in DOMAIN todo'
        PROVE  /\ todo'[j].op = "deliver" => j = 2
               /\ todo'[j].op = "remove" => j = 3 /\ todo'[j].key[1] # "q-"
               /\ todo'[j].op # "put"
    <3>1. r.key[1] = "r-"
      BY <1>2 DEF ReceivedKey
    <3>2. QED
      BY <1>2, <1>4, <3>1
  <2>6. plan' = plan
    BY <1>6
  <2>7. QED
    BY <2>3, <2>4, <2>5, <2>6 DEF Shapes
<1>19. Half'
  <2>1. SUFFICES
          /\ \A i \in DOMAIN inbound' : \E k \in DOMAIN pending :
               pending[k].id = inbound'[i].id /\ pending[k].n = inbound'[i].n /\ pending[k].qos = 2
          /\ \A k \in DOMAIN pending : pending[k].qos = 2 =>
               /\ pending[k].id \in Got' \/ pending[k].next = "PUBREC" => pending[k].n \notin Taken'
               /\ pending[k].next = "PUBCOMP" /\ pending[k].id \notin Got' => pending[k].n \in Taken'
    BY <1>6 DEF Half
  <2>2. /\ \A i \in DOMAIN inbound : \E k \in DOMAIN pending :
             pending[k].id = inbound[i].id /\ pending[k].n = inbound[i].n /\ pending[k].qos = 2
        /\ \A k \in DOMAIN pending : pending[k].qos = 2 =>
             /\ pending[k].id \in Got \/ pending[k].next = "PUBREC" => pending[k].n \notin Taken
             /\ pending[k].next = "PUBCOMP" /\ pending[k].id \notin Got => pending[k].n \in Taken
    BY <1>6 DEF AInv, Ledger, Half
  <2>3. \A k \in DOMAIN pending : pending[k].id = p.id \/ pending[k].n = y => k = m
    BY <1>9, <1>11 DEF AInv, Exchanged
  <2>4. \A k \in DOMAIN pending : pending[k].qos = 2 =>
               /\ pending[k].id \in Got' \/ pending[k].next = "PUBREC" => pending[k].n \notin Taken'
               /\ pending[k].next = "PUBCOMP" /\ pending[k].id \notin Got' => pending[k].n \in Taken'
    BY <1>9, <1>11, <1>12, <1>13, <2>2, <2>3
  <2>5. \A i \in DOMAIN inbound' : \E k \in DOMAIN pending :
               pending[k].id = inbound'[i].id /\ pending[k].n = inbound'[i].n /\ pending[k].qos = 2
    BY <1>8, <2>2
  <2>6. QED
    BY <2>4, <2>5
<1>20. Sent' /\ Exchanged' /\ Connections' /\ Once'
  <2>1. link
    BY <1>6 DEF AInv, Connections
  <2>2. y \notin Arrived \cup Waiting /\ y <= sent
    BY <1>10, <1>11 DEF Taken
  <2>3. Sent'
    BY <1>6, <1>12, <2>2 DEF AInv, Sent
  <2>4. Exchanged' /\ Connections'
    BY <1>6, <2>1 DEF AInv, Exchanged, Connections
  <2>5. Once'
    BY <1>6, <1>12, <2>2 DEF AInv, Once
  <2>6. QED
    BY <2>3, <2>4, <2>5
<1>21. FilesHalf' /\ KeptUntilTaken'
  BY <1>6, <1>12 DEF AInv, Ledger, FilesHalf, KeptUntilTaken
<1>22. NothingNew
  <2>1. OnTheWay' \subseteq OnTheWay
    BY <1>1, <1>6, PacketsOnTheWay DEF Read
  <2>2. InHand' \subseteq InHand
    BY <1>8 DEF InHand
  <2>3. y \in InHand
    BY <1>7, <1>11 DEF InHand
  <2>4. Theirs' = Theirs
    BY <1>6 DEF Theirs
  <2>5. QED
    BY <1>6, <1>12, <2>1, <2>2, <2>3, <2>4, NothingNewInStore, StillHeld
<1>23. QED
  BY <1>14, <1>15, <1>16, <1>18, <1>19, <1>20, <1>21, <1>22 DEF AInv, Ledger

LEMMA HandlePubrelArrival ==
  ASSUME Typed, Typed', Session, AInv, HandlePubrel
  PROVE  AInv' /\ NothingNew
  BY HandlePubrelUnknown, HandlePubrelKnown

-----------------------------------------------------------------------------
(* The broker                                                               *)

LEMMA FirstOfTodo ==
  ASSUME Typed, NEW j \in DOMAIN todo
  PROVE  1 \in DOMAIN todo
  BY DEF Typed, EffectsTyped

\* the broker has other books: what is to be done does not depend on it, as long as
\* it keeps the exchanges whose last answer is to be written
LEMMA ShapesKept ==
  ASSUME Typed, Shapes, UNCHANGED <<plan, todo, store>>,
         \A k \in DOMAIN pending :
           1 \in DOMAIN todo /\ todo[1].op = "write" /\ todo[1].packet.type \in {"PUBACK", "PUBCOMP"}
           /\ todo[1].packet.id = pending[k].id =>
             \E l \in DOMAIN pending' : pending'[l].id = pending[k].id /\ pending'[l].n = pending[k].n
  PROVE  Shapes'
<1>1. ASSUME NEW j \in DOMAIN todo, DeliverPlace(j) PROVE DeliverPlace(j)'
  <2>1. CASE j = 1
    BY <2>1 DEF DeliverPlace
  <2>2. CASE j # 1
    <3>1. \E k \in DOMAIN pending' : pending'[k].id = todo[1].packet.id /\ pending'[k].n = todo[2].n
      BY <1>1, <2>2, FirstOfTodo DEF DeliverPlace
    <3>2. QED
      BY <1>1, <2>2, <3>1 DEF DeliverPlace, File
  <2>3. QED
    BY <2>1, <2>2
<1>2. \A j \in DOMAIN todo : RemovalPlace(j) => RemovalPlace(j)'
  BY DEF RemovalPlace
<1>3. \A j \in DOMAIN todo : PutPlace(j) => PutPlace(j)'
  BY DEF PutPlace
<1>4. \A k : File(k)' <=> File(k)
  BY DEF File
<1>5. QED
  BY <1>1, <1>2, <1>3, <1>4 DEF Shapes

LEMMA AnswerArrives ==
  ASSUME Typed, Session, AInv, toBroker # <<>>, Head(toBroker).type \in Answers
  PROVE  LET p == Head(toBroker)
             i == Found(pending, p.id)
         IN  /\ link /\ connected /\ running /\ ~Free(p)
             /\ i # 0 /\ i \in 1..Len(pending) /\ pending \in Seq(Exchanges) /\ Of(pending[i], p)
             /\ \A a, j, q : At(a, j, q) /\ Same(p, q) => a = "toBroker" /\ j = 1
             /\ 1 \in DOMAIN todo /\ todo[1].op = "write" /\ todo[1].packet.type \in Answers =>
                  todo[1].packet.id # p.id
<1> DEFINE p == Head(toBroker)
           i == Found(pending, p.id)
<1>1. link /\ connected /\ running
  BY LinkUp DEF AInv, Session
<1>2. At("toBroker", 1, p)
  <2>1. 1 \in DOMAIN toBroker /\ p = toBroker[1]
    BY Heads DEF Typed, NetworkTyped
  <2>2. QED
    BY <2>1 DEF At
<1>3. Meant(p) /\ \A a, j, q : At(a, j, q) /\ Same(p, q) => a = "toBroker" /\ j = 1
  BY <1>2 DEF AInv, AllMeant, OneAtATime
<1>4. ~Free(p)
  BY DEF Free, Answers
<1>5. PICK k \in DOMAIN pending : Of(pending[k], p)
  BY <1>3, <1>4 DEF Meant
<1>6. /\ pending \in Seq(Exchanges) /\ i \in 0..Len(pending)
      /\ i = 0 => \A l \in DOMAIN pending : pending[l].id # p.id
      /\ i # 0 => pending[i].id = p.id
  <2>1. pending \in Seq(Exchanges)
    BY NetworkTypes
  <2>2. QED
    BY <2>1, FoundProperties
<1> HIDE DEF i
<1>7. i # 0 /\ i \in 1..Len(pending) /\ i \in DOMAIN pending
  BY <1>5, <1>6 DEF Of
<1>8. i = k
  BY <1>5, <1>6, <1>7 DEF Of, AInv, Exchanged
<1>9. ASSUME 1 \in DOMAIN todo, todo[1].op = "write", todo[1].packet.type \in Answers
      PROVE  todo[1].packet.id # p.id
  <2> DEFINE q == todo[1].packet
  <2>1. At("todo", 1, q)
    BY <1>9 DEF At
  <2>2. ~Free(q)
    BY <1>9 DEF Free, Answers
  <2>3. ~Same(p, q)
    BY <1>3, <2>1
  <2>4. QED
    BY <1>4, <2>2, <2>3 DEF Same
<1>10. QED
  BY <1>1, <1>3, <1>4, <1>5, <1>6, <1>7, <1>8, <1>9 DEF i

\* the broker has read an answer: what it keeps of other exchanges is what it was
LEMMA AnswerRead ==
  ASSUME Typed, Typed', Session, AInv, toBroker # <<>>, Head(toBroker).type \in Answers,
         UNCHANGED <<plan, running, connected, inbound, messageQueue, arrived, todo, store, link, sent>>,
         OneAtATime', Exchanged', Half', KeptUntilTaken',
         \A k \in DOMAIN pending : pending[k].id # Head(toBroker).id =>
           \E l \in DOMAIN pending' : pending'[l] = pending[k],
         Head(toBroker).type # "PUBREC" \/
           \A k \in DOMAIN pending : \E l \in DOMAIN pending' :
             pending'[l].id = pending[k].id /\ pending'[l].n = pending[k].n,
         \A a, j, q : At(a, j, q)' => Meant(q)' \/ (Meant(q) /\ ~Same(Head(toBroker), q))
  PROVE  AInv'
<1> DEFINE p == Head(toBroker)
<1>1. /\ link /\ connected /\ running /\ ~Free(p)
      /\ 1 \in DOMAIN todo /\ todo[1].op = "write" /\ todo[1].packet.type \in Answers =>
           todo[1].packet.id # p.id
  BY AnswerArrives
<1>2. UNCHANGED <<Waiting, Arrived, Coming, Got>>
  BY DEF Waiting, Arrived, Coming, Got
<1>3. UNCHANGED Taken
  BY <1>2 DEF Taken
<1>4. AllMeant'
  <2>1. SUFFICES ASSUME NEW a, NEW j, NEW q, Meant(q), ~Same(p, q) PROVE Meant(q)'
    BY DEF AllMeant
  <2>2. ASSUME NEW k \in DOMAIN pending, Of(pending[k], q), ~Free(q)
        PROVE  \E l \in DOMAIN pending' : Of(pending[l], q)'
    <3>1. pending[k].id # p.id
      BY <1>1, <2>1, <2>2 DEF Same, Of
    <3>2. PICK l \in DOMAIN pending' : pending'[l] = pending[k]
      BY <3>1
    <3>3. Of(pending[l], q)'
      BY <1>2, <1>3, <2>2, <3>2 DEF Of
    <3>4. QED
      BY <3>3
  <2>3. QED
    BY <1>3, <2>1, <2>2 DEF Meant, Free
<1>5. Shapes'
  <2>1. ASSUME NEW k \in DOMAIN pending,
               1 \in DOMAIN todo, todo[1].op = "write", todo[1].packet.type \in {"PUBACK", "PUBCOMP"},
               todo[1].packet.id = pending[k].id
        PROVE  \E l \in DOMAIN pending' : pending'[l].id = pending[k].id /\ pending'[l].n = pending[k].n
    BY <1>1, <2>1 DEF Answers
  <2>2. QED
    BY <2>1, ShapesKept DEF AInv
<1>6. Sent' /\ Connections' /\ Once'
  BY <1>1, <1>2, <1>3 DEF AInv, Sent, Connections, Once
<1>7. FilesAgree'
  BY NothingNewInStore, FilesAgreeStays DEF AInv
<1>8. FilesHalf'
  BY <1>1 DEF FilesHalf
<1>9. QED
  BY <1>4, <1>5, <1>6, <1>7, <1>8 DEF AInv, Ledger

LEMMA BrokerAckRec ==
  ASSUME Typed, Typed', Session, AInv, BrokerAck, Head(toBroker).type = "PUBREC"
  PROVE  AInv' /\ NothingNew
<1> DEFINE p == Head(toBroker)
           i == Found(pending, p.id)
           r == Packet("PUBREL", p.id, 0, 0, FALSE)
           m == [pending[i] EXCEPT !.next = "PUBCOMP"]
<1>1. /\ toBroker # <<>> /\ p.type \in Answers
      /\ link /\ connected /\ running /\ ~Free(p)
      /\ i # 0 /\ i \in 1..Len(pending) /\ pending \in Seq(Exchanges) /\ Of(pending[i], p)
      /\ \A a, j, q : At(a, j, q) /\ Same(p, q) => a = "toBroker" /\ j = 1
  BY AnswerArrives DEF BrokerAck, BrokerReads, Answers
<1>2. /\ toBroker' = Tail(toBroker) /\ toClient' = toClient \o <<r>>
      /\ pending' = [pending EXCEPT ![i] = m]
      /\ UNCHANGED <<plan, running, connected, inbound, messageQueue, arrived, todo, store, link, sent>>
  BY <1>1 DEF BrokerAck, BrokerReads, BrokerAnswers, memory
<1>3. r.type = "PUBREL" /\ r.id = p.id /\ r.n = 0
  BY DEF Packet
<1> HIDE DEF r, i
<1>4. /\ m.id = pending[i].id /\ m.n = pending[i].n /\ m.qos = pending[i].qos /\ m.next = "PUBCOMP"
      /\ pending[i].id = p.id /\ pending[i].next = "PUBREC" /\ p.id \in Got /\ pending[i].qos = 2
      /\ i \in DOMAIN pending
  <2>1. pending[i] \in Exchanges /\ i \in DOMAIN pending
    BY <1>1
  <2>2. pending[i].id = p.id /\ pending[i].next = "PUBREC" /\ p.id \in Got
    BY <1>1 DEF Of
  <2>3. pending[i].qos = 2
    BY <2>1, <2>2 DEF AInv, Exchanged, Exchanges, AnswerTo
  <2>4. QED
    BY <2>1, <2>2, <2>3 DEF Exchanges
<1> HIDE DEF m
<1>5. /\ DOMAIN pending' = DOMAIN pending
      /\ \A k \in DOMAIN pending : /\ pending'[k] = IF k = i THEN m ELSE pending[k]
                                   /\ pending'[k].id = pending[k].id /\ pending'[k].n = pending[k].n
                                   /\ pending'[k].qos = pending[k].qos
  BY <1>1, <1>2, <1>4
<1>6. UNCHANGED <<Waiting, Arrived, Coming, Got>>
  BY <1>2 DEF Waiting, Arrived, Coming, Got
<1>7. UNCHANGED Taken
  BY <1>6 DEF Taken
<1>8. ASSUME NEW a, NEW j, NEW q, At(a, j, q)'
      PROVE  \/ At(a, j + ShiftOf("toBroker")[a], q) /\ ~Same(p, q)
             \/ a = "toClient" /\ j = Len(toClient) + 1 /\ q.id = p.id /\ q.type = "PUBREL"
  <2>1. a \in Places /\ j \in Nat \ {0}
    BY <1>8, NewPlaces
  <2>2. CASE a = "toBroker"
    <3>1. At(a, j + 1, q) /\ ShiftOf("toBroker")[a] = 1
      BY <1>1, <1>2, <1>8, <2>1, <2>2, TailPlaces, Shifts
    <3>2. ~Same(p, q)
      <4>1. j + 1 # 1
        BY <2>1
      <4>2. QED
        BY <1>1, <3>1, <4>1
    <3>3. QED
      BY <3>1, <3>2
  <2>3. CASE a = "todo"
    <3>1. At(a, j, q) /\ j + ShiftOf("toBroker")[a] = j
      BY <1>2, <1>8, <2>1, <2>3, Shifts DEF At
    <3>2. QED
      BY <1>1, <2>3, <3>1
  <2>4. CASE a = "toClient"
    <3>1. toClient \in Seq(Packets(In) \cup {r})
      <4>1. toClient \in Seq(Packets(In))
        BY DEF Typed, NetworkTyped
      <4>2. QED
        BY <4>1
    <3>2. (j \in DOMAIN toClient /\ q = toClient[j]) \/ (j = Len(toClient) + 1 /\ q = r)
      <4>1. j \in DOMAIN toClient' /\ toClient'[j] = q
        BY <1>8, <2>4 DEF At
      <4>2. PICK S : S = Packets(In) \cup {r}
        OBVIOUS
      <4>3. toClient \in Seq(S) /\ r \in S
        BY <3>1, <4>2
      <4> DEFINE longer == toClient \o <<r>>
      <4>4. \A k \in DOMAIN longer : \/ k \in DOMAIN toClient /\ longer[k] = toClient[k]
                                     \/ k = Len(toClient) + 1 /\ longer[k] = r
        BY <4>3, Ended
      <4>5. toClient' = longer
        BY <1>2
      <4> HIDE DEF longer
      <4>6. QED
        BY <4>1, <4>4, <4>5
    <3>3. j \in DOMAIN toClient /\ q = toClient[j] => At(a, j, q) /\ j + ShiftOf("toBroker")[a] = j
      BY <1>8, <2>1, <2>4, Shifts DEF At
    <3>4. QED
      BY <1>1, <1>3, <2>4, <3>2, <3>3
  <2>5. QED
    BY <2>1, <2>2, <2>3, <2>4 DEF Places
<1>9. OneAtATime'
  <2>1. PacketsMove(ShiftOf("toBroker"), "toClient", Len(toClient) + 1)
    <3>1. ASSUME NEW q, q.id = p.id, q.type = "PUBREL", NEW b, NEW j, NEW s, At(b, j, s), Same(q, s)
          PROVE  b \in Places /\ ShiftOf("toBroker")[b] = 1 /\ j = 1
      <4>1. Same(p, s)
        BY <1>1, <3>1 DEF Same, Free
      <4>2. QED
        BY <1>1, <3>1, <4>1, Shifts DEF Places
    <3>2. QED
      BY <1>8, <3>1 DEF PacketsMove
  <2>2. QED
    BY <2>1, Shifts, OneAtATimeMoves DEF AInv
<1>10. ASSUME NEW a, NEW j, NEW q, At(a, j, q)' PROVE Meant(q)' \/ (Meant(q) /\ ~Same(p, q))
  <2>1. CASE q.id = p.id /\ q.type = "PUBREL"
    <3>1. pending'[i].id = q.id /\ pending'[i].next = "PUBCOMP" /\ i \in DOMAIN pending'
      BY <1>4, <1>5, <2>1
    <3>2. QED
      BY <2>1, <3>1 DEF Meant, Of, Free
  <2>2. QED
    BY <1>8, <1>10, <2>1 DEF AInv, AllMeant
<1>11. Exchanged'
  <2>1. \A k \in DOMAIN pending : k = i => pending'[k].qos = 2 /\ pending'[k].next = "PUBCOMP"
    BY <1>4, <1>5
  <2>2. \A k \in DOMAIN pending : k # i => pending'[k].next = pending[k].next
    BY <1>5
  <2>3. QED
    BY <1>2, <1>5, <2>1, <2>2 DEF AInv, Exchanged
<1>12. Half'
  BY <1>1, <1>2, <1>4, <1>5, <1>6, <1>7 DEF AInv, Ledger, Half
<1>13. KeptUntilTaken'
  BY <1>1, <1>2, <1>5, <1>7 DEF AInv, Ledger, KeptUntilTaken
<1>14. /\ \A k \in DOMAIN pending : pending[k].id # p.id =>
            \E l \in DOMAIN pending' : pending'[l] = pending[k]
       /\ \A k \in DOMAIN pending : \E l \in DOMAIN pending' :
            pending'[l].id = pending[k].id /\ pending'[l].n = pending[k].n
  BY <1>4, <1>5
<1>15. NothingNew
  <2>1. OnTheWay' \subseteq OnTheWay \cup {0}
    <3>1. r \in Packets(In)
      <4>1. pending[i] \in Exchanges
        BY <1>1, <1>4
      <4>2. p.id \in MsgIds
        BY <1>4, <4>1 DEF Exchanges
      <4>3. r = Ack("PUBREL", p.id)
        BY DEF r, Ack
      <4>4. QED
        BY <4>2, <4>3, PacketTypes
    <3>2. QED
      BY <1>2, <1>3, <3>1, AnswersOnTheWay
  <2>2. Theirs' = Theirs /\ InHand' = InHand
    BY <1>2, <1>5 DEF Theirs, InHand
  <2>3. QED
    BY <1>2, <1>6, <2>1, <2>2, NothingNewInStore, StillHeld
<1>16. QED
  BY <1>1, <1>2, <1>9, <1>10, <1>11, <1>12, <1>13, <1>14, <1>15, AnswerRead

LEMMA BrokerAckLast ==
  ASSUME Typed, Typed', Session, AInv, BrokerAck, Head(toBroker).type \in {"PUBACK", "PUBCOMP"}
  PROVE  AInv' /\ NothingNew
<1> DEFINE p == Head(toBroker)
           i == Found(pending, p.id)
<1>1. /\ toBroker # <<>> /\ p.type \in Answers
      /\ link /\ connected /\ running /\ ~Free(p)
      /\ i # 0 /\ i \in 1..Len(pending) /\ pending \in Seq(Exchanges) /\ Of(pending[i], p)
      /\ \A a, j, q : At(a, j, q) /\ Same(p, q) => a = "toBroker" /\ j = 1
  BY AnswerArrives DEF BrokerAck, BrokerReads, Answers
<1>2. /\ toBroker' = Tail(toBroker) /\ toClient' = toClient
      /\ pending' = RemoveAt(pending, i)
      /\ UNCHANGED <<plan, running, connected, inbound, messageQueue, arrived, todo, store, link, sent>>
  <2>1. toClient' = toClient \o <<>>
    BY DEF BrokerAck, BrokerReads, BrokerAnswers
  <2>2. toClient \in Seq(Packets(In))
    BY DEF Typed, NetworkTyped
  <2>3. toClient' = toClient
    BY <2>1, <2>2
  <2>4. QED
    BY <1>1, <2>3 DEF BrokerAck, BrokerReads, BrokerAnswers, memory
<1>3. PICK g : g = i
  OBVIOUS
<1>4. g \in 1..Len(pending) /\ pending' = RemoveAt(pending, g) /\ Of(pending[g], p) /\ g \in DOMAIN pending
  BY <1>1, <1>2, <1>3
<1> HIDE DEF i
<1>5. /\ pending[g].id = p.id /\ pending[g].n \in Taken
      /\ pending[g].qos = 1 \/ p.id \notin Got
  BY <1>4 DEF Of, BrokerAck
<1>6. /\ \A k \in DOMAIN pending' : \E l \in DOMAIN pending : l # g /\ pending'[k] = pending[l]
      /\ \A l \in DOMAIN pending : l # g => \E k \in DOMAIN pending' : pending'[k] = pending[l]
      /\ \A k, l \in DOMAIN pending' : pending'[k].id = pending'[l].id => k = l
  <2>1. \A k, l \in DOMAIN pending : pending[k].id = pending[l].id => k = l
    BY DEF AInv, Exchanged
  <2>2. QED
    BY <1>1, <1>4, <2>1, RemoveAtElements
<1>7. UNCHANGED <<Waiting, Arrived, Coming, Got>>
  BY <1>2 DEF Waiting, Arrived, Coming, Got
<1>8. UNCHANGED Taken
  BY <1>7 DEF Taken
<1>9. PacketsStay(ShiftOf("toBroker"))
  <2>1. \A j, q : At("toBroker", j, q)' => At("toBroker", j + 1, q)
    BY <1>1, <1>2, TailPlaces
  <2>2. \A a \in Places : \A j, q : a # "toBroker" /\ At(a, j, q)' => At(a, j, q)
    BY <1>2 DEF At, Places
  <2>3. QED
    BY <2>1, <2>2, StayShift DEF Places
<1>10. OneAtATime'
  <2>1. PacketsMove(ShiftOf("toBroker"), "", 0)
    BY <1>9 DEF PacketsMove, PacketsStay
  <2>2. QED
    BY <2>1, Shifts, OneAtATimeMoves DEF AInv
<1>11. ASSUME NEW a, NEW j, NEW q, At(a, j, q)' PROVE Meant(q) /\ ~Same(p, q)
  <2>1. At(a, j + ShiftOf("toBroker")[a], q)
    BY <1>9, <1>11 DEF PacketsStay
  <2>2. a \in Places /\ j \in Nat \ {0}
    BY <1>11, NewPlaces
  <2>3. a = "toBroker" => j + ShiftOf("toBroker")[a] # 1
    BY <2>2, Shifts
  <2>4. QED
    BY <1>1, <2>1, <2>3 DEF AInv, AllMeant
<1>12. Exchanged'
  <2>1. ASSUME NEW k \in DOMAIN pending', NEW l \in DOMAIN pending', pending'[k].n = pending'[l].n
        PROVE  k = l
    <3>1. PICK a \in DOMAIN pending : pending'[k] = pending[a]
      BY <1>6
    <3>2. PICK b \in DOMAIN pending : pending'[l] = pending[b]
      BY <1>6
    <3>3. a = b
      BY <2>1, <3>1, <3>2 DEF AInv, Exchanged
    <3>4. QED
      BY <1>6, <3>1, <3>2, <3>3
  <2>2. ASSUME NEW k \in DOMAIN pending'
        PROVE  /\ pending'[k].qos = plan.in[pending'[k].n] /\ pending'[k].n <= sent
               /\ \/ pending'[k].next = AnswerTo(pending'[k].qos)
                  \/ pending'[k].qos = 2 /\ pending'[k].next = "PUBCOMP"
    BY <1>6 DEF AInv, Exchanged
  <2>3. QED
    BY <1>2, <1>6, <2>1, <2>2 DEF Exchanged
<1>13. Half'
  <2>1. SUFFICES
          /\ \A k \in DOMAIN inbound : \E l \in DOMAIN pending' :
               pending'[l].id = inbound[k].id /\ pending'[l].n = inbound[k].n /\ pending'[l].qos = 2
          /\ \A k \in DOMAIN pending' : pending'[k].qos = 2 =>
               /\ pending'[k].id \in Got \/ pending'[k].next = "PUBREC" => pending'[k].n \notin Taken
               /\ pending'[k].next = "PUBCOMP" /\ pending'[k].id \notin Got => pending'[k].n \in Taken
    BY <1>2, <1>7, <1>8 DEF Half
  <2>2. /\ \A k \in DOMAIN inbound : \E l \in DOMAIN pending :
             pending[l].id = inbound[k].id /\ pending[l].n = inbound[k].n /\ pending[l].qos = 2
        /\ \A k \in DOMAIN pending : pending[k].qos = 2 =>
             /\ pending[k].id \in Got \/ pending[k].next = "PUBREC" => pending[k].n \notin Taken
             /\ pending[k].next = "PUBCOMP" /\ pending[k].id \notin Got => pending[k].n \in Taken
    BY <1>1 DEF AInv, Ledger, Half
  <2>3. ASSUME NEW k \in DOMAIN inbound
        PROVE  \E l \in DOMAIN pending' :
               pending'[l].id = inbound[k].id /\ pending'[l].n = inbound[k].n /\ pending'[l].qos = 2
    <3>1. PICK l \in DOMAIN pending :
             pending[l].id = inbound[k].id /\ pending[l].n = inbound[k].n /\ pending[l].qos = 2
      BY <2>2
    <3>2. inbound[k].id \in Got
      BY DEF Got
    <3>3. l # g
      BY <1>5, <3>1, <3>2
    <3>4. QED
      BY <1>6, <3>1, <3>3
  <2>4. QED
    BY <1>6, <2>2, <2>3
<1>14. KeptUntilTaken'
  <2>1. SUFFICES ASSUME ~plan.clean, NEW n \in 1..sent, plan.in[n] # 0
                 PROVE  (\E k \in DOMAIN pending' : pending'[k].n = n) \/ n \in Taken
    BY <1>1, <1>2, <1>8 DEF KeptUntilTaken
  <2>2. (\E k \in DOMAIN pending : pending[k].n = n) \/ n \in Taken
    BY <1>1, <2>1 DEF AInv, Ledger, KeptUntilTaken
  <2>3. QED
    BY <1>5, <1>6, <2>2
<1>15. \A k \in DOMAIN pending : pending[k].id # p.id =>
         \E l \in DOMAIN pending' : pending'[l] = pending[k]
  BY <1>5, <1>6
<1>16. p.type # "PUBREC"
  OBVIOUS
<1>17. NothingNew
  <2>1. Theirs' \subseteq Theirs
    BY <1>6 DEF Theirs
  <2>2. InHand' = InHand /\ OnTheWay' = OnTheWay
    BY <1>2 DEF InHand, OnTheWay
  <2>3. QED
    BY <1>2, <1>7, <2>1, <2>2, NothingNewInStore, StillHeld
<1>18. QED
  BY <1>1, <1>2, <1>10, <1>11, <1>12, <1>13, <1>14, <1>15, <1>16, <1>17, AnswerRead

LEMMA BrokerAckArrival ==
  ASSUME Typed, Typed', Session, AInv, BrokerAck
  PROVE  AInv' /\ NothingNew
<1>1. Head(toBroker).type \in {"PUBREC", "PUBACK", "PUBCOMP"}
  BY DEF BrokerAck, BrokerReads
<1>2. QED
  BY <1>1, BrokerAckRec, BrokerAckLast

\* the identifier of a new message is that of no other
LEMMA FreeId ==
  ASSUME Typed, \E i \in MsgIds : Found(pending, i) = 0
  PROVE  LET id == CHOOSE i \in MsgIds : Found(pending, i) = 0 /\ \A j \in 1..(i - 1) : Found(pending, j) # 0
         IN  id \in MsgIds /\ \A k \in DOMAIN pending : pending[k].id # id
<1> DEFINE id == CHOOSE i \in MsgIds : Found(pending, i) = 0 /\ \A j \in 1..(i - 1) : Found(pending, j) # 0
           T == {i \in Nat : i \in MsgIds /\ Found(pending, i) = 0}
<1>1. T # {} /\ T \subseteq Nat
  BY KeyTypes
<1>2. PICK i \in T : \A j \in T : i <= j
  <2> HIDE DEF T
  <2>1. QED
    BY <1>1, LeastNumber
<1>3. i \in MsgIds /\ Found(pending, i) = 0 /\ i \in Nat
  BY <1>2
<1>4. \A j \in 1..(i - 1) : Found(pending, j) # 0
  <2>1. SUFFICES ASSUME NEW j \in 1..(i - 1), Found(pending, j) = 0 PROVE FALSE
    OBVIOUS
  <2>2. j \in MsgIds /\ j \in Nat /\ ~(i <= j)
    BY <1>3, MaxMsgIdAssumption DEF MsgIds
  <2>3. j \in T
    BY <2>1, <2>2
  <2>4. QED
    BY <1>2, <2>2, <2>3
<1>5. id \in MsgIds /\ Found(pending, id) = 0
  BY <1>3, <1>4
<1> HIDE DEF id
<1>6. pending \in Seq(Exchanges)
  BY NetworkTypes
<1>7. QED
  BY <1>5, <1>6, FoundProperties DEF id

LEMMA BrokerSendArrival ==
  ASSUME Typed, Typed', Session, AInv, BrokerSend
  PROVE  AInv'
<1> DEFINE n == sent + 1
           qos == plan.in[n]
           id == CHOOSE i \in MsgIds : Found(pending, i) = 0 /\ \A j \in 1..(i - 1) : Found(pending, j) # 0
           m == [id |-> id, n |-> n, qos |-> qos, next |-> AnswerTo(qos)]
           x == PubPacket(m, FALSE)
           longer == Append(pending, m)
           more == Append(toClient, x)
<1>1. /\ n \in In /\ \E i \in MsgIds : Found(pending, i) = 0
      /\ sent' = n
      /\ pending' = (IF qos = 0 THEN pending ELSE longer)
      /\ toClient' = (IF link THEN more ELSE toClient)
      /\ UNCHANGED <<plan, running, connected, inbound, messageQueue, arrived, todo, store, link, toBroker>>
  BY DEF BrokerSend, memory
<1>2. id \in MsgIds /\ \A k \in DOMAIN pending : pending[k].id # id
  BY <1>1, FreeId
<1>3. /\ m.id = id /\ m.n = n /\ m.qos = qos /\ m.next = AnswerTo(qos)
      /\ x.type = "PUBLISH" /\ x.id = id /\ x.n = n /\ x.qos = qos
  BY DEF PubPacket, Packet
<1>4. n = sent + 1 /\ n \in Nat /\ sent \in Nat /\ qos \in 0..2 /\ qos = plan.in[n]
      /\ ~(n <= sent) /\ \A y \in In : y <= sent => y <= n
  <2>1. sent \in Nat /\ qos \in 0..2
    BY <1>1, PlanTypes DEF Typed, ClientTyped
  <2>2. ~(n <= sent) /\ \A y \in In : y <= sent => y <= n
    BY <2>1 DEF In
  <2>3. QED
    BY <2>1, <2>2
<1>5. AnswerTo(qos) # "PUBCOMP" /\ (qos = 2 => AnswerTo(qos) = "PUBREC")
  BY DEF AnswerTo
<1> HIDE DEF x, m, id, qos, n
<1>6. /\ DOMAIN todo' = DOMAIN todo /\ UNCHANGED <<Waiting, Arrived, Coming, Got, Taken>>
  <2>1. UNCHANGED <<Waiting, Arrived, Coming, Got>>
    BY <1>1 DEF Waiting, Arrived, Coming, Got
  <2>2. QED
    BY <1>1, <2>1 DEF Taken
<1>7. /\ Taken \subseteq In /\ \A k \in DOMAIN pending : pending[k].n \in In /\ pending[k].n <= sent
      /\ Taken \subseteq Nat
  <2>1. Arrived \subseteq In
    BY DEF Typed, NetworkTyped, Arrived
  <2>2. Waiting \subseteq In
    <3>1. \A k \in DOMAIN messageQueue : messageQueue[k] \in Entries
      BY QueueTypes
    <3>2. QED
      BY <3>1 DEF Entries, Waiting
  <2>3. Coming \subseteq In
    BY EffectCases DEF Typed, EffectsTyped, Coming
  <2>4. \A k \in DOMAIN pending : pending[k].n \in In /\ pending[k].n <= sent
    <3>1. pending \in Seq(Exchanges)
      BY NetworkTypes
    <3>2. \A k \in DOMAIN pending : pending[k] \in Exchanges
      BY <3>1
    <3>3. QED
      BY <3>2 DEF Exchanges, AInv, Exchanged
  <2>5. QED
    BY <2>1, <2>2, <2>3, <2>4 DEF Taken, In
<1>8. n \notin Taken /\ \A k \in DOMAIN pending : pending[k].n # n
  BY <1>4, <1>7 DEF AInv, Sent
<1>9. /\ \A k \in DOMAIN pending : k \in DOMAIN pending' /\ pending'[k] = pending[k]
      /\ \A k \in DOMAIN pending' : \/ k \in DOMAIN pending /\ pending'[k] = pending[k]
                                    \/ qos # 0 /\ k = Len(pending) + 1 /\ pending'[k] = m
      /\ qos # 0 => \E k \in DOMAIN pending' : pending'[k] = m
  <2>1. pending \in Seq(Exchanges \cup {m})
    <3>1. pending \in Seq(Exchanges)
      BY NetworkTypes
    <3>2. QED
      BY <3>1
  <2>2. /\ \A k \in DOMAIN pending : k \in DOMAIN longer /\ longer[k] = pending[k]
        /\ \A k \in DOMAIN longer : (k \in DOMAIN pending /\ longer[k] = pending[k])
                                    \/ (k = Len(pending) + 1 /\ longer[k] = m)
        /\ \E k \in DOMAIN longer : longer[k] = m
    BY <2>1, Appended
  <2> HIDE DEF longer
  <2>3. QED
    BY <1>1, <2>2
<1>10. ASSUME NEW a, NEW j, NEW q, At(a, j, q)'
       PROVE  At(a, j, q) \/ (a = "toClient" /\ j = Len(toClient) + 1 /\ q = x)
  <2>1. a \in Places
    BY <1>10, NewPlaces
  <2>2. CASE a # "toClient" \/ ~link
    BY <1>1, <1>10, <2>1, <2>2 DEF At, Places
  <2>3. CASE a = "toClient" /\ link
    <3>1. toClient \in Seq(Packets(In) \cup {x})
      <4>1. toClient \in Seq(Packets(In))
        BY DEF Typed, NetworkTyped
      <4>2. QED
        BY <4>1
    <3>2. \A k \in DOMAIN more : (k \in DOMAIN toClient /\ more[k] = toClient[k])
                                \/ (k = Len(toClient) + 1 /\ more[k] = x)
      BY <3>1, Appended
    <3> HIDE DEF more
    <3>3. toClient' = more
      BY <1>1, <2>3
    <3>4. QED
      BY <1>10, <2>3, <3>2, <3>3 DEF At
  <2>4. QED
    BY <2>2, <2>3
<1>11. ASSUME NEW a, NEW j, NEW q, At(a, j, q) PROVE ~Same(x, q)
  <2>1. Meant(q)
    BY <1>11 DEF AInv, AllMeant
  <2>2. Free(q) => q.n # n
    BY <1>4, <2>1 DEF Meant, Free
  <2>3. ~Free(q) => q.id # id
    BY <1>2, <2>1 DEF Meant, Of
  <2>4. QED
    BY <1>3, <2>2, <2>3 DEF Same
<1>12. OneAtATime'
  <2>1. PacketsMove(ShiftOf(""), "toClient", Len(toClient) + 1)
    <3>1. ASSUME NEW a, NEW j, NEW q, At(a, j, q)'
          PROVE  \/ At(a, j + ShiftOf("")[a], q)
                 \/ /\ a = "toClient" /\ j = Len(toClient) + 1
                    /\ \A b, k, r : At(b, k, r) /\ Same(q, r) => b \in Places /\ ShiftOf("")[b] = 1 /\ k = 1
      <4>1. a \in Places /\ j \in Nat /\ a # ""
        BY <3>1, NewPlaces DEF Places
      <4>2. j + ShiftOf("")[a] = j
        BY <4>1, Shifts
      <4>3. QED
        BY <1>10, <1>11, <3>1, <4>2
    <3>2. QED
      BY <3>1 DEF PacketsMove
  <2>2. QED
    BY <2>1, Shifts, OneAtATimeMoves DEF AInv
<1>13. AllMeant'
  <2>1. SUFFICES ASSUME NEW a, NEW j, NEW q, At(a, j, q)' PROVE Meant(q)'
    BY DEF AllMeant
  <2>2. CASE At(a, j, q)
    <3>1. Meant(q) /\ (q.type = "PUBLISH" => q.n \in In)
      BY <2>2, AtTypes DEF AInv, AllMeant
    <3>2. ASSUME NEW k \in DOMAIN pending, Of(pending[k], q)
          PROVE  k \in DOMAIN pending' /\ Of(pending[k], q)'
      BY <1>6, <1>9, <3>2 DEF Of
    <3>3. q.type = "PUBLISH" => q.qos = plan'.in[q.n] /\ q.n <= sent'
      BY <1>1, <1>4, <3>1 DEF Meant
    <3>4. Free(q) => q.n \notin Taken'
      BY <1>6, <3>1 DEF Meant
    <3>5. ~Free(q) => \E k \in DOMAIN pending' : Of(pending[k], q)'
      BY <3>1, <3>2 DEF Meant
    <3>6. QED
      BY <3>3, <3>4, <3>5 DEF Meant, Free
  <2>3. CASE q = x
    <3>1. q.type = "PUBLISH" /\ q.id = id /\ q.n = n /\ q.qos = qos
      BY <1>3, <2>3
    <3>2. q.qos = plan'.in[q.n] /\ q.n <= sent' /\ q.n \notin Taken'
      BY <1>1, <1>4, <1>6, <1>8, <3>1
    <3>3. q.qos # 0 => \E k \in DOMAIN pending' : Of(pending[k], q)'
      BY <1>3, <1>5, <1>9, <3>1 DEF Of
    <3>4. QED
      BY <3>1, <3>2, <3>3 DEF Meant, Free
  <2>4. QED
    BY <1>10, <2>1, <2>2, <2>3
<1>14. Exchanged'
  <2>1. \A k, l \in DOMAIN pending' :
          pending'[k].id = pending'[l].id \/ pending'[k].n = pending'[l].n => k = l
    <3>1. \A k, l \in DOMAIN pending : pending[k].id = pending[l].id \/ pending[k].n = pending[l].n => k = l
      BY DEF AInv, Exchanged
    <3>2. QED
      BY <1>2, <1>3, <1>8, <1>9, <3>1
  <2>2. \A k \in DOMAIN pending' :
          /\ pending'[k].qos = plan'.in[pending'[k].n] /\ pending'[k].n <= sent'
          /\ \/ pending'[k].next = AnswerTo(pending'[k].qos)
             \/ pending'[k].qos = 2 /\ pending'[k].next = "PUBCOMP"
    <3>1. \A k \in DOMAIN pending :
            /\ pending[k].qos = plan.in[pending[k].n] /\ pending[k].n <= n
            /\ \/ pending[k].next = AnswerTo(pending[k].qos)
               \/ pending[k].qos = 2 /\ pending[k].next = "PUBCOMP"
      BY <1>4, <1>7 DEF AInv, Exchanged
    <3>2. QED
      BY <1>1, <1>3, <1>4, <1>9, <3>1
  <2>3. QED
    BY <2>1, <2>2 DEF Exchanged
<1>15. \A k \in DOMAIN store.files : k[1] = "q-" => store.files[k] \in In /\ store.files[k] <= sent
  BY DEF Typed, StoreTyped, FileOK, AInv, Sent
<1>16. Sent'
  <2>1. \A y \in Taken : y <= n
    BY <1>4, <1>7 DEF AInv, Sent
  <2>2. QED
    BY <1>1, <1>4, <1>6, <1>15, <2>1 DEF Sent
<1>17. Once' /\ FilesAgree'
  BY <1>1, <1>6, NothingNewInStore, FilesAgreeStays DEF AInv, Once
<1>18. Shapes'
  <2>1. \A k \in DOMAIN pending :
           \E l \in DOMAIN pending' : pending'[l].id = pending[k].id /\ pending'[l].n = pending[k].n
    BY <1>9
  <2>2. QED
    BY <1>1, <2>1, ShapesKept DEF AInv
<1>19. Connections'
  BY <1>1 DEF AInv, Connections
<1>20. Half'
  <2>1. running /\ (connected \/ ~plan.clean) => Half'
    <3>1. SUFFICES ASSUME running /\ (connected \/ ~plan.clean)
           PROVE /\ \A i \in DOMAIN inbound : \E k \in DOMAIN pending' :
                      pending'[k].id = inbound[i].id /\ pending'[k].n = inbound[i].n /\ pending'[k].qos = 2
                 /\ \A k \in DOMAIN pending' : pending'[k].qos = 2 =>
                      /\ pending'[k].id \in Got \/ pending'[k].next = "PUBREC" => pending'[k].n \notin Taken
                      /\ pending'[k].next = "PUBCOMP" /\ pending'[k].id \notin Got => pending'[k].n \in Taken
      BY <1>1, <1>6 DEF Half
    <3>2. /\ \A i \in DOMAIN inbound : \E k \in DOMAIN pending :
                      pending[k].id = inbound[i].id /\ pending[k].n = inbound[i].n /\ pending[k].qos = 2
          /\ \A k \in DOMAIN pending : pending[k].qos = 2 =>
                      /\ pending[k].id \in Got \/ pending[k].next = "PUBREC" => pending[k].n \notin Taken
                      /\ pending[k].next = "PUBCOMP" /\ pending[k].id \notin Got => pending[k].n \in Taken
      BY <3>1 DEF AInv, Ledger, Half
    <3>3. \A i \in DOMAIN inbound : \E k \in DOMAIN pending' :
                      pending'[k].id = inbound[i].id /\ pending'[k].n = inbound[i].n /\ pending'[k].qos = 2
      BY <1>9, <3>2
    <3>4. QED
      BY <1>3, <1>5, <1>8, <1>9, <3>2, <3>3
  <2>2. QED
    BY <1>1, <2>1 DEF Half
<1>21. FilesHalf'
  <2>1. ASSUME ~running, ~plan.clean PROVE FilesHalf'
    <3>1. /\ \A k \in DOMAIN store.files : k[1] = "r-" => \E i \in DOMAIN pending :
                pending[i].id = k[2] /\ pending[i].n = store.files[k].n /\ pending[i].qos = 2
          /\ \A k \in DOMAIN pending : pending[k].qos = 2 =>
               /\ File(ReceivedKey(pending[k].id)) \/ pending[k].next = "PUBREC" =>
                    pending[k].n \notin TakenInFiles
               /\ pending[k].next = "PUBCOMP" /\ ~File(ReceivedKey(pending[k].id)) =>
                    pending[k].n \in TakenInFiles
          /\ \A k \in DOMAIN store.files : k[1] = "q-" /\ plan.in[store.files[k]] # 1 =>
               /\ store.files[k] \notin Arrived
               /\ \A l \in DOMAIN store.files : l[1] = "q-" /\ store.files[l] = store.files[k] => k = l
      BY <2>1 DEF AInv, Ledger, FilesHalf
    <3>2. TakenInFiles' = TakenInFiles /\ n \notin TakenInFiles
      <4>1. TakenInFiles' = TakenInFiles
        BY <1>1, <1>6 DEF TakenInFiles, QueueFiles
      <4>2. n \notin QueueFiles
        BY <1>4, <1>15 DEF QueueFiles
      <4>3. QED
        BY <1>8, <4>1, <4>2 DEF TakenInFiles, Taken
    <3>3. \A k \in DOMAIN store.files : k[1] = "r-" => \E i \in DOMAIN pending' :
                pending'[i].id = k[2] /\ pending'[i].n = store.files[k].n /\ pending'[i].qos = 2
      BY <1>9, <3>1
    <3>4. PICK F : F = {id2 \in Nat : File(ReceivedKey(id2))}
      OBVIOUS
    <3>5. \A k \in DOMAIN pending' : pending'[k].qos = 2 =>
               /\ File(ReceivedKey(pending[k].id))' \/ pending'[k].next = "PUBREC" =>
                    pending'[k].n \notin TakenInFiles
               /\ pending'[k].next = "PUBCOMP" /\ ~File(ReceivedKey(pending[k].id))' =>
                    pending'[k].n \in TakenInFiles
      <4>1. SUFFICES ASSUME NEW k \in DOMAIN pending', pending'[k].qos = 2
                     PROVE  /\ File(ReceivedKey(pending[k].id))' \/ pending'[k].next = "PUBREC" =>
                                 pending'[k].n \notin TakenInFiles
                            /\ pending'[k].next = "PUBCOMP" /\ ~File(ReceivedKey(pending[k].id))' =>
                                 pending'[k].n \in TakenInFiles
        OBVIOUS
      <4>2. CASE k \in DOMAIN pending /\ pending'[k] = pending[k]
        <5>1. File(ReceivedKey(pending[k].id))' <=> File(ReceivedKey(pending[k].id))
          BY <1>1, <4>2 DEF File, ReceivedKey
        <5>2. QED
          BY <3>1, <4>1, <4>2, <5>1
      <4>3. CASE qos # 0 /\ pending'[k] = m
        BY <1>3, <1>5, <3>2, <4>1, <4>3
      <4>4. QED
        BY <1>9, <4>2, <4>3
    <3>6. QED
      BY <1>1, <1>6, <3>1, <3>2, <3>3, <3>5 DEF FilesHalf
  <2>2. QED
    BY <1>1, <2>1 DEF FilesHalf
<1>22. KeptUntilTaken'
  <2>1. SUFFICES ASSUME ~plan.clean, NEW y \in 1..n, plan.in[y] # 0
                 PROVE  \/ \E k \in DOMAIN pending' : pending'[k].n = y
                        \/ IF running THEN y \in Taken ELSE y \in TakenInFiles
    <3>1. TakenInFiles' = TakenInFiles
      BY <1>1, <1>6 DEF TakenInFiles, QueueFiles
    <3>2. QED
      BY <1>1, <1>6, <3>1 DEF KeptUntilTaken
  <2>2. CASE y = n
    BY <1>3, <1>4, <1>9, <2>1, <2>2
  <2>3. CASE y # n
    <3>1. y \in 1..sent
      BY <1>4, <2>1, <2>3
    <3>2. \/ \E k \in DOMAIN pending : pending[k].n = y
          \/ IF running THEN y \in Taken ELSE y \in TakenInFiles
      BY <2>1, <3>1 DEF AInv, Ledger, KeptUntilTaken
    <3>3. QED
      BY <1>9, <3>2
  <2>4. QED
    BY <2>2, <2>3
<1>23. QED
  BY <1>12, <1>13, <1>14, <1>16, <1>17, <1>18, <1>19, <1>20, <1>21, <1>22 DEF AInv, Ledger

-----------------------------------------------------------------------------
(* Connections                                                              *)

\* nothing is to be done and nothing is on its way
Quiet == todo = <<>> /\ toBroker = <<>> /\ toClient = <<>>

LEMMA WhenQuiet == Quiet => OneAtATime /\ AllMeant /\ Shapes /\ Coming = {} /\ \A a, i, p : ~At(a, i, p)
<1> SUFFICES ASSUME Quiet PROVE OneAtATime /\ AllMeant /\ Shapes /\ Coming = {} /\ \A a, i, p : ~At(a, i, p)
  OBVIOUS
<1> DEFINE none == <<>>
<1>1. DOMAIN none = {} /\ todo = none /\ toBroker = none /\ toClient = none
  BY DEF Quiet
<1> HIDE DEF none
<1>2. \A a, i, p : ~At(a, i, p)
  BY <1>1 DEF At
<1>3. QED
  BY <1>1, <1>2 DEF OneAtATime, AllMeant, Shapes, Coming

LEMMA QuietThen == Quiet' => OneAtATime' /\ AllMeant' /\ Shapes' /\ Coming' = {}
<1>1. (Quiet => OneAtATime /\ AllMeant /\ Shapes /\ Coming = {} /\ \A a, i, p : ~At(a, i, p))'
  BY WhenQuiet, PTL
<1>2. QED
  BY <1>1

LEMMA NoticeLostArrival ==
  ASSUME Typed, Typed', AInv, NoticeLost
  PROVE  AInv' /\ NothingNew
<1>1. /\ running /\ todo = <<>> /\ connected /\ ~link /\ connected' = FALSE
      /\ UNCHANGED <<plan, running, todo, link, toBroker, toClient, pending, sent, arrived, store>>
      /\ \/ plan.clean /\ inbound' = <<>> /\ messageQueue' = <<>>
         \/ ~plan.clean /\ UNCHANGED <<inbound, messageQueue>>
  BY DEF NoticeLost, Idle, Forgotten, PstClear, memory, network, broker
<1>2. Quiet /\ Quiet'
  BY <1>1 DEF AInv, Connections, Quiet
<1>3. OneAtATime' /\ AllMeant' /\ Shapes' /\ Coming' = {} /\ Coming = {} /\ Connections'
  BY <1>1, <1>2, WhenQuiet, QuietThen DEF AInv, Connections
<1>4. Exchanged'
  BY <1>1 DEF AInv, Exchanged
<1>5. Arrived' = Arrived
  BY <1>1 DEF Arrived
<1>6. ASSUME plan.clean PROVE AInv'
  <2>1. Waiting' = {}
    <3> DEFINE none == <<>>
    <3>1. DOMAIN none = {} /\ messageQueue' = none
      BY <1>1, <1>6
    <3> HIDE DEF none
    <3>2. QED
      BY <3>1 DEF Waiting
  <2>2. Taken' \subseteq Taken
    BY <1>3, <1>5, <2>1 DEF Taken
  <2>3. Sent'
    BY <1>1, <2>2 DEF AInv, Sent
  <2>4. Once' /\ FilesAgree' /\ Ledger'
    BY <1>1, <1>6 DEF Once, FilesAgree, Ledger, Half, FilesHalf, KeptUntilTaken
  <2>5. QED
    BY <1>3, <1>4, <2>3, <2>4 DEF AInv
<1>7. ASSUME ~plan.clean PROVE AInv'
  <2>1. UNCHANGED <<inbound, messageQueue>>
    BY <1>1, <1>7
  <2>2. UNCHANGED <<Waiting, Got>>
    BY <2>1 DEF Waiting, Got
  <2>3. UNCHANGED Taken
    BY <1>3, <1>5, <2>2 DEF Taken
  <2>4. Sent'
    BY <1>1, <2>3 DEF AInv, Sent
  <2>5. Once'
    BY <1>1, <1>3, <1>5, <1>7, <2>1, <2>2 DEF AInv, Once
  <2>6. FilesAgree'
    BY <1>1, <2>1, NothingNewInStore, FilesAgreeStays DEF AInv
  <2>7. Half' /\ FilesHalf' /\ KeptUntilTaken'
    BY <1>1, <1>7, <2>1, <2>2, <2>3 DEF AInv, Ledger, Half, FilesHalf, KeptUntilTaken
  <2>8. QED
    BY <1>3, <1>4, <2>4, <2>5, <2>6, <2>7 DEF AInv, Ledger
<1>8. NothingNew
  <2>1. Waiting' \subseteq Waiting /\ InHand' \subseteq InHand
    <3> DEFINE none == <<>>
    <3>1. DOMAIN none = {}
      OBVIOUS
    <3>2. \/ inbound' = none /\ messageQueue' = none
          \/ UNCHANGED <<inbound, messageQueue>>
      BY <1>1
    <3> HIDE DEF none
    <3>3. QED
      BY <3>1, <3>2 DEF Waiting, InHand
  <2>2. Theirs' = Theirs /\ OnTheWay' = OnTheWay
    BY <1>1 DEF Theirs, OnTheWay
  <2>3. QED
    BY <1>1, <1>3, <2>1, <2>2, NothingNewInStore, StillHeld
<1>9. QED
  BY <1>1, <1>6, <1>7, <1>8

LEMMA ConnectClean ==
  ASSUME Typed, Typed', AInv, Connect, plan.clean
  PROVE  AInv' /\ NothingNew
<1>1. /\ running /\ ~connected /\ connected' = TRUE /\ link' = TRUE
      /\ todo' = <<>> /\ toClient' = <<>> /\ pending' = <<>> /\ inbound' = <<>> /\ messageQueue' = <<>>
      /\ UNCHANGED <<plan, running, toBroker, sent, arrived, store>>
  BY DEF Connect, Idle, Forgotten, PstClear
<1>2. toBroker = <<>>
  BY <1>1 DEF AInv, Connections
<1>3. Quiet'
  BY <1>1, <1>2 DEF Quiet
<1>4. OneAtATime' /\ AllMeant' /\ Shapes' /\ Coming' = {} /\ Connections'
  BY <1>1, <1>3, QuietThen DEF Connections
<1> DEFINE none == <<>>
<1>5. DOMAIN none = {} /\ pending' = none /\ inbound' = none /\ messageQueue' = none
  BY <1>1
<1> HIDE DEF none
<1>6. Exchanged'
  BY <1>5 DEF Exchanged
<1>7. Half'
  BY <1>5 DEF Half
<1>8. Waiting' = {} /\ Arrived' = Arrived
  BY <1>1, <1>5 DEF Waiting, Arrived
<1>9. Once'
  BY <1>4, <1>5, <1>8 DEF Once
<1>10. Sent'
  BY <1>1, <1>4, <1>8 DEF AInv, Sent, Taken
<1>11. FilesAgree' /\ FilesHalf' /\ KeptUntilTaken'
  BY <1>1 DEF FilesAgree, FilesHalf, KeptUntilTaken
<1>12. NothingNew
  <2>1. Theirs' = {} /\ InHand' = {} /\ OnTheWay' = {}
    BY <1>1, <1>5, PacketsOnTheWay DEF Theirs, InHand
  <2>2. QED
    BY <1>1, <1>4, <1>8, <2>1, NothingNewInStore, StillHeld
<1>13. QED
  BY <1>4, <1>6, <1>7, <1>9, <1>10, <1>11, <1>12 DEF AInv, Ledger

LEMMA ConnectKept ==
  ASSUME Typed, Typed', AInv, Connect, ~plan.clean
  PROVE  AInv' /\ NothingNew
<1> DEFINE packets == [i \in DOMAIN pending |-> BrokerPacket(pending[i])]
<1>1. /\ running /\ ~connected /\ connected' = TRUE /\ link' = TRUE /\ todo = <<>>
      /\ toClient' = packets /\ todo' = <<TryQueue>> \o Resends(outbound)
      /\ UNCHANGED <<plan, running, toBroker, sent, arrived, store, inbound, messageQueue, pending>>
  BY DEF Connect, Idle, memory
<1>2. toBroker = <<>> /\ toClient = <<>>
  BY <1>1 DEF AInv, Connections
<1>3. Coming = {}
  BY <1>1, <1>2, WhenQuiet DEF Quiet
<1>4. \A j \in DOMAIN todo' : IsOutward(todo'[j])
  <2>1. outbound \in Seq(OutMessages)
    BY DEF Typed, ClientTyped
  <2>2. Resends(outbound) \in Seq(Outward)
    BY <2>1, ResendsOutward
  <2>3. PICK s : s = Resends(outbound)
    OBVIOUS
  <2>4. <<TryQueue>> \o s \in Seq(Outward)
    BY <2>2, <2>3, OutwardEffects, Joined
  <2>5. QED
    BY <1>1, <2>3, <2>4, OutwardSequence
<1>5. Shapes' /\ Coming' = {} /\ \A i, p : ~At("todo", i, p)'
  BY <1>4, OutwardWork
<1>6. ASSUME NEW a, NEW i, NEW q, At(a, i, q)'
      PROVE  a = "toClient" /\ i \in DOMAIN pending /\ q = BrokerPacket(pending[i])
  <2>1. a # "toBroker"
    <3> DEFINE none == <<>>
    <3>1. DOMAIN none = {} /\ toBroker' = none
      BY <1>1, <1>2
    <3> HIDE DEF none
    <3>2. QED
      BY <1>6, <3>1 DEF At
  <2>2. a = "toClient"
    BY <1>5, <1>6, <2>1 DEF At
  <2>3. QED
    BY <1>1, <1>6, <2>2 DEF At
<1> HIDE DEF packets
<1>7. \A i \in DOMAIN pending : pending[i].qos \in {1, 2} /\ pending[i].n \in In
  <2>1. \A i \in DOMAIN pending : pending[i] \in Exchanges
    BY NetworkTypes
  <2>2. QED
    BY <2>1 DEF Exchanges
<1>8. \A i \in DOMAIN pending :
        LET q == BrokerPacket(pending[i])
        IN  /\ q.id = pending[i].id /\ ~Free(q)
            /\ q.type = IF pending[i].next = "PUBCOMP" THEN "PUBREL" ELSE "PUBLISH"
            /\ q.type = "PUBLISH" => q.n = pending[i].n /\ q.qos = pending[i].qos
  <2>1. SUFFICES ASSUME NEW i \in DOMAIN pending
        PROVE  LET q == BrokerPacket(pending[i])
               IN  /\ q.id = pending[i].id /\ ~Free(q)
                   /\ q.type = IF pending[i].next = "PUBCOMP" THEN "PUBREL" ELSE "PUBLISH"
                   /\ q.type = "PUBLISH" => q.n = pending[i].n /\ q.qos = pending[i].qos
    OBVIOUS
  <2>2. CASE pending[i].next = "PUBCOMP"
    BY <2>2 DEF BrokerPacket, Packet, Free
  <2>3. CASE pending[i].next # "PUBCOMP"
    BY <1>7, <2>3 DEF BrokerPacket, Packet, Free
  <2>4. QED
    BY <2>2, <2>3
<1>9. OneAtATime'
  <2>1. SUFFICES ASSUME NEW a, NEW b, NEW i, NEW j, NEW p, NEW q,
                        At(a, i, p)', At(b, j, q)', Same(p, q)
                 PROVE  a = b /\ i = j
    BY DEF OneAtATime, Same, Free
  <2>2. /\ a = "toClient" /\ i \in DOMAIN pending /\ p = BrokerPacket(pending[i])
        /\ b = "toClient" /\ j \in DOMAIN pending /\ q = BrokerPacket(pending[j])
    BY <1>6, <2>1
  <2>3. p.id = pending[i].id /\ q.id = pending[j].id /\ ~Free(p) /\ ~Free(q)
    BY <1>8, <2>2
  <2>4. QED
    BY <2>1, <2>2, <2>3 DEF Same, AInv, Exchanged
<1>10. AllMeant'
  <2>1. SUFFICES ASSUME NEW a, NEW i, NEW q, At(a, i, q)' PROVE Meant(q)'
    BY DEF AllMeant
  <2>2. i \in DOMAIN pending /\ q = BrokerPacket(pending[i])
    BY <1>6, <2>1
  <2>3. /\ q.id = pending[i].id /\ ~Free(q)
        /\ q.type = IF pending[i].next = "PUBCOMP" THEN "PUBREL" ELSE "PUBLISH"
        /\ q.type = "PUBLISH" => q.n = pending[i].n /\ q.qos = pending[i].qos
    BY <1>8, <2>2
  <2>4. pending[i].qos = plan.in[pending[i].n] /\ pending[i].n <= sent
    BY <2>2 DEF AInv, Exchanged
  <2>5. Of(pending[i], q)'
    BY <1>1, <2>3 DEF Of
  <2>6. q.type = "PUBLISH" => q.qos = plan'.in[q.n] /\ q.n <= sent'
    BY <1>1, <2>3, <2>4
  <2>7. i \in DOMAIN pending'
    BY <1>1, <2>2
  <2>8. QED
    BY <2>3, <2>5, <2>6, <2>7 DEF Meant, Free
<1>11. UNCHANGED <<Waiting, Arrived, Got>>
  BY <1>1 DEF Waiting, Arrived, Got
<1>12. UNCHANGED Taken
  BY <1>3, <1>5, <1>11 DEF Taken
<1>13. Exchanged' /\ Sent' /\ Connections'
  BY <1>1, <1>12 DEF AInv, Exchanged, Sent, Connections
<1>14. Once'
  BY <1>1, <1>3, <1>5, <1>11 DEF AInv, Once
<1>15. FilesAgree'
  BY <1>1, NothingNewInStore, FilesAgreeStays DEF AInv
<1>16. Half' /\ FilesHalf' /\ KeptUntilTaken'
  BY <1>1, <1>11, <1>12 DEF AInv, Ledger, Half, FilesHalf, KeptUntilTaken
<1>17. NothingNew
  <2>1. \A i \in DOMAIN pending : BrokerPacket(pending[i]).n \in {pending[i].n, 0}
    BY DEF BrokerPacket, Packet
  <2>2. DOMAIN toClient' = DOMAIN pending /\ \A i \in DOMAIN pending : toClient'[i] = BrokerPacket(pending[i])
    BY <1>1 DEF packets
  <2>3. OnTheWay' \subseteq Theirs \cup {0}
    BY <2>1, <2>2 DEF OnTheWay, Theirs
  <2>4. UNCHANGED <<Theirs, InHand>>
    BY <1>1 DEF Theirs, InHand
  <2>5. QED
    BY <1>1, <1>5, <1>11, <2>3, <2>4, NothingNewInStore, StillHeld
<1>18. QED
  BY <1>5, <1>9, <1>10, <1>13, <1>14, <1>15, <1>16, <1>17 DEF AInv, Ledger

-----------------------------------------------------------------------------
(* The end of a process                                                     *)

\* a message that is still to be delivered is with the broker too
LEMMA ComingPlace ==
  ASSUME Typed, AInv, ~Handling, NEW n \in Coming
  PROVE  \E k \in DOMAIN pending :
           /\ pending[k].n = n
           /\ pending[k].qos = 2 /\ ~plan.clean => File(ReceivedKey(pending[k].id))
<1>1. PICK j \in DOMAIN todo : todo[j].op = "deliver" /\ todo[j].n = n
  BY DEF Coming
<1>2. DeliverPlace(j) /\ 1 \in DOMAIN todo /\ todo # <<>> /\ Head(todo) = todo[1]
  <2>1. 1 \in DOMAIN todo
    BY <1>1, FirstOfTodo
  <2>2. todo # <<>>
    <3> DEFINE none == <<>>
    <3>1. DOMAIN none = {}
      OBVIOUS
    <3> HIDE DEF none
    <3>2. todo # none
      BY <2>1, <3>1
    <3>3. QED
      BY <3>2 DEF none
  <2>3. QED
    BY <1>1, <2>1, <2>2, TodoTyped DEF AInv, Shapes
<1>3. j # 1
  BY <1>1, <1>2 DEF Handling
<1>4. PICK k \in DOMAIN pending : pending[k].id = todo[1].packet.id /\ pending[k].n = n
  BY <1>1, <1>2, <1>3 DEF DeliverPlace
<1>5. ASSUME pending[k].qos = 2, ~plan.clean PROVE File(ReceivedKey(pending[k].id))
  <2> DEFINE p == todo[1].packet
  <2>1. todo[1].op = "write" /\ p.type \in {"PUBACK", "PUBCOMP"}
        /\ (p.type = "PUBCOMP" => File(ReceivedKey(p.id)))
    BY <1>2, <1>3, <1>5 DEF DeliverPlace
  <2>2. At("todo", 1, p)
    BY <1>2, <2>1 DEF At, Answers
  <2>3. p.type # "PUBACK"
    <3>1. SUFFICES ASSUME p.type = "PUBACK" PROVE FALSE
      OBVIOUS
    <3>2. PICK l \in DOMAIN pending : pending[l].id = p.id /\ pending[l].qos = 1
      BY <2>2, <3>1 DEF AInv, AllMeant, Meant, Of, Free
    <3>3. l = k
      BY <1>4, <3>2 DEF AInv, Exchanged
    <3>4. QED
      BY <1>5, <3>2, <3>3
  <2>4. QED
    BY <1>4, <2>1, <2>3
<1>6. QED
  BY <1>4, <1>5

\* the files of the queue are the queue
LEMMA QueueInFiles ==
  ASSUME Typed, Session, AInv, running, ~plan.clean, ~Handling
  PROVE  /\ QueueFiles = Waiting
         /\ \A k \in DOMAIN store.files : k[1] = "q-" =>
              \E i \in DOMAIN messageQueue :
                k[2] = messageQueue[i].seqno /\ store.files[k] = messageQueue[i].n
<1>1. \A j \in DOMAIN todo : j = 1 => Head(todo) = todo[1] /\ todo # <<>>
  <2> DEFINE none == <<>>
  <2>1. DOMAIN none = {}
    OBVIOUS
  <2> HIDE DEF none
  <2>2. \A j \in DOMAIN todo : todo # none
    BY <2>1
  <2>3. QED
    BY <2>2, TodoTyped DEF none
<1>2. ASSUME NEW k \in DOMAIN store.files, k[1] = "q-"
      PROVE  \E i \in DOMAIN messageQueue :
               k[2] = messageQueue[i].seqno /\ store.files[k] = messageQueue[i].n
  <2>1. ~HasRemove(k)
    <3>1. SUFFICES ASSUME NEW j \in DOMAIN todo, todo[j].op = "remove", todo[j].key = k PROVE FALSE
      BY DEF HasRemove
    <3>2. j = 1
      BY <1>2, <3>1 DEF AInv, Shapes
    <3>3. QED
      BY <1>1, <1>2, <3>1, <3>2 DEF Handling
  <2>2. PICK i \in DOMAIN messageQueue : k[2] = messageQueue[i].seqno
    BY <1>2, <2>1 DEF Session, NothingElse, InMemory
  <2>3. k = QueueKey(messageQueue[i].seqno)
    BY <1>2, <2>2, StemsOf DEF Typed, StoreTyped, QueueKey
  <2>4. QED
    BY <1>2, <2>2, <2>3 DEF AInv, FilesAgree, File
<1>3. ASSUME NEW i \in DOMAIN messageQueue PROVE messageQueue[i].n \in QueueFiles
  <2>1. Kept(QueueKey(messageQueue[i].seqno), messageQueue[i].n)
    BY DEF Session, Saved, QueueSaved
  <2>2. ~HasPut(QueueKey(messageQueue[i].seqno), messageQueue[i].n)
    <3>1. SUFFICES ASSUME NEW j \in DOMAIN todo, todo[j].op = "put", todo[j].key[1] = "q-" PROVE FALSE
      BY DEF HasPut, QueueKey
    <3>2. j = 1
      BY <3>1 DEF Session, PutsKnown, PutKnown
    <3>3. QED
      BY <1>1, <3>1, <3>2 DEF Handling
  <2>3. FileIs(QueueKey(messageQueue[i].seqno), messageQueue[i].n)
    BY <2>1, <2>2 DEF Kept
  <2>4. QED
    BY <2>3 DEF FileIs, QueueFiles, QueueKey
<1>4. QueueFiles \subseteq Waiting
  BY <1>2 DEF QueueFiles, Waiting
<1>5. Waiting \subseteq QueueFiles
  BY <1>3 DEF Waiting
<1>6. QED
  BY <1>2, <1>4, <1>5

\* the files of the inbound messages are these messages, or one that is delivered
LEMMA InboundInFiles ==
  ASSUME Typed, Session, AInv, running, ~plan.clean, ~Handling,
         NEW k \in DOMAIN store.files, k[1] = "r-"
  PROVE  \E i \in DOMAIN pending :
           /\ pending[i].id = k[2] /\ pending[i].n = store.files[k].n /\ pending[i].qos = 2
           /\ pending[i].n \notin Arrived \cup Waiting
<1>1. /\ \A i \in DOMAIN inbound : \E l \in DOMAIN pending :
           pending[l].id = inbound[i].id /\ pending[l].n = inbound[i].n /\ pending[l].qos = 2
      /\ \A l \in DOMAIN pending : pending[l].qos = 2 /\ pending[l].id \in Got => pending[l].n \notin Taken
  BY DEF AInv, Ledger, Half
<1>2. CASE InMemory(k)
  <2>1. PICK i \in DOMAIN inbound : k[2] = inbound[i].id
    BY <1>2 DEF InMemory
  <2>2. k = ReceivedKey(inbound[i].id)
    BY <2>1, StemsOf DEF Typed, StoreTyped, ReceivedKey
  <2>3. store.files[k].n = inbound[i].n
    BY <2>2 DEF AInv, FilesAgree, File
  <2>4. inbound[i].id \in Got
    BY DEF Got
  <2>5. QED
    BY <1>1, <2>1, <2>3, <2>4 DEF Taken
<1>3. CASE HasRemove(k)
  <2>1. PICK j \in DOMAIN todo : todo[j].op = "remove" /\ todo[j].key = k
    BY <1>3 DEF HasRemove
  <2>2. RemovalPlace(j)
    BY <2>1 DEF AInv, Shapes, File
  <2>3. 1 \in DOMAIN todo /\ todo # <<>> /\ Head(todo) = todo[1]
    <3> DEFINE none == <<>>
    <3>1. DOMAIN none = {}
      OBVIOUS
    <3> HIDE DEF none
    <3>2. todo # none
      BY <2>1, <3>1
    <3>3. QED
      BY <2>1, <3>2, FirstOfTodo, TodoTyped DEF none
  <2>4. /\ j = 3 /\ todo[1].op = "write" /\ todo[1].packet.type = "PUBCOMP"
        /\ todo[1].packet.id = k[2]
        /\ todo[2].op = "deliver" /\ todo[2].n = store.files[k].n
    BY <2>1, <2>2, <2>3 DEF RemovalPlace, Handling
  <2>5. 2 \in DOMAIN todo
    BY <2>1, <2>4 DEF Typed, EffectsTyped
  <2>6. PICK l \in DOMAIN pending : pending[l].id = k[2] /\ pending[l].n = store.files[k].n
    BY <2>4, <2>5 DEF AInv, Shapes, DeliverPlace
  <2> DEFINE p == todo[1].packet
  <2>7. At("todo", 1, p)
    BY <2>3, <2>4 DEF At, Answers
  <2>8. PICK m \in DOMAIN pending : pending[m].id = p.id /\ pending[m].next = "PUBCOMP"
    BY <2>4, <2>7 DEF AInv, AllMeant, Meant, Of, Free
  <2>9. m = l /\ pending[l].qos = 2 /\ plan.in[pending[l].n] = 2
    BY <2>4, <2>6, <2>8 DEF AInv, Exchanged, AnswerTo
  <2>10. pending[l].n \in Coming
    BY <2>4, <2>5, <2>6 DEF Coming
  <2>11. pending[l].n \notin Arrived \cup Waiting
    BY <2>9, <2>10 DEF AInv, Once
  <2>12. QED
    BY <2>6, <2>9, <2>11
<1>4. QED
  BY <1>2, <1>3 DEF Session, NothingElse

\* what a new process would know
LEMMA FilesTell ==
  ASSUME Typed, Session, AInv, running, ~plan.clean, ~Handling, NEW k \in DOMAIN pending,
         pending[k].qos = 2
  PROVE  /\ File(ReceivedKey(pending[k].id)) \/ pending[k].next = "PUBREC" =>
              pending[k].n \notin TakenInFiles
         /\ pending[k].next = "PUBCOMP" /\ ~File(ReceivedKey(pending[k].id)) =>
              pending[k].n \in TakenInFiles
<1>1. TakenInFiles = Arrived \cup Waiting
  BY QueueInFiles DEF TakenInFiles
<1>2. /\ pending[k].id \in Got \/ pending[k].next = "PUBREC" => pending[k].n \notin Taken
      /\ pending[k].next = "PUBCOMP" /\ pending[k].id \notin Got => pending[k].n \in Taken
  BY DEF AInv, Ledger, Half
<1>3. ASSUME File(ReceivedKey(pending[k].id)) PROVE pending[k].n \notin Arrived \cup Waiting
  <2> DEFINE x == ReceivedKey(pending[k].id)
  <2>1. x \in DOMAIN store.files /\ x[1] = "r-" /\ x[2] = pending[k].id
    BY <1>3 DEF File, ReceivedKey
  <2> HIDE DEF x
  <2>2. PICK i \in DOMAIN pending : pending[i].id = x[2] /\ pending[i].n \notin Arrived \cup Waiting
    BY <2>1, InboundInFiles
  <2>3. i = k
    BY <2>1, <2>2 DEF AInv, Exchanged
  <2>4. QED
    BY <2>2, <2>3
<1>4. ASSUME pending[k].next = "PUBCOMP", ~File(ReceivedKey(pending[k].id))
      PROVE  pending[k].n \in Arrived \cup Waiting
  <2>1. pending[k].id \notin Got
    <3>1. SUFFICES ASSUME NEW i \in DOMAIN inbound, inbound[i].id = pending[k].id PROVE FALSE
      BY DEF Got
    <3>2. HasPut(ReceivedKey(inbound[i].id), ReceivedOf(inbound[i]))
      BY <1>4, <3>1 DEF Session, Saved, InboundSaved, Kept, FileIs, File
    <3>3. PICK j \in DOMAIN todo : todo[j].op = "put" /\ todo[j].key = ReceivedKey(inbound[i].id)
      BY <3>2 DEF HasPut
    <3>4. PutPlace(j)
      BY <3>3 DEF AInv, Shapes, ReceivedKey
    <3> DEFINE p == todo[2].packet
    <3>5. At("todo", 2, p) /\ p.type = "PUBREC" /\ p.id = pending[k].id
      BY <3>1, <3>3, <3>4 DEF PutPlace, At, Answers, ReceivedKey
    <3>6. PICK m \in DOMAIN pending : pending[m].id = p.id /\ pending[m].next = "PUBREC"
      BY <3>5 DEF AInv, AllMeant, Meant, Of, Free
    <3>7. m = k
      BY <3>5, <3>6 DEF AInv, Exchanged
    <3>8. QED
      BY <1>4, <3>6, <3>7
  <2>2. pending[k].n \in Taken
    BY <1>2, <1>4, <2>1
  <2>3. pending[k].n \notin Coming
    <3>1. SUFFICES ASSUME pending[k].n \in Coming PROVE FALSE
      OBVIOUS
    <3>2. PICK l \in DOMAIN pending : /\ pending[l].n = pending[k].n
                                      /\ pending[l].qos = 2 => File(ReceivedKey(pending[l].id))
      BY <3>1, ComingPlace
    <3>3. l = k
      BY <3>2 DEF AInv, Exchanged
    <3>4. QED
      BY <1>4, <3>2, <3>3
  <2>4. QED
    BY <2>2, <2>3 DEF Taken
<1>5. QED
  BY <1>1, <1>2, <1>3, <1>4 DEF Taken

LEMMA EndProcessArrival ==
  ASSUME Typed, Typed', Session, AInv, EndProcess, ~Handling, store'.files = store.files
  PROVE  AInv' /\ NothingNew
<1>1. /\ running /\ running' = FALSE /\ connected' = FALSE /\ link' = FALSE
      /\ todo' = <<>> /\ toBroker' = <<>> /\ toClient' = <<>> /\ messageQueue' = <<>> /\ inbound' = <<>>
      /\ UNCHANGED <<plan, pending, sent, arrived>>
  BY DEF EndProcess, Broken, Forgotten, broker
<1>2. OneAtATime' /\ AllMeant' /\ Shapes' /\ Coming' = {} /\ Connections'
  BY <1>1, QuietThen DEF Quiet, Connections
<1>3. Exchanged' /\ Once' /\ FilesAgree' /\ Half'
  BY <1>1 DEF AInv, Exchanged, Once, FilesAgree, Half
<1>4. UNCHANGED <<Arrived, QueueFiles, TakenInFiles>>
  <2>1. UNCHANGED <<Arrived, QueueFiles>>
    BY <1>1 DEF Arrived, QueueFiles
  <2>2. QED
    BY <2>1 DEF TakenInFiles
<1>5. Sent'
  <2>1. Waiting' = {}
    <3> DEFINE none == <<>>
    <3>1. DOMAIN none = {} /\ messageQueue' = none
      BY <1>1
    <3> HIDE DEF none
    <3>2. QED
      BY <3>1 DEF Waiting
  <2>2. Taken' \subseteq Taken
    BY <1>2, <1>4, <2>1 DEF Taken
  <2>3. QED
    BY <1>1, <2>2 DEF AInv, Sent
<1>6. \A k : File(k)' <=> File(k)
  BY DEF File
<1>7. FilesHalf'
  <2>1. SUFFICES ASSUME ~plan.clean
         PROVE  /\ \A k \in DOMAIN store.files : k[1] = "r-" => \E i \in DOMAIN pending :
                     pending[i].id = k[2] /\ pending[i].n = store.files[k].n /\ pending[i].qos = 2
                /\ \A k \in DOMAIN pending : pending[k].qos = 2 =>
                     /\ File(ReceivedKey(pending[k].id)) \/ pending[k].next = "PUBREC" =>
                          pending[k].n \notin TakenInFiles
                     /\ pending[k].next = "PUBCOMP" /\ ~File(ReceivedKey(pending[k].id)) =>
                          pending[k].n \in TakenInFiles
                /\ \A k \in DOMAIN store.files : k[1] = "q-" /\ plan.in[store.files[k]] # 1 =>
                     /\ store.files[k] \notin Arrived
                     /\ \A l \in DOMAIN store.files : l[1] = "q-" /\ store.files[l] = store.files[k] => k = l
    <3>1. \A k : File(ReceivedKey(pending[k].id))' <=> File(ReceivedKey(pending[k].id))
      BY <1>1 DEF File, ReceivedKey
    <3>2. QED
      BY <1>1, <1>4, <3>1 DEF FilesHalf
  <2>2. \A k \in DOMAIN store.files : k[1] = "r-" => \E i \in DOMAIN pending :
          pending[i].id = k[2] /\ pending[i].n = store.files[k].n /\ pending[i].qos = 2
    BY <1>1, <2>1, InboundInFiles
  <2>3. ASSUME NEW k \in DOMAIN store.files, k[1] = "q-", plan.in[store.files[k]] # 1
        PROVE  /\ store.files[k] \notin Arrived
               /\ \A l \in DOMAIN store.files : l[1] = "q-" /\ store.files[l] = store.files[k] => k = l
    <3>1. \A l \in DOMAIN store.files : l[1] = "q-" =>
              \E i \in DOMAIN messageQueue :
                l[2] = messageQueue[i].seqno /\ store.files[l] = messageQueue[i].n
      BY <1>1, <2>1, QueueInFiles
    <3>2. PICK i \in DOMAIN messageQueue :
            k[2] = messageQueue[i].seqno /\ store.files[k] = messageQueue[i].n
      BY <2>3, <3>1
    <3>3. messageQueue[i].n \in Waiting
      BY DEF Waiting
    <3>4. store.files[k] \notin Arrived
      BY <1>1, <2>1, <2>3, <3>2, <3>3 DEF AInv, Once
    <3>5. ASSUME NEW l \in DOMAIN store.files, l[1] = "q-", store.files[l] = store.files[k]
          PROVE  k = l
      <4>1. PICK j \in DOMAIN messageQueue :
              l[2] = messageQueue[j].seqno /\ store.files[l] = messageQueue[j].n
        BY <3>1, <3>5
      <4>2. i = j
        BY <1>1, <2>1, <2>3, <3>2, <3>5, <4>1 DEF AInv, Once
      <4>3. k = <<k[1], k[2]>> /\ l = <<l[1], l[2]>>
        BY StemsOf DEF Typed, StoreTyped
      <4>4. QED
        BY <2>3, <3>2, <3>5, <4>1, <4>2, <4>3
    <3>6. QED
      BY <3>4, <3>5
  <2>4. QED
    BY <1>1, <2>1, <2>2, <2>3, FilesTell
<1>8. KeptUntilTaken'
  <2>1. SUFFICES ASSUME ~plan.clean, NEW n \in 1..sent, plan.in[n] # 0
                 PROVE  (\E k \in DOMAIN pending : pending[k].n = n) \/ n \in TakenInFiles
    BY <1>1, <1>4 DEF KeptUntilTaken
  <2>2. (\E k \in DOMAIN pending : pending[k].n = n) \/ n \in Taken
    BY <1>1, <2>1 DEF AInv, Ledger, KeptUntilTaken
  <2>3. TakenInFiles = Arrived \cup Waiting
    BY <1>1, <2>1, QueueInFiles DEF TakenInFiles
  <2>4. n \in Coming => \E k \in DOMAIN pending : pending[k].n = n
    BY ComingPlace
  <2>5. QED
    BY <2>2, <2>3, <2>4 DEF Taken
<1>9. NothingNew
  <2>1. Waiting' = {} /\ InHand' = {}
    <3> DEFINE none == <<>>
    <3>1. DOMAIN none = {} /\ inbound' = none /\ messageQueue' = none
      BY <1>1
    <3> HIDE DEF none
    <3>2. QED
      BY <3>1 DEF Waiting, InHand
  <2>2. NoNewFiles
    BY DEF NoNewFiles, File
  <2>3. OnTheWay' = {} /\ Theirs' = Theirs
    BY <1>1, PacketsOnTheWay DEF Theirs
  <2>4. QED
    BY <1>2, <2>1, <2>2, <2>3, StillHeld
<1>10. QED
  BY <1>2, <1>3, <1>5, <1>7, <1>8, <1>9 DEF AInv, Ledger

\* The process does not end between the acknowledgement of a message and the moment
\* from which the application or the queue has it.
SurvivesHandling == "handling" \notin Faults

LEMMA CrashArrival ==
  ASSUME Typed, Typed', Session, AInv, Crash, "torn" \notin Faults, SurvivesHandling
  PROVE  AInv' /\ NothingNew
<1>1. store' = store /\ EndProcess
  BY CrashTyped
<1>2. ~Handling
  BY DEF Crash, SurvivesHandling
<1>3. QED
  BY <1>1, <1>2, EndProcessArrival

LEMMA DestroyArrival ==
  ASSUME Typed, Typed', Session, AInv, Destroy
  PROVE  AInv' /\ NothingNew
<1>1. store'.files = store.files /\ EndProcess /\ Idle
  BY DestroyTyped
<1>2. ~Handling
  BY <1>1 DEF Idle, Handling
<1>3. QED
  BY <1>1, <1>2, EndProcessArrival

\* a new process takes the place of the files
LEMMA RestoredMessages ==
  ASSUME Typed, Restart
  PROVE  /\ \A i \in DOMAIN inbound' :
              /\ File(ReceivedKey(inbound'[i].id))
              /\ store.files[ReceivedKey(inbound'[i].id)].n = inbound'[i].n
         /\ \A id : File(ReceivedKey(id)) <=> id \in Got'
         /\ \A i \in DOMAIN messageQueue' :
              /\ File(QueueKey(messageQueue'[i].seqno))
              /\ store.files[QueueKey(messageQueue'[i].seqno)] = messageQueue'[i].n
         /\ \A i, j \in DOMAIN messageQueue' : messageQueue'[i].seqno = messageQueue'[j].seqno => i = j
         /\ Waiting' = QueueFiles
         /\ NoNewFiles
<1>1. PICK keys \in PstKeys(store) :
        /\ inbound' = RestoredInbound(store, keys)
        /\ messageQueue' = RestoreMessageQueue(store, keys)
        /\ store' = PstOpen(RestoredStore(store, keys))
  BY DEF Restart
<1>2. StoreTyped
  BY DEF Typed
<1>3. /\ \A i \in DOMAIN inbound' :
           /\ ReceivedKey(inbound'[i].id) \in DOMAIN store.files
           /\ store.files[ReceivedKey(inbound'[i].id)] = ReceivedOf(inbound'[i])
      /\ \A k \in Files("r-") : \E i \in DOMAIN inbound' : k[2] = inbound'[i].id
  BY <1>1, <1>2, InboundRestored
<1>4. /\ messageQueue' \in Seq(Entries)
      /\ \A i \in DOMAIN messageQueue' :
           /\ QueueKey(messageQueue'[i].seqno) \in DOMAIN store.files
           /\ store.files[QueueKey(messageQueue'[i].seqno)] = messageQueue'[i].n
      /\ \A k \in Files("q-") : \E i \in DOMAIN messageQueue' : k[2] = messageQueue'[i].seqno
      /\ \A i, j \in DOMAIN messageQueue' : i < j => messageQueue'[i].seqno < messageQueue'[j].seqno
  BY <1>1, <1>2, QueueRestored
<1>5. NoNewFiles
  <2>1. /\ DOMAIN store'.files \subseteq DOMAIN store.files
        /\ \A k \in DOMAIN store'.files : store'.files[k] = store.files[k]
    BY <1>1, RestartStore
  <2>2. QED
    BY <2>1 DEF NoNewFiles, File
<1>6. ASSUME NEW id PROVE File(ReceivedKey(id)) <=> id \in Got'
  <2> DEFINE k == ReceivedKey(id)
  <2>1. k[1] = "r-" /\ k[2] = id
    BY DEF ReceivedKey
  <2>2. File(k) => \E i \in DOMAIN inbound' : id = inbound'[i].id
    BY <1>3, <2>1 DEF File, Files
  <2>3. (\E i \in DOMAIN inbound' : id = inbound'[i].id) => File(k)
    BY <1>3 DEF File
  <2>4. id \in Got' <=> \E i \in DOMAIN inbound' : id = inbound'[i].id
    BY DEF Got
  <2>5. QED
    BY <2>2, <2>3, <2>4
<1>7. \A i, j \in DOMAIN messageQueue' : messageQueue'[i].seqno = messageQueue'[j].seqno => i = j
  <2>1. SUFFICES ASSUME NEW i \in DOMAIN messageQueue', NEW j \in DOMAIN messageQueue',
                        messageQueue'[i].seqno = messageQueue'[j].seqno
                 PROVE  i = j
    OBVIOUS
  <2>2. i \in Nat /\ j \in Nat /\ messageQueue'[i].seqno \in Nat
    <3>1. PICK q : q = messageQueue'
      OBVIOUS
    <3>2. q \in Seq(Entries)
      BY <1>4, <3>1
    <3>3. \A k \in DOMAIN q : k \in Nat /\ q[k] \in Entries
      BY <3>2
    <3>4. i \in Nat /\ j \in Nat /\ q[i] \in Entries
      BY <2>1, <3>1, <3>3
    <3>5. q[i].seqno \in Nat
      BY <3>4 DEF Entries
    <3>6. QED
      BY <3>1, <3>4, <3>5
  <2>3. ~(i < j) /\ ~(j < i)
    BY <1>4, <2>1, <2>2
  <2>4. QED
    BY <2>2, <2>3
<1>8. QueueFiles \subseteq Waiting'
  <2>1. SUFFICES ASSUME NEW k \in DOMAIN store.files, k[1] = "q-" PROVE store.files[k] \in Waiting'
    BY DEF QueueFiles
  <2>2. PICK i \in DOMAIN messageQueue' : k[2] = messageQueue'[i].seqno
    BY <1>4, <2>1 DEF Files
  <2>3. k = QueueKey(messageQueue'[i].seqno)
    BY <2>1, <2>2, StemsOf DEF Typed, StoreTyped, QueueKey
  <2>4. PICK c : c = messageQueue'[i].n
    OBVIOUS
  <2>5. store.files[k] = c
    BY <1>4, <2>3, <2>4
  <2>6. c \in Waiting'
    BY <2>4 DEF Waiting
  <2>7. QED
    BY <2>5, <2>6
<1>9. Waiting' \subseteq QueueFiles
  <2>1. SUFFICES ASSUME NEW i \in DOMAIN messageQueue' PROVE messageQueue'[i].n \in QueueFiles
    BY DEF Waiting
  <2>2. QED
    BY <1>4 DEF QueueFiles, QueueKey
<1>10. QED
  BY <1>3, <1>4, <1>5, <1>6, <1>7, <1>8, <1>9 DEF ReceivedOf, File

LEMMA RestartArrival ==
  ASSUME Typed, Typed', Session, AInv, Restart
  PROVE  AInv' /\ NothingNew
<1>1. /\ ~running /\ running' = TRUE /\ ~connected /\ ~link
      /\ UNCHANGED <<plan, connected, todo, link, toBroker, toClient, pending, sent, arrived>>
  BY DEF Restart, Session, Resting, network, broker, AInv, Connections
<1>2. Quiet /\ Quiet'
  BY <1>1 DEF AInv, Connections, Quiet
<1>3. OneAtATime' /\ AllMeant' /\ Shapes' /\ Coming' = {} /\ Connections'
  BY <1>1, <1>2, QuietThen DEF AInv, Connections
<1>4. /\ \A i \in DOMAIN inbound' :
           /\ File(ReceivedKey(inbound'[i].id))
           /\ store.files[ReceivedKey(inbound'[i].id)].n = inbound'[i].n
      /\ \A id : File(ReceivedKey(id)) <=> id \in Got'
      /\ \A i \in DOMAIN messageQueue' :
           /\ File(QueueKey(messageQueue'[i].seqno))
           /\ store.files[QueueKey(messageQueue'[i].seqno)] = messageQueue'[i].n
      /\ \A i, j \in DOMAIN messageQueue' : messageQueue'[i].seqno = messageQueue'[j].seqno => i = j
      /\ Waiting' = QueueFiles
      /\ NoNewFiles
  BY RestoredMessages
<1>5. Arrived' = Arrived /\ Taken' = TakenInFiles
  <2>1. Arrived' = Arrived
    BY <1>1 DEF Arrived
  <2>2. QED
    BY <1>3, <1>4, <2>1 DEF Taken, TakenInFiles
<1>6. Exchanged'
  BY <1>1 DEF AInv, Exchanged
<1>7. Sent'
  <2>1. \A n \in TakenInFiles : n <= sent
    BY DEF AInv, Sent, TakenInFiles, QueueFiles, Taken
  <2>2. \A k \in DOMAIN store'.files : k[1] = "q-" => store'.files[k] <= sent
    BY <1>4 DEF NoNewFiles, File, AInv, Sent
  <2>3. QED
    BY <1>1, <1>5, <2>1, <2>2 DEF Sent
<1>8. ASSUME plan.clean PROVE AInv'
  <2>1. Once' /\ FilesAgree' /\ Ledger'
    BY <1>1, <1>8 DEF Once, FilesAgree, Ledger, Half, FilesHalf, KeptUntilTaken
  <2>2. QED
    BY <1>3, <1>6, <1>7, <2>1 DEF AInv
<1>9. ASSUME ~plan.clean PROVE AInv'
  <2>1. /\ \A k \in DOMAIN store.files : k[1] = "r-" => \E i \in DOMAIN pending :
             pending[i].id = k[2] /\ pending[i].n = store.files[k].n /\ pending[i].qos = 2
        /\ \A k \in DOMAIN pending : pending[k].qos = 2 =>
             /\ File(ReceivedKey(pending[k].id)) \/ pending[k].next = "PUBREC" =>
                  pending[k].n \notin TakenInFiles
             /\ pending[k].next = "PUBCOMP" /\ ~File(ReceivedKey(pending[k].id)) =>
                  pending[k].n \in TakenInFiles
        /\ \A k \in DOMAIN store.files : k[1] = "q-" /\ plan.in[store.files[k]] # 1 =>
             /\ store.files[k] \notin Arrived
             /\ \A l \in DOMAIN store.files : l[1] = "q-" /\ store.files[l] = store.files[k] => k = l
    BY <1>1, <1>9 DEF AInv, Ledger, FilesHalf
  <2>2. Half'
    <3>1. \A i \in DOMAIN inbound' : \E k \in DOMAIN pending :
            pending[k].id = inbound'[i].id /\ pending[k].n = inbound'[i].n /\ pending[k].qos = 2
      <4>1. SUFFICES ASSUME NEW i \in DOMAIN inbound'
                     PROVE  \E k \in DOMAIN pending : /\ pending[k].id = inbound'[i].id
                                                      /\ pending[k].n = inbound'[i].n /\ pending[k].qos = 2
        OBVIOUS
      <4>2. PICK f : f = ReceivedKey(inbound'[i].id)
        OBVIOUS
      <4>3. f \in DOMAIN store.files /\ f[1] = "r-" /\ f[2] = inbound'[i].id
            /\ store.files[f].n = inbound'[i].n
        BY <1>4, <4>2 DEF File, ReceivedKey
      <4>4. QED
        BY <2>1, <4>3
    <3>2. \A k \in DOMAIN pending : pending[k].qos = 2 =>
             /\ pending[k].id \in Got' \/ pending[k].next = "PUBREC" => pending[k].n \notin Taken'
             /\ pending[k].next = "PUBCOMP" /\ pending[k].id \notin Got' => pending[k].n \in Taken'
      BY <1>4, <1>5, <2>1
    <3>3. QED
      BY <1>1, <3>1, <3>2 DEF Half
  <2>3. Once'
    <3>1. \A i \in DOMAIN messageQueue' : \E k \in DOMAIN store.files :
            k[1] = "q-" /\ k[2] = messageQueue'[i].seqno /\ store.files[k] = messageQueue'[i].n
      <4>1. SUFFICES ASSUME NEW i \in DOMAIN messageQueue'
                     PROVE  \E k \in DOMAIN store.files : /\ k[1] = "q-" /\ k[2] = messageQueue'[i].seqno
                                                          /\ store.files[k] = messageQueue'[i].n
        OBVIOUS
      <4>2. PICK f : f = QueueKey(messageQueue'[i].seqno)
        OBVIOUS
      <4>3. f \in DOMAIN store.files /\ f[1] = "q-" /\ f[2] = messageQueue'[i].seqno
            /\ store.files[f] = messageQueue'[i].n
        BY <1>4, <4>2 DEF File, QueueKey
      <4>4. QED
        BY <4>3
    <3>2. ASSUME NEW i \in DOMAIN messageQueue', NEW j \in DOMAIN messageQueue',
                 plan.in[messageQueue'[i].n] # 1, messageQueue'[i].n = messageQueue'[j].n
          PROVE  i = j
      <4>1. PICK k \in DOMAIN store.files :
              k[1] = "q-" /\ k[2] = messageQueue'[i].seqno /\ store.files[k] = messageQueue'[i].n
        BY <3>1
      <4>2. PICK l \in DOMAIN store.files :
              l[1] = "q-" /\ l[2] = messageQueue'[j].seqno /\ store.files[l] = messageQueue'[j].n
        BY <3>1
      <4>3. k = l
        BY <2>1, <3>2, <4>1, <4>2
      <4>4. QED
        BY <1>4, <4>1, <4>2, <4>3
    <3>3. \A n \in QueueFiles : plan.in[n] # 1 => n \notin Arrived
      BY <2>1 DEF QueueFiles
    <3>4. QED
      BY <1>1, <1>3, <1>4, <1>5, <3>2, <3>3 DEF Once
  <2>4. FilesAgree'
    <3>1. \A i \in DOMAIN inbound' : File(ReceivedKey(inbound[i].id))' =>
            store'.files[ReceivedKey(inbound'[i].id)].n = inbound'[i].n
      BY <1>4 DEF NoNewFiles, File, ReceivedKey
    <3>2. \A i \in DOMAIN messageQueue' : File(QueueKey(messageQueue[i].seqno))' =>
            store'.files[QueueKey(messageQueue'[i].seqno)] = messageQueue'[i].n
      BY <1>4 DEF NoNewFiles, File, QueueKey
    <3>3. QED
      BY <3>1, <3>2 DEF FilesAgree
  <2>5. FilesHalf' /\ KeptUntilTaken'
    BY <1>1, <1>5 DEF AInv, Ledger, FilesHalf, KeptUntilTaken
  <2>6. QED
    BY <1>3, <1>6, <1>7, <2>2, <2>3, <2>4, <2>5 DEF AInv, Ledger
<1>10. NothingNew
  <2>1. InHand' \subseteq ReceivedFiles
    <3>1. SUFFICES ASSUME NEW i \in DOMAIN inbound' PROVE inbound'[i].n \in ReceivedFiles
      BY DEF InHand
    <3>2. PICK f : f = ReceivedKey(inbound'[i].id)
      OBVIOUS
    <3>3. f \in DOMAIN store.files /\ f[1] = "r-" /\ store.files[f].n = inbound'[i].n
      BY <1>4, <3>2 DEF File, ReceivedKey
    <3>4. QED
      BY <3>3 DEF ReceivedFiles
  <2>2. ReceivedFiles' \subseteq ReceivedFiles /\ QueueFiles' \subseteq QueueFiles
    BY <1>4 DEF NoNewFiles, File, ReceivedFiles, QueueFiles
  <2>3. UNCHANGED <<Theirs, OnTheWay, Coming>>
    BY <1>1 DEF Theirs, OnTheWay, Coming
  <2>4. QED
    BY <1>4, <2>1, <2>2, <2>3 DEF NothingNew, HeldStill
<1>11. QED
  BY <1>8, <1>9, <1>10

-----------------------------------------------------------------------------
(* The invariant is inductive                                               *)

LEMMA InitArrival ==
  ASSUME Init
  PROVE  AInv
<1> DEFINE none == <<>>
<1>1. DOMAIN none = {} /\ pending = none /\ inbound = none /\ messageQueue = none /\ arrived = none
      /\ store.files = none
  BY DEF Init, Directory, NoFiles
<1> HIDE DEF none
<1>2. Quiet /\ sent = 0 /\ ~link /\ ~connected /\ running
  BY DEF Init, Quiet
<1>3. OneAtATime /\ AllMeant /\ Shapes /\ Coming = {} /\ Connections
  BY <1>2, WhenQuiet DEF Quiet, Connections
<1>4. Taken = {}
  BY <1>1, <1>3 DEF Taken, Arrived, Waiting
<1>5. Exchanged /\ Sent
  BY <1>1, <1>4 DEF Exchanged, Sent
<1>6. Once /\ FilesAgree
  BY <1>1, <1>3 DEF Once, FilesAgree, Waiting
<1>7. Half /\ FilesHalf
  BY <1>1, <1>2 DEF Half, FilesHalf
<1>8. KeptUntilTaken
  BY <1>2 DEF KeptUntilTaken
<1>9. QED
  BY <1>3, <1>5, <1>6, <1>7, <1>8 DEF AInv, Ledger

LEMMA StutterArrival ==
  ASSUME Typed, Typed', AInv, UNCHANGED vars
  PROVE  AInv'
<1>1. UNCHANGED <<plan, running, connected, link, toBroker, toClient, todo, store, pending, inbound,
                  messageQueue, sent, arrived>>
  BY DEF vars, memory, network, broker
<1>2. /\ UNCHANGED <<Waiting, Arrived, Coming, Got, QueueFiles>>
  BY <1>1 DEF Waiting, Arrived, Coming, Got, QueueFiles
<1>3. UNCHANGED <<Taken, TakenInFiles>>
  BY <1>2 DEF Taken, TakenInFiles
<1>4. \A a, i, p : At(a, i, p)' <=> At(a, i, p)
  BY <1>1 DEF At
<1>5. OneAtATime'
  <2>1. OneAtATime
    BY DEF AInv
  <2>2. QED
    BY <1>4, <2>1 DEF OneAtATime, Same, Free
<1>6. AllMeant'
  BY <1>1, <1>2, <1>3, <1>4, MeantStays DEF AInv, AllMeant
<1>7. Shapes'
  BY <1>1, ShapesStay DEF AInv
<1>8. FilesAgree'
  BY <1>1, NothingNewInStore, FilesAgreeStays DEF AInv
<1>9. Connections' /\ Exchanged' /\ Sent' /\ Once'
  BY <1>1, <1>2, <1>3 DEF AInv, Connections, Exchanged, Sent, Once
<1>10. Half' /\ KeptUntilTaken'
  BY <1>1, <1>2, <1>3 DEF AInv, Ledger, Half, KeptUntilTaken
<1>11. FilesHalf'
  <2>1. \A k : File(ReceivedKey(pending[k].id))' <=> File(ReceivedKey(pending[k].id))
    BY <1>1 DEF File, ReceivedKey
  <2>2. QED
    BY <1>1, <1>2, <1>3, <2>1 DEF AInv, Ledger, FilesHalf
<1>12. QED
  BY <1>5, <1>6, <1>7, <1>8, <1>9, <1>10, <1>11 DEF AInv, Ledger

ArrivalAssumptions == OwnIdsWholeFiles /\ SurvivesHandling

LEMMA NextArrival ==
  ASSUME ArrivalAssumptions, IInv, IInv', AInv, [Next]_vars
  PROVE  AInv'
<1>1. Typed /\ Typed' /\ Session /\ "torn" \notin Faults /\ SurvivesHandling
  BY DEF IInv, ArrivalAssumptions, OwnIdsWholeFiles
<1>2. CASE DoEffect
  BY <1>1, <1>2, PutArrival, RemoveKeyArrival, WriteArrival, DeliverArrival, TryMessageQueueArrival
     DEF DoEffect
<1>3. CASE ReceivePacket
  BY <1>1, <1>3, HandlePublishArrival, HandlePubrelArrival, HandleAckArrival, HandlePubrecArrival
     DEF ReceivePacket, HandlePuback, HandlePubcomp
<1>4. CASE BrokerReceive
  BY <1>1, <1>4, BrokerPublishArrival, BrokerPubrelArrival, BrokerAckArrival DEF BrokerReceive
<1>5. CASE UNCHANGED vars
  BY <1>1, <1>5, StutterArrival
<1>6. CASE Publish \/ ProcessCommand \/ HandlePingresp \/ Retry
  BY <1>1, <1>6, PublishArrival, ProcessCommandArrival, HandlePingrespArrival, RetryArrival
<1>7. CASE NoticeLost \/ Connect \/ Drop \/ BrokerSend
  <2>1. CASE Connect
    BY <1>1, <2>1, ConnectClean, ConnectKept
  <2>2. QED
    BY <1>1, <1>7, <2>1, NoticeLostArrival, DropArrival, BrokerSendArrival
<1>8. CASE Crash \/ Destroy \/ Restart
  BY <1>1, <1>8, CrashArrival, DestroyArrival, RestartArrival
<1>9. QED
  BY <1>2, <1>3, <1>4, <1>5, <1>6, <1>7, <1>8 DEF Next

LEMMA ArrivalHolds == ArrivalAssumptions => (Spec => []AInv)
<1> SUFFICES ASSUME ArrivalAssumptions PROVE Spec => []AInv
  OBVIOUS
<1>1. Spec => []IInv
  BY InvariantHolds DEF ArrivalAssumptions
<1>2. Init => AInv
  BY InitArrival
<1>3. IInv /\ IInv' /\ AInv /\ [Next]_vars => AInv'
  BY NextArrival
<1>4. QED
  BY <1>1, <1>2, <1>3, PTL DEF Spec

-----------------------------------------------------------------------------
(* The promise to the application                                           *)

LEMMA StillIsHeld == \A n : InHeld(n) <=> n \in HeldStill
<1> SUFFICES ASSUME NEW n PROVE InHeld(n) <=> n \in HeldStill
  OBVIOUS
<1>1. InList(pending, n) <=> n \in Theirs
  BY DEF InList, ToSet, Theirs
<1>2. InList(toClient, n) <=> n \in OnTheWay
  BY DEF InList, ToSet, OnTheWay
<1>3. InList(inbound, n) <=> n \in InHand
  BY DEF InList, ToSet, InHand
<1>4. InList(messageQueue, n) <=> n \in Waiting
  BY DEF InList, ToSet, Waiting
<1>5. (\E i \in DOMAIN todo : todo[i].op = "deliver" /\ todo[i].n = n) <=> n \in Coming
  BY DEF Coming
<1>6. InFiles({"r-", "q-"}, n) <=> n \in ReceivedFiles \cup QueueFiles
  BY DEF InFiles, PstGet, ReceivedFiles, QueueFiles
<1>7. QED
  BY <1>1, <1>2, <1>3, <1>4, <1>5, <1>6 DEF InHeld, HeldStill

\* the messages that neither side holds any longer
Lost == {n \in 1..sent : ~InHeld(n)}

LEMMA LostNotHeld == Lost = (1..sent) \ HeldStill /\ Lost' = (1..sent') \ HeldStill'
<1>1. Lost = (1..sent) \ HeldStill
  BY StillIsHeld DEF Lost
<1>2. (Lost = (1..sent) \ HeldStill)'
  BY <1>1, PTL
<1>3. QED
  BY <1>1, <1>2

LEMMA ArrivedContains ==
  ASSUME Typed, NEW n
  PROVE  Contains(arrived, n) <=> n \in Arrived
<1>1. arrived \in Seq(In)
  BY DEF Typed, NetworkTyped
<1>2. QED
  BY <1>1 DEF Contains, Arrived

\* what the client has taken is with the application, or it is held still
LEMMA IncomingForgotten ==
  ASSUME Typed, AInv', NothingNew, UNCHANGED <<plan, sent, arrived>>
  PROVE  Incoming!Next
<1>1. Lost \subseteq Lost'
  <2>1. 0 \notin 1..sent
    BY NetworkTypes
  <2>2. QED
    BY <2>1, LostNotHeld DEF NothingNew
<1>2. ASSUME NEW n \in Lost' PROVE plan.in[n] = 0 \/ plan.clean \/ Contains(arrived, n)
  <2>1. n \in 1..sent /\ n \notin HeldStill'
    BY <1>2, LostNotHeld
  <2>2. Arrived' = Arrived
    BY DEF Arrived
  <2>3. plan.clean \/ plan.in[n] = 0 \/ (\E k \in DOMAIN pending' : pending'[k].n = n)
        \/ n \in Taken' \/ n \in TakenInFiles'
    BY <2>1 DEF AInv, Ledger, KeptUntilTaken
  <2>4. ~ \E k \in DOMAIN pending' : pending'[k].n = n
    BY <2>1 DEF HeldStill, Theirs
  <2>5. n \in Taken' \/ n \in TakenInFiles' => n \in Arrived
    BY <2>1, <2>2 DEF HeldStill, Taken, TakenInFiles
  <2>6. QED
    BY <2>3, <2>4, <2>5, ArrivedContains
<1>3. Lost' \subseteq 1..sent
  BY LostNotHeld
<1> DEFINE S == Lost' \ Lost
<1>4. S \in SUBSET ((1..sent) \ Lost) /\ Lost' = Lost \cup S
  BY <1>1, <1>3
<1>5. \A n \in S : plan.in[n] = 0 \/ plan.clean \/ Contains(arrived, n)
  BY <1>2
<1> HIDE DEF S
<1>6. Incoming!Forget(S)
  BY <1>4, <1>5 DEF Incoming!Forget, Incoming!Delivered, Incoming!Contains, Contains, Lost
<1>7. QED
  BY <1>4, <1>6 DEF Incoming!Next, Lost

LEMMA IncomingUnchanged ==
  ASSUME UNCHANGED vars
  PROVE  UNCHANGED Incoming!vars
<1>1. UNCHANGED <<plan, pending, toClient, inbound, messageQueue, todo, store, sent, arrived>>
  BY DEF vars, memory, network, broker
<1>2. UNCHANGED <<Theirs, OnTheWay, InHand, Waiting, Coming, ReceivedFiles, QueueFiles>>
  BY <1>1 DEF Theirs, OnTheWay, InHand, Waiting, Coming, ReceivedFiles, QueueFiles
<1>3. HeldStill' = HeldStill
  BY <1>2 DEF HeldStill
<1>4. Lost' = Lost
  BY <1>1, <1>3, LostNotHeld
<1>5. QED
  BY <1>1, <1>4 DEF Incoming!vars, Lost

LEMMA IncomingAccept ==
  ASSUME Typed, BrokerSend
  PROVE  Incoming!Accept
<1> DEFINE n == sent + 1
<1>1. PICK m, x : /\ m.n = n /\ x.n = n
                  /\ pending' = (IF plan.in[n] = 0 THEN pending ELSE Append(pending, m))
                  /\ toClient' = (IF link THEN Append(toClient, x) ELSE toClient)
  <2> DEFINE qos == plan.in[n]
             id == CHOOSE i \in MsgIds : Found(pending, i) = 0 /\ \A j \in 1..(i - 1) : Found(pending, j) # 0
             m == [id |-> id, n |-> n, qos |-> qos, next |-> AnswerTo(qos)]
             x == PubPacket(m, FALSE)
  <2>1. /\ pending' = (IF plan.in[n] = 0 THEN pending ELSE Append(pending, m))
        /\ toClient' = (IF link THEN Append(toClient, x) ELSE toClient)
    BY DEF BrokerSend
  <2>2. m.n = n /\ x.n = n
    BY DEF PubPacket, Packet
  <2> HIDE DEF m, x
  <2>3. QED
    BY <2>1, <2>2
<1>2. /\ sent' = n /\ n \in In /\ (plan.in[n] = 0 => link)
      /\ UNCHANGED <<plan, inbound, messageQueue, todo, store, arrived>>
  BY DEF BrokerSend, memory
<1>3. sent \in Nat /\ Len(plan.in) \in Nat /\ sent < Len(plan.in)
  <2>1. Len(plan.in) \in Nat /\ sent \in 0..Len(plan.in)
    BY PlanTypes, NetworkTypes DEF Typed, ClientTyped
  <2>2. QED
    BY <1>2, <2>1 DEF In
<1> HIDE DEF n
<1>4. Theirs' = IF plan.in[n] = 0 THEN Theirs ELSE Theirs \cup {n}
  <2>1. pending \in Seq(Exchanges \cup {m})
    BY NetworkTypes
  <2>2. QED
    BY <1>1, <2>1, Gains DEF Theirs
<1>5. OnTheWay' = IF link THEN OnTheWay \cup {n} ELSE OnTheWay
  <2>1. toClient \in Seq(Packets(In) \cup {x})
    BY NetworkTypes
  <2>2. QED
    BY <1>1, <2>1, Gains DEF OnTheWay
<1>6. UNCHANGED <<InHand, Waiting, Coming, ReceivedFiles, QueueFiles>>
  BY <1>2 DEF InHand, Waiting, Coming, ReceivedFiles, QueueFiles
<1>7. HeldStill' = HeldStill \cup {n}
  BY <1>2, <1>4, <1>5, <1>6 DEF HeldStill
<1>8. 1..n = (1..sent) \cup {n} /\ n \notin 1..sent
  BY <1>3 DEF n
<1>9. Lost' = Lost
  BY <1>2, <1>7, <1>8, LostNotHeld
<1>10. QED
  BY <1>2, <1>3, <1>9 DEF Incoming!Accept, Lost, n

\* the application takes a message that the client holds
LEMMA IncomingDeliver ==
  ASSUME Typed, AInv, NothingNew, NEW n \in In, n <= sent, n \in HeldStill,
         plan.in[n] = 1 \/ n \notin Arrived,
         HeldStill \subseteq HeldStill' \cup {n}, AppTakes(n), UNCHANGED <<plan, sent>>
  PROVE  Incoming!Next
<1>1. sent \in Nat /\ n \in 1..sent
  BY NetworkTypes DEF In
<1>2. n \notin Lost /\ Lost' \in {Lost, Lost \cup {n}}
  <2>1. 0 \notin 1..sent
    BY <1>1
  <2>2. QED
    BY <1>1, <2>1, LostNotHeld DEF NothingNew
<1>3. Incoming!Deliver(n)
  BY <1>2, ArrivedContains
  DEF AppTakes, Incoming!Deliver, Incoming!Delivered, Incoming!Contains, Contains, Lost
<1>4. QED
  BY <1>1, <1>3 DEF Incoming!Next

LEMMA DeliverIncoming ==
  ASSUME Typed, Typed', Session, AInv, AInv', NothingNew, Deliver
  PROVE  Incoming!Next
<1> DEFINE n == Head(todo).n
<1>1. /\ todo # <<>> /\ Head(todo).op = "deliver" /\ running
      /\ UNCHANGED <<plan, sent, connected, pending, toClient, inbound, store>>
  BY DEF Deliver, Effect, network, broker
<1>2. CASE UNCHANGED arrived
  BY <1>1, <1>2, IncomingForgotten
<1>3. CASE AppTakes(n) /\ connected /\ UNCHANGED messageQueue
  <2>1. Coming = {n} /\ n \in In
    BY <1>1, DeliveredFirst
  <2>2. n \in HeldStill /\ n <= sent /\ (plan.in[n] = 1 \/ n \notin Arrived)
    BY <1>1, <1>3, <2>1 DEF HeldStill, AInv, Sent, Taken, Once
  <2>3. UNCHANGED <<Theirs, OnTheWay, InHand, Waiting, ReceivedFiles, QueueFiles>>
    BY <1>1, <1>3 DEF Theirs, OnTheWay, InHand, Waiting, ReceivedFiles, QueueFiles
  <2>4. HeldStill \subseteq HeldStill' \cup {n}
    BY <2>1, <2>3 DEF HeldStill
  <2>5. QED
    BY <1>1, <1>3, <2>1, <2>2, <2>4, IncomingDeliver
<1>4. QED
  BY <1>2, <1>3 DEF Deliver, AppRefuses

LEMMA TryMessageQueueIncoming ==
  ASSUME Typed, Typed', Session, AInv, AInv', NothingNew, TryMessageQueue
  PROVE  Incoming!Next
<1> DEFINE n == Head(messageQueue).n
<1>1. /\ todo # <<>> /\ Head(todo).op = "queue" /\ running
      /\ UNCHANGED <<plan, sent, connected, pending, toClient, inbound, store>>
  BY DEF TryMessageQueue, Effect, network, broker
<1>2. CASE UNCHANGED arrived
  BY <1>1, <1>2, IncomingForgotten
<1>3. CASE AppTakes(n) /\ messageQueue # <<>> /\ messageQueue' = Tail(messageQueue)
  <2>1. /\ Head(messageQueue) = messageQueue[1] /\ 1 \in DOMAIN messageQueue
        /\ Head(messageQueue) \in Entries
        /\ \A k \in DOMAIN messageQueue : k # 1 =>
             k - 1 \in DOMAIN messageQueue' /\ messageQueue'[k - 1] = messageQueue[k]
    BY <1>3, QueueTypes, Heads
  <2>2. n \in Waiting /\ n \in In
    BY <2>1 DEF Waiting, Entries
  <2>3. Waiting \subseteq Waiting' \cup {n}
    BY <2>1 DEF Waiting
  <2>4. connected
    BY <1>1 DEF AInv, Connections
  <2>5. n \in HeldStill /\ n <= sent /\ (plan.in[n] = 1 \/ n \notin Arrived)
    BY <1>1, <2>2, <2>4 DEF HeldStill, AInv, Sent, Taken, Once
  <2>6. Coming = {}
    <3>1. \A j \in DOMAIN todo : todo[j].op # "deliver"
      <4>1. Head(todo) = todo[1]
        BY <1>1, TodoTyped
      <4>2. QED
        BY <1>1, <4>1 DEF AInv, Shapes, DeliverPlace
    <3>2. QED
      BY <3>1 DEF Coming
  <2>7. UNCHANGED <<Theirs, OnTheWay, InHand, ReceivedFiles, QueueFiles>>
    BY <1>1 DEF Theirs, OnTheWay, InHand, ReceivedFiles, QueueFiles
  <2>8. HeldStill \subseteq HeldStill' \cup {n}
    BY <2>3, <2>6, <2>7 DEF HeldStill
  <2>9. QED
    BY <1>1, <1>3, <2>2, <2>5, <2>8, IncomingDeliver
<1>4. QED
  BY <1>2, <1>3 DEF TryMessageQueue, AppRefuses

LEMMA IncomingInit ==
  ASSUME Init
  PROVE  Incoming!Init
<1>1. plan.in \in Seq(0..2) /\ plan.clean \in BOOLEAN
  BY PlansAssumption DEF Init
<1>2. sent = 0 /\ arrived = <<>> /\ 1..sent = {}
  BY DEF Init
<1>3. QED
  BY <1>1, <1>2 DEF Incoming!Init

LEMMA IncomingNext ==
  ASSUME ArrivalAssumptions, IInv, IInv', AInv, AInv', [Next]_vars
  PROVE  [Incoming!Next]_Incoming!vars
<1>1. Typed /\ Typed' /\ Session /\ "torn" \notin Faults /\ SurvivesHandling
  BY DEF IInv, ArrivalAssumptions, OwnIdsWholeFiles
<1>2. CASE NothingNew /\ UNCHANGED <<plan, sent, arrived>>
  BY <1>1, <1>2, IncomingForgotten
<1>3. CASE Deliver
  BY <1>1, <1>3, DeliverArrival, DeliverIncoming
<1>4. CASE TryMessageQueue
  BY <1>1, <1>4, TryMessageQueueArrival, TryMessageQueueIncoming
<1>5. CASE BrokerSend
  BY <1>1, <1>5, IncomingAccept DEF Incoming!Next
<1>6. CASE UNCHANGED vars
  BY <1>6, IncomingUnchanged
<1>7. CASE Put \/ RemoveKey \/ Write
  <2>1. UNCHANGED <<plan, sent, arrived>>
    BY <1>7 DEF Put, RemoveKey, Write, broker
  <2>2. NothingNew
    BY <1>1, <1>7, PutArrival, RemoveKeyArrival, WriteArrival
  <2>3. QED
    BY <1>2, <2>1, <2>2
<1>8. CASE ReceivePacket
  <2>1. UNCHANGED <<plan, sent, arrived>>
    BY <1>8 DEF ReceivePacket, HandlePublish, HandlePubrel, HandlePuback, HandlePubrec,
                HandlePubcomp, HandleAck, Read, broker
  <2>2. NothingNew
    BY <1>1, <1>8, HandlePublishArrival, HandlePubrelArrival, HandleAckArrival, HandlePubrecArrival
       DEF ReceivePacket, HandlePuback, HandlePubcomp
  <2>3. QED
    BY <1>2, <2>1, <2>2
<1>9. CASE BrokerReceive
  <2>1. UNCHANGED <<plan, sent, arrived>>
    BY <1>9 DEF BrokerReceive, BrokerPublish, BrokerPubrel, BrokerAck, BrokerAnswers
  <2>2. NothingNew
    BY <1>1, <1>9, BrokerPublishArrival, BrokerPubrelArrival, BrokerAckArrival DEF BrokerReceive
  <2>3. QED
    BY <1>2, <2>1, <2>2
<1>10. CASE Publish \/ ProcessCommand \/ HandlePingresp \/ Retry
  <2>1. UNCHANGED <<plan, sent, arrived>>
    BY <1>10 DEF Publish, ProcessCommand, HandlePingresp, Retry, broker
  <2>2. NothingNew
    BY <1>1, <1>10, PublishArrival, ProcessCommandArrival, HandlePingrespArrival, RetryArrival
  <2>3. QED
    BY <1>2, <2>1, <2>2
<1>11. CASE NoticeLost \/ Connect \/ Drop
  <2>1. UNCHANGED <<plan, sent, arrived>>
    BY <1>11 DEF NoticeLost, Connect, Drop, broker
  <2>2. NothingNew
    <3>1. CASE Connect
      BY <1>1, <3>1, ConnectClean, ConnectKept
    <3>2. QED
      BY <1>1, <1>11, <3>1, NoticeLostArrival, DropArrival
  <2>3. QED
    BY <1>2, <2>1, <2>2
<1>12. CASE Crash \/ Destroy \/ Restart
  <2>1. UNCHANGED <<plan, sent, arrived>>
    BY <1>12 DEF Crash, Destroy, EndProcess, Restart, broker
  <2>2. NothingNew
    BY <1>1, <1>12, CrashArrival, DestroyArrival, RestartArrival
  <2>3. QED
    BY <1>2, <2>1, <2>2
<1>13. QED
  BY <1>3, <1>4, <1>5, <1>6, <1>7, <1>8, <1>9, <1>10, <1>11, <1>12 DEF Next, DoEffect

\* A message that the broker sends is kept by the broker, on the connection, by the client
\* or in its files until the application has taken it, and one of QoS 2 is taken once:
\* over lost connections, refused messages, crashes and restarts the session implements the
\* promise of Delivery (MQTTProtocol_handlePublishes, MQTTProtocol_handlePubrels,
\* Protocol_processPublication, MQTTAsync_deliverMessage, MQTTPersistence_restore).
THEOREM KeepsIncomingCorrect == ArrivalAssumptions => (Spec => KeepsIncoming)
<1> SUFFICES ASSUME ArrivalAssumptions PROVE Spec => KeepsIncoming
  OBVIOUS
<1>1. Spec => []IInv
  BY InvariantHolds DEF ArrivalAssumptions
<1>2. Init => Incoming!Init
  BY IncomingInit
<1>3. IInv /\ IInv' /\ AInv /\ AInv' /\ [Next]_vars => [Incoming!Next]_Incoming!vars
  BY IncomingNext
<1>4. QED
  BY <1>1, <1>2, <1>3, ArrivalHolds, PTL DEF Spec, KeepsIncoming, Incoming!Spec
=============================================================================
