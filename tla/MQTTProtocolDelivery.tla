------------------------- MODULE MQTTProtocolDelivery -------------------------
(***************************************************************************)
(* Proofs that the session of MQTTProtocolClient keeps what it promises to *)
(* the application that publishes: a message is held until the broker has  *)
(* it, and one of QoS 2 is passed on once (CompleteIsDelivered and         *)
(* KeepsOutgoing), whatever connections are lost and processes end.        *)
(*                                                                         *)
(* The invariant DInv relates the three places where an exchange can be:   *)
(*   - on its way: of each exchange there is at most one packet that is to *)
(*     be written or on the connection (OneAtATime), and it means what the *)
(*     message in memory says (AllMeant);                                  *)
(*   - in memory, and at the broker: what awaits its PUBREC has been       *)
(*     passed on exactly when the broker holds its identifier (Half);      *)
(*   - in the files: the same of what a new process would restore          *)
(*     (FilesHalf, Unsent), with the order of puts, removals and writes    *)
(*     inside a handler that this rests on (Shapes).                       *)
(***************************************************************************)
EXTENDS MQTTProtocolClientProofs

-----------------------------------------------------------------------------
(* The packets of the exchanges of the client                               *)

Delivered(n) == \E i \in DOMAIN received : received[i] = n
File(k) == k \in DOMAIN store.files

\* the first effect to come removes the command of message n
Starts(n) == 1 \in DOMAIN todo /\ todo[1].op = "remove" /\ todo[1].key = CommandKey(n)

Places == {"todo", "toBroker", "toClient"}
Requests == {"PUBLISH", "PUBREL"}

\* a packet of the client that is to be written or on its way to the broker, or an
\* answer on its way back
At(place, j, p) ==
  \/ place = "todo" /\ j \in DOMAIN todo /\ todo[j].op = "write" /\ todo[j].packet = p
     /\ p.type \in Requests
  \/ place = "toBroker" /\ j \in DOMAIN toBroker /\ toBroker[j] = p /\ p.type \in Requests
  \/ place = "toClient" /\ j \in DOMAIN toClient /\ toClient[j] = p /\ p.type \in Answers

\* packets of the same exchange: of QoS 0, of the same message
Same(p, q) == p.id = q.id /\ (p.id = 0 => p.n = q.n)

OneAtATime ==
  \A a, b, i, j, p, q : At(a, i, p) /\ At(b, j, q) /\ Same(p, q) => a = b /\ i = j

\* what a packet at a place says of the message m of its exchange
Of(m, place, p) ==
  /\ m.id = p.id
  /\ p.type = "PUBLISH" => m.n = p.n /\ m.qos = p.qos /\ m.next # "PUBCOMP"
  /\ p.type = "PUBREL" => m.next = "PUBCOMP"
  /\ p.type \in Answers => m.next = p.type /\ Delivered(m.n)
  /\ p.type = "PUBCOMP" => p.id \notin held
  /\ place # "todo" /\ ~plan.clean => /\ File(SentKey(p.id))
                                      /\ m.next = "PUBCOMP" => File(PubrelKey(p.id))
Meant(place, p) ==
  /\ p.type = "PUBLISH" => /\ p.qos = plan.out[p.n] /\ p.n <= published
                           /\ File(CommandKey(p.n)) => place = "todo" /\ Starts(p.n)
  /\ p.id = 0 => ~Delivered(p.n)
  /\ p.id # 0 => \E i \in DOMAIN outbound : Of(outbound[i], place, p)
AllMeant == \A a, j, p : At(a, j, p) => Meant(a, p)

-----------------------------------------------------------------------------
(* What the two sides know of a message                                     *)

OfPlan(m) == m.qos = plan.out[m.n] /\ m.n <= published
AsPlanned ==
  /\ \A i \in DOMAIN commands : OfPlan(commands[i])
  /\ \A i \in DOMAIN outbound : OfPlan(outbound[i])
  /\ \A k \in DOMAIN store.files : k[1] \in {"c-", "s-"} => OfPlan(store.files[k])
  /\ \A i \in DOMAIN received : received[i] <= published

Connections ==
  /\ ~link => toBroker = <<>> /\ toClient = <<>>
  /\ ~connected => ~link /\ todo = <<>>

\* what the broker has of the messages in memory
HeldAsSent ==
  /\ \A i \in DOMAIN outbound :
       /\ outbound[i].next = "PUBREC" => (Delivered(outbound[i].n) <=> outbound[i].id \in held)
       /\ outbound[i].next = "PUBCOMP" => Delivered(outbound[i].n)
  /\ running => \A x \in held : \E i \in DOMAIN outbound :
                  outbound[i].id = x /\ outbound[i].qos = 2
NumbersApart ==
  /\ \A i, j \in DOMAIN outbound : outbound[i].n = outbound[j].n => i = j
  /\ \A i \in DOMAIN commands, j \in DOMAIN outbound : commands[i].n # outbound[j].n
Half == connected \/ ~plan.clean => HeldAsSent /\ NumbersApart

\* and of those in the files
FileHalf(x) ==
  LET c == store.files[SentKey(x)]
  IN  File(SentKey(x)) =>
        /\ File(PubrelKey(x)) => Delivered(c.n)
        /\ ~File(PubrelKey(x)) /\ c.qos = 2 => (Delivered(c.n) <=> x \in held)
FilesHalf ==
  ~plan.clean =>
    /\ \A x : FileHalf(x)
    /\ \A x \in held : File(SentKey(x)) /\ store.files[SentKey(x)].qos = 2
    /\ \A x, y : File(SentKey(x)) /\ File(SentKey(y))
                 /\ store.files[SentKey(x)].n = store.files[SentKey(y)].n => x = y
    /\ \A i \in DOMAIN outbound : File(SentKey(outbound[i].id)) =>
         store.files[SentKey(outbound[i].id)] = ContentOf(outbound[i])

\* a message whose command is in the store has not been sent
Unsent ==
  \A n : File(CommandKey(n)) =>
    /\ ~Delivered(n)
    /\ ~plan.clean =>
         /\ \A x : File(SentKey(x)) => store.files[SentKey(x)].n # n
         /\ \A i \in DOMAIN outbound : outbound[i].n = n => Starts(n)

\* the effects that a crash must not separate
NewPut(j, stem) ==
  j \in DOMAIN todo /\ todo[j].op = "put" /\ todo[j].key[1] = stem /\ ~File(todo[j].key)
Shapes ==
  ~plan.clean =>
    /\ \A j : NewPut(j, "s-") =>
         /\ j \in {1, 2} /\ Len(todo) = j + 1 /\ todo[j + 1].op = "write"
         /\ j = 2 => Starts(todo[j].content.n) /\ File(CommandKey(todo[j].content.n))
    /\ \A j : NewPut(j, "sc-") => j = 1
    /\ \A j \in DOMAIN todo :
         todo[j].op = "remove" /\ todo[j].key[1] = "sc-" /\ File(SentKey(todo[j].key[2])) =>
           j = 2 /\ todo[1].op = "remove" /\ todo[1].key = SentKey(todo[j].key[2])

InMemoryStill(n) ==
  \/ \E i \in DOMAIN commands : commands[i].n = n
  \/ \E i \in DOMAIN outbound : outbound[i].n = n
InFilesStill(n) == \E k \in DOMAIN store.files : k[1] \in {"c-", "s-"} /\ store.files[k].n = n
KeptUntilDelivered ==
  ~plan.clean =>
    \A n \in 1..published : plan.out[n] # 0 /\ ~Delivered(n) =>
      IF running THEN InMemoryStill(n) ELSE InFilesStill(n)

Ledger == AsPlanned /\ Half /\ FilesHalf /\ Unsent /\ KeptUntilDelivered
DInv == OneAtATime /\ AllMeant /\ Connections /\ Shapes /\ Ledger

-----------------------------------------------------------------------------
(* Packets that move                                                        *)

LEMMA AtTypes ==
  ASSUME Typed, NEW a, NEW i, NEW p, At(a, i, p)
  PROVE  /\ a \in Places /\ i \in Nat \ {0}
         /\ p.type \in Requests \cup Answers
         /\ p.id \in 0..MaxMsgId
         /\ p.id = 0 => p.type = "PUBLISH" /\ p.qos = 0
         /\ p.type = "PUBLISH" => p.n \in Out /\ p.qos \in 0..2
<1>1. a \in Places /\ p.type \in Requests \cup Answers
  BY DEF At, Places
<1>2. i \in Nat \ {0}
  BY DEF At, Typed, EffectsTyped, NetworkTyped
<1>3. CASE a = "todo"
  <2>1. todo[i] \in Effects /\ todo[i].op = "write" /\ todo[i].packet = p
    BY <1>3 DEF At, Typed, EffectsTyped
  <2>2. p \in Packets(Out)
    BY <2>1, EffectCases
  <2>3. QED
    BY <1>1, <1>2, <2>2 DEF Packets
<1>4. CASE a = "toBroker"
  <2>1. p \in Packets(Out)
    BY <1>4 DEF At, Typed, NetworkTyped
  <2>2. QED
    BY <1>1, <1>2, <2>1 DEF Packets
<1>5. CASE a = "toClient"
  <2>1. p \in Packets(In) /\ p.type \in Answers
    BY <1>5 DEF At, Typed, NetworkTyped
  <2>2. p.type # "PUBLISH"
    BY <2>1 DEF Answers
  <2>3. QED
    BY <1>1, <1>2, <2>1, <2>2 DEF Packets
<1>6. QED
  BY <1>1, <1>3, <1>4, <1>5 DEF Places

\* Every packet was at a place before, by d[a] further back, but for one that is new
\* at the place x: what belonged to the same exchange is no longer there.
PacketsMove(d, x, k) ==
  \A a, i, p : At(a, i, p)' =>
    \/ At(a, i + d[a], p)
    \/ /\ a = x /\ i = k
       /\ \A b, j, r : At(b, j, r) /\ Same(p, r) => b \in Places /\ d[b] = 1 /\ j = 1

LEMMA OneAtATimeMoves ==
  ASSUME OneAtATime, Typed', NEW d \in [Places -> {0, 1}], NEW x, NEW k, PacketsMove(d, x, k)
  PROVE  OneAtATime'
<1> SUFFICES ASSUME NEW a, NEW b, NEW i, NEW j, NEW p, NEW q,
                    At(a, i, p)', At(b, j, q)', Same(p, q)
             PROVE  a = b /\ i = j
  BY DEF OneAtATime, Same
<1>1. a \in Places /\ b \in Places /\ i \in Nat \ {0} /\ j \in Nat \ {0}
  BY DEF At, Typed, EffectsTyped, NetworkTyped, Places
<1>2. Same(q, p)
  BY DEF Same
<1> DEFINE New(a1, i1, p1) ==
             /\ a1 = x /\ i1 = k
             /\ \A b1, j1, r : At(b1, j1, r) /\ Same(p1, r) => b1 \in Places /\ d[b1] = 1 /\ j1 = 1
<1>3. At(a, i + d[a], p) \/ New(a, i, p)
  BY DEF PacketsMove
<1>4. At(b, j + d[b], q) \/ New(b, j, q)
  BY DEF PacketsMove
<1>5. CASE At(a, i + d[a], p) /\ At(b, j + d[b], q)
  <2>1. a = b /\ i + d[a] = j + d[b]
    BY <1>5 DEF OneAtATime
  <2>2. d[a] \in {0, 1}
    BY <1>1
  <2>3. QED
    BY <1>1, <2>1, <2>2
<1>6. CASE At(a, i + d[a], p) /\ New(b, j, q)
  <2>1. d[a] = 1 /\ i + d[a] = 1
    BY <1>2, <1>6
  <2>2. QED
    BY <1>1, <2>1
<1>7. CASE New(a, i, p) /\ At(b, j + d[b], q)
  <2>1. d[b] = 1 /\ j + d[b] = 1
    BY <1>7
  <2>2. QED
    BY <1>1, <2>1
<1>8. CASE New(a, i, p) /\ New(b, j, q)
  BY <1>8
<1>9. QED
  BY <1>3, <1>4, <1>5, <1>6, <1>7, <1>8

-----------------------------------------------------------------------------
(* What stays when the books of both sides do                               *)

books == <<plan, running, connected, commands, outbound, store, published, received, held>>

LEMMA LedgerStays ==
  ASSUME Ledger, UNCHANGED books, \A n : File(CommandKey(n)) /\ Starts(n) => Starts(n)'
  PROVE  Ledger'
<1>1. AsPlanned'
  BY DEF Ledger, AsPlanned, OfPlan, books
<1>2. Half'
  BY DEF Ledger, Half, HeldAsSent, NumbersApart, Delivered, books
<1>3. FilesHalf'
  BY DEF Ledger, FilesHalf, FileHalf, File, Delivered, books
<1>4. Unsent'
  <2>1. SUFFICES ASSUME NEW n, File(CommandKey(n))
                 PROVE  /\ ~Delivered(n)'
                        /\ ~plan.clean =>
                             /\ \A x : File(SentKey(x)) => store.files[SentKey(x)].n # n
                             /\ \A i \in DOMAIN outbound : outbound[i].n = n => Starts(n)'
    BY DEF Unsent, File, books
  <2>2. /\ ~Delivered(n)
        /\ ~plan.clean =>
             /\ \A x : File(SentKey(x)) => store.files[SentKey(x)].n # n
             /\ \A i \in DOMAIN outbound : outbound[i].n = n => Starts(n)
    BY <2>1 DEF Ledger, Unsent
  <2>3. Delivered(n)' <=> Delivered(n)
    BY DEF Delivered, books
  <2>4. QED
    BY <2>1, <2>2, <2>3
<1>5. KeptUntilDelivered'
  BY DEF Ledger, KeptUntilDelivered, InMemoryStill, InFilesStill, Delivered, books
<1>6. QED
  BY <1>1, <1>2, <1>3, <1>4, <1>5 DEF Ledger

\* a packet means the same at its new place b
LEMMA StillMeant ==
  ASSUME NEW a, NEW b, NEW p, Meant(a, p), plan' = plan,
         p.type = "PUBLISH" => p.n \in Nat, published \in Nat, published' \in Nat,
         published <= published',
         p.type = "PUBLISH" /\ File(CommandKey(p.n))' => b = "todo" /\ Starts(p.n)',
         p.id = 0 => ~Delivered(p.n)',
         \A i \in DOMAIN outbound : Of(outbound[i], a, p) =>
           \E k \in DOMAIN outbound' : outbound'[k] = outbound[i],
         \A n : Delivered(n) => Delivered(n)',
         p.type = "PUBCOMP" /\ p.id \notin held => p.id \notin held',
         \A i \in DOMAIN outbound : Of(outbound[i], a, p) /\ b # "todo" /\ ~plan.clean =>
           /\ File(SentKey(p.id))'
           /\ outbound[i].next = "PUBCOMP" => File(PubrelKey(p.id))'
  PROVE  Meant(b, p)'
<1>1. p.type = "PUBLISH" => /\ p.qos = plan'.out[p.n] /\ p.n <= published'
                            /\ File(CommandKey(p.n))' => b = "todo" /\ Starts(p.n)'
  BY DEF Meant
<1>2. ASSUME p.id # 0 PROVE \E k \in DOMAIN outbound' : Of(outbound[k], b, p)'
  <2>1. PICK i \in DOMAIN outbound : Of(outbound[i], a, p)
    BY <1>2 DEF Meant
  <2>2. PICK k \in DOMAIN outbound' : outbound'[k] = outbound[i]
    BY <2>1
  <2>3. /\ outbound'[k].id = p.id
        /\ p.type = "PUBLISH" => outbound'[k].n = p.n /\ outbound'[k].qos = p.qos
                                 /\ outbound'[k].next # "PUBCOMP"
        /\ p.type = "PUBREL" => outbound'[k].next = "PUBCOMP"
        /\ p.type \in Answers => outbound'[k].next = p.type /\ Delivered(outbound[i].n)
        /\ p.type = "PUBCOMP" => p.id \notin held
        /\ b # "todo" /\ ~plan.clean =>
             /\ File(SentKey(p.id))'
             /\ outbound'[k].next = "PUBCOMP" => File(PubrelKey(p.id))'
    BY <2>1, <2>2 DEF Of
  <2>4. Delivered(outbound[i].n) => \E l \in DOMAIN received' : received'[l] = outbound'[k].n
    <3>1. ASSUME NEW n, n = outbound[i].n, Delivered(n)
          PROVE  \E l \in DOMAIN received' : received'[l] = n
      <4>1. Delivered(n)'
        BY <3>1
      <4>2. QED
        BY <4>1 DEF Delivered
    <3>2. QED
      BY <3>1, <2>2
  <2>5. QED
    BY <2>2, <2>3, <2>4 DEF Of, Delivered
<1>3. QED
  BY <1>1, <1>2 DEF Meant

\* nothing to come puts or removes a key of an outbound message in such a way that its
\* place among the effects matters
Harmless ==
  ~plan.clean =>
    \A j \in DOMAIN todo :
      /\ todo[j].op = "put" => todo[j].key[1] \notin {"s-", "sc-"} \/ File(todo[j].key)
      /\ todo[j].op = "remove" => todo[j].key[1] # "sc-" \/ ~File(SentKey(todo[j].key[2]))

LEMMA HarmlessShapes ==
  ASSUME Harmless
  PROVE  Shapes
  BY DEF Harmless, Shapes, NewPut

LEMMA NoFileWorkHarmless ==
  ASSUME \A j \in DOMAIN todo : todo[j].op \notin {"put", "remove"}
  PROVE  Harmless
  BY DEF Harmless

\* when the first effect to come is neither a put nor a removal
LEMMA HeadHarmless ==
  ASSUME Typed, Shapes, 1 \in DOMAIN todo => todo[1].op \notin {"put", "remove"}
  PROVE  Harmless /\ \A n : ~Starts(n)
<1>1. \A n : ~Starts(n)
  BY DEF Starts
<1>2. ASSUME ~plan.clean, NEW j \in DOMAIN todo
      PROVE  /\ todo[j].op = "put" => todo[j].key[1] \notin {"s-", "sc-"} \/ File(todo[j].key)
             /\ todo[j].op = "remove" => todo[j].key[1] # "sc-" \/ ~File(SentKey(todo[j].key[2]))
  <2>1. 1 \in DOMAIN todo
    BY <1>2 DEF Typed, EffectsTyped
  <2>2. ~NewPut(j, "s-")
    BY <1>1, <1>2, <2>1 DEF Shapes, NewPut
  <2>3. ~NewPut(j, "sc-")
    BY <1>2, <2>1 DEF Shapes, NewPut
  <2>4. todo[j].op = "remove" => todo[j].key[1] # "sc-" \/ ~File(SentKey(todo[j].key[2]))
    BY <1>2, <2>1 DEF Shapes
  <2>5. QED
    BY <1>2, <2>2, <2>3, <2>4 DEF NewPut
<1>3. QED
  BY <1>1, <1>2 DEF Harmless

LEMMA AsideAllMeant ==
  ASSUME Typed, DInv, UNCHANGED books, \A n : File(CommandKey(n)) /\ Starts(n) => Starts(n)',
         NEW d, \A a, i, p : At(a, i, p)' => At(a, i + d[a], p)
  PROVE  AllMeant'
<1> SUFFICES ASSUME NEW a, NEW i, NEW p, At(a, i, p)' PROVE Meant(a, p)'
  BY DEF AllMeant
<1>1. At(a, i + d[a], p)
  OBVIOUS
<1>2. Meant(a, p)
  BY <1>1 DEF DInv, AllMeant
<1>3. p.type = "PUBLISH" => p.n \in Nat
  BY <1>1, AtTypes DEF Out
<1>4. published \in Nat /\ published' \in Nat /\ published <= published' /\ plan' = plan
  BY PlanTypes DEF Typed, ClientTyped, books
<1>5. p.type = "PUBLISH" /\ File(CommandKey(p.n))' => a = "todo" /\ Starts(p.n)'
  BY <1>2 DEF Meant, File, books
<1>6. \A n : Delivered(n) <=> Delivered(n)'
  BY DEF Delivered, books
<1>7. p.id = 0 => ~Delivered(p.n)'
  BY <1>2, <1>6 DEF Meant
<1>8. outbound' = outbound /\ held' = held
  BY DEF books
<1>9. \A j \in DOMAIN outbound : Of(outbound[j], a, p) /\ a # "todo" /\ ~plan.clean =>
        /\ File(SentKey(p.id))'
        /\ outbound[j].next = "PUBCOMP" => File(PubrelKey(p.id))'
  BY DEF Of, File, books
<1>10. \A j \in DOMAIN outbound : \E k \in DOMAIN outbound' : outbound'[k] = outbound[j]
  BY <1>8
<1>11. QED
  BY <1>2, <1>3, <1>4, <1>5, <1>6, <1>7, <1>8, <1>9, <1>10, StillMeant

LEMMA Aside ==
  ASSUME Typed, Typed', DInv, UNCHANGED books,
         \A n : File(CommandKey(n)) /\ Starts(n) => Starts(n)',
         NEW d \in [Places -> {0, 1}], \A a, i, p : At(a, i, p)' => At(a, i + d[a], p),
         Shapes', Connections'
  PROVE  DInv'
<1>1. OneAtATime'
  <2>1. OneAtATime
    BY DEF DInv
  <2>2. PacketsMove(d, "", 0)
    BY DEF PacketsMove
  <2>3. QED
    BY <2>1, <2>2, OneAtATimeMoves
<1>2. AllMeant'
  BY AsideAllMeant
<1>3. Ledger'
  BY LedgerStays DEF DInv
<1>4. QED
  BY <1>1, <1>2, <1>3 DEF DInv

-----------------------------------------------------------------------------
(* Effects and packets of the other direction                               *)

ShiftOf(q) == [a \in Places |-> IF a = q THEN 1 ELSE 0]

LEMMA TodoShift ==
  ASSUME Typed, todo # <<>>, todo' = Tail(todo), UNCHANGED <<toBroker, toClient>>
  PROVE  /\ ShiftOf("todo") \in [Places -> {0, 1}]
         /\ \A a, i, p : At(a, i, p)' => At(a, i + ShiftOf("todo")[a], p)
<1>1. ShiftOf("todo") \in [Places -> {0, 1}] /\ ShiftOf("todo")["todo"] = 1
      /\ ShiftOf("todo")["toBroker"] = 0 /\ ShiftOf("todo")["toClient"] = 0
  BY DEF ShiftOf, Places
<1>2. \A j \in DOMAIN Tail(todo) : j + 1 \in DOMAIN todo /\ Tail(todo)[j] = todo[j + 1]
  BY Heads DEF Typed, EffectsTyped
<1>3. ASSUME NEW a, NEW i, NEW p, At(a, i, p)' PROVE At(a, i + ShiftOf("todo")[a], p)
  <2>1. CASE a = "todo"
    BY <1>1, <1>2, <1>3, <2>1 DEF At
  <2>2. CASE a # "todo"
    <3>1. a \in {"toBroker", "toClient"}
      BY <1>3, <2>2 DEF At
    <3>2. At(a, i, p)
      BY <1>3, <2>2 DEF At
    <3>3. i \in Nat
      BY <3>2, AtTypes
    <3>4. QED
      BY <1>1, <3>1, <3>2, <3>3
  <2>3. QED
    BY <2>1, <2>2
<1>4. QED
  BY <1>1, <1>3

LEMMA NoShift ==
  ASSUME Typed, \A a, i, p : At(a, i, p)' => At(a, i, p)
  PROVE  /\ ShiftOf("") \in [Places -> {0, 1}]
         /\ \A a, i, p : At(a, i, p)' => At(a, i + ShiftOf("")[a], p)
<1>1. ShiftOf("") \in [Places -> {0, 1}] /\ \A a \in Places : ShiftOf("")[a] = 0
  BY DEF ShiftOf, Places
<1>2. ASSUME NEW a, NEW i, NEW p, At(a, i, p)' PROVE At(a, i + ShiftOf("")[a], p)
  <2>1. At(a, i, p)
    BY <1>2
  <2>2. a \in Places /\ i \in Nat
    BY <2>1, AtTypes
  <2>0. ShiftOf("")[a] = 0
    BY <1>1, <2>2
  <2>1a. i + 0 = i
    BY <2>2
  <2>3. i + ShiftOf("")[a] = i
    BY <2>0, <2>1a, Zenon
  <2>4. QED
    BY <2>1, <2>3
<1>3. QED
  BY <1>1, <1>2

LEMMA HarmlessTail ==
  ASSUME Typed, Harmless, todo # <<>>, todo' = Tail(todo), plan' = plan, store' = store
  PROVE  Harmless'
<1>1. \A j \in DOMAIN Tail(todo) : j + 1 \in DOMAIN todo /\ Tail(todo)[j] = todo[j + 1]
  BY Heads DEF Typed, EffectsTyped
<1>2. QED
  BY <1>1 DEF Harmless, File

LEMMA EffectDone ==
  ASSUME Typed, Typed', DInv, todo # <<>>, todo[1].op \notin {"put", "remove"},
         todo' = Tail(todo), UNCHANGED <<books, network>>
  PROVE  DInv'
<1>1. Harmless /\ \A n : ~Starts(n)
  BY HeadHarmless DEF DInv
<1>2. Shapes'
  <2>1. Harmless'
    BY <1>1, HarmlessTail DEF books
  <2>2. QED
    BY <2>1, HarmlessShapes, PTL
<1>3. connected
  BY DEF DInv, Connections
<1>4. Connections'
  BY <1>3 DEF DInv, Connections, books, network
<1>5. QED
  BY <1>1, <1>2, <1>4, TodoShift, Aside DEF books, network

LEMMA EffectReplaced ==
  ASSUME Typed, Typed', DInv, todo # <<>>, todo[1].op \notin {"put", "remove"},
         NEW e \in Effects, todo' = <<e>> \o Tail(todo),
         e.op \in {"put", "remove"}, e.key[1] = "q-", UNCHANGED <<books, network>>
  PROVE  DInv'
<1>1. Harmless /\ \A n : ~Starts(n)
  BY HeadHarmless DEF DInv
<1>2. Head(todo) = todo[1]
  BY TodoTyped
<1>3. /\ todo'[1] = e
      /\ \A j \in DOMAIN todo' : j # 1 => j \in DOMAIN todo /\ todo'[j] = todo[j]
  BY <1>2, AfterReplaced
<1>4. Harmless'
  <2>1. SUFFICES ASSUME ~plan.clean, NEW j \in DOMAIN todo'
                 PROVE  /\ todo'[j].op = "put" => todo'[j].key[1] \notin {"s-", "sc-"}
                                                  \/ todo'[j].key \in DOMAIN store.files
                        /\ todo'[j].op = "remove" =>
                             todo'[j].key[1] # "sc-" \/ SentKey(todo'[j].key[2]) \notin DOMAIN store.files
    BY DEF Harmless, File, books
  <2>2. CASE j = 1
    BY <1>3, <2>2
  <2>3. CASE j # 1
    BY <1>1, <1>3, <2>1, <2>3 DEF Harmless, File
  <2>4. QED
    BY <2>2, <2>3
<1>9. Shapes'
  BY <1>4, HarmlessShapes, PTL
<1>5. connected
  BY DEF DInv, Connections
<1>6. Connections'
  BY <1>5 DEF DInv, Connections, books, network
<1>7. ASSUME NEW a, NEW i, NEW p, At(a, i, p)' PROVE At(a, i, p)
  <2>1. a = "todo" => i # 1
    BY <1>3, <1>7 DEF At
  <2>2. QED
    BY <1>3, <1>7, <2>1 DEF At, network
<1>8. QED
  BY <1>1, <1>9, <1>6, <1>7, NoShift, Aside

LEMMA DeliverDelivery ==
  ASSUME Typed, Typed', DInv, Deliver
  PROVE  DInv'
<1>1. todo # <<>> /\ Head(todo).op = "deliver" /\ UNCHANGED <<books, network>>
  BY DEF Deliver, Effect, books, network, broker
<1>2. todo[1].op \notin {"put", "remove"}
  BY <1>1, TodoTyped
<1>3. PutOf(QueueKey(qentrySeqno + 1), Head(todo).n) \in Effects
  <2>1. qentrySeqno + 1 \in Nat /\ Head(todo) \in Effects
    BY <1>1, TodoTyped DEF Typed, ClientTyped
  <2>2. Head(todo).n \in In /\ QueueKey(qentrySeqno + 1) \in Keys
    BY <1>1, <2>1, EffectCases, KeyTypes
  <2>3. QED
    BY <2>2, EffectTypes
<1>4. /\ PutOf(QueueKey(qentrySeqno + 1), Head(todo).n).op = "put"
      /\ PutOf(QueueKey(qentrySeqno + 1), Head(todo).n).key[1] = "q-"
  BY EffectForms DEF QueueKey
<1>5. \/ todo' = Tail(todo)
      \/ todo' = <<PutOf(QueueKey(qentrySeqno + 1), Head(todo).n)>> \o Tail(todo)
  BY DEF Deliver
<1>6. QED
  BY <1>1, <1>2, <1>3, <1>4, <1>5, EffectDone, EffectReplaced

LEMMA TryMessageQueueDelivery ==
  ASSUME Typed, Typed', DInv, TryMessageQueue
  PROVE  DInv'
<1>1. todo # <<>> /\ Head(todo).op = "queue" /\ UNCHANGED <<books, network>>
  BY DEF TryMessageQueue, Effect, books, network, broker
<1>2. todo[1].op \notin {"put", "remove"}
  BY <1>1, TodoTyped
<1>3. \/ todo' = Tail(todo)
      \/ /\ messageQueue # <<>>
         /\ todo' = <<RemoveOf(QueueKey(Head(messageQueue).seqno))>> \o Tail(todo)
  BY DEF TryMessageQueue
<1>4. CASE todo' = Tail(todo)
  BY <1>1, <1>2, <1>4, EffectDone
<1>5. CASE /\ messageQueue # <<>>
           /\ todo' = <<RemoveOf(QueueKey(Head(messageQueue).seqno))>> \o Tail(todo)
  <2>1. Head(messageQueue) = messageQueue[1] /\ messageQueue[1] \in Entries
    BY <1>5, Heads DEF Typed, ClientTyped
  <2>2. QueueKey(Head(messageQueue).seqno) \in Keys
    BY <2>1, KeyTypes DEF Entries
  <2>3. /\ RemoveOf(QueueKey(Head(messageQueue).seqno)) \in Effects
        /\ RemoveOf(QueueKey(Head(messageQueue).seqno)).op = "remove"
        /\ RemoveOf(QueueKey(Head(messageQueue).seqno)).key[1] = "q-"
    BY <2>2, EffectTypes, EffectForms DEF QueueKey
  <2>4. QED
    BY <1>1, <1>2, <1>5, <2>3, EffectReplaced
<1>6. QED
  BY <1>3, <1>4, <1>5

\* the effects that a packet of the other direction has
OfInbound(x) ==
  \/ x.op \in {"deliver", "queue"}
  \/ x.op = "write" /\ x.packet.type \in Answers
  \/ x.op \in {"put", "remove"} /\ x.key[1] = "r-"
InboundEffects == {x \in Effects : OfInbound(x)}

LEMMA InboundEffectTypes ==
  /\ TryQueue \in InboundEffects
  /\ \A n \in In : DeliverOf(n) \in InboundEffects
  /\ \A id \in MsgIds : \A c \in InContents : PutOf(ReceivedKey(id), c) \in InboundEffects
  /\ \A id \in MsgIds : RemoveOf(ReceivedKey(id)) \in InboundEffects
  /\ \A type \in Answers, id \in MsgIds : WriteOf(Ack(type, id)) \in InboundEffects
<1>1. TryQueue \in InboundEffects /\ \A n \in In : DeliverOf(n) \in InboundEffects
  BY EffectTypes, EffectForms DEF InboundEffects, OfInbound
<1>2. ASSUME NEW id \in MsgIds
      PROVE  /\ \A c \in InContents : PutOf(ReceivedKey(id), c) \in InboundEffects
             /\ RemoveOf(ReceivedKey(id)) \in InboundEffects
  <2>1. ReceivedKey(id) \in Keys /\ ReceivedKey(id)[1] = "r-"
    BY KeyTypes DEF ReceivedKey
  <2>2. QED
    BY <2>1, EffectTypes, EffectForms DEF InboundEffects, OfInbound
<1>3. ASSUME NEW type \in Answers, NEW id \in MsgIds
      PROVE  WriteOf(Ack(type, id)) \in InboundEffects
  <2>1. Ack(type, id) \in Packets(Out) /\ Ack(type, id).type = type
    BY PacketTypes DEF Ack, Packet
  <2>2. QED
    BY <2>1, EffectTypes, EffectForms DEF InboundEffects, OfInbound
<1>4. QED
  BY <1>1, <1>2, <1>3

LEMMA InboundQueued ==
  ASSUME NEW e \in Seq(InboundEffects)
  PROVE  e \o <<TryQueue>> \in Seq(InboundEffects)
<1>1. TryQueue \in InboundEffects
  BY InboundEffectTypes
<1>2. QED
  BY <1>1, Ended

LEMMA PacketDone ==
  ASSUME Typed, Typed', DInv, todo = <<>>, connected, toClient # <<>>, toClient[1].type \notin Answers,
         toClient' = Tail(toClient), todo' \in Seq(InboundEffects), UNCHANGED <<books, link, toBroker>>
  PROVE  DInv'
<1>1. \A j \in DOMAIN todo' : todo'[j] \in InboundEffects
  OBVIOUS
<1>2. \A j \in DOMAIN todo' : OfInbound(todo'[j])
  BY <1>1 DEF InboundEffects
<1>3. Shapes'
  <2>1. Harmless'
    BY <1>2 DEF Harmless, OfInbound
  <2>2. QED
    BY <2>1, HarmlessShapes, PTL
<1>4. Connections'
  <2>1. link
    BY DEF DInv, Connections
  <2>2. QED
    BY <2>1 DEF Connections, books
<1>5. \A n : ~Starts(n)
  <2>1. DOMAIN (<<>>) = {}
    OBVIOUS
  <2>2. QED
    BY <2>1 DEF Starts
<1>6. ShiftOf("toClient") \in [Places -> {0, 1}] /\ ShiftOf("toClient")["todo"] = 0
      /\ ShiftOf("toClient")["toBroker"] = 0 /\ ShiftOf("toClient")["toClient"] = 1
  BY DEF ShiftOf, Places
<1>7. \A j \in DOMAIN Tail(toClient) :
        j \in Nat /\ j + 1 \in DOMAIN toClient /\ Tail(toClient)[j] = toClient[j + 1]
  BY Heads DEF Typed, NetworkTyped
<1>8. ASSUME NEW a, NEW i, NEW p, At(a, i, p)' PROVE At(a, i + ShiftOf("toClient")[a], p)
  <2>1. a # "todo"
    <3>1. Requests \cap Answers = {}
      BY DEF Requests, Answers
    <3>2. QED
      BY <1>2, <1>8, <3>1 DEF At, OfInbound
  <2>2. CASE a = "toClient"
    BY <1>6, <1>7, <1>8, <2>2 DEF At
  <2>3. CASE a = "toBroker"
    <3>1. At(a, i, p)
      BY <1>8, <2>3 DEF At
    <3>2. i \in Nat
      BY <3>1, AtTypes
    <3>3. i + 0 = i
      BY <3>2
    <3>4. QED
      BY <1>6, <2>3, <3>1, <3>3
  <2>4. QED
    BY <1>8, <2>1, <2>2, <2>3 DEF At
<1>9. QED
  BY <1>3, <1>4, <1>5, <1>6, <1>8, Aside

LEMMA HandlePublishDelivery ==
  ASSUME Typed, Typed', DInv, HandlePublish
  PROVE  DInv'
<1> DEFINE p == Head(toClient)
<1>1. /\ todo = <<>> /\ connected /\ toClient # <<>> /\ p.type = "PUBLISH"
      /\ toClient' = Tail(toClient) /\ UNCHANGED <<books, link, toBroker>>
  BY DEF HandlePublish, Reading, Idle, Read, books, broker
<1>2. /\ p.n \in In /\ p.qos \in 0..2 /\ p.id \in 0..MaxMsgId /\ (p.qos # 0 => p.id \in MsgIds)
  BY <1>1, PacketRead
<1>3. p = toClient[1]
  BY <1>1, Heads DEF Typed, NetworkTyped
<1> DEFINE e0 == <<DeliverOf(p.n)>>
           e1 == <<WriteOf(Ack("PUBACK", p.id)), DeliverOf(p.n)>>
           e2 == <<PutOf(ReceivedKey(p.id), [id |-> p.id, n |-> p.n, qos |-> 2]),
                   WriteOf(Ack("PUBREC", p.id))>>
<1>4. \/ p.qos = 0 /\ todo' = e0 \o <<TryQueue>>
      \/ p.qos = 1 /\ todo' = e1 \o <<TryQueue>>
      \/ p.qos = 2 /\ todo' = e2 \o <<TryQueue>>
  BY DEF HandlePublish, ThenQueue
<1>5. DeliverOf(p.n) \in InboundEffects
  BY <1>2, InboundEffectTypes
<1>6. e0 \in Seq(InboundEffects)
  BY <1>5
<1>7. p.qos = 1 => e1 \in Seq(InboundEffects)
  <2>1. p.qos = 1 => WriteOf(Ack("PUBACK", p.id)) \in InboundEffects
    BY <1>2, InboundEffectTypes DEF Answers
  <2>2. QED
    BY <1>5, <2>1
<1>8. p.qos = 2 => e2 \in Seq(InboundEffects)
  <2>1. p.qos = 2 => WriteOf(Ack("PUBREC", p.id)) \in InboundEffects
    BY <1>2, InboundEffectTypes DEF Answers
  <2>2. p.qos = 2 => [id |-> p.id, n |-> p.n, qos |-> 2] \in InContents
    BY <1>2 DEF InContents
  <2>3. p.qos = 2 => PutOf(ReceivedKey(p.id), [id |-> p.id, n |-> p.n, qos |-> 2]) \in InboundEffects
    BY <1>2, <2>2, InboundEffectTypes
  <2>4. QED
    BY <2>1, <2>3
<1> HIDE DEF e0, e1, e2
<1>9. todo' \in Seq(InboundEffects)
  BY <1>4, <1>6, <1>7, <1>8, InboundQueued
<1>10. "PUBLISH" \notin Answers
  BY DEF Answers
<1>11. QED
  BY <1>1, <1>3, <1>9, <1>10, PacketDone

LEMMA HandlePubrelDelivery ==
  ASSUME Typed, Typed', DInv, HandlePubrel
  PROVE  DInv'
<1> DEFINE p == Head(toClient)
           i == Found(inbound, p.id)
<1>1. /\ todo = <<>> /\ connected /\ toClient # <<>> /\ p.type = "PUBREL"
      /\ toClient' = Tail(toClient) /\ UNCHANGED <<books, link, toBroker>>
  BY DEF HandlePubrel, Reading, Idle, Read, books, broker
<1>2. p.id \in MsgIds
  BY <1>1, PacketRead
<1>3. p = toClient[1]
  BY <1>1, Heads DEF Typed, NetworkTyped
<1> DEFINE pubcomp == WriteOf(Ack("PUBCOMP", p.id))
           e1 == <<pubcomp, DeliverOf(inbound[i].n), RemoveOf(ReceivedKey(p.id))>>
           e2 == <<pubcomp>>
<1>4. \/ i # 0 /\ todo' = e1 \o <<TryQueue>>
      \/ todo' = e2 \o <<TryQueue>>
      \/ todo' = <<>> \o <<TryQueue>>
  BY DEF HandlePubrel, ThenQueue
<1>5. pubcomp \in InboundEffects /\ RemoveOf(ReceivedKey(p.id)) \in InboundEffects
  BY <1>2, InboundEffectTypes DEF Answers
<1>6. i # 0 => DeliverOf(inbound[i].n) \in InboundEffects
  <2>1. inbound \in Seq(InMessages)
    BY DEF Typed, ClientTyped
  <2>2. i \in 0..Len(inbound)
    BY <2>1, FoundProperties
  <2>3. i # 0 => inbound[i] \in InMessages
    <3> HIDE DEF i
    <3>1. QED
      BY <2>1, <2>2
  <2>4. i # 0 => inbound[i].n \in In
    BY <2>3 DEF InMessages
  <2>5. QED
    BY <2>4, InboundEffectTypes
<1> HIDE DEF pubcomp, i, p
<1>7. (i # 0 => e1 \in Seq(InboundEffects)) /\ e2 \in Seq(InboundEffects)
      /\ <<>> \in Seq(InboundEffects)
  BY <1>5, <1>6
<1> HIDE DEF e1, e2
<1>8. todo' \in Seq(InboundEffects)
  BY <1>4, <1>7, InboundQueued
<1>9. "PUBREL" \notin Answers
  BY DEF Answers
<1>10. QED
  BY <1>1, <1>3, <1>8, <1>9, PacketDone DEF p

LEMMA ShapesStay ==
  ASSUME Shapes, UNCHANGED <<plan, todo, store>>
  PROVE  Shapes' /\ \A n : Starts(n) => Starts(n)'
  BY DEF Shapes, NewPut, Starts, File

LEMMA HandlePingrespDelivery ==
  ASSUME Typed, Typed', DInv, HandlePingresp
  PROVE  DInv'
<1>1. /\ todo = <<>> /\ connected /\ todo' = <<TryQueue>>
      /\ UNCHANGED <<books, network>>
  BY DEF HandlePingresp, Idle, books, network, broker, memory
<1>2. \A j \in DOMAIN todo' : todo'[j].op = "queue"
  <2>1. \A j \in DOMAIN <<TryQueue>> : <<TryQueue>>[j] = TryQueue
    OBVIOUS
  <2>2. QED
    BY <1>1, <2>1, EffectForms
<1>3. Shapes'
  <2>1. Harmless'
    BY <1>2 DEF Harmless
  <2>2. QED
    BY <2>1, HarmlessShapes, PTL
<1>4. \A n : ~Starts(n)
  <2>1. DOMAIN (<<>>) = {}
    OBVIOUS
  <2>2. QED
    BY <1>1, <2>1 DEF Starts
<1>5. \A a, i, p : At(a, i, p)' => At(a, i, p)
  BY <1>1, <1>2 DEF At, network
<1>6. Connections'
  BY <1>1 DEF DInv, Connections, books, network
<1>7. QED
  BY <1>1, <1>3, <1>4, <1>5, <1>6, NoShift, Aside

LEMMA DropDelivery ==
  ASSUME Typed, Typed', DInv, Drop
  PROVE  DInv'
<1>1. /\ link' = FALSE /\ toBroker' = <<>> /\ toClient' = <<>>
      /\ UNCHANGED <<books, todo>>
  BY DEF Drop, Broken, books, broker, memory
<1>2. Shapes' /\ \A n : Starts(n) => Starts(n)'
  BY <1>1, ShapesStay DEF DInv, books
<1>3. Connections'
  BY <1>1 DEF DInv, Connections, books
<1>4. \A a, i, p : At(a, i, p)' => At(a, i, p)
  <2>1. DOMAIN (<<>>) = {}
    OBVIOUS
  <2>2. DOMAIN toBroker' = {} /\ DOMAIN toClient' = {}
    BY <1>1, <2>1
  <2>3. QED
    BY <1>1, <2>2 DEF At
<1>5. QED
  BY <1>1, <1>2, <1>3, <1>4, NoShift, Aside

\* the broker sends packets that are not answers
LEMMA SentAside ==
  ASSUME Typed, Typed', DInv, NEW ps \in Seq(Packets(In)), \A j \in DOMAIN ps : ps[j].type \notin Answers,
         toClient' = toClient \o ps, link, UNCHANGED <<books, todo, link>>,
         \/ toBroker' = toBroker
         \/ toBroker # <<>> /\ toBroker[1].type \notin Requests /\ toBroker' = Tail(toBroker)
  PROVE  DInv'
<1>1. Shapes' /\ \A n : Starts(n) => Starts(n)'
  BY ShapesStay DEF DInv, books
<1>2. Connections'
  BY DEF DInv, Connections, books
<1>3. \A j \in DOMAIN toClient' :
        toClient'[j].type \in Answers => j \in DOMAIN toClient /\ toClient'[j] = toClient[j]
  <2>1. toClient \in Seq(Packets(In))
    BY DEF Typed, NetworkTyped
  <2>2. \A j \in DOMAIN (toClient \o ps) :
          \/ j \in DOMAIN toClient /\ (toClient \o ps)[j] = toClient[j]
          \/ j - Len(toClient) \in DOMAIN ps /\ (toClient \o ps)[j] = ps[j - Len(toClient)]
    BY <2>1
  <2>3. QED
    BY <2>2
<1>4. ASSUME NEW a, NEW i, NEW p, At(a, i, p)', a # "toBroker" PROVE At(a, i, p)
  BY <1>3, <1>4 DEF At
<1>5. CASE toBroker' = toBroker
  <2>1. \A a, i, p : At(a, i, p)' => At(a, i, p)
    <3>1. \A a, i, p : At(a, i, p)' /\ a = "toBroker" => At(a, i, p)
      BY <1>5 DEF At
    <3>2. QED
      BY <1>4, <3>1
  <2>2. QED
    BY <1>1, <1>2, <2>1, NoShift, Aside
<1>6. CASE toBroker # <<>> /\ toBroker[1].type \notin Requests /\ toBroker' = Tail(toBroker)
  <2>1. ShiftOf("toBroker") \in [Places -> {0, 1}] /\ ShiftOf("toBroker")["todo"] = 0
        /\ ShiftOf("toBroker")["toBroker"] = 1 /\ ShiftOf("toBroker")["toClient"] = 0
    BY DEF ShiftOf, Places
  <2>2. \A j \in DOMAIN Tail(toBroker) :
          j \in Nat /\ j + 1 \in DOMAIN toBroker /\ Tail(toBroker)[j] = toBroker[j + 1]
    BY <1>6, Heads DEF Typed, NetworkTyped
  <2>3. ASSUME NEW a, NEW i, NEW p, At(a, i, p)' PROVE At(a, i + ShiftOf("toBroker")[a], p)
    <3>1. CASE a = "toBroker"
      BY <1>6, <2>1, <2>2, <2>3, <3>1 DEF At
    <3>2. CASE a # "toBroker"
      <4>1. At(a, i, p)
        BY <1>4, <2>3, <3>2
      <4>2. i \in Nat
        BY <4>1, AtTypes
      <4>3. i + 0 = i
        BY <4>2
      <4>4. a = "todo" \/ a = "toClient"
        BY <3>2, <4>1 DEF At
      <4>5. QED
        BY <2>1, <4>1, <4>3, <4>4
    <3>3. QED
      BY <3>1, <3>2
  <2>4. QED
    BY <1>1, <1>2, <2>1, <2>3, Aside
<1>7. QED
  BY <1>5, <1>6

LEMMA BrokerAckDelivery ==
  ASSUME Typed, Typed', DInv, BrokerAck
  PROVE  DInv'
<1> DEFINE p == Head(toBroker)
           pubrel == Packet("PUBREL", p.id, 0, 0, FALSE)
<1>1. /\ toBroker # <<>> /\ p.type \in Answers /\ toBroker' = Tail(toBroker)
      /\ UNCHANGED <<books, todo, link>>
      /\ \/ toClient' = toClient \o <<pubrel>>
         \/ toClient' = toClient \o <<>>
  BY DEF BrokerAck, BrokerReads, BrokerAnswers, Answers, books, memory
<1>2. p = toBroker[1]
  BY <1>1, Heads DEF Typed, NetworkTyped
<1>3. p.type \notin Requests
  BY <1>1 DEF Answers, Requests
<1>4. link
  BY <1>1 DEF DInv, Connections, Typed, NetworkTyped
<1>5. pubrel \in Packets(In) /\ pubrel.type \notin Answers
  <2>1. p.id \in MsgIds
    <3>1. p.type # "PUBLISH"
      BY <1>1 DEF Answers
    <3>2. QED
      BY <1>1, <3>1, PacketSent
  <2>2. pubrel = Ack("PUBREL", p.id) /\ pubrel.type = "PUBREL"
    BY DEF Ack, Packet
  <2> HIDE DEF pubrel, p
  <2>3. QED
    BY <2>1, <2>2, PacketTypes DEF Answers
<1> HIDE DEF pubrel, p
<1>6. /\ <<pubrel>> \in Seq(Packets(In)) /\ <<>> \in Seq(Packets(In))
      /\ \A j \in DOMAIN <<pubrel>> : <<pubrel>>[j].type \notin Answers
      /\ \A j \in DOMAIN (<<>>) : FALSE
  BY <1>5
<1> DEFINE one == <<pubrel>>
           none == <<>>
<1>7. /\ one \in Seq(Packets(In)) /\ none \in Seq(Packets(In))
      /\ \A j \in DOMAIN one : one[j].type \notin Answers
      /\ \A j \in DOMAIN none : none[j].type \notin Answers
  BY <1>6
<1>8. toClient' = toClient \o one \/ toClient' = toClient \o none
  BY <1>1
<1> HIDE DEF one, none
<1>9. QED
  BY <1>1, <1>2, <1>3, <1>4, <1>7, <1>8, SentAside

LEMMA BrokerSendDelivery ==
  ASSUME Typed, Typed', DInv, BrokerSend
  PROVE  DInv'
<1>1. /\ UNCHANGED <<books, todo, link, toBroker>>
      /\ \/ link /\ \E q : q.type = "PUBLISH" /\ toClient' = Append(toClient, q)
         \/ toClient' = toClient
  BY DEF BrokerSend, PubPacket, Packet, books, memory
<1>2. CASE toClient' = toClient
  <2>1. Shapes' /\ \A n : Starts(n) => Starts(n)'
    BY <1>1, ShapesStay DEF DInv, books
  <2>2. Connections'
    BY <1>1, <1>2 DEF DInv, Connections, books
  <2>3. \A a, i, p : At(a, i, p)' => At(a, i, p)
    BY <1>1, <1>2 DEF At
  <2>4. QED
    BY <1>1, <2>1, <2>2, <2>3, NoShift, Aside
<1>3. CASE link /\ \E q : q.type = "PUBLISH" /\ toClient' = Append(toClient, q)
  <2>1. PICK q : q.type = "PUBLISH" /\ toClient' = Append(toClient, q)
    BY <1>3
  <2>2. toClient \in Seq(Packets(In)) /\ toClient' \in Seq(Packets(In)')
    BY DEF Typed, NetworkTyped
  <2>3. Packets(In)' = Packets(In)
    BY <1>1, SameSets DEF Packets, books
  <2>4. q \in Packets(In)
    <3>1. toClient'[Len(toClient) + 1] = q /\ Len(toClient) + 1 \in DOMAIN toClient'
      BY <2>1, <2>2
    <3>2. QED
      BY <2>2, <2>3, <3>1
  <2>5. q.type \notin Answers
    BY <2>1 DEF Answers
  <2> DEFINE one == <<q>>
  <2>6. one \in Seq(Packets(In)) /\ \A j \in DOMAIN one : one[j].type \notin Answers
    BY <2>4, <2>5
  <2>7. toClient' = toClient \o one
    BY <2>1, <2>2
  <2> HIDE DEF one
  <2>8. QED
    BY <1>1, <1>3, <2>6, <2>7, SentAside
<1>4. QED
  BY <1>1, <1>2, <1>3

-----------------------------------------------------------------------------
(* Packets of the client on their way                                       *)

LEMMA SavedWhenHarmless ==
  ASSUME Session, Harmless, ~plan.clean, NEW i \in DOMAIN outbound
  PROVE  /\ File(SentKey(outbound[i].id))
         /\ outbound[i].next = "PUBCOMP" => File(PubrelKey(outbound[i].id))
<1>1. SentKey(outbound[i].id)[1] = "s-" /\ PubrelKey(outbound[i].id)[1] = "sc-"
  BY DEF SentKey, PubrelKey
<1>2. Kept(SentKey(outbound[i].id), ContentOf(outbound[i]))
  BY DEF Session, Saved, OutboundSaved
<1>3. outbound[i].next = "PUBCOMP" =>
        \/ PubrelKey(outbound[i].id) \in DOMAIN store.files
        \/ HasPut(PubrelKey(outbound[i].id), ContentOf(outbound[i]))
  BY DEF Session, Saved, PubrelsSaved
<1>4. \A k, c : HasPut(k, c) /\ k[1] \in {"s-", "sc-"} => File(k)
  BY DEF HasPut, Harmless
<1>5. File(SentKey(outbound[i].id))
  BY <1>1, <1>2, <1>4 DEF Kept, FileIs, File
<1>6. QED
  BY <1>1, <1>3, <1>4, <1>5 DEF File

LEMMA WriteDelivery ==
  ASSUME Typed, Typed', Session, DInv, Write
  PROVE  DInv'
<1> DEFINE q == Head(todo).packet
<1>1. /\ todo # <<>> /\ Head(todo).op = "write" /\ todo' = Tail(todo)
      /\ toBroker' = IF link THEN Append(toBroker, q) ELSE toBroker
      /\ UNCHANGED <<books, link, toClient>>
  BY DEF Write, Effect, books, broker, memory
<1>2. Head(todo) = todo[1] /\ 1 \in DOMAIN todo /\ Head(todo) \in Effects
  BY <1>1, TodoTyped, Heads DEF Typed, EffectsTyped
<1>3. Harmless /\ \A n : ~Starts(n)
  BY <1>1, <1>2, HeadHarmless DEF DInv
<1>4. Shapes'
  <2>1. Harmless'
    BY <1>1, <1>3, HarmlessTail DEF books
  <2>2. QED
    BY <2>1, HarmlessShapes, PTL
<1>5. connected
  BY <1>1 DEF DInv, Connections
<1>6. Connections'
  BY <1>1, <1>5 DEF DInv, Connections, books
<1>7. ShiftOf("todo") \in [Places -> {0, 1}] /\ ShiftOf("todo")["todo"] = 1
      /\ ShiftOf("todo")["toBroker"] = 0 /\ ShiftOf("todo")["toClient"] = 0
  BY DEF ShiftOf, Places
<1>8. \A j \in DOMAIN Tail(todo) : j + 1 \in DOMAIN todo /\ Tail(todo)[j] = todo[j + 1]
  BY <1>1, Heads DEF Typed, EffectsTyped
<1>9. \A j \in DOMAIN toBroker' : \/ j \in DOMAIN toBroker /\ toBroker'[j] = toBroker[j]
                                  \/ j = Len(toBroker) + 1 /\ toBroker'[j] = q
  <2>1. toBroker \in Seq(Packets(Out))
    BY DEF Typed, NetworkTyped
  <2>2. q \in Packets(Out)
    BY <1>1, <1>2, EffectCases
  <2> HIDE DEF q
  <2>3. QED
    BY <1>1, <2>1, <2>2, Appended
<1> DEFINE Moved(a, i, p) == a = "toBroker" /\ i = Len(toBroker) + 1 /\ At("todo", 1, p)
<1>10. ASSUME NEW a, NEW i, NEW p, At(a, i, p)'
       PROVE  At(a, i + ShiftOf("todo")[a], p) \/ Moved(a, i, p)
  <2>1. CASE a = "todo"
    BY <1>1, <1>7, <1>8, <1>10, <2>1 DEF At
  <2>2. CASE a = "toClient"
    <3>1. At(a, i, p)
      BY <1>1, <1>10, <2>2 DEF At
    <3>2. i + 0 = i
      BY <3>1, AtTypes
    <3>3. QED
      BY <1>7, <2>2, <3>1, <3>2
  <2>3. CASE a = "toBroker"
    <3>1. i \in DOMAIN toBroker' /\ toBroker'[i] = p /\ p.type \in Requests
      BY <1>10, <2>3 DEF At
    <3>2. CASE i \in DOMAIN toBroker /\ toBroker'[i] = toBroker[i]
      <4>1. At(a, i, p)
        BY <2>3, <3>1, <3>2 DEF At
      <4>2. i + 0 = i
        BY <4>1, AtTypes
      <4>3. QED
        BY <1>7, <2>3, <4>1, <4>2
    <3>3. CASE i = Len(toBroker) + 1 /\ toBroker'[i] = q
      <4>1. At("todo", 1, p)
        BY <1>1, <1>2, <3>1, <3>3 DEF At
      <4>2. QED
        BY <2>3, <3>3, <4>1
    <3>4. QED
      BY <1>9, <3>1, <3>2, <3>3
  <2>4. QED
    BY <1>10, <2>1, <2>2, <2>3 DEF At
<1>11. OneAtATime'
  <2>1. OneAtATime
    BY DEF DInv
  <2>2. ASSUME NEW a, NEW i, NEW p, Moved(a, i, p), NEW b, NEW j, NEW r, At(b, j, r), Same(p, r)
        PROVE  b \in Places /\ ShiftOf("todo")[b] = 1 /\ j = 1
    <3>1. "todo" = b /\ 1 = j
      BY <2>1, <2>2 DEF OneAtATime
    <3>2. QED
      BY <1>7, <3>1 DEF Places
  <2> DEFINE x == "toBroker"
             k == Len(toBroker) + 1
  <2>3. PacketsMove(ShiftOf("todo"), x, k)
    BY <1>10, <2>2 DEF PacketsMove
  <2> HIDE DEF x, k
  <2>4. QED
    BY <1>7, <2>1, <2>3, OneAtATimeMoves
<1>12. AllMeant'
  <2> SUFFICES ASSUME NEW a, NEW i, NEW p, At(a, i, p)' PROVE Meant(a, p)'
    BY DEF AllMeant
  <2>1. PICK b, j : At(b, j, p) /\ (b = a \/ (b = "todo" /\ a = "toBroker"))
    BY <1>10
  <2>2. Meant(b, p)
    BY <2>1 DEF DInv, AllMeant
  <2>3. p.type = "PUBLISH" => p.n \in Nat
    BY <2>1, AtTypes DEF Out
  <2>4. published \in Nat /\ published' \in Nat /\ published <= published' /\ plan' = plan
    BY <1>1, PlanTypes DEF Typed, ClientTyped, books
  <2>5. p.type = "PUBLISH" => ~File(CommandKey(p.n))'
    BY <1>1, <1>3, <2>2 DEF Meant, File, books
  <2>6. \A n : Delivered(n) <=> Delivered(n)'
    BY <1>1 DEF Delivered, books
  <2>7. p.id = 0 => ~Delivered(p.n)'
    BY <2>2, <2>6 DEF Meant
  <2>8. outbound' = outbound /\ held' = held
    BY <1>1 DEF books
  <2>9. \A l \in DOMAIN outbound : Of(outbound[l], b, p) /\ a # "todo" /\ ~plan.clean =>
          /\ File(SentKey(p.id))'
          /\ outbound[l].next = "PUBCOMP" => File(PubrelKey(p.id))'
    <3>1. SUFFICES ASSUME NEW l \in DOMAIN outbound, Of(outbound[l], b, p), ~plan.clean
                   PROVE  /\ File(SentKey(p.id))
                          /\ outbound[l].next = "PUBCOMP" => File(PubrelKey(p.id))
      BY <1>1 DEF File, books
    <3>2. outbound[l].id = p.id
      BY <3>1 DEF Of
    <3>3. QED
      BY <1>3, <3>1, <3>2, SavedWhenHarmless
  <2>10. \A l \in DOMAIN outbound : \E k \in DOMAIN outbound' : outbound'[k] = outbound[l]
    BY <2>8
  <2>11. QED
    BY <2>2, <2>3, <2>4, <2>5, <2>6, <2>7, <2>8, <2>9, <2>10, StillMeant
<1>13. Ledger'
  BY <1>1, <1>3, LedgerStays DEF DInv
<1>14. QED
  BY <1>4, <1>6, <1>11, <1>12, <1>13 DEF DInv

\* The broker takes the first packet q from the network and sends at most one answer:
\* what is left is of other exchanges.
Answered(answers, ans, id) == answers = <<ans>> /\ ans.id = id /\ id # 0

LEMMA AnswerMoves ==
  ASSUME Typed, Typed', OneAtATime, toBroker # <<>>, toBroker[1].type \in Requests,
         toBroker' = Tail(toBroker), todo' = todo,
         NEW answers, toClient' = toClient \o answers,
         NEW ans, answers = <<>> \/ Answered(answers, ans, toBroker[1].id)
  PROVE  /\ OneAtATime'
         /\ \A a, i, p : At(a, i, p)' =>
              \/ /\ At(a, i + ShiftOf("toBroker")[a], p)
                 /\ ~Same(p, toBroker[1])
              \/ a = "toClient" /\ p = ans /\ Answered(answers, ans, toBroker[1].id)
<1> DEFINE q == toBroker[1]
<1>1. At("toBroker", 1, q)
  <2>1. 1 \in DOMAIN toBroker
    BY Heads DEF Typed, NetworkTyped
  <2>2. QED
    BY <2>1 DEF At
<1>2. ShiftOf("toBroker") \in [Places -> {0, 1}] /\ ShiftOf("toBroker")["todo"] = 0
      /\ ShiftOf("toBroker")["toBroker"] = 1 /\ ShiftOf("toBroker")["toClient"] = 0
  BY DEF ShiftOf, Places
<1>3. \A j \in DOMAIN Tail(toBroker) :
        j \in Nat \ {0} /\ j + 1 \in DOMAIN toBroker /\ Tail(toBroker)[j] = toBroker[j + 1]
  BY Heads DEF Typed, NetworkTyped
<1> DEFINE New(a, i, p) == a = "toClient" /\ i = Len(toClient) + 1 /\ p = ans /\ Answered(answers, ans, q.id)
<1>4. \A j \in DOMAIN toClient' :
        \/ j \in DOMAIN toClient /\ toClient'[j] = toClient[j]
        \/ j = Len(toClient) + 1 /\ toClient'[j] = ans /\ Answered(answers, ans, q.id)
  <2>1. toClient \in Seq(Packets(In))
    BY DEF Typed, NetworkTyped
  <2>2. CASE answers = <<>>
    BY <2>1, <2>2
  <2>3. CASE Answered(answers, ans, q.id)
    <3>1. \A j \in DOMAIN (toClient \o <<ans>>) :
            \/ j \in DOMAIN toClient /\ (toClient \o <<ans>>)[j] = toClient[j]
            \/ j = Len(toClient) + 1 /\ (toClient \o <<ans>>)[j] = ans
      BY <2>1
    <3>2. QED
      BY <2>3, <3>1 DEF Answered
  <2>4. QED
    BY <2>2, <2>3
<1>5. ASSUME NEW a, NEW i, NEW p, At(a, i, p)'
      PROVE  (i \in Nat \ {0} /\ At(a, i + ShiftOf("toBroker")[a], p)) \/ New(a, i, p)
  <2>1. CASE a = "toBroker"
    BY <1>2, <1>3, <1>5, <2>1 DEF At
  <2>2. ASSUME At(a, i, p), a # "toBroker" PROVE i \in Nat \ {0} /\ At(a, i + ShiftOf("toBroker")[a], p)
    <3>1. i \in Nat \ {0} /\ a \in Places
      BY <2>2, AtTypes
    <3>2. i + 0 = i
      BY <3>1
    <3>3. QED
      BY <1>2, <2>2, <3>1, <3>2 DEF Places
  <2>3. CASE a = "todo"
    BY <1>5, <2>2, <2>3 DEF At
  <2>4. CASE a = "toClient"
    <3>1. i \in DOMAIN toClient' /\ toClient'[i] = p /\ p.type \in Answers
      BY <1>5, <2>4 DEF At
    <3>2. CASE i \in DOMAIN toClient /\ toClient'[i] = toClient[i]
      <4>1. At(a, i, p)
        BY <2>4, <3>1, <3>2 DEF At
      <4>2. QED
        BY <2>2, <2>4, <4>1
    <3>3. QED
      BY <1>4, <2>4, <3>1, <3>2
  <2>5. QED
    BY <1>5, <2>1, <2>3, <2>4 DEF At
<1>6. OneAtATime'
  <2>1. ASSUME NEW a, NEW i, NEW p, New(a, i, p), NEW b, NEW j, NEW r, At(b, j, r), Same(p, r)
        PROVE  b \in Places /\ ShiftOf("toBroker")[b] = 1 /\ j = 1
    <3>1. p.id = q.id /\ p.id # 0
      BY <2>1 DEF Answered
    <3>2. Same(q, r)
      BY <2>1, <3>1 DEF Same
    <3>3. "toBroker" = b /\ 1 = j
      BY <1>1, <2>1, <3>2 DEF OneAtATime
    <3>4. QED
      BY <1>2, <3>3 DEF Places
  <2> DEFINE x == "toClient"
             k == Len(toClient) + 1
  <2>2. PacketsMove(ShiftOf("toBroker"), x, k)
    BY <1>5, <2>1 DEF PacketsMove
  <2> HIDE DEF x, k, q, New
  <2>3. OneAtATime /\ Typed' /\ ShiftOf("toBroker") \in [Places -> {0, 1}]
    BY <1>2
  <2>4. QED
    BY <2>2, <2>3, OneAtATimeMoves
<1>7. ASSUME NEW a, NEW i, NEW p, i \in Nat \ {0}, At(a, i + ShiftOf("toBroker")[a], p)
      PROVE  ~Same(p, q)
  <2>1. SUFFICES ASSUME Same(p, q) PROVE FALSE
    OBVIOUS
  <2>2. a = "toBroker" /\ i + ShiftOf("toBroker")[a] = 1
    BY <1>1, <1>7, <2>1 DEF OneAtATime
  <2>3. i + 1 = 1
    BY <1>2, <2>2
  <2>4. QED
    BY <1>7, <2>3
<1>8. ASSUME NEW a, NEW i, NEW p, At(a, i, p)'
      PROVE  \/ At(a, i + ShiftOf("toBroker")[a], p) /\ ~Same(p, toBroker[1])
             \/ a = "toClient" /\ p = ans /\ Answered(answers, ans, toBroker[1].id)
  <2>1. (i \in Nat \ {0} /\ At(a, i + ShiftOf("toBroker")[a], p)) \/ New(a, i, p)
    BY <1>5, <1>8
  <2>2. CASE i \in Nat \ {0} /\ At(a, i + ShiftOf("toBroker")[a], p)
    BY <1>7, <2>2
  <2>3. QED
    BY <2>1, <2>2
<1>9. QED
  BY <1>6, <1>8

LEMMA StillMeantAtBroker ==
  ASSUME Typed, NEW a, NEW j, NEW r, At(a, j, r), Meant(a, r),
         UNCHANGED <<plan, published, store, todo, outbound>>,
         r.id = 0 => ~Delivered(r.n)',
         \A n : Delivered(n) => Delivered(n)',
         r.type = "PUBCOMP" /\ r.id \notin held => r.id \notin held'
  PROVE  Meant(a, r)'
<1>1. r.type = "PUBLISH" => r.n \in Nat
  BY AtTypes DEF Out
<1>2. published \in Nat /\ published' \in Nat /\ published <= published' /\ plan' = plan
  BY PlanTypes DEF Typed, ClientTyped
<1>3. r.type = "PUBLISH" /\ File(CommandKey(r.n))' => a = "todo" /\ Starts(r.n)'
  BY DEF Meant, File, Starts
<1>4. \A i \in DOMAIN outbound : Of(outbound[i], a, r) /\ a # "todo" /\ ~plan.clean =>
        /\ File(SentKey(r.id))'
        /\ outbound[i].next = "PUBCOMP" => File(PubrelKey(r.id))'
  BY DEF Of, File
<1>5. \A i \in DOMAIN outbound : \E k \in DOMAIN outbound' : outbound'[k] = outbound[i]
  OBVIOUS
<1>6. QED
  BY <1>1, <1>2, <1>3, <1>4, <1>5, StillMeant

\* what the broker has of a message whose packet it reads
LEMMA RequestRead ==
  ASSUME Typed, Session, DInv, toBroker # <<>>, toBroker[1].type \in Requests
  PROVE  LET q == toBroker[1]
         IN  /\ At("toBroker", 1, q) /\ Meant("toBroker", q)
             /\ link /\ connected /\ running
             /\ Half => HeldAsSent /\ NumbersApart
<1>1. 1 \in DOMAIN toBroker
  BY Heads DEF Typed, NetworkTyped
<1>2. At("toBroker", 1, toBroker[1])
  BY <1>1 DEF At
<1>3. link /\ connected
  BY DEF DInv, Connections, Typed, NetworkTyped, ClientTyped
<1>4. running
  BY <1>3 DEF Session, Resting
<1>5. QED
  BY <1>2, <1>3, <1>4 DEF DInv, AllMeant, Half

LEMMA BrokerPubrelDelivery ==
  ASSUME Typed, Typed', Session, DInv, BrokerPubrel
  PROVE  DInv'
<1> DEFINE q == toBroker[1]
           ans == Ack("PUBCOMP", q.id)
<1>1. toBroker # <<>> /\ Head(toBroker) = q
  BY Heads DEF BrokerPubrel, BrokerReads, Typed, NetworkTyped
<1>2. /\ q.type = "PUBREL" /\ toBroker' = Tail(toBroker) /\ held' = held \ {q.id}
      /\ toClient' = toClient \o <<ans>>
      /\ UNCHANGED <<plan, running, connected, commands, outbound, todo, store, published, received, link>>
  BY <1>1 DEF BrokerPubrel, BrokerReads, BrokerAnswers, memory
<1>3. q.id \in MsgIds /\ q.id # 0
  BY <1>1, <1>2, PacketSent DEF MsgIds
<1>4. ans.type = "PUBCOMP" /\ ans.id = q.id
  BY DEF Ack, Packet
<1>5. /\ At("toBroker", 1, q) /\ Meant("toBroker", q) /\ q.type \in Requests
      /\ link /\ connected /\ HeldAsSent /\ NumbersApart
  BY <1>1, <1>2, RequestRead DEF Requests, DInv, Ledger
<1>6. PICK k \in DOMAIN outbound : Of(outbound[k], "toBroker", q)
  BY <1>3, <1>5 DEF Meant
<1>7. /\ outbound[k].id = q.id /\ outbound[k].next = "PUBCOMP" /\ Delivered(outbound[k].n)
      /\ ~plan.clean => File(SentKey(q.id)) /\ File(PubrelKey(q.id))
  BY <1>2, <1>5, <1>6 DEF Of, HeldAsSent
<1> HIDE DEF ans, q
<1>8. Answered(<<ans>>, ans, q.id)
  BY <1>3, <1>4 DEF Answered
<1>9. /\ OneAtATime'
      /\ \A a, i, p : At(a, i, p)' => \/ /\ At(a, i + ShiftOf("toBroker")[a], p)
                                         /\ ~Same(p, q)
                                      \/ a = "toClient" /\ p = ans
  <2> DEFINE answers == <<ans>>
  <2>1. toClient' = toClient \o answers /\ Answered(answers, ans, q.id)
    BY <1>2, <1>8
  <2> HIDE DEF answers
  <2>2. OneAtATime
    BY DEF DInv
  <2>3. QED
    BY <1>1, <1>2, <1>5, <2>1, <2>2, AnswerMoves DEF q
<1>10. \A n : Delivered(n) <=> Delivered(n)'
  BY <1>2 DEF Delivered
<1>11. AllMeant'
  <2> SUFFICES ASSUME NEW a, NEW i, NEW p, At(a, i, p)' PROVE Meant(a, p)'
    BY DEF AllMeant
  <2>1. CASE \E j : At(a, j, p)
    <3>1. PICK j : At(a, j, p)
      BY <2>1
    <3>2. Meant(a, p)
      BY <3>1 DEF DInv, AllMeant
    <3>3. p.id = 0 => ~Delivered(p.n)'
      BY <1>10, <3>2 DEF Meant
    <3>4. p.type = "PUBCOMP" /\ p.id \notin held => p.id \notin held'
      BY <1>2
    <3>5. QED
      BY <1>2, <1>10, <3>1, <3>2, <3>3, <3>4, StillMeantAtBroker
  <2>2. CASE a = "toClient" /\ p = ans
    <3>1. p.id = q.id /\ p.type = "PUBCOMP" /\ p.type \in Answers /\ p.type \notin Requests
      BY <1>4, <2>2 DEF Answers, Requests
    <3>2. k \in DOMAIN outbound' /\ outbound'[k] = outbound[k]
      BY <1>2
    <3>3. \E l \in DOMAIN received' : received'[l] = outbound'[k].n
      BY <1>2, <1>7 DEF Delivered
    <3>4. ~plan.clean => File(SentKey(p.id)) /\ File(PubrelKey(p.id))
      BY <1>7, <3>1
    <3>4a. outbound'[k].id = p.id /\ outbound'[k].next = "PUBCOMP"
      BY <1>7, <3>1, <3>2
    <3>4b. p.id \notin held'
      BY <1>2, <3>1
    <3>4c. p.type # "PUBLISH" /\ p.type # "PUBREL"
      BY <3>1
    <3>4d. ~plan'.clean => File(SentKey(p.id))' /\ File(PubrelKey(p.id))'
      BY <1>2, <3>4 DEF File
    <3>5. Of(outbound[k], a, p)'
      BY <3>1, <3>3, <3>4a, <3>4b, <3>4c, <3>4d DEF Of, Delivered
    <3>6. QED
      BY <1>3, <3>1, <3>2, <3>5 DEF Meant, Requests
  <2>3. QED
    BY <1>9, <2>1, <2>2
<1>12. Shapes' /\ \A n : Starts(n) => Starts(n)'
  BY <1>2, ShapesStay DEF DInv
<1>13. Connections'
  BY <1>2, <1>5 DEF DInv, Connections
<1>14. Half'
  <2>1. \A i, j \in DOMAIN outbound : outbound[i].id = outbound[j].id => i = j
    BY DEF Session, Listed
  <2>2. ASSUME NEW i \in DOMAIN outbound
        PROVE  /\ outbound[i].next = "PUBREC" => (Delivered(outbound[i].n) <=> outbound[i].id \in held')
               /\ outbound[i].next = "PUBCOMP" => Delivered(outbound[i].n)
    <3>1. /\ outbound[i].next = "PUBREC" => (Delivered(outbound[i].n) <=> outbound[i].id \in held)
          /\ outbound[i].next = "PUBCOMP" => Delivered(outbound[i].n)
      BY <1>5 DEF HeldAsSent
    <3>2. outbound[i].next = "PUBREC" => outbound[i].id # q.id
      BY <1>7, <2>1
    <3>3. QED
      BY <1>2, <3>1, <3>2
  <2>3. HeldAsSent'
    BY <1>2, <1>5, <2>2 DEF HeldAsSent, Delivered
  <2>4. NumbersApart'
    BY <1>2, <1>5 DEF NumbersApart
  <2>5. QED
    BY <2>3, <2>4 DEF Half
<1>15. FilesHalf'
  <2>1. SUFFICES ASSUME ~plan.clean PROVE FilesHalf'
    BY <1>2 DEF FilesHalf
  <2>2. ASSUME NEW x PROVE FileHalf(x)'
    <3>1. FileHalf(x)
      BY <2>1 DEF DInv, Ledger, FilesHalf
    <3>2. x \notin held' => x \notin held \/ File(PubrelKey(x))
      BY <1>2, <1>7, <2>1
    <3>3. QED
      BY <1>2, <3>1, <3>2 DEF FileHalf, File, Delivered
  <2>3. QED
    BY <1>2, <2>1, <2>2 DEF DInv, Ledger, FilesHalf, File
<1>16. AsPlanned' /\ Unsent' /\ KeptUntilDelivered'
  <2>1. AsPlanned'
    BY <1>2 DEF DInv, Ledger, AsPlanned, OfPlan
  <2>2. Unsent'
    BY <1>2, <1>10 DEF DInv, Ledger, Unsent, File, Starts
  <2>3. KeptUntilDelivered'
    BY <1>2, <1>10 DEF DInv, Ledger, KeptUntilDelivered, InMemoryStill, InFilesStill
  <2>4. QED
    BY <2>1, <2>2, <2>3
<1>17. QED
  BY <1>9, <1>11, <1>12, <1>13, <1>14, <1>15, <1>16 DEF DInv, Ledger

LEMMA BrokerPublishDelivery ==
  ASSUME Typed, Typed', Session, DInv, BrokerPublish
  PROVE  DInv'
<1> DEFINE q == toBroker[1]
           ans == Ack(AnswerTo(q.qos), q.id)
           new == q.qos < 2 \/ q.id \notin held
           answers == IF q.qos = 0 THEN <<>> ELSE <<ans>>
<1>1. toBroker # <<>> /\ Head(toBroker) = q
  BY Heads DEF BrokerPublish, BrokerReads, Typed, NetworkTyped
<1>2. /\ q.type = "PUBLISH" /\ toBroker' = Tail(toBroker)
      /\ held' = IF q.qos = 2 THEN held \cup {q.id} ELSE held
      /\ received' = IF new THEN Append(received, q.n) ELSE received
      /\ toClient' = toClient \o answers
      /\ UNCHANGED <<plan, running, connected, commands, outbound, todo, store, published, link>>
  BY <1>1 DEF BrokerPublish, BrokerReads, BrokerAnswers, memory
<1>3. /\ At("toBroker", 1, q) /\ Meant("toBroker", q) /\ q.type \in Requests
      /\ link /\ connected /\ running /\ HeldAsSent /\ NumbersApart
  BY <1>1, <1>2, RequestRead DEF Requests, DInv, Ledger
<1>4. /\ q.id \in 0..MaxMsgId /\ q.n \in Out /\ q.qos \in 0..2 /\ (q.id = 0 => q.qos = 0)
      /\ q.qos = plan.out[q.n] /\ q.n <= published /\ ~File(CommandKey(q.n))
      /\ q.id = 0 => ~Delivered(q.n)
  BY <1>2, <1>3, AtTypes DEF Meant
<1>5. q.id # 0 => \E k \in DOMAIN outbound : Of(outbound[k], "toBroker", q)
  BY <1>3 DEF Meant
<1> HIDE DEF ans, q
<1>6. ASSUME NEW k \in DOMAIN outbound, Of(outbound[k], "toBroker", q)
      PROVE  /\ outbound[k].id = q.id /\ outbound[k].n = q.n /\ outbound[k].qos = q.qos
             /\ outbound[k].next = AnswerTo(q.qos) /\ q.qos \in {1, 2}
             /\ ~plan.clean => /\ File(SentKey(q.id))
                               /\ store.files[SentKey(q.id)].n = q.n
                               /\ store.files[SentKey(q.id)].qos = q.qos
  <2>1. /\ outbound[k].id = q.id /\ outbound[k].n = q.n /\ outbound[k].qos = q.qos
        /\ outbound[k].next # "PUBCOMP" /\ (~plan.clean => File(SentKey(q.id)))
    BY <1>2, <1>6 DEF Of
  <2>2. outbound[k] \in OutMessages
    BY DEF Typed, ClientTyped
  <2>3. q.qos \in {1, 2} /\ outbound[k].next = AnswerTo(q.qos)
    BY <2>1, <2>2 DEF OutMessages, AnswerTo, Answers
  <2>4. ~plan.clean => store.files[SentKey(q.id)] = ContentOf(outbound[k])
    BY <2>1 DEF DInv, Ledger, FilesHalf
  <2>5. QED
    BY <2>1, <2>3, <2>4 DEF ContentOf
<1>7. q.id # 0 <=> q.qos # 0
  BY <1>4, <1>5, <1>6
<1>8. \A n : Delivered(n)' <=> Delivered(n) \/ n = q.n
  <2>1. received \in Seq(Out)
    BY DEF Typed, NetworkTyped
  <2>2. CASE new
    <3>1. received' = Append(received, q.n)
      BY <1>2, <2>2
    <3>2. QED
      BY <1>4, <2>1, <3>1, Appended DEF Delivered
  <2>3. CASE ~new
    <3>1. received' = received /\ q.qos = 2 /\ q.id \in held
      BY <1>2, <1>4, <2>3
    <3>2. PICK k \in DOMAIN outbound : Of(outbound[k], "toBroker", q)
      BY <1>5, <1>7, <3>1
    <3>3. outbound[k].next = "PUBREC" /\ outbound[k].id = q.id /\ outbound[k].n = q.n
      BY <1>6, <3>1, <3>2 DEF AnswerTo
    <3>4. Delivered(q.n)
      BY <1>3, <3>1, <3>3 DEF HeldAsSent
    <3>5. QED
      BY <3>1, <3>4 DEF Delivered
  <2>4. QED
    BY <2>2, <2>3
<1>9. \A x : x \in held' <=> x \in held \/ (q.qos = 2 /\ x = q.id)
  BY <1>2
<1> HIDE DEF new
<1>10. /\ OneAtATime'
       /\ \A a, i, p : At(a, i, p)' => \/ /\ At(a, i + ShiftOf("toBroker")[a], p)
                                          /\ ~Same(p, q)
                                       \/ a = "toClient" /\ p = ans /\ q.qos # 0
  <2>1. answers = <<>> \/ Answered(answers, ans, q.id)
    BY <1>7 DEF Answered, ans, Ack, Packet
  <2>2. Answered(answers, ans, q.id) => q.qos # 0
    BY <1>7 DEF Answered
  <2> HIDE DEF answers
  <2>3. OneAtATime
    BY DEF DInv
  <2>4. QED
    BY <1>1, <1>2, <1>3, <2>1, <2>2, <2>3, AnswerMoves DEF q
<1> HIDE DEF answers
<1>11. AllMeant'
  <2> SUFFICES ASSUME NEW a, NEW i, NEW p, At(a, i, p)' PROVE Meant(a, p)'
    BY DEF AllMeant
  <2>1. CASE \E j : At(a, j, p) /\ ~Same(p, q)
    <3>1. PICK j : At(a, j, p) /\ ~Same(p, q)
      BY <2>1
    <3>2. Meant(a, p)
      BY <3>1 DEF DInv, AllMeant
    <3>3. p.id = 0 => ~Delivered(p.n)'
      <4>1. SUFFICES ASSUME p.id = 0 PROVE ~Delivered(p.n) /\ p.n # q.n
        BY <1>8
      <4>2. p.type = "PUBLISH" /\ p.qos = 0
        BY <3>1, <4>1, AtTypes
      <4>3. plan.out[p.n] = 0 /\ ~Delivered(p.n)
        BY <3>2, <4>1, <4>2 DEF Meant
      <4>4. p.n # q.n
        BY <1>4, <1>7, <3>1, <4>1, <4>3 DEF Same
      <4>5. QED
        BY <4>3, <4>4
    <3>4. p.type = "PUBCOMP" /\ p.id \notin held => p.id \notin held'
      <4>1. p.type = "PUBCOMP" => p.id # 0
        BY <3>1, AtTypes
      <4>2. p.id # 0 => p.id # q.id
        BY <3>1 DEF Same
      <4>3. QED
        BY <1>9, <4>1, <4>2
    <3>5. QED
      BY <1>2, <1>8, <3>1, <3>2, <3>3, <3>4, StillMeantAtBroker
  <2>2. CASE a = "toClient" /\ p = ans /\ q.qos # 0
    <3>0. PICK k \in DOMAIN outbound : Of(outbound[k], "toBroker", q)
      BY <1>5, <1>7, <2>2
    <3>1. p.id = q.id /\ p.type = AnswerTo(q.qos)
      BY <2>2 DEF ans, Ack, Packet
    <3>2. /\ outbound[k].id = p.id /\ outbound[k].n = q.n /\ outbound[k].next = p.type
          /\ ~plan.clean => File(SentKey(p.id))
      BY <1>6, <3>0, <3>1
    <3>3. p.type \in Answers /\ p.type # "PUBLISH" /\ p.type # "PUBREL" /\ p.type # "PUBCOMP"
      BY <3>1 DEF AnswerTo, Answers
    <3>4. ASSUME NEW n, n = q.n PROVE \E l \in DOMAIN received' : received'[l] = n
      <4>1. Delivered(n)'
        BY <1>8, <3>4
      <4>2. QED
        BY <4>1 DEF Delivered
    <3>5. \E l \in DOMAIN received' : received'[l] = outbound'[k].n
      BY <1>2, <3>2, <3>4
    <3>6. outbound'[k].id = p.id /\ outbound'[k].next = p.type
      BY <1>2, <3>2
    <3>7. ~plan'.clean => File(SentKey(p.id))'
      BY <1>2, <3>2 DEF File
    <3>8. Of(outbound[k], a, p)'
      BY <3>3, <3>5, <3>6, <3>7 DEF Of, Delivered
    <3>9. k \in DOMAIN outbound' /\ p.id # 0
      BY <1>2, <1>7, <2>2, <3>1
    <3>10. QED
      BY <3>3, <3>8, <3>9 DEF Meant
  <2>3. QED
    BY <1>10, <2>1, <2>2
<1>12. Shapes' /\ \A n : Starts(n) => Starts(n)'
  BY <1>2, ShapesStay DEF DInv
<1>13. Connections'
  BY <1>2, <1>3 DEF DInv, Connections
<1>14. \A i \in DOMAIN outbound : /\ outbound[i].qos = plan.out[outbound[i].n]
                                  /\ outbound[i].qos # 0
                                  /\ outbound[i].qos = 1 <=> outbound[i].next = "PUBACK"
  <2> SUFFICES ASSUME NEW i \in DOMAIN outbound
               PROVE  /\ outbound[i].qos = plan.out[outbound[i].n]
                      /\ outbound[i].qos # 0
                      /\ outbound[i].qos = 1 <=> outbound[i].next = "PUBACK"
    OBVIOUS
  <2>1. outbound[i] \in OutMessages
    BY DEF Typed, ClientTyped
  <2>2. outbound[i].qos = plan.out[outbound[i].n]
    BY DEF DInv, Ledger, AsPlanned, OfPlan
  <2>3. QED
    BY <2>1, <2>2 DEF OutMessages
<1>15. Half'
  <2>1. ASSUME NEW i \in DOMAIN outbound
        PROVE  /\ outbound[i].next = "PUBREC" =>
                    (Delivered(outbound[i].n) \/ outbound[i].n = q.n <=> outbound[i].id \in held')
               /\ outbound[i].next = "PUBCOMP" => Delivered(outbound[i].n)
    <3>1. /\ outbound[i].next = "PUBREC" => (Delivered(outbound[i].n) <=> outbound[i].id \in held)
          /\ outbound[i].next = "PUBCOMP" => Delivered(outbound[i].n)
      BY <1>3 DEF HeldAsSent
    <3>2. CASE q.qos = 0
      <4>1. outbound[i].n # q.n
        BY <1>4, <1>14, <3>2
      <4>2. outbound[i].id \in held' <=> outbound[i].id \in held
        BY <1>9, <3>2
      <4>3. QED
        BY <3>1, <4>1, <4>2
    <3>3. CASE q.qos # 0
      <4>1. PICK k \in DOMAIN outbound : Of(outbound[k], "toBroker", q)
        BY <1>5, <1>7, <3>3
      <4>2. outbound[k].id = q.id /\ outbound[k].n = q.n /\ outbound[k].qos = q.qos
        BY <1>6, <4>1
      <4>3. outbound[i].n = q.n <=> i = k
        BY <1>3, <4>2 DEF NumbersApart
      <4>4. outbound[i].id = q.id <=> i = k
        BY <4>2 DEF Session, Listed
      <4>5. outbound[i].next = "PUBREC" /\ i = k => q.qos = 2
        BY <1>4, <1>14, <3>3, <4>2
      <4>6. QED
        BY <1>9, <3>1, <4>3, <4>4, <4>5
    <3>4. QED
      BY <3>2, <3>3
  <2>2. ASSUME NEW x \in held' PROVE \E i \in DOMAIN outbound : outbound[i].id = x /\ outbound[i].qos = 2
    <3>1. CASE x \in held
      BY <1>3, <3>1 DEF HeldAsSent
    <3>2. CASE q.qos = 2 /\ x = q.id
      BY <1>5, <1>6, <1>7, <3>2
    <3>3. QED
      BY <1>9, <2>2, <3>1, <3>2
  <2>3. ASSUME NEW i \in DOMAIN outbound, NEW n, n = outbound[i].n
        PROVE  /\ outbound[i].next = "PUBREC" => (Delivered(n)' <=> outbound[i].id \in held')
               /\ outbound[i].next = "PUBCOMP" => Delivered(n)'
    BY <1>8, <2>1, <2>3
  <2>4. HeldAsSent'
    BY <1>2, <2>2, <2>3 DEF HeldAsSent, Delivered
  <2>5. NumbersApart'
    BY <1>2, <1>3 DEF NumbersApart
  <2>6. QED
    BY <2>4, <2>5 DEF Half
<1>16. FilesHalf'
  <2>1. SUFFICES ASSUME ~plan.clean PROVE FilesHalf'
    BY <1>2 DEF FilesHalf
  <2>2. ASSUME NEW x, NEW c, c = store.files[SentKey(x)], File(SentKey(x))
        PROVE  /\ File(PubrelKey(x)) => Delivered(c.n)'
               /\ ~File(PubrelKey(x)) /\ c.qos = 2 => (Delivered(c.n)' <=> x \in held')
    <3>1. /\ File(PubrelKey(x)) => Delivered(c.n)
          /\ ~File(PubrelKey(x)) /\ c.qos = 2 => (Delivered(c.n) <=> x \in held)
      BY <2>1, <2>2 DEF DInv, Ledger, FilesHalf, FileHalf
    <3>2. c.qos = plan.out[c.n]
      <4>1. SentKey(x)[1] = "s-"
        BY DEF SentKey
      <4>2. QED
        BY <2>2, <4>1 DEF DInv, Ledger, AsPlanned, OfPlan, File
    <3>3. CASE q.qos = 0
      <4>0. c.n = q.n => c.qos = q.qos
        BY <1>4, <3>2, Zenon
      <4>1. c.qos = 2 => c.n # q.n
        BY <3>3, <4>0
      <4>2. x \in held' <=> x \in held
        BY <1>9, <3>3
      <4>3. Delivered(c.n)' <=> Delivered(c.n) \/ c.n = q.n
        BY <1>8
      <4>4. QED
        BY <3>1, <4>1, <4>2, <4>3
    <3>4. CASE q.qos # 0
      <4>1. /\ File(SentKey(q.id)) /\ store.files[SentKey(q.id)].n = q.n
        BY <1>5, <1>6, <1>7, <2>1, <3>4
      <4>2. c.n = q.n <=> x = q.id
        BY <2>1, <2>2, <4>1 DEF DInv, Ledger, FilesHalf
      <4>3. c.n = q.n => c.qos = q.qos
        BY <1>4, <3>2
      <4>4. QED
        BY <1>8, <1>9, <3>1, <4>2, <4>3
    <3>5. QED
      BY <3>3, <3>4
  <2>3. ASSUME NEW x PROVE FileHalf(x)'
    <3>1. ASSUME NEW c, c = store.files[SentKey(x)], File(SentKey(x))
          PROVE  /\ File(PubrelKey(x)) => \E l \in DOMAIN received' : received'[l] = c.n
                 /\ ~File(PubrelKey(x)) /\ c.qos = 2 =>
                      ((\E l \in DOMAIN received' : received'[l] = c.n) <=> x \in held')
      <4>1. Delivered(c.n)' <=> \E l \in DOMAIN received' : received'[l] = c.n
        BY DEF Delivered
      <4>2. QED
        BY <2>2, <3>1, <4>1
    <3>2. QED
      BY <1>2, <3>1 DEF FileHalf, File, Delivered
  <2>4. ASSUME NEW x \in held' PROVE File(SentKey(x)) /\ store.files[SentKey(x)].qos = 2
    <3>1. CASE x \in held
      BY <2>1, <3>1 DEF DInv, Ledger, FilesHalf
    <3>2. CASE q.qos = 2 /\ x = q.id
      BY <1>5, <1>6, <1>7, <2>1, <3>2
    <3>3. QED
      BY <1>9, <2>4, <3>1, <3>2
  <2>5. QED
    BY <1>2, <2>1, <2>3, <2>4 DEF DInv, Ledger, FilesHalf, File
<1>17. AsPlanned'
  <2>1. \A i \in DOMAIN received' : received'[i] <= published
    <3>1. ASSUME NEW i \in DOMAIN received', NEW n, n = received'[i] PROVE n <= published
      <4>1. Delivered(n)'
        BY <3>1 DEF Delivered
      <4>2. Delivered(n) \/ n = q.n
        BY <1>8, <4>1
      <4>3. QED
        BY <1>4, <4>2 DEF DInv, Ledger, AsPlanned, Delivered
    <3>2. QED
      BY <3>1
  <2>2. QED
    BY <1>2, <2>1 DEF DInv, Ledger, AsPlanned, OfPlan
<1>18. Unsent'
  <2>1. ASSUME NEW n, File(CommandKey(n)) PROVE ~Delivered(n)'
    BY <1>4, <1>8, <2>1 DEF DInv, Ledger, Unsent
  <2>2. QED
    BY <1>2, <2>1 DEF DInv, Ledger, Unsent, File, Starts
<1>19. KeptUntilDelivered'
  BY <1>2, <1>8 DEF DInv, Ledger, KeptUntilDelivered, InMemoryStill, InFilesStill
<1>20. QED
  BY <1>10, <1>11, <1>12, <1>13, <1>15, <1>16, <1>17, <1>18, <1>19 DEF DInv, Ledger

-----------------------------------------------------------------------------
(* Puts and removals                                                        *)

booksButStore == <<plan, running, connected, commands, outbound, published, received, held>>

LEMMA FileEffect ==
  ASSUME Typed, Typed', DInv, todo # <<>>, todo' = Tail(todo), UNCHANGED <<booksButStore, network>>,
         \A n : File(CommandKey(n))' => File(CommandKey(n)) /\ ~Starts(n),
         \A i \in DOMAIN outbound :
           /\ File(SentKey(outbound[i].id)) => File(SentKey(outbound[i].id))'
           /\ outbound[i].next = "PUBCOMP" /\ File(PubrelKey(outbound[i].id)) =>
                File(PubrelKey(outbound[i].id))'
  PROVE  OneAtATime' /\ AllMeant' /\ Connections' /\ Half'
<1>1. UNCHANGED <<plan, running, connected, commands, outbound, published, received, held>>
      /\ UNCHANGED <<link, toBroker, toClient>>
  BY DEF booksButStore, network
<1>2. connected
  BY DEF DInv, Connections
<1>3. Connections'
  BY <1>1, <1>2 DEF DInv, Connections
<1>4. /\ ShiftOf("todo") \in [Places -> {0, 1}]
      /\ \A a, i, p : At(a, i, p)' => At(a, i + ShiftOf("todo")[a], p)
  BY <1>1, TodoShift
<1>5. OneAtATime'
  <2>1. OneAtATime
    BY DEF DInv
  <2>2. PacketsMove(ShiftOf("todo"), "", 0)
    BY <1>4 DEF PacketsMove
  <2>3. QED
    BY <1>4, <2>1, <2>2, OneAtATimeMoves
<1>6. AllMeant'
  <2> SUFFICES ASSUME NEW a, NEW i, NEW p, At(a, i, p)' PROVE Meant(a, p)'
    BY DEF AllMeant
  <2>1. At(a, i + ShiftOf("todo")[a], p)
    BY <1>4
  <2>2. Meant(a, p)
    BY <2>1 DEF DInv, AllMeant
  <2>3. p.type = "PUBLISH" => p.n \in Nat
    BY <2>1, AtTypes DEF Out
  <2>4. published \in Nat /\ published' \in Nat /\ published <= published' /\ plan' = plan
    BY <1>1, PlanTypes DEF Typed, ClientTyped
  <2>5. p.type = "PUBLISH" => ~File(CommandKey(p.n))'
    BY <2>2 DEF Meant
  <2>6. \A n : Delivered(n) <=> Delivered(n)'
    BY <1>1 DEF Delivered
  <2>7. p.id = 0 => ~Delivered(p.n)'
    BY <2>2, <2>6 DEF Meant
  <2>8. outbound' = outbound /\ held' = held
    BY <1>1
  <2>9. \A l \in DOMAIN outbound : Of(outbound[l], a, p) /\ a # "todo" /\ ~plan.clean =>
          /\ File(SentKey(p.id))'
          /\ outbound[l].next = "PUBCOMP" => File(PubrelKey(p.id))'
    <3>1. SUFFICES ASSUME NEW l \in DOMAIN outbound, Of(outbound[l], a, p), a # "todo", ~plan.clean
                   PROVE  /\ File(SentKey(p.id))'
                          /\ outbound[l].next = "PUBCOMP" => File(PubrelKey(p.id))'
      OBVIOUS
    <3>2. /\ outbound[l].id = p.id /\ File(SentKey(p.id))
          /\ outbound[l].next = "PUBCOMP" => File(PubrelKey(p.id))
      BY <3>1 DEF Of
    <3>3. ASSUME NEW id, id = outbound[l].id
          PROVE  /\ File(SentKey(id)) => File(SentKey(id))'
                 /\ outbound[l].next = "PUBCOMP" /\ File(PubrelKey(id)) => File(PubrelKey(id))'
      BY <1>1, <3>3 DEF File
    <3>4. QED
      BY <3>2, <3>3
  <2>10. \A l \in DOMAIN outbound : \E k \in DOMAIN outbound' : outbound'[k] = outbound[l]
    BY <2>8
  <2>11. QED
    BY <2>2, <2>3, <2>4, <2>5, <2>6, <2>7, <2>8, <2>9, <2>10, StillMeant
<1>7. Half'
  BY <1>1 DEF DInv, Ledger, Half, HeldAsSent, NumbersApart, Delivered
<1>8. QED
  BY <1>3, <1>5, <1>6, <1>7

LEMMA RemoveKeyDelivery ==
  ASSUME Typed, Typed', Session, DInv, RemoveKey
  PROVE  DInv'
<1> DEFINE key == todo[1].key
<1>1. /\ todo # <<>> /\ Head(todo) = todo[1] /\ 1 \in DOMAIN todo /\ todo[1].op = "remove"
      /\ todo' = Tail(todo) /\ running /\ store' = PstRemove(store, key)
      /\ UNCHANGED <<booksButStore, network>>
  BY Heads DEF RemoveKey, Effect, Typed, EffectsTyped, booksButStore, network, broker, memory
<1>2. UNCHANGED <<plan, running, connected, commands, outbound, published, received, held>>
  BY <1>1 DEF booksButStore
<1>3. RemovalKnown(1)
  BY <1>1 DEF Session, RemovalsKnown
<1>3a. /\ key[1] = "c-" => \A i \in DOMAIN commands : commands[i].n # key[2]
       /\ key[1] \in {"s-", "sc-"} => \A i \in DOMAIN outbound : outbound[i].id # key[2]
  BY <1>3 DEF RemovalKnown
<1> HIDE DEF key
<1>4. /\ DOMAIN store'.files = DOMAIN store.files \ {key}
      /\ \A k \in DOMAIN store.files : k # key => store'.files[k] = store.files[k]
  BY <1>1, FilesAfterRemove DEF Typed, StoreTyped
<1>5. \A k : File(k)' <=> File(k) /\ k # key
  BY <1>4 DEF File
<1>6. \A x : /\ SentKey(x)[1] = "s-" /\ SentKey(x)[2] = x
             /\ PubrelKey(x)[1] = "sc-" /\ PubrelKey(x)[2] = x
             /\ CommandKey(x)[1] = "c-" /\ CommandKey(x)[2] = x
  BY DEF SentKey, PubrelKey, CommandKey
<1>7. \A n : File(CommandKey(n))' => File(CommandKey(n)) /\ ~Starts(n)
  BY <1>5 DEF Starts, key
<1>8. \A i \in DOMAIN outbound : SentKey(outbound[i].id) # key /\ PubrelKey(outbound[i].id) # key
  BY <1>3a, <1>6
<1>9. OneAtATime' /\ AllMeant' /\ Connections' /\ Half'
  <2>1. ASSUME NEW i \in DOMAIN outbound, NEW id, id = outbound[i].id
        PROVE  /\ File(SentKey(id)) => File(SentKey(id))'
               /\ File(PubrelKey(id)) => File(PubrelKey(id))'
    BY <1>5, <1>8, <2>1
  <2>2. \A i \in DOMAIN outbound :
           /\ File(SentKey(outbound[i].id)) => File(SentKey(outbound[i].id))'
           /\ outbound[i].next = "PUBCOMP" /\ File(PubrelKey(outbound[i].id)) =>
                File(PubrelKey(outbound[i].id))'
    <3>1. \A i \in DOMAIN outbound : outbound'[i] = outbound[i]
      BY <1>2
    <3>2. QED
      BY <2>1, <3>1 DEF File
  <2>3. QED
    BY <1>1, <1>7, <2>2, FileEffect
<1>10. \A j \in DOMAIN todo' : j \in Nat \ {0} /\ j + 1 \in DOMAIN todo /\ todo'[j] = todo[j + 1]
  BY <1>1, Heads DEF Typed, EffectsTyped
<1>11. Shapes'
  <2> SUFFICES ASSUME ~plan.clean PROVE Shapes'
    BY <1>2 DEF Shapes
  <2>1. ASSUME NEW j, NewPut(j, "s-")' \/ NewPut(j, "sc-")', NEW k, k = todo'[j].key
        PROVE  /\ j \in Nat \ {0} /\ k = todo[j + 1].key
               /\ NewPut(j, "s-")' => NewPut(j + 1, "s-")
               /\ NewPut(j, "sc-")' => NewPut(j + 1, "sc-")
    <3>1. /\ j \in DOMAIN todo' /\ todo'[j].op = "put" /\ k[1] \in {"s-", "sc-"} /\ ~File(k)'
      BY <2>1 DEF NewPut, File
    <3>2. j \in Nat \ {0} /\ j + 1 \in DOMAIN todo /\ todo'[j] = todo[j + 1]
      BY <1>10, <3>1
    <3>3. PutKnown(j + 1)
      BY <3>1, <3>2 DEF Session, PutsKnown
    <3>4. \E i \in DOMAIN outbound : k[2] = outbound[i].id
      BY <2>1, <3>1, <3>2, <3>3 DEF PutKnown
    <3>5. k # key
      BY <1>3a, <3>1, <3>4
    <3>6. ~File(k)
      BY <1>5, <3>1, <3>5
    <3>7. QED
      BY <2>1, <3>2, <3>6 DEF NewPut
  <2>2. ASSUME NEW j, NewPut(j, "s-")'
        PROVE  /\ j = 1 /\ Len(todo') = j + 1 /\ todo'[j + 1].op = "write"
    <3>1. j \in Nat \ {0} /\ NewPut(j + 1, "s-")
      BY <2>1, <2>2
    <3>2. j + 1 \in {1, 2} /\ Len(todo) = j + 1 + 1 /\ todo[j + 1 + 1].op = "write"
      BY <3>1 DEF DInv, Shapes
    <3>3. j = 1 /\ Len(todo) = 3 /\ todo[3].op = "write"
      BY <3>1, <3>2
    <3>4a. Tail(todo) \in Seq(Effects) /\ Len(Tail(todo)) = Len(todo) - 1
      BY <1>1, Heads DEF Typed, EffectsTyped
    <3>4. Len(todo') = 2 /\ 2 \in DOMAIN todo'
      <4>1. Tail(todo) \in Seq(Effects) /\ Len(Tail(todo)) = 2
        BY <1>1, <3>3, <3>4a
      <4>2. ASSUME NEW t \in Seq(Effects), Len(t) = 2 PROVE 2 \in DOMAIN t
        BY <4>2
      <4>3. 2 \in DOMAIN Tail(todo)
        BY <4>1, <4>2
      <4>4. todo' = Tail(todo)
        BY <1>1
      <4>5. QED
        BY <4>1, <4>3, <4>4, Zenon
    <3>5. todo'[2] = todo[3]
      BY <1>10, <3>4
    <3>6. QED
      BY <3>3, <3>4, <3>5
  <2>3. ASSUME NEW j, NewPut(j, "sc-")' PROVE FALSE
    <3>1. j \in Nat \ {0} /\ NewPut(j + 1, "sc-")
      BY <2>1, <2>3
    <3>2. j + 1 = 1
      BY <3>1 DEF DInv, Shapes
    <3>3. QED
      BY <3>1, <3>2
  <2>4. ASSUME NEW j \in DOMAIN todo', NEW x, x = todo'[j].key[2], todo'[j].op = "remove",
               todo'[j].key[1] = "sc-", File(SentKey(x))'
        PROVE  FALSE
    <3>1. j \in Nat \ {0} /\ j + 1 \in DOMAIN todo /\ todo'[j] = todo[j + 1]
      BY <1>10
    <3>2. File(SentKey(x)) /\ SentKey(x) # key
      BY <1>5, <2>4
    <3>3. todo[1].key = SentKey(todo[j + 1].key[2])
      BY <2>4, <3>1, <3>2 DEF DInv, Shapes
    <3>4. QED
      BY <2>4, <3>1, <3>2, <3>3 DEF key
  <2>5. QED
    BY <2>2, <2>3, <2>4 DEF Shapes, File
<1>12. AsPlanned'
  <2>1. \A k \in DOMAIN store'.files : k[1] \in {"c-", "s-"} => OfPlan(store.files[k])
    BY <1>4 DEF DInv, Ledger, AsPlanned
  <2>2. QED
    BY <1>2, <1>4, <2>1 DEF DInv, Ledger, AsPlanned, OfPlan
<1>13. FilesHalf'
  <2> SUFFICES ASSUME ~plan.clean PROVE FilesHalf'
    BY <1>2 DEF FilesHalf
  <2>1. \A x : File(SentKey(x))' =>
          File(SentKey(x)) /\ store'.files[SentKey(x)] = store.files[SentKey(x)]
    BY <1>4, <1>5 DEF File
  <2>2. ASSUME NEW x PROVE FileHalf(x)'
    <3>1. SUFFICES ASSUME File(SentKey(x))' PROVE FileHalf(x)'
      BY DEF FileHalf
    <3>2. File(SentKey(x)) /\ store'.files[SentKey(x)] = store.files[SentKey(x)]
      BY <2>1, <3>1
    <3>3. PubrelKey(x) # key
      <4>1. SUFFICES ASSUME PubrelKey(x) = key PROVE FALSE
        OBVIOUS
      <4>2. todo[1].key[1] = "sc-" /\ todo[1].key[2] = x
        BY <1>6, <4>1 DEF key
      <4>3. 1 = 2
        BY <1>1, <3>2, <4>2 DEF DInv, Shapes
      <4>4. QED
        BY <4>3
    <3>4. File(PubrelKey(x))' <=> File(PubrelKey(x))
      BY <1>5, <3>3
    <3>5. FileHalf(x)
      BY DEF DInv, Ledger, FilesHalf
    <3>6. QED
      BY <1>2, <3>2, <3>4, <3>5 DEF FileHalf, Delivered
  <2>3. ASSUME NEW x \in held PROVE File(SentKey(x))' /\ store'.files[SentKey(x)].qos = 2
    <3>1. File(SentKey(x)) /\ store.files[SentKey(x)].qos = 2
      BY DEF DInv, Ledger, FilesHalf
    <3>2. \E i \in DOMAIN outbound : outbound[i].id = x
      BY <1>1 DEF DInv, Ledger, Half, HeldAsSent
    <3>3. SentKey(x) # key
      BY <1>8, <3>2
    <3>4. File(SentKey(x))'
      BY <1>5, <3>1, <3>3
    <3>5. QED
      BY <2>1, <3>1, <3>4
  <2>4. ASSUME NEW x, NEW y, File(SentKey(x))', File(SentKey(y))',
               store'.files[SentKey(x)].n = store'.files[SentKey(y)].n
        PROVE  x = y
    BY <2>1, <2>4 DEF DInv, Ledger, FilesHalf
  <2>5. ASSUME NEW i \in DOMAIN outbound, NEW x, x = outbound[i].id, File(SentKey(x))'
        PROVE  store'.files[SentKey(x)] = ContentOf(outbound[i])
    BY <2>1, <2>5 DEF DInv, Ledger, FilesHalf
  <2>6. QED
    BY <1>2, <2>2, <2>3, <2>4, <2>5 DEF FilesHalf, File
<1>14. Unsent'
  <2> SUFFICES ASSUME NEW n, File(CommandKey(n))'
               PROVE  /\ ~Delivered(n)
                      /\ ~plan.clean =>
                           /\ \A x : File(SentKey(x))' => store'.files[SentKey(x)].n # n
                           /\ \A i \in DOMAIN outbound : outbound[i].n # n
    BY <1>2 DEF Unsent, Delivered, File
  <2>1. File(CommandKey(n)) /\ ~Starts(n)
    BY <1>7
  <2>2. \A x : File(SentKey(x))' =>
          File(SentKey(x)) /\ store'.files[SentKey(x)] = store.files[SentKey(x)]
    BY <1>4, <1>5 DEF File
  <2>3. /\ ~Delivered(n)
        /\ ~plan.clean =>
             /\ \A x : File(SentKey(x)) => store.files[SentKey(x)].n # n
             /\ \A i \in DOMAIN outbound : outbound[i].n # n
    BY <2>1 DEF DInv, Ledger, Unsent
  <2>4. QED
    BY <2>2, <2>3
<1>15. KeptUntilDelivered'
  BY <1>1, <1>2 DEF DInv, Ledger, KeptUntilDelivered, InMemoryStill, Delivered
<1>16. QED
  BY <1>9, <1>11, <1>12, <1>13, <1>14, <1>15 DEF DInv, Ledger

\* a put of a key of an outbound message: what its PUBREL's key says
LEMMA PutOfSent ==
  ASSUME Session, DInv, ~plan.clean, running, todo[1].op = "put", 1 \in DOMAIN todo,
         NEW i \in DOMAIN outbound, todo[1].key = SentKey(outbound[i].id), outbound[i].next # "PUBCOMP"
  PROVE  ~File(PubrelKey(outbound[i].id))
<1> DEFINE k == PubrelKey(outbound[i].id)
<1>1. k[1] = "sc-" /\ k[2] = outbound[i].id
  BY DEF PubrelKey
<1> HIDE DEF k
<1>2. ~InMemory(k)
  BY <1>1 DEF InMemory, Session, Listed
<1>3. ~HasRemove(k)
  <2>1. SUFFICES ASSUME NEW j \in DOMAIN todo, todo[j].op = "remove", todo[j].key = k PROVE FALSE
    BY DEF HasRemove
  <2>2. RemovalKnown(j)
    BY <2>1 DEF Session, RemovalsKnown
  <2>3. QED
    BY <1>1, <2>1, <2>2 DEF RemovalKnown
<1>4. QED
  BY <1>2, <1>3 DEF Session, NothingElse, File, k

LEMMA PutDelivery ==
  ASSUME Typed, Typed', Session, DInv, Put
  PROVE  DInv'
<1> DEFINE key == todo[1].key
           c == todo[1].content
<1>1. /\ todo # <<>> /\ Head(todo) = todo[1] /\ 1 \in DOMAIN todo /\ todo[1].op = "put"
      /\ todo' = Tail(todo) /\ running /\ store' = PstPut(store, key, c)
      /\ UNCHANGED <<booksButStore, network>>
  BY Heads DEF Put, Effect, Typed, EffectsTyped, booksButStore, network, broker, memory
<1>2. UNCHANGED <<plan, running, connected, commands, outbound, published, received, held>>
  BY <1>1 DEF booksButStore
<1>3. /\ key[1] # "c-"
      /\ key[1] = "s-" => \E i \in DOMAIN outbound :
           key = SentKey(outbound[i].id) /\ c = ContentOf(outbound[i]) /\ outbound[i].next # "PUBCOMP"
      /\ key[1] = "sc-" => \E i \in DOMAIN outbound :
           key = PubrelKey(outbound[i].id) /\ c = ContentOf(outbound[i]) /\ outbound[i].next = "PUBCOMP"
  BY <1>1, PutFirst
<1>3a. NewPut(1, "s-") <=> key[1] = "s-" /\ ~File(key)
  BY <1>1 DEF NewPut
<1>3b. \A n : ~Starts(n)
  BY <1>1 DEF Starts
<1> HIDE DEF key, c
<1>4. /\ DOMAIN store'.files = DOMAIN store.files \cup {key} /\ store'.files[key] = c
      /\ \A k \in DOMAIN store.files : k # key => store'.files[k] = store.files[k]
  BY <1>1, FilesAfterPut DEF Typed, StoreTyped
<1>5. \A k : File(k)' <=> File(k) \/ k = key
  BY <1>4 DEF File
<1>6. \A x : /\ SentKey(x)[1] = "s-" /\ SentKey(x)[2] = x
             /\ PubrelKey(x)[1] = "sc-" /\ PubrelKey(x)[2] = x
             /\ CommandKey(x)[1] = "c-" /\ CommandKey(x)[2] = x
  BY DEF SentKey, PubrelKey, CommandKey
<1>7. \A n : File(CommandKey(n))' => File(CommandKey(n)) /\ ~Starts(n)
  BY <1>3, <1>3b, <1>5, <1>6
<1>8. OneAtATime' /\ AllMeant' /\ Connections' /\ Half'
  <2>1. ASSUME NEW k, File(k) PROVE File(k)'
    BY <1>5, <2>1
  <2>2. \A i \in DOMAIN outbound :
           /\ File(SentKey(outbound[i].id)) => File(SentKey(outbound[i].id))'
           /\ outbound[i].next = "PUBCOMP" /\ File(PubrelKey(outbound[i].id)) =>
                File(PubrelKey(outbound[i].id))'
    <3>1. \A i \in DOMAIN outbound : outbound'[i] = outbound[i]
      BY <1>2
    <3>2. QED
      BY <2>1, <3>1 DEF File
  <2>3. QED
    BY <1>1, <1>7, <2>2, FileEffect
<1>9. \A j \in DOMAIN todo' : j \in Nat \ {0} /\ j + 1 \in DOMAIN todo /\ todo'[j] = todo[j + 1]
  BY <1>1, Heads DEF Typed, EffectsTyped
<1>10. Shapes'
  <2>1. ASSUME ~plan.clean, NEW j \in DOMAIN todo', NEW k, k = todo'[j].key, todo'[j].op = "put",
               k[1] \in {"s-", "sc-"}
        PROVE  File(k)'
    <3>1. j \in Nat \ {0} /\ j + 1 \in DOMAIN todo /\ todo'[j] = todo[j + 1] /\ j + 1 # 1
      BY <1>9
    <3>2. ~NewPut(j + 1, "s-")
      BY <1>3b, <2>1, <3>1 DEF DInv, Shapes
    <3>3. ~NewPut(j + 1, "sc-")
      BY <2>1, <3>1 DEF DInv, Shapes
    <3>4. File(k)
      BY <2>1, <3>1, <3>2, <3>3 DEF NewPut
    <3>5. QED
      BY <1>5, <3>4
  <2>2. ASSUME ~plan.clean, NEW j \in DOMAIN todo', NEW x, x = todo'[j].key[2],
               todo'[j].op = "remove", todo'[j].key[1] = "sc-"
        PROVE  ~File(SentKey(x))'
    <3>1. j \in Nat \ {0} /\ j + 1 \in DOMAIN todo /\ todo'[j] = todo[j + 1]
      BY <1>9
    <3>2. ~File(SentKey(x))
      BY <1>1, <2>2, <3>1 DEF DInv, Shapes
    <3>3. RemovalKnown(j + 1)
      BY <2>2, <3>1 DEF Session, RemovalsKnown
    <3>4. \A i \in DOMAIN outbound : outbound[i].id # x
      BY <2>2, <3>1, <3>3 DEF RemovalKnown
    <3>5. SentKey(x) # key
      BY <1>3, <1>6, <3>4
    <3>6. QED
      BY <1>5, <3>2, <3>5
  <2>3. Harmless'
    BY <1>2, <2>1, <2>2 DEF Harmless, File
  <2>4. QED
    BY <2>3, HarmlessShapes, PTL
<1>11. \A i \in DOMAIN outbound : OfPlan(outbound[i])
  BY DEF DInv, Ledger, AsPlanned
<1>12. AsPlanned'
  <2>1. ASSUME NEW k \in DOMAIN store'.files, k[1] \in {"c-", "s-"} PROVE OfPlan(store'.files[k])
    <3>1. CASE k = key
      <4>1. PICK i \in DOMAIN outbound : c = ContentOf(outbound[i])
        BY <1>3, <2>1, <3>1
      <4>2. c.n = outbound[i].n /\ c.qos = outbound[i].qos
        BY <4>1 DEF ContentOf
      <4>3. QED
        BY <1>4, <1>11, <3>1, <4>2 DEF OfPlan
    <3>2. CASE k # key
      BY <1>4, <2>1, <3>2 DEF DInv, Ledger, AsPlanned
    <3>3. QED
      BY <3>1, <3>2
  <2>2. QED
    BY <1>2, <2>1 DEF DInv, Ledger, AsPlanned, OfPlan
<1>13. ~plan.clean => HeldAsSent /\ NumbersApart
  BY DEF DInv, Ledger, Half
<1>14. ASSUME ~plan.clean
       PROVE  /\ key[1] = "s-" /\ File(key) => store.files[key] = c
              /\ \A i \in DOMAIN outbound : key = SentKey(outbound[i].id) =>
                   /\ c = ContentOf(outbound[i]) /\ outbound[i].next # "PUBCOMP"
                   /\ ~File(PubrelKey(outbound[i].id))
  <2>1. ASSUME NEW i \in DOMAIN outbound, key = SentKey(outbound[i].id)
        PROVE  /\ c = ContentOf(outbound[i]) /\ outbound[i].next # "PUBCOMP"
               /\ File(key) => store.files[key] = c
    <3>1. key[1] = "s-" /\ key[2] = outbound[i].id
      BY <1>6, <2>1
    <3>2. PICK j \in DOMAIN outbound :
            key = SentKey(outbound[j].id) /\ c = ContentOf(outbound[j]) /\ outbound[j].next # "PUBCOMP"
      BY <1>3, <3>1
    <3>3. outbound[j].id = outbound[i].id
      BY <1>6, <3>1, <3>2
    <3>4. i = j
      BY <3>3 DEF Session, Listed
    <3>5. QED
      BY <1>14, <3>2, <3>4 DEF DInv, Ledger, FilesHalf
  <2>2. ASSUME NEW i \in DOMAIN outbound, key = SentKey(outbound[i].id)
        PROVE  ~File(PubrelKey(outbound[i].id))
    BY <1>1, <1>14, <2>1, <2>2, PutOfSent DEF key
  <2>3. QED
    BY <1>3, <2>1, <2>2
<1>15. ASSUME ~plan.clean, NEW x, NEW y, x # y, key = SentKey(x), File(SentKey(y))
       PROVE  store.files[SentKey(y)].n # c.n
  <2>1. CASE File(key)
    BY <1>14, <1>15, <1>6, <2>1 DEF DInv, Ledger, FilesHalf
  <2>2. CASE ~File(key)
    <3>1. key[1] = "s-"
      BY <1>6, <1>15
    <3>2a. NewPut(1, "s-")
      BY <1>3a, <2>2, <3>1
    <3>2b. Len(todo) = 1 + 1 /\ todo[1 + 1].op = "write"
      BY <1>15, <3>2a DEF DInv, Shapes
    <3>2. Len(todo) = 2 /\ todo[2].op = "write"
      BY <3>2b
    <3>3. \A j \in DOMAIN todo : j = 1 \/ j = 2
      BY <3>2 DEF Typed, EffectsTyped
    <3>4. ~HasRemove(SentKey(y))
      BY <1>1, <3>2, <3>3 DEF HasRemove
    <3>5. InMemory(SentKey(y))
      BY <1>1, <1>15, <3>4 DEF Session, NothingElse, File
    <3>6. PICK j \in DOMAIN outbound : outbound[j].id = y
      BY <1>6, <3>5 DEF InMemory
    <3>7. store.files[SentKey(y)] = ContentOf(outbound[j])
      BY <1>15, <3>6 DEF DInv, Ledger, FilesHalf
    <3>8. PICK i \in DOMAIN outbound : key = SentKey(outbound[i].id) /\ c = ContentOf(outbound[i])
      BY <1>3, <3>1
    <3>9. outbound[i].id = x
      <4>1. key[2] = x
        BY <1>6, <1>15
      <4>2. key[2] = outbound[i].id
        BY <1>6, <3>8
      <4>3. QED
        BY <4>1, <4>2
    <3>10. outbound[i].n # outbound[j].n
      BY <1>13, <1>15, <3>6, <3>9 DEF NumbersApart
    <3>11. QED
      BY <3>7, <3>8, <3>10 DEF ContentOf
  <2>3. QED
    BY <2>1, <2>2
<1>16. FilesHalf'
  <2> SUFFICES ASSUME ~plan.clean PROVE FilesHalf'
    BY <1>2 DEF FilesHalf
  <2>1. \A x : SentKey(x) # key /\ File(SentKey(x))' =>
          File(SentKey(x)) /\ store'.files[SentKey(x)] = store.files[SentKey(x)]
    BY <1>4, <1>5 DEF File
  <2>2. ASSUME NEW x, NEW d, d = store'.files[SentKey(x)], File(SentKey(x))'
        PROVE  /\ File(PubrelKey(x))' => Delivered(d.n)
               /\ ~File(PubrelKey(x))' /\ d.qos = 2 => (Delivered(d.n) <=> x \in held)
    <3>1. CASE key = SentKey(x)
      <4>1. key[1] = "s-" /\ key[2] = x
        BY <1>6, <3>1
      <4>2. PICK i \in DOMAIN outbound :
              key = SentKey(outbound[i].id) /\ c = ContentOf(outbound[i]) /\ outbound[i].next # "PUBCOMP"
        BY <1>3, <4>1
      <4>3. outbound[i].id = x
        BY <1>6, <4>1, <4>2
      <4>4. ~File(PubrelKey(x)) /\ PubrelKey(x) # key
        BY <1>6, <1>14, <4>1, <4>2, <4>3
      <4>5. ~File(PubrelKey(x))'
        BY <1>5, <4>4
      <4>6. d = ContentOf(outbound[i])
        BY <1>4, <2>2, <3>1, <4>2
      <4>7. d.n = outbound[i].n /\ d.qos = outbound[i].qos
        BY <4>6 DEF ContentOf
      <4>8. outbound[i] \in OutMessages
        BY DEF Typed, ClientTyped
      <4>9. d.qos = 2 => outbound[i].next = "PUBREC"
        <5>1. outbound[i].next \in Answers /\ (outbound[i].qos = 1 <=> outbound[i].next = "PUBACK")
          BY <4>8 DEF OutMessages
        <5>2. QED
          BY <4>2, <4>7, <5>1 DEF Answers
      <4>10. outbound[i].next = "PUBREC" => (Delivered(outbound[i].n) <=> outbound[i].id \in held)
        BY <1>13 DEF HeldAsSent
      <4>11. QED
        BY <4>3, <4>5, <4>7, <4>9, <4>10
    <3>2. CASE key = PubrelKey(x)
      <4>1. key[1] = "sc-" /\ key[2] = x
        BY <1>6, <3>2
      <4>2. PICK i \in DOMAIN outbound :
              key = PubrelKey(outbound[i].id) /\ outbound[i].next = "PUBCOMP"
        BY <1>3, <4>1
      <4>3. outbound[i].id = x
        BY <1>6, <4>1, <4>2
      <4>4. SentKey(x) # key
        BY <1>6, <4>1
      <4>5. File(SentKey(x)) /\ d = store.files[SentKey(x)]
        BY <2>1, <2>2, <4>4
      <4>6. d = ContentOf(outbound[i])
        BY <4>3, <4>5 DEF DInv, Ledger, FilesHalf
      <4>7. Delivered(outbound[i].n)
        BY <1>13, <4>2 DEF HeldAsSent
      <4>8. d.n = outbound[i].n
        BY <4>6 DEF ContentOf
      <4>9. File(PubrelKey(x))'
        BY <1>5, <3>2
      <4>10. QED
        BY <4>7, <4>8, <4>9
    <3>3. CASE key # SentKey(x) /\ key # PubrelKey(x)
      <4>1. File(SentKey(x)) /\ d = store.files[SentKey(x)]
        BY <2>1, <2>2, <3>3
      <4>2. File(PubrelKey(x))' <=> File(PubrelKey(x))
        BY <1>5, <3>3
      <4>3. QED
        BY <4>1, <4>2 DEF DInv, Ledger, FilesHalf, FileHalf
    <3>4. QED
      BY <3>1, <3>2, <3>3
  <2>3. ASSUME NEW x PROVE FileHalf(x)'
    <3>1. \A n : Delivered(n)' <=> Delivered(n)
      BY <1>2 DEF Delivered
    <3>2. ASSUME NEW d, d = store'.files[SentKey(x)], File(SentKey(x))'
          PROVE  /\ File(PubrelKey(x))' => Delivered(d.n)'
                 /\ ~File(PubrelKey(x))' /\ d.qos = 2 => (Delivered(d.n)' <=> x \in held)
      BY <2>2, <3>1, <3>2
    <3>3. ASSUME NEW d, d = store'.files[SentKey(x)], File(SentKey(x))'
          PROVE  /\ File(PubrelKey(x))' => \E l \in DOMAIN received' : received'[l] = d.n
                 /\ ~File(PubrelKey(x))' /\ d.qos = 2 =>
                      ((\E l \in DOMAIN received' : received'[l] = d.n) <=> x \in held)
      BY <3>2, <3>3 DEF Delivered
    <3>4. QED
      BY <1>2, <3>3 DEF FileHalf, Delivered
  <2>4. ASSUME NEW x \in held PROVE File(SentKey(x))' /\ store'.files[SentKey(x)].qos = 2
    <3>1. File(SentKey(x)) /\ store.files[SentKey(x)].qos = 2
      BY DEF DInv, Ledger, FilesHalf
    <3>2. File(SentKey(x))'
      BY <1>5, <3>1
    <3>3. CASE SentKey(x) = key
      <4>1. key[1] = "s-"
        BY <1>6, <3>3
      <4>2. store.files[key] = c
        BY <1>14, <3>1, <3>3, <4>1
      <4>3. QED
        BY <1>4, <3>1, <3>2, <3>3, <4>2
    <3>4. CASE SentKey(x) # key
      BY <2>1, <3>1, <3>2, <3>4
    <3>5. QED
      BY <3>3, <3>4
  <2>5. ASSUME NEW x, NEW y, File(SentKey(x))', File(SentKey(y))',
               store'.files[SentKey(x)].n = store'.files[SentKey(y)].n
        PROVE  x = y
    <3>1. SentKey(x) = SentKey(y) => x = y
      BY <1>6
    <3>2. CASE SentKey(x) # key /\ SentKey(y) # key
      BY <2>1, <2>5, <3>2 DEF DInv, Ledger, FilesHalf
    <3>3. CASE SentKey(x) = key /\ SentKey(y) # key
      <4>1. File(SentKey(y)) /\ store'.files[SentKey(y)] = store.files[SentKey(y)] /\ x # y
        BY <2>1, <2>5, <3>3
      <4>2. store.files[SentKey(y)].n # c.n
        BY <1>15, <3>3, <4>1
      <4>3. QED
        BY <1>4, <2>5, <3>3, <4>1, <4>2
    <3>4. CASE SentKey(x) # key /\ SentKey(y) = key
      <4>1. File(SentKey(x)) /\ store'.files[SentKey(x)] = store.files[SentKey(x)] /\ x # y
        BY <2>1, <2>5, <3>4
      <4>2. store.files[SentKey(x)].n # c.n
        BY <1>15, <3>4, <4>1
      <4>3. QED
        BY <1>4, <2>5, <3>4, <4>1, <4>2
    <3>5. QED
      BY <3>1, <3>2, <3>3, <3>4
  <2>6. ASSUME NEW i \in DOMAIN outbound, NEW x, x = outbound[i].id, File(SentKey(x))'
        PROVE  store'.files[SentKey(x)] = ContentOf(outbound[i])
    <3>1. CASE SentKey(x) = key
      BY <1>4, <1>14, <2>6, <3>1
    <3>2. CASE SentKey(x) # key
      BY <2>1, <2>6, <3>2 DEF DInv, Ledger, FilesHalf
    <3>3. QED
      BY <3>1, <3>2
  <2>7. QED
    BY <1>2, <2>3, <2>4, <2>5, <2>6 DEF FilesHalf, File
<1>17. Unsent'
  <2> SUFFICES ASSUME NEW n, File(CommandKey(n))'
               PROVE  /\ ~Delivered(n)
                      /\ ~plan.clean =>
                           /\ \A x : File(SentKey(x))' => store'.files[SentKey(x)].n # n
                           /\ \A i \in DOMAIN outbound : outbound[i].n # n
    BY <1>2 DEF Unsent, Delivered, File
  <2>1. File(CommandKey(n)) /\ ~Starts(n)
    BY <1>7
  <2>2. /\ ~Delivered(n)
        /\ ~plan.clean =>
             /\ \A x : File(SentKey(x)) => store.files[SentKey(x)].n # n
             /\ \A i \in DOMAIN outbound : outbound[i].n # n
    BY <2>1 DEF DInv, Ledger, Unsent
  <2>3. ASSUME ~plan.clean, NEW x, File(SentKey(x))' PROVE store'.files[SentKey(x)].n # n
    <3>1. CASE SentKey(x) = key
      <4>1. PICK i \in DOMAIN outbound : c = ContentOf(outbound[i])
        BY <1>3, <1>6, <3>1
      <4>2. c.n = outbound[i].n
        BY <4>1 DEF ContentOf
      <4>3. QED
        BY <1>4, <2>2, <2>3, <3>1, <4>2
    <3>2. CASE SentKey(x) # key
      <4>1. File(SentKey(x)) /\ store'.files[SentKey(x)] = store.files[SentKey(x)]
        BY <1>4, <1>5, <2>3, <3>2 DEF File
      <4>2. QED
        BY <2>2, <2>3, <4>1
    <3>3. QED
      BY <3>1, <3>2
  <2>4. QED
    BY <2>2, <2>3
<1>18. KeptUntilDelivered'
  BY <1>1, <1>2 DEF DInv, Ledger, KeptUntilDelivered, InMemoryStill, Delivered
<1>19. QED
  BY <1>8, <1>10, <1>12, <1>16, <1>17, <1>18 DEF DInv, Ledger

-----------------------------------------------------------------------------
(* Answers of the broker                                                    *)

\* after a step there is at most one packet to write
OnlyWrite(k, p) == \A j \in DOMAIN todo' : todo'[j].op = "write" => j = k /\ todo'[j].packet = p

\* the client takes the first packet q from the network and has at most one to write
LEMMA AnswerTaken ==
  ASSUME Typed, Typed', OneAtATime, todo = <<>>, toClient # <<>>, toClient[1].type \in Answers,
         toClient' = Tail(toClient), toBroker' = toBroker,
         NEW k, NEW new, new.id = toClient[1].id, OnlyWrite(k, new)
  PROVE  /\ OneAtATime'
         /\ \A a, i, p : At(a, i, p)' =>
              \/ /\ At(a, i + ShiftOf("toClient")[a], p)
                 /\ ~Same(p, toClient[1])
              \/ a = "todo" /\ i = k /\ p = new
<1> DEFINE q == toClient[1]
<1>1. At("toClient", 1, q)
  <2>1. 1 \in DOMAIN toClient
    BY Heads DEF Typed, NetworkTyped
  <2>2. QED
    BY <2>1 DEF At
<1>1a. q.id # 0
  <2>1. q.type # "PUBLISH"
    BY DEF Answers
  <2>2. QED
    BY <1>1, <2>1, AtTypes
<1>2. ShiftOf("toClient") \in [Places -> {0, 1}] /\ ShiftOf("toClient")["todo"] = 0
      /\ ShiftOf("toClient")["toBroker"] = 0 /\ ShiftOf("toClient")["toClient"] = 1
  BY DEF ShiftOf, Places
<1>3. \A j \in DOMAIN Tail(toClient) :
        j \in Nat \ {0} /\ j + 1 \in DOMAIN toClient /\ Tail(toClient)[j] = toClient[j + 1]
  BY Heads DEF Typed, NetworkTyped
<1> DEFINE New(a, i, p) == a = "todo" /\ i = k /\ p = new /\ new.id = q.id
<1>5. ASSUME NEW a, NEW i, NEW p, At(a, i, p)'
      PROVE  (i \in Nat \ {0} /\ At(a, i + ShiftOf("toClient")[a], p)) \/ New(a, i, p)
  <2>1. CASE a = "toClient"
    BY <1>2, <1>3, <1>5, <2>1 DEF At
  <2>2. CASE a = "toBroker"
    <3>0. At(a, i, p)
      BY <1>5, <2>2 DEF At
    <3>1. i \in Nat \ {0}
      BY <3>0, AtTypes
    <3>2. i + 0 = i
      BY <3>1
    <3>3. QED
      BY <1>2, <2>2, <3>0, <3>1, <3>2
  <2>3. CASE a = "todo"
    BY <1>5, <2>3 DEF At, OnlyWrite
  <2>4. QED
    BY <1>5, <2>1, <2>2, <2>3 DEF At
<1>6. OneAtATime'
  <2>1. ASSUME NEW a, NEW i, NEW p, New(a, i, p), NEW b, NEW j, NEW r, At(b, j, r), Same(p, r)
        PROVE  b \in Places /\ ShiftOf("toClient")[b] = 1 /\ j = 1
    <3>2. Same(q, r)
      BY <1>1a, <2>1 DEF Same
    <3>3. "toClient" = b /\ 1 = j
      BY <1>1, <2>1, <3>2 DEF OneAtATime
    <3>4. QED
      BY <1>2, <3>3 DEF Places
  <2> DEFINE x == "todo"
  <2>2. PacketsMove(ShiftOf("toClient"), x, k)
    BY <1>5, <2>1 DEF PacketsMove
  <2> HIDE DEF x, q, New
  <2>3. OneAtATime /\ Typed' /\ ShiftOf("toClient") \in [Places -> {0, 1}]
    BY <1>2
  <2>4. QED
    BY <2>2, <2>3, OneAtATimeMoves
<1>7. ASSUME NEW a, NEW i, NEW p, i \in Nat \ {0}, At(a, i + ShiftOf("toClient")[a], p)
      PROVE  ~Same(p, q)
  <2>1. SUFFICES ASSUME Same(p, q) PROVE FALSE
    OBVIOUS
  <2>2. a = "toClient" /\ i + ShiftOf("toClient")[a] = 1
    BY <1>1, <1>7, <2>1 DEF OneAtATime
  <2>3. i + 1 = 1
    BY <1>2, <2>2
  <2>4. QED
    BY <1>7, <2>3
<1>8. ASSUME NEW a, NEW i, NEW p, At(a, i, p)'
      PROVE  \/ At(a, i + ShiftOf("toClient")[a], p) /\ ~Same(p, toClient[1])
             \/ a = "todo" /\ i = k /\ p = new
  <2>1. (i \in Nat \ {0} /\ At(a, i + ShiftOf("toClient")[a], p)) \/ New(a, i, p)
    BY <1>5, <1>8
  <2>2. CASE i \in Nat \ {0} /\ At(a, i + ShiftOf("toClient")[a], p)
    BY <1>7, <2>2
  <2>3. QED
    BY <2>1, <2>2
<1>9. QED
  BY <1>6, <1>8

\* the exchange that an answer belongs to
LEMMA AnswerRead ==
  ASSUME Typed, Session, DInv, connected, todo = <<>>, toClient # <<>>, toClient[1].type \in Answers
  PROVE  LET q == toClient[1]
             i == Found(outbound, q.id)
         IN  /\ q.id \in MsgIds /\ i \in 1..Len(outbound) /\ Of(outbound[i], "toClient", q)
             /\ outbound[i] \in OutMessages
             /\ link /\ running /\ HeldAsSent /\ NumbersApart /\ (\A n : ~Starts(n))
<1> DEFINE q == toClient[1]
           i == Found(outbound, q.id)
<1>1. At("toClient", 1, q)
  <2>1. 1 \in DOMAIN toClient
    BY Heads DEF Typed, NetworkTyped
  <2>2. QED
    BY <2>1 DEF At
<1>2. q.id \in MsgIds /\ q.id # 0
  <2>1. q.type # "PUBLISH"
    BY DEF Answers
  <2>2. QED
    BY <1>1, <2>1, AtTypes DEF MsgIds
<1>3. PICK k \in DOMAIN outbound : Of(outbound[k], "toClient", q)
  BY <1>1, <1>2 DEF DInv, AllMeant, Meant
<1>4. outbound[k].id = q.id
  BY <1>3 DEF Of
<1>5. /\ outbound \in Seq(OutMessages)
      /\ i \in 0..Len(outbound) /\ (i = 0 => \A j \in DOMAIN outbound : outbound[j].id # q.id)
      /\ i # 0 => outbound[i].id = q.id
  BY FoundProperties DEF Typed, ClientTyped
<1> HIDE DEF i, q
<1>6. i \in 1..Len(outbound) /\ i \in DOMAIN outbound
  BY <1>3, <1>4, <1>5
<1>7. i = k
  BY <1>4, <1>5, <1>6 DEF Session, Listed
<1>8. link /\ HeldAsSent /\ NumbersApart
  BY DEF DInv, Connections, Typed, NetworkTyped, Ledger, Half
<1>9. running
  BY DEF Session, Resting
<1>10. \A n : ~Starts(n)
  <2>1. DOMAIN (<<>>) = {}
    OBVIOUS
  <2>2. QED
    BY <2>1 DEF Starts
<1>11. outbound[i] \in OutMessages
  BY <1>5, <1>6
<1>12. QED
  BY <1>2, <1>3, <1>6, <1>7, <1>8, <1>9, <1>10, <1>11 DEF i, q

\* what stays of the other packets
LEMMA OthersMeant ==
  ASSUME Typed, DInv, todo = <<>>, UNCHANGED <<plan, store, published, received, held>>,
         NEW x, x # 0,
         \A l \in DOMAIN outbound : outbound[l].id # x =>
           \E k \in DOMAIN outbound' : outbound'[k] = outbound[l],
         NEW a, NEW j, NEW p, At(a, j, p), p.id # x
  PROVE  Meant(a, p)'
<1>1. Meant(a, p)
  BY DEF DInv, AllMeant
<1>2. p.type = "PUBLISH" => p.n \in Nat
  BY AtTypes DEF Out
<1>3. published \in Nat /\ published' \in Nat /\ published <= published' /\ plan' = plan
  BY PlanTypes DEF Typed, ClientTyped
<1>4. \A n : ~Starts(n)
  <2>1. DOMAIN (<<>>) = {}
    OBVIOUS
  <2>2. QED
    BY <2>1 DEF Starts
<1>5. p.type = "PUBLISH" => ~File(CommandKey(p.n))'
  BY <1>1, <1>4 DEF Meant, File
<1>6. \A n : Delivered(n) <=> Delivered(n)'
  BY DEF Delivered
<1>7. p.id = 0 => ~Delivered(p.n)'
  BY <1>1, <1>6 DEF Meant
<1>8. \A l \in DOMAIN outbound : Of(outbound[l], a, p) =>
        /\ \E k \in DOMAIN outbound' : outbound'[k] = outbound[l]
        /\ a # "todo" /\ ~plan.clean =>
             /\ File(SentKey(p.id))'
             /\ outbound[l].next = "PUBCOMP" => File(PubrelKey(p.id))'
  BY DEF Of, File
<1>9. QED
  BY <1>1, <1>2, <1>3, <1>5, <1>6, <1>7, <1>8, StillMeant

LEMMA HandleAckDelivery ==
  ASSUME Typed, Typed', Session, DInv, NEW type \in {"PUBACK", "PUBCOMP"}, HandleAck(type)
  PROVE  DInv'
<1> DEFINE q == toClient[1]
           i == Found(outbound, q.id)
           keys == KeysOf(outbound[i])
           rs == [k \in DOMAIN keys |-> RemoveOf(keys[k])]
<1>1. /\ toClient # <<>> /\ todo = <<>> /\ connected /\ Head(toClient) = q /\ q.type = type
  BY Heads DEF HandleAck, Reading, Idle, Typed, NetworkTyped
<1>2. q.type \in Answers
  BY <1>1 DEF Answers
<1>3. /\ q.id \in MsgIds /\ i \in 1..Len(outbound) /\ Of(outbound[i], "toClient", q)
      /\ outbound[i] \in OutMessages
      /\ link /\ running /\ HeldAsSent /\ NumbersApart /\ (\A n : ~Starts(n))
  BY <1>1, <1>2, AnswerRead
<1>4. /\ outbound[i].id = q.id /\ outbound[i].next = type /\ Delivered(outbound[i].n)
      /\ type = "PUBCOMP" => q.id \notin held
  BY <1>1, <1>2, <1>3 DEF Of
<1>5. i # 0 /\ i \in DOMAIN outbound
  BY <1>3
<1>6. /\ todo' = rs \o <<TryQueue>> /\ outbound' = RemoveAt(outbound, i)
      /\ toClient' = Tail(toClient)
      /\ UNCHANGED <<plan, running, connected, commands, store, link, toBroker, held, received, published>>
  BY <1>1, <1>4, <1>5 DEF HandleAck, ThenQueue, Read, broker
<1>7. outbound[i].qos = 2 => type = "PUBCOMP"
  BY <1>3, <1>4 DEF OutMessages
<1>8. /\ keys[1] = SentKey(q.id)
      /\ \A j \in DOMAIN keys : j = 1 \/ (j = 2 /\ keys[2] = PubrelKey(q.id))
  BY <1>4 DEF KeysOf
<1>9. rs \in Seq(Effects) /\ DOMAIN rs = DOMAIN keys /\ \A j \in DOMAIN rs : rs[j] = RemoveOf(keys[j])
  <2>1. outbound[i].id \in MsgIds
    BY <1>3, <1>4
  <2>2. rs \in Seq(Effects)
    BY <2>1, KeysRemoved
  <2>3. QED
    BY <2>2
<1>9a. 1 \in DOMAIN keys
  <2>1. keys = <<SentKey(outbound[i].id), PubrelKey(outbound[i].id)>> \/ keys = <<SentKey(outbound[i].id)>>
    BY DEF KeysOf
  <2>2. \A x, y : 1 \in DOMAIN <<x, y>> /\ 1 \in DOMAIN <<x>>
    OBVIOUS
  <2> HIDE DEF keys
  <2>3. QED
    BY <2>1, <2>2
<1> HIDE DEF i, q, rs, keys
<1>10. \A j \in DOMAIN todo' :
         \/ todo'[j].op = "queue"
         \/ /\ j \in DOMAIN keys /\ todo'[j].op = "remove" /\ todo'[j].key = keys[j]
  <2>1. \A j \in DOMAIN todo' : (j \in DOMAIN rs /\ todo'[j] = rs[j]) \/ todo'[j] = TryQueue
    BY <1>6, <1>9, EffectTypes, Ended
  <2>2. QED
    BY <1>9, <2>1, EffectForms
<1>10a. 1 \in DOMAIN todo' /\ todo'[1].op = "remove" /\ todo'[1].key = SentKey(q.id)
  <2>1. 1 \in DOMAIN todo' /\ todo'[1] = rs[1]
    BY <1>6, <1>9, <1>9a, EffectTypes, Ended
  <2>2. QED
    BY <1>8, <1>9, <1>9a, <2>1, EffectForms
<1>11. /\ \A k \in DOMAIN outbound' : \E l \in DOMAIN outbound : l # i /\ outbound'[k] = outbound[l]
       /\ \A l \in DOMAIN outbound : l # i => \E k \in DOMAIN outbound' : outbound'[k] = outbound[l]
       /\ \A k, l \in DOMAIN outbound' : outbound'[k].id = outbound'[l].id => k = l
  <2>1. \A k, l \in DOMAIN outbound : outbound[k].id = outbound[l].id => k = l
    BY DEF Session, Listed
  <2>2. outbound \in Seq(OutMessages)
    BY DEF Typed, ClientTyped
  <2>3. QED
    BY <1>3, <1>6, <2>1, <2>2, RemoveAtElements
<1>12. /\ OneAtATime'
       /\ \A a, j, p : At(a, j, p)' => /\ At(a, j + ShiftOf("toClient")[a], p)
                                       /\ ~Same(p, q)
  <2>1. \A j \in DOMAIN todo' : todo'[j].op # "write"
    BY <1>10
  <2>2. OneAtATime /\ todo = <<>> /\ toClient # <<>> /\ toClient[1].type \in Answers
        /\ toClient' = Tail(toClient) /\ toBroker' = toBroker
    BY <1>1, <1>2, <1>6 DEF DInv, q
  <2>2a. OnlyWrite(0, toClient[1])
    BY <2>1 DEF OnlyWrite
  <2>3. /\ OneAtATime'
        /\ \A a, j, p : At(a, j, p)' => \/ /\ At(a, j + ShiftOf("toClient")[a], p)
                                           /\ ~Same(p, toClient[1])
                                        \/ a = "todo" /\ j = 0 /\ p = toClient[1]
    BY <2>2, <2>2a, AnswerTaken
  <2>4. ASSUME NEW j, NEW p, At("todo", j, p)' PROVE FALSE
    BY <2>1, <2>4 DEF At
  <2>5. QED
    BY <2>3, <2>4 DEF q
<1>13. AllMeant'
  <2> SUFFICES ASSUME NEW a, NEW j, NEW p, At(a, j, p)' PROVE Meant(a, p)'
    BY DEF AllMeant
  <2>1. At(a, j + ShiftOf("toClient")[a], p) /\ ~Same(p, q)
    BY <1>12
  <2>2. p.id # q.id
    <3>1. q.id # 0
      BY <1>3 DEF MsgIds
    <3>2. QED
      BY <2>1, <3>1 DEF Same
  <2>3. \A l \in DOMAIN outbound : outbound[l].id # q.id =>
           \E k \in DOMAIN outbound' : outbound'[k] = outbound[l]
    BY <1>4, <1>11
  <2>4. q.id # 0
    BY <1>3 DEF MsgIds
  <2> DEFINE y == j + ShiftOf("toClient")[a]
  <2>5. At(a, y, p)
    BY <2>1
  <2> HIDE DEF y
  <2>6. QED
    BY <1>1, <1>6, <2>2, <2>3, <2>4, <2>5, OthersMeant
<1>14. Connections'
  BY <1>1, <1>3, <1>6 DEF Connections
<1>15. Shapes'
  <2>1. \A j \in DOMAIN todo' : todo'[j].op # "put"
    BY <1>10
  <2>2. ASSUME NEW j \in DOMAIN todo', todo'[j].op = "remove", NEW x, x = todo'[j].key,
               x[1] = "sc-"
        PROVE  j = 2 /\ x[2] = q.id
    <3>1. j \in DOMAIN keys /\ x = keys[j]
      BY <1>10, <2>2
    <3>2. keys[1][1] = "s-"
      BY <1>8 DEF SentKey
    <3>3. j = 2 /\ x = PubrelKey(q.id)
      BY <1>8, <2>2, <3>1, <3>2
    <3>4. QED
      BY <3>3 DEF PubrelKey
  <2>3. QED
    BY <1>10a, <2>1, <2>2 DEF Shapes, NewPut
<1>16. \A k \in DOMAIN outbound' : \E l \in DOMAIN outbound : outbound'[k] = outbound[l]
  BY <1>11
<1>17. \A n : Delivered(n)' <=> Delivered(n)
  BY <1>6 DEF Delivered
<1>18. AsPlanned'
  BY <1>6, <1>16 DEF DInv, Ledger, AsPlanned, OfPlan
<1>19. Half'
  <2>1. ASSUME NEW k \in DOMAIN outbound', NEW n, n = outbound'[k].n
        PROVE  /\ outbound'[k].next = "PUBREC" => (Delivered(n)' <=> outbound'[k].id \in held)
               /\ outbound'[k].next = "PUBCOMP" => Delivered(n)'
    BY <1>3, <1>16, <1>17, <2>1 DEF HeldAsSent
  <2>2. ASSUME NEW x \in held
        PROVE  \E k \in DOMAIN outbound' : outbound'[k].id = x /\ outbound'[k].qos = 2
    <3>1. PICK l \in DOMAIN outbound : outbound[l].id = x /\ outbound[l].qos = 2
      BY <1>3 DEF HeldAsSent
    <3>2. l # i
      BY <1>4, <1>7, <3>1
    <3>3. QED
      BY <1>11, <3>1, <3>2
  <2>3. HeldAsSent'
    BY <1>6, <2>1, <2>2 DEF HeldAsSent, Delivered
  <2>4. NumbersApart'
    <3>1. ASSUME NEW k \in DOMAIN outbound', NEW l \in DOMAIN outbound', outbound'[k].n = outbound'[l].n
          PROVE  k = l
      <4>1. outbound'[k].id = outbound'[l].id
        BY <1>3, <1>16, <3>1 DEF NumbersApart
      <4>2. QED
        BY <1>11, <4>1
    <3>2. QED
      BY <1>3, <1>6, <1>16, <3>1 DEF NumbersApart
  <2>5. QED
    BY <2>3, <2>4 DEF Half
<1>20. FilesHalf'
  <2> SUFFICES ASSUME ~plan.clean PROVE FilesHalf'
    BY <1>6 DEF FilesHalf
  <2>1. ASSUME NEW x PROVE FileHalf(x)'
    BY <1>6, <1>17 DEF DInv, Ledger, FilesHalf, FileHalf, File, Delivered
  <2>2. ASSUME NEW k \in DOMAIN outbound', NEW x, x = outbound'[k].id, File(SentKey(x))
        PROVE  store.files[SentKey(x)] = ContentOf(outbound'[k])
    BY <1>16, <2>2 DEF DInv, Ledger, FilesHalf
  <2>3. \A m : ContentOf(m)' = ContentOf(m)
    BY DEF ContentOf
  <2>4. /\ \A x \in held : File(SentKey(x)) /\ store.files[SentKey(x)].qos = 2
        /\ \A x, y : File(SentKey(x)) /\ File(SentKey(y))
                     /\ store.files[SentKey(x)].n = store.files[SentKey(y)].n => x = y
    BY DEF DInv, Ledger, FilesHalf
  <2>5. QED
    BY <1>6, <2>1, <2>2, <2>4 DEF FilesHalf, File
<1>21. Unsent'
  <2> SUFFICES ASSUME NEW n, File(CommandKey(n))
               PROVE  /\ ~Delivered(n)
                      /\ ~plan.clean =>
                           /\ \A x : File(SentKey(x)) => store.files[SentKey(x)].n # n
                           /\ \A k \in DOMAIN outbound' : outbound'[k].n # n
    BY <1>6 DEF Unsent, Delivered, File
  <2>1. /\ ~Delivered(n)
        /\ ~plan.clean =>
             /\ \A x : File(SentKey(x)) => store.files[SentKey(x)].n # n
             /\ \A l \in DOMAIN outbound : outbound[l].n # n
    BY <1>3 DEF DInv, Ledger, Unsent
  <2>2. QED
    BY <1>16, <2>1
<1>22. KeptUntilDelivered'
  <2>1. ASSUME ~plan.clean, NEW n \in 1..published, plan.out[n] # 0, ~Delivered(n)
        PROVE  \/ \E k \in DOMAIN commands : commands[k].n = n
               \/ \E k \in DOMAIN outbound' : outbound'[k].n = n
    <3>1. InMemoryStill(n)
      BY <1>3, <2>1 DEF DInv, Ledger, KeptUntilDelivered
    <3>2. CASE \E l \in DOMAIN outbound : outbound[l].n = n
      BY <1>4, <1>11, <2>1, <3>2
    <3>3. QED
      BY <3>1, <3>2 DEF InMemoryStill
  <2>2. QED
    BY <1>3, <1>6, <1>17, <2>1 DEF KeptUntilDelivered, InMemoryStill
<1>23. QED
  BY <1>12, <1>13, <1>14, <1>15, <1>18, <1>19, <1>20, <1>21, <1>22 DEF DInv, Ledger

LEMMA HandlePubrecDelivery ==
  ASSUME Typed, Typed', Session, DInv, HandlePubrec
  PROVE  DInv'
<1> DEFINE q == toClient[1]
           i == Found(outbound, q.id)
           m == outbound[i]
           content == [id |-> m.id, n |-> m.n, qos |-> m.qos]
           pubrel == Ack("PUBREL", m.id)
           put == PutOf(PubrelKey(m.id), content)
           sends == <<put, WriteOf(pubrel)>>
<1>1. /\ toClient # <<>> /\ todo = <<>> /\ connected /\ Head(toClient) = q /\ q.type = "PUBREC"
  BY Heads DEF HandlePubrec, Reading, Idle, Typed, NetworkTyped
<1>2. q.type \in Answers
  BY <1>1 DEF Answers
<1>3. /\ q.id \in MsgIds /\ i \in 1..Len(outbound) /\ Of(m, "toClient", q)
      /\ m \in OutMessages
      /\ link /\ running /\ HeldAsSent /\ NumbersApart /\ (\A n : ~Starts(n))
  BY <1>1, <1>2, AnswerRead
<1>4. m.id = q.id /\ m.next = "PUBREC" /\ Delivered(m.n)
  BY <1>1, <1>2, <1>3 DEF Of
<1>5. i # 0 /\ i \in DOMAIN outbound
  BY <1>3
<1>6. /\ todo' = sends \o <<TryQueue>> /\ outbound' = [outbound EXCEPT ![i].next = "PUBCOMP"]
      /\ toClient' = Tail(toClient)
      /\ UNCHANGED <<plan, running, connected, commands, store, link, toBroker, held, received, published>>
  BY <1>1, <1>4, <1>5 DEF HandlePubrec, ThenQueue, Read, broker, SendPubrel
<1>7. pubrel.id = q.id /\ pubrel.type = "PUBREL"
  BY <1>4 DEF Ack, Packet
<1> HIDE DEF i, q, m, content, pubrel
<1>8. /\ \A j \in DOMAIN todo' : \/ todo'[j].op = "queue"
                                 \/ j = 1 /\ todo'[j] = put
                                 \/ j = 2 /\ todo'[j] = WriteOf(pubrel)
  <2>1. put \in Effects
    <3>1. content \in OutContents
      BY <1>3, ContentTypes DEF content, ContentOf
    <3>2. PubrelKey(m.id) \in Keys
      BY <1>3, <1>4, KeyTypes
    <3>3. QED
      BY <3>1, <3>2, EffectTypes
  <2>2. WriteOf(pubrel) \in Effects
    <3>1. pubrel \in Packets(Out)
      BY <1>3, <1>4, PacketTypes DEF pubrel
    <3>2. QED
      BY <3>1, EffectTypes
  <2> HIDE DEF put
  <2>3. sends \in Seq(Effects) /\ Len(sends) = 2 /\ sends[1] = put /\ sends[2] = WriteOf(pubrel)
    BY <2>1, <2>2
  <2>4. \A j \in DOMAIN sends : j = 1 \/ j = 2
    BY <2>3
  <2> HIDE DEF sends
  <2>5. \A j \in DOMAIN todo' : (j \in DOMAIN sends /\ todo'[j] = sends[j]) \/ todo'[j] = TryQueue
    BY <1>6, <2>3, EffectTypes, Ended
  <2>6. QED
    BY <2>3, <2>4, <2>5, EffectForms
<1>9. put.op = "put" /\ put.key[1] = "sc-"
  BY EffectForms DEF PubrelKey
<1>10. WriteOf(pubrel).op = "write" /\ WriteOf(pubrel).packet = pubrel
  BY EffectForms
<1> HIDE DEF put
<1>11. /\ \A k \in DOMAIN outbound : k # i => k \in DOMAIN outbound' /\ outbound'[k] = outbound[k]
       /\ i \in DOMAIN outbound' /\ outbound'[i] = [m EXCEPT !.next = "PUBCOMP"]
       /\ DOMAIN outbound' = DOMAIN outbound
  <2>1. outbound \in Seq(OutMessages)
    BY DEF Typed, ClientTyped
  <2>2. QED
    BY <1>5, <1>6, <2>1 DEF m
<1>12. /\ outbound'[i].id = m.id /\ outbound'[i].n = m.n /\ outbound'[i].qos = m.qos
       /\ outbound'[i].next = "PUBCOMP"
  BY <1>3, <1>11 DEF OutMessages
<1>13. \A k \in DOMAIN outbound' : /\ k \in DOMAIN outbound /\ outbound'[k].id = outbound[k].id
                                   /\ outbound'[k].n = outbound[k].n /\ outbound'[k].qos = outbound[k].qos
                                   /\ k # i => outbound'[k].next = outbound[k].next
  BY <1>11, <1>12 DEF m
<1>14. /\ OneAtATime'
       /\ \A a, j, p : At(a, j, p)' => \/ /\ At(a, j + ShiftOf("toClient")[a], p)
                                          /\ ~Same(p, q)
                                       \/ a = "todo" /\ j = 2 /\ p = pubrel
  <2>1. OnlyWrite(2, pubrel)
    BY <1>8, <1>9, <1>10 DEF OnlyWrite
  <2>2. OneAtATime /\ todo = <<>> /\ toClient # <<>> /\ toClient[1].type \in Answers
        /\ toClient' = Tail(toClient) /\ toBroker' = toBroker /\ pubrel.id = toClient[1].id
    BY <1>1, <1>2, <1>6, <1>7 DEF DInv, q
  <2>3. QED
    BY <2>1, <2>2, AnswerTaken DEF q
<1>15. \A n : Delivered(n)' <=> Delivered(n)
  BY <1>6 DEF Delivered
<1>16. AllMeant'
  <2> SUFFICES ASSUME NEW a, NEW j, NEW p, At(a, j, p)' PROVE Meant(a, p)'
    BY DEF AllMeant
  <2>0. q.id # 0
    BY <1>3 DEF MsgIds
  <2>1. CASE At(a, j + ShiftOf("toClient")[a], p) /\ ~Same(p, q)
    <3>1. p.id # q.id
      BY <2>0, <2>1 DEF Same
    <3>2. \A l \in DOMAIN outbound : outbound[l].id # q.id =>
             \E k \in DOMAIN outbound' : outbound'[k] = outbound[l]
      BY <1>4, <1>11 DEF m
    <3> DEFINE y == j + ShiftOf("toClient")[a]
    <3>3. At(a, y, p)
      BY <2>1
    <3> HIDE DEF y
    <3>4. QED
      BY <1>1, <1>6, <2>0, <3>1, <3>2, <3>3, OthersMeant
  <2>2. CASE a = "todo" /\ p = pubrel
    <3>1. p.id = q.id /\ p.type = "PUBREL" /\ p.type \notin Answers
      BY <1>7, <2>2 DEF Answers
    <3>2. ASSUME NEW k, k = i PROVE k \in DOMAIN outbound' /\ Of(outbound[k], a, p)'
      <4>1. k \in DOMAIN outbound' /\ outbound'[k].id = p.id /\ outbound'[k].next = "PUBCOMP"
        BY <1>4, <1>11, <1>12, <3>1, <3>2
      <4>2. QED
        BY <2>2, <3>1, <4>1 DEF Of
    <3>3. QED
      BY <2>0, <3>1, <3>2 DEF Meant
  <2>3. QED
    BY <1>14, <2>1, <2>2
<1>17. Connections'
  BY <1>1, <1>3, <1>6 DEF Connections
<1>18. Shapes'
  <2>1. ASSUME NEW j, NEW stem, NewPut(j, stem)' PROVE j = 1 /\ stem = "sc-"
    <3>1. j \in DOMAIN todo' /\ todo'[j].op = "put" /\ todo'[j].key[1] = stem
      BY <2>1 DEF NewPut
    <3>2. QED
      BY <1>8, <1>9, <1>10, <3>1
  <2>2. \A j \in DOMAIN todo' : todo'[j].op # "remove"
    BY <1>8, <1>9, <1>10
  <2>3. QED
    BY <2>1, <2>2 DEF Shapes
<1>19. AsPlanned'
  BY <1>6, <1>13 DEF DInv, Ledger, AsPlanned, OfPlan
<1>20. Half'
  <2>1. ASSUME NEW k \in DOMAIN outbound', NEW n, n = outbound'[k].n
        PROVE  /\ outbound'[k].next = "PUBREC" => (Delivered(n)' <=> outbound'[k].id \in held)
               /\ outbound'[k].next = "PUBCOMP" => Delivered(n)'
    <3>1. CASE k = i
      BY <1>4, <1>12, <1>15, <2>1, <3>1
    <3>2. CASE k # i
      BY <1>3, <1>13, <1>15, <2>1, <3>2 DEF HeldAsSent
    <3>3. QED
      BY <3>1, <3>2
  <2>2. ASSUME NEW x \in held
        PROVE  \E k \in DOMAIN outbound' : outbound'[k].id = x /\ outbound'[k].qos = 2
    BY <1>3, <1>11, <1>13 DEF HeldAsSent
  <2>3. HeldAsSent'
    BY <1>6, <2>1, <2>2 DEF HeldAsSent, Delivered
  <2>4. NumbersApart'
    BY <1>3, <1>6, <1>13 DEF NumbersApart
  <2>5. QED
    BY <2>3, <2>4 DEF Half
<1>21. FilesHalf'
  <2> SUFFICES ASSUME ~plan.clean PROVE FilesHalf'
    BY <1>6 DEF FilesHalf
  <2>1. ASSUME NEW x PROVE FileHalf(x)'
    BY <1>6, <1>15 DEF DInv, Ledger, FilesHalf, FileHalf, File, Delivered
  <2>2. ASSUME NEW k \in DOMAIN outbound', NEW x, x = outbound'[k].id, File(SentKey(x))
        PROVE  store.files[SentKey(x)] = ContentOf(outbound'[k])
    <3>1. store.files[SentKey(x)] = ContentOf(outbound[k])
      BY <1>13, <2>2 DEF DInv, Ledger, FilesHalf
    <3>2. QED
      BY <1>13, <3>1 DEF ContentOf
  <2>3. /\ \A x \in held : File(SentKey(x)) /\ store.files[SentKey(x)].qos = 2
        /\ \A x, y : File(SentKey(x)) /\ File(SentKey(y))
                     /\ store.files[SentKey(x)].n = store.files[SentKey(y)].n => x = y
    BY DEF DInv, Ledger, FilesHalf
  <2>4. QED
    BY <1>6, <2>1, <2>2, <2>3 DEF FilesHalf, File
<1>22. Unsent'
  <2> SUFFICES ASSUME NEW n, File(CommandKey(n))
               PROVE  /\ ~Delivered(n)
                      /\ ~plan.clean =>
                           /\ \A x : File(SentKey(x)) => store.files[SentKey(x)].n # n
                           /\ \A k \in DOMAIN outbound' : outbound'[k].n # n
    BY <1>6 DEF Unsent, Delivered, File
  <2>1. /\ ~Delivered(n)
        /\ ~plan.clean =>
             /\ \A x : File(SentKey(x)) => store.files[SentKey(x)].n # n
             /\ \A l \in DOMAIN outbound : outbound[l].n # n
    BY <1>3 DEF DInv, Ledger, Unsent
  <2>2. QED
    BY <1>13, <2>1
<1>23. KeptUntilDelivered'
  <2>1. ASSUME ~plan.clean, NEW n \in 1..published, plan.out[n] # 0, ~Delivered(n)
        PROVE  \/ \E k \in DOMAIN commands : commands[k].n = n
               \/ \E k \in DOMAIN outbound' : outbound'[k].n = n
    <3>1. InMemoryStill(n)
      BY <1>3, <2>1 DEF DInv, Ledger, KeptUntilDelivered
    <3>2. QED
      BY <1>11, <1>13, <3>1 DEF InMemoryStill
  <2>2. QED
    BY <1>3, <1>6, <1>15, <2>1 DEF KeptUntilDelivered, InMemoryStill
<1>24. QED
  BY <1>14, <1>16, <1>17, <1>18, <1>19, <1>20, <1>21, <1>22, <1>23 DEF DInv, Ledger

-----------------------------------------------------------------------------
(* The application publishes and the send thread sends                      *)

LEMMA NothingToDo ==
  ASSUME todo = <<>>
  PROVE  (\A n : ~Starts(n)) /\ \A j, p : ~At("todo", j, p)
<1>1. DOMAIN (<<>>) = {}
  OBVIOUS
<1>2. QED
  BY <1>1 DEF Starts, At

LEMMA PublishDelivery ==
  ASSUME Typed, Typed', Session, DInv, Publish
  PROVE  DInv'
<1> DEFINE n == published + 1
           id == IF plan.out[n] = 0 THEN 0 ELSE AssignMsgId
           m == [id |-> id, n |-> n, qos |-> plan.out[n]]
           key == CommandKey(n)
<1>1. /\ todo = <<>> /\ running /\ connected /\ published' = n
      /\ commands' = Append(commands, m) /\ store' = PstPut(store, key, m)
      /\ UNCHANGED <<plan, running, connected, outbound, todo, link, toBroker, toClient, held, received>>
  BY DEF Publish, Idle, network, broker
<1>2. m.n = n /\ m.qos = plan.out[n] /\ key[1] = "c-"
  BY DEF CommandKey
<1>3. published \in Nat /\ n \in Nat /\ published < n
  BY PlanTypes DEF Typed, ClientTyped
<1>4. /\ commands \in Seq(CommandContents) /\ outbound \in Seq(OutMessages) /\ received \in Seq(Out)
      /\ \A k \in DOMAIN store.files : FileOK(k, store.files[k])
  BY DEF Typed, ClientTyped, NetworkTyped, StoreTyped
<1> HIDE DEF m, id
<1>4a. \A l \in DOMAIN commands' : (l \in DOMAIN commands /\ commands'[l] = commands[l]) \/ commands'[l] = m
  <2>1. m \in CommandContents
    <3>1. commands' \in Seq(CommandContents) /\ commands' = Append(commands, m)
      BY <1>1, SameSets DEF Typed, ClientTyped
    <3>2. Len(commands) + 1 \in DOMAIN commands' /\ commands'[Len(commands) + 1] = m
      BY <1>4, <3>1
    <3>3. QED
      BY <3>1, <3>2
  <2>2. QED
    BY <1>1, <1>4, <2>1, Appended
<1>4b. (\A l \in DOMAIN commands : l \in DOMAIN commands' /\ commands'[l] = commands[l])
       /\ \E l \in DOMAIN commands' : commands'[l] = m
  BY <1>1, <1>4
<1>5. /\ DOMAIN store'.files = DOMAIN store.files \cup {key} /\ store'.files[key] = m
      /\ \A k \in DOMAIN store.files : k # key => store'.files[k] = store.files[k]
  BY <1>1, FilesAfterPut DEF Typed, StoreTyped
<1>6. \A k : File(k)' <=> File(k) \/ k = key
  BY <1>5 DEF File
<1>7. \A x : /\ SentKey(x)[1] = "s-" /\ PubrelKey(x)[1] = "sc-"
             /\ CommandKey(x)[1] = "c-" /\ CommandKey(x)[2] = x
  BY DEF SentKey, PubrelKey, CommandKey
<1> HIDE DEF key
<1>8. \A x : x \in Nat /\ x <= published => x # n /\ x <= n
  BY <1>3
<1>9. \A x : Delivered(x) => x # n
  <2>1. \A i \in DOMAIN received : received[i] \in Nat /\ received[i] <= published
    BY <1>4 DEF DInv, Ledger, AsPlanned, Out
  <2>2. QED
    BY <1>8, <2>1 DEF Delivered
<1>10. \A i \in DOMAIN outbound : outbound[i].n # n /\ outbound[i].n <= n /\ outbound[i].qos = plan.out[outbound[i].n]
  <2>1. ASSUME NEW i \in DOMAIN outbound
        PROVE  outbound[i].n \in Nat /\ outbound[i].n <= published /\ outbound[i].qos = plan.out[outbound[i].n]
    <3>1. outbound[i] \in OutMessages
      BY <1>4
    <3>2. outbound[i].n \in Nat
      BY <3>1 DEF OutMessages, Out
    <3>3. QED
      BY <3>2 DEF DInv, Ledger, AsPlanned, OfPlan
  <2>2. QED
    BY <1>8, <2>1
<1>11. \A i \in DOMAIN commands : commands[i].n <= n /\ commands[i].qos = plan.out[commands[i].n]
  <2>1. ASSUME NEW i \in DOMAIN commands
        PROVE  commands[i].n \in Nat /\ commands[i].n <= published /\ commands[i].qos = plan.out[commands[i].n]
    <3>1. commands[i] \in CommandContents
      BY <1>4
    <3>2. commands[i].n \in Nat
      BY <3>1 DEF CommandContents, Out
    <3>3. QED
      BY <3>2 DEF DInv, Ledger, AsPlanned, OfPlan
  <2>2. QED
    BY <1>8, <2>1
<1>12. \A k \in DOMAIN store.files : k[1] \in {"c-", "s-"} =>
         store.files[k].n # n /\ store.files[k].n <= n /\ store.files[k].qos = plan.out[store.files[k].n]
  <2>1. ASSUME NEW k \in DOMAIN store.files, k[1] \in {"c-", "s-"}
        PROVE  store.files[k].n \in Nat /\ store.files[k].n <= published
               /\ store.files[k].qos = plan.out[store.files[k].n]
    <3>1. store.files[k] \in CommandContents \cup OutContents
      BY <1>4, <2>1 DEF FileOK
    <3>2. store.files[k].n \in Nat
      BY <3>1 DEF CommandContents, OutContents, Out
    <3>3. QED
      BY <2>1, <3>2 DEF DInv, Ledger, AsPlanned, OfPlan
  <2>2. QED
    BY <1>8, <2>1
<1>13. ~File(key)
  <2>1. File(key) => store.files[key].n = n
    BY <1>4, <1>7 DEF File, FileOK, key
  <2>2. QED
    BY <1>2, <1>12, <2>1 DEF File
<1>14. \A k : File(k) => store'.files[k] = store.files[k] /\ k # key
  BY <1>5, <1>13 DEF File
<1>15. (\A x : ~Starts(x)) /\ \A j, p : ~At("todo", j, p)
  BY <1>1, NothingToDo
<1>16. \A a, i, p : At(a, i, p)' => At(a, i, p)
  BY <1>1 DEF At
<1>17. OneAtATime'
  BY <1>16 DEF DInv, OneAtATime, Same
<1>18. \A x : Delivered(x)' <=> Delivered(x)
  BY <1>1 DEF Delivered
<1>19. AllMeant'
  <2> SUFFICES ASSUME NEW a, NEW j, NEW p, At(a, j, p)' PROVE Meant(a, p)'
    BY DEF AllMeant
  <2>1. At(a, j, p)
    BY <1>16
  <2>2. Meant(a, p)
    BY <2>1 DEF DInv, AllMeant
  <2>3. p.type = "PUBLISH" => p.n \in Nat
    BY <2>1, AtTypes DEF Out
  <2>4. published' \in Nat /\ published <= published' /\ plan' = plan
    BY <1>1, <1>3
  <2>5. p.type = "PUBLISH" => ~File(CommandKey(p.n))'
    <3>1. p.type = "PUBLISH" => ~File(CommandKey(p.n)) /\ p.n <= published
      BY <1>15, <2>2 DEF Meant
    <3>2. p.type = "PUBLISH" => p.n # n
      BY <1>8, <2>3, <3>1
    <3>3. p.type = "PUBLISH" => CommandKey(p.n) # key
      BY <1>7, <3>2 DEF key
    <3>4. QED
      BY <1>6, <3>1, <3>3
  <2>6. p.id = 0 => ~Delivered(p.n)'
    BY <1>18, <2>2 DEF Meant
  <2>7. outbound' = outbound /\ held' = held
    BY <1>1
  <2>8. \A l \in DOMAIN outbound : Of(outbound[l], a, p) =>
          /\ \E k \in DOMAIN outbound' : outbound'[k] = outbound[l]
          /\ a # "todo" /\ ~plan.clean =>
               /\ File(SentKey(p.id))'
               /\ outbound[l].next = "PUBCOMP" => File(PubrelKey(p.id))'
    BY <1>6, <2>7 DEF Of
  <2>9. QED
    BY <1>3, <1>18, <2>2, <2>3, <2>4, <2>5, <2>6, <2>7, <2>8, StillMeant
<1>20. Connections'
  BY <1>1 DEF DInv, Connections
<1>21. Shapes'
  <2>1. DOMAIN todo' = {}
    <3>1. DOMAIN (<<>>) = {}
      OBVIOUS
    <3>2. QED
      BY <1>1, <3>1
  <2>2. Harmless'
    BY <2>1 DEF Harmless
  <2>3. QED
    BY <2>2, HarmlessShapes, PTL
<1>22. AsPlanned'
  <2>1. \A l \in DOMAIN commands' : commands'[l].qos = plan.out[commands'[l].n] /\ commands'[l].n <= n
    BY <1>2, <1>3, <1>4a, <1>11
  <2>2. \A k \in DOMAIN store'.files : k[1] \in {"c-", "s-"} =>
          store'.files[k].qos = plan.out[store'.files[k].n] /\ store'.files[k].n <= n
    BY <1>2, <1>3, <1>5, <1>12
  <2>3. \A l \in DOMAIN received : received[l] <= n
    BY <1>4, <1>8 DEF DInv, Ledger, AsPlanned, Out
  <2>4. QED
    BY <1>1, <1>10, <2>1, <2>2, <2>3 DEF AsPlanned, OfPlan
<1>23. Half'
  <2>1. HeldAsSent /\ NumbersApart
    BY <1>1 DEF DInv, Ledger, Half
  <2>2. HeldAsSent'
    BY <1>1, <2>1 DEF HeldAsSent, Delivered
  <2>3. \A l \in DOMAIN commands', j \in DOMAIN outbound : commands'[l].n # outbound[j].n
    BY <1>2, <1>4a, <1>10, <2>1 DEF NumbersApart
  <2>4. NumbersApart'
    BY <1>1, <2>1, <2>3 DEF NumbersApart
  <2>5. QED
    BY <2>2, <2>4 DEF Half
<1>24. FilesHalf'
  <2> SUFFICES ASSUME ~plan.clean PROVE FilesHalf'
    BY <1>1 DEF FilesHalf
  <2>1. \A x : /\ File(SentKey(x))' <=> File(SentKey(x))
               /\ File(PubrelKey(x))' <=> File(PubrelKey(x))
               /\ File(SentKey(x)) => store'.files[SentKey(x)] = store.files[SentKey(x)]
    <3>1. \A x : SentKey(x) # key /\ PubrelKey(x) # key
      BY <1>2, <1>7
    <3>2. QED
      BY <1>6, <1>14, <3>1
  <2>2. ASSUME NEW x PROVE FileHalf(x)'
    BY <1>1, <1>18, <2>1 DEF DInv, Ledger, FilesHalf, FileHalf, Delivered
  <2>3. /\ \A x \in held : File(SentKey(x))' /\ store'.files[SentKey(x)].qos = 2
        /\ \A x, y : File(SentKey(x))' /\ File(SentKey(y))'
                     /\ store'.files[SentKey(x)].n = store'.files[SentKey(y)].n => x = y
    BY <2>1 DEF DInv, Ledger, FilesHalf
  <2>4. ASSUME NEW k \in DOMAIN outbound, NEW x, x = outbound[k].id, File(SentKey(x))'
        PROVE  store'.files[SentKey(x)] = ContentOf(outbound[k])
    BY <2>1, <2>4 DEF DInv, Ledger, FilesHalf
  <2>5. QED
    BY <1>1, <2>2, <2>3, <2>4 DEF FilesHalf, File
<1>25. Unsent'
  <2> SUFFICES ASSUME NEW x, File(CommandKey(x))'
               PROVE  /\ ~Delivered(x)
                      /\ ~plan.clean =>
                           /\ \A y : File(SentKey(y))' => store'.files[SentKey(y)].n # x
                           /\ \A k \in DOMAIN outbound : outbound[k].n # x
    BY <1>1 DEF Unsent, Delivered, File
  <2>1. \A y : File(SentKey(y))' => File(SentKey(y)) /\ store'.files[SentKey(y)] = store.files[SentKey(y)]
    <3>1. \A y : SentKey(y) # key
      BY <1>2, <1>7
    <3>2. QED
      BY <1>6, <1>14, <3>1
  <2>2. CASE x = n
    <3>1. \A y : File(SentKey(y)) => store.files[SentKey(y)].n # n
      BY <1>7, <1>12 DEF File
    <3>2. QED
      BY <1>9, <1>10, <2>1, <2>2, <3>1
  <2>3. CASE x # n
    <3>1. CommandKey(x) # key
      BY <1>7, <2>3 DEF key
    <3>2. File(CommandKey(x))
      BY <1>6, <3>1
    <3>3. /\ ~Delivered(x)
          /\ ~plan.clean =>
               /\ \A y : File(SentKey(y)) => store.files[SentKey(y)].n # x
               /\ \A k \in DOMAIN outbound : outbound[k].n # x
      BY <1>15, <3>2 DEF DInv, Ledger, Unsent
    <3>4. QED
      BY <2>1, <3>3
  <2>4. QED
    BY <2>2, <2>3
<1>26. KeptUntilDelivered'
  <2>1. ASSUME ~plan.clean, NEW x \in 1..n, plan.out[x] # 0, ~Delivered(x)
        PROVE  \/ \E l \in DOMAIN commands' : commands'[l].n = x
               \/ \E l \in DOMAIN outbound : outbound[l].n = x
    <3>1. CASE x = n
      BY <1>2, <1>4b, <3>1
    <3>2. CASE x # n
      <4>1. x \in 1..published
        BY <1>3, <3>2
      <4>2. InMemoryStill(x)
        BY <1>1, <2>1, <4>1 DEF DInv, Ledger, KeptUntilDelivered
      <4>3. QED
        BY <1>4b, <4>2 DEF InMemoryStill
    <3>3. QED
      BY <3>1, <3>2
  <2>2. QED
    BY <1>1, <1>18, <2>1 DEF KeptUntilDelivered, InMemoryStill
<1>27. QED
  BY <1>17, <1>19, <1>20, <1>21, <1>22, <1>23, <1>24, <1>25, <1>26 DEF DInv, Ledger

\* the command that the send thread takes, and its message in the list
FirstCommand == commands[1]
FirstOutbound == Outbound(commands[1], AnswerTo(commands[1].qos))

LEMMA CommandTaken ==
  ASSUME Typed, Session, ProcessCommand
  PROVE  /\ todo = <<>> /\ running /\ connected
         /\ 1 \in DOMAIN commands /\ FirstCommand \in CommandContents
         /\ \A i \in DOMAIN commands' : i + 1 \in DOMAIN commands /\ i + 1 # 1
                                        /\ commands'[i] = commands[i + 1]
         /\ \A i \in DOMAIN commands : i # 1 => \E j \in DOMAIN commands' : commands'[j] = commands[i]
         /\ FirstOutbound.id = FirstCommand.id /\ FirstOutbound.n = FirstCommand.n
         /\ FirstOutbound.qos = FirstCommand.qos /\ FirstOutbound.next = AnswerTo(FirstCommand.qos)
         /\ FirstCommand.qos # 0 => FirstOutbound \in OutMessages /\ ContentOf(FirstOutbound) = FirstCommand
         /\ 1 \in DOMAIN todo' /\ todo'[1] = RemoveOf(CommandKey(FirstCommand.n))
         /\ \A j \in DOMAIN todo' :
              \/ todo'[j].op = "remove" /\ todo'[j].key = CommandKey(FirstCommand.n)
              \/ /\ j = 2 /\ FirstCommand.qos # 0 /\ Len(todo') = 3 /\ todo'[3].op = "write"
                 /\ todo'[j].op = "put" /\ todo'[j].content = FirstCommand
                 /\ todo'[j].key = SentKey(FirstCommand.id)
              \/ /\ j = Len(todo') /\ todo'[j].op = "write"
                 /\ todo'[j].packet = PubPacket(FirstCommand, FALSE)
         /\ \A l \in DOMAIN outbound : l \in DOMAIN outbound' /\ outbound'[l] = outbound[l]
         /\ \A l \in DOMAIN outbound' : \/ l \in DOMAIN outbound /\ outbound'[l] = outbound[l]
                                        \/ /\ FirstCommand.qos # 0 /\ l = Len(outbound) + 1
                                           /\ outbound'[l] = FirstOutbound
         /\ FirstCommand.qos # 0 => \E l \in DOMAIN outbound' : outbound'[l] = FirstOutbound
         /\ UNCHANGED <<plan, running, connected, store, link, toBroker, toClient, held, received, published>>
<1> DEFINE m == FirstCommand
           o == FirstOutbound
           w == WriteOf(PubPacket(m, FALSE))
           c == RemoveOf(CommandKey(m.n))
           s == PutOf(SentKey(m.id), m)
           short == <<c>>
           long == <<c, s>>
           shortWork == short \o <<w>>
           longWork == long \o <<w>>
<1>1. commands \in Seq(CommandContents) /\ outbound \in Seq(OutMessages) /\ plan \in Plans
  BY DEF Typed, ClientTyped
<1>0. commands # <<>>
  BY DEF ProcessCommand
<1>0a. Head(commands) = m
  BY <1>0, <1>1, Heads DEF FirstCommand
<1>2. /\ todo = <<>> /\ running /\ connected /\ commands' = Tail(commands)
      /\ \/ m.qos = 0 /\ todo' = shortWork /\ outbound' = outbound
         \/ m.qos > 0 /\ todo' = longWork /\ outbound' = Append(outbound, o)
      /\ UNCHANGED <<plan, running, connected, store, link, toBroker, toClient, held, received, published>>
  <2> DEFINE hd == Head(commands)
  <2>1. /\ todo = <<>> /\ running /\ connected /\ commands' = Tail(commands)
        /\ \/ hd.qos = 0 /\ todo' = <<RemoveOf(CommandKey(hd.n))>> \o <<WriteOf(PubPacket(hd, FALSE))>>
              /\ outbound' = outbound
           \/ hd.qos > 0 /\ todo' = <<RemoveOf(CommandKey(hd.n)), PutOf(SentKey(hd.id), hd)>>
                                    \o <<WriteOf(PubPacket(hd, FALSE))>>
              /\ outbound' = Append(outbound, Outbound(hd, AnswerTo(hd.qos)))
        /\ UNCHANGED <<plan, running, connected, store, link, toBroker, toClient, held, received, published>>
    BY DEF ProcessCommand, Idle, network, broker
  <2>2. o = Outbound(m, AnswerTo(m.qos))
    BY DEF FirstOutbound, FirstCommand
  <2> HIDE DEF hd, m, o
  <2>3. hd = m
    BY <1>0a DEF hd
  <2>4. QED
    BY <2>1, <2>2, <2>3
<1>3. /\ 1 \in DOMAIN commands /\ m \in CommandContents
      /\ \A i \in DOMAIN commands' : i + 1 \in DOMAIN commands /\ i + 1 # 1
                                     /\ commands'[i] = commands[i + 1]
      /\ \A i \in DOMAIN commands : i # 1 => \E j \in DOMAIN commands' : commands'[j] = commands[i]
  <2>1. /\ 1 \in DOMAIN commands /\ commands[1] \in CommandContents
        /\ \A i \in DOMAIN commands' : i + 1 \in DOMAIN commands /\ i + 1 # 1
                                       /\ commands'[i] = commands[i + 1]
        /\ \A i \in DOMAIN commands : i # 1 =>
             i - 1 \in DOMAIN commands' /\ commands'[i - 1] = commands[i]
    BY <1>0, <1>1, <1>2, Heads
  <2>2. QED
    BY <2>1 DEF FirstCommand
<1>4. /\ m.n \in Nat /\ m.id \in Nat /\ m.qos \in 0..2 /\ (m.id = 0 <=> m.qos = 0)
      /\ m.qos # 0 => m \in OutContents /\ m.id \in MsgIds /\ o \in OutMessages
      /\ PubPacket(m, FALSE) \in Packets(Out)
  <2>1. m.n \in Nat /\ m.id \in Nat /\ m.qos \in 0..2 /\ (m.id = 0 <=> m.qos = 0)
    BY <1>3, MaxMsgIdAssumption DEF CommandContents, Out
  <2>2. o = Outbound(m, AnswerTo(m.qos))
    BY DEF FirstOutbound, FirstCommand
  <2>3. QED
    BY <1>1, <1>3, <2>1, <2>2, MessageTypes
<1>5. /\ o.id = m.id /\ o.n = m.n /\ o.qos = m.qos /\ o.next = AnswerTo(m.qos)
      /\ m.qos # 0 => ContentOf(o) = m
  <2>1. o.id = m.id /\ o.n = m.n /\ o.qos = m.qos /\ o.next = AnswerTo(m.qos)
    BY DEF Outbound, FirstOutbound, FirstCommand
  <2>2. ContentOf(o) = [id |-> m.id, n |-> m.n, qos |-> m.qos]
    BY <2>1 DEF ContentOf
  <2>3. m = [id |-> m.id, n |-> m.n, qos |-> m.qos]
    <3>1. m \in [id : 0..MaxMsgId, n : Out, qos : 0..2]
      BY <1>3 DEF CommandContents
    <3> HIDE DEF m
    <3>2. QED
      BY <3>1
  <2>4. QED
    BY <2>1, <2>2, <2>3
<1> HIDE DEF m, o
<1>6. /\ m.qos = 0 => todo' = shortWork /\ outbound' = outbound
      /\ m.qos # 0 => todo' = longWork /\ outbound' = Append(outbound, o)
  <2> HIDE DEF shortWork, longWork
  <2>1. QED
    BY <1>2, <1>4
<1>7. /\ w \in Effects /\ c \in Effects /\ (m.qos # 0 => s \in Effects)
      /\ w.op = "write" /\ w.packet = PubPacket(m, FALSE)
      /\ c.op = "remove" /\ c.key = CommandKey(m.n)
      /\ s.op = "put" /\ s.content = m /\ s.key = SentKey(m.id)
  <2>1. w \in Effects
    BY <1>4, EffectTypes
  <2>2. c \in Effects
    BY <1>4, KeyTypes, EffectTypes
  <2>3. m.qos # 0 => s \in Effects
    BY <1>4, KeyTypes, EffectTypes
  <2>4. /\ w.op = "write" /\ w.packet = PubPacket(m, FALSE)
        /\ c.op = "remove" /\ c.key = CommandKey(m.n)
        /\ s.op = "put" /\ s.content = m /\ s.key = SentKey(m.id)
    BY DEF WriteOf, RemoveOf, PutOf
  <2> HIDE DEF w, c, s
  <2>5. QED
    BY <2>1, <2>2, <2>3, <2>4
<1>7a. c = RemoveOf(CommandKey(m.n))
  OBVIOUS
<1> HIDE DEF w, c, s
<1>8. /\ 1 \in DOMAIN todo' /\ todo'[1] = c
      /\ \A j \in DOMAIN todo' :
           \/ todo'[j] = c
           \/ j = 2 /\ m.qos # 0 /\ Len(todo') = 3 /\ todo'[3] = w /\ todo'[j] = s
           \/ j = Len(todo') /\ todo'[j] = w
  <2>1. CASE m.qos = 0
    <3>1. todo' = short \o <<w>>
      BY <1>6, <2>1
    <3>2. short \in Seq(Effects) /\ Len(short) = 1 /\ short[1] = c /\ \A j \in DOMAIN short : j = 1
      BY <1>7
    <3>3. 1 \in DOMAIN short
      BY <3>2
    <3> HIDE DEF short
    <3> DEFINE all == short \o <<w>>
    <3>4b. w \in Effects /\ short \in Seq(Effects)
      BY <1>7, <3>2
    <3>4a. /\ Len(all) = Len(short) + 1 /\ all[Len(short) + 1] = w
           /\ \A i \in DOMAIN short : i \in DOMAIN all /\ all[i] = short[i]
           /\ \A i \in DOMAIN all : (i \in DOMAIN short /\ all[i] = short[i])
                                   \/ (i = Len(short) + 1 /\ all[i] = w)
      BY <3>4b, Ended
    <3> HIDE DEF all
    <3>4. /\ Len(todo') = Len(short) + 1 /\ todo'[Len(short) + 1] = w
          /\ \A i \in DOMAIN short : i \in DOMAIN todo' /\ todo'[i] = short[i]
          /\ \A i \in DOMAIN todo' : (i \in DOMAIN short /\ todo'[i] = short[i])
                                    \/ (i = Len(short) + 1 /\ todo'[i] = w)
      BY <3>1, <3>4a DEF all
    <3>5. QED
      BY <2>1, <3>2, <3>3, <3>4
  <2>2. CASE m.qos # 0
    <3>1. todo' = long \o <<w>>
      BY <1>6, <2>2
    <3>2. long \in Seq(Effects) /\ Len(long) = 2 /\ long[1] = c /\ long[2] = s
      BY <1>7, <2>2
    <3>2a. \A j \in DOMAIN long : j = 1 \/ j = 2
      BY <3>2
    <3>3. 1 \in DOMAIN long
      BY <3>2
    <3> HIDE DEF long
    <3> DEFINE all == long \o <<w>>
    <3>4b. w \in Effects /\ long \in Seq(Effects)
      BY <1>7, <3>2
    <3>4a. /\ Len(all) = Len(long) + 1 /\ all[Len(long) + 1] = w
           /\ \A i \in DOMAIN long : i \in DOMAIN all /\ all[i] = long[i]
           /\ \A i \in DOMAIN all : (i \in DOMAIN long /\ all[i] = long[i])
                                   \/ (i = Len(long) + 1 /\ all[i] = w)
      BY <3>4b, Ended
    <3> HIDE DEF all
    <3>4. /\ Len(todo') = Len(long) + 1 /\ todo'[Len(long) + 1] = w
          /\ \A i \in DOMAIN long : i \in DOMAIN todo' /\ todo'[i] = long[i]
          /\ \A i \in DOMAIN todo' : (i \in DOMAIN long /\ todo'[i] = long[i])
                                    \/ (i = Len(long) + 1 /\ todo'[i] = w)
      BY <3>1, <3>4a DEF all
    <3>5. Len(long) + 1 = 3
      BY <3>2
    <3>6. QED
      BY <2>2, <3>2, <3>2a, <3>3, <3>4, <3>5
  <2>3. QED
    BY <2>1, <2>2
<1> HIDE DEF short, long, shortWork, longWork
<1>9. /\ \A l \in DOMAIN outbound : l \in DOMAIN outbound' /\ outbound'[l] = outbound[l]
      /\ \A l \in DOMAIN outbound' : \/ l \in DOMAIN outbound /\ outbound'[l] = outbound[l]
                                     \/ m.qos # 0 /\ l = Len(outbound) + 1 /\ outbound'[l] = o
      /\ m.qos # 0 => \E l \in DOMAIN outbound' : outbound'[l] = o
  <2>1. CASE m.qos = 0
    BY <1>1, <1>6, <2>1
  <2>2. CASE m.qos # 0
    BY <1>1, <1>4, <1>6, <2>2, Appended
  <2>3. QED
    BY <2>1, <2>2
<1>10. \A j \in DOMAIN todo' :
         \/ todo'[j].op = "remove" /\ todo'[j].key = CommandKey(m.n)
         \/ /\ j = 2 /\ m.qos # 0 /\ Len(todo') = 3 /\ todo'[3].op = "write"
            /\ todo'[j].op = "put" /\ todo'[j].content = m
            /\ todo'[j].key = SentKey(m.id)
         \/ /\ j = Len(todo') /\ todo'[j].op = "write"
            /\ todo'[j].packet = PubPacket(m, FALSE)
  BY <1>7, <1>8
<1>11. 1 \in DOMAIN todo' /\ todo'[1] = RemoveOf(CommandKey(m.n))
  BY <1>7a, <1>8
<1>12. QED
  BY <1>2, <1>3, <1>4, <1>5, <1>9, <1>10, <1>11 DEF m, o

LEMMA ProcessCommandDelivery ==
  ASSUME Typed, Typed', Session, DInv, ProcessCommand
  PROVE  DInv'
<1> DEFINE m == FirstCommand
           o == FirstOutbound
           p0 == PubPacket(m, FALSE)
           k0 == Len(todo')
<1>1. /\ todo = <<>> /\ running /\ connected
      /\ 1 \in DOMAIN commands /\ m \in CommandContents
      /\ \A i \in DOMAIN commands' : i + 1 \in DOMAIN commands /\ i + 1 # 1
                                     /\ commands'[i] = commands[i + 1]
      /\ \A i \in DOMAIN commands : i # 1 => \E j \in DOMAIN commands' : commands'[j] = commands[i]
      /\ o.id = m.id /\ o.n = m.n /\ o.qos = m.qos /\ o.next = AnswerTo(m.qos)
      /\ m.qos # 0 => o \in OutMessages /\ ContentOf(o) = m
      /\ 1 \in DOMAIN todo' /\ todo'[1] = RemoveOf(CommandKey(m.n))
      /\ \A j \in DOMAIN todo' :
           \/ todo'[j].op = "remove" /\ todo'[j].key = CommandKey(m.n)
           \/ /\ j = 2 /\ m.qos # 0 /\ Len(todo') = 3 /\ todo'[3].op = "write"
              /\ todo'[j].op = "put" /\ todo'[j].content = m
              /\ todo'[j].key = SentKey(m.id)
           \/ j = k0 /\ todo'[j].op = "write" /\ todo'[j].packet = p0
      /\ \A l \in DOMAIN outbound : l \in DOMAIN outbound' /\ outbound'[l] = outbound[l]
      /\ \A l \in DOMAIN outbound' : \/ l \in DOMAIN outbound /\ outbound'[l] = outbound[l]
                                     \/ m.qos # 0 /\ l = Len(outbound) + 1 /\ outbound'[l] = o
      /\ m.qos # 0 => \E l \in DOMAIN outbound' : outbound'[l] = o
      /\ UNCHANGED <<plan, running, connected, store, link, toBroker, toClient, held, received, published>>
  BY CommandTaken
<1>2. m = commands[1]
  BY DEF FirstCommand
<1>3. p0.id = m.id /\ p0.n = m.n /\ p0.qos = m.qos /\ p0.type = "PUBLISH"
  BY DEF PubPacket, Packet
<1> HIDE DEF m, o, p0, k0
<1>4. /\ m.n \in Nat /\ m.id \in Nat /\ m.qos \in 0..2 /\ (m.id = 0 <=> m.qos = 0)
      /\ o.next # "PUBCOMP" /\ (m.qos = 2 => o.next = "PUBREC") /\ (m.qos # 2 => o.next = "PUBACK")
  <2>1. m.n \in Nat /\ m.id \in Nat /\ m.qos \in 0..2 /\ (m.id = 0 <=> m.qos = 0)
    BY <1>1, MaxMsgIdAssumption DEF CommandContents, Out
  <2>2. QED
    BY <1>1, <2>1 DEF AnswerTo
<1>5. (\A n : ~Starts(n)) /\ \A j, p : ~At("todo", j, p)
  BY <1>1, NothingToDo
<1>6. File(CommandKey(m.n)) /\ store.files[CommandKey(m.n)] = m
  BY <1>1, <1>2 DEF Session, Saved, CommandsSaved, FileIs, File
<1>7. /\ ~Delivered(m.n)
      /\ ~plan.clean => \A x : File(SentKey(x)) => store.files[SentKey(x)].n # m.n
  BY <1>5, <1>6 DEF DInv, Ledger, Unsent
<1>8. HeldAsSent /\ NumbersApart
  BY <1>1 DEF DInv, Ledger, Half
<1>9. /\ \A l \in DOMAIN outbound : outbound[l].id # m.id /\ outbound[l].n # m.n
      /\ \A i \in DOMAIN commands : i # 1 => commands[i].n # m.n
      /\ m.qos = plan.out[m.n] /\ m.n <= published
  <2>1. \A l \in DOMAIN outbound : outbound[l].id # m.id
    BY <1>1, <1>2 DEF Session, IdsApart
  <2>2. \A l \in DOMAIN outbound : outbound[l].n # m.n
    BY <1>1, <1>2, <1>8 DEF NumbersApart
  <2>3. \A i \in DOMAIN commands : i # 1 => commands[i].n # m.n
    BY <1>1, <1>2 DEF Session, Listed
  <2>4. OfPlan(m)
    BY <1>1, <1>2 DEF DInv, Ledger, AsPlanned
  <2>5. QED
    BY <2>1, <2>2, <2>3, <2>4 DEF OfPlan
<1>10. \A x : CommandKey(x)[1] = "c-" /\ CommandKey(x)[2] = x /\ SentKey(x)[1] = "s-" /\ SentKey(x)[2] = x
  BY DEF CommandKey, SentKey
<1>12. ASSUME NEW n, n = m.n PROVE Starts(n)'
  <2>1. todo'[1].op = "remove" /\ todo'[1].key = CommandKey(m.n)
    BY <1>1, EffectForms
  <2>2. QED
    BY <1>1, <1>12, <2>1 DEF Starts
<1>13. ASSUME NEW a, NEW i, NEW p, At(a, i, p)'
       PROVE  (At(a, i, p) /\ a # "todo") \/ (a = "todo" /\ i = k0 /\ p = p0)
  <2>1. CASE a = "todo"
    <3>1. i \in DOMAIN todo' /\ todo'[i].op = "write" /\ todo'[i].packet = p
      BY <1>13, <2>1 DEF At
    <3>2. i = k0 /\ todo'[i].packet = p0
      BY <1>1, <3>1
    <3>3. QED
      BY <2>1, <3>1, <3>2
  <2>2. CASE a # "todo"
    BY <1>1, <1>13, <2>2 DEF At
  <2>3. QED
    BY <2>1, <2>2
<1>14. \A b, j, r : At(b, j, r) => ~Same(p0, r)
  <2> SUFFICES ASSUME NEW b, NEW j, NEW r, At(b, j, r), Same(p0, r) PROVE FALSE
    OBVIOUS
  <2>1. Meant(b, r)
    BY DEF DInv, AllMeant
  <2>2. r.id = m.id /\ (m.id = 0 => r.n = m.n)
    BY <1>3 DEF Same
  <2>3. r.id # 0
    <3>1. SUFFICES ASSUME r.id = 0 PROVE FALSE
      OBVIOUS
    <3>2. r.type = "PUBLISH" /\ r.n = m.n
      BY <2>2, <3>1, AtTypes
    <3>3. QED
      BY <1>5, <1>6, <2>1, <3>2 DEF Meant
  <2>4. PICK l \in DOMAIN outbound : Of(outbound[l], b, r)
    BY <2>1, <2>3 DEF Meant
  <2>5. QED
    BY <1>9, <2>2, <2>4 DEF Of
<1>15. OneAtATime'
  <2>1. ShiftOf("") \in [Places -> {0, 1}] /\ \A a \in Places : ShiftOf("")[a] = 0
    BY DEF ShiftOf, Places
  <2>2. ASSUME NEW a, NEW i, NEW p, At(a, i, p) PROVE At(a, i + ShiftOf("")[a], p)
    <3>1. a \in Places /\ i \in Nat
      BY <2>2, AtTypes
    <3>2. ShiftOf("")[a] = 0
      BY <2>1, <3>1
    <3>3. i + 0 = i
      BY <3>1
    <3>4. i + ShiftOf("")[a] = i
      BY <3>2, <3>3, Zenon
    <3>5. QED
      BY <2>2, <3>4
  <2> DEFINE x == "todo"
  <2> DEFINE New(a, i, p) == a = "todo" /\ i = k0 /\ p = p0
  <2>2a. ASSUME NEW a, NEW i, NEW p, At(a, i, p)'
         PROVE  At(a, i + ShiftOf("")[a], p) \/ New(a, i, p)
    <3>1. (At(a, i, p) /\ a # "todo") \/ New(a, i, p)
      BY <1>13, <2>2a
    <3>2. CASE At(a, i, p)
      BY <2>2, <3>2
    <3> HIDE DEF New
    <3>3. QED
      BY <3>1, <3>2
  <2>3. PacketsMove(ShiftOf(""), x, k0)
    <3> SUFFICES ASSUME NEW a, NEW i, NEW p, At(a, i, p)', ~At(a, i + ShiftOf("")[a], p)
                 PROVE  /\ a = x /\ i = k0
                        /\ \A b, j, r : At(b, j, r) /\ Same(p, r) => b \in Places /\ ShiftOf("")[b] = 1 /\ j = 1
      BY DEF PacketsMove
    <3>1. New(a, i, p)
      BY <2>2a
    <3>2. a = x /\ i = k0
      BY <3>1
    <3>3. ASSUME NEW b, NEW j, NEW r, At(b, j, r), Same(p, r)
          PROVE  b \in Places /\ ShiftOf("")[b] = 1 /\ j = 1
      <4>1. p = p0
        BY <3>1
      <4>2. ~Same(p0, r)
        BY <1>14, <3>3
      <4>3. QED
        BY <3>3, <4>1, <4>2
    <3>4. QED
      BY <3>2, <3>3
  <2> HIDE DEF x, New
  <2>4. OneAtATime
    BY DEF DInv
  <2>5. ShiftOf("") \in [Places -> {0, 1}]
    BY <2>1
  <2>6. QED
    BY <2>3, <2>4, <2>5, OneAtATimeMoves
<1>16. \A n : Delivered(n)' <=> Delivered(n)
  BY <1>1 DEF Delivered
<1>17. AllMeant'
  <2> SUFFICES ASSUME NEW a, NEW j, NEW p, At(a, j, p)' PROVE Meant(a, p)'
    BY DEF AllMeant
  <2>1. CASE At(a, j, p) /\ a # "todo"
    <3>1. Meant(a, p)
      BY <2>1 DEF DInv, AllMeant
    <3>2. p.type = "PUBLISH" => p.n \in Nat
      BY <2>1, AtTypes DEF Out
    <3>3. published \in Nat /\ published' \in Nat /\ published <= published' /\ plan' = plan
      BY <1>1, PlanTypes DEF Typed, ClientTyped
    <3>4. p.type = "PUBLISH" => ~File(CommandKey(p.n))'
      BY <1>1, <1>5, <3>1 DEF Meant, File
    <3>5. p.id = 0 => ~Delivered(p.n)'
      BY <1>16, <3>1 DEF Meant
    <3>6. held' = held
      BY <1>1
    <3>7. \A l \in DOMAIN outbound : Of(outbound[l], a, p) =>
             /\ \E k \in DOMAIN outbound' : outbound'[k] = outbound[l]
             /\ a # "todo" /\ ~plan.clean =>
                  /\ File(SentKey(p.id))'
                  /\ outbound[l].next = "PUBCOMP" => File(PubrelKey(p.id))'
      BY <1>1 DEF Of, File
    <3>8. QED
      BY <1>16, <3>1, <3>2, <3>3, <3>4, <3>5, <3>6, <3>7, StillMeant
  <2>2. CASE a = "todo" /\ p = p0
    <3>1. p.id = m.id /\ p.n = m.n /\ p.qos = m.qos /\ p.type = "PUBLISH" /\ p.type \notin Answers
          /\ p.type # "PUBREL" /\ p.type # "PUBCOMP"
      BY <1>3, <2>2 DEF Answers
    <3>2. Starts(p.n)'
      BY <1>12, <3>1
    <3>3. ~Delivered(p.n)'
      BY <1>7, <1>16, <3>1
    <3>4. p.id # 0 => \E l \in DOMAIN outbound' : Of(outbound[l], a, p)'
      <4>1. ASSUME NEW l \in DOMAIN outbound', outbound'[l] = o PROVE Of(outbound[l], a, p)'
        <5>1. /\ outbound'[l].id = p.id /\ outbound'[l].n = p.n /\ outbound'[l].qos = p.qos
              /\ outbound'[l].next # "PUBCOMP"
          BY <1>1, <1>4, <3>1, <4>1
        <5>2. QED
          BY <2>2, <3>1, <5>1 DEF Of
      <4>2. p.id # 0 => m.qos # 0
        BY <1>4, <3>1
      <4>3. QED
        BY <1>1, <4>1, <4>2
    <3>5. p.qos = plan'.out[p.n] /\ p.n <= published'
      BY <1>1, <1>9, <3>1
    <3>6. QED
      BY <2>2, <3>1, <3>2, <3>3, <3>4, <3>5 DEF Meant
  <2>3. QED
    BY <1>13, <2>1, <2>2
<1>18. Connections'
  BY <1>1 DEF DInv, Connections
<1>19. Shapes'
  <2>0. ASSUME NEW j, j \in DOMAIN todo', todo'[j].op = "put"
        PROVE  j = 2 /\ Len(todo') = 3 /\ todo'[3].op = "write" /\ todo'[j].content = m
    BY <1>1, <2>0
  <2>1. ASSUME NEW j, NewPut(j, "s-")'
        PROVE  /\ j \in {1, 2} /\ Len(todo') = j + 1 /\ todo'[j + 1].op = "write"
               /\ j = 2 => Starts(todo[j].content.n)' /\ File(CommandKey(todo[j].content.n))'
    <3>1. j = 2 /\ Len(todo') = 3 /\ todo'[3].op = "write" /\ todo'[j].content = m
      BY <2>0, <2>1 DEF NewPut
    <3>2. j + 1 = 3
      BY <3>1
    <3>3. ASSUME NEW n, n = m.n PROVE Starts(n)' /\ File(CommandKey(n))'
      BY <1>1, <1>6, <1>12, <3>3 DEF File
    <3>4. todo'[j].content.n = m.n
      BY <3>1
    <3>5. Starts(todo[j].content.n)' /\ File(CommandKey(todo[j].content.n))'
      <4>1. /\ 1 \in DOMAIN todo' /\ todo'[1].op = "remove"
            /\ todo'[1].key = CommandKey(m.n) /\ CommandKey(m.n) \in DOMAIN store'.files
        BY <1>1, <1>6, EffectForms DEF File
      <4>2. QED
        BY <3>4, <4>1 DEF Starts, File
    <3>6. QED
      BY <3>1, <3>2, <3>5
  <2>2. ASSUME NEW j, NewPut(j, "sc-")' PROVE FALSE
    <3>1. j \in DOMAIN todo' /\ todo'[j].op = "put" /\ todo'[j].key[1] = "sc-"
      BY <2>2 DEF NewPut
    <3>2. todo'[j].key = SentKey(m.id)
      BY <1>1, <3>1
    <3>3. QED
      BY <1>10, <3>1, <3>2
  <2>3. \A j \in DOMAIN todo' : todo'[j].op = "remove" => todo'[j].key[1] = "c-"
    BY <1>1, <1>10
  <2>4. QED
    BY <2>1, <2>2, <2>3 DEF Shapes
<1>20. AsPlanned'
  <2>1. \A l \in DOMAIN commands' : commands'[l].qos = plan.out[commands'[l].n] /\ commands'[l].n <= published
    BY <1>1 DEF DInv, Ledger, AsPlanned, OfPlan
  <2>2. \A l \in DOMAIN outbound' : outbound'[l].qos = plan.out[outbound'[l].n] /\ outbound'[l].n <= published
    BY <1>1, <1>9 DEF DInv, Ledger, AsPlanned, OfPlan
  <2>3. \A k \in DOMAIN store.files : k[1] \in {"c-", "s-"} =>
          store.files[k].qos = plan.out[store.files[k].n] /\ store.files[k].n <= published
    BY DEF DInv, Ledger, AsPlanned, OfPlan
  <2>4. \A l \in DOMAIN received : received[l] <= published
    BY DEF DInv, Ledger, AsPlanned
  <2>5. QED
    BY <1>1, <2>1, <2>2, <2>3, <2>4 DEF AsPlanned, OfPlan
<1>21. Half'
  <2>0. m.id \notin held
    BY <1>1, <1>8, <1>9 DEF HeldAsSent
  <2>1. ASSUME NEW l \in DOMAIN outbound', NEW n, n = outbound'[l].n
        PROVE  /\ outbound'[l].next = "PUBREC" => (Delivered(n) <=> outbound'[l].id \in held)
               /\ outbound'[l].next = "PUBCOMP" => Delivered(n)
    <3>1. CASE l \in DOMAIN outbound /\ outbound'[l] = outbound[l]
      BY <1>8, <2>1, <3>1 DEF HeldAsSent
    <3>2. CASE outbound'[l] = o
      BY <1>1, <1>4, <1>7, <2>0, <2>1, <3>2
    <3>3. QED
      BY <1>1, <3>1, <3>2
  <2>2. ASSUME NEW x \in held PROVE \E l \in DOMAIN outbound' : outbound'[l].id = x /\ outbound'[l].qos = 2
    BY <1>1, <1>8 DEF HeldAsSent
  <2>3. HeldAsSent'
    BY <1>1, <2>1, <2>2 DEF HeldAsSent, Delivered
  <2>4. \A i, j \in DOMAIN outbound' : outbound'[i].n = outbound'[j].n => i = j
    BY <1>1, <1>8, <1>9 DEF NumbersApart
  <2>5. ASSUME NEW i \in DOMAIN commands', NEW j \in DOMAIN outbound' PROVE commands'[i].n # outbound'[j].n
    <3>1. i + 1 \in DOMAIN commands /\ i + 1 # 1 /\ commands'[i] = commands[i + 1]
      BY <1>1
    <3>2. CASE j \in DOMAIN outbound /\ outbound'[j] = outbound[j]
      BY <1>8, <3>1, <3>2 DEF NumbersApart
    <3>3. CASE outbound'[j] = o
      BY <1>1, <1>9, <3>1, <3>3
    <3>4. QED
      BY <1>1, <3>2, <3>3
  <2>6. NumbersApart'
    BY <2>4, <2>5 DEF NumbersApart
  <2>7. QED
    BY <2>3, <2>6 DEF Half
<1>22. FilesHalf'
  <2> SUFFICES ASSUME ~plan.clean PROVE FilesHalf'
    BY <1>1 DEF FilesHalf
  <2>1. ASSUME NEW x PROVE FileHalf(x)'
    BY <1>1, <1>16 DEF DInv, Ledger, FilesHalf, FileHalf, File, Delivered
  <2>2. ASSUME NEW l \in DOMAIN outbound', NEW x, x = outbound'[l].id, File(SentKey(x))
        PROVE  store.files[SentKey(x)] = ContentOf(outbound'[l])
    <3>1. CASE l \in DOMAIN outbound /\ outbound'[l] = outbound[l]
      BY <2>2, <3>1 DEF DInv, Ledger, FilesHalf
    <3>2. CASE m.qos # 0 /\ outbound'[l] = o
      <4>1. x = m.id /\ m.id # 0
        BY <1>1, <1>4, <2>2, <3>2
      <4>2. SentKey(x) \in DOMAIN store.files /\ CommandKey(m.n) \in DOMAIN store.files
        BY <1>6, <2>2 DEF File
      <4>3. FileOK(SentKey(x), store.files[SentKey(x)])
        BY <4>2 DEF Typed, StoreTyped
      <4>4. store.files[SentKey(x)].id = x
        BY <1>10, <4>3 DEF FileOK
      <4>5. HoldsId(SentKey(x)) /\ HoldsId(CommandKey(m.n))
        BY <1>10, <4>2 DEF HoldsId
      <4>6. SentKey(x) = CommandKey(m.n)
        BY <1>6, <4>1, <4>4, <4>5 DEF Session, FilesApart
      <4>7. QED
        BY <1>10, <4>6
    <3>3. QED
      BY <1>1, <3>1, <3>2
  <2>3. /\ \A x \in held : File(SentKey(x)) /\ store.files[SentKey(x)].qos = 2
        /\ \A x, y : File(SentKey(x)) /\ File(SentKey(y))
                     /\ store.files[SentKey(x)].n = store.files[SentKey(y)].n => x = y
    BY DEF DInv, Ledger, FilesHalf
  <2>4. QED
    BY <1>1, <2>1, <2>2, <2>3 DEF FilesHalf, File
<1>23. Unsent'
  <2> SUFFICES ASSUME NEW n, File(CommandKey(n))
               PROVE  /\ ~Delivered(n)
                      /\ ~plan.clean =>
                           /\ \A x : File(SentKey(x)) => store.files[SentKey(x)].n # n
                           /\ \A k \in DOMAIN outbound' : outbound'[k].n = n => Starts(n)'
    BY <1>1 DEF Unsent, Delivered, File
  <2>1. /\ ~Delivered(n)
        /\ ~plan.clean =>
             /\ \A x : File(SentKey(x)) => store.files[SentKey(x)].n # n
             /\ \A l \in DOMAIN outbound : outbound[l].n # n
    BY <1>5 DEF DInv, Ledger, Unsent
  <2>2. n = m.n => Starts(n)'
    BY <1>12
  <2>3. ASSUME ~plan.clean, NEW k \in DOMAIN outbound', outbound'[k].n = n PROVE Starts(n)'
    <3>1. n = m.n
      BY <1>1, <2>1, <2>3
    <3>2. QED
      BY <2>2, <3>1
  <2>4. QED
    BY <2>1, <2>3
<1>24. KeptUntilDelivered'
  <2>1. ASSUME ~plan.clean, NEW n \in 1..published, plan.out[n] # 0, ~Delivered(n)
        PROVE  \/ \E k \in DOMAIN commands' : commands'[k].n = n
               \/ \E k \in DOMAIN outbound' : outbound'[k].n = n
    <3>1. InMemoryStill(n)
      BY <1>1, <2>1 DEF DInv, Ledger, KeptUntilDelivered
    <3>2. CASE n = m.n
      <4>1. m.qos # 0
        BY <1>9, <2>1, <3>2
      <4>2. QED
        BY <1>1, <3>2, <4>1
    <3>3. CASE \E l \in DOMAIN outbound : outbound[l].n = n
      BY <1>1, <3>3
    <3>4. CASE n # m.n /\ \E l \in DOMAIN commands : commands[l].n = n
      <4>1. PICK l \in DOMAIN commands : commands[l].n = n
        BY <3>4
      <4>2. l # 1
        BY <1>2, <3>4, <4>1
      <4>3. \E j \in DOMAIN commands' : commands'[j] = commands[l]
        BY <1>1, <4>2
      <4>4. QED
        BY <4>1, <4>3
    <3>5. QED
      BY <3>1, <3>2, <3>3, <3>4 DEF InMemoryStill
  <2>2. QED
    BY <1>1, <1>16, <2>1 DEF KeptUntilDelivered, InMemoryStill
<1>25. QED
  BY <1>15, <1>17, <1>18, <1>19, <1>20, <1>21, <1>22, <1>23, <1>24 DEF DInv, Ledger

-----------------------------------------------------------------------------
(* Connections lost and made                                                *)

\* nothing is left in memory or on its way: the process has ended, or the session is
\* clean
LEMMA ForgottenDelivery ==
  ASSUME DInv, Forgotten, todo' = <<>>, toBroker' = <<>>, toClient' = <<>>,
         store'.files = store.files, UNCHANGED <<plan, published, received>>,
         connected' \/ ~link',
         ~running' \/ held' = {} \/ (plan.clean /\ ~connected'),
         plan.clean \/ held' = held,
         ~plan.clean => /\ ~running'
                        /\ \A n \in 1..published : plan.out[n] # 0 /\ ~Delivered(n) => InFilesStill(n)
  PROVE  DInv'
<1> DEFINE none == <<>>
<1>1. DOMAIN none = {}
  OBVIOUS
<1>2. commands' = none /\ outbound' = none /\ todo' = none /\ toBroker' = none /\ toClient' = none
  BY DEF Forgotten
<1> HIDE DEF none
<1>3. \A a, j, p : ~At(a, j, p)'
  BY <1>1, <1>2 DEF At
<1>4. OneAtATime'
  BY <1>3 DEF OneAtATime
<1>5. AllMeant'
  BY <1>3 DEF AllMeant
<1>6. Connections'
  BY DEF Connections
<1>7. Shapes'
  BY <1>1, <1>2 DEF Shapes, NewPut
<1>8. AsPlanned'
  BY <1>1, <1>2 DEF DInv, Ledger, AsPlanned, OfPlan
<1>9. Half'
  BY <1>1, <1>2 DEF Half, HeldAsSent, NumbersApart
<1>10. FilesHalf'
  <2> SUFFICES ASSUME ~plan.clean PROVE FilesHalf'
    BY DEF FilesHalf
  <2>1. held' = held
    OBVIOUS
  <2>2. ASSUME NEW x PROVE FileHalf(x)'
    BY <2>1 DEF DInv, Ledger, FilesHalf, FileHalf, File, Delivered
  <2>3. /\ \A x \in held : File(SentKey(x))' /\ store'.files[SentKey(x)].qos = 2
        /\ \A x, y : File(SentKey(x))' /\ File(SentKey(y))'
                     /\ store'.files[SentKey(x)].n = store'.files[SentKey(y)].n => x = y
    BY DEF DInv, Ledger, FilesHalf, File
  <2>4. QED
    BY <1>1, <1>2, <2>1, <2>2, <2>3 DEF FilesHalf
<1>11. Unsent'
  <2> SUFFICES ASSUME NEW n, CommandKey(n) \in DOMAIN store'.files
               PROVE  /\ ~Delivered(n)
                      /\ ~plan.clean => \A x : File(SentKey(x)) => store.files[SentKey(x)].n # n
    BY <1>1, <1>2 DEF Unsent, Delivered, File
  <2>1. File(CommandKey(n))
    BY DEF File
  <2>2. QED
    BY <2>1 DEF DInv, Ledger, Unsent
<1>12. KeptUntilDelivered'
  BY DEF KeptUntilDelivered, InFilesStill, Delivered
<1>13. QED
  BY <1>4, <1>5, <1>6, <1>7, <1>8, <1>9, <1>10, <1>11, <1>12 DEF DInv, Ledger

\* between two handlers the books of a session that is kept do not depend on its connection
LEMMA LedgerKept ==
  ASSUME Ledger, ~plan.clean, todo = <<>>,
         UNCHANGED <<plan, running, commands, outbound, store, published, received, held>>
  PROVE  Ledger'
<1>1. AsPlanned'
  BY DEF Ledger, AsPlanned, OfPlan
<1>2. Half'
  BY DEF Ledger, Half, HeldAsSent, NumbersApart, Delivered
<1>3. FilesHalf'
  BY DEF Ledger, FilesHalf, FileHalf, File, Delivered
<1>4. Unsent'
  <2>1. \A n : ~Starts(n)
    BY NothingToDo
  <2>2. QED
    BY <2>1 DEF Ledger, Unsent, Delivered, File
<1>5. KeptUntilDelivered'
  BY DEF Ledger, KeptUntilDelivered, InMemoryStill, InFilesStill, Delivered
<1>6. QED
  BY <1>1, <1>2, <1>3, <1>4, <1>5 DEF Ledger

LEMMA NoticeLostDelivery ==
  ASSUME Typed, Session, DInv, NoticeLost
  PROVE  DInv'
<1>1. /\ todo = <<>> /\ running /\ connected /\ ~link /\ ~connected' /\ store' = store
      /\ UNCHANGED <<plan, running, todo, link, toBroker, toClient, held, received, published>>
      /\ (plan.clean /\ Forgotten) \/ (~plan.clean /\ UNCHANGED memory)
  BY DEF NoticeLost, Idle, PstClear, network, broker
<1>2. toBroker = <<>> /\ toClient = <<>>
  BY <1>1 DEF DInv, Connections
<1>3. CASE plan.clean /\ Forgotten
  BY <1>1, <1>2, <1>3, ForgottenDelivery
<1>4. CASE ~plan.clean /\ UNCHANGED memory
  <2>1. UNCHANGED <<commands, outbound>>
    BY <1>4 DEF memory
  <2> DEFINE none == <<>>
  <2>2. DOMAIN none = {}
    OBVIOUS
  <2>3. todo' = none /\ toBroker' = none /\ toClient' = none
    BY <1>1, <1>2
  <2> HIDE DEF none
  <2>4. \A a, j, p : ~At(a, j, p)'
    BY <2>2, <2>3 DEF At
  <2>5. OneAtATime' /\ AllMeant'
    BY <2>4 DEF OneAtATime, AllMeant
  <2>6. Connections'
    BY <1>1, <1>2 DEF Connections
  <2>7. Shapes'
    BY <2>2, <2>3 DEF Shapes, NewPut
  <2>8. Ledger'
    BY <1>1, <1>4, <2>1, LedgerKept DEF DInv
  <2>9. QED
    BY <2>5, <2>6, <2>7, <2>8 DEF DInv
<1>5. QED
  BY <1>1, <1>3, <1>4

-----------------------------------------------------------------------------
(* A connection that is made again                                          *)

\* what is at place j comes from the pair ss[i]
Paired(ss, i, j, e) == (j = 2 * i - 1 /\ e = ss[i][1]) \/ (j = 2 * i /\ e = ss[i][2])

LEMMA Concatenated ==
  ASSUME NEW S, NEW s \in Seq(S), NEW t \in Seq(S)
  PROVE  /\ Len(s \o t) = Len(s) + Len(t)
         /\ \A j \in 1..Len(s) : (s \o t)[j] = s[j]
         /\ \A j \in 1..Len(t) : (s \o t)[Len(s) + j] = t[j]
  OBVIOUS

LEMMA FlattenPairs ==
  ASSUME NEW S, NEW ss \in Seq(Seq(S)), \A i \in DOMAIN ss : Len(ss[i]) = 2
  PROVE  \A j \in DOMAIN FlattenSeq(ss) : \E i \in DOMAIN ss : Paired(ss, i, j, FlattenSeq(ss)[j])
<1>1. CASE Len(ss) = 0
  <2>1. FlattenSeq(ss) = ss /\ DOMAIN ss = {}
    BY <1>1 DEF FlattenSeq
  <2>2. QED
    BY <2>1
<1>2. CASE Len(ss) # 0
  <2>1. PICK f \in [1..Len(ss) -> Seq(S)] :
          /\ FlattenSeq(ss) = f[Len(ss)]
          /\ \A i \in 1..Len(ss) : f[i] = IF i = 1 THEN ss[i] ELSE f[i - 1] \o ss[i]
    BY <1>2, FlattenSteps
  <2> DEFINE Good(n) == Len(f[n]) = 2 * n /\ \A j \in 1..(2 * n) : \E i \in 1..n : Paired(ss, i, j, f[n][j])
             Bad == {n \in Nat : n \in 1..Len(ss) /\ ~Good(n)}
  <2>2. \A n \in 1..Len(ss) : ss[n] \in Seq(S) /\ Len(ss[n]) = 2 /\ f[n] \in Seq(S)
    <3>1. DOMAIN ss = 1..Len(ss)
      OBVIOUS
    <3>2. \A n \in DOMAIN ss : ss[n] \in Seq(S)
      <4> DEFINE T == Seq(S)
      <4>1. ss \in Seq(T)
        OBVIOUS
      <4> HIDE DEF T
      <4>2. \A n \in DOMAIN ss : ss[n] \in T
        BY <4>1
      <4>3. QED
        BY <4>2 DEF T
    <3>3. \A n \in DOMAIN ss : Len(ss[n]) = 2
      OBVIOUS
    <3>4. \A n \in 1..Len(ss) : f[n] \in Seq(S)
      OBVIOUS
    <3>5. QED
      BY <3>1, <3>2, <3>3, <3>4
  <2>3. Good(1)
    <3>1. f[1] = ss[1] /\ Len(ss[1]) = 2
      <4>1. 1 \in 1..Len(ss)
        BY <1>2
      <4>2. f[1] = IF 1 = 1 THEN ss[1] ELSE f[1 - 1] \o ss[1]
        BY <2>1, <4>1
      <4>3. QED
        BY <2>2, <4>1, <4>2
    <3>2. \A j \in 1..(2 * 1) : Paired(ss, 1, j, ss[1][j])
      BY DEF Paired
    <3>3. QED
      BY <3>1, <3>2
  <2>4. ASSUME NEW m \in 1..Len(ss), m # 1, Good(m - 1) PROVE Good(m)
    <3>1. m - 1 \in 1..Len(ss) /\ m \in Nat /\ m >= 2
      BY <2>4
    <3>2. f[m] = f[m - 1] \o ss[m]
      BY <2>1, <2>4
    <3>3. f[m - 1] \in Seq(S) /\ Len(f[m - 1]) = 2 * (m - 1) /\ ss[m] \in Seq(S) /\ Len(ss[m]) = 2
      BY <2>2, <2>4, <3>1
    <3> DEFINE before == f[m - 1]
               after == ss[m]
               all == before \o after
    <3>4a. /\ Len(all) = 2 * (m - 1) + 2
           /\ \A j \in 1..(2 * (m - 1)) : all[j] = before[j]
           /\ all[2 * (m - 1) + 1] = after[1] /\ all[2 * (m - 1) + 2] = after[2]
      <4>1. /\ Len(all) = Len(before) + Len(after)
            /\ \A j \in 1..Len(before) : all[j] = before[j]
            /\ \A j \in 1..Len(after) : all[Len(before) + j] = after[j]
        <5>1. before \in Seq(S) /\ after \in Seq(S)
          BY <3>3
        <5> HIDE DEF before, after
        <5>2. QED
          BY <5>1, Concatenated
      <4> HIDE DEF before, after, all
      <4>2. Len(before) = 2 * (m - 1) /\ Len(after) = 2
        BY <3>3 DEF before, after
      <4>3. 1 \in 1..2 /\ 2 \in 1..2
        OBVIOUS
      <4>4. QED
        BY <4>1, <4>2, <4>3
    <3>4b. 2 * (m - 1) + 2 = 2 * m /\ 2 * (m - 1) + 1 = 2 * m - 1
      BY <3>1
    <3> HIDE DEF all
    <3>4. Len(all) = 2 * m /\ all[2 * m - 1] = after[1] /\ all[2 * m] = after[2]
      BY <3>4a, <3>4b
    <3>5. ASSUME NEW j \in 1..(2 * m) PROVE \E i \in 1..m : Paired(ss, i, j, all[j])
      <4>1. CASE j <= 2 * (m - 1)
        <5>1. j \in 1..(2 * (m - 1))
          BY <3>1, <4>1
        <5>2. all[j] = before[j]
          BY <3>4a, <5>1
        <5>3. PICK i \in 1..(m - 1) : Paired(ss, i, j, before[j])
          BY <2>4, <5>1
        <5>4. i \in 1..m
          BY <3>1
        <5> HIDE DEF before
        <5>5. QED
          BY <5>2, <5>3, <5>4
      <4>2. CASE j = 2 * m - 1
        <5>1. all[j] = after[1]
          BY <3>4, <4>2
        <5>2. QED
          BY <3>1, <4>2, <5>1 DEF Paired
      <4>3. CASE j = 2 * m
        <5>1. all[j] = after[2]
          BY <3>4, <4>3
        <5>2. QED
          BY <3>1, <4>3, <5>1 DEF Paired
      <4>4. j <= 2 * (m - 1) \/ j = 2 * m - 1 \/ j = 2 * m
        BY <3>1
      <4>5. QED
        BY <4>1, <4>2, <4>3, <4>4
    <3>6. f[m] = all
      BY <3>2 DEF all
    <3>7. QED
      BY <3>4, <3>5, <3>6
  <2> HIDE DEF Good
  <2>5. Bad = {}
    <3>1. SUFFICES ASSUME Bad # {} PROVE FALSE
      OBVIOUS
    <3>2. PICK m \in Bad : \A n \in Bad : m <= n
      <4>1. Bad \subseteq Nat
        OBVIOUS
      <4> HIDE DEF Bad
      <4>2. QED
        BY <3>1, <4>1, LeastNumber
    <3>3. m \in 1..Len(ss) /\ ~Good(m) /\ m # 1
      BY <2>3
    <3>4. m - 1 \in 1..Len(ss) /\ m - 1 \in Nat /\ ~(m <= m - 1)
      BY <3>3
    <3>5. Good(m - 1)
      BY <3>2, <3>4
    <3>6. QED
      BY <2>4, <3>3, <3>5
  <2>6. Len(ss) \in 1..Len(ss) /\ Len(ss) \in Nat
    BY <1>2
  <2>7. Good(Len(ss))
    BY <2>5, <2>6
  <2>8. /\ f[Len(ss)] \in Seq(S) /\ DOMAIN ss = 1..Len(ss) /\ Len(f[Len(ss)]) = 2 * Len(ss)
        /\ \A j \in 1..(2 * Len(ss)) : \E i \in 1..Len(ss) : Paired(ss, i, j, f[Len(ss)][j])
    BY <2>6, <2>7 DEF Good
  <2>9. DOMAIN f[Len(ss)] = 1..(2 * Len(ss))
    BY <2>8
  <2>10. QED
    BY <2>1, <2>8, <2>9
<1>3. QED
  BY <1>1, <1>2

\* the packet that is sent again
ResentPacket(m) ==
  IF m.next = "PUBCOMP" THEN Ack("PUBREL", m.id) ELSE PubPacket(ContentOf(m), TRUE)

LEMMA ResendPair ==
  ASSUME NEW list, NEW i \in DOMAIN list, list[i] \in OutMessages
  PROVE  /\ Len(Resend(list[i])) = 2 /\ PutFor(Resend(list[i])[1], list[i])
         /\ Resend(list[i])[2] = WriteOf(ResentPacket(list[i]))
<1> DEFINE m == list[i]
           p1 == PutOf(PubrelKey(m.id), ContentOf(m))
           p2 == PutOf(SentKey(m.id), ContentOf(m))
           w == WriteOf(ResentPacket(m))
           one == <<p1, w>>
           two == <<p2, w>>
<1>1. Resend(m) = IF m.next = "PUBCOMP" THEN one ELSE two
  BY DEF Resend, SendPubrel, ResentPacket, ContentOf
<1>2. /\ p1.op = "put" /\ p1.key = PubrelKey(m.id) /\ p1.content = ContentOf(m)
      /\ p2.op = "put" /\ p2.key = SentKey(m.id) /\ p2.content = ContentOf(m)
  BY DEF PutOf
<1> HIDE DEF p1, p2, w, m
<1>3. Len(one) = 2 /\ one[1] = p1 /\ one[2] = w /\ Len(two) = 2 /\ two[1] = p2 /\ two[2] = w
  OBVIOUS
<1> HIDE DEF one, two
<1>4. Len(Resend(m)) = 2 /\ PutFor(Resend(m)[1], m) /\ Resend(m)[2] = w
  BY <1>1, <1>2, <1>3 DEF PutFor
<1>5. QED
  BY <1>4 DEF m, w

\* at place j is the put or the packet of message m, the i-th of the list
ResentAt(i, j, e, m) ==
  (j = 2 * i - 1 /\ PutFor(e, m)) \/ (j = 2 * i /\ e = WriteOf(ResentPacket(m)))

LEMMA ResendPlaces ==
  ASSUME NEW list \in Seq(OutMessages)
  PROVE  \A j \in DOMAIN Resends(list) : \E i \in DOMAIN list : ResentAt(i, j, Resends(list)[j], list[i])
<1> DEFINE ss == [i \in DOMAIN list |-> Resend(list[i])]
<1>1. ss \in Seq(Seq(Resent(list)))
  <2>1. \A i \in DOMAIN list : Resend(list[i]) \in Seq(Resent(list))
    BY ResendType
  <2>2. DOMAIN list = 1..Len(list) /\ Len(list) \in Nat
    OBVIOUS
  <2>3. QED
    BY <2>1, <2>2
<1>2. \A i \in DOMAIN ss : i \in DOMAIN list /\ ss[i] = Resend(list[i])
  OBVIOUS
<1>3. \A i \in DOMAIN list : /\ Len(Resend(list[i])) = 2 /\ PutFor(Resend(list[i])[1], list[i])
                             /\ Resend(list[i])[2] = WriteOf(ResentPacket(list[i]))
  BY ResendPair
<1>4. Resends(list) = FlattenSeq(ss)
  BY DEF Resends
<1> HIDE DEF ss
<1>5. \A i \in DOMAIN ss : Len(ss[i]) = 2
  BY <1>2, <1>3
<1>6. ASSUME NEW j \in DOMAIN Resends(list)
      PROVE  \E i \in DOMAIN list : ResentAt(i, j, Resends(list)[j], list[i])
  <2>1. PICK i \in DOMAIN ss : Paired(ss, i, j, Resends(list)[j])
    BY <1>1, <1>4, <1>5, FlattenPairs
  <2>2. i \in DOMAIN list /\ ss[i] = Resend(list[i])
    BY <1>2
  <2>3. ResentAt(i, j, Resends(list)[j], list[i])
    BY <1>3, <2>1, <2>2 DEF Paired, ResentAt
  <2>4. QED
    BY <2>2, <2>3
<1>7. QED
  BY <1>6

\* what a reconnection has to write
LEMMA ResentWork ==
  ASSUME Typed, todo' = <<TryQueue>> \o Resends(outbound)
  PROVE  \A j \in DOMAIN todo' :
           \/ todo'[j].op = "queue"
           \/ \E i \in DOMAIN outbound :
                \/ PutFor(todo'[j], outbound[i])
                \/ /\ j = 2 * i + 1 /\ todo'[j].op = "write"
                   /\ todo'[j].packet = ResentPacket(outbound[i])
<1> DEFINE resends == Resends(outbound)
<1>1. outbound \in Seq(OutMessages)
  BY DEF Typed, ClientTyped
<1>2. resends \in Seq(Effects)
  BY <1>1, ResendsType
<1>3. \A j \in DOMAIN resends : \E i \in DOMAIN outbound : ResentAt(i, j, resends[j], outbound[i])
  BY <1>1, ResendPlaces
<1> HIDE DEF resends
<1>4. \A j \in DOMAIN todo' : j = 1 \/ (j - 1 \in DOMAIN resends /\ todo'[j] = resends[j - 1])
  <2> DEFINE all == <<TryQueue>> \o resends
  <2>1. \A j \in DOMAIN all : j # 1 => j - 1 \in DOMAIN resends /\ all[j] = resends[j - 1]
    BY <1>2, EffectTypes, Joined
  <2> HIDE DEF all
  <2>2. todo' = all
    BY DEF all, resends
  <2>3. QED
    BY <2>1, <2>2
<1>5. todo'[1].op = "queue"
  <2> DEFINE all == <<TryQueue>> \o resends
  <2>1. all[1] = TryQueue
    BY <1>2, EffectTypes, Joined
  <2> HIDE DEF all
  <2>2. todo' = all
    BY DEF all, resends
  <2>3. QED
    BY <2>1, <2>2, EffectForms
<1>6. ASSUME NEW j \in DOMAIN todo', j # 1
      PROVE  \E i \in DOMAIN outbound :
                \/ PutFor(todo'[j], outbound[i])
                \/ /\ j = 2 * i + 1 /\ todo'[j].op = "write"
                   /\ todo'[j].packet = ResentPacket(outbound[i])
  <2>1. j - 1 \in DOMAIN resends /\ todo'[j] = resends[j - 1]
    BY <1>4, <1>6
  <2>2. PICK i \in DOMAIN outbound : ResentAt(i, j - 1, resends[j - 1], outbound[i])
    BY <1>3, <2>1
  <2>3. CASE PutFor(resends[j - 1], outbound[i])
    BY <2>1, <2>3
  <2>4. CASE j - 1 = 2 * i /\ resends[j - 1] = WriteOf(ResentPacket(outbound[i]))
    <3>1. i \in Nat /\ j \in Nat
      <4>1. j - 1 \in Nat /\ j \in Int
        <5>1. DOMAIN resends = 1..Len(resends) /\ Len(resends) \in Nat
          BY <1>2
        <5>2. todo' = <<TryQueue>> \o resends
          BY DEF resends
        <5>3. DOMAIN todo' = 1..(Len(resends) + 1)
          BY <1>2, <5>2
        <5>4. QED
          BY <2>1, <5>1, <5>3
      <4>2. QED
        BY <1>1, <4>1
    <3>2. j = 2 * i + 1
      BY <2>4, <3>1
    <3>3. todo'[j].op = "write" /\ todo'[j].packet = ResentPacket(outbound[i])
      BY <2>1, <2>4, EffectForms
    <3>4. QED
      BY <3>2, <3>3
  <2>5. QED
    BY <2>2, <2>3, <2>4 DEF ResentAt
<1>7. QED
  BY <1>5, <1>6

LEMMA ConnectDelivery ==
  ASSUME Typed, Typed', Session, DInv, Connect
  PROVE  DInv'
<1>1. /\ todo = <<>> /\ running /\ ~connected /\ connected' /\ link' /\ store' = store
      /\ UNCHANGED <<plan, running, toBroker, received, published>>
      /\ \/ plan.clean /\ Forgotten /\ toClient' = <<>> /\ held' = {} /\ todo' = <<>>
         \/ /\ ~plan.clean /\ UNCHANGED <<memory, held>>
            /\ toClient' = [i \in DOMAIN pending |-> BrokerPacket(pending[i])]
            /\ todo' = <<TryQueue>> \o Resends(outbound)
  BY DEF Connect, Idle, PstClear
<1>2. toBroker' = <<>>
  BY <1>1 DEF DInv, Connections
<1>3. CASE plan.clean /\ Forgotten /\ toClient' = <<>> /\ held' = {} /\ todo' = <<>>
  BY <1>1, <1>2, <1>3, ForgottenDelivery
<1>4. CASE /\ ~plan.clean /\ UNCHANGED <<memory, held>>
           /\ toClient' = [i \in DOMAIN pending |-> BrokerPacket(pending[i])]
           /\ todo' = <<TryQueue>> \o Resends(outbound)
  <2>1. UNCHANGED <<commands, outbound>>
    BY <1>4 DEF memory
  <2>2. outbound \in Seq(OutMessages) /\ \A l \in DOMAIN outbound : outbound[l] \in OutMessages /\ l \in Nat
    BY DEF Typed, ClientTyped
  <2>3. \A j \in DOMAIN todo' :
           \/ todo'[j].op = "queue"
           \/ \E i \in DOMAIN outbound :
                \/ PutFor(todo'[j], outbound[i])
                \/ /\ j = 2 * i + 1 /\ todo'[j].op = "write"
                   /\ todo'[j].packet = ResentPacket(outbound[i])
    BY <1>4, ResentWork
  <2>4. ASSUME NEW l \in DOMAIN outbound, NEW p, p = ResentPacket(outbound[l])
        PROVE  /\ p.id = outbound[l].id /\ p.id # 0
               /\ \/ p.type = "PUBREL" /\ outbound[l].next = "PUBCOMP"
                  \/ /\ p.type = "PUBLISH" /\ outbound[l].next # "PUBCOMP"
                     /\ p.n = outbound[l].n /\ p.qos = outbound[l].qos
    <3>1. outbound[l].id # 0
      BY <2>2 DEF OutMessages, MsgIds
    <3>2. Ack("PUBREL", outbound[l].id).id = outbound[l].id /\ Ack("PUBREL", outbound[l].id).type = "PUBREL"
      BY DEF Ack, Packet
    <3> DEFINE c == ContentOf(outbound[l])
    <3>3. c.id = outbound[l].id /\ c.n = outbound[l].n /\ c.qos = outbound[l].qos
      BY DEF ContentOf
    <3> HIDE DEF c
    <3>4. PubPacket(c, TRUE).id = c.id /\ PubPacket(c, TRUE).n = c.n /\ PubPacket(c, TRUE).qos = c.qos
          /\ PubPacket(c, TRUE).type = "PUBLISH"
      BY DEF PubPacket, Packet
    <3>5. p = IF outbound[l].next = "PUBCOMP" THEN Ack("PUBREL", outbound[l].id) ELSE PubPacket(c, TRUE)
      BY <2>4 DEF ResentPacket, c
    <3>6. CASE outbound[l].next = "PUBCOMP"
      BY <3>1, <3>2, <3>5, <3>6
    <3>7. CASE outbound[l].next # "PUBCOMP"
      BY <3>1, <3>3, <3>4, <3>5, <3>7
    <3>8. QED
      BY <3>6, <3>7
  <2>5. ASSUME NEW a, NEW j, NEW p, At(a, j, p)'
        PROVE  /\ a = "todo"
               /\ \E i \in DOMAIN outbound : j = 2 * i + 1 /\ p = ResentPacket(outbound[i])
    <3>1. a # "toBroker"
      <4>1. DOMAIN (<<>>) = {}
        OBVIOUS
      <4>2. QED
        BY <1>2, <2>5, <4>1 DEF At
    <3>2. a # "toClient"
      <4>1. \A k \in DOMAIN toClient' : toClient'[k] = BrokerPacket(pending[k])
        BY <1>4
      <4>2. \A m : BrokerPacket(m).type \in {"PUBLISH", "PUBREL"}
        BY DEF BrokerPacket, Packet
      <4>3. QED
        BY <2>5, <4>1, <4>2 DEF At, Answers
    <3>3. a = "todo" /\ j \in DOMAIN todo' /\ todo'[j].op = "write" /\ todo'[j].packet = p
      BY <2>5, <3>1, <3>2 DEF At
    <3>4. QED
      BY <2>3, <3>3 DEF PutFor
  <2>6. OneAtATime'
    <3> SUFFICES ASSUME NEW a, NEW b, NEW i, NEW j, NEW p, NEW q,
                        At(a, i, p)', At(b, j, q)', Same(p, q)
                 PROVE  a = b /\ i = j
      BY DEF OneAtATime, Same
    <3>1. a = "todo" /\ b = "todo"
      BY <2>5
    <3>2. PICK l \in DOMAIN outbound : i = 2 * l + 1 /\ p = ResentPacket(outbound[l])
      BY <2>5
    <3>3. PICK k \in DOMAIN outbound : j = 2 * k + 1 /\ q = ResentPacket(outbound[k])
      BY <2>5
    <3>4. outbound[l].id = outbound[k].id
      BY <2>4, <3>2, <3>3 DEF Same
    <3>5. l = k
      BY <3>4 DEF Session, Listed
    <3>6. QED
      BY <3>1, <3>2, <3>3, <3>5
  <2>7. AllMeant'
    <3> SUFFICES ASSUME NEW a, NEW j, NEW p, At(a, j, p)' PROVE Meant(a, p)'
      BY DEF AllMeant
    <3>1. a = "todo"
      BY <2>5
    <3>2. PICK l \in DOMAIN outbound : p = ResentPacket(outbound[l])
      BY <2>5
    <3>3. /\ p.id = outbound[l].id /\ p.id # 0
          /\ \/ p.type = "PUBREL" /\ outbound[l].next = "PUBCOMP"
             \/ /\ p.type = "PUBLISH" /\ outbound[l].next # "PUBCOMP"
                /\ p.n = outbound[l].n /\ p.qos = outbound[l].qos
      BY <2>4, <3>2
    <3>4. OfPlan(outbound[l]) /\ ~File(CommandKey(outbound[l].n))
      <4>1. ~Starts(outbound[l].n)
        BY <1>1, NothingToDo
      <4>2. QED
        BY <1>4, <4>1 DEF DInv, Ledger, AsPlanned, Unsent
    <3>5. p.type = "PUBLISH" => /\ p.qos = plan'.out[p.n] /\ p.n <= published'
                                /\ ~File(CommandKey(p.n))
      BY <1>1, <3>3, <3>4 DEF OfPlan
    <3>6. l \in DOMAIN outbound' /\ outbound'[l] = outbound[l]
      BY <2>1
    <3>7. Of(outbound[l], a, p)'
      <4>1. /\ outbound'[l].id = p.id
            /\ p.type = "PUBLISH" => outbound'[l].n = p.n /\ outbound'[l].qos = p.qos
                                     /\ outbound'[l].next # "PUBCOMP"
            /\ p.type = "PUBREL" => outbound'[l].next = "PUBCOMP"
            /\ p.type \notin Answers /\ p.type # "PUBCOMP"
        BY <3>3, <3>6 DEF Answers
      <4>2. QED
        BY <3>1, <4>1 DEF Of
    <3>8. QED
      BY <1>1, <3>1, <3>3, <3>5, <3>6, <3>7 DEF Meant, File
  <2>8. Connections'
    BY <1>1 DEF Connections
  <2>9. Shapes'
    <3>1. ASSUME NEW j \in DOMAIN todo'
          PROVE  todo'[j].op # "remove" /\ (todo'[j].op = "put" => todo'[j].key \in DOMAIN store.files)
      <4>1. ASSUME NEW l \in DOMAIN outbound, PutFor(todo'[j], outbound[l])
            PROVE  todo'[j].op = "put" /\ todo'[j].key \in DOMAIN store.files
        <5>1. /\ FileIs(SentKey(outbound[l].id), ContentOf(outbound[l]))
              /\ outbound[l].next = "PUBCOMP" => PubrelKey(outbound[l].id) \in DOMAIN store.files
          BY <1>1, AtRest
        <5>2. QED
          BY <4>1, <5>1 DEF PutFor, FileIs
      <4>2. QED
        BY <2>3, <4>1
    <3>2. Harmless'
      BY <1>1, <3>1 DEF Harmless, File
    <3>3. QED
      BY <3>2, HarmlessShapes, PTL
  <2>10. Ledger'
    BY <1>1, <1>4, <2>1, LedgerKept DEF DInv
  <2>11. QED
    BY <2>6, <2>7, <2>8, <2>9, <2>10 DEF DInv
<1>5. QED
  BY <1>1, <1>3, <1>4

-----------------------------------------------------------------------------
(* The process ends                                                         *)

\* an end that does not fall between the removal of a command and the put of its
\* message leaves everything that is not delivered in the files
LEMMA StillInFiles ==
  ASSUME Typed, Session, DInv, ~plan.clean, ~Starting,
         NEW n \in 1..published, plan.out[n] # 0, ~Delivered(n)
  PROVE  InFilesStill(n)
<1>1. CASE ~running
  BY <1>1 DEF DInv, Ledger, KeptUntilDelivered
<1>2. CASE running
  <2>1. InMemoryStill(n)
    BY <1>2 DEF DInv, Ledger, KeptUntilDelivered
  <2>2. ASSUME NEW i \in DOMAIN commands, commands[i].n = n
        PROVE  InFilesStill(n)
    <3>1. FileIs(CommandKey(n), commands[i])
      BY <2>2 DEF Session, Saved, CommandsSaved
    <3>2. CommandKey(n)[1] = "c-"
      BY DEF CommandKey
    <3>3. QED
      BY <2>2, <3>1, <3>2 DEF FileIs, InFilesStill
  <2>3. ASSUME NEW i \in DOMAIN outbound, outbound[i].n = n
        PROVE  InFilesStill(n)
    <3> DEFINE key == SentKey(outbound[i].id)
               c == ContentOf(outbound[i])
    <3>1. key[1] = "s-" /\ c.n = n
      BY <2>3 DEF SentKey, ContentOf
    <3>2. Kept(key, c)
      BY DEF Session, Saved, OutboundSaved
    <3>3. CASE File(key)
      <4>1. store.files[key] = c
        BY <3>3 DEF DInv, Ledger, FilesHalf
      <4>2. QED
        BY <3>1, <3>3, <4>1 DEF File, InFilesStill
    <3>4. CASE ~File(key)
      <4>1. HasPut(key, c)
        BY <3>2, <3>4 DEF Kept, FileIs, File
      <4>2. PICK j \in DOMAIN todo : todo[j].op = "put" /\ todo[j].key = key /\ todo[j].content = c
        BY <4>1 DEF HasPut
      <4> HIDE DEF key, c
      <4>3. NewPut(j, "s-")
        BY <3>1, <3>4, <4>2 DEF NewPut
      <4>4. /\ j \in {1, 2} /\ Len(todo) = j + 1 /\ todo[j + 1].op = "write"
            /\ j = 2 => Starts(todo[j].content.n) /\ File(CommandKey(todo[j].content.n))
        BY <4>3 DEF DInv, Shapes
      <4>5. CASE j = 2
        <5>1. File(CommandKey(n))
          BY <3>1, <4>2, <4>4, <4>5
        <5>2. CommandKey(n)[1] = "c-" /\ CommandKey(n)[2] = n
          BY DEF CommandKey
        <5>3. FileOK(CommandKey(n), store.files[CommandKey(n)])
          BY <5>1 DEF File, Typed, StoreTyped
        <5>4. store.files[CommandKey(n)].n = n
          BY <5>2, <5>3 DEF FileOK
        <5>5. QED
          BY <5>1, <5>2, <5>4 DEF File, InFilesStill
      <4>6. CASE j = 1
        <5>1. DOMAIN todo = {1, 2} /\ todo[1].op = "put" /\ todo[2].op = "write"
          <6>1. todo \in Seq(Effects)
            BY DEF Typed, EffectsTyped
          <6>2. QED
            BY <4>2, <4>4, <4>6, <6>1
        <5>2. \A k \in DOMAIN todo : todo[k].op # "remove"
          BY <5>1
        <5>3. ~PstContainsKey(store, todo[j].key) /\ todo[j].key[1] = "s-"
          BY <3>1, <3>4, <4>2 DEF PstContainsKey, File
        <5>4. Starting
          BY <4>2, <5>2, <5>3 DEF Starting
        <5>5. QED
          BY <5>4
      <4>7. QED
        BY <4>4, <4>5, <4>6
    <3>5. QED
      BY <3>3, <3>4
  <2>4. QED
    BY <2>1, <2>2, <2>3 DEF InMemoryStill
<1>3. QED
  BY <1>1, <1>2

LEMMA EndProcessDelivery ==
  ASSUME Typed, Session, DInv, EndProcess, store'.files = store.files, ~Starting
  PROVE  DInv'
<1>1. /\ Forgotten /\ todo' = <<>> /\ toBroker' = <<>> /\ toClient' = <<>>
      /\ ~running' /\ ~link' /\ held' = held /\ UNCHANGED <<plan, published, received>>
  BY DEF EndProcess, Broken, broker
<1>2. ~plan.clean => \A n \in 1..published : plan.out[n] # 0 /\ ~Delivered(n) => InFilesStill(n)
  BY StillInFiles
<1>3. QED
  BY <1>1, <1>2, ForgottenDelivery

LEMMA CrashDelivery ==
  ASSUME Typed, Session, DInv, Crash, "torn" \notin Faults, "starting" \notin Faults
  PROVE  DInv'
<1>1. store' = store /\ EndProcess
  BY CrashTyped
<1>2. ~Starting
  BY DEF Crash
<1>3. QED
  BY <1>1, <1>2, EndProcessDelivery

LEMMA DestroyDelivery ==
  ASSUME Typed, Session, DInv, Destroy
  PROVE  DInv'
<1>1. store'.files = store.files /\ EndProcess /\ todo = <<>>
  BY DestroyTyped DEF Idle
<1>2. DOMAIN (<<>>) = {}
  OBVIOUS
<1>3. ~Starting
  BY <1>1, <1>2 DEF Starting
<1>4. QED
  BY <1>1, <1>3, EndProcessDelivery

-----------------------------------------------------------------------------
(* The process is started again                                             *)

\* A client that has restored a session is not connected: nothing is on its way, and
\* what it restored is what the files held.
LEMMA RestartDelivery ==
  ASSUME Typed, Session, DInv, Restart
  PROVE  DInv'
<1>1. PICK keys \in PstKeys(store) :
       /\ commands' = RestoreCommands(store, keys)
       /\ store' = PstOpen(RestoredStore(store, keys))
       /\ outbound' = RestoredOutbound(store, keys)
  BY DEF Restart
<1>2. /\ ~running /\ running' /\ ~connected' /\ ~link' /\ ~link /\ todo' = <<>>
      /\ toBroker' = <<>> /\ toClient' = <<>>
      /\ UNCHANGED <<plan, held, published, received>>
  BY DEF Restart, Session, Resting, DInv, Connections, network, broker
<1>3. StoreTyped
  BY DEF Typed
<1>4. /\ DOMAIN store'.files \subseteq DOMAIN store.files
      /\ \A k \in DOMAIN store'.files : store'.files[k] = store.files[k]
      /\ \A k \in DOMAIN store.files :
           k \in DOMAIN store'.files \/ (k[1] = "sc-" /\ SentKey(k[2]) \notin DOMAIN store.files)
  BY <1>1, RestartStore
<1>5. /\ \A i \in DOMAIN commands' : FileIs(CommandKey(commands'[i].n), commands'[i])
      /\ \A k \in Files("c-") : \E i \in DOMAIN commands' : k[2] = commands'[i].n
  BY <1>1, <1>3, CommandsRestored DEF FileIs
<1>6. /\ outbound' \in Seq(OutMessages)
      /\ \A i \in DOMAIN outbound' :
           /\ FileIs(SentKey(outbound'[i].id), ContentOf(outbound'[i]))
           /\ outbound'[i].next = "PUBCOMP" <=>
                outbound'[i].qos = 2 /\ PubrelKey(outbound'[i].id) \in DOMAIN store.files
      /\ \A k \in Files("s-") : \E i \in DOMAIN outbound' : k[2] = outbound'[i].id
      /\ \A i, j \in DOMAIN outbound' : outbound'[i].id = outbound'[j].id => i = j
  BY <1>1, <1>3, OutboundRestored DEF FileIs
<1> DEFINE none == <<>>
<1>7. DOMAIN none = {}
  OBVIOUS
<1>8. todo' = none /\ toBroker' = none /\ toClient' = none
  BY <1>2
<1> HIDE DEF none
<1>9. OneAtATime' /\ AllMeant'
  <2>1. \A a, j, p : ~At(a, j, p)'
    BY <1>7, <1>8 DEF At
  <2>2. QED
    BY <2>1 DEF OneAtATime, AllMeant
<1>10. Connections'
  BY <1>2 DEF Connections
<1>11. Shapes'
  BY <1>7, <1>8 DEF Shapes, NewPut
\* what a file of a message says of what was restored from it
<1>12. ASSUME NEW i \in DOMAIN commands', NEW m, m = commands'[i]
       PROVE  File(CommandKey(m.n)) /\ store.files[CommandKey(m.n)] = m /\ CommandKey(m.n)[1] = "c-"
  BY <1>5, <1>12 DEF FileIs, File, CommandKey
<1>13. ASSUME NEW i \in DOMAIN outbound', NEW m, m = outbound'[i]
       PROVE  /\ File(SentKey(m.id)) /\ store.files[SentKey(m.id)] = ContentOf(m)
              /\ SentKey(m.id)[1] = "s-"
              /\ m.next = "PUBCOMP" <=> m.qos = 2 /\ File(PubrelKey(m.id))
              /\ m \in OutMessages
              /\ ContentOf(m).n = m.n /\ ContentOf(m).qos = m.qos
  <2>1. m \in OutMessages
    BY <1>6, <1>13
  <2>2. QED
    BY <1>6, <1>13, <2>1 DEF FileIs, File, SentKey, ContentOf
<1>14. AsPlanned'
  <2>1. \A k \in DOMAIN store.files : k[1] \in {"c-", "s-"} => OfPlan(store.files[k])
    BY DEF DInv, Ledger, AsPlanned
  <2>2. ASSUME NEW i \in DOMAIN commands', NEW m, m = commands'[i]
        PROVE  OfPlan(m)
    BY <1>12, <2>1, <2>2 DEF File
  <2>3. ASSUME NEW i \in DOMAIN outbound', NEW m, m = outbound'[i]
        PROVE  OfPlan(m)
    <3>1. OfPlan(ContentOf(m))
      BY <1>13, <2>1, <2>3 DEF File
    <3>2. QED
      BY <1>13, <2>3, <3>1 DEF OfPlan
  <2>4. \A i \in DOMAIN received : received[i] <= published
    BY DEF DInv, Ledger, AsPlanned
  <2>5. QED
    BY <1>2, <1>4, <2>1, <2>2, <2>3, <2>4 DEF AsPlanned, OfPlan
<1>15. \A k : k[1] # "sc-" => (File(k)' <=> File(k)) /\ (File(k) => store'.files[k] = store.files[k])
  BY <1>4 DEF File
<1>16. \A x, n : SentKey(x)[1] # "sc-" /\ CommandKey(n)[1] # "sc-"
  BY DEF SentKey, CommandKey
<1>17. Half'
  <2> SUFFICES ASSUME ~plan.clean PROVE HeldAsSent' /\ NumbersApart'
    BY <1>2 DEF Half
  <2>1. FilesHalf
    BY DEF DInv, Ledger
  <2>2. ASSUME NEW i \in DOMAIN outbound', NEW m, m = outbound'[i]
        PROVE  /\ m.next = "PUBREC" => (Delivered(m.n) <=> m.id \in held)
               /\ m.next = "PUBCOMP" => Delivered(m.n)
    <3>1. FileHalf(m.id)
      BY <2>1 DEF FilesHalf
    <3>2. m.next = "PUBREC" => m.qos = 2
      BY <1>13, <2>2 DEF OutMessages, AnswerTo
    <3>3. /\ File(PubrelKey(m.id)) => Delivered(m.n)
          /\ ~File(PubrelKey(m.id)) /\ m.qos = 2 => (Delivered(m.n) <=> m.id \in held)
      BY <1>13, <2>2, <3>1 DEF FileHalf
    <3>4. QED
      BY <1>13, <2>2, <3>2, <3>3
  <2>3. ASSUME NEW x \in held
        PROVE  \E i \in DOMAIN outbound' : outbound'[i].id = x /\ outbound'[i].qos = 2
    <3>1. File(SentKey(x)) /\ store.files[SentKey(x)].qos = 2
      BY <2>1 DEF FilesHalf
    <3>2. SentKey(x) \in Files("s-") /\ SentKey(x)[2] = x
      BY <3>1 DEF Files, File, SentKey
    <3>3. PICK i \in DOMAIN outbound' : SentKey(x)[2] = outbound'[i].id
      BY <1>6, <3>2
    <3>4. outbound'[i].qos = 2
      BY <1>13, <3>1, <3>2, <3>3
    <3>5. QED
      BY <3>2, <3>3, <3>4
  <2>4. HeldAsSent'
    BY <1>2, <2>2, <2>3 DEF HeldAsSent, Delivered
  <2>5. ASSUME NEW i \in DOMAIN outbound', NEW j \in DOMAIN outbound',
               outbound'[i].n = outbound'[j].n
        PROVE  i = j
    <3> DEFINE x == outbound'[i].id
               y == outbound'[j].id
    <3>1. File(SentKey(x)) /\ store.files[SentKey(x)].n = outbound'[i].n
      BY <1>13
    <3>2. File(SentKey(y)) /\ store.files[SentKey(y)].n = outbound'[j].n
      BY <1>13
    <3> HIDE DEF x, y
    <3>3. x = y
      BY <2>1, <2>5, <3>1, <3>2 DEF FilesHalf
    <3>4. QED
      BY <1>6, <3>3 DEF x, y
  <2>6. ASSUME NEW i \in DOMAIN commands', NEW j \in DOMAIN outbound'
        PROVE  commands'[i].n # outbound'[j].n
    <3> DEFINE n == commands'[i].n
               y == outbound'[j].id
    <3>1. File(CommandKey(n))
      BY <1>12
    <3>2. File(SentKey(y)) /\ store.files[SentKey(y)].n = outbound'[j].n
      BY <1>13
    <3> HIDE DEF n, y
    <3>3. store.files[SentKey(y)].n # n
      BY <3>1, <3>2 DEF DInv, Ledger, Unsent
    <3>4. QED
      BY <3>2, <3>3 DEF n
  <2>7. NumbersApart'
    BY <2>5, <2>6 DEF NumbersApart
  <2>8. QED
    BY <2>4, <2>7
<1>18. FilesHalf'
  <2> SUFFICES ASSUME ~plan.clean PROVE FilesHalf'
    BY <1>2 DEF FilesHalf
  <2>1. FilesHalf
    BY DEF DInv, Ledger
  <2>2. ASSUME NEW x PROVE FileHalf(x)'
    <3>1. FileHalf(x)
      BY <2>1 DEF FilesHalf
    <3>2. File(SentKey(x))' => /\ File(SentKey(x)) /\ store'.files[SentKey(x)] = store.files[SentKey(x)]
                               /\ File(PubrelKey(x))' <=> File(PubrelKey(x))
      <4>1. PubrelKey(x)[2] = x
        BY DEF PubrelKey
      <4>2. QED
        BY <1>4, <4>1 DEF File
    <3>3. QED
      BY <1>2, <3>1, <3>2 DEF FileHalf, Delivered
  <2>3. \A x \in held' : File(SentKey(x))' /\ store'.files[SentKey(x)].qos = 2
    BY <1>2, <1>15, <1>16, <2>1 DEF FilesHalf
  <2>4. \A x, y : File(SentKey(x))' /\ File(SentKey(y))'
                  /\ store'.files[SentKey(x)].n = store'.files[SentKey(y)].n => x = y
    BY <1>15, <1>16, <2>1 DEF FilesHalf
  <2>5. ASSUME NEW i \in DOMAIN outbound', NEW m, m = outbound'[i], File(SentKey(m.id))'
        PROVE  store'.files[SentKey(m.id)] = ContentOf(m)
    BY <1>13, <1>15, <1>16, <2>5
  <2>6. \A i \in DOMAIN outbound' : File(SentKey(outbound[i].id))' =>
          (store.files[SentKey(outbound[i].id)] = ContentOf(outbound[i]))'
    BY <2>5
  <2>7. QED
    BY <2>2, <2>3, <2>4, <2>6 DEF FilesHalf
<1>19. Unsent'
  <2> SUFFICES ASSUME NEW n, File(CommandKey(n))'
               PROVE  /\ ~Delivered(n)
                      /\ ~plan.clean => /\ \A x : File(SentKey(x))' => store'.files[SentKey(x)].n # n
                                        /\ \A i \in DOMAIN outbound' : outbound'[i].n # n
    BY <1>2 DEF Unsent, Delivered
  <2>1. File(CommandKey(n))
    BY <1>15, <1>16
  <2>2. ~Delivered(n) /\ (~plan.clean => \A x : File(SentKey(x)) => store.files[SentKey(x)].n # n)
    BY <2>1 DEF DInv, Ledger, Unsent
  <2>3. ASSUME ~plan.clean, NEW i \in DOMAIN outbound', NEW m, m = outbound'[i] PROVE m.n # n
    <3>1. store.files[SentKey(m.id)].n = m.n /\ File(SentKey(m.id))
      BY <1>13, <2>3
    <3>2. QED
      BY <2>2, <2>3, <3>1
  <2>4. QED
    BY <1>15, <1>16, <2>2, <2>3
<1>20. KeptUntilDelivered'
  <2> SUFFICES ASSUME ~plan.clean, NEW n \in 1..published, plan.out[n] # 0, ~Delivered(n)
               PROVE  \/ \E i \in DOMAIN commands' : commands'[i].n = n
                      \/ \E i \in DOMAIN outbound' : outbound'[i].n = n
    BY <1>2 DEF KeptUntilDelivered, InMemoryStill, Delivered
  <2>1. PICK k \in DOMAIN store.files : k[1] \in {"c-", "s-"} /\ store.files[k].n = n
    BY <1>2 DEF DInv, Ledger, KeptUntilDelivered, InFilesStill
  <2>2. k \in Keys /\ FileOK(k, store.files[k])
    BY DEF Typed, StoreTyped
  <2>3. CASE k[1] = "c-"
    <3>1. PICK i \in DOMAIN commands' : k[2] = commands'[i].n
      BY <1>5, <2>3 DEF Files
    <3>2. k[2] = n
      BY <2>1, <2>2, <2>3 DEF FileOK
    <3>3. QED
      BY <3>1, <3>2
  <2>4. CASE k[1] = "s-"
    <3>1. PICK i \in DOMAIN outbound' : k[2] = outbound'[i].id
      BY <1>6, <2>4 DEF Files
    <3>2. k = SentKey(outbound'[i].id)
      BY <2>2, <2>4, <3>1, StemsOf DEF SentKey
    <3>3. outbound'[i].n = n
      BY <1>13, <2>1, <3>2
    <3>4. QED
      BY <3>3
  <2>5. QED
    BY <2>1, <2>3, <2>4
<1>21. QED
  BY <1>9, <1>10, <1>11, <1>14, <1>17, <1>18, <1>19, <1>20 DEF DInv, Ledger

-----------------------------------------------------------------------------
(* The inductive invariant                                                  *)

\* The retry interval is 0, as MQTTAsync_connectOptions_initializer leaves it and the
\* binding too: messages are sent again when the client connects.  A process does not
\* end between the removal of a command and the put of its message.
OnlyOnReconnect == OwnIdsWholeFiles /\ "starting" \notin Faults /\ MaxRetries = 0

FaultsCounted == faults \in [{"crash", "drop", "refusal", "retry"} -> Nat]
DeliveryInv == IInv /\ DInv /\ FaultsCounted

LEMMA InitDelivery ==
  ASSUME Init
  PROVE  DInv
<1> DEFINE none == <<>>
<1>1. DOMAIN none = {}
  OBVIOUS
<1>2. /\ todo = none /\ toBroker = none /\ toClient = none /\ commands = none /\ outbound = none
      /\ received = none /\ published = 0 /\ held = {} /\ DOMAIN store.files = DOMAIN none
      /\ ~link /\ ~connected
  BY DEF Init, Directory, NoFiles
<1>3. toBroker = <<>> /\ toClient = <<>> /\ todo = <<>>
  BY <1>2
<1> HIDE DEF none
<1>4. \A a, j, p : ~At(a, j, p)
  BY <1>1, <1>2 DEF At
<1>5. OneAtATime /\ AllMeant
  BY <1>4 DEF OneAtATime, AllMeant
<1>6. Connections /\ Shapes
  BY <1>1, <1>2, <1>3 DEF Connections, Shapes, NewPut
<1>7. AsPlanned /\ Half
  BY <1>1, <1>2 DEF AsPlanned, Half, HeldAsSent, NumbersApart
<1>8. FilesHalf /\ Unsent
  BY <1>1, <1>2 DEF FilesHalf, FileHalf, Unsent, File
<1>9. KeptUntilDelivered
  <2>1. 1..published = {}
    BY <1>2
  <2>2. QED
    BY <2>1 DEF KeptUntilDelivered
<1>10. QED
  BY <1>5, <1>6, <1>7, <1>8, <1>9 DEF DInv, Ledger

LEMMA StutterDelivery ==
  ASSUME DInv, UNCHANGED vars
  PROVE  DInv'
<1>1. UNCHANGED <<plan, running, connected, commands, outbound, todo, store, link, toBroker,
                  toClient, published, received, held>>
  BY DEF vars, memory, network, broker
<1>2. OneAtATime'
  BY <1>1 DEF DInv, OneAtATime, At
<1>3. AllMeant'
  BY <1>1 DEF DInv, AllMeant, At, Meant, Of, Delivered, File, Starts
<1>4. Connections' /\ Shapes'
  BY <1>1 DEF DInv, Connections, Shapes, NewPut, Starts, File
<1>5. Ledger'
  BY <1>1, LedgerStays DEF DInv, books, Starts
<1>6. QED
  BY <1>2, <1>3, <1>4, <1>5 DEF DInv

LEMMA FaultsCountedHolds ==
  ASSUME FaultsCounted, [Next]_vars
  PROVE  FaultsCounted'
<1>1. \A f \in {"crash", "drop", "refusal", "retry"} : Count(f) => FaultsCounted'
  BY DEF Count, FaultsCounted
<1>2. faults' = faults => FaultsCounted'
  BY DEF FaultsCounted
<1>3. (\E f \in {"crash", "drop", "refusal", "retry"} : Count(f)) \/ faults' = faults
  <2>1. CASE DoEffect
    BY <2>1 DEF DoEffect, Put, RemoveKey, Write, Deliver, TryMessageQueue, AppTakes, AppRefuses
  <2>2. CASE ReceivePacket \/ HandlePingresp
    BY <2>2 DEF ReceivePacket, HandlePublish, HandlePubrel, HandlePuback, HandlePubrec, HandlePubcomp,
                HandleAck, Read, HandlePingresp
  <2>3. CASE BrokerReceive \/ BrokerSend
    BY <2>3 DEF BrokerReceive, BrokerPublish, BrokerPubrel, BrokerAck, BrokerAnswers, BrokerSend
  <2>4. CASE Publish \/ ProcessCommand \/ Retry \/ NoticeLost \/ Connect
    BY <2>4 DEF Publish, ProcessCommand, Retry, NoticeLost, Connect
  <2>5. CASE Drop \/ Crash \/ Destroy \/ Restart
    BY <2>5 DEF Drop, Crash, Destroy, EndProcess, Restart
  <2>6. CASE UNCHANGED vars
    BY <2>6 DEF vars
  <2>7. QED
    BY <2>1, <2>2, <2>3, <2>4, <2>5, <2>6 DEF Next
<1>4. QED
  BY <1>1, <1>2, <1>3

\* without a retry interval no message is sent again while the connection is up
LEMMA NoRetry ==
  ASSUME OnlyOnReconnect, FaultsCounted
  PROVE  ~Retry
<1>1. faults["retry"] \in Nat /\ MaxRetries = 0
  BY DEF FaultsCounted, OnlyOnReconnect
<1>2. ~MayFault("retry", MaxRetries)
  BY <1>1 DEF MayFault
<1>3. QED
  BY <1>2 DEF Retry

LEMMA NextDelivery ==
  ASSUME OnlyOnReconnect, IInv, IInv', DInv, FaultsCounted, [Next]_vars
  PROVE  DInv'
<1>1. Typed /\ Typed' /\ Session /\ "torn" \notin Faults /\ "starting" \notin Faults
  BY DEF IInv, OnlyOnReconnect, OwnIdsWholeFiles
<1>2. CASE Publish
  BY <1>1, <1>2, PublishDelivery
<1>3. CASE ProcessCommand
  BY <1>1, <1>3, ProcessCommandDelivery
<1>4. CASE DoEffect
  BY <1>1, <1>4, PutDelivery, RemoveKeyDelivery, WriteDelivery, DeliverDelivery,
     TryMessageQueueDelivery DEF DoEffect
<1>5. CASE ReceivePacket
  <2>1. CASE HandlePuback
    <3>1. HandleAck("PUBACK")
      BY <2>1 DEF HandlePuback
    <3>2. QED
      BY <1>1, <3>1, HandleAckDelivery
  <2>2. CASE HandlePubcomp
    <3>1. HandleAck("PUBCOMP")
      BY <2>2 DEF HandlePubcomp
    <3>2. QED
      BY <1>1, <3>1, HandleAckDelivery
  <2>3. QED
    BY <1>1, <1>5, <2>1, <2>2, HandlePublishDelivery, HandlePubrelDelivery, HandlePubrecDelivery
    DEF ReceivePacket
<1>6. CASE HandlePingresp
  BY <1>1, <1>6, HandlePingrespDelivery
<1>7. ~Retry
  BY NoRetry
<1>8. CASE NoticeLost
  BY <1>1, <1>8, NoticeLostDelivery
<1>9. CASE Connect
  BY <1>1, <1>9, ConnectDelivery
<1>10. CASE Drop
  BY <1>1, <1>10, DropDelivery
<1>11. CASE Crash
  BY <1>1, <1>11, CrashDelivery
<1>12. CASE Destroy
  BY <1>1, <1>12, DestroyDelivery
<1>13. CASE Restart
  BY <1>1, <1>13, RestartDelivery
<1>14. CASE BrokerReceive
  BY <1>1, <1>14, BrokerPublishDelivery, BrokerPubrelDelivery, BrokerAckDelivery DEF BrokerReceive
<1>15. CASE BrokerSend
  BY <1>1, <1>15, BrokerSendDelivery
<1>16. CASE UNCHANGED vars
  BY <1>16, StutterDelivery
<1>17. QED
  BY <1>2, <1>3, <1>4, <1>5, <1>6, <1>7, <1>8, <1>9, <1>10, <1>11, <1>12, <1>13, <1>14, <1>15,
     <1>16 DEF Next

LEMMA DeliveryHolds == OnlyOnReconnect => (Spec => []DeliveryInv)
<1> SUFFICES ASSUME OnlyOnReconnect PROVE Spec => []DeliveryInv
  OBVIOUS
<1>1. Init => DeliveryInv
  <2>1. Init => FaultsCounted
    BY DEF Init, FaultsCounted
  <2>2. QED
    BY <2>1, InitIInv, InitDelivery DEF DeliveryInv
<1>2. DeliveryInv /\ [Next]_vars => DeliveryInv'
  <2> SUFFICES ASSUME DeliveryInv, [Next]_vars PROVE DeliveryInv'
    OBVIOUS
  <2>1. IInv /\ DInv /\ FaultsCounted /\ OwnIdsWholeFiles
    BY DEF DeliveryInv, OnlyOnReconnect
  <2>2. IInv'
    BY <2>1, NextIInv
  <2>3. QED
    BY <2>1, <2>2, NextDelivery, FaultsCountedHolds DEF DeliveryInv
<1>3. QED
  BY <1>1, <1>2, PTL DEF Spec

-----------------------------------------------------------------------------
(* What a token says                                                        *)

LEMMA ReceivedContains ==
  ASSUME Typed, NEW n
  PROVE  Contains(received, n) <=> Delivered(n)
BY DEF Contains, Delivered, Typed, NetworkTyped

LEMMA TokensKept ==
  ASSUME IInv, DInv
  PROVE  CompleteIsDelivered
<1> SUFFICES ASSUME Idle, ~plan.clean, NEW n \in 1..published, plan.out[n] > 0,
                    ~Contains(received, n)
             PROVE  \E m \in ToSet(commands) \cup ToSet(outbound) :
                      m.n = n /\ ~MQTTAsync_isComplete(m.id)
  BY DEF CompleteIsDelivered
<1>1. Typed /\ running /\ KeptUntilDelivered
  BY DEF IInv, DInv, Ledger, Idle
<1>2. ~Delivered(n)
  BY <1>1, ReceivedContains
<1>3. plan.out[n] # 0
  OBVIOUS
<1>4. InMemoryStill(n)
  BY <1>1, <1>2, <1>3 DEF KeptUntilDelivered
<1>5. PICK m \in ToSet(commands) \cup ToSet(outbound) : m.n = n
  BY <1>4 DEF InMemoryStill, ToSet
<1>6. m.id \in PendingTokens
  BY <1>5 DEF PendingTokens
<1>7. QED
  BY <1>5, <1>6 DEF MQTTAsync_isComplete

\* A message of QoS 1 or 2 that the broker has not passed on has a token, and
\* MQTTAsync_isComplete does not call it complete, also in a process that was started
\* again: the lists of commands and of outbound messages together hold it until then
\* (MQTTAsync_getPendingTokens, MQTTAsync_restoreCommands, MQTTPersistence_restore).
THEOREM CompleteIsDeliveredCorrect == OnlyOnReconnect => (Spec => []CompleteIsDelivered)
<1> SUFFICES ASSUME OnlyOnReconnect PROVE Spec => []CompleteIsDelivered
  OBVIOUS
<1>1. DeliveryInv => CompleteIsDelivered
  BY TokensKept DEF DeliveryInv
<1>2. QED
  BY <1>1, DeliveryHolds, PTL

-----------------------------------------------------------------------------
(* The promise to the application                                           *)

\* the message is somewhere at the client
Somewhere(n) == InMemoryStill(n) \/ InFilesStill(n)

LEMMA SomewhereIsHeld == \A n : OutHeld(n) <=> Somewhere(n)
<1> SUFFICES ASSUME NEW n PROVE OutHeld(n) <=> Somewhere(n)
  OBVIOUS
<1>1. InList(commands, n) <=> \E i \in DOMAIN commands : commands[i].n = n
  BY DEF InList, ToSet
<1>2. InList(outbound, n) <=> \E i \in DOMAIN outbound : outbound[i].n = n
  BY DEF InList, ToSet
<1>3. InFiles({"c-", "s-"}, n) <=> InFilesStill(n)
  BY DEF InFiles, InFilesStill, PstGet
<1>4. QED
  BY <1>1, <1>2, <1>3 DEF OutHeld, Somewhere, InMemoryStill

\* what the new memory and the new files hold was held before
LEMMA HeldBefore ==
  ASSUME \A i \in DOMAIN commands' : Somewhere(commands'[i].n),
         \A i \in DOMAIN outbound' : Somewhere(outbound'[i].n),
         \A k \in DOMAIN store'.files : k[1] \in {"c-", "s-"} =>
           \/ \E l \in DOMAIN store.files : l[1] = k[1] /\ store.files[l].n = store'.files[k].n
           \/ Somewhere(store'.files[k].n),
         NEW n, Somewhere(n)'
  PROVE  Somewhere(n)
<1>1. CASE \E i \in DOMAIN commands' : commands'[i].n = n
  BY <1>1
<1>2. CASE \E i \in DOMAIN outbound' : outbound'[i].n = n
  BY <1>2
<1>3. CASE \E k \in DOMAIN store'.files : k[1] \in {"c-", "s-"} /\ store'.files[k].n = n
  <2>1. PICK k \in DOMAIN store'.files : k[1] \in {"c-", "s-"} /\ store'.files[k].n = n
    BY <1>3
  <2>2. CASE Somewhere(store'.files[k].n)
    BY <2>1, <2>2
  <2>3. CASE \E l \in DOMAIN store.files : l[1] = k[1] /\ store.files[l].n = store'.files[k].n
    BY <2>1, <2>3 DEF Somewhere, InFilesStill
  <2>4. QED
    BY <2>1, <2>2, <2>3
<1>4. QED
  BY <1>1, <1>2, <1>3 DEF Somewhere, InMemoryStill, InFilesStill

LEMMA ListedSomewhere ==
  /\ \A i \in DOMAIN commands : Somewhere(commands[i].n)
  /\ \A i \in DOMAIN outbound : Somewhere(outbound[i].n)
  /\ \A k \in DOMAIN store.files : k[1] \in {"c-", "s-"} => Somewhere(store.files[k].n)
BY DEF Somewhere, InMemoryStill, InFilesStill

\* No step but MQTTAsync_send makes the client hold a message that it did not hold
NothingNew == \A n : Somewhere(n)' => Somewhere(n)

LEMMA ProcessCommandNothingNew ==
  ASSUME Typed, ProcessCommand
  PROVE  NothingNew
<1>1. commands \in Seq(CommandContents) /\ outbound \in Seq(OutMessages)
  BY DEF Typed, ClientTyped
<1>2. commands # <<>> /\ commands' = Tail(commands) /\ store' = store
  BY DEF ProcessCommand
<1>3. /\ Head(commands) = commands[1] /\ 1 \in DOMAIN commands
      /\ \A j \in DOMAIN commands' : j + 1 \in DOMAIN commands /\ commands'[j] = commands[j + 1]
  BY <1>1, <1>2, Heads
<1>4. ASSUME NEW i \in DOMAIN outbound' PROVE Somewhere(outbound'[i].n)
  <2> DEFINE m == Outbound(Head(commands), AnswerTo(Head(commands).qos))
  <2>1. m.n = commands[1].n
    BY <1>3 DEF Outbound
  <2>2. outbound' = outbound \/ outbound' = Append(outbound, m)
    BY DEF ProcessCommand
  <2> HIDE DEF m
  <2>3. (i \in DOMAIN outbound /\ outbound'[i] = outbound[i]) \/ outbound'[i] = m
    BY <1>1, <2>2
  <2>4. QED
    BY <1>3, <2>1, <2>3, ListedSomewhere
<1>5. ASSUME NEW i \in DOMAIN commands' PROVE Somewhere(commands'[i].n)
  BY <1>3, ListedSomewhere
<1>6. \A k \in DOMAIN store'.files : k[1] \in {"c-", "s-"} => Somewhere(store'.files[k].n)
  BY <1>2, ListedSomewhere
<1>7. QED
  BY <1>4, <1>5, <1>6, HeldBefore DEF NothingNew

LEMMA PutNothingNew ==
  ASSUME Typed, Session, Put
  PROVE  NothingNew
<1>1. todo # <<>> /\ Head(todo).op = "put" /\ UNCHANGED <<commands, outbound>>
      /\ store' = PstPut(store, Head(todo).key, Head(todo).content)
  BY DEF Put, Effect, memory
<1>2. Head(todo) = todo[1] /\ 1 \in DOMAIN todo
  BY <1>1, Heads DEF Typed, EffectsTyped
<1> DEFINE key == todo[1].key
           c == todo[1].content
<1>3. PutKnown(1)
  BY <1>1, <1>2 DEF Session, PutsKnown
<1>4. key[1] \in {"c-", "s-"} => \E i \in DOMAIN outbound : c = ContentOf(outbound[i])
  BY <1>3 DEF PutKnown
<1>5. store' = PstPut(store, key, c) /\ IsDirectory(store)
  BY <1>1, <1>2 DEF Typed, StoreTyped
<1> HIDE DEF key, c
<1>6. /\ DOMAIN store'.files = DOMAIN store.files \cup {key}
      /\ store'.files[key] = c
      /\ \A k \in DOMAIN store.files : k # key => store'.files[k] = store.files[k]
  BY <1>5, FilesAfterPut
<1>7. key[1] \in {"c-", "s-"} => Somewhere(c.n)
  BY <1>4, ListedSomewhere DEF ContentOf
<1>8. ASSUME NEW k \in DOMAIN store'.files, k[1] \in {"c-", "s-"} PROVE Somewhere(store'.files[k].n)
  <2>1. CASE k = key
    BY <1>6, <1>7, <1>8, <2>1
  <2>2. CASE k # key
    <3>1. k \in DOMAIN store.files /\ store'.files[k] = store.files[k]
      BY <1>6, <1>8, <2>2
    <3>2. QED
      BY <1>8, <3>1, ListedSomewhere
  <2>3. QED
    BY <2>1, <2>2
<1>9. /\ \A i \in DOMAIN commands' : Somewhere(commands'[i].n)
      /\ \A i \in DOMAIN outbound' : Somewhere(outbound'[i].n)
  BY <1>1, ListedSomewhere
<1>10. QED
  BY <1>8, <1>9, HeldBefore DEF NothingNew

LEMMA RemoveKeyNothingNew ==
  ASSUME Typed, RemoveKey
  PROVE  NothingNew
<1>1. UNCHANGED <<commands, outbound>> /\ store' = PstRemove(store, Head(todo).key)
  BY DEF RemoveKey, memory
<1>2. \A k \in DOMAIN store'.files : k \in DOMAIN store.files /\ store'.files[k] = store.files[k]
  BY <1>1, FilesAfterRemove DEF Typed, StoreTyped
<1>3. QED
  BY <1>1, <1>2, ListedSomewhere, HeldBefore DEF NothingNew

LEMMA AckNothingNew ==
  ASSUME Typed, Session, NEW type, HandleAck(type)
  PROVE  NothingNew
<1>1. UNCHANGED <<commands, store>>
  BY DEF HandleAck, Read
<1> DEFINE i == Found(outbound, Head(toClient).id)
<1>2. outbound' = outbound \/ (i # 0 /\ outbound' = RemoveAt(outbound, i))
  BY DEF HandleAck
<1>3. outbound \in Seq(OutMessages)
  BY DEF Typed, ClientTyped
<1>4. i \in 0..Len(outbound)
  BY <1>3, FoundProperties
<1> HIDE DEF i
<1>5. ASSUME NEW k \in DOMAIN outbound' PROVE \E l \in DOMAIN outbound : outbound'[k] = outbound[l]
  <2>1. CASE outbound' = outbound
    BY <2>1
  <2>2. CASE i # 0 /\ outbound' = RemoveAt(outbound, i)
    <3>1. i \in 1..Len(outbound)
      BY <1>4, <2>2
    <3>2. /\ Len(outbound') = Len(outbound) - 1 /\ outbound' \in Seq(OutMessages)
          /\ \A j \in 1..(Len(outbound) - 1) :
               outbound'[j] = IF j < i THEN outbound[j] ELSE outbound[j + 1]
      BY <1>3, <2>2, <3>1, RemoveAtProperties
    <3>3. k \in 1..(Len(outbound) - 1) /\ Len(outbound) \in Nat
      BY <1>3, <3>2
    <3>4. k \in DOMAIN outbound /\ k + 1 \in DOMAIN outbound
      BY <1>3, <3>3
    <3>5. QED
      BY <3>2, <3>3, <3>4
  <2>3. QED
    BY <1>2, <2>1, <2>2
<1>6. \A k \in DOMAIN outbound' : Somewhere(outbound'[k].n)
  BY <1>5, ListedSomewhere
<1>7. QED
  BY <1>1, <1>6, ListedSomewhere, HeldBefore DEF NothingNew

LEMMA PubrecNothingNew ==
  ASSUME Typed, HandlePubrec
  PROVE  NothingNew
<1>1. UNCHANGED <<commands, store>>
  BY DEF HandlePubrec, Read
<1> DEFINE i == Found(outbound, Head(toClient).id)
<1>2. outbound' = outbound \/ outbound' = [outbound EXCEPT ![i].next = "PUBCOMP"]
  BY DEF HandlePubrec
<1>3. \A k \in DOMAIN outbound : outbound[k] \in OutMessages
  BY DEF Typed, ClientTyped
<1> HIDE DEF i
<1>4. ASSUME NEW k \in DOMAIN outbound' PROVE k \in DOMAIN outbound /\ outbound'[k].n = outbound[k].n
  <2>1. CASE outbound' = outbound
    BY <2>1
  <2>2. CASE outbound' = [outbound EXCEPT ![i].next = "PUBCOMP"]
    <3>1. k \in DOMAIN outbound
      BY <2>2
    <3>2. outbound'[k] = outbound[k] \/ outbound'[k] = [outbound[k] EXCEPT !.next = "PUBCOMP"]
      BY <2>2, <3>1
    <3>3. [outbound[k] EXCEPT !.next = "PUBCOMP"].n = outbound[k].n
      BY <1>3, <3>1 DEF OutMessages
    <3>4. QED
      BY <3>1, <3>2, <3>3
  <2>3. QED
    BY <1>2, <2>1, <2>2
<1>5. \A k \in DOMAIN outbound' : Somewhere(outbound'[k].n)
  BY <1>4, ListedSomewhere
<1>6. QED
  BY <1>1, <1>5, ListedSomewhere, HeldBefore DEF NothingNew

LEMMA ForgottenNothingNew ==
  ASSUME Forgotten, store'.files = store.files
  PROVE  NothingNew
<1> DEFINE none == <<>>
<1>1. DOMAIN none = {}
  OBVIOUS
<1>2. commands' = none /\ outbound' = none
  BY DEF Forgotten
<1> HIDE DEF none
<1>3. QED
  BY <1>1, <1>2, ListedSomewhere, HeldBefore DEF NothingNew

LEMMA RestartNothingNew ==
  ASSUME Typed, Restart
  PROVE  NothingNew
<1>1. PICK keys \in PstKeys(store) :
       /\ commands' = RestoreCommands(store, keys)
       /\ store' = PstOpen(RestoredStore(store, keys))
       /\ outbound' = RestoredOutbound(store, keys)
  BY DEF Restart
<1>2. StoreTyped
  BY DEF Typed
<1>3. /\ DOMAIN store'.files \subseteq DOMAIN store.files
      /\ \A k \in DOMAIN store'.files : store'.files[k] = store.files[k]
  BY <1>1, RestartStore
<1>4. \A i \in DOMAIN commands' : FileIs(CommandKey(commands'[i].n), commands'[i])
  BY <1>1, <1>2, CommandsRestored DEF FileIs
<1>5. \A i \in DOMAIN outbound' : FileIs(SentKey(outbound'[i].id), ContentOf(outbound'[i]))
  BY <1>1, <1>2, OutboundRestored DEF FileIs
<1>6. ASSUME NEW i \in DOMAIN commands', NEW m, m = commands'[i] PROVE Somewhere(m.n)
  <2>1. FileIs(CommandKey(m.n), m) /\ CommandKey(m.n)[1] = "c-"
    BY <1>4, <1>6 DEF CommandKey
  <2>2. QED
    BY <2>1, ListedSomewhere DEF FileIs
<1>7. ASSUME NEW i \in DOMAIN outbound', NEW m, m = outbound'[i] PROVE Somewhere(m.n)
  <2>1. FileIs(SentKey(m.id), ContentOf(m)) /\ SentKey(m.id)[1] = "s-" /\ ContentOf(m).n = m.n
    BY <1>5, <1>7 DEF SentKey, ContentOf
  <2>2. QED
    BY <2>1, ListedSomewhere DEF FileIs
<1>8. \A i \in DOMAIN commands' : Somewhere(commands'[i].n)
  BY <1>6
<1>9. \A i \in DOMAIN outbound' : Somewhere(outbound'[i].n)
  BY <1>7
<1>10. QED
  BY <1>3, <1>8, <1>9, ListedSomewhere, HeldBefore DEF NothingNew

LEMMA UntouchedNothingNew ==
  ASSUME UNCHANGED <<commands, outbound, store>>
  PROVE  NothingNew /\ \A n : Somewhere(n) => Somewhere(n)'
BY DEF NothingNew, Somewhere, InMemoryStill, InFilesStill

-----------------------------------------------------------------------------
(* The promise to the application: step by step                             *)

\* the messages that the client no longer holds
Gone == {n \in 1..published : ~OutHeld(n)}

LEMMA OutgoingForgotten ==
  ASSUME IInv, DInv, IInv', DInv', NothingNew, UNCHANGED <<plan, published, received>>
  PROVE  Outgoing!Next
<1>0. (\A n : OutHeld(n) <=> Somewhere(n))'
  BY SomewhereIsHeld, PTL
<1>1. Gone \subseteq Gone'
  <2>1. \A n : OutHeld(n)' => OutHeld(n)
    BY <1>0, SomewhereIsHeld DEF NothingNew
  <2>2. QED
    BY <2>1 DEF Gone
<1>2. ASSUME NEW n \in Gone' PROVE plan.out[n] = 0 \/ plan.clean \/ Contains(received, n)
  <2>1. n \in 1..published /\ ~OutHeld(n)'
    BY <1>2 DEF Gone
  <2>2. ~InMemoryStill(n)' /\ ~InFilesStill(n)'
    BY <1>0, <2>1 DEF Somewhere
  <2>3. plan.clean \/ plan.out[n] = 0 \/ Delivered(n)
    BY <2>1, <2>2 DEF DInv, Ledger, KeptUntilDelivered, Delivered
  <2>4. QED
    BY <2>3, ReceivedContains DEF IInv
<1>3. Gone' \subseteq 1..published
  BY DEF Gone
<1> DEFINE S == Gone' \ Gone
<1>4. S \in SUBSET ((1..published) \ Gone) /\ Gone' = Gone \cup S
  BY <1>1, <1>3
<1>5. \A n \in S : plan.out[n] = 0 \/ plan.clean \/ Contains(received, n)
  BY <1>2
<1> HIDE DEF S
<1>6. Outgoing!Forget(S)
  BY <1>4, <1>5 DEF Outgoing!Forget, Outgoing!Delivered, Outgoing!Contains, Contains, Gone
<1>7. QED
  BY <1>4, <1>6 DEF Outgoing!Next, Gone

LEMMA OutgoingUnchanged ==
  ASSUME UNCHANGED <<plan, published, received, commands, outbound, store>>
  PROVE  UNCHANGED Outgoing!vars
<1>1. (\A n : OutHeld(n) <=> Somewhere(n))'
  BY SomewhereIsHeld, PTL
<1>2. \A n : OutHeld(n)' <=> OutHeld(n)
  BY <1>1, SomewhereIsHeld, UntouchedNothingNew DEF NothingNew
<1>3. Gone' = Gone
  BY <1>2 DEF Gone
<1>4. QED
  BY <1>3 DEF Outgoing!vars, Gone

LEMMA OutgoingAccept ==
  ASSUME Typed, Publish
  PROVE  Outgoing!Accept
<1> DEFINE x == published + 1
<1>1. PICK m : /\ m.n = x /\ commands' = Append(commands, m)
               /\ store' = PstPut(store, CommandKey(x), m)
  <2> DEFINE id == IF plan.out[x] = 0 THEN 0 ELSE AssignMsgId
             m == [id |-> id, n |-> x, qos |-> plan.out[x]]
  <2>1. commands' = Append(commands, m) /\ store' = PstPut(store, CommandKey(x), m)
    BY DEF Publish
  <2>2. m.n = x
    OBVIOUS
  <2> HIDE DEF m
  <2>3. QED
    BY <2>1, <2>2
<1>2. /\ published' = x /\ x \in Out /\ UNCHANGED <<plan, outbound, received>>
  BY DEF Publish, broker
<1>3. published \in Nat /\ Len(plan.out) \in Nat /\ published < Len(plan.out)
  <2>1. Len(plan.out) \in Nat /\ published \in 0..Len(plan.out)
    BY PlanTypes DEF Typed, ClientTyped
  <2>2. QED
    BY <1>2, <2>1 DEF Out
<1> DEFINE key == CommandKey(x)
<1>4. key \notin DOMAIN store.files
  <2>1. SUFFICES ASSUME key \in DOMAIN store.files PROVE FALSE
    OBVIOUS
  <2>2. FileOK(key, store.files[key]) /\ key[1] = "c-" /\ key[2] = x
    BY <2>1 DEF Typed, StoreTyped, CommandKey
  <2>3. store.files[key].n = x /\ store.files[key].n <= published
    BY <2>2 DEF FileOK
  <2>4. QED
    BY <1>3, <2>3
<1>5. key[1] = "c-"
  BY DEF CommandKey
<1>6. commands \in Seq(CommandContents) /\ IsDirectory(store)
  BY DEF Typed, ClientTyped, StoreTyped
<1>7. /\ \A i \in DOMAIN commands : i \in DOMAIN commands' /\ commands'[i] = commands[i]
      /\ \A i \in DOMAIN commands' : (i \in DOMAIN commands /\ commands'[i] = commands[i]) \/ commands'[i] = m
      /\ Len(commands) + 1 \in DOMAIN commands' /\ commands'[Len(commands) + 1] = m
  BY <1>1, <1>6
<1> HIDE DEF x, key
<1>8. /\ DOMAIN store'.files = DOMAIN store.files \cup {key}
      /\ store'.files[key] = m
      /\ \A k \in DOMAIN store.files : k # key => store'.files[k] = store.files[k]
  BY <1>1, <1>6, FilesAfterPut DEF key
<1>9. ASSUME NEW n PROVE Somewhere(n)' <=> Somewhere(n) \/ n = x
  <2>1. InMemoryStill(n)' <=> InMemoryStill(n) \/ n = x
    BY <1>1, <1>2, <1>7 DEF InMemoryStill
  <2>2. InFilesStill(n)' => InFilesStill(n) \/ n = x
    BY <1>1, <1>8 DEF InFilesStill
  <2>3. InFilesStill(n) => InFilesStill(n)'
    BY <1>4, <1>8 DEF InFilesStill
  <2>4. QED
    BY <2>1, <2>2, <2>3 DEF Somewhere
<1>10. Gone' = Gone
  <2>1. (\A n : OutHeld(n) <=> Somewhere(n))'
    BY SomewhereIsHeld, PTL
  <2>2. \A n : OutHeld(n)' <=> OutHeld(n) \/ n = x
    BY <1>9, <2>1, SomewhereIsHeld
  <2>3. Gone' = {n \in 1..x : ~(OutHeld(n) \/ n = x)}
    BY <1>2, <2>2 DEF Gone
  <2>4. 1..x = (1..published) \cup {x} /\ x \notin 1..published
    BY <1>3 DEF x
  <2>5. QED
    BY <2>3, <2>4 DEF Gone
<1>11. QED
  BY <1>2, <1>3, <1>10 DEF Outgoing!Accept, Gone, x

LEMMA OutgoingDeliver ==
  ASSUME Typed, Session, DInv, BrokerPublish
  PROVE  Outgoing!Next \/ UNCHANGED Outgoing!vars
<1> DEFINE q == toBroker[1]
           new == q.qos < 2 \/ q.id \notin held
<1>1. toBroker # <<>> /\ Head(toBroker) = q
  BY Heads DEF BrokerPublish, BrokerReads, Typed, NetworkTyped
<1>2. /\ q.type = "PUBLISH"
      /\ received' = IF new THEN Append(received, q.n) ELSE received
      /\ UNCHANGED <<plan, commands, outbound, store, published>>
  BY <1>1 DEF BrokerPublish, BrokerReads, BrokerAnswers, memory
<1>3. At("toBroker", 1, q) /\ Meant("toBroker", q) /\ HeldAsSent
  BY <1>1, <1>2, RequestRead DEF Requests, DInv, Ledger
<1>4. /\ q.n \in Out /\ q.qos \in 0..2 /\ q.qos = plan.out[q.n] /\ q.n <= published
      /\ q.id = 0 => ~Delivered(q.n) /\ q.qos = 0
      /\ q.id # 0 => \E k \in DOMAIN outbound : Of(outbound[k], "toBroker", q)
  BY <1>2, <1>3, AtTypes DEF Meant
<1>5. CASE ~new
  BY <1>2, <1>5, OutgoingUnchanged
<1>6. CASE new
  <2>1. q.id # 0 => \E k \in DOMAIN outbound : /\ outbound[k].n = q.n /\ outbound[k].id = q.id
                                               /\ outbound[k].qos = q.qos
                                               /\ outbound[k].next # "PUBCOMP"
    BY <1>2, <1>4 DEF Of
  <2>2. q.qos = 1 \/ ~Delivered(q.n)
    <3>1. CASE q.id = 0
      BY <1>4, <3>1
    <3>2. CASE q.id # 0
      <4>1. PICK k \in DOMAIN outbound : /\ outbound[k].n = q.n /\ outbound[k].id = q.id
                                         /\ outbound[k].qos = q.qos /\ outbound[k].next # "PUBCOMP"
        BY <2>1, <3>2
      <4>2. outbound[k] \in OutMessages
        BY DEF Typed, ClientTyped
      <4>3. q.qos \in {1, 2} /\ (q.qos = 2 => outbound[k].next = "PUBREC")
        BY <4>1, <4>2 DEF OutMessages, Answers
      <4>4. q.qos = 2 => q.id \notin held
        BY <1>6
      <4>5. QED
        BY <1>3, <4>1, <4>3, <4>4 DEF HeldAsSent
    <3>3. QED
      BY <3>1, <3>2
  <2>3. q.qos = 2 => q.n \notin Gone
    <3>1. q.qos = 2 => q.id # 0
      BY <1>4
    <3>2. q.qos = 2 => Somewhere(q.n)
      BY <2>1, <3>1 DEF Somewhere, InMemoryStill
    <3>3. QED
      BY <3>2, SomewhereIsHeld DEF Gone
  <2>4. Gone' = Gone
    <3>1. (\A n : OutHeld(n) <=> Somewhere(n))'
      BY SomewhereIsHeld, PTL
    <3>2. \A n : OutHeld(n)' <=> OutHeld(n)
      BY <1>2, <3>1, SomewhereIsHeld, UntouchedNothingNew DEF NothingNew
    <3>3. QED
      BY <1>2, <3>2 DEF Gone
  <2>5. q.n \in 1..published
    <3>1. published \in Nat
      BY PlanTypes DEF Typed, ClientTyped
    <3>2. QED
      BY <1>4, <3>1 DEF Out
  <2>6. received' = Append(received, q.n)
    BY <1>2, <1>6
  <2> HIDE DEF new, q
  <2>7. Contains(received, q.n) <=> Delivered(q.n)
    BY ReceivedContains
  <2>8. Outgoing!Deliver(q.n)
    BY <1>2, <1>4, <2>2, <2>3, <2>4, <2>6, <2>7
    DEF Outgoing!Deliver, Outgoing!Delivered, Outgoing!Contains, Contains, Gone
  <2>9. QED
    BY <2>5, <2>8 DEF Outgoing!Next
<1>7. QED
  BY <1>5, <1>6

LEMMA OutgoingInit ==
  ASSUME Init
  PROVE  Outgoing!Init
<1>1. plan.out \in Seq(0..2) /\ plan.clean \in BOOLEAN
  BY PlansAssumption DEF Init
<1>2. published = 0 /\ received = <<>> /\ 1..published = {}
  BY DEF Init
<1>3. QED
  BY <1>1, <1>2 DEF Outgoing!Init

LEMMA OutgoingNext ==
  ASSUME OnlyOnReconnect, IInv, IInv', DInv, DInv', FaultsCounted, [Next]_vars
  PROVE  [Outgoing!Next]_Outgoing!vars
<1>1. Typed /\ Typed' /\ Session /\ "torn" \notin Faults
  BY DEF IInv, OnlyOnReconnect, OwnIdsWholeFiles
<1>2. CASE Publish
  BY <1>1, <1>2, OutgoingAccept DEF Outgoing!Next
<1>3. CASE BrokerPublish
  BY <1>1, <1>3, OutgoingDeliver
<1>4. CASE UNCHANGED <<plan, published, received, commands, outbound, store>>
  BY <1>4, OutgoingUnchanged
<1>5. CASE NothingNew /\ UNCHANGED <<plan, published, received>>
  BY <1>5, OutgoingForgotten
\* the steps that touch neither the messages of the client nor its files
<1>6. CASE \/ Write \/ Deliver \/ TryMessageQueue \/ HandlePublish \/ HandlePubrel \/ HandlePingresp
           \/ Drop \/ BrokerPubrel \/ BrokerAck \/ BrokerSend \/ UNCHANGED vars
  <2>1. UNCHANGED <<plan, published, received, commands, outbound, store>>
    BY <1>6 DEF Write, Deliver, TryMessageQueue, HandlePublish, HandlePubrel, Read, HandlePingresp,
                Drop, BrokerPubrel, BrokerAck, BrokerAnswers, BrokerSend, vars, memory, broker
  <2>2. QED
    BY <1>4, <2>1
<1>7. CASE ProcessCommand
  <2>1. UNCHANGED <<plan, published, received>>
    BY <1>7 DEF ProcessCommand, broker
  <2>2. QED
    BY <1>1, <1>5, <1>7, <2>1, ProcessCommandNothingNew
<1>8. CASE Put
  <2>1. UNCHANGED <<plan, published, received>>
    BY <1>8 DEF Put, broker
  <2>2. QED
    BY <1>1, <1>5, <1>8, <2>1, PutNothingNew
<1>9. CASE RemoveKey
  <2>1. UNCHANGED <<plan, published, received>>
    BY <1>9 DEF RemoveKey, broker
  <2>2. QED
    BY <1>1, <1>5, <1>9, <2>1, RemoveKeyNothingNew
<1>10. CASE HandlePuback \/ HandlePubcomp
  <2>1. PICK type : HandleAck(type)
    BY <1>10 DEF HandlePuback, HandlePubcomp
  <2>2. UNCHANGED <<plan, published, received>>
    BY <2>1 DEF HandleAck, Read, broker
  <2>3. QED
    BY <1>1, <1>5, <2>1, <2>2, AckNothingNew
<1>11. CASE HandlePubrec
  <2>1. UNCHANGED <<plan, published, received>>
    BY <1>11 DEF HandlePubrec, Read, broker
  <2>2. QED
    BY <1>1, <1>5, <1>11, <2>1, PubrecNothingNew
<1>12. ~Retry
  BY NoRetry
<1>13. CASE NoticeLost \/ Connect
  <2>1. UNCHANGED <<plan, published, received, store>> /\ (Forgotten \/ UNCHANGED memory)
    BY <1>13 DEF NoticeLost, Connect, PstClear, broker
  <2>2. CASE Forgotten
    BY <1>5, <2>1, <2>2, ForgottenNothingNew
  <2>3. CASE UNCHANGED memory
    <3>1. UNCHANGED <<commands, outbound>>
      BY <2>3 DEF memory
    <3>2. QED
      BY <1>4, <2>1, <3>1
  <2>4. QED
    BY <2>1, <2>2, <2>3
<1>14. CASE Crash \/ Destroy
  <2>1. EndProcess /\ store'.files = store.files
    BY <1>1, <1>14, CrashTyped, DestroyTyped
  <2>2. Forgotten /\ UNCHANGED <<plan, published, received>>
    BY <2>1 DEF EndProcess, broker
  <2>3. QED
    BY <1>5, <2>1, <2>2, ForgottenNothingNew
<1>15. CASE Restart
  <2>1. UNCHANGED <<plan, published, received>>
    BY <1>15 DEF Restart, broker
  <2>2. QED
    BY <1>1, <1>5, <1>15, <2>1, RestartNothingNew
<1>16. QED
  BY <1>2, <1>3, <1>6, <1>7, <1>8, <1>9, <1>10, <1>11, <1>12, <1>13, <1>14, <1>15
  DEF Next, DoEffect, ReceivePacket, BrokerReceive

\* A message that MQTTAsync_send accepted is in the queue of commands, in the list of
\* outbound messages or in the store until the broker has it, and one of QoS 2 is passed
\* on once: over lost connections, crashes and restarts the session implements the promise
\* of Delivery (MQTTProtocol_startPublish to MQTTProtocol_handlePubcomps,
\* MQTTProtocol_retries, MQTTPersistence_restore).
THEOREM KeepsOutgoingCorrect == OnlyOnReconnect => (Spec => KeepsOutgoing)
<1> SUFFICES ASSUME OnlyOnReconnect PROVE Spec => KeepsOutgoing
  OBVIOUS
<1>1. Init => Outgoing!Init
  BY OutgoingInit
<1>2. DeliveryInv /\ DeliveryInv' /\ [Next]_vars => [Outgoing!Next]_Outgoing!vars
  BY OutgoingNext DEF DeliveryInv
<1>3. QED
  BY <1>1, <1>2, DeliveryHolds, PTL DEF Spec, KeepsOutgoing, Outgoing!Spec
===============================================================================
