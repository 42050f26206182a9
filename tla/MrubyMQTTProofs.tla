--------------------------- MODULE MrubyMQTTProofs ---------------------------
(***************************************************************************)
(* Theorems about the binding, for any number of connects and calls.       *)
(***************************************************************************)
EXTENDS MrubyMQTT, TLAPS

\* Handles are numbered as they are created, and 0 is none
Numbered ==
  /\ handles \in Nat
  /\ freed \subseteq 1..handles
  /\ data \in 0..handles
  /\ program.m \in 0..handles
  /\ callback.m \in 0..handles
  /\ callback.pc # "none" => callback.m # 0

\* The handle that the program is connecting is its own: neither the object nor
\* a callback has it, and so nothing has freed its mqtt_state
Private ==
  program.pc \in {"connect", "attach"} =>
    program.m # 0 /\ program.m # data /\ program.m # callback.m /\ program.m \notin freed

Safe == Numbered /\ Private /\ NoDangling

-----------------------------------------------------------------------------
LEMMA FrameSafe ==
  ASSUME Safe, UNCHANGED <<handles, data, freed, program, callback>>
  PROVE  Safe'
BY DEF Safe, Numbered, Private, NoDangling

\* a step of the program that leaves the object and the handles alone
LEMMA GotoSafe ==
  ASSUME Safe, NEW pc, NEW m \in 0..handles, Goto(pc, m),
         pc = "connect" => FALSE, pc = "attach" => program.pc = "connect" /\ m = program.m,
         UNCHANGED <<handles, data, freed, callback>>
  PROVE  Safe'
BY DEF Safe, Numbered, Private, NoDangling, Goto

LEMMA ProgramSafe ==
  ASSUME Safe, Program
  PROVE  Safe'
<1> USE DEF object, At
<1>1. 0 \in 0..handles /\ data \in 0..handles /\ program.m \in 0..handles
  BY DEF Safe, Numbered
<1>2. CASE Connect
  BY <1>1, <1>2, GotoSafe DEF Connect
<1>3. CASE Create
  <2>1. /\ handles' = handles + 1 /\ callback = NoCallback
        /\ program' = [pc |-> "connect", m |-> handles + 1]
        /\ UNCHANGED <<data, freed, callback>>
    BY <1>3 DEF Create, MutexFree, Goto
  <2>2. Numbered' /\ NoDangling'
    BY <2>1 DEF Safe, Numbered, NoDangling
  <2>3. Private'
    BY <2>1 DEF Safe, Numbered, Private, NoCallback
  <2>4. QED
    BY <2>2, <2>3 DEF Safe
<1>4. CASE StartConnect
  BY <1>1, <1>4, GotoSafe DEF StartConnect
<1>5. CASE Attach
  <2>1. /\ program.m # 0 /\ program.m \notin freed
    BY <1>5 DEF Attach, Safe, Private
  <2>2. /\ data' = program.m /\ program' = [pc |-> "idle", m |-> 0]
        /\ UNCHANGED <<handles, freed, callback>>
    BY <1>5 DEF Attach, Goto
  <2>3. QED
    BY <2>1, <2>2 DEF Safe, Numbered, Private, NoDangling
<1>6. CASE StartUnattached
  BY <1>6, FrameSafe DEF StartUnattached, threads
<1>7. ASSUME NEW t \in Requests, StartRequest(t)
      PROVE  Safe'
  <2>1. t # "connect" /\ t # "attach"
    BY DEF Requests, RequestTypes
  <2>2. Goto(t, data) /\ UNCHANGED <<handles, data, freed, callback>>
    BY <1>7 DEF StartRequest
  <2>3. QED
    BY <1>1, <2>1, <2>2, GotoSafe
<1>8. ASSUME NEW t \in Requests, FinishRequest(t)
      PROVE  Safe'
  BY <1>1, <1>8, GotoSafe DEF FinishRequest
<1>9. QED
  BY <1>2, <1>3, <1>4, <1>5, <1>6, <1>7, <1>8 DEF Program

\* what a callback of the library may do to the object before the Ruby code runs
LEMMA CallSafe ==
  ASSUME Safe
  PROVE  /\ CallUnattached => Safe'
         /\ CallIgnored => Safe'
         /\ \A pc \in {"on_connect", "on_message", "free", "create"} : \A v : Call(pc, v) => Safe'
<1>1. CallUnattached => Safe'
  BY FrameSafe DEF CallUnattached, object, threads
<1>2. CallIgnored => Safe'
  BY FrameSafe DEF CallIgnored, object, threads
<1>3. ASSUME NEW pc \in {"on_connect", "on_message", "free", "create"}, NEW v, Call(pc, v)
      PROVE  Safe'
  <2>1. /\ data # 0 /\ callback' = [pc |-> pc, m |-> data]
        /\ UNCHANGED <<handles, data, freed, program>>
    BY <1>3 DEF Call
  <2>2. QED
    BY <2>1 DEF Safe, Numbered, Private, NoDangling
<1>4. QED
  BY <1>1, <1>2, <1>3

LEMMA CallbackSafe ==
  ASSUME Safe, Callback
  PROVE  Safe'
<1> USE DEF object, threads
<1>1. ASSUME NEW h \in Handles, OnConnect(h)
      PROVE  Safe'
  BY <1>1, CallSafe DEF OnConnect
<1>2. ASSUME NEW h \in Handles, OnConnectFailure(h)
      PROVE  Safe'
  BY <1>2, CallSafe DEF OnConnectFailure
<1>3. ASSUME NEW h \in Handles, OnConnectionLost(h)
      PROVE  Safe'
  BY <1>3, CallSafe, FrameSafe DEF OnConnectionLost
<1>4. ASSUME NEW h \in Handles, OnDisconnect(h)
      PROVE  Safe'
  BY <1>4, CallSafe DEF OnDisconnect
<1>5. ASSUME NEW h \in Handles, NEW t \in RequestTypes, OnAnswer(h, t)
      PROVE  Safe'
  BY <1>5, FrameSafe DEF OnAnswer
<1>6. ASSUME NEW t \in RequestTypes, RequestInCallback(t)
      PROVE  Safe'
  BY <1>6, FrameSafe DEF RequestInCallback
<1>7. CASE EndHandler
  <2>1. callback' = NoCallback /\ UNCHANGED <<handles, data, freed, program>>
    BY <1>7 DEF EndHandler
  <2>2. QED
    BY <2>1 DEF Safe, Numbered, Private, NoDangling, NoCallback
<1>8. CASE EndAndFree
  <2>1. /\ callback.pc = "free" /\ freed' = freed \cup {callback.m}
        /\ data' = 0 /\ callback' = NoCallback
        /\ UNCHANGED <<handles, program>>
    BY <1>8 DEF EndAndFree
  <2>2. callback.m \in 1..handles /\ freed \subseteq 1..handles
    BY <2>1 DEF Safe, Numbered
  <2>3. Numbered'
    <3>1. freed' \subseteq 1..handles
      BY <2>1, <2>2
    <3>2. callback'.pc = "none" /\ callback'.m = 0
      BY <2>1 DEF NoCallback
    <3>3. handles \in Nat /\ program.m \in 0..handles /\ 0 \in 0..handles
      BY DEF Safe, Numbered
    <3>4. QED
      BY <2>1, <3>1, <3>2, <3>3 DEF Numbered
  <2>4. NoDangling'
    <3>1. 0 \notin freed /\ 0 # callback.m
      BY <2>2
    <3>2. QED
      BY <2>1, <3>1 DEF NoDangling
  <2>5. Private'
    BY <2>1 DEF Safe, Private, NoCallback
  <2>6. QED
    BY <2>3, <2>4, <2>5 DEF Safe
<1>9. ASSUME NEW h \in Handles, OnMessage(h)
      PROVE  Safe'
  BY <1>9, CallSafe DEF OnMessage
<1>10. QED
  BY <1>1, <1>2, <1>3, <1>4, <1>5, <1>6, <1>7, <1>8, <1>9 DEF Callback

\* DATA_PTR(_self) is never an mqtt_state that a callback has freed, however
\* often the program connects and however the callbacks come.
THEOREM NoDanglingCorrect == Spec => []NoDangling
<1>1. Init => Safe
  BY DEF Init, Safe, Numbered, Private, NoDangling, Idle, NoCallback
<1>2. Safe /\ [Next]_vars => Safe'
  <2>1. UNCHANGED vars => UNCHANGED <<handles, data, freed, program, callback>>
    BY DEF vars, object, threads
  <2>2. QED
    BY <2>1, FrameSafe, ProgramSafe, CallbackSafe DEF Next
<1>3. Safe => NoDangling
  BY DEF Safe
<1>4. QED
  BY <1>1, <1>2, <1>3, PTL DEF Spec

-----------------------------------------------------------------------------
(* Types *)

LibraryOK ==
  /\ view \in [Handles -> {"down", "connecting", "up"}]
  /\ calls \in 0..MaxCalls
  /\ issued \in [1..MaxCalls -> [client : Handles, type : Requests \cup {"CONNECT"}]
                                  \cup {Library!NotIssued}]
  /\ notified \in [1..MaxCalls -> {0, 1}]

BindingOK ==
  /\ handles \in 0..MaxHandles
  /\ self \in BOOLEAN /\ mqtt_connected \in BOOLEAN /\ crashed \in BOOLEAN
  /\ data \in 0..handles
  /\ freed \subseteq 1..handles
  /\ program \in [pc : {"idle", "create", "connect", "attach"} \cup Requests, m : 0..handles]
  /\ callback \in [pc : {"none", "on_connect", "on_message", "free", "create"}, m : 0..handles]
  /\ told \in {"down", "connecting", "up"}
  /\ overlapped \in BOOLEAN

\* A call has room for its handle or has it, and a callback runs while the
\* object holds one
Held ==
  /\ program.pc = "create" => handles < MaxHandles
  /\ program.pc \in Requests \cup {"connect", "attach"} => program.m # 0
  /\ callback.pc # "none" => data # 0 /\ callback.m # 0

Typed == LibraryOK /\ BindingOK /\ Held

LibraryStep ==
  \/ UNCHANGED library
  \/ \E h \in Handles :
       \/ Library!Connect(h) \/ Library!Connected(h) \/ Library!Refused(h)
       \/ Library!Lost(h) \/ Library!Disconnected(h)
       \/ \E t \in Requests : Library!Request(h, t) \/ Library!Answered(h, t)

LEMMA LibraryTyped ==
  ASSUME LibraryOK, LibraryStep
  PROVE  LibraryOK'
<1> DEFINE Views == {"down", "connecting", "up"}
           Issued == [client : Handles, type : Requests \cup {"CONNECT"}]
<1>1. MaxCalls \in Nat
  BY BoundAssumption
<1>2. ASSUME NEW h \in Handles, NEW v \in Views, Library!Tell(h, v)
      PROVE  view' \in [Handles -> Views]
  BY <1>2 DEF LibraryOK, Library!Tell
<1>3. ASSUME NEW h \in Handles, NEW type \in Requests \cup {"CONNECT"}, Library!Accept(h, type)
      PROVE  calls' \in 0..MaxCalls /\ issued' \in [1..MaxCalls -> Issued \cup {Library!NotIssued}]
  <2>1. calls' = calls + 1 /\ calls + 1 \in 1..MaxCalls
    BY <1>1, <1>3 DEF LibraryOK, Library!Accept
  <2>2. [client |-> h, type |-> type] \in Issued
    OBVIOUS
  <2>3. issued' = [issued EXCEPT ![calls + 1] = [client |-> h, type |-> type]]
    BY <1>3 DEF Library!Accept
  <2>4. QED
    BY <1>1, <2>1, <2>2, <2>3 DEF LibraryOK
<1>4. ASSUME NEW i \in 1..MaxCalls, Library!Report(i)
      PROVE  notified' \in [1..MaxCalls -> {0, 1}]
  BY <1>4 DEF LibraryOK, Library!Report
<1>5. ASSUME NEW h \in Handles, Library!Connect(h)
      PROVE  LibraryOK'
  BY <1>2, <1>3, <1>5 DEF LibraryOK, Library!Connect
<1>6. ASSUME NEW h \in Handles, Library!Connected(h)
      PROVE  LibraryOK'
  BY <1>2, <1>4, <1>6 DEF LibraryOK, Library!Connected, Library!Ids
<1>7. ASSUME NEW h \in Handles, Library!Refused(h)
      PROVE  LibraryOK'
  BY <1>2, <1>4, <1>7 DEF LibraryOK, Library!Refused, Library!Ids
<1>8. ASSUME NEW h \in Handles, Library!Lost(h)
      PROVE  LibraryOK'
  BY <1>2, <1>8 DEF LibraryOK, Library!Lost
<1>9. ASSUME NEW h \in Handles, Library!Disconnected(h)
      PROVE  LibraryOK'
  BY <1>2, <1>4, <1>9 DEF LibraryOK, Library!Disconnected, Library!Ids
<1>10. ASSUME NEW h \in Handles, NEW t \in Requests, Library!Request(h, t)
       PROVE  LibraryOK'
  BY <1>3, <1>10 DEF LibraryOK, Library!Request
<1>11. ASSUME NEW h \in Handles, NEW t \in Requests, Library!Answered(h, t)
       PROVE  LibraryOK'
  BY <1>4, <1>11 DEF LibraryOK, Library!Answered, Library!Ids
<1>12. CASE UNCHANGED library
  BY <1>12 DEF LibraryOK, library
<1>13. QED
  BY <1>5, <1>6, <1>7, <1>8, <1>9, <1>10, <1>11, <1>12 DEF LibraryStep

LEMMA ProgramSteps ==
  ASSUME Typed, Program
  PROVE  LibraryStep
<1>1. handles \in 0..MaxHandles /\ MaxHandles \in Nat
  BY BoundAssumption DEF Typed, BindingOK
<1>2. CASE StartConnect
  <2>1. program.m \in Handles /\ Library!Connect(program.m)
    BY <1>1, <1>2 DEF StartConnect, At, Typed, BindingOK, Held, Handles
  <2>2. QED
    BY <2>1 DEF LibraryStep
<1>3. ASSUME NEW t \in Requests, FinishRequest(t)
      PROVE  LibraryStep
  <2>1. program.m \in Handles
    BY <1>1, <1>3 DEF FinishRequest, At, Typed, BindingOK, Held, Handles
  <2>2. Library!Request(program.m, t) \/ UNCHANGED library
    BY <1>3 DEF FinishRequest
  <2>3. QED
    BY <2>1, <2>2 DEF LibraryStep
<1>4. QED
  BY <1>2, <1>3
     DEF Program, Connect, Create, Attach, StartUnattached, StartRequest, LibraryStep

LEMMA CallbackSteps ==
  ASSUME Typed, Callback
  PROVE  LibraryStep
<1>1. ASSUME NEW h \in Handles,
             \/ OnConnect(h) \/ OnConnectFailure(h) \/ OnConnectionLost(h)
             \/ OnDisconnect(h) \/ OnMessage(h)
      PROVE  LibraryStep
  BY <1>1 DEF OnConnect, OnConnectFailure, OnConnectionLost, OnDisconnect, OnMessage, LibraryStep
<1>2. ASSUME NEW h \in Handles, NEW t \in RequestTypes, OnAnswer(h, t)
      PROVE  LibraryStep
  BY <1>2 DEF OnAnswer, Requests, LibraryStep
<1>3. ASSUME NEW t \in RequestTypes, RequestInCallback(t)
      PROVE  LibraryStep
  <2>1. data \in Handles
    BY <1>3, BoundAssumption
       DEF RequestInCallback, RunsHandler, Typed, BindingOK, Held, Handles
  <2>2. Library!Request(data, t)
    BY <1>3 DEF RequestInCallback
  <2>3. QED
    BY <2>1, <2>2 DEF Requests, LibraryStep
<1>4. QED
  BY <1>1, <1>2, <1>3 DEF Callback, EndHandler, EndAndFree, LibraryStep

LEMMA ProgramTyped ==
  ASSUME Typed, Program
  PROVE  BindingOK' /\ Held'
<1> USE BoundAssumption DEF Typed, object, history, threads, At, Goto
<1>1. /\ program.pc \in {"idle", "create", "connect", "attach"} \cup Requests
      /\ program.m \in 0..handles /\ 0 \in 0..handles /\ handles \in Nat
  BY DEF BindingOK
<1>2. CASE Connect
  BY <1>1, <1>2 DEF Connect, BindingOK, Held, Requests, RequestTypes
<1>3. CASE Create
  BY <1>1, <1>3 DEF Create, MutexFree, NoCallback, BindingOK, Held, Requests, RequestTypes
<1>4. CASE StartConnect
  BY <1>1, <1>4 DEF StartConnect, BindingOK, Held, Requests, RequestTypes
<1>5. CASE Attach
  BY <1>1, <1>5 DEF Attach, BindingOK, Held, Requests, RequestTypes
<1>6. CASE StartUnattached
  BY <1>6 DEF StartUnattached, BindingOK, Held
<1>7. ASSUME NEW t \in Requests, StartRequest(t)
      PROVE  BindingOK' /\ Held'
  BY <1>1, <1>7 DEF StartRequest, BindingOK, Held, Requests, RequestTypes
<1>8. ASSUME NEW t \in Requests, FinishRequest(t)
      PROVE  BindingOK' /\ Held'
  <2>1. /\ program' = [pc |-> "idle", m |-> 0]
        /\ crashed' \in BOOLEAN
        /\ UNCHANGED <<handles, object, callback, history>>
    BY <1>8 DEF FinishRequest, BindingOK
  <2>2. QED
    BY <1>1, <2>1 DEF BindingOK, Held, Requests, RequestTypes
<1>9. QED
  BY <1>2, <1>3, <1>4, <1>5, <1>6, <1>7, <1>8 DEF Program

LEMMA CallTyped ==
  ASSUME Typed
  PROVE  /\ CallUnattached => BindingOK' /\ Held'
         /\ CallIgnored => BindingOK' /\ Held'
         /\ \A pc \in {"on_connect", "on_message", "free", "create"},
               v \in {"down", "connecting", "up"} :
              Call(pc, v) /\ mqtt_connected' \in BOOLEAN => BindingOK' /\ Held'
<1> USE DEF Typed
<1>1. CallUnattached => BindingOK' /\ Held'
  BY DEF CallUnattached, object, history, threads, BindingOK, Held
<1>2. CallIgnored => BindingOK' /\ Held'
  BY DEF CallIgnored, object, history, threads, BindingOK, Held
<1>3. ASSUME NEW pc \in {"on_connect", "on_message", "free", "create"},
             NEW v \in {"down", "connecting", "up"},
             Call(pc, v), mqtt_connected' \in BOOLEAN
      PROVE  BindingOK' /\ Held'
  BY <1>3 DEF Call, BindingOK, Held
<1>4. QED
  BY <1>1, <1>2, <1>3

LEMMA CallbackTyped ==
  ASSUME Typed, Callback
  PROVE  BindingOK' /\ Held'
<1> USE DEF Typed, object, history, threads
<1>1. ASSUME NEW h \in Handles, OnConnect(h)
      PROVE  BindingOK' /\ Held'
  BY <1>1, CallTyped DEF OnConnect
<1>2. ASSUME NEW h \in Handles, OnConnectFailure(h)
      PROVE  BindingOK' /\ Held'
  BY <1>2, CallTyped DEF OnConnectFailure, BindingOK
<1>3. ASSUME NEW h \in Handles, OnConnectionLost(h)
      PROVE  BindingOK' /\ Held'
  BY <1>3, CallTyped DEF OnConnectionLost, BindingOK, Held
<1>4. ASSUME NEW h \in Handles, OnDisconnect(h)
      PROVE  BindingOK' /\ Held'
  BY <1>4, CallTyped DEF OnDisconnect
<1>5. ASSUME NEW h \in Handles, OnMessage(h)
      PROVE  BindingOK' /\ Held'
  BY <1>5, CallTyped DEF OnMessage, BindingOK
<1>6. ASSUME NEW h \in Handles, NEW t \in RequestTypes, OnAnswer(h, t)
      PROVE  BindingOK' /\ Held'
  BY <1>6 DEF OnAnswer, BindingOK, Held
<1>7. ASSUME NEW t \in RequestTypes, RequestInCallback(t)
      PROVE  BindingOK' /\ Held'
  BY <1>7 DEF RequestInCallback, BindingOK, Held
<1>8. CASE EndHandler
  <2>1. /\ callback' = NoCallback /\ callback'.m = 0
        /\ UNCHANGED <<handles, self, data, freed, mqtt_connected, program, history, crashed>>
    BY <1>8 DEF EndHandler, NoCallback
  <2>2. QED
    BY <2>1, BoundAssumption DEF NoCallback, BindingOK, Held
<1>9. CASE EndAndFree
  <2>1. /\ callback.pc = "free" /\ freed' = freed \cup {callback.m} /\ data' = 0
        /\ callback' = NoCallback
        /\ UNCHANGED <<handles, self, mqtt_connected, program, history, crashed>>
    BY <1>9 DEF EndAndFree
  <2>2. freed' \subseteq 1..handles
    <3>1. callback.m \in 1..handles /\ freed \subseteq 1..handles
      BY <2>1, BoundAssumption DEF BindingOK, Held
    <3>2. QED
      BY <2>1, <3>1
  <2>3. callback' \in [pc : {"none", "on_connect", "on_message", "free", "create"}, m : 0..handles]
    BY <2>1, BoundAssumption DEF NoCallback, BindingOK
  <2>4. data' \in 0..handles
    BY <2>1, BoundAssumption DEF BindingOK
  <2>5. BindingOK'
    BY <2>1, <2>2, <2>3, <2>4 DEF BindingOK
  <2>6. QED
    BY <2>1, <2>5 DEF NoCallback, Held
<1>10. QED
  BY <1>1, <1>2, <1>3, <1>4, <1>5, <1>6, <1>7, <1>8, <1>9 DEF Callback

LEMMA InitTyped == Init => Typed
<1>1. Library!Init => LibraryOK
  BY BoundAssumption DEF Library!Init, Library!Ids, LibraryOK
<1>2. Init => BindingOK
  <2>1. 0 \in 0..MaxHandles /\ 0 \in 0..0 /\ {} \subseteq 1..0
    BY BoundAssumption
  <2>2. SUFFICES ASSUME Init
                 PROVE  BindingOK
    OBVIOUS
  <2>3. /\ handles = 0 /\ self = FALSE /\ data = 0 /\ freed = {} /\ mqtt_connected = FALSE
        /\ program = Idle /\ callback = NoCallback
        /\ told = "down" /\ overlapped = FALSE /\ crashed = FALSE
    BY <2>2 DEF Init
  <2>4. /\ program \in [pc : {"idle", "create", "connect", "attach"} \cup Requests, m : 0..0]
        /\ callback \in [pc : {"none", "on_connect", "on_message", "free", "create"}, m : 0..0]
    BY <2>1, <2>3 DEF Idle, NoCallback
  <2>5. QED
    BY <2>1, <2>3, <2>4 DEF BindingOK
<1>3. Init => Held
  BY DEF Init, Held, Idle, NoCallback, Requests, RequestTypes
<1>4. QED
  BY <1>1, <1>2, <1>3 DEF Init, Typed

LEMMA NextTyped == Typed /\ [Next]_vars => Typed'
<1>1. ASSUME Typed, Next
      PROVE  Typed'
  BY <1>1, LibraryTyped, ProgramSteps, CallbackSteps, ProgramTyped, CallbackTyped DEF Next, Typed
<1>2. ASSUME Typed, UNCHANGED vars
      PROVE  Typed'
  BY <1>2 DEF vars, library, object, threads, history, Typed, LibraryOK, BindingOK, Held
<1>3. QED
  BY <1>1, <1>2

\* Every variable of the binding keeps its type: no handle is used before it was
\* created, and there are never more than MaxHandles.
THEOREM TypeCorrect == Spec => []TypeOK
<1>1. Typed => TypeOK
  BY DEF Typed, LibraryOK, BindingOK, TypeOK
<1>2. QED
  BY <1>1, InitTyped, NextTyped, PTL DEF Spec

-----------------------------------------------------------------------------
(* A program that waits for the answer to its connect *)

TellsDown == told = "down" => \A h \in Handles : view[h] = "down"
ConnectsWhenDown == program.pc \in {"create", "connect"} => told = "down"
Unattached ==
  /\ program.pc \in {"connect", "attach"} => data = 0 /\ callback = NoCallback
  /\ program.pc = "attach" => told # "down"
Ending == callback.pc \in {"free", "create"} => told = "down" /\ ~mqtt_connected
Forgotten == told = "down" /\ callback.pc \notin {"free", "create"} => data = 0
Real == mqtt_connected => data # 0 /\ view[data] = "up"
Reached ==
  \A h \in Handles : view[h] # "down" => data = h \/ program = [pc |-> "attach", m |-> h]

\* What the program was told is what the handles do, and the object holds the only
\* handle that is not down, except where a callback is about to forget it
InStep ==
  /\ TellsDown /\ ConnectsWhenDown /\ Unattached /\ Ending /\ Forgotten /\ Real /\ Reached
Steady == ~overlapped /\ ~crashed => InStep

\* a view that a callback of the library changes, and the others
LEMMA Told ==
  ASSUME Typed, NEW h \in Handles, NEW v, Library!Tell(h, v)
  PROVE  /\ view'[h] = v
         /\ \A g \in Handles : g # h => view'[g] = view[g]
BY DEF Typed, LibraryOK, Library!Tell

LEMMA ProgramSteady ==
  ASSUME Typed, Steady, Program
  PROVE  Steady'
<1> SUFFICES ASSUME ~overlapped', ~crashed'
             PROVE  InStep'
  BY DEF Steady
<1> USE DEF object, history, threads, library
<1>1. ~overlapped /\ ~crashed /\ InStep
  <2>1. ~crashed
    BY DEF Program, Connect, Create, StartConnect, Attach, StartUnattached, StartRequest,
           FinishRequest, At
  <2>2. ~overlapped
    <3>1. overlapped' = overlapped \/ (overlapped' = (overlapped \/ told # "down"))
      BY DEF Program, Connect, Create, StartConnect, Attach, StartUnattached, StartRequest,
             FinishRequest
    <3>2. QED
      BY <3>1
  <2>3. QED
    BY <2>1, <2>2 DEF Steady
<1>2. CASE Connect
  <2>1. told = "down" /\ program' = [pc |-> "create", m |-> 0] /\ program.pc = "idle"
        /\ UNCHANGED <<view, data, mqtt_connected, callback, told>>
    BY <1>2 DEF Connect, At, Goto
  <2>2. QED
    BY <1>1, <2>1 DEF InStep, TellsDown, ConnectsWhenDown, Unattached, Ending, Forgotten,
                      Real, Reached
<1>3. CASE Create
  <2>1. /\ program' = [pc |-> "connect", m |-> handles'] /\ program.pc = "create"
        /\ callback = NoCallback /\ UNCHANGED <<view, data, mqtt_connected, callback, told>>
    BY <1>3 DEF Create, At, Goto, MutexFree
  <2>2. data = 0
    BY <1>1, <2>1 DEF InStep, ConnectsWhenDown, Forgotten, NoCallback
  <2>3. QED
    BY <1>1, <2>1, <2>2 DEF InStep, TellsDown, ConnectsWhenDown, Unattached, Ending, Forgotten,
                            Real, Reached
<1>4. CASE StartConnect
  <2>1. /\ program' = [pc |-> "attach", m |-> program.m] /\ program.pc = "connect"
        /\ told' = "connecting" /\ UNCHANGED <<data, mqtt_connected, callback>>
        /\ Library!Tell(program.m, "connecting")
    BY <1>4 DEF StartConnect, At, Goto, Library!Connect
  <2>2. data = 0 /\ callback = NoCallback /\ \A h \in Handles : view[h] = "down"
    BY <1>1, <2>1 DEF InStep, Unattached, ConnectsWhenDown, TellsDown
  <2>3. program.m \in Handles
    BY <2>1, BoundAssumption DEF Typed, BindingOK, Held, Handles
  <2>4. \A h \in Handles : h # program.m => view'[h] = "down"
    BY <2>1, <2>2, <2>3, Told
  <2>5. ~mqtt_connected
    BY <1>1, <2>2 DEF InStep, Real
  <2>6. QED
    BY <2>1, <2>2, <2>4, <2>5 DEF InStep, TellsDown, ConnectsWhenDown, Unattached, Ending,
                                  Forgotten, Real, Reached, NoCallback
<1>5. CASE Attach
  <2>1. /\ program' = [pc |-> "idle", m |-> 0] /\ program.pc = "attach"
        /\ data' = program.m /\ UNCHANGED <<view, mqtt_connected, callback, told>>
    BY <1>5 DEF Attach, At, Goto
  <2>2. data = 0 /\ callback = NoCallback /\ ~mqtt_connected
    BY <1>1, <2>1 DEF InStep, Unattached, Real
  <2>3. told # "down"
    BY <1>1, <2>1 DEF InStep, Unattached
  <2>4. Reached'
    <3>1. \A h \in Handles : h # 0
      BY BoundAssumption DEF Handles
    <3>2. \A h \in Handles : view[h] # "down" => program.m = h
      BY <1>1, <2>2, <3>1 DEF InStep, Reached
    <3>3. QED
      BY <2>1, <3>2 DEF Reached
  <2>5. QED
    BY <1>1, <2>1, <2>2, <2>3, <2>4 DEF InStep, TellsDown, ConnectsWhenDown, Unattached, Ending,
                                        Forgotten, Real, NoCallback
<1>6. CASE StartUnattached
  BY <1>6 DEF StartUnattached
<1>7. ASSUME NEW t \in Requests, StartRequest(t) \/ FinishRequest(t)
      PROVE  InStep'
  <2>1. /\ program'.pc \notin {"create", "connect", "attach"} /\ program.pc # "attach"
        /\ UNCHANGED <<view, data, mqtt_connected, callback, told>>
    <3>1. t \notin {"idle", "create", "connect", "attach"}
      BY DEF Requests, RequestTypes
    <3>2. UNCHANGED view
      BY <1>7 DEF StartRequest, FinishRequest, Library!Request
    <3>3. QED
      BY <1>7, <3>1, <3>2 DEF StartRequest, FinishRequest, At, Goto
  <2>2. QED
    BY <1>1, <2>1 DEF InStep, TellsDown, ConnectsWhenDown, Unattached, Ending, Forgotten,
                      Real, Reached
<1>8. QED
  BY <1>2, <1>3, <1>4, <1>5, <1>6, <1>7 DEF Program

\* a callback that finds no object, or that is not the one of the connection, leaves
\* what the program was told as it was
LEMMA MissedSteady ==
  ASSUME Typed, InStep, ~crashed', NEW h \in Handles, NEW v, Library!Tell(h, v),
         v = "down" \/ view[h] # "down",
         CallUnattached \/ CallIgnored
  PROVE  InStep'
<1>1. /\ data = 0 /\ UNCHANGED <<data, mqtt_connected, program, callback, told>>
  BY DEF CallUnattached, CallIgnored, object, history, threads
<1>2. \A g \in Handles : view'[g] = view[g] \/ (g = h /\ view'[g] = v)
  BY Told
<1>3. TellsDown'
  BY <1>1, <1>2 DEF InStep, TellsDown
<1>4. Reached'
  BY <1>1, <1>2 DEF InStep, Reached
<1>5. ~mqtt_connected
  BY <1>1 DEF InStep, Real
<1>6. QED
  BY <1>1, <1>3, <1>4, <1>5 DEF InStep, ConnectsWhenDown, Unattached, Ending, Forgotten, Real

\* a callback of the connection, which the object holds
LEMMA CalledSteady ==
  ASSUME Typed, InStep, MayCall, NEW h \in Handles, view[h] # "down",
         NEW v \in {"down", "up"}, Library!Tell(h, v),
         NEW pc \in {"on_connect", "free", "create"}, Call(pc, v),
         mqtt_connected' \in BOOLEAN,
         v = "up" => pc = "on_connect",
         v = "down" => pc # "on_connect" /\ ~mqtt_connected'
  PROVE  InStep'
<1>1. /\ data # 0 /\ callback' = [pc |-> pc, m |-> data] /\ told' = v
      /\ UNCHANGED <<data, program>>
  BY DEF Call
<1>2. program.pc \notin {"connect", "attach"}
  BY <1>1 DEF InStep, Unattached
<1>3. data = h
  BY <1>2 DEF InStep, Reached
<1>4. \A g \in Handles : view'[g] = (IF g = h THEN v ELSE "down")
  BY <1>2, <1>3, Told DEF InStep, Reached
<1>5. program.pc # "create"
  BY <1>1, <1>3 DEF InStep, ConnectsWhenDown, TellsDown
<1>6. TellsDown' /\ Real' /\ Reached'
  BY <1>1, <1>3, <1>4 DEF TellsDown, Real, Reached
<1>7. ConnectsWhenDown' /\ Unattached'
  BY <1>1, <1>2, <1>5 DEF ConnectsWhenDown, Unattached
<1>8. Ending' /\ Forgotten'
  BY <1>1 DEF Ending, Forgotten
<1>9. QED
  BY <1>6, <1>7, <1>8 DEF InStep

LEMMA CallbackSteady ==
  ASSUME Typed, Steady, Callback
  PROVE  Steady'
<1> SUFFICES ASSUME ~overlapped', ~crashed'
             PROVE  InStep'
  BY DEF Steady
<1>1. UNCHANGED overlapped /\ ~crashed
  BY DEF Callback, OnConnect, OnConnectFailure, OnConnectionLost, OnDisconnect, OnMessage,
         OnAnswer, RequestInCallback, RunsHandler, EndHandler, EndAndFree, MayCall, history,
         CallUnattached, CallIgnored, Call
<1>2. InStep
  BY <1>1 DEF Steady
<1>3. ASSUME NEW h \in Handles, OnConnect(h)
      PROVE  InStep'
  <2>1. MayCall /\ view[h] = "connecting" /\ Library!Tell(h, "up")
    BY <1>3 DEF OnConnect, Library!Connected
  <2>2. CASE CallUnattached \/ CallIgnored
    BY <1>2, <2>1, <2>2, MissedSteady
  <2>3. CASE Call("on_connect", "up") /\ mqtt_connected' = TRUE
    BY <1>2, <2>1, <2>3, CalledSteady
  <2>4. QED
    BY <1>3, <2>2, <2>3 DEF OnConnect
<1>4. ASSUME NEW h \in Handles, OnConnectFailure(h)
      PROVE  InStep'
  <2>1. MayCall /\ view[h] = "connecting" /\ Library!Tell(h, "down")
    BY <1>4 DEF OnConnectFailure, Library!Refused
  <2>2. CASE CallUnattached \/ CallIgnored
    BY <1>2, <2>1, <2>2, MissedSteady
  <2>3. ASSUME NEW pc \in {"free", "create"}, Call(pc, "down"), UNCHANGED mqtt_connected
        PROVE  InStep'
    <3>1. data # 0
      BY <2>3 DEF Call
    <3>2. data = h
      BY <1>2, <2>1, <3>1 DEF InStep, Reached, Unattached
    <3>3. mqtt_connected' = FALSE
      BY <1>2, <2>1, <2>3, <3>2 DEF InStep, Real, Typed, BindingOK
    <3>4. QED
      BY <1>2, <2>1, <2>3, <3>3, CalledSteady
  <2>4. QED
    BY <1>4, <2>2, <2>3 DEF OnConnectFailure
<1>5. ASSUME NEW h \in Handles, OnConnectionLost(h)
      PROVE  InStep'
  <2>1. view[h] = "up" /\ Library!Tell(h, "down")
    BY <1>5 DEF OnConnectionLost, Library!Lost
  <2>2. CallUnattached \/ CallIgnored
    BY <1>5 DEF OnConnectionLost
  <2>3. QED
    BY <1>2, <2>1, <2>2, MissedSteady
<1>6. ASSUME NEW h \in Handles, OnDisconnect(h)
      PROVE  InStep'
  <2>1. MayCall /\ view[h] # "down" /\ Library!Tell(h, "down")
    BY <1>6 DEF OnDisconnect, Library!Disconnected
  <2>2. CASE CallUnattached \/ CallIgnored
    BY <1>2, <2>1, <2>2, MissedSteady
  <2>3. CASE Call("free", "down") /\ mqtt_connected' = FALSE
    BY <1>2, <2>1, <2>3, CalledSteady
  <2>4. QED
    BY <1>6, <2>2, <2>3 DEF OnDisconnect
<1>7. ASSUME NEW h \in Handles, OnMessage(h)
      PROVE  InStep'
  <2>1. view[h] = "up" /\ callback = NoCallback
        /\ UNCHANGED <<view, data, mqtt_connected, program, told>>
    BY <1>7 DEF OnMessage, MayCall, MutexFree, library, CallUnattached, CallIgnored, Call,
                object, history, threads
  <2>2. callback'.pc \in {"none", "on_message"} /\ (data = 0 => callback' = callback)
    BY <1>7, <2>1 DEF OnMessage, CallUnattached, CallIgnored, Call, threads, NoCallback
  <2>3. TellsDown' /\ ConnectsWhenDown' /\ Real' /\ Reached'
    BY <1>2, <2>1 DEF InStep, TellsDown, ConnectsWhenDown, Real, Reached
  <2>4. Unattached'
    BY <1>2, <2>1, <2>2 DEF InStep, Unattached
  <2>5. Ending' /\ Forgotten'
    BY <1>2, <2>1, <2>2 DEF InStep, Ending, Forgotten, TellsDown
  <2>6. QED
    BY <2>3, <2>4, <2>5 DEF InStep
<1>8. ASSUME NEW t \in RequestTypes, RequestInCallback(t) \/ \E h \in Handles : OnAnswer(h, t)
      PROVE  InStep'
  <2>1. UNCHANGED <<view, data, mqtt_connected, program, callback, told>>
    BY <1>8 DEF RequestInCallback, OnAnswer, Library!Request, Library!Answered, object, history,
                threads
  <2>2. QED
    BY <1>2, <2>1 DEF InStep, TellsDown, ConnectsWhenDown, Unattached, Ending, Forgotten, Real,
                      Reached
<1>9. CASE EndHandler
  <2>1. /\ callback.pc \in {"on_connect", "on_message"} /\ callback' = NoCallback
        /\ UNCHANGED <<view, data, mqtt_connected, program, told>>
    BY <1>9 DEF EndHandler, RunsHandler, library, object, history
  <2>2. QED
    BY <1>2, <2>1 DEF InStep, TellsDown, ConnectsWhenDown, Unattached, Ending, Forgotten, Real,
                      Reached, NoCallback
<1>10. CASE EndAndFree
  <2>1. /\ callback.pc = "free" /\ callback' = NoCallback /\ data' = 0
        /\ UNCHANGED <<view, mqtt_connected, program, told>>
    BY <1>10 DEF EndAndFree, library, history
  <2>2. told = "down" /\ ~mqtt_connected /\ \A h \in Handles : view[h] = "down"
    BY <1>2, <2>1 DEF InStep, Ending, TellsDown
  <2>3. QED
    BY <1>2, <2>1, <2>2 DEF InStep, TellsDown, ConnectsWhenDown, Unattached, Ending, Forgotten,
                            Real, Reached, NoCallback
<1>11. QED
  BY <1>3, <1>4, <1>5, <1>6, <1>7, <1>8, <1>9, <1>10 DEF Callback

LEMMA AlwaysSteady == Spec => [](Typed /\ Steady)
<1>1. Init => Steady
  BY DEF Init, Library!Init, Idle, NoCallback, Steady, InStep, TellsDown, ConnectsWhenDown,
         Unattached, Ending, Forgotten, Real, Reached
<1>2. Typed /\ Steady /\ [Next]_vars => Steady'
  <2>1. UNCHANGED vars /\ Steady => Steady'
    BY DEF vars, library, object, threads, history, Steady, InStep, TellsDown,
           ConnectsWhenDown, Unattached, Ending, Forgotten, Real, Reached
  <2>2. QED
    BY <2>1, ProgramSteady, CallbackSteady DEF Next
<1>3. QED
  BY <1>1, <1>2, InitTyped, NextTyped, PTL DEF Spec

\* While the program waits for the answer to its connect, connected? is true only
\* while the handle in the object is connected.
THEOREM ConnectedRealCorrect == Spec => []ConnectedReal
<1>1. Steady => ConnectedReal
  BY DEF Steady, InStep, Real, ConnectedReal
<1>2. QED
  BY <1>1, AlwaysSteady, PTL

\* While the program waits for the answer to its connect, every handle that is not
\* down is the one in the object, or is about to be stored there.
THEOREM ReachableCorrect == Spec => []Reachable
<1>1. Steady => Reachable
  BY DEF Steady, InStep, Reached, Reachable
<1>2. QED
  BY <1>1, AlwaysSteady, PTL
=============================================================================
