------------------------------ MODULE MrubyMQTT ------------------------------
(***************************************************************************)
(* The mruby binding: the MQTTClient class of src/src/mqtt.c and           *)
(* src/mrblib/mqtt_client.rb over the client library, whose promise is     *)
(* AsyncClient (every connect creates another handle).  The program runs   *)
(* on its own thread; the library's two threads call back with             *)
(* mqttasync_mutex held, so at most one callback is running, and the Ruby  *)
(* code of a callback runs there too.  The interpreter itself, which both  *)
(* threads enter without a lock, is not modelled.                          *)
(***************************************************************************)
EXTENDS Naturals

CONSTANTS
  MaxHandles,      \* bound: connects that get as far as MQTTAsync_create
  MaxCalls,        \* bound: calls that the library accepts
  FailureHandler   \* has the program set on_connect_failure?

ASSUME BoundAssumption == MaxHandles \in Nat /\ MaxCalls \in Nat
ASSUME SwitchAssumption == FailureHandler \in BOOLEAN

Handles == 1..MaxHandles
RequestTypes == {"subscribe", "publish"}

VARIABLES
  view, calls, issued, notified,  \* the library's, see AsyncClient
  handles,         \* number of handles created
  self,            \* _self has been assigned
  data,            \* DATA_PTR(_self): the handle its mqtt_state was made for, or 0
  freed,           \* the mqtt_states given to mrb_free
  mqtt_connected,
  program,         \* the program's thread: where it is in a call, and its m
  callback,        \* the callback that is running, and its m
  told,            \* history: what the Ruby callbacks have told the program
  overlapped,      \* history: it has connected before the last connect was answered
  crashed

library == <<view, calls, issued, notified>>
object == <<self, data, freed, mqtt_connected>>
threads == <<program, callback>>
history == <<told, overlapped>>
vars == <<library, handles, object, threads, history, crashed>>

Library == INSTANCE AsyncClient WITH Clients <- Handles

Idle == [pc |-> "idle", m |-> 0]
NoCallback == [pc |-> "none", m |-> 0]
Requests == RequestTypes \cup {"DISCONNECT"}

TypeOK ==
  /\ view \in [Handles -> {"down", "connecting", "up"}]
  /\ calls \in 0..MaxCalls
  /\ issued \in [1..MaxCalls -> [client : Handles, type : Requests \cup {"CONNECT"}]
                                  \cup {Library!NotIssued}]
  /\ notified \in [1..MaxCalls -> {0, 1}]
  /\ handles \in 0..MaxHandles
  /\ self \in BOOLEAN /\ mqtt_connected \in BOOLEAN /\ crashed \in BOOLEAN
  /\ data \in 0..handles
  /\ freed \subseteq 1..handles
  /\ program \in [pc : {"idle", "create", "connect", "attach"} \cup Requests, m : 0..handles]
  /\ callback \in [pc : {"none", "on_connect", "on_message", "free", "create"}, m : 0..handles]
  /\ told \in {"down", "connecting", "up"}
  /\ overlapped \in BOOLEAN

-----------------------------------------------------------------------------
(* The program's thread *)

At(pc) == program.pc = pc /\ ~crashed
Goto(pc, m) == program' = [pc |-> pc, m |-> m]
MutexFree == callback = NoCallback

\* mqtt_connect raises when connected, and goes on to MQTTAsync_create otherwise
Connect ==
  /\ At("idle") /\ ~mqtt_connected /\ handles < MaxHandles
  /\ overlapped' = (overlapped \/ told # "down")
  /\ Goto("create", 0)
  /\ UNCHANGED <<library, handles, object, callback, told, crashed>>

CreateUnregistered ==  \* mutant: the new client is not in the handle list
  /\ At("create") /\ MutexFree
  /\ Goto("connect", handles + 1)
  /\ UNCHANGED <<library, handles, object, callback, history, crashed>>

\* MQTTAsync_create waits for mqttasync_mutex, which a running callback holds
Create ==
  /\ At("create") /\ MutexFree
  /\ handles' = handles + 1
  /\ Goto("connect", handles')
  /\ UNCHANGED <<library, object, callback, history, crashed>>

\* MQTTAsync_connect only queues a command
StartConnect ==
  /\ At("connect")
  /\ Library!Connect(program.m)
  /\ Goto("attach", program.m)
  /\ told' = "connecting"
  /\ UNCHANGED <<handles, object, callback, overlapped, crashed>>

\* the mqtt_state is allocated and stored after the connect has been started
Attach ==
  /\ At("attach")
  /\ data' = program.m /\ self' = TRUE
  /\ Goto("idle", 0)
  /\ UNCHANGED <<library, handles, freed, mqtt_connected, callback, history, crashed>>

\* mqtt_publish, mqtt_subscribe and mqtt_disconnect read DATA_PTR(_self): they
\* crash before the first connect, and raise when it is NULL
StartRequest(t) ==
  /\ At("idle") /\ self /\ data # 0
  /\ Goto(t, data)
  /\ UNCHANGED <<library, handles, object, callback, history, crashed>>
StartUnattached ==
  /\ At("idle") /\ ~self
  /\ crashed' = TRUE
  /\ UNCHANGED <<library, handles, object, threads, history>>

\* then they use m->client, whether m is still allocated or not
FinishRequest(t) ==
  /\ At(t) /\ Goto("idle", 0)
  /\ \/ Library!Request(program.m, t) /\ UNCHANGED crashed
     \/ view[program.m] # "up" /\ UNCHANGED <<library, crashed>>
     \/ program.m \in freed /\ crashed' = TRUE /\ UNCHANGED library
  /\ UNCHANGED <<handles, object, callback, history>>

-----------------------------------------------------------------------------
(* The library calls back.  Every callback reads m = DATA_PTR(_self) and    *)
(* returns at once when it is NULL.                                        *)

MayCall == MutexFree /\ ~crashed

CallUnattached == \* _self is still zero
  /\ ~self
  /\ crashed' = TRUE
  /\ UNCHANGED <<handles, object, threads, history>>
CallIgnored ==
  /\ self /\ data = 0
  /\ UNCHANGED <<handles, object, threads, history, crashed>>
Call(pc, v) ==
  /\ self /\ data # 0
  /\ callback' = [pc |-> pc, m |-> data]
  /\ told' = v
  /\ UNCHANGED <<handles, self, data, freed, program, overlapped, crashed>>

OnConnectFreed(h) ==   \* mutant: frees m, as the other connection callbacks do
  /\ MayCall /\ Library!Connected(h)
  /\ \/ CallUnattached \/ CallIgnored
     \/ Call("free", "up") /\ mqtt_connected' = TRUE

\* mqtt_on_connect
OnConnect(h) ==
  /\ MayCall /\ Library!Connected(h)
  /\ \/ CallUnattached \/ CallIgnored
     \/ Call("on_connect", "up") /\ mqtt_connected' = TRUE

\* mqtt_on_connect_failure: without a handler the Ruby code sleeps and connects,
\* which raises when connected, and waits in MQTTAsync_create otherwise, for
\* the mutex that its own thread holds
OnConnectFailure(h) ==
  /\ MayCall /\ Library!Refused(h)
  /\ \/ CallUnattached \/ CallIgnored
     \/ /\ Call(IF FailureHandler \/ mqtt_connected THEN "free" ELSE "create", "down")
        /\ UNCHANGED mqtt_connected

\* mqtt_connlost: cause is NULL, which mrb_intern_cstr does not take
OnConnectionLost(h) ==
  /\ MayCall /\ Library!Lost(h)
  /\ \/ CallUnattached \/ CallIgnored
     \/ /\ self /\ data # 0 /\ crashed' = TRUE
        /\ UNCHANGED <<handles, object, threads, history>>

OnDisconnectStillConnected(h) ==  \* mutant: mqtt_connected is not reset
  /\ MayCall /\ Library!Disconnected(h)
  /\ \/ CallUnattached \/ CallIgnored
     \/ Call("free", "down") /\ UNCHANGED mqtt_connected

\* mqtt_on_disconnect
OnDisconnect(h) ==
  /\ MayCall /\ Library!Disconnected(h)
  /\ \/ CallUnattached \/ CallIgnored
     \/ Call("free", "down") /\ mqtt_connected' = FALSE

\* mqtt_on_publish, mqtt_on_subscribe and mqtt_on_subscribe_failure
OnAnswer(h, t) ==
  /\ MayCall /\ Library!Answered(h, t)
  /\ UNCHANGED <<handles, object, threads, history, crashed>>

\* mqtt_msgarrvd: a message of a connection; one that comes while DATA_PTR(_self) is
\* NULL is refused
OnMessage(h) ==
  /\ MayCall /\ view[h] = "up" /\ UNCHANGED library
  /\ \/ CallUnattached \/ CallIgnored
     \/ Call("on_message", told) /\ UNCHANGED mqtt_connected

\* the program's on_connect usually subscribes or publishes, and its on_message may answer
RunsHandler == callback.pc \in {"on_connect", "on_message"} /\ ~crashed
RequestInCallback(t) ==
  /\ RunsHandler
  /\ Library!Request(data, t)
  /\ UNCHANGED <<handles, object, threads, history, crashed>>

EndHandler ==
  /\ RunsHandler
  /\ callback' = NoCallback
  /\ UNCHANGED <<library, handles, object, program, history, crashed>>

EndAndFreeOnly ==    \* mutant: DATA_PTR(_self) is not reset
  /\ callback.pc = "free" /\ ~crashed
  /\ freed' = freed \cup {callback.m}
  /\ callback' = NoCallback
  /\ UNCHANGED <<library, handles, self, data, mqtt_connected, program, history, crashed>>

\* the callbacks that end a connection free m and forget the handle
EndAndFree ==
  /\ callback.pc = "free" /\ ~crashed
  /\ freed' = freed \cup {callback.m}
  /\ data' = 0
  /\ callback' = NoCallback
  /\ UNCHANGED <<library, handles, self, mqtt_connected, program, history, crashed>>

-----------------------------------------------------------------------------
Init ==
  /\ Library!Init
  /\ handles = 0
  /\ self = FALSE /\ data = 0 /\ freed = {} /\ mqtt_connected = FALSE
  /\ program = Idle /\ callback = NoCallback
  /\ told = "down" /\ overlapped = FALSE /\ crashed = FALSE

Program ==
  \/ Connect \/ Create \/ StartConnect \/ Attach \/ StartUnattached
  \/ \E t \in Requests : StartRequest(t) \/ FinishRequest(t)

Callback ==
  \/ \E h \in Handles : \/ OnConnect(h) \/ OnConnectFailure(h) \/ OnConnectionLost(h)
                        \/ OnDisconnect(h) \/ OnMessage(h) \/ \E t \in RequestTypes : OnAnswer(h, t)
  \/ \E t \in RequestTypes : RequestInCallback(t)
  \/ EndHandler \/ EndAndFree

Next == Program \/ Callback
Spec == Init /\ [][Next]_vars

-----------------------------------------------------------------------------
(* Properties *)

\* DATA_PTR(_self) never points to an mqtt_state that a callback has freed,
\* although the program's thread stores it without the mutex.
NoDangling == data \notin freed

\* In a program that waits for the answer to its connect, connected? is true
\* only while the handle that the object holds is connected, so that publish,
\* subscribe and disconnect reach that connection.
ConnectedReal ==
  mqtt_connected /\ ~overlapped /\ ~crashed => data # 0 /\ view[data] = "up"

\* In such a program, a handle that is connecting or connected is the one the
\* object holds, or is about to: no connection goes on that the program cannot
\* disconnect.
Reachable ==
  ~overlapped /\ ~crashed =>
    \A h \in Handles : view[h] # "down" => data = h \/ program = [pc |-> "attach", m |-> h]
=============================================================================
