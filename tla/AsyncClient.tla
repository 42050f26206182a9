----------------------------- MODULE AsyncClient -----------------------------
(***************************************************************************)
(* What the asynchronous client promises its application, without queue,   *)
(* threads or sockets: the state that the callbacks have reported for each *)
(* handle, and which calls have been reported.  MQTTAsync implements it,   *)
(* and MrubyMQTT is built on it.                                           *)
(***************************************************************************)
EXTENDS Naturals

CONSTANTS
  Clients,       \* the handles
  RequestTypes,  \* the calls that are answered, besides connect and disconnect
  MaxCalls       \* bound: API calls the application makes

VARIABLES
  view,      \* what the callbacks have told of each handle
  calls,     \* the number of calls accepted
  issued,    \* what each call asked for, and of which handle
  notified   \* how often each call has been reported

vars == <<view, calls, issued, notified>>

Ids == 1..MaxCalls
NotIssued == [type |-> "none"]

Init ==
  /\ view = [c \in Clients |-> "down"]
  /\ calls = 0
  /\ issued = [i \in Ids |-> NotIssued]
  /\ notified = [i \in Ids |-> 0]

\* a call of the application is accepted: its number is the next one
Accept(c, t) ==
  /\ calls < MaxCalls
  /\ calls' = calls + 1
  /\ issued' = [issued EXCEPT ![calls + 1] = [client |-> c, type |-> t]]

\* the callback of call i is called, for the first time
Report(i) ==
  /\ notified[i] = 0
  /\ notified' = [notified EXCEPT ![i] = 1]

Tell(c, v) == view' = [view EXCEPT ![c] = v]
IsCall(i, c, t) == issued[i] = [client |-> c, type |-> t]

Connect(c) ==
  view[c] = "down" /\ Accept(c, "CONNECT") /\ Tell(c, "connecting") /\ UNCHANGED notified

Request(c, t) ==
  view[c] = "up" /\ Accept(c, t) /\ UNCHANGED <<view, notified>>

\* onSuccess and onFailure of a connect
Connected(c) ==
  /\ view[c] = "connecting" /\ Tell(c, "up")
  /\ \E i \in Ids : IsCall(i, c, "CONNECT") /\ Report(i)
  /\ UNCHANGED <<calls, issued>>
Refused(c) ==
  /\ view[c] = "connecting" /\ Tell(c, "down")
  /\ \E i \in Ids : IsCall(i, c, "CONNECT") /\ Report(i)
  /\ UNCHANGED <<calls, issued>>

\* connectionLost
Lost(c) ==
  /\ view[c] = "up" /\ Tell(c, "down")
  /\ UNCHANGED <<calls, issued, notified>>

\* onSuccess of a disconnect, which may find the handle connecting again
Disconnected(c) ==
  /\ view[c] # "down" /\ Tell(c, "down")
  /\ \E i \in Ids : IsCall(i, c, "DISCONNECT") /\ Report(i)
  /\ UNCHANGED <<calls, issued>>

\* onSuccess or onFailure of a request
Answered(c, t) ==
  /\ \E i \in Ids : IsCall(i, c, t) /\ Report(i)
  /\ UNCHANGED <<view, calls, issued>>

Next ==
  \E c \in Clients :
    \/ Connect(c) \/ Connected(c) \/ Refused(c) \/ Lost(c) \/ Disconnected(c)
    \/ Request(c, "DISCONNECT")
    \/ \E t \in RequestTypes : Request(c, t) \/ Answered(c, t)

Spec == Init /\ [][Next]_vars
=============================================================================
