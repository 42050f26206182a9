------------------------- MODULE MCMQTTProtocolClient -------------------------
(***************************************************************************)
(* Instances of MQTTProtocolClient for TLC, and a statement of the source  *)
(* that the code does not keep.                                            *)
(***************************************************************************)
EXTENDS MQTTProtocolClient

Plan(out, in, clean, relDup, id) ==
  [out |-> out, in |-> in, clean |-> clean, relDup |-> relDup, msgID |-> id]

\* out and in over QoS 0, 1 and 2, identifiers that wrap, a clean session
AllPlans ==
  {Plan(<<1, 2, 1>>, <<>>, FALSE, FALSE, MaxMsgId - 1),
   Plan(<<2, 1>>, <<>>, FALSE, FALSE, 0),
   Plan(<<0, 1>>, <<0>>, FALSE, FALSE, 0),
   Plan(<<>>, <<2, 1>>, FALSE, TRUE, 0),
   Plan(<<>>, <<2, 2>>, FALSE, FALSE, 0),
   Plan(<<2>>, <<1>>, FALSE, FALSE, 0),
   Plan(<<1>>, <<2>>, TRUE, FALSE, 0)}
OutPlans == {Plan(<<1, 1>>, <<>>, FALSE, FALSE, 0)}

-----------------------------------------------------------------------------
(* What the source says and the code does not do; see the README *)

\* "Assign a new message id for a client.  Make sure it isn't already being used":
\* no two messages of the client have the same identifier.
FreshId ==
  /\ \A i, j \in DOMAIN outbound : outbound[i].id = outbound[j].id => i = j
  /\ \A m \in ToSet(commands) : m.id # 0 => Found(outbound, m.id) = 0
=============================================================================
