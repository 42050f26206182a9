------------------------------- MODULE Delivery -------------------------------
(***************************************************************************)
(* What a quality of service promises for the messages of one direction,   *)
(* without packets, identifiers or a store (src/src/MQTTAsync.h, 1069 to   *)
(* 1090): a message that was accepted is kept until it has been delivered, *)
(* QoS 1 at least once, QoS 2 once.  The session of MQTTProtocolClient     *)
(* implements it in both directions.                                       *)
(***************************************************************************)
EXTENDS Naturals, Sequences, SequencesExt

VARIABLES
  qos,        \* the quality of service of each message
  clean,      \* may the session forget what it has not delivered?
  accepted,   \* the messages accepted are 1..accepted
  delivered,  \* the messages delivered, in order
  forgotten   \* those that neither side keeps

vars == <<qos, clean, accepted, delivered, forgotten>>

Delivered(n) == Contains(delivered, n)

Init ==
  /\ qos \in Seq(0..2)
  /\ clean \in BOOLEAN
  /\ accepted = 0
  /\ delivered = <<>>
  /\ forgotten = {}

Accept ==
  /\ accepted < Len(qos)
  /\ accepted' = accepted + 1
  /\ UNCHANGED <<qos, clean, delivered, forgotten>>

\* the side that gives the message away may forget it at once
Deliver(n) ==
  /\ qos[n] = 1 \/ ~Delivered(n)
  /\ qos[n] = 2 => n \notin forgotten
  /\ delivered' = Append(delivered, n)
  /\ forgotten' \in {forgotten, forgotten \cup {n}}
  /\ UNCHANGED <<qos, clean, accepted>>

\* QoS 0, and a clean session, promise nothing
Forget(S) ==
  /\ \A n \in S : qos[n] = 0 \/ clean \/ Delivered(n)
  /\ forgotten' = forgotten \cup S
  /\ UNCHANGED <<qos, clean, accepted, delivered>>

Next ==
  \/ Accept
  \/ \E n \in 1..accepted : Deliver(n)
  \/ \E S \in SUBSET ((1..accepted) \ forgotten) : Forget(S)

Spec == Init /\ [][Next]_vars
=============================================================================
