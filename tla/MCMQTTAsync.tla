---------------------------- MODULE MCMQTTAsync ----------------------------
(***************************************************************************)
(* Instances of MQTTAsync for TLC.                                         *)
(***************************************************************************)
EXTENDS MQTTAsync

AllConnects == {"pending", "ready", "failed", "unresolved"}
AllWrites == {"complete", "interrupted", "error"}
AllEvents == {"tcpFail", "peerClose", "refuse", "timeout", "keepAlive", "incoming"}

=============================================================================
