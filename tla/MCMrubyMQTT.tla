---------------------------- MODULE MCMrubyMQTT ----------------------------
(***************************************************************************)
(* The binding for TLC, and a statement of the documentation that the code *)
(* does not keep.                                                          *)
(***************************************************************************)
EXTENDS MrubyMQTT

\* Without an on_connect_failure of the program, a failed connect is tried
\* again: the callback gets past MQTTAsync_create.
ReconnectsAfterFailure == callback.pc # "create"
=============================================================================
