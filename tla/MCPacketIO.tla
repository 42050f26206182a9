----------------------------- MODULE MCPacketIO -----------------------------
(***************************************************************************)
(* Instances of PacketIO for TLC, and a statement of the source that the   *)
(* code does not keep.                                                     *)
(***************************************************************************)
EXTENDS PacketIO

In(header, length) == [header |-> header, length |-> length]
Route(base, in, out, pieces, connections) ==
  [base |-> base, in |-> in, out |-> out, pieces |-> pieces, opens |-> connections]

\* in base 2 a length has more digits than are read for 16 and above, and in base 128,
\* that of the protocol, for none that is tried
AllTraffic ==
  {Route(2, <<In(7, 5), In(3, 0)>>, <<>>, 0..9, 2),
   Route(2, <<In(1, 16)>>, <<>>, {0, 1, 5}, 2),
   Route(2, <<>>, <<<<1, 2, 0, 1>>>>, {}, 3),
   Route(128, <<In(9, 128)>>, <<>>, {0, 1, 2, 127}, 1),
   Route(2, <<In(1, 1)>>, <<<<1, 1>>>>, 0..3, 2)}
WriteTraffic == {Route(2, <<>>, <<<<1, 2>>>>, {}, 3)}

-----------------------------------------------------------------------------
(* What the source says and the code does not do; see the README *)

\* "Cleanup any buffers for a specific socket": nothing that was saved for a
\* descriptor outlives its connection.
CleanedUp ==
  \A s \in Sockets \ open :
    /\ QueueOf(buffers, s) = 0 /\ buffers.def_queue.socket # s
    /\ \A w \in ToSet(writes) : w.socket # s
=============================================================================
