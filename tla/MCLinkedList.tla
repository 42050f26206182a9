--------------------------- MODULE MCLinkedList ---------------------------
(***************************************************************************)
(* Setups of LinkedList for TLC: a tree of up to eight addresses, in every *)
(* order of adding and removing; a list of up to three elements, of which  *)
(* the current one is anywhere; contents that compare equal.               *)
(***************************************************************************)
EXTENDS LinkedList

Setup(addresses, elements, holds, sizes, resizes, anywhere) ==
  [addresses |-> addresses, elements |-> elements, held |-> holds, sizes |-> sizes,
   resizes |-> resizes, anywhere |-> anywhere]

AllSetups ==
  {Setup(8, 0, 8, {8}, {8}, TRUE), Setup(6, 3, 1, {8}, {}, FALSE),
   Setup(5, 2, 5, {8}, {8}, TRUE), Setup(4, 2, 4, {8, 40}, {8, 40}, TRUE)}
=============================================================================
