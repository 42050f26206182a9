--------------------------------- MODULE Heap ---------------------------------
(***************************************************************************)
(* The table of allocations of src/src/Heap.c: every block that the library  *)
(* allocates is recorded, by its address, in a tree, so that a free can be *)
(* checked and what was not freed be reported.  The C library's malloc is  *)
(* external: it gives any address that is free, or none.                   *)
(***************************************************************************)
EXTENDS Tree

CONSTANTS
  MaxAddress,  \* bound: the addresses that malloc can give are 1..MaxAddress
  Sizes        \* the sizes that the program asks for

ASSUME HeapAssumption == MaxAddress \in Nat \ {0} /\ Sizes \subseteq Nat

\* the fields: the tree, the size of every block that the system has given out,
\* the sum of the sizes, and whether heap_mutex is free
NoBlocks == [tree |-> EmptyTree, blocks |-> <<>>, current_size |-> 0, mutex |-> "free"]

\* a multiple of 4 * sizeof(int)
Heap_roundup(size) == ((size + 15) \div 16) * 16

mymalloc(h, ptr, size) ==
  LET s == Heap_roundup(size)
  IN  [h EXCEPT !.tree = TreeAdd(@, ptr), !.blocks = With(@, ptr, s),
                !.current_size = @ + s]

\* malloc gives nothing: the mutex is not unlocked
mymallocFails(h) == [h EXCEPT !.mutex = "left locked"]

\* Internal_heap_unlink: an address that is not recorded is only logged
Found(h, ptr) == TreeFind(h.tree.nodes, ptr) \in DOMAIN h.tree.nodes
myfree(h, ptr) ==
  IF Found(h, ptr)
  THEN [h EXCEPT !.tree = TreeRemoveNode(@, TreeFind(@.nodes, ptr)),
                 !.blocks = Restrict(@, DOMAIN @ \ {ptr}),
                 !.current_size = @ - h.blocks[ptr]]
  ELSE h

myreallocInPlace(h, ptr, new, size) ==   \* mutant: the record keeps its address
  IF Found(h, ptr) THEN [h EXCEPT !.blocks = With(Restrict(@, DOMAIN @ \ {ptr}), new, Heap_roundup(size))]
  ELSE h

\* the record is taken out of the tree and put back under the new address
myrealloc(h, ptr, new, size) ==
  LET s == Heap_roundup(size)
  IN  IF Found(h, ptr)
      THEN [h EXCEPT !.tree = TreeAdd(TreeRemove(@, ptr), new),
                     !.blocks = With(Restrict(@, DOMAIN @ \ {ptr}), new, s),
                     !.current_size = @ + s - h.blocks[ptr]]
      ELSE h

\* the record is out of the tree, its size counted as if it had changed
myreallocFails(h, ptr, size) ==
  [h EXCEPT !.tree = TreeRemove(@, ptr), !.mutex = "left locked",
            !.current_size = @ + Heap_roundup(size) - h.blocks[ptr]]

\* what HeapScan reports, in order
HeapScan(h) ==
  LET walk == Walk(h.tree).nodes IN [i \in DOMAIN walk |-> h.tree.nodes[walk[i]].content]
=============================================================================
