------------------------------ MODULE LinkedList ------------------------------
(***************************************************************************)
(* A linked list of src/src/LinkedList.c over the heap of Heap.tla, used   *)
(* by one thread: its elements and its contents are blocks of the heap.    *)
(* Searching leaves the list's current pointer at what it found, and the   *)
(* next search begins there.                                               *)
(***************************************************************************)
EXTENDS Heap

CONSTANTS
  Setups   \* bounds of a run: the addresses used, the elements at most, the blocks
           \* held when one more is allocated, the sizes of malloc and of realloc, and
           \* whether malloc gives any free address or the lowest

ASSUME SetupsAssumption ==
  \A s \in Setups : /\ s.addresses \in 1..MaxAddress /\ s.elements \in Nat /\ s.held \in Nat
                    /\ s.sizes \subseteq Sizes /\ s.resizes \subseteq Sizes /\ s.anywhere \in BOOLEAN

VARIABLES
  setup,   \* the setup chosen
  heap,    \* the table of allocations
  list,    \* first, last, current, count, and the elements by their address
  held     \* the blocks that the program has and that are not in the list

vars == <<setup, heap, list, held>>

NULL == 0
ListZero == [first |-> NULL, last |-> NULL, current |-> NULL, count |-> 0, elements |-> <<>>]
Element(content, prev, next) == [content |-> content, prev |-> prev, next |-> next]

-----------------------------------------------------------------------------
(* The functions of the list, without the heap *)

SetNext(l, a, next) ==
  IF a = NULL THEN [l EXCEPT !.first = next] ELSE [l EXCEPT !.elements[a].next = next]
SetPrev(l, a, prev) ==
  IF a = NULL THEN [l EXCEPT !.last = prev] ELSE [l EXCEPT !.elements[a].prev = prev]

InsertReplaces(l, content, newel, index) ==   \* mutant: the element index is overwritten
  IF index # NULL THEN [l EXCEPT !.elements[index].content = content]
  ELSE [SetPrev(SetNext(l, l.last, newel), NULL, newel)
          EXCEPT !.elements = With(@, newel, Element(content, l.last, NULL)), !.count = @ + 1]

\* before the element index, or at the end when it is NULL
ListInsert(l, content, newel, index) ==
  LET prev == IF index = NULL THEN l.last ELSE l.elements[index].prev
      linked == SetPrev(SetNext(l, prev, newel), index, newel)
  IN  [linked EXCEPT !.elements = With(@, newel, Element(content, prev, index)),
                     !.count = @ + 1]

\* the elements from the first one on
ListNextElement(l, a) == IF a = NULL THEN l.first ELSE l.elements[a].next
Chain(l) ==
  LET at[k \in 1..l.count] == ListNextElement(l, IF k = 1 THEN NULL ELSE at[k - 1])
  IN  [k \in 1..l.count |-> at[k]]

\* by the pointer to the content, or by a callback that compares what it holds
Comparisons == {[kind |-> "pointer", with |-> c] : c \in 1..setup.addresses}
               \cup {[kind |-> "callback", with |-> Heap_roundup(s)] : s \in setup.sizes}
Same(compare, content) ==
  IF compare.kind = "pointer" THEN content = compare.with
  ELSE heap.blocks[content] = compare.with

\* the current element when it matches, or else the first that does; the search
\* makes what it found the current element
ListFindItem(l, compare) ==
  LET match(a) == Same(compare, l.elements[a].content)
      first == SelectInSeq(Chain(l), match)
  IN  IF l.current # NULL /\ match(l.current) THEN l.current
      ELSE IF first = 0 THEN NULL ELSE Chain(l)[first]

\* the current pointer is put back, or moves on when its element is freed
CurrentAfter(saved, found, next) == IF saved = found THEN next ELSE saved

\* the element a is taken out, and the current pointer moves on if it was there
TakenOut(l, a, current) ==
  LET e == l.elements[a]
      linked == SetPrev(SetNext(l, e.prev, e.next), e.next, e.prev)
  IN  [linked EXCEPT !.elements = Restrict(@, DOMAIN @ \ {a}),
                     !.current = current, !.count = @ - 1]
ListUnlink(l, a) == TakenOut(l, a, CurrentAfter(l.current, a, l.elements[a].next))

PopTailKeepsCurrent(l) == TakenOut(l, l.last, l.current)   \* mutant: current may be freed
ListPopTail(l) == TakenOut(l, l.last, CurrentAfter(l.current, l.last, l.elements[l.last].prev))
ListDetachHead(l) == ListUnlink(l, l.first)

-----------------------------------------------------------------------------
(* The program: one call, with the allocations it makes *)

Free ==
  LET free == (1..setup.addresses) \ DOMAIN heap.blocks
  IN  IF setup.anywhere THEN free ELSE {a \in free : \A b \in free : a <= b}
Calls == heap.mutex = "free" /\ UNCHANGED setup
Room == list.count < setup.elements

Malloc ==
  \E ptr \in Free, size \in setup.sizes :
    /\ Calls /\ Cardinality(held) < setup.held
    /\ heap' = mymalloc(heap, ptr, size)
    /\ held' = held \cup {ptr}
    /\ UNCHANGED list

FreeBlock ==
  \E ptr \in held :
    /\ Calls
    /\ heap' = myfree(heap, ptr)
    /\ held' = held \ {ptr}
    /\ UNCHANGED list

\* a block that is not in the table is not moved
Realloc ==
  \E ptr \in held, size \in setup.resizes :
    \E new \in (IF Found(heap, ptr) THEN Free \cup {ptr} ELSE {ptr}) :
      /\ Calls
      /\ heap' = myrealloc(heap, ptr, new, size)
      /\ held' = (held \ {ptr}) \cup {new}
      /\ UNCHANGED list

OutOfMemory ==
  /\ Calls
  /\ heap' \in {mymallocFails(heap)}
               \cup {myreallocFails(heap, ptr, size) : ptr \in held, size \in setup.resizes}
  /\ UNCHANGED <<list, held>>

ElementSize == 24

\* ListInsert, and ListAppend with index NULL
Insert ==
  \E content \in held, newel \in Free, index \in DOMAIN list.elements \cup {NULL} :
    /\ Calls /\ Room
    /\ heap' = mymalloc(heap, newel, ElementSize)
    /\ list' = ListInsert(list, content, newel, index)
    /\ held' = held \ {content}

Find ==
  \E compare \in Comparisons :
    LET a == ListFindItem(list, compare)
    IN  /\ Calls
        /\ list' = IF a = NULL THEN list ELSE [list EXCEPT !.current = a]
        /\ UNCHANGED <<heap, held>>

\* ListRemove and ListRemoveItem free the content, ListDetach and ListDetachItem
\* leave it to the caller
Unlink ==
  \E compare \in Comparisons, freeContent \in BOOLEAN :
    LET a == ListFindItem(list, compare)
        content == list.elements[a].content
    IN  /\ Calls /\ a # NULL
        /\ list' = ListUnlink(list, a)
        /\ heap' = myfree(IF freeContent THEN myfree(heap, content) ELSE heap, a)
        /\ held' = IF freeContent THEN held ELSE held \cup {content}

\* ListDetachHead, and ListRemoveHead, which frees the content
RemoveHead ==
  \E freeContent \in BOOLEAN :
    LET content == list.elements[list.first].content
        detached == myfree(heap, list.first)
    IN  /\ Calls /\ list.count > 0
        /\ list' = ListDetachHead(list)
        /\ heap' = IF freeContent THEN myfree(detached, content) ELSE detached
        /\ held' = IF freeContent THEN held ELSE held \cup {content}

PopTail ==
  /\ Calls /\ list.count > 0
  /\ heap' = myfree(heap, list.last)
  /\ held' = held \cup {list.elements[list.last].content}
  /\ list' = ListPopTail(list)

\* the elements of the list are freed from the first one on, each after its content
AllFreed(h, l, freeContent) ==
  LET chain == Chain(l)
      one(g, a) == myfree(IF freeContent THEN myfree(g, l.elements[a].content) ELSE g, a)
      freed[k \in 0..l.count] == IF k = 0 THEN h ELSE one(freed[k - 1], chain[k])
  IN  freed[l.count]

\* ListEmpty, and ListFreeNoContent, which leaves the contents to the caller
Empty ==
  \E freeContent \in BOOLEAN :
    /\ Calls /\ list.count > 0
    /\ list' = ListZero
    /\ heap' = AllFreed(heap, list, freeContent)
    /\ held' = IF freeContent THEN held
               ELSE held \cup {list.elements[a].content : a \in DOMAIN list.elements}

-----------------------------------------------------------------------------
Init ==
  /\ setup \in Setups
  /\ heap = NoBlocks
  /\ list = ListZero
  /\ held = {}

Next ==
  \/ Malloc \/ FreeBlock \/ Realloc \/ OutOfMemory
  \/ Insert \/ Find \/ Unlink \/ RemoveHead \/ PopTail \/ Empty

Spec == Init /\ [][Next]_vars

-----------------------------------------------------------------------------
(* Properties *)

Contents(l) == {l.elements[a].content : a \in DOMAIN l.elements}
Order(l) == LET chain == Chain(l) IN [k \in DOMAIN chain |-> l.elements[chain[k]].content]

\* The table is a red-black tree in the order of the addresses whatever was
\* allocated and freed, and a walk finds every record once (Tree.c).
TreeSound ==
  /\ RedBlack(heap.tree.nodes)
  /\ Cardinality(DOMAIN heap.tree.nodes) = heap.tree.count
  /\ Walk(heap.tree).after = NoNode
  /\ \A i \in 2..heap.tree.count : HeapScan(heap)[i - 1] < HeapScan(heap)[i]

\* While no allocation has failed, the table records exactly the blocks that the
\* program can still reach: those it holds, and the elements and contents of the list;
\* none is freed twice or forgotten, and current_size is their size (Heap.c).
Accounted ==
  LET blocks == DOMAIN heap.blocks
      sizes == [b \in blocks |-> heap.blocks[b]]
  IN  heap.mutex = "free" =>
        /\ ToSet(HeapScan(heap)) = blocks
        /\ blocks = held \cup DOMAIN list.elements \cup Contents(list)
        /\ Cardinality(blocks) = Cardinality(held) + 2 * list.count
        /\ heap.current_size = FoldFunction(+, 0, sizes)

\* The two chains of pointers agree, end where the list says, and the current
\* pointer is at an element or nowhere (LinkedList.c).
WellLinked ==
  LET chain == Chain(list)
      at(k) == IF k \in DOMAIN chain THEN chain[k] ELSE NULL
  IN  /\ ToSet(chain) = DOMAIN list.elements /\ list.count = Cardinality(DOMAIN list.elements)
      /\ list.last = at(list.count)
      /\ \A k \in DOMAIN chain : list.elements[chain[k]] =
           Element(list.elements[chain[k]].content, at(k - 1), at(k + 1))
      /\ list.current \in DOMAIN list.elements \cup {NULL}

\* A call adds one content, takes out one, or empties the list; the others keep
\* their order.
KeepsOrder ==
  [][LET old == Order(list) new == Order(list')
     IN  \/ new = old \/ new = <<>>
         \/ \E i \in DOMAIN new : old = RemoveAt(new, i)
         \/ \E i \in DOMAIN old : new = RemoveAt(old, i)]_vars
=============================================================================
