--------------------------------- MODULE Tree ---------------------------------
(***************************************************************************)
(* The red-black tree of src/src/Tree.c, which records the allocations of  *)
(* the library.  A node is known by its position, the turns taken from the *)
(* root: a position replaces the pointers to the parent and the children,  *)
(* and a rotation moves positions.  Contents are ordered by number.        *)
(***************************************************************************)
EXTENDS Integers, Sequences, SequencesExt

LEFT == 0
RIGHT == 1
Other(d) == 1 - d
NoNode == <<-1>>

\* the function f with x taken to e
With(f, x, e) == [y \in DOMAIN f \cup {x} |-> IF y = x THEN e ELSE f[y]]

EmptyTree == [nodes |-> <<>>, count |-> 0]

isRed(t, p) == p \in DOMAIN t /\ t[p].red
isBlack(t, p) == ~isRed(t, p)
Paint(t, p, red) == IF p \in DOMAIN t THEN [t EXCEPT ![p].red = red] ELSE t

-----------------------------------------------------------------------------
(* Rotation *)

\* where a rotation at p takes the position q: the child of p on the other side
\* comes to p, and p goes down in the direction d
Turned(p, d, q) ==
  LET r == SubSeq(q, Len(p) + 1, Len(q))
  IN  IF ~IsPrefix(p, q) THEN q
      ELSE IF r = <<>> \/ Head(r) = d THEN p \o <<d>> \o r
      ELSE IF Len(r) > 1 /\ r[2] = d THEN p \o <<d, Other(d)>> \o SubSeq(r, 3, Len(r))
      ELSE p \o Tail(r)

Moved(t, To(_)) ==
  [q \in {To(x) : x \in DOMAIN t} |-> t[CHOOSE x \in DOMAIN t : To(x) = q]]
TreeRotate(t, p, d) == Moved(t, LAMBDA q : Turned(p, d, q))

-----------------------------------------------------------------------------
(* Finding and adding *)

\* the position of the content, or the free position where the search ends
TreeFind(t, content) ==
  LET from[p \in Seq({LEFT, RIGHT})] ==
        IF p \notin DOMAIN t \/ t[p].content = content THEN p
        ELSE from[Append(p, IF t[p].content > content THEN LEFT ELSE RIGHT)]
  IN  from[<<>>]

\* one step up of a node that is red like its parent; which is the uncle's side
TreeBAASub(t, p, which) ==
  LET parent == Front(p)
      grand == Front(parent)
      uncle == Append(grand, which)
      inner == Last(p) = which
      straight == IF inner THEN TreeRotate(t, parent, Other(which)) ELSE t
      lower == IF inner THEN Append(parent, Other(which)) ELSE p
  IN  IF isRed(t, uncle)
      THEN [t |-> Paint(Paint(Paint(t, parent, FALSE), uncle, FALSE), grand, TRUE), p |-> grand]
      ELSE [t |-> TreeRotate(Paint(Paint(straight, parent, FALSE), grand, TRUE), grand, which),
            p |-> Turned(grand, which, lower)]

TreeBalanceAfterAdd(t, p) ==
  LET going(c) == Len(c.p) > 1 /\ isRed(c.t, Front(c.p))
      uncleSide(c) == Other(Last(Front(c.p)))
      step[k \in 0..Len(p)] ==
        IF k = 0 THEN [t |-> t, p |-> p]
        ELSE IF going(step[k - 1])
             THEN TreeBAASub(step[k - 1].t, step[k - 1].p, uncleSide(step[k - 1]))
             ELSE step[k - 1]
  IN  Paint(step[Len(p)].t, <<>>, FALSE)

\* a content that is there already replaces itself
TreeAdd(tree, content) ==
  LET p == TreeFind(tree.nodes, content)
      new == With(tree.nodes, p, [content |-> content, red |-> TRUE])
  IN  IF p \in DOMAIN tree.nodes THEN tree
      ELSE [nodes |-> TreeBalanceAfterAdd(new, p), count |-> tree.count + 1]

-----------------------------------------------------------------------------
(* Walking *)

TreeMinimum(t, p) ==
  LET down[q \in Seq({LEFT, RIGHT})] ==
        IF Append(q, LEFT) \in DOMAIN t THEN down[Append(q, LEFT)] ELSE q
  IN  down[p]

\* the leftmost node of the right subtree, or the first ancestor it is left of
TreeSuccessor(t, p) ==
  LET ups == {i \in DOMAIN p : p[i] = LEFT}
  IN  IF Append(p, RIGHT) \in DOMAIN t THEN TreeMinimum(t, Append(p, RIGHT))
      ELSE IF ups = {} THEN NoNode
      ELSE SubSeq(p, 1, (CHOOSE i \in ups : \A j \in ups : j <= i) - 1)

TreeNextElement(t, p) ==
  IF p # NoNode THEN TreeSuccessor(t, p)
  ELSE IF DOMAIN t = {} THEN NoNode
  ELSE TreeMinimum(t, <<>>)

-----------------------------------------------------------------------------
(* Removing *)

NephewStays(t, sibling, which) == t   \* mutant: the inner red nephew is left inside

\* a red nephew on the inner side is turned to the outer one
NephewOut(t, sibling, which) ==
  IF isBlack(t, Append(sibling, which))
  THEN TreeRotate(Paint(Paint(t, Append(sibling, Other(which)), FALSE), sibling, TRUE),
                  sibling, which)
  ELSE t

\* one step of a node whose paths lack a black node; which is the sibling's side.
\* A node that is not there stands for the temporary one of the code.
TreeBARSub(t0, p0, which) ==
  LET above == Front(p0)
      red == isRed(t0, Append(above, which))
      t == IF red
           THEN TreeRotate(Paint(Paint(t0, Append(above, which), FALSE), above, TRUE),
                           above, Other(which))
           ELSE t0
      p == IF red THEN Turned(above, Other(which), p0) ELSE p0
      parent == Front(p)
      sibling == Append(parent, which)
      far == Append(sibling, which)
      straight == NephewOut(t, sibling, which)
      painted == Paint(Paint(Paint(straight, sibling, isRed(straight, parent)),
                             parent, FALSE), far, FALSE)
  IN  IF sibling \notin DOMAIN t THEN [t |-> t, p |-> parent]
      ELSE IF isBlack(t, Append(sibling, Other(which))) /\ isBlack(t, far)
      THEN [t |-> Paint(t, sibling, TRUE), p |-> parent]
      ELSE [t |-> TreeRotate(painted, parent, Other(which)), p |-> <<>>]

TreeBalanceAfterRemove(t, p) ==
  LET going(c) == c.p # <<>> /\ isBlack(c.t, c.p)
      isLeft(c) == IF c.p \in DOMAIN c.t THEN Last(c.p) = LEFT
                   ELSE Append(Front(c.p), LEFT) \notin DOMAIN c.t
      sub(c) == TreeBARSub(c.t, c.p, IF isLeft(c) THEN RIGHT ELSE LEFT)
      max == Len(p) + 2
      step[k \in 0..max] ==
        IF k = 0 THEN [t |-> t, p |-> p]
        ELSE IF going(step[k - 1]) THEN sub(step[k - 1]) ELSE step[k - 1]
  IN  Paint(step[max].t, step[max].p, FALSE)

\* a node with two children takes the content of its successor, which is cut out
\* in its place
TreeRemoveNode(tree, p) ==
  LET t == tree.nodes
      two == Append(p, LEFT) \in DOMAIN t /\ Append(p, RIGHT) \in DOMAIN t
      redundant == IF two THEN TreeSuccessor(t, p) ELSE p
      child == Append(redundant, IF Append(redundant, LEFT) \in DOMAIN t THEN LEFT ELSE RIGHT)
      lifted(q) == IF IsPrefix(child, q)
                   THEN redundant \o SubSeq(q, Len(child) + 1, Len(q)) ELSE q
      cut == Moved(Restrict([t EXCEPT ![p].content = t[redundant].content],
                            DOMAIN t \ {redundant}), lifted)
      whole == IF isRed(t, redundant) \/ (redundant = <<>> /\ child \notin DOMAIN t)
               THEN cut ELSE TreeBalanceAfterRemove(cut, redundant)
  IN  [nodes |-> whole, count |-> tree.count - 1]

TreeRemove(tree, content) ==
  LET p == TreeFind(tree.nodes, content)
  IN  IF p \in DOMAIN tree.nodes THEN TreeRemoveNode(tree, p) ELSE tree

-----------------------------------------------------------------------------
(* What makes a tree a red-black tree, and what a walk through it finds *)

Walk(tree) ==
  LET at[k \in 1..(tree.count + 1)] ==
        TreeNextElement(tree.nodes, IF k = 1 THEN NoNode ELSE at[k - 1])
  IN  [nodes |-> [k \in 1..tree.count |-> at[k]], after |-> at[tree.count + 1]]

RedBlack(t) ==
  LET missing == {p \in {Append(q, d) : q \in DOMAIN t, d \in {LEFT, RIGHT}} : p \notin DOMAIN t}
      blacks(p) == Cardinality({i \in 0..(Len(p) - 1) : isBlack(t, SubSeq(p, 1, i))})
  IN  /\ isBlack(t, <<>>)
      /\ \A p \in DOMAIN t \ {<<>>} : ~(isRed(t, p) /\ isRed(t, Front(p)))
      /\ \A p, q \in missing : blacks(p) = blacks(q)
=============================================================================
