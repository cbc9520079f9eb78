------------------------------- MODULE AstHeap -------------------------------
(***************************************************************************)
(* The AST nodes in memory: RefCounted and Reference                       *)
(* (src/odb-sdk/src/RefCounted.cpp, Reference.hpp) and what constructors,  *)
(* append, swapChild and duplicate of src/odb-compiler/src/ast do to       *)
(* reference counts and parent pointers.  A heap is a sequence of nodes;   *)
(* a node is named by its place and a place is never used twice, so that   *)
(* an access to a freed node can be told from one to a live node.          *)
(***************************************************************************)
EXTENDS AstClasses, Integers, FiniteSets

NULL == 0
Unset == -1   \* a parent_ no constructor has written (Node::Node leaves it so)

Tags == {"none", "annotated", "not", "plus", "inc"}
Nodes(h) == DOMAIN h

NewNode(class, tag, kids) ==
  [class |-> class, tag |-> tag, kids |-> kids, parent |-> Unset, refs |-> 0, live |-> TRUE]

Slots(h, n) == DOMAIN h[n].kids
Children(h, n) == {h[n].kids[i] : i \in Slots(h, n)} \ {NULL}
Live(h) == {n \in Nodes(h) : h[n].live}

-----------------------------------------------------------------------------
AddRef(h, n) == IF n = NULL THEN h ELSE [h EXCEPT ![n].refs = @ + 1]

\* releaseRef(): the last reference deletes the node, and the references its
\* children hold follow.  Yields the heap and the releases still to come.
Release(h, n, later) ==
  IF n = NULL THEN [heap |-> h, later |-> later]
  ELSE IF h[n].refs > 1 THEN [heap |-> [h EXCEPT ![n].refs = @ - 1], later |-> later]
  ELSE [heap |-> [h EXCEPT ![n] = [h[n] EXCEPT !.refs = @ - 1, !.live = FALSE]],
        later |-> h[n].kids \o later]

\* Node p takes a reference to n and becomes its parent.
Adopt(h, p, n) == [h EXCEPT ![n] = [h[n] EXCEPT !.refs = @ + 1, !.parent = p]]

\* A constructor: its Reference members take a reference to the children it
\* is given, and each child that is not null gets the new node as parent.
Construct(h, class, tag, kids) ==
  LET p == Len(h) + 1
  IN Append([n \in Nodes(h) |->
               IF \E i \in DOMAIN kids : kids[i] = n THEN Adopt(h, p, n)[n] ELSE h[n]],
            NewNode(class, tag, kids))

\* appendExpression, appendStatement, appendCase, appendVarDecl: cases stand
\* before default cases and variables before arrays, whatever their order.
Later == {"DefaultCase", "ArrayDecl", "UDTArrayDecl"}
AppendChild(h, list, n) ==
  LET kids == h[list].kids
      at == IF h[n].class \in Later THEN Len(kids)
            ELSE Cardinality({i \in DOMAIN kids : h[kids[i]].class \notin Later})
  IN [Adopt(h, list, n) EXCEPT
        ![list].kids = SubSeq(kids, 1, at) \o <<n>> \o SubSeq(kids, at + 1, Len(kids))]

-----------------------------------------------------------------------------
\* The nodes accept() reaches from n.
Below(h, n) ==
  LET Reach[s \in SUBSET Nodes(h)] ==
        LET more == s \cup UNION {Children(h, m) : m \in s}
        IN IF more = s THEN s ELSE Reach[more]
  IN Reach[{n} \ {NULL}]

\* duplicate(): a copy of every node of the subtree, each with one reference
\* except the copy of n itself, which nobody owns yet and no one is parent of.
Duplicate(h, n) ==
  LET old == Below(h, n)
      Copy(m) == IF m = NULL THEN NULL ELSE Len(h) + Cardinality({o \in old : o <= m})
      Original(i) == CHOOSE m \in old : Copy(m) = i
      Owner(m) == CHOOSE o \in old : m \in Children(h, o)
      Copied(m) ==
        [h[m] EXCEPT !.kids = [i \in Slots(h, m) |-> Copy(h[m].kids[i])],
                     !.parent = IF m = n THEN Unset ELSE Copy(Owner(m)),
                     !.refs = IF m = n THEN 0 ELSE 1]
  IN [heap |-> [i \in 1 .. Len(h) + Cardinality(old) |->
                  IF i <= Len(h) THEN h[i] ELSE Copied(Original(i))],
      root |-> Copy(n)]

\* swapChild(): the first slot that holds the child takes the new node, null
\* if the slot's class is another (dynamic_cast), and drops its reference to
\* the child.  No slot, or one swapChild does not look for: assert(false).
Swappable(h, p, old) ==
  {i \in Slots(h, p) : h[p].kids[i] = old /\ Accepts(h[p].class, i).swaps}
SwapChild(h, p, old, new) ==
  LET i == CHOOSE j \in Swappable(h, p, old) : \A l \in Swappable(h, p, old) : j <= l
      fits == h[new].class \in Accepts(h[p].class, i).types
      owned == IF fits THEN AddRef(h, new) ELSE h
      placed == [owned EXCEPT ![p].kids[i] = IF fits THEN new ELSE NULL]
  IN IF Class[h[p].class].adopts THEN [placed EXCEPT ![new].parent = p] ELSE placed

\* The children of n are what its class declares.
FitsItsClass(h, n) ==
  LET class == h[n].class IN
    /\ IsList(class) \/ Len(h[n].kids) = Len(Class[class].slots)
    /\ \A i \in Slots(h, n) :
         IF h[n].kids[i] = NULL THEN Accepts(class, i).optional
         ELSE h[h[n].kids[i]].class \in Accepts(class, i).types
=============================================================================
