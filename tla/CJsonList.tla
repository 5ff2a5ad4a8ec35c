------------------------------ MODULE CJsonList ------------------------------
(***************************************************************************)
(* The doubly linked lists of gateway/cJSON.c.  A heap is a function from  *)
(* the live cJSON structures to their fields; the children of an array or  *)
(* an object hang on its child field and on each other's next and prev.    *)
(* Each operator is the pointer work of one function, on a heap it is      *)
(* given: what it keeps, and that it does to a list what one does to a    *)
(* sequence, is proved in CJsonTreeProofs.                                 *)
(***************************************************************************)

CONSTANT NoNode   \* the NULL pointer

\* p->next = s and s->prev = p, where either may be NULL.
SetNext(h, p, s) == IF p = NoNode THEN h ELSE [h EXCEPT ![p].next = s]
SetPrev(h, s, p) == IF s = NoNode THEN h ELSE [h EXCEPT ![s].prev = p]

\* n->prev = p and n->next = s.
Placed(h, n, p, s) == [h EXCEPT ![n].prev = p, ![n].next = s]

\* if (item == parent->child) parent->child = to
MoveHead(h, parent, item, to) ==
  IF h[parent].child = item THEN [h EXCEPT ![parent].child = to] ELSE h

\* suffix_object
Suffixed(h, p, n) == [h EXCEPT ![p].next = n, ![n].prev = p]

\* add_item_to_array: the item starts the list or follows its last item.
AddedLast(h, array, last, n) ==
  IF h[array].child = NoNode THEN [h EXCEPT ![array].child = n] ELSE Suffixed(h, last, n)

\* Mutated form: the item behind is not told.
DetachedForward(h, parent, n) ==
  LET p == h[n].prev
      s == h[n].next
      around == SetNext(h, p, s)
  IN  Placed(MoveHead(around, parent, n, s), n, NoNode, NoNode)

\* cJSON_DetachItemViaPointer
Detached(h, parent, n) ==
  LET p == h[n].prev
      s == h[n].next
      around == SetPrev(SetNext(h, p, s), s, p)
  IN  Placed(MoveHead(around, parent, n, s), n, NoNode, NoNode)

\* Mutated form: an item inserted in front of the first does not become the first.
InsertedBehindHead(h, array, after, n) ==
  LET p == h[after].prev
  IN  SetNext(SetPrev(Placed(h, n, p, after), after, n), p, n)

\* cJSON_InsertItemInArray, in front of an item it found.
Inserted(h, array, after, n) ==
  LET p == h[after].prev
      linked == SetPrev(Placed(h, n, p, after), after, n)
  IN  IF h[array].child = after THEN [linked EXCEPT ![array].child = n]
      ELSE SetNext(linked, p, n)

\* cJSON_ReplaceItemViaPointer, up to the deletion of the item.
Replaced(h, parent, n, r) ==
  LET p == h[n].prev
      s == h[n].next
      linked == SetNext(SetPrev(Placed(h, r, p, s), s, r), p, r)
  IN  Placed(MoveHead(linked, parent, n, r), n, NoNode, NoNode)

-----------------------------------------------------------------------------
\* Neighbours agree: n's next has n for its prev, and the other way round.
NeighboursAgree(h) ==
  /\ \A n \in DOMAIN h : h[n].next # NoNode =>
       h[n].next \in DOMAIN h /\ h[h[n].next].prev = n
  /\ \A n \in DOMAIN h : h[n].prev # NoNode =>
       h[n].prev \in DOMAIN h /\ h[h[n].prev].next = n

\* Nobody stands before the first child of a container that owns its children.
HeadsAreFirst(h) ==
  \A a \in DOMAIN h :
    ~h[a].ref /\ h[a].child # NoNode => h[a].child \in DOMAIN h /\ h[h[a].child].prev = NoNode

\* A first child has one owner.
HeadsAreOwnedOnce(h) ==
  \A a, b \in DOMAIN h :
    ~h[a].ref /\ ~h[b].ref /\ h[a].child # NoNode /\ h[a].child = h[b].child => a = b

Linked(h) == NeighboursAgree(h) /\ HeadsAreFirst(h) /\ HeadsAreOwnedOnce(h)
=============================================================================
