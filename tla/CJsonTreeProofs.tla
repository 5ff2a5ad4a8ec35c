-------------------------- MODULE CJsonTreeProofs --------------------------
(***************************************************************************)
(* The trees of cJSON.c after every history of the caller's calls, for     *)
(* every set of structures malloc may hand out, every number of calls and  *)
(* every allocation that fails inside one of them: lists stay linked,      *)
(* everything allocated has exactly one who frees it, and the pointer work *)
(* of a list function is that of a sequence.                               *)
(*                                                                         *)
(* Tree(h, D, R) is the core: a heap over the structures D whose lists are *)
(* linked, where what stands in no list is R.  Sound adds the count of the *)
(* string blocks.  Of each operator of CJsonHeap it is shown what it does  *)
(* to R: it gives an item, takes one, or fails and leaves R alone.  The    *)
(* invariant is Sound with the caller's items and the lost references for  *)
(* R, and the caller's rules, without which an item could own itself.      *)
(***************************************************************************)
EXTENDS CJsonTree, CJsonProofs, FiniteSetTheorems

-----------------------------------------------------------------------------
(* Pointers, one assignment after the other *)

Pointers(D) == D \cup {NoNode}

\* What a structure is, its place in lists aside.
SameData(r, s) ==
  /\ r.type = s.type /\ r.ref = s.ref /\ r.constKey = s.constKey
  /\ r.string = s.string /\ r.value = s.value

\* Each of the pointers of an item can be assigned.
LEMMA LinkAssigned ==
  ASSUME NEW r \in Item, NEW p \in Pointers(Node)
  PROVE  /\ LET s == [r EXCEPT !.next = p]
            IN  s \in Item /\ s.next = p /\ s.prev = r.prev /\ s.child = r.child /\ SameData(s, r)
         /\ LET s == [r EXCEPT !.prev = p]
            IN  s \in Item /\ s.prev = p /\ s.next = r.next /\ s.child = r.child /\ SameData(s, r)
         /\ LET s == [r EXCEPT !.child = p]
            IN  s \in Item /\ s.child = p /\ s.next = r.next /\ s.prev = r.prev /\ SameData(s, r)
BY DEF Item, SameData, Pointers

\* The pointers of an item are structures or NULL.
LEMMA ItemLinks ==
  ASSUME NEW r \in Item
  PROVE  r.next \in Pointers(Node) /\ r.prev \in Pointers(Node) /\ r.child \in Pointers(Node)
         /\ SameData(r, r)
BY DEF Item, SameData, Pointers

\* What keeps its data twice keeps its data.
LEMMA SameDataAgain ==
  ASSUME NEW r, NEW s, NEW t, SameData(r, s), SameData(s, t)
  PROVE  SameData(r, t)
BY DEF SameData

\* One assignment to one structure: it is an item again, the others stay as they are.
LEMMA FieldAssigned ==
  ASSUME NEW D \in SUBSET Node, NEW h \in [D -> Item], NEW x \in D, NEW r \in Item
  PROVE  LET g == [h EXCEPT ![x] = r]
         IN  g \in [D -> Item] /\ g[x] = r /\ \A y \in D : y # x => g[y] = h[y]
OBVIOUS

\* What an assignment through a pointer that may be NULL does to each structure.
LEMMA NextSet ==
  ASSUME NEW D \in SUBSET Node, NEW h \in [D -> Item], NEW p \in Pointers(D),
         NEW s \in Pointers(D)
  PROVE  /\ SetNext(h, p, s) \in [D -> Item]
         /\ \A x \in D : /\ x = p => SetNext(h, p, s)[x].next = s
                         /\ x # p => SetNext(h, p, s)[x].next = h[x].next
                         /\ SetNext(h, p, s)[x].prev = h[x].prev
                         /\ SetNext(h, p, s)[x].child = h[x].child
                         /\ SameData(SetNext(h, p, s)[x], h[x])
<1>1. NoNode \notin D /\ s \in Pointers(Node) /\ \A x \in D : h[x] \in Item /\ SameData(h[x], h[x])
  BY HeapAssumption, ItemLinks DEF Pointers
<1>2. CASE p = NoNode
  BY <1>1, <1>2 DEF SetNext
<1>3. CASE p \in D
  <2> DEFINE r == [h[p] EXCEPT !.next = s]
             g == [h EXCEPT ![p] = r]
  <2>1. SetNext(h, p, s) = g
    BY <1>1, <1>3 DEF SetNext
  <2>2. r \in Item /\ r.next = s /\ r.prev = h[p].prev /\ r.child = h[p].child /\ SameData(r, h[p])
    BY <1>1, <1>3, LinkAssigned, ZenonT(40)
  <2> HIDE DEF r
  <2>3. g \in [D -> Item] /\ g[p] = r /\ \A y \in D : y # p => g[y] = h[y]
    BY <1>3, <2>2, FieldAssigned
  <2> HIDE DEF g
  <2>4. QED
    BY <1>1, <1>3, <2>1, <2>2, <2>3
<1>4. QED
  BY <1>2, <1>3 DEF Pointers

\* The same of prev.
LEMMA PrevSet ==
  ASSUME NEW D \in SUBSET Node, NEW h \in [D -> Item], NEW s \in Pointers(D),
         NEW p \in Pointers(D)
  PROVE  /\ SetPrev(h, s, p) \in [D -> Item]
         /\ \A x \in D : /\ x = s => SetPrev(h, s, p)[x].prev = p
                         /\ x # s => SetPrev(h, s, p)[x].prev = h[x].prev
                         /\ SetPrev(h, s, p)[x].next = h[x].next
                         /\ SetPrev(h, s, p)[x].child = h[x].child
                         /\ SameData(SetPrev(h, s, p)[x], h[x])
<1>1. NoNode \notin D /\ p \in Pointers(Node) /\ \A x \in D : h[x] \in Item /\ SameData(h[x], h[x])
  BY HeapAssumption, ItemLinks DEF Pointers
<1>2. CASE s = NoNode
  BY <1>1, <1>2 DEF SetPrev
<1>3. CASE s \in D
  <2> DEFINE r == [h[s] EXCEPT !.prev = p]
             g == [h EXCEPT ![s] = r]
  <2>1. SetPrev(h, s, p) = g
    BY <1>1, <1>3 DEF SetPrev
  <2>2. r \in Item /\ r.prev = p /\ r.next = h[s].next /\ r.child = h[s].child /\ SameData(r, h[s])
    BY <1>1, <1>3, LinkAssigned, ZenonT(40)
  <2> HIDE DEF r
  <2>3. g \in [D -> Item] /\ g[s] = r /\ \A y \in D : y # s => g[y] = h[y]
    BY <1>3, <2>2, FieldAssigned
  <2> HIDE DEF g
  <2>4. QED
    BY <1>1, <1>3, <2>1, <2>2, <2>3
<1>4. QED
  BY <1>2, <1>3 DEF Pointers

\* The child pointer of a container.
LEMMA ChildSet ==
  ASSUME NEW D \in SUBSET Node, NEW h \in [D -> Item], NEW a \in D, NEW to \in Pointers(D)
  PROVE  LET g == [h EXCEPT ![a].child = to]
         IN  /\ g \in [D -> Item]
             /\ \A x \in D : /\ x = a => g[x].child = to
                             /\ x # a => g[x].child = h[x].child
                             /\ g[x].next = h[x].next
                             /\ g[x].prev = h[x].prev
                             /\ SameData(g[x], h[x])
<1> DEFINE r == [h[a] EXCEPT !.child = to]
           g == [h EXCEPT ![a] = r]
<1>1. to \in Pointers(Node) /\ \A x \in D : h[x] \in Item /\ SameData(h[x], h[x])
  BY ItemLinks DEF Pointers
<1>2. r \in Item /\ r.child = to /\ r.next = h[a].next /\ r.prev = h[a].prev /\ SameData(r, h[a])
  BY <1>1, LinkAssigned
<1> HIDE DEF r
<1>3. g \in [D -> Item] /\ g[a] = r /\ \A y \in D : y # a => g[y] = h[y]
  BY <1>2, FieldAssigned
<1> HIDE DEF g
<1>4. QED
  BY <1>1, <1>2, <1>3 DEF g, r

\* What Placed does.
LEMMA PlacedAt ==
  ASSUME NEW D \in SUBSET Node, NEW h \in [D -> Item], NEW n \in D,
         NEW p \in Pointers(D), NEW s \in Pointers(D)
  PROVE  /\ Placed(h, n, p, s) \in [D -> Item]
         /\ \A x \in D : /\ x = n => /\ Placed(h, n, p, s)[x].next = s
                                     /\ Placed(h, n, p, s)[x].prev = p
                         /\ x # n => /\ Placed(h, n, p, s)[x].next = h[x].next
                                     /\ Placed(h, n, p, s)[x].prev = h[x].prev
                         /\ Placed(h, n, p, s)[x].child = h[x].child
                         /\ SameData(Placed(h, n, p, s)[x], h[x])
<1> DEFINE behind == SetPrev(h, n, p)
           g == SetNext(behind, n, s)
<1>1. n \in Pointers(D) /\ n # NoNode
  BY HeapAssumption DEF Pointers
<1>2. Placed(h, n, p, s) = g
  BY <1>1 DEF Placed, SetPrev, SetNext
<1>3. /\ behind \in [D -> Item]
      /\ \A x \in D : /\ x = n => behind[x].prev = p
                      /\ x # n => behind[x].prev = h[x].prev
                      /\ behind[x].next = h[x].next
                      /\ behind[x].child = h[x].child
                      /\ SameData(behind[x], h[x])
  BY <1>1, PrevSet
<1> HIDE DEF behind
<1>4. /\ g \in [D -> Item]
      /\ \A x \in D : /\ x = n => g[x].next = s
                      /\ x # n => g[x].next = behind[x].next
                      /\ g[x].prev = behind[x].prev
                      /\ g[x].child = behind[x].child
                      /\ SameData(g[x], behind[x])
  BY <1>1, <1>3, NextSet
<1> HIDE DEF g
<1>5. \A x \in D : SameData(g[x], h[x])
  BY <1>3, <1>4, SameDataAgain
<1>6. QED
  BY <1>2, <1>3, <1>4, <1>5

\* What MoveHead does to each structure.
LEMMA HeadMoved ==
  ASSUME NEW D \in SUBSET Node, NEW h \in [D -> Item], NEW a \in D,
         NEW item \in D, NEW to \in Pointers(D)
  PROVE  /\ MoveHead(h, a, item, to) \in [D -> Item]
         /\ \A x \in D :
              /\ x = a /\ h[a].child = item => MoveHead(h, a, item, to)[x].child = to
              /\ ~(x = a /\ h[a].child = item) => MoveHead(h, a, item, to)[x].child = h[x].child
              /\ MoveHead(h, a, item, to)[x].next = h[x].next
              /\ MoveHead(h, a, item, to)[x].prev = h[x].prev
              /\ SameData(MoveHead(h, a, item, to)[x], h[x])
<1>1. CASE h[a].child = item
  BY <1>1, ChildSet DEF MoveHead
<1>2. CASE h[a].child # item
  <2>1. MoveHead(h, a, item, to) = h
    BY <1>2 DEF MoveHead
  <2>2. \A x \in D : SameData(h[x], h[x])
    BY ItemLinks
  <2>3. QED
    BY <1>2, <2>1, <2>2
<1>3. QED
  BY <1>1, <1>2

-----------------------------------------------------------------------------
(* Lists and who owns them *)

\* n stands in no list and at the head of none.
IsFree(h, n) ==
  /\ h[n].next = NoNode /\ h[n].prev = NoNode
  /\ \A a \in DOMAIN h : ~h[a].ref => h[a].child # n

\* n stands behind another item or at the head of a list.
IsHeld(h, n) ==
  \/ h[n].prev # NoNode
  \/ \E a \in DOMAIN h : ~h[a].ref /\ h[a].child = n

\* A heap over the structures D: its lists are linked, and what stands in none of them
\* is R.
Tree(h, D, R) ==
  /\ D \in SUBSET Node /\ R \in SUBSET D
  /\ h \in [D -> Item]
  /\ Linked(h)
  /\ \A n \in R : IsFree(h, n)
  /\ \A n \in D \ R : IsHeld(h, n)

\* The pointers of a tree lead to structures of it.
LEMMA TreePointers ==
  ASSUME NEW D, NEW R, NEW h, Tree(h, D, R)
  PROVE  /\ DOMAIN h = D /\ NoNode \notin D /\ D \in SUBSET Node /\ h \in [D -> Item]
         /\ \A x \in D : /\ h[x] \in Item /\ h[x].next \in Pointers(D) /\ h[x].prev \in Pointers(D)
                         /\ ~h[x].ref => h[x].child \in Pointers(D)
                         /\ SameData(h[x], h[x])
<1>1. DOMAIN h = D /\ NoNode \notin D /\ D \in SUBSET Node /\ h \in [D -> Item]
  BY HeapAssumption DEF Tree
<1>2. \A x \in D : h[x] \in Item /\ SameData(h[x], h[x])
  BY <1>1, ItemLinks
<1>3. \A x \in D : h[x].next \in Pointers(D) /\ h[x].prev \in Pointers(D)
  BY <1>1 DEF Tree, Linked, NeighboursAgree, Pointers
<1>4. \A x \in D : ~h[x].ref => h[x].child \in Pointers(D)
  BY <1>1 DEF Tree, Linked, HeadsAreFirst, Pointers
<1>5. QED
  BY <1>1, <1>2, <1>3, <1>4

\* The fields behind cJSON_DetachItemViaPointer.
IsDetached(g, h, D, a, n) ==
  LET p == h[n].prev
      s == h[n].next
  IN  /\ g \in [D -> Item]
      /\ g[n].next = NoNode /\ g[n].prev = NoNode
      /\ \A x \in D :
           /\ x = p /\ x # n => g[x].next = s
           /\ x # p /\ x # n => g[x].next = h[x].next
           /\ x = s /\ x # n => g[x].prev = p
           /\ x # s /\ x # n => g[x].prev = h[x].prev
           /\ x = a /\ h[a].child = n => g[x].child = s
           /\ ~(x = a /\ h[a].child = n) => g[x].child = h[x].child
           /\ SameData(g[x], h[x])

\* cJSON_DetachItemViaPointer touches these fields only.
LEMMA DetachedFields ==
  ASSUME NEW D \in SUBSET Node, NEW h \in [D -> Item], NEW a \in D, NEW n \in D,
         h[n].prev \in Pointers(D), h[n].next \in Pointers(D)
  PROVE  IsDetached(Detached(h, a, n), h, D, a, n)
<1> SUFFICES LET g == Detached(h, a, n)
                 p == h[n].prev
                 s == h[n].next
            IN  /\ g \in [D -> Item]
                /\ g[n].next = NoNode /\ g[n].prev = NoNode
                /\ \A x \in D :
                     /\ x = p /\ x # n => g[x].next = s
                     /\ x # p /\ x # n => g[x].next = h[x].next
                     /\ x = s /\ x # n => g[x].prev = p
                     /\ x # s /\ x # n => g[x].prev = h[x].prev
                     /\ x = a /\ h[a].child = n => g[x].child = s
                     /\ ~(x = a /\ h[a].child = n) => g[x].child = h[x].child
                     /\ SameData(g[x], h[x])
  BY DEF IsDetached
<1> DEFINE p == h[n].prev
           s == h[n].next
           first == SetNext(h, p, s)
           around == SetPrev(first, s, p)
           moved == MoveHead(around, a, n, s)
           g == Placed(moved, n, NoNode, NoNode)
<1>1. p \in Pointers(D) /\ s \in Pointers(D) /\ NoNode \in Pointers(D)
  BY DEF Pointers
<1>2. Detached(h, a, n) = g
  BY DEF Detached
<1> HIDE DEF p, s
<1>3. /\ first \in [D -> Item]
      /\ \A x \in D : /\ x = p => first[x].next = s
                      /\ x # p => first[x].next = h[x].next
                      /\ first[x].prev = h[x].prev
                      /\ first[x].child = h[x].child
                      /\ SameData(first[x], h[x])
  BY <1>1, NextSet
<1> HIDE DEF first
<1>4. /\ around \in [D -> Item]
      /\ \A x \in D : /\ x = s => around[x].prev = p
                      /\ x # s => around[x].prev = first[x].prev
                      /\ around[x].next = first[x].next
                      /\ around[x].child = first[x].child
                      /\ SameData(around[x], first[x])
  BY <1>1, <1>3, PrevSet
<1> HIDE DEF around
<1>5. /\ moved \in [D -> Item]
      /\ \A x \in D : /\ x = a /\ around[a].child = n => moved[x].child = s
                      /\ ~(x = a /\ around[a].child = n) => moved[x].child = around[x].child
                      /\ moved[x].next = around[x].next
                      /\ moved[x].prev = around[x].prev
                      /\ SameData(moved[x], around[x])
  BY <1>1, <1>4, HeadMoved
<1> HIDE DEF moved
<1>6. /\ g \in [D -> Item]
      /\ \A x \in D : /\ x = n => g[x].next = NoNode /\ g[x].prev = NoNode
                      /\ x # n => g[x].next = moved[x].next /\ g[x].prev = moved[x].prev
                      /\ g[x].child = moved[x].child
                      /\ SameData(g[x], moved[x])
  BY <1>1, <1>5, PlacedAt
<1> HIDE DEF g
<1>7. \A x \in D : SameData(g[x], h[x])
  BY <1>3, <1>4, <1>5, <1>6, SameDataAgain
<1>8. \A x \in D : /\ x = p /\ x # n => g[x].next = s
                   /\ x # p /\ x # n => g[x].next = h[x].next
                   /\ x = s /\ x # n => g[x].prev = p
                   /\ x # s /\ x # n => g[x].prev = h[x].prev
  BY <1>3, <1>4, <1>5, <1>6
<1>9. \A x \in D : /\ x = a /\ h[a].child = n => g[x].child = s
                   /\ ~(x = a /\ h[a].child = n) => g[x].child = h[x].child
  BY <1>3, <1>4, <1>5, <1>6
<1>10. QED
  BY <1>2, <1>6, <1>7, <1>8, <1>9 DEF p, s

\* Detaching an item, first, last, only or in the middle, leaves every list linked and
\* the item in none, and every other structure where it was (cJSON.c:2073-2101).
THEOREM DetachKeepsLinks ==
  ASSUME NEW D, NEW R, NEW h, Tree(h, D, R), NEW a \in D, ~h[a].ref, NEW n \in D,
         h[n].prev = NoNode => h[a].child = n
  PROVE  /\ Tree(Detached(h, a, n), D, R \cup {n})
         /\ \A x \in D : SameData(Detached(h, a, n)[x], h[x])
<1> DEFINE p == h[n].prev
           s == h[n].next
           g == Detached(h, a, n)
<1>1. /\ DOMAIN h = D /\ NoNode \notin D /\ D \in SUBSET Node /\ h \in [D -> Item]
      /\ p \in Pointers(D) /\ s \in Pointers(D)
      /\ \A x \in D : /\ h[x].next \in Pointers(D) /\ h[x].prev \in Pointers(D)
                      /\ ~h[x].ref => h[x].child \in Pointers(D)
  BY TreePointers
<1>2. /\ g \in [D -> Item]
      /\ g[n].next = NoNode /\ g[n].prev = NoNode
      /\ \A x \in D :
           /\ x = p /\ x # n => g[x].next = s
           /\ x # p /\ x # n => g[x].next = h[x].next
           /\ x = s /\ x # n => g[x].prev = p
           /\ x # s /\ x # n => g[x].prev = h[x].prev
           /\ x = a /\ h[a].child = n => g[x].child = s
           /\ ~(x = a /\ h[a].child = n) => g[x].child = h[x].child
           /\ SameData(g[x], h[x])
  <2>1. IsDetached(g, h, D, a, n)
    BY <1>1, DetachedFields
  <2> HIDE DEF g
  <2>2. QED
    BY <2>1 DEF IsDetached
<1>3. \A x \in D : g[x].ref = h[x].ref
  BY <1>2 DEF SameData
<1>4. /\ \A x \in D : h[x].next # NoNode => h[x].next \in D /\ h[h[x].next].prev = x
      /\ \A x \in D : h[x].prev # NoNode => h[x].prev \in D /\ h[h[x].prev].next = x
      /\ \A x \in D : ~h[x].ref /\ h[x].child # NoNode => h[x].child \in D /\ h[h[x].child].prev = NoNode
      /\ \A x, y \in D : ~h[x].ref /\ ~h[y].ref /\ h[x].child # NoNode /\ h[x].child = h[y].child => x = y
  BY <1>1 DEF Tree, Linked, NeighboursAgree, HeadsAreFirst, HeadsAreOwnedOnce
<1> HIDE DEF g
<1>5. DOMAIN g = D
  BY <1>2
<1>6. NeighboursAgree(g)
  BY <1>1, <1>2, <1>4, <1>5 DEF NeighboursAgree, p, s, Pointers
<1>7. HeadsAreFirst(g)
  BY <1>1, <1>2, <1>3, <1>4, <1>5 DEF HeadsAreFirst, p, s, Pointers
<1>8. HeadsAreOwnedOnce(g)
  BY <1>1, <1>2, <1>3, <1>4, <1>5 DEF HeadsAreOwnedOnce, p, s, Pointers
<1>9. \A x \in R \cup {n} : IsFree(g, x)
  <2>1. \A x \in R : x \in D /\ IsFree(h, x)
    BY DEF Tree
  <2>2. IsFree(g, n)
    BY <1>1, <1>2, <1>3, <1>4, <1>5 DEF IsFree, p, s, Pointers
  <2>3. \A x \in R : x # p /\ x # s /\ x # n
    BY <1>1, <1>4, <2>1 DEF IsFree, p, s, Pointers
  <2>4. ASSUME NEW x \in R
        PROVE  IsFree(g, x)
    <3>1. g[x].next = NoNode /\ g[x].prev = NoNode
      BY <1>2, <2>1, <2>3 DEF IsFree
    <3>2. \A y \in D : ~g[y].ref => g[y].child # x
      BY <1>1, <1>2, <1>3, <2>1, <2>3 DEF IsFree
    <3>3. QED
      BY <1>5, <3>1, <3>2 DEF IsFree
  <2>5. QED
    BY <2>2, <2>4
<1>10. \A x \in D \ (R \cup {n}) : IsHeld(g, x)
  <2> SUFFICES ASSUME NEW x \in D, x \notin R, x # n
               PROVE  IsHeld(g, x)
    OBVIOUS
  <2>1. IsHeld(h, x)
    BY DEF Tree
  <2>2. CASE x = s
    <3>1. CASE p # NoNode
      BY <1>2, <2>2, <3>1 DEF IsHeld
    <3>2. CASE p = NoNode
      BY <1>2, <1>3, <1>5, <2>2, <3>2 DEF IsHeld, p
    <3>3. QED
      BY <3>1, <3>2
  <2>3. CASE x # s /\ h[x].prev # NoNode
    BY <1>2, <2>3 DEF IsHeld
  <2>4. CASE x # s /\ h[x].prev = NoNode
    <3>1. PICK b \in D : ~h[b].ref /\ h[b].child = x
      BY <1>1, <2>1, <2>4 DEF IsHeld
    <3>2. g[b].child = x
      BY <1>2, <3>1
    <3>3. QED
      BY <1>3, <1>5, <3>1, <3>2 DEF IsHeld
  <2>5. QED
    BY <2>2, <2>3, <2>4
<1>11. QED
  BY <1>1, <1>2, <1>6, <1>7, <1>8, <1>9, <1>10 DEF Tree, Linked, g

\* The fields behind add_item_to_array.
IsAdded(g, h, D, a, last, n) ==
  /\ g \in [D -> Item]
  /\ \A x \in D : SameData(g[x], h[x])
  /\ h[a].child = NoNode =>
       \A x \in D : /\ g[x].next = h[x].next /\ g[x].prev = h[x].prev
                    /\ x = a => g[x].child = n
                    /\ x # a => g[x].child = h[x].child
  /\ h[a].child # NoNode =>
       \A x \in D : /\ x = last => g[x].next = n
                    /\ x # last => g[x].next = h[x].next
                    /\ x = n => g[x].prev = last
                    /\ x # n => g[x].prev = h[x].prev
                    /\ g[x].child = h[x].child

\* add_item_to_array touches these fields only.
LEMMA AddedFields ==
  ASSUME NEW D \in SUBSET Node, NEW h \in [D -> Item], NEW a \in D, NEW n \in D, NEW last,
         h[a].child # NoNode => last \in D
  PROVE  IsAdded(AddedLast(h, a, last, n), h, D, a, last, n)
<1> DEFINE g == AddedLast(h, a, last, n)
<1> SUFFICES /\ g \in [D -> Item]
             /\ \A x \in D : SameData(g[x], h[x])
             /\ h[a].child = NoNode =>
                  \A x \in D : /\ g[x].next = h[x].next /\ g[x].prev = h[x].prev
                               /\ x = a => g[x].child = n
                               /\ x # a => g[x].child = h[x].child
             /\ h[a].child # NoNode =>
                  \A x \in D : /\ x = last => g[x].next = n
                               /\ x # last => g[x].next = h[x].next
                               /\ x = n => g[x].prev = last
                               /\ x # n => g[x].prev = h[x].prev
                               /\ g[x].child = h[x].child
  BY DEF IsAdded
<1>1. n \in Pointers(D) /\ n # NoNode
  BY HeapAssumption DEF Pointers
<1>2. CASE h[a].child = NoNode
  <2>1. g = [h EXCEPT ![a].child = n]
    BY <1>2 DEF AddedLast
  <2> HIDE DEF g
  <2>2. QED
    BY <1>1, <1>2, <2>1, ChildSet DEF g
<1>3. CASE h[a].child # NoNode
  <2> DEFINE behind == SetNext(h, last, n)
             f == SetPrev(behind, n, last)
  <2>1. last \in D /\ last \in Pointers(D) /\ last # NoNode
    BY <1>3, HeapAssumption DEF Pointers
  <2>2. g = f
    BY <1>1, <1>3, <2>1 DEF AddedLast, Suffixed, SetNext, SetPrev
  <2> HIDE DEF g
  <2>3. /\ behind \in [D -> Item]
        /\ \A x \in D : /\ x = last => behind[x].next = n
                        /\ x # last => behind[x].next = h[x].next
                        /\ behind[x].prev = h[x].prev
                        /\ behind[x].child = h[x].child
                        /\ SameData(behind[x], h[x])
    BY <1>1, <2>1, NextSet
  <2> HIDE DEF behind
  <2>4. /\ f \in [D -> Item]
        /\ \A x \in D : /\ x = n => f[x].prev = last
                        /\ x # n => f[x].prev = behind[x].prev
                        /\ f[x].next = behind[x].next
                        /\ f[x].child = behind[x].child
                        /\ SameData(f[x], behind[x])
    BY <1>1, <2>1, <2>3, PrevSet
  <2> HIDE DEF f
  <2>5. \A x \in D : SameData(f[x], h[x])
    BY <2>3, <2>4, SameDataAgain
  <2>6. QED
    BY <1>3, <2>2, <2>3, <2>4, <2>5 DEF g
<1>4. QED
  BY <1>2, <1>3

\* Adding an item that stands nowhere to an array, empty or behind its last item, leaves
\* every list linked and every other structure where it was (cJSON.c:1846-1874).
THEOREM AppendKeepsLinks ==
  ASSUME NEW D, NEW R, NEW h, Tree(h, D, R), NEW a \in D, ~h[a].ref, NEW n \in R,
         NEW last, h[a].child # NoNode => last \in D \ R /\ h[last].next = NoNode
  PROVE  /\ Tree(AddedLast(h, a, last, n), D, R \ {n})
         /\ \A x \in D : SameData(AddedLast(h, a, last, n)[x], h[x])
<1> DEFINE g == AddedLast(h, a, last, n)
<1>1. /\ DOMAIN h = D /\ NoNode \notin D /\ D \in SUBSET Node /\ h \in [D -> Item]
      /\ R \in SUBSET D /\ n \in D
      /\ \A x \in D : /\ h[x].next \in Pointers(D) /\ h[x].prev \in Pointers(D)
                      /\ ~h[x].ref => h[x].child \in Pointers(D)
  BY TreePointers DEF Tree
<1>2. h[a].child # NoNode => last \in D
  OBVIOUS
<1>3. /\ g \in [D -> Item]
      /\ \A x \in D : SameData(g[x], h[x])
      /\ h[a].child = NoNode =>
           \A x \in D : /\ g[x].next = h[x].next /\ g[x].prev = h[x].prev
                        /\ x = a => g[x].child = n
                        /\ x # a => g[x].child = h[x].child
      /\ h[a].child # NoNode =>
           \A x \in D : /\ x = last => g[x].next = n
                        /\ x # last => g[x].next = h[x].next
                        /\ x = n => g[x].prev = last
                        /\ x # n => g[x].prev = h[x].prev
                        /\ g[x].child = h[x].child
  <2>1. IsAdded(g, h, D, a, last, n)
    BY <1>1, <1>2, AddedFields
  <2> HIDE DEF g
  <2>2. QED
    BY <2>1 DEF IsAdded
<1>4. \A x \in D : g[x].ref = h[x].ref
  BY <1>3 DEF SameData
<1>5. /\ \A x \in D : h[x].next # NoNode => h[x].next \in D /\ h[h[x].next].prev = x
      /\ \A x \in D : h[x].prev # NoNode => h[x].prev \in D /\ h[h[x].prev].next = x
      /\ \A x \in D : ~h[x].ref /\ h[x].child # NoNode => h[x].child \in D /\ h[h[x].child].prev = NoNode
      /\ \A x, y \in D : ~h[x].ref /\ ~h[y].ref /\ h[x].child # NoNode /\ h[x].child = h[y].child => x = y
  BY <1>1 DEF Tree, Linked, NeighboursAgree, HeadsAreFirst, HeadsAreOwnedOnce
<1>6. /\ \A x \in R : /\ h[x].next = NoNode /\ h[x].prev = NoNode
                      /\ \A y \in D : ~h[y].ref => h[y].child # x
      /\ \A x \in D \ R : h[x].prev # NoNode \/ \E y \in D : ~h[y].ref /\ h[y].child = x
  BY <1>1 DEF Tree, IsFree, IsHeld
<1> HIDE DEF g
<1>7. DOMAIN g = D
  BY <1>3
<1>8. CASE h[a].child = NoNode
  <2>1. \A x \in D : /\ g[x].next = h[x].next /\ g[x].prev = h[x].prev
                     /\ x = a => g[x].child = n
                     /\ x # a => g[x].child = h[x].child
    BY <1>3, <1>8
  <2>2. NeighboursAgree(g)
    BY <1>1, <1>5, <1>7, <2>1 DEF NeighboursAgree
  <2>3. HeadsAreFirst(g)
    BY <1>1, <1>4, <1>5, <1>6, <1>7, <2>1 DEF HeadsAreFirst
  <2>4. HeadsAreOwnedOnce(g)
    BY <1>1, <1>4, <1>5, <1>6, <1>7, <2>1 DEF HeadsAreOwnedOnce
  <2>5. \A x \in R \ {n} : IsFree(g, x)
    BY <1>1, <1>4, <1>6, <1>7, <2>1 DEF IsFree
  <2>6. ASSUME NEW x \in D \ (R \ {n})
        PROVE  IsHeld(g, x)
    <3>1. CASE x = n
      BY <1>4, <1>7, <2>1, <3>1 DEF IsHeld
    <3>2. CASE x # n
      BY <1>1, <1>4, <1>6, <1>7, <1>8, <2>1, <3>2 DEF IsHeld
    <3>3. QED
      BY <3>1, <3>2
  <2>7. QED
    BY <1>1, <1>3, <2>2, <2>3, <2>4, <2>5, <2>6 DEF Tree, Linked, g
<1>9. CASE h[a].child # NoNode
  <2>1. \A x \in D : /\ x = last => g[x].next = n
                     /\ x # last => g[x].next = h[x].next
                     /\ x = n => g[x].prev = last
                     /\ x # n => g[x].prev = h[x].prev
                     /\ g[x].child = h[x].child
    BY <1>3, <1>9
  <2>2. last \in D /\ last \notin R /\ h[last].next = NoNode /\ last # NoNode
    BY <1>1, <1>9
  <2>3. NeighboursAgree(g)
    BY <1>1, <1>5, <1>6, <1>7, <2>1, <2>2 DEF NeighboursAgree
  <2>4. HeadsAreFirst(g)
    BY <1>1, <1>4, <1>5, <1>6, <1>7, <2>1 DEF HeadsAreFirst
  <2>5. HeadsAreOwnedOnce(g)
    BY <1>1, <1>4, <1>5, <1>7, <2>1 DEF HeadsAreOwnedOnce
  <2>6. \A x \in R \ {n} : IsFree(g, x)
    BY <1>1, <1>4, <1>6, <1>7, <2>1, <2>2 DEF IsFree
  <2>7. ASSUME NEW x \in D \ (R \ {n})
        PROVE  IsHeld(g, x)
    <3>1. CASE x = n
      BY <2>1, <2>2, <3>1 DEF IsHeld
    <3>2. CASE x # n
      BY <1>1, <1>4, <1>6, <1>7, <2>1, <3>2 DEF IsHeld
    <3>3. QED
      BY <3>1, <3>2
  <2>8. QED
    BY <1>1, <1>3, <2>3, <2>4, <2>5, <2>6, <2>7 DEF Tree, Linked, g
<1>10. QED
  BY <1>8, <1>9

\* The fields behind cJSON_InsertItemInArray, where after is the head or stands behind
\* another item.
IsInserted(g, h, D, a, after, n) ==
  LET p == h[after].prev
  IN  /\ g \in [D -> Item]
      /\ g[n].next = after /\ g[n].prev = p
      /\ \A x \in D :
           /\ x = p => g[x].next = n
           /\ x # p /\ x # n => g[x].next = h[x].next
           /\ x = after => g[x].prev = n
           /\ x # after /\ x # n => g[x].prev = h[x].prev
           /\ x = a /\ h[a].child = after => g[x].child = n
           /\ ~(x = a /\ h[a].child = after) => g[x].child = h[x].child
           /\ SameData(g[x], h[x])

\* cJSON_InsertItemInArray touches these fields only.
LEMMA InsertedFields ==
  ASSUME NEW D \in SUBSET Node, NEW h \in [D -> Item], NEW a \in D, NEW after \in D, NEW n \in D,
         h[after].prev \in Pointers(D) \ {n}, h[a].child = after <=> h[after].prev = NoNode,
         n # after
  PROVE  IsInserted(Inserted(h, a, after, n), h, D, a, after, n)
<1> SUFFICES LET g == Inserted(h, a, after, n)
                 p == h[after].prev
            IN  /\ g \in [D -> Item]
                /\ g[n].next = after /\ g[n].prev = p
                /\ \A x \in D :
                     /\ x = p => g[x].next = n
                     /\ x # p /\ x # n => g[x].next = h[x].next
                     /\ x = after => g[x].prev = n
                     /\ x # after /\ x # n => g[x].prev = h[x].prev
                     /\ x = a /\ h[a].child = after => g[x].child = n
                     /\ ~(x = a /\ h[a].child = after) => g[x].child = h[x].child
                     /\ SameData(g[x], h[x])
  BY DEF IsInserted
<1> DEFINE p == h[after].prev
           placed == Placed(h, n, p, after)
           linked == SetPrev(placed, after, n)
           g == Inserted(h, a, after, n)
<1>1. /\ p \in Pointers(D) /\ after \in Pointers(D) /\ n \in Pointers(D)
      /\ p # n /\ NoNode \notin D
  BY HeapAssumption DEF Pointers
<1>2. /\ h[a].child = after => g = [linked EXCEPT ![a].child = n]
      /\ h[a].child # after => g = SetNext(linked, p, n)
  BY DEF Inserted
<1>3. h[a].child = after <=> p = NoNode
  OBVIOUS
<1> HIDE DEF p, g
<1>4. /\ placed \in [D -> Item]
      /\ \A x \in D : /\ x = n => placed[x].next = after /\ placed[x].prev = p
                      /\ x # n => placed[x].next = h[x].next /\ placed[x].prev = h[x].prev
                      /\ placed[x].child = h[x].child
                      /\ SameData(placed[x], h[x])
  BY <1>1, PlacedAt
<1> HIDE DEF placed
<1>5. /\ linked \in [D -> Item]
      /\ \A x \in D : /\ x = after => linked[x].prev = n
                      /\ x # after => linked[x].prev = placed[x].prev
                      /\ linked[x].next = placed[x].next
                      /\ linked[x].child = placed[x].child
                      /\ SameData(linked[x], placed[x])
  BY <1>1, <1>4, PrevSet
<1> HIDE DEF linked
<1>6. /\ g \in [D -> Item]
      /\ \A x \in D :
           /\ x = p => g[x].next = n
           /\ x # p => g[x].next = linked[x].next
           /\ g[x].prev = linked[x].prev
           /\ x = a /\ h[a].child = after => g[x].child = n
           /\ ~(x = a /\ h[a].child = after) => g[x].child = linked[x].child
           /\ SameData(g[x], linked[x])
  <2>1. CASE h[a].child = after
    <3>1. g = [linked EXCEPT ![a].child = n] /\ \A x \in D : x # p
      BY <1>1, <1>2, <1>3, <2>1
    <3>2. QED
      BY <1>1, <1>5, <2>1, <3>1, ChildSet
  <2>2. CASE h[a].child # after
    BY <1>1, <1>2, <1>5, <2>2, NextSet
  <2>3. QED
    BY <2>1, <2>2
<1>7. \A x \in D : SameData(g[x], h[x])
  BY <1>4, <1>5, <1>6, SameDataAgain
<1>8. QED
  BY <1>1, <1>4, <1>5, <1>6, <1>7 DEF p, g

\* Inserting an item that stands nowhere in front of an item of a list, the first one or
\* another, leaves every list linked (cJSON.c:2143-2170).
THEOREM InsertKeepsLinks ==
  ASSUME NEW D, NEW R, NEW h, Tree(h, D, R), NEW a \in D, ~h[a].ref, NEW after \in D,
         h[after].prev = NoNode => h[a].child = after, NEW n \in R
  PROVE  /\ Tree(Inserted(h, a, after, n), D, R \ {n})
         /\ \A x \in D : SameData(Inserted(h, a, after, n)[x], h[x])
<1> DEFINE p == h[after].prev
           g == Inserted(h, a, after, n)
<1>1. /\ DOMAIN h = D /\ NoNode \notin D /\ D \in SUBSET Node /\ h \in [D -> Item]
      /\ R \in SUBSET D /\ n \in D /\ p \in Pointers(D)
      /\ \A x \in D : /\ h[x].next \in Pointers(D) /\ h[x].prev \in Pointers(D)
                      /\ ~h[x].ref => h[x].child \in Pointers(D)
  BY TreePointers DEF Tree
<1>2. /\ \A x \in D : h[x].next # NoNode => h[x].next \in D /\ h[h[x].next].prev = x
      /\ \A x \in D : h[x].prev # NoNode => h[x].prev \in D /\ h[h[x].prev].next = x
      /\ \A x \in D : ~h[x].ref /\ h[x].child # NoNode => h[x].child \in D /\ h[h[x].child].prev = NoNode
      /\ \A x, y \in D : ~h[x].ref /\ ~h[y].ref /\ h[x].child # NoNode /\ h[x].child = h[y].child => x = y
  BY <1>1 DEF Tree, Linked, NeighboursAgree, HeadsAreFirst, HeadsAreOwnedOnce
<1>3. /\ \A x \in R : /\ h[x].next = NoNode /\ h[x].prev = NoNode
                      /\ \A y \in D : ~h[y].ref => h[y].child # x
      /\ \A x \in D \ R : h[x].prev # NoNode \/ \E y \in D : ~h[y].ref /\ h[y].child = x
  BY <1>1 DEF Tree, IsFree, IsHeld
<1>4. n # after /\ p # n /\ n # NoNode /\ (h[a].child = after <=> p = NoNode)
  BY <1>1, <1>2, <1>3
<1>5. /\ g \in [D -> Item]
      /\ g[n].next = after /\ g[n].prev = p
      /\ \A x \in D :
           /\ x = p => g[x].next = n
           /\ x # p /\ x # n => g[x].next = h[x].next
           /\ x = after => g[x].prev = n
           /\ x # after /\ x # n => g[x].prev = h[x].prev
           /\ x = a /\ h[a].child = after => g[x].child = n
           /\ ~(x = a /\ h[a].child = after) => g[x].child = h[x].child
           /\ SameData(g[x], h[x])
  <2>1. IsInserted(g, h, D, a, after, n)
    BY <1>1, <1>4, InsertedFields
  <2> HIDE DEF g
  <2>2. QED
    BY <2>1 DEF IsInserted
<1>6. \A x \in D : g[x].ref = h[x].ref
  BY <1>5 DEF SameData
<1> HIDE DEF g
<1>7. DOMAIN g = D
  BY <1>5
<1>8. NeighboursAgree(g)
  BY <1>1, <1>2, <1>3, <1>4, <1>5, <1>7 DEF NeighboursAgree, p, Pointers
<1>9. HeadsAreFirst(g)
  BY <1>1, <1>2, <1>3, <1>4, <1>5, <1>6, <1>7 DEF HeadsAreFirst, p, Pointers
<1>10. HeadsAreOwnedOnce(g)
  BY <1>1, <1>2, <1>3, <1>4, <1>5, <1>6, <1>7 DEF HeadsAreOwnedOnce, p, Pointers
<1>11. \A x \in R \ {n} : IsFree(g, x)
  <2>1. \A x \in R : x # p /\ x # after
    BY <1>1, <1>2, <1>3, <1>4
  <2>2. QED
    BY <1>1, <1>3, <1>5, <1>6, <1>7, <2>1 DEF IsFree
<1>12. ASSUME NEW x \in D \ (R \ {n})
       PROVE  IsHeld(g, x)
  <2>1. CASE x = n
    <3>1. CASE p = NoNode
      BY <1>4, <1>5, <1>6, <1>7, <2>1, <3>1 DEF IsHeld
    <3>2. CASE p # NoNode
      BY <1>5, <2>1, <3>2 DEF IsHeld
    <3>3. QED
      BY <3>1, <3>2
  <2>2. CASE x = after
    BY <1>4, <1>5, <2>2 DEF IsHeld
  <2>3. CASE x # n /\ x # after
    <3>1. CASE h[x].prev # NoNode
      BY <1>5, <2>3, <3>1 DEF IsHeld
    <3>2. CASE h[x].prev = NoNode
      <4>1. PICK b \in D : ~h[b].ref /\ h[b].child = x
        BY <1>3, <2>3, <3>2
      <4>2. g[b].child = x
        BY <1>5, <2>3, <4>1
      <4>3. QED
        BY <1>6, <1>7, <4>1, <4>2 DEF IsHeld
    <3>3. QED
      BY <3>1, <3>2
  <2>4. QED
    BY <2>1, <2>2, <2>3
<1>13. QED
  BY <1>1, <1>5, <1>8, <1>9, <1>10, <1>11, <1>12 DEF Tree, Linked, g

\* The fields behind cJSON_ReplaceItemViaPointer.
IsReplaced(g, h, D, a, n, r) ==
  LET p == h[n].prev
      s == h[n].next
  IN  /\ g \in [D -> Item]
      /\ g[n].next = NoNode /\ g[n].prev = NoNode
      /\ g[r].next = s /\ g[r].prev = p
      /\ \A x \in D :
           /\ x = p => g[x].next = r
           /\ x # p /\ x # n /\ x # r => g[x].next = h[x].next
           /\ x = s => g[x].prev = r
           /\ x # s /\ x # n /\ x # r => g[x].prev = h[x].prev
           /\ x = a /\ h[a].child = n => g[x].child = r
           /\ ~(x = a /\ h[a].child = n) => g[x].child = h[x].child
           /\ SameData(g[x], h[x])

\* cJSON_ReplaceItemViaPointer touches these fields only.
LEMMA ReplacedFields ==
  ASSUME NEW D \in SUBSET Node, NEW h \in [D -> Item], NEW a \in D, NEW n \in D, NEW r \in D,
         h[n].prev \in Pointers(D) \ {n, r}, h[n].next \in Pointers(D) \ {n, r}, n # r
  PROVE  IsReplaced(Replaced(h, a, n, r), h, D, a, n, r)
<1> SUFFICES LET g == Replaced(h, a, n, r)
                 p == h[n].prev
                 s == h[n].next
            IN  /\ g \in [D -> Item]
                /\ g[n].next = NoNode /\ g[n].prev = NoNode
                /\ g[r].next = s /\ g[r].prev = p
                /\ \A x \in D :
                     /\ x = p => g[x].next = r
                     /\ x # p /\ x # n /\ x # r => g[x].next = h[x].next
                     /\ x = s => g[x].prev = r
                     /\ x # s /\ x # n /\ x # r => g[x].prev = h[x].prev
                     /\ x = a /\ h[a].child = n => g[x].child = r
                     /\ ~(x = a /\ h[a].child = n) => g[x].child = h[x].child
                     /\ SameData(g[x], h[x])
  BY DEF IsReplaced
<1> DEFINE p == h[n].prev
           s == h[n].next
           placed == Placed(h, r, p, s)
           behind == SetPrev(placed, s, r)
           linked == SetNext(behind, p, r)
           moved == MoveHead(linked, a, n, r)
           g == Placed(moved, n, NoNode, NoNode)
<1>1. /\ p \in Pointers(D) /\ s \in Pointers(D) /\ NoNode \in Pointers(D)
      /\ n \in Pointers(D) /\ r \in Pointers(D) /\ p \notin {n, r} /\ s \notin {n, r}
  BY DEF Pointers
<1>2. Replaced(h, a, n, r) = g
  BY DEF Replaced
<1> HIDE DEF p, s
<1>3. /\ placed \in [D -> Item]
      /\ \A x \in D : /\ x = r => placed[x].next = s /\ placed[x].prev = p
                      /\ x # r => placed[x].next = h[x].next /\ placed[x].prev = h[x].prev
                      /\ placed[x].child = h[x].child
                      /\ SameData(placed[x], h[x])
  BY <1>1, PlacedAt
<1> HIDE DEF placed
<1>4. /\ behind \in [D -> Item]
      /\ \A x \in D : /\ x = s => behind[x].prev = r
                      /\ x # s => behind[x].prev = placed[x].prev
                      /\ behind[x].next = placed[x].next
                      /\ behind[x].child = placed[x].child
                      /\ SameData(behind[x], placed[x])
  BY <1>1, <1>3, PrevSet
<1> HIDE DEF behind
<1>5. /\ linked \in [D -> Item]
      /\ \A x \in D : /\ x = p => linked[x].next = r
                      /\ x # p => linked[x].next = behind[x].next
                      /\ linked[x].prev = behind[x].prev
                      /\ linked[x].child = behind[x].child
                      /\ SameData(linked[x], behind[x])
  BY <1>1, <1>4, NextSet
<1> HIDE DEF linked
<1>6. /\ moved \in [D -> Item]
      /\ \A x \in D : /\ x = a /\ linked[a].child = n => moved[x].child = r
                      /\ ~(x = a /\ linked[a].child = n) => moved[x].child = linked[x].child
                      /\ moved[x].next = linked[x].next
                      /\ moved[x].prev = linked[x].prev
                      /\ SameData(moved[x], linked[x])
  BY <1>1, <1>5, HeadMoved
<1> HIDE DEF moved
<1>7. /\ g \in [D -> Item]
      /\ \A x \in D : /\ x = n => g[x].next = NoNode /\ g[x].prev = NoNode
                      /\ x # n => g[x].next = moved[x].next /\ g[x].prev = moved[x].prev
                      /\ g[x].child = moved[x].child
                      /\ SameData(g[x], moved[x])
  BY <1>1, <1>6, PlacedAt
<1> HIDE DEF g
<1>8. \A x \in D : SameData(g[x], h[x])
  <2>1. \A x \in D : SameData(linked[x], h[x])
    BY <1>3, <1>4, <1>5, SameDataAgain
  <2>2. QED
    BY <1>6, <1>7, <2>1, SameDataAgain
<1>9. \A x \in D : /\ x = p => linked[x].next = r
                   /\ x # p /\ x # r => linked[x].next = h[x].next
                   /\ x = s => linked[x].prev = r
                   /\ x # s /\ x # r => linked[x].prev = h[x].prev
                   /\ x = r => linked[x].next = s /\ linked[x].prev = p
                   /\ linked[x].child = h[x].child
  BY <1>1, <1>3, <1>4, <1>5
<1>10. /\ g[n].next = NoNode /\ g[n].prev = NoNode
       /\ g[r].next = s /\ g[r].prev = p
       /\ \A x \in D : /\ x = p => g[x].next = r
                       /\ x # p /\ x # n /\ x # r => g[x].next = h[x].next
                       /\ x = s => g[x].prev = r
                       /\ x # s /\ x # n /\ x # r => g[x].prev = h[x].prev
  BY <1>1, <1>6, <1>7, <1>9
<1>11. \A x \in D : /\ x = a /\ h[a].child = n => g[x].child = r
                    /\ ~(x = a /\ h[a].child = n) => g[x].child = h[x].child
  BY <1>6, <1>7, <1>9
<1>12. QED
  BY <1>2, <1>7, <1>8, <1>10, <1>11 DEF p, s

\* Replacing an item by one that stands nowhere, wherever the item stands, leaves every
\* list linked and the old item in none (cJSON.c:2172-2205).
THEOREM ReplaceKeepsLinks ==
  ASSUME NEW D, NEW R, NEW h, Tree(h, D, R), NEW a \in D, ~h[a].ref, NEW n \in D,
         h[n].prev = NoNode => h[a].child = n, h[n].next # n, NEW r \in R
  PROVE  /\ Tree(Replaced(h, a, n, r), D, (R \ {r}) \cup {n})
         /\ \A x \in D : SameData(Replaced(h, a, n, r)[x], h[x])
<1> DEFINE p == h[n].prev
           s == h[n].next
           g == Replaced(h, a, n, r)
<1>1. /\ DOMAIN h = D /\ NoNode \notin D /\ D \in SUBSET Node /\ h \in [D -> Item]
      /\ R \in SUBSET D /\ r \in D /\ p \in Pointers(D) /\ s \in Pointers(D)
      /\ \A x \in D : /\ h[x].next \in Pointers(D) /\ h[x].prev \in Pointers(D)
                      /\ ~h[x].ref => h[x].child \in Pointers(D)
  BY TreePointers DEF Tree
<1>2. /\ \A x \in D : h[x].next # NoNode => h[x].next \in D /\ h[h[x].next].prev = x
      /\ \A x \in D : h[x].prev # NoNode => h[x].prev \in D /\ h[h[x].prev].next = x
      /\ \A x \in D : ~h[x].ref /\ h[x].child # NoNode => h[x].child \in D /\ h[h[x].child].prev = NoNode
      /\ \A x, y \in D : ~h[x].ref /\ ~h[y].ref /\ h[x].child # NoNode /\ h[x].child = h[y].child => x = y
  BY <1>1 DEF Tree, Linked, NeighboursAgree, HeadsAreFirst, HeadsAreOwnedOnce
<1>3. /\ \A x \in R : /\ h[x].next = NoNode /\ h[x].prev = NoNode
                      /\ \A y \in D : ~h[y].ref => h[y].child # x
      /\ \A x \in D \ R : h[x].prev # NoNode \/ \E y \in D : ~h[y].ref /\ h[y].child = x
  BY <1>1 DEF Tree, IsFree, IsHeld
<1>4. /\ n # r /\ p # r /\ s # r /\ p # n /\ s # n /\ r # NoNode /\ n # NoNode
      /\ (h[a].child = n => p = NoNode) /\ (p = NoNode => h[a].child = n)
  <2>1. n # r
    BY <1>1, <1>3
  <2>2. p # r /\ s # r
    BY <1>1, <1>2, <1>3
  <2>3. s # n /\ p # n
    BY <1>1, <1>2
  <2>4. QED
    BY <1>1, <1>2, <2>1, <2>2, <2>3
<1>5. /\ g \in [D -> Item]
      /\ g[n].next = NoNode /\ g[n].prev = NoNode
      /\ g[r].next = s /\ g[r].prev = p
      /\ \A x \in D :
           /\ x = p => g[x].next = r
           /\ x # p /\ x # n /\ x # r => g[x].next = h[x].next
           /\ x = s => g[x].prev = r
           /\ x # s /\ x # n /\ x # r => g[x].prev = h[x].prev
           /\ x = a /\ h[a].child = n => g[x].child = r
           /\ ~(x = a /\ h[a].child = n) => g[x].child = h[x].child
           /\ SameData(g[x], h[x])
  <2>1. IsReplaced(g, h, D, a, n, r)
    BY <1>1, <1>4, ReplacedFields
  <2> HIDE DEF g
  <2>2. QED
    BY <2>1 DEF IsReplaced
<1>6. \A x \in D : g[x].ref = h[x].ref
  BY <1>5 DEF SameData
<1> HIDE DEF g
<1>7. DOMAIN g = D
  BY <1>5
<1>8. NeighboursAgree(g)
  BY <1>1, <1>2, <1>3, <1>4, <1>5, <1>7 DEF NeighboursAgree, p, s, Pointers
<1>9. HeadsAreFirst(g)
  BY <1>1, <1>2, <1>3, <1>4, <1>5, <1>6, <1>7 DEF HeadsAreFirst, p, s, Pointers
<1>10. HeadsAreOwnedOnce(g)
  BY <1>1, <1>2, <1>3, <1>4, <1>5, <1>6, <1>7 DEF HeadsAreOwnedOnce, p, s, Pointers
<1>11. \A x \in (R \ {r}) \cup {n} : IsFree(g, x)
  <2>1. \A x \in R : x # p /\ x # s /\ x # n
    BY <1>1, <1>2, <1>3, <1>4
  <2>2. IsFree(g, n)
    BY <1>1, <1>2, <1>4, <1>5, <1>6, <1>7 DEF IsFree
  <2>3. \A x \in R \ {r} : IsFree(g, x)
    BY <1>1, <1>3, <1>5, <1>6, <1>7, <2>1 DEF IsFree
  <2>4. QED
    BY <2>2, <2>3
<1>12. ASSUME NEW x \in D \ ((R \ {r}) \cup {n})
       PROVE  IsHeld(g, x)
  <2>1. CASE x = r
    <3>1. CASE p = NoNode
      BY <1>4, <1>5, <1>6, <1>7, <2>1, <3>1 DEF IsHeld
    <3>2. CASE p # NoNode
      BY <1>5, <2>1, <3>2 DEF IsHeld
    <3>3. QED
      BY <3>1, <3>2
  <2>2. CASE x = s
    BY <1>4, <1>5, <2>2 DEF IsHeld
  <2>3. CASE x # r /\ x # s
    <3>1. CASE h[x].prev # NoNode
      BY <1>5, <2>3, <3>1 DEF IsHeld
    <3>2. CASE h[x].prev = NoNode
      <4>1. PICK b \in D : ~h[b].ref /\ h[b].child = x
        BY <1>3, <2>3, <3>2
      <4>2. g[b].child = x
        BY <1>5, <2>3, <4>1
      <4>3. QED
        BY <1>6, <1>7, <4>1, <4>2 DEF IsHeld
    <3>3. QED
      BY <3>1, <3>2
  <2>4. QED
    BY <2>1, <2>2, <2>3
<1>13. QED
  BY <1>1, <1>5, <1>8, <1>9, <1>10, <1>11, <1>12 DEF Tree, Linked, g

-----------------------------------------------------------------------------
(* What hangs together *)

\* T with an item has what the item leads to.
IsClosed(succ, T) == \A x \in T : succ[x] \subseteq T

\* The rounds of Closure.
Rounds(f, D, succ, S) ==
  /\ f \in [0 .. Cardinality(D) -> SUBSET D]
  /\ f[0] = S
  /\ \A k \in 0 .. Cardinality(D) :
       k < Cardinality(D) => f[k + 1] = f[k] \cup UNION {succ[x] : x \in f[k]}
  /\ Closure(succ, S) = f[Cardinality(D)]

\* There are such rounds.
LEMMA ClosureRounds ==
  ASSUME NEW D, IsFiniteSet(D), NEW succ \in [D -> SUBSET D], NEW S \in SUBSET D
  PROVE  \E f : Rounds(f, D, succ, S)
<1> DEFINE N == Cardinality(D)
           V == SUBSET D
           more == [T \in V |-> T \cup UNION {succ[x] : x \in T}]
           step == [k \in 1 .. N |-> more]
           IsCourse(f) == f = [k \in 0 .. N |->
                               IF k = 0 THEN S ELSE f[k - 1] \cup UNION {succ[x] : x \in f[k - 1]}]
           reach == CHOOSE f : IsCourse(f)
<1>1. N \in Nat /\ DOMAIN succ = D
  BY FS_CardinalityType
<1>2. Closure(succ, S) = reach[N]
  BY <1>1 DEF Closure
<1>3. \E f : Course(f, N, V, S, step)
  <2>1. \A T \in V : more[T] \in V
    OBVIOUS
  <2>2. more \in [V -> V]
    BY <2>1
  <2>3. Steps(N, V, step)
    BY <2>2 DEF Steps
  <2>4. QED
    BY <1>1, <2>3, LoopRuns
<1>4. ASSUME NEW f, Course(f, N, V, S, step)
      PROVE  IsCourse(f)
  <2>1. f \in [0 .. N -> V] /\ f[0] = S /\ \A k \in 1 .. N : f[k] = step[k][f[k - 1]]
    BY <1>4 DEF Course
  <2>2. ASSUME NEW k \in 0 .. N
        PROVE  f[k] = IF k = 0 THEN S ELSE f[k - 1] \cup UNION {succ[x] : x \in f[k - 1]}
    <3>1. CASE k = 0
      BY <2>1, <3>1
    <3>2. CASE k # 0
      <4>1. k \in 1 .. N /\ k - 1 \in 0 .. N
        BY <3>2, <1>1
      <4>2. f[k - 1] \in V /\ f[k] = step[k][f[k - 1]]
        BY <2>1, <4>1
      <4>3. step[k][f[k - 1]] = f[k - 1] \cup UNION {succ[x] : x \in f[k - 1]}
        BY <4>1, <4>2
      <4>4. QED
        BY <3>2, <4>2, <4>3
    <3>3. QED
      BY <3>1, <3>2
  <2>3. QED
    BY <2>1, <2>2
<1>5. IsCourse(reach)
  <2> HIDE DEF IsCourse
  <2>1. \E f : IsCourse(f)
    BY <1>3, <1>4
  <2>2. QED
    BY <2>1
<1>6. \A k \in 0 .. N :
        /\ k = 0 => reach[k] = S
        /\ k # 0 => reach[k] = reach[k - 1] \cup UNION {succ[x] : x \in reach[k - 1]}
  BY <1>5
<1>7. DOMAIN reach = 0 .. N /\ reach = [k \in 0 .. N |-> reach[k]]
  BY <1>5
<1> HIDE DEF reach
<1>8. reach[0] = S /\ \A k \in 0 .. N : k < N => reach[k + 1] = reach[k] \cup UNION {succ[x] : x \in reach[k]}
  <2>1. ASSUME NEW k \in 0 .. N, k < N
        PROVE  reach[k + 1] = reach[k] \cup UNION {succ[x] : x \in reach[k]}
    <3>1. k + 1 \in 0 .. N /\ k + 1 # 0 /\ (k + 1) - 1 = k
      BY <1>1, <2>1
    <3>2. reach[k + 1] = reach[(k + 1) - 1] \cup UNION {succ[x] : x \in reach[(k + 1) - 1]}
      BY <1>6, <3>1
    <3>3. QED
      BY <3>1, <3>2
  <2>2. reach[0] = S
    BY <1>1, <1>6
  <2>3. QED
    BY <2>1, <2>2
<1>9. \A k \in 0 .. N : reach[k] \in V
  <2> DEFINE Q == {k \in 0 .. N : reach[k] \in V}
  <2>1. 0 \in Q
    BY <1>1, <1>8
  <2>2. ASSUME NEW k \in 0 .. N, k < N, k \in Q
        PROVE  k + 1 \in Q
    <3>1. k + 1 \in 0 .. N /\ reach[k] \in V
      BY <1>1, <2>2
    <3>2. UNION {succ[x] : x \in reach[k]} \in SUBSET D
      BY <3>1
    <3>3. QED
      BY <1>8, <2>2, <3>1, <3>2
  <2> HIDE DEF Q
  <2>3. 0 .. N \subseteq Q
    BY <1>1, <2>1, <2>2, CountingUp
  <2>4. QED
    BY <2>3 DEF Q
<1>10. reach \in [0 .. N -> V]
  BY <1>7, <1>9
<1>11. QED
  BY <1>2, <1>8, <1>10 DEF Rounds

\* What is reached contains the start, is closed, and lies in every set that is both; and
\* every item of it is of the start or led to by one of it.
LEMMA ClosureIsLeast ==
  ASSUME NEW D, IsFiniteSet(D), NEW succ \in [D -> SUBSET D], NEW S \in SUBSET D
  PROVE  /\ Closure(succ, S) \in SUBSET D
         /\ S \subseteq Closure(succ, S)
         /\ IsClosed(succ, Closure(succ, S))
         /\ \A T \in SUBSET D : S \subseteq T /\ IsClosed(succ, T) => Closure(succ, S) \subseteq T
         /\ \A y \in Closure(succ, S) : y \in S \/ \E x \in Closure(succ, S) : y \in succ[x]
<1> DEFINE N == Cardinality(D)
<1>1. PICK f : Rounds(f, D, succ, S)
  BY ClosureRounds
<1>2. /\ f \in [0 .. N -> SUBSET D]
      /\ f[0] = S
      /\ \A k \in 0 .. N : k < N => f[k + 1] = f[k] \cup UNION {succ[x] : x \in f[k]}
      /\ Closure(succ, S) = f[N]
  BY <1>1 DEF Rounds
<1>3. N \in Nat /\ N \in 0 .. N /\ 0 \in 0 .. N
  BY FS_CardinalityType
<1>4. S \subseteq f[N]
  <2> DEFINE Q == {k \in 0 .. N : S \subseteq f[k]}
  <2>1. 0 \in Q
    BY <1>2, <1>3
  <2>2. ASSUME NEW k \in 0 .. N, k < N, k \in Q
        PROVE  k + 1 \in Q
    BY <1>2, <1>3, <2>2
  <2> HIDE DEF Q
  <2>3. 0 .. N \subseteq Q
    BY <1>3, <2>1, <2>2, CountingUp
  <2>4. QED
    BY <1>3, <2>3 DEF Q
<1>5. IsClosed(succ, f[N])
  <2> DEFINE Q == {k \in 0 .. N : IsClosed(succ, f[k]) \/ Cardinality(f[k]) >= k}
  <2>1. \A k \in 0 .. N : f[k] \in SUBSET D /\ IsFiniteSet(f[k]) /\ Cardinality(f[k]) \in Nat
    BY <1>2, FS_Subset, FS_CardinalityType
  <2>2. 0 \in Q
    BY <1>3, <2>1
  <2>3. ASSUME NEW k \in 0 .. N, k < N, k \in Q
        PROVE  k + 1 \in Q
    <3>1. k + 1 \in 0 .. N /\ f[k + 1] = f[k] \cup UNION {succ[x] : x \in f[k]}
      BY <1>2, <1>3, <2>3
    <3>2. CASE IsClosed(succ, f[k])
      <4>1. f[k + 1] = f[k]
        BY <3>1, <3>2 DEF IsClosed
      <4>2. QED
        BY <3>1, <3>2, <4>1
    <3>3. CASE ~IsClosed(succ, f[k])
      <4>1. f[k] \subseteq f[k + 1] /\ f[k] # f[k + 1]
        BY <3>1, <3>3 DEF IsClosed
      <4>2. /\ Cardinality(f[k]) <= Cardinality(f[k + 1])
            /\ Cardinality(f[k]) # Cardinality(f[k + 1])
        BY <2>1, <3>1, <4>1, FS_Subset
      <4>3. Cardinality(f[k]) >= k
        BY <2>3, <3>3
      <4>4. Cardinality(f[k]) \in Nat /\ Cardinality(f[k + 1]) \in Nat
        BY <2>1, <3>1
      <4>5. Cardinality(f[k + 1]) >= k + 1
        BY <4>2, <4>3, <4>4
      <4>6. QED
        BY <3>1, <4>5
    <3>4. QED
      BY <3>2, <3>3
  <2> HIDE DEF Q
  <2>4. 0 .. N \subseteq Q
    BY <1>3, <2>2, <2>3, CountingUp
  <2>5. IsClosed(succ, f[N]) \/ Cardinality(f[N]) >= N
    BY <1>3, <2>4 DEF Q
  <2>6. ASSUME Cardinality(f[N]) >= N
        PROVE  IsClosed(succ, f[N])
    <3>1. f[N] \in SUBSET D /\ Cardinality(f[N]) <= N /\ Cardinality(f[N]) \in Nat
      BY <1>3, <2>1, FS_Subset
    <3>2. Cardinality(f[N]) = N
      BY <1>3, <2>6, <3>1
    <3>3. f[N] = D
      BY <3>1, <3>2, FS_Subset
    <3>4. QED
      BY <3>3 DEF IsClosed
  <2>7. QED
    BY <2>5, <2>6
<1>6. ASSUME NEW T \in SUBSET D, S \subseteq T, IsClosed(succ, T)
      PROVE  f[N] \subseteq T
  <2> DEFINE Q == {k \in 0 .. N : f[k] \subseteq T}
  <2>1. 0 \in Q
    BY <1>2, <1>3, <1>6
  <2>2. ASSUME NEW k \in 0 .. N, k < N, k \in Q
        PROVE  k + 1 \in Q
    <3>1. k + 1 \in 0 .. N /\ f[k + 1] = f[k] \cup UNION {succ[x] : x \in f[k]} /\ f[k] \subseteq T
      BY <1>2, <1>3, <2>2
    <3>2. UNION {succ[x] : x \in f[k]} \subseteq T
      BY <1>6, <3>1 DEF IsClosed
    <3>3. QED
      BY <3>1, <3>2
  <2> HIDE DEF Q
  <2>3. 0 .. N \subseteq Q
    BY <1>3, <2>1, <2>2, CountingUp
  <2>4. QED
    BY <1>3, <2>3 DEF Q
<1>7. \A y \in f[N] : y \in S \/ \E x \in f[N] : y \in succ[x]
  <2> DEFINE T == {y \in f[N] : y \in S \/ \E x \in f[N] : y \in succ[x]}
  <2>1. T \in SUBSET D /\ S \subseteq T
    BY <1>2, <1>3, <1>4
  <2>2. IsClosed(succ, T)
    BY <1>5 DEF IsClosed
  <2>3. f[N] \subseteq T
    BY <1>6, <2>1, <2>2
  <2>4. QED
    BY <2>3
<1>8. f[N] \in SUBSET D
  BY <1>2, <1>3
<1>9. QED
  BY <1>2, <1>4, <1>5, <1>6, <1>7, <1>8

\* Items, what they own, and what follows them.
LEMMA OwnedItems ==
  ASSUME NEW D, NEW R, NEW h, Tree(h, D, R), NEW S \in SUBSET D
  PROVE  /\ Owned(h, S) \in SUBSET D /\ S \subseteq Owned(h, S)
         /\ \A x \in Owned(h, S) :
              /\ h[x].next # NoNode => h[x].next \in Owned(h, S)
              /\ ~h[x].ref /\ h[x].child # NoNode => h[x].child \in Owned(h, S)
         /\ \A y \in Owned(h, S) :
              y \in S \/ \E x \in Owned(h, S) : h[x].next = y \/ (~h[x].ref /\ h[x].child = y)
<1> DEFINE succ == [x \in DOMAIN h |->
                      ({h[x].next} \cup IF h[x].ref THEN {} ELSE {h[x].child}) \ {NoNode}]
<1>1. /\ DOMAIN h = D /\ NoNode \notin D /\ IsFiniteSet(D)
      /\ \A x \in D : /\ h[x].next \in Pointers(D)
                      /\ ~h[x].ref => h[x].child \in Pointers(D)
  BY TreePointers, HeapAssumption, FS_Subset
<1>2. Owned(h, S) = Closure(succ, S)
  BY DEF Owned
<1>3. \A x \in D : succ[x] = ({h[x].next} \cup IF h[x].ref THEN {} ELSE {h[x].child}) \ {NoNode}
  BY <1>1
<1>4. \A x \in D : succ[x] \in SUBSET D
  BY <1>1, <1>3 DEF Pointers
<1>5. succ \in [D -> SUBSET D]
  BY <1>1, <1>4
<1> HIDE DEF succ
<1>6. /\ Closure(succ, S) \in SUBSET D
      /\ S \subseteq Closure(succ, S)
      /\ IsClosed(succ, Closure(succ, S))
      /\ \A y \in Closure(succ, S) : y \in S \/ \E x \in Closure(succ, S) : y \in succ[x]
  BY <1>1, <1>5, ClosureIsLeast
<1>7. \A x \in Closure(succ, S) : succ[x] \subseteq Closure(succ, S)
  BY <1>6 DEF IsClosed
<1>8. QED
  BY <1>2, <1>3, <1>6, <1>7

\* cJSON_Delete of items that stand nowhere: what is left is a tree, and of the items that
\* stood nowhere only those are gone.
LEMMA DeleteKeepsTree ==
  ASSUME NEW D, NEW R, NEW h, Tree(h, D, R), NEW S \in SUBSET R
  PROVE  LET gone == Owned(h, S)
         IN  Tree([x \in D \ gone |-> h[x]], D \ gone, R \ S)
<1> DEFINE G == Owned(h, S)
           E == D \ G
           g == [x \in E |-> h[x]]
<1>1. /\ DOMAIN h = D /\ NoNode \notin D /\ D \in SUBSET Node /\ h \in [D -> Item]
      /\ R \in SUBSET D /\ S \in SUBSET D
  BY TreePointers DEF Tree
<1>2. /\ \A x \in D : h[x].next # NoNode => h[x].next \in D /\ h[h[x].next].prev = x
      /\ \A x \in D : h[x].prev # NoNode => h[x].prev \in D /\ h[h[x].prev].next = x
      /\ \A x \in D : ~h[x].ref /\ h[x].child # NoNode => h[x].child \in D /\ h[h[x].child].prev = NoNode
      /\ \A x, y \in D : ~h[x].ref /\ ~h[y].ref /\ h[x].child # NoNode /\ h[x].child = h[y].child => x = y
  BY <1>1 DEF Tree, Linked, NeighboursAgree, HeadsAreFirst, HeadsAreOwnedOnce
<1>3. /\ \A x \in R : /\ h[x].next = NoNode /\ h[x].prev = NoNode
                      /\ \A y \in D : ~h[y].ref => h[y].child # x
      /\ \A x \in D \ R : h[x].prev # NoNode \/ \E y \in D : ~h[y].ref /\ h[y].child = x
  BY <1>1 DEF Tree, IsFree, IsHeld
<1>4. /\ G \in SUBSET D /\ S \subseteq G
      /\ \A x \in G : /\ h[x].next # NoNode => h[x].next \in G
                      /\ ~h[x].ref /\ h[x].child # NoNode => h[x].child \in G
      /\ \A y \in G : y \in S \/ \E x \in G : h[x].next = y \/ (~h[x].ref /\ h[x].child = y)
  BY <1>1, OwnedItems
<1> HIDE DEF G
<1>5. g \in [E -> Item] /\ DOMAIN g = E /\ E \in SUBSET D /\ \A x \in E : g[x] = h[x]
  BY <1>1
<1> HIDE DEF g
<1>6. R \ S \in SUBSET E
  BY <1>1, <1>2, <1>3, <1>4
<1>7. \A x \in E : h[x].next # NoNode => h[x].next \in E
  <2> SUFFICES ASSUME NEW x \in E, h[x].next # NoNode, h[x].next \in G
               PROVE  FALSE
    BY <1>2
  <2>1. PICK z \in G : h[z].next = h[x].next \/ (~h[z].ref /\ h[z].child = h[x].next)
    BY <1>1, <1>2, <1>3, <1>4
  <2>2. z = x
    BY <1>1, <1>2, <1>4, <2>1
  <2>3. QED
    BY <2>2
<1>8. \A x \in E : h[x].prev # NoNode => h[x].prev \in E
  BY <1>1, <1>2, <1>4
<1>9. \A x \in E : ~h[x].ref /\ h[x].child # NoNode => h[x].child \in E
  <2> SUFFICES ASSUME NEW x \in E, ~h[x].ref, h[x].child # NoNode, h[x].child \in G
               PROVE  FALSE
    BY <1>2
  <2>1. PICK z \in G : h[z].next = h[x].child \/ (~h[z].ref /\ h[z].child = h[x].child)
    BY <1>1, <1>3, <1>4
  <2>2. z = x
    BY <1>1, <1>2, <1>4, <2>1
  <2>3. QED
    BY <2>2
<1>10. NeighboursAgree(g)
  BY <1>2, <1>5, <1>7, <1>8 DEF NeighboursAgree
<1>11. HeadsAreFirst(g)
  BY <1>2, <1>5, <1>9 DEF HeadsAreFirst
<1>12. HeadsAreOwnedOnce(g)
  BY <1>2, <1>5 DEF HeadsAreOwnedOnce
<1>13. \A x \in R \ S : IsFree(g, x)
  BY <1>3, <1>5, <1>6 DEF IsFree
<1>14. ASSUME NEW x \in E \ (R \ S)
       PROVE  IsHeld(g, x)
  <2>1. x \in D \ R
    BY <1>4
  <2>2. CASE h[x].prev # NoNode
    BY <1>5, <2>2 DEF IsHeld
  <2>3. CASE h[x].prev = NoNode
    <3>1. PICK y \in D : ~h[y].ref /\ h[y].child = x
      BY <1>3, <2>1, <2>3
    <3>2. y \in E /\ x # NoNode
      BY <1>1, <1>4, <3>1
    <3>3. QED
      BY <1>5, <3>1, <3>2 DEF IsHeld
  <2>4. QED
    BY <2>2, <2>3
<1>15. Tree(g, E, R \ S)
  BY <1>1, <1>5, <1>6, <1>10, <1>11, <1>12, <1>13, <1>14 DEF Tree, Linked
<1>16. QED
  BY <1>15 DEF g, G

-----------------------------------------------------------------------------
(* The list from an item on *)

\* c is the list from n on.
IsList(h, n, c) ==
  /\ c \in Seq(DOMAIN h)
  /\ c = <<>> <=> n = NoNode
  /\ c # <<>> => c[1] = n /\ h[c[Len(c)]].next = NoNode
  /\ \A i \in 1 .. Len(c) : i < Len(c) => h[c[i]].next = c[i + 1]

\* The walk of From.
Walk(f, h, n, D) ==
  /\ f \in [1 .. Cardinality(D) -> Pointers(D)]
  /\ \A i \in 1 .. Cardinality(D) :
       /\ i = 1 => f[i] = n
       /\ i # 1 /\ f[i - 1] = NoNode => f[i] = NoNode
       /\ i # 1 /\ f[i - 1] # NoNode => f[i] = h[f[i - 1]].next
  /\ From(h, n) = [i \in 1 .. Cardinality({i \in 1 .. Cardinality(D) : f[i] # NoNode}) |-> f[i]]

\* There is such a walk.
LEMMA FromWalks ==
  ASSUME NEW D, NEW R, NEW h, Tree(h, D, R), NEW n \in Pointers(D)
  PROVE  \E f : Walk(f, h, n, D)
<1> DEFINE N == Cardinality(D)
           V == Pointers(D)
           on == [x \in V |-> IF x = NoNode THEN NoNode ELSE h[x].next]
           step == [i \in 1 .. N |-> IF i = 1 THEN [x \in V |-> n] ELSE on]
           IsWalk(f) == f = [i \in 1 .. N |->
                               IF i = 1 THEN n
                               ELSE LET before == f[i - 1]
                                    IN  IF before = NoNode THEN NoNode ELSE h[before].next]
           walk == CHOOSE f : IsWalk(f)
<1>1. /\ DOMAIN h = D /\ NoNode \notin D /\ IsFiniteSet(D) /\ N \in Nat
      /\ \A x \in D : h[x].next \in V
  BY TreePointers, HeapAssumption, FS_Subset, FS_CardinalityType
<1>2. From(h, n) = [i \in 1 .. Cardinality({i \in 1 .. N : walk[i] # NoNode}) |-> walk[i]]
  BY <1>1 DEF From
<1>3. \E g : Course(g, N, V, NoNode, step)
  <2>1. \A x \in V : on[x] \in V
    BY <1>1 DEF Pointers
  <2>2. on \in [V -> V] /\ [x \in V |-> n] \in [V -> V] /\ NoNode \in V
    BY <2>1 DEF Pointers
  <2>3. Steps(N, V, step)
    BY <2>2 DEF Steps
  <2>4. QED
    BY <1>1, <2>2, <2>3, LoopRuns
<1>4. PICK g : Course(g, N, V, NoNode, step)
  BY <1>3
<1>5. g \in [0 .. N -> V] /\ \A i \in 1 .. N : g[i] = step[i][g[i - 1]]
  BY <1>4 DEF Course
<1>6. IsWalk([i \in 1 .. N |-> g[i]])
  <2> DEFINE f == [i \in 1 .. N |-> g[i]]
  <2>1. ASSUME NEW i \in 1 .. N
        PROVE  f[i] = IF i = 1 THEN n
                      ELSE LET before == f[i - 1]
                           IN  IF before = NoNode THEN NoNode ELSE h[before].next
    <3>1. i - 1 \in 0 .. N /\ f[i] = g[i] /\ g[i] = step[i][g[i - 1]]
      <4> HIDE DEF step, V
      <4>1. QED
        BY <1>1, <1>5
    <3>2. g[i - 1] \in V
      BY <1>5, <3>1
    <3>3. CASE i = 1
      BY <3>1, <3>2, <3>3
    <3>4. CASE i # 1
      <4>1. i - 1 \in 1 .. N
        BY <1>1, <3>4
      <4>2. f[i - 1] = g[i - 1]
        BY <4>1
      <4>3. step[i][g[i - 1]] = IF g[i - 1] = NoNode THEN NoNode ELSE h[g[i - 1]].next
        BY <3>2, <3>4
      <4>4. QED
        BY <3>1, <3>4, <4>2, <4>3
    <3>5. QED
      BY <3>3, <3>4
  <2>2. QED
    BY <2>1
<1>7. IsWalk(walk)
  <2> HIDE DEF IsWalk
  <2>1. QED
    BY <1>6
<1> HIDE DEF walk
<1>8. \A i \in 1 .. N :
        /\ i = 1 => walk[i] = n
        /\ i # 1 /\ walk[i - 1] = NoNode => walk[i] = NoNode
        /\ i # 1 /\ walk[i - 1] # NoNode => walk[i] = h[walk[i - 1]].next
  BY <1>7
<1>9. walk = [i \in 1 .. N |-> walk[i]]
  BY <1>7
<1>10. \A i \in 1 .. N : walk[i] \in V
  <2> DEFINE Q == {i \in 0 .. N : i # 0 => walk[i] \in V}
  <2>1. 0 \in Q
    BY <1>1
  <2>2. ASSUME NEW i \in 0 .. N, i < N, i \in Q
        PROVE  i + 1 \in Q
    <3>1. i + 1 \in 1 .. N /\ (i + 1) - 1 = i
      BY <1>1, <2>2
    <3>2. CASE i = 0
      <4>1. walk[i + 1] = n
        BY <1>8, <3>1, <3>2
      <4>2. QED
        BY <3>1, <4>1
    <3>3. CASE i # 0
      <4>1. walk[i] \in V /\ i + 1 # 1
        BY <2>2, <3>3
      <4>2. walk[i] = NoNode \/ walk[i] \in D
        BY <4>1 DEF Pointers
      <4>3. walk[i + 1] \in V
        BY <1>1, <1>8, <3>1, <4>1, <4>2
      <4>4. QED
        BY <3>1, <4>3
    <3>4. QED
      BY <3>2, <3>3
  <2> HIDE DEF Q
  <2>3. 0 .. N \subseteq Q
    BY <1>1, <2>1, <2>2, CountingUp
  <2>4. QED
    BY <1>1, <2>3 DEF Q
<1>11. walk \in [1 .. N -> V]
  BY <1>10, <1>9
<1>12. QED
  BY <1>2, <1>8, <1>11 DEF Walk

\* The walk from an item nobody stands before ends: it never comes back to an item, and
\* there are only so many.
LEMMA WalkEnds ==
  ASSUME NEW D, NEW R, NEW h, Tree(h, D, R), NEW n \in D, h[n].prev = NoNode,
         NEW f, Walk(f, h, n, D), \A i \in 1 .. Cardinality(D) : f[i] # NoNode
  PROVE  Cardinality(D) \in Nat \ {0} /\ h[f[Cardinality(D)]].next = NoNode
<1> DEFINE N == Cardinality(D)
<1>1. /\ DOMAIN h = D /\ NoNode \notin D /\ IsFiniteSet(D) /\ N \in Nat
      /\ \A x \in D : h[x].next \in Pointers(D)
  BY TreePointers, HeapAssumption, FS_Subset, FS_CardinalityType
<1>2. N # 0
  BY <1>1, FS_EmptySet
<1>3. \A x \in D : h[x].next # NoNode => h[h[x].next].prev = x
  BY <1>1 DEF Tree, Linked, NeighboursAgree
<1>4. \A i \in 1 .. N : f[i] \in D /\ (i = 1 => f[i] = n) /\ (i # 1 => f[i] = h[f[i - 1]].next)
  <2> SUFFICES ASSUME NEW i \in 1 .. N
               PROVE  f[i] \in D /\ (i = 1 => f[i] = n) /\ (i # 1 => f[i] = h[f[i - 1]].next)
    OBVIOUS
  <2>1. f[i] \in Pointers(D) /\ f[i] # NoNode
    BY DEF Walk
  <2>2. i # 1 => i - 1 \in 1 .. N
    BY <1>1
  <2>3. i # 1 => f[i - 1] # NoNode
    BY <2>2
  <2>4. (i = 1 => f[i] = n) /\ (i # 1 => f[i] = h[f[i - 1]].next)
    BY <2>3 DEF Walk
  <2>5. QED
    BY <2>1, <2>4 DEF Pointers
<1>5. \A i \in 1 .. N : /\ i = 1 => h[f[i]].prev = NoNode
                        /\ i # 1 => i - 1 \in 1 .. N /\ h[f[i]].prev = f[i - 1]
  <2> SUFFICES ASSUME NEW i \in 1 .. N
               PROVE  /\ i = 1 => h[f[i]].prev = NoNode
                      /\ i # 1 => i - 1 \in 1 .. N /\ h[f[i]].prev = f[i - 1]
    OBVIOUS
  <2>1. i = 1 => h[f[i]].prev = NoNode
    BY <1>4
  <2>2. ASSUME i # 1
        PROVE  i - 1 \in 1 .. N /\ h[f[i]].prev = f[i - 1]
    <3>1. i - 1 \in 1 .. N
      BY <1>1, <2>2
    <3>2. f[i - 1] \in D /\ f[i] = h[f[i - 1]].next /\ f[i] # NoNode
      BY <1>4, <2>2, <3>1
    <3>3. QED
      BY <1>3, <3>1, <3>2
  <2>3. QED
    BY <2>1, <2>2
<1>6. \A i, j \in 1 .. N : i # j => f[i] # f[j]
  <2> DEFINE Q == {k \in 0 .. N : \A i, j \in 1 .. N : i <= k /\ i < j => f[i] # f[j]}
  <2>1. 0 \in Q
    BY <1>1
  <2>2. ASSUME NEW k \in 0 .. N, k < N, k \in Q
        PROVE  k + 1 \in Q
    <3>1. k + 1 \in 1 .. N /\ k + 1 \in 0 .. N
      BY <1>1, <2>2
    <3>2. ASSUME NEW i \in 1 .. N, NEW j \in 1 .. N, i <= k + 1, i < j, f[i] = f[j]
          PROVE  FALSE
      <4>1. j # 1 /\ j - 1 \in 1 .. N /\ h[f[j]].prev = f[j - 1]
        BY <1>1, <1>5, <3>2
      <4>2. CASE i = 1
        <5>1. h[f[i]].prev = NoNode /\ f[j - 1] # NoNode
          BY <1>5, <4>1, <4>2
        <5>2. QED
          BY <3>2, <4>1, <5>1
      <4>3. CASE i # 1
        <5>1. i - 1 \in 1 .. N /\ h[f[i]].prev = f[i - 1] /\ i - 1 <= k /\ i - 1 < j - 1
          BY <1>1, <1>5, <3>2, <4>3
        <5>2. f[i - 1] # f[j - 1]
          BY <2>2, <4>1, <5>1
        <5>3. QED
          BY <3>2, <4>1, <5>1, <5>2
      <4>4. QED
        BY <4>2, <4>3
    <3>3. QED
      BY <3>1, <3>2
  <2> HIDE DEF Q
  <2>3. 0 .. N \subseteq Q
    BY <1>1, <2>1, <2>2, CountingUp
  <2>4. N \in Q
    BY <1>1, <2>3
  <2>5. \A i, j \in 1 .. N : i < j => f[i] # f[j]
    BY <1>1, <2>4 DEF Q
  <2>6. \A i, j \in 1 .. N : i # j => i < j \/ j < i
    BY <1>1
  <2>7. QED
    BY <2>5, <2>6
<1>7. \A y \in D : \E i \in 1 .. N : f[i] = y
  <2>1. f \in [1 .. N -> D]
    BY <1>4 DEF Walk
  <2>2. f \in Injection(1 .. N, D)
    BY <1>6, <2>1 DEF Injection, IsInjective
  <2>3. IsFiniteSet(1 .. N) /\ Cardinality(1 .. N) = N
    BY <1>1, FS_Interval
  <2>4. f \in Surjection(1 .. N, D)
    BY <1>1, <2>2, <2>3, FS_Injection
  <2>5. QED
    BY <2>4 DEF Surjection
<1>8. N \in 1 .. N
  BY <1>1, <1>2
<1>9. ASSUME h[f[N]].next # NoNode
      PROVE  FALSE
  <2>1. f[N] \in D /\ h[f[N]].next \in D /\ h[h[f[N]].next].prev = f[N] /\ f[N] # NoNode
    BY <1>1, <1>3, <1>4, <1>8, <1>9 DEF Pointers
  <2>2. PICK j \in 1 .. N : f[j] = h[f[N]].next
    BY <1>7, <2>1
  <2>3. h[f[j]].prev = f[N]
    BY <2>1, <2>2
  <2>4. j # 1
    BY <1>5, <2>1, <2>3
  <2>5. j - 1 \in 1 .. N /\ h[f[j]].prev = f[j - 1]
    BY <1>5, <2>4
  <2>6. j - 1 # N
    BY <1>1, <2>4
  <2>7. QED
    BY <1>6, <1>8, <2>3, <2>5, <2>6
<1>10. QED
  BY <1>1, <1>2, <1>9

\* From an item nobody stands before, From is the whole list.
LEMMA FromIsList ==
  ASSUME NEW D, NEW R, NEW h, Tree(h, D, R), NEW n \in Pointers(D),
         n # NoNode => h[n].prev = NoNode
  PROVE  IsList(h, n, From(h, n))
<1> DEFINE N == Cardinality(D)
           K(f) == {i \in 1 .. N : f[i] # NoNode}
           c == From(h, n)
<1>1. /\ DOMAIN h = D /\ NoNode \notin D /\ IsFiniteSet(D) /\ N \in Nat
      /\ \A x \in D : h[x].next \in Pointers(D)
  BY TreePointers, HeapAssumption, FS_Subset, FS_CardinalityType
<1>2. PICK f : Walk(f, h, n, D)
  BY FromWalks
<1>3. /\ f \in [1 .. N -> Pointers(D)]
      /\ \A i \in 1 .. N : /\ i = 1 => f[i] = n
                           /\ i # 1 /\ f[i - 1] = NoNode => f[i] = NoNode
                           /\ i # 1 /\ f[i - 1] # NoNode => f[i] = h[f[i - 1]].next
      /\ c = [i \in 1 .. Cardinality(K(f)) |-> f[i]]
  BY <1>2 DEF Walk
<1>4. \E k \in 0 .. N : /\ K(f) = 1 .. k
                        /\ k < N => f[k + 1] = NoNode
  <2>1. CASE \A i \in 1 .. N : f[i] # NoNode
    <3>1. K(f) = 1 .. N /\ N \in 0 .. N /\ ~(N < N)
      BY <1>1, <2>1
    <3>2. QED
      BY <3>1
  <2>2. CASE \E i \in 1 .. N : f[i] = NoNode
    <3> DEFINE S == {i \in 1 .. N : f[i] = NoNode}
    <3>1. S \in SUBSET Nat /\ S # {}
      BY <2>2
    <3>2. PICK m \in S : \A i \in S : m <= i
      BY <3>1, LeastNumber
    <3>3. m \in 1 .. N /\ f[m] = NoNode /\ m - 1 \in 0 .. N /\ (m - 1) + 1 = m
      BY <1>1, <3>2
    <3> DEFINE Q == {i \in 0 .. N : i >= m => f[i] = NoNode}
    <3>4. 0 \in Q
      BY <1>1, <3>3
    <3>5. ASSUME NEW i \in 0 .. N, i < N, i \in Q
          PROVE  i + 1 \in Q
      <4>1. i + 1 \in 0 .. N /\ i + 1 \in 1 .. N /\ (i + 1) - 1 = i
        BY <1>1, <3>5
      <4>2. CASE i + 1 = m
        BY <3>3, <4>1, <4>2
      <4>3. CASE i + 1 < m
        BY <1>1, <3>3, <4>1, <4>3
      <4>4. CASE i >= m
        <5>1. f[i] = NoNode /\ i + 1 # 1
          BY <1>1, <3>3, <3>5, <4>4
        <5>2. f[i + 1] = NoNode
          BY <1>3, <4>1, <5>1
        <5>3. QED
          BY <4>1, <5>2
      <4>5. QED
        BY <1>1, <3>3, <4>1, <4>2, <4>3, <4>4
    <3> HIDE DEF Q
    <3>6. 0 .. N \subseteq Q
      BY <1>1, <3>4, <3>5, CountingUp
    <3>7. \A i \in 1 .. N : i >= m => f[i] = NoNode
      BY <3>6 DEF Q
    <3>8. \A i \in 1 .. N : i < m => f[i] # NoNode
      BY <1>1, <3>2, <3>3
    <3>9. K(f) = 1 .. (m - 1)
      BY <1>1, <3>3, <3>7, <3>8
    <3>10. QED
      BY <3>3, <3>9
  <2>3. QED
    BY <2>1, <2>2
<1>5. PICK k \in 0 .. N : K(f) = 1 .. k /\ (k < N => f[k + 1] = NoNode)
  BY <1>4
<1>6. k \in Nat /\ Cardinality(K(f)) = k
  <2>1. Cardinality(1 .. k) = k
    BY <1>1, FS_Interval
  <2> HIDE DEF K
  <2>2. QED
    BY <1>1, <1>5, <2>1
<1>7. c = [i \in 1 .. k |-> f[i]]
  BY <1>3, <1>6
<1>8. \A i \in 1 .. k : i \in 1 .. N /\ f[i] \in D
  BY <1>1, <1>3, <1>5 DEF Pointers
<1>9. c \in Seq(D) /\ Len(c) = k /\ \A i \in 1 .. k : c[i] = f[i]
  BY <1>6, <1>7, <1>8
<1> HIDE DEF c, K
<1>10. k = 0 <=> n = NoNode
  <2>1. CASE N = 0
    BY <1>1, <1>5, <2>1, FS_EmptySet DEF Pointers
  <2>2. CASE N # 0
    <3>1. 1 \in 1 .. N /\ f[1] = n
      BY <1>1, <1>3, <2>2
    <3>2. 1 \in 1 .. k <=> n # NoNode
      BY <1>5, <3>1 DEF K
    <3>3. QED
      BY <1>6, <3>2
  <2>3. QED
    BY <2>1, <2>2
<1>11. c = <<>> <=> k = 0
  BY <1>9
<1>12. ASSUME k # 0
       PROVE  c[1] = n /\ h[c[k]].next = NoNode
  <2>1. 1 \in 1 .. k /\ k \in 1 .. k
    BY <1>6, <1>12
  <2>2. c[1] = n
    BY <1>3, <1>8, <1>9, <2>1
  <2>3. CASE k < N
    <3>1. k + 1 \in 1 .. N /\ k + 1 # 1 /\ (k + 1) - 1 = k /\ f[k] # NoNode
      BY <1>1, <1>6, <1>8, <1>12, <2>1, <2>3
    <3>2. f[k + 1] = h[f[k]].next
      BY <1>3, <3>1
    <3>3. QED
      BY <1>5, <1>9, <2>1, <2>2, <2>3, <3>2
  <2>4. CASE k = N
    <3>1. \A i \in 1 .. N : f[i] # NoNode
      BY <1>1, <1>8, <2>4
    <3>2. n \in D /\ h[n].prev = NoNode
      BY <1>10, <1>12 DEF Pointers
    <3>3. h[f[N]].next = NoNode
      BY <1>2, <3>1, <3>2, WalkEnds
    <3>4. QED
      BY <1>9, <2>1, <2>2, <2>4, <3>3
  <2>5. QED
    BY <1>1, <1>5, <2>3, <2>4
<1>13. ASSUME NEW i \in 1 .. k, i < k
       PROVE  h[c[i]].next = c[i + 1]
  <2>1. i + 1 \in 1 .. k /\ i + 1 # 1 /\ (i + 1) - 1 = i
    BY <1>6, <1>13
  <2>2. f[i] # NoNode /\ i + 1 \in 1 .. N
    BY <1>1, <1>8, <2>1
  <2>3. f[i + 1] = h[f[i]].next
    BY <1>3, <2>1, <2>2
  <2>4. QED
    BY <1>9, <2>1, <2>3
<1>14. QED
  BY <1>1, <1>9, <1>10, <1>11, <1>12, <1>13 DEF IsList, c

\* There is one list from an item on.
LEMMA ListIsUnique ==
  ASSUME NEW h, NoNode \notin DOMAIN h, NEW n, NEW c, IsList(h, n, c), NEW d, IsList(h, n, d)
  PROVE  c = d
<1>1. /\ c \in Seq(DOMAIN h) /\ d \in Seq(DOMAIN h) /\ Len(c) \in Nat /\ Len(d) \in Nat
      /\ c = <<>> <=> d = <<>>
      /\ \A i \in 1 .. Len(c) : c[i] \in DOMAIN h
      /\ \A i \in 1 .. Len(d) : d[i] \in DOMAIN h
  BY DEF IsList
<1>2. CASE c = <<>>
  BY <1>1, <1>2
<1>3. CASE c # <<>>
  <2>1. /\ Len(c) # 0 /\ Len(d) # 0 /\ c[1] = d[1]
        /\ h[c[Len(c)]].next = NoNode /\ h[d[Len(d)]].next = NoNode
        /\ \A i \in 1 .. Len(c) : i < Len(c) => h[c[i]].next = c[i + 1]
        /\ \A i \in 1 .. Len(d) : i < Len(d) => h[d[i]].next = d[i + 1]
    BY <1>1, <1>3 DEF IsList
  <2> DEFINE Q == {i \in 0 .. Len(c) - 1 : i + 1 <= Len(d) /\ c[i + 1] = d[i + 1]}
  <2>2. 0 \in Q
    BY <1>1, <2>1
  <2>3. ASSUME NEW i \in 0 .. Len(c) - 1, i < Len(c) - 1, i \in Q
        PROVE  i + 1 \in Q
    <3>1. /\ i + 1 \in 1 .. Len(c) /\ i + 1 < Len(c) /\ (i + 1) + 1 \in 1 .. Len(c)
          /\ i + 1 \in 1 .. Len(d) /\ c[i + 1] = d[i + 1]
      BY <1>1, <2>3
    <3>2. h[d[i + 1]].next = c[(i + 1) + 1] /\ c[(i + 1) + 1] # NoNode
      BY <1>1, <2>1, <3>1
    <3>3. i + 1 # Len(d)
      BY <2>1, <3>2
    <3>4. i + 1 < Len(d)
      BY <1>1, <3>1, <3>3
    <3>5. d[(i + 1) + 1] = c[(i + 1) + 1]
      BY <2>1, <3>1, <3>2, <3>4
    <3>6. i + 1 \in 0 .. Len(c) - 1 /\ (i + 1) + 1 <= Len(d)
      BY <1>1, <3>1, <3>4
    <3>7. QED
      BY <3>5, <3>6
  <2> HIDE DEF Q
  <2>4. 0 .. Len(c) - 1 \subseteq Q
    <3>1. Len(c) - 1 \in Nat
      BY <1>1, <2>1
    <3>2. QED
      BY <2>2, <2>3, <3>1, CountingUp
  <2>5. \A i \in 1 .. Len(c) : i \in 1 .. Len(d) /\ c[i] = d[i]
    <3>1. ASSUME NEW i \in 1 .. Len(c)
          PROVE  i \in 1 .. Len(d) /\ c[i] = d[i]
      <4>1. i - 1 \in 0 .. Len(c) - 1 /\ (i - 1) + 1 = i
        BY <1>1
      <4>2. i - 1 \in Q
        BY <2>4, <4>1
      <4>3. (i - 1) + 1 <= Len(d) /\ c[(i - 1) + 1] = d[(i - 1) + 1]
        BY <4>2 DEF Q
      <4>4. QED
        BY <1>1, <4>1, <4>3
    <3>2. QED
      BY <3>1
  <2>6. Len(c) \in 1 .. Len(c) /\ Len(c) \in 1 .. Len(d) /\ c[Len(c)] = d[Len(c)]
    BY <1>1, <2>1, <2>5
  <2>7. ~(Len(c) < Len(d))
    <3>1. ASSUME Len(c) < Len(d)
          PROVE  FALSE
      <4>1. h[d[Len(c)]].next = d[Len(c) + 1] /\ Len(c) + 1 \in 1 .. Len(d)
        BY <1>1, <2>1, <2>6, <3>1
      <4>2. d[Len(c) + 1] # NoNode
        BY <1>1, <4>1
      <4>3. QED
        BY <2>1, <2>6, <4>1, <4>2
    <3>2. QED
      BY <3>1
  <2>8. Len(c) = Len(d)
    BY <1>1, <2>6, <2>7
  <2>9. QED
    BY <1>1, <2>5, <2>8, SeqEqual
<1>4. QED
  BY <1>2, <1>3

\* In a list of a tree everybody stands behind the one before and nobody stands twice.
LEMMA ListStands ==
  ASSUME NEW D, NEW R, NEW h, Tree(h, D, R), NEW n \in D, h[n].prev = NoNode,
         NEW c, IsList(h, n, c)
  PROVE  /\ c \in Seq(D) /\ Len(c) \in Nat \ {0} /\ \A i \in 1 .. Len(c) : c[i] \in D
         /\ \A i \in 1 .. Len(c) : /\ i = 1 => h[c[i]].prev = NoNode
                                   /\ i # 1 => i - 1 \in 1 .. Len(c) /\ h[c[i]].prev = c[i - 1]
         /\ \A i, j \in 1 .. Len(c) : i # j => c[i] # c[j]
<1>1. DOMAIN h = D /\ NoNode \notin D
  BY TreePointers
<1>2. \A x \in D : h[x].next # NoNode => h[h[x].next].prev = x
  BY <1>1 DEF Tree, Linked, NeighboursAgree
<1>3. c \in Seq(D) /\ Len(c) \in Nat \ {0} /\ \A i \in 1 .. Len(c) : c[i] \in D
  BY <1>1 DEF IsList
<1>4. c[1] = n /\ \A i \in 1 .. Len(c) : i < Len(c) => h[c[i]].next = c[i + 1]
  BY <1>3 DEF IsList
<1>5. ASSUME NEW i \in 1 .. Len(c), i # 1
      PROVE  i - 1 \in 1 .. Len(c) /\ h[c[i]].prev = c[i - 1]
  <2>1. i - 1 \in 1 .. Len(c) /\ i - 1 < Len(c) /\ (i - 1) + 1 = i
    BY <1>3, <1>5
  <2>2. h[c[i - 1]].next = c[i] /\ c[i] # NoNode /\ c[i - 1] \in D
    BY <1>1, <1>3, <1>4, <2>1
  <2>3. QED
    BY <1>2, <2>1, <2>2
<1>6. h[c[1]].prev = NoNode
  BY <1>4
<1>7. \A i, j \in 1 .. Len(c) : i # j => c[i] # c[j]
  <2> DEFINE Q == {k \in 0 .. Len(c) : \A i, j \in 1 .. Len(c) : i <= k /\ i < j => c[i] # c[j]}
  <2>1. 0 \in Q
    BY <1>3
  <2>2. ASSUME NEW k \in 0 .. Len(c), k < Len(c), k \in Q
        PROVE  k + 1 \in Q
    <3>1. k + 1 \in 1 .. Len(c) /\ k + 1 \in 0 .. Len(c)
      BY <1>3, <2>2
    <3>2. ASSUME NEW i \in 1 .. Len(c), NEW j \in 1 .. Len(c), i <= k + 1, i < j, c[i] = c[j]
          PROVE  FALSE
      <4>1. j # 1
        BY <1>3, <3>2
      <4>2. j - 1 \in 1 .. Len(c) /\ h[c[j]].prev = c[j - 1]
        BY <1>5, <4>1
      <4>3. CASE i = 1
        BY <1>1, <1>3, <1>6, <3>2, <4>2, <4>3
      <4>4. CASE i # 1
        <5>1. i - 1 \in 1 .. Len(c) /\ h[c[i]].prev = c[i - 1]
          BY <1>5, <4>4
        <5>2. i - 1 <= k /\ i - 1 < j - 1
          BY <1>3, <3>2
        <5>3. c[i - 1] # c[j - 1]
          BY <2>2, <4>2, <5>1, <5>2
        <5>4. QED
          BY <3>2, <4>2, <5>1, <5>3
      <4>5. QED
        BY <4>3, <4>4
    <3>3. QED
      BY <3>1, <3>2
  <2> HIDE DEF Q
  <2>3. 0 .. Len(c) \subseteq Q
    BY <1>3, <2>1, <2>2, CountingUp
  <2>4. Len(c) \in Q
    BY <1>3, <2>3
  <2>5. \A i, j \in 1 .. Len(c) : i < j => c[i] # c[j]
    BY <1>3, <2>4 DEF Q
  <2>6. \A i, j \in 1 .. Len(c) : i # j => i < j \/ j < i
    BY <1>3
  <2>7. QED
    BY <2>5, <2>6
<1>8. QED
  BY <1>3, <1>5, <1>6, <1>7

\* The children of an item that owns them: from its first child on, all in its list, none
\* of them free.
LEMMA ChildrenStand ==
  ASSUME NEW D, NEW R, NEW h, Tree(h, D, R), NEW a \in D, ~h[a].ref
  PROVE  LET c == Children(h, a)
         IN  /\ IsList(h, h[a].child, c)
             /\ c \in Seq(D) /\ Len(c) \in Nat
             /\ c = <<>> <=> h[a].child = NoNode
             /\ c # <<>> => Len(c) \in 1 .. Len(c) /\ 1 \in 1 .. Len(c) /\ c[1] = h[a].child
                            /\ h[c[Len(c)]].next = NoNode
             /\ \A i \in 1 .. Len(c) :
                  /\ c[i] \in D \ R
                  /\ i < Len(c) => h[c[i]].next = c[i + 1]
                  /\ i = 1 => h[c[i]].prev = NoNode
                  /\ i # 1 => i - 1 \in 1 .. Len(c) /\ h[c[i]].prev = c[i - 1]
                  /\ h[c[i]].prev = NoNode => h[a].child = c[i]
             /\ \A i, j \in 1 .. Len(c) : i # j => c[i] # c[j]
<1> DEFINE n == h[a].child
           c == Children(h, a)
<1>1. DOMAIN h = D /\ NoNode \notin D /\ n \in Pointers(D)
  BY TreePointers
<1>2. n # NoNode => h[n].prev = NoNode
  BY <1>1 DEF Tree, Linked, HeadsAreFirst
<1>3. IsList(h, n, c)
  BY <1>1, <1>2, FromIsList DEF Children
<1>4. \A x \in R : h[x].prev = NoNode /\ h[a].child # x
  BY <1>1 DEF Tree, IsFree
<1> HIDE DEF c
<1>5. c \in Seq(D) /\ Len(c) \in Nat /\ (c = <<>> <=> n = NoNode)
  BY <1>1, <1>3 DEF IsList
<1>6. CASE c = <<>>
  <2>1. Len(c) = 0
    BY <1>6
  <2>2. \A i \in 1 .. Len(c) : FALSE
    BY <2>1
  <2>3. QED
    BY <1>3, <1>5, <1>6, <2>2 DEF c
<1>7. CASE c # <<>>
  <2>1. n \in D /\ h[n].prev = NoNode
    BY <1>1, <1>2, <1>5, <1>7 DEF Pointers
  <2>2. /\ Len(c) \in Nat \ {0} /\ \A i \in 1 .. Len(c) : c[i] \in D
        /\ \A i \in 1 .. Len(c) : /\ i = 1 => h[c[i]].prev = NoNode
                                  /\ i # 1 => i - 1 \in 1 .. Len(c) /\ h[c[i]].prev = c[i - 1]
        /\ \A i, j \in 1 .. Len(c) : i # j => c[i] # c[j]
    BY <1>3, <2>1, ListStands
  <2>3. /\ c[1] = n /\ h[c[Len(c)]].next = NoNode
        /\ \A i \in 1 .. Len(c) : i < Len(c) => h[c[i]].next = c[i + 1]
    BY <1>3, <1>7 DEF IsList
  <2>4. Len(c) \in 1 .. Len(c) /\ 1 \in 1 .. Len(c)
    BY <2>2
  <2>5. ASSUME NEW i \in 1 .. Len(c)
        PROVE  c[i] \in D \ R /\ (h[c[i]].prev = NoNode => h[a].child = c[i])
    <3>1. CASE i = 1
      BY <1>4, <2>2, <2>3, <3>1
    <3>2. CASE i # 1
      <4>1. i - 1 \in 1 .. Len(c) /\ h[c[i]].prev = c[i - 1] /\ c[i - 1] \in D /\ c[i] \in D
        BY <2>2, <3>2
      <4>2. h[c[i]].prev # NoNode
        BY <1>1, <4>1
      <4>3. QED
        BY <1>4, <4>1, <4>2
    <3>3. QED
      BY <3>1, <3>2
  <2>6. QED
    BY <1>3, <1>5, <2>2, <2>3, <2>4, <2>5 DEF c
<1>8. QED
  BY <1>6, <1>7

\* The last child and NULL: what add_item_to_array appends to.
LEMMA LastChild ==
  ASSUME NEW D, NEW R, NEW h, Tree(h, D, R), NEW a \in D, ~h[a].ref
  PROVE  LET c == Children(h, a)
             last == IF c = <<>> THEN NoNode ELSE Last(c)
         IN  h[a].child # NoNode => last \in D \ R /\ h[last].next = NoNode
<1> DEFINE c == Children(h, a)
<1>1. /\ c = <<>> <=> h[a].child = NoNode
      /\ c # <<>> => Len(c) \in 1 .. Len(c) /\ h[c[Len(c)]].next = NoNode
      /\ \A i \in 1 .. Len(c) : c[i] \in D \ R
  BY ChildrenStand
<1> HIDE DEF c
<1>2. c # <<>> => Last(c) \in D \ R /\ h[Last(c)].next = NoNode
  BY <1>1 DEF Last
<1>3. QED
  BY <1>1, <1>2 DEF c

\* An item is in the list of one container only.
LEMMA OneContainer ==
  ASSUME NEW D, NEW R, NEW h, Tree(h, D, R), NEW a \in D, ~h[a].ref, NEW b \in D, ~h[b].ref,
         NEW i \in 1 .. Len(Children(h, a)), NEW j \in 1 .. Len(Children(h, b)),
         Children(h, a)[i] = Children(h, b)[j]
  PROVE  a = b
<1> DEFINE c == Children(h, a)
           d == Children(h, b)
<1>1. NoNode \notin D /\ \A x, y \in D : ~h[x].ref /\ ~h[y].ref /\ h[x].child # NoNode /\ h[x].child = h[y].child => x = y
  BY TreePointers DEF Tree, Linked, HeadsAreOwnedOnce
<1>2. /\ Len(c) \in Nat
      /\ \A k \in 1 .. Len(c) : /\ c[k] \in D
                                /\ k # 1 => k - 1 \in 1 .. Len(c) /\ h[c[k]].prev = c[k - 1]
                                /\ h[c[k]].prev = NoNode => h[a].child = c[k]
  BY ChildrenStand
<1>3. /\ Len(d) \in Nat
      /\ \A k \in 1 .. Len(d) : /\ d[k] \in D
                                /\ k # 1 => k - 1 \in 1 .. Len(d) /\ h[d[k]].prev = d[k - 1]
                                /\ h[d[k]].prev = NoNode => h[b].child = d[k]
                                /\ k = 1 => h[d[k]].prev = NoNode
  BY ChildrenStand
<1>4. \A k \in 1 .. Len(c) : k = 1 => h[c[k]].prev = NoNode
  BY ChildrenStand
<1>5. i \in 1 .. Len(c) /\ j \in 1 .. Len(d) /\ c[i] = d[j]
  OBVIOUS
<1> HIDE DEF c, d
<1> DEFINE Q == {k \in 0 .. Len(c) : \A x \in 1 .. Len(c), y \in 1 .. Len(d) :
                                       x <= k /\ c[x] = d[y] => a = b}
<1>6. 0 \in Q
  BY <1>2
<1>7. ASSUME NEW k \in 0 .. Len(c), k < Len(c), k \in Q
      PROVE  k + 1 \in Q
  <2>1. k + 1 \in 0 .. Len(c)
    BY <1>2, <1>7
  <2>2. ASSUME NEW x \in 1 .. Len(c), NEW y \in 1 .. Len(d), x <= k + 1, c[x] = d[y]
        PROVE  a = b
    <3>1. CASE h[c[x]].prev = NoNode
      BY <1>1, <1>2, <1>3, <2>2, <3>1
    <3>2. CASE h[c[x]].prev # NoNode
      <4>1. x # 1 /\ y # 1
        BY <1>3, <1>4, <2>2, <3>2
      <4>2. x - 1 \in 1 .. Len(c) /\ h[c[x]].prev = c[x - 1]
        BY <1>2, <4>1
      <4>3. y - 1 \in 1 .. Len(d) /\ h[d[y]].prev = d[y - 1]
        BY <1>3, <4>1
      <4>4. c[x - 1] = d[y - 1]
        BY <2>2, <4>2, <4>3
      <4>5. x - 1 <= k
        BY <1>2, <2>2
      <4>6. QED
        BY <1>7, <4>2, <4>3, <4>4, <4>5
    <3>3. QED
      BY <3>1, <3>2
  <2>3. QED
    BY <2>1, <2>2
<1> HIDE DEF Q
<1>8. 0 .. Len(c) \subseteq Q
  BY <1>2, <1>6, <1>7, CountingUp
<1>9. Len(c) \in Q
  BY <1>2, <1>8
<1>10. QED
  BY <1>2, <1>5, <1>9 DEF Q

-----------------------------------------------------------------------------
(* Blocks *)

\* There are finitely many.
LEMMA BlocksAreFinite ==
  ASSUME NEW S \in SUBSET Node, NEW h
  PROVE  IsFiniteSet(Blocks(h, S)) /\ Cardinality(Blocks(h, S)) \in Nat
<1>1. IsFiniteSet(S)
  BY HeapAssumption, FS_Subset
<1>2. IsFiniteSet({"text", "name"})
  <2>1. IsFiniteSet({"text"})
    BY FS_Singleton
  <2>2. IsFiniteSet({"text"} \cup {"name"})
    BY <2>1, FS_AddElement
  <2>3. {"text", "name"} = {"text"} \cup {"name"}
    OBVIOUS
  <2>4. QED
    BY <2>2, <2>3
<1>3. IsFiniteSet(S \X {"text", "name"})
  BY <1>1, <1>2, FS_Product
<1>4. Blocks(h, S) \in SUBSET (S \X {"text", "name"})
  BY DEF Blocks
<1>5. QED
  BY <1>3, <1>4, FS_Subset, FS_CardinalityType

\* Who has the same data owns the same blocks.
LEMMA BlocksOfSame ==
  ASSUME NEW g, NEW h, NEW S, \A x \in S : SameData(g[x], h[x])
  PROVE  Blocks(g, S) = Blocks(h, S)
<1>1. \A x \in S : (OwnsText(g[x]) <=> OwnsText(h[x])) /\ (OwnsName(g[x]) <=> OwnsName(h[x]))
  BY DEF SameData, OwnsText, OwnsName
<1>2. QED
  BY <1>1 DEF Blocks

\* The blocks of some items and of the others.
LEMMA BlocksSplit ==
  ASSUME NEW D \in SUBSET Node, NEW S \in SUBSET D, NEW h
  PROVE  Cardinality(Blocks(h, D)) = Cardinality(Blocks(h, S)) + Cardinality(Blocks(h, D \ S))
<1> DEFINE A == Blocks(h, S)
           B == Blocks(h, D \ S)
<1>1. IsFiniteSet(A) /\ IsFiniteSet(B) /\ Cardinality(A) \in Nat /\ Cardinality(B) \in Nat
  BY BlocksAreFinite
<1>2. A \cap B = {}
  BY DEF Blocks
<1>3. Blocks(h, D) = A \cup B
  BY DEF Blocks
<1> HIDE DEF A, B
<1>4. Cardinality(A \cup B) = Cardinality(A) + Cardinality(B) - Cardinality(A \cap B)
  BY <1>1, FS_Union
<1>5. Cardinality(A \cap B) = 0
  BY <1>2, FS_EmptySet
<1>6. QED
  BY <1>1, <1>3, <1>4, <1>5 DEF A, B

\* The blocks of one item.
BlockCount(r) == (IF OwnsText(r) THEN 1 ELSE 0) + (IF OwnsName(r) THEN 1 ELSE 0)

\* An item owns a text, a name, both or nothing.
LEMMA BlocksOfOne ==
  ASSUME NEW n \in Node, NEW h
  PROVE  Cardinality(Blocks(h, {n})) = BlockCount(h[n])
<1> DEFINE t == <<n, "text">>
           s == <<n, "name">>
<1>1. t # s
  OBVIOUS
<1>2. Blocks(h, {n}) = (IF OwnsText(h[n]) THEN {t} ELSE {}) \cup (IF OwnsName(h[n]) THEN {s} ELSE {})
  BY DEF Blocks
<1> HIDE DEF t, s
<1>3. /\ IsFiniteSet({}) /\ Cardinality({}) = 0
      /\ IsFiniteSet({t}) /\ Cardinality({t}) = 1
      /\ IsFiniteSet({s}) /\ Cardinality({s}) = 1
  BY FS_EmptySet, FS_Singleton
<1>4. Cardinality({t} \cup {s}) = 2
  BY <1>1, <1>3, FS_AddElement
<1>5. CASE OwnsText(h[n]) /\ OwnsName(h[n])
  BY <1>2, <1>4, <1>5 DEF BlockCount
<1>6. CASE OwnsText(h[n]) /\ ~OwnsName(h[n])
  <2>1. Blocks(h, {n}) = {t}
    BY <1>2, <1>6
  <2>2. QED
    BY <1>3, <1>6, <2>1 DEF BlockCount
<1>7. CASE ~OwnsText(h[n]) /\ OwnsName(h[n])
  <2>1. Blocks(h, {n}) = {s}
    BY <1>2, <1>7
  <2>2. QED
    BY <1>3, <1>7, <2>1 DEF BlockCount
<1>8. CASE ~OwnsText(h[n]) /\ ~OwnsName(h[n])
  <2>1. Blocks(h, {n}) = {}
    BY <1>2, <1>8
  <2>2. QED
    BY <1>3, <1>8, <2>1 DEF BlockCount
<1>9. QED
  BY <1>5, <1>6, <1>7, <1>8

\* What changes with the data of one item.
LEMMA BlocksOfChanged ==
  ASSUME NEW D \in SUBSET Node, NEW n \in D, NEW g, NEW h,
         \A x \in D \ {n} : SameData(g[x], h[x])
  PROVE  Cardinality(Blocks(g, D)) - BlockCount(g[n]) = Cardinality(Blocks(h, D)) - BlockCount(h[n])
<1>1. {n} \in SUBSET D /\ D \ {n} \in SUBSET Node /\ n \in Node
  OBVIOUS
<1>2. /\ Cardinality(Blocks(g, D)) = Cardinality(Blocks(g, {n})) + Cardinality(Blocks(g, D \ {n}))
      /\ Cardinality(Blocks(h, D)) = Cardinality(Blocks(h, {n})) + Cardinality(Blocks(h, D \ {n}))
  BY <1>1, BlocksSplit
<1>3. Blocks(g, D \ {n}) = Blocks(h, D \ {n}) /\ Cardinality(Blocks(h, D \ {n})) \in Nat
  BY <1>1, BlocksOfSame, BlocksAreFinite
<1>4. Cardinality(Blocks(g, {n})) = BlockCount(g[n]) /\ Cardinality(Blocks(h, {n})) = BlockCount(h[n])
  BY <1>1, BlocksOfOne
<1>5. BlockCount(g[n]) \in Nat /\ BlockCount(h[n]) \in Nat
  BY DEF BlockCount
<1>6. QED
  BY <1>2, <1>3, <1>4, <1>5

-----------------------------------------------------------------------------
(* Memories *)

Heaps == UNION {[D -> Item] : D \in SUBSET Node}
Memories == [heap : Heaps, strings : Int, fuel : Int, item : Pointers(Node)]

\* A memory whose items stand in linked lists or are in R, and whose blocks are counted.
Counted(m, R) ==
  /\ m \in Memories
  /\ Tree(m.heap, DOMAIN m.heap, R)
  /\ m.strings = Cardinality(Blocks(m.heap, DOMAIN m.heap))

\* A string has its text.
IsTold(r) == r.type = "string" => r.value # NoValue

Sound(m, R) == Counted(m, R) /\ \A x \in DOMAIN m.heap : IsTold(m.heap[x])

\* What a heap holds is as it was.
Keeps(g, h) == DOMAIN h \subseteq DOMAIN g /\ \A x \in DOMAIN h : g[x] = h[x]

\* The call gave a new item that stands nowhere, or failed and left nothing behind.
Gave(new, m, R) ==
  /\ new.item = NoNode => Sound(new, R)
  /\ new.item # NoNode => /\ new.item \notin DOMAIN m.heap
                          /\ Sound(new, R \cup {new.item})
                          /\ Keeps(new.heap, m.heap)

\* The fields of a memory.
LEMMA MemoryFields ==
  ASSUME NEW m \in Memories
  PROVE  /\ m.heap \in [DOMAIN m.heap -> Item] /\ DOMAIN m.heap \in SUBSET Node
         /\ m.strings \in Int /\ m.fuel \in Int /\ m.item \in Pointers(Node)
BY DEF Memories, Heaps

\* A memory with another heap.
LEMMA HeapChanged ==
  ASSUME NEW m \in Memories, NEW D \in SUBSET Node, NEW h \in [D -> Item]
  PROVE  LET g == [m EXCEPT !.heap = h]
         IN  /\ g \in Memories /\ g.heap = h /\ DOMAIN g.heap = D
             /\ g.strings = m.strings /\ g.fuel = m.fuel /\ g.item = m.item
<1>1. h \in Heaps /\ DOMAIN h = D
  BY DEF Heaps
<1>2. QED
  BY <1>1 DEF Memories

\* A memory with another number of blocks.
LEMMA CountChanged ==
  ASSUME NEW m \in Memories, NEW s \in Int
  PROVE  LET g == [m EXCEPT !.strings = s]
         IN  /\ g \in Memories /\ g.strings = s
             /\ g.heap = m.heap /\ g.fuel = m.fuel /\ g.item = m.item
BY DEF Memories

\* Which pointer a call returns changes nothing.
LEMMA ReturningKeeps ==
  ASSUME NEW m, NEW R, Sound(m, R), NEW n \in Pointers(Node)
  PROVE  /\ Sound(Returning(m, n), R) /\ Returning(m, n).item = n
         /\ Returning(m, n).heap = m.heap /\ Returning(m, n).strings = m.strings
         /\ Returning(m, n).fuel = m.fuel
<1>1. m \in Memories
  BY DEF Sound, Counted
<1>2. /\ Returning(m, n) \in Memories /\ Returning(m, n).item = n
      /\ Returning(m, n).heap = m.heap /\ Returning(m, n).strings = m.strings
      /\ Returning(m, n).fuel = m.fuel
  BY <1>1 DEF Returning, Memories
<1>3. QED
  BY <1>2 DEF Sound, Counted

\* A new item that stands nowhere.
LEMMA FreshKeepsTree ==
  ASSUME NEW D, NEW R, NEW h, Tree(h, D, R), NEW n \in Node \ D, NEW r \in Item,
         r.next = NoNode, r.prev = NoNode, ~r.ref => r.child = NoNode,
         NEW g, g = [x \in D \cup {n} |-> IF x = n THEN r ELSE h[x]]
  PROVE  Tree(g, D \cup {n}, R \cup {n})
<1>1. /\ DOMAIN h = D /\ NoNode \notin D /\ D \in SUBSET Node /\ h \in [D -> Item]
      /\ R \in SUBSET D /\ n # NoNode
      /\ \A x \in D : /\ h[x].next \in Pointers(D) /\ h[x].prev \in Pointers(D)
                      /\ ~h[x].ref => h[x].child \in Pointers(D)
  BY TreePointers, HeapAssumption DEF Tree
<1>2. /\ \A x \in D : h[x].next # NoNode => h[x].next \in D /\ h[h[x].next].prev = x
      /\ \A x \in D : h[x].prev # NoNode => h[x].prev \in D /\ h[h[x].prev].next = x
      /\ \A x \in D : ~h[x].ref /\ h[x].child # NoNode => h[x].child \in D /\ h[h[x].child].prev = NoNode
      /\ \A x, y \in D : ~h[x].ref /\ ~h[y].ref /\ h[x].child # NoNode /\ h[x].child = h[y].child => x = y
  BY <1>1 DEF Tree, Linked, NeighboursAgree, HeadsAreFirst, HeadsAreOwnedOnce
<1>3. /\ \A x \in R : /\ h[x].next = NoNode /\ h[x].prev = NoNode
                      /\ \A y \in D : ~h[y].ref => h[y].child # x
      /\ \A x \in D \ R : h[x].prev # NoNode \/ \E y \in D : ~h[y].ref /\ h[y].child = x
  BY <1>1 DEF Tree, IsFree, IsHeld
<1>4. /\ g \in [D \cup {n} -> Item] /\ DOMAIN g = D \cup {n} /\ n \notin D
      /\ g[n] = r /\ \A x \in D : g[x] = h[x]
  BY <1>1
<1>5. NeighboursAgree(g)
  BY <1>1, <1>2, <1>4 DEF NeighboursAgree
<1>6. HeadsAreFirst(g)
  BY <1>1, <1>2, <1>4 DEF HeadsAreFirst
<1>7. HeadsAreOwnedOnce(g)
  BY <1>1, <1>2, <1>4 DEF HeadsAreOwnedOnce
<1>8. IsFree(g, n)
  BY <1>1, <1>4 DEF IsFree, Pointers
<1>9. \A x \in R : IsFree(g, x)
  BY <1>1, <1>3, <1>4 DEF IsFree
<1>10. \A x \in (D \cup {n}) \ (R \cup {n}) : IsHeld(g, x)
  BY <1>1, <1>3, <1>4 DEF IsHeld
<1>11. D \cup {n} \in SUBSET Node /\ R \cup {n} \in SUBSET (D \cup {n})
  BY <1>1
<1>12. QED
  BY <1>4, <1>5, <1>6, <1>7, <1>8, <1>9, <1>10, <1>11 DEF Tree, Linked

\* Other data for an item that stays where it is; one without children may become a reference.
LEMMA ToldKeepsTree ==
  ASSUME NEW D, NEW R, NEW h, Tree(h, D, R), NEW n \in D, NEW r \in Item,
         r.next = h[n].next, r.prev = h[n].prev,
         \/ r.ref = h[n].ref /\ r.child = h[n].child
         \/ ~h[n].ref /\ h[n].child = NoNode /\ r.ref
  PROVE  Tree([h EXCEPT ![n] = r], D, R)
<1> DEFINE g == [h EXCEPT ![n] = r]
<1>1. /\ DOMAIN h = D /\ NoNode \notin D /\ D \in SUBSET Node /\ h \in [D -> Item]
      /\ R \in SUBSET D
  BY TreePointers DEF Tree
<1>2. /\ \A x \in D : h[x].next # NoNode => h[x].next \in D /\ h[h[x].next].prev = x
      /\ \A x \in D : h[x].prev # NoNode => h[x].prev \in D /\ h[h[x].prev].next = x
      /\ \A x \in D : ~h[x].ref /\ h[x].child # NoNode => h[x].child \in D /\ h[h[x].child].prev = NoNode
      /\ \A x, y \in D : ~h[x].ref /\ ~h[y].ref /\ h[x].child # NoNode /\ h[x].child = h[y].child => x = y
  BY <1>1 DEF Tree, Linked, NeighboursAgree, HeadsAreFirst, HeadsAreOwnedOnce
<1>3. /\ \A x \in R : /\ h[x].next = NoNode /\ h[x].prev = NoNode
                      /\ \A y \in D : ~h[y].ref => h[y].child # x
      /\ \A x \in D \ R : h[x].prev # NoNode \/ \E y \in D : ~h[y].ref /\ h[y].child = x
  BY <1>1 DEF Tree, IsFree, IsHeld
<1>4. g \in [D -> Item] /\ DOMAIN g = D /\ g[n] = r /\ \A x \in D : x # n => g[x] = h[x]
  BY <1>1
<1>5. \A x \in D : /\ g[x].next = h[x].next /\ g[x].prev = h[x].prev
                   /\ ~g[x].ref => ~h[x].ref /\ g[x].child = h[x].child
                   /\ ~h[x].ref /\ h[x].child # NoNode => ~g[x].ref /\ g[x].child = h[x].child
  BY <1>4
<1> HIDE DEF g
<1>6. NeighboursAgree(g)
  BY <1>2, <1>4, <1>5 DEF NeighboursAgree
<1>7. HeadsAreFirst(g)
  BY <1>2, <1>4, <1>5 DEF HeadsAreFirst
<1>8. HeadsAreOwnedOnce(g)
  BY <1>2, <1>4, <1>5 DEF HeadsAreOwnedOnce
<1>9. \A x \in R : IsFree(g, x)
  BY <1>1, <1>3, <1>4, <1>5 DEF IsFree
<1>10. \A x \in D \ R : IsHeld(g, x)
  BY <1>1, <1>3, <1>4, <1>5 DEF IsHeld
<1>11. QED
  BY <1>1, <1>4, <1>6, <1>7, <1>8, <1>9, <1>10 DEF Tree, Linked, g

\* What is said of an item, and the blocks it owns counted again.
LEMMA ToldIsCounted ==
  ASSUME NEW m, NEW R, Counted(m, R), NEW n \in DOMAIN m.heap, NEW r \in Item,
         r.next = m.heap[n].next, r.prev = m.heap[n].prev,
         \/ r.ref = m.heap[n].ref /\ r.child = m.heap[n].child
         \/ ~m.heap[n].ref /\ m.heap[n].child = NoNode /\ r.ref,
         NEW q \in Memories, q.heap = [m.heap EXCEPT ![n] = r],
         q.strings = m.strings - BlockCount(m.heap[n]) + BlockCount(r)
  PROVE  /\ Counted(q, R) /\ DOMAIN q.heap = DOMAIN m.heap /\ q.heap[n] = r
         /\ \A x \in DOMAIN m.heap : x # n => q.heap[x] = m.heap[x]
<1> DEFINE D == DOMAIN m.heap
<1>1. /\ m.heap \in [D -> Item] /\ D \in SUBSET Node /\ m.strings \in Int
      /\ m.strings = Cardinality(Blocks(m.heap, D)) /\ Tree(m.heap, D, R)
  BY MemoryFields DEF Counted
<1>2. DOMAIN q.heap = D /\ q.heap[n] = r /\ \A x \in D : x # n => q.heap[x] = m.heap[x]
  BY <1>1
<1>3. Tree(q.heap, D, R)
  BY <1>1, ToldKeepsTree
<1>4. \A x \in D \ {n} : SameData(q.heap[x], m.heap[x])
  BY <1>2 DEF SameData
<1>5. Cardinality(Blocks(q.heap, D)) - BlockCount(q.heap[n]) = m.strings - BlockCount(m.heap[n])
  BY <1>1, <1>4, BlocksOfChanged
<1>6. /\ BlockCount(r) \in Int /\ BlockCount(m.heap[n]) \in Int
      /\ Cardinality(Blocks(q.heap, D)) \in Int
  BY <1>1, BlocksAreFinite DEF BlockCount
<1>7. q.strings = Cardinality(Blocks(q.heap, D))
  BY <1>1, <1>2, <1>5, <1>6
<1>8. QED
  BY <1>2, <1>3, <1>7 DEF Counted

\* cJSON_New_Item.
LEMMA NewItemGives ==
  ASSUME NEW m, NEW R, Sound(m, R), NEW type \in Type
  PROVE  LET new == NewItem(m, type)
             n == new.item
         IN  /\ n = NoNode => Sound(new, R)
             /\ n # NoNode => /\ Counted(new, R \cup {n}) /\ n \notin DOMAIN m.heap
                              /\ Keeps(new.heap, m.heap)
                              /\ DOMAIN new.heap = DOMAIN m.heap \cup {n}
                              /\ n \in DOMAIN new.heap /\ new.heap[n] = Fresh(type)
<1> DEFINE D == DOMAIN m.heap
           free == Node \ D
           n == CHOOSE x \in free : TRUE
           g == [x \in D \cup {n} |-> IF x = n THEN Fresh(type) ELSE m.heap[x]]
           new == NewItem(m, type)
<1>1. /\ m \in Memories /\ m.heap \in [D -> Item] /\ D \in SUBSET Node /\ m.strings \in Int
      /\ m.fuel \in Int
      /\ m.strings = Cardinality(Blocks(m.heap, D)) /\ Tree(m.heap, D, R) /\ R \in SUBSET D
  BY MemoryFields DEF Sound, Counted, Tree
<1>2. CASE m.fuel = 0 \/ free = {}
  <2>1. new = ReturningNull(m)
    BY <1>2 DEF NewItem
  <2>2. NoNode \in Pointers(Node)
    BY DEF Pointers
  <2>3. Sound(ReturningNull(m), R) /\ ReturningNull(m).item = NoNode
    BY <2>2, ReturningKeeps DEF ReturningNull
  <2>4. QED
    BY <2>1, <2>3
<1>3. CASE ~(m.fuel = 0 \/ free = {})
  <2>1. new = [m EXCEPT !.heap = g, !.fuel = m.fuel - 1, !.item = n]
    BY <1>3 DEF NewItem
  <2>2. n \in Node \ D
    BY <1>3
  <2> HIDE DEF n
  <2>3. Fresh(type) \in Item
    BY HeapAssumption DEF Fresh, Item, Type
  <2>4. /\ Fresh(type).next = NoNode /\ Fresh(type).prev = NoNode /\ ~Fresh(type).ref
        /\ Fresh(type).child = NoNode /\ ~OwnsText(Fresh(type)) /\ ~OwnsName(Fresh(type))
    BY DEF Fresh, OwnsText, OwnsName
  <2>5. g \in [D \cup {n} -> Item] /\ D \cup {n} \in SUBSET Node /\ g[n] = Fresh(type)
        /\ \A x \in D : g[x] = m.heap[x]
    BY <1>1, <2>2, <2>3
  <2>6. Tree(g, D \cup {n}, R \cup {n})
    BY <1>1, <2>2, <2>3, <2>4, FreshKeepsTree
  <2> HIDE DEF g
  <2>7. g \in Heaps /\ DOMAIN g = D \cup {n} /\ n \in Pointers(Node) /\ m.fuel - 1 \in Int
    BY <1>1, <2>2, <2>5 DEF Heaps, Pointers
  <2>8. /\ new \in Memories /\ new.heap = g /\ new.strings = m.strings /\ new.item = n
    BY <1>1, <2>1, <2>7 DEF Memories
  <2>9. Cardinality(Blocks(g, D \cup {n})) = m.strings
    <3>1. D \cup {n} \in SUBSET Node /\ {n} \in SUBSET (D \cup {n}) /\ (D \cup {n}) \ {n} = D
      BY <2>2, <2>5
    <3>2. Cardinality(Blocks(g, D \cup {n})) = Cardinality(Blocks(g, {n})) + Cardinality(Blocks(g, D))
      BY <3>1, BlocksSplit
    <3>3. Cardinality(Blocks(g, {n})) = 0
      BY <2>2, <2>4, <2>5, BlocksOfOne DEF BlockCount
    <3>4. Blocks(g, D) = Blocks(m.heap, D)
      BY <2>5, BlocksOfSame DEF SameData
    <3>5. QED
      BY <1>1, <3>2, <3>3, <3>4
  <2>10. Counted(new, R \cup {n})
    BY <2>6, <2>7, <2>8, <2>9 DEF Counted
  <2>11. Keeps(new.heap, m.heap)
    BY <2>5, <2>7, <2>8 DEF Keeps
  <2>12. n # NoNode
    BY <2>2, HeapAssumption
  <2>13. QED
    BY <2>2, <2>5, <2>7, <2>8, <2>10, <2>11, <2>12
<1>4. QED
  BY <1>2, <1>3

\* cJSON_Delete of items that stand nowhere; NULL is none.
LEMMA DeleteIsSound ==
  ASSUME NEW m, NEW R, Counted(m, R), NEW S, S \ {NoNode} \in SUBSET R,
         \A x \in DOMAIN m.heap \ S : IsTold(m.heap[x])
  PROVE  Sound(Delete(m, S), R \ S) /\ Delete(m, S).item = m.item
<1> DEFINE D == DOMAIN m.heap
           T == S \ {NoNode}
           gone == Owned(m.heap, T)
           g == [x \in D \ gone |-> m.heap[x]]
           s == m.strings - Cardinality(Blocks(m.heap, gone))
           q == Delete(m, S)
<1>1. /\ m \in Memories /\ m.heap \in [D -> Item] /\ D \in SUBSET Node /\ m.strings \in Int
      /\ m.strings = Cardinality(Blocks(m.heap, D)) /\ Tree(m.heap, D, R) /\ R \in SUBSET D
  BY MemoryFields DEF Counted, Tree
<1>2. T \in SUBSET D /\ R \ T = R \ S
  BY <1>1, HeapAssumption
<1>3. gone \in SUBSET D /\ T \subseteq gone
  BY <1>1, <1>2, OwnedItems
<1>4. Tree(g, D \ gone, R \ T)
  BY <1>1, DeleteKeepsTree
<1>5. q = [m EXCEPT !.heap = g, !.strings = s]
  BY DEF Delete
<1> HIDE DEF gone
<1>6. g \in [D \ gone -> Item] /\ D \ gone \in SUBSET Node /\ \A x \in D \ gone : g[x] = m.heap[x]
  BY <1>1
<1> HIDE DEF g
<1>7. g \in Heaps /\ DOMAIN g = D \ gone
  BY <1>6 DEF Heaps
<1>8. Blocks(g, D \ gone) = Blocks(m.heap, D \ gone)
  BY <1>6, BlocksOfSame DEF SameData
<1>9. /\ Cardinality(Blocks(m.heap, D)) =
           Cardinality(Blocks(m.heap, gone)) + Cardinality(Blocks(m.heap, D \ gone))
      /\ Cardinality(Blocks(m.heap, gone)) \in Int /\ Cardinality(Blocks(m.heap, D \ gone)) \in Int
  BY <1>1, <1>3, <1>6, BlocksSplit, BlocksAreFinite
<1>10. s \in Int /\ s = Cardinality(Blocks(g, D \ gone))
  BY <1>1, <1>8, <1>9
<1> HIDE DEF s
<1>11. q \in Memories /\ q.heap = g /\ q.strings = s /\ q.item = m.item
  BY <1>1, <1>5, <1>7, <1>10 DEF Memories
<1> HIDE DEF q
<1>12. Counted(q, R \ S)
  BY <1>2, <1>4, <1>7, <1>10, <1>11 DEF Counted
<1>13. \A x \in DOMAIN q.heap : IsTold(q.heap[x])
  BY <1>1, <1>3, <1>6, <1>7, <1>11, HeapAssumption
<1>14. QED
  BY <1>11, <1>12, <1>13 DEF Sound, q

\* A new item that is told what it is.
LEMMA CreatedIsGiven ==
  ASSUME NEW m, NEW R, Sound(m, R), NEW type \in Type, NEW n, n = NewItem(m, type).item, n # NoNode,
         NEW r \in Item, r.next = NoNode, r.prev = NoNode, ~r.ref => r.child = NoNode,
         IsTold(r),
         NEW q \in Memories, q.heap = [NewItem(m, type).heap EXCEPT ![n] = r], q.item = n,
         q.strings = NewItem(m, type).strings + BlockCount(r)
  PROVE  Gave(q, m, R) /\ DOMAIN q.heap = DOMAIN m.heap \cup {n} /\ q.heap[n] = r
<1> DEFINE new == NewItem(m, type)
           c == new.item
<1>1. /\ n \in DOMAIN new.heap /\ new.heap[n] = Fresh(type)
      /\ DOMAIN new.heap = DOMAIN m.heap \cup {n}
  <2>1. /\ c \in DOMAIN new.heap /\ new.heap[c] = Fresh(type)
        /\ DOMAIN new.heap = DOMAIN m.heap \cup {c}
    BY NewItemGives
  <2>2. QED
    BY <2>1
<1>2. n \notin DOMAIN m.heap /\ Counted(new, R \cup {n}) /\ Keeps(new.heap, m.heap)
  <2>1. c \notin DOMAIN m.heap /\ Counted(new, R \cup {c}) /\ Keeps(new.heap, m.heap)
    BY NewItemGives
  <2>2. QED
    BY <2>1
<1>3. new.strings \in Int /\ BlockCount(r) \in Int
  BY <1>2, MemoryFields DEF Counted, BlockCount
<1>4. /\ Fresh(type).next = NoNode /\ Fresh(type).prev = NoNode /\ ~Fresh(type).ref
      /\ Fresh(type).child = NoNode /\ BlockCount(Fresh(type)) = 0
  BY DEF Fresh, OwnsText, OwnsName, BlockCount
<1>5. (r.ref = Fresh(type).ref /\ r.child = Fresh(type).child) \/ r.ref
  <2>1. CASE r.ref
    BY <2>1
  <2>2. CASE ~r.ref
    <3>1. r.ref \in BOOLEAN
      BY DEF Item
    <3>2. QED
      BY <1>4, <2>2, <3>1 DEF Fresh
  <2>3. QED
    BY <2>1, <2>2
<1>6. q.strings = new.strings - BlockCount(new.heap[n]) + BlockCount(r)
  BY <1>1, <1>3, <1>4
<1> HIDE DEF new
<1>7. /\ Counted(q, R \cup {n}) /\ DOMAIN q.heap = DOMAIN new.heap /\ q.heap[n] = r
      /\ \A x \in DOMAIN new.heap : x # n => q.heap[x] = new.heap[x]
  <2>1. q.heap = [new.heap EXCEPT ![n] = r]
    BY DEF new
  <2>2. \/ r.ref = new.heap[n].ref /\ r.child = new.heap[n].child
        \/ ~new.heap[n].ref /\ new.heap[n].child = NoNode /\ r.ref
    BY <1>1, <1>4, <1>5
  <2>3. r.next = new.heap[n].next /\ r.prev = new.heap[n].prev
    BY <1>1, <1>4
  <2>4. QED
    BY <1>1, <1>2, <1>6, <2>1, <2>2, <2>3, ToldIsCounted
<1>8. Keeps(q.heap, m.heap)
  BY <1>1, <1>2, <1>7 DEF Keeps
<1>9. \A x \in DOMAIN q.heap : IsTold(q.heap[x])
  <2>1. \A x \in DOMAIN m.heap : IsTold(m.heap[x])
    BY DEF Sound
  <2>2. QED
    BY <1>1, <1>7, <1>8, <2>1 DEF Keeps
<1>10. QED
  BY <1>1, <1>2, <1>7, <1>8, <1>9 DEF Gave, Sound

\* The item of a failed call is given back.
LEMMA GivenBack ==
  ASSUME NEW m, NEW R, R \in SUBSET DOMAIN m.heap, NEW new, NEW n, n \notin DOMAIN m.heap,
         n # NoNode, Counted(new, R \cup {n}), \A x \in DOMAIN new.heap \ {n} : IsTold(new.heap[x])
  PROVE  /\ Gave(ReturningNull(Delete(new, {n})), m, R)
         /\ ReturningNull(Delete(new, {n})).item = NoNode
<1> DEFINE q == Delete(new, {n})
<1>1. {n} \ {NoNode} \in SUBSET (R \cup {n}) /\ (R \cup {n}) \ {n} = R /\ NoNode \in Pointers(Node)
  BY DEF Pointers
<1>2. Sound(q, R)
  BY <1>1, DeleteIsSound
<1> HIDE DEF q
<1>3. Sound(ReturningNull(q), R) /\ ReturningNull(q).item = NoNode
  BY <1>1, <1>2, ReturningKeeps DEF ReturningNull
<1>4. QED
  BY <1>3 DEF Gave, q

\* The three assignments a caller of cJSON_New_Item makes.
LEMMA ItemAssigned ==
  ASSUME NEW r \in Item
  PROVE  /\ \A v \in Number \cup Text \cup {NoValue} :
              LET s == [r EXCEPT !.value = v]
              IN  /\ s \in Item /\ s.value = v /\ s.type = r.type /\ s.ref = r.ref
                  /\ s.next = r.next /\ s.prev = r.prev /\ s.child = r.child
                  /\ s.string = r.string /\ s.constKey = r.constKey
         /\ \A k \in Key \cup {NoKey}, b \in BOOLEAN :
              LET s == [r EXCEPT !.string = k, !.constKey = b]
              IN  /\ s \in Item /\ s.value = r.value /\ s.type = r.type /\ s.ref = r.ref
                  /\ s.next = r.next /\ s.prev = r.prev /\ s.child = r.child
                  /\ s.string = k /\ s.constKey = b
<1>1. ASSUME NEW v \in Number \cup Text \cup {NoValue}
      PROVE  LET s == [r EXCEPT !.value = v]
             IN  /\ s \in Item /\ s.value = v /\ s.type = r.type /\ s.ref = r.ref
                 /\ s.next = r.next /\ s.prev = r.prev /\ s.child = r.child
                 /\ s.string = r.string /\ s.constKey = r.constKey
  BY DEF Item
<1>2. ASSUME NEW k \in Key \cup {NoKey}, NEW b \in BOOLEAN
      PROVE  LET s == [r EXCEPT !.string = k, !.constKey = b]
             IN  /\ s \in Item /\ s.value = r.value /\ s.type = r.type /\ s.ref = r.ref
                 /\ s.next = r.next /\ s.prev = r.prev /\ s.child = r.child
                 /\ s.string = k /\ s.constKey = b
  BY DEF Item
<1>3. QED
  BY <1>1, <1>2

\* A string that was copied.
LEMMA CopiedFields ==
  ASSUME NEW m \in Memories
  PROVE  /\ Copied(m) \in Memories /\ Copied(m).heap = m.heap
         /\ Copied(m).strings = m.strings + 1 /\ Copied(m).item = m.item
<1>1. m.strings + 1 \in Int /\ m.fuel - 1 \in Int
  BY MemoryFields
<1>2. Copied(m) = [m EXCEPT !.strings = m.strings + 1, !.fuel = m.fuel - 1]
  BY DEF Copied
<1>3. QED
  BY <1>1, <1>2 DEF Memories

\* What cJSON_New_Item gave, as far as its callers need it.
LEMMA NewItemFields ==
  ASSUME NEW m, NEW R, Sound(m, R), NEW type \in Type, NewItem(m, type).item # NoNode
  PROVE  LET new == NewItem(m, type)
             n == new.item
         IN  /\ new \in Memories /\ n \in Node /\ n \notin DOMAIN m.heap /\ n \in DOMAIN new.heap
             /\ new.heap \in [DOMAIN new.heap -> Item] /\ new.strings \in Int
             /\ Counted(new, R \cup {n}) /\ R \in SUBSET DOMAIN m.heap
             /\ \A x \in DOMAIN m.heap : new.heap[x] = m.heap[x] /\ IsTold(m.heap[x])
             /\ new.heap[n] = Fresh(type) /\ Fresh(type) \in Item
             /\ DOMAIN new.heap = DOMAIN m.heap \cup {n} /\ DOMAIN new.heap \in SUBSET Node
<1> DEFINE new == NewItem(m, type)
           n == new.item
<1>1. /\ n \in DOMAIN new.heap /\ new.heap[n] = Fresh(type)
      /\ DOMAIN new.heap = DOMAIN m.heap \cup {n}
  BY NewItemGives
<1>2. n \notin DOMAIN m.heap /\ Counted(new, R \cup {n}) /\ Keeps(new.heap, m.heap)
  BY NewItemGives
<1>3. new \in Memories /\ R \in SUBSET DOMAIN m.heap
  BY <1>2 DEF Sound, Counted, Tree
<1> HIDE DEF new
<1>4. new.heap \in [DOMAIN new.heap -> Item] /\ DOMAIN new.heap \in SUBSET Node /\ new.strings \in Int
  BY <1>3, MemoryFields
<1>5. n \in Node
  BY <1>1, <1>4
<1>6. Fresh(type) \in Item
  BY <1>1, <1>4
<1>7. \A x \in DOMAIN m.heap : new.heap[x] = m.heap[x] /\ IsTold(m.heap[x])
  BY <1>2 DEF Keeps, Sound
<1>8. QED
  BY <1>1, <1>2, <1>3, <1>4, <1>5, <1>6, <1>7 DEF new

\* cJSON_CreateNumber and its siblings: an item, or nothing.
LEMMA CreateGives ==
  ASSUME NEW m, NEW R, Sound(m, R), NEW type \in Type, NEW value \in ValueOf(type)
  PROVE  LET q == Create(m, type, value)
         IN  /\ Gave(q, m, R)
             /\ q.item # NoNode => /\ DOMAIN q.heap = DOMAIN m.heap \cup {q.item}
                                   /\ ~q.heap[q.item].ref /\ q.heap[q.item].child = NoNode
                                   /\ q.heap[q.item].type = type
<1> DEFINE new == NewItem(m, type)
           n == new.item
           held == IF type = "string" THEN Copied(new) ELSE new
           r == [Fresh(type) EXCEPT !.value = value]
           q == [held EXCEPT !.heap[n].value = value]
<1>1. CASE n = NoNode
  <2>1. Create(m, type, value) = new
    BY <1>1 DEF Create
  <2>2. Gave(new, m, R)
    BY <1>1, NewItemGives DEF Gave
  <2>3. QED
    BY <1>1, <2>1, <2>2
<1>2. CASE n # NoNode
  <2> HIDE DEF n
  <2>1. /\ new \in Memories /\ n \in Node /\ n \notin DOMAIN m.heap /\ n \in DOMAIN new.heap
        /\ new.heap \in [DOMAIN new.heap -> Item] /\ new.strings \in Int
        /\ Counted(new, R \cup {n}) /\ R \in SUBSET DOMAIN m.heap
        /\ \A x \in DOMAIN m.heap : new.heap[x] = m.heap[x] /\ IsTold(m.heap[x])
        /\ new.heap[n] = Fresh(type) /\ Fresh(type) \in Item
        /\ DOMAIN new.heap = DOMAIN m.heap \cup {n} /\ DOMAIN new.heap \in SUBSET Node
    BY <1>2, NewItemFields DEF n
  <2>2. CASE type = "string" /\ ~CanCopy(new)
    <3>1. Create(m, type, value) = ReturningNull(Delete(new, {n}))
      BY <1>2, <2>2 DEF Create, n
    <3> HIDE DEF new
    <3>2. /\ R \in SUBSET DOMAIN m.heap /\ n \notin DOMAIN m.heap /\ Counted(new, R \cup {n})
          /\ \A x \in DOMAIN new.heap \ {n} : IsTold(new.heap[x])
      BY <2>1
    <3>3. Gave(ReturningNull(Delete(new, {n})), m, R) /\ ReturningNull(Delete(new, {n})).item = NoNode
      BY <1>2, <3>2, GivenBack, Zenon
    <3>4. QED
      BY <3>1, <3>3
  <2>3. CASE ~(type = "string" /\ ~CanCopy(new))
    <3>1. Create(m, type, value) = q
      BY <1>2, <2>3 DEF Create, n
    <3>2. /\ value \in Number \cup Text \cup {NoValue}
          /\ type = "string" => value # NoValue
          /\ type \in {"number", "array", "object", "string"}
      BY HeapAssumption DEF ValueOf, Type
    <3>3. /\ r \in Item /\ r.value = value /\ r.type = type /\ ~r.ref /\ r.next = NoNode
          /\ r.prev = NoNode /\ r.child = NoNode /\ r.string = NoKey
      BY <2>1, <3>2, ItemAssigned DEF Fresh
    <3> HIDE DEF r
    <3>4. BlockCount(r) = IF type = "string" THEN 1 ELSE 0
      BY <3>2, <3>3 DEF BlockCount, OwnsText, OwnsName
    <3>5. IsTold(r)
      BY <3>2, <3>3 DEF IsTold
    <3>6. /\ held \in Memories /\ held.heap = new.heap /\ held.item = n
          /\ held.strings = new.strings + BlockCount(r)
      <4>1. CASE type = "string"
        BY <2>1, <3>4, <4>1, CopiedFields DEF n
      <4>2. CASE type # "string"
        BY <2>1, <3>4, <4>2 DEF n
      <4>3. QED
        BY <4>1, <4>2
    <3> DEFINE g == [new.heap EXCEPT ![n] = r]
    <3>7. [held.heap EXCEPT ![n].value = value] = g
      BY <2>1, <3>6 DEF r
    <3> HIDE DEF held
    <3>8. q = [held EXCEPT !.heap = g]
      BY <3>6, <3>7 DEF Memories
    <3>9. g \in [DOMAIN new.heap -> Item]
      BY <2>1, <3>3
    <3> HIDE DEF g, q
    <3>10. q \in Memories /\ q.heap = g /\ q.strings = new.strings + BlockCount(r) /\ q.item = n
      BY <2>1, <3>6, <3>8, <3>9, HeapChanged
    <3>11. Gave(q, m, R) /\ DOMAIN q.heap = DOMAIN m.heap \cup {n} /\ q.heap[n] = r
      BY <1>2, <3>3, <3>10, <3>5, CreatedIsGiven DEF g, n
    <3>12. QED
      BY <3>1, <3>3, <3>10, <3>11
  <2>4. QED
    BY <2>2, <2>3
<1>3. QED
  BY <1>1, <1>2

\* What a call makes of a new item, when it makes a reference of it.
LEMMA ReferenceGiven ==
  ASSUME NEW m, NEW R, Sound(m, R), NEW type \in Type, NEW n, n = NewItem(m, type).item, n # NoNode,
         NEW r \in Item, r.next = NoNode, r.prev = NoNode, r.ref, r.string = NoKey, IsTold(r)
  PROVE  LET new == NewItem(m, type)
             q == [new EXCEPT !.heap = [new.heap EXCEPT ![n] = r]]
         IN  Gave(q, m, R)
<1> DEFINE new == NewItem(m, type)
           g == [new.heap EXCEPT ![n] = r]
           q == [new EXCEPT !.heap = g]
<1>1. /\ new \in Memories /\ n \in DOMAIN new.heap
      /\ new.heap \in [DOMAIN new.heap -> Item] /\ new.strings \in Int
      /\ DOMAIN new.heap \in SUBSET Node
  BY NewItemFields
<1>2. g \in [DOMAIN new.heap -> Item]
  BY <1>1
<1>3. BlockCount(r) = 0
  BY DEF BlockCount, OwnsText, OwnsName
<1>4. n = new.item
  OBVIOUS
<1> HIDE DEF new
<1>5. q \in Memories /\ q.heap = g /\ q.strings = new.strings /\ q.item = n
  <2> HIDE DEF g
  <2>1. QED
    BY <1>1, <1>2, <1>4, HeapChanged
<1> HIDE DEF q
<1>6. q.strings = new.strings + BlockCount(r)
  BY <1>1, <1>3, <1>5
<1>7. Gave(q, m, R)
  BY <1>5, <1>6, CreatedIsGiven DEF g, new
<1>8. QED
  BY <1>7 DEF q, g, new

\* cJSON_CreateStringReference.
LEMMA StringReferenceGives ==
  ASSUME NEW m, NEW R, Sound(m, R), NEW value \in Text
  PROVE  Gave(CreateStringReference(m, value), m, R)
<1> DEFINE new == NewItem(m, "string")
           n == new.item
           r == [Fresh("string") EXCEPT !.ref = TRUE, !.value = value]
           q == CreateStringReference(m, value)
<1>1. "string" \in Type
  BY DEF Type
<1>2. CASE n = NoNode
  BY <1>1, <1>2, NewItemGives DEF CreateStringReference, Gave
<1>3. CASE n # NoNode
  <2>1. n \in DOMAIN new.heap /\ new.heap[n] = Fresh("string") /\ Fresh("string") \in Item /\ new \in Memories
    BY <1>1, <1>3, NewItemFields
  <2>2. q = [new EXCEPT !.heap[n].ref = TRUE, !.heap[n].value = value]
    BY <1>3 DEF CreateStringReference
  <2>3. r \in Item /\ r.next = NoNode /\ r.prev = NoNode /\ r.ref /\ r.string = NoKey
        /\ IsTold(r)
    BY <2>1, HeapAssumption DEF Fresh, Item, IsTold
  <2> HIDE DEF n
  <2>4. q = [new EXCEPT !.heap = [new.heap EXCEPT ![n] = r]]
    BY <2>1, <2>2 DEF Memories, Heaps
  <2> HIDE DEF r
  <2>5. QED
    BY <1>1, <1>3, <2>3, <2>4, ReferenceGiven DEF n
<1>4. QED
  BY <1>2, <1>3

\* cJSON_CreateArrayReference, cJSON_CreateObjectReference.
LEMMA ListReferenceGives ==
  ASSUME NEW m, NEW R, Sound(m, R), NEW type \in {"array", "object"}, NEW child \in Node
  PROVE  Gave(CreateListReference(m, type, child), m, R)
<1> DEFINE new == NewItem(m, type)
           n == new.item
           r == [Fresh(type) EXCEPT !.ref = TRUE, !.child = child]
           q == CreateListReference(m, type, child)
<1>1. type \in Type
  BY DEF Type
<1>2. CASE n = NoNode
  BY <1>1, <1>2, NewItemGives DEF CreateListReference, Gave
<1>3. CASE n # NoNode
  <2>1. n \in DOMAIN new.heap /\ new.heap[n] = Fresh(type) /\ Fresh(type) \in Item /\ new \in Memories
    BY <1>1, <1>3, NewItemFields
  <2>2. q = [new EXCEPT !.heap[n].ref = TRUE, !.heap[n].child = child]
    BY <1>3 DEF CreateListReference
  <2>3. r \in Item /\ r.next = NoNode /\ r.prev = NoNode /\ r.ref /\ r.string = NoKey
        /\ IsTold(r)
    BY <2>1 DEF Fresh, Item, IsTold
  <2> HIDE DEF n
  <2>4. q = [new EXCEPT !.heap = [new.heap EXCEPT ![n] = r]]
    BY <2>1, <2>2 DEF Memories, Heaps
  <2> HIDE DEF r
  <2>5. QED
    BY <1>1, <1>3, <2>3, <2>4, ReferenceGiven DEF n
<1>4. QED
  BY <1>2, <1>3

\* create_reference.
LEMMA CreateReferenceGives ==
  ASSUME NEW m, NEW R, Sound(m, R), NEW n \in DOMAIN m.heap
  PROVE  Gave(CreateReference(m, n), m, R)
<1> DEFINE o == m.heap[n]
           new == NewItem(m, o.type)
           c == new.item
           r == [o EXCEPT !.string = NoKey, !.ref = TRUE, !.next = NoNode, !.prev = NoNode,
                          !.lender = IF OwnsText(o) THEN n ELSE @]
           q == CreateReference(m, n)
<1>1. o \in Item /\ n \in Node /\ IsTold(o)
  BY MemoryFields DEF Sound, Counted
<1>2. o.type \in Type
  BY <1>1 DEF Item
<1>3. CASE c = NoNode
  BY <1>2, <1>3, NewItemGives DEF CreateReference, Gave
<1>4. CASE c # NoNode
  <2>1. q = [new EXCEPT !.heap = [new.heap EXCEPT ![c] = r]]
    <3>1. q = [new EXCEPT !.heap[c] = r]
      BY <1>4 DEF CreateReference
    <3>2. QED
      BY <3>1
  <2>2. r \in Item /\ r.next = NoNode /\ r.prev = NoNode /\ r.ref /\ r.string = NoKey
        /\ IsTold(r)
    <3>1. (IF OwnsText(o) THEN n ELSE o.lender) \in Node \cup {NoNode}
      BY <1>1 DEF Item
    <3> HIDE DEF o
    <3>2. QED
      BY <1>1, <3>1, ZenonT(40) DEF Item, IsTold
  <2> HIDE DEF r
  <2>3. QED
    BY <1>2, <1>4, <2>1, <2>2, ReferenceGiven
<1>5. QED
  BY <1>3, <1>4

\* The start of cJSON_Duplicate: an item that owns its own text and name, or nothing.
LEMMA CopyItemGives ==
  ASSUME NEW m, NEW R, Sound(m, R), NEW o \in DOMAIN m.heap
  PROVE  LET q == CopyItem(m, o)
         IN  /\ Gave(q, m, R)
             /\ q.item # NoNode => /\ DOMAIN q.heap = DOMAIN m.heap \cup {q.item}
                                   /\ ~q.heap[q.item].ref /\ q.heap[q.item].child = NoNode
<1> DEFINE r == m.heap[o]
           new == NewItem(m, r.type)
           n == new.item
           text == IF r.type = "string" THEN Copied(new) ELSE new
           held == [text EXCEPT !.heap[n].value = r.value]
           name == IF OwnsName(r) THEN Copied(held) ELSE held
           q == [name EXCEPT !.heap[n].string = r.string, !.heap[n].constKey = r.constKey]
           s == [Fresh(r.type) EXCEPT !.value = r.value]
           t == [s EXCEPT !.string = r.string, !.constKey = r.constKey]
           g == [new.heap EXCEPT ![n] = s]
           f == [new.heap EXCEPT ![n] = t]
<1>1. r \in Item /\ IsTold(r)
  BY MemoryFields DEF Sound, Counted
<1>2. /\ r.type \in Type /\ r.value \in Number \cup Text \cup {NoValue}
      /\ r.string \in Key \cup {NoKey} /\ r.constKey \in BOOLEAN
  BY <1>1 DEF Item
<1>3. CASE n = NoNode
  <2>1. CopyItem(m, o) = new
    BY <1>3 DEF CopyItem
  <2>2. Gave(new, m, R)
    BY <1>2, <1>3, NewItemGives DEF Gave
  <2>3. QED
    BY <1>3, <2>1, <2>2
<1>4. CASE n # NoNode
  <2>1. CopyItem(m, o) = IF r.type = "string" /\ ~CanCopy(new) THEN ReturningNull(Delete(new, {n}))
                         ELSE IF OwnsName(r) /\ ~CanCopy(held) THEN ReturningNull(Delete(held, {n}))
                         ELSE q
    BY <1>4 DEF CopyItem
  <2> HIDE DEF r
  <2>2. /\ new \in Memories /\ n \in Node /\ n \notin DOMAIN m.heap /\ n \in DOMAIN new.heap
        /\ new.heap \in [DOMAIN new.heap -> Item] /\ new.strings \in Int
        /\ Counted(new, R \cup {n}) /\ R \in SUBSET DOMAIN m.heap
        /\ \A x \in DOMAIN m.heap : new.heap[x] = m.heap[x] /\ IsTold(m.heap[x])
        /\ new.heap[n] = Fresh(r.type) /\ Fresh(r.type) \in Item
        /\ DOMAIN new.heap = DOMAIN m.heap \cup {n} /\ DOMAIN new.heap \in SUBSET Node
    BY <1>2, <1>4, NewItemFields
  <2> HIDE DEF n
  <2>3. /\ s \in Item /\ s.value = r.value /\ s.type = r.type /\ ~s.ref /\ s.next = NoNode
        /\ s.prev = NoNode /\ s.child = NoNode /\ s.string = NoKey /\ ~s.constKey
    BY <1>2, <2>2, ItemAssigned DEF Fresh
  <2>4. /\ t \in Item /\ t.value = r.value /\ t.type = r.type /\ ~t.ref /\ t.next = NoNode
        /\ t.prev = NoNode /\ t.child = NoNode /\ t.string = r.string /\ t.constKey = r.constKey
    BY <1>2, <2>3 DEF Item
  <2> HIDE DEF s
  <2>5. /\ r.type = "string" => BlockCount(s) = 1
        /\ r.type # "string" => BlockCount(s) = 0
    BY <1>1, <2>3 DEF BlockCount, OwnsText, OwnsName, IsTold
  <2> HIDE DEF t
  <2>6. /\ OwnsName(r) => BlockCount(t) = BlockCount(s) + 1
        /\ ~OwnsName(r) => BlockCount(t) = BlockCount(s)
    <3>1. (OwnsText(t) <=> OwnsText(s)) /\ ~OwnsName(s) /\ (OwnsName(t) <=> OwnsName(r))
      BY <2>3, <2>4 DEF OwnsText, OwnsName
    <3>2. QED
      BY <3>1 DEF BlockCount
  <2>7. /\ text \in Memories /\ text.heap = new.heap /\ text.item = n
        /\ text.strings = new.strings + BlockCount(s)
    <3>1. CASE r.type = "string"
      BY <2>2, <2>5, <3>1, CopiedFields DEF n
    <3>2. CASE r.type # "string"
      BY <2>2, <2>5, <3>2 DEF n
    <3>3. QED
      BY <3>1, <3>2
  <2>8. [text.heap EXCEPT ![n].value = r.value] = g
    BY <2>2, <2>7 DEF s
  <2> HIDE DEF text
  <2>9. held = [text EXCEPT !.heap = g]
    BY <2>7, <2>8 DEF Memories
  <2>10. g \in [DOMAIN new.heap -> Item]
    BY <2>2, <2>3
  <2> HIDE DEF g, held
  <2>11. held \in Memories /\ held.heap = g /\ held.strings = new.strings + BlockCount(s) /\ held.item = n
    BY <2>2, <2>7, <2>9, <2>10, HeapChanged
  <2>12. /\ name \in Memories /\ name.heap = g /\ name.item = n
         /\ name.strings = new.strings + BlockCount(t)
    <3>1. BlockCount(s) \in Int
      BY DEF BlockCount
    <3>2. CASE OwnsName(r)
      BY <2>2, <2>6, <2>11, <3>1, <3>2, CopiedFields
    <3>3. CASE ~OwnsName(r)
      BY <2>6, <2>11, <3>3
    <3>4. QED
      BY <3>2, <3>3
  <2>13. [[name.heap EXCEPT ![n].string = r.string] EXCEPT ![n].constKey = r.constKey] = f
    <3>1. g[n] = s /\ n \in DOMAIN g
      BY <2>2 DEF g
    <3>2. [[g EXCEPT ![n].string = r.string] EXCEPT ![n].constKey = r.constKey] = [g EXCEPT ![n] = t]
      BY <3>1 DEF t
    <3>3. [g EXCEPT ![n] = t] = f
      BY <2>2 DEF g
    <3>4. QED
      BY <2>12, <3>2, <3>3
  <2> HIDE DEF name
  <2>14. q = [name EXCEPT !.heap = f]
    BY <2>12, <2>13 DEF Memories
  <2>15. f \in [DOMAIN new.heap -> Item]
    BY <2>2, <2>4
  <2> HIDE DEF f, q
  <2>16. q \in Memories /\ q.heap = f /\ q.strings = new.strings + BlockCount(t) /\ q.item = n
    BY <2>2, <2>12, <2>14, <2>15, HeapChanged
  <2>17. CASE r.type = "string" /\ ~CanCopy(new)
    <3>1. /\ R \in SUBSET DOMAIN m.heap /\ n \notin DOMAIN m.heap /\ Counted(new, R \cup {n})
          /\ n # NoNode /\ \A x \in DOMAIN new.heap \ {n} : IsTold(new.heap[x])
      BY <1>4, <2>2 DEF n
    <3> HIDE DEF new
    <3>2. Gave(ReturningNull(Delete(new, {n})), m, R) /\ ReturningNull(Delete(new, {n})).item = NoNode
      BY <3>1, GivenBack, Zenon
    <3>3. QED
      BY <2>1, <2>17, <3>2
  <2>18. CASE ~(r.type = "string" /\ ~CanCopy(new)) /\ OwnsName(r) /\ ~CanCopy(held)
    <3>1. Counted(held, R \cup {n}) /\ \A x \in DOMAIN held.heap \ {n} : IsTold(held.heap[x])
      <4>1. BlockCount(Fresh(r.type)) = 0
        BY DEF Fresh, OwnsText, OwnsName, BlockCount
      <4>2. BlockCount(s) \in Int
        BY DEF BlockCount
      <4>3. held.strings = new.strings - BlockCount(new.heap[n]) + BlockCount(s)
        BY <2>2, <2>11, <4>1, <4>2
      <4>4. /\ s.next = new.heap[n].next /\ s.prev = new.heap[n].prev
            /\ s.ref = new.heap[n].ref /\ s.child = new.heap[n].child
        BY <2>2, s = [Fresh(r.type) EXCEPT !.value = r.value] DEF Fresh, s
      <4> HIDE DEF new
      <4>5. /\ Counted(held, R \cup {n}) /\ DOMAIN held.heap = DOMAIN new.heap
            /\ \A x \in DOMAIN new.heap : x # n => held.heap[x] = new.heap[x]
        BY <2>2, <2>3, <2>11, <4>3, <4>4, ToldIsCounted DEF g
      <4>6. QED
        BY <2>2, <4>5
    <3>2. R \in SUBSET DOMAIN m.heap /\ n \notin DOMAIN m.heap /\ n # NoNode
      BY <1>4, <2>2 DEF n
    <3> HIDE DEF held
    <3>3. Gave(ReturningNull(Delete(held, {n})), m, R) /\ ReturningNull(Delete(held, {n})).item = NoNode
      BY <3>1, <3>2, GivenBack, Zenon
    <3>4. QED
      BY <2>1, <2>18, <3>3
  <2>19. CASE ~(r.type = "string" /\ ~CanCopy(new)) /\ ~(OwnsName(r) /\ ~CanCopy(held))
    <3>1. CopyItem(m, o) = q
      BY <2>1, <2>19
    <3>2. IsTold(t)
      BY <1>1, <2>4 DEF IsTold
    <3>3. Gave(q, m, R) /\ DOMAIN q.heap = DOMAIN m.heap \cup {n} /\ q.heap[n] = t
      BY <1>2, <1>4, <2>4, <2>16, <3>2, CreatedIsGiven DEF f, n
    <3>4. QED
      BY <2>4, <2>16, <3>1, <3>3
  <2>20. QED
    BY <2>17, <2>18, <2>19
<1>5. QED
  BY <1>3, <1>4

-----------------------------------------------------------------------------
(* Items in lists *)

\* Pointers moved, and nothing else.
LEMMA RelinkedIsSound ==
  ASSUME NEW m, NEW R, Sound(m, R), NEW Q, NEW g, Tree(g, DOMAIN m.heap, Q),
         \A x \in DOMAIN m.heap : SameData(g[x], m.heap[x])
  PROVE  LET q == [m EXCEPT !.heap = g]
         IN  /\ Sound(q, Q) /\ q.heap = g /\ DOMAIN q.heap = DOMAIN m.heap
             /\ q.strings = m.strings /\ q.fuel = m.fuel /\ q.item = m.item
<1> DEFINE q == [m EXCEPT !.heap = g]
<1>1. /\ m \in Memories /\ DOMAIN m.heap \in SUBSET Node /\ g \in [DOMAIN m.heap -> Item]
      /\ m.strings = Cardinality(Blocks(m.heap, DOMAIN m.heap))
  BY MemoryFields DEF Sound, Counted, Tree
<1>2. /\ q \in Memories /\ q.heap = g /\ DOMAIN q.heap = DOMAIN m.heap
      /\ q.strings = m.strings /\ q.fuel = m.fuel /\ q.item = m.item
  BY <1>1, HeapChanged
<1>3. Blocks(g, DOMAIN m.heap) = Blocks(m.heap, DOMAIN m.heap)
  BY BlocksOfSame
<1> HIDE DEF q
<1>4. Counted(q, Q)
  BY <1>1, <1>2, <1>3 DEF Counted
<1>5. \A x \in DOMAIN q.heap : IsTold(q.heap[x])
  BY <1>2 DEF Sound, IsTold, SameData
<1>6. QED
  BY <1>2, <1>4, <1>5 DEF Sound, q

\* An item was linked, and nothing else happened.
Appended(q, m, n, R) == Sound(q, R \ {n}) /\ DOMAIN q.heap = DOMAIN m.heap

\* add_item_to_array.
LEMMA AddedToArray ==
  ASSUME NEW m, NEW R, Sound(m, R), NEW a \in DOMAIN m.heap, ~m.heap[a].ref, NEW n \in R
  PROVE  Appended(AddToArray(m, a, n), m, n, R)
<1> DEFINE c == Children(m.heap, a)
           last == IF c = <<>> THEN NoNode ELSE Last(c)
           g == AddedLast(m.heap, a, last, n)
<1>1. Tree(m.heap, DOMAIN m.heap, R)
  BY DEF Sound, Counted
<1>2. m.heap[a].child # NoNode => last \in DOMAIN m.heap \ R /\ m.heap[last].next = NoNode
  BY <1>1, LastChild
<1>3. AddToArray(m, a, n) = [m EXCEPT !.heap = g]
  BY DEF AddToArray
<1> HIDE DEF last
<1>4. Tree(g, DOMAIN m.heap, R \ {n}) /\ \A x \in DOMAIN m.heap : SameData(g[x], m.heap[x])
  BY <1>1, <1>2, AppendKeepsLinks
<1> HIDE DEF g
<1>5. LET q == [m EXCEPT !.heap = g] IN Sound(q, R \ {n}) /\ DOMAIN q.heap = DOMAIN m.heap
  BY <1>4, RelinkedIsSound
<1>6. QED
  BY <1>3, <1>5 DEF Appended

\* The call took an item, or failed and left everything as it was.
Took(q, m, n, R) ==
  /\ q.item = NoNode => Sound(q, R) /\ q.heap = m.heap
  /\ q.item # NoNode => q.item = n /\ Sound(q, R \ {n}) /\ DOMAIN q.heap = DOMAIN m.heap

\* add_item_to_object: the item has its new name only, or nothing happened.
LEMMA AddedToObject ==
  ASSUME NEW m, NEW R, Sound(m, R), NEW o \in DOMAIN m.heap, ~m.heap[o].ref, NEW n \in R \cup {NoNode},
         NEW k \in Key, NEW constant, constant \in {TRUE, FALSE}
  PROVE  Took(AddToObject(m, o, k, n, constant), m, n, R)
<1> DEFINE text == IF constant THEN m ELSE Copied(m)
           old == IF OwnsName(m.heap[n]) THEN 1 ELSE 0
           r == [m.heap[n] EXCEPT !.string = k, !.constKey = constant]
           g == [m.heap EXCEPT ![n] = r]
           named == [text EXCEPT !.strings = @ - old, !.heap[n].string = k, !.heap[n].constKey = constant]
           q == AddToObject(m, o, k, n, constant)
<1>1. /\ m \in Memories /\ DOMAIN m.heap \in SUBSET Node /\ m.heap \in [DOMAIN m.heap -> Item]
      /\ m.strings \in Int /\ R \in SUBSET DOMAIN m.heap /\ NoNode \in Pointers(Node)
      /\ Counted(m, R)
  BY MemoryFields DEF Sound, Counted, Tree, Pointers
<1>2. CASE n = NoNode \/ (~constant /\ ~CanCopy(m))
  <2>1. q = ReturningNull(m)
    BY <1>2 DEF AddToObject
  <2>2. QED
    BY <1>1, <2>1, ReturningKeeps DEF ReturningNull, Took
<1>3. CASE ~(n = NoNode \/ (~constant /\ ~CanCopy(m)))
  <2>1. n \in R /\ n \in DOMAIN m.heap /\ n # NoNode /\ n \in Pointers(Node)
    BY <1>1, <1>3 DEF Pointers
  <2>2. q = Returning(AddToArray(named, o, n), n)
    BY <1>3 DEF AddToObject
  <2>3. /\ text \in Memories /\ text.heap = m.heap /\ text.item = m.item
        /\ constant => text.strings = m.strings
        /\ ~constant => text.strings = m.strings + 1
    <3>1. CASE constant
      BY <1>1, <3>1
    <3>2. CASE ~constant
      BY <1>1, <3>2, CopiedFields
    <3>3. QED
      BY <3>1, <3>2
  <2>4. /\ r \in Item /\ r.value = m.heap[n].value /\ r.type = m.heap[n].type /\ r.ref = m.heap[n].ref
        /\ r.next = m.heap[n].next /\ r.prev = m.heap[n].prev /\ r.child = m.heap[n].child
        /\ r.string = k /\ r.constKey = constant
    <3>1. m.heap[n] \in Item
      BY <1>1, <2>1
    <3>2. QED
      BY <3>1 DEF Item
  <2>5. /\ [[m.heap EXCEPT ![n].string = k] EXCEPT ![n].constKey = constant] = g
        /\ g \in [DOMAIN m.heap -> Item]
    BY <1>1, <2>1, <2>4
  <2>6. text.strings - old \in Int
    BY <1>1, <2>3
  <2> HIDE DEF text
  <2>7. named = [[text EXCEPT !.strings = text.strings - old] EXCEPT !.heap = g]
    BY <2>3, <2>5 DEF Memories
  <2> HIDE DEF g, r, old
  <2> DEFINE counted == [text EXCEPT !.strings = text.strings - old]
  <2>8. counted \in Memories /\ counted.strings = text.strings - old /\ counted.item = text.item
    BY <2>3, <2>6, CountChanged
  <2> HIDE DEF counted, named
  <2>9. named \in Memories /\ named.heap = g /\ named.strings = text.strings - old
    <3>1. named = [counted EXCEPT !.heap = g]
      BY <2>7 DEF counted
    <3>2. QED
      BY <1>1, <2>5, <2>8, <3>1, HeapChanged
  <2>10. named.strings = m.strings - BlockCount(m.heap[n]) + BlockCount(r)
    <3>1. OwnsText(r) <=> OwnsText(m.heap[n])
      BY <2>4 DEF OwnsText
    <3>2. OwnsName(r) <=> ~constant
      BY <2>4, HeapAssumption DEF OwnsName
    <3>3. old \in Int /\ BlockCount(m.heap[n]) \in Int /\ BlockCount(r) \in Int
      BY DEF old, BlockCount
    <3>4. BlockCount(m.heap[n]) = (IF OwnsText(m.heap[n]) THEN 1 ELSE 0) + old
      BY DEF BlockCount, old
    <3>5. BlockCount(r) = (IF OwnsText(m.heap[n]) THEN 1 ELSE 0) + (IF constant THEN 0 ELSE 1)
      BY <3>1, <3>2 DEF BlockCount
    <3>6. QED
      BY <1>1, <2>3, <2>9, <3>3, <3>4, <3>5
  <2>11. /\ Counted(named, R) /\ DOMAIN named.heap = DOMAIN m.heap /\ named.heap[n] = r
         /\ \A x \in DOMAIN m.heap : x # n => named.heap[x] = m.heap[x]
    BY <1>1, <2>1, <2>4, <2>9, <2>10, ToldIsCounted DEF g
  <2>12. Sound(named, R)
    BY <2>1, <2>4, <2>11 DEF Sound, IsTold
  <2>13. ~named.heap[o].ref /\ o \in DOMAIN named.heap
    BY <2>4, <2>11
  <2>14. Sound(AddToArray(named, o, n), R \ {n}) /\ DOMAIN AddToArray(named, o, n).heap = DOMAIN named.heap
    <3>1. n \in R
      BY <2>1
    <3>2. Appended(AddToArray(named, o, n), named, n, R)
      BY <2>12, <2>13, <3>1, AddedToArray
    <3>3. QED
      BY <3>2 DEF Appended
  <2>15. /\ Sound(Returning(AddToArray(named, o, n), n), R \ {n})
         /\ Returning(AddToArray(named, o, n), n).item = n
         /\ Returning(AddToArray(named, o, n), n).heap = AddToArray(named, o, n).heap
    BY <2>1, <2>14, ReturningKeeps
  <2>16. QED
    BY <2>1, <2>2, <2>11, <2>14, <2>15 DEF Took
<1>4. QED
  BY <1>2, <1>3

\* A child, wherever it stands.
LEMMA ChildStands ==
  ASSUME NEW D, NEW R, NEW h, Tree(h, D, R), NEW a \in D, ~h[a].ref,
         NEW n \in ToSet(Children(h, a))
  PROVE  n \in D \ R /\ (h[n].prev = NoNode => h[a].child = n)
<1> DEFINE c == Children(h, a)
<1>1. /\ c \in Seq(D)
      /\ \A i \in 1 .. Len(c) : c[i] \in D \ R /\ (h[c[i]].prev = NoNode => h[a].child = c[i])
  BY ChildrenStand
<1> HIDE DEF c
<1>2. PICK i \in 1 .. Len(c) : n = c[i]
  BY <1>1 DEF ToSet, c
<1>3. QED
  BY <1>1, <1>2

\* get_array_item and get_object_item find children.
LEMMA FoundIsChild ==
  ASSUME NEW D, NEW R, NEW h, Tree(h, D, R), NEW a \in D, ~h[a].ref
  PROVE  /\ \A i \in Nat : ItemAt(h, a, i) # NoNode => ItemAt(h, a, i) \in ToSet(Children(h, a))
         /\ \A k \in Key, s \in BOOLEAN :
              ObjectItem(h, a, k, s) # NoNode => ObjectItem(h, a, k, s) \in ToSet(Children(h, a))
<1> DEFINE c == Children(h, a)
<1>1. c \in Seq(D)
  BY ChildrenStand
<1>2. ASSUME NEW i \in Nat, ItemAt(h, a, i) # NoNode
      PROVE  ItemAt(h, a, i) \in ToSet(c)
  <2>1. i < Len(c) /\ ItemAt(h, a, i) = c[i + 1]
    BY <1>2 DEF ItemAt
  <2> HIDE DEF c
  <2>2. i + 1 \in 1 .. Len(c)
    BY <1>1, <2>1
  <2>3. QED
    BY <1>1, <2>1, <2>2 DEF ToSet
<1>3. ASSUME NEW k \in Key, NEW s \in BOOLEAN, ObjectItem(h, a, k, s) # NoNode
      PROVE  ObjectItem(h, a, k, s) \in ToSet(c)
  <2> DEFINE Fits(n) == \/ s /\ h[n].string = NoKey
                        \/ h[n].string # NoKey /\ SameName(k, h[n].string, s)
             places == {i \in 1 .. Len(c) : Fits(c[i])}
             i == SelectInSeq(c, LAMBDA n : \/ s /\ h[n].string = NoKey
                                            \/ h[n].string # NoKey /\ SameName(k, h[n].string, s))
  <2>1. i = IF places # {} THEN Min(places) ELSE 0
    BY DEF SelectInSeq
  <2>2. i # 0 /\ ObjectItem(h, a, k, s) = c[i]
    BY <1>3 DEF ObjectItem
  <2> HIDE DEF i, c
  <2>3. places # {} /\ i = Min(places)
    BY <2>1, <2>2
  <2>4. places \in SUBSET Nat
    OBVIOUS
  <2> HIDE DEF Fits, places
  <2>5. i \in places
    BY <2>3, <2>4, LeastNumber DEF Min
  <2>6. i \in 1 .. Len(c)
    BY <2>5 DEF places
  <2>7. QED
    BY <1>1, <2>2, <2>6 DEF ToSet
<1>4. QED
  BY <1>2, <1>3

\* A child detached.
LEMMA DetachedIsSound ==
  ASSUME NEW m, NEW R, Sound(m, R), NEW a \in DOMAIN m.heap, ~m.heap[a].ref,
         NEW n \in ToSet(Children(m.heap, a))
  PROVE  LET q == [m EXCEPT !.heap = Detached(m.heap, a, n)]
         IN  /\ Sound(q, R \cup {n}) /\ DOMAIN q.heap = DOMAIN m.heap /\ n \in DOMAIN m.heap \ R
             /\ q.strings = m.strings
<1> DEFINE g == Detached(m.heap, a, n)
<1>1. Tree(m.heap, DOMAIN m.heap, R)
  BY DEF Sound, Counted
<1>2. n \in DOMAIN m.heap \ R /\ (m.heap[n].prev = NoNode => m.heap[a].child = n)
  BY <1>1, ChildStands
<1>3. Tree(g, DOMAIN m.heap, R \cup {n}) /\ \A x \in DOMAIN m.heap : SameData(g[x], m.heap[x])
  BY <1>1, <1>2, DetachKeepsLinks
<1> HIDE DEF g
<1>4. QED
  BY <1>2, <1>3, RelinkedIsSound DEF g

\* An item inserted in front of a child.
LEMMA InsertedIsSound ==
  ASSUME NEW m, NEW R, Sound(m, R), NEW a \in DOMAIN m.heap, ~m.heap[a].ref,
         NEW after \in ToSet(Children(m.heap, a)), NEW n \in R
  PROVE  LET q == [m EXCEPT !.heap = Inserted(m.heap, a, after, n)]
         IN  Sound(q, R \ {n}) /\ DOMAIN q.heap = DOMAIN m.heap /\ q.strings = m.strings
<1> DEFINE g == Inserted(m.heap, a, after, n)
<1>1. Tree(m.heap, DOMAIN m.heap, R)
  BY DEF Sound, Counted
<1>2. after \in DOMAIN m.heap \ R /\ (m.heap[after].prev = NoNode => m.heap[a].child = after)
  BY <1>1, ChildStands
<1>3. Tree(g, DOMAIN m.heap, R \ {n}) /\ \A x \in DOMAIN m.heap : SameData(g[x], m.heap[x])
  BY <1>1, <1>2, InsertKeepsLinks
<1> HIDE DEF g
<1>4. QED
  BY <1>3, RelinkedIsSound DEF g

\* cJSON_ReplaceItemViaPointer of a child, or of nothing.
LEMMA ReplaceIsSound ==
  ASSUME NEW m, NEW R, Sound(m, R), NEW a \in DOMAIN m.heap, ~m.heap[a].ref, NEW n,
         n # NoNode => n \in DOMAIN m.heap \ R /\ m.heap[n].next # n
                       /\ (m.heap[n].prev = NoNode => m.heap[a].child = n),
         NEW r \in R
  PROVE  LET q == Replace(m, a, n, r)
         IN  /\ q.item = NoNode => Sound(q, R)
             /\ q.item # NoNode => q.item = r /\ Sound(q, R \ {r})
<1> DEFINE g == Replaced(m.heap, a, n, r)
           q == [m EXCEPT !.heap = g]
<1>1. /\ Tree(m.heap, DOMAIN m.heap, R) /\ R \in SUBSET Node /\ NoNode \in Pointers(Node)
      /\ NoNode \notin DOMAIN m.heap
  BY MemoryFields, TreePointers DEF Sound, Counted, Tree, Pointers
<1>2. CASE n = NoNode
  <2>1. Replace(m, a, n, r) = ReturningNull(m)
    BY <1>2 DEF Replace
  <2>2. QED
    BY <1>1, <2>1, ReturningKeeps DEF ReturningNull
<1>3. CASE n # NoNode
  <2>1. n \in DOMAIN m.heap \ R /\ (m.heap[n].prev = NoNode => m.heap[a].child = n)
    BY <1>3
  <2>2. /\ Tree(g, DOMAIN m.heap, (R \ {r}) \cup {n})
        /\ \A x \in DOMAIN m.heap : SameData(g[x], m.heap[x])
    BY <1>1, <1>3, <2>1, ReplaceKeepsLinks
  <2>3. Replace(m, a, n, r) = Returning(Delete(q, {n}), r)
    BY <1>3 DEF Replace
  <2> HIDE DEF g
  <2>4. Sound(q, (R \ {r}) \cup {n})
    BY <2>2, RelinkedIsSound
  <2> HIDE DEF q
  <2>5. /\ {n} \ {NoNode} \in SUBSET ((R \ {r}) \cup {n})
        /\ ((R \ {r}) \cup {n}) \ {n} = R \ {r}
        /\ Counted(q, (R \ {r}) \cup {n}) /\ \A x \in DOMAIN q.heap \ {n} : IsTold(q.heap[x])
    BY <2>1, <2>4 DEF Sound
  <2>6. Sound(Delete(q, {n}), R \ {r})
    BY <2>5, DeleteIsSound
  <2> DEFINE d == Delete(q, {n})
  <2> HIDE DEF d
  <2>7. r \in Pointers(Node) /\ r # NoNode
    BY <1>1 DEF Pointers, Tree
  <2>8. Sound(Returning(d, r), R \ {r}) /\ Returning(d, r).item = r
    BY <2>6, <2>7, ReturningKeeps DEF d
  <2>9. QED
    BY <2>3, <2>7, <2>8 DEF d
<1>4. QED
  BY <1>2, <1>3

\* A replacement renamed: its old name is freed, it has its own copy of the new or none.
LEMMA RenamedIsSound ==
  ASSUME NEW m, NEW R, Sound(m, R), NEW r \in R, NEW k \in Key
  PROVE  LET q == Renamed(m, r, k)
         IN  /\ Sound(q, R) /\ DOMAIN q.heap = DOMAIN m.heap
             /\ \A x \in DOMAIN m.heap :
                  /\ q.heap[x].next = m.heap[x].next /\ q.heap[x].prev = m.heap[x].prev
                  /\ q.heap[x].child = m.heap[x].child /\ q.heap[x].ref = m.heap[x].ref
<1> DEFINE o == m.heap[r]
           old == IF OwnsName(o) THEN 1 ELSE 0
           g == [m.heap EXCEPT ![r].constKey = FALSE]
           freed == [m EXCEPT !.strings = @ - old, !.heap[r].constKey = FALSE]
           q == Renamed(m, r, k)
<1>1. /\ m \in Memories /\ DOMAIN m.heap \in SUBSET Node /\ m.heap \in [DOMAIN m.heap -> Item]
      /\ m.strings \in Int /\ r \in DOMAIN m.heap /\ Counted(m, R)
      /\ \A x \in DOMAIN m.heap : IsTold(m.heap[x])
  BY MemoryFields DEF Sound, Counted, Tree
<1>2. o \in Item /\ o.string \in Key \cup {NoKey} /\ k # NoKey
  BY <1>1, HeapAssumption DEF Item
<1>3. g \in [DOMAIN m.heap -> Item]
  <2>1. [o EXCEPT !.constKey = FALSE] \in Item
    BY <1>2 DEF Item
  <2>2. QED
    BY <1>1, <2>1
<1>4. freed \in Memories /\ freed.heap = g /\ freed.strings = m.strings - old
  <2>1. m.strings - old \in Int
    BY <1>1
  <2> DEFINE counted == [m EXCEPT !.strings = m.strings - old]
  <2>2. freed = [counted EXCEPT !.heap = g]
    BY <1>1 DEF Memories
  <2> HIDE DEF old, g, freed
  <2>3. counted \in Memories /\ counted.strings = m.strings - old
    BY <1>1, <2>1, CountChanged
  <2> HIDE DEF counted
  <2>4. QED
    BY <1>1, <1>3, <2>2, <2>3, HeapChanged
<1> HIDE DEF freed
<1>5. q = IF CanCopy(freed) THEN [Copied(freed) EXCEPT !.heap[r].string = k]
          ELSE [freed EXCEPT !.heap[r].string = NoKey]
  BY DEF Renamed, freed
<1>6. ASSUME NEW j \in Key \cup {NoKey}, NEW w \in Memories, w.heap = g,
             w.strings = m.strings - old + (IF j = NoKey THEN 0 ELSE 1),
             q = [w EXCEPT !.heap[r].string = j]
      PROVE  /\ Sound(q, R) /\ DOMAIN q.heap = DOMAIN m.heap
             /\ \A x \in DOMAIN m.heap :
                  /\ q.heap[x].next = m.heap[x].next /\ q.heap[x].prev = m.heap[x].prev
                  /\ q.heap[x].child = m.heap[x].child /\ q.heap[x].ref = m.heap[x].ref
  <2> DEFINE s == [o EXCEPT !.string = j, !.constKey = FALSE]
             f == [m.heap EXCEPT ![r] = s]
  <2>1. /\ s \in Item /\ s.value = o.value /\ s.type = o.type /\ s.ref = o.ref
        /\ s.next = o.next /\ s.prev = o.prev /\ s.child = o.child
        /\ s.string = j /\ s.constKey = FALSE
    BY <1>2 DEF Item
  <2>2. [g EXCEPT ![r].string = j] = f /\ f \in [DOMAIN m.heap -> Item]
    <3>1. g[r] = [o EXCEPT !.constKey = FALSE]
      BY <1>1
    <3>2. [g[r] EXCEPT !.string = j] = s
      BY <3>1, <1>2, ZenonT(40) DEF Item
    <3>3. f \in [DOMAIN m.heap -> Item]
      BY <1>1, <2>1
    <3>4. [g EXCEPT ![r].string = j] = [g EXCEPT ![r] = s]
      BY <3>2
    <3>5. [g EXCEPT ![r] = s] = f
      BY <1>1
    <3>6. QED
      BY <3>3, <3>4, <3>5
  <2> HIDE DEF f, s, g
  <2>3. q = [w EXCEPT !.heap = f]
    BY <1>6, <2>2
  <2>4. q \in Memories /\ q.heap = f /\ q.strings = w.strings
    BY <1>1, <1>6, <2>2, <2>3, HeapChanged
  <2>5. BlockCount(s) = BlockCount(o) - old + (IF j = NoKey THEN 0 ELSE 1)
    <3>1. OwnsText(s) <=> OwnsText(o)
      BY <2>1 DEF OwnsText
    <3>2. OwnsName(s) <=> j # NoKey
      BY <2>1 DEF OwnsName
    <3>3. QED
      BY <3>1, <3>2 DEF BlockCount
  <2>6. q.strings = m.strings - BlockCount(m.heap[r]) + BlockCount(s)
    <3>1. BlockCount(o) \in Int /\ BlockCount(s) \in Int /\ old \in Int
      BY DEF BlockCount
    <3> HIDE DEF old
    <3>2. QED
      BY <1>1, <1>6, <2>4, <2>5, <3>1
  <2>7. /\ s.next = m.heap[r].next /\ s.prev = m.heap[r].prev
        /\ s.ref = m.heap[r].ref /\ s.child = m.heap[r].child
        /\ q.heap = [m.heap EXCEPT ![r] = s]
    BY <2>1, <2>4 DEF f
  <2> HIDE DEF q, o
  <2>8. /\ Counted(q, R) /\ DOMAIN q.heap = DOMAIN m.heap /\ q.heap[r] = s
        /\ \A x \in DOMAIN m.heap : x # r => q.heap[x] = m.heap[x]
    BY <1>1, <2>1, <2>4, <2>6, <2>7, ToldIsCounted
  <2>9. IsTold(s)
    BY <1>1, <2>1 DEF IsTold, o
  <2>10. QED
    BY <1>1, <2>7, <2>8, <2>9 DEF Sound
<1>7. CASE CanCopy(freed)
  <2>1. Copied(freed) \in Memories /\ Copied(freed).heap = g /\ Copied(freed).strings = m.strings - old + 1
    BY <1>4, CopiedFields
  <2> HIDE DEF g, old
  <2>2. k \in Key \cup {NoKey} /\ Copied(freed).strings = m.strings - old + (IF k = NoKey THEN 0 ELSE 1)
    BY <1>2, <2>1
  <2>3. q = [Copied(freed) EXCEPT !.heap[r].string = k]
    BY <1>5, <1>7
  <2> HIDE DEF q
  <2>4. QED
    BY <1>6, <2>1, <2>2, <2>3 DEF q
<1>8. CASE ~CanCopy(freed)
  <2> HIDE DEF g, old
  <2>1. NoKey \in Key \cup {NoKey} /\ freed.strings = m.strings - old + (IF NoKey = NoKey THEN 0 ELSE 1)
    <3>1. old \in Int
      BY DEF old
    <3>2. QED
      BY <1>1, <1>4, <3>1
  <2>2. q = [freed EXCEPT !.heap[r].string = NoKey]
    BY <1>5, <1>8
  <2> HIDE DEF q
  <2>3. QED
    BY <1>4, <1>6, <2>1, <2>2 DEF q
<1>9. QED
  BY <1>7, <1>8

-----------------------------------------------------------------------------
(* Loops that create *)

\* What was added last has nothing behind it.
LEMMA LastHasNoNext ==
  ASSUME NEW D \in SUBSET Node, NEW h \in [D -> Item], NEW a \in D, NEW n \in D, NEW last,
         h[a].child # NoNode => last \in D \ {n}, h[n].next = NoNode
  PROVE  AddedLast(h, a, last, n)[n].next = NoNode
<1>1. CASE h[a].child = NoNode
  BY <1>1 DEF AddedLast, Item
<1>2. CASE h[a].child # NoNode
  BY <1>2 DEF AddedLast, Suffixed, Item
<1>3. QED
  BY <1>1, <1>2

\* An item more at the end of an array that is being made.
LEMMA ExtendedIsSound ==
  ASSUME NEW m, NEW R, Sound(m, R), NEW a \in R, ~m.heap[a].ref, NEW last,
         m.heap[a].child # NoNode => last \in DOMAIN m.heap \ R /\ m.heap[last].next = NoNode,
         NEW type \in Type, NEW value \in ValueOf(type)
  PROVE  LET q == Extended(m, a, last, type, value)
         IN  /\ q.item = NoNode => Sound(q, R \ {a})
             /\ q.item # NoNode => /\ Sound(q, R) /\ ~q.heap[a].ref
                                   /\ q.item \in DOMAIN q.heap \ R
                                   /\ q.heap[q.item].next = NoNode
<1> DEFINE new == Create(m, type, value)
           n == new.item
           g == AddedLast(new.heap, a, last, n)
<1>1. Gave(new, m, R)
  BY CreateGives
<1>2. R \in SUBSET DOMAIN m.heap /\ a \in DOMAIN m.heap /\ NoNode \in Pointers(Node)
  BY DEF Sound, Counted, Tree, Pointers
<1>3. CASE n = NoNode
  <2>1. Extended(m, a, last, type, value) = ReturningNull(Delete(new, {a}))
    BY <1>3 DEF Extended
  <2>2. Sound(new, R)
    BY <1>1, <1>3 DEF Gave
  <2> HIDE DEF new
  <2>3. {a} \ {NoNode} \in SUBSET R /\ Counted(new, R) /\ \A x \in DOMAIN new.heap \ {a} : IsTold(new.heap[x])
    BY <2>2 DEF Sound
  <2> DEFINE d == Delete(new, {a})
  <2>4. Sound(d, R \ {a})
    BY <2>3, DeleteIsSound
  <2> HIDE DEF d
  <2>5. Sound(ReturningNull(d), R \ {a}) /\ ReturningNull(d).item = NoNode
    BY <1>2, <2>4, ReturningKeeps DEF ReturningNull
  <2>6. QED
    BY <2>1, <2>5 DEF d
<1>4. CASE n # NoNode
  <2>1. Extended(m, a, last, type, value) = [new EXCEPT !.heap = g]
    BY <1>4 DEF Extended
  <2>2. Sound(new, R \cup {n}) /\ Keeps(new.heap, m.heap) /\ n \notin DOMAIN m.heap
    BY <1>1, <1>4 DEF Gave
  <2> HIDE DEF n
  <2>3. /\ Tree(new.heap, DOMAIN new.heap, R \cup {n}) /\ DOMAIN new.heap \in SUBSET Node
        /\ new.heap \in [DOMAIN new.heap -> Item] /\ new.heap[n].next = NoNode /\ n \in DOMAIN new.heap
    BY <2>2 DEF Sound, Counted, Tree, IsFree
  <2>4. /\ a \in DOMAIN new.heap /\ ~new.heap[a].ref /\ new.heap[a].child = m.heap[a].child
        /\ \A x \in DOMAIN m.heap : x \in DOMAIN new.heap /\ new.heap[x] = m.heap[x]
    BY <1>2, <2>2 DEF Keeps
  <2>5. new.heap[a].child # NoNode =>
          last \in DOMAIN new.heap \ (R \cup {n}) /\ new.heap[last].next = NoNode
    BY <2>2, <2>4
  <2> HIDE DEF new
  <2>6. n \in R \cup {n} /\ (R \cup {n}) \ {n} = R
    BY <1>2, <2>2
  <2>7. /\ Tree(g, DOMAIN new.heap, R)
        /\ \A x \in DOMAIN new.heap : SameData(g[x], new.heap[x])
    <3>1. n \in R \cup {n}
      BY <2>6
    <3>2. /\ Tree(g, DOMAIN new.heap, (R \cup {n}) \ {n})
          /\ \A x \in DOMAIN new.heap : SameData(g[x], new.heap[x])
      BY <2>3, <2>4, <2>5, <3>1, AppendKeepsLinks
    <3>3. QED
      BY <2>6, <3>2
  <2>8. g[n].next = NoNode
    <3>1. new.heap[a].child # NoNode => last \in DOMAIN new.heap \ {n}
      BY <2>5
    <3>2. QED
      BY <2>3, <2>4, <3>1, LastHasNoNext
  <2> HIDE DEF g
  <2>9. /\ Sound([new EXCEPT !.heap = g], R) /\ [new EXCEPT !.heap = g].heap = g
        /\ [new EXCEPT !.heap = g].item = new.item
    BY <2>2, <2>7, RelinkedIsSound
  <2>10. ~g[a].ref
    BY <2>4, <2>7 DEF SameData
  <2>11. DOMAIN g = DOMAIN new.heap
    BY <2>7, TreePointers
  <2>12. QED
    BY <1>2, <1>4, <2>1, <2>2, <2>3, <2>8, <2>9, <2>10, <2>11 DEF n
<1>5. QED
  BY <1>3, <1>4

\* An array that is being made, or nothing any more.
Filling(s, a, R) ==
  /\ s.m.item = NoNode => Sound(s.m, R)
  /\ s.m.item # NoNode =>
       /\ Sound(s.m, R \cup {a}) /\ ~s.m.heap[a].ref
       /\ s.m.heap[a].child # NoNode =>
            s.last \in DOMAIN s.m.heap \ (R \cup {a}) /\ s.m.heap[s.last].next = NoNode

\* What a sound memory is made of.
LEMMA SoundIsMemory ==
  ASSUME NEW m, NEW R, Sound(m, R)
  PROVE  /\ m \in Memories /\ DOMAIN m.heap \in SUBSET Node /\ R \in SUBSET DOMAIN m.heap
         /\ NoNode \notin DOMAIN m.heap /\ m.heap \in [DOMAIN m.heap -> Item]
         /\ m.item \in Pointers(Node) /\ Tree(m.heap, DOMAIN m.heap, R)
<1>1. m \in Memories /\ Tree(m.heap, DOMAIN m.heap, R)
  BY DEF Sound, Counted
<1>2. QED
  BY <1>1, MemoryFields, TreePointers DEF Tree

\* One more round keeps it so.
LEMMA FillingGoesOn ==
  ASSUME NEW R, NEW a, a \notin R, NEW s, Filling(s, a, R), s.m.item # NoNode,
         NEW type \in Type, NEW value \in ValueOf(type)
  PROVE  LET more == Extended(s.m, a, s.last, type, value)
             t == [m |-> more, last |-> more.item]
         IN  Filling(t, a, R) /\ more \in Memories /\ more.item \in Pointers(Node)
<1> DEFINE m == s.m
           last == s.last
           more == Extended(m, a, last, type, value)
           t == [m |-> more, last |-> more.item]
<1>1. /\ Sound(m, R \cup {a}) /\ ~m.heap[a].ref /\ a \in R \cup {a} /\ (R \cup {a}) \ {a} = R
      /\ m.heap[a].child # NoNode => last \in DOMAIN m.heap \ (R \cup {a}) /\ m.heap[last].next = NoNode
  BY DEF Filling
<1> HIDE DEF m, last
<1>2. /\ more.item = NoNode => Sound(more, (R \cup {a}) \ {a})
      /\ more.item # NoNode => /\ Sound(more, R \cup {a}) /\ ~more.heap[a].ref
                               /\ more.item \in DOMAIN more.heap \ (R \cup {a})
                               /\ more.heap[more.item].next = NoNode
  BY <1>1, ExtendedIsSound
<1> HIDE DEF more
<1>3. Filling(t, a, R)
  BY <1>1, <1>2 DEF Filling
<1>4. more \in Memories /\ more.item \in Pointers(Node)
  BY <1>1, <1>2, SoundIsMemory
<1>5. QED
  BY <1>3, <1>4 DEF more, m, last

\* The new item of a memory is owned by whoever is given it.
Given(m, R) == Sound(m, R \cup Returned(m)) /\ m.item \notin R

\* What was created is given.
LEMMA GaveIsGiven ==
  ASSUME NEW m, NEW R, R \in SUBSET DOMAIN m.heap, NoNode \notin R, NEW new, Gave(new, m, R)
  PROVE  Given(new, R)
<1>1. CASE new.item = NoNode
  <2>1. Returned(new) = {} /\ R \cup {} = R
    BY <1>1 DEF Returned
  <2>2. QED
    BY <1>1, <2>1 DEF Gave, Given
<1>2. CASE new.item # NoNode
  <2>1. Returned(new) = {new.item}
    BY <1>2 DEF Returned
  <2>2. QED
    BY <1>2, <2>1 DEF Gave, Given
<1>3. QED
  BY <1>1, <1>2

\* cJSON_CreateIntArray and its siblings give an array or nothing.
LEMMA ArrayIsGiven ==
  ASSUME NEW m, NEW R, Sound(m, R), NEW type \in Type, NEW value \in ValueOf(type), NEW count \in Nat
  PROVE  Given(CreateArrayOf(m, type, value, count), R)
<1> DEFINE array == Create(m, "array", NoValue)
           a == array.item
           base == [m |-> array, last |-> NoNode]
           Round(s) == LET more == Extended(s.m, a, s.last, type, value)
                       IN  IF s.m.item = NoNode THEN s ELSE [m |-> more, last |-> more.item]
           V == {s \in [m : Memories, last : Pointers(Node)] : Filling(s, a, R)}
           IsFilled(f) == f = [i \in 0 .. count |->
                                 IF i = 0 THEN base
                                 ELSE LET before == f[i - 1]
                                          more == Extended(before.m, a, before.last, type, value)
                                      IN  IF before.m.item = NoNode THEN before
                                          ELSE [m |-> more, last |-> more.item]]
           filled == CHOOSE f : IsFilled(f)
           full == filled[count].m
           step == [i \in 1 .. count |-> [s \in V |-> Round(s)]]
<1>1. CreateArrayOf(m, type, value, count) = IF full.item = NoNode THEN full ELSE Returning(full, a)
  BY DEF CreateArrayOf
<1>2. /\ R \in SUBSET DOMAIN m.heap /\ NoNode \notin DOMAIN m.heap /\ NoNode \in Pointers(Node)
      /\ "array" \in Type /\ NoValue \in ValueOf("array")
  BY SoundIsMemory DEF Pointers, Type, ValueOf
<1>3. Gave(array, m, R) /\ (a # NoNode => ~array.heap[a].ref /\ array.heap[a].child = NoNode)
  BY <1>2, CreateGives
<1> HIDE DEF array
<1>4. a \notin R /\ array \in Memories /\ a \in Pointers(Node)
  <2>1. Sound(array, R) \/ Sound(array, R \cup {a})
    BY <1>3 DEF Gave
  <2>2. array \in Memories /\ a \in Pointers(Node)
    BY <2>1, SoundIsMemory
  <2>3. a \notin R
    BY <1>2, <1>3 DEF Gave
  <2>4. QED
    BY <2>2, <2>3
<1> HIDE DEF a
<1>5. base \in V
  <2>1. Filling(base, a, R)
    BY <1>3 DEF Filling, Gave, a
  <2>2. QED
    BY <1>2, <1>4, <2>1
<1>6. ASSUME NEW s \in V
      PROVE  Round(s) \in V
  <2>1. CASE s.m.item = NoNode
    BY <2>1
  <2>2. CASE s.m.item # NoNode
    <3> DEFINE more == Extended(s.m, a, s.last, type, value)
               t == [m |-> more, last |-> more.item]
    <3>1. Filling(t, a, R) /\ more \in Memories /\ more.item \in Pointers(Node)
      BY <1>4, <2>2, FillingGoesOn
    <3>2. Round(s) = t
      BY <2>2
    <3> HIDE DEF more, Round
    <3>3. QED
      BY <3>1, <3>2
  <2>3. QED
    BY <2>1, <2>2
<1>7. PICK g : Course(g, count, V, base, step)
  <2>1. Steps(count, V, step)
    BY <1>6 DEF Steps
  <2> HIDE DEF V, base, step
  <2>2. QED
    BY <1>5, <2>1, LoopRuns
<1>8. /\ g \in [0 .. count -> V] /\ g[0] = base
      /\ \A i \in 1 .. count : g[i] = step[i][g[i - 1]]
  BY <1>7 DEF Course
<1>9. IsFilled(g)
  <2>1. ASSUME NEW i \in 0 .. count, i # 0
        PROVE  g[i] = Round(g[i - 1])
    <3>1. i - 1 \in 0 .. count /\ i \in 1 .. count
      BY <2>1
    <3> HIDE DEF V, Round
    <3>2. g[i - 1] \in V /\ g[i] = step[i][g[i - 1]]
      BY <1>8, <3>1
    <3>3. QED
      BY <3>1, <3>2
  <2>2. g = [i \in 0 .. count |-> IF i = 0 THEN base ELSE Round(g[i - 1])]
    <3> HIDE DEF V, Round, base, step
    <3>1. QED
      BY <1>8, <2>1
  <2>3. QED
    BY <2>2
<1>10. IsFilled(filled)
  <2> HIDE DEF IsFilled
  <2>1. QED
    BY <1>9
<1> HIDE DEF filled
<1>11. filled[count] \in V
  <2> DEFINE Q == {i \in 0 .. count : filled[i] \in V}
  <2> HIDE DEF V, base
  <2>1. filled[0] = base /\ \A i \in 0 .. count : i # 0 => filled[i] = Round(filled[i - 1])
    <3>1. filled = [i \in 0 .. count |-> IF i = 0 THEN base ELSE Round(filled[i - 1])]
      BY <1>10
    <3> HIDE DEF Round
    <3>2. QED
      BY <3>1
  <2> HIDE DEF Round
  <2>2. 0 \in Q
    BY <1>5, <2>1
  <2>3. ASSUME NEW i \in 0 .. count, i < count, i \in Q
        PROVE  i + 1 \in Q
    <3>1. i + 1 \in 0 .. count /\ i + 1 # 0 /\ (i + 1) - 1 = i
      BY <2>3
    <3>2. filled[i + 1] = Round(filled[i])
      BY <2>1, <3>1
    <3>3. filled[i] \in V
      BY <2>3
    <3>4. QED
      BY <1>6, <3>1, <3>2, <3>3
  <2> HIDE DEF Q
  <2>4. 0 .. count \subseteq Q
    BY <2>2, <2>3, CountingUp
  <2>5. QED
    BY <2>4 DEF Q
<1>12. Filling(filled[count], a, R)
  BY <1>11
<1> DEFINE q == CreateArrayOf(m, type, value, count)
<1>13. CASE full.item = NoNode
  <2>1. q = full
    BY <1>1, <1>13
  <2> HIDE DEF q, Round, V, IsFilled
  <2>2. Sound(full, R) /\ Returned(full) = {} /\ R \cup {} = R
    BY <1>12, <1>13 DEF Filling, Returned
  <2> HIDE DEF full
  <2>3. QED
    BY <1>2, <1>13, <2>1, <2>2 DEF Given, q
<1>14. CASE full.item # NoNode
  <2>1. q = Returning(full, a)
    BY <1>1, <1>14
  <2> HIDE DEF q, Round, V, IsFilled
  <2>2. Sound(full, R \cup {a})
    BY <1>12, <1>14 DEF Filling
  <2> HIDE DEF full
  <2>3. Sound(q, R \cup {a}) /\ q.item = a
    BY <1>4, <2>1, <2>2, ReturningKeeps
  <2>4. a # NoNode
    BY <2>2, SoundIsMemory
  <2>5. Returned(q) = {a}
    BY <2>3, <2>4 DEF Returned
  <2>6. QED
    BY <1>4, <2>3, <2>5 DEF Given, q
<1>15. QED
  BY <1>13, <1>14

-----------------------------------------------------------------------------
(* Copies under way *)

Frames == [copy : Node, last : Pointers(Node), child : Pointers(Node)]

\* The frame on top, one more, one less.
LEMMA TopFrame ==
  ASSUME NEW S, NEW s \in Seq(S), s # <<>>
  PROVE  /\ Len(s) \in Nat \ {0} /\ Len(s) \in 1 .. Len(s) /\ Last(s) = s[Len(s)]
         /\ \A i \in 1 .. Len(s) : s[i] \in S
         /\ Front(s) = <<>> <=> Len(s) = 1
<1>1. Len(s) \in Nat /\ Len(s) # 0
  OBVIOUS
<1>2. Len(Front(s)) = Len(s) - 1 /\ Front(s) \in Seq(S)
  <2>1. Len(s) - 1 \in Int /\ 1 \in Int /\ \A i \in 1 .. Len(s) - 1 : s[i] \in S
    BY <1>1
  <2>2. /\ SubSeq(s, 1, Len(s) - 1) \in Seq(S)
        /\ Len(SubSeq(s, 1, Len(s) - 1)) = IF 1 <= Len(s) - 1 THEN Len(s) - 1 - 1 + 1 ELSE 0
    BY <2>1, SubSeqProperties
  <2> DEFINE u == SubSeq(s, 1, Len(s) - 1)
  <2>3. Front(s) = u
    BY DEF Front
  <2> HIDE DEF u
  <2>4. u \in Seq(S) /\ Len(u) = IF 1 <= Len(s) - 1 THEN Len(s) - 1 - 1 + 1 ELSE 0
    BY <2>2 DEF u
  <2>5. Len(u) = Len(s) - 1
    <3>1. \A k \in Nat \ {0} : (IF 1 <= k - 1 THEN k - 1 - 1 + 1 ELSE 0) = k - 1
      OBVIOUS
    <3>2. QED
      BY <1>1, <2>4, <3>1
  <2>6. QED
    BY <2>3, <2>4, <2>5
<1>3. Front(s) = <<>> <=> Len(s) = 1
  BY <1>1, <1>2
<1>4. QED
  BY <1>1, <1>3 DEF Last

\* One more.
LEMMA FrameOpened ==
  ASSUME NEW S, NEW s \in Seq(S), NEW f \in S
  PROVE  LET t == Append(s, f)
         IN  /\ t \in Seq(S) /\ t # <<>> /\ Len(t) = Len(s) + 1 /\ t[Len(t)] = f
             /\ \A i \in 1 .. Len(s) : t[i] = s[i]
OBVIOUS

\* The last two become one.
LEMMA FrameClosed ==
  ASSUME NEW S, NEW s \in Seq(S), Len(s) \in Nat, Len(s) > 1, NEW f \in S
  PROVE  LET t == Append(Front(Front(s)), f)
         IN  /\ t \in Seq(S) /\ t # <<>> /\ Len(t) = Len(s) - 1 /\ t[Len(t)] = f
             /\ \A i \in 1 .. Len(t) : i < Len(t) => t[i] = s[i]
             /\ Last(Front(s)) = s[Len(s) - 1] /\ Front(s) # <<>>
<1> DEFINE u == Front(s)
           v == Front(u)
           t == Append(v, f)
<1>1. u \in Seq(S) /\ Len(u) = Len(s) - 1 /\ \A i \in 1 .. Len(u) : u[i] = s[i]
  BY DEF Front
<1> HIDE DEF u
<1>2. v \in Seq(S) /\ Len(v) = Len(u) - 1 /\ \A i \in 1 .. Len(v) : v[i] = u[i]
  BY <1>1 DEF Front
<1> HIDE DEF v
<1>3. /\ t \in Seq(S) /\ t # <<>> /\ Len(t) = Len(v) + 1 /\ t[Len(t)] = f
      /\ \A i \in 1 .. Len(v) : t[i] = v[i]
  BY <1>2, FrameOpened
<1> HIDE DEF t
<1>4. Last(u) = s[Len(s) - 1] /\ u # <<>>
  BY <1>1 DEF Last
<1>5. \A i \in 1 .. Len(t) : i < Len(t) => t[i] = s[i]
  BY <1>1, <1>2, <1>3
<1>6. QED
  BY <1>1, <1>2, <1>3, <1>4, <1>5 DEF t, v, u



\* What can be read without leaving a set of structures.
Readable(h, L) ==
  L \subseteq DOMAIN h /\ \A x \in L : h[x].next \in Pointers(L) /\ h[x].child \in Pointers(L)

Copies(open) == {open[i].copy : i \in 1 .. Len(open)}

\* The copies under way are new and stand nowhere, and behind the last child of one an
\* item can be linked; the original is as it was; every frame knows what to copy next.
Duplicating(s, m, R, L) ==
  LET h == s.m.heap
      open == s.open
  IN  /\ open \in Seq(Frames) /\ s.m \in Memories
      /\ open = <<>> => Given(s.m, R)
      /\ open # <<>> =>
           /\ Sound(s.m, R \cup Copies(open)) /\ Keeps(h, m.heap)
           /\ \A i \in 1 .. Len(open) :
                /\ open[i].copy \notin DOMAIN m.heap /\ ~h[open[i].copy].ref
                /\ open[i].child \in Pointers(L) /\ (i < Len(open) => open[i].child # NoNode)
                /\ h[open[i].copy].child # NoNode =>
                     /\ open[i].last \in DOMAIN h \ (R \cup Copies(open))
                     /\ open[i].last \notin DOMAIN m.heap /\ h[open[i].last].next = NoNode
           /\ \A i, j \in 1 .. Len(open) : i # j =>
                /\ open[i].copy # open[j].copy
                /\ h[open[i].copy].child # NoNode /\ h[open[j].copy].child # NoNode =>
                     open[i].last # open[j].last

\* A child more is copied, or everything is given back.
LEMMA DescendedStands ==
  ASSUME NEW m, NEW R, R \in SUBSET DOMAIN m.heap, NoNode \notin R, NEW L, Readable(m.heap, L),
         NEW s, Duplicating(s, m, R, L), s.open # <<>>, Last(s.open).child # NoNode
  PROVE  LET t == Descended(s)
         IN  /\ Duplicating(t, m, R, L)
             /\ t.open # <<>> =>
                  /\ Len(t.open) = Len(s.open) + 1
                  /\ Cardinality(DOMAIN t.m.heap) = Cardinality(DOMAIN s.m.heap) + 1
<1> DEFINE w == s.m
           h == s.m.heap
           open == s.open
           C == Copies(open)
           N == Len(open)
           child == Last(open).child
           new == CopyItem(w, child)
           n == new.item
<1>1. /\ open \in Seq(Frames) /\ w \in Memories /\ Sound(w, R \cup C) /\ Keeps(h, m.heap)
      /\ \A i \in 1 .. N :
           /\ open[i].copy \notin DOMAIN m.heap /\ ~h[open[i].copy].ref
           /\ open[i].child \in Pointers(L) /\ (i < N => open[i].child # NoNode)
           /\ h[open[i].copy].child # NoNode =>
                /\ open[i].last \in DOMAIN h \ (R \cup C)
                /\ open[i].last \notin DOMAIN m.heap /\ h[open[i].last].next = NoNode
      /\ \A i, j \in 1 .. N : i # j =>
           /\ open[i].copy # open[j].copy
           /\ h[open[i].copy].child # NoNode /\ h[open[j].copy].child # NoNode =>
                open[i].last # open[j].last
  BY DEF Duplicating
<1>2. /\ N \in Nat \ {0} /\ N \in 1 .. N /\ Last(open) = open[N]
      /\ \A i \in 1 .. N : open[i] \in Frames
  BY <1>1, TopFrame
<1>3. /\ child \in L /\ child # NoNode /\ child \in DOMAIN h /\ h[child] = m.heap[child]
      /\ h[child].child \in Pointers(L)
  BY <1>1, <1>2, ZenonT(40) DEF Pointers, Readable, Keeps
<1>4. /\ DOMAIN h \in SUBSET Node /\ R \cup C \in SUBSET DOMAIN h
      /\ NoNode \notin DOMAIN h /\ NoNode \in Pointers(Node)
  BY <1>1, SoundIsMemory DEF Pointers
<1>5. /\ Gave(new, w, R \cup C)
      /\ n # NoNode => /\ DOMAIN new.heap = DOMAIN h \cup {n}
                       /\ ~new.heap[n].ref /\ new.heap[n].child = NoNode
  <2> HIDE DEF w
  <2>1. child \in DOMAIN w.heap
    BY <1>3 DEF w
  <2> HIDE DEF child
  <2>2. QED
    BY <1>1, <2>1, CopyItemGives DEF w
<1>6. CASE n = NoNode
  <2> DEFINE d == Delete(new, {f.copy : f \in ToSet(open)})
             t == [m |-> ReturningNull(d), open |-> <<>>]
  <2>1. Descended(s) = t
    BY <1>6 DEF Descended
  <2>2. {f.copy : f \in ToSet(open)} = C
    BY <1>1 DEF ToSet, Copies
  <2>3. Sound(new, R \cup C)
    BY <1>5, <1>6 DEF Gave
  <2>4. C \cap R = {} /\ C \ {NoNode} \in SUBSET (R \cup C) /\ (R \cup C) \ C = R
    BY <1>1 DEF Copies
  <2> HIDE DEF new, C
  <2>5. Sound(Delete(new, C), (R \cup C) \ C)
    BY <2>3, <2>4, DeleteIsSound DEF Sound
  <2>6. Sound(d, R)
    BY <2>2, <2>4, <2>5
  <2> HIDE DEF d
  <2>7. Sound(ReturningNull(d), R) /\ ReturningNull(d).item = NoNode
    BY <1>4, <2>6, ReturningKeeps DEF ReturningNull
  <2>8. Given(ReturningNull(d), R) /\ ReturningNull(d) \in Memories
    <3>1. Returned(ReturningNull(d)) = {} /\ R \cup {} = R
      BY <2>7 DEF Returned
    <3>2. QED
      BY <2>7, <3>1, SoundIsMemory DEF Given
  <2>9. Duplicating(t, m, R, L) /\ t.open = <<>>
    BY <2>8 DEF Duplicating
  <2>10. QED
    BY <2>1, <2>9
<1>7. CASE n # NoNode
  <2> DEFINE f == Opened(n, h[child].child)
             more == Append(open, f)
             t == [m |-> new, open |-> more]
             g == new.heap
  <2>1. Descended(s) = t
    BY <1>7 DEF Descended
  <2>2. Sound(new, (R \cup C) \cup {n}) /\ Keeps(g, h) /\ n \notin DOMAIN h
    BY <1>5, <1>7 DEF Gave
  <2>3. new \in Memories /\ DOMAIN g \in SUBSET Node
    BY <2>2, SoundIsMemory
  <2>4. DOMAIN g = DOMAIN h \cup {n} /\ ~g[n].ref /\ g[n].child = NoNode
    BY <1>5, <1>7
  <2> HIDE DEF n, new, child, h
  <2>5. f \in Frames /\ f.copy = n /\ f.last = NoNode /\ f.child \in Pointers(L)
    <3>1. L \subseteq Node
      BY <1>1, <1>4 DEF Readable, Keeps
    <3>2. n \in Node
      BY <2>3, <2>4
    <3>3. h[child].child \in Pointers(Node)
      BY <1>3, <3>1 DEF Pointers
    <3>4. QED
      BY <1>3, <1>4, <3>2, <3>3 DEF Frames, Opened
  <2> HIDE DEF f
  <2>6. /\ more \in Seq(Frames) /\ more # <<>> /\ Len(more) = N + 1 /\ more[Len(more)] = f
        /\ \A i \in 1 .. N : more[i] = open[i]
    BY <1>1, <2>5, FrameOpened
  <2> HIDE DEF more, open
  <2>7. \A i \in 1 .. Len(more) : i \in 1 .. N \/ (i = N + 1 /\ i = Len(more))
    BY <1>2, <2>6
  <2>8. Copies(more) = C \cup {n}
    <3>1. Copies(more) \subseteq C \cup {n}
      BY <2>5, <2>6, <2>7 DEF Copies
    <3>2. C \subseteq Copies(more)
      BY <1>2, <2>6 DEF Copies
    <3>3. n \in Copies(more)
      BY <1>2, <2>5, <2>6 DEF Copies
    <3>4. QED
      BY <3>1, <3>2, <3>3
  <2>9. /\ Sound(new, R \cup Copies(more)) /\ Keeps(g, m.heap)
        /\ \A i \in 1 .. N : open[i].copy \in DOMAIN h /\ open[i].copy # n
        /\ \A x \in DOMAIN h : g[x] = h[x]
    <3>1. (R \cup C) \cup {n} = R \cup Copies(more)
      BY <2>8
    <3>2. \A i \in 1 .. N : open[i].copy \in C
      BY DEF Copies
    <3>3. QED
      BY <1>1, <1>4, <2>2, <3>1, <3>2 DEF Keeps
  <2>10. n \notin DOMAIN m.heap
    BY <1>1, <2>2 DEF Keeps
  <2>11. ASSUME NEW i \in 1 .. Len(more)
         PROVE  /\ more[i].copy \notin DOMAIN m.heap /\ ~g[more[i].copy].ref
                /\ more[i].child \in Pointers(L) /\ (i < Len(more) => more[i].child # NoNode)
                /\ g[more[i].copy].child # NoNode =>
                     /\ more[i].last \in DOMAIN g \ (R \cup Copies(more))
                     /\ more[i].last \notin DOMAIN m.heap /\ g[more[i].last].next = NoNode
    <3>1. CASE i \in 1 .. N
      <4>1. open[i].child # NoNode
        BY <1>1, <1>2, <1>3, <3>1 DEF child
      <4>2. more[i] = open[i] /\ open[i].copy \in DOMAIN h /\ g[open[i].copy] = h[open[i].copy]
        BY <2>6, <2>9, <3>1
      <4>3. h[open[i].copy].child # NoNode =>
              /\ open[i].last \in DOMAIN h /\ open[i].last \notin R \cup C /\ open[i].last # n
              /\ open[i].last \notin DOMAIN m.heap /\ h[open[i].last].next = NoNode
              /\ g[open[i].last] = h[open[i].last]
        BY <1>1, <2>2, <2>9, <3>1
      <4>4. QED
        BY <1>1, <2>4, <2>8, <3>1, <4>1, <4>2, <4>3
    <3>2. CASE i = N + 1 /\ i = Len(more)
      BY <2>4, <2>5, <2>6, <2>10, <3>2
    <3>3. QED
      BY <2>7, <3>1, <3>2
  <2>12. ASSUME NEW i \in 1 .. Len(more), NEW j \in 1 .. Len(more), i # j
         PROVE  /\ more[i].copy # more[j].copy
                /\ g[more[i].copy].child # NoNode /\ g[more[j].copy].child # NoNode =>
                     more[i].last # more[j].last
    <3>1. CASE i \in 1 .. N /\ j \in 1 .. N
      <4>1. /\ more[i] = open[i] /\ g[open[i].copy] = h[open[i].copy]
            /\ more[j] = open[j] /\ g[open[j].copy] = h[open[j].copy]
        BY <2>6, <2>9, <3>1
      <4>2. QED
        BY <1>1, <2>12, <3>1, <4>1
    <3>2. CASE i \in 1 .. N /\ j = N + 1 /\ j = Len(more)
      BY <2>4, <2>5, <2>6, <2>9, <3>2
    <3>3. CASE j \in 1 .. N /\ i = N + 1 /\ i = Len(more)
      BY <2>4, <2>5, <2>6, <2>9, <3>3
    <3>4. QED
      BY <2>7, <2>12, <3>1, <3>2, <3>3
  <2>13. Duplicating(t, m, R, L)
    BY <2>3, <2>6, <2>9, <2>11, <2>12, ZenonT(40) DEF Duplicating
  <2>14. Cardinality(DOMAIN g) = Cardinality(DOMAIN h) + 1
    <3>1. IsFiniteSet(DOMAIN h)
      BY <1>4, HeapAssumption, FS_Subset
    <3>2. QED
      BY <2>2, <2>4, <3>1, FS_AddElement
  <2>15. QED
    BY <2>1, <2>6, <2>13, <2>14 DEF h, open
<1>8. QED
  BY <1>6, <1>7

\* A copy with all its children is linked by the call that asked for it, or returned.
LEMMA AscendedStands ==
  ASSUME NEW m, NEW R, R \in SUBSET DOMAIN m.heap, NoNode \notin R, NEW L, Readable(m.heap, L),
         NEW s, Duplicating(s, m, R, L), s.open # <<>>
  PROVE  LET t == Ascended(s)
         IN  /\ Duplicating(t, m, R, L)
             /\ t.open # <<>> => Len(t.open) = Len(s.open) - 1 /\ DOMAIN t.m.heap = DOMAIN s.m.heap
<1> DEFINE w == s.m
           h == s.m.heap
           open == s.open
           C == Copies(open)
           N == Len(open)
           done == Last(open).copy
           outer == Front(open)
           f == Last(outer)
<1>1. /\ open \in Seq(Frames) /\ w \in Memories /\ Sound(w, R \cup C) /\ Keeps(h, m.heap)
      /\ \A i \in 1 .. N :
           /\ open[i].copy \notin DOMAIN m.heap /\ ~h[open[i].copy].ref
           /\ open[i].child \in Pointers(L) /\ (i < N => open[i].child # NoNode)
           /\ h[open[i].copy].child # NoNode =>
                /\ open[i].last \in DOMAIN h \ (R \cup C)
                /\ open[i].last \notin DOMAIN m.heap /\ h[open[i].last].next = NoNode
      /\ \A i, j \in 1 .. N : i # j =>
           /\ open[i].copy # open[j].copy
           /\ h[open[i].copy].child # NoNode /\ h[open[j].copy].child # NoNode =>
                open[i].last # open[j].last
  BY DEF Duplicating
<1>2. /\ N \in Nat \ {0} /\ N \in 1 .. N /\ Last(open) = open[N] /\ done = open[N].copy
      /\ \A i \in 1 .. N : open[i] \in Frames
      /\ outer = <<>> <=> N = 1
  BY <1>1, TopFrame
<1>3. /\ DOMAIN h \in SUBSET Node /\ R \cup C \in SUBSET DOMAIN h /\ h \in [DOMAIN h -> Item]
      /\ NoNode \notin DOMAIN h /\ Tree(h, DOMAIN h, R \cup C)
  BY <1>1, SoundIsMemory
<1>4. \A i \in 1 .. N : open[i].copy \in C /\ open[i].copy \in DOMAIN h
  BY <1>3 DEF Copies
<1>5. done \in C /\ done \in DOMAIN h /\ done \notin DOMAIN m.heap /\ done \notin R
  BY <1>1, <1>2, <1>4
<1>6. CASE outer = <<>>
  <2> DEFINE q == Returning(w, done)
             t == [m |-> q, open |-> <<>>]
  <2>1. Ascended(s) = t
    BY <1>6 DEF Ascended
  <2>2. C = {done}
    BY <1>2, <1>6 DEF Copies
  <2>3. done \in Pointers(Node) /\ done # NoNode
    BY <1>3, <1>5 DEF Pointers
  <2> HIDE DEF w, done, C
  <2>4. Sound(q, R \cup C) /\ q.item = done
    BY <1>1, <2>3, ReturningKeeps
  <2> HIDE DEF q
  <2>5. Returned(q) = {done} /\ q \in Memories
    BY <2>3, <2>4, SoundIsMemory DEF Returned
  <2>6. Given(q, R)
    BY <1>5, <2>2, <2>4, <2>5 DEF Given
  <2>7. Duplicating(t, m, R, L) /\ t.open = <<>>
    BY <2>5, <2>6 DEF Duplicating
  <2>8. QED
    BY <2>1, <2>7
<1>7. CASE outer # <<>>
  <2> DEFINE a == f.copy
             last == f.last
             g == AddedLast(h, a, last, done)
             q == [w EXCEPT !.heap = g]
             e == [f EXCEPT !.last = done, !.child = h[f.child].next]
             less == Append(Front(outer), e)
             t == [m |-> q, open |-> less]
  <2>1. Ascended(s) = t
    <3>1. [f EXCEPT !.last = done, !.child = h[@].next] = e
      OBVIOUS
    <3>2. [w EXCEPT !.heap = AddedLast(@, a, last, done)] = q
      BY <1>1 DEF Memories
    <3> HIDE DEF e, q
    <3>3. QED
      BY <1>7, <3>1, <3>2 DEF Ascended
  <2>2. N > 1 /\ N - 1 \in 1 .. N /\ N - 1 # N /\ N - 1 < N
    <3>1. \A k \in Nat \ {0} : k # 1 => k > 1 /\ k - 1 \in 1 .. k /\ k - 1 # k /\ k - 1 < k
      OBVIOUS
    <3>2. QED
      BY <1>2, <1>7, <3>1
  <2>3. f = open[N - 1]
    BY <1>1, <1>2, <2>2 DEF Last, Front
  <2>4. /\ f \in Frames /\ a \in C /\ a \in DOMAIN h /\ a # done /\ ~h[a].ref
        /\ f.child \in L /\ a \notin DOMAIN m.heap
    <3>1. f.child \in Pointers(L) /\ f.child # NoNode
      BY <1>1, <2>2, <2>3
    <3>2. QED
      BY <1>1, <1>2, <1>4, <2>2, <2>3, <3>1 DEF Pointers
  <2>5. h[a].child # NoNode =>
          last \in DOMAIN h \ (R \cup C) /\ last \notin DOMAIN m.heap /\ h[last].next = NoNode
    BY <1>1, <2>2, <2>3
  <2>6. /\ e \in Frames /\ e.copy = a /\ e.last = done /\ e.child \in Pointers(L)
    <3>1. h[f.child].next \in Pointers(L) /\ L \subseteq Node
      BY <1>1, <1>3, <2>4 DEF Readable, Keeps
    <3>2. h[f.child].next \in Pointers(Node) /\ done \in Pointers(Node)
      BY <1>3, <1>5, <3>1 DEF Pointers
    <3> HIDE DEF f, done
    <3>3. QED
      BY <2>4, <3>1, <3>2 DEF Frames
  <2> HIDE DEF e
  <2>7. /\ less \in Seq(Frames) /\ less # <<>> /\ Len(less) = N - 1 /\ less[Len(less)] = e
        /\ \A i \in 1 .. Len(less) : i < Len(less) => less[i] = open[i]
    BY <1>1, <1>2, <2>2, <2>6, FrameClosed, SMTT(30)
  <2> HIDE DEF less, f, done, last, a
  <2>8. \A i \in 1 .. Len(less) : \/ i \in 1 .. N /\ i < N - 1 /\ less[i] = open[i]
                                  \/ i = N - 1 /\ less[i] = e
    BY <1>2, <2>2, <2>7
  <2>9. Copies(less) = C \ {done}
    <3>1. Copies(less) \subseteq C \ {done}
      <4>1. ASSUME NEW i \in 1 .. Len(less)
            PROVE  less[i].copy \in C \ {done}
        <5>1. CASE i \in 1 .. N /\ i < N - 1 /\ less[i] = open[i]
          BY <1>1, <1>2, <1>4, <5>1
        <5>2. CASE i = N - 1 /\ less[i] = e
          BY <2>4, <2>6, <5>2
        <5>3. QED
          BY <2>8, <5>1, <5>2
      <4>2. QED
        BY <4>1 DEF Copies
    <3>2. C \ {done} \subseteq Copies(less)
      <4>1. ASSUME NEW i \in 1 .. N, open[i].copy # done
            PROVE  open[i].copy \in Copies(less)
        <5>1. i # N
          BY <1>2, <4>1
        <5>2. CASE i = N - 1
          <6>1. less[N - 1].copy = open[i].copy /\ N - 1 \in 1 .. Len(less)
            BY <1>2, <2>2, <2>3, <2>6, <2>7, <5>2 DEF a
          <6>2. QED
            BY <6>1 DEF Copies
        <5>3. CASE i # N - 1
          <6>1. i \in 1 .. Len(less) /\ less[i].copy = open[i].copy
            BY <1>2, <2>7, <5>1, <5>3, SMTT(30)
          <6>2. QED
            BY <6>1 DEF Copies
        <5>4. QED
          BY <5>2, <5>3
      <4>2. QED
        BY <4>1 DEF Copies
    <3>3. QED
      BY <3>1, <3>2
  <2> HIDE DEF open, C, h
  <2>10. Tree(g, DOMAIN h, R \cup Copies(less)) /\ \A x \in DOMAIN h : SameData(g[x], h[x])
    <3>1. done \in R \cup C
      BY <1>5
    <3>2. /\ Tree(g, DOMAIN h, (R \cup C) \ {done})
          /\ \A x \in DOMAIN h : SameData(g[x], h[x])
      BY <1>3, <2>4, <2>5, <3>1, AppendKeepsLinks
    <3>3. (R \cup C) \ {done} = R \cup Copies(less)
      BY <1>5, <2>9
    <3>4. QED
      BY <3>2, <3>3
  <2>11. g[done].next = NoNode
    <3>1. h[done].next = NoNode
      BY <1>3, <1>5 DEF Tree, IsFree
    <3>2. h[a].child # NoNode => last \in DOMAIN h \ {done}
      BY <1>5, <2>5
    <3>3. QED
      BY <1>3, <1>5, <2>4, <3>1, <3>2, LastHasNoNext
  <2>12. \A x \in DOMAIN h :
           /\ x # a /\ x # done /\ (h[a].child = NoNode \/ x # last) => g[x] = h[x]
           /\ x # a => g[x].child = h[x].child
           /\ h[a].child = NoNode \/ x # last => g[x].next = h[x].next
           /\ g[x].ref = h[x].ref
    <3>1. h[a].child # NoNode => last \in DOMAIN h
      BY <2>5
    <3>2. DOMAIN h \in SUBSET Node /\ h \in [DOMAIN h -> Item] /\ a \in DOMAIN h /\ done \in DOMAIN h
      BY <1>3, <1>5, <2>4
    <3> HIDE DEF g
    <3>3. ASSUME NEW x \in DOMAIN h
          PROVE  /\ x # a /\ x # done /\ (h[a].child = NoNode \/ x # last) => g[x] = h[x]
                 /\ x # a => g[x].child = h[x].child
                 /\ h[a].child = NoNode \/ x # last => g[x].next = h[x].next
                 /\ g[x].ref = h[x].ref
      <4>1. CASE h[a].child = NoNode
        BY <3>2, <4>1 DEF AddedLast, Item, g
      <4>2. CASE h[a].child # NoNode
        BY <3>1, <3>2, <4>2 DEF AddedLast, Suffixed, Item, g
      <4>3. QED
        BY <4>1, <4>2
    <3>4. QED
      BY <3>3
  <2> HIDE DEF g
  <2>13. /\ Sound(q, R \cup Copies(less)) /\ q.heap = g /\ DOMAIN g = DOMAIN h /\ q \in Memories
    <3>1. w.heap = h
      BY DEF w, h
    <3> HIDE DEF w
    <3>2. /\ Tree(g, DOMAIN w.heap, R \cup Copies(less))
          /\ \A x \in DOMAIN w.heap : SameData(g[x], w.heap[x])
      BY <2>10, <3>1
    <3>3. Sound(q, R \cup Copies(less)) /\ q.heap = g /\ DOMAIN q.heap = DOMAIN w.heap
      BY <1>1, <3>2, RelinkedIsSound
    <3>4. QED
      BY <3>1, <3>3, SoundIsMemory
  <2> HIDE DEF q
  <2>14. Keeps(g, m.heap)
    <3>1. ASSUME NEW x \in DOMAIN m.heap
          PROVE  x \in DOMAIN g /\ g[x] = m.heap[x]
      <4>1. x \in DOMAIN h /\ h[x] = m.heap[x]
        BY <1>1 DEF Keeps
      <4>2. x # a /\ x # done /\ (h[a].child = NoNode \/ x # last)
        BY <1>5, <2>4, <2>5
      <4>3. QED
        BY <2>12, <2>13, <4>1, <4>2
    <3>2. QED
      BY <3>1 DEF Keeps
  <2>15. ASSUME NEW i \in 1 .. Len(less)
         PROVE  /\ less[i].copy \notin DOMAIN m.heap /\ ~g[less[i].copy].ref
                /\ less[i].child \in Pointers(L) /\ (i < Len(less) => less[i].child # NoNode)
                /\ g[less[i].copy].child # NoNode =>
                     /\ less[i].last \in DOMAIN g \ (R \cup Copies(less))
                     /\ less[i].last \notin DOMAIN m.heap /\ g[less[i].last].next = NoNode
    <3>1. CASE i \in 1 .. N /\ i < N - 1 /\ less[i] = open[i]
      <4>1. open[i].copy # a /\ open[i].copy \in DOMAIN h
        BY <1>1, <1>4, <2>2, <2>3, <3>1 DEF a
      <4>2. /\ g[open[i].copy].child = h[open[i].copy].child /\ g[open[i].copy].ref = h[open[i].copy].ref
        BY <2>12, <4>1
      <4>3. i < N
        BY <1>2, <3>1
      <4>4. ASSUME h[open[i].copy].child # NoNode
            PROVE  /\ open[i].last \in DOMAIN g \ (R \cup Copies(less))
                   /\ open[i].last \notin DOMAIN m.heap /\ g[open[i].last].next = NoNode
        <5>1. /\ open[i].last \in DOMAIN h /\ open[i].last \notin R \cup C
              /\ open[i].last \notin DOMAIN m.heap /\ h[open[i].last].next = NoNode
          BY <1>1, <3>1, <4>4
        <5>2. h[a].child # NoNode => open[i].last # last
          BY <1>1, <2>2, <2>3, <3>1, <4>4 DEF a, last
        <5>3. g[open[i].last].next = NoNode
          BY <2>12, <5>1, <5>2
        <5>4. QED
          BY <2>9, <2>13, <5>1, <5>3
      <4>5. QED
        BY <1>1, <3>1, <4>2, <4>3, <4>4
    <3>2. CASE i = N - 1 /\ less[i] = e
      <4>1. done \in DOMAIN g \ (R \cup Copies(less))
        BY <1>5, <2>9, <2>13
      <4>2. ~g[a].ref
        BY <2>4, <2>12
      <4>3. ~(i < Len(less))
        BY <1>2, <2>7, <3>2
      <4>4. QED
        BY <1>5, <2>4, <2>6, <2>11, <3>2, <4>1, <4>2, <4>3
    <3>3. QED
      BY <2>8, <3>1, <3>2
  <2>16. ASSUME NEW i \in 1 .. Len(less), NEW j \in 1 .. Len(less), i # j
         PROVE  /\ less[i].copy # less[j].copy
                /\ g[less[i].copy].child # NoNode /\ g[less[j].copy].child # NoNode =>
                     less[i].last # less[j].last
    <3>1. CASE /\ i \in 1 .. N /\ i < N - 1 /\ less[i] = open[i]
               /\ j \in 1 .. N /\ j < N - 1 /\ less[j] = open[j]
      <4>1. /\ open[i].copy # a /\ open[i].copy \in DOMAIN h
            /\ open[j].copy # a /\ open[j].copy \in DOMAIN h
        BY <1>1, <1>4, <2>2, <2>3, <3>1 DEF a
      <4>2. /\ g[open[i].copy].child = h[open[i].copy].child
            /\ g[open[j].copy].child = h[open[j].copy].child
        BY <2>12, <4>1
      <4>3. QED
        BY <1>1, <2>16, <3>1, <4>2
    <3>2. ASSUME NEW k \in 1 .. N, k < N - 1
          PROVE  /\ open[k].copy # a
                 /\ g[open[k].copy].child # NoNode => open[k].last # done
      <4>1. open[k].copy # a /\ open[k].copy \in DOMAIN h
        BY <1>1, <1>4, <2>2, <2>3, <3>2 DEF a
      <4>2. g[open[k].copy].child = h[open[k].copy].child
        BY <2>12, <4>1
      <4>3. h[open[k].copy].child # NoNode => open[k].last \notin C
        BY <1>1
      <4>4. QED
        BY <1>5, <4>1, <4>2, <4>3
    <3>3. CASE i \in 1 .. N /\ i < N - 1 /\ less[i] = open[i] /\ j = N - 1 /\ less[j] = e
      BY <2>6, <3>2, <3>3
    <3>4. CASE j \in 1 .. N /\ j < N - 1 /\ less[j] = open[j] /\ i = N - 1 /\ less[i] = e
      BY <2>6, <3>2, <3>4
    <3>5. /\ (i \in 1 .. N /\ i < N - 1 /\ less[i] = open[i]) \/ (i = N - 1 /\ less[i] = e)
          /\ (j \in 1 .. N /\ j < N - 1 /\ less[j] = open[j]) \/ (j = N - 1 /\ less[j] = e)
      BY <2>8
    <3>6. QED
      BY <2>16, <3>1, <3>3, <3>4, <3>5
  <2>17. Duplicating(t, m, R, L)
    BY <2>7, <2>13, <2>14, <2>15, <2>16, ZenonT(40) DEF Duplicating
  <2>18. QED
    BY <2>1, <2>7, <2>13, <2>17 DEF open, h
<1>8. QED
  BY <1>6, <1>7

\* The first copy is under way.
LEMMA FirstCopyStands ==
  ASSUME NEW m, NEW R, R \in SUBSET DOMAIN m.heap, NEW L, Readable(m.heap, L), NEW n \in L,
         NEW first, Gave(first, m, R), first.item # NoNode,
         ~first.heap[first.item].ref, first.heap[first.item].child = NoNode
  PROVE  LET s == [m |-> first, open |-> <<Opened(first.item, m.heap[n].child)>>]
         IN  Duplicating(s, m, R, L) /\ s.open # <<>> /\ Len(s.open) = 1
<1> DEFINE c == first.item
           f == Opened(c, m.heap[n].child)
           open == <<f>>
           s == [m |-> first, open |-> open]
<1>1. Sound(first, R \cup {c}) /\ Keeps(first.heap, m.heap) /\ c \notin DOMAIN m.heap
  BY DEF Gave
<1>2. first \in Memories /\ c \in Node /\ DOMAIN first.heap \in SUBSET Node /\ NoNode \in Pointers(Node)
  BY <1>1, SoundIsMemory DEF Pointers
<1>3. m.heap[n].child \in Pointers(L) /\ L \subseteq Node
  BY <1>1, <1>2 DEF Readable, Keeps
<1>4. f \in Frames /\ f.copy = c /\ f.child \in Pointers(L)
  BY <1>2, <1>3 DEF Frames, Opened, Pointers
<1> HIDE DEF f, c
<1>5. open \in Seq(Frames) /\ open # <<>> /\ Len(open) = 1 /\ open[1] = f /\ \A i \in 1 .. Len(open) : i = 1
  BY <1>4
<1> HIDE DEF open
<1>6. Copies(open) = {c}
  BY <1>4, <1>5 DEF Copies
<1>7. Duplicating(s, m, R, L)
  <2>1. /\ Sound(first, R \cup Copies(open)) /\ ~first.heap[c].ref /\ first.heap[c].child = NoNode
    BY <1>1, <1>6 DEF c
  <2>2. ASSUME NEW i \in 1 .. Len(open)
        PROVE  i = 1 /\ open[i] = f /\ ~(i < Len(open))
    BY <1>5
  <2>3. \A i, j \in 1 .. Len(open) : ~(i # j)
    BY <1>5
  <2> HIDE DEF s
  <2>4. s.m = first /\ s.open = open
    BY DEF s
  <2>5. QED
    BY <1>1, <1>2, <1>4, <1>5, <2>1, <2>2, <2>3, <2>4 DEF Duplicating
<1>8. QED
  BY <1>5, <1>7 DEF open, f, c

\* cJSON_Duplicate gives a copy, with all that hangs on it, or nothing.
LEMMA DuplicateIsGiven ==
  ASSUME NEW m, NEW R, Sound(m, R), NEW L, Readable(m.heap, L), NEW n \in L, NEW recurse
  PROVE  Given(Duplicate(m, n, recurse), R)
<1> DEFINE first == CopyItem(m, n)
           c == first.item
           P == Cardinality(Node)
           base == [m |-> first, open |-> <<Opened(c, m.heap[n].child)>>]
           V == {s \in [m : Memories, open : Seq(Frames)] : Duplicating(s, m, R, L)}
           IsRun(f) == f = [k \in 0 .. 2 * P |-> IF k = 0 THEN base ELSE Copying(f[k - 1])]
           run == CHOOSE f : IsRun(f)
           step == [i \in 1 .. 2 * P |-> [s \in V |-> Copying(s)]]
<1>1. Duplicate(m, n, recurse) = IF c = NoNode \/ ~recurse THEN first ELSE run[2 * P].m
  BY DEF Duplicate
<1>2. /\ R \in SUBSET DOMAIN m.heap /\ NoNode \notin DOMAIN m.heap /\ NoNode \notin R
      /\ n \in DOMAIN m.heap
  BY SoundIsMemory DEF Readable
<1>3. /\ Gave(first, m, R)
      /\ c # NoNode => ~first.heap[c].ref /\ first.heap[c].child = NoNode
  BY <1>2, CopyItemGives
<1>4. CASE c = NoNode \/ ~recurse
  <2>1. Given(first, R)
    BY <1>2, <1>3, GaveIsGiven
  <2>2. QED
    BY <1>1, <1>4, <2>1
<1>5. CASE ~(c = NoNode \/ ~recurse)
  <2>1. P \in Nat /\ 2 * P \in Nat
    BY HeapAssumption, FS_CardinalityType
  <2> HIDE DEF first, P
  <2>2. Duplicating(base, m, R, L) /\ base.open # <<>> /\ Len(base.open) = 1
    BY <1>2, <1>3, <1>5, FirstCopyStands
  <2>3. base \in V
    BY <2>2 DEF Duplicating
  <2>4. ASSUME NEW s, Duplicating(s, m, R, L)
        PROVE  /\ Duplicating(Copying(s), m, R, L)
               /\ Copying(s).open # <<>> =>
                    /\ s.open # <<>>
                    /\ \/ /\ Len(Copying(s).open) = Len(s.open) + 1
                          /\ Cardinality(DOMAIN Copying(s).m.heap) = Cardinality(DOMAIN s.m.heap) + 1
                       \/ /\ Len(Copying(s).open) = Len(s.open) - 1
                          /\ DOMAIN Copying(s).m.heap = DOMAIN s.m.heap
    <3>1. CASE s.open = <<>>
      BY <2>4, <3>1 DEF Copying
    <3>2. CASE s.open # <<>> /\ Last(s.open).child = NoNode
      <4>1. Copying(s) = Ascended(s)
        BY <3>2 DEF Copying
      <4>2. /\ Duplicating(Ascended(s), m, R, L)
            /\ Ascended(s).open # <<>> =>
                 Len(Ascended(s).open) = Len(s.open) - 1 /\ DOMAIN Ascended(s).m.heap = DOMAIN s.m.heap
        BY <1>2, <2>4, <3>2, AscendedStands
      <4>3. QED
        BY <3>2, <4>1, <4>2
    <3>3. CASE s.open # <<>> /\ Last(s.open).child # NoNode
      <4>1. Copying(s) = Descended(s)
        BY <3>3 DEF Copying
      <4>2. /\ Duplicating(Descended(s), m, R, L)
            /\ Descended(s).open # <<>> =>
                 /\ Len(Descended(s).open) = Len(s.open) + 1
                 /\ Cardinality(DOMAIN Descended(s).m.heap) = Cardinality(DOMAIN s.m.heap) + 1
        BY <1>2, <2>4, <3>3, DescendedStands
      <4>3. QED
        BY <3>3, <4>1, <4>2
    <3>4. QED
      BY <3>1, <3>2, <3>3
  <2> HIDE DEF base
  <2>5. ASSUME NEW s \in V
        PROVE  Copying(s) \in V /\ Duplicating(s, m, R, L)
    <3>1. Duplicating(Copying(s), m, R, L)
      BY <2>4
    <3>2. Copying(s) \in [m : Memories, open : Seq(Frames)]
      <4>1. Copying(s).m \in Memories /\ Copying(s).open \in Seq(Frames)
        BY <3>1 DEF Duplicating
      <4>2. \A t, u : [m |-> t, open |-> u] \in [m : {t}, open : {u}]
        OBVIOUS
      <4>3. Copying(s) = [m |-> Copying(s).m, open |-> Copying(s).open]
        BY DEF Copying, Ascended, Descended
      <4>4. QED
        BY <4>1, <4>3
    <3>3. QED
      BY <3>1, <3>2
  <2>6. PICK g : Course(g, 2 * P, V, base, step)
    <3>1. Steps(2 * P, V, step)
      BY <2>5 DEF Steps
    <3> HIDE DEF V, step
    <3>2. QED
      BY <2>1, <2>3, <3>1, LoopRuns
  <2>7. /\ g \in [0 .. 2 * P -> V] /\ g[0] = base
        /\ \A i \in 1 .. 2 * P : g[i] = step[i][g[i - 1]]
    BY <2>6 DEF Course
  <2>8. IsRun(g)
    <3>1. ASSUME NEW i \in 0 .. 2 * P, i # 0
          PROVE  g[i] = Copying(g[i - 1])
      <4>1. i - 1 \in 0 .. 2 * P /\ i \in 1 .. 2 * P
        BY <2>1, <3>1
      <4> HIDE DEF V
      <4>2. g[i - 1] \in V /\ g[i] = step[i][g[i - 1]]
        BY <2>7, <4>1
      <4>3. QED
        BY <4>1, <4>2
    <3> HIDE DEF V, step
    <3>2. QED
      BY <2>7, <3>1
  <2>9. IsRun(run)
    <3> HIDE DEF IsRun
    <3>1. QED
      BY <2>8
  <2> HIDE DEF run
  <2>10. run[0] = base /\ \A i \in 0 .. 2 * P : i # 0 => run[i] = Copying(run[i - 1])
    BY <2>1, <2>9
  <2> DEFINE Measure(s) == 2 * Cardinality(DOMAIN s.m.heap) - Len(s.open)
             Q == {i \in 0 .. 2 * P : /\ run[i] \in V
                                      /\ run[i].open # <<>> => Measure(run[i]) >= i + 1}
  <2>11. ASSUME NEW s \in V, s.open # <<>>
         PROVE  /\ Cardinality(DOMAIN s.m.heap) \in Nat /\ Cardinality(DOMAIN s.m.heap) <= P
                /\ Len(s.open) \in Nat \ {0}
    <3>1. Duplicating(s, m, R, L) /\ s.open \in Seq(Frames)
      BY DEF Duplicating
    <3>2. DOMAIN s.m.heap \in SUBSET Node
      <4>1. s.m \in Memories
        BY <3>1 DEF Duplicating
      <4>2. QED
        BY <4>1, MemoryFields
    <3>3. Cardinality(DOMAIN s.m.heap) \in Nat /\ Cardinality(DOMAIN s.m.heap) <= P
      BY <3>2, HeapAssumption, FS_Subset, FS_CardinalityType DEF P
    <3>4. QED
      BY <2>11, <3>1, <3>3, TopFrame
  <2>12. 0 \in Q
    <3>1. Cardinality(DOMAIN base.m.heap) # 0
      <4>1. DOMAIN base.m.heap \in SUBSET Node /\ c \in DOMAIN base.m.heap
        <5>1. base.m = first
          BY DEF base
        <5>2. Sound(first, R \cup {c})
          BY <1>3, <1>5 DEF Gave
        <5>3. QED
          BY <5>1, <5>2, SoundIsMemory
      <4>2. IsFiniteSet(DOMAIN base.m.heap)
        BY <4>1, HeapAssumption, FS_Subset
      <4>3. QED
        BY <4>1, <4>2, FS_EmptySet
    <3>2. Cardinality(DOMAIN base.m.heap) \in Nat
      BY <2>2, <2>3, <2>11
    <3> DEFINE x == Cardinality(DOMAIN base.m.heap)
    <3> HIDE DEF V, x
    <3>3. 2 * x - 1 >= 1
      BY <3>1, <3>2 DEF x
    <3>4. Measure(base) >= 0 + 1
      BY <2>2, <3>3 DEF x
    <3> HIDE DEF Measure
    <3>5. 0 \in 0 .. 2 * P /\ run[0] \in V /\ Measure(run[0]) >= 0 + 1
      BY <2>1, <2>3, <2>10, <3>4
    <3>6. QED
      BY <3>5
  <2>13. ASSUME NEW i \in 0 .. 2 * P, i < 2 * P, i \in Q
         PROVE  i + 1 \in Q
    <3>1. i + 1 \in 0 .. 2 * P /\ i + 1 # 0 /\ (i + 1) - 1 = i
      BY <2>1, <2>13
    <3>2. run[i + 1] = Copying(run[i]) /\ run[i] \in V
      BY <2>10, <2>13, <3>1
    <3> DEFINE s == run[i]
               t == Copying(s)
    <3>3. t \in V /\ Duplicating(s, m, R, L)
      BY <2>5, <3>2
    <3>4. ASSUME t.open # <<>>
          PROVE  Measure(t) >= i + 1 + 1
      <4>1. /\ s.open # <<>>
            /\ \/ /\ Len(t.open) = Len(s.open) + 1
                  /\ Cardinality(DOMAIN t.m.heap) = Cardinality(DOMAIN s.m.heap) + 1
               \/ /\ Len(t.open) = Len(s.open) - 1
                  /\ DOMAIN t.m.heap = DOMAIN s.m.heap
        BY <2>4, <3>3, <3>4
      <4>2. Measure(s) >= i + 1
        BY <2>13, <4>1
      <4>3. /\ Cardinality(DOMAIN s.m.heap) \in Nat /\ Len(s.open) \in Nat
            /\ Cardinality(DOMAIN t.m.heap) \in Nat /\ Len(t.open) \in Nat
        BY <2>11, <3>2, <3>3, <3>4, <4>1
      <4> HIDE DEF s, t, V
      <4>4. \A x, y, k, l, j \in Int :
              /\ 2 * x - l >= j /\ y = x + 1 /\ k = l + 1 => 2 * y - k >= j + 1
              /\ 2 * x - l >= j /\ y = x /\ k = l - 1 => 2 * y - k >= j + 1
        OBVIOUS
      <4> DEFINE x == Cardinality(DOMAIN s.m.heap)
                 y == Cardinality(DOMAIN t.m.heap)
      <4>5. \/ y = x + 1 /\ Len(t.open) = Len(s.open) + 1
            \/ y = x /\ Len(t.open) = Len(s.open) - 1
        BY <4>1
      <4>6. x \in Int /\ y \in Int /\ Len(s.open) \in Int /\ Len(t.open) \in Int /\ i + 1 \in Int
            /\ 2 * x - Len(s.open) >= i + 1
        BY <4>2, <4>3
      <4> HIDE DEF x, y
      <4>7. 2 * y - Len(t.open) >= i + 1 + 1
        BY <4>4, <4>5, <4>6
      <4>8. QED
        BY <4>7 DEF y
    <3> HIDE DEF V, t
    <3>5. QED
      BY <3>1, <3>2, <3>3, <3>4 DEF t
  <2> HIDE DEF Q
  <2>14. 0 .. 2 * P \subseteq Q
    BY <2>1, <2>12, <2>13, CountingUp
  <2>15. run[2 * P] \in V /\ (run[2 * P].open # <<>> => Measure(run[2 * P]) >= 2 * P + 1)
    BY <2>1, <2>14 DEF Q
  <2>16. run[2 * P].open = <<>>
    <3> SUFFICES ASSUME run[2 * P].open # <<>>
                 PROVE  FALSE
      OBVIOUS
    <3>1. /\ Cardinality(DOMAIN run[2 * P].m.heap) \in Nat
          /\ Cardinality(DOMAIN run[2 * P].m.heap) <= P
          /\ Len(run[2 * P].open) \in Nat \ {0}
      BY <2>11, <2>15
    <3> HIDE DEF V
    <3>2. QED
      BY <2>1, <2>15, <3>1
  <2>17. Given(run[2 * P].m, R)
    BY <2>15, <2>16 DEF Duplicating
  <2>18. QED
    BY <1>1, <1>5, <2>17
<1>6. QED
  BY <1>4, <1>5

-----------------------------------------------------------------------------
(* The caller's calls *)

\* The inductive invariant: lists are linked, what stands in none is the caller's or
\* nobody's, every block is counted, and the caller keeps the rules.
Invariant ==
  /\ Sound(Memory(0), roots \cup lost)
  /\ roots \cap lost = {}
  /\ RulesKept(heap)

\* The memory a call finds.
Finds(m) ==
  m.heap = heap /\ m.strings = strings /\ m.item = NoNode /\ Sound(m, roots \cup lost)

\* Whatever fuel it has and whatever it returns.
LEMMA SoundIsOfHeap ==
  ASSUME NEW m, NEW R, Sound(m, R), NEW f \in Int,
         NEW q, q = [heap |-> m.heap, strings |-> m.strings, fuel |-> f, item |-> NoNode]
  PROVE  Sound(q, R)
<1>1. m \in Memories
  BY SoundIsMemory
<1>2. q \in Memories
  BY <1>1 DEF Memories, Pointers
<1>3. q.heap = m.heap /\ q.strings = m.strings
  OBVIOUS
<1>4. QED
  BY <1>2, <1>3 DEF Sound, Counted

\* What it finds.
LEMMA FoundMemory ==
  ASSUME Invariant, NEW fuel \in Nat
  PROVE  Finds(Memory(fuel))
<1>1. Sound(Memory(0), roots \cup lost)
  BY DEF Invariant
<1>2. Memory(0).heap = heap /\ Memory(0).strings = strings
  BY DEF Memory
<1>3. Memory(fuel) = [heap |-> heap, strings |-> strings, fuel |-> fuel, item |-> NoNode]
  BY DEF Memory
<1>4. Sound(Memory(fuel), roots \cup lost)
  BY <1>1, <1>2, <1>3, SoundIsOfHeap
<1>5. QED
  BY <1>3, <1>4 DEF Finds

\* A call that leaves a sound memory keeps the invariant.
LEMMA BecomesKeeps ==
  ASSUME NEW m, NEW owned, Becomes(m, owned), UNCHANGED lost,
         Sound(m, owned \cup lost), owned \cap lost = {}
  PROVE  Invariant'
<1>1. heap' = m.heap /\ strings' = m.strings /\ roots' = owned /\ lost' = lost /\ RulesKept(m.heap)
  BY DEF Becomes
<1>2. RulesKept(heap)'
  BY <1>1 DEF RulesKept
<1>3. Sound(Memory(0), roots \cup lost)'
  <2> DEFINE q == [heap |-> m.heap, strings |-> m.strings, fuel |-> 0, item |-> NoNode]
  <2>1. Memory(0)' = q
    BY <1>1 DEF Memory
  <2> HIDE DEF q
  <2>2. Sound(q, owned \cup lost)
    BY SoundIsOfHeap DEF q
  <2>3. QED
    BY <1>1, <2>1, <2>2
<1>4. QED
  BY <1>1, <1>2, <1>3 DEF Invariant

\* A call that gives the caller a new item keeps the invariant.
LEMMA GivesKeeps ==
  ASSUME Invariant, NEW m, Gives(m), Given(m, roots \cup lost)
  PROVE  Invariant'
<1>1. Becomes(m, roots \cup Returned(m)) /\ UNCHANGED lost
  BY DEF Gives
<1>2. (roots \cup Returned(m)) \cap lost = {}
  BY DEF Invariant, Given, Returned
<1>3. (roots \cup lost) \cup Returned(m) = (roots \cup Returned(m)) \cup lost
  OBVIOUS
<1>4. Sound(m, (roots \cup Returned(m)) \cup lost)
  BY <1>3 DEF Given
<1>5. QED
  BY <1>1, <1>2, <1>4, BecomesKeeps

\* A call that takes an item of the caller's, or fails, keeps the invariant.
LEMMA TakesKeeps ==
  ASSUME Invariant, NEW m, Takes(m), m.item = NoNode => Sound(m, roots \cup lost),
         m.item # NoNode => m.item \in roots /\ Sound(m, (roots \cup lost) \ {m.item})
  PROVE  Invariant'
<1>1. Becomes(m, roots \ Returned(m)) /\ UNCHANGED lost
  BY DEF Takes
<1>2. roots \cap lost = {}
  BY DEF Invariant
<1>3. Sound(m, (roots \ Returned(m)) \cup lost)
  <2>1. CASE m.item = NoNode
    <3>1. (roots \ Returned(m)) \cup lost = roots \cup lost
      BY <2>1 DEF Returned
    <3>2. QED
      BY <2>1, <3>1
  <2>2. CASE m.item # NoNode
    <3>1. (roots \ Returned(m)) \cup lost = (roots \cup lost) \ {m.item}
      BY <1>2, <2>2 DEF Returned
    <3>2. QED
      BY <2>2, <3>1
  <2>3. QED
    BY <2>1, <2>2
<1>4. QED
  BY <1>1, <1>2, <1>3, BecomesKeeps

\* A call that keeps the items it makes.
LEMMA OwnsTheSame ==
  ASSUME Invariant, NEW m, Becomes(m, roots), UNCHANGED lost, Sound(m, roots \cup lost)
  PROVE  Invariant'
BY BecomesKeeps DEF Invariant

\* What the invariant says of the heap.
LEMMA WhatIsFound ==
  ASSUME Invariant, NEW m, Finds(m)
  PROVE  /\ m.heap = heap /\ Sound(m, roots \cup lost) /\ m.item = NoNode
         /\ Tree(heap, DOMAIN heap, roots \cup lost) /\ DOMAIN heap \in SUBSET Node
         /\ roots \in SUBSET DOMAIN heap /\ lost \in SUBSET DOMAIN heap /\ roots \cap lost = {}
         /\ NoNode \notin DOMAIN heap /\ NoNode \in Pointers(Node)
         /\ Live \in SUBSET DOMAIN heap
         /\ \A a \in Container : a \in DOMAIN heap /\ ~heap[a].ref
         /\ Array \subseteq Container /\ Object \subseteq Container
<1>1. m.heap = heap /\ Sound(m, roots \cup lost) /\ m.item = NoNode
  BY DEF Finds
<1>2. /\ Tree(heap, DOMAIN heap, roots \cup lost) /\ DOMAIN heap \in SUBSET Node
      /\ roots \cup lost \in SUBSET DOMAIN heap /\ NoNode \notin DOMAIN heap
  BY <1>1, SoundIsMemory
<1>3. roots \cap lost = {}
  BY DEF Invariant
<1>4. QED
  BY <1>1, <1>2, <1>3 DEF Live, Container, Array, Object, Pointers

\* Creation.
LEMMA CallCreateKeeps ==
  ASSUME Invariant, NEW m, Finds(m), CallCreate(m)
  PROVE  Invariant'
<1> DEFINE R == roots \cup lost
<1>1. Sound(m, R) /\ R \in SUBSET DOMAIN m.heap /\ NoNode \notin R /\ Live \in SUBSET Node
  BY WhatIsFound
<1>2. ASSUME NEW t \in Type, NEW v \in ValueOf(t), Gives(Create(m, t, v))
      PROVE  Invariant'
  <2>1. Gave(Create(m, t, v), m, R)
    BY <1>1, CreateGives
  <2>2. Given(Create(m, t, v), R)
    BY <1>1, <2>1, GaveIsGiven
  <2>3. QED
    BY <1>2, <2>2, GivesKeeps
<1>3. ASSUME NEW v \in Text, Gives(CreateStringReference(m, v))
      PROVE  Invariant'
  <2>1. Gave(CreateStringReference(m, v), m, R)
    BY <1>1, StringReferenceGives
  <2>2. Given(CreateStringReference(m, v), R)
    BY <1>1, <2>1, GaveIsGiven
  <2>3. QED
    BY <1>3, <2>2, GivesKeeps
<1>4. ASSUME NEW t \in {"array", "object"}, NEW n \in Live, Gives(CreateListReference(m, t, n))
      PROVE  Invariant'
  <2>1. n \in Node
    BY <1>1
  <2>2. Gave(CreateListReference(m, t, n), m, R)
    BY <1>1, <2>1, ListReferenceGives
  <2>3. Given(CreateListReference(m, t, n), R)
    BY <1>1, <2>2, GaveIsGiven
  <2>4. QED
    BY <1>4, <2>3, GivesKeeps
<1>5. ASSUME NEW t \in {"number", "string"}, NEW v \in ValueOf(t), Gives(CreateArrayOf(m, t, v, 2))
      PROVE  Invariant'
  <2>1. t \in Type /\ 2 \in Nat
    BY DEF Type
  <2>2. Given(CreateArrayOf(m, t, v, 2), R)
    BY <1>1, <2>1, ArrayIsGiven
  <2>3. QED
    BY <1>5, <2>2, GivesKeeps
<1>6. QED
  BY <1>2, <1>3, <1>4, <1>5 DEF CallCreate

\* An item of the caller's added to an array, or to an object under a name.
LEMMA CallAddItemKeeps ==
  ASSUME Invariant, NEW m, Finds(m), CallAddItemToArray(m) \/ CallAddItemToObject(m)
  PROVE  Invariant'
<1> DEFINE R == roots \cup lost
<1>1. /\ Sound(m, R) /\ NoNode \in Pointers(Node) /\ m.heap = heap
      /\ roots \in SUBSET DOMAIN heap /\ DOMAIN heap \in SUBSET Node /\ NoNode \notin DOMAIN heap
      /\ \A a \in Container : a \in DOMAIN heap /\ ~heap[a].ref
      /\ Array \subseteq Container /\ Object \subseteq Container
  BY WhatIsFound
<1>2. ASSUME NEW a \in Array, NEW n \in roots, Takes(Returning(AddToArray(m, a, n), n))
      PROVE  Invariant'
  <2> DEFINE q == AddToArray(m, a, n)
  <2>1. a \in DOMAIN m.heap /\ ~m.heap[a].ref /\ n \in R
    BY <1>1
  <2>2. Appended(q, m, n, R)
    BY <1>1, <2>1, AddedToArray
  <2> HIDE DEF q
  <2>3. n \in Pointers(Node) /\ n # NoNode
    BY <1>1 DEF Pointers
  <2>4. Sound(q, R \ {n})
    BY <2>2 DEF Appended
  <2>5. Sound(Returning(q, n), R \ {n}) /\ Returning(q, n).item = n
    BY <2>3, <2>4, ReturningKeeps
  <2>6. QED
    BY <1>2, <2>3, <2>5, TakesKeeps DEF q
<1>3. ASSUME NEW o \in Object, NEW n \in roots, NEW k \in Key, NEW constant \in BOOLEAN,
             Takes(AddToObject(m, o, k, n, constant))
      PROVE  Invariant'
  <2> DEFINE q == AddToObject(m, o, k, n, constant)
  <2>1. o \in DOMAIN m.heap /\ ~m.heap[o].ref /\ n \in R \cup {NoNode}
    BY <1>1
  <2>2. /\ q.item = NoNode => Sound(q, R)
        /\ q.item # NoNode => q.item = n /\ Sound(q, R \ {n})
    <3>1. /\ Sound(m, R) /\ o \in DOMAIN m.heap /\ ~m.heap[o].ref /\ n \in R \cup {NoNode}
          /\ constant \in {TRUE, FALSE}
      BY <1>1, <2>1
    <3> HIDE DEF R
    <3>2. Took(q, m, n, R)
      BY <3>1, AddedToObject
    <3>3. QED
      BY <3>2 DEF Took
  <2> HIDE DEF q
  <2>3. QED
    BY <1>3, <2>2, TakesKeeps DEF q
<1>4. QED
  BY <1>2, <1>3 DEF CallAddItemToArray, CallAddItemToObject

\* A reference added to an array.
LEMMA CallAddReferenceToArrayKeeps ==
  ASSUME Invariant, NEW m, Finds(m), CallAddReferenceToArray(m)
  PROVE  Invariant'
<1> DEFINE R == roots \cup lost
<1>1. /\ Sound(m, R) /\ m.heap = heap /\ R \in SUBSET DOMAIN m.heap
      /\ \A a \in Container : a \in DOMAIN heap /\ ~heap[a].ref
      /\ Array \subseteq Container /\ Live \in SUBSET DOMAIN heap
  BY WhatIsFound
<1>2. PICK a \in Array, n \in Live :
        LET new == CreateReference(m, n)
        IN  /\ Becomes(IF new.item = NoNode THEN new ELSE AddToArray(new, a, new.item), roots)
            /\ UNCHANGED lost
  BY DEF CallAddReferenceToArray
<1> DEFINE new == CreateReference(m, n)
           c == new.item
<1>3. n \in DOMAIN m.heap /\ a \in DOMAIN m.heap /\ ~m.heap[a].ref
  BY <1>1
<1>4. Gave(new, m, R)
  BY <1>1, <1>3, CreateReferenceGives
<1>5. CASE c = NoNode
  <2>1. Sound(new, R) /\ Becomes(new, roots) /\ UNCHANGED lost
    BY <1>2, <1>4, <1>5 DEF Gave
  <2>2. QED
    BY <2>1, OwnsTheSame
<1>6. CASE c # NoNode
  <2>1. Becomes(AddToArray(new, a, c), roots) /\ UNCHANGED lost
    BY <1>2, <1>6
  <2>2. Sound(new, R \cup {c}) /\ Keeps(new.heap, m.heap) /\ c \notin DOMAIN m.heap
    BY <1>4, <1>6 DEF Gave
  <2> HIDE DEF c, new
  <2>3. a \in DOMAIN new.heap /\ ~new.heap[a].ref /\ c \in R \cup {c} /\ (R \cup {c}) \ {c} = R
    BY <1>1, <1>3, <2>2 DEF Keeps
  <2>4. Appended(AddToArray(new, a, c), new, c, R \cup {c})
    BY <2>2, <2>3, AddedToArray
  <2>5. Sound(AddToArray(new, a, c), R)
    BY <2>3, <2>4 DEF Appended
  <2>6. QED
    BY <2>1, <2>5, OwnsTheSame
<1>7. QED
  BY <1>5, <1>6

\* A new item added to an object, or deleted when its name cannot be copied.
LEMMA CallAddNewToObjectKeeps ==
  ASSUME Invariant, NEW m, Finds(m), CallAddNewToObject(m)
  PROVE  Invariant'
<1> DEFINE R == roots \cup lost
<1>1. /\ Sound(m, R) /\ m.heap = heap /\ R \in SUBSET DOMAIN m.heap /\ NoNode \notin R
      /\ \A a \in Container : a \in DOMAIN heap /\ ~heap[a].ref
      /\ Object \subseteq Container
  BY WhatIsFound
<1>2. PICK o \in Object, k \in Key, t \in Type : \E v \in ValueOf(t) :
        LET new == Create(m, t, v)
            added == AddToObject(new, o, k, new.item, FALSE)
        IN  /\ Becomes(IF added.item = NoNode THEN Delete(added, {new.item}) ELSE added, roots)
            /\ UNCHANGED lost
  BY DEF CallAddNewToObject
<1>3. PICK v \in ValueOf(t) :
        LET new == Create(m, t, v)
            added == AddToObject(new, o, k, new.item, FALSE)
        IN  /\ Becomes(IF added.item = NoNode THEN Delete(added, {new.item}) ELSE added, roots)
            /\ UNCHANGED lost
  BY <1>2
<1> DEFINE new == Create(m, t, v)
           c == new.item
           added == AddToObject(new, o, k, c, FALSE)
           S == R \cup ({c} \ {NoNode})
<1>4. Gave(new, m, R)
  BY <1>1, CreateGives
<1> HIDE DEF new
<1>5. Sound(new, S) /\ (c # NoNode => c \notin DOMAIN m.heap) /\ c \in S \cup {NoNode}
  <2>1. CASE c = NoNode
    <3>1. S = R
      BY <2>1
    <3>2. QED
      BY <1>4, <2>1, <3>1 DEF Gave
  <2>2. CASE c # NoNode
    <3>1. S = R \cup {c}
      BY <2>2
    <3>2. QED
      BY <1>4, <2>2, <3>1 DEF Gave
  <2>3. QED
    BY <2>1, <2>2
<1>6. S \ {c} = R /\ {c} \ {NoNode} \in SUBSET S
  BY <1>1, <1>5
<1>7. CASE c = NoNode
  <2>1. added = ReturningNull(new)
    BY <1>7 DEF AddToObject
  <2>2. NoNode \in Pointers(Node)
    BY DEF Pointers
  <2> HIDE DEF c, added, S
  <2>3. Sound(added, S) /\ added.item = NoNode
    BY <1>5, <2>1, <2>2, ReturningKeeps DEF ReturningNull
  <2>4. Sound(Delete(added, {c}), S \ {c})
    BY <1>6, <2>3, DeleteIsSound DEF Sound
  <2>5. Becomes(Delete(added, {c}), roots) /\ UNCHANGED lost
    BY <1>3, <2>3 DEF added, c, new
  <2>6. QED
    BY <1>6, <2>4, <2>5, OwnsTheSame
<1>8. CASE c # NoNode
  <2>1. Keeps(new.heap, m.heap) /\ o \in DOMAIN m.heap /\ ~m.heap[o].ref
    BY <1>1, <1>4, <1>8 DEF Gave
  <2>2. o \in DOMAIN new.heap /\ ~new.heap[o].ref
    BY <2>1 DEF Keeps
  <2> HIDE DEF c, S
  <2>3. Took(AddToObject(new, o, k, c, FALSE), new, c, S)
    <3>1. FALSE \in {TRUE, FALSE}
      OBVIOUS
    <3>2. QED
      BY <1>5, <2>2, <3>1, AddedToObject
  <2>4. /\ added.item = NoNode => Sound(added, S)
        /\ added.item # NoNode => Sound(added, S \ {c})
    BY <2>3 DEF Took
  <2> HIDE DEF added
  <2>5. CASE added.item = NoNode
    <3>1. Sound(Delete(added, {c}), S \ {c})
      BY <1>6, <2>4, <2>5, DeleteIsSound DEF Sound
    <3>2. Becomes(Delete(added, {c}), roots) /\ UNCHANGED lost
      BY <1>3, <2>5 DEF added, c, new
    <3>3. QED
      BY <1>6, <3>1, <3>2, OwnsTheSame
  <2>6. CASE added.item # NoNode
    <3>1. Sound(added, R)
      BY <1>6, <2>4, <2>6
    <3>2. Becomes(added, roots) /\ UNCHANGED lost
      BY <1>3, <2>6 DEF added, c, new
    <3>3. QED
      BY <3>1, <3>2, OwnsTheSame
  <2>7. QED
    BY <2>5, <2>6
<1>9. QED
  BY <1>7, <1>8

\* The domain behind create_reference.
LEMMA ReferenceDomain ==
  ASSUME NEW m, NEW R, Sound(m, R), NEW n \in DOMAIN m.heap, CreateReference(m, n).item # NoNode
  PROVE  LET q == CreateReference(m, n)
         IN  DOMAIN q.heap = DOMAIN m.heap \cup {q.item}
<1> DEFINE type == m.heap[n].type
           new == NewItem(m, type)
           q == CreateReference(m, n)
<1>1. type \in Type
  BY MemoryFields DEF Sound, Counted, Item
<1>2. new.item # NoNode
  BY DEF CreateReference
<1> HIDE DEF type
<1>3. new \in Memories /\ DOMAIN new.heap = DOMAIN m.heap \cup {new.item}
  BY <1>1, <1>2, NewItemFields
<1>4. q.item = new.item /\ DOMAIN q.heap = DOMAIN new.heap
  <2> HIDE DEF new
  <2>1. QED
    BY <1>2, <1>3 DEF CreateReference, Memories, new, type
<1>5. QED
  BY <1>3, <1>4

\* A reference added to an object; one whose name cannot be copied is nobody's any more.
LEMMA CallAddReferenceToObjectKeeps ==
  ASSUME Invariant, NEW m, Finds(m), CallAddReferenceToObject(m)
  PROVE  Invariant'
<1> DEFINE R == roots \cup lost
<1>1. /\ Sound(m, R) /\ m.heap = heap /\ R \in SUBSET DOMAIN m.heap
      /\ \A a \in Container : a \in DOMAIN heap /\ ~heap[a].ref
      /\ Object \subseteq Container /\ Live \in SUBSET DOMAIN heap /\ NoNode \in Pointers(Node)
      /\ roots \in SUBSET DOMAIN heap /\ lost \in SUBSET DOMAIN heap /\ roots \cap lost = {}
  BY WhatIsFound
<1>2. PICK o \in Object, n \in Live, k \in Key :
        LET new == CreateReference(m, n)
            added == AddToObject(new, o, k, new.item, FALSE)
        IN  /\ Becomes(added, roots)
            /\ lost' = lost \cup (Returned(new) \ Returned(added))
  BY DEF CallAddReferenceToObject
<1> DEFINE new == CreateReference(m, n)
           c == new.item
           added == AddToObject(new, o, k, c, FALSE)
<1>3. n \in DOMAIN m.heap /\ o \in DOMAIN m.heap /\ ~m.heap[o].ref
  BY <1>1
<1>4. Gave(new, m, R)
  BY <1>1, <1>3, CreateReferenceGives
<1>5. Becomes(added, roots) /\ lost' = lost \cup (Returned(new) \ Returned(added))
  BY <1>2
<1>6. c # NoNode => DOMAIN new.heap = DOMAIN m.heap \cup {c}
  BY <1>1, <1>3, ReferenceDomain
<1> HIDE DEF new
<1>7. CASE c = NoNode
  <2>1. added = ReturningNull(new)
    BY <1>7 DEF AddToObject
  <2> HIDE DEF added
  <2>2. Sound(added, R) /\ added.item = NoNode
    BY <1>1, <1>4, <1>7, <2>1, ReturningKeeps DEF Gave, ReturningNull
  <2>3. lost' = lost
    BY <1>5, <1>7 DEF Returned
  <2>4. QED
    BY <1>5, <2>2, <2>3, OwnsTheSame
<1>8. CASE c # NoNode
  <2>1. Keeps(new.heap, m.heap) /\ Sound(new, R \cup {c}) /\ c \notin DOMAIN m.heap
    BY <1>4, <1>8 DEF Gave
  <2> HIDE DEF c
  <2>2. o \in DOMAIN new.heap /\ ~new.heap[o].ref /\ c \in (R \cup {c}) \cup {NoNode}
        /\ (R \cup {c}) \ {c} = R
    BY <1>1, <1>3, <2>1 DEF Keeps
  <2> DEFINE S == R \cup {c}
  <2>3. Sound(new, S) /\ c \in S \cup {NoNode} /\ S \ {c} = R
    BY <2>1, <2>2
  <2> HIDE DEF S
  <2>4. Took(AddToObject(new, o, k, c, FALSE), new, c, S)
    <3>1. FALSE \in {TRUE, FALSE}
      OBVIOUS
    <3>2. QED
      BY <2>2, <2>3, <3>1, AddedToObject
  <2>5. Returned(new) = {c}
    BY <1>8 DEF Returned, c
  <2>6. CASE added.item # NoNode
    <3>1. added.item = c /\ Sound(added, R)
      BY <2>3, <2>4, <2>6 DEF Took
    <3> HIDE DEF added
    <3>2. lost' = lost
      BY <1>5, <1>8, <2>5, <3>1 DEF Returned
    <3>3. QED
      BY <1>5, <3>1, <3>2, OwnsTheSame
  <2>7. CASE added.item = NoNode
    <3>1. Sound(added, S) /\ added.heap = new.heap
      BY <2>4, <2>7 DEF Took
    <3> HIDE DEF added
    <3>2. lost' = lost \cup {c} /\ roots' = roots /\ heap' = new.heap /\ strings' = added.strings
          /\ RulesKept(new.heap)
      BY <1>5, <2>5, <2>7, <3>1 DEF Returned, Becomes
    <3>3. S = roots' \cup lost' /\ roots' \cap lost' = {}
      BY <1>1, <2>1, <3>2 DEF S
    <3>4. Sound(Memory(0), roots \cup lost)'
      <4> DEFINE q == [heap |-> added.heap, strings |-> added.strings, fuel |-> 0, item |-> NoNode]
      <4>1. Memory(0)' = q
        BY <3>1, <3>2 DEF Memory
      <4> HIDE DEF q
      <4>2. Sound(q, S)
        BY <3>1, SoundIsOfHeap DEF q
      <4>3. QED
        BY <3>3, <4>1, <4>2
    <3>5. RulesKept(heap)'
      <4>1. \A x \in DOMAIN heap' : x \notin Following(heap', x)
        BY <3>2 DEF RulesKept
      <4>2. ASSUME NEW x \in DOMAIN heap' \ lost', heap'[x].ref
            PROVE  {heap'[x].child, heap'[x].lender} \ {NoNode} \subseteq DOMAIN heap' \ lost'
        <5>1. x \in DOMAIN heap \ lost /\ heap'[x] = heap[x] /\ DOMAIN heap \subseteq DOMAIN heap'
          BY <1>1, <1>6, <1>8, <2>1, <3>2, <4>2 DEF Keeps, c
        <5>2. {heap[x].child, heap[x].lender} \ {NoNode} \subseteq DOMAIN heap \ lost
          <6>1. RulesKept(heap)
            BY DEF Invariant
          <6>2. heap[x].ref
            BY <4>2, <5>1
          <6>3. QED
            BY <5>1, <6>1, <6>2 DEF RulesKept
        <5>3. QED
          BY <1>1, <2>1, <3>2, <5>1, <5>2
      <4>3. QED
        BY <4>1, <4>2 DEF RulesKept
    <3>6. QED
      BY <3>3, <3>4, <3>5 DEF Invariant
  <2>8. QED
    BY <2>6, <2>7
<1>9. QED
  BY <1>7, <1>8

\* An item that stands where it was found stands in front of another.
LEMMA FoundStands ==
  ASSUME Invariant, NEW m, Finds(m), NEW a \in Container
  PROVE  /\ \A n \in Found(a) : n \in ToSet(Children(heap, a))
         /\ \A i \in Nat : ItemAt(heap, a, i) # NoNode => ItemAt(heap, a, i) \in ToSet(Children(heap, a))
         /\ \A k \in Key, s \in BOOLEAN :
              ObjectItem(heap, a, k, s) # NoNode => ObjectItem(heap, a, k, s) \in ToSet(Children(heap, a))
<1>1. Tree(heap, DOMAIN heap, roots \cup lost) /\ a \in DOMAIN heap /\ ~heap[a].ref
  BY WhatIsFound
<1>2. \A i \in Nat : ItemAt(heap, a, i) # NoNode => ItemAt(heap, a, i) \in ToSet(Children(heap, a))
  BY <1>1, FoundIsChild
<1>3. \A k \in Key, s \in BOOLEAN :
        ObjectItem(heap, a, k, s) # NoNode => ObjectItem(heap, a, k, s) \in ToSet(Children(heap, a))
  BY <1>1, FoundIsChild
<1>4. Len(Children(heap, a)) \in Nat
  BY <1>1, ChildrenStand
<1>5. QED
  BY <1>2, <1>3, <1>4 DEF Found

\* Nothing follows itself.
LEMMA NextIsAnother ==
  ASSUME Invariant, NEW m, Finds(m), NEW n \in DOMAIN heap
  PROVE  heap[n].next # n
<1> DEFINE succ == [x \in DOMAIN heap |-> {heap[x].next, heap[x].child} \cap DOMAIN heap]
           S == {heap[n].child, heap[n].next} \cap DOMAIN heap
<1>1. n \notin Following(heap, n)
  BY DEF Invariant, RulesKept
<1>2. Following(heap, n) = Closure(succ, S)
  BY DEF Following, Reach
<1>3. IsFiniteSet(DOMAIN heap)
  BY WhatIsFound, HeapAssumption, FS_Subset
<1>4. succ \in [DOMAIN heap -> SUBSET DOMAIN heap] /\ S \in SUBSET DOMAIN heap
  OBVIOUS
<1> HIDE DEF succ
<1>5. S \subseteq Closure(succ, S)
  BY <1>3, <1>4, ClosureIsLeast
<1>6. QED
  BY <1>1, <1>2, <1>5

\* An item taken out of its container.
LEMMA CallDetachKeeps ==
  ASSUME Invariant, NEW m, Finds(m), CallDetach(m)
  PROVE  Invariant'
<1> DEFINE R == roots \cup lost
<1>1. /\ Sound(m, R) /\ m.heap = heap /\ R \in SUBSET DOMAIN m.heap
      /\ \A a \in Container : a \in DOMAIN heap /\ ~heap[a].ref
      /\ DOMAIN heap \in SUBSET Node /\ NoNode \notin DOMAIN heap
  BY WhatIsFound
<1>2. PICK a \in Container : \E n \in Found(a) :
        Gives(Returning([m EXCEPT !.heap = Detached(@, a, n)], n))
  BY DEF CallDetach
<1>3. PICK n \in Found(a) : Gives(Returning([m EXCEPT !.heap = Detached(@, a, n)], n))
  BY <1>2
<1> DEFINE q == [m EXCEPT !.heap = Detached(m.heap, a, n)]
<1>4. n \in ToSet(Children(m.heap, a)) /\ a \in DOMAIN m.heap /\ ~m.heap[a].ref
  BY <1>1, FoundStands
<1>5. Sound(q, R \cup {n}) /\ n \in DOMAIN m.heap \ R
  BY <1>1, <1>4, DetachedIsSound
<1>6. Gives(Returning(q, n))
  BY <1>3
<1> HIDE DEF q
<1>7. n \in Pointers(Node) /\ n # NoNode
  BY <1>1, <1>5 DEF Pointers
<1>8. Sound(Returning(q, n), R \cup {n}) /\ Returning(q, n).item = n
  BY <1>5, <1>7, ReturningKeeps
<1>9. Given(Returning(q, n), R)
  BY <1>5, <1>7, <1>8 DEF Given, Returned
<1>10. QED
  BY <1>6, <1>9, GivesKeeps

\* An item taken out of its container and deleted.
LEMMA CallDeleteItemKeeps ==
  ASSUME Invariant, NEW m, Finds(m), CallDeleteItem(m)
  PROVE  Invariant'
<1> DEFINE R == roots \cup lost
<1>1. /\ Sound(m, R) /\ m.heap = heap /\ R \in SUBSET DOMAIN m.heap /\ m.item = NoNode
      /\ \A a \in Container : a \in DOMAIN heap /\ ~heap[a].ref
      /\ NoNode \notin DOMAIN heap /\ m \in Memories
  BY WhatIsFound, SoundIsMemory
<1>2. PICK a \in Container : \E n \in Found(a) :
        Gives(Delete([m EXCEPT !.heap = Detached(@, a, n)], {n}))
  BY DEF CallDeleteItem
<1>3. PICK n \in Found(a) : Gives(Delete([m EXCEPT !.heap = Detached(@, a, n)], {n}))
  BY <1>2
<1> DEFINE q == [m EXCEPT !.heap = Detached(m.heap, a, n)]
<1>4. n \in ToSet(Children(m.heap, a)) /\ a \in DOMAIN m.heap /\ ~m.heap[a].ref
  BY <1>1, FoundStands
<1>5. Sound(q, R \cup {n}) /\ n \in DOMAIN m.heap \ R
  BY <1>1, <1>4, DetachedIsSound
<1>6. Gives(Delete(q, {n})) /\ q.item = NoNode
  BY <1>1, <1>3 DEF Memories
<1> HIDE DEF q
<1>7. {n} \ {NoNode} \in SUBSET (R \cup {n}) /\ (R \cup {n}) \ {n} = R
  BY <1>5
<1>8. Sound(Delete(q, {n}), (R \cup {n}) \ {n}) /\ Delete(q, {n}).item = q.item
  BY <1>5, <1>7, DeleteIsSound DEF Sound
<1>9. Given(Delete(q, {n}), R)
  BY <1>1, <1>6, <1>7, <1>8 DEF Given, Returned
<1>10. QED
  BY <1>6, <1>9, GivesKeeps

\* An item of the caller's deleted.
LEMMA CallDeleteKeeps ==
  ASSUME Invariant, NEW m, Finds(m), CallDelete(m)
  PROVE  Invariant'
<1> DEFINE R == roots \cup lost
<1>1. /\ Sound(m, R) /\ roots \cap lost = {} /\ roots \in SUBSET DOMAIN heap
      /\ NoNode \notin DOMAIN heap
  BY WhatIsFound
<1>2. PICK n \in roots : Becomes(Delete(m, {n}), roots \ {n}) /\ UNCHANGED lost
  BY DEF CallDelete
<1>3. {n} \ {NoNode} \in SUBSET R /\ R \ {n} = (roots \ {n}) \cup lost /\ (roots \ {n}) \cap lost = {}
  BY <1>1
<1>4. Sound(Delete(m, {n}), R \ {n})
  BY <1>1, <1>3, DeleteIsSound DEF Sound
<1>5. QED
  BY <1>2, <1>3, <1>4, BecomesKeeps

\* An item of the caller's put in front of what was found, or behind all.
LEMMA CallInsertKeeps ==
  ASSUME Invariant, NEW m, Finds(m), CallInsert(m)
  PROVE  Invariant'
<1> DEFINE R == roots \cup lost
<1>1. /\ Sound(m, R) /\ m.heap = heap /\ roots \in SUBSET DOMAIN heap
      /\ \A a \in Container : a \in DOMAIN heap /\ ~heap[a].ref
      /\ Array \subseteq Container /\ DOMAIN heap \in SUBSET Node /\ NoNode \notin DOMAIN heap
  BY WhatIsFound
<1>2. PICK a \in Array, n \in roots : \E i \in 0 .. Len(Children(heap, a)) :
        LET after == ItemAt(heap, a, i)
        IN  Takes(Returning(IF after = NoNode THEN AddToArray(m, a, n)
                            ELSE [m EXCEPT !.heap = Inserted(@, a, after, n)], n))
  BY DEF CallInsert
<1>3. PICK i \in 0 .. Len(Children(heap, a)) :
        LET after == ItemAt(heap, a, i)
        IN  Takes(Returning(IF after = NoNode THEN AddToArray(m, a, n)
                            ELSE [m EXCEPT !.heap = Inserted(@, a, after, n)], n))
  BY <1>2
<1> DEFINE after == ItemAt(heap, a, i)
<1>4. /\ a \in DOMAIN m.heap /\ ~m.heap[a].ref /\ n \in R /\ n \in Pointers(Node) /\ n # NoNode
      /\ n \in roots
  BY <1>1 DEF Pointers
<1>5. ASSUME NEW q, Sound(q, R \ {n}), Takes(Returning(q, n))
      PROVE  Invariant'
  <2>1. Sound(Returning(q, n), R \ {n}) /\ Returning(q, n).item = n
    BY <1>4, <1>5, ReturningKeeps
  <2>2. QED
    BY <1>4, <1>5, <2>1, TakesKeeps
<1>6. CASE after = NoNode
  <2>1. Takes(Returning(AddToArray(m, a, n), n))
    BY <1>3, <1>6
  <2>2. Appended(AddToArray(m, a, n), m, n, R)
    BY <1>1, <1>4, AddedToArray
  <2>3. Sound(AddToArray(m, a, n), R \ {n})
    BY <2>2 DEF Appended
  <2>4. QED
    BY <1>5, <2>1, <2>3
<1>7. CASE after # NoNode
  <2> DEFINE q == [m EXCEPT !.heap = Inserted(m.heap, a, after, n)]
  <2>1. Takes(Returning(q, n))
    BY <1>3, <1>7
  <2>2. after \in ToSet(Children(m.heap, a))
    <3>1. i \in Nat
      OBVIOUS
    <3>2. QED
      BY <1>1, <1>7, <3>1, FoundStands
  <2>3. Sound(q, R \ {n})
    BY <1>1, <1>4, <2>2, InsertedIsSound
  <2> HIDE DEF q
  <2>4. QED
    BY <1>5, <2>1, <2>3
<1>8. QED
  BY <1>6, <1>7

\* A child of a container can be replaced.
LEMMA ReplaceableStands ==
  ASSUME Invariant, NEW m, Finds(m), NEW a \in Container, NEW n,
         n # NoNode => n \in ToSet(Children(heap, a))
  PROVE  n # NoNode => n \in DOMAIN heap \ (roots \cup lost) /\ heap[n].next # n
                       /\ (heap[n].prev = NoNode => heap[a].child = n)
<1> SUFFICES ASSUME n # NoNode
             PROVE  n \in DOMAIN heap \ (roots \cup lost) /\ heap[n].next # n
                    /\ (heap[n].prev = NoNode => heap[a].child = n)
  OBVIOUS
<1>1. Tree(heap, DOMAIN heap, roots \cup lost) /\ a \in DOMAIN heap /\ ~heap[a].ref
  BY WhatIsFound
<1>2. n \in DOMAIN heap \ (roots \cup lost) /\ (heap[n].prev = NoNode => heap[a].child = n)
  BY <1>1, ChildStands
<1>3. heap[n].next # n
  BY <1>2, NextIsAnother
<1>4. QED
  BY <1>2, <1>3

\* What a replacement leaves keeps the invariant.
LEMMA ReplaceKeeps ==
  ASSUME Invariant, NEW m, NEW a, NEW n, NEW r \in roots, Takes(Replace(m, a, n, r)),
         Sound(m, roots \cup lost), a \in DOMAIN m.heap, ~m.heap[a].ref,
         n # NoNode => n \in DOMAIN m.heap \ (roots \cup lost) /\ m.heap[n].next # n
                       /\ (m.heap[n].prev = NoNode => m.heap[a].child = n)
  PROVE  Invariant'
<1> DEFINE R == roots \cup lost
           q == Replace(m, a, n, r)
<1>1. r \in R
  OBVIOUS
<1>2. /\ q.item = NoNode => Sound(q, R)
      /\ q.item # NoNode => q.item = r /\ Sound(q, R \ {r})
  BY <1>1, ReplaceIsSound
<1> HIDE DEF q
<1>3. QED
  BY <1>2, TakesKeeps DEF q

\* A child replaced by its place.
LEMMA CallReplaceInArrayKeeps ==
  ASSUME Invariant, NEW m, Finds(m), CallReplaceInArray(m)
  PROVE  Invariant'
<1>1. /\ Sound(m, roots \cup lost) /\ m.heap = heap
      /\ \A a \in Container : a \in DOMAIN heap /\ ~heap[a].ref
      /\ Array \subseteq Container
  BY WhatIsFound
<1>2. PICK a \in Array, r \in roots : \E i \in 0 .. Len(Children(heap, a)) :
        Takes(Replace(m, a, ItemAt(heap, a, i), r))
  BY DEF CallReplaceInArray
<1>3. PICK i \in 0 .. Len(Children(heap, a)) : Takes(Replace(m, a, ItemAt(heap, a, i), r))
  BY <1>2
<1> DEFINE n == ItemAt(heap, a, i)
<1>4. Takes(Replace(m, a, n, r)) /\ a \in Container
  BY <1>1, <1>3
<1>5. n # NoNode => n \in ToSet(Children(heap, a))
  <2>1. i \in Nat
    OBVIOUS
  <2>2. QED
    BY <1>4, <2>1, FoundStands
<1> HIDE DEF n
<1>6. n # NoNode => n \in DOMAIN heap \ (roots \cup lost) /\ heap[n].next # n
                    /\ (heap[n].prev = NoNode => heap[a].child = n)
  BY <1>4, <1>5, ReplaceableStands
<1>7. QED
  BY <1>1, <1>4, <1>6, ReplaceKeeps

\* A child replaced by its name: the replacement has the name first.
LEMMA CallReplaceInObjectKeeps ==
  ASSUME Invariant, NEW m, Finds(m), CallReplaceInObject(m)
  PROVE  Invariant'
<1>1. /\ Sound(m, roots \cup lost) /\ m.heap = heap
      /\ \A a \in Container : a \in DOMAIN heap /\ ~heap[a].ref
      /\ Object \subseteq Container
  BY WhatIsFound
<1>2. PICK o \in Object, r \in roots, k \in Key, s \in BOOLEAN :
        Takes(Replace(Renamed(m, r, k), o, ObjectItem(heap, o, k, s), r))
  BY DEF CallReplaceInObject
<1> DEFINE n == ObjectItem(heap, o, k, s)
           q == Renamed(m, r, k)
<1>3. Takes(Replace(q, o, n, r)) /\ o \in Container
  BY <1>1, <1>2
<1>4. n # NoNode => n \in ToSet(Children(heap, o))
  BY <1>3, FoundStands
<1>5. /\ Sound(q, roots \cup lost) /\ DOMAIN q.heap = DOMAIN m.heap
      /\ \A x \in DOMAIN m.heap :
           /\ q.heap[x].next = m.heap[x].next /\ q.heap[x].prev = m.heap[x].prev
           /\ q.heap[x].child = m.heap[x].child /\ q.heap[x].ref = m.heap[x].ref
  <2>1. r \in roots \cup lost
    OBVIOUS
  <2>2. QED
    BY <1>1, <2>1, RenamedIsSound
<1> HIDE DEF n, q
<1>6. n # NoNode => n \in DOMAIN heap \ (roots \cup lost) /\ heap[n].next # n
                    /\ (heap[n].prev = NoNode => heap[o].child = n)
  BY <1>3, <1>4, ReplaceableStands
<1>7. /\ o \in DOMAIN q.heap /\ ~q.heap[o].ref
      /\ n # NoNode => n \in DOMAIN q.heap \ (roots \cup lost) /\ q.heap[n].next # n
                       /\ (q.heap[n].prev = NoNode => q.heap[o].child = n)
  BY <1>1, <1>3, <1>5, <1>6
<1>8. QED
  BY <1>3, <1>5, <1>7, ReplaceKeeps

\* What can be copied leads to what can be copied.
LEMMA LiveIsReadable ==
  ASSUME Invariant, NEW m, Finds(m)
  PROVE  Readable(heap, Live)
<1> DEFINE D == DOMAIN heap
           R == roots \cup lost
<1>1. Tree(heap, D, R) /\ Live \in SUBSET D /\ NoNode \notin D
  BY WhatIsFound
<1>2. ASSUME NEW x \in Live
      PROVE  heap[x].next \in Pointers(Live) /\ heap[x].child \in Pointers(Live)
  <2>1. x \in D
    BY <1>1
  <2>2. heap[x].next \in Pointers(Live)
    <3>1. CASE heap[x].next = NoNode
      BY <3>1 DEF Pointers
    <3>2. CASE heap[x].next # NoNode
      <4> DEFINE s == heap[x].next
      <4>1. s \in D /\ heap[s].prev = x
        BY <1>1, <2>1, <3>2 DEF Tree, Linked, NeighboursAgree
      <4>2. s \notin lost
        BY <1>1, <2>1, <4>1 DEF Tree, IsFree
      <4>3. QED
        BY <4>1, <4>2 DEF Live, Pointers
    <3>3. QED
      BY <3>1, <3>2
  <2>3. heap[x].child \in Pointers(Live)
    <3>1. CASE heap[x].child = NoNode
      BY <3>1 DEF Pointers
    <3>2. CASE heap[x].child # NoNode /\ ~heap[x].ref
      <4> DEFINE c == heap[x].child
      <4>1. c \in D
        BY <1>1, <2>1, <3>2 DEF Tree, Linked, HeadsAreFirst
      <4>2. c \notin lost
        BY <1>1, <2>1, <3>2, <4>1 DEF Tree, IsFree
      <4>3. QED
        BY <4>1, <4>2 DEF Live, Pointers
    <3>3. CASE heap[x].child # NoNode /\ heap[x].ref
      BY <3>3 DEF Invariant, RulesKept, Live, Pointers
    <3>4. QED
      BY <3>1, <3>2, <3>3
  <2>4. QED
    BY <2>2, <2>3
<1>3. QED
  BY <1>1, <1>2 DEF Readable

\* Copies.
LEMMA CallDuplicateKeeps ==
  ASSUME Invariant, NEW m, Finds(m), CallDuplicate(m)
  PROVE  Invariant'
<1>1. PICK n \in Live, recurse \in BOOLEAN : Gives(Duplicate(m, n, recurse))
  BY DEF CallDuplicate
<1>2. Sound(m, roots \cup lost) /\ Readable(m.heap, Live)
  BY WhatIsFound, LiveIsReadable
<1>3. Given(Duplicate(m, n, recurse), roots \cup lost)
  BY <1>2, DuplicateIsGiven
<1>4. QED
  BY <1>1, <1>3, GivesKeeps

-----------------------------------------------------------------------------
(* Every history *)

\* Nothing is allocated at first.
LEMMA InitEstablishes ==
  ASSUME Init
  PROVE  Invariant /\ calls \in Nat
<1>1. heap = <<>> /\ strings = 0 /\ roots = {} /\ lost = {} /\ DOMAIN heap = {} /\ calls = 0
  BY DEF Init
<1>2. heap \in [{} -> Item] /\ {} \in SUBSET Node
  BY <1>1
<1>3. Memory(0) \in Memories /\ Memory(0).heap = heap /\ Memory(0).strings = 0
  <2>1. heap \in Heaps
    BY <1>2 DEF Heaps
  <2>2. QED
    BY <1>1, <2>1 DEF Memory, Memories, Pointers
<1>4. Tree(heap, {}, {})
  BY <1>1, <1>2 DEF Tree, Linked, NeighboursAgree, HeadsAreFirst, HeadsAreOwnedOnce
<1>5. Cardinality(Blocks(heap, {})) = 0
  <2>1. Blocks(heap, {}) = {}
    BY DEF Blocks
  <2>2. QED
    BY <2>1, FS_EmptySet
<1>6. roots \cup lost = {} /\ DOMAIN Memory(0).heap = {}
  BY <1>1, <1>3
<1>7. Sound(Memory(0), roots \cup lost)
  BY <1>1, <1>3, <1>4, <1>5, <1>6 DEF Sound, Counted
<1>8. RulesKept(heap)
  BY <1>1 DEF RulesKept
<1>9. QED
  BY <1>1, <1>7, <1>8 DEF Invariant

\* Every call keeps the invariant.
LEMMA NextKeeps ==
  ASSUME Invariant, calls \in Nat, Next
  PROVE  Invariant' /\ calls' \in Nat
<1>1. calls' \in Nat
  BY DEF Next
<1>2. ASSUME NEW fuel \in Fuel, Allocating(Memory(fuel))
      PROVE  Invariant'
  <2>1. fuel \in Nat
    BY TreeAssumption
  <2> DEFINE m == Memory(fuel)
  <2>2. Finds(m)
    BY <2>1, FoundMemory
  <2>3. Allocating(m)
    BY <1>2
  <2> HIDE DEF m
  <2>4. QED
    BY <2>2, <2>3, CallCreateKeeps, CallDuplicateKeeps, CallAddItemKeeps, CallAddNewToObjectKeeps,
       CallAddReferenceToArrayKeeps, CallAddReferenceToObjectKeeps, CallReplaceInObjectKeeps
       DEF Allocating
<1>3. ASSUME Linking(Memory(0))
      PROVE  Invariant'
  <2> DEFINE m == Memory(0)
  <2>1. Finds(m)
    BY FoundMemory
  <2>2. Linking(m)
    BY <1>3
  <2> HIDE DEF m
  <2>3. QED
    BY <2>1, <2>2, CallDeleteKeeps, CallAddItemKeeps, CallDetachKeeps, CallDeleteItemKeeps,
       CallInsertKeeps, CallReplaceInArrayKeeps DEF Linking
<1>4. QED
  BY <1>1, <1>2, <1>3 DEF Next

\* The inductive invariant holds after every history of calls, failures of malloc inside
\* any of them included (cJSON.c:212-2629).
THEOREM TreeInvariant == Spec => [](Invariant /\ calls \in Nat)
<1>1. Init => Invariant /\ calls \in Nat
  BY InitEstablishes
<1>2. (Invariant /\ calls \in Nat) /\ [Next]_vars => (Invariant /\ calls \in Nat)'
  <2> SUFFICES ASSUME Invariant, calls \in Nat, [Next]_vars
               PROVE  Invariant' /\ calls' \in Nat
    OBVIOUS
  <2>1. CASE Next
    BY <2>1, NextKeeps
  <2>2. CASE UNCHANGED vars
    <3>1. /\ heap' = heap /\ strings' = strings /\ roots' = roots /\ lost' = lost /\ calls' = calls
      BY <2>2 DEF vars
    <3>2. Memory(0)' = Memory(0) /\ RulesKept(heap)' = RulesKept(heap)
      BY <3>1 DEF Memory, RulesKept
    <3>3. QED
      BY <3>1, <3>2 DEF Invariant
  <2>3. QED
    BY <2>1, <2>2
<1>3. QED
  BY <1>1, <1>2, PTL DEF Spec

\* Every list can be walked both ways after every history of calls.
THEOREM ListsStayLinked == Spec => []HeapIsSound
<1>1. Invariant /\ calls \in Nat => HeapIsSound
  <2> SUFFICES ASSUME Invariant, calls \in Nat
               PROVE  HeapIsSound
    OBVIOUS
  <2>1. Finds(Memory(0))
    <3>1. 0 \in Nat
      OBVIOUS
    <3>2. QED
      BY <3>1, FoundMemory
  <2>2. /\ Tree(heap, DOMAIN heap, roots \cup lost) /\ DOMAIN heap \in SUBSET Node
        /\ roots \in SUBSET DOMAIN heap /\ lost \in SUBSET DOMAIN heap
        /\ Sound(Memory(0), roots \cup lost)
    BY <2>1, WhatIsFound DEF Finds
  <2>3. strings \in Nat
    <3>1. strings = Cardinality(Blocks(heap, DOMAIN heap))
      BY <2>2 DEF Sound, Counted, Memory
    <3>2. QED
      BY <2>2, <3>1, BlocksAreFinite
  <2>4. TypeOK
    BY <2>2, <2>3 DEF TypeOK, Tree
  <2>5. ListsAreLinked
    BY <2>2 DEF ListsAreLinked, Tree, IsFree
  <2>6. QED
    BY <2>4, <2>5 DEF HeapIsSound
<1>2. QED
  BY <1>1, TreeInvariant, PTL

-----------------------------------------------------------------------------
(* Who owns what *)

\* The containers that own their children and have an item among them.
Owners(h, n) == {a \in DOMAIN h : ~h[a].ref /\ n \in ToSet(Children(h, a))}

\* What can be reached from an item over its child and its next.
LEMMA FollowingReaches ==
  ASSUME NEW D \in SUBSET Node, NEW h, DOMAIN h = D, NEW p \in D, NEW n \in D, h[p].next = n
  PROVE  n \in Following(h, p) /\ Following(h, n) \subseteq Following(h, p)
<1> DEFINE succ == [x \in D |-> {h[x].next, h[x].child} \cap D]
           P == {h[p].child, h[p].next} \cap D
           N == {h[n].child, h[n].next} \cap D
<1>1. Following(h, p) = Closure(succ, P) /\ Following(h, n) = Closure(succ, N)
  BY DEF Following, Reach
<1>2. IsFiniteSet(D)
  BY HeapAssumption, FS_Subset
<1>3. succ \in [D -> SUBSET D] /\ P \in SUBSET D /\ N \in SUBSET D /\ n \in P /\ succ[n] = N
  OBVIOUS
<1> HIDE DEF succ, P, N
<1>4. P \subseteq Closure(succ, P) /\ IsClosed(succ, Closure(succ, P)) /\ Closure(succ, P) \in SUBSET D
  BY <1>2, <1>3, ClosureIsLeast
<1>5. \A T \in SUBSET D : N \subseteq T /\ IsClosed(succ, T) => Closure(succ, N) \subseteq T
  BY <1>2, <1>3, ClosureIsLeast
<1>6. n \in Closure(succ, P) /\ N \subseteq Closure(succ, P)
  BY <1>3, <1>4 DEF IsClosed
<1>7. Closure(succ, N) \subseteq Closure(succ, P)
  BY <1>4, <1>5, <1>6
<1>8. QED
  BY <1>1, <1>6, <1>7

\* When nothing follows itself, what stands in a list stands in one of a container.
LEMMA HasOwner ==
  ASSUME NEW D, NEW R, NEW h, Tree(h, D, R), \A n \in D : n \notin Following(h, n),
         NEW x \in D \ R
  PROVE  Owners(h, x) # {}
<1> SUFFICES ASSUME Owners(h, x) = {}
             PROVE  FALSE
  OBVIOUS
<1> DEFINE Bad == {y \in D \ R : Owners(h, y) = {}}
           prev == [y \in Bad |-> h[y].prev]
           Ahead == {y \in Bad : x \in Following(h, y)}
<1>1. D \in SUBSET Node /\ DOMAIN h = D /\ NoNode \notin D
  BY TreePointers
<1>2. ASSUME NEW y \in Bad
      PROVE  h[y].prev \in Bad /\ h[h[y].prev].next = y
  <2> DEFINE p == h[y].prev
  <2>1. p # NoNode
    <3>1. SUFFICES ASSUME p = NoNode
                   PROVE  FALSE
      OBVIOUS
    <3>2. PICK a \in D : ~h[a].ref /\ h[a].child = y
      BY <1>1, <1>2, <3>1 DEF Tree, IsHeld
    <3>3. LET c == Children(h, a) IN 1 \in 1 .. Len(c) /\ c[1] = y
      BY <1>1, <1>2, <3>2, ChildrenStand
    <3>4. y \in ToSet(Children(h, a))
      BY <3>3 DEF ToSet
    <3>5. a \in Owners(h, y)
      BY <1>1, <3>2, <3>4 DEF Owners
    <3>6. QED
      BY <1>2, <3>5
  <2>2. p \in D /\ h[p].next = y
    BY <1>1, <1>2, <2>1 DEF Tree, Linked, NeighboursAgree
  <2>3. p \notin R
    BY <1>1, <1>2, <2>2 DEF Tree, IsFree
  <2>4. ASSUME NEW a \in Owners(h, p)
        PROVE  FALSE
    <3> DEFINE c == Children(h, a)
    <3>1. a \in D /\ ~h[a].ref /\ p \in ToSet(c)
      BY <1>1 DEF Owners
    <3>2. /\ Len(c) \in Nat
          /\ c # <<>> => h[c[Len(c)]].next = NoNode
          /\ \A i \in 1 .. Len(c) : i < Len(c) => h[c[i]].next = c[i + 1]
      BY <3>1, ChildrenStand
    <3> HIDE DEF c
    <3>3. PICK i \in DOMAIN c : c[i] = p
      BY <3>1 DEF ToSet
    <3>4. c \in Seq(D)
      BY <3>1, ChildrenStand DEF c
    <3>5. i \in 1 .. Len(c) /\ c # <<>>
      BY <3>2, <3>3, <3>4
    <3>6. i < Len(c)
      BY <1>1, <1>2, <2>2, <3>2, <3>3, <3>5
    <3>7. i + 1 \in DOMAIN c /\ c[i + 1] = y
      BY <2>2, <3>2, <3>3, <3>4, <3>5, <3>6
    <3>8. y \in ToSet(c)
      BY <3>7 DEF ToSet
    <3>9. a \in Owners(h, y)
      BY <1>1, <3>1, <3>8 DEF Owners, c
    <3>10. QED
      BY <1>2, <3>9
  <2>5. QED
    BY <2>2, <2>3, <2>4
<1>3. x \in Bad /\ x \notin Following(h, x) /\ x \notin Ahead
  OBVIOUS
<1>4. ASSUME NEW y \in Ahead \cup {x}
      PROVE  prev[y] \in Ahead
  <2>1. y \in Bad /\ y \in D
    BY <1>3
  <2>2. prev[y] \in Bad /\ h[prev[y]].next = y
    BY <1>2, <2>1
  <2>3. y \in Following(h, prev[y]) /\ Following(h, y) \subseteq Following(h, prev[y])
    <3> DEFINE p == prev[y]
    <3>1. p \in D /\ h[p].next = y
      BY <2>2
    <3> HIDE DEF p
    <3>2. y \in Following(h, p) /\ Following(h, y) \subseteq Following(h, p)
      BY <1>1, <2>1, <3>1, FollowingReaches
    <3>3. QED
      BY <3>2 DEF p
  <2>4. QED
    BY <2>2, <2>3
<1>5. ASSUME NEW y \in Ahead \cup {x}, NEW z \in Ahead \cup {x}, prev[y] = prev[z]
      PROVE  y = z
  BY <1>2, <1>3, <1>5
<1>6. IsFiniteSet(Ahead)
  BY <1>1, HeapAssumption, FS_Subset
<1> DEFINE S == Ahead \cup {x}
           f == [y \in S |-> prev[y]]
<1> HIDE DEF Ahead, prev, Bad
<1>7. IsFiniteSet(S) /\ Cardinality(S) = Cardinality(Ahead) + 1 /\ Cardinality(Ahead) \in Nat
  BY <1>3, <1>6, FS_AddElement, FS_CardinalityType
<1>8. f \in [S -> Ahead]
  BY <1>4
<1>9. Cardinality(Ahead) < Cardinality(S)
  <2>1. \A k \in Nat : k < k + 1
    OBVIOUS
  <2>2. QED
    BY <1>7, <2>1
<1>10. \A y, z \in S : f[y] = f[z] => y = z
  BY <1>5
<1> HIDE DEF f, S
<1>11. QED
  BY <1>6, <1>7, <1>8, <1>9, <1>10, FS_PigeonHole

\* Exactly one.
LEMMA HasOneOwner ==
  ASSUME NEW D, NEW R, NEW h, Tree(h, D, R), \A n \in D : n \notin Following(h, n),
         NEW x \in D
  PROVE  Cardinality(Owners(h, x)) = IF x \in R THEN 0 ELSE 1
<1>1. D \in SUBSET Node /\ DOMAIN h = D
  BY TreePointers
<1>2. CASE x \in R
  <2>1. Owners(h, x) = {}
    BY <1>1, <1>2, ChildStands DEF Owners
  <2>2. QED
    BY <1>2, <2>1, FS_EmptySet
<1>3. CASE x \notin R
  <2>1. PICK a \in Owners(h, x) : TRUE
    BY <1>3, HasOwner
  <2>2. ASSUME NEW b \in Owners(h, x)
        PROVE  b = a
    <3> DEFINE c == Children(h, a)
               d == Children(h, b)
    <3>1. a \in D /\ ~h[a].ref /\ x \in ToSet(c) /\ b \in D /\ ~h[b].ref /\ x \in ToSet(d)
      BY <1>1 DEF Owners
    <3>2. c \in Seq(D) /\ d \in Seq(D)
      BY <3>1, ChildrenStand
    <3>3. PICK i \in 1 .. Len(c) : c[i] = x
      BY <3>1, <3>2 DEF ToSet
    <3>4. PICK j \in 1 .. Len(d) : d[j] = x
      BY <3>1, <3>2 DEF ToSet
    <3>5. QED
      BY <3>1, <3>3, <3>4, OneContainer
  <2>3. Owners(h, x) = {a}
    BY <2>1, <2>2
  <2>4. QED
    BY <1>3, <2>3, FS_Singleton
<1>4. QED
  BY <1>2, <1>3

\* Whatever was allocated has exactly one who will free it, after every history of calls.
THEOREM EverythingStaysOwned == Spec => []EverythingIsOwned
<1>1. Invariant /\ calls \in Nat => EverythingIsOwned
  <2> SUFFICES ASSUME Invariant
               PROVE  EverythingIsOwned
    OBVIOUS
  <2> DEFINE D == DOMAIN heap
             R == roots \cup lost
  <2>1. Finds(Memory(0))
    <3>1. 0 \in Nat
      OBVIOUS
    <3>2. QED
      BY <3>1, FoundMemory
  <2>2. Tree(heap, D, R) /\ Sound(Memory(0), R)
    BY <2>1, WhatIsFound DEF Finds
  <2>3. \A n \in D : n \notin Following(heap, n)
    BY DEF Invariant, RulesKept
  <2>4. StringsAccounted
    BY <2>2 DEF StringsAccounted, Sound, Counted, Memory
  <2>5. ASSUME NEW n \in D
        PROVE  Cardinality({a \in D : ~heap[a].ref /\ n \in ToSet(Children(heap, a))})
                 + (IF n \in R THEN 1 ELSE 0) = 1
    <3>1. Cardinality(Owners(heap, n)) = IF n \in R THEN 0 ELSE 1
      <4> HIDE DEF R, D
      <4>1. QED
        BY <2>2, <2>3, <2>5, HasOneOwner
    <3>2. Owners(heap, n) = {a \in D : ~heap[a].ref /\ n \in ToSet(Children(heap, a))}
      BY DEF Owners
    <3> HIDE DEF R
    <3>3. QED
      BY <3>1, <3>2
  <2>6. OneOwner
    BY <2>5 DEF OneOwner
  <2>7. QED
    BY <2>4, <2>6 DEF EverythingIsOwned
<1>2. QED
  BY <1>1, TreeInvariant, PTL

-----------------------------------------------------------------------------
(* Lists as sequences *)

\* The places of a sequence with an element more, another one, or one less.
LEMMA AppendFields ==
  ASSUME NEW S, NEW c \in Seq(S), NEW e \in S
  PROVE  LET d == Append(c, e)
         IN  /\ d \in Seq(S) /\ Len(d) = Len(c) + 1 /\ d[Len(d)] = e
             /\ \A j \in 1 .. Len(c) : d[j] = c[j]
OBVIOUS

\* One more in front of a place.
LEMMA InsertAtFields ==
  ASSUME NEW S, NEW c \in Seq(S), NEW i \in 1 .. Len(c), NEW e \in S
  PROVE  LET d == InsertAt(c, i, e)
         IN  /\ d \in Seq(S) /\ Len(d) = Len(c) + 1
             /\ \A j \in 1 .. Len(d) : /\ j < i => d[j] = c[j]
                                       /\ j = i => d[j] = e
                                       /\ j > i => d[j] = c[j - 1]
<1> DEFINE front == SubSeq(c, 1, i - 1)
           back == SubSeq(c, i, Len(c))
           d == front \o <<e>> \o back
<1>1. Len(c) \in Nat /\ i \in Int /\ 1 <= i /\ i <= Len(c)
  OBVIOUS
<1>2. front \in Seq(S) /\ Len(front) = i - 1 /\ \A j \in 1 .. Len(front) : front[j] = c[j]
  BY <1>1
<1>3. back \in Seq(S) /\ Len(back) = Len(c) - i + 1 /\ \A j \in 1 .. Len(back) : back[j] = c[i + j - 1]
  BY <1>1
<1> HIDE DEF front, back
<1> DEFINE start == front \o <<e>>
<1>4. start \in Seq(S) /\ Len(start) = i /\ start[i] = e
      /\ \A j \in 1 .. i : j < i => start[j] = c[j]
  <2>1. <<e>> \in Seq(S) /\ Len(<<e>>) = 1
    OBVIOUS
  <2>2. /\ start \in Seq(S) /\ Len(start) = Len(front) + 1
        /\ \A j \in 1 .. Len(front) + 1 :
             start[j] = IF j <= Len(front) THEN front[j] ELSE <<e>>[j - Len(front)]
    BY <1>2, <2>1, ConcatProperties
  <2> HIDE DEF start
  <2>3. QED
    BY <1>1, <1>2, <2>2
<1> HIDE DEF start
<1>5. /\ d \in Seq(S) /\ Len(d) = Len(c) + 1
      /\ \A j \in 1 .. Len(d) : d[j] = IF j <= i THEN start[j] ELSE back[j - i]
  <2>1. /\ start \o back \in Seq(S) /\ Len(start \o back) = Len(start) + Len(back)
        /\ \A j \in 1 .. Len(start) + Len(back) :
             (start \o back)[j] = IF j <= Len(start) THEN start[j] ELSE back[j - Len(start)]
    BY <1>3, <1>4, ConcatProperties
  <2>2. d = start \o back
    BY DEF start
  <2> HIDE DEF d
  <2>3. QED
    BY <1>1, <1>3, <1>4, <2>1, <2>2
<1>6. ASSUME NEW j \in 1 .. Len(d)
      PROVE  /\ j < i => d[j] = c[j]
             /\ j = i => d[j] = e
             /\ j > i => d[j] = c[j - 1]
  <2> HIDE DEF d
  <2>1. CASE j <= i
    BY <1>1, <1>4, <1>5, <2>1
  <2>2. CASE j > i
    <3>1. d[j] = back[j - i] /\ j - i \in 1 .. Len(back) /\ i + (j - i) - 1 = j - 1
      BY <1>1, <1>3, <1>5, <2>2
    <3>2. QED
      BY <1>1, <1>3, <2>2, <3>1
  <2>3. QED
    BY <1>1, <2>1, <2>2
<1>7. InsertAt(c, i, e) = d
  BY DEF InsertAt, front, back
<1> HIDE DEF d
<1>8. QED
  BY <1>5, <1>6, <1>7

\* Another one at a place.
LEMMA ReplaceAtFields ==
  ASSUME NEW S, NEW c \in Seq(S), NEW i \in 1 .. Len(c), NEW e \in S
  PROVE  LET d == ReplaceAt(c, i, e)
         IN  /\ d \in Seq(S) /\ Len(d) = Len(c) /\ d[i] = e
             /\ \A j \in 1 .. Len(d) : j # i => d[j] = c[j]
BY DEF ReplaceAt

\* One less.
LEMMA RemoveAtFields ==
  ASSUME NEW S, NEW c \in Seq(S), NEW i \in 1 .. Len(c)
  PROVE  LET d == RemoveAt(c, i)
         IN  /\ d \in Seq(S) /\ Len(d) = Len(c) - 1
             /\ \A j \in 1 .. Len(d) : /\ j < i => d[j] = c[j]
                                       /\ j >= i => d[j] = c[j + 1]
<1> DEFINE front == SubSeq(c, 1, i - 1)
           back == SubSeq(c, i + 1, Len(c))
           d == front \o back
<1>1. Len(c) \in Nat /\ i \in Int /\ 1 <= i /\ i <= Len(c)
  OBVIOUS
<1>2. front \in Seq(S) /\ Len(front) = i - 1 /\ \A j \in 1 .. Len(front) : front[j] = c[j]
  BY <1>1
<1>3. back \in Seq(S) /\ Len(back) = Len(c) - i /\ \A j \in 1 .. Len(back) : back[j] = c[i + j]
  BY <1>1
<1> HIDE DEF front, back
<1>4. /\ d \in Seq(S) /\ Len(d) = Len(front) + Len(back)
      /\ \A j \in 1 .. Len(front) + Len(back) :
           d[j] = IF j <= Len(front) THEN front[j] ELSE back[j - Len(front)]
  BY <1>2, <1>3, ConcatProperties
<1> HIDE DEF d
<1>5. Len(d) = Len(c) - 1
  BY <1>1, <1>2, <1>3, <1>4
<1>6. ASSUME NEW j \in 1 .. Len(d)
      PROVE  /\ j < i => d[j] = c[j]
             /\ j >= i => d[j] = c[j + 1]
  <2>1. CASE j < i
    BY <1>1, <1>2, <1>4, <1>5, <2>1
  <2>2. CASE j >= i
    <3>1. d[j] = back[j - (i - 1)] /\ j - (i - 1) \in 1 .. Len(back) /\ i + (j - (i - 1)) = j + 1
      BY <1>1, <1>2, <1>3, <1>4, <1>5, <2>2
    <3>2. QED
      BY <1>3, <2>2, <3>1
  <2>3. QED
    BY <1>1, <2>1, <2>2
<1>7. RemoveAt(c, i) = d
  BY DEF RemoveAt, front, back, d
<1>8. QED
  BY <1>4, <1>5, <1>6, <1>7

\* The children are the sequence that the links lay out.
LEMMA ChildrenAre ==
  ASSUME NEW D, NEW Q, NEW g, Tree(g, D, Q), NEW a \in D, ~g[a].ref,
         NEW d, IsList(g, g[a].child, d)
  PROVE  Children(g, a) = d
<1>1. IsList(g, g[a].child, Children(g, a))
  BY ChildrenStand
<1>2. NoNode \notin DOMAIN g
  BY TreePointers
<1>3. QED
  BY <1>1, <1>2, ListIsUnique

\* What an item and a container bring to a change of a list.
LEMMA ListStart ==
  ASSUME NEW D, NEW R, NEW h, Tree(h, D, R), NEW a \in D, ~h[a].ref, NEW n \in R
  PROVE  LET c == Children(h, a)
         IN  /\ D \in SUBSET Node /\ h \in [D -> Item] /\ NoNode \notin D /\ n \in D
             /\ h[n].next = NoNode
             /\ c \in Seq(D) /\ Len(c) \in Nat
             /\ \A i \in 1 .. Len(c) : c[i] \in D /\ c[i] # n
             /\ \A i, j \in 1 .. Len(c) : i # j => c[i] # c[j]
<1>1. /\ D \in SUBSET Node /\ h \in [D -> Item] /\ NoNode \notin D /\ n \in D
      /\ h[n].next = NoNode
  <2>1. D \in SUBSET Node /\ h \in [D -> Item] /\ NoNode \notin D
    BY TreePointers
  <2>2. n \in D /\ IsFree(h, n)
    BY DEF Tree
  <2>3. QED
    BY <2>1, <2>2 DEF IsFree
<1> DEFINE c == Children(h, a)
<1>2. /\ c \in Seq(D) /\ Len(c) \in Nat
      /\ \A i \in 1 .. Len(c) : c[i] \in D \ R
      /\ \A i, j \in 1 .. Len(c) : i # j => c[i] # c[j]
  BY ChildrenStand
<1> HIDE DEF c
<1>3. \A i \in 1 .. Len(c) : c[i] \in D /\ c[i] # n
  BY <1>2
<1>4. QED
  BY <1>1, <1>2, <1>3 DEF c

\* suffix_object and the first item: an item more at the end.
LEMMA AppendIsAppend ==
  ASSUME NEW D, NEW R, NEW h, Tree(h, D, R), NEW a \in D, ~h[a].ref, NEW n \in R
  PROVE  \A last : last = (IF Children(h, a) = <<>> THEN NoNode ELSE Last(Children(h, a))) =>
           Children(AddedLast(h, a, last, n), a) = Append(Children(h, a), n)
<1> DEFINE c == Children(h, a)
<1>1. SUFFICES ASSUME NEW last, last = IF c = <<>> THEN NoNode ELSE Last(c)
               PROVE  Children(AddedLast(h, a, last, n), a) = Append(c, n)
  OBVIOUS
<1> DEFINE g == AddedLast(h, a, last, n)
           d == Append(c, n)
<1> SUFFICES Children(g, a) = d
  OBVIOUS
<1>2. /\ D \in SUBSET Node /\ h \in [D -> Item] /\ NoNode \notin D /\ n \in D
      /\ h[n].next = NoNode
      /\ c \in Seq(D) /\ Len(c) \in Nat
      /\ \A i \in 1 .. Len(c) : c[i] \in D /\ c[i] # n
      /\ \A i, j \in 1 .. Len(c) : i # j => c[i] # c[j]
  BY ListStart
<1>3. /\ c = <<>> <=> h[a].child = NoNode
      /\ c # <<>> => Len(c) \in 1 .. Len(c) /\ 1 \in 1 .. Len(c) /\ c[1] = h[a].child
                     /\ h[c[Len(c)]].next = NoNode
      /\ \A i \in 1 .. Len(c) : i < Len(c) => h[c[i]].next = c[i + 1]
  BY ChildrenStand
<1>4. h[a].child # NoNode => last \in D \ R /\ h[last].next = NoNode
  BY <1>1, LastChild
<1>5. last = IF c = <<>> THEN NoNode ELSE c[Len(c)]
  BY <1>1 DEF Last
<1> HIDE DEF c
<1>6. Tree(g, D, R \ {n}) /\ \A x \in D : SameData(g[x], h[x])
  BY <1>4, AppendKeepsLinks
<1>7. IsAdded(g, h, D, a, last, n)
  <2>1. D \in SUBSET Node /\ h \in [D -> Item] /\ a \in D /\ n \in D
    BY <1>2
  <2>2. h[a].child # NoNode => last \in D
    BY <1>4
  <2>3. QED
    BY <2>1, <2>2, AddedFields
<1>8. d \in Seq(D) /\ Len(d) = Len(c) + 1 /\ d[Len(d)] = n /\ \A j \in 1 .. Len(c) : d[j] = c[j]
  BY <1>2, AppendFields
<1>9. ~g[a].ref /\ DOMAIN g = D
  BY <1>6, TreePointers DEF SameData
<1> HIDE DEF g, d
<1>10. CASE c = <<>>
  <2>1. g[a].child = n /\ g[n].next = NoNode /\ g[a].child # NoNode
    BY <1>2, <1>3, <1>7, <1>10 DEF IsAdded
  <2>2. Len(c) = 0 /\ Len(d) = 1
    BY <1>8, <1>10
  <2>3. d # <<>> /\ d[1] = n /\ \A i \in 1 .. Len(d) : ~(i < Len(d))
    BY <1>8, <2>2
  <2>4. IsList(g, g[a].child, d)
    BY <1>2, <1>8, <1>9, <2>2, <2>1, <2>3 DEF IsList
  <2>5. QED
    BY <1>6, <1>9, <2>4, ChildrenAre
<1>11. CASE c # <<>>
  <2>1. g[a].child = c[1] /\ last = c[Len(c)] /\ last \in D /\ last # n /\ h[a].child # NoNode
    BY <1>2, <1>3, <1>7, <1>5, <1>11 DEF IsAdded
  <2>2. g[last].next = n /\ g[n].next = NoNode
    BY <1>2, <1>7, <2>1 DEF IsAdded
  <2>3. ASSUME NEW i \in 1 .. Len(d), i < Len(d)
        PROVE  g[d[i]].next = d[i + 1]
    <3>1. i \in 1 .. Len(c) /\ d[i] = c[i]
      BY <1>2, <1>8, <2>3
    <3>2. CASE i = Len(c)
      BY <1>2, <1>8, <2>1, <2>2, <3>1, <3>2
    <3>3. CASE i < Len(c)
      <4>1. i + 1 \in 1 .. Len(c) /\ d[i + 1] = c[i + 1]
        BY <1>2, <1>8, <3>1, <3>3
      <4>2. c[i] # last /\ c[i] \in D
        BY <1>2, <1>3, <1>11, <2>1, <3>1, <3>3
      <4>3. g[c[i]].next = h[c[i]].next
        BY <1>7, <2>1, <4>2 DEF IsAdded
      <4>4. QED
        BY <1>3, <3>1, <3>3, <4>1, <4>3
    <3>4. QED
      BY <1>2, <3>1, <3>2, <3>3
  <2>4. d # <<>> /\ d[1] = c[1] /\ g[a].child # NoNode
    BY <1>2, <1>3, <1>8, <1>11, <2>1
  <2>5. IsList(g, g[a].child, d)
    BY <1>2, <1>8, <1>9, <2>1, <2>2, <2>3, <2>4 DEF IsList
  <2>6. QED
    BY <1>6, <1>9, <2>5, ChildrenAre
<1>12. QED
  BY <1>10, <1>11

\* cJSON_InsertItemInArray: an item more in front of one.
LEMMA InsertIsInsertAt ==
  ASSUME NEW D, NEW R, NEW h, Tree(h, D, R), NEW a \in D, ~h[a].ref, NEW n \in R,
         NEW i \in 1 .. Len(Children(h, a))
  PROVE  LET c == Children(h, a)
         IN  Children(Inserted(h, a, c[i], n), a) = InsertAt(c, i, n)
<1> DEFINE c == Children(h, a)
           after == c[i]
           g == Inserted(h, a, after, n)
           d == InsertAt(c, i, n)
<1> SUFFICES Children(g, a) = d
  OBVIOUS
<1>1. /\ D \in SUBSET Node /\ h \in [D -> Item] /\ NoNode \notin D /\ n \in D
      /\ h[n].next = NoNode
      /\ c \in Seq(D) /\ Len(c) \in Nat
      /\ \A k \in 1 .. Len(c) : c[k] \in D /\ c[k] # n
      /\ \A k, j \in 1 .. Len(c) : k # j => c[k] # c[j]
  BY ListStart
<1>2. /\ c # <<>> => Len(c) \in 1 .. Len(c) /\ 1 \in 1 .. Len(c) /\ c[1] = h[a].child
                     /\ h[c[Len(c)]].next = NoNode
      /\ \A k \in 1 .. Len(c) :
           /\ k < Len(c) => h[c[k]].next = c[k + 1]
           /\ k = 1 => h[c[k]].prev = NoNode
           /\ k # 1 => k - 1 \in 1 .. Len(c) /\ h[c[k]].prev = c[k - 1]
           /\ h[c[k]].prev = NoNode => h[a].child = c[k]
  BY ChildrenStand
<1>3. i \in 1 .. Len(c)
  OBVIOUS
<1> HIDE DEF c
<1>4. c # <<>> /\ i \in 1 .. Len(c) /\ after = c[i] /\ after \in D /\ after # n
  BY <1>3, <1>1
<1>5. h[after].prev = NoNode => h[a].child = after
  BY <1>2, <1>4
<1>6. Tree(g, D, R \ {n}) /\ \A x \in D : SameData(g[x], h[x])
  BY <1>4, <1>5, InsertKeepsLinks
<1>7. /\ d \in Seq(D) /\ Len(d) = Len(c) + 1
      /\ \A j \in 1 .. Len(d) : /\ j < i => d[j] = c[j]
                                /\ j = i => d[j] = n
                                /\ j > i => d[j] = c[j - 1]
  <2>1. c \in Seq(D) /\ i \in 1 .. Len(c) /\ n \in D
    BY <1>3, <1>1
  <2>2. QED
    BY <2>1, InsertAtFields
<1>8. h[a].child = after <=> i = 1
  BY <1>1, <1>2, <1>4
<1>9. h[after].prev = IF i = 1 THEN NoNode ELSE c[i - 1]
  BY <1>2, <1>4
<1>10. i # 1 => i - 1 \in 1 .. Len(c)
  BY <1>3, <1>2
<1>11. h[after].prev \in Pointers(D) \ {n} /\ (h[a].child = after <=> h[after].prev = NoNode)
  BY <1>1, <1>8, <1>9, <1>10 DEF Pointers
<1> HIDE DEF after
<1>12. /\ g[n].next = after
       /\ \A x \in D :
            /\ x = h[after].prev => g[x].next = n
            /\ x # h[after].prev /\ x # n => g[x].next = h[x].next
            /\ x = a /\ h[a].child = after => g[x].child = n
            /\ ~(x = a /\ h[a].child = after) => g[x].child = h[x].child
  <2>1. IsInserted(g, h, D, a, after, n)
    BY <1>1, <1>4, <1>11, InsertedFields
  <2> HIDE DEF g
  <2>2. QED
    BY <2>1 DEF IsInserted
<1>13. ~g[a].ref /\ DOMAIN g = D
  BY <1>6, TreePointers DEF SameData
<1> HIDE DEF g, d
<1>14. g[a].child = d[1] /\ d # <<>> /\ g[a].child # NoNode
  <2>1. 1 \in 1 .. Len(d) /\ Len(d) # 0
    BY <1>1, <1>7
  <2>2. CASE i = 1
    BY <1>1, <1>7, <1>8, <1>12, <2>1, <2>2
  <2>3. CASE i # 1
    <3>1. d[1] = c[1] /\ 1 \in 1 .. Len(c)
      BY <1>3, <1>1, <1>7, <2>1, <2>3
    <3>2. QED
      BY <1>1, <1>2, <1>4, <1>8, <1>12, <2>1, <2>3, <3>1
  <2>4. QED
    BY <2>2, <2>3
<1>15. ASSUME NEW j \in 1 .. Len(d)
       PROVE  g[d[j]].next = IF j = Len(d) THEN NoNode ELSE d[j + 1]
  <2>1. j \in Int /\ i \in Int /\ Len(c) \in Nat /\ 1 <= j /\ j <= Len(c) + 1 /\ 1 <= i /\ i <= Len(c)
        /\ Len(d) = Len(c) + 1
    BY <1>3, <1>1, <1>7
  <2>2. CASE j < i - 1
    <3>1. j \in 1 .. Len(c) /\ d[j] = c[j] /\ d[j + 1] = c[j + 1] /\ j # Len(d) /\ j < Len(c)
      BY <1>7, <2>1, <2>2
    <3>2. i # 1 /\ c[j] # c[i - 1]
      BY <1>1, <1>10, <2>1, <2>2, <3>1
    <3>3. g[c[j]].next = h[c[j]].next
      BY <1>1, <1>9, <1>12, <3>1, <3>2
    <3>4. QED
      BY <1>2, <3>1, <3>3
  <2>3. CASE j = i - 1
    <3>1. j \in 1 .. Len(c) /\ d[j] = c[j] /\ d[j + 1] = n /\ j # Len(d) /\ i # 1
      BY <1>7, <2>1, <2>3
    <3>2. h[after].prev = c[j] /\ c[j] \in D
      BY <1>1, <1>9, <2>3, <3>1
    <3>3. QED
      BY <1>12, <3>1, <3>2
  <2>4. CASE j = i
    <3>1. d[j] = n /\ d[j + 1] = c[i] /\ j # Len(d)
      BY <1>7, <2>1, <2>4
    <3>2. QED
      BY <1>4, <1>12, <3>1
  <2>5. CASE j > i
    <3>1. j - 1 \in 1 .. Len(c) /\ d[j] = c[j - 1] /\ j - 1 >= i
      BY <1>7, <2>1, <2>5
    <3>2. i # 1 => c[j - 1] # c[i - 1]
      BY <1>1, <1>10, <2>1, <3>1
    <3>3. g[c[j - 1]].next = h[c[j - 1]].next
      BY <1>1, <1>9, <1>12, <3>1, <3>2
    <3>4. CASE j = Len(d)
      <4>1. j - 1 = Len(c)
        BY <2>1, <3>4
      <4>2. QED
        BY <1>2, <1>4, <3>1, <3>3, <3>4, <4>1
    <3>5. CASE j # Len(d)
      <4>1. j - 1 < Len(c) /\ j + 1 \in 1 .. Len(d) /\ j + 1 > i /\ (j + 1) - 1 = (j - 1) + 1
        BY <2>1, <2>5, <3>5
      <4>2. d[j + 1] = c[(j - 1) + 1]
        BY <1>7, <4>1
      <4>3. QED
        BY <1>2, <3>1, <3>3, <3>5, <4>1, <4>2
    <3>6. QED
      BY <3>4, <3>5
  <2>6. QED
    BY <2>1, <2>2, <2>3, <2>4, <2>5
<1>16. IsList(g, g[a].child, d)
  <2>1. Len(d) \in 1 .. Len(d) /\ \A j \in 1 .. Len(d) : j < Len(d) => j # Len(d)
    BY <1>1, <1>7
  <2>2. g[d[Len(d)]].next = NoNode /\ \A j \in 1 .. Len(d) : j < Len(d) => g[d[j]].next = d[j + 1]
    BY <1>15, <2>1
  <2>3. d \in Seq(DOMAIN g)
    BY <1>7, <1>13
  <2>4. QED
    BY <1>14, <2>2, <2>3 DEF IsList
<1>17. QED
  BY <1>6, <1>13, <1>16, ChildrenAre

\* What stands around a child.
LEMMA AroundChild ==
  ASSUME NEW D, NEW R, NEW h, Tree(h, D, R), NEW a \in D, ~h[a].ref,
         NEW i \in 1 .. Len(Children(h, a))
  PROVE  LET c == Children(h, a)
         IN  /\ h[c[i]].next = IF i = Len(c) THEN NoNode ELSE c[i + 1]
             /\ h[c[i]].prev = IF i = 1 THEN NoNode ELSE c[i - 1]
             /\ h[a].child = c[1] /\ 1 \in 1 .. Len(c)
             /\ h[a].child = c[i] <=> i = 1
             /\ i # Len(c) => i + 1 \in 1 .. Len(c)
             /\ i # 1 => i - 1 \in 1 .. Len(c)
<1> DEFINE c == Children(h, a)
<1>1. /\ c \in Seq(D) /\ Len(c) \in Nat
      /\ c # <<>> => Len(c) \in 1 .. Len(c) /\ 1 \in 1 .. Len(c) /\ c[1] = h[a].child
                     /\ h[c[Len(c)]].next = NoNode
      /\ \A k \in 1 .. Len(c) :
           /\ k < Len(c) => h[c[k]].next = c[k + 1]
           /\ k = 1 => h[c[k]].prev = NoNode
           /\ k # 1 => k - 1 \in 1 .. Len(c) /\ h[c[k]].prev = c[k - 1]
      /\ \A k, j \in 1 .. Len(c) : k # j => c[k] # c[j]
  BY ChildrenStand
<1>2. i \in 1 .. Len(c)
  OBVIOUS
<1> HIDE DEF c
<1>3. c # <<>>
  BY <1>1, <1>2
<1>4. h[c[i]].next = IF i = Len(c) THEN NoNode ELSE c[i + 1]
  BY <1>1, <1>2, <1>3
<1>5. i # Len(c) => i + 1 \in 1 .. Len(c)
  BY <1>1, <1>2
<1>6. QED
  BY <1>1, <1>2, <1>3, <1>4, <1>5 DEF c

\* cJSON_ReplaceItemViaPointer: another item in the place of one.
LEMMA ReplaceIsReplaceAt ==
  ASSUME NEW D, NEW R, NEW h, Tree(h, D, R), NEW a \in D, ~h[a].ref, NEW r \in R,
         NEW i \in 1 .. Len(Children(h, a))
  PROVE  LET c == Children(h, a)
         IN  Children(Replaced(h, a, c[i], r), a) = ReplaceAt(c, i, r)
<1> DEFINE c == Children(h, a)
           n == c[i]
           g == Replaced(h, a, n, r)
           d == ReplaceAt(c, i, r)
<1> SUFFICES Children(g, a) = d
  OBVIOUS
<1>1. /\ D \in SUBSET Node /\ h \in [D -> Item] /\ NoNode \notin D /\ r \in D
      /\ h[r].next = NoNode
      /\ c \in Seq(D) /\ Len(c) \in Nat
      /\ \A k \in 1 .. Len(c) : c[k] \in D /\ c[k] # r
      /\ \A k, j \in 1 .. Len(c) : k # j => c[k] # c[j]
  BY ListStart
<1>2. i \in 1 .. Len(c)
  OBVIOUS
<1>3. /\ h[c[i]].next = IF i = Len(c) THEN NoNode ELSE c[i + 1]
      /\ h[c[i]].prev = IF i = 1 THEN NoNode ELSE c[i - 1]
      /\ h[a].child = c[1] /\ 1 \in 1 .. Len(c)
      /\ h[a].child = c[i] <=> i = 1
      /\ i # Len(c) => i + 1 \in 1 .. Len(c)
      /\ i # 1 => i - 1 \in 1 .. Len(c)
  BY AroundChild
<1>4. \A k \in 1 .. Len(c) : h[c[k]].next = IF k = Len(c) THEN NoNode ELSE c[k + 1]
  BY AroundChild
<1> HIDE DEF c
<1>5. /\ n \in D /\ n # r
      /\ h[n].prev \in Pointers(D) \ {n, r} /\ h[n].next \in Pointers(D) \ {n, r}
  BY <1>1, <1>2, <1>3 DEF Pointers
<1>6. h[n].prev = NoNode => h[a].child = n
  BY <1>1, <1>3
<1>7. Tree(g, D, (R \ {r}) \cup {n}) /\ \A x \in D : SameData(g[x], h[x])
  <2> HIDE DEF n
  <2>1. QED
    BY <1>5, <1>6, ReplaceKeepsLinks
<1>8. d \in Seq(D) /\ Len(d) = Len(c) /\ d[i] = r /\ \A j \in 1 .. Len(d) : j # i => d[j] = c[j]
  BY <1>1, <1>2, ReplaceAtFields
<1>9. IsReplaced(g, h, D, a, n, r)
  <2> HIDE DEF n
  <2>1. D \in SUBSET Node /\ h \in [D -> Item] /\ a \in D /\ r \in D
    BY <1>1
  <2>2. QED
    BY <1>5, <2>1, ReplacedFields
<1>10. ~g[a].ref /\ DOMAIN g = D
  BY <1>7, TreePointers DEF SameData
<1> HIDE DEF g, d
<1>11. g[a].child = d[1] /\ d # <<>> /\ g[a].child # NoNode
  <2>1. 1 \in 1 .. Len(d) /\ Len(d) # 0
    BY <1>1, <1>3, <1>8
  <2>2. CASE i = 1
    BY <1>1, <1>3, <1>8, <1>9, <2>1, <2>2 DEF IsReplaced
  <2>3. CASE i # 1
    BY <1>1, <1>3, <1>8, <1>9, <2>1, <2>3 DEF IsReplaced
  <2>4. QED
    BY <2>2, <2>3
<1>12. ASSUME NEW j \in 1 .. Len(d)
       PROVE  g[d[j]].next = IF j = Len(d) THEN NoNode ELSE d[j + 1]
  <2>1. j \in 1 .. Len(c) /\ c[j] \in D /\ c[j] # r
    BY <1>1, <1>8
  <2>2. CASE j = i
    <3>1. d[j] = r /\ g[r].next = h[n].next
      BY <1>8, <1>9, <2>2 DEF IsReplaced
    <3>2. j # Len(c) => j + 1 \in 1 .. Len(d) /\ d[j + 1] = c[j + 1]
      <4>1. j # Len(c) => j + 1 \in 1 .. Len(d) /\ j + 1 # i
        BY <1>1, <1>8, <2>1, <2>2
      <4>2. QED
        BY <1>8, <4>1
    <3>3. QED
      BY <1>3, <1>8, <2>2, <3>1, <3>2
  <2>3. CASE j # i /\ j + 1 = i
    <3>1. i # 1 /\ j = i - 1 /\ j # Len(d) /\ d[j] = c[j] /\ d[j + 1] = r
      BY <1>1, <1>2, <1>8, <2>1, <2>3
    <3>2. h[n].prev = c[j]
      BY <1>3, <3>1
    <3>3. QED
      BY <1>9, <2>1, <3>1, <3>2 DEF IsReplaced
  <2>4. CASE j # i /\ j + 1 # i
    <3>1. d[j] = c[j] /\ c[j] # n
      BY <1>1, <1>2, <1>8, <2>1, <2>4
    <3>2. i # 1 => c[j] # c[i - 1]
      BY <1>1, <1>2, <1>3, <2>1, <2>4
    <3>3. c[j] # h[n].prev
      BY <1>1, <1>3, <2>1, <3>2
    <3>4. g[c[j]].next = h[c[j]].next
      BY <1>9, <2>1, <3>1, <3>3 DEF IsReplaced
    <3>5. j # Len(d) => d[j + 1] = c[j + 1]
      <4>1. j # Len(d) => j + 1 \in 1 .. Len(d)
        BY <1>1, <1>8, <2>1
      <4>2. QED
        BY <1>8, <2>4, <4>1
    <3>6. QED
      BY <1>4, <1>8, <2>1, <3>1, <3>4, <3>5
  <2>5. QED
    BY <2>2, <2>3, <2>4
<1>13. IsList(g, g[a].child, d)
  <2>1. Len(d) \in 1 .. Len(d) /\ \A j \in 1 .. Len(d) : j < Len(d) => j # Len(d)
    BY <1>1, <1>3, <1>8
  <2>2. g[d[Len(d)]].next = NoNode /\ \A j \in 1 .. Len(d) : j < Len(d) => g[d[j]].next = d[j + 1]
    BY <1>12, <2>1
  <2>3. d \in Seq(DOMAIN g)
    BY <1>8, <1>10
  <2>4. QED
    BY <1>11, <2>2, <2>3 DEF IsList
<1>14. QED
  BY <1>7, <1>10, <1>13, ChildrenAre

\* cJSON_DetachItemViaPointer: one item less.
LEMMA DetachIsRemoveAt ==
  ASSUME NEW D, NEW R, NEW h, Tree(h, D, R), NEW a \in D, ~h[a].ref,
         NEW i \in 1 .. Len(Children(h, a))
  PROVE  LET c == Children(h, a)
         IN  Children(Detached(h, a, c[i]), a) = RemoveAt(c, i)
<1> DEFINE c == Children(h, a)
           n == c[i]
           g == Detached(h, a, n)
           d == RemoveAt(c, i)
<1> SUFFICES Children(g, a) = d
  OBVIOUS
<1>1. /\ c \in Seq(D) /\ Len(c) \in Nat
      /\ \A k \in 1 .. Len(c) : c[k] \in D \ R
      /\ \A k, j \in 1 .. Len(c) : k # j => c[k] # c[j]
  BY ChildrenStand
<1>2. D \in SUBSET Node /\ h \in [D -> Item] /\ NoNode \notin D
  BY TreePointers
<1>3. i \in 1 .. Len(c)
  OBVIOUS
<1>4. /\ h[c[i]].next = IF i = Len(c) THEN NoNode ELSE c[i + 1]
      /\ h[c[i]].prev = IF i = 1 THEN NoNode ELSE c[i - 1]
      /\ h[a].child = c[1] /\ 1 \in 1 .. Len(c)
      /\ h[a].child = c[i] <=> i = 1
      /\ i # Len(c) => i + 1 \in 1 .. Len(c)
      /\ i # 1 => i - 1 \in 1 .. Len(c)
  BY AroundChild
<1>5. \A k \in 1 .. Len(c) : h[c[k]].next = IF k = Len(c) THEN NoNode ELSE c[k + 1]
  BY AroundChild
<1> HIDE DEF c
<1>6. n \in D /\ h[n].prev \in Pointers(D) /\ h[n].next \in Pointers(D)
  BY <1>1, <1>3, <1>4 DEF Pointers
<1>7. h[n].prev = NoNode => h[a].child = n
  BY <1>2, <1>1, <1>4
<1>8. Tree(g, D, R \cup {n}) /\ \A x \in D : SameData(g[x], h[x])
  <2> HIDE DEF n
  <2>1. QED
    BY <1>6, <1>7, DetachKeepsLinks
<1>9. /\ d \in Seq(D) /\ Len(d) = Len(c) - 1
      /\ \A j \in 1 .. Len(d) : /\ j < i => d[j] = c[j]
                                /\ j >= i => d[j] = c[j + 1]
  BY <1>1, <1>3, RemoveAtFields
<1>10. IsDetached(g, h, D, a, n)
  <2> HIDE DEF n
  <2>1. D \in SUBSET Node /\ h \in [D -> Item] /\ a \in D
    BY <1>2
  <2>2. QED
    BY <1>6, <2>1, DetachedFields
<1>11. ~g[a].ref /\ DOMAIN g = D
  BY <1>8, TreePointers DEF SameData
<1> HIDE DEF g, d
<1>12. ASSUME NEW j \in 1 .. Len(d)
       PROVE  g[d[j]].next = IF j = Len(d) THEN NoNode ELSE d[j + 1]
  <2>1. j \in Int /\ i \in Int /\ Len(c) \in Nat /\ 1 <= j /\ j <= Len(c) - 1 /\ 1 <= i /\ i <= Len(c)
        /\ Len(d) = Len(c) - 1
    BY <1>1, <1>3, <1>9
  <2>2. CASE j < i - 1
    <3>1. j \in 1 .. Len(c) /\ d[j] = c[j] /\ d[j + 1] = c[j + 1] /\ j # Len(d) /\ j # Len(c)
      BY <1>9, <2>1, <2>2
    <3>2. i # 1 /\ c[j] # c[i - 1] /\ c[j] # n /\ c[j] \in D
      BY <1>1, <1>3, <1>4, <2>1, <2>2, <3>1
    <3>3. g[c[j]].next = h[c[j]].next
      BY <1>4, <1>10, <3>2 DEF IsDetached
    <3>4. QED
      BY <1>5, <3>1, <3>3
  <2>3. CASE j = i - 1
    <3>1. j \in 1 .. Len(c) /\ d[j] = c[j] /\ i # 1
      BY <1>9, <2>1, <2>3
    <3>2. c[j] = h[n].prev /\ c[j] # n /\ c[j] \in D
      BY <1>1, <1>3, <1>4, <2>1, <2>3, <3>1
    <3>3. g[c[j]].next = h[n].next
      BY <1>10, <3>2 DEF IsDetached
    <3>4. CASE j = Len(d)
      <4>1. i = Len(c)
        BY <2>1, <2>3, <3>4
      <4>2. QED
        BY <1>4, <3>1, <3>3, <3>4, <4>1
    <3>5. CASE j # Len(d)
      <4>1. i # Len(c) /\ j + 1 \in 1 .. Len(d) /\ j + 1 >= i /\ (j + 1) + 1 = i + 1
        BY <2>1, <2>3, <3>5
      <4>2. d[j + 1] = c[i + 1]
        BY <1>9, <4>1
      <4>3. QED
        BY <1>4, <3>1, <3>3, <3>5, <4>1, <4>2
    <3>6. QED
      BY <3>4, <3>5
  <2>4. CASE j >= i
    <3>1. j + 1 \in 1 .. Len(c) /\ d[j] = c[j + 1] /\ j + 1 # i /\ j + 1 # i - 1
      BY <1>9, <2>1, <2>4
    <3>2. c[j + 1] # n /\ c[j + 1] \in D /\ (i # 1 => c[j + 1] # c[i - 1])
      BY <1>1, <1>3, <1>4, <3>1
    <3>3. c[j + 1] # h[n].prev
      BY <1>2, <1>4, <3>2
    <3>4. g[c[j + 1]].next = h[c[j + 1]].next
      BY <1>10, <3>2, <3>3 DEF IsDetached
    <3>5. CASE j = Len(d)
      <4>1. j + 1 = Len(c)
        BY <2>1, <3>5
      <4>2. QED
        BY <1>5, <3>1, <3>4, <3>5, <4>1
    <3>6. CASE j # Len(d)
      <4>1. j + 1 # Len(c) /\ j + 1 \in 1 .. Len(d) /\ j + 1 >= i
        BY <2>1, <2>4, <3>6
      <4>2. d[j + 1] = c[(j + 1) + 1]
        BY <1>9, <4>1
      <4>3. QED
        BY <1>5, <3>1, <3>4, <3>6, <4>1, <4>2
    <3>7. QED
      BY <3>5, <3>6
  <2>5. QED
    BY <2>1, <2>2, <2>3, <2>4
<1>13. CASE Len(c) = 1
  <2>1. i = 1 /\ i = Len(c) /\ d = <<>> /\ h[n].next = NoNode /\ h[a].child = n
    BY <1>1, <1>3, <1>4, <1>9, <1>13
  <2>2. g[a].child = NoNode
    BY <1>10, <2>1 DEF IsDetached
  <2>3. IsList(g, g[a].child, d)
    BY <2>1, <2>2 DEF IsList
  <2>4. QED
    BY <1>8, <1>11, <2>3, ChildrenAre
<1>14. CASE Len(c) # 1
  <2>1. Len(d) \in 1 .. Len(d) /\ 1 \in 1 .. Len(d) /\ d # <<>>
        /\ \A j \in 1 .. Len(d) : j < Len(d) => j # Len(d)
    BY <1>1, <1>3, <1>9, <1>14
  <2>2. g[a].child = d[1]
    <3>1. CASE i = 1
      <4>1. d[1] = c[1 + 1] /\ h[n].next = c[1 + 1] /\ h[a].child = n
        BY <1>1, <1>3, <1>4, <1>9, <1>14, <2>1, <3>1
      <4>2. QED
        BY <1>10, <4>1 DEF IsDetached
    <3>2. CASE i # 1
      <4>1. d[1] = c[1] /\ h[a].child # n
        BY <1>3, <1>4, <1>9, <2>1, <3>2, SMTT(30)
      <4>2. QED
        BY <1>4, <1>10, <4>1 DEF IsDetached
    <3>3. QED
      BY <3>1, <3>2
  <2>3. g[a].child # NoNode
    BY <1>2, <1>9, <2>1, <2>2
  <2>4. g[d[Len(d)]].next = NoNode /\ \A j \in 1 .. Len(d) : j < Len(d) => g[d[j]].next = d[j + 1]
    BY <1>12, <2>1
  <2>5. d \in Seq(DOMAIN g)
    BY <1>9, <1>11
  <2>6. IsList(g, g[a].child, d)
    BY <2>1, <2>2, <2>3, <2>4, <2>5 DEF IsList
  <2>7. QED
    BY <1>8, <1>11, <2>6, ChildrenAre
<1>15. QED
  BY <1>13, <1>14

\* The pointer work of the list functions is that of a sequence, whatever was done before.
THEOREM ListsStaySequences == Spec => []ListsAreSequences
<1>1. Invariant /\ calls \in Nat => ListsAreSequences
  <2> SUFFICES ASSUME Invariant, NEW a \in Array, NEW r \in roots
               PROVE  LET c == Children(heap, a)
                          m == Memory(0)
                      IN  /\ Children(AddToArray(m, a, r).heap, a) = Append(c, r)
                          /\ \A i \in DOMAIN c :
                               /\ Children(Inserted(heap, a, c[i], r), a) = InsertAt(c, i, r)
                               /\ Children(Replaced(heap, a, c[i], r), a) = ReplaceAt(c, i, r)
                               /\ Children(Detached(heap, a, c[i]), a) = RemoveAt(c, i)
    BY DEF ListsAreSequences
  <2> DEFINE c == Children(heap, a)
             R == roots \cup lost
  <2>1. Finds(Memory(0))
    <3>1. 0 \in Nat
      OBVIOUS
    <3>2. QED
      BY <3>1, FoundMemory
  <2>2. Tree(heap, DOMAIN heap, R) /\ a \in DOMAIN heap /\ ~heap[a].ref /\ r \in R
    BY <2>1, WhatIsFound
  <2>3. PICK last : last = IF c = <<>> THEN NoNode ELSE Last(c)
    OBVIOUS
  <2>4. Children(AddToArray(Memory(0), a, r).heap, a) = Append(c, r)
    <3>1. AddToArray(Memory(0), a, r).heap = AddedLast(heap, a, last, r)
      BY <2>3 DEF AddToArray, Memory
    <3>2. Children(AddedLast(heap, a, last, r), a) = Append(c, r)
      BY <2>2, <2>3, AppendIsAppend
    <3>3. QED
      BY <3>1, <3>2
  <2>5. ASSUME NEW i \in DOMAIN c
        PROVE  /\ Children(Inserted(heap, a, c[i], r), a) = InsertAt(c, i, r)
               /\ Children(Replaced(heap, a, c[i], r), a) = ReplaceAt(c, i, r)
               /\ Children(Detached(heap, a, c[i]), a) = RemoveAt(c, i)
    <3>1. c \in Seq(DOMAIN heap)
      BY <2>2, ChildrenStand
    <3>2. i \in 1 .. Len(Children(heap, a))
      BY <2>5, <3>1
    <3>3. Children(Inserted(heap, a, c[i], r), a) = InsertAt(c, i, r)
      BY <2>2, <3>2, InsertIsInsertAt
    <3>4. Children(Replaced(heap, a, c[i], r), a) = ReplaceAt(c, i, r)
      BY <2>2, <3>2, ReplaceIsReplaceAt
    <3>5. Children(Detached(heap, a, c[i]), a) = RemoveAt(c, i)
      BY <2>2, <3>2, DetachIsRemoveAt
    <3>6. QED
      BY <3>3, <3>4, <3>5
  <2>6. QED
    BY <2>4, <2>5
<1>2. QED
  BY <1>1, TreeInvariant, PTL
=============================================================================
