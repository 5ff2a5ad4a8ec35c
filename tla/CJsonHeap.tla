------------------------------ MODULE CJsonHeap ------------------------------
(***************************************************************************)
(* What the tree functions of gateway/cJSON.c do to memory.                *)
(*                                                                         *)
(* A call works on a memory: the heap, the number of string blocks, the    *)
(* fuel (allocations that still succeed in this call) and item, the        *)
(* pointer it returns.  Keys 2i and 2i + 1 are one name in two cases.      *)
(***************************************************************************)
EXTENDS CJsonList, Integers, FiniteSets, SequencesExt

CONSTANTS
  Node,      \* the structures malloc may hand out
  Key,       \* member names
  Number,    \* numbers
  Text       \* texts

NoKey == 0
NoValue == 0

ASSUME HeapAssumption ==
  /\ IsFiniteSet(Node)
  /\ NoNode \notin Node
  /\ Key \subseteq Nat \ {NoKey}
  /\ NoValue \notin Number \cup Text

Type == {"number", "string", "array", "object"}
ValueOf(t) == IF t = "number" THEN Number ELSE IF t = "string" THEN Text ELSE {NoValue}

\* lender: the item whose text a reference shows.
Item == [type : Type, ref : BOOLEAN, constKey : BOOLEAN, string : Key \cup {NoKey},
         value : Number \cup Text \cup {NoValue}, next : Node \cup {NoNode}, prev : Node \cup {NoNode},
         child : Node \cup {NoNode}, lender : Node \cup {NoNode}]

\* A new item of a type.
Fresh(type) == [type |-> type, ref |-> FALSE, constKey |-> FALSE, string |-> NoKey,
                value |-> NoValue, next |-> NoNode, prev |-> NoNode, child |-> NoNode,
                lender |-> NoNode]

Returning(m, n) == [m EXCEPT !.item = n]
ReturningNull(m) == Returning(m, NoNode)

-----------------------------------------------------------------------------
(* What hangs together *)

\* S and what is reached from it by a function to sets.
Closure(succ, S) ==
  LET reach[k \in 0 .. Cardinality(DOMAIN succ)] ==
        IF k = 0 THEN S
        ELSE LET T == reach[k - 1] IN T \cup UNION {succ[x] : x \in T}
  IN  reach[Cardinality(DOMAIN succ)]

\* What can be reached by next and child.
Reach(h, S) ==
  Closure([x \in DOMAIN h |-> {h[x].next, h[x].child} \cap DOMAIN h], S \cap DOMAIN h)

Below(h, n) == Reach(h, {h[n].child})
Following(h, n) == Reach(h, {h[n].child, h[n].next})

\* Items, what they own, and what follows them in their lists.
Owned(h, S) ==
  Closure([x \in DOMAIN h |-> ({h[x].next} \cup IF h[x].ref THEN {} ELSE {h[x].child}) \ {NoNode}], S)

\* The list from an item on.
From(h, n) ==
  LET N == Cardinality(DOMAIN h)
      walk[i \in 1 .. N] ==
        IF i = 1 THEN n
        ELSE LET before == walk[i - 1] IN IF before = NoNode THEN NoNode ELSE h[before].next
  IN  [i \in 1 .. Cardinality({i \in 1 .. N : walk[i] # NoNode}) |-> walk[i]]

Children(h, a) == From(h, h[a].child)

-----------------------------------------------------------------------------
(* Allocation and release *)

\* cJSON_New_Item, with the type its caller gives it.
NewItem(m, type) ==
  LET free == Node \ DOMAIN m.heap
      n == CHOOSE n \in free : TRUE
  IN  IF m.fuel = 0 \/ free = {} THEN ReturningNull(m)
      ELSE [m EXCEPT !.heap = [x \in DOMAIN @ \cup {n} |-> IF x = n THEN Fresh(type) ELSE @[x]],
                     !.fuel = @ - 1, !.item = n]

\* cJSON_strdup
CanCopy(m) == m.fuel > 0
Copied(m) == [m EXCEPT !.strings = @ + 1, !.fuel = @ - 1]

\* The blocks some items own.
OwnsText(r) == ~r.ref /\ r.type = "string" /\ r.value # NoValue
OwnsName(r) == ~r.constKey /\ r.string # NoKey
Blocks(h, S) ==
  {<<n, "text">> : n \in {x \in S : OwnsText(h[x])}} \cup
  {<<n, "name">> : n \in {x \in S : OwnsName(h[x])}}

\* cJSON_Delete, of each item of a set: what is reached is freed with its blocks.
Delete(m, S) ==
  LET gone == Owned(m.heap, S \ {NoNode})
  IN  [m EXCEPT !.heap = [x \in DOMAIN @ \ gone |-> @[x]],
                !.strings = @ - Cardinality(Blocks(m.heap, gone))]

-----------------------------------------------------------------------------
(* Items in lists *)

\* get_array_item
ItemAt(h, a, which) ==
  LET c == Children(h, a) IN IF which < Len(c) THEN c[which + 1] ELSE NoNode

SameName(k, l, sensitive) == IF sensitive THEN k = l ELSE k \div 2 = l \div 2

\* get_object_item: with case, the search ends at a member without a name; without
\* case, such a member is passed over.
ObjectItem(h, o, k, sensitive) ==
  LET c == Children(h, o)
      i == SelectInSeq(c, LAMBDA n : \/ sensitive /\ h[n].string = NoKey
                                     \/ h[n].string # NoKey /\ SameName(k, h[n].string, sensitive))
  IN  IF k = NoKey \/ i = 0 \/ h[c[i]].string = NoKey THEN NoNode ELSE c[i]

AddToArray(m, a, n) ==
  LET c == Children(m.heap, a)
      last == IF c = <<>> THEN NoNode ELSE Last(c)
  IN  [m EXCEPT !.heap = AddedLast(@, a, last, n)]

\* Mutated form: the name an item had is not freed.
AddToObjectKeepingName(m, o, k, n, constant) ==
  IF n = NoNode \/ (~constant /\ ~CanCopy(m)) THEN ReturningNull(m)
  ELSE LET named == IF constant THEN m ELSE Copied(m)
       IN  Returning(AddToArray([named EXCEPT !.heap[n].string = k,
                                              !.heap[n].constKey = constant], o, n), n)

\* add_item_to_object; returns the item, or NULL where the code returns false.
AddToObject(m, o, k, n, constant) ==
  IF n = NoNode \/ (~constant /\ ~CanCopy(m)) THEN ReturningNull(m)
  ELSE LET old == IF OwnsName(m.heap[n]) THEN 1 ELSE 0
           named == [(IF constant THEN m ELSE Copied(m)) EXCEPT
                       !.strings = @ - old, !.heap[n].string = k, !.heap[n].constKey = constant]
       IN  Returning(AddToArray(named, o, n), n)

-----------------------------------------------------------------------------
(* Creation *)

\* cJSON_CreateNumber, CreateArray, CreateObject; and cJSON_CreateString, CreateRaw,
\* which give the item back when the text cannot be copied.
Create(m, type, value) ==
  LET new == NewItem(m, type)
      n == new.item
      held == IF type = "string" THEN Copied(new) ELSE new
  IN  IF n = NoNode THEN new
      ELSE IF type = "string" /\ ~CanCopy(new) THEN ReturningNull(Delete(new, {n}))
      ELSE [held EXCEPT !.heap[n].value = value]

\* cJSON_CreateStringReference: the text is the caller's.
CreateStringReference(m, value) ==
  LET new == NewItem(m, "string")
  IN  IF new.item = NoNode THEN new
      ELSE [new EXCEPT !.heap[new.item].ref = TRUE, !.heap[new.item].value = value]

\* cJSON_CreateArrayReference, CreateObjectReference
CreateListReference(m, type, child) ==
  LET new == NewItem(m, type)
  IN  IF new.item = NoNode THEN new
      ELSE [new EXCEPT !.heap[new.item].ref = TRUE, !.heap[new.item].child = child]

\* create_reference
CreateReference(m, n) ==
  LET r == m.heap[n]
      new == NewItem(m, r.type)
  IN  IF new.item = NoNode THEN new
      ELSE [new EXCEPT !.heap[new.item] =
              [r EXCEPT !.string = NoKey, !.ref = TRUE, !.next = NoNode, !.prev = NoNode,
                        !.lender = IF OwnsText(r) THEN n ELSE @]]

\* cJSON_CreateIntArray and its siblings: an item more behind the last one; when it
\* cannot be created, the array is deleted.
Extended(m, a, last, type, value) ==
  LET new == Create(m, type, value)
  IN  IF new.item = NoNode THEN ReturningNull(Delete(new, {a}))
      ELSE [new EXCEPT !.heap = AddedLast(@, a, last, new.item)]

CreateArrayOf(m, type, value, count) ==
  LET array == Create(m, "array", NoValue)
      a == array.item
      filled[i \in 0 .. count] ==
        IF i = 0 THEN [m |-> array, last |-> NoNode]
        ELSE LET before == filled[i - 1]
                 more == Extended(before.m, a, before.last, type, value)
             IN  IF before.m.item = NoNode THEN before ELSE [m |-> more, last |-> more.item]
      full == filled[count].m
  IN  IF full.item = NoNode THEN full ELSE Returning(full, a)

-----------------------------------------------------------------------------
(* Copies *)

\* Mutated form: the copy of a reference still counts as one.
CopyAsReference(m, n) ==
  LET r == m.heap[n]
      new == NewItem(m, r.type)
  IN  IF new.item = NoNode THEN new
      ELSE [new EXCEPT !.heap[new.item] =
              [r EXCEPT !.next = NoNode, !.prev = NoNode, !.ref = TRUE, !.constKey = TRUE]]

\* cJSON_Duplicate before its loop: the item, its text, its name; a constant one is shared.
CopyItem(m, n) ==
  LET r == m.heap[n]
      new == NewItem(m, r.type)
      c == new.item
      held == [(IF r.type = "string" THEN Copied(new) ELSE new) EXCEPT !.heap[c].value = r.value]
      named == [(IF OwnsName(r) THEN Copied(held) ELSE held) EXCEPT
                  !.heap[c].string = r.string, !.heap[c].constKey = r.constKey]
  IN  IF c = NoNode THEN new
      ELSE IF r.type = "string" /\ ~CanCopy(new) THEN ReturningNull(Delete(new, {c}))
      ELSE IF OwnsName(r) /\ ~CanCopy(held) THEN ReturningNull(Delete(held, {c}))
      ELSE named

(* Its loop over the children, which calls it again: open are the copies under way, the *)
(* outermost first, each with the copy of a child it linked last and the child to copy  *)
(* next.                                                                                *)

Opened(c, child) == [copy |-> c, last |-> NoNode, child |-> child]

\* The next child is copied without its children; when that fails, each call deletes the
\* copy it has under way.
Descended(s) ==
  LET child == Last(s.open).child
      new == CopyItem(s.m, child)
  IN  IF new.item = NoNode
      THEN [m |-> ReturningNull(Delete(new, {f.copy : f \in ToSet(s.open)})), open |-> <<>>]
      ELSE [m |-> new, open |-> Append(s.open, Opened(new.item, s.m.heap[child].child))]

\* A copy has all its children: it is returned, and linked by the call that asked for it.
Ascended(s) ==
  LET done == Last(s.open).copy
      outer == Front(s.open)
      f == Last(outer)
  IN  IF outer = <<>> THEN [m |-> Returning(s.m, done), open |-> <<>>]
      ELSE [m |-> [s.m EXCEPT !.heap = AddedLast(@, f.copy, f.last, done)],
            open |-> Append(Front(outer),
                            [f EXCEPT !.last = done, !.child = s.m.heap[@].next])]

Copying(s) ==
  IF s.open = <<>> THEN s ELSE IF Last(s.open).child = NoNode THEN Ascended(s) ELSE Descended(s)

\* cJSON_Duplicate: each structure is created once and finished once.
Duplicate(m, n, recurse) ==
  LET first == CopyItem(m, n)
      run[k \in 0 .. 2 * Cardinality(Node)] ==
        IF k = 0 THEN [m |-> first, open |-> <<Opened(first.item, m.heap[n].child)>>]
        ELSE Copying(run[k - 1])
  IN  IF first.item = NoNode \/ ~recurse THEN first ELSE run[2 * Cardinality(Node)].m
=============================================================================
