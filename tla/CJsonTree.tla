------------------------------ MODULE CJsonTree ------------------------------
(***************************************************************************)
(* The trees of gateway/cJSON.c as a caller builds and takes them apart:   *)
(* every function that creates, links, copies or frees a cJSON structure   *)
(* is an action, its failure when memory runs out included.                *)
(*                                                                         *)
(* The caller keeps the library's rules: only what it owns is added, and   *)
(* to containers that own their children; nothing is put below itself; and *)
(* nothing is deleted that a reference still shows.                        *)
(***************************************************************************)
EXTENDS CJsonHeap

CONSTANTS
  Fuel,      \* how many allocations of a call succeed, in the calls looked at
  MaxCalls   \* bound: calls of one history

ASSUME TreeAssumption == Fuel \subseteq Nat /\ MaxCalls \in Nat

VARIABLES
  heap,      \* of each live structure: its fields
  strings,   \* live blocks that hold a name or a text
  roots,     \* items whose pointer the caller holds and owes a cJSON_Delete
  lost,      \* references nobody has a pointer to any more
  calls      \* calls made that changed something

vars == <<heap, strings, roots, lost, calls>>

Memory(fuel) == [heap |-> heap, strings |-> strings, fuel |-> fuel, item |-> NoNode]

-----------------------------------------------------------------------------
(* The caller's calls *)

\* The caller puts nothing below itself and deletes nothing a reference shows, which is
\* something it had a pointer to.
RulesKept(h) ==
  /\ \A n \in DOMAIN h : n \notin Following(h, n)
  /\ \A n \in DOMAIN h \ lost :
       h[n].ref => {h[n].child, h[n].lender} \ {NoNode} \subseteq DOMAIN h \ lost

Live == DOMAIN heap \ lost
Container == {a \in Live : ~heap[a].ref /\ heap[a].type \in {"array", "object"}}
Array == {a \in Container : heap[a].type = "array"}
Object == {o \in Container : heap[o].type = "object"}
Returned(m) == {m.item} \ {NoNode}

Becomes(m, owned) ==
  /\ RulesKept(m.heap)
  /\ heap' = m.heap
  /\ strings' = m.strings
  /\ roots' = owned

\* The call gives the caller a new item.
Gives(m) == Becomes(m, roots \cup Returned(m)) /\ UNCHANGED lost

\* The call takes an item of the caller's, unless it fails.
Takes(m) == Becomes(m, roots \ Returned(m)) /\ UNCHANGED lost

CallCreate(m) ==
  \/ \E t \in Type : \E v \in ValueOf(t) : Gives(Create(m, t, v))
  \/ \E v \in Text : Gives(CreateStringReference(m, v))
  \/ \E t \in {"array", "object"}, n \in Live :
       Gives(CreateListReference(m, t, n))
  \/ \E t \in {"number", "string"} : \E v \in ValueOf(t) : Gives(CreateArrayOf(m, t, v, 2))

CallAddItemToArray(m) ==
  \E a \in Array, n \in roots : Takes(Returning(AddToArray(m, a, n), n))

\* Without a word to the caller when the name cannot be copied: the item stays its own.
CallAddItemToObject(m) ==
  \E o \in Object, n \in roots, k \in Key, constant \in BOOLEAN :
    Takes(AddToObject(m, o, k, n, constant))

CallAddReferenceToArray(m) ==
  \E a \in Array, n \in Live :
    LET new == CreateReference(m, n)
    IN  /\ Becomes(IF new.item = NoNode THEN new ELSE AddToArray(new, a, new.item), roots)
        /\ UNCHANGED lost

\* A reference whose name cannot be copied is dropped, not deleted.
CallAddReferenceToObject(m) ==
  \E o \in Object, n \in Live, k \in Key :
    LET new == CreateReference(m, n)
        added == AddToObject(new, o, k, new.item, FALSE)
    IN  /\ Becomes(added, roots)
        /\ lost' = lost \cup (Returned(new) \ Returned(added))

\* cJSON_AddNumberToObject and its eight siblings.
CallAddNewToObject(m) ==
  \E o \in Object, k \in Key, t \in Type : \E v \in ValueOf(t) :
    LET new == Create(m, t, v)
        added == AddToObject(new, o, k, new.item, FALSE)
    IN  /\ Becomes(IF added.item = NoNode THEN Delete(added, {new.item}) ELSE added, roots)
        /\ UNCHANGED lost

\* An item of a container, found by its place or by its name.
Found(a) ==
  ({ItemAt(heap, a, i) : i \in 0 .. Len(Children(heap, a))}
     \cup {ObjectItem(heap, a, k, s) : k \in Key, s \in BOOLEAN}) \ {NoNode}

\* cJSON_DetachItemFromArray, DetachItemFromObject
CallDetach(m) ==
  \E a \in Container : \E n \in Found(a) :
    Gives(Returning([m EXCEPT !.heap = Detached(@, a, n)], n))

\* cJSON_DeleteItemFromArray, DeleteItemFromObject
CallDeleteItem(m) ==
  \E a \in Container : \E n \in Found(a) :
    Gives(Delete([m EXCEPT !.heap = Detached(@, a, n)], {n}))

CallDelete(m) == \E n \in roots : Becomes(Delete(m, {n}), roots \ {n}) /\ UNCHANGED lost

\* cJSON_InsertItemInArray: behind the last item it appends.
CallInsert(m) ==
  \E a \in Array, n \in roots : \E i \in 0 .. Len(Children(heap, a)) :
    LET after == ItemAt(heap, a, i)
    IN  Takes(Returning(IF after = NoNode THEN AddToArray(m, a, n)
                        ELSE [m EXCEPT !.heap = Inserted(@, a, after, n)], n))

\* cJSON_ReplaceItemViaPointer on what was found; without a find nothing changes.
Replace(m, a, n, r) ==
  IF n = NoNode THEN ReturningNull(m)
  ELSE Returning(Delete([m EXCEPT !.heap = Replaced(@, a, n, r)], {n}), r)

CallReplaceInArray(m) ==
  \E a \in Array, r \in roots : \E i \in 0 .. Len(Children(heap, a)) :
    Takes(Replace(m, a, ItemAt(heap, a, i), r))

\* replace_item_in_object: the replacement is renamed first, to NULL when the name
\* cannot be copied, and also when there is nothing to replace.
Renamed(m, r, k) ==
  LET freed == [m EXCEPT !.strings = @ - IF OwnsName(m.heap[r]) THEN 1 ELSE 0,
                         !.heap[r].constKey = FALSE]
  IN  IF CanCopy(freed) THEN [Copied(freed) EXCEPT !.heap[r].string = k]
      ELSE [freed EXCEPT !.heap[r].string = NoKey]

CallReplaceInObject(m) ==
  \E o \in Object, r \in roots, k \in Key, s \in BOOLEAN :
    Takes(Replace(Renamed(m, r, k), o, ObjectItem(heap, o, k, s), r))

CallDuplicate(m) == \E n \in Live, recurse \in BOOLEAN : Gives(Duplicate(m, n, recurse))

-----------------------------------------------------------------------------
Init == heap = <<>> /\ strings = 0 /\ roots = {} /\ lost = {} /\ calls = 0

\* Calls that allocate, and calls that only link and free.
Allocating(m) ==
  \/ CallCreate(m) \/ CallDuplicate(m) \/ CallAddItemToObject(m) \/ CallAddNewToObject(m)
  \/ CallAddReferenceToArray(m) \/ CallAddReferenceToObject(m) \/ CallReplaceInObject(m)

Linking(m) ==
  \/ CallDelete(m) \/ CallAddItemToArray(m) \/ CallDetach(m) \/ CallDeleteItem(m)
  \/ CallInsert(m) \/ CallReplaceInArray(m)

Next ==
  /\ calls < MaxCalls
  /\ (\E fuel \in Fuel : Allocating(Memory(fuel))) \/ Linking(Memory(0))
  /\ calls' = IF UNCHANGED <<heap, strings, roots, lost>> THEN calls ELSE calls + 1

Spec == Init /\ [][Next]_vars

-----------------------------------------------------------------------------
TypeOK ==
  /\ DOMAIN heap \subseteq Node
  /\ \A n \in DOMAIN heap : heap[n] \in Item
  /\ strings \in Nat
  /\ roots \cup lost \subseteq DOMAIN heap
  /\ calls \in Nat

\* Neighbours agree, whatever was added, inserted, replaced and
\* detached in it; an item the caller owns stands in no list (cJSON.c:2073-2205).
ListsAreLinked ==
  /\ Linked(heap)
  /\ \A n \in roots \cup lost : heap[n].next = NoNode /\ heap[n].prev = NoNode

\* Every list can be walked both ways after every sequence of calls, what stands in it
\* is a live structure with fields of its types (cJSON.c:212-233, 1818-1932, 2073-2245).
HeapIsSound == TypeOK /\ ListsAreLinked

\* Every live structure has exactly one who must free it: the caller, or the one
\* container it is a child of.  Only references that got no name have nobody
\* (cJSON.c:1962); no call that fails leaks (cJSON.c:1897-1963, 2552-2629).
OneOwner ==
  \A n \in DOMAIN heap :
    LET owners == {a \in DOMAIN heap : ~heap[a].ref /\ n \in ToSet(Children(heap, a))}
    IN  Cardinality(owners) + (IF n \in roots \cup lost THEN 1 ELSE 0) = 1

\* The blocks for names and texts are those the live structures own: none is freed
\* twice, none is forgotten (cJSON.c:212-233, 1918-1937, 2221-2231).
StringsAccounted == strings = Cardinality(Blocks(heap, DOMAIN heap))

\* Whatever was allocated, structure or string, has exactly one who will free it, through
\* every failure inside a call (cJSON.c:212-233, 1897-1963, 2217-2245, 2408-2629).
EverythingIsOwned == OneOwner /\ StringsAccounted

\* The pointer work of the list functions is that of a sequence: append, insert,
\* replace, remove, at every place (cJSON.c:1846-1879, 2073-2205).
ListsAreSequences ==
  \A a \in Array, r \in roots :
    LET c == Children(heap, a)
        m == Memory(0)
    IN  r \notin {a} \cup Below(heap, a) /\ a \notin Below(heap, r) =>
          /\ Children(AddToArray(m, a, r).heap, a) = Append(c, r)
          /\ \A i \in DOMAIN c :
               /\ Children(Inserted(heap, a, c[i], r), a) = InsertAt(c, i, r)
               /\ Children(Replaced(heap, a, c[i], r), a) = ReplaceAt(c, i, r)
               /\ Children(Detached(heap, a, c[i]), a) = RemoveAt(c, i)
=============================================================================
