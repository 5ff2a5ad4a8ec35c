------------------------- MODULE CJsonTreeProperties -------------------------
(***************************************************************************)
(* Comparison of the trees of cJSON.c, and what a copy and a comparison    *)
(* promise a caller who keeps the rules of module CJsonTree.               *)
(***************************************************************************)
EXTENDS CJsonTree

RECURSIVE Compare(_, _, _, _)

\* Mutated form: b may have members a has not.
CompareOneWay(h, a, b, sensitive) ==
  /\ a # NoNode /\ b # NoNode
  /\ h[a].type = h[b].type
  /\ CASE a = b -> TRUE
       [] h[a].type \in {"number", "string"} -> h[a].value = h[b].value
       [] h[a].type = "array" ->
            LET c == Children(h, a)
                d == Children(h, b)
            IN  Len(c) = Len(d) /\ \A i \in DOMAIN c : Compare(h, c[i], d[i], sensitive)
       [] OTHER ->
            \A x \in ToSet(Children(h, a)) :
              Compare(h, x, ObjectItem(h, b, h[x].string, sensitive), sensitive)

\* cJSON_Compare: members of objects are looked up by name, from both sides.
Compare(h, a, b, sensitive) ==
  /\ a # NoNode /\ b # NoNode
  /\ h[a].type = h[b].type
  /\ CASE a = b -> TRUE
       [] h[a].type \in {"number", "string"} -> h[a].value = h[b].value
       [] h[a].type = "array" ->
            LET c == Children(h, a)
                d == Children(h, b)
            IN  Len(c) = Len(d) /\ \A i \in DOMAIN c : Compare(h, c[i], d[i], sensitive)
       [] OTHER ->
            /\ \A x \in ToSet(Children(h, a)) :
                 Compare(h, x, ObjectItem(h, b, h[x].string, sensitive), sensitive)
            /\ \A y \in ToSet(Children(h, b)) :
                 Compare(h, y, ObjectItem(h, a, h[y].string, sensitive), sensitive)

-----------------------------------------------------------------------------
\* What an item means, names taken as they are or without their case.
RECURSIVE Meaning(_, _, _)
Meaning(h, n, sensitive) ==
  LET Name(x) == IF sensitive THEN h[x].string ELSE h[x].string \div 2
      c == Children(h, n)
  IN  <<h[n].type, h[n].value,
        IF h[n].type = "object"
        THEN {<<Name(x), Meaning(h, x, sensitive)>> : x \in ToSet(c)}
        ELSE [i \in DOMAIN c |-> Meaning(h, c[i], sensitive)]>>

\* No object at or below n has a member without a name or two of one name.
WellNamed(h, n, sensitive) ==
  \A o \in {n} \cup Below(h, n) :
    h[o].type = "object" =>
      LET c == Children(h, o)
      IN  \A i, j \in DOMAIN c :
            /\ h[c[i]].string # NoKey
            /\ i # j => ~SameName(h[c[i]].string, h[c[j]].string, sensitive)

\* A deep copy means what the original means, stands alone, shares nothing it does
\* not borrow for good, and leaves the rest of the heap alone; with any allocation
\* failing it leaves no trace at all (cJSON.c:2552-2629).
DuplicateIsFaithful ==
  \A n \in Live : \A fuel \in Fuel :
    LET d == Duplicate(Memory(fuel), n, TRUE)
        c == d.item
        fresh == DOMAIN d.heap \ DOMAIN heap
    IN  /\ \A x \in DOMAIN heap : d.heap[x] = heap[x]
        /\ IF c = NoNode THEN fresh = {} /\ d.strings = strings
           ELSE /\ Meaning(d.heap, c, TRUE) = Meaning(heap, n, TRUE)
                /\ d.heap[c].next = NoNode /\ d.heap[c].prev = NoNode
                /\ fresh = {c} \cup Below(d.heap, c)
                /\ \A x \in fresh : ~d.heap[x].ref

\* Items compare equal when they mean the same, where names identify members
\* (cJSON.c:2801-2924; with two members of one name an item differs from its copy).
CompareIsEquality ==
  \A a, b \in Live, s \in BOOLEAN :
    WellNamed(heap, a, s) /\ WellNamed(heap, b, s) =>
      (Compare(heap, a, b, s) <=> Meaning(heap, a, s) = Meaning(heap, b, s))
=============================================================================
