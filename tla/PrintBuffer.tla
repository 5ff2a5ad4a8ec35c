----------------------------- MODULE PrintBuffer -----------------------------
(***************************************************************************)
(* The printbuffer of cJSON.c: a block that grows as text is printed into  *)
(* it.  Positions count from 0 as in the code; ok turns FALSE when a call  *)
(* has failed, and then every further step of a print returns at once;     *)
(* overflow records a write or a read outside the block.                   *)
(***************************************************************************)
EXTENDS Integers, Sequences

CONSTANT INT_MAX
ASSUME BufferAssumption == INT_MAX \in Nat \ {0}

Junk == -1   \* what a fresh block holds

\* null: the buffer pointer is NULL; realloc: whether the allocator has one; fuel: allocations that still succeed;
\* live: blocks that are allocated.
Printbuffer(length, noalloc, format, realloc, fuel, live) ==
  [bytes |-> [i \in 1 .. length |-> Junk], length |-> length, offset |-> 0, depth |-> 0,
   noalloc |-> noalloc, format |-> format, realloc |-> realloc, fuel |-> fuel,
   live |-> live, null |-> FALSE, ok |-> TRUE, overflow |-> FALSE]

Failed(p) == [p EXCEPT !.ok = FALSE]

\* The buffer moves to a block of newsize bytes, or is freed when there is none.  A
\* realloc keeps all bytes, the copy by hand those up to offset.
Grown(p, newsize) ==
  LET kept == IF p.realloc THEN p.length ELSE p.offset + 1
  IN  IF p.fuel = 0
      THEN [p EXCEPT !.ok = FALSE, !.bytes = <<>>, !.length = 0, !.null = TRUE, !.live = @ - 1]
      ELSE [p EXCEPT !.bytes = [i \in 1 .. newsize |->
                                  IF i <= kept /\ i <= p.length THEN @[i] ELSE Junk],
                     !.overflow = @ \/ kept > p.length,
                     !.length = newsize, !.fuel = @ - 1]

\* Mutated form: the bytes already printed are not counted.
EnsuredFromStart(p, needed) ==
  IF ~p.ok \/ needed + 1 <= p.length THEN p
  ELSE IF p.noalloc \/ needed + 1 > INT_MAX THEN Failed(p)
  ELSE Grown(p, IF needed + 1 > INT_MAX \div 2 THEN INT_MAX ELSE (needed + 1) * 2)

\* Mutated form: room for the bytes and none more.
EnsuredTight(p, needed) ==
  IF ~p.ok \/ needed + p.offset <= p.length THEN p
  ELSE IF p.noalloc \/ needed + p.offset > INT_MAX THEN Failed(p)
  ELSE Grown(p, IF needed + p.offset > INT_MAX \div 2 THEN INT_MAX ELSE (needed + p.offset) * 2)

\* ensure: room for `needed` bytes behind offset, and one more.
Ensured(p, needed) ==
  LET wanted == needed + p.offset + 1
  IN  IF ~p.ok THEN p
      ELSE IF p.length > 0 /\ p.offset >= p.length THEN Failed(p)
      ELSE IF needed > INT_MAX THEN Failed(p)
      ELSE IF wanted <= p.length THEN p
      ELSE IF p.noalloc \/ wanted > INT_MAX THEN Failed(p)
      ELSE Grown(p, IF wanted > INT_MAX \div 2 THEN INT_MAX ELSE wanted * 2)

\* deallocate(p->buffer), which may be NULL.
Released(p) == [p EXCEPT !.ok = FALSE, !.live = IF p.null THEN @ ELSE @ - 1, !.null = TRUE]

\* Bytes are written `at` places behind offset.
Written(p, at, new) ==
  LET first == p.offset + at
  IN  IF ~p.ok THEN p
      ELSE [p EXCEPT !.bytes = [i \in DOMAIN @ |->
                                  IF i > first /\ i <= first + Len(new) THEN new[i - first] ELSE @[i]],
                     !.overflow = @ \/ first + Len(new) > p.length]

Advanced(p, n) == IF p.ok THEN [p EXCEPT !.offset = @ + n] ELSE p
Deeper(p, n)   == IF p.ok THEN [p EXCEPT !.depth = @ + n] ELSE p

\* update_offset: strlen from offset on, which runs out of a block without a NUL.
Updated(p) ==
  LET ends == {i \in p.offset + 1 .. p.length : p.bytes[i] = 0}
  IN  IF ~p.ok THEN p
      ELSE IF ends = {} THEN [p EXCEPT !.overflow = TRUE]
      ELSE Advanced(p, (CHOOSE i \in ends : \A j \in ends : i <= j) - 1 - p.offset)
=============================================================================
