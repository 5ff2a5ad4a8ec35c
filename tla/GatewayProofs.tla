---------------------------- MODULE GatewayProofs ----------------------------
(***************************************************************************)
(* Gateway for every set of requests and workers, and every bound.  First  *)
(* what holds in spite of the missing lock: type correctness, and that no  *)
(* answer comes before the query or the call to Astraea it needs.  Then    *)
(* what holds until two threads meet in the queue: no request is lost or   *)
(* answered twice before it is outdated, and the gateway implements        *)
(* RequestService.                                                         *)
(***************************************************************************)
EXTENDS GatewayHistory, WellFoundedInduction, TLAPS

\* A step that leaves the variables of a part alone keeps the type of the part.
LEMMA PartsKept ==
  /\ ThroughputTypeOK /\ UNCHANGED <<clock, recordVars>> => ThroughputTypeOK'
  /\ HandlerTypeOK /\ UNCHANGED handlerVars => HandlerTypeOK'
  /\ CounterTypeOK /\ UNCHANGED counterVars => CounterTypeOK'
  /\ EntryTypeOK /\ UNCHANGED entryVars => EntryTypeOK'
  /\ QueueTypeOK /\ UNCHANGED queueVars => QueueTypeOK'
  /\ ReleaseTypeOK /\ UNCHANGED releaseVars => ReleaseTypeOK'
BY DEF ThroughputTypeOK, recordVars, HandlerTypeOK, Serving, handlerVars, CounterTypeOK,
   counterVars, EntryTypeOK, entryVars, QueueTypeOK, queueVars, ReleaseTypeOK,
   releaseVars

\* A worker that moves within a handler keeps the type of the handlers.
LEMMA MoveWithin ==
  ASSUME HandlerTypeOK, NEW w \in Worker, NEW from \in Label, NEW to \in Label,
         Goto(w, from, to), UNCHANGED req, reg' \in [Worker -> Nat],
         from \in {"count", "post", "posted", "join"}
           <=> to \in {"count", "post", "posted", "join"}
  PROVE  HandlerTypeOK'
<1>1. pc' \in [Worker -> Label]
  BY DEF HandlerTypeOK, Goto
<1>2. \A v \in Worker : Serving(v)' <=> Serving(v)
  BY DEF HandlerTypeOK, Goto, Serving
<1>3. QED
  BY <1>1, <1>2 DEF HandlerTypeOK

\* The first state has the types.
LEMMA Initially == GatewayInit => TypeOK
<1> SUFFICES ASSUME GatewayInit PROVE TypeOK
  OBVIOUS
<1>1. ThroughputTypeOK
  BY ThroughputAssumption DEF GatewayInit, ThroughputInit, ThroughputTypeOK
<1>2. HandlerTypeOK /\ CounterTypeOK
  BY DEF GatewayInit, HandlerTypeOK, CounterTypeOK, Label, Serving
<1>3. EntryTypeOK /\ QueueTypeOK
  BY DEF GatewayInit, EntryTypeOK, QueueTypeOK, PushStage
<1>4. ReleaseTypeOK
  BY DEF GatewayInit, ReleaseTypeOK
<1>5. QED
  BY <1>1, <1>2, <1>3, <1>4 DEF GatewayInit, TypeOK

\* record_time keeps the record well-formed: the rows are opened before the last
\* one is read.
LEMMA RecordTimeType ==
  ASSUME ThroughputTypeOK, record_time(clock), UNCHANGED clock
  PROVE  ThroughputTypeOK'
<1> DEFINE rows == OpenedAt(clock)
<1>1. clock \in Nat /\ second_throughput \in Seq(Row) /\ csv \in Seq(Row) /\ throughput \in Nat
  BY ThroughputAssumption DEF ThroughputTypeOK
<1>2. rows \in Seq(Row)
  <2>1. [second |-> clock, calls |-> 0] \in Row
    BY <1>1 DEF Row
  <2>2. QED
    BY <1>1, <2>1 DEF OpenedAt
<1>3. csv' \in Seq(Row)
  BY <1>1, <1>2 DEF record_time, check_timeout, record_requests
<1>4. second_throughput' \in Seq(Row)
  <2>1. [second |-> clock, calls |-> throughput] \in Row
    BY <1>1 DEF Row
  <2>2. QED
    BY <1>2, <2>1 DEF record_time
<1>5. throughput' \in Nat
  BY <1>1 DEF record_time
<1>6. QED
  BY <1>3, <1>4, <1>5 DEF ThroughputTypeOK

\* A process that dies leaves its memory as it is.
LEMMA CrashKeepsType == TypeOK /\ Crash => TypeOK'
BY PartsKept DEF TypeOK, Crash

-----------------------------------------------------------------------------
\* Each step of the two client handlers keeps the types.
LEMMA ReadHandlerType ==
  ASSUME TypeOK, NEW w \in Worker, ReadHandler(w)
  PROVE  TypeOK'
<1> USE DEF TypeOK
<1>1. CASE CountRead(w)
  <2>1. HandlerTypeOK'
    BY <1>1, MoveWithin DEF CountRead, HandlerTypeOK, Label
  <2>2. CounterTypeOK'
    BY <1>1 DEF CountRead, CounterTypeOK, HandlerTypeOK
  <2>3. EntryTypeOK'
    BY <1>1 DEF CountRead, EntryTypeOK, PushStage
  <2>4. QED
    BY <1>1, <2>1, <2>2, <2>3, PartsKept DEF CountRead
<1>2. CASE PostWrite(w)
  <2>1. HandlerTypeOK'
    BY <1>2, MoveWithin DEF PostWrite, HandlerTypeOK, Label
  <2>2. writePosts' \subseteq Request
    BY <1>2 DEF PostWrite, HandlerTypeOK, Serving, Goto
  <2>3. QED
    BY <1>2, <2>1, <2>2, PartsKept DEF PostWrite
<1>3. CASE PostReturns(w)
  <2>1. HandlerTypeOK'
    BY <1>3, MoveWithin DEF PostReturns, HandlerTypeOK, Label
  <2>2. CounterTypeOK'
    BY <1>3 DEF PostReturns, CounterTypeOK
  <2>3. ThroughputTypeOK'
    BY <1>3 DEF PostReturns, ThroughputTypeOK, record_requests
  <2>4. QED
    BY <1>3, <2>1, <2>2, <2>3, PartsKept DEF PostReturns
<1>4. CASE Join(w)
  <2>1. HandlerTypeOK'
    BY <1>4 DEF HandlerTypeOK, Join, Goto, Label, Serving
  <2>2. QED
    BY <1>4, <2>1, PartsKept DEF Join
<1>5. QED
  BY <1>1, <1>2, <1>3, <1>4 DEF ReadHandler

\* Each step of a request on its way into the queue keeps the types.
LEMMA PushType ==
  ASSUME TypeOK, NEW r \in Request,
         Query(r) \/ StoreEntry(r) \/ PublishTail(r)
  PROVE  TypeOK'
<1> USE DEF TypeOK
<1>1. CASE Query(r)
  <2>1. clock \in Nat
    BY ThroughputAssumption DEF ThroughputTypeOK
  <2>2. EntryTypeOK'
    BY <1>1, <2>1 DEF Query, EntryTypeOK, PushStage
  <2>3. QED
    BY <1>1, <2>2, PartsKept DEF Query
<1>2. CASE StoreEntry(r)
  <2>1. EntryTypeOK'
    BY <1>2 DEF StoreEntry, EntryTypeOK, PushStage, QueueTypeOK
  <2>2. QueueTypeOK'
    BY <1>2 DEF StoreEntry, QueueTypeOK
  <2>3. QED
    BY <1>2, <2>1, <2>2, PartsKept DEF StoreEntry
<1>3. CASE PublishTail(r)
  <2>1. EntryTypeOK'
    BY <1>3 DEF PublishTail, EntryTypeOK, PushStage
  <2>2. QueueTypeOK'
    BY <1>3 DEF PublishTail, EntryTypeOK, QueueTypeOK
  <2>3. QED
    BY <1>3, <2>1, <2>2, PartsKept DEF PublishTail
<1>4. QED
  BY <1>1, <1>2, <1>3

\* A request or a release that is taken up keeps the types.
LEMMA AcceptType ==
  ASSUME TypeOK, NEW w \in Worker, Accept(w) \/ AcceptRelease(w)
  PROVE  TypeOK'
<1> USE DEF TypeOK
<1>1. ASSUME NEW r \in ReadRequest, AcceptRead(w, r) PROVE TypeOK'
  <2>1. HandlerTypeOK'
    BY <1>1, GatewayAssumption
    DEF AcceptRead, HandlerTypeOK, CounterTypeOK, Goto, Label, Serving, Request
  <2>2. EntryTypeOK'
    BY <1>1 DEF AcceptRead, EntryTypeOK, PushStage, Request
  <2>3. QED
    BY <1>1, <2>1, <2>2, PartsKept DEF AcceptRead
<1>2. ASSUME NEW r \in WriteRequest, AcceptWrite(w, r) PROVE TypeOK'
  <2>1. HandlerTypeOK'
    BY <1>2, GatewayAssumption
    DEF AcceptWrite, HandlerTypeOK, Goto, Label, Serving, Request
  <2>2. clock \in Nat
    BY ThroughputAssumption DEF ThroughputTypeOK
  <2>3. EntryTypeOK'
    BY <1>2, <2>2 DEF AcceptWrite, EntryTypeOK, PushStage, Request
  <2>4. writePosts' \subseteq Request
    BY <1>2 DEF AcceptWrite, Request
  <2>5. QED
    BY <1>2, <2>1, <2>3, <2>4, PartsKept DEF AcceptWrite
<1>3. CASE AcceptRelease(w)
  <2>1. HandlerTypeOK'
    BY <1>3, MoveWithin DEF AcceptRelease, HandlerTypeOK, Label
  <2>2. CounterTypeOK'
    BY <1>3 DEF AcceptRelease, CounterTypeOK
  <2>3. QED
    BY <1>3, <2>1, <2>2, PartsKept DEF AcceptRelease
<1>4. QED
  BY <1>1, <1>2, <1>3 DEF Accept

\* What a thread finds in memory is junk or a request.
LEMMA FoundType == QueueTypeOK => Found \subseteq Request \cup {Junk}
BY DEF QueueTypeOK, Found

\* What is left of a sequence behind its first n elements is a sequence.
LEMMA DropFirst ==
  ASSUME NEW S, NEW s \in Seq(S), NEW n \in Nat
  PROVE  SubSeq(s, n + 1, Len(s)) \in Seq(S)
OBVIOUS

\* A turn of the walk over the copy keeps the types of the locals.
LEMMA WalkTurnType ==
  ASSUME TypeOK, NEW w \in Worker, NEW n \in Nat, NEW e \in Request \cup {Junk},
         WalkTurn(w, n, e)
  PROVE  TypeOK'
<1> USE DEF TypeOK
<1>1. duplicate' \in [Worker -> Seq(Request \cup {Junk})]
  BY DropFirst DEF WalkTurn, ReleaseTypeOK
<1>2. requests' \in [Worker -> Seq(Request \cup {Junk})]
  BY DEF WalkTurn, ReleaseTypeOK
<1>3. countPops' \in [Worker -> Nat]
  BY DEF WalkTurn, ReleaseTypeOK
<1>4. ReleaseTypeOK'
  BY <1>1, <1>2, <1>3 DEF ReleaseTypeOK
<1>5. QED
  BY <1>4, PartsKept DEF WalkTurn

\* The copy of the queue is a sequence of requests and junk.
LEMMA CopyType ==
  ASSUME TypeOK, NEW w \in Worker, Copy(w)
  PROVE  TypeOK'
<1> USE DEF TypeOK
<1>1. PICK found \in Found :
        duplicate' = [duplicate EXCEPT ![w] =
                        [i \in 1 .. tail - head |->
                           IF head + i - 1 \in Gaps THEN found ELSE slot[head + i - 1]]]
  BY DEF Copy
<1> DEFINE copied == [i \in 1 .. tail - head |->
                        IF head + i - 1 \in Gaps THEN found ELSE slot[head + i - 1]]
<1>2. tail - head \in Nat
  BY DEF Copy, QueueTypeOK
<1>3. ASSUME NEW i \in 1 .. tail - head
      PROVE  copied[i] \in Request \cup {Junk}
  <2>1. head + i - 1 \in head .. tail - 1
    BY <1>2 DEF QueueTypeOK
  <2>2. CASE head + i - 1 \in Gaps
    BY <2>2, FoundType
  <2>3. CASE head + i - 1 \notin Gaps
    BY <2>1, <2>3 DEF Gaps, QueueTypeOK
  <2>4. QED
    BY <2>2, <2>3
<1>4. copied \in Seq(Request \cup {Junk})
  BY <1>2, <1>3
<1>5. ReleaseTypeOK'
  BY <1>1, <1>4 DEF Copy, ReleaseTypeOK
<1>6. HandlerTypeOK'
  <2>1. CASE head = tail
    BY <2>1, MoveWithin DEF Copy, HandlerTypeOK, Label
  <2>2. CASE head # tail
    BY <2>2, MoveWithin DEF Copy, HandlerTypeOK, Label
  <2>3. QED
    BY <2>1, <2>2
<1>7. QED
  BY <1>5, <1>6, PartsKept DEF Copy

\* A worker pops only while its loop has a turn left.
PopsLeft == \A w \in Worker : pc[w] = "pop" => countPops[w] > 0

\* Each step of a release keeps the types; a pop has a count to take from.
LEMMA ReleaseHandlerType ==
  ASSUME TypeOK, PopsLeft, NEW w \in Worker, ReleaseHandler(w)
  PROVE  TypeOK'
<1> USE DEF TypeOK
<1>1. CASE Copy(w)
  BY <1>1, CopyType
<1>2. CASE CopyFails(w)
  BY <1>2, CrashKeepsType DEF CopyFails
<1>3. CASE TakeValid(w)
  <2>1. Head(duplicate[w]) \in Request \cup {Junk}
    BY <1>3 DEF TakeValid, ReleaseTypeOK
  <2>2. QED
    BY <1>3, <2>1, WalkTurnType DEF TakeValid
<1>4. CASE DropOutdated(w)
  <2>1. duplicate[w][2] \in Request \cup {Junk}
    BY <1>4 DEF DropOutdated, ReleaseTypeOK
  <2>2. QED
    BY <1>4, <2>1, WalkTurnType DEF DropOutdated
<1>5. CASE Overrun(w)
  BY <1>5, WalkTurnType, FoundType, CrashKeepsType DEF Overrun
<1>6. CASE WalkEnd(w)
  <2>1. HandlerTypeOK'
    BY <1>6, MoveWithin DEF WalkEnd, HandlerTypeOK, Label
  <2>2. ReleaseTypeOK'
    BY <1>6 DEF WalkEnd, ReleaseTypeOK
  <2>3. QED
    BY <1>6, <2>1, <2>2, PartsKept DEF WalkEnd
<1>7. CASE SeeNonEmpty(w)
  <2>1. HandlerTypeOK'
    BY <1>7, MoveWithin DEF SeeNonEmpty, HandlerTypeOK, QueueTypeOK, Label
  <2>2. QED
    BY <1>7, <2>1, PartsKept DEF SeeNonEmpty
<1>8. CASE SeeEmpty(w)
  <2>1. ReleaseTypeOK'
    BY <1>8 DEF SeeEmpty, ReleaseTypeOK
  <2>2. QED
    BY <1>8, <2>1, PartsKept DEF SeeEmpty
<1>9. CASE Pop(w)
  <2>1. HandlerTypeOK'
    BY <1>9, MoveWithin DEF Pop, HandlerTypeOK, Label
  <2>2. QueueTypeOK'
    BY <1>9 DEF Pop, QueueTypeOK, HandlerTypeOK
  <2>3. ReleaseTypeOK'
    BY <1>9 DEF Pop, Goto, PopsLeft, ReleaseTypeOK
  <2>4. QED
    BY <1>9, <2>1, <2>2, <2>3, PartsKept DEF Pop
<1>10. CASE PopsDone(w)
  <2>1. HandlerTypeOK'
    BY <1>10, MoveWithin DEF PopsDone, HandlerTypeOK, Label
  <2>2. QED
    BY <1>10, <2>1, PartsKept DEF PopsDone
<1>11. CASE Answer(w)
  <2>1. HandlerTypeOK'
    BY <1>11, MoveWithin DEF Answer, HandlerTypeOK, Label
  <2>2. ReleaseTypeOK'
    BY <1>11 DEF Answer, ReleaseTypeOK
  <2>3. responses' \in [Request -> Nat]
    BY <1>11 DEF Answer
  <2>4. QED
    BY <1>11, <2>1, <2>2, <2>3, PartsKept DEF Answer
<1>12. CASE RecordTime(w)
  <2>1. HandlerTypeOK'
    BY <1>12, MoveWithin DEF RecordTime, HandlerTypeOK, Label
  <2>2. ThroughputTypeOK'
    BY <1>12, RecordTimeType, PartsKept DEF RecordTime
  <2>3. QED
    BY <1>12, <2>1, <2>2, PartsKept DEF RecordTime
<1>13. CASE ReleaseDone(w)
  <2>1. HandlerTypeOK'
    BY <1>13, MoveWithin DEF ReleaseDone, HandlerTypeOK, Label
  <2>2. QED
    BY <1>13, <2>1, PartsKept DEF ReleaseDone
<1>14. QED
  BY <1>1, <1>2, <1>3, <1>4, <1>5, <1>6, <1>7, <1>8, <1>9, <1>10, <1>11, <1>12, <1>13
  DEF ReleaseHandler, GetRequestsSentToAstraea

\* Types are preserved by every step of the gateway.
LEMMA StepType == TypeOK /\ PopsLeft /\ [GatewayNext]_gatewayVars => TypeOK'
<1> SUFFICES ASSUME TypeOK, PopsLeft, [GatewayNext]_gatewayVars PROVE TypeOK'
  OBVIOUS
<1>1. ASSUME NEW w \in Worker, HandlerStep(w) PROVE TypeOK'
  BY <1>1, ReadHandlerType, ReleaseHandlerType DEF HandlerStep
<1>2. ASSUME NEW w \in Worker, Accept(w) \/ ReleaseArrives(w) PROVE TypeOK'
  BY <1>2, AcceptType DEF ReleaseArrives
<1>3. ASSUME NEW r \in Request, PushStep(r) PROVE TypeOK'
  BY <1>3, PushType, CrashKeepsType DEF PushStep, QueryFails
<1>4. CASE ClockTick
  <2>1. ThroughputTypeOK'
    BY <1>4, ThroughputAssumption
    DEF ClockTick, Tick, recordVars, TypeOK, ThroughputTypeOK
  <2>2. QED
    BY <1>4, <2>1, PartsKept DEF ClockTick, TypeOK
<1>5. CASE RaceCrashes
  BY <1>5, CrashKeepsType DEF RaceCrashes
<1>6. CASE UNCHANGED gatewayVars
  BY <1>6, PartsKept DEF gatewayVars, TypeOK
<1>7. QED
  BY <1>1, <1>2, <1>3, <1>4, <1>5, <1>6 DEF GatewayNext

\* Only the check that finds the queue non-empty leads to a pop, and it is made
\* while a turn is left; no other worker touches the count.
LEMMA StepPopsLeft == TypeOK /\ PopsLeft /\ [GatewayNext]_gatewayVars => PopsLeft'
<1> SUFFICES ASSUME TypeOK, PopsLeft, [GatewayNext]_gatewayVars,
                    NEW v \in Worker, pc'[v] = "pop"
             PROVE  countPops'[v] > 0
  BY DEF PopsLeft
<1> USE DEF TypeOK, HandlerTypeOK, ReleaseTypeOK, PopsLeft
<1>1. ASSUME NEW w \in Worker, HandlerStep(w) PROVE countPops'[v] > 0
  <2>1. CASE ReadHandler(w)
    BY <2>1 DEF ReadHandler, CountRead, PostWrite, PostReturns, Join, Goto, releaseVars
  <2>2. CASE Copy(w) \/ CopyFails(w)
    BY <2>2 DEF Copy, CopyFails, Crash, Goto, handlerVars, releaseVars
  <2>3. ASSUME NEW n \in Nat, NEW e, WalkTurn(w, n, e) PROVE countPops'[v] > 0
    BY <2>3 DEF WalkTurn, handlerVars
  <2>4. CASE TakeValid(w) \/ DropOutdated(w) \/ Overrun(w)
    BY <2>3, <2>4 DEF TakeValid, DropOutdated, Overrun, Crash, handlerVars, releaseVars
  <2>5. CASE WalkEnd(w) \/ SeeNonEmpty(w) \/ PopsDone(w)
    BY <2>5 DEF WalkEnd, SeeNonEmpty, PopsDone, Goto, releaseVars
  <2>6. CASE SeeEmpty(w) \/ Pop(w)
    BY <2>6 DEF SeeEmpty, Pop, Goto, handlerVars
  <2>7. CASE Answer(w) \/ RecordTime(w) \/ ReleaseDone(w)
    BY <2>7 DEF Answer, RecordTime, ReleaseDone, Goto, releaseVars
  <2>8. QED
    BY <1>1, <2>1, <2>2, <2>4, <2>5, <2>6, <2>7
    DEF HandlerStep, ReleaseHandler, GetRequestsSentToAstraea
<1>2. ASSUME NEW w \in Worker, Accept(w) \/ ReleaseArrives(w) PROVE countPops'[v] > 0
  BY <1>2 DEF Accept, AcceptRead, AcceptWrite, ReleaseArrives, AcceptRelease, Goto,
     releaseVars
<1>3. ASSUME NEW r \in Request, PushStep(r) PROVE countPops'[v] > 0
  BY <1>3 DEF PushStep, Query, QueryFails, StoreEntry, PublishTail, Crash,
     handlerVars, releaseVars
<1>4. CASE ClockTick \/ RaceCrashes \/ UNCHANGED gatewayVars
  BY <1>4 DEF ClockTick, RaceCrashes, Crash, gatewayVars, handlerVars, releaseVars
<1>5. QED
  BY <1>1, <1>2, <1>3, <1>4 DEF GatewayNext

\* The types of the gateway's state hold in every behaviour: in spite of every
\* race no count goes below zero and the queue's slots only ever hold requests.
THEOREM GatewayTypeCorrect == GatewaySpec => []TypeOK
<1>1. GatewayInit => PopsLeft
  BY DEF GatewayInit, PopsLeft
<1>2. QED
  BY <1>1, Initially, StepType, StepPopsLeft, PTL DEF GatewaySpec

-----------------------------------------------------------------------------
(* A read is answered only after its query *)

QueriedIfRead(e) == e \in ReadRequest => e \in queried

\* Wherever an entry may be found, its query is done: in the slots of the queue,
\* in the copies and the lists of the releases, among the answers.
EntriesQueried ==
  /\ \A r \in Request : push[r] \in {"store", "publish", "pushed"} => QueriedIfRead(r)
  /\ \A p \in DOMAIN slot : QueriedIfRead(slot[p])
CopiesQueried == \A w \in Worker : \A i \in DOMAIN duplicate[w] : QueriedIfRead(duplicate[w][i])
ListsQueried  == \A w \in Worker : \A i \in DOMAIN requests[w] : QueriedIfRead(requests[w][i])

QueryInv == EntriesQueried /\ CopiesQueried /\ ListsQueried /\ AnsweredOnlyAfterQuery

\* The first state has no entry, no copy and no answer.
LEMMA QueryInvInit == GatewayInit => QueryInv
<1> SUFFICES ASSUME GatewayInit PROVE QueryInv
  OBVIOUS
<1>1. EntriesQueried
  BY DEF GatewayInit, EntriesQueried
<1>2. CopiesQueried /\ ListsQueried
  BY DEF GatewayInit, CopiesQueried, ListsQueried
<1>3. AnsweredOnlyAfterQuery
  BY DEF GatewayInit, AnsweredOnlyAfterQuery, Request
<1>4. QED
  BY <1>1, <1>2, <1>3 DEF QueryInv

\* What was queried stays queried: a part whose variables a step keeps is kept.
LEMMA QueryPartsKept ==
  ASSUME queried \subseteq queried'
  PROVE  /\ EntriesQueried /\ UNCHANGED <<push, slot>> => EntriesQueried'
         /\ CopiesQueried /\ UNCHANGED duplicate => CopiesQueried'
         /\ ListsQueried /\ UNCHANGED requests => ListsQueried'
         /\ AnsweredOnlyAfterQuery /\ UNCHANGED responses => AnsweredOnlyAfterQuery'
BY DEF EntriesQueried, CopiesQueried, ListsQueried, AnsweredOnlyAfterQuery, QueriedIfRead

\* What a thread finds in memory was queried, if it is a read.
LEMMA FoundQueried ==
  ASSUME EntriesQueried, NEW e \in Found
  PROVE  QueriedIfRead(e)
BY GatewayAssumption DEF EntriesQueried, Found, QueriedIfRead, Request

\* A turn of the walk takes what was queried.
LEMMA WalkTurnQueried ==
  ASSUME TypeOK, QueryInv, NEW w \in Worker, NEW n \in Nat, NEW e, QueriedIfRead(e),
         WalkTurn(w, n, e)
  PROVE  QueryInv'
<1>1. queried' = queried /\ UNCHANGED <<push, slot, responses>>
  BY DEF WalkTurn, entryVars, queueVars
<1>2. CopiesQueried'
  <2> SUFFICES ASSUME NEW v \in Worker, NEW i \in DOMAIN duplicate'[v]
               PROVE  duplicate'[v][i] \in ReadRequest => duplicate'[v][i] \in queried'
    BY DEF CopiesQueried, QueriedIfRead
  <2>1. CASE v # w
    BY <1>1, <2>1 DEF WalkTurn, TypeOK, ReleaseTypeOK, QueryInv, CopiesQueried, QueriedIfRead
  <2>2. CASE v = w
    <3>1. duplicate[w] \in Seq(Request \cup {Junk})
      BY DEF TypeOK, ReleaseTypeOK
    <3>2. duplicate'[w] = SubSeq(duplicate[w], n + 1, Len(duplicate[w]))
      BY DEF WalkTurn, TypeOK, ReleaseTypeOK
    <3>3. /\ i + n \in DOMAIN duplicate[w]
          /\ duplicate'[w][i] = duplicate[w][i + n]
      BY <2>2, <3>1, <3>2
    <3>4. QED
      BY <1>1, <2>2, <3>3 DEF QueryInv, CopiesQueried, QueriedIfRead
  <2>3. QED
    BY <2>1, <2>2
<1>3. ListsQueried'
  <2> SUFFICES ASSUME NEW v \in Worker, NEW i \in DOMAIN requests'[v]
               PROVE  requests'[v][i] \in ReadRequest => requests'[v][i] \in queried'
    BY DEF ListsQueried, QueriedIfRead
  <2>1. CASE v # w
    BY <1>1, <2>1 DEF WalkTurn, TypeOK, ReleaseTypeOK, QueryInv, ListsQueried, QueriedIfRead
  <2>2. CASE v = w
    <3>1. requests[w] \in Seq(Request \cup {Junk})
      BY DEF TypeOK, ReleaseTypeOK
    <3>2. requests'[w] = Append(requests[w], e)
      BY DEF WalkTurn, TypeOK, ReleaseTypeOK
    <3>3. requests'[w][i] = e \/ (i \in DOMAIN requests[w] /\ requests'[w][i] = requests[w][i])
      BY <2>2, <3>1, <3>2
    <3>4. QED
      BY <1>1, <2>2, <3>3 DEF QueryInv, ListsQueried, QueriedIfRead
  <2>3. QED
    BY <2>1, <2>2
<1>4. QED
  BY <1>1, <1>2, <1>3, QueryPartsKept DEF QueryInv

\* The copy holds what was queried, gaps included.
LEMMA CopyQueried ==
  ASSUME TypeOK, QueryInv, NEW w \in Worker, Copy(w)
  PROVE  QueryInv'
<1>1. PICK found \in Found :
        duplicate' = [duplicate EXCEPT ![w] =
                        [i \in 1 .. tail - head |->
                           IF head + i - 1 \in Gaps THEN found ELSE slot[head + i - 1]]]
  BY DEF Copy
<1>2. queried' = queried /\ UNCHANGED <<push, slot, requests, responses>>
  BY DEF Copy, entryVars, queueVars
<1>3. QueriedIfRead(found)
  BY FoundQueried DEF QueryInv
<1>4. CopiesQueried'
  <2> SUFFICES ASSUME NEW v \in Worker, NEW i \in DOMAIN duplicate'[v]
               PROVE  duplicate'[v][i] \in ReadRequest => duplicate'[v][i] \in queried'
    BY DEF CopiesQueried, QueriedIfRead
  <2>1. CASE v # w
    BY <1>1, <1>2, <2>1 DEF TypeOK, ReleaseTypeOK, QueryInv, CopiesQueried, QueriedIfRead
  <2>2. CASE v = w
    <3>1. /\ i \in 1 .. tail - head
          /\ duplicate'[w][i] = IF head + i - 1 \in Gaps THEN found ELSE slot[head + i - 1]
      BY <1>1, <2>2 DEF TypeOK, ReleaseTypeOK
    <3>2. head + i - 1 \notin Gaps => head + i - 1 \in DOMAIN slot
      BY <3>1 DEF Gaps, TypeOK, QueueTypeOK
    <3>3. QED
      BY <1>2, <1>3, <2>2, <3>1, <3>2 DEF QueryInv, EntriesQueried, QueriedIfRead
  <2>3. QED
    BY <2>1, <2>2
<1>5. QED
  BY <1>2, <1>4, QueryPartsKept DEF QueryInv

\* An element of the tail is the next one of the sequence.
LEMMA TailElement ==
  ASSUME NEW S, NEW s \in Seq(S), s # <<>>, NEW i \in DOMAIN Tail(s)
  PROVE  i + 1 \in DOMAIN s /\ Tail(s)[i] = s[i + 1]
<1>1. Len(s) \in Nat /\ DOMAIN s = 1 .. Len(s) /\ Len(s) > 0
  OBVIOUS
<1>2. Tail(s) \in Seq(S) /\ Len(Tail(s)) = Len(s) - 1
  OBVIOUS
<1>3. i \in 1 .. Len(s) - 1
  BY <1>2
<1>4. QED
  BY <1>1, <1>3

\* An answer goes to what was queried.
LEMMA AnswerQueried ==
  ASSUME TypeOK, QueryInv, NEW w \in Worker, Answer(w)
  PROVE  QueryInv'
<1>1. queried' = queried /\ UNCHANGED <<push, slot, duplicate>>
  BY DEF Answer, entryVars, queueVars
<1>2. /\ requests[w] \in Seq(Request \cup {Junk})
      /\ requests[w] # <<>>
      /\ requests' = [requests EXCEPT ![w] = Tail(requests[w])]
  BY DEF Answer, TypeOK, ReleaseTypeOK
<1>3. ListsQueried'
  <2> SUFFICES ASSUME NEW v \in Worker, NEW i \in DOMAIN requests'[v]
               PROVE  requests'[v][i] \in ReadRequest => requests'[v][i] \in queried'
    BY DEF ListsQueried, QueriedIfRead
  <2>1. CASE v # w
    BY <1>1, <1>2, <2>1 DEF TypeOK, ReleaseTypeOK, QueryInv, ListsQueried, QueriedIfRead
  <2>2. CASE v = w
    <3>1. requests'[w] = Tail(requests[w])
      BY <1>2 DEF TypeOK, ReleaseTypeOK
    <3>2. i + 1 \in DOMAIN requests[w] /\ requests'[w][i] = requests[w][i + 1]
      BY <1>2, <2>2, <3>1, TailElement
    <3>3. QED
      BY <1>1, <2>2, <3>2 DEF QueryInv, ListsQueried, QueriedIfRead
  <2>3. QED
    BY <2>1, <2>2
<1>4. AnsweredOnlyAfterQuery'
  <2> SUFFICES ASSUME NEW r \in ReadRequest, responses'[r] > 0
               PROVE  r \in queried'
    BY DEF AnsweredOnlyAfterQuery
  <2>1. CASE r = Head(requests[w])
    <3>1. 1 \in DOMAIN requests[w] /\ requests[w][1] = r
      BY <1>2, <2>1
    <3>2. QED
      BY <1>1, <3>1 DEF QueryInv, ListsQueried, QueriedIfRead
  <2>2. CASE r # Head(requests[w])
    BY <1>1, <2>2 DEF Answer, TypeOK, Request, QueryInv, AnsweredOnlyAfterQuery
  <2>3. QED
    BY <2>1, <2>2
<1>5. QED
  BY <1>1, <1>3, <1>4, QueryPartsKept DEF QueryInv

\* Every step keeps the strengthening.
LEMMA StepQueried == TypeOK /\ QueryInv /\ [GatewayNext]_gatewayVars => QueryInv'
<1> SUFFICES ASSUME TypeOK, QueryInv, [GatewayNext]_gatewayVars PROVE QueryInv'
  OBVIOUS
<1>0. ASSUME UNCHANGED <<queried, push, slot, duplicate, requests, responses>>
      PROVE  QueryInv'
  BY <1>0, QueryPartsKept DEF QueryInv
<1>1. Crash => QueryInv'
  BY <1>0 DEF Crash, entryVars, queueVars, releaseVars
<1>2. ASSUME NEW w \in Worker, HandlerStep(w) PROVE QueryInv'
  <2>1. CASE CountRead(w)
    <3>1. queried' = queried /\ UNCHANGED <<slot, duplicate, requests, responses>>
      BY <2>1 DEF CountRead, queueVars, releaseVars
    <3>2. EntriesQueried'
      BY <2>1, <3>1 DEF CountRead, TypeOK, EntryTypeOK, QueryInv, EntriesQueried, QueriedIfRead
    <3>3. QED
      BY <3>1, <3>2, QueryPartsKept DEF QueryInv
  <2>2. CASE PostWrite(w) \/ PostReturns(w) \/ Join(w)
    BY <1>0, <2>2 DEF PostWrite, PostReturns, Join, entryVars, queueVars, releaseVars
  <2>3. CASE Copy(w)
    BY <2>3, CopyQueried
  <2>4. CASE TakeValid(w)
    <3>1. QueriedIfRead(Head(duplicate[w]))
      BY <2>4 DEF TakeValid, TypeOK, ReleaseTypeOK, QueryInv, CopiesQueried
    <3>2. QED
      BY <2>4, <3>1, WalkTurnQueried DEF TakeValid
  <2>5. CASE DropOutdated(w)
    <3>1. QueriedIfRead(duplicate[w][2])
      BY <2>5 DEF DropOutdated, TypeOK, ReleaseTypeOK, QueryInv, CopiesQueried
    <3>2. QED
      BY <2>5, <3>1, WalkTurnQueried DEF DropOutdated
  <2>6. CASE Overrun(w)
    BY <1>1, <2>6, WalkTurnQueried, FoundQueried DEF Overrun, QueryInv
  <2>7. CASE WalkEnd(w)
    <3>1. queried' = queried /\ UNCHANGED <<push, slot, requests, responses>>
      BY <2>7 DEF WalkEnd, entryVars, queueVars
    <3>2. CopiesQueried'
      BY <2>7, <3>1 DEF WalkEnd, TypeOK, ReleaseTypeOK, QueryInv, CopiesQueried, QueriedIfRead
    <3>3. QED
      BY <3>1, <3>2, QueryPartsKept DEF QueryInv
  <2>8. CASE SeeNonEmpty(w) \/ SeeEmpty(w) \/ Pop(w) \/ PopsDone(w) \/ RecordTime(w) \/ ReleaseDone(w)
    BY <1>0, <2>8 DEF SeeNonEmpty, SeeEmpty, Pop, PopsDone, RecordTime, ReleaseDone,
       entryVars, queueVars, releaseVars
  <2>9. CASE Answer(w)
    BY <2>9, AnswerQueried
  <2>10. QED
    BY <1>1, <1>2, <2>1, <2>2, <2>3, <2>4, <2>5, <2>6, <2>7, <2>8, <2>9
    DEF HandlerStep, ReadHandler, ReleaseHandler, GetRequestsSentToAstraea, CopyFails
<1>3. ASSUME NEW w \in Worker, Accept(w) \/ ReleaseArrives(w) PROVE QueryInv'
  <2>1. ASSUME NEW r \in ReadRequest, AcceptRead(w, r) PROVE QueryInv'
    <3>1. UNCHANGED <<queried, slot, duplicate, requests, responses>>
      BY <2>1 DEF AcceptRead, queueVars, releaseVars
    <3>2. EntriesQueried'
      BY <2>1, <3>1 DEF AcceptRead, TypeOK, EntryTypeOK, QueryInv, EntriesQueried, QueriedIfRead
    <3>3. QED
      BY <3>1, <3>2, QueryPartsKept DEF QueryInv
  <2>2. ASSUME NEW r \in WriteRequest, AcceptWrite(w, r) PROVE QueryInv'
    <3>1. UNCHANGED <<queried, slot, duplicate, requests, responses>>
      BY <2>2 DEF AcceptWrite, queueVars, releaseVars
    <3>2. EntriesQueried'
      BY <2>2, <3>1, GatewayAssumption
      DEF AcceptWrite, TypeOK, EntryTypeOK, QueryInv, EntriesQueried, QueriedIfRead
    <3>3. QED
      BY <3>1, <3>2, QueryPartsKept DEF QueryInv
  <2>3. CASE AcceptRelease(w)
    BY <1>0, <2>3 DEF AcceptRelease, entryVars, queueVars, releaseVars
  <2>4. QED
    BY <1>3, <2>1, <2>2, <2>3 DEF Accept, ReleaseArrives
<1>4. ASSUME NEW r \in Request, PushStep(r) PROVE QueryInv'
  <2>1. CASE Query(r)
    <3>1. queried \subseteq queried' /\ UNCHANGED <<slot, duplicate, requests, responses>>
      BY <2>1 DEF Query, queueVars, releaseVars
    <3>2. EntriesQueried'
      BY <2>1, <3>1 DEF Query, TypeOK, EntryTypeOK, QueryInv, EntriesQueried, QueriedIfRead
    <3>3. QED
      BY <3>1, <3>2, QueryPartsKept DEF QueryInv
  <2>2. CASE StoreEntry(r)
    <3>1. UNCHANGED <<queried, duplicate, requests, responses>>
      BY <2>2 DEF StoreEntry, releaseVars
    <3>2. QueriedIfRead(r)
      BY <2>2 DEF StoreEntry, QueryInv, EntriesQueried
    <3>3. EntriesQueried'
      BY <2>2, <3>1, <3>2
      DEF StoreEntry, TypeOK, EntryTypeOK, QueryInv, EntriesQueried, QueriedIfRead
    <3>4. QED
      BY <3>1, <3>3, QueryPartsKept DEF QueryInv
  <2>3. CASE PublishTail(r)
    <3>1. UNCHANGED <<queried, slot, duplicate, requests, responses>>
      BY <2>3 DEF PublishTail, releaseVars
    <3>2. EntriesQueried'
      BY <2>3, <3>1 DEF PublishTail, TypeOK, EntryTypeOK, QueryInv, EntriesQueried, QueriedIfRead
    <3>3. QED
      BY <3>1, <3>2, QueryPartsKept DEF QueryInv
  <2>4. QED
    BY <1>1, <1>4, <2>1, <2>2, <2>3 DEF PushStep, QueryFails
<1>5. CASE ClockTick \/ RaceCrashes \/ UNCHANGED gatewayVars
  BY <1>0, <1>1, <1>5
  DEF ClockTick, RaceCrashes, gatewayVars, entryVars, queueVars, releaseVars
<1>6. QED
  BY <1>2, <1>3, <1>4, <1>5 DEF GatewayNext

\* A read is never answered before the database has answered it, however many
\* threads race in the queue and whatever memory a walk past its end finds.
THEOREM AnswersFollowQueries == GatewaySpec => []AnsweredOnlyAfterQuery
<1>1. GatewayInit => PopsLeft
  BY DEF GatewayInit, PopsLeft
<1>2. QueryInv => AnsweredOnlyAfterQuery
  BY DEF QueryInv
<1>3. QED
  BY <1>1, <1>2, Initially, StepType, StepPopsLeft, QueryInvInit, StepQueried, PTL
  DEF GatewaySpec

-----------------------------------------------------------------------------
(* The handlers of the clients *)

\* How far the request of a handler is on its way.
HandlersFollowPush ==
  \A w \in Worker :
    /\ pc[w] = "count" => push[req[w]] = "accepted"
    /\ pc[w] \in {"post", "posted", "join"} => push[req[w]] \notin {"new", "accepted"}

\* No request is served by two workers.
ServedOnce == \A v, w \in Worker : req[v] = req[w] /\ req[v] # NoRequest => v = w

\* Astraea is told of every request, at the latest when its handler has posted.
PostedOrServed ==
  \A r \in Request :
    \/ push[r] = "new" \/ r \in writePosts
    \/ \E w \in Worker : req[w] = r /\ pc[w] \in {"count", "post"}

\* A read that was put to the database has been counted by its handler.
QueriedOnWay == \A r \in queried : push[r] \in {"store", "publish", "pushed"}

HandlerInv == HandlersFollowPush /\ ServedOnce /\ PostedOrServed /\ QueriedOnWay

\* The first state has no handler at work.
LEMMA HandlerInvInit == GatewayInit => HandlerInv
<1> SUFFICES ASSUME GatewayInit PROVE HandlerInv
  OBVIOUS
<1>1. HandlersFollowPush /\ PostedOrServed /\ QueriedOnWay
  BY DEF GatewayInit, HandlersFollowPush, PostedOrServed, QueriedOnWay
<1>2. ServedOnce
  BY DEF GatewayInit, ServedOnce
<1>3. QED
  BY <1>1, <1>2 DEF HandlerInv

\* Where no handler of a client moves and no request starts, HandlerInv stays.
LEMMA HandlersStand ==
  ASSUME TypeOK, HandlerInv, UNCHANGED <<req, writePosts>>,
         \A v \in Worker : pc'[v] = pc[v] \/ (~Serving(v) /\ ~Serving(v)'),
         \A r \in Request : push'[r] = push[r] \/ push'[r] \in {"store", "publish", "pushed"},
         \A r \in Request : push[r] \in {"new", "accepted"} => push'[r] = push[r],
         \A r \in queried' : r \in queried \/ push'[r] = "store",
         queried' \subseteq Request
  PROVE  HandlerInv'
<1> USE DEF TypeOK, HandlerTypeOK, EntryTypeOK, HandlerInv
<1>1. HandlersFollowPush'
  BY DEF HandlersFollowPush, Serving
<1>2. ServedOnce'
  BY DEF ServedOnce
<1>3. PostedOrServed'
  BY DEF PostedOrServed, Serving
<1>4. QueriedOnWay'
  BY DEF QueriedOnWay
<1>5. QED
  BY <1>1, <1>2, <1>3, <1>4

\* A handler serves a request that has started.
LEMMA ServedHasStarted ==
  ASSUME TypeOK, HandlerInv, NEW w \in Worker, NEW r \in Request, req[w] = r
  PROVE  push[r] # "new"
BY GatewayAssumption DEF TypeOK, HandlerTypeOK, Serving, HandlerInv, HandlersFollowPush

\* A request that is taken up is served by the worker that takes it, and no other.
LEMMA AcceptHandlers ==
  ASSUME TypeOK, HandlerInv, NEW w \in Worker, NEW r \in Request, push[r] = "new",
         NEW to \in {"count", "join"}, NEW stage \in {"accepted", "store"},
         to = "count" <=> stage = "accepted", to = "join" => r \in writePosts',
         Goto(w, "idle", to), req' = [req EXCEPT ![w] = r], push' = [push EXCEPT ![r] = stage],
         queried' = queried, writePosts \subseteq writePosts'
  PROVE  HandlerInv'
<1> USE DEF TypeOK, HandlerTypeOK, EntryTypeOK, HandlerInv
<1>1. /\ pc'[w] = to /\ req'[w] = r /\ push'[r] = stage
      /\ \A v \in Worker \ {w} : pc'[v] = pc[v] /\ req'[v] = req[v] /\ req[v] # r
      /\ \A q \in Request \ {r} : push'[q] = push[q]
      /\ r \notin queried
  BY ServedHasStarted DEF Goto, QueriedOnWay
<1>2. req[w] \notin Request
  BY GatewayAssumption DEF Goto, Serving
<1>3. HandlersFollowPush'
  <2> SUFFICES ASSUME NEW v \in Worker
               PROVE  /\ pc'[v] = "count" => push'[req'[v]] = "accepted"
                      /\ pc'[v] \in {"post", "posted", "join"} =>
                           push'[req'[v]] \notin {"new", "accepted"}
    BY DEF HandlersFollowPush
  <2>1. CASE v = w
    BY <1>1, <2>1
  <2>2. CASE v # w
    <3>1. Serving(v) => req[v] \in Request \ {r}
      BY <1>1, <2>2
    <3>2. QED
      BY <1>1, <2>2, <3>1 DEF HandlersFollowPush, Serving
  <2>3. QED
    BY <2>1, <2>2
<1>4. ServedOnce'
  BY <1>1 DEF ServedOnce
<1>5. PostedOrServed'
  BY <1>1, <1>2 DEF PostedOrServed
<1>6. QueriedOnWay'
  BY <1>1 DEF QueriedOnWay
<1>7. QED
  BY <1>3, <1>4, <1>5, <1>6

\* Each step of a handler of a client takes its own request further, and no other's.
LEMMA ReadHandlerHandlers ==
  ASSUME TypeOK, HandlerInv, NEW w \in Worker, ReadHandler(w)
  PROVE  HandlerInv'
<1> USE DEF TypeOK, HandlerTypeOK, EntryTypeOK, HandlerInv
<1>0. req[w] \in Request
  BY DEF ReadHandler, CountRead, PostWrite, PostReturns, Join, Goto, Serving
<1>1. CASE CountRead(w)
  <2>1. /\ push[req[w]] = "accepted" /\ push'[req[w]] = "query"
        /\ pc'[w] = "post" /\ UNCHANGED <<req, writePosts, queried>>
        /\ \A v \in Worker \ {w} : pc'[v] = pc[v]
        /\ \A q \in Request \ {req[w]} : push'[q] = push[q]
    BY <1>0, <1>1 DEF CountRead, Goto, HandlersFollowPush
  <2>2. \A v \in Worker \ {w} : req[v] # req[w]
    BY <1>0, GatewayAssumption DEF ServedOnce
  <2>3. HandlersFollowPush'
    <3> SUFFICES ASSUME NEW v \in Worker
                 PROVE  /\ pc'[v] = "count" => push'[req'[v]] = "accepted"
                        /\ pc'[v] \in {"post", "posted", "join"} =>
                             push'[req'[v]] \notin {"new", "accepted"}
      BY DEF HandlersFollowPush
    <3>1. CASE v = w
      BY <2>1, <3>1
    <3>2. CASE v # w
      <4>1. Serving(v) => req[v] \in Request \ {req[w]}
        BY <2>2, <3>2
      <4>2. QED
        BY <2>1, <3>2, <4>1 DEF HandlersFollowPush, Serving
    <3>3. QED
      BY <3>1, <3>2
  <2>4. ServedOnce'
    BY <2>1 DEF ServedOnce
  <2>5. PostedOrServed'
    BY <1>1, <2>1 DEF PostedOrServed, CountRead, Goto
  <2>6. QueriedOnWay'
    BY <2>1 DEF QueriedOnWay
  <2>7. QED
    BY <2>3, <2>4, <2>5, <2>6
<1>2. CASE PostWrite(w)
  <2>1. /\ pc[w] = "post" /\ pc'[w] = "posted" /\ UNCHANGED <<req, push, queried>>
        /\ writePosts' = writePosts \cup {req[w]}
        /\ \A v \in Worker \ {w} : pc'[v] = pc[v]
    BY <1>2 DEF PostWrite, Goto, entryVars
  <2>2. HandlersFollowPush'
    BY <2>1 DEF HandlersFollowPush
  <2>3. PostedOrServed'
    BY <2>1 DEF PostedOrServed
  <2>4. QED
    BY <2>1, <2>2, <2>3 DEF ServedOnce, QueriedOnWay
<1>3. CASE PostReturns(w)
  <2>1. /\ pc[w] = "posted" /\ pc'[w] = "join" /\ UNCHANGED <<req, push, queried, writePosts>>
        /\ \A v \in Worker \ {w} : pc'[v] = pc[v]
    BY <1>3 DEF PostReturns, Goto, entryVars
  <2>2. HandlersFollowPush'
    BY <2>1 DEF HandlersFollowPush
  <2>3. PostedOrServed'
    BY <2>1 DEF PostedOrServed
  <2>4. QED
    BY <2>1, <2>2, <2>3 DEF ServedOnce, QueriedOnWay
<1>4. CASE Join(w)
  <2>1. /\ pc[w] = "join" /\ pc'[w] = "idle" /\ req'[w] = NoRequest
        /\ UNCHANGED <<push, queried, writePosts>>
        /\ \A v \in Worker \ {w} : pc'[v] = pc[v] /\ req'[v] = req[v]
    BY <1>4 DEF Join, Goto, entryVars
  <2>2. HandlersFollowPush'
    BY <2>1 DEF HandlersFollowPush
  <2>3. PostedOrServed'
    BY <2>1 DEF PostedOrServed
  <2>4. ServedOnce'
    BY <2>1 DEF ServedOnce
  <2>5. QED
    BY <2>1, <2>2, <2>3, <2>4 DEF QueriedOnWay
<1>5. QED
  BY <1>1, <1>2, <1>3, <1>4 DEF ReadHandler

\* A release serves no request.
LEMMA ReleaseHandlers ==
  ASSUME TypeOK, HandlerInv, NEW w \in Worker, ReleaseHandler(w) \/ AcceptRelease(w)
  PROVE  HandlerInv'
<1> USE DEF TypeOK, HandlerTypeOK, EntryTypeOK
<1>1. /\ UNCHANGED <<req, writePosts, push, queried>>
      /\ pc' = pc \/ \E from, to : Goto(w, from, to) /\ {from, to} \cap {"count", "post", "posted", "join"} = {}
  <2>1. CASE Copy(w)
    BY <2>1 DEF Copy, entryVars
  <2>2. CASE CopyFails(w) \/ Overrun(w)
    BY <2>2 DEF CopyFails, Overrun, WalkTurn, Crash, handlerVars, entryVars
  <2>3. CASE TakeValid(w) \/ DropOutdated(w)
    BY <2>3 DEF TakeValid, DropOutdated, WalkTurn, handlerVars, entryVars
  <2>4. CASE WalkEnd(w) \/ SeeNonEmpty(w) \/ SeeEmpty(w) \/ Pop(w) \/ PopsDone(w)
    BY <2>4 DEF WalkEnd, SeeNonEmpty, SeeEmpty, Pop, PopsDone, handlerVars, entryVars
  <2>5. CASE Answer(w) \/ RecordTime(w) \/ ReleaseDone(w) \/ AcceptRelease(w)
    BY <2>5 DEF Answer, RecordTime, ReleaseDone, AcceptRelease, entryVars
  <2>6. QED
    BY <2>1, <2>2, <2>3, <2>4, <2>5 DEF ReleaseHandler, GetRequestsSentToAstraea
<1>2. \A v \in Worker : pc'[v] = pc[v] \/ (~Serving(v) /\ ~Serving(v)')
  BY <1>1 DEF Goto, Serving
<1>3. QED
  BY <1>1, <1>2, HandlersStand

\* Every step keeps the handlers in step with their requests.
LEMMA StepHandlers == TypeOK /\ HandlerInv /\ [GatewayNext]_gatewayVars => HandlerInv'
<1> SUFFICES ASSUME TypeOK, HandlerInv, [GatewayNext]_gatewayVars PROVE HandlerInv'
  OBVIOUS
<1> USE DEF TypeOK, EntryTypeOK
<1>1. ASSUME UNCHANGED <<req, writePosts, push, queried, pc>> PROVE HandlerInv'
  BY <1>1, HandlersStand
<1>2. Crash => HandlerInv'
  BY <1>1 DEF Crash, handlerVars, entryVars
<1>3. ASSUME NEW w \in Worker, HandlerStep(w) PROVE HandlerInv'
  BY <1>3, ReadHandlerHandlers, ReleaseHandlers DEF HandlerStep
<1>4. ASSUME NEW w \in Worker, Accept(w) \/ ReleaseArrives(w) PROVE HandlerInv'
  <2>1. ASSUME NEW r \in ReadRequest, AcceptRead(w, r) PROVE HandlerInv'
    <3>1. /\ Goto(w, "idle", "count") /\ req' = [req EXCEPT ![w] = r] /\ r \in Request
          /\ push[r] = "new" /\ push' = [push EXCEPT ![r] = "accepted"]
          /\ UNCHANGED <<queried, writePosts>>
      BY <2>1 DEF AcceptRead, Request
    <3>2. QED
      BY <3>1, AcceptHandlers
  <2>2. ASSUME NEW r \in WriteRequest, AcceptWrite(w, r) PROVE HandlerInv'
    <3>1. /\ Goto(w, "idle", "join") /\ req' = [req EXCEPT ![w] = r] /\ r \in Request
          /\ push[r] = "new" /\ push' = [push EXCEPT ![r] = "store"]
          /\ UNCHANGED queried /\ writePosts' = writePosts \cup {r}
      BY <2>2 DEF AcceptWrite, Request
    <3>2. QED
      BY <3>1, AcceptHandlers
  <2>3. CASE ReleaseArrives(w)
    BY <2>3, ReleaseHandlers DEF ReleaseArrives
  <2>4. QED
    BY <1>4, <2>1, <2>2, <2>3 DEF Accept
<1>5. ASSUME NEW r \in Request, PushStep(r) PROVE HandlerInv'
  <2>1. CASE Query(r)
    <3>1. /\ UNCHANGED <<req, writePosts, pc>> /\ push[r] = "query"
          /\ push' = [push EXCEPT ![r] = "store"] /\ queried' = queried \cup {r}
      BY <2>1 DEF Query, handlerVars
    <3>2. QED
      BY <3>1, HandlersStand
  <2>2. CASE QueryFails(r)
    BY <1>2, <2>2 DEF QueryFails
  <2>3. CASE StoreEntry(r)
    <3>1. /\ UNCHANGED <<req, writePosts, pc, queried>> /\ push[r] = "store"
          /\ push' = [push EXCEPT ![r] = "publish"]
      BY <2>3 DEF StoreEntry, handlerVars
    <3>2. QED
      BY <3>1, HandlersStand
  <2>4. CASE PublishTail(r)
    <3>1. /\ UNCHANGED <<req, writePosts, pc, queried>> /\ push[r] = "publish"
          /\ push' = [push EXCEPT ![r] = "pushed"]
      BY <2>4 DEF PublishTail, handlerVars
    <3>2. QED
      BY <3>1, HandlersStand
  <2>5. QED
    BY <1>5, <2>1, <2>2, <2>3, <2>4 DEF PushStep
<1>6. CASE ClockTick \/ RaceCrashes \/ UNCHANGED gatewayVars
  BY <1>1, <1>2, <1>6 DEF ClockTick, RaceCrashes, gatewayVars, handlerVars, entryVars
<1>7. QED
  BY <1>3, <1>4, <1>5, <1>6 DEF GatewayNext

\* The handlers are in step with their requests in every behaviour.
LEMMA HandlersInOrder == GatewaySpec => []HandlerInv
<1>1. GatewayInit => PopsLeft
  BY DEF GatewayInit, PopsLeft
<1>2. QED
  BY <1>1, Initially, StepType, StepPopsLeft, HandlerInvInit, StepHandlers, PTL DEF GatewaySpec

\* However the threads of the pool race, a read is answered only when Astraea was told of
\* it, or its handler is about to tell it: an answer follows the flush thread's query,
\* and that thread is started behind the count, just before the post.
THEOREM AnsweredReadsWerePosted == GatewaySpec => []AnsweredReadsArePosted
<1>1. HandlerInv /\ AnsweredOnlyAfterQuery => AnsweredReadsArePosted
  <2> SUFFICES ASSUME HandlerInv, AnsweredOnlyAfterQuery,
                      NEW r \in ReadRequest, responses[r] > 0, r \notin writePosts
               PROVE  \E w \in Worker : req[w] = r /\ pc[w] = "post"
    BY DEF AnsweredReadsArePosted
  <2>1. push[r] \in {"store", "publish", "pushed"}
    BY DEF AnsweredOnlyAfterQuery, HandlerInv, QueriedOnWay
  <2>2. PICK w \in Worker : req[w] = r /\ pc[w] \in {"count", "post"}
    BY <2>1 DEF HandlerInv, PostedOrServed, Request
  <2>3. pc[w] # "count"
    BY <2>1, <2>2 DEF HandlerInv, HandlersFollowPush
  <2>4. QED
    BY <2>2, <2>3
<1>2. QED
  BY <1>1, HandlersInOrder, AnswersFollowQueries, PTL

-----------------------------------------------------------------------------
(* Until two threads meet in the queue                                     *)
(*                                                                         *)
(* The queue is the interval of slots from head to tail.  While a release  *)
(* is in it nothing is pushed, and one number says how far it has come:    *)
(* Bound(w), the first slot its walk has not taken.  What lies before it   *)
(* is answered, in the hands of the release or outdated.  Other workers    *)
(* may be anywhere else, about to copy the queue among them: a step that   *)
(* brings a second thread into the queue still keeps all this, it is the   *)
(* step behind it that need not.                                           *)

\* The slots of published entries.
Slots == 1 .. tail - 1

\* The first slot the release of w has not walked over; head, outside of the queue.
Bound(w) == head + countPops[w]

-----------------------------------------------------------------------------
(* The inductive invariant *)

\* The slots hold the pushed requests, each once, and behind them the one that is built.
SlotsArePushed ==
  /\ head \in 1 .. tail
  /\ Slots \subseteq DOMAIN slot
  /\ DOMAIN slot \subseteq 1 .. tail
  /\ \A p \in Slots : push[slot[p]] = "pushed"
  /\ \A r \in Request : push[r] = "pushed" => \E p \in Slots : slot[p] = r
  /\ \A p, q \in Slots : slot[p] = slot[q] => p = q
  /\ tail \in DOMAIN slot => push[slot[tail]] = "publish"
  /\ \A r \in Request :
       push[r] = "publish" => cursor[r] = tail /\ tail \in DOMAIN slot /\ slot[tail] = r

\* Timestamps grow along the queue, and what is on its way is no older.
StampsGrow ==
  /\ \A r \in Request : stamp[r] <= clock
  /\ \A p, q \in Slots : p <= q => stamp[slot[p]] <= stamp[slot[q]]
  /\ \A r \in Request :
       push[r] \in {"store", "publish"} => \A p \in Slots : stamp[slot[p]] <= stamp[r]

\* Where a release is: the copy is the queue behind Bound, and the pops end where
\* the walk ended.
WalkOf(w) ==
  /\ pc[w] \notin {"walk", "popcheck", "pop"} => countPops[w] = 0
  /\ pc[w] # "walk" => duplicate[w] = <<>>
  /\ ~Emptying(w) => requests[w] = <<>>
  /\ pc[w] = "walk" =>
       /\ Bound(w) <= tail + 1
       /\ Len(duplicate[w]) = IF Bound(w) <= tail THEN tail - Bound(w) ELSE 0
       /\ \A i \in 1 .. Len(duplicate[w]) : duplicate[w][i] = slot[Bound(w) + i - 1]
  /\ pc[w] \in {"popcheck", "pop"} => Bound(w) \in {tail, tail + 1}
  /\ pc[w] = "pop" => head < tail /\ reg[w] = head /\ countPops[w] > 0
  /\ pc[w] \in {"answer", "record"} => head = tail

ReleaseIsWalk == \A w \in Worker : WalkOf(w)

\* What a release has in hands it has walked over, in the order of the queue and not
\* answered yet; what was found behind the end may be anything outdated.
HandsAreWalked ==
  \A w \in Worker :
    /\ \A i \in DOMAIN requests[w] :
         requests[w][i] # Junk =>
           /\ \E p \in Slots : p < Bound(w) /\ slot[p] = requests[w][i]
           /\ responses[requests[w][i]] = 0 \/ IsOutdated(requests[w][i])
    /\ \A i, j \in DOMAIN requests[w] : \A p, q \in Slots :
         i < j /\ slot[p] = requests[w][i] /\ slot[q] = requests[w][j] =>
           p < q \/ IsOutdated(slot[q])

\* Only what was pushed is answered, and not before it was walked over.
AnsweredWasWalked ==
  /\ \A r \in Request : responses[r] > 0 => push[r] = "pushed"
  /\ \A w \in Worker : \A p \in Slots :
       p < Bound(w) \/ responses[slot[p]] = 0 \/ IsOutdated(slot[p])

\* What was walked over, or is out of the queue, is accounted for.
Accounted(r) == responses[r] > 0 \/ InHands(r) \/ IsOutdated(r)

WalkedIsAccounted ==
  /\ \A p \in Slots : p < head => Accounted(slot[p])
  /\ \A w \in Worker : \A p \in Slots : p < Bound(w) => Accounted(slot[p])

\* Only an outdated request has been answered twice.
AnsweredOnce == \A r \in Request : responses[r] > 1 => IsOutdated(r)

CalmInv ==
  /\ TypeOK
  /\ PopsLeft
  /\ HandlersFollowPush
  /\ SlotsArePushed
  /\ StampsGrow
  /\ ReleaseIsWalk
  /\ HandsAreWalked
  /\ AnsweredWasWalked
  /\ WalkedIsAccounted
  /\ AnsweredOnce

-----------------------------------------------------------------------------
(* The queue *)

\* A published request is one of the requests.
LEMMA SlotTypes ==
  ASSUME QueueTypeOK, SlotsArePushed
  PROVE  /\ head \in Nat /\ tail \in Nat /\ head >= 1 /\ tail >= 1 /\ head <= tail
         /\ Slots \subseteq Nat
         /\ \A p \in Slots : slot[p] \in Request /\ push[slot[p]] = "pushed"
BY DEF QueueTypeOK, SlotsArePushed, Slots

\* Where the queue stays and no push goes further than to be ready, the slots stay.
LEMMA SlotsKept ==
  ASSUME SlotsArePushed, QueueTypeOK, UNCHANGED queueVars,
         \A r \in Request :
           /\ push[r] = "pushed" => push'[r] = "pushed"
           /\ push[r] = "publish" => push'[r] = "publish"
           /\ push'[r] = "pushed" => push[r] = "pushed"
           /\ push'[r] = "publish" => push[r] = "publish" /\ cursor'[r] = cursor[r]
  PROVE  SlotsArePushed'
BY DEF SlotsArePushed, QueueTypeOK, queueVars, Slots

\* Where the published slots and the timestamps stay, the order of the stamps stays.
LEMMA StampsKept ==
  ASSUME StampsGrow, TypeOK, SlotsArePushed, UNCHANGED <<tail, stamp>>,
         clock' \in Nat, clock <= clock',
         \A p \in Slots : slot'[p] = slot[p],
         \A r \in Request :
           push'[r] \in {"store", "publish"} => push[r] \in {"store", "publish"}
  PROVE  StampsGrow'
<1>1. clock \in Nat /\ stamp \in [Request -> Nat]
  BY ThroughputAssumption DEF TypeOK, ThroughputTypeOK, EntryTypeOK
<1>2. Slots' = Slots /\ \A p \in Slots : slot[p] \in Request
  BY SlotTypes DEF Slots, TypeOK
<1>3. QED
  BY <1>1, <1>2 DEF StampsGrow

\* A request that is stamped now is no older than any in the queue.
LEMMA StampedNow ==
  ASSUME StampsGrow, TypeOK, SlotsArePushed, UNCHANGED <<tail, slot, clock>>,
         NEW r \in Request, push[r] # "pushed", stamp' = [stamp EXCEPT ![r] = clock],
         \A q \in Request \ {r} :
           push'[q] \in {"store", "publish"} => push[q] \in {"store", "publish"}
  PROVE  StampsGrow'
<1>1. clock \in Nat /\ stamp \in [Request -> Nat]
  BY ThroughputAssumption DEF TypeOK, ThroughputTypeOK, EntryTypeOK
<1>2. Slots' = Slots /\ \A p \in Slots : slot[p] \in Request /\ slot[p] # r
  BY SlotTypes DEF Slots, TypeOK
<1>3. \A p \in Slots : stamp'[slot[p]] = stamp[slot[p]]
  BY <1>1, <1>2
<1>4. \A q \in Request : stamp'[q] <= clock'
  BY <1>1 DEF StampsGrow
<1>5. \A q \in Request :
        push'[q] \in {"store", "publish"} => \A p \in Slots : stamp[slot[p]] <= stamp'[q]
  BY <1>1, <1>2 DEF StampsGrow
<1>6. QED
  BY <1>2, <1>3, <1>4, <1>5 DEF StampsGrow

\* An entry that is published is the last of the queue, and the youngest.
LEMMA PublishKeepsQueue ==
  ASSUME Locked, CalmInv, NEW r \in Request, PublishTail(r)
  PROVE  /\ tail' = tail + 1 /\ slot[tail] = r /\ Slots' = Slots \cup {tail}
         /\ SlotsArePushed' /\ StampsGrow'
<1> USE DEF CalmInv, TypeOK
<1>1. /\ tail \in Nat /\ tail >= 1 /\ head \in Nat /\ head >= 1 /\ head <= tail
      /\ \A p \in Slots : slot[p] \in Request /\ push[slot[p]] = "pushed"
  BY SlotTypes
<1>2. push[r] = "publish" /\ tail \in DOMAIN slot /\ slot[tail] = r /\ cursor[r] = tail
  BY DEF PublishTail, SlotsArePushed
<1>3. tail' = tail + 1 /\ UNCHANGED <<slot, head, stamp, clock>>
  BY <1>2 DEF PublishTail
<1>4. Slots' = Slots \cup {tail} /\ tail \notin Slots
  BY <1>1, <1>3 DEF Slots
<1>5. push' = [push EXCEPT ![r] = "pushed"] /\ push \in [Request -> PushStage]
  BY DEF PublishTail, EntryTypeOK
<1>6. \A q \in Request \ {r} : ~Pushing(q)
  BY <1>2 DEF Locked, Pushing
<1>7. SlotsArePushed'
  <2>1. head' \in 1 .. tail' /\ Slots' \subseteq DOMAIN slot' /\ DOMAIN slot' \subseteq 1 .. tail'
    BY <1>1, <1>2, <1>3, <1>4 DEF SlotsArePushed
  <2>2. \A p \in Slots' : push'[slot'[p]] = "pushed"
    BY <1>1, <1>2, <1>3, <1>4, <1>5
  <2>3. \A q \in Request : push'[q] = "pushed" => \E p \in Slots' : slot'[p] = q
    BY <1>2, <1>3, <1>4, <1>5 DEF SlotsArePushed
  <2>4. \A p, q \in Slots' : slot'[p] = slot'[q] => p = q
    BY <1>1, <1>2, <1>3, <1>4 DEF SlotsArePushed
  <2>5. tail' \notin DOMAIN slot'
    BY <1>1, <1>3 DEF SlotsArePushed
  <2>6. \A q \in Request : push'[q] # "publish"
    BY <1>5, <1>6 DEF Pushing
  <2>7. QED
    BY <2>1, <2>2, <2>3, <2>4, <2>5, <2>6 DEF SlotsArePushed
<1>8. StampsGrow'
  <2>1. stamp \in [Request -> Nat]
    BY DEF EntryTypeOK
  <2>2. \A p \in Slots : stamp[slot[p]] <= stamp[r]
    BY <1>2 DEF StampsGrow
  <2>3. \A p, q \in Slots' : p <= q => stamp[slot[p]] <= stamp[slot[q]]
    BY <1>1, <1>2, <1>4, <2>1, <2>2 DEF StampsGrow, Slots
  <2>4. \A q \in Request : push'[q] \notin {"store", "publish"}
    BY <1>5, <1>6 DEF Pushing
  <2>5. QED
    BY <1>3, <2>3, <2>4 DEF StampsGrow
<1>9. QED
  BY <1>2, <1>3, <1>4, <1>7, <1>8

\* An element is built behind the queue, by the one push there is.
LEMMA StoreKeepsQueue ==
  ASSUME Locked, CalmInv, NEW r \in Request, StoreEntry(r)
  PROVE  /\ \A p \in Slots : slot'[p] = slot[p]
         /\ SlotsArePushed' /\ StampsGrow'
<1> USE DEF CalmInv, TypeOK
<1>1. /\ tail \in Nat /\ tail >= 1 /\ head \in Nat /\ head >= 1 /\ head <= tail
      /\ \A p \in Slots : slot[p] \in Request /\ push[slot[p]] = "pushed"
  BY SlotTypes
<1>2. /\ push[r] = "store" /\ UNCHANGED <<head, tail, stamp, clock>>
      /\ push' = [push EXCEPT ![r] = "publish"] /\ push \in [Request -> PushStage]
      /\ cursor' = [cursor EXCEPT ![r] = tail] /\ cursor \in [Request -> Nat]
      /\ slot' = [p \in DOMAIN slot \cup {tail} |-> IF p = tail THEN r ELSE slot[p]]
  BY DEF StoreEntry, EntryTypeOK
<1>3. Slots' = Slots /\ tail \notin Slots /\ Slots \subseteq DOMAIN slot
  BY <1>1, <1>2 DEF Slots, SlotsArePushed
<1>4. slot'[tail] = r /\ \A p \in Slots : slot'[p] = slot[p]
  BY <1>2, <1>3
<1>5. \A q \in Request \ {r} : ~Pushing(q)
  BY <1>2 DEF Locked, Pushing
<1>6. SlotsArePushed'
  <2>1. DOMAIN slot' = DOMAIN slot \cup {tail} /\ DOMAIN slot \subseteq 1 .. tail
    BY <1>2 DEF SlotsArePushed
  <2>2. \A p \in Slots : slot[p] # r /\ push'[slot[p]] = "pushed"
    BY <1>1, <1>2
  <2>3. \A q \in Request : push'[q] = "pushed" => \E p \in Slots : slot'[p] = q
    BY <1>2, <1>4 DEF SlotsArePushed
  <2>4. push'[r] = "publish" /\ \A q \in Request : push'[q] = "publish" => q = r
    BY <1>2, <1>5 DEF Pushing
  <2>5. cursor'[r] = tail
    BY <1>2
  <2>6. head' \in 1 .. tail' /\ DOMAIN slot' \subseteq 1 .. tail' /\ Slots' \subseteq DOMAIN slot'
    BY <1>1, <1>2, <1>3, <2>1
  <2>7. \A p, q \in Slots' : slot'[p] = slot'[q] => p = q
    BY <1>3, <1>4 DEF SlotsArePushed
  <2>8. QED
    BY <1>2, <1>3, <1>4, <2>1, <2>2, <2>3, <2>4, <2>5, <2>6, <2>7 DEF SlotsArePushed
<1>7. StampsGrow'
  <2>1. \A q \in Request : push'[q] \in {"store", "publish"} => push[q] \in {"store", "publish"}
    BY <1>2
  <2>2. clock' \in Nat /\ clock <= clock'
    BY <1>2, ThroughputAssumption DEF ThroughputTypeOK
  <2>3. QED
    BY <1>2, <1>4, <2>1, <2>2, StampsKept
<1>8. QED
  BY <1>4, <1>6, <1>7

\* Every step keeps the queue in order.
LEMMA StepQueue ==
  Locked /\ CalmInv /\ [GatewayNext]_gatewayVars => SlotsArePushed' /\ StampsGrow'
<1> SUFFICES ASSUME Locked, CalmInv, [GatewayNext]_gatewayVars
             PROVE  SlotsArePushed' /\ StampsGrow'
  OBVIOUS
<1> USE DEF CalmInv, TypeOK
<1>0. clock \in Nat /\ push \in [Request -> PushStage] /\ stamp \in [Request -> Nat]
  BY ThroughputAssumption DEF ThroughputTypeOK, EntryTypeOK
<1>1. ASSUME UNCHANGED <<queueVars, stamp, clock, cursor>>,
             \A r \in Request : push'[r] = push[r]
                \/ {push[r], push'[r]} \subseteq {"new", "accepted", "query"}
      PROVE  SlotsArePushed' /\ StampsGrow'
  <2>1. \A r \in Request :
          /\ push[r] = "pushed" => push'[r] = "pushed"
          /\ push[r] = "publish" => push'[r] = "publish"
          /\ push'[r] = "pushed" => push[r] = "pushed"
          /\ push'[r] = "publish" => push[r] = "publish" /\ cursor'[r] = cursor[r]
          /\ push'[r] \in {"store", "publish"} => push[r] \in {"store", "publish"}
    BY <1>1
  <2>2. SlotsArePushed'
    BY <1>1, <2>1, SlotsKept
  <2>3. StampsGrow'
    BY <1>0, <1>1, <2>1, StampsKept DEF queueVars
  <2>4. QED
    BY <2>2, <2>3
<1>2. Crash => SlotsArePushed' /\ StampsGrow'
  BY <1>1 DEF Crash, entryVars
<1>3. ASSUME NEW r \in Request, push[r] \in {"new", "query"}, UNCHANGED <<queueVars, clock, cursor>>,
             push' = [push EXCEPT ![r] = "store"], stamp' = [stamp EXCEPT ![r] = clock]
      PROVE  SlotsArePushed' /\ StampsGrow'
  <2>1. SlotsArePushed'
    BY <1>0, <1>3, SlotsKept
  <2>2. StampsGrow'
    BY <1>0, <1>3, StampedNow DEF queueVars
  <2>3. QED
    BY <2>1, <2>2
<1>4. ASSUME NEW w \in Worker, HandlerStep(w) PROVE SlotsArePushed' /\ StampsGrow'
  <2>1. CASE CountRead(w)
    <3>1. push[req[w]] = "accepted" /\ push' = [push EXCEPT ![req[w]] = "query"]
      BY <2>1 DEF CountRead, Goto, HandlersFollowPush
    <3>2. QED
      BY <1>0, <1>1, <2>1, <3>1 DEF CountRead
  <2>2. CASE PostWrite(w) \/ PostReturns(w) \/ Join(w)
    BY <1>1, <2>2 DEF PostWrite, PostReturns, Join, entryVars
  <2>3. ASSUME NEW n \in Nat, NEW e, WalkTurn(w, n, e) PROVE SlotsArePushed' /\ StampsGrow'
    BY <1>1, <2>3 DEF WalkTurn, entryVars
  <2>4. CASE TakeValid(w) \/ DropOutdated(w) \/ Overrun(w)
    BY <1>2, <2>3, <2>4 DEF TakeValid, DropOutdated, Overrun
  <2>5. CASE Copy(w) \/ CopyFails(w) \/ WalkEnd(w) \/ SeeNonEmpty(w) \/ SeeEmpty(w)
    BY <1>1, <1>2, <2>5 DEF Copy, CopyFails, WalkEnd, SeeNonEmpty, SeeEmpty, entryVars
  <2>6. CASE PopsDone(w) \/ Answer(w) \/ RecordTime(w) \/ ReleaseDone(w)
    BY <1>1, <2>6 DEF PopsDone, Answer, RecordTime, ReleaseDone, entryVars
  <2>7. CASE Pop(w)
    <3>1. head < tail /\ head' = head + 1 /\ head \in Nat /\ tail \in Nat
      BY <2>7 DEF Pop, Goto, ReleaseIsWalk, WalkOf, QueueTypeOK
    <3>2. UNCHANGED <<slot, tail, push, stamp, cursor, clock>>
      BY <2>7 DEF Pop, entryVars
    <3>3. SlotsArePushed'
      BY <3>1, <3>2 DEF SlotsArePushed, Slots
    <3>4. StampsGrow'
      BY <1>0, <3>2, StampsKept
    <3>5. QED
      BY <3>3, <3>4
  <2>8. QED
    BY <1>4, <2>1, <2>2, <2>4, <2>5, <2>6, <2>7
    DEF HandlerStep, ReadHandler, ReleaseHandler, GetRequestsSentToAstraea
<1>5. ASSUME NEW w \in Worker, Accept(w) \/ ReleaseArrives(w)
      PROVE  SlotsArePushed' /\ StampsGrow'
  <2>1. ASSUME NEW r \in ReadRequest, AcceptRead(w, r) PROVE SlotsArePushed' /\ StampsGrow'
    BY <1>0, <1>1, <2>1 DEF AcceptRead
  <2>2. ASSUME NEW r \in WriteRequest, AcceptWrite(w, r) PROVE SlotsArePushed' /\ StampsGrow'
    BY <1>3, <2>2 DEF AcceptWrite, Request
  <2>3. CASE AcceptRelease(w)
    BY <1>1, <2>3 DEF AcceptRelease, entryVars
  <2>4. QED
    BY <1>5, <2>1, <2>2, <2>3 DEF Accept, ReleaseArrives
<1>6. ASSUME NEW r \in Request, PushStep(r) PROVE SlotsArePushed' /\ StampsGrow'
  <2>1. CASE Query(r)
    BY <1>3, <2>1 DEF Query
  <2>2. CASE QueryFails(r)
    BY <1>2, <2>2 DEF QueryFails
  <2>3. CASE StoreEntry(r) \/ PublishTail(r)
    BY <2>3, StoreKeepsQueue, PublishKeepsQueue
  <2>4. QED
    BY <1>6, <2>1, <2>2, <2>3 DEF PushStep
<1>7. CASE ClockTick
  <2>1. UNCHANGED <<queueVars, push, stamp, cursor>> /\ clock' = clock + 1
    BY <1>7 DEF ClockTick, Tick, entryVars
  <2>2. SlotsArePushed'
    BY <2>1, SlotsKept
  <2>3. StampsGrow'
    BY <1>0, <2>1, StampsKept DEF queueVars
  <2>4. QED
    BY <2>2, <2>3
<1>8. CASE RaceCrashes \/ UNCHANGED gatewayVars
  BY <1>1, <1>2, <1>8 DEF RaceCrashes, gatewayVars, entryVars
<1>9. QED
  BY <1>4, <1>5, <1>6, <1>7, <1>8 DEF GatewayNext

-----------------------------------------------------------------------------
(* The walk and the pops of a release *)

\* During a release all that is found in memory is in the published slots.
LEMMA FoundInSlots ==
  ASSUME Locked, CalmInv, NEW w \in Worker, Emptying(w)
  PROVE  /\ DOMAIN slot = Slots
         /\ \A e \in Found : e # Junk => \E p \in Slots : slot[p] = e
<1> USE DEF CalmInv, TypeOK
<1>1. tail \notin DOMAIN slot
  BY DEF Locked, Pushing, SlotsArePushed, QueueTypeOK
<1>2. DOMAIN slot = Slots
  <2>1. tail \in Nat /\ Slots \subseteq DOMAIN slot /\ DOMAIN slot \subseteq 1 .. tail
    BY SlotTypes DEF SlotsArePushed
  <2>2. \A p \in DOMAIN slot : p \in Slots
    BY <1>1, <2>1 DEF Slots
  <2>3. QED
    BY <2>1, <2>2
<1>3. QED
  BY <1>2 DEF Found

\* A worker that is not in the queue has nothing in hands.
LEMMA OutsideFacts ==
  ASSUME CalmInv, NEW v \in Worker, ~Emptying(v)
  PROVE  countPops[v] = 0 /\ duplicate[v] = <<>> /\ requests[v] = <<>> /\ Bound(v) = head
BY DEF CalmInv, ReleaseIsWalk, WalkOf, Emptying, Bound, TypeOK, QueueTypeOK

\* While a release is in the queue no other is.
LEMMA OthersOutside ==
  ASSUME Locked, CalmInv, NEW w \in Worker, Emptying(w)
  PROVE  \A v \in Worker \ {w} :
           /\ ~Emptying(v) /\ Bound(v) = head
           /\ countPops[v] = 0 /\ duplicate[v] = <<>> /\ requests[v] = <<>>
BY OutsideFacts DEF Locked

\* Where a walk stands: its copy is the queue from Bound on.
LEMMA WalkFacts ==
  ASSUME CalmInv, NEW w \in Worker
  PROVE  /\ Bound(w) \in Nat /\ Bound(w) >= 1 /\ Bound(w) >= head /\ countPops[w] \in Nat
         /\ requests[w] \in Seq(Request \cup {Junk})
         /\ duplicate[w] \in Seq(Request \cup {Junk})
         /\ Len(duplicate[w]) \in Nat /\ DOMAIN duplicate[w] = 1 .. Len(duplicate[w])
         /\ pc[w] = "walk" =>
              \A i \in 1 .. Len(duplicate[w]) :
                /\ Bound(w) + i - 1 \in Slots
                /\ duplicate[w][i] = slot[Bound(w) + i - 1]
                /\ duplicate[w][i] \in Request
<1> USE DEF CalmInv, TypeOK
<1>1. /\ countPops[w] \in Nat /\ requests[w] \in Seq(Request \cup {Junk})
      /\ duplicate[w] \in Seq(Request \cup {Junk})
  BY DEF ReleaseTypeOK
<1>2. Bound(w) \in Nat /\ Bound(w) >= 1 /\ Bound(w) >= head
  BY <1>1, SlotTypes DEF Bound
<1>3. Len(duplicate[w]) \in Nat /\ DOMAIN duplicate[w] = 1 .. Len(duplicate[w])
  BY <1>1
<1>4. ASSUME pc[w] = "walk", NEW i \in 1 .. Len(duplicate[w])
      PROVE  /\ Bound(w) + i - 1 \in Slots
             /\ duplicate[w][i] = slot[Bound(w) + i - 1]
  <2>1. /\ Len(duplicate[w]) = IF Bound(w) <= tail THEN tail - Bound(w) ELSE 0
        /\ duplicate[w][i] = slot[Bound(w) + i - 1]
    BY <1>4 DEF ReleaseIsWalk, WalkOf
  <2>2. Bound(w) + i - 1 \in Nat /\ Bound(w) + i - 1 >= 1
    BY <1>2, <1>3
  <2>3. tail \in Nat /\ Bound(w) + i - 1 <= tail - 1
    BY <1>2, <1>3, <2>1, SlotTypes
  <2>4. QED
    BY <2>1, <2>2, <2>3 DEF Slots
<1>5. QED
  BY <1>1, <1>2, <1>3, <1>4, SlotTypes

\* Where the queue and the locals of a worker stay, its walk stays.
LEMMA WalkKept ==
  ASSUME CalmInv, UNCHANGED <<head, tail>>, \A p \in Slots : slot'[p] = slot[p],
         NEW v \in Worker, countPops'[v] = countPops[v], duplicate'[v] = duplicate[v],
         requests'[v] = requests[v],
         \/ pc'[v] = pc[v] /\ reg'[v] = reg[v]
         \/ ~Emptying(v) /\ ~Emptying(v)'
         \/ {pc[v], pc'[v]} \subseteq {"answer", "record"}
  PROVE  WalkOf(v)'
<1>1. Bound(v)' = Bound(v) /\ Bound(v) \in Nat /\ Bound(v) >= 1 /\ WalkOf(v)
  BY DEF Bound, CalmInv, TypeOK, ReleaseTypeOK, QueueTypeOK, SlotsArePushed, ReleaseIsWalk
<1>2. CASE pc'[v] = pc[v] /\ reg'[v] = reg[v]
  <2>1. ASSUME pc[v] = "walk", NEW i \in 1 .. Len(duplicate[v])
        PROVE  duplicate[v][i] = slot'[Bound(v) + i - 1]
    <3>1. Bound(v) + i - 1 \in Slots /\ duplicate[v][i] = slot[Bound(v) + i - 1]
      BY <2>1, WalkFacts
    <3>2. QED
      BY <3>1
  <2>2. QED
    BY <1>1, <1>2, <2>1 DEF WalkOf, Emptying
<1>3. CASE ~Emptying(v) /\ ~Emptying(v)'
  BY <1>1, <1>3 DEF WalkOf, Emptying
<1>4. CASE {pc[v], pc'[v]} \subseteq {"answer", "record"}
  BY <1>1, <1>4 DEF WalkOf, Emptying
<1>5. QED
  BY <1>2, <1>3, <1>4

\* A worker with nothing in hands walks nowhere, wherever the queue ends.
LEMMA NothingInHands ==
  ASSUME NEW v, ~Emptying(v)', countPops'[v] = 0, duplicate'[v] = <<>>, requests'[v] = <<>>
  PROVE  WalkOf(v)'
BY DEF WalkOf, Emptying

\* While a release moves, the workers that are not in the queue stay as they are.
LEMMA OthersWalk ==
  ASSUME Locked, CalmInv, NEW w \in Worker, Emptying(w),
         \A v \in Worker \ {w} :
           /\ pc'[v] = pc[v] /\ countPops'[v] = countPops[v]
           /\ duplicate'[v] = duplicate[v] /\ requests'[v] = requests[v]
  PROVE  \A v \in Worker \ {w} : WalkOf(v)'
BY OthersOutside, NothingInHands DEF Emptying

\* What is left of a sequence behind its first n elements.
LEMMA RestElements ==
  ASSUME NEW S, NEW s \in Seq(S), NEW n \in {1, 2}, NEW t, t = SubSeq(s, n + 1, Len(s)),
         Len(s) > 0
  PROVE  /\ Len(t) = IF Len(s) >= n THEN Len(s) - n ELSE 0
         /\ \A i \in 1 .. Len(t) : i + n \in 1 .. Len(s) /\ t[i] = s[i + n]
<1>1. CASE n = 1
  BY <1>1
<1>2. CASE n = 2
  BY <1>2
<1>3. QED
  BY <1>1, <1>2

\* A turn of the walk moves Bound by what it drops from the copy.
LEMMA TurnKeepsWalk ==
  ASSUME Locked, CalmInv, NEW w \in Worker, NEW n \in {1, 2}, NEW e, WalkTurn(w, n, e),
         Len(duplicate[w]) > 0
  PROVE  ReleaseIsWalk' /\ Bound(w)' = Bound(w) + n
<1>1. /\ Bound(w) \in Nat /\ Bound(w) >= 1 /\ countPops[w] \in Nat
      /\ head \in Nat /\ tail \in Nat
      /\ duplicate[w] \in Seq(Request \cup {Junk}) /\ Len(duplicate[w]) \in Nat
  BY WalkFacts DEF CalmInv, TypeOK, QueueTypeOK
<1>2. /\ pc[w] = "walk" /\ pc' = pc /\ UNCHANGED <<slot, head, tail>>
      /\ duplicate'[w] = SubSeq(duplicate[w], n + 1, Len(duplicate[w]))
      /\ countPops'[w] = countPops[w] + n
  BY DEF WalkTurn, handlerVars, queueVars, CalmInv, TypeOK, ReleaseTypeOK
<1>3. Bound(w)' = Bound(w) + n
  BY <1>1, <1>2 DEF Bound
<1>4. Len(duplicate[w]) = tail - Bound(w) /\ Bound(w) < tail
  BY <1>1, <1>2 DEF CalmInv, ReleaseIsWalk, WalkOf
<1>5. /\ Len(duplicate'[w]) = IF Len(duplicate[w]) >= n THEN Len(duplicate[w]) - n ELSE 0
      /\ \A i \in 1 .. Len(duplicate'[w]) :
           i + n \in 1 .. Len(duplicate[w]) /\ duplicate'[w][i] = duplicate[w][i + n]
  <2>1. /\ duplicate[w] \in Seq(Request \cup {Junk})
        /\ duplicate'[w] = SubSeq(duplicate[w], n + 1, Len(duplicate[w]))
    BY <1>1, <1>2
  <2>2. QED
    BY <2>1, RestElements
<1>6. \A i \in 1 .. Len(duplicate'[w]) : duplicate'[w][i] = slot'[Bound(w)' + i - 1]
  <2> TAKE i \in 1 .. Len(duplicate'[w])
  <2>1. i + n \in 1 .. Len(duplicate[w]) /\ duplicate'[w][i] = duplicate[w][i + n]
    BY <1>5
  <2>2. duplicate[w][i + n] = slot[Bound(w) + (i + n) - 1]
    BY <1>2, <2>1, WalkFacts
  <2>3. i \in Int /\ Bound(w) + (i + n) - 1 = Bound(w)' + i - 1
    BY <1>1, <1>3
  <2>4. QED
    BY <1>2, <2>1, <2>2, <2>3
<1>7. Len(duplicate'[w]) = IF Bound(w)' <= tail' THEN tail' - Bound(w)' ELSE 0
  <2>1. n \in Nat /\ n <= 2 /\ tail' = tail
    BY <1>2
  <2>2. CASE Len(duplicate[w]) >= n
    BY <1>1, <1>3, <1>4, <1>5, <2>1, <2>2
  <2>3. CASE Len(duplicate[w]) < n
    BY <1>1, <1>3, <1>4, <1>5, <2>1, <2>3
  <2>4. QED
    BY <1>1, <2>1, <2>2, <2>3
<1>8. Bound(w)' <= tail' + 1
  BY <1>1, <1>2, <1>3, <1>4
<1>9. WalkOf(w)'
  BY <1>2, <1>6, <1>7, <1>8 DEF WalkOf, Emptying
<1>10. \A v \in Worker \ {w} : WalkOf(v)'
  <2>1. \A v \in Worker \ {w} :
          /\ pc'[v] = pc[v] /\ countPops'[v] = countPops[v]
          /\ duplicate'[v] = duplicate[v] /\ requests'[v] = requests[v]
    BY <1>2 DEF WalkTurn, CalmInv, TypeOK, ReleaseTypeOK
  <2>2. QED
    BY <1>2, <2>1, OthersWalk DEF Emptying
<1>11. QED
  BY <1>3, <1>9, <1>10 DEF ReleaseIsWalk

\* The copy is the queue, without a gap.
LEMMA CopyKeepsWalk ==
  ASSUME Locked, CalmInv, NEW w \in Worker, Copy(w)
  PROVE  ReleaseIsWalk'
<1> USE DEF CalmInv, TypeOK
<1>1. PICK found \in Found :
        duplicate' = [duplicate EXCEPT ![w] =
                        [i \in 1 .. tail - head |->
                           IF head + i - 1 \in Gaps THEN found ELSE slot[head + i - 1]]]
  BY DEF Copy
<1>2. /\ pc[w] = "copy" /\ pc' = [pc EXCEPT ![w] = IF head = tail THEN "idle" ELSE "walk"]
      /\ UNCHANGED <<slot, head, tail, countPops, requests>>
  BY DEF Copy, Goto, queueVars
<1>3. countPops[w] = 0 /\ requests[w] = <<>> /\ Bound(w) = head /\ Bound(w)' = head
  BY <1>2, OutsideFacts DEF Emptying, Bound
<1>4. Gaps = {} /\ head \in Nat /\ tail \in Nat /\ head <= tail /\ head >= 1
  BY SlotTypes DEF Gaps, SlotsArePushed, Slots
<1>5. duplicate'[w] = [i \in 1 .. tail - head |-> slot[head + i - 1]]
  BY <1>1, <1>4 DEF ReleaseTypeOK
<1>6. Len(duplicate'[w]) = tail - head
  BY <1>4, <1>5
<1>7. pc'[w] = IF head = tail THEN "idle" ELSE "walk"
  BY <1>2 DEF HandlerTypeOK
<1>8. head = tail => duplicate'[w] = <<>>
  <2>1. head = tail => 1 .. tail - head = {}
    BY <1>4
  <2>2. QED
    BY <1>5, <2>1
<1>9. WalkOf(w)'
  BY <1>2, <1>3, <1>4, <1>5, <1>6, <1>7, <1>8 DEF WalkOf, Emptying
<1>10. \A v \in Worker \ {w} : WalkOf(v)'
  <2> TAKE v \in Worker \ {w}
  <2>1. /\ pc'[v] = pc[v] /\ reg'[v] = reg[v] /\ countPops'[v] = countPops[v]
        /\ duplicate'[v] = duplicate[v] /\ requests'[v] = requests[v]
    BY <1>1, <1>2 DEF Copy, HandlerTypeOK, ReleaseTypeOK
  <2>2. QED
    BY <1>2, <2>1, WalkKept
<1>11. QED
  BY <1>9, <1>10 DEF ReleaseIsWalk

\* The walk ends where the copy ends: no junk is in it.
LEMMA WalkEndsAtTail ==
  ASSUME CalmInv, NEW w \in Worker, WalkEnd(w)
  PROVE  duplicate[w] = <<>> /\ Bound(w) \in {tail, tail + 1}
<1>1. pc[w] = "walk" /\ Bound(w) \in Nat /\ tail \in Nat
  BY WalkFacts DEF WalkEnd, Goto, CalmInv, TypeOK, QueueTypeOK
<1>2. duplicate[w] = <<>>
  <2> SUFFICES ASSUME duplicate[w] # <<>> PROVE FALSE
    OBVIOUS
  <2>1. 1 \in 1 .. Len(duplicate[w]) /\ Head(duplicate[w]) = duplicate[w][1]
    BY WalkFacts
  <2>2. duplicate[w][1] \in Request
    BY <1>1, <2>1, WalkFacts
  <2>3. QED
    BY <2>1, <2>2, GatewayAssumption DEF WalkEnd
<1>3. Len(duplicate[w]) = 0
  BY <1>2
<1>4. QED
  BY <1>1, <1>2, <1>3 DEF CalmInv, ReleaseIsWalk, WalkOf

\* A step of the pops ends where the walk ended.
LEMMA PopsKeepWalk ==
  ASSUME Locked, CalmInv, NEW w \in Worker,
         WalkEnd(w) \/ SeeNonEmpty(w) \/ SeeEmpty(w) \/ Pop(w) \/ PopsDone(w)
  PROVE  ReleaseIsWalk'
<1> USE DEF CalmInv, TypeOK
<1>1. \A v \in Worker \ {w} : WalkOf(v)'
  <2>1. Emptying(w)
    BY DEF WalkEnd, SeeNonEmpty, SeeEmpty, Pop, PopsDone, Goto, Emptying
  <2>2. \A v \in Worker \ {w} :
          /\ pc'[v] = pc[v] /\ countPops'[v] = countPops[v]
          /\ duplicate'[v] = duplicate[v] /\ requests'[v] = requests[v]
    BY DEF WalkEnd, SeeNonEmpty, SeeEmpty, Pop, PopsDone, Goto, handlerVars, releaseVars,
       HandlerTypeOK, ReleaseTypeOK
  <2>3. QED
    BY <2>1, <2>2, OthersWalk
<1>2. /\ head \in Nat /\ tail \in Nat /\ head <= tail /\ countPops[w] \in Nat
      /\ pc \in [Worker -> Label] /\ reg \in [Worker -> Nat]
      /\ duplicate \in [Worker -> Seq(Request \cup {Junk})] /\ countPops \in [Worker -> Nat]
  BY SlotTypes DEF HandlerTypeOK, ReleaseTypeOK
<1>3. CASE WalkEnd(w)
  <2>1. /\ pc'[w] = "popcheck" /\ duplicate'[w] = <<>>
        /\ UNCHANGED <<head, tail, countPops, requests>>
    BY <1>2, <1>3 DEF WalkEnd, Goto, queueVars
  <2>2. Bound(w) \in {tail, tail + 1}
    BY <1>3, WalkEndsAtTail
  <2>3. QED
    BY <1>1, <2>1, <2>2 DEF ReleaseIsWalk, WalkOf, Emptying, Bound
<1>4. CASE SeeNonEmpty(w)
  <2>1. /\ pc[w] = "popcheck" /\ pc'[w] = "pop" /\ reg'[w] = head /\ head # tail /\ countPops[w] > 0
        /\ UNCHANGED <<head, tail, countPops, requests, duplicate>>
    BY <1>2, <1>4 DEF SeeNonEmpty, Goto, queueVars, releaseVars
  <2>2. QED
    BY <1>1, <1>2, <2>1 DEF ReleaseIsWalk, WalkOf, Emptying, Bound
<1>5. CASE SeeEmpty(w)
  <2>1. /\ pc[w] = "popcheck" /\ pc'[w] = "popcheck" /\ head = tail /\ countPops[w] > 0
        /\ countPops'[w] = countPops[w] - 1
        /\ UNCHANGED <<head, tail, requests, duplicate>>
    BY <1>2, <1>5 DEF SeeEmpty, handlerVars, queueVars
  <2>2. Bound(w)' = tail
    <3>1. head + countPops[w] \in {tail, tail + 1}
      BY <2>1 DEF ReleaseIsWalk, WalkOf, Emptying, Bound
    <3>2. head' = tail /\ countPops'[w] = 0
      BY <1>2, <2>1, <3>1
    <3>3. QED
      BY <1>2, <3>2 DEF Bound
  <2>3. QED
    BY <1>1, <1>2, <2>1, <2>2 DEF ReleaseIsWalk, WalkOf, Emptying
<1>6. CASE Pop(w)
  <2>1. /\ pc[w] = "pop" /\ pc'[w] = "popcheck" /\ head' = head + 1
        /\ countPops'[w] = countPops[w] - 1
        /\ UNCHANGED <<tail, requests, duplicate>>
    BY <1>2, <1>6 DEF Pop, Goto, ReleaseIsWalk, WalkOf
  <2>2. Bound(w)' = Bound(w)
    BY <1>2, <2>1 DEF Bound
  <2>3. QED
    BY <1>1, <1>2, <2>1, <2>2 DEF ReleaseIsWalk, WalkOf, Emptying
<1>7. CASE PopsDone(w)
  <2>1. /\ pc[w] = "popcheck" /\ pc'[w] = "answer" /\ countPops[w] = 0
        /\ UNCHANGED <<head, tail, countPops, requests, duplicate>>
    BY <1>2, <1>7 DEF PopsDone, Goto, queueVars, releaseVars
  <2>2. head = tail
    <3>1. head + countPops[w] \in {tail, tail + 1}
      BY <2>1 DEF ReleaseIsWalk, WalkOf, Emptying, Bound
    <3>2. QED
      BY <1>2, <2>1, <3>1
  <2>3. QED
    BY <1>1, <1>2, <2>1, <2>2 DEF ReleaseIsWalk, WalkOf, Emptying
<1>8. QED
  BY <1>3, <1>4, <1>5, <1>6, <1>7

\* Answers are given when the pops are done.
LEMMA AnswersKeepWalk ==
  ASSUME Locked, CalmInv, NEW w \in Worker,
         Answer(w) \/ RecordTime(w) \/ ReleaseDone(w)
  PROVE  ReleaseIsWalk'
<1> USE DEF CalmInv, TypeOK
<1>1. \A v \in Worker \ {w} : WalkOf(v)'
  <2>1. Emptying(w)
    BY DEF Answer, RecordTime, ReleaseDone, Goto, Emptying
  <2>2. \A v \in Worker \ {w} :
          /\ pc'[v] = pc[v] /\ countPops'[v] = countPops[v]
          /\ duplicate'[v] = duplicate[v] /\ requests'[v] = requests[v]
    BY DEF Answer, RecordTime, ReleaseDone, Goto, releaseVars, HandlerTypeOK, ReleaseTypeOK
  <2>3. QED
    BY <2>1, <2>2, OthersWalk
<1>2. pc \in [Worker -> Label]
  BY DEF HandlerTypeOK
<1>3. CASE Answer(w)
  <2>1. /\ pc[w] = "answer" /\ pc'[w] = "record"
        /\ UNCHANGED <<head, tail, countPops, duplicate>>
    BY <1>2, <1>3 DEF Answer, Goto, queueVars
  <2>2. QED
    BY <1>1, <2>1 DEF ReleaseIsWalk, WalkOf, Emptying
<1>4. CASE RecordTime(w)
  <2>1. /\ pc[w] = "record" /\ pc'[w] = "answer"
        /\ UNCHANGED <<head, tail, countPops, requests, duplicate>>
    BY <1>2, <1>4 DEF RecordTime, Goto, queueVars, releaseVars
  <2>2. QED
    BY <1>1, <2>1 DEF ReleaseIsWalk, WalkOf, Emptying
<1>5. CASE ReleaseDone(w)
  <2>1. /\ pc[w] = "answer" /\ pc'[w] = "idle" /\ requests[w] = <<>>
        /\ UNCHANGED <<countPops, requests, duplicate>>
    BY <1>2, <1>5 DEF ReleaseDone, Goto, releaseVars
  <2>2. QED
    BY <1>1, <2>1 DEF ReleaseIsWalk, WalkOf, Emptying
<1>6. QED
  BY <1>3, <1>4, <1>5

\* Every step keeps the release in step with the queue.
LEMMA StepReleaseIsWalk ==
  Locked /\ CalmInv /\ [GatewayNext]_gatewayVars => ReleaseIsWalk'
<1> SUFFICES ASSUME Locked, CalmInv, [GatewayNext]_gatewayVars
             PROVE  ReleaseIsWalk'
  OBVIOUS
<1>0. pc \in [Worker -> Label] /\ reg \in [Worker -> Nat]
  BY DEF CalmInv, TypeOK, HandlerTypeOK
<1>1. ASSUME UNCHANGED <<releaseVars, head, tail, slot>>, NEW w \in Worker, ~Emptying(w), ~Emptying(w)',
             \A v \in Worker \ {w} : pc'[v] = pc[v] /\ reg'[v] = reg[v]
      PROVE  ReleaseIsWalk'
  BY <1>1, WalkKept DEF releaseVars, ReleaseIsWalk
<1>2. ASSUME UNCHANGED <<releaseVars, head, tail, slot, pc, reg>> PROVE ReleaseIsWalk'
  BY <1>2, WalkKept DEF releaseVars, ReleaseIsWalk
<1>3. Crash => ReleaseIsWalk'
  BY <1>2 DEF Crash, handlerVars, queueVars
<1>4. ASSUME NEW w \in Worker, HandlerStep(w) PROVE ReleaseIsWalk'
  <2>1. CASE ReadHandler(w)
    <3>1. /\ UNCHANGED <<releaseVars, head, tail, slot, reg>>
          /\ \A v \in Worker \ {w} : pc'[v] = pc[v]
          /\ ~Emptying(w) /\ ~Emptying(w)'
      BY <1>0, <2>1
      DEF ReadHandler, CountRead, PostWrite, PostReturns, Join, Goto, queueVars, Emptying
    <3>2. QED
      BY <1>1, <3>1
  <2>2. CASE Copy(w) \/ CopyFails(w)
    BY <1>3, <2>2, CopyKeepsWalk DEF CopyFails
  <2>3. CASE TakeValid(w) \/ DropOutdated(w) \/ Overrun(w)
    <3>1. duplicate[w] # <<>> => Len(duplicate[w]) > 0
      BY WalkFacts
    <3>2. QED
      BY <1>3, <2>3, <3>1, TurnKeepsWalk DEF TakeValid, DropOutdated, Overrun
  <2>4. CASE WalkEnd(w) \/ SeeNonEmpty(w) \/ SeeEmpty(w) \/ Pop(w) \/ PopsDone(w)
    BY <2>4, PopsKeepWalk
  <2>5. CASE Answer(w) \/ RecordTime(w) \/ ReleaseDone(w)
    BY <2>5, AnswersKeepWalk
  <2>6. QED
    BY <1>4, <2>1, <2>2, <2>3, <2>4, <2>5
    DEF HandlerStep, ReleaseHandler, GetRequestsSentToAstraea
<1>5. ASSUME NEW w \in Worker, Accept(w) \/ ReleaseArrives(w) PROVE ReleaseIsWalk'
  <2>1. /\ UNCHANGED <<releaseVars, head, tail, slot>>
        /\ \A v \in Worker \ {w} : pc'[v] = pc[v] /\ reg'[v] = reg[v]
        /\ ~Emptying(w) /\ ~Emptying(w)'
    BY <1>0, <1>5
    DEF Accept, AcceptRead, AcceptWrite, ReleaseArrives, AcceptRelease, Goto, queueVars, Emptying
  <2>2. QED
    BY <1>1, <2>1
<1>6. ASSUME NEW r \in Request, PushStep(r) PROVE ReleaseIsWalk'
  <2>1. CASE Query(r)
    BY <1>2, <2>1 DEF Query, handlerVars, queueVars
  <2>2. CASE QueryFails(r)
    BY <1>3, <2>2 DEF QueryFails
  <2>3. CASE StoreEntry(r)
    <3>1. UNCHANGED <<releaseVars, head, tail, pc, reg>>
      BY <2>3 DEF StoreEntry, handlerVars
    <3>2. \A p \in Slots : slot'[p] = slot[p]
      BY <2>3, StoreKeepsQueue
    <3>3. QED
      BY <3>1, <3>2, WalkKept DEF releaseVars, ReleaseIsWalk
  <2>4. CASE PublishTail(r)
    <3>1. \A v \in Worker : ~Emptying(v)
      BY <2>4 DEF PublishTail, Locked, Pushing
    <3>2. UNCHANGED <<pc, duplicate, countPops, requests>>
      BY <2>4 DEF PublishTail, handlerVars, releaseVars
    <3>3. QED
      BY <3>1, <3>2, OutsideFacts, NothingInHands DEF Emptying, ReleaseIsWalk
  <2>5. QED
    BY <1>6, <2>1, <2>2, <2>3, <2>4 DEF PushStep
<1>7. CASE ClockTick \/ RaceCrashes \/ UNCHANGED gatewayVars
  BY <1>2, <1>3, <1>7 DEF ClockTick, RaceCrashes, gatewayVars, handlerVars, queueVars
<1>8. QED
  BY <1>4, <1>5, <1>6, <1>7 DEF GatewayNext

-----------------------------------------------------------------------------
(* Who is answered *)

\* The part of the invariant that speaks of answers.
AnswerInv ==
  HandsAreWalked /\ AnsweredWasWalked /\ WalkedIsAccounted /\ AnsweredOnce

\* A request that was pushed and is outdated stays so.
LEMMA OutdatedStays ==
  ASSUME TypeOK, clock' \in Nat, clock <= clock',
         NEW r \in Request, stamp'[r] = stamp[r], IsOutdated(r)
  PROVE  IsOutdated(r)'
<1>1. clock \in Nat /\ stamp[r] \in Nat /\ MaxAge \in Nat
  BY ThroughputAssumption, GatewayAssumption DEF TypeOK, ThroughputTypeOK, EntryTypeOK
<1>2. QED
  BY <1>1 DEF IsOutdated

\* Where lists, answers and published slots stay, and what was walked over stays
\* walked over, AnswerInv stays.
LEMMA AnswersKept ==
  ASSUME CalmInv, UNCHANGED <<requests, responses, tail>>,
         clock' \in Nat, clock <= clock',
         \A p \in Slots : slot'[p] = slot[p],
         \A r \in Request : push[r] = "pushed" => push'[r] = "pushed" /\ stamp'[r] = stamp[r],
         \A v \in Worker : \A p \in Slots :
           /\ p < Bound(v) => p < Bound(v)'
           /\ p < Bound(v)' => p < head \/ \E u \in Worker : p < Bound(u),
         \A p \in Slots : p < head' => p < head \/ \E v \in Worker : p < Bound(v)
  PROVE  AnswerInv'
<1> USE DEF CalmInv
<1>1. /\ Slots' = Slots /\ Slots \subseteq Nat
      /\ \A p \in Slots : slot[p] \in Request /\ push[slot[p]] = "pushed"
  BY SlotTypes DEF Slots, TypeOK
<1>2. \A r \in Request : push[r] = "pushed" /\ IsOutdated(r) => IsOutdated(r)'
  BY OutdatedStays
<1>3. \A p \in Slots : IsOutdated(slot[p]) => IsOutdated(slot[p])'
  <2> TAKE p \in Slots
  <2>1. slot[p] \in Request /\ push[slot[p]] = "pushed" /\ slot'[p] = slot[p]
    BY <1>1
  <2>2. IsOutdated(slot[p]) => stamp'[slot[p]] + MaxAge < clock'
    BY <1>2, <2>1 DEF IsOutdated
  <2>3. QED
    BY <2>1, <2>2 DEF IsOutdated
<1>4. HandsAreWalked'
  <2> SUFFICES ASSUME NEW v \in Worker
               PROVE  /\ \A i \in DOMAIN requests[v] :
                           requests[v][i] # Junk =>
                             /\ \E p \in Slots : p < Bound(v) /\ slot[p] = requests[v][i]
                             /\ responses[requests[v][i]] = 0 \/ IsOutdated(requests[v][i])'
                      /\ \A i, j \in DOMAIN requests[v] : \A p, q \in Slots :
                           i < j /\ slot[p] = requests[v][i] /\ slot[q] = requests[v][j] =>
                             p < q \/ IsOutdated(slot[q])'
    BY <1>1 DEF HandsAreWalked, IsOutdated
  <2>1. ASSUME NEW i \in DOMAIN requests[v], requests[v][i] # Junk
        PROVE  /\ \E p \in Slots : p < Bound(v) /\ slot[p] = requests[v][i]
               /\ responses[requests[v][i]] = 0 \/ IsOutdated(requests[v][i])'
    <3>1. PICK p \in Slots : p < Bound(v) /\ slot[p] = requests[v][i]
      BY <2>1 DEF HandsAreWalked
    <3>2. responses[requests[v][i]] = 0 \/ IsOutdated(requests[v][i])
      BY <2>1 DEF HandsAreWalked
    <3>3. requests'[v][i] \in Request /\ push[requests[v][i]] = "pushed"
      BY <1>1, <3>1
    <3>4. QED
      BY <1>2, <3>1, <3>2, <3>3 DEF IsOutdated
  <2>2. ASSUME NEW i \in DOMAIN requests[v], NEW j \in DOMAIN requests[v],
               NEW p \in Slots, NEW q \in Slots,
               i < j, slot[p] = requests[v][i], slot[q] = requests[v][j]
        PROVE  p < q \/ IsOutdated(slot[q])'
    BY <1>3, <2>2 DEF HandsAreWalked
  <2>3. QED
    BY <2>1, <2>2
<1>5. AnsweredWasWalked'
  BY <1>1, <1>3 DEF AnsweredWasWalked
<1>6. WalkedIsAccounted'
  BY <1>1, <1>3 DEF WalkedIsAccounted, Accounted, InHands
<1>7. AnsweredOnce'
  <2> SUFFICES ASSUME NEW r \in Request, responses[r] > 1 PROVE IsOutdated(r)'
    BY DEF AnsweredOnce
  <2>1. responses[r] > 0
    BY DEF TypeOK
  <2>2. QED
    BY <1>2, <2>1 DEF AnsweredOnce, AnsweredWasWalked
<1>8. QED
  BY <1>4, <1>5, <1>6, <1>7 DEF AnswerInv

\* What is published is not answered yet, and nobody has it in hands.
LEMMA PublishKeepsAnswers ==
  ASSUME Locked, CalmInv, NEW r \in Request, PublishTail(r)
  PROVE  AnswerInv'
<1> USE DEF CalmInv
<1>1. /\ slot[tail] = r /\ Slots' = Slots \cup {tail}
      /\ head \in Nat /\ tail \in Nat /\ head <= tail
      /\ \A p \in Slots : slot[p] \in Request /\ push[slot[p]] = "pushed"
  BY PublishKeepsQueue, SlotTypes DEF TypeOK
<1>2. /\ push[r] = "publish" /\ push' = [push EXCEPT ![r] = "pushed"]
      /\ UNCHANGED <<slot, head, stamp, clock, countPops, requests, responses>>
  BY DEF PublishTail, releaseVars
<1>3. \A v \in Worker : ~Emptying(v)
  BY <1>2 DEF Locked, Pushing
<1>4. \A v \in Worker : requests[v] = <<>> /\ Bound(v) = head /\ Bound(v)' = head
  BY <1>2, <1>3, OutsideFacts DEF Bound
<1>5. responses[r] = 0
  BY <1>2 DEF AnsweredWasWalked, TypeOK
<1>6. HandsAreWalked'
  BY <1>2, <1>4 DEF HandsAreWalked
<1>7. AnsweredWasWalked'
  <2>1. \A q \in Request : responses'[q] > 0 => push'[q] = "pushed"
    BY <1>2 DEF AnsweredWasWalked, TypeOK, EntryTypeOK
  <2>2. ASSUME NEW v \in Worker, NEW p \in Slots \cup {tail}
        PROVE  p < Bound(v)' \/ responses'[slot'[p]] = 0 \/ IsOutdated(slot[p])'
    <3>1. CASE p = tail
      BY <1>1, <1>2, <1>5, <3>1
    <3>2. CASE p \in Slots
      <4>1. p < Bound(v) \/ responses[slot[p]] = 0 \/ IsOutdated(slot[p])
        BY <3>2 DEF AnsweredWasWalked
      <4>2. QED
        BY <1>2, <1>4, <4>1 DEF IsOutdated
    <3>3. QED
      BY <3>1, <3>2
  <2>3. QED
    BY <1>1, <2>1, <2>2 DEF AnsweredWasWalked
<1>8. WalkedIsAccounted'
  <2>1. ~(tail < head)
    BY <1>1
  <2>2. QED
    BY <1>1, <1>2, <1>4, <2>1 DEF WalkedIsAccounted, Accounted, InHands, IsOutdated
<1>9. AnsweredOnce'
  BY <1>2 DEF AnsweredOnce, IsOutdated
<1>10. QED
  BY <1>6, <1>7, <1>8, <1>9 DEF AnswerInv

\* A turn of the walk that takes e and drops n, keeps AnswerInv when e is among the
\* dropped or outdated, and what is dropped and not taken is outdated.
LEMMA TurnKeepsAnswers ==
  ASSUME Locked, CalmInv, NEW w \in Worker, NEW n \in {1, 2}, NEW e, WalkTurn(w, n, e),
         Len(duplicate[w]) > 0,
         e # Junk =>
           \E p \in Slots : p < Bound(w) + n /\ slot[p] = e /\ (p >= Bound(w) \/ IsOutdated(e)),
         \A p \in Slots :
           p >= Bound(w) /\ p < Bound(w) + n => slot[p] = e \/ IsOutdated(slot[p])
  PROVE  AnswerInv'
<1> USE DEF CalmInv
<1>1. /\ Slots \subseteq Nat /\ Bound(w) \in Nat /\ requests[w] \in Seq(Request \cup {Junk})
      /\ \A p \in Slots : slot[p] \in Request /\ slot[p] # Junk
      /\ \A p, q \in Slots : slot[p] = slot[q] => p = q
  BY SlotTypes, WalkFacts, GatewayAssumption DEF TypeOK, SlotsArePushed
<1>2. /\ UNCHANGED <<push, slot, head, tail, stamp, clock, responses>>
      /\ requests'[w] = Append(requests[w], e)
  BY DEF WalkTurn, entryVars, queueVars, TypeOK, ReleaseTypeOK
<1>3. Bound(w)' = Bound(w) + n
  BY TurnKeepsWalk
<1>4. /\ \A v \in Worker \ {w} : /\ requests[v] = <<>> /\ requests'[v] = <<>>
                                 /\ Bound(v) = head /\ Bound(v)' = head
      /\ \A r : InHands(r) => \E i \in DOMAIN requests[w] : requests[w][i] = r
  <2>1. Emptying(w) /\ \A v \in Worker \ {w} : requests'[v] = requests[v] /\ countPops'[v] = countPops[v]
    BY DEF WalkTurn, Emptying, TypeOK, ReleaseTypeOK
  <2>2. \A v \in Worker \ {w} : requests[v] = <<>> /\ Bound(v) = head
    BY <2>1, OthersOutside
  <2>3. \A v \in Worker \ {w} : Bound(v)' = head
    BY <1>2, <2>1, <2>2 DEF Bound
  <2>4. QED
    BY <2>1, <2>2, <2>3 DEF InHands
<1>5. Slots' = Slots /\ \A x : IsOutdated(x)' = IsOutdated(x)
  BY <1>2 DEF Slots, IsOutdated
<1>6. /\ DOMAIN requests'[w] = DOMAIN requests[w] \cup {Len(requests[w]) + 1}
      /\ Len(requests[w]) \in Nat /\ DOMAIN requests[w] = 1 .. Len(requests[w])
      /\ requests'[w][Len(requests[w]) + 1] = e
      /\ \A i \in DOMAIN requests[w] : requests'[w][i] = requests[w][i]
  BY <1>1, <1>2
<1>7. \A p \in Slots : p < Bound(w) => p < Bound(w) + n
  BY <1>1
<1>8. HandsAreWalked'
  <2>1. ASSUME NEW i \in DOMAIN requests'[w], requests'[w][i] # Junk
        PROVE  /\ \E p \in Slots : p < Bound(w)' /\ slot[p] = requests'[w][i]
               /\ responses[requests'[w][i]] = 0 \/ IsOutdated(requests'[w][i])
    <3>1. CASE i \in DOMAIN requests[w]
      BY <1>3, <1>6, <1>7, <2>1, <3>1 DEF HandsAreWalked
    <3>2. CASE i = Len(requests[w]) + 1
      <4>1. PICK p \in Slots : /\ p < Bound(w) + n /\ slot[p] = e
                               /\ p >= Bound(w) \/ IsOutdated(e)
        BY <1>6, <2>1, <3>2
      <4>2. p >= Bound(w) => responses[e] = 0 \/ IsOutdated(e)
        BY <1>1, <4>1 DEF AnsweredWasWalked
      <4>3. QED
        BY <1>3, <1>6, <3>2, <4>1, <4>2
    <3>3. QED
      BY <1>6, <3>1, <3>2
  <2>2. ASSUME NEW i \in DOMAIN requests'[w], NEW j \in DOMAIN requests'[w],
               NEW p \in Slots, NEW q \in Slots,
               i < j, slot[p] = requests'[w][i], slot[q] = requests'[w][j]
        PROVE  p < q \/ IsOutdated(slot[q])
    <3>1. i \in DOMAIN requests[w] /\ requests'[w][i] = requests[w][i]
      BY <1>6, <2>2
    <3>2. CASE j \in DOMAIN requests[w]
      BY <1>6, <2>2, <3>1, <3>2 DEF HandsAreWalked
    <3>3. CASE j = Len(requests[w]) + 1
      <4>1. p < Bound(w)
        BY <1>1, <2>2, <3>1 DEF HandsAreWalked
      <4>2. slot[q] = e /\ e # Junk
        BY <1>1, <1>6, <2>2, <3>3
      <4>3. q >= Bound(w) \/ IsOutdated(slot[q])
        BY <1>1, <4>2
      <4>4. p \in Nat /\ q \in Nat /\ Bound(w) \in Nat
        BY <1>1
      <4>5. QED
        BY <4>1, <4>3, <4>4
    <3>4. QED
      BY <1>6, <3>2, <3>3
  <2>3. \A i \in DOMAIN requests'[w] :
          requests'[w][i] # Junk =>
            /\ \E p \in Slots' : p < Bound(w)' /\ slot'[p] = requests'[w][i]
            /\ responses'[requests'[w][i]] = 0 \/ IsOutdated(requests[w][i])'
    BY <1>2, <1>5, <2>1 DEF IsOutdated
  <2>4. \A i, j \in DOMAIN requests'[w] : \A p, q \in Slots' :
          i < j /\ slot'[p] = requests'[w][i] /\ slot'[q] = requests'[w][j] =>
            p < q \/ IsOutdated(slot[q])'
    BY <1>2, <1>5, <2>2 DEF IsOutdated
  <2>5. QED
    BY <1>4, <2>3, <2>4 DEF HandsAreWalked
<1>9. AnsweredWasWalked'
  BY <1>2, <1>3, <1>4, <1>5, <1>7 DEF AnsweredWasWalked
<1>10. WalkedIsAccounted'
  <2>1. ASSUME NEW p \in Slots, Accounted(slot[p]) PROVE Accounted(slot[p])'
    <3>1. CASE InHands(slot[p])
      <4>1. PICK i \in DOMAIN requests[w] : requests[w][i] = slot[p]
        BY <1>4, <3>1 DEF InHands
      <4>2. QED
        BY <1>2, <1>6, <4>1 DEF InHands, Accounted
    <3>2. QED
      BY <1>2, <1>5, <2>1, <3>1 DEF Accounted
  <2>2. ASSUME NEW p \in Slots, p < Bound(w) + n PROVE Accounted(slot[p])'
    <3>1. CASE p < Bound(w)
      BY <2>1, <3>1 DEF WalkedIsAccounted
    <3>2. CASE slot[p] = e
      BY <1>2, <1>6, <3>2 DEF InHands, Accounted
    <3>3. CASE IsOutdated(slot[p])
      BY <1>2, <1>5, <3>3 DEF Accounted
    <3>4. QED
      BY <1>1, <2>2, <3>1, <3>2, <3>3
  <2>3. ASSUME NEW p \in Slots, p < head PROVE Accounted(slot[p])'
    BY <2>1, <2>3 DEF WalkedIsAccounted
  <2>4. QED
    BY <1>2, <1>3, <1>4, <1>5, <2>2, <2>3 DEF WalkedIsAccounted
<1>11. AnsweredOnce'
  BY <1>2, <1>5 DEF AnsweredOnce
<1>12. QED
  BY <1>8, <1>9, <1>10, <1>11 DEF AnswerInv

\* A step of the walk takes the slot at Bound, or the one behind an outdated one;
\* past the end of the copy whatever it finds is outdated, as all the queue is.
LEMMA WalkKeepsAnswers ==
  ASSUME Locked, CalmInv, NEW w \in Worker,
         TakeValid(w) \/ DropOutdated(w) \/ (Overrun(w) /\ ~Crash)
  PROVE  AnswerInv'
<1> USE DEF CalmInv
<1>1. /\ pc[w] = "walk" /\ Bound(w) \in Nat /\ duplicate[w] \in Seq(Request \cup {Junk})
      /\ \A i \in 1 .. Len(duplicate[w]) :
           /\ Bound(w) + i - 1 \in Slots
           /\ duplicate[w][i] = slot[Bound(w) + i - 1]
           /\ duplicate[w][i] \in Request
  BY WalkFacts DEF TakeValid, DropOutdated, Overrun, WalkTurn
<1>2. /\ Slots \subseteq Nat /\ tail \in Nat
      /\ \A p \in Slots : slot[p] \in Request /\ slot[p] # Junk
  BY SlotTypes, GatewayAssumption DEF TypeOK
<1>3. Len(duplicate[w]) > 0
      => /\ Head(duplicate[w]) = slot[Bound(w)] /\ Bound(w) \in Slots
         /\ Len(duplicate[w]) = tail - Bound(w)
  <2> SUFFICES ASSUME Len(duplicate[w]) > 0
               PROVE  /\ Head(duplicate[w]) = slot[Bound(w)] /\ Bound(w) \in Slots
                      /\ Len(duplicate[w]) = tail - Bound(w)
    OBVIOUS
  <2>1. 1 \in 1 .. Len(duplicate[w]) /\ Head(duplicate[w]) = duplicate[w][1]
    BY <1>1
  <2>2. Bound(w) + 1 - 1 = Bound(w)
    BY <1>1
  <2>3. Bound(w) \in Slots /\ duplicate[w][1] = slot[Bound(w)]
    BY <1>1, <2>1, <2>2
  <2>4. QED
    BY <1>1, <1>2, <2>1, <2>3 DEF ReleaseIsWalk, WalkOf
<1>4. CASE TakeValid(w)
  <2>1. Len(duplicate[w]) > 0 /\ WalkTurn(w, 1, slot[Bound(w)]) /\ Bound(w) \in Slots
    BY <1>1, <1>3, <1>4 DEF TakeValid
  <2>2. \A p \in Slots : p >= Bound(w) /\ p < Bound(w) + 1 => slot[p] = slot[Bound(w)]
    <3> SUFFICES ASSUME NEW p \in Slots, p >= Bound(w), p < Bound(w) + 1 PROVE p = Bound(w)
      OBVIOUS
    <3>1. QED
      BY <1>1, <1>2
  <2>3. QED
    BY <1>1, <2>1, <2>2, TurnKeepsAnswers
<1>5. CASE DropOutdated(w)
  <2>1. /\ Len(duplicate[w]) > 0 /\ 2 \in 1 .. Len(duplicate[w])
        /\ IsOutdated(slot[Bound(w)])
    BY <1>1, <1>2, <1>3, <1>5 DEF DropOutdated, Outdated, IsOutdated
  <2>2. /\ Bound(w) + 1 \in Slots /\ WalkTurn(w, 2, slot[Bound(w) + 1])
    <3>1. Bound(w) + 2 - 1 = Bound(w) + 1
      BY <1>1
    <3>2. QED
      BY <1>1, <1>5, <2>1, <3>1 DEF DropOutdated
  <2>3. \A p \in Slots : p >= Bound(w) /\ p < Bound(w) + 2
          => slot[p] = slot[Bound(w) + 1] \/ IsOutdated(slot[p])
    <3> SUFFICES ASSUME NEW p \in Slots, p >= Bound(w), p < Bound(w) + 2
                 PROVE  p = Bound(w) \/ p = Bound(w) + 1
      BY <2>1
    <3>1. QED
      BY <1>1, <1>2
  <2>4. Bound(w) + 1 < Bound(w) + 2 /\ Bound(w) + 1 >= Bound(w)
    BY <1>1
  <2>5. QED
    BY <2>1, <2>2, <2>3, <2>4, TurnKeepsAnswers
<1>6. CASE Overrun(w) /\ ~Crash
  <2>1. PICK found \in Found : WalkTurn(w, 2, found)
    BY <1>6 DEF Overrun
  <2>2. /\ Len(duplicate[w]) > 0 /\ Bound(w) = tail - 1 /\ Bound(w) \in Slots
        /\ IsOutdated(slot[Bound(w)])
    BY <1>1, <1>2, <1>3, <1>6 DEF Overrun, Outdated, IsOutdated
  <2>3. \A p \in Slots : IsOutdated(slot[p])
    <3> TAKE p \in Slots
    <3>1. p <= Bound(w)
      BY <1>2, <2>2 DEF Slots
    <3>2. stamp[slot[p]] <= stamp[slot[Bound(w)]]
      BY <2>2, <3>1 DEF StampsGrow
    <3>3. /\ stamp[slot[p]] \in Nat /\ stamp[slot[Bound(w)]] \in Nat
          /\ MaxAge \in Nat /\ clock \in Nat
      BY <1>2, <2>2, ThroughputAssumption, GatewayAssumption
      DEF TypeOK, EntryTypeOK, ThroughputTypeOK
    <3>4. QED
      BY <2>2, <3>2, <3>3 DEF IsOutdated
  <2>4. found # Junk => \E p \in Slots : slot[p] = found
    BY <1>1, FoundInSlots DEF Emptying
  <2>5. \A p \in Slots : p < Bound(w) + 2
    BY <1>1, <1>2, <2>2 DEF Slots
  <2>6. QED
    BY <2>1, <2>2, <2>3, <2>4, <2>5, TurnKeepsAnswers
<1>7. QED
  BY <1>4, <1>5, <1>6

\* An answer goes to a request that has none, or that is outdated.
LEMMA AnswerKeepsAnswers ==
  ASSUME Locked, CalmInv, NEW w \in Worker, Answer(w)
  PROVE  AnswerInv'
<1> USE DEF CalmInv
<1> DEFINE h == Head(requests[w])
<1>1. /\ Slots \subseteq Nat /\ Bound(w) \in Nat
      /\ requests[w] \in Seq(Request \cup {Junk}) /\ requests[w] # <<>>
      /\ \A p \in Slots : slot[p] \in Request /\ slot[p] # Junk /\ push[slot[p]] = "pushed"
      /\ \A p, q \in Slots : slot[p] = slot[q] => p = q
  BY SlotTypes, WalkFacts, GatewayAssumption DEF Answer, TypeOK, SlotsArePushed
<1>2. /\ UNCHANGED <<push, slot, head, tail, stamp, clock, countPops>>
      /\ requests'[w] = Tail(requests[w])
      /\ \A r \in Request : responses'[r] = responses[r] + IF r = h THEN 1 ELSE 0
  BY DEF Answer, entryVars, queueVars, TypeOK, ReleaseTypeOK
<1>3. /\ \A v \in Worker \ {w} : requests[v] = <<>> /\ requests'[v] = <<>> /\ Bound(v)' = Bound(v)
      /\ \A v \in Worker \ {w} : \A p \in Slots : p < Bound(v)
      /\ \A r : InHands(r) => \E i \in DOMAIN requests[w] : requests[w][i] = r
  <2>1. Emptying(w) /\ head = tail /\ \A v \in Worker \ {w} : requests'[v] = requests[v]
    BY DEF Answer, Goto, Emptying, ReleaseIsWalk, WalkOf, TypeOK, ReleaseTypeOK
  <2>2. \A v \in Worker \ {w} : requests[v] = <<>> /\ Bound(v) = tail
    BY <2>1, OthersOutside
  <2>3. \A p \in Slots : p < tail
    BY SlotTypes DEF Slots, TypeOK
  <2>4. \A v \in Worker : Bound(v)' = Bound(v)
    BY <1>2 DEF Bound
  <2>5. QED
    BY <2>1, <2>2, <2>3, <2>4 DEF InHands
<1>4. Slots' = Slots /\ Bound(w)' = Bound(w)
  BY <1>2 DEF Slots, Bound
<1>5. 1 \in DOMAIN requests[w] /\ h = requests[w][1]
  BY <1>1
<1>6. \A i \in DOMAIN requests'[w] :
        /\ i + 1 \in DOMAIN requests[w] /\ requests'[w][i] = requests[w][i + 1]
        /\ i \in Nat /\ 1 < i + 1
  <2> TAKE i \in DOMAIN requests'[w]
  <2>1. i \in Nat /\ i >= 1
    BY <1>1, <1>2
  <2>2. QED
    BY <1>1, <1>2, <2>1, TailElement
<1>7. /\ \A r \in Request : responses[r] \in Nat
      /\ h # Junk => \E p \in Slots : p < Bound(w) /\ slot[p] = h
      /\ h # Junk => responses[h] = 0 \/ IsOutdated(h)
  BY <1>5 DEF HandsAreWalked, TypeOK
<1>8. HandsAreWalked'
  <2>1. ASSUME NEW i \in DOMAIN requests'[w], requests'[w][i] # Junk
        PROVE  /\ \E p \in Slots : p < Bound(w) /\ slot[p] = requests'[w][i]
               /\ responses'[requests'[w][i]] = 0 \/ IsOutdated(requests'[w][i])
    <3>1. PICK p \in Slots : p < Bound(w) /\ slot[p] = requests'[w][i]
      BY <1>6, <2>1 DEF HandsAreWalked
    <3>2. responses[slot[p]] = 0 \/ IsOutdated(slot[p])
      BY <1>6, <2>1, <3>1 DEF HandsAreWalked
    <3>3. CASE slot[p] = h
      <4>1. /\ 1 \in DOMAIN requests[w] /\ i + 1 \in DOMAIN requests[w] /\ 1 < i + 1
            /\ requests[w][1] = slot[p] /\ requests[w][i + 1] = slot[p]
        BY <1>5, <1>6, <2>1, <3>1, <3>3
      <4>2. p < p \/ IsOutdated(slot[p])
        BY <4>1 DEF HandsAreWalked
      <4>3. p \in Nat
        BY <1>1
      <4>4. ~(p < p)
        BY <4>3
      <4>5. QED
        BY <1>2, <3>1, <4>2, <4>4
    <3>4. CASE slot[p] # h
      <4>1. slot[p] \in Request /\ responses'[slot[p]] = responses[slot[p]]
        BY <1>1, <1>2, <1>7, <3>4
      <4>2. QED
        BY <3>1, <3>2, <4>1
    <3>5. QED
      BY <3>3, <3>4
  <2>2. ASSUME NEW i \in DOMAIN requests'[w], NEW j \in DOMAIN requests'[w],
               NEW p \in Slots, NEW q \in Slots,
               i < j, slot[p] = requests'[w][i], slot[q] = requests'[w][j]
        PROVE  p < q \/ IsOutdated(slot[q])
    <3>1. i + 1 < j + 1
      BY <1>6, <2>2
    <3>2. QED
      BY <1>6, <2>2, <3>1 DEF HandsAreWalked
  <2>3. \A i \in DOMAIN requests'[w] :
          requests'[w][i] # Junk =>
            /\ \E p \in Slots' : p < Bound(w)' /\ slot'[p] = requests'[w][i]
            /\ responses'[requests'[w][i]] = 0 \/ IsOutdated(requests[w][i])'
    BY <1>2, <1>4, <2>1 DEF IsOutdated
  <2>4. \A i, j \in DOMAIN requests'[w] : \A p, q \in Slots' :
          i < j /\ slot'[p] = requests'[w][i] /\ slot'[q] = requests'[w][j] =>
            p < q \/ IsOutdated(slot[q])'
    BY <1>2, <1>4, <2>2 DEF IsOutdated
  <2>5. QED
    BY <1>3, <2>3, <2>4 DEF HandsAreWalked
<1>9. AnsweredWasWalked'
  <2>1. \A r \in Request : responses'[r] > 0 => push'[r] = "pushed"
    <3> SUFFICES ASSUME NEW r \in Request, responses'[r] > 0 PROVE push[r] = "pushed"
      BY <1>2
    <3>1. CASE r = h
      BY <1>1, <1>7, <3>1, GatewayAssumption
    <3>2. CASE r # h
      BY <1>2, <1>7, <3>2 DEF AnsweredWasWalked
    <3>3. QED
      BY <3>1, <3>2
  <2>2. ASSUME NEW p \in Slots, ~(p < Bound(w))
        PROVE  responses'[slot[p]] = 0 \/ IsOutdated(slot[p])
    <3>1. slot[p] # h
      BY <1>1, <1>7, <2>2
    <3>2. QED
      BY <1>1, <1>2, <1>7, <2>2, <3>1 DEF AnsweredWasWalked
  <2>3. QED
    BY <1>2, <1>3, <1>4, <2>1, <2>2 DEF AnsweredWasWalked, IsOutdated
<1>10. WalkedIsAccounted'
  <2>1. ASSUME NEW p \in Slots, Accounted(slot[p]) PROVE Accounted(slot[p])'
    <3>1. slot[p] \in Request /\ slot'[p] = slot[p]
      BY <1>1, <1>2
    <3>2. CASE slot[p] = h
      BY <1>2, <1>7, <3>1, <3>2 DEF Accounted
    <3>3. CASE slot[p] # h /\ InHands(slot[p])
      <4>1. PICK i \in DOMAIN requests[w] : requests[w][i] = slot[p]
        BY <1>3, <3>3 DEF InHands
      <4>2. i # 1
        BY <1>5, <3>3, <4>1
      <4>3. i - 1 \in DOMAIN Tail(requests[w]) /\ Tail(requests[w])[i - 1] = slot[p]
        BY <1>1, <4>1, <4>2
      <4>4. QED
        BY <1>2, <3>1, <4>3 DEF InHands, Accounted
    <3>4. CASE slot[p] # h /\ ~InHands(slot[p])
      BY <1>2, <1>7, <2>1, <3>1, <3>4 DEF Accounted, IsOutdated
    <3>5. QED
      BY <3>2, <3>3, <3>4
  <2>2. \A p \in Slots : p < head => Accounted(slot[p])'
    BY <2>1 DEF WalkedIsAccounted
  <2>3. \A v \in Worker : \A p \in Slots : p < Bound(v)' => Accounted(slot[p])'
    <3>1. \A v \in Worker : Bound(v)' = Bound(v)
      BY <1>3, <1>4
    <3>2. QED
      BY <2>1, <3>1 DEF WalkedIsAccounted
  <2>4. QED
    BY <1>2, <1>4, <2>2, <2>3 DEF WalkedIsAccounted
<1>11. AnsweredOnce'
  <2> SUFFICES ASSUME NEW r \in Request, responses'[r] > 1 PROVE IsOutdated(r)
    BY <1>2 DEF AnsweredOnce, IsOutdated
  <2>1. CASE r = h
    BY <1>2, <1>7, <2>1, GatewayAssumption
  <2>2. CASE r # h
    BY <1>2, <1>7, <2>2 DEF AnsweredOnce
  <2>3. QED
    BY <2>1, <2>2
<1>12. QED
  BY <1>8, <1>9, <1>10, <1>11 DEF AnswerInv

\* Every step keeps what is known of the answers.
LEMMA StepAnswers == Locked /\ CalmInv /\ [GatewayNext]_gatewayVars => AnswerInv'
<1> SUFFICES ASSUME Locked, CalmInv, [GatewayNext]_gatewayVars
             PROVE  AnswerInv'
  OBVIOUS
<1>0. /\ clock \in Nat /\ push \in [Request -> PushStage] /\ stamp \in [Request -> Nat]
      /\ countPops \in [Worker -> Nat] /\ tail \in Nat /\ head \in Nat
      /\ \A v \in Worker : Bound(v) \in Nat
  BY ThroughputAssumption, WalkFacts
  DEF CalmInv, TypeOK, ThroughputTypeOK, EntryTypeOK, ReleaseTypeOK, QueueTypeOK
<1>1. ASSUME UNCHANGED <<requests, responses, countPops, head, tail>>,
             clock' \in Nat, clock <= clock',
             \A p \in Slots : slot'[p] = slot[p],
             \A r \in Request : push[r] = "pushed" => push'[r] = "pushed" /\ stamp'[r] = stamp[r]
      PROVE  AnswerInv'
  <2>1. \A v \in Worker : Bound(v)' = Bound(v)
    BY <1>1 DEF Bound
  <2>2. QED
    BY <1>1, <2>1, AnswersKept
<1>2. ASSUME UNCHANGED <<requests, responses, countPops, queueVars, clock, push, stamp>>
      PROVE  AnswerInv'
  BY <1>0, <1>1, <1>2 DEF queueVars
<1>3. Crash => AnswerInv'
  BY <1>2 DEF Crash, entryVars, releaseVars
<1>4. ASSUME NEW w \in Worker, HandlerStep(w) PROVE AnswerInv'
  <2>1. CASE CountRead(w)
    <3>1. push[req[w]] = "accepted" /\ push' = [push EXCEPT ![req[w]] = "query"]
      BY <2>1 DEF CountRead, Goto, CalmInv, HandlersFollowPush
    <3>2. QED
      BY <1>0, <1>1, <2>1, <3>1 DEF CountRead, queueVars, releaseVars
  <2>2. CASE PostWrite(w) \/ PostReturns(w) \/ Join(w)
    BY <1>2, <2>2 DEF PostWrite, PostReturns, Join, entryVars, releaseVars
  <2>3. CASE TakeValid(w) \/ DropOutdated(w) \/ Overrun(w)
    BY <1>3, <2>3, WalkKeepsAnswers
  <2>4. CASE Copy(w) \/ CopyFails(w) \/ WalkEnd(w)
    BY <1>2, <1>3, <2>4 DEF Copy, CopyFails, WalkEnd, entryVars
  <2>5. CASE SeeNonEmpty(w) \/ PopsDone(w) \/ RecordTime(w) \/ ReleaseDone(w)
    <3>1. UNCHANGED <<requests, responses, countPops, queueVars, push, stamp>>
      BY <2>5 DEF SeeNonEmpty, PopsDone, RecordTime, ReleaseDone, entryVars, releaseVars
    <3>2. UNCHANGED clock
      BY <2>5 DEF SeeNonEmpty, PopsDone, RecordTime, ReleaseDone
    <3>3. QED
      BY <1>2, <3>1, <3>2
  <2>6. CASE SeeEmpty(w)
    <3>1. /\ head = tail /\ countPops[w] > 0 /\ countPops'[w] = countPops[w] - 1
          /\ \A v \in Worker \ {w} : countPops'[v] = countPops[v]
          /\ UNCHANGED <<requests, responses, queueVars, push, stamp, clock>>
      BY <1>0, <2>6 DEF SeeEmpty, entryVars
    <3>2. \A v \in Worker : \A p \in Slots : p < Bound(v)' <=> p < Bound(v)
      <4>1. Bound(w)' = Bound(w) - 1 /\ Bound(w) > tail /\ Bound(w) \in Nat
        BY <1>0, <3>1 DEF Bound, queueVars
      <4>2. \A v \in Worker \ {w} : Bound(v)' = Bound(v)
        BY <3>1 DEF Bound, queueVars
      <4>3. \A p \in Slots : p < Bound(w)' <=> p < Bound(w)
        BY <1>0, <4>1 DEF Slots
      <4>4. QED
        BY <4>2, <4>3
    <3>3. QED
      BY <1>0, <3>1, <3>2, AnswersKept DEF queueVars
  <2>7. CASE Pop(w)
    <3>1. /\ pc[w] = "pop" /\ head' = head + 1
          /\ countPops[w] > 0 /\ countPops'[w] = countPops[w] - 1
          /\ \A v \in Worker \ {w} : countPops'[v] = countPops[v]
          /\ UNCHANGED <<requests, responses, slot, tail, push, stamp, clock>>
      BY <1>0, <2>7 DEF Pop, Goto, entryVars, CalmInv, ReleaseIsWalk, WalkOf
    <3>2. Bound(w)' = Bound(w)
      BY <1>0, <3>1 DEF Bound
    <3>3. \A p \in Slots : p < head' => p < Bound(w)
      BY <1>0, <3>1 DEF Slots, Bound
    <3>4. \A v \in Worker \ {w} : Bound(v) = head /\ Bound(v)' = head'
      <4>1. \A v \in Worker \ {w} : countPops[v] = 0
        BY <3>1, OthersOutside DEF Emptying
      <4>2. QED
        BY <1>0, <3>1, <4>1 DEF Bound
    <3>5. \A v \in Worker : \A p \in Slots :
            /\ p < Bound(v) => p < Bound(v)'
            /\ p < Bound(v)' => p < head \/ \E u \in Worker : p < Bound(u)
      <4> TAKE v \in Worker
      <4> TAKE p \in Slots
      <4>1. CASE v = w
        BY <3>2, <4>1
      <4>2. CASE v # w
        <5>1. Bound(v) = head /\ Bound(v)' = head'
          BY <3>4, <4>2
        <5>2. p < head => p < head'
          BY <1>0, <3>1 DEF Slots
        <5>3. QED
          BY <3>3, <5>1, <5>2
      <4>3. QED
        BY <4>1, <4>2
    <3>6. QED
      BY <1>0, <3>1, <3>3, <3>5, AnswersKept
  <2>8. CASE Answer(w)
    BY <2>8, AnswerKeepsAnswers
  <2>9. QED
    BY <1>4, <2>1, <2>2, <2>3, <2>4, <2>5, <2>6, <2>7, <2>8
    DEF HandlerStep, ReadHandler, ReleaseHandler, GetRequestsSentToAstraea
<1>5. ASSUME NEW w \in Worker, Accept(w) \/ ReleaseArrives(w) PROVE AnswerInv'
  <2>1. ASSUME NEW r \in ReadRequest, AcceptRead(w, r) PROVE AnswerInv'
    BY <1>0, <1>1, <2>1 DEF AcceptRead, queueVars, releaseVars
  <2>2. ASSUME NEW r \in WriteRequest, AcceptWrite(w, r) PROVE AnswerInv'
    BY <1>0, <1>1, <2>2 DEF AcceptWrite, queueVars, releaseVars
  <2>3. CASE AcceptRelease(w)
    BY <1>2, <2>3 DEF AcceptRelease, entryVars, releaseVars
  <2>4. QED
    BY <1>5, <2>1, <2>2, <2>3 DEF Accept, ReleaseArrives
<1>6. ASSUME NEW r \in Request, PushStep(r) PROVE AnswerInv'
  <2>1. CASE Query(r)
    BY <1>0, <1>1, <2>1 DEF Query, queueVars, releaseVars
  <2>2. CASE QueryFails(r)
    BY <1>3, <2>2 DEF QueryFails
  <2>3. CASE StoreEntry(r)
    <3>1. \A p \in Slots : slot'[p] = slot[p]
      BY <2>3, StoreKeepsQueue
    <3>2. UNCHANGED <<requests, responses, countPops, head, tail, clock>>
      BY <2>3 DEF StoreEntry, releaseVars
    <3>3. \A q \in Request : push[q] = "pushed" => push'[q] = "pushed" /\ stamp'[q] = stamp[q]
      BY <1>0, <2>3 DEF StoreEntry
    <3>4. QED
      BY <1>0, <1>1, <3>1, <3>2, <3>3
  <2>4. CASE PublishTail(r)
    BY <2>4, PublishKeepsAnswers
  <2>5. QED
    BY <1>6, <2>1, <2>2, <2>3, <2>4 DEF PushStep
<1>7. CASE ClockTick
  BY <1>0, <1>1, <1>7 DEF ClockTick, Tick, entryVars, queueVars, releaseVars
<1>8. CASE RaceCrashes \/ UNCHANGED gatewayVars
  BY <1>2, <1>3, <1>8 DEF RaceCrashes, gatewayVars, entryVars, releaseVars
<1>9. QED
  BY <1>4, <1>5, <1>6, <1>7, <1>8 DEF GatewayNext

-----------------------------------------------------------------------------
\* The invariant holds at the start, where nothing is queued.
LEMMA CalmInvInit == GatewayInit => Locked /\ CalmInv
<1> SUFFICES ASSUME GatewayInit PROVE Locked /\ CalmInv
  OBVIOUS
<1>1. Slots = {}
  BY DEF GatewayInit, Slots
<1>2. PopsLeft /\ HandlersFollowPush
  BY DEF GatewayInit, PopsLeft, HandlersFollowPush
<1>3. SlotsArePushed /\ StampsGrow
  BY <1>1 DEF GatewayInit, ThroughputInit, SlotsArePushed, StampsGrow
<1>4. ReleaseIsWalk
  BY DEF GatewayInit, ReleaseIsWalk, WalkOf, Emptying
<1>5. HandsAreWalked /\ AnsweredWasWalked /\ WalkedIsAccounted
  BY <1>1 DEF GatewayInit, HandsAreWalked, AnsweredWasWalked, WalkedIsAccounted
<1>6. AnsweredOnce
  BY DEF GatewayInit, AnsweredOnce
<1>7. Locked
  BY DEF GatewayInit, Locked, Pushing, Emptying
<1>8. QED
  BY <1>2, <1>3, <1>4, <1>5, <1>6, <1>7, Initially DEF CalmInv

\* A step from a state with at most one thread in the queue keeps the invariant, also the
\* step that brings a second one there.
LEMMA StepCalmInv ==
  Locked /\ CalmInv /\ HandlerInv /\ [GatewayNext]_gatewayVars => CalmInv'
<1> SUFFICES ASSUME Locked, CalmInv, HandlerInv, [GatewayNext]_gatewayVars PROVE CalmInv'
  OBVIOUS
<1>1. TypeOK' /\ PopsLeft' /\ HandlerInv'
  BY StepType, StepPopsLeft, StepHandlers DEF CalmInv
<1>2. SlotsArePushed' /\ StampsGrow' /\ ReleaseIsWalk'
  BY StepQueue, StepReleaseIsWalk
<1>3. AnswerInv'
  BY StepAnswers
<1>4. QED
  BY <1>1, <1>2, <1>3 DEF CalmInv, AnswerInv, HandlerInv

\* What holds of every state, and what holds until two threads meet in the queue.
HistoryInv ==
  /\ TypeOK
  /\ PopsLeft
  /\ HandlerInv
  /\ ~raced => Locked /\ CalmInv

\* The history says no only where no two threads are in the queue, now or before.
LEMMA StepHistoryInv ==
  HistoryInv /\ [GatewayHistoryNext]_gatewayHistoryVars => HistoryInv'
<1> SUFFICES ASSUME HistoryInv, [GatewayHistoryNext]_gatewayHistoryVars PROVE HistoryInv'
  OBVIOUS
<1>1. [GatewayNext]_gatewayVars
  BY DEF GatewayHistoryNext, gatewayHistoryVars
<1>2. TypeOK' /\ PopsLeft' /\ HandlerInv'
  BY <1>1, StepType, StepPopsLeft, StepHandlers DEF HistoryInv
<1>3. ASSUME ~raced' PROVE ~raced /\ Locked'
  <2>1. CASE NoteRace
    BY <1>3, <2>1 DEF NoteRace
  <2>2. CASE UNCHANGED gatewayHistoryVars
    <3>1. Locked' <=> Locked
      BY <2>2 DEF gatewayHistoryVars, gatewayVars, handlerVars, entryVars, Locked, Pushing, Emptying
    <3>2. QED
      BY <1>3, <2>2, <3>1 DEF gatewayHistoryVars, HistoryInv
  <2>3. QED
    BY <2>1, <2>2 DEF GatewayHistoryNext
<1>4. ~raced' => CalmInv'
  BY <1>1, <1>3, StepCalmInv DEF HistoryInv
<1>5. QED
  BY <1>2, <1>3, <1>4 DEF HistoryInv

\* The inductive invariant holds in every behaviour, with any number of workers: while no
\* two threads have met in the queue, every walk, copy, answer and timestamp is in step
\* with the queue, whatever the other threads do around it.
THEOREM CalmGateway == GatewayHistorySpec => []HistoryInv
<1>1. GatewayHistoryInit => HistoryInv
  BY Initially, HandlerInvInit, CalmInvInit
  DEF GatewayHistoryInit, HistoryInv, CalmInv
<1>2. QED
  BY <1>1, StepHistoryInv, PTL DEF GatewayHistorySpec

\* No queued request is lost before two threads meet in the queue: the walk and the pops
\* of a release never pass over one that is not outdated without taking it.
THEOREM CalmLosesNothing == GatewayHistorySpec => []NothingLost
<1>1. HistoryInv => NothingLost
  <2> SUFFICES ASSUME CalmInv, NEW r \in Request, push[r] = "pushed", responses[r] = 0
               PROVE  r \in Queue \/ InHands(r) \/ IsOutdated(r)
    BY DEF NothingLost, HistoryInv
  <2>1. PICK p \in Slots : slot[p] = r
    BY DEF CalmInv, SlotsArePushed
  <2>2. p < head => Accounted(r)
    BY <2>1 DEF CalmInv, WalkedIsAccounted
  <2>3. p >= head => r \in Queue
    <3>1. head \in Nat /\ tail \in Nat /\ Slots \subseteq DOMAIN slot
      BY SlotTypes DEF CalmInv, TypeOK, SlotsArePushed
    <3>2. p >= head => p \in (head .. tail - 1) \cap DOMAIN slot
      BY <2>1, <3>1 DEF Slots
    <3>3. QED
      BY <2>1, <3>2 DEF Queue
  <2>4. p \in Nat /\ head \in Nat
    BY SlotTypes DEF CalmInv, TypeOK
  <2>5. QED
    BY <2>2, <2>3, <2>4 DEF Accounted
<1>2. QED
  BY <1>1, CalmGateway, PTL

\* No request is answered twice before it is outdated, unless two threads have met in
\* the queue: one release takes up where the last one stopped.
THEOREM CalmAnswersOnce == GatewayHistorySpec => []AnsweredAtMostOnce
<1>1. HistoryInv => AnsweredAtMostOnce
  BY DEF HistoryInv, CalmInv, AnsweredOnce, AnsweredAtMostOnce
<1>2. QED
  BY <1>1, CalmGateway, PTL

-----------------------------------------------------------------------------
(* The gateway implements the service *)

\* What Status says of a request, before and after a step.
LEMMA StatusIs ==
  /\ TypeOK =>
       \A r \in Request :
         /\ Status(r) = "new" <=> push[r] = "new"
         /\ Status(r) = "accepted" <=> push[r] \notin {"new", "pushed"}
         /\ Status(r) = "answered" <=> push[r] = "pushed" /\ responses[r] > 0
         /\ Status(r) = "expired" <=> push[r] = "pushed" /\ responses[r] = 0 /\ IsOutdated(r)
         /\ Status(r) = "queued" <=> push[r] = "pushed" /\ responses[r] = 0 /\ ~IsOutdated(r)
         /\ Status(r) \in {"new", "accepted", "answered", "expired", "queued"}
  /\ TypeOK' =>
       \A r \in Request :
         /\ Status(r)' = "new" <=> push'[r] = "new"
         /\ Status(r)' = "accepted" <=> push'[r] \notin {"new", "pushed"}
         /\ Status(r)' = "answered" <=> push'[r] = "pushed" /\ responses'[r] > 0
         /\ Status(r)' = "expired" <=> push'[r] = "pushed" /\ responses'[r] = 0 /\ IsOutdated(r)'
         /\ Status(r)' = "queued" <=> push'[r] = "pushed" /\ responses'[r] = 0 /\ ~IsOutdated(r)'
         /\ Status(r)' \in {"new", "accepted", "answered", "expired", "queued"}
<1>1. ASSUME TypeOK, NEW r \in Request
      PROVE  /\ Status(r) = "new" <=> push[r] = "new"
             /\ Status(r) = "accepted" <=> push[r] \notin {"new", "pushed"}
             /\ Status(r) = "answered" <=> push[r] = "pushed" /\ responses[r] > 0
             /\ Status(r) = "expired" <=> push[r] = "pushed" /\ responses[r] = 0 /\ IsOutdated(r)
             /\ Status(r) = "queued" <=> push[r] = "pushed" /\ responses[r] = 0 /\ ~IsOutdated(r)
             /\ Status(r) \in {"new", "accepted", "answered", "expired", "queued"}
  <2>1. push[r] \in PushStage /\ responses[r] \in Nat
    BY <1>1 DEF TypeOK, EntryTypeOK
  <2>2. QED
    BY <2>1 DEF Status, PushStage
<1>2. ASSUME TypeOK', NEW r \in Request
      PROVE  /\ Status(r)' = "new" <=> push'[r] = "new"
             /\ Status(r)' = "accepted" <=> push'[r] \notin {"new", "pushed"}
             /\ Status(r)' = "answered" <=> push'[r] = "pushed" /\ responses'[r] > 0
             /\ Status(r)' = "expired" <=> push'[r] = "pushed" /\ responses'[r] = 0 /\ IsOutdated(r)'
             /\ Status(r)' = "queued" <=> push'[r] = "pushed" /\ responses'[r] = 0 /\ ~IsOutdated(r)'
             /\ Status(r)' \in {"new", "accepted", "answered", "expired", "queued"}
  <2>1. push'[r] \in PushStage /\ responses'[r] \in Nat
    BY <1>2 DEF TypeOK, EntryTypeOK
  <2>2. QED
    BY <2>1 DEF Status, PushStage
<1>3. QED
  BY <1>1, <1>2

\* The order is a sequence of requests.
LEMMA OrderIs ==
  ASSUME TypeOK, SlotsArePushed
  PROVE  /\ [p \in 1 .. tail - 1 |-> slot[p]] \in Seq(Request)
         /\ Len([p \in 1 .. tail - 1 |-> slot[p]]) = tail - 1
         /\ tail - 1 \in Nat
BY SlotTypes DEF TypeOK, Slots

\* Where no status changes and nothing is queued, the service stands still.
LEMMA ServiceStands ==
  ASSUME UNCHANGED tail, \A p \in Slots : slot'[p] = slot[p],
         \A r \in Request : Status(r)' = Status(r)
  PROVE  UNCHANGED Service!serviceVars
BY DEF Service!serviceVars, Slots

\* Where one status changes, the service moves one request.
LEMMA ServiceMoves ==
  ASSUME NEW r \in Request, NEW from, NEW to, Status(r) = from, Status(r)' = to,
         \A q \in Request \ {r} : Status(q)' = Status(q)
  PROVE  Service!Move(r, from, to)
BY DEF Service!Move

\* A set of natural numbers that is not empty has a least element.
LEMMA LeastElement ==
  ASSUME NEW S \in SUBSET Nat, S # {}
  PROVE  \E n \in S : \A k \in S : n <= k
<1> DEFINE R == OpToRel(<, Nat)
<1>1. IsWellFoundedOn(R, Nat)
  BY NatLessThanWellFounded, Zenon
<1>2. \A x, y \in Nat : <<x, y>> \in R <=> x < y
  BY Zenon DEF OpToRel
<1> HIDE DEF R
<1>3. PICK n \in S : \A k \in S : ~(<<k, n>> \in R)
  BY <1>1, WFMin
<1>4. \A k \in S : ~(k < n)
  BY <1>2, <1>3
<1>5. QED
  BY <1>4

\* A request that is taken up is accepted.
LEMMA AcceptImplements ==
  ASSUME CalmInv, CalmInv', NEW w \in Worker, NEW r \in Request, push[r] = "new",
         (r \in ReadRequest /\ AcceptRead(w, r)) \/ (r \in WriteRequest /\ AcceptWrite(w, r))
  PROVE  Service!AcceptRequest(r)
<1>1. /\ push'[r] \notin {"new", "pushed"} /\ \A q \in Request \ {r} : push'[q] = push[q]
      /\ \A q \in Request \ {r} : stamp'[q] = stamp[q]
      /\ UNCHANGED <<responses, slot, head, tail, clock>>
  BY DEF AcceptRead, AcceptWrite, queueVars, CalmInv, TypeOK, EntryTypeOK
<1>2. TypeOK /\ TypeOK'
  BY DEF CalmInv
<1>3. Status(r) = "new" /\ Status(r)' = "accepted"
  BY <1>1, <1>2, StatusIs
<1>4. \A q \in Request \ {r} : Status(q)' = Status(q)
  BY <1>1 DEF Status, IsOutdated
<1>5. Service!Move(r, "new", "accepted")
  BY <1>3, <1>4, ServiceMoves
<1>6. QED
  BY <1>1, <1>5 DEF Service!AcceptRequest

\* What is published is queued; if it is outdated by then, all before it is too.
LEMMA PublishImplements ==
  ASSUME Locked, CalmInv, CalmInv', NEW r \in Request, PublishTail(r)
  PROVE  Service!Enqueue(r) \/ Service!EnqueueLate(r)
<1> DEFINE order == [p \in 1 .. tail - 1 |-> slot[p]]
<1>1. /\ push[r] = "publish" /\ push'[r] = "pushed"
      /\ \A q \in Request \ {r} : push'[q] = push[q]
      /\ UNCHANGED <<responses, slot, stamp, clock>>
      /\ tail' = tail + 1 /\ slot[tail] = r
  BY PublishKeepsQueue DEF PublishTail, CalmInv, TypeOK, EntryTypeOK
<1>2. TypeOK /\ TypeOK' /\ SlotsArePushed
  BY DEF CalmInv
<1>3. order \in Seq(Request) /\ Len(order) = tail - 1 /\ tail - 1 \in Nat /\ tail \in Nat
  BY <1>2, OrderIs, SlotTypes DEF TypeOK
<1>4. [p \in 1 .. tail' - 1 |-> slot'[p]] = Append(order, r)
  <2>1. tail' - 1 = Len(order) + 1
    BY <1>1, <1>3
  <2>2. \A p \in 1 .. Len(order) + 1 : slot'[p] = Append(order, r)[p]
    BY <1>1, <1>3
  <2>3. QED
    BY <1>3, <2>1, <2>2
<1>5. Status(r) = "accepted" /\ \A q \in Request \ {r} : Status(q)' = Status(q)
  BY <1>1, <1>2, StatusIs DEF Status, IsOutdated
<1>6. responses[r] = 0
  BY <1>1 DEF CalmInv, AnsweredWasWalked, TypeOK
<1>7. CASE ~IsOutdated(r)
  <2>1. Status(r)' = "queued"
    BY <1>1, <1>2, <1>6, <1>7, StatusIs DEF IsOutdated
  <2>2. QED
    BY <1>4, <1>5, <2>1, ServiceMoves DEF Service!Enqueue
<1>8. CASE IsOutdated(r)
  <2>1. Status(r)' = "expired"
    BY <1>1, <1>2, <1>6, <1>8, StatusIs DEF IsOutdated
  <2>2. \A p \in Slots : slot[p] \in Request /\ IsOutdated(slot[p])
    <3> TAKE p \in Slots
    <3>1. slot[p] \in Request /\ stamp[slot[p]] <= stamp[r]
      BY <1>1, <1>2, SlotTypes DEF CalmInv, StampsGrow, TypeOK
    <3>2. /\ stamp[slot[p]] \in Nat /\ stamp[r] \in Nat /\ MaxAge \in Nat /\ clock \in Nat
      BY <1>2, <3>1, ThroughputAssumption, GatewayAssumption
      DEF TypeOK, EntryTypeOK, ThroughputTypeOK
    <3>3. QED
      BY <1>8, <3>1, <3>2 DEF IsOutdated
  <2>3. \A p \in 1 .. tail - 1 : Status(slot[p]) # "queued" /\ slot[p] \in Request
    BY <1>2, <2>2, StatusIs DEF Slots
  <2>4. Service!FirstWaiting(Len(order) + 1)
    <3>1. (Len(order) + 1) - 1 = tail - 1
      BY <1>3
    <3>2. QED
      BY <2>3, <3>1 DEF Service!FirstWaiting
  <2>5. QED
    BY <1>4, <1>5, <2>1, <2>4, ServiceMoves DEF Service!EnqueueLate
<1>9. QED
  BY <1>7, <1>8

\* An answer goes to the first request that still waits, to one that expired, or to one
\* that had its answer.
LEMMA AnswerImplements ==
  ASSUME Locked, CalmInv, CalmInv', NEW w \in Worker, Answer(w)
  PROVE  [Service!ServiceNext]_(Service!serviceVars)
<1> DEFINE order == [p \in 1 .. tail - 1 |-> slot[p]]
<1>0. PICK h : h = Head(requests[w])
  OBVIOUS
<1>1. /\ UNCHANGED <<push, stamp, clock, slot, head, tail>>
      /\ \A r \in Request : responses'[r] = responses[r] + IF r = h THEN 1 ELSE 0
  BY <1>0 DEF Answer, entryVars, queueVars
<1>2. TypeOK /\ TypeOK' /\ SlotsArePushed
  BY DEF CalmInv
<1>3. \A q \in Request : responses[q] \in Nat
  BY <1>2 DEF TypeOK
<1>4. \A q \in Request : q # h => Status(q)' = Status(q)
  <2> SUFFICES ASSUME NEW q \in Request, q # h PROVE Status(q)' = Status(q)
    OBVIOUS
  <2>1. responses'[q] = responses[q]
    BY <1>1, <1>3
  <2>2. QED
    BY <1>1, <2>1 DEF Status, IsOutdated
<1>5. CASE h \notin Request
  BY <1>1, <1>4, <1>5, ServiceStands
<1>6. CASE h \in Request
  <2>1. /\ requests[w] \in Seq(Request \cup {Junk}) /\ requests[w] # <<>>
        /\ 1 \in DOMAIN requests[w] /\ requests[w][1] = h /\ h # Junk
    BY <1>0, <1>6, WalkFacts, GatewayAssumption DEF Answer
  <2>0. \A r : InHands(r) => \E i \in DOMAIN requests[w] : requests[w][i] = r
    BY OthersOutside DEF Answer, Goto, Emptying, InHands
  <2>2. PICK n \in Slots : n < Bound(w) /\ slot[n] = h
    BY <2>1 DEF CalmInv, HandsAreWalked
  <2>3. /\ push[h] = "pushed" /\ n \in Nat
        /\ order \in Seq(Request) /\ Len(order) = tail - 1 /\ tail - 1 \in Nat
    BY <1>2, <2>2, SlotTypes, OrderIs DEF TypeOK
  <2>4. Status(h)' = "answered"
    BY <1>1, <1>2, <1>3, <1>6, <2>3, StatusIs
  <2>5. CASE responses[h] > 0
    <3>1. Status(h) = "answered"
      BY <1>2, <1>6, <2>3, <2>5, StatusIs
    <3>2. QED
      BY <1>1, <1>4, <2>4, <3>1, ServiceStands
  <2>6. CASE responses[h] = 0 /\ IsOutdated(h)
    <3>1. Status(h) = "expired"
      BY <1>2, <1>6, <2>3, <2>6, StatusIs
    <3>2. Service!Move(h, "expired", "answered")
      BY <1>4, <1>6, <2>4, <3>1, ServiceMoves
    <3>3. Service!AnswerLate(h)
      BY <1>1, <3>2 DEF Service!AnswerLate
    <3>4. QED
      BY <1>6, <3>3 DEF Service!ServiceNext
  <2>7. CASE responses[h] = 0 /\ ~IsOutdated(h)
    <3>1. Status(h) = "queued"
      BY <1>2, <1>6, <2>3, <2>7, StatusIs
    <3>2. Service!Move(h, "queued", "answered")
      BY <1>4, <1>6, <2>4, <3>1, ServiceMoves
    <3>3. ASSUME NEW i \in 1 .. n - 1 PROVE Status(slot[i]) # "queued" /\ i \in 1 .. tail - 1
      <4>1. /\ i \in Nat /\ i < n /\ i \in Slots /\ i < Bound(w)
            /\ i \in 1 .. tail - 1 /\ slot[i] \in Request
        <5>1. Bound(w) \in Nat /\ tail \in Nat /\ n < tail
          BY <1>2, <2>2, <2>3, WalkFacts, SlotTypes DEF TypeOK, Slots
        <5>2. i \in Nat /\ i < n /\ i >= 1
          BY <2>3
        <5>3. i < Bound(w) /\ i \in 1 .. tail - 1
          BY <2>2, <2>3, <5>1, <5>2
        <5>4. QED
          BY <1>2, <5>2, <5>3, SlotTypes DEF TypeOK, Slots
      <4>2. Accounted(slot[i])
        BY <4>1 DEF CalmInv, WalkedIsAccounted
      <4>3. InHands(slot[i]) => IsOutdated(slot[i])
        <5> SUFFICES ASSUME InHands(slot[i]) PROVE IsOutdated(slot[i])
          OBVIOUS
        <5>1. PICK j \in DOMAIN requests[w] : requests[w][j] = slot[i]
          BY <2>0
        <5>2. slot[i] # h
          BY <2>2, <2>3, <4>1 DEF CalmInv, SlotsArePushed
        <5>3. j # 1 /\ 1 < j
          BY <2>1, <5>1, <5>2
        <5>4. n < i \/ IsOutdated(slot[i])
          BY <2>1, <2>2, <4>1, <5>1, <5>3 DEF CalmInv, HandsAreWalked
        <5>5. QED
          BY <2>3, <4>1, <5>4
      <4>4. QED
        BY <1>2, <4>1, <4>2, <4>3, StatusIs DEF Accounted
    <3>4. Service!FirstWaiting(n)
      <4>1. \A i \in 1 .. n - 1 : order[i] = slot[i] /\ order[i] \in Request
        BY <1>2, <3>3, SlotTypes DEF TypeOK, Slots
      <4>2. QED
        BY <3>3, <4>1 DEF Service!FirstWaiting
    <3>5. n \in 1 .. Len(order) /\ order[n] = h
      BY <2>2, <2>3 DEF Slots
    <3>6. Service!AnswerNext(n)
      BY <1>1, <3>2, <3>4, <3>5 DEF Service!AnswerNext
    <3>7. QED
      BY <3>5, <3>6 DEF Service!ServiceNext
  <2>8. QED
    BY <1>3, <1>6, <2>5, <2>6, <2>7
<1>7. QED
  BY <1>5, <1>6

\* As the clock moves on, the oldest requests expire.
LEMMA TickImplements ==
  ASSUME CalmInv, CalmInv', ClockTick
  PROVE  [Service!ServiceNext]_(Service!serviceVars)
<1> DEFINE order == [p \in 1 .. tail - 1 |-> slot[p]]
           Late(n) == \A p \in Slots : IsOutdated(slot[p])' => p <= n
<1>1. UNCHANGED <<push, stamp, slot, head, tail, responses>> /\ clock' = clock + 1
  BY DEF ClockTick, Tick, entryVars, queueVars
<1>2. TypeOK /\ TypeOK' /\ SlotsArePushed /\ clock \in Nat /\ clock <= clock' /\ clock' \in Nat
  BY <1>1, ThroughputAssumption DEF CalmInv, TypeOK, ThroughputTypeOK
<1>3. /\ order \in Seq(Request) /\ Len(order) = tail - 1 /\ tail - 1 \in Nat
      /\ Slots \subseteq Nat
      /\ \A p \in Slots : slot[p] \in Request /\ push[slot[p]] = "pushed"
  BY <1>2, OrderIs, SlotTypes DEF TypeOK
<1>4. \A r \in Request : IsOutdated(r) => IsOutdated(r)'
  BY <1>1, <1>2, OutdatedStays
<1>5. PICK n \in Nat : Late(n) /\ \A k \in Nat : Late(k) => n <= k
  <2>1. Late(tail - 1)
    BY <1>3 DEF Slots
  <2>2. {k \in Nat : Late(k)} # {}
    BY <1>3, <2>1
  <2>3. QED
    BY <2>2, LeastElement
<1>6. \A p \in Slots : IsOutdated(slot[p])' <=> p <= n
  <2> SUFFICES ASSUME NEW p \in Slots, p <= n PROVE IsOutdated(slot[p])'
    BY <1>5
  <2>1. p \in Nat /\ p >= 1
    BY <1>3 DEF Slots
  <2>2. n - 1 \in Nat /\ ~Late(n - 1)
    BY <1>5, <2>1
  <2>3. PICK q \in Slots : IsOutdated(slot[q])' /\ ~(q <= n - 1)
    BY <2>2
  <2>4. q \in Nat /\ p <= q
    BY <1>3, <2>1, <2>3
  <2>5. stamp[slot[p]] <= stamp[slot[q]]
    BY <2>4 DEF CalmInv, StampsGrow
  <2>6. stamp[slot[p]] \in Nat /\ stamp[slot[q]] \in Nat /\ MaxAge \in Nat
    BY <1>2, <1>3, GatewayAssumption DEF TypeOK, EntryTypeOK
  <2>7. QED
    BY <1>1, <1>2, <2>3, <2>5, <2>6 DEF IsOutdated
<1>7. \A r \in Request :
        Status(r)' = IF Status(r) = "queued" /\ \E i \in 1 .. n : order[i] = r /\ i \in Slots
                     THEN "expired" ELSE Status(r)
  <2> TAKE r \in Request
  <2>1. CASE Status(r) # "queued"
    <3>1. IsOutdated(r) => IsOutdated(r)'
      BY <1>4
    <3>2. QED
      BY <1>1, <1>2, <2>1, <3>1, StatusIs
  <2>2. CASE Status(r) = "queued"
    <3>1. push[r] = "pushed" /\ responses[r] = 0
      BY <1>2, <2>2, StatusIs
    <3>2. PICK p \in Slots : slot[p] = r
      BY <1>2, <3>1 DEF SlotsArePushed
    <3>3. IsOutdated(r)' <=> p <= n
      BY <1>1, <1>6, <3>2 DEF IsOutdated
    <3>4. Status(r)' = IF p <= n THEN "expired" ELSE "queued"
      BY <1>1, <1>2, <3>1, <3>3, StatusIs
    <3>5. (\E i \in 1 .. n : order[i] = r /\ i \in Slots) <=> p <= n
      <4>1. \A i \in Slots : order[i] = r <=> i = p
        BY <1>2, <3>2 DEF SlotsArePushed, Slots
      <4>2. p \in Nat /\ p >= 1
        BY <1>3 DEF Slots
      <4>3. n \in Nat
        BY <1>5
      <4>4. p <= n => p \in 1 .. n /\ order[p] = r /\ p \in Slots
        BY <4>1, <4>2, <4>3
      <4>5. \A i \in 1 .. n : order[i] = r /\ i \in Slots => p <= n
        <5> SUFFICES ASSUME NEW i \in 1 .. n, order[i] = r, i \in Slots PROVE p <= n
          OBVIOUS
        <5>1. i = p /\ i <= n
          BY <4>1, <4>3
        <5>2. QED
          BY <5>1
      <4>6. QED
        BY <4>4, <4>5
    <3>6. QED
      BY <2>2, <3>4, <3>5
  <2>3. QED
    BY <2>1, <2>2
<1>8. n <= tail - 1
  <2>1. Late(tail - 1)
    BY <1>3 DEF Slots
  <2>2. QED
    BY <1>3, <1>5, <2>1
<1>9. CASE n = 0
  <2>1. \A r \in Request : Status(r)' = Status(r)
    BY <1>7, <1>9
  <2>2. QED
    BY <1>1, <2>1, ServiceStands
<1>10. CASE n # 0
  <2>1. n \in 1 .. Len(order) /\ 1 .. n \subseteq Slots
    BY <1>3, <1>5, <1>8, <1>10 DEF Slots
  <2>2. \A r \in Request :
          Status(r)' = IF Status(r) = "queued" /\ \E i \in 1 .. n : order[i] = r
                       THEN "expired" ELSE Status(r)
    BY <1>7, <2>1
  <2>3. Service!Expire(n)
    BY <1>1, <2>2 DEF Service!Expire
  <2>4. QED
    BY <2>1, <2>3 DEF Service!ServiceNext
<1>11. QED
  BY <1>9, <1>10

\* Every step of the gateway is a step of the service or leaves it alone.
LEMMA StepImplements ==
  Locked /\ CalmInv /\ CalmInv' /\ [GatewayNext]_gatewayVars
    => [Service!ServiceNext]_(Service!serviceVars)
<1> SUFFICES ASSUME Locked, CalmInv, CalmInv', [GatewayNext]_gatewayVars
             PROVE  [Service!ServiceNext]_(Service!serviceVars)
  OBVIOUS
<1>0. TypeOK /\ TypeOK' /\ push \in [Request -> PushStage]
  BY DEF CalmInv, TypeOK, EntryTypeOK
<1>1. ASSUME UNCHANGED <<responses, tail, clock>>,
             \A p \in Slots : slot'[p] = slot[p],
             \A r \in Request : push[r] = "pushed" => push'[r] = "pushed" /\ stamp'[r] = stamp[r],
             \A r \in Request : push[r] = "new" => push'[r] = "new",
             \A r \in Request : push[r] \notin {"new", "pushed"} => push'[r] \notin {"new", "pushed"}
      PROVE  UNCHANGED Service!serviceVars
  <2>1. \A r \in Request : Status(r)' = Status(r)
    <3> TAKE r \in Request
    <3>1. push[r] = "pushed" => (IsOutdated(r)' <=> IsOutdated(r))
      BY <1>1 DEF IsOutdated
    <3>2. responses'[r] = responses[r]
      BY <1>1
    <3>3. QED
      BY <1>0, <1>1, <3>1, <3>2, StatusIs
  <2>2. QED
    BY <1>1, <2>1, ServiceStands
<1>2. ASSUME UNCHANGED <<responses, slot, tail, clock, push, stamp>>
      PROVE  UNCHANGED Service!serviceVars
  BY <1>1, <1>2
<1>3. Crash => UNCHANGED Service!serviceVars
  BY <1>2 DEF Crash, entryVars, queueVars
<1>4. ASSUME NEW w \in Worker, HandlerStep(w)
      PROVE  [Service!ServiceNext]_(Service!serviceVars)
  <2>1. CASE CountRead(w)
    <3>1. push[req[w]] = "accepted" /\ push' = [push EXCEPT ![req[w]] = "query"]
      BY <2>1 DEF CountRead, Goto, CalmInv, HandlersFollowPush
    <3>2. UNCHANGED <<responses, slot, tail, clock, stamp>>
      BY <2>1 DEF CountRead, queueVars
    <3>3. UNCHANGED Service!serviceVars
      BY <1>0, <1>1, <3>1, <3>2
    <3>4. QED
      BY <3>3
  <2>2. CASE PostWrite(w) \/ PostReturns(w) \/ Join(w)
    BY <1>2, <2>2 DEF PostWrite, PostReturns, Join, entryVars, queueVars
  <2>3. ASSUME NEW n \in Nat, NEW e, WalkTurn(w, n, e)
        PROVE  UNCHANGED Service!serviceVars
    BY <1>2, <2>3 DEF WalkTurn, entryVars, queueVars
  <2>4. CASE TakeValid(w) \/ DropOutdated(w) \/ Overrun(w)
    BY <1>3, <2>3, <2>4 DEF TakeValid, DropOutdated, Overrun
  <2>5. CASE Copy(w) \/ CopyFails(w) \/ WalkEnd(w) \/ SeeNonEmpty(w) \/ SeeEmpty(w)
    BY <1>2, <1>3, <2>5
    DEF Copy, CopyFails, WalkEnd, SeeNonEmpty, SeeEmpty, entryVars, queueVars
  <2>6. CASE Pop(w) \/ PopsDone(w) \/ RecordTime(w) \/ ReleaseDone(w)
    BY <1>2, <2>6 DEF Pop, PopsDone, RecordTime, ReleaseDone, entryVars, queueVars
  <2>7. CASE Answer(w)
    BY <2>7, AnswerImplements
  <2>8. QED
    BY <1>4, <2>1, <2>2, <2>4, <2>5, <2>6, <2>7
    DEF HandlerStep, ReadHandler, ReleaseHandler, GetRequestsSentToAstraea
<1>5. ASSUME NEW w \in Worker, Accept(w) \/ ReleaseArrives(w)
      PROVE  [Service!ServiceNext]_(Service!serviceVars)
  <2>1. ASSUME NEW r \in ReadRequest, AcceptRead(w, r) PROVE Service!ServiceNext
    <3>1. r \in Request /\ Service!AcceptRequest(r)
      BY <2>1, AcceptImplements DEF AcceptRead, Request
    <3>2. QED
      BY <3>1 DEF Service!ServiceNext
  <2>2. ASSUME NEW r \in WriteRequest, AcceptWrite(w, r) PROVE Service!ServiceNext
    <3>1. r \in Request /\ Service!AcceptRequest(r)
      BY <2>2, AcceptImplements DEF AcceptWrite, Request
    <3>2. QED
      BY <3>1 DEF Service!ServiceNext
  <2>3. CASE AcceptRelease(w)
    BY <1>2, <2>3 DEF AcceptRelease, entryVars, queueVars
  <2>4. QED
    BY <1>5, <2>1, <2>2, <2>3 DEF Accept, ReleaseArrives
<1>6. ASSUME NEW r \in Request, PushStep(r)
      PROVE  [Service!ServiceNext]_(Service!serviceVars)
  <2>1. CASE Query(r)
    <3>1. push' = [push EXCEPT ![r] = "store"] /\ push[r] = "query"
      BY <2>1 DEF Query
    <3>2. UNCHANGED <<responses, slot, tail, clock>> /\ stamp' = [stamp EXCEPT ![r] = clock]
      BY <2>1 DEF Query, queueVars
    <3>3. \A q \in Request : push[q] = "pushed" => stamp'[q] = stamp[q]
      BY <1>0, <3>1, <3>2 DEF TypeOK, EntryTypeOK
    <3>4. QED
      BY <1>0, <1>1, <3>1, <3>2, <3>3
  <2>2. CASE QueryFails(r)
    BY <1>3, <2>2 DEF QueryFails
  <2>3. CASE StoreEntry(r)
    <3>1. push' = [push EXCEPT ![r] = "publish"] /\ push[r] = "store"
      BY <2>3 DEF StoreEntry
    <3>2. UNCHANGED <<responses, tail, clock, stamp>> /\ \A p \in Slots : slot'[p] = slot[p]
      BY <2>3, StoreKeepsQueue DEF StoreEntry
    <3>3. QED
      BY <1>0, <1>1, <3>1, <3>2
  <2>4. CASE PublishTail(r)
    BY <2>4, PublishImplements DEF Service!ServiceNext
  <2>5. QED
    BY <1>6, <2>1, <2>2, <2>3, <2>4 DEF PushStep
<1>7. CASE ClockTick
  BY <1>7, TickImplements
<1>8. CASE RaceCrashes \/ UNCHANGED gatewayVars
  BY <1>2, <1>3, <1>8 DEF RaceCrashes, gatewayVars, entryVars, queueVars
<1>9. QED
  BY <1>4, <1>5, <1>6, <1>7, <1>8 DEF GatewayNext

\* The gateway implements the service until two threads meet in the queue, with any number
\* of workers: its answers leave in the order of the queue, and only what is outdated is
\* passed over.
THEOREM CalmImplementsService == GatewayHistorySpec => ImplementsService
<1>1. GatewayHistoryInit => Service!ServiceInit
  <2> SUFFICES ASSUME GatewayInit PROVE Service!ServiceInit
    BY DEF GatewayHistoryInit
  <2>1. tail = 1 /\ \A r \in Request : push[r] = "new"
    BY DEF GatewayInit
  <2>2. [p \in 1 .. tail - 1 |-> slot[p]] = <<>>
    BY <2>1
  <2>3. \A r \in Request : Status(r) = "new"
    BY <2>1, Initially, StatusIs
  <2>4. QED
    BY <2>2, <2>3 DEF Service!ServiceInit
<1>2. HistoryInv /\ HistoryInv' /\ [GatewayHistoryNext]_gatewayHistoryVars
        => [raced' \/ [Service!ServiceNext]_(Service!serviceVars)]_gatewayHistoryVars
  <2> SUFFICES ASSUME HistoryInv, HistoryInv', GatewayHistoryNext, ~raced'
               PROVE  [Service!ServiceNext]_(Service!serviceVars)
    OBVIOUS
  <2>1. ~raced
    BY DEF GatewayHistoryNext, NoteRace
  <2>2. Locked /\ CalmInv /\ CalmInv' /\ GatewayNext
    BY <2>1 DEF HistoryInv, GatewayHistoryNext
  <2>3. QED
    BY <2>2, StepImplements
<1>3. QED
  BY <1>1, <1>2, CalmGateway, PTL DEF GatewayHistorySpec, ImplementsService
=============================================================================
