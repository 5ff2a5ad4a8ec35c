------------------------ MODULE AstraeaSystemProofs ------------------------
(***************************************************************************)
(* The gateway and Astraea together, for every set of requests: a run of   *)
(* the system is a run of the gateway and a run of Astraea, so what is     *)
(* proved of each of them holds of the two together, whatever the network  *)
(* loses.                                                                  *)
(***************************************************************************)
EXTENDS AstraeaSystem, GatewayProofs, FiniteSetTheorems

AP == INSTANCE AstraeaProofs WITH
        Write <- Request, NoWrite <- NoRequest, pc <- astraeaPc, m <- mutex

-----------------------------------------------------------------------------
(* A run of the system is a run of Astraea *)

\* Astraea's threads are driven by the posts of the gateway, and by nothing else:
\* every step of the system is a step of Astraea or leaves it alone.
THEOREM SystemRunsAstraea == SystemSpec => AP!Spec
<1>1. SystemInit => AP!Init
  BY DEF SystemInit, A!Init, AP!Init
<1>2. [SystemNext]_systemVars => [AP!Next]_(AP!astraeaVars)
  <2> SUFFICES ASSUME [SystemNext]_systemVars PROVE [AP!Next]_(AP!astraeaVars)
    OBVIOUS
  <2>1. UNCHANGED astraeaState => UNCHANGED AP!astraeaVars
    BY DEF astraeaState, AP!astraeaVars
  <2>2. ASSUME NEW r \in Request, WriteDelivered(r) PROVE AP!Next
    BY <2>2 DEF WriteDelivered, A!Receive, A!Goto, AP!Next, AP!Receive, AP!Goto
  <2>3. ASSUME NEW r \in Request, AstraeaThread(r) PROVE AP!Next
    BY <2>3 DEF AstraeaThread, A!Thread, A!Lock, A!Coalesce, A!SeeIdle, A!SetRunning,
       A!WaitForCounter, A!Respond, A!ResetRunning, A!Goto, AP!Next, AP!Thread, AP!Lock,
       AP!Coalesce, AP!SeeIdle, AP!SetRunning, AP!WaitForCounter, AP!Respond,
       AP!ResetRunning, AP!Goto
  <2>4. QED
    BY <2>1, <2>2, <2>3 DEF SystemNext, GatewayHandler, GatewayAccept, ReleaseDelivered,
       GatewayPush, LoseWrite, LoseRelease, Rest, systemVars
<1>3. QED
  BY <1>1, <1>2, PTL DEF SystemSpec, AP!Spec

\* One ack process at a time, whichever requests the gateway posts and whichever posts
\* the network loses (astraea.cpp:29-46).
THEOREM SystemHasOneAckProcess == SystemSpec => []A!OneAckProcess
<1>1. AP!OneAckProcess => A!OneAckProcess
  BY DEF AP!OneAckProcess, AP!IsAckProcess, A!OneAckProcess, A!IsAckProcess
<1>2. QED
  BY <1>1, SystemRunsAstraea, AP!AckProcessIsUnique, GatewayAssumption, PTL

-----------------------------------------------------------------------------
(* A run of the system is a run of the gateway *)

\* Astraea hears of what the gateway has posted, and releases what it has heard of.
HeardWasPosted ==
  \A r \in Request :
    /\ astraeaPc[r] # "absent" => r \in writePosts /\ r \in logPosts
    /\ astraeaPc[r] = "absent" => releasePosts[r] = 0

\* What makes every release that arrives one the gateway allows for.
SystemInv ==
  /\ TypeOK
  /\ PopsLeft
  /\ IsFiniteSet(writePosts)
  /\ HeardWasPosted
  /\ astraeaPc \in [Request -> AP!Label]
  /\ releasePosts \in [Request -> Nat]
  /\ lostReleases \in Nat

\* No more releases arrive than writes were posted: each is of a call of its own.
LEMMA ReleasesOfPosts ==
  ASSUME SystemInv, ReleasesInFlight > 0
  PROVE  release < Cardinality(writePosts)
<1> DEFINE S == {c \in Request : releasePosts[c] = 1}
<1>1. S \in SUBSET writePosts
  BY DEF SystemInv, HeardWasPosted
<1>2. IsFiniteSet(writePosts)
  BY DEF SystemInv
<1>3. IsFiniteSet(S) /\ Cardinality(S) <= Cardinality(writePosts)
  BY <1>1, <1>2, FS_Subset
<1>4. Cardinality(S) \in Nat /\ Cardinality(writePosts) \in Nat
  BY <1>2, <1>3, FS_CardinalityType
<1>5. Cardinality(S) - release - lostReleases > 0
  BY DEF ReleasesInFlight
<1>6. release \in Nat /\ lostReleases \in Nat
  BY DEF SystemInv, TypeOK, CounterTypeOK
<1> HIDE DEF S
<1>7. QED
  BY <1>3, <1>4, <1>5, <1>6

\* Every step of the system is a step of the gateway or leaves it alone.
LEMMA StepIsGateways ==
  SystemInv /\ [SystemNext]_systemVars => [GatewayHistoryNext]_gatewayHistoryVars
<1> SUFFICES ASSUME SystemInv, [SystemNext]_systemVars
             PROVE  [GatewayHistoryNext]_gatewayHistoryVars
  OBVIOUS
<1>1. ASSUME NEW w \in Worker, GatewayHandler(w) \/ GatewayAccept(w) PROVE GatewayHistoryNext
  BY <1>1 DEF GatewayHandler, GatewayAccept, GatewayHistoryNext, GatewayNext
<1>2. ASSUME NEW w \in Worker, ReleaseDelivered(w) PROVE GatewayHistoryNext
  <2>1. ReleaseArrives(w)
    BY <1>2, ReleasesOfPosts DEF ReleaseDelivered, ReleaseArrives
  <2>2. QED
    BY <1>2, <2>1 DEF ReleaseDelivered, GatewayHistoryNext, GatewayNext
<1>3. ASSUME NEW r \in Request, GatewayPush(r) PROVE GatewayHistoryNext
  BY <1>3 DEF GatewayPush, GatewayHistoryNext, GatewayNext
<1>4. ASSUME NEW r \in Request, WriteDelivered(r) \/ AstraeaThread(r) \/ LoseWrite(r)
      PROVE  UNCHANGED gatewayHistoryVars
  BY <1>4 DEF WriteDelivered, AstraeaThread, LoseWrite
<1>5. LoseRelease => UNCHANGED gatewayHistoryVars
  BY DEF LoseRelease
<1>6. Rest => GatewayHistoryNext
  BY DEF Rest, GatewayHistoryNext, GatewayNext
<1>7. UNCHANGED systemVars => UNCHANGED gatewayHistoryVars
  BY DEF systemVars
<1>8. QED
  BY <1>1, <1>2, <1>3, <1>4, <1>5, <1>6, <1>7 DEF SystemNext

\* The gateway posts one request at a time, and never takes a post back.
LEMMA PostsGrow ==
  ASSUME TypeOK, [GatewayNext]_gatewayVars
  PROVE  \E P : (P = {} \/ \E r \in Request : P = {r}) /\ writePosts' = writePosts \cup P
<1>1. ASSUME NEW r \in Request, writePosts' = writePosts \cup {r}
      PROVE  \E P : (P = {} \/ \E q \in Request : P = {q}) /\ writePosts' = writePosts \cup P
  BY <1>1
<1>2. ASSUME UNCHANGED writePosts
      PROVE  \E P : (P = {} \/ \E q \in Request : P = {q}) /\ writePosts' = writePosts \cup P
  <2>1. writePosts' = writePosts \cup {}
    BY <1>2
  <2>2. QED
    BY <2>1
<1>3. Crash => UNCHANGED writePosts
  BY DEF Crash
<1>4. ASSUME NEW w \in Worker, HandlerStep(w)
      PROVE  UNCHANGED writePosts \/ \E r \in Request : writePosts' = writePosts \cup {r}
  <2>1. CASE PostWrite(w)
    BY <2>1 DEF PostWrite, Goto, TypeOK, HandlerTypeOK, Serving
  <2>2. CASE CountRead(w) \/ PostReturns(w) \/ Join(w)
    BY <2>2 DEF CountRead, PostReturns, Join
  <2>3. CASE TakeValid(w) \/ DropOutdated(w) \/ Overrun(w)
    BY <1>3, <2>3 DEF TakeValid, DropOutdated, Overrun, WalkTurn
  <2>4. CASE Copy(w) \/ CopyFails(w) \/ WalkEnd(w) \/ SeeNonEmpty(w) \/ SeeEmpty(w)
    BY <1>3, <2>4 DEF Copy, CopyFails, WalkEnd, SeeNonEmpty, SeeEmpty
  <2>5. CASE Pop(w) \/ PopsDone(w) \/ Answer(w) \/ RecordTime(w) \/ ReleaseDone(w)
    BY <2>5 DEF Pop, PopsDone, Answer, RecordTime, ReleaseDone
  <2>6. QED
    BY <1>4, <2>1, <2>2, <2>3, <2>4, <2>5
    DEF HandlerStep, ReadHandler, ReleaseHandler, GetRequestsSentToAstraea
<1>5. ASSUME NEW w \in Worker, Accept(w) \/ ReleaseArrives(w)
      PROVE  UNCHANGED writePosts \/ \E r \in Request : writePosts' = writePosts \cup {r}
  BY <1>5 DEF Accept, AcceptRead, AcceptWrite, ReleaseArrives, AcceptRelease, Request
<1>6. ASSUME NEW r \in Request, PushStep(r) PROVE UNCHANGED writePosts
  BY <1>3, <1>6 DEF PushStep, Query, QueryFails, StoreEntry, PublishTail
<1>7. CASE ClockTick \/ RaceCrashes \/ UNCHANGED gatewayVars
  BY <1>2, <1>3, <1>7 DEF ClockTick, RaceCrashes, gatewayVars
<1>8. QED
  BY <1>1, <1>2, <1>4, <1>5, <1>6, <1>7 DEF GatewayNext

\* The first state of the system has no posts.
LEMMA SystemInvInit == SystemInit => SystemInv
<1> SUFFICES ASSUME SystemInit PROVE SystemInv
  OBVIOUS
<1>1. TypeOK /\ PopsLeft
  BY Initially DEF SystemInit, GatewayHistoryInit, GatewayInit, PopsLeft
<1>2. writePosts = {} /\ IsFiniteSet(writePosts)
  BY FS_EmptySet DEF SystemInit, GatewayHistoryInit, GatewayInit
<1>3. /\ HeardWasPosted /\ astraeaPc \in [Request -> AP!Label]
      /\ releasePosts \in [Request -> Nat] /\ lostReleases \in Nat
  BY DEF SystemInit, A!Init, HeardWasPosted, AP!Label
<1>4. QED
  BY <1>1, <1>2, <1>3 DEF SystemInv

\* Every step of the system keeps SystemInv.
LEMMA StepSystemInv == SystemInv /\ [SystemNext]_systemVars => SystemInv'
<1> SUFFICES ASSUME SystemInv, [SystemNext]_systemVars PROVE SystemInv'
  OBVIOUS
<1> USE DEF SystemInv
<1>1. [GatewayNext]_gatewayVars
  BY StepIsGateways DEF GatewayHistoryNext, gatewayHistoryVars
<1>2. TypeOK' /\ PopsLeft'
  BY <1>1, StepType, StepPopsLeft
<1>3. PICK P : (P = {} \/ \E r \in Request : P = {r}) /\ writePosts' = writePosts \cup P
  BY <1>1, PostsGrow
<1>4. IsFiniteSet(writePosts') /\ writePosts \subseteq writePosts'
  BY <1>3, FS_AddElement
<1> DEFINE OthersKept ==
             /\ HeardWasPosted' /\ (astraeaPc \in [Request -> AP!Label])'
             /\ (releasePosts \in [Request -> Nat])' /\ (lostReleases \in Nat)'
<1>5. ASSUME UNCHANGED <<astraeaState, lostReleases>> PROVE OthersKept
  BY <1>4, <1>5 DEF astraeaState, HeardWasPosted
<1>6. ASSUME NEW r \in Request, WriteDelivered(r) PROVE OthersKept
  BY <1>6 DEF WriteDelivered, A!Receive, A!Goto, gatewayHistoryVars, gatewayVars, networkVars, HeardWasPosted,
     AP!Label
<1>7. ASSUME NEW r \in Request, AstraeaThread(r) PROVE OthersKept
  <2>1. UNCHANGED <<writePosts, logPosts, lostReleases>>
    BY <1>7 DEF AstraeaThread, gatewayHistoryVars, gatewayVars, networkVars, A!Thread, A!Lock, A!Coalesce,
       A!SeeIdle, A!SetRunning, A!WaitForCounter, A!Respond, A!ResetRunning
  <2>2. /\ astraeaPc[r] # "absent" /\ astraeaPc' \in [Request -> AP!Label]
        /\ astraeaPc'[r] # "absent"
        /\ \A q \in Request \ {r} : astraeaPc'[q] = astraeaPc[q]
    BY <1>7 DEF AstraeaThread, A!Thread, A!Lock, A!Coalesce, A!SeeIdle, A!SetRunning,
       A!WaitForCounter, A!Respond, A!ResetRunning, A!Goto, AP!Label
  <2>3. /\ releasePosts' \in [Request -> Nat]
        /\ \A q \in Request \ {r} : releasePosts'[q] = releasePosts[q]
    BY <1>7 DEF AstraeaThread, A!Thread, A!Lock, A!Coalesce, A!SeeIdle, A!SetRunning,
       A!WaitForCounter, A!Respond, A!ResetRunning
  <2>4. QED
    BY <2>1, <2>2, <2>3 DEF HeardWasPosted
<1>8. LoseRelease => OthersKept
  BY <1>4 DEF LoseRelease, astraeaState, gatewayHistoryVars, gatewayVars, HeardWasPosted
<1>9. OthersKept
  BY <1>5, <1>6, <1>7, <1>8 DEF SystemNext, GatewayHandler, GatewayAccept,
     ReleaseDelivered, GatewayPush, LoseWrite, Rest, systemVars, networkVars
<1>10. QED
  BY <1>2, <1>4, <1>9

\* Astraea and the network do to the gateway only what it allows for: what is proved of
\* the gateway alone, with or without its history, holds when Astraea releases it, lost and
\* late posts included.
THEOREM SystemRunsGateway == SystemSpec => GatewaySpec /\ GatewayHistorySpec
<1>1. SystemInit => GatewayInit /\ GatewayHistoryInit
  BY DEF SystemInit, GatewayHistoryInit
<1>2. [GatewayHistoryNext]_gatewayHistoryVars => [GatewayNext]_gatewayVars
  BY DEF GatewayHistoryNext, gatewayHistoryVars
<1>3. QED
  BY <1>1, <1>2, SystemInvInit, StepSystemInv, StepIsGateways, PTL
  DEF SystemSpec, GatewaySpec, GatewayHistorySpec

\* Whatever is lost on the way and however many workers the pool has, the gateway answers
\* in order and loses no queued request when it is Astraea that releases it, until two of
\* its threads meet in the queue.
THEOREM SystemImplementsService ==
  SystemSpec => ImplementsService /\ []NothingLost /\ []AnsweredAtMostOnce
BY SystemRunsGateway, CalmImplementsService, CalmLosesNothing, CalmAnswersOnce, PTL

-----------------------------------------------------------------------------
(* An answered read is in Astraea's log *)

\* A read is logged, or its post is lost, by the time its handler has heard of it.
ReadsReachLogger ==
  \A r \in ReadRequest :
    \/ push[r] = "new"
    \/ r \in logPosts \cup lostWrites
    \/ \E w \in Worker : req[w] = r /\ pc[w] \in {"count", "post", "posted"}

\* The logger is told of more, and more posts are lost, never fewer.
LEMMA LogsGrow ==
  ASSUME [SystemNext]_systemVars
  PROVE  logPosts \cup lostWrites \subseteq logPosts' \cup lostWrites'
<1>1. ASSUME NEW r \in Request, WriteDelivered(r) PROVE logPosts \subseteq logPosts' /\ UNCHANGED lostWrites
  BY <1>1 DEF WriteDelivered, A!Receive, networkVars
<1>2. ASSUME NEW r \in Request, AstraeaThread(r) PROVE UNCHANGED <<logPosts, lostWrites>>
  BY <1>2 DEF AstraeaThread, networkVars, A!Thread, A!Lock, A!Coalesce, A!SeeIdle,
     A!SetRunning, A!WaitForCounter, A!Respond, A!ResetRunning
<1>3. ASSUME NEW r \in Request, LoseWrite(r) PROVE lostWrites \subseteq lostWrites' /\ UNCHANGED logPosts
  BY <1>3 DEF LoseWrite, astraeaState
<1>4. QED
  BY <1>1, <1>2, <1>3 DEF SystemNext, GatewayHandler, GatewayAccept, ReleaseDelivered,
     GatewayPush, LoseRelease, Rest, systemVars, astraeaState, networkVars

\* A handler that has posted leaves only with Astraea's answer or an error.
LEMMA StepReadsReachLogger ==
  ASSUME SystemInv, HandlerInv, ReadsReachLogger, [SystemNext]_systemVars
  PROVE  ReadsReachLogger'
<1> USE DEF SystemInv, TypeOK, HandlerTypeOK, EntryTypeOK
<1>0. logPosts \cup lostWrites \subseteq logPosts' \cup lostWrites'
  BY LogsGrow
<1>1. ASSUME UNCHANGED req,
             \A r \in Request : push[r] = "new" => push'[r] = "new",
             \A v \in Worker : pc[v] \in {"count", "post", "posted"} =>
                                 pc'[v] \in {"count", "post", "posted"}
      PROVE  ReadsReachLogger'
  BY <1>0, <1>1 DEF ReadsReachLogger, Request
<1>2. Crash => ReadsReachLogger'
  BY <1>1 DEF Crash, handlerVars, entryVars
<1>3. ASSUME NEW w \in Worker, GatewayHandler(w) PROVE ReadsReachLogger'
  <2>1. CASE CountRead(w)
    <3>1. push[req[w]] = "accepted" /\ push' = [push EXCEPT ![req[w]] = "query"]
      BY <2>1 DEF CountRead, Goto, HandlerInv, HandlersFollowPush
    <3>2. pc' = [pc EXCEPT ![w] = "post"] /\ UNCHANGED req
      BY <2>1 DEF CountRead, Goto
    <3>3. QED
      BY <1>1, <3>1, <3>2
  <2>2. CASE PostWrite(w)
    BY <1>1, <2>2 DEF PostWrite, Goto, entryVars
  <2>3. CASE PostReturns(w)
    <3>1. pc[w] = "posted" /\ UNCHANGED <<req, push>> /\ WriteCallOver(req[w]) /\ req[w] \in Request
      BY <1>3, <2>3 DEF GatewayHandler, PostReturns, Goto, entryVars, Serving
    <3>2. req[w] \in logPosts \cup lostWrites
      BY <3>1 DEF WriteCallOver, HeardWasPosted
    <3>3. \A v \in Worker \ {w} : pc'[v] = pc[v]
      BY <2>3 DEF PostReturns, Goto
    <3>4. QED
      BY <1>0, <3>1, <3>2, <3>3 DEF ReadsReachLogger
  <2>4. CASE Join(w)
    BY <1>0, <2>4 DEF Join, Goto, entryVars, ReadsReachLogger
  <2>5. ASSUME NEW n \in Nat, NEW e, WalkTurn(w, n, e) PROVE ReadsReachLogger'
    BY <1>1, <2>5 DEF WalkTurn, handlerVars, entryVars
  <2>6. CASE TakeValid(w) \/ DropOutdated(w) \/ Overrun(w)
    BY <1>2, <2>5, <2>6 DEF TakeValid, DropOutdated, Overrun
  <2>7. CASE Copy(w) \/ CopyFails(w) \/ WalkEnd(w) \/ SeeNonEmpty(w)
    BY <1>1, <1>2, <2>7 DEF Copy, CopyFails, WalkEnd, SeeNonEmpty, Goto, entryVars
  <2>8. CASE SeeEmpty(w) \/ Pop(w) \/ PopsDone(w)
    BY <1>1, <2>8 DEF SeeEmpty, Pop, PopsDone, Goto, handlerVars, entryVars
  <2>9. CASE Answer(w) \/ RecordTime(w) \/ ReleaseDone(w)
    BY <1>1, <2>9 DEF Answer, RecordTime, ReleaseDone, Goto, entryVars
  <2>10. QED
    BY <1>3, <2>1, <2>2, <2>3, <2>4, <2>6, <2>7, <2>8, <2>9
    DEF GatewayHandler, HandlerStep, ReadHandler, ReleaseHandler, GetRequestsSentToAstraea
<1>4. ASSUME NEW w \in Worker, GatewayAccept(w) \/ ReleaseDelivered(w) PROVE ReadsReachLogger'
  <2>1. ASSUME NEW r \in ReadRequest, AcceptRead(w, r) PROVE ReadsReachLogger'
    BY <1>0, <2>1 DEF AcceptRead, Goto, Request, ReadsReachLogger
  <2>2. ASSUME NEW r \in WriteRequest, AcceptWrite(w, r) PROVE ReadsReachLogger'
    BY <1>0, <2>2, GatewayAssumption DEF AcceptWrite, Goto, Request, ReadsReachLogger
  <2>3. CASE AcceptRelease(w)
    BY <1>1, <2>3 DEF AcceptRelease, Goto, entryVars
  <2>4. QED
    BY <1>4, <2>1, <2>2, <2>3 DEF GatewayAccept, Accept, ReleaseDelivered
<1>5. ASSUME NEW r \in Request, GatewayPush(r) PROVE ReadsReachLogger'
  <2>1. CASE QueryFails(r)
    BY <1>2, <2>1 DEF QueryFails
  <2>2. CASE Query(r) \/ StoreEntry(r) \/ PublishTail(r)
    BY <1>1, <2>2 DEF Query, StoreEntry, PublishTail, handlerVars
  <2>3. QED
    BY <1>5, <2>1, <2>2 DEF GatewayPush, PushStep
<1>6. ASSUME UNCHANGED gatewayHistoryVars PROVE ReadsReachLogger'
  BY <1>1, <1>6 DEF gatewayHistoryVars, gatewayVars, handlerVars, entryVars
<1>7. CASE Rest
  BY <1>1, <1>2, <1>7 DEF Rest, ClockTick, RaceCrashes, handlerVars, entryVars
<1>8. QED
  BY <1>3, <1>4, <1>5, <1>6, <1>7 DEF SystemNext, WriteDelivered, AstraeaThread,
     LoseWrite, LoseRelease, systemVars

\* What is answered has been queried, so its handler is past the count: it is in the call
\* to Astraea, or has heard of its end.
THEOREM SystemLogsAnsweredReads == SystemSpec => []AnsweredReadsAreLogged
<1>1. SystemInit => ReadsReachLogger
  BY DEF SystemInit, GatewayHistoryInit, GatewayInit, ReadsReachLogger, Request
<1>2. SystemSpec => [](HandlerInv /\ AnsweredOnlyAfterQuery)
  BY SystemRunsGateway, HandlersInOrder, AnswersFollowQueries, PTL
<1>3. SystemSpec => []ReadsReachLogger
  BY <1>1, <1>2, SystemInvInit, StepSystemInv, StepReadsReachLogger, PTL DEF SystemSpec
<1>4. HandlerInv /\ AnsweredOnlyAfterQuery /\ ReadsReachLogger => AnsweredReadsAreLogged
  <2> SUFFICES ASSUME HandlerInv, AnsweredOnlyAfterQuery, ReadsReachLogger,
                      NEW r \in ReadRequest, responses[r] > 0, r \notin logPosts \cup lostWrites
               PROVE  \E w \in Worker : req[w] = r /\ pc[w] \in {"post", "posted"}
    BY DEF AnsweredReadsAreLogged
  <2>1. push[r] \in {"store", "publish", "pushed"}
    BY DEF AnsweredOnlyAfterQuery, HandlerInv, QueriedOnWay
  <2>2. PICK w \in Worker : req[w] = r /\ pc[w] \in {"count", "post", "posted"}
    BY <2>1 DEF ReadsReachLogger
  <2>3. pc[w] # "count"
    BY <2>1, <2>2 DEF HandlerInv, HandlersFollowPush
  <2>4. QED
    BY <2>2, <2>3
<1>5. QED
  BY <1>2, <1>3, <1>4, PTL
=============================================================================
