------------------------------- MODULE Gateway -------------------------------
(***************************************************************************)
(* The gateway of gateway/gateway.cpp.  A pool of worker threads serves    *)
(* three calls: a read request and a write request of a client, and the    *)
(* release Astraea sends when a batch of writes is acknowledged.  A read   *)
(* is put to the database by a flush thread that queues it; a write queues *)
(* itself; both are posted to Astraea.  A release copies the queue, takes  *)
(* the requests that are not outdated out of the copy, pops as many from   *)
(* the live queue and answers each one.                                    *)
(*                                                                         *)
(* The code has a mutex and never locks it: every step below that reads or *)
(* writes the queue or a counter may fall between two steps of another     *)
(* thread.  myQueue is a std::deque: slots that are written at tail and    *)
(* read at head, an element first built and then published by moving tail. *)
(***************************************************************************)
EXTENDS Throughput, FiniteSets

CONSTANTS
  ReadRequest,    \* the POST /read_request_from_client calls
  WriteRequest,   \* the POST /write_request_from_client calls
  Worker,         \* the threads of the server's pool
  NoRequest,      \* a worker holds no request
  Junk,           \* an element read where none was built
  MaxAge,         \* seconds after which a queued request is outdated
  MAX_REQ,        \* reads after which the throughput is recorded once
  DbMayFail       \* whether the database may refuse a query

Request == ReadRequest \cup WriteRequest

ASSUME GatewayAssumption ==
  /\ ReadRequest \cap WriteRequest = {}
  /\ NoRequest \notin Request
  /\ Junk \notin Request
  /\ MaxAge \in Nat
  /\ MAX_REQ \in Nat
  /\ DbMayFail \in BOOLEAN

VARIABLES
  up,          \* the process runs: FALSE after exit(1), an abort or a segfault
  pc, req,     \* of each worker: where it is, the request it serves
  reg,         \* of each worker: the shared integer it has loaded
  n_requests, not_done,
  release,     \* releases received
  writePosts,  \* requests whose POST astraea:5000/write has left
  push,        \* of each request: how far it is on its way into the queue
  stamp,       \* of each request: the timestamp it is queued with
  cursor,      \* of each request: the slot it is built in
  queried,     \* reads the database has answered
  slot, head, tail,                \* myQueue
  duplicate, countPops, requests,  \* of each worker: locals of a release
  responses    \* of each request: POST ip_client/response calls

handlerVars == <<pc, req, reg>>
counterVars == <<n_requests, not_done, release>>
entryVars   == <<push, stamp, cursor, queried>>
queueVars   == <<slot, head, tail>>
releaseVars == <<duplicate, countPops, requests>>
gatewayVars == <<clock, recordVars, up, handlerVars, counterVars, writePosts,
                 entryVars, queueVars, releaseVars, responses>>

Label == {"idle", "count", "post", "posted", "join",
          "copy", "walk", "popcheck", "pop", "answer", "record"}

PushStage == {"new", "accepted", "query", "store", "publish", "pushed"}

\* Workers inside the release handler, past "Gone through the lock".
Releasing(w) == pc[w] \in {"copy", "walk", "popcheck", "pop", "answer", "record"}

\* Workers inside a handler that serves a request of a client.
Serving(w) == pc[w] \in {"count", "post", "posted", "join"}

\* What memory holds where no element was built: junk, or one that was freed.
Found == {Junk} \cup {slot[p] : p \in DOMAIN slot}

\* Positions of the queue without an element: two pushes built theirs in one slot.
Gaps == (head .. tail - 1) \ DOMAIN slot

\* duplicate.front().timestamp < time(nullptr) - 5; of junk it may be anything.
Outdated(e) == e # Junk => stamp[e] + MaxAge < clock
Valid(e)    == e # Junk => stamp[e] + MaxAge >= clock

Goto(w, from, to) == pc[w] = from /\ pc' = [pc EXCEPT ![w] = to]

-----------------------------------------------------------------------------
GatewayInit ==
  /\ ThroughputInit
  /\ up = TRUE
  /\ pc = [w \in Worker |-> "idle"]
  /\ req = [w \in Worker |-> NoRequest]
  /\ reg = [w \in Worker |-> 0]
  /\ n_requests = 0
  /\ not_done = TRUE
  /\ release = 0
  /\ writePosts = {}
  /\ push = [r \in Request |-> "new"]
  /\ stamp = [r \in Request |-> 0]
  /\ cursor = [r \in Request |-> 0]
  /\ queried = {}
  /\ slot = <<>>
  /\ head = 1
  /\ tail = 1
  /\ duplicate = [w \in Worker |-> <<>>]
  /\ countPops = [w \in Worker |-> 0]
  /\ requests = [w \in Worker |-> <<>>]
  /\ responses = [r \in Request |-> 0]

\* exit(1), an abort or a segfault: nothing is persisted, nothing runs on.
Crash ==
  /\ up' = FALSE
  /\ UNCHANGED <<clock, recordVars, handlerVars, counterVars, writePosts,
                 entryVars, queueVars, releaseVars, responses>>

-----------------------------------------------------------------------------
(* POST /read_request_from_client *)

\* n_requests++ loads the counter...
AcceptRead(w, r) ==
  /\ push[r] = "new"
  /\ Goto(w, "idle", "count")
  /\ req' = [req EXCEPT ![w] = r]
  /\ reg' = [reg EXCEPT ![w] = n_requests]
  /\ push' = [push EXCEPT ![r] = "accepted"]
  /\ UNCHANGED <<clock, recordVars, up, counterVars, writePosts, stamp, cursor, queried,
                 queueVars, releaseVars, responses>>

\* Mutated form: the read goes to the database only, not to Astraea.
CountReadOnly(w) ==
  /\ Goto(w, "count", "join")
  /\ n_requests' = reg[w] + 1
  /\ push' = [push EXCEPT ![req[w]] = "query"]
  /\ UNCHANGED <<clock, recordVars, up, req, reg, not_done, release, writePosts,
                 stamp, cursor, queried, queueVars, releaseVars, responses>>

\* ... and stores it; std::async starts the flush thread.
CountRead(w) ==
  /\ Goto(w, "count", "post")
  /\ n_requests' = reg[w] + 1
  /\ push' = [push EXCEPT ![req[w]] = "query"]
  /\ UNCHANGED <<clock, recordVars, up, req, reg, not_done, release, writePosts,
                 stamp, cursor, queried, queueVars, releaseVars, responses>>

\* restCallPostJsonAsync, called directly: the worker waits for the answer...
PostWrite(w) ==
  /\ Goto(w, "post", "posted")
  /\ writePosts' = writePosts \cup {req[w]}
  /\ UNCHANGED <<clock, recordVars, up, req, reg, counterVars, entryVars,
                 queueVars, releaseVars, responses>>

\* ... or for the error, which is ignored; then the file is written, if it is, in one
\* step with the test and the reset of not_done.
PostReturns(w) ==
  /\ Goto(w, "posted", "join")
  /\ IF n_requests > MAX_REQ /\ not_done
       THEN not_done' = FALSE /\ record_requests(second_throughput)
       ELSE UNCHANGED <<not_done, csv>>
  /\ UNCHANGED <<clock, throughput, second_throughput, up, req, reg, n_requests,
                 release, writePosts, entryVars, queueVars, releaseVars, responses>>

\* The destructor of the future joins the flush thread as the handler ends;
\* a write handler ends when its own push is done.
Join(w) ==
  /\ Goto(w, "join", "idle")
  /\ push[req[w]] = "pushed"
  /\ req' = [req EXCEPT ![w] = NoRequest]
  /\ UNCHANGED <<clock, recordVars, up, reg, counterVars, writePosts, entryVars,
                 queueVars, releaseVars, responses>>

-----------------------------------------------------------------------------
(* flushToTarget and the two pushes *)

\* Mutated form: the request is queued without waiting for the database.
PushBeforeQuery(r) ==
  /\ push[r] = "query"
  /\ push' = [push EXCEPT ![r] = "store"]
  /\ stamp' = [stamp EXCEPT ![r] = clock]
  /\ UNCHANGED <<clock, recordVars, up, handlerVars, counterVars, writePosts,
                 cursor, queried, queueVars, releaseVars, responses>>

\* Mutated form: the request keeps the timestamp it was made with.
QueryUnstamped(r) ==
  /\ push[r] = "query"
  /\ push' = [push EXCEPT ![r] = "store"]
  /\ queried' = queried \cup {r}
  /\ UNCHANGED <<clock, recordVars, up, handlerVars, counterVars, writePosts,
                 stamp, cursor, queueVars, releaseVars, responses>>

\* The database answers; the request is stamped.
Query(r) ==
  /\ push[r] = "query"
  /\ push' = [push EXCEPT ![r] = "store"]
  /\ queried' = queried \cup {r}
  /\ stamp' = [stamp EXCEPT ![r] = clock]
  /\ UNCHANGED <<clock, recordVars, up, handlerVars, counterVars, writePosts,
                 cursor, queueVars, releaseVars, responses>>

\* A connect or a query that fails ends the whole gateway, exit(1), and so does a
\* query without a result set, whose fields are counted all the same.
QueryFails(r) ==
  /\ DbMayFail
  /\ push[r] = "query"
  /\ Crash

\* push builds the element in the slot at tail...
StoreEntry(r) ==
  /\ push[r] = "store"
  /\ push' = [push EXCEPT ![r] = "publish"]
  /\ cursor' = [cursor EXCEPT ![r] = tail]
  /\ slot' = [p \in DOMAIN slot \cup {tail} |-> IF p = tail THEN r ELSE slot[p]]
  /\ UNCHANGED <<clock, recordVars, up, handlerVars, counterVars, writePosts,
                 stamp, queried, head, tail, releaseVars, responses>>

\* ... and moves tail: a load, an addition and a store.
PublishTail(r) ==
  /\ push[r] = "publish"
  /\ push' = [push EXCEPT ![r] = "pushed"]
  /\ tail' \in {cursor[r] + 1, tail + 1}
  /\ UNCHANGED <<clock, recordVars, up, handlerVars, counterVars, writePosts,
                 stamp, cursor, queried, slot, head, releaseVars, responses>>

-----------------------------------------------------------------------------
(* POST /write_request_from_client *)

\* restCallPostJson posts from a detached thread; the handler stamps the request
\* and goes on to push it itself.
AcceptWrite(w, r) ==
  /\ push[r] = "new"
  /\ Goto(w, "idle", "join")
  /\ req' = [req EXCEPT ![w] = r]
  /\ writePosts' = writePosts \cup {r}
  /\ push' = [push EXCEPT ![r] = "store"]
  /\ stamp' = [stamp EXCEPT ![r] = clock]
  /\ UNCHANGED <<clock, recordVars, up, reg, counterVars, cursor, queried, queueVars,
                 releaseVars, responses>>

-----------------------------------------------------------------------------
(* POST /release: getRequestsSentToAstraea, then one answer per request *)

\* The counter is only logged; a lost increment is not modelled.
AcceptRelease(w) ==
  /\ Goto(w, "idle", "copy")
  /\ release' = release + 1
  /\ UNCHANGED <<clock, recordVars, up, req, reg, n_requests, not_done, writePosts,
                 entryVars, queueVars, releaseVars, responses>>

\* Mutated form: a queue of one element is taken for an empty one.
CopyTwoOrMore(w) ==
  /\ head <= tail
  /\ \E found \in Found :
       duplicate' = [duplicate EXCEPT ![w] =
                       [i \in 1 .. tail - head |->
                          IF head + i - 1 \in Gaps THEN found ELSE slot[head + i - 1]]]
  /\ Goto(w, "copy", IF tail - head <= 1 THEN "idle" ELSE "walk")
  /\ UNCHANGED <<clock, recordVars, up, req, reg, counterVars, writePosts, entryVars,
                 queueVars, countPops, requests, responses>>

\* duplicate = myQueue; nothing more to do when the copy is empty.
Copy(w) ==
  /\ head <= tail
  /\ \E found \in Found :
       duplicate' = [duplicate EXCEPT ![w] =
                       [i \in 1 .. tail - head |->
                          IF head + i - 1 \in Gaps THEN found ELSE slot[head + i - 1]]]
  /\ Goto(w, "copy", IF head = tail THEN "idle" ELSE "walk")
  /\ UNCHANGED <<clock, recordVars, up, req, reg, counterVars, writePosts, entryVars,
                 queueVars, countPops, requests, responses>>

\* More was popped than pushed: a queue of negative size cannot be copied.  Nor
\* need a string be that nobody built.
CopyFails(w) ==
  /\ pc[w] = "copy"
  /\ head > tail \/ Gaps # {}
  /\ Crash

\* One turn of the loop takes the entries `taken`, drops `n` from the copy.
WalkTurn(w, n, taken) ==
  /\ pc[w] = "walk"
  /\ requests' = [requests EXCEPT ![w] = Append(@, taken)]
  /\ duplicate' = [duplicate EXCEPT ![w] = SubSeq(@, n + 1, Len(@))]
  /\ countPops' = [countPops EXCEPT ![w] = @ + n]
  /\ UNCHANGED <<clock, recordVars, up, handlerVars, counterVars, writePosts,
                 entryVars, queueVars, responses>>

TakeValid(w) ==
  /\ duplicate[w] # <<>>
  /\ Valid(Head(duplicate[w]))
  /\ WalkTurn(w, 1, Head(duplicate[w]))

\* Mutated form: what follows the outdated entry is dropped with it.
DropTwoOutdated(w) ==
  /\ pc[w] = "walk"
  /\ Len(duplicate[w]) > 1
  /\ Outdated(Head(duplicate[w]))
  /\ duplicate' = [duplicate EXCEPT ![w] = Tail(Tail(@))]
  /\ countPops' = [countPops EXCEPT ![w] = @ + 2]
  /\ UNCHANGED <<clock, recordVars, up, handlerVars, counterVars, writePosts,
                 entryVars, queueVars, requests, responses>>

\* The outdated front is dropped and the entry behind it is stored, unseen.
DropOutdated(w) ==
  /\ Len(duplicate[w]) > 1
  /\ Outdated(Head(duplicate[w]))
  /\ WalkTurn(w, 2, duplicate[w][2])

\* Behind the last entry there is none: front() of an empty queue.  The handler
\* crashes, or stores what it finds there (bound: one element) and ends the loop.
Overrun(w) ==
  /\ Len(duplicate[w]) = 1
  /\ Outdated(Head(duplicate[w]))
  /\ \/ \E found \in Found : WalkTurn(w, 2, found)
     \/ pc[w] = "walk" /\ Crash

\* Every entry is queued with is_sent_to_astraea = true, so only an empty copy
\* (or junk in it) ends the loop.
WalkEnd(w) ==
  /\ duplicate[w] # <<>> => Head(duplicate[w]) = Junk
  /\ Goto(w, "walk", "popcheck")
  /\ duplicate' = [duplicate EXCEPT ![w] = <<>>]
  /\ UNCHANGED <<clock, recordVars, up, req, reg, counterVars, writePosts, entryVars,
                 queueVars, countPops, requests, responses>>

\* if (!myQueue.empty()), asked countPops times.
SeeNonEmpty(w) ==
  /\ countPops[w] > 0
  /\ head # tail
  /\ Goto(w, "popcheck", "pop")
  /\ reg' = [reg EXCEPT ![w] = head]
  /\ UNCHANGED <<clock, recordVars, up, req, counterVars, writePosts, entryVars,
                 queueVars, releaseVars, responses>>

\* Mutated form: the loop waits for the queue to fill up.
SeeEmptyAgain(w) ==
  /\ countPops[w] > 0
  /\ head = tail
  /\ pc[w] = "popcheck"
  /\ UNCHANGED gatewayVars

\* Mutated form: the loop does not end at countPops.
SeeEmptyUncounted(w) ==
  /\ head = tail
  /\ pc[w] = "popcheck"
  /\ countPops' = [countPops EXCEPT ![w] = @ - 1]
  /\ UNCHANGED <<clock, recordVars, up, handlerVars, counterVars, writePosts,
                 entryVars, queueVars, duplicate, requests, responses>>

SeeEmpty(w) ==
  /\ countPops[w] > 0
  /\ head = tail
  /\ pc[w] = "popcheck"
  /\ countPops' = [countPops EXCEPT ![w] = @ - 1]
  /\ UNCHANGED <<clock, recordVars, up, handlerVars, counterVars, writePosts,
                 entryVars, queueVars, duplicate, requests, responses>>

\* Mutated form: the front is read and left in the queue.
PeekInsteadOfPop(w) ==
  /\ Goto(w, "pop", "popcheck")
  /\ countPops' = [countPops EXCEPT ![w] = @ - 1]
  /\ UNCHANGED <<clock, recordVars, up, req, reg, counterVars, writePosts, entryVars,
                 queueVars, duplicate, requests, responses>>

\* myQueue.pop() moves head, with the value it had at the check or has now.
Pop(w) ==
  /\ Goto(w, "pop", "popcheck")
  /\ head' \in {reg[w] + 1, head + 1}
  /\ countPops' = [countPops EXCEPT ![w] = @ - 1]
  /\ UNCHANGED <<clock, recordVars, up, req, reg, counterVars, writePosts, entryVars,
                 slot, tail, duplicate, requests, responses>>

PopsDone(w) ==
  /\ countPops[w] = 0
  /\ Goto(w, "popcheck", "answer")
  /\ UNCHANGED <<clock, recordVars, up, req, reg, counterVars, writePosts, entryVars,
                 queueVars, releaseVars, responses>>

\* restCallPost to the client, from a detached thread; junk has no client.
Answer(w) ==
  /\ requests[w] # <<>>
  /\ Goto(w, "answer", "record")
  /\ requests' = [requests EXCEPT ![w] = Tail(@)]
  /\ responses' = [r \in Request |->
                     responses[r] + IF r = Head(requests[w]) THEN 1 ELSE 0]
  /\ UNCHANGED <<clock, recordVars, up, req, reg, counterVars, writePosts, entryVars,
                 queueVars, duplicate, countPops>>

\* record_time; when another worker is in it too, one of the counts may be lost.
RecordTime(w) ==
  /\ Goto(w, "record", "answer")
  /\ \/ record_time(clock)
     \/ /\ \E v \in Worker \ {w} : pc[v] = "record"
        /\ UNCHANGED recordVars
  /\ UNCHANGED <<clock, up, req, reg, counterVars, writePosts, entryVars,
                 queueVars, releaseVars, responses>>

ReleaseDone(w) ==
  /\ requests[w] = <<>>
  /\ Goto(w, "answer", "idle")
  /\ UNCHANGED <<clock, recordVars, up, req, reg, counterVars, writePosts, entryVars,
                 queueVars, releaseVars, responses>>

-----------------------------------------------------------------------------
\* Threads inside an operation that writes the queue, or that copies it.
ChangingQueue == {r \in Request : push[r] = "publish"} \cup {w \in Worker : pc[w] = "pop"}
CopyingQueue  == {w \in Worker : pc[w] = "copy"}

\* Two threads are in the queue and one of them changes it, or one changes
\* second_throughput while another reads or changes it: undefined behaviour, which may end the process.
DataRace ==
  \/ \E x \in ChangingQueue : \E y \in ChangingQueue \cup CopyingQueue : x # y
  \/ \E v, w \in Worker :
       /\ v # w
       /\ pc[v] = "record"
       /\ pc[w] = "record" \/ (pc[w] = "posted" /\ n_requests > MAX_REQ /\ not_done)

RaceCrashes == DataRace /\ Crash

\* Bounded by MaxClock.
ClockTick ==
  /\ Tick
  /\ UNCHANGED <<up, handlerVars, counterVars, writePosts, entryVars, queueVars,
                 releaseVars, responses>>

ReadHandler(w) == CountRead(w) \/ PostWrite(w) \/ PostReturns(w) \/ Join(w)

GetRequestsSentToAstraea(w) ==
  \/ Copy(w) \/ CopyFails(w)
  \/ TakeValid(w) \/ DropOutdated(w) \/ Overrun(w) \/ WalkEnd(w)
  \/ SeeNonEmpty(w) \/ SeeEmpty(w) \/ Pop(w) \/ PopsDone(w)

ReleaseHandler(w) ==
  GetRequestsSentToAstraea(w) \/ Answer(w) \/ RecordTime(w) \/ ReleaseDone(w)

\* One step of a handler that runs; of a thread that pushes.
HandlerStep(w) == up /\ (ReadHandler(w) \/ ReleaseHandler(w))
PushStep(r)    == up /\ (Query(r) \/ QueryFails(r) \/ StoreEntry(r) \/ PublishTail(r))

Accept(w) ==
  \/ \E r \in ReadRequest : AcceptRead(w, r)
  \/ \E r \in WriteRequest : AcceptWrite(w, r)

\* Each write that reached Astraea is released at most once (module Astraea).
ReleaseArrives(w) == release < Cardinality(writePosts) /\ AcceptRelease(w)

GatewayNext ==
  \/ \E w \in Worker : HandlerStep(w) \/ (up /\ (Accept(w) \/ ReleaseArrives(w)))
  \/ \E r \in Request : PushStep(r)
  \/ up /\ (ClockTick \/ RaceCrashes)

GatewaySpec == GatewayInit /\ [][GatewayNext]_gatewayVars

\* Threads that can run are run.  Assumed of curl: the call ends, with Astraea's answer or
\* an error.  Only its connect has a timeout, so this leaves out an answer that is lost
\* when Astraea has received the call; PostReturns is among the steps that are not put
\* off for ever.
GatewayFairness ==
  /\ \A w \in Worker : WF_gatewayVars(HandlerStep(w))
  /\ \A r \in Request : WF_gatewayVars(PushStep(r))

FairGatewaySpec == GatewaySpec /\ GatewayFairness
=============================================================================
