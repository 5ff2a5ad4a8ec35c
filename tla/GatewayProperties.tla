-------------------------- MODULE GatewayProperties --------------------------
(***************************************************************************)
(* What Gateway promises whatever its threads do to each other, and what   *)
(* comments of gateway.cpp say and the code does not do.  What it promises *)
(* as long as no two threads meet in the queue is in GatewayHistory.       *)
(***************************************************************************)
EXTENDS Gateway

HandlerTypeOK ==
  /\ pc \in [Worker -> Label]
  /\ req \in [Worker -> Request \cup {NoRequest}]
  /\ reg \in [Worker -> Nat]
  /\ \A w \in Worker : Serving(w) <=> req[w] # NoRequest

CounterTypeOK == n_requests \in Nat /\ not_done \in BOOLEAN /\ release \in Nat

EntryTypeOK ==
  /\ push \in [Request -> PushStage]
  /\ stamp \in [Request -> Nat]
  /\ cursor \in [Request -> Nat]
  /\ queried \subseteq Request

QueueTypeOK ==
  /\ DOMAIN slot \subseteq Nat
  /\ \A p \in DOMAIN slot : slot[p] \in Request
  /\ head \in Nat
  /\ tail \in Nat

ReleaseTypeOK ==
  /\ duplicate \in [Worker -> Seq(Request \cup {Junk})]
  /\ countPops \in [Worker -> Nat]
  /\ requests \in [Worker -> Seq(Request \cup {Junk})]

TypeOK ==
  /\ ThroughputTypeOK
  /\ up \in BOOLEAN
  /\ writePosts \subseteq Request
  /\ responses \in [Request -> Nat]
  /\ HandlerTypeOK
  /\ CounterTypeOK
  /\ EntryTypeOK
  /\ QueueTypeOK
  /\ ReleaseTypeOK

-----------------------------------------------------------------------------
(* With any number of threads *)

\* A read is answered only after the database has answered it, whatever the
\* threads of the gateway do to the queue (gateway.cpp:185-201, 350-355).
AnsweredOnlyAfterQuery ==
  \A r \in ReadRequest : responses[r] > 0 => r \in queried

\* A read is queued and posted by two threads, so a release may answer it while its
\* POST /write is still under way; but then its handler is about to make that very call:
\* no read is answered of which Astraea is never told (gateway.cpp:314-319).
AnsweredReadsArePosted ==
  \A r \in ReadRequest :
    responses[r] > 0 => r \in writePosts \/ \E w \in Worker : req[w] = r /\ pc[w] = "post"

\* Every handler comes to its end, unless the process does first: no race in the
\* queue makes a release pop or answer without end (gateway.cpp:226-256, 347-367).
EveryHandlerReturns ==
  \A w \in Worker : pc[w] # "idle" ~> (pc[w] = "idle" \/ ~up)

-----------------------------------------------------------------------------
(* Where a request can be *)

Queue == {slot[p] : p \in (head .. tail - 1) \cap DOMAIN slot}
InHands(r) == \E w \in Worker : \E i \in DOMAIN requests[w] : requests[w][i] = r
InCopy(r)  == \E w \in Worker : \E i \in DOMAIN duplicate[w] : duplicate[w][i] = r
IsOutdated(r) == stamp[r] + MaxAge < clock

-----------------------------------------------------------------------------
(* What comments and logs of the code say, and what TLC finds otherwise *)

=============================================================================
