--------------------------- MODULE GatewayHistory ---------------------------
(***************************************************************************)
(* Gateway with a history of its one missing lock.  The code declares a    *)
(* mutex, logs "Gone through the lock" and never locks it: nothing keeps   *)
(* two threads of the pool out of the queue at the same time.  raced       *)
(* becomes true at the first step that leaves two of them there.  Until    *)
(* then, with any number of workers and however their other steps          *)
(* interleave, the gateway must do what it is for; so whatever else goes   *)
(* wrong needs two threads in the queue.                                   *)
(***************************************************************************)
EXTENDS GatewayProperties

VARIABLE raced   \* history: two threads have been in the queue at the same time

gatewayHistoryVars == <<gatewayVars, raced>>

\* A thread is in the queue from the timestamp of its request to the end of its push...
Pushing(r) == push[r] \in {"store", "publish"}

\* ... and, as a release, from the copy to the last answer (the body of the handler the
\* log line stands before).  A release about to copy, or one that found nothing, is not.
Emptying(w) == pc[w] \in {"walk", "popcheck", "pop", "answer", "record"}

Locked ==
  /\ \A q, r \in Request : Pushing(q) /\ Pushing(r) => q = r
  /\ \A v, w \in Worker : Emptying(v) /\ Emptying(w) => v = w
  /\ \A r \in Request : \A w \in Worker : ~(Pushing(r) /\ Emptying(w))

\* What a step of the gateway leaves in the history.
NoteRace == raced' = (raced \/ ~Locked')

GatewayHistoryInit == GatewayInit /\ raced = FALSE

GatewayHistoryNext == GatewayNext /\ NoteRace

GatewayHistorySpec == GatewayHistoryInit /\ [][GatewayHistoryNext]_gatewayHistoryVars

-----------------------------------------------------------------------------
\* No queued request is lost before two threads meet in the queue: it is in the queue,
\* in the copy or the hands of a release, answered, or it has become outdated
\* (gateway.cpp:226-256).
NothingLost ==
  ~raced =>
    \A r \in Request :
      push[r] = "pushed" /\ responses[r] = 0 =>
        r \in Queue \/ InCopy(r) \/ InHands(r) \/ IsOutdated(r)

\* No request is answered twice before it has become outdated, unless two threads meet
\* in the queue: the walk and the pops agree on how many entries were taken, also when
\* one release follows another (gateway.cpp:217-256).  An outdated one may be: a walk
\* past the end of the copy finds whatever was queued before.
AnsweredAtMostOnce ==
  ~raced => \A r \in Request : responses[r] > 1 => IsOutdated(r)

Status(r) ==
  CASE push[r] = "new" -> "new"
    [] push[r] \in PushStage \ {"new", "pushed"} -> "accepted"
    [] push[r] = "pushed" /\ responses[r] > 0 -> "answered"
    [] push[r] = "pushed" /\ responses[r] = 0 /\ IsOutdated(r) -> "expired"
    [] push[r] = "pushed" /\ responses[r] = 0 /\ ~IsOutdated(r) -> "queued"

Service == INSTANCE RequestService WITH
             status <- [r \in Request |-> Status(r)],
             order <- [p \in 1 .. tail - 1 |-> slot[p]]

\* The gateway implements the service until two threads meet in the queue: whatever the
\* walk and the pops do, answers leave in the order the requests were queued, no request
\* overtakes another that is still valid, none goes back, and what is outdated is older
\* than all that is not, as the walk takes for granted (gateway.cpp:185-261, 298-371).
ImplementsService ==
  /\ Service!ServiceInit
  /\ [][raced' \/ [Service!ServiceNext]_(Service!serviceVars)]_gatewayHistoryVars
=============================================================================
