--------------------------- MODULE RequestService ---------------------------
(***************************************************************************)
(* What the gateway is for, without threads, copies and counters: requests *)
(* are accepted, queued and answered in the order of the queue.  What has  *)
(* waited too long expires, oldest first, and need not be answered.        *)
(* Gateway implements this as long as no two of its threads meet in the    *)
(* queue: see GatewayHistory.                                              *)
(***************************************************************************)
EXTENDS Naturals, Sequences

CONSTANT Request

VARIABLES
  status,   \* of each request: "new", "accepted", "queued", "expired" or "answered"
  order     \* the requests in the order they were queued

serviceVars == <<status, order>>

ServiceInit ==
  /\ status = [r \in Request |-> "new"]
  /\ order = <<>>

Move(r, from, to) == status[r] = from /\ status' = [status EXCEPT ![r] = to]

AcceptRequest(r) == Move(r, "new", "accepted") /\ UNCHANGED order

\* Nothing that still waits is older than the n-th.
FirstWaiting(n) == \A i \in 1 .. n - 1 : status[order[i]] # "queued"

Enqueue(r) == Move(r, "accepted", "queued") /\ order' = Append(order, r)

\* It was so slow to be queued that it has expired, and with it all before it.
EnqueueLate(r) ==
  /\ FirstWaiting(Len(order) + 1)
  /\ Move(r, "accepted", "expired")
  /\ order' = Append(order, r)

AnswerNext(n) ==
  /\ FirstWaiting(n)
  /\ Move(order[n], "queued", "answered")
  /\ UNCHANGED order

AnswerLate(r) == Move(r, "expired", "answered") /\ UNCHANGED order

\* The n oldest have waited too long.
Expire(n) ==
  /\ status' = [r \in Request |->
                  IF status[r] = "queued" /\ \E i \in 1 .. n : order[i] = r
                  THEN "expired" ELSE status[r]]
  /\ UNCHANGED order

ServiceNext ==
  \/ \E r \in Request : AcceptRequest(r) \/ Enqueue(r) \/ EnqueueLate(r) \/ AnswerLate(r)
  \/ \E n \in 1 .. Len(order) : AnswerNext(n) \/ Expire(n)

ServiceSpec == ServiceInit /\ [][ServiceNext]_serviceVars
=============================================================================
