---------------------------- MODULE AstraeaSystem ----------------------------
(***************************************************************************)
(* The gateway and Astraea together.  A request's POST /write, made by the *)
(* gateway, becomes a call that a thread of Astraea serves; the release an *)
(* ack process posts becomes a release handler of the gateway.  Both posts *)
(* cross a network that may lose them (constant NetworkMayLose); nobody    *)
(* retries.  A read handler waits for Astraea's answer; everything else    *)
(* that is posted leaves from a detached thread.                           *)
(***************************************************************************)
EXTENDS GatewayHistory

CONSTANT NetworkMayLose

ASSUME SystemAssumption == NetworkMayLose \in BOOLEAN

VARIABLES
  astraeaPc, mutex, ack_process_is_running, logPosts, releasePosts,  \* Astraea's
  lostWrites,     \* requests whose POST /write never reached Astraea
  lostReleases    \* how many POST /release never reached the gateway

A == INSTANCE Astraea WITH
       Write <- Request, NoWrite <- NoRequest, pc <- astraeaPc, m <- mutex

astraeaState == <<astraeaPc, mutex, ack_process_is_running, logPosts, releasePosts>>
networkVars == <<lostWrites, lostReleases>>
systemVars == <<gatewayHistoryVars, astraeaState, networkVars>>

\* Releases on their way from Astraea to the gateway.
ReleasesInFlight ==
  Cardinality({c \in Request : releasePosts[c] = 1}) - release - lostReleases

\* curl_easy_perform has come back: with Astraea's answer or an error.  Assumed: an answer
\* is not lost once Astraea has received the call, for which curl has no timeout here.
WriteCallOver(r) == astraeaPc[r] = "returned" \/ r \in lostWrites

SystemInit ==
  /\ GatewayHistoryInit
  /\ A!Init
  /\ lostWrites = {}
  /\ lostReleases = 0

-----------------------------------------------------------------------------
\* Mutated form: the call is made from a thread of its own, its handler does not wait.
GatewayHandlerAsync(w) ==
  /\ HandlerStep(w)
  /\ NoteRace
  /\ UNCHANGED <<astraeaState, networkVars>>

\* A step of a handler; a read handler that has posted waits for the answer.
GatewayHandler(w) ==
  /\ pc[w] = "posted" => WriteCallOver(req[w])
  /\ HandlerStep(w)
  /\ NoteRace
  /\ UNCHANGED <<astraeaState, networkVars>>

GatewayPush(r) == PushStep(r) /\ NoteRace /\ UNCHANGED <<astraeaState, networkVars>>

GatewayAccept(w) == up /\ Accept(w) /\ NoteRace /\ UNCHANGED <<astraeaState, networkVars>>

ReleaseDelivered(w) ==
  /\ up
  /\ ReleasesInFlight > 0
  /\ AcceptRelease(w)
  /\ NoteRace
  /\ UNCHANGED <<astraeaState, networkVars>>

Rest == up /\ (ClockTick \/ RaceCrashes) /\ NoteRace /\ UNCHANGED <<astraeaState, networkVars>>

WriteDelivered(r) ==
  /\ r \in writePosts \ lostWrites
  /\ A!Receive(r)
  /\ UNCHANGED <<gatewayHistoryVars, networkVars>>

\* Mutated form: restCallPostAsync is called without a thread of its own, the ack
\* process waits until a worker of the gateway takes the release.
AstraeaWaitsForRelease(r) ==
  /\ astraeaPc[r] = "reset" => ReleasesInFlight = 0
  /\ A!Thread(r)
  /\ UNCHANGED <<gatewayHistoryVars, networkVars>>

AstraeaThread(r) == A!Thread(r) /\ UNCHANGED <<gatewayHistoryVars, networkVars>>

\* A connection that fails: CURLcode is not looked at, the call is not repeated.
LoseWrite(r) ==
  /\ NetworkMayLose
  /\ r \in writePosts \ lostWrites
  /\ astraeaPc[r] = "absent"
  /\ lostWrites' = lostWrites \cup {r}
  /\ UNCHANGED <<gatewayHistoryVars, astraeaState, lostReleases>>

LoseRelease ==
  /\ NetworkMayLose
  /\ ReleasesInFlight > 0
  /\ lostReleases' = lostReleases + 1
  /\ UNCHANGED <<gatewayHistoryVars, astraeaState, lostWrites>>

SystemNext ==
  \/ \E w \in Worker : GatewayHandler(w) \/ GatewayAccept(w) \/ ReleaseDelivered(w)
  \/ \E r \in Request : GatewayPush(r) \/ WriteDelivered(r) \/ AstraeaThread(r) \/ LoseWrite(r)
  \/ LoseRelease
  \/ Rest

SystemSpec == SystemInit /\ [][SystemNext]_systemVars

\* Threads that can run are run, a write arrives or is lost, and a worker that is
\* idle takes the release that waits for it, unless that is lost first.
SystemFairness ==
  /\ \A w \in Worker : WF_systemVars(GatewayHandler(w))
  /\ \A r \in Request :
       /\ WF_systemVars(GatewayPush(r))
       /\ WF_systemVars(AstraeaThread(r))
       /\ WF_systemVars(WriteDelivered(r) \/ LoseWrite(r))
  /\ WF_systemVars(\E w \in Worker : ReleaseDelivered(w))

FairSystemSpec == SystemSpec /\ SystemFairness

-----------------------------------------------------------------------------
\* A read is answered only when Astraea has passed it to the logger or its POST was lost,
\* or else its handler is still in that call: one that another request's release answers
\* before its own call is over (gateway.cpp:201, 319, astraea.cpp:26).  A write has no
\* such promise: its detached POST may still be on its way.
AnsweredReadsAreLogged ==
  \A r \in ReadRequest :
    responses[r] > 0 =>
      r \in logPosts \cup lostWrites \/ \E w \in Worker : req[w] = r /\ pc[w] \in {"post", "posted"}

\* A release on its way answers what is in the queue by then, whoever else the pool is
\* serving, unless the entry becomes outdated first, a release is lost, two threads meet
\* in the queue, or the gateway ends (gateway.cpp:214-261, 339-369, astraea.cpp:44).
ReleaseAnswersQueue ==
  \A r \in Request :
    r \in Queue /\ ReleasesInFlight > 0
      ~> responses[r] > 0 \/ IsOutdated(r) \/ lostReleases > 0 \/ raced \/ ~up

\* No handler of the gateway hangs: Astraea's answer to a read does not wait for
\* the gateway, although its release needs a worker of the gateway, perhaps the
\* very one that waits (gateway.cpp:319, astraea.cpp:44).
NoHandlerHangs ==
  \A w \in Worker : pc[w] # "idle" ~> (pc[w] = "idle" \/ ~up)

\* "The client also receives the responses" (gateway/README.md:15): every request
\* the gateway takes is answered.
EveryRequestAnswered ==
  \A r \in Request : push[r] # "new" ~> responses[r] > 0
=============================================================================
