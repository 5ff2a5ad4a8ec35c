------------------------------- MODULE Astraea -------------------------------
(***************************************************************************)
(* The Astraea service of gateway/astraea.cpp: every POST /write is served *)
(* by a thread of its own (_one_thread_per_connection).  A thread tells    *)
(* the logger, then looks under the mutex m whether an ack process is      *)
(* already running.  If one is, the write is coalesced with it and returns *)
(* at once; if none is, the thread becomes the ack process: it waits for   *)
(* the (mocked) monotonic counter, posts /release to the gateway from a    *)
(* detached thread and resets the flag, this time without the mutex.       *)
(***************************************************************************)
EXTENDS Naturals

CONSTANTS
  Write,      \* the POST /write calls, one connection thread each
  NoWrite     \* the mutex is free

ASSUME NoWriteAssumption == NoWrite \notin Write

VARIABLES
  pc,                      \* where the thread of each call is
  m,                       \* holder of the mutex m
  ack_process_is_running,  \* the flag
  logPosts,                \* calls whose detached POST logger/log was started
  releasePosts             \* how many POST gateway/release each call started

astraeaVars == <<pc, m, ack_process_is_running, logPosts, releasePosts>>

Label == {"absent", "lock", "check", "set", "wait", "respond", "reset", "returned"}

\* The thread of c is the ack process: it has taken the flag and not reset it.
IsAckProcess(c) == pc[c] \in {"wait", "respond", "reset"}

\* The thread of c is inside the critical section of m.
HoldsMutex(c) == pc[c] \in {"check", "set"}

Goto(c, from, to) ==
  /\ pc[c] = from
  /\ pc' = [pc EXCEPT ![c] = to]

-----------------------------------------------------------------------------
Init ==
  /\ pc = [c \in Write |-> "absent"]
  /\ m = NoWrite
  /\ ack_process_is_running = FALSE
  /\ logPosts = {}
  /\ releasePosts = [c \in Write |-> 0]

\* The connection is accepted; the message goes to the logger from a detached thread.
Receive(c) ==
  /\ Goto(c, "absent", "lock")
  /\ logPosts' = logPosts \cup {c}
  /\ UNCHANGED <<m, ack_process_is_running, releasePosts>>

\* Mutated form: the mutex is dropped.
LockWithoutWaiting(c) ==
  /\ Goto(c, "lock", "check")
  /\ m' = c
  /\ UNCHANGED <<ack_process_is_running, logPosts, releasePosts>>

Lock(c) ==
  /\ Goto(c, "lock", "check")
  /\ m = NoWrite
  /\ m' = c
  /\ UNCHANGED <<ack_process_is_running, logPosts, releasePosts>>

\* Mutated form: the early return forgets to unlock.
CoalesceHoldingMutex(c) ==
  /\ ack_process_is_running
  /\ Goto(c, "check", "returned")
  /\ UNCHANGED <<m, ack_process_is_running, logPosts, releasePosts>>

\* An ack process is running: unlock and return, no release of its own.
Coalesce(c) ==
  /\ ack_process_is_running
  /\ Goto(c, "check", "returned")
  /\ m' = NoWrite
  /\ UNCHANGED <<ack_process_is_running, logPosts, releasePosts>>

SeeIdle(c) ==
  /\ ~ack_process_is_running
  /\ Goto(c, "check", "set")
  /\ UNCHANGED <<m, ack_process_is_running, logPosts, releasePosts>>

SetRunning(c) ==
  /\ Goto(c, "set", "wait")
  /\ ack_process_is_running' = TRUE
  /\ m' = NoWrite
  /\ UNCHANGED <<logPosts, releasePosts>>

\* waitSomeTime(80): the mocked generation of the monotonic counter value.
WaitForCounter(c) ==
  /\ Goto(c, "wait", "respond")
  /\ UNCHANGED <<m, ack_process_is_running, logPosts, releasePosts>>

\* Mutated form: the flag is reset and the release is forgotten.
ResetInsteadOfRespond(c) ==
  /\ Goto(c, "respond", "returned")
  /\ ack_process_is_running' = FALSE
  /\ UNCHANGED <<m, logPosts, releasePosts>>

\* Mutated form: the release is retried without end.
RespondAgain(c) ==
  /\ pc[c] = "respond"
  /\ releasePosts' = [releasePosts EXCEPT ![c] = @ + 1]
  /\ UNCHANGED <<pc, m, ack_process_is_running, logPosts>>

\* restCallPost: the release leaves from a detached thread, nobody waits for it.
Respond(c) ==
  /\ Goto(c, "respond", "reset")
  /\ releasePosts' = [releasePosts EXCEPT ![c] = @ + 1]
  /\ UNCHANGED <<m, ack_process_is_running, logPosts>>

\* Mutated form: the thread returns and the flag stays set.
ReturnWithoutReset(c) ==
  /\ Goto(c, "reset", "returned")
  /\ UNCHANGED <<m, ack_process_is_running, logPosts, releasePosts>>

\* The flag is reset outside of the mutex.
ResetRunning(c) ==
  /\ Goto(c, "reset", "returned")
  /\ ack_process_is_running' = FALSE
  /\ UNCHANGED <<m, logPosts, releasePosts>>

\* What the thread of c does once the call is received.
Thread(c) ==
  \/ Lock(c)
  \/ Coalesce(c)
  \/ SeeIdle(c)
  \/ SetRunning(c)
  \/ WaitForCounter(c)
  \/ Respond(c)
  \/ ResetRunning(c)

Next == \E c \in Write : Receive(c) \/ Thread(c)

\* The operating system keeps running every thread that can run.  Weak fairness
\* is enough: a call takes the mutex once, so with finitely many calls the
\* mutex is not taken away from a waiter for ever.
Fairness == \A c \in Write : WF_astraeaVars(Thread(c))

Spec == Init /\ [][Next]_astraeaVars
FairSpec == Spec /\ Fairness

-----------------------------------------------------------------------------
TypeOK ==
  /\ pc \in [Write -> Label]
  /\ m \in Write \cup {NoWrite}
  /\ ack_process_is_running \in BOOLEAN
  /\ logPosts \subseteq Write
  /\ releasePosts \in [Write -> {0, 1}]   \* an ack process releases once

\* One ack process at a time, although the flag is reset without the mutex:
\* two threads are never both between taking and resetting the flag
\* (astraea.cpp:29-46).
OneAckProcess ==
  \A c, d \in Write : IsAckProcess(c) /\ IsAckProcess(d) => c = d

\* The flag is never left behind: when a write finds it set there is a thread
\* that will still reset it.  Were it false, every later write would be
\* coalesced with an ack process that does not exist (astraea.cpp:30-33).
FlagHasAckProcess ==
  ack_process_is_running <=> \E c \in Write : IsAckProcess(c)

\* Every received write returns: nobody is left waiting for the mutex.  The
\* gateway's worker threads wait for this answer (gateway.cpp:319).
EveryWriteReturns ==
  \A c \in Write : pc[c] # "absent" ~> pc[c] = "returned"

\* What a returning write leaves behind: its own release, or another ack process.
ReturnIsCoveredBy(c) ==
  pc[c] # "returned" /\ pc'[c] = "returned"
    => \/ releasePosts[c] = 1
       \/ \E d \in Write \ {c} : IsAckProcess(d)

AllReturnsCovered == \A c \in Write : ReturnIsCoveredBy(c)

\* No write ends unheard: as a write returns, it has either released the
\* queue itself or there is an ack process other than its own.
ReturnIsCovered == [][AllReturnsCovered]_astraeaVars
=============================================================================
