---------------------------- MODULE AstraeaProofs ----------------------------
(***************************************************************************)
(* Proofs about Astraea, for any number of concurrent writes.              *)
(***************************************************************************)
EXTENDS Astraea, TLAPS

\* The strengthening: who is inside the critical section holds the mutex, and
\* between the check and the set nobody can have set the flag.
MutexInv == \A c \in Write : HoldsMutex(c) => m = c

SetSeesIdle == \A c \in Write : pc[c] = "set" => ~ack_process_is_running

\* The release leaves once, and before the flag is reset.
ReleaseBeforeReset ==
  \A c \in Write :
    /\ pc[c] \in Label \ {"reset", "returned"} => releasePosts[c] = 0
    /\ pc[c] = "reset" => releasePosts[c] = 1

\* The inductive invariant.
IInv ==
  /\ TypeOK
  /\ MutexInv
  /\ SetSeesIdle
  /\ ReleaseBeforeReset
  /\ OneAckProcess
  /\ FlagHasAckProcess

-----------------------------------------------------------------------------
\* The initial state satisfies the strengthening.
LEMMA InitIInv == Init => IInv
BY DEF Init, IInv, TypeOK, Label, MutexInv, SetSeesIdle, ReleaseBeforeReset, OneAckProcess,
       FlagHasAckProcess, IsAckProcess, HoldsMutex

\* The only step that counts a release takes the count from 0 to 1.
LEMMA RespondOnce ==
  ASSUME IInv, NEW c \in Write, Respond(c)
  PROVE  releasePosts' = [releasePosts EXCEPT ![c] = 1]
<1>1. releasePosts[c] = 0
  BY DEF IInv, ReleaseBeforeReset, Respond, Goto, Label
<1>2. QED
  BY <1>1 DEF Respond

\* Every step of every thread preserves the strengthening.
LEMMA StepIInv == IInv /\ [Next]_astraeaVars => IInv'
<1> SUFFICES ASSUME IInv, [Next]_astraeaVars
             PROVE  IInv'
  OBVIOUS
<1> USE NoWriteAssumption
<1>type. TypeOK'
  <2>1. ASSUME NEW c \in Write, Respond(c)
        PROVE  TypeOK'
    BY <2>1, RespondOnce DEF IInv, TypeOK, Respond, Goto, Label
  <2>2. ASSUME NEW c \in Write, ~Respond(c), Receive(c) \/ Thread(c)
        PROVE  TypeOK'
    BY <2>2 DEF IInv, TypeOK, Receive, Thread, Lock, Coalesce, SeeIdle, SetRunning,
           WaitForCounter, ResetRunning, Goto, Label
  <2>3. CASE UNCHANGED astraeaVars
    BY <2>3 DEF IInv, TypeOK, astraeaVars
  <2>4. QED
    BY <2>1, <2>2, <2>3 DEF Next
<1>1. ASSUME NEW c \in Write, Receive(c)
      PROVE  IInv'
  BY <1>1, <1>type DEF IInv, TypeOK, MutexInv, SetSeesIdle, ReleaseBeforeReset, OneAckProcess,
     FlagHasAckProcess, IsAckProcess, HoldsMutex, Receive, Goto, Label
<1>2. ASSUME NEW c \in Write, Lock(c)
      PROVE  IInv'
  BY <1>2, <1>type DEF IInv, TypeOK, MutexInv, SetSeesIdle, ReleaseBeforeReset, OneAckProcess,
     FlagHasAckProcess, IsAckProcess, HoldsMutex, Lock, Goto, Label
<1>3. ASSUME NEW c \in Write, Coalesce(c)
      PROVE  IInv'
  BY <1>3, <1>type DEF IInv, TypeOK, MutexInv, SetSeesIdle, ReleaseBeforeReset, OneAckProcess,
     FlagHasAckProcess, IsAckProcess, HoldsMutex, Coalesce, Goto, Label
<1>4. ASSUME NEW c \in Write, SeeIdle(c)
      PROVE  IInv'
  BY <1>4, <1>type DEF IInv, TypeOK, MutexInv, SetSeesIdle, ReleaseBeforeReset, OneAckProcess,
     FlagHasAckProcess, IsAckProcess, HoldsMutex, SeeIdle, Goto, Label
<1>5. ASSUME NEW c \in Write, SetRunning(c)
      PROVE  IInv'
  <2>1. MutexInv' /\ SetSeesIdle' /\ ReleaseBeforeReset'
    BY <1>5 DEF IInv, TypeOK, MutexInv, SetSeesIdle, ReleaseBeforeReset, HoldsMutex,
       SetRunning, Goto, Label
  <2>2. \A d \in Write : ~IsAckProcess(d)
    BY <1>5 DEF IInv, SetSeesIdle, FlagHasAckProcess, SetRunning, Goto
  <2>3. OneAckProcess' /\ FlagHasAckProcess'
    BY <1>5, <2>2 DEF IInv, TypeOK, OneAckProcess, FlagHasAckProcess, IsAckProcess,
       SetRunning, Goto
  <2>4. QED
    BY <1>type, <2>1, <2>3 DEF IInv
<1>6. ASSUME NEW c \in Write, WaitForCounter(c)
      PROVE  IInv'
  BY <1>6, <1>type DEF IInv, TypeOK, MutexInv, SetSeesIdle, ReleaseBeforeReset, OneAckProcess,
     FlagHasAckProcess, IsAckProcess, HoldsMutex, WaitForCounter, Goto, Label
<1>7. ASSUME NEW c \in Write, Respond(c)
      PROVE  IInv'
  BY <1>7, <1>type, RespondOnce DEF IInv, TypeOK, MutexInv, SetSeesIdle, ReleaseBeforeReset, OneAckProcess,
     FlagHasAckProcess, IsAckProcess, HoldsMutex, Respond, Goto, Label
<1>8. ASSUME NEW c \in Write, ResetRunning(c)
      PROVE  IInv'
  BY <1>8, <1>type DEF IInv, TypeOK, MutexInv, SetSeesIdle, ReleaseBeforeReset, OneAckProcess,
     FlagHasAckProcess, IsAckProcess, HoldsMutex, ResetRunning, Goto, Label
<1>9. CASE UNCHANGED astraeaVars
  BY <1>9 DEF IInv, TypeOK, MutexInv, SetSeesIdle, ReleaseBeforeReset, OneAckProcess,
     FlagHasAckProcess, IsAckProcess, HoldsMutex, astraeaVars
<1>10. QED
  BY <1>1, <1>2, <1>3, <1>4, <1>5, <1>6, <1>7, <1>8, <1>9 DEF Next, Thread

\* The strengthening holds in every reachable state.
THEOREM InvariantHolds == Spec => []IInv
BY InitIInv, StepIInv, PTL DEF Spec

\* Every variable keeps its type, and an ack process releases once
\* (the whole of the /write handler of gateway/astraea.cpp).
THEOREM TypeCorrect == Spec => []TypeOK
<1>1. IInv => TypeOK
  BY DEF IInv
<1>2. QED
  BY <1>1, InvariantHolds, PTL

\* At most one ack process, whatever the number of concurrent writes, although
\* astraea.cpp:46 resets the flag without taking the mutex.
THEOREM AckProcessIsUnique == Spec => []OneAckProcess
<1>1. IInv => OneAckProcess
  BY DEF IInv
<1>2. QED
  BY <1>1, InvariantHolds, PTL

\* The flag is set exactly while some thread will still reset it, so that no
\* write is coalesced with an ack process that is gone (astraea.cpp:30).
THEOREM FlagIsNeverStale == Spec => []FlagHasAckProcess
<1>1. IInv => FlagHasAckProcess
  BY DEF IInv
<1>2. QED
  BY <1>1, InvariantHolds, PTL

\* A write returns only after its own release was posted or while another ack
\* process is running: the early return of astraea.cpp:32 relies on it.
THEOREM ReturnsAreCovered == Spec => ReturnIsCovered
<1>1. IInv /\ [Next]_astraeaVars => [AllReturnsCovered]_astraeaVars
  <2> SUFFICES ASSUME IInv, Next, NEW c \in Write,
                      pc[c] # "returned", pc'[c] = "returned"
               PROVE  releasePosts[c] = 1 \/ \E d \in Write \ {c} : IsAckProcess(d)
    BY DEF AllReturnsCovered, ReturnIsCoveredBy
  <2>1. Coalesce(c) \/ ResetRunning(c)
    BY DEF IInv, TypeOK, Next, Receive, Thread, Lock, Coalesce, SeeIdle, SetRunning,
           WaitForCounter, Respond, ResetRunning, Goto
  <2>2. CASE Coalesce(c)
    BY <2>2 DEF IInv, FlagHasAckProcess, IsAckProcess, Coalesce, Goto
  <2>3. CASE ResetRunning(c)
    BY <2>3 DEF IInv, ReleaseBeforeReset, ResetRunning, Goto
  <2>4. QED
    BY <2>1, <2>2, <2>3
<1>2. QED
  BY <1>1, InvariantHolds, PTL DEF Spec, ReturnIsCovered
=============================================================================
