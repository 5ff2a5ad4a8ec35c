----------------------------- MODULE ClientProofs -----------------------------
(***************************************************************************)
(* Type correctness of Client, and that its threads, whatever they do to   *)
(* each other in the vector, never meet it empty once they are past the    *)
(* first response; and, while no two responses overlap, what is noted,     *)
(* what is on file and when it is written.                                 *)
(***************************************************************************)
EXTENDS Client, SequenceTheorems, TLAPS

\* The first state satisfies both.
LEMMA ClientInit == Init => TypeOK /\ NotedBeforeCheck
<1> SUFFICES ASSUME Init PROVE TypeOK /\ NotedBeforeCheck
  OBVIOUS
<1>1. pc \in [Thread -> Label] /\ now \in [Thread -> Nat] /\ cursor \in [Thread -> Nat]
  BY DEF Init, Label
<1>2. /\ receive_times \in Seq(Nat) /\ received \in Seq(Nat)
      /\ arrivals \in Seq(Nat) /\ noted \in Seq(Nat)
  BY DEF Init
<1>3. responseTimesFile \in BOOLEAN /\ overlapped \in BOOLEAN /\ up \in BOOLEAN
  BY DEF Init
<1>4. clock \in Nat /\ last_second \in Nat
  BY ClientAssumption DEF Init
<1>5. NotedBeforeCheck
  BY DEF Init, NotedBeforeCheck
<1>6. QED
  BY <1>1, <1>2, <1>3, <1>4, <1>5 DEF TypeOK

\* A thread that moves is at a label again.
LEMMA Moved ==
  ASSUME TypeOK, NEW t \in Thread, NEW from \in Label, NEW to \in Label, Goto(t, from, to)
  PROVE  pc' \in [Thread -> Label]
BY DEF TypeOK, Goto

\* A row put behind the rows keeps them a sequence, never an empty one.
LEMMA Longer ==
  ASSUME NEW s \in Seq(Nat), NEW n \in Nat
  PROVE  Append(s, n) \in Seq(Nat) /\ Append(s, n) # <<>>
<1>1. Append(s, n) \in Seq(Nat) /\ Len(Append(s, n)) = Len(s) + 1 /\ Len(s) \in Nat
  OBVIOUS
<1>2. Append(s, n) # <<>>
  BY <1>1
<1>3. QED
  BY <1>1, <1>2

\* A row lost to another thread's push leaves a sequence that is not empty.
LEMMA Overwritten ==
  ASSUME NEW s \in Seq(Nat), NEW n \in Nat, NEW k \in Nat, Len(s) - k > 0
  PROVE  /\ [s EXCEPT ![k + 1] = n] \in Seq(Nat)
         /\ [s EXCEPT ![k + 1] = n] # <<>>
<1>1. Len(s) \in Nat /\ DOMAIN s = 1 .. Len(s) /\ \A i \in 1 .. Len(s) : s[i] \in Nat
  OBVIOUS
<1> DEFINE r == [s EXCEPT ![k + 1] = n]
<1>2. r = [i \in 1 .. Len(s) |-> IF i = k + 1 THEN n ELSE s[i]]
  BY <1>1
<1>3. \A i \in 1 .. Len(s) : r[i] \in Nat
  BY <1>1, <1>2
<1>4. r \in Seq(Nat) /\ Len(r) = Len(s)
  BY <1>1, <1>2, <1>3
<1>5. r # <<>>
  BY <1>1, <1>4
<1>6. QED
  BY <1>4, <1>5

\* Each way NoteTime can end leaves a non-empty sequence of times.
LEMMA NoteTimeEffect ==
  ASSUME TypeOK, NEW t \in Thread, NoteTime(t), receive_times # <<>>
  PROVE  receive_times' \in Seq(Nat) /\ receive_times' # <<>>
<1> USE DEF TypeOK
<1>1. now[t] \in Nat /\ cursor[t] \in Nat /\ receive_times \in Seq(Nat)
  OBVIOUS
<1>2. CASE receive_times' = Append(receive_times, now[t])
  BY <1>1, <1>2, Longer
<1>3. CASE /\ PushedMeanwhile(t) > 0
           /\ receive_times' = [receive_times EXCEPT ![cursor[t] + 1] = now[t]]
  BY <1>1, <1>3, Overwritten DEF PushedMeanwhile
<1>4. CASE /\ PushedMeanwhile(t) > 0
           /\ receive_times' = Append(SubSeq(receive_times, 1, cursor[t]), now[t])
  <2>1. Len(receive_times) \in Nat /\ cursor[t] <= Len(receive_times)
    BY <1>1, <1>4 DEF PushedMeanwhile
  <2>2. \A i \in 1 .. cursor[t] : receive_times[i] \in Nat
    BY <1>1, <2>1
  <2>3. SubSeq(receive_times, 1, cursor[t]) \in Seq(Nat)
    BY <1>1, <2>2, SubSeqProperties
  <2>4. QED
    BY <1>1, <1>4, <2>3, Longer
<1>5. QED
  BY <1>2, <1>3, <1>4 DEF NoteTime

\* Every step of the handler keeps both.
LEMMA RespondStep ==
  ASSUME TypeOK, NotedBeforeCheck, NEW t \in Thread, Receive(t) \/ Respond(t)
  PROVE  TypeOK' /\ NotedBeforeCheck'
<1>1. CASE Receive(t)
  <2>1. TypeOK'
    BY <1>1, Moved DEF Receive, TypeOK, Label, history
  <2>2. QED
    BY <1>1, <2>1 DEF Receive, Goto, TypeOK, NotedBeforeCheck
<1>2. CASE NoteFirst(t)
  <2>1. receive_times' \in Seq(Nat) /\ receive_times' # <<>>
    BY <1>2, Longer DEF NoteFirst, TypeOK
  <2>2. TypeOK'
    BY <1>2, <2>1, Moved DEF NoteFirst, TypeOK, Label, history
  <2>3. QED
    BY <2>1, <2>2 DEF NotedBeforeCheck
<1>3. CASE NotFirst(t)
  <2>1. TypeOK'
    BY <1>3, Moved DEF NotFirst, TypeOK, Label, history
  <2>2. QED
    BY <1>3, <2>1 DEF NotFirst, NotedBeforeCheck
<1>4. CASE StartClock(t) \/ Stamp(t)
  <2>1. TypeOK'
    BY <1>4, Moved DEF StartClock, Stamp, TypeOK, Label, history
  <2>2. QED
    BY <1>4, <2>1 DEF StartClock, Stamp, Goto, TypeOK, NotedBeforeCheck
<1>5. CASE NoteTime(t)
  <2>1. receive_times # <<>>
    BY <1>5 DEF NoteTime, Goto, NotedBeforeCheck
  <2>2. receive_times' \in Seq(Nat) /\ receive_times' # <<>>
    BY <1>5, <2>1, NoteTimeEffect
  <2>3. TypeOK'
    BY <1>5, <2>2, Moved DEF NoteTime, TypeOK, Label, history
  <2>4. QED
    BY <2>2, <2>3 DEF NotedBeforeCheck
<1>6. CASE OpenFile(t) \/ CloseFile(t) \/ PrintResponseTimes(t)
  <2>1. pc' \in [Thread -> Label]
    BY <1>6, Moved DEF OpenFile, CloseFile, PrintResponseTimes, Label
  <2>2. received' \in Seq(Nat)
    <3>1. receive_times \in Seq(Nat) /\ received \in Seq(Nat) /\ <<>> \in Seq(Nat)
      BY DEF TypeOK
    <3>2. QED
      BY <1>6, <3>1 DEF OpenFile, CloseFile, PrintResponseTimes
  <2>3. UNCHANGED <<clock, up, now, receive_times, last_second, cursor, responseTimesFile, history>>
    BY <1>6 DEF OpenFile, CloseFile, PrintResponseTimes, history
  <2>4. TypeOK'
    BY <2>1, <2>2, <2>3 DEF TypeOK, history
  <2>5. receive_times # <<>>
    BY <1>6 DEF OpenFile, CloseFile, PrintResponseTimes, Goto, NotedBeforeCheck
  <2>6. QED
    BY <2>3, <2>4, <2>5 DEF NotedBeforeCheck
<1>7. CASE PrintCrashes(t) \/ RowOverrunsBuffer(t)
  BY <1>7 DEF PrintCrashes, RowOverrunsBuffer, Crash, TypeOK, NotedBeforeCheck, history
<1>8. QED
  BY <1>1, <1>2, <1>3, <1>4, <1>5, <1>6, <1>7 DEF Respond

\* The vector is never empty for a thread that compares last_second or writes the
\* file, for any number of threads and any outcome of their races.
THEOREM VectorIsStarted == Spec => [](TypeOK /\ NotedBeforeCheck)
<1>1. TypeOK /\ NotedBeforeCheck /\ [Next]_clientVars => (TypeOK /\ NotedBeforeCheck)'
  <2> SUFFICES ASSUME TypeOK, NotedBeforeCheck, [Next]_clientVars
               PROVE  TypeOK' /\ NotedBeforeCheck'
    OBVIOUS
  <2>1. ASSUME NEW t \in Thread, Receive(t) \/ Respond(t)
        PROVE  TypeOK' /\ NotedBeforeCheck'
    BY <2>1, RespondStep
  <2>2. ASSUME NEW t \in Thread, VectorRaceCrashes(t)
        PROVE  TypeOK' /\ NotedBeforeCheck'
    BY <2>2 DEF VectorRaceCrashes, Crash, TypeOK, NotedBeforeCheck, history
  <2>3. CASE Tick
    BY <2>3 DEF Tick, TypeOK, NotedBeforeCheck, history
  <2>4. CASE UNCHANGED clientVars
    BY <2>4 DEF clientVars, TypeOK, NotedBeforeCheck, history
  <2>5. QED
    BY <2>1, <2>2, <2>3, <2>4 DEF Next
<1>2. QED
  BY <1>1, ClientInit, PTL DEF Spec

-----------------------------------------------------------------------------
\* While no two responses overlapped.

Last == arrivals[Len(arrivals)]

\* The response that arrived last ended a silence.
AfterSilence ==
  LET n == Len(arrivals) IN n > 1 /\ arrivals[n] - arrivals[n - 1] >= TIMEOUT

OneAtATime == \A t, u \in Thread : pc[t] # "idle" /\ pc[u] # "idle" => t = u

\* The rows in memory are those noted, behind the extra first one.
RowsAreNoted == receive_times # <<>> /\ Tail(receive_times) = noted

\* The response thread t has in hand is still to be noted, or ends a silence as t will
\* see from last_second.
Pending(t) ==
  /\ receive_times # <<>>
  /\ TimedOut(t) <=> AfterSilence
  /\ noted = IF AfterSilence THEN Tail(receive_times) ELSE Append(Tail(receive_times), now[t])

\* What is so while thread t handles a response, at each of its labels.
Handling(t) ==
  /\ arrivals # <<>> /\ now[t] = Last
  /\ pc[t] = "first" =>
       IF Len(arrivals) = 1 THEN receive_times = <<>> /\ noted = <<now[t]>> ELSE Pending(t)
  /\ pc[t] = "start" =>
       Len(arrivals) = 1 /\ Len(receive_times) = 1 /\ noted = <<now[t]>>
  /\ pc[t] = "check" => Pending(t)
  /\ pc[t] \in {"start", "check"} => cursor[t] = Len(receive_times)
  /\ pc[t] \in {"close", "print"} => AfterSilence
  /\ pc[t] \in {"close", "print", "stamp"} => RowsAreNoted

\* What is so between two responses.
Settled ==
  IF arrivals = <<>> THEN receive_times = <<>> /\ noted = <<>>
                     ELSE RowsAreNoted /\ last_second = Last

\* What is on file was, and still is, the beginning of what is in memory.
FileBegins(file, rows) == Len(file) <= Len(rows) /\ file = SubSeq(rows, 1, Len(file))

Serial ==
  /\ OneAtATime
  /\ Quiet => Settled
  /\ \A t \in Thread : pc[t] # "idle" => Handling(t)
  /\ FileBegins(received, receive_times)

\* RowsAreNotedArrivals, FileIsPrefix and OnlySilenceWrites speak of what is between two
\* responses or at the end of a step; this is what is so in between.
SerialInv == ~overlapped => Serial

\* A file that begins the rows still does with a row more; rows and nothing begin rows.
LEMMA FileStillBegins ==
  ASSUME NEW file \in Seq(Nat), NEW s \in Seq(Nat), NEW n \in Nat
  PROVE  /\ FileBegins(file, s) => FileBegins(file, Append(s, n))
         /\ FileBegins(s, s) /\ FileBegins(<<>>, s)
<1>1. Len(file) \in Nat /\ Len(s) \in Nat
  OBVIOUS
<1>2. FileBegins(file, s) => FileBegins(file, Append(s, n))
  BY <1>1 DEF FileBegins
<1>3. FileBegins(s, s) /\ FileBegins(<<>>, s)
  BY <1>1 DEF FileBegins
<1>4. QED
  BY <1>2, <1>3

\* Where one thread moves and the others are idle, only what it handles is to be shown.
LEMMA OneMoves ==
  ASSUME TypeOK, OneAtATime, NEW t \in Thread, NEW from \in Label, NEW to \in Label,
         Goto(t, from, to), from # "idle" \/ Quiet,
         IF to = "idle" THEN Settled' ELSE Handling(t)',
         FileBegins(received, receive_times)'
  PROVE  Serial'
<1>1. pc[t] = from /\ pc' = [pc EXCEPT ![t] = to] /\ pc \in [Thread -> Label]
  BY DEF Goto, TypeOK
<1>2. \A u \in Thread : u # t => pc'[u] = "idle"
  BY <1>1 DEF OneAtATime, Quiet
<1>3. pc'[t] = to
  BY <1>1
<1>4. (OneAtATime)'
  BY <1>2 DEF OneAtATime
<1>5. (Quiet => Settled)'
  BY <1>3 DEF Quiet
<1>6. \A u \in Thread : pc'[u] # "idle" => (Handling(u))'
  BY <1>2, <1>3
<1>7. QED
  BY <1>4, <1>5, <1>6 DEF Serial

\* A response arrives and is the only one in hand.
LEMMA ReceiveSerial ==
  ASSUME TypeOK, SerialInv, NEW t \in Thread, Receive(t), ~overlapped'
  PROVE  Serial'
<1>1. /\ ~overlapped /\ Goto(t, "idle", "first")
      /\ now' = [now EXCEPT ![t] = clock]
      /\ arrivals' = Append(arrivals, clock)
      /\ noted' = IF EndsSilence(clock) THEN noted ELSE Append(noted, clock)
      /\ UNCHANGED <<receive_times, last_second, received, cursor>>
  BY DEF Receive
<1>2. Quiet
  BY DEF Receive, Goto, Quiet
<1>3. /\ arrivals \in Seq(Nat) /\ noted \in Seq(Nat) /\ receive_times \in Seq(Nat)
      /\ clock \in Nat /\ last_second \in Nat /\ TIMEOUT \in Nat \ {0} /\ Len(arrivals) \in Nat
  BY ClientAssumption DEF TypeOK
<1>4. Serial /\ Settled
  BY <1>1, <1>2 DEF SerialInv, Serial
<1>5. /\ Len(arrivals') = Len(arrivals) + 1 /\ arrivals'[Len(arrivals')] = clock
      /\ arrivals' # <<>> /\ now'[t] = clock /\ pc'[t] = "first"
  <2>1. Len(arrivals') = Len(arrivals) + 1 /\ arrivals'[Len(arrivals) + 1] = clock
    BY <1>1, <1>3, AppendProperties
  <2>2. arrivals' # <<>>
    BY <1>1, <1>3, Longer
  <2>3. now'[t] = clock /\ pc'[t] = "first"
    BY <1>1 DEF TypeOK, Goto
  <2>4. QED
    BY <2>1, <2>2, <2>3
<1>6. CASE arrivals = <<>>
  <2>1. Len(arrivals') = 1 /\ receive_times' = <<>> /\ noted' = <<clock>>
    BY <1>1, <1>3, <1>4, <1>5, <1>6 DEF Settled, EndsSilence
  <2>2. Handling(t)'
    BY <1>5, <2>1 DEF Handling, Last
  <2>3. QED
    BY <1>1, <1>2, <1>4, <2>2, OneMoves DEF Serial, Label
<1>7. CASE arrivals # <<>>
  <2>1. Len(arrivals) > 0 /\ last_second = Last /\ Last \in Nat
    BY <1>3, <1>4, <1>7 DEF Settled, Last
  <2>2. /\ arrivals'[Len(arrivals') - 1] = last_second /\ Len(arrivals') > 1
        /\ RowsAreNoted
    BY <1>1, <1>3, <1>4, <1>5, <1>7, <2>1 DEF Settled, Last
  <2>3. (AfterSilence)' <=> clock - last_second >= TIMEOUT
    BY <1>5, <2>2 DEF AfterSilence
  <2>4. (TimedOut(t))' <=> last_second + TIMEOUT <= clock
    BY <1>1, <1>5 DEF TimedOut
  <2>5. EndsSilence(clock) <=> clock - last_second >= TIMEOUT
    BY <1>7, <2>1 DEF EndsSilence, Last
  <2>6. (Pending(t))'
    <3>1. (TimedOut(t) <=> AfterSilence)'
      BY <1>3, <2>3, <2>4
    <3>2. receive_times' = receive_times /\ receive_times # <<>> /\ Tail(receive_times) = noted
      BY <1>1, <2>2 DEF RowsAreNoted
    <3>3. noted' = IF AfterSilence' THEN noted ELSE Append(noted, clock)
      BY <1>1, <2>3, <2>5
    <3>4. QED
      BY <1>5, <3>1, <3>2, <3>3 DEF Pending
  <2>7. Handling(t)'
    BY <1>3, <1>5, <2>2, <2>6 DEF Handling, Last
  <2>8. QED
    BY <1>1, <1>2, <1>4, <2>7, OneMoves DEF Serial, Label
<1>8. QED
  BY <1>6, <1>7

\* The look at the empty vector: the first response goes one way, any other the other.
LEMMA FirstSerial ==
  ASSUME TypeOK, SerialInv, NEW t \in Thread, NoteFirst(t) \/ NotFirst(t), ~overlapped'
  PROVE  Serial'
<1>1. /\ ~overlapped /\ pc[t] = "first"
      /\ UNCHANGED <<now, last_second, received, arrivals, noted>>
  BY DEF NoteFirst, NotFirst, Goto, history
<1>2. Serial /\ Handling(t)
  BY <1>1 DEF SerialInv, Serial
<1>3. /\ receive_times \in Seq(Nat) /\ received \in Seq(Nat) /\ clock \in Nat
      /\ cursor \in [Thread -> Nat]
  BY DEF TypeOK
<1>4. CASE NoteFirst(t)
  <2>1. receive_times = <<>>
    BY <1>1, <1>2, <1>4 DEF NoteFirst, Serial, OneAtATime
  <2>2. Len(arrivals) = 1 /\ noted = <<now[t]>>
    BY <1>1, <1>2, <2>1 DEF Handling, Pending
  <2>3. /\ receive_times' = Append(receive_times, clock)
        /\ cursor' = [cursor EXCEPT ![t] = Len(receive_times')]
        /\ Goto(t, "first", "start")
    BY <1>4 DEF NoteFirst
  <2>4. Len(receive_times') = 1
    BY <1>3, <2>1, <2>3
  <2>5. cursor'[t] = Len(receive_times') /\ pc'[t] = "start"
    BY <1>3, <2>3 DEF Goto, TypeOK
  <2>6. Handling(t)'
    BY <1>1, <1>2, <2>2, <2>4, <2>5 DEF Handling, Last
  <2>7. FileBegins(received, receive_times)'
    BY <1>1, <1>2, <1>3, <2>3, FileStillBegins DEF Serial
  <2>8. QED
    BY <1>2, <2>3, <2>6, <2>7, OneMoves DEF Serial, Label
<1>5. CASE NotFirst(t)
  <2>1. /\ receive_times # <<>> /\ receive_times' = receive_times
        /\ cursor' = [cursor EXCEPT ![t] = Len(receive_times)]
        /\ Goto(t, "first", "check")
    BY <1>5 DEF NotFirst
  <2>2. cursor'[t] = Len(receive_times') /\ pc'[t] = "check"
    BY <1>3, <2>1 DEF Goto, TypeOK
  <2>3. Pending(t)
    BY <1>1, <1>2, <2>1 DEF Handling
  <2>4. Pending(t)'
    BY <1>1, <2>1, <2>3 DEF Pending, TimedOut, AfterSilence
  <2>5. Handling(t)'
    BY <1>1, <1>2, <2>2, <2>4 DEF Handling, Last
  <2>6. FileBegins(received, receive_times)'
    BY <1>1, <1>2, <2>1 DEF Serial
  <2>7. QED
    BY <1>2, <2>1, <2>5, <2>6, OneMoves DEF Serial, Label
<1>6. QED
  BY <1>4, <1>5

\* The clock is started by the first response, so that it does not end a silence.
LEMMA StartSerial ==
  ASSUME TypeOK, SerialInv, NEW t \in Thread, StartClock(t), ~overlapped'
  PROVE  Serial'
<1>1. /\ ~overlapped /\ Goto(t, "start", "check") /\ last_second' = now[t]
      /\ UNCHANGED <<now, receive_times, received, cursor, arrivals, noted>>
  BY DEF StartClock, history
<1>2. Serial /\ Handling(t) /\ pc[t] = "start" /\ pc'[t] = "check"
  BY <1>1 DEF SerialInv, Serial, Goto, TypeOK
<1>3. Len(arrivals) = 1 /\ Len(receive_times) = 1 /\ noted = <<now[t]>>
  BY <1>2 DEF Handling
<1>4. now[t] \in Nat /\ TIMEOUT \in Nat \ {0} /\ receive_times \in Seq(Nat)
  BY ClientAssumption DEF TypeOK
<1>5. ~(TimedOut(t))' /\ ~(AfterSilence)'
  BY <1>1, <1>3, <1>4 DEF TimedOut, AfterSilence
<1>6. receive_times # <<>> /\ Tail(receive_times) = <<>>
  <2>1. receive_times # <<>>
    BY <1>3
  <2>2. Tail(receive_times) \in Seq(Nat) /\ Len(Tail(receive_times)) = 0
    BY <1>3, <1>4, <2>1, HeadTailProperties
  <2>3. QED
    BY <2>1, <2>2, EmptySeq
<1>7. Append(<<>>, now[t]) = <<now[t]>>
  OBVIOUS
<1>8. Pending(t)'
  BY <1>1, <1>3, <1>5, <1>6, <1>7 DEF Pending
<1>9. Handling(t)'
  BY <1>1, <1>2, <1>8 DEF Handling, Last
<1>10. FileBegins(received, receive_times)'
  BY <1>1, <1>2 DEF Serial
<1>11. QED
  BY <1>1, <1>2, <1>9, <1>10, OneMoves DEF Serial, Label

\* What is noted goes behind the rows: nobody has pushed meanwhile.
LEMMA NoteSerial ==
  ASSUME TypeOK, SerialInv, NEW t \in Thread, NoteTime(t), ~overlapped'
  PROVE  Serial'
<1>1. /\ ~overlapped /\ ~TimedOut(t) /\ Goto(t, "check", "stamp")
      /\ UNCHANGED <<now, last_second, received, cursor, arrivals, noted>>
  BY DEF NoteTime, history
<1>2. Serial /\ Handling(t) /\ pc[t] = "check" /\ pc'[t] = "stamp"
  BY <1>1 DEF SerialInv, Serial, Goto, TypeOK
<1>3. receive_times \in Seq(Nat) /\ received \in Seq(Nat) /\ now[t] \in Nat
  BY DEF TypeOK
<1>4. Pending(t) /\ cursor[t] = Len(receive_times) /\ Len(receive_times) \in Nat
  BY <1>2, <1>3 DEF Handling
<1>5. receive_times' = Append(receive_times, now[t])
  BY <1>4 DEF NoteTime, PushedMeanwhile
<1>6. receive_times # <<>> /\ noted = Append(Tail(receive_times), now[t])
  BY <1>1, <1>4 DEF Pending
<1>7. RowsAreNoted'
  <2>1. receive_times' # <<>>
    BY <1>3, <1>5, Longer
  <2>2. Tail(Append(receive_times, now[t])) = Append(Tail(receive_times), now[t])
    BY <1>3, <1>6, HeadTailAppend
  <2>3. QED
    BY <1>1, <1>5, <1>6, <2>1, <2>2 DEF RowsAreNoted
<1>8. Handling(t)'
  BY <1>1, <1>2, <1>7 DEF Handling, Last
<1>9. FileBegins(received, receive_times)'
  BY <1>1, <1>2, <1>3, <1>5, FileStillBegins DEF Serial
<1>10. QED
  BY <1>1, <1>2, <1>8, <1>9, OneMoves DEF Serial, Label

\* The file is emptied only behind a silence, and filled with all rows there are.
LEMMA FileSerial ==
  ASSUME TypeOK, SerialInv, NEW t \in Thread, ~overlapped',
         OpenFile(t) \/ CloseFile(t) \/ PrintResponseTimes(t)
  PROVE  Serial'
<1>1. /\ ~overlapped
      /\ UNCHANGED <<now, receive_times, last_second, cursor, arrivals, noted>>
      /\ \/ TimedOut(t) /\ Goto(t, "check", "close") /\ received' = <<>>
         \/ Goto(t, "close", "print") /\ received' = receive_times
         \/ Goto(t, "print", "stamp") /\ received' = received
  BY DEF OpenFile, CloseFile, PrintResponseTimes, history
<1>2. pc[t] \in {"check", "close", "print"} /\ Serial /\ Handling(t)
  BY <1>1 DEF SerialInv, Serial, Goto
<1>3. receive_times \in Seq(Nat) /\ received \in Seq(Nat) /\ <<>> \in Seq(Nat)
  BY DEF TypeOK
<1>4. AfterSilence /\ RowsAreNoted
  BY <1>1, <1>2 DEF Handling, Pending, RowsAreNoted, Goto
<1>5. PICK from \in {"check", "close", "print"}, to \in {"close", "print", "stamp"} :
        Goto(t, from, to)
  BY <1>1
<1>6. pc'[t] = to
  BY <1>5 DEF Goto, TypeOK
<1>7. Handling(t)'
  BY <1>1, <1>2, <1>4, <1>6 DEF Handling, Last, AfterSilence, RowsAreNoted
<1>8. FileBegins(received, receive_times)'
  BY <1>1, <1>2, <1>3, FileStillBegins DEF Serial
<1>9. from \in Label /\ to \in Label /\ to # "idle" /\ from # "idle"
  BY DEF Label
<1>10. QED
  BY <1>2, <1>5, <1>7, <1>8, <1>9, OneMoves DEF Serial

\* The response is done with, its second the last one.
LEMMA StampSerial ==
  ASSUME TypeOK, SerialInv, NEW t \in Thread, Stamp(t), ~overlapped'
  PROVE  Serial'
<1>1. /\ ~overlapped /\ Goto(t, "stamp", "idle") /\ last_second' = now[t]
      /\ UNCHANGED <<receive_times, received, arrivals, noted>>
  BY DEF Stamp, history
<1>2. Serial /\ Handling(t) /\ pc[t] = "stamp"
  BY <1>1 DEF SerialInv, Serial, Goto
<1>3. Settled'
  BY <1>1, <1>2 DEF Handling, Settled, RowsAreNoted, Last
<1>4. FileBegins(received, receive_times)'
  BY <1>1, <1>2 DEF Serial
<1>5. QED
  BY <1>1, <1>2, <1>3, <1>4, OneMoves DEF Serial, Label

\* Whatever a step does, the serial invariant holds after it.
LEMMA SerialNext == TypeOK /\ SerialInv /\ [Next]_clientVars => SerialInv'
<1> SUFFICES ASSUME TypeOK, SerialInv, [Next]_clientVars, ~overlapped' PROVE Serial'
  BY DEF SerialInv
<1>1. CASE UNCHANGED <<pc, now, receive_times, last_second, received, cursor, history>>
  BY <1>1 DEF SerialInv, Serial, OneAtATime, Quiet, Settled, Handling, Pending, TimedOut,
     AfterSilence, RowsAreNoted, Last, FileBegins, history
<1>2. ASSUME NEW t \in Thread, Receive(t) PROVE Serial'
  BY <1>2, ReceiveSerial
<1>3. ASSUME NEW t \in Thread, Respond(t) PROVE Serial'
  <2>1. CASE RowOverrunsBuffer(t) \/ PrintCrashes(t)
    BY <1>1, <2>1 DEF RowOverrunsBuffer, PrintCrashes, Crash
  <2>2. CASE NoteFirst(t) \/ NotFirst(t)
    BY <2>2, FirstSerial
  <2>3. CASE StartClock(t)
    BY <2>3, StartSerial
  <2>4. CASE NoteTime(t)
    BY <2>4, NoteSerial
  <2>5. CASE OpenFile(t) \/ CloseFile(t) \/ PrintResponseTimes(t)
    BY <2>5, FileSerial
  <2>6. CASE Stamp(t)
    BY <2>6, StampSerial
  <2>7. QED
    BY <1>3, <2>1, <2>2, <2>3, <2>4, <2>5, <2>6 DEF Respond
<1>4. ASSUME NEW t \in Thread, VectorRaceCrashes(t) PROVE Serial'
  BY <1>1, <1>4 DEF VectorRaceCrashes, Crash
<1>5. CASE Tick \/ UNCHANGED clientVars
  BY <1>1, <1>5 DEF Tick, clientVars, history
<1>6. QED
  BY <1>2, <1>3, <1>4, <1>5 DEF Next

\* Before the first response all is empty.
LEMMA SerialInit == Init => SerialInv
<1> SUFFICES ASSUME Init PROVE Serial
  BY DEF SerialInv
<1>1. /\ arrivals = <<>> /\ noted = <<>> /\ receive_times = <<>> /\ received = <<>>
      /\ \A t \in Thread : pc[t] = "idle"
  BY DEF Init
<1>2. FileBegins(<<>>, <<>>)
  <2>1. <<>> \in Seq(Nat)
    OBVIOUS
  <2>2. QED
    BY <2>1, FileStillBegins
<1>3. QED
  BY <1>1, <1>2 DEF Serial, OneAtATime, Settled

\* The serial invariant holds in every state of the client.
LEMMA SerialIsKept == Spec => [](TypeOK /\ SerialInv)
<1>1. TypeOK /\ SerialInv /\ [Next]_clientVars => SerialInv'
  BY SerialNext
<1>2. Spec => []TypeOK
  BY VectorIsStarted, PTL
<1>3. QED
  BY <1>1, <1>2, SerialInit, PTL DEF Spec

\* While no two responses overlap, received.csv is at any moment the beginning of what is
\* in memory, whichever thread takes a response (client.cpp:29-55, 118).
THEOREM FileStaysPrefix == Spec => []FileIsPrefix
<1>1. TypeOK /\ SerialInv => FileIsPrefix
  BY DEF SerialInv, Serial, FileBegins, FileIsPrefix
<1>2. QED
  BY <1>1, SerialIsKept, PTL

\* While no two responses overlap, the rows behind the first are the arrivals that did not
\* end a silence, all of them and in order (client.cpp:111-119).
THEOREM RowsAreArrivals == Spec => []RowsAreNotedArrivals
<1>1. TypeOK /\ SerialInv => RowsAreNotedArrivals
  BY DEF SerialInv, Serial, Settled, RowsAreNoted, RowsAreNotedArrivals
<1>2. QED
  BY <1>1, SerialIsKept, PTL

\* While no two responses overlap, only a response that ends a silence of TIMEOUT seconds
\* empties the file, never the first one (client.cpp:59-64, 111-116).
THEOREM SilenceWritesFile == Spec => OnlySilenceWrites
<1>1. TypeOK /\ SerialInv /\ [Next]_clientVars => [SilenceFound]_clientVars
  <2> SUFFICES ASSUME TypeOK, SerialInv, [Next]_clientVars, ~overlapped,
                      NEW t \in Thread, pc[t] = "check", pc'[t] = "close"
               PROVE  AfterSilence
    BY DEF SilenceFound, FileRewritten, AfterSilence
  <2>1. TimedOut(t)
    <3>1. \A u \in Thread : pc[u] # "idle" => u = t
      BY DEF SerialInv, Serial, OneAtATime
    <3>2. ASSUME NEW u \in Thread, Receive(u) \/ Respond(u) PROVE TimedOut(t)
      BY <3>1, <3>2 DEF Receive, Respond, NoteFirst, NotFirst, StartClock, NoteTime, OpenFile,
         CloseFile, RowOverrunsBuffer, PrintResponseTimes, PrintCrashes, Crash, Stamp, Goto,
         TypeOK
    <3>3. ASSUME NEW u \in Thread, VectorRaceCrashes(u) PROVE FALSE
      BY <3>3 DEF VectorRaceCrashes, Crash
    <3>4. ~Tick /\ ~UNCHANGED clientVars
      BY DEF Tick, clientVars
    <3>5. QED
      BY <3>2, <3>3, <3>4 DEF Next
  <2>2. QED
    BY <2>1 DEF SerialInv, Serial, Handling, Pending
<1>2. QED
  BY <1>1, SerialIsKept, PTL DEF Spec, OnlySilenceWrites
=============================================================================
