------------------------------- MODULE Client --------------------------------
(***************************************************************************)
(* The measuring client of client/client.cpp.  A pool of two threads takes *)
(* POST /response; each call notes its time in receive_times, unless the   *)
(* last one came TIMEOUT seconds ago or more: then all times are written   *)
(* to received.csv instead, and the content of response_times.csv, a file  *)
(* nothing in the repository creates, is printed.  The mutex mtx is never  *)
(* locked.  Times are modelled in seconds.                                 *)
(***************************************************************************)
EXTENDS Integers, Sequences

CONSTANTS
  Thread,            \* the threads of the server's pool
  TIMEOUT,           \* seconds of silence after which the times are written
  MaxClock,          \* bound: the last second the clock shows
  MaxResponses       \* bound: how many responses arrive

ASSUME ClientAssumption ==
  /\ TIMEOUT \in Nat \ {0}
  /\ MaxClock \in Nat
  /\ MaxResponses \in Nat

VARIABLES
  clock,          \* system_clock, in seconds
  up,             \* FALSE after the process has crashed
  pc,             \* where each thread is in the handler
  now,            \* of each thread: ms and current_second
  receive_times, last_second,
  received,       \* the rows of received.csv
  cursor,         \* of each thread: the size of receive_times it has seen
  responseTimesFile,  \* whether /received/response_times.csv is there
  arrivals,       \* history: the times at which responses arrived
  noted,          \* history: those of them that did not end a silence
  overlapped      \* history: whether two threads were ever in the handler at once

clientVars == <<clock, up, pc, now, receive_times, last_second, received, cursor,
                responseTimesFile, arrivals, noted, overlapped>>

history == <<arrivals, noted, overlapped>>

Label == {"idle", "first", "start", "check", "close", "print", "stamp"}

Goto(t, from, to) == pc[t] = from /\ pc' = [pc EXCEPT ![t] = to]

\* Another thread changes the vector, or looks at it, while t does.
VectorRace(t) ==
  /\ pc[t] \in {"first", "check"}
  /\ \E u \in Thread \ {t} : pc[u] \in {"first", "check", "close"}

-----------------------------------------------------------------------------
\* last_second starts at 0, which is more than TIMEOUT before any second the
\* program runs in.
Init ==
  /\ clock = TIMEOUT
  /\ up = TRUE
  /\ pc = [t \in Thread |-> "idle"]
  /\ now = [t \in Thread |-> 0]
  /\ receive_times = <<>>
  /\ last_second = 0
  /\ received = <<>>
  /\ cursor = [t \in Thread |-> 0]
  /\ responseTimesFile \in BOOLEAN
  /\ arrivals = <<>>
  /\ noted = <<>>
  /\ overlapped = FALSE

Crash ==
  /\ up' = FALSE
  /\ UNCHANGED <<clock, pc, now, receive_times, last_second, received, cursor, responseTimesFile, history>>

Tick ==
  /\ clock < MaxClock
  /\ clock' = clock + 1
  /\ UNCHANGED <<up, pc, now, receive_times, last_second, received, cursor, responseTimesFile, history>>

\* A response that arrives at time t ends a silence.
EndsSilence(t) == arrivals # <<>> /\ t - arrivals[Len(arrivals)] >= TIMEOUT

\* A response arrives: both clocks are read.
Receive(t) ==
  /\ Len(arrivals) < MaxResponses
  /\ Goto(t, "idle", "first")
  /\ now' = [now EXCEPT ![t] = clock]
  /\ arrivals' = Append(arrivals, clock)
  /\ noted' = IF EndsSilence(clock) THEN noted ELSE Append(noted, clock)
  /\ overlapped' = (overlapped \/ \E u \in Thread \ {t} : pc[u] # "idle")
  /\ UNCHANGED <<clock, up, receive_times, last_second, received, cursor, responseTimesFile>>

\* The first response of all, or one whose thread found the vector empty as well
\* while another pushed: it is noted here, and once more by NoteTime...
NoteFirst(t) ==
  /\ receive_times # <<>> =>
       Len(receive_times) = 1 /\ \E u \in Thread \ {t} : pc[u] \in {"start", "check"}
  /\ Goto(t, "first", "start")
  /\ receive_times' = Append(receive_times, clock)
  /\ cursor' = [cursor EXCEPT ![t] = Len(receive_times')]
  /\ UNCHANGED <<clock, up, now, last_second, received, responseTimesFile, history>>

NotFirst(t) ==
  /\ receive_times # <<>>
  /\ Goto(t, "first", "check")
  /\ cursor' = [cursor EXCEPT ![t] = Len(receive_times)]
  /\ UNCHANGED <<clock, up, now, receive_times, last_second, received, responseTimesFile, history>>

\* Mutated form: nothing starts the clock.
StartNoClock(t) ==
  /\ Goto(t, "start", "check")
  /\ UNCHANGED <<clock, up, now, receive_times, last_second, received, cursor, responseTimesFile, history>>

\* ... and then starts the clock.
StartClock(t) ==
  /\ Goto(t, "start", "check")
  /\ last_second' = now[t]
  /\ UNCHANGED <<clock, up, now, receive_times, received, cursor, responseTimesFile, history>>

\* check_timeout
TimedOut(t) == last_second + TIMEOUT <= now[t]

\* Elements another thread has pushed since t looked at the vector.
PushedMeanwhile(t) == Len(receive_times) - cursor[t]

\* Mutated form: the time is noted when the silence was found, too.
NoteEveryTime(t) ==
  /\ Goto(t, "check", "stamp")
  /\ receive_times' = Append(receive_times, now[t])
  /\ UNCHANGED <<clock, up, now, last_second, received, cursor, responseTimesFile, history>>

\* push_back.  When another thread has pushed meanwhile, both may have built their
\* element in one cell: one time is lost, or the size falls back to the older one.
NoteTime(t) ==
  /\ ~TimedOut(t)
  /\ Goto(t, "check", "stamp")
  /\ \/ receive_times' = Append(receive_times, now[t])
     \/ /\ PushedMeanwhile(t) > 0
        /\ receive_times' \in
             {[receive_times EXCEPT ![cursor[t] + 1] = now[t]],
              Append(SubSeq(receive_times, 1, cursor[t]), now[t])}
  /\ UNCHANGED <<clock, up, now, last_second, received, cursor, responseTimesFile, history>>

\* fopen(.., "w") empties the file.
OpenFile(t) ==
  /\ TimedOut(t)
  /\ Goto(t, "check", "close")
  /\ received' = <<>>
  /\ UNCHANGED <<clock, up, now, receive_times, last_second, cursor, responseTimesFile, history>>

\* Mutated form: the vector is cleared once it is written.
CloseAndClear(t) ==
  /\ Goto(t, "close", "print")
  /\ received' = receive_times
  /\ receive_times' = <<>>
  /\ UNCHANGED <<clock, up, now, last_second, cursor, responseTimesFile, history>>

\* The rows reach the file when it is closed; receive_times is kept.
CloseFile(t) ==
  /\ Goto(t, "close", "print")
  /\ received' = receive_times
  /\ UNCHANGED <<clock, up, now, receive_times, last_second, cursor, responseTimesFile, history>>

\* sprintf puts the 13 digits of a time into the INT_BUF = 12 bytes of str_millis.
RowOverrunsBuffer(t) == pc[t] = "close" /\ receive_times # <<>> /\ Crash

\* fopen(.., "r") of a file that is not there gives NULL, and fgetc(NULL) crashes.
PrintResponseTimes(t) ==
  /\ responseTimesFile
  /\ Goto(t, "print", "stamp")
  /\ UNCHANGED <<clock, up, now, receive_times, last_second, received, cursor, responseTimesFile, history>>

PrintCrashes(t) == ~responseTimesFile /\ pc[t] = "print" /\ Crash

\* last_second = current_second, the second in which this response arrived.
Stamp(t) ==
  /\ Goto(t, "stamp", "idle")
  /\ last_second' = now[t]
  /\ UNCHANGED <<clock, up, now, receive_times, received, cursor, responseTimesFile, history>>

\* push_back moves the elements while another thread reads or moves them.
VectorRaceCrashes(t) == VectorRace(t) /\ Crash

Respond(t) ==
  \/ NoteFirst(t) \/ NotFirst(t) \/ StartClock(t) \/ NoteTime(t) \/ OpenFile(t) \/ CloseFile(t)
  \/ RowOverrunsBuffer(t) \/ PrintResponseTimes(t) \/ PrintCrashes(t) \/ Stamp(t)

Next ==
  /\ up
  /\ \/ Tick
     \/ \E t \in Thread : Receive(t) \/ Respond(t) \/ VectorRaceCrashes(t)

Spec == Init /\ [][Next]_clientVars

-----------------------------------------------------------------------------
TypeOK ==
  /\ clock \in Nat
  /\ up \in BOOLEAN
  /\ pc \in [Thread -> Label]
  /\ now \in [Thread -> Nat]
  /\ receive_times \in Seq(Nat)
  /\ last_second \in Nat
  /\ received \in Seq(Nat)
  /\ cursor \in [Thread -> Nat]
  /\ responseTimesFile \in BOOLEAN
  /\ arrivals \in Seq(Nat)
  /\ noted \in Seq(Nat)
  /\ overlapped \in BOOLEAN

\* With any number of threads: whoever compares last_second or writes the file
\* finds that a first response was noted (client.cpp:111-116, 33).
NotedBeforeCheck ==
  \A t \in Thread :
    pc[t] \in {"start", "check", "close", "print", "stamp"} => receive_times # <<>>

\* While no two responses overlapped, whichever thread took them: the file never holds
\* a time the memory does not: it is empty or an old state of receive_times
\* (client.cpp:29-55).
FileIsPrefix ==
  ~overlapped =>
  /\ Len(received) <= Len(receive_times)
  /\ received = SubSeq(receive_times, 1, Len(received))

Quiet == \A t \in Thread : pc[t] = "idle"

\* While no two responses overlapped: behind an extra first row the memory holds every
\* arrival, in order, but those that came after a silence (client.cpp:111-119).
RowsAreNotedArrivals ==
  ~overlapped /\ Quiet /\ arrivals # <<>> =>
    receive_times # <<>> /\ Tail(receive_times) = noted

FileRewritten == \E t \in Thread : pc[t] = "check" /\ pc'[t] = "close"

SilenceFound ==
  FileRewritten /\ ~overlapped =>
    LET n == Len(arrivals) IN n > 1 /\ arrivals[n] - arrivals[n - 1] >= TIMEOUT

\* While no two responses overlapped: the file is emptied only by a response that ends a silence of
\* TIMEOUT seconds, never by the first one (client.cpp:59-64, 111-116).
OnlySilenceWrites == [][SilenceFound]_clientVars

\* run.sh:47-52 takes the last row of received.csv for the surplus one when there
\* are more rows than requests (it is to be deleted), and pairs what is left with
\* the times of sending, row by row.
FrontRowsAreResponses ==
  ~overlapped /\ Quiet /\ received # <<>> => SubSeq(received, 1, Len(received) - 1) = noted
=============================================================================
