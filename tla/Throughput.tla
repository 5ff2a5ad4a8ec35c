------------------------------ MODULE Throughput ------------------------------
(***************************************************************************)
(* The throughput record of gateway/gateway.cpp: record_time is called     *)
(* once per answered request and keeps one row per second in which it was  *)
(* called; record_requests writes all rows to throughput.csv, when a call  *)
(* comes more than TIMEOUT seconds after the last row (check_timeout) or   *)
(* when the gateway has read more than MAX_REQ requests.                   *)
(* This module is the record under one calling thread; module Gateway      *)
(* calls the same operators from several threads without a lock.           *)
(***************************************************************************)
EXTENDS Integers, Sequences

CONSTANTS
  TIMEOUT,    \* seconds of silence after which the file is written
  MaxClock    \* bound: the last second the clock shows

ASSUME ThroughputAssumption == TIMEOUT \in Nat /\ MaxClock \in Nat

VARIABLES
  clock,              \* time(0), in seconds
  throughput,         \* calls since the last row was opened
  second_throughput,  \* rows <<second, calls before it>>, in memory
  csv                 \* the rows of throughput.csv

recordVars == <<throughput, second_throughput, csv>>
throughputVars == <<clock, recordVars>>

Row == [second : Nat, calls : Nat]

\* The rows record_time works on: the first call opens the vector.
OpenedAt(now) ==
  IF second_throughput = <<>> THEN <<[second |-> now, calls |-> 0]>>
                              ELSE second_throughput

LastSecond(rows) == rows[Len(rows)].second

-----------------------------------------------------------------------------
ThroughputInit ==
  /\ clock = 0
  /\ throughput = 0
  /\ second_throughput = <<>>
  /\ csv = <<>>

\* Bounded by MaxClock.
Tick ==
  /\ clock < MaxClock
  /\ clock' = clock + 1
  /\ UNCHANGED recordVars

\* Mutated form: the file is opened to append.
RecordRequestsAppending(rows) == csv' = csv \o rows

\* The file is truncated and every row is written again.
record_requests(rows) == csv' = rows

\* Mutated form: the comparison of check_timeout is turned round.
CheckTimeoutReversed(rows, now) ==
  IF now < LastSecond(rows) + TIMEOUT THEN record_requests(rows) ELSE UNCHANGED csv

\* The rows are written before the row of the second that just ended is added.
check_timeout(rows, now) ==
  IF LastSecond(rows) + TIMEOUT < now THEN record_requests(rows) ELSE UNCHANGED csv

\* Mutated form: the counter is not reset with a new row.
RecordTimeKeepingCount(now) ==
  LET rows == OpenedAt(now)
  IN  /\ check_timeout(rows, now)
      /\ second_throughput' =
           IF now # LastSecond(rows)
             THEN Append(rows, [second |-> now, calls |-> throughput])
             ELSE rows
      /\ throughput' = throughput + 1

\* Mutated form: a new row in every call.
RecordTimeOnNewRow(now) ==
  LET rows == OpenedAt(now)
  IN  /\ check_timeout(rows, now)
      /\ second_throughput' = Append(rows, [second |-> now, calls |-> throughput])
      /\ throughput' = 1

record_time(now) ==
  LET rows   == OpenedAt(now)
      newRow == now # LastSecond(rows)
  IN  /\ check_timeout(rows, now)
      /\ second_throughput' =
           IF newRow THEN Append(rows, [second |-> now, calls |-> throughput]) ELSE rows
      /\ throughput' = IF newRow THEN 1 ELSE throughput + 1

-----------------------------------------------------------------------------
\* An answered request is counted now.
CountAnswer == record_time(clock) /\ UNCHANGED clock

\* More than MAX_REQ requests were read (gateway.cpp:321-324).
RecordAtMaxRequests ==
  record_requests(second_throughput) /\ UNCHANGED <<clock, throughput, second_throughput>>

ThroughputNext == Tick \/ CountAnswer \/ RecordAtMaxRequests

ThroughputSpec == ThroughputInit /\ [][ThroughputNext]_throughputVars

ThroughputTypeOK ==
  /\ clock \in 0 .. MaxClock
  /\ throughput \in Nat
  /\ second_throughput \in Seq(Row)
  /\ csv \in Seq(Row)
=============================================================================
