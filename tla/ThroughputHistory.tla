-------------------------- MODULE ThroughputHistory --------------------------
(***************************************************************************)
(* Throughput with a history of its calls, to say what the rows mean.      *)
(***************************************************************************)
EXTENDS Throughput

CONSTANT MaxAnswers   \* bound: how often record_time is called

VARIABLE answersBefore \* history: calls of record_time before each second

historyVars == <<throughputVars, answersBefore>>

\* Calls in the seconds from .. to.
Answers(from, to) == answersBefore[to + 1] - answersBefore[from]

HistoryInit == ThroughputInit /\ answersBefore = [s \in 0 .. MaxClock + 1 |-> 0]

HistoryNext ==
  \/ /\ Tick \/ RecordAtMaxRequests
     /\ UNCHANGED answersBefore
  \/ /\ Answers(0, MaxClock) < MaxAnswers
     /\ CountAnswer
     /\ answersBefore' = [s \in 0 .. MaxClock + 1 |->
                            answersBefore[s] + IF clock < s THEN 1 ELSE 0]

HistorySpec == HistoryInit /\ [][HistoryNext]_historyVars

-----------------------------------------------------------------------------
Second(i) == second_throughput[i].second

\* Rows are strictly ordered by second: one row per second, none out of order.
RowsOrdered ==
  \A i, j \in DOMAIN second_throughput : i < j => Second(i) < Second(j)

\* What a row counts: the answers given from the second of the row before it up
\* to, but not in, its own second; the counter holds those since the last row.
\* No answer is lost or counted twice at a change of second (gateway.cpp:277-285).
RowsCountPrecedingAnswers ==
  second_throughput # <<>> =>
    /\ second_throughput[1].calls = 0
    /\ \A i \in 2 .. Len(second_throughput) :
         second_throughput[i].calls = Answers(Second(i - 1), Second(i) - 1)
    /\ throughput = Answers(LastSecond(second_throughput), MaxClock)

\* The file never holds a row the memory does not: it is an old state of it.
FileIsPrefix ==
  /\ Len(csv) <= Len(second_throughput)
  /\ csv = SubSeq(second_throughput, 1, Len(csv))

\* A timeout, not MAX_REQ, writes the file only in a step that also opens a row:
\* the last second before the silence is never in the file it writes.
Silence ==
  csv' # csv /\ answersBefore' # answersBefore =>
    /\ second_throughput # <<>>
    /\ clock > LastSecond(second_throughput) + TIMEOUT
    /\ Len(csv') < Len(second_throughput')

TimeoutFileMissesLastSecond == [][Silence]_historyVars
=============================================================================
