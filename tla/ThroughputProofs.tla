--------------------------- MODULE ThroughputProofs ---------------------------
(***************************************************************************)
(* The record of one thread for every clock, silence and number of         *)
(* answers: its types, the order of its rows, what they count, and that    *)
(* the file is always an old state of the rows in memory.                  *)
(***************************************************************************)
EXTENDS ThroughputHistory, TLAPS

Rows == second_throughput

\* The last row is of a second that has come: what RowsOrdered needs to be inductive.
LastRowHasCome == Rows # <<>> => LastSecond(Rows) <= clock

RecordInv == ThroughputTypeOK /\ RowsOrdered /\ FileIsPrefix /\ LastRowHasCome

\* A sequence of rows with the properties the record has, seen at second t.
Ordered(rows, t) ==
  /\ rows \in Seq(Row)
  /\ \A i, j \in 1 .. Len(rows) : i < j => rows[i].second < rows[j].second
  /\ rows # <<>> => rows[Len(rows)].second <= t

\* c is the beginning of rows.
Begins(c, rows) == Len(c) <= Len(rows) /\ c = SubSeq(rows, 1, Len(c))

\* The invariant, said of the sequences.
LEMMA InvOfRows ==
  RecordInv <=> /\ clock \in 0 .. MaxClock /\ throughput \in Nat /\ csv \in Seq(Row)
                /\ Ordered(Rows, clock) /\ Begins(csv, Rows)
<1>1. Rows \in Seq(Row) => DOMAIN Rows = 1 .. Len(Rows)
  BY DEF Rows
<1>2. QED
  BY <1>1 DEF RecordInv, ThroughputTypeOK, RowsOrdered, Second, FileIsPrefix, LastRowHasCome,
              LastSecond, Ordered, Begins, Rows

\* A row of a later second goes behind the rows and keeps their order.
LEMMA AppendKeepsOrder ==
  ASSUME NEW rows, NEW t \in Nat, NEW n \in Nat, Ordered(rows, t), rows # <<>>,
         rows[Len(rows)].second # t
  PROVE  LET more == Append(rows, [second |-> t, calls |-> n])
         IN  Ordered(more, t) /\ Begins(rows, more)
<1> DEFINE row == [second |-> t, calls |-> n]
           more == Append(rows, row)
<1>1. rows \in Seq(Row) /\ row \in Row /\ Len(rows) \in Nat \ {0}
  BY DEF Ordered, Row
<1>2. more \in Seq(Row) /\ Len(more) = Len(rows) + 1 /\ more[Len(more)] = row
  BY <1>1
<1>3. \A i \in 1 .. Len(rows) : more[i] = rows[i] /\ rows[i] \in Row
  BY <1>1
<1>4. \A i \in 1 .. Len(rows) : rows[i].second < t
  <2>1. rows[Len(rows)].second < t
    BY <1>1, <1>3 DEF Ordered, Row
  <2>2. \A i \in 1 .. Len(rows) : rows[i].second \in Nat
    BY <1>3 DEF Row
  <2>3. \A i \in 1 .. Len(rows) : i < Len(rows) => rows[i].second < rows[Len(rows)].second
    BY <1>1 DEF Ordered
  <2>4. QED
    BY <1>1, <2>1, <2>2, <2>3
<1>5. ASSUME NEW i \in 1 .. Len(more), NEW j \in 1 .. Len(more), i < j
      PROVE  more[i].second < more[j].second
  <2>1. i \in 1 .. Len(rows)
    BY <1>1, <1>2, <1>5
  <2>2. CASE j \in 1 .. Len(rows)
    BY <2>1, <2>2, <1>3, <1>5 DEF Ordered
  <2>3. CASE j = Len(more)
    BY <2>1, <2>3, <1>2, <1>3, <1>4
  <2>4. QED
    BY <1>1, <1>2, <2>2, <2>3
<1>6. more # <<>> => more[Len(more)].second <= t
  BY <1>2
<1>7. Begins(rows, more)
  <2>1. SubSeq(more, 1, Len(rows)) = rows
    BY <1>1, <1>2
  <2>2. QED
    BY <1>1, <1>2, <2>1 DEF Begins
<1>8. QED
  BY <1>2, <1>5, <1>6, <1>7 DEF Ordered

\* A beginning of a beginning is one.
LEMMA BeginsIsTransitive ==
  ASSUME NEW a \in Seq(Row), NEW b \in Seq(Row), NEW c \in Seq(Row), Begins(a, b), Begins(b, c)
  PROVE  Begins(a, c)
<1>1. Len(a) \in Nat /\ Len(b) \in Nat /\ Len(c) \in Nat
  OBVIOUS
<1>2. SubSeq(SubSeq(c, 1, Len(b)), 1, Len(a)) = SubSeq(c, 1, Len(a))
  BY <1>1 DEF Begins
<1>3. QED
  BY <1>1, <1>2 DEF Begins

\* Rows begin themselves, and nothing begins everything.
LEMMA BeginsAtOnce ==
  ASSUME NEW rows \in Seq(Row)
  PROVE  Begins(rows, rows) /\ Begins(<<>>, rows)
BY DEF Begins

\* The rows record_time works on are ordered, hold the second of the call or an earlier
\* one last, and begin with all that was there.
LEMMA OpenedIsOrdered ==
  ASSUME RecordInv
  PROVE  LET rows == OpenedAt(clock)
         IN  /\ Ordered(rows, clock) /\ rows # <<>>
             /\ Begins(csv, rows) /\ Begins(Rows, rows)
<1>1. clock \in Nat /\ csv \in Seq(Row) /\ Ordered(Rows, clock) /\ Begins(csv, Rows)
  BY InvOfRows
<1>2. CASE Rows # <<>>
  <2>1. OpenedAt(clock) = Rows
    BY <1>2 DEF OpenedAt, Rows
  <2>2. Begins(Rows, Rows)
    BY <1>1, BeginsAtOnce DEF Ordered
  <2>3. QED
    BY <1>1, <1>2, <2>1, <2>2
<1>3. CASE Rows = <<>>
  <2> DEFINE row == [second |-> clock, calls |-> 0]
  <2>1. OpenedAt(clock) = <<row>>
    BY <1>3 DEF OpenedAt, Rows
  <2>2. row \in Row /\ <<row>> \in Seq(Row) /\ Len(<<row>>) = 1 /\ <<row>>[1] = row
    BY <1>1 DEF Row
  <2>3. Ordered(<<row>>, clock)
    BY <1>1, <2>2 DEF Ordered
  <2>4. csv = <<>>
    BY <1>1, <1>3 DEF Begins
  <2>5. <<row>> # <<>> /\ Begins(<<>>, <<row>>)
    BY <2>2, BeginsAtOnce
  <2>6. Begins(csv, <<row>>)
    BY <2>4, <2>5
  <2>7. Begins(Rows, <<row>>)
    BY <1>3, <2>5
  <2> HIDE DEF row
  <2>8. QED
    BY <2>1, <2>3, <2>5, <2>6, <2>7
<1>4. QED
  BY <1>2, <1>3

\* The empty record satisfies the invariant ...
LEMMA RecordInit == HistoryInit => RecordInv
<1> SUFFICES ASSUME HistoryInit PROVE RecordInv
  OBVIOUS
<1>1. clock = 0 /\ throughput = 0 /\ Rows = <<>> /\ csv = <<>>
  BY DEF HistoryInit, ThroughputInit, Rows
<1>2. <<>> \in Seq(Row)
  OBVIOUS
<1>3. Ordered(<<>>, 0) /\ Begins(<<>>, <<>>)
  <2>1. Len(<<>>) = 0 /\ 1 .. 0 = {}
    OBVIOUS
  <2>2. Ordered(<<>>, 0)
    BY <1>2, <2>1 DEF Ordered
  <2>3. Begins(<<>>, <<>>)
    BY <1>2, BeginsAtOnce
  <2>4. QED
    BY <2>2, <2>3
<1>4. Ordered(Rows, clock) /\ Begins(csv, Rows)
  BY <1>1, <1>3
<1>5. clock \in 0 .. MaxClock /\ throughput \in Nat /\ csv \in Seq(Row)
  BY <1>1, <1>2, ThroughputAssumption
<1>6. QED
  BY <1>4, <1>5, InvOfRows

\* ... and every step keeps it.
LEMMA RecordNext == RecordInv /\ [HistoryNext]_historyVars => RecordInv'
<1> SUFFICES ASSUME RecordInv, [HistoryNext]_historyVars PROVE RecordInv'
  OBVIOUS
<1> USE DEF Rows
<1>1. /\ clock \in 0 .. MaxClock /\ throughput \in Nat /\ csv \in Seq(Row)
      /\ Ordered(Rows, clock) /\ Begins(csv, Rows)
  BY InvOfRows
<1>2. (RecordInv)' <=> /\ clock' \in 0 .. MaxClock /\ throughput' \in Nat /\ csv' \in Seq(Row)
                       /\ Ordered(Rows', clock') /\ Begins(csv', Rows')
  <2>1. second_throughput' \in Seq(Row) =>
          DOMAIN second_throughput' = 1 .. Len(second_throughput')
    OBVIOUS
  <2>2. QED
    BY <2>1 DEF RecordInv, ThroughputTypeOK, RowsOrdered, Second, FileIsPrefix, LastRowHasCome,
                LastSecond, Ordered, Begins
<1>3. CASE Tick
  <2>1. clock' \in 0 .. MaxClock /\ clock <= clock'
    BY <1>1, <1>3, ThroughputAssumption DEF Tick
  <2>2. throughput' = throughput /\ Rows' = Rows /\ csv' = csv
    BY <1>3 DEF Tick, recordVars
  <2>3. Ordered(Rows, clock')
    <3>1. Rows # <<>> => Rows[Len(Rows)] \in Row
      BY <1>1 DEF Ordered
    <3>2. QED
      BY <1>1, <2>1, <3>1 DEF Ordered, Row
  <2>4. QED
    BY <1>1, <1>2, <2>1, <2>2, <2>3
<1>4. CASE RecordAtMaxRequests
  <2>1. csv' = Rows /\ Rows' = Rows /\ clock' = clock /\ throughput' = throughput
    BY <1>4 DEF RecordAtMaxRequests, record_requests
  <2>2. Rows \in Seq(Row) /\ Begins(Rows, Rows)
    BY <1>1, BeginsAtOnce DEF Ordered
  <2>3. QED
    BY <1>1, <1>2, <2>1, <2>2
<1>5. CASE CountAnswer
  <2> DEFINE rows == OpenedAt(clock)
             row == [second |-> clock, calls |-> throughput]
  <2>1. Ordered(rows, clock) /\ rows # <<>> /\ Begins(csv, rows) /\ rows \in Seq(Row)
    BY OpenedIsOrdered DEF Ordered
  <2>2. clock' = clock /\ throughput' \in Nat
    BY <1>1, <1>5 DEF CountAnswer, record_time
  <2>3. csv' \in {csv, rows}
    BY <1>5 DEF CountAnswer, record_time, check_timeout, record_requests
  <2>4. csv' \in Seq(Row) /\ Begins(csv', rows)
    BY <1>1, <2>1, <2>3, BeginsAtOnce
  <2>5. CASE rows[Len(rows)].second = clock
    <3>1. Rows' = rows
      BY <1>5, <2>5 DEF CountAnswer, record_time, LastSecond
    <3>2. QED
      BY <1>1, <1>2, <2>1, <2>2, <2>4, <3>1
  <2>6. CASE rows[Len(rows)].second # clock
    <3>1. Rows' = Append(rows, row)
      BY <1>5, <2>6 DEF CountAnswer, record_time, LastSecond
    <3>2. clock \in Nat
      BY <1>1
    <3>3. Ordered(Append(rows, row), clock) /\ Begins(rows, Append(rows, row))
      BY <1>1, <2>1, <2>6, <3>2, AppendKeepsOrder
    <3>4. Append(rows, row) \in Seq(Row)
      BY <3>3 DEF Ordered
    <3>5. Begins(csv', Append(rows, row))
      BY <2>1, <2>4, <3>3, <3>4, BeginsIsTransitive
    <3>6. QED
      BY <1>1, <1>2, <2>2, <2>4, <3>1, <3>3, <3>5
  <2>7. QED
    BY <2>5, <2>6
<1>6. CASE UNCHANGED historyVars
  <2>1. clock' = clock /\ throughput' = throughput /\ Rows' = Rows /\ csv' = csv
    BY <1>6 DEF historyVars, throughputVars, recordVars
  <2>2. QED
    BY <1>1, <1>2, <2>1
<1>7. QED
  BY <1>3, <1>4, <1>5, <1>6 DEF HistoryNext

\* The invariant holds in every state of the record.
LEMMA RecordIsKept == HistorySpec => []RecordInv
BY RecordInit, RecordNext, PTL DEF HistorySpec

\* The types of the record: rows of seconds and counts, in memory and in the file
\* (gateway.cpp:31-32, 270-286).
THEOREM RecordTypeCorrect == HistorySpec => []ThroughputTypeOK
<1>1. RecordInv => ThroughputTypeOK
  BY DEF RecordInv
<1>2. QED
  BY <1>1, RecordIsKept, PTL

\* One row per second, in order, however long the run and wherever the silences are
\* (gateway.cpp:277-285).
THEOREM RowsStayOrdered == HistorySpec => []RowsOrdered
<1>1. RecordInv => RowsOrdered
  BY DEF RecordInv
<1>2. QED
  BY <1>1, RecordIsKept, PTL

\* What is in throughput.csv is always a beginning of what is in memory: no row of the
\* file is ever taken back or changed (gateway.cpp:54-76, 263-268, 321-324).
THEOREM FileStaysPrefix == HistorySpec => []FileIsPrefix
<1>1. RecordInv => FileIsPrefix
  BY DEF RecordInv
<1>2. QED
  BY <1>1, RecordIsKept, PTL

-----------------------------------------------------------------------------
Seconds == 0 .. MaxClock + 1

\* The counts of n answers since the last of the rows, and of those before, are right,
\* where before[s] answers came before second s.
Counted(rows, n, before) ==
  rows # <<>> =>
    /\ rows[1].calls = 0
    /\ \A i \in 2 .. Len(rows) :
         rows[i].calls = before[rows[i].second] - before[rows[i - 1].second]
    /\ n = before[MaxClock + 1] - before[rows[Len(rows)].second]

\* No answer came after the second of the last row, none at all before the first row.
NoneBehind(rows, n, before) ==
  /\ rows = <<>> => n = 0 /\ \A s \in Seconds : before[s] = 0
  /\ rows # <<>> => \A s \in Seconds :
       rows[Len(rows)].second < s => before[s] = before[MaxClock + 1]

\* What RowsCountPrecedingAnswers needs to be inductive: an answer in a second without a
\* row is one that opens it.
CountInv ==
  /\ answersBefore \in [Seconds -> Nat]
  /\ Counted(Rows, throughput, answersBefore)
  /\ NoneBehind(Rows, throughput, answersBefore)

\* The rows of an ordered record are of seconds up to t.
LEMMA SecondsOfRows ==
  ASSUME NEW rows, NEW t \in 0 .. MaxClock, Ordered(rows, t)
  PROVE  \A i \in 1 .. Len(rows) : rows[i].second \in 0 .. t /\ rows[i].second \in Seconds
<1> SUFFICES ASSUME NEW i \in 1 .. Len(rows) PROVE rows[i].second \in 0 .. t
  BY ThroughputAssumption DEF Seconds
<1>1. rows \in Seq(Row) /\ Len(rows) \in Nat /\ rows # <<>>
  BY DEF Ordered
<1>2. rows[i] \in Row /\ rows[Len(rows)] \in Row
  BY <1>1
<1>3. rows[i].second \in Nat /\ rows[Len(rows)].second \in Nat /\ rows[Len(rows)].second <= t
  BY <1>1, <1>2 DEF Ordered, Row
<1>4. i < Len(rows) => rows[i].second < rows[Len(rows)].second
  BY <1>1 DEF Ordered
<1>5. i = Len(rows) \/ i < Len(rows)
  BY <1>1
<1>6. CASE i = Len(rows)
  BY <1>3, <1>6
<1>7. CASE i < Len(rows)
  BY <1>3, <1>4, <1>7
<1>8. QED
  BY <1>5, <1>6, <1>7

\* An answer in second t changes no count of the rows there are: it goes to the last
\* row's count if that row is of t, and opens a row that counts those before it if not.
LEMMA OneMoreAnswer ==
  ASSUME NEW rows, NEW t \in 0 .. MaxClock, Ordered(rows, t), rows # <<>>, NEW n \in Nat,
         NEW before \in [Seconds -> Nat],
         Counted(rows, n, before), NoneBehind(rows, n, before)
  PROVE  LET after == [s \in Seconds |-> before[s] + IF t < s THEN 1 ELSE 0]
             more == Append(rows, [second |-> t, calls |-> n])
         IN  /\ after \in [Seconds -> Nat]
             /\ rows[Len(rows)].second = t =>
                  Counted(rows, n + 1, after) /\ NoneBehind(rows, n + 1, after)
             /\ rows[Len(rows)].second # t =>
                  Counted(more, 1, after) /\ NoneBehind(more, 1, after)
<1> DEFINE after == [s \in Seconds |-> before[s] + IF t < s THEN 1 ELSE 0]
           row == [second |-> t, calls |-> n]
           more == Append(rows, row)
           last == rows[Len(rows)].second
           end == MaxClock + 1
<1>1. MaxClock \in Nat /\ t \in Nat /\ end \in Seconds /\ t \in Seconds /\ t < end
  BY ThroughputAssumption DEF Seconds
<1>2. rows \in Seq(Row) /\ Len(rows) \in Nat \ {0}
  BY DEF Ordered
<1>3. \A i \in 1 .. Len(rows) : rows[i].second \in 0 .. t /\ rows[i].second \in Seconds
  BY SecondsOfRows
<1>4. last \in 0 .. t /\ last \in Seconds
  BY <1>2, <1>3
<1>5. /\ after \in [Seconds -> Nat] /\ after[end] = before[end] + 1
      /\ \A s \in Seconds : s <= t => after[s] = before[s]
      /\ \A s \in Seconds : t < s => after[s] = before[s] + 1
  <2>1. \A s \in Seconds : before[s] \in Nat /\ s \in Nat
    BY <1>1 DEF Seconds
  <2>2. \A s \in Seconds : after[s] = before[s] + IF t < s THEN 1 ELSE 0
    OBVIOUS
  <2>3. \A s \in Seconds : after[s] \in Nat
    BY <2>1, <2>2
  <2>4. QED
    BY <1>1, <2>1, <2>2, <2>3
<1>6. \A i \in 1 .. Len(rows) : after[rows[i].second] = before[rows[i].second]
  BY <1>1, <1>3, <1>5
<1>7. /\ rows[1].calls = 0 /\ n = before[end] - before[last]
      /\ \A i \in 2 .. Len(rows) :
           rows[i].calls = before[rows[i].second] - before[rows[i - 1].second]
      /\ \A s \in Seconds : last < s => before[s] = before[end]
  BY DEF Counted, NoneBehind
<1>8. before[end] \in Nat /\ before[last] \in Nat /\ before[t] \in Nat
  BY <1>1, <1>4
<1>9. \A i \in 2 .. Len(rows) :
        rows[i].calls = after[rows[i].second] - after[rows[i - 1].second]
  <2> SUFFICES ASSUME NEW i \in 2 .. Len(rows)
               PROVE  rows[i].calls = after[rows[i].second] - after[rows[i - 1].second]
    OBVIOUS
  <2>1. i \in 1 .. Len(rows) /\ i - 1 \in 1 .. Len(rows)
    BY <1>2
  <2>2. QED
    BY <2>1, <1>6, <1>7
<1>10. CASE last = t
  <2>1. n + 1 = after[end] - after[last]
    BY <1>1, <1>4, <1>5, <1>7, <1>8, <1>10
  <2>2. \A s \in Seconds : last < s => after[s] = after[end]
    BY <1>5, <1>7, <1>10
  <2> HIDE DEF after
  <2>3. Counted(rows, n + 1, after)
    BY <1>7, <1>9, <2>1 DEF Counted
  <2>4. NoneBehind(rows, n + 1, after)
    BY <2>2 DEF NoneBehind
  <2>5. QED
    BY <1>5, <1>10, <2>3, <2>4 DEF after
<1>11. CASE last # t
  <2>1. before[t] = before[end]
    BY <1>1, <1>4, <1>7, <1>11
  <2>2. row \in Row /\ row.second = t /\ row.calls = n
    BY <1>1 DEF Row
  <2> HIDE DEF row
  <2>3. /\ more \in Seq(Row) /\ Len(more) = Len(rows) + 1 /\ more[Len(more)] = row
        /\ more # <<>>
        /\ \A i \in 1 .. Len(rows) : more[i] = rows[i]
    BY <1>2, <2>2
  <2>4. n = after[t] - after[last]
    BY <1>1, <1>4, <1>5, <1>7, <2>1
  <2>5. 1 = after[end] - after[t]
    BY <1>1, <1>5, <1>8, <2>1
  <2> HIDE DEF after, more
  <2>6. \A i \in 2 .. Len(more) :
          more[i].calls = after[more[i].second] - after[more[i - 1].second]
    <3> SUFFICES ASSUME NEW i \in 2 .. Len(more)
                 PROVE  more[i].calls = after[more[i].second] - after[more[i - 1].second]
      OBVIOUS
    <3>1. CASE i \in 2 .. Len(rows)
      <4>1. i \in 1 .. Len(rows) /\ i - 1 \in 1 .. Len(rows)
        BY <1>2, <3>1
      <4>2. QED
        BY <4>1, <1>9, <2>3, <3>1
    <3>2. CASE i = Len(more)
      <4>1. i - 1 = Len(rows) /\ i - 1 \in 1 .. Len(rows)
        BY <1>2, <2>3, <3>2
      <4>2. more[i].calls = n /\ more[i].second = t /\ more[i - 1].second = last
        BY <2>2, <2>3, <3>2, <4>1
      <4>3. QED
        BY <2>4, <4>2
    <3>3. QED
      BY <1>2, <2>3, <3>1, <3>2
  <2>7. more[1].calls = 0
    BY <1>2, <1>7, <2>3
  <2>8. Counted(more, 1, after)
    BY <2>2, <2>3, <2>5, <2>6, <2>7 DEF Counted
  <2>9. NoneBehind(more, 1, after)
    <3>1. \A s \in Seconds : t < s => after[s] = after[end]
      <4> SUFFICES ASSUME NEW s \in Seconds, t < s PROVE after[s] = after[end]
        OBVIOUS
      <4>1. last < s
        BY <1>1, <1>4 DEF Seconds
      <4>2. after[s] = before[s] + 1 /\ after[end] = before[end] + 1 /\ before[s] = before[end]
        BY <1>5, <1>7, <4>1
      <4>3. QED
        BY <4>2
    <3>2. QED
      BY <2>2, <2>3, <3>1 DEF NoneBehind
  <2>10. QED
    BY <1>5, <1>11, <2>8, <2>9 DEF after, more, row
<1>12. QED
  BY <1>10, <1>11

\* The rows record_time works on are counted as the rows before the call.
LEMMA OpenedIsCounted ==
  ASSUME RecordInv, CountInv
  PROVE  /\ Counted(OpenedAt(clock), throughput, answersBefore)
         /\ NoneBehind(OpenedAt(clock), throughput, answersBefore)
<1>1. CASE Rows # <<>>
  BY <1>1 DEF OpenedAt, Rows, CountInv
<1>2. CASE Rows = <<>>
  <2>1. throughput = 0 /\ \A s \in Seconds : answersBefore[s] = 0
    BY <1>2 DEF CountInv, NoneBehind
  <2>2. clock \in Seconds /\ MaxClock + 1 \in Seconds
    BY ThroughputAssumption DEF RecordInv, ThroughputTypeOK, Seconds
  <2> DEFINE row == [second |-> clock, calls |-> 0]
  <2>3. OpenedAt(clock) = <<row>>
    BY <1>2 DEF OpenedAt, Rows
  <2>4. <<row>>[1] = row /\ Len(<<row>>) = 1 /\ <<row>> # <<>> /\ 2 .. 1 = {}
    OBVIOUS
  <2>5. row.second = clock /\ row.calls = 0
    OBVIOUS
  <2> HIDE DEF row
  <2>6. Counted(<<row>>, throughput, answersBefore)
    BY <2>1, <2>2, <2>4, <2>5 DEF Counted
  <2>7. NoneBehind(<<row>>, throughput, answersBefore)
    BY <2>1, <2>2, <2>4, <2>5 DEF NoneBehind
  <2>8. QED
    BY <2>3, <2>6, <2>7
<1>3. QED
  BY <1>1, <1>2

\* Nothing is counted at first ...
LEMMA CountInit == HistoryInit => CountInv
<1> SUFFICES ASSUME HistoryInit PROVE CountInv
  OBVIOUS
<1>1. throughput = 0 /\ Rows = <<>> /\ answersBefore = [s \in Seconds |-> 0]
  BY DEF HistoryInit, ThroughputInit, Rows, Seconds
<1>2. QED
  BY <1>1 DEF CountInv, Counted, NoneBehind

\* ... and every step of the record counts right.
LEMMA CountNext == RecordInv /\ CountInv /\ [HistoryNext]_historyVars => CountInv'
<1> SUFFICES ASSUME RecordInv, CountInv, [HistoryNext]_historyVars PROVE CountInv'
  OBVIOUS
<1>1. CASE UNCHANGED <<throughput, second_throughput, answersBefore>>
  BY <1>1 DEF CountInv, Counted, NoneBehind, Rows
<1>2. CASE CountAnswer /\ answersBefore' = [s \in 0 .. MaxClock + 1 |->
                            answersBefore[s] + IF clock < s THEN 1 ELSE 0]
  <2> DEFINE rows == OpenedAt(clock)
             row == [second |-> clock, calls |-> throughput]
             after == [s \in Seconds |-> answersBefore[s] + IF clock < s THEN 1 ELSE 0]
  <2>1. Ordered(rows, clock) /\ rows # <<>>
    BY OpenedIsOrdered
  <2>2. clock \in 0 .. MaxClock /\ throughput \in Nat /\ answersBefore \in [Seconds -> Nat]
    BY DEF RecordInv, ThroughputTypeOK, CountInv
  <2>3. Counted(rows, throughput, answersBefore) /\ NoneBehind(rows, throughput, answersBefore)
    BY OpenedIsCounted
  <2>4. answersBefore' = after
    BY <1>2 DEF Seconds
  <2>5. /\ second_throughput' = IF clock # rows[Len(rows)].second THEN Append(rows, row)
                                                                  ELSE rows
        /\ throughput' = IF clock # rows[Len(rows)].second THEN 1 ELSE throughput + 1
    BY <1>2 DEF CountAnswer, record_time, LastSecond
  <2> HIDE DEF rows
  <2>6. /\ after \in [Seconds -> Nat]
        /\ rows[Len(rows)].second = clock =>
             Counted(rows, throughput + 1, after) /\ NoneBehind(rows, throughput + 1, after)
        /\ rows[Len(rows)].second # clock =>
             Counted(Append(rows, row), 1, after) /\ NoneBehind(Append(rows, row), 1, after)
    BY <2>1, <2>2, <2>3, OneMoreAnswer
  <2> HIDE DEF row, after
  <2>7. Counted(second_throughput', throughput', after)
    BY <2>5, <2>6
  <2>8. NoneBehind(second_throughput', throughput', after)
    BY <2>5, <2>6
  <2>9. QED
    BY <2>4, <2>6, <2>7, <2>8 DEF CountInv, Rows
<1>3. QED
  BY <1>1, <1>2 DEF HistoryNext, Tick, RecordAtMaxRequests, record_requests, historyVars,
     throughputVars, recordVars

\* The counts are right in every state of the record.
LEMMA CountIsKept == HistorySpec => [](RecordInv /\ CountInv)
<1>1. HistoryInit => RecordInv /\ CountInv
  BY RecordInit, CountInit
<1>2. RecordInv /\ CountInv /\ [HistoryNext]_historyVars => (RecordInv /\ CountInv)'
  BY RecordNext, CountNext
<1>3. QED
  BY <1>1, <1>2, PTL DEF HistorySpec

\* A row counts the answers given from the second of the row before it up to its own,
\* the counter those since the last row: none is lost or counted twice, whenever the
\* answers come (gateway.cpp:277-285).
THEOREM RowsCountAnswers == HistorySpec => []RowsCountPrecedingAnswers
<1>1. RecordInv /\ CountInv => RowsCountPrecedingAnswers
  <2> SUFFICES ASSUME RecordInv, CountInv, Rows # <<>> PROVE RowsCountPrecedingAnswers
    BY DEF RowsCountPrecedingAnswers, Rows
  <2>1. /\ Rows[1].calls = 0
        /\ \A i \in 2 .. Len(Rows) :
             Rows[i].calls = answersBefore[Rows[i].second] - answersBefore[Rows[i - 1].second]
        /\ throughput = answersBefore[MaxClock + 1] - answersBefore[Rows[Len(Rows)].second]
    BY DEF CountInv, Counted
  <2>2. ASSUME NEW i \in 2 .. Len(Rows)
        PROVE  Answers(Second(i - 1), Second(i) - 1) =
                 answersBefore[Rows[i].second] - answersBefore[Rows[i - 1].second]
    <3>1. Rows \in Seq(Row) /\ i \in 1 .. Len(Rows)
      BY DEF RecordInv, ThroughputTypeOK, Rows
    <3>2. Rows[i] \in Row
      BY <3>1
    <3>3. (Rows[i].second - 1) + 1 = Rows[i].second
      BY <3>2 DEF Row
    <3>4. QED
      BY <3>3 DEF Answers, Second, Rows
  <2>3. QED
    BY <2>1, <2>2 DEF RowsCountPrecedingAnswers, Answers, LastSecond, Rows
<1>2. QED
  BY <1>1, CountIsKept, PTL

\* A silence writes the file without the row of the last second before it: that row is
\* added in the same call, behind the write (gateway.cpp:263-285).
THEOREM TimeoutMissesLastSecond == HistorySpec => TimeoutFileMissesLastSecond
<1>1. RecordInv /\ CountInv /\ [HistoryNext]_historyVars => [Silence]_historyVars
  <2> SUFFICES ASSUME RecordInv, HistoryNext, csv' # csv, answersBefore' # answersBefore
               PROVE  /\ Rows # <<>>
                      /\ clock > LastSecond(Rows) + TIMEOUT
                      /\ Len(csv') < Len(second_throughput')
    BY DEF Silence, Rows
  <2> DEFINE rows == OpenedAt(clock)
             row == [second |-> clock, calls |-> throughput]
  <2>1. CountAnswer
    BY DEF HistoryNext
  <2>2. /\ csv' = rows /\ LastSecond(rows) + TIMEOUT < clock
        /\ second_throughput' = IF clock # LastSecond(rows) THEN Append(rows, row) ELSE rows
    BY <2>1 DEF CountAnswer, record_time, check_timeout, record_requests
  <2>3. clock \in Nat /\ TIMEOUT \in Nat /\ Ordered(rows, clock) /\ rows # <<>>
    BY OpenedIsOrdered, ThroughputAssumption DEF RecordInv, ThroughputTypeOK
  <2>4. rows \in Seq(Row) /\ LastSecond(rows) \in Nat
    <3>1. rows \in Seq(Row) /\ Len(rows) \in 1 .. Len(rows)
      BY <2>3 DEF Ordered
    <3>2. rows[Len(rows)] \in Row
      BY <3>1
    <3>3. QED
      BY <3>1, <3>2 DEF LastSecond, Row
  <2>5. Rows # <<>>
    <3> SUFFICES ASSUME Rows = <<>> PROVE FALSE
      OBVIOUS
    <3>1. rows = <<[second |-> clock, calls |-> 0]>>
      BY DEF OpenedAt, Rows
    <3>2. LastSecond(rows) = clock
      BY <3>1 DEF LastSecond
    <3>3. QED
      BY <2>2, <2>3, <3>2
  <2>6. rows = Rows
    BY <2>5 DEF OpenedAt, Rows
  <2>7. clock # LastSecond(rows)
    BY <2>2, <2>3, <2>4
  <2>8. Len(Append(rows, row)) = Len(rows) + 1 /\ Len(rows) \in Nat
    BY <2>4
  <2>9. QED
    BY <2>2, <2>3, <2>4, <2>5, <2>6, <2>7, <2>8
<1>2. QED
  BY <1>1, CountIsKept, PTL DEF HistorySpec, TimeoutFileMissesLastSecond
=============================================================================
