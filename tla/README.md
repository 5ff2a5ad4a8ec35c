# Astraea gateway: a TLA+ verification project

A gateway takes the requests of clients, passes each to the database and to the
Astraea service, and answers the client only when Astraea, after generating a
value of a monotonic counter (mocked here by a wait), *releases* the requests
it has seen. The program consists of small C++ services that talk
HTTP (Silicon on libmicrohttpd, libcurl). Almost everything that can go wrong
in it is a matter of order: who pushes, copies and pops a queue that no lock
guards, who releases what was queued when, what happens to a call that is
lost. That is what the first half of these modules models. The second half
models cJSON.c, the vendored library its calls are written with, where it is
pointers, byte counts and failing allocations that can go wrong, and the
request helper above it.

Lines below are those of the files under `src/` at the commit modelled.

## 1. Inventory

| Component | Source | State | Operations | Talks to |
|---|---|---|---|---|
| gateway | `gateway/gateway.cpp` | `myQueue` (std::queue), `n_requests`, `not_done`, `release`; a mutex `m` that is never locked | `POST /read_request_from_client`, `POST /write_request_from_client`, `POST /release`, `flushToTarget` in a thread of its own | database (waits), Astraea (a read waits, a write does not), client (`/response`, does not wait) |
| throughput record | `gateway/gateway.cpp` 31-32, 54-76, 263-286 | `throughput`, `second_throughput`, the file `throughput.csv` | `record_time` per answered request, `check_timeout`, `record_requests` | called by release and read handlers |
| astraea | `gateway/astraea.cpp` | `ack_process_is_running`, mutex `m` | `POST /write` | logger (`/log`) and gateway (`/release`), both from detached threads |
| logger | `gateway/logger.cpp` | none | `POST /log` prints | - |
| database | `gateway/database.cpp`; in its place a MySQL server | none here | two GETs of a mock nobody calls now; the queries of `flushToTarget` | - |
| measuring client | `client/client.cpp` | `receive_times`, `last_second`, the file `received.csv`; a mutex that is never locked | `POST /response`, three drivers that send requests | gateway |
| http request helper | `*/http_request_helper.h` | none | parameters into a URL (`escapeParams`) or a JSON body, an answer taken apart, waiting and detached calls | used by all services; cJSON, libcurl |
| cJSON | `*/cJSON.c` (vendored, twice the same) | the heap of `cJSON` structures and their strings; a print buffer; a parse position; the allocator hooks | creating, adding, referencing, inserting, replacing, detaching, deleting, copying, comparing; printing in four ways; parsing; minifying | helper (this program uses object creation, string members and unformatted printing) |
| gateway.py | `gateway/gateway.py` | - | a draft that does not parse (line 40) | - |
| amcs | `amcs/` | - | installs SGX drivers for the counter service | - |
| scripts | `run.sh`, `send_request.sh`, compose and Docker files | files in `latencies/` | the measurement: send, wait 12 s, send one more, pair the two files | gateway, client's file |

`docker-compose.yml` builds the deployed Astraea from `./astraea`, which is not
in the repository; `gateway/astraea.cpp` is the mock of it that is, and the one
that is modelled. (The two also differ in the call: the gateway posts
`{ip_client, query}` as JSON, the mock takes a parameter `form`. Payloads are
not part of the models.)

**How they interact.** A read: the gateway's worker starts a flush thread
(314), posts to Astraea and waits for the answer (319); the flush thread
queries the database and pushes the request (200-201); at the end of the
handler the destructor of the future joins it. A write: the worker posts from
a detached thread (333) and pushes the request itself (335-336). Astraea: a
thread per call tells the logger and, if no ack process is running, becomes the
ack process: it waits for the counter, posts `/release` from a detached thread
and resets the flag. The release handler copies the queue (217), takes from the
copy what is to be answered, pops as many from the live queue (249-256) and
posts each answer to its client (347-367).

**What is hard.**

* Concurrency: a pool of workers (`_nthread=7` at 375 is not the name of the
  framework's option, so the pool is as large as the machine says) and a flush
  thread per read share a `std::queue`, a vector and integers without a lock.
  The copy, the check before each pop and the pops of one release are far apart.
* Ordering: a request is queued, posted, coalesced and released by different
  threads and processes; a release may come before the request it is for.
* Failure: `exit(1)` on any database error; CURLcode ignored; nothing retried,
  nothing persisted.
* Memory: each allocation inside cJSON.c may fail halfway through a call; lists
  are doubly linked and shared by references; a print writes behind a byte count
  made beforehand into a block that moves.
* Time: entries older than 5 s are outdated; two files are written only when a
  silence of 8 (gateway) or 10 seconds (client) ends, and the two comparisons
  differ at the boundary.

`hazards` in `PROJECT.json` lists each of these at its line with the properties
that speak about it.

**What makes each component correct.** Gateway: no read is answered before the
database answered it, nor one of which Astraea is never told; every handler ends;
and as long as no two threads are in the queue at once, no queued request is lost,
answered twice or overtaken. Record: every answer is counted once, in the right row.
Astraea: one ack process, no stale flag, every write returns and is followed by
a release. Client: every response outside of a silence is a row, in order; the
file is written when and only when a silence ends. cJSON: every list is linked,
every block has one owner, a print stays in its block and is the value, a parse
accepts the grammar, frees what it drops and gives back what was printed.
Helper: a URL or a body means its parameters. System: a release answers
what is in the queue when it comes; nobody hangs on a lost call.

## 2. Plan

Written in this order; all but the last two are done.

1. `Astraea` + `AstraeaProofs`: the ack process.
2. `Throughput` + `ThroughputHistory` + `ThroughputProofs`: the record.
3. `Gateway` + `GatewayProperties`: queue and handlers, over `Throughput`;
   `GatewayHistory`: whether two threads have met in the queue.
4. `AstraeaSystem`: gateway, an `INSTANCE` of `Astraea`, and the network.
5. `Client`: the response handler.
6. `GatewayProofs`, `ClientProofs`: types and the first safety invariants for
   every value of the constants.
7. `RequestService`: the abstract specification - requests are accepted, queued,
   answered in order or expire - and the gateway shown to implement it until two of
   its threads meet in the queue (`ImplementsService`).
8. cJSON and helper: `CJsonList`, `CJsonHeap`, `CJsonTree`, `CJsonTreeProperties`
   (structures and ownership, copies, comparison);
   `PrintBuffer`, `CJsonPieces`, `CJsonPrint`, `CJsonUtf16`, `CJsonParse`,
   `CJsonMinify` against `CJsonGrammar`, put together in `CJsonText`;
   `HttpTexts` in `HttpRequestHelper` (URLs, answers) and, over `CJsonText`, in
   `HttpRequestBody` (JSON bodies).
9. `CJsonProofs`: print buffer, strings and their escapes, for every size.
10. `GatewayProofs`, second part, and `AstraeaSystemProofs`: the gateway and its
    refinement up to the first race, for a pool of any size; the composed system as
    a gateway and as an Astraea.
11. `HttpRequestHelperProofs`: URLs and answers for every map and every text.
12. `CJsonTreeProofs`: the trees after every history of calls - linked lists,
    one owner of everything, list calls as sequences.
13. Left: a composition of client and gateway, responses of a run as rows.
14. Left to prove: printing and parsing a tree of any depth, and what a deep copy
    means, which need those recursive operators stated as recursive functions first.

One run per question: refinements and operators share the runs of their
component. No module that theorems are about, or that they reach, uses
RECURSIVE.

## 3. Modules

### Astraea

One value of `Write` is one `POST /write` with the thread that serves it; `pc`
says where it is. The mutex is `m`, the holder or `NoWrite`. `logPosts` and
`releasePosts` count the calls that have left. Each statement that touches
shared state is an action: `Lock` (29), `Coalesce` (30-33), `SeeIdle` and
`SetRunning` (30-36), `WaitForCounter` (40), `Respond` (42-44), `ResetRunning`
(46, outside the mutex). A detached `restCallPost` is complete for the thread
when it is started.

### Throughput, ThroughputHistory

`record_time(now)`, `check_timeout(rows, now)` and `record_requests(rows)` are
the three functions, as operators that `Gateway` uses too. `csv` is the content
of the file. `ThroughputHistory` adds how many answers came before each second
(`answersBefore`, a history), which is what the rows are compared with.

### Gateway, GatewayProperties

| Variable | Code |
|---|---|
| `pc`, `req`, `reg` | a worker: its place in a handler, the request it serves, the value it has loaded before a store |
| `push`, `stamp`, `cursor` | a request on its way into the queue: waiting for the database, element being built, tail being moved, in; its timestamp; the slot its thread used |
| `slot`, `head`, `tail` | `myQueue`, a deque: elements are kept in their slots after a pop, as memory keeps them |
| `duplicate`, `countPops`, `requests` | the locals of `getRequestsSentToAstraea` |
| `writePosts`, `responses` | calls that have left |
| `queried` | reads the database has answered |
| `up` | the process runs |

Operations of the unlocked queue are split where another thread can come
between: `push` into building the element (`StoreEntry`) and moving the tail
(`PublishTail`, with the tail seen before or the present one), the check for an
empty queue (`SeeNonEmpty`) from `Pop`, whose new head is computed from either.
So two pushes may build in one slot, which leaves a gap that a later copy fills
with `Junk` or an old element (`Found`), the queue's size may pass below zero
(then a copy cannot be allocated, `CopyFails`), and a lost or doubled pop
happens. Whenever two threads are inside such operations (`DataRace`), the
process may also simply die (`RaceCrashes`): undefined behaviour is a choice
over what the build can do. The walk past the end of the copy (`Overrun`, 231
then 235 with one entry left) may crash, or find junk or an old element.

Every entry is queued with `is_sent_to_astraea = true` (200, 335), so the first
disjunct of the loop condition (226) is never false for a built entry and the
walk ends at the end of the copy.

`read_request` decides only what the answer's text is (348-365), both branches
post and record, so `Answer` and `RecordTime` serve both.

`GatewayProperties` holds the type invariant and two groups: what holds whatever
the threads do to each other, and what a comment of the code says and the code
does not do.

### GatewayHistory

The code declares a mutex, logs "Gone through the lock" and never takes it.
`GatewayHistory` is `Gateway` with a history of what that lock would have kept
apart: `raced` becomes true at the first step that leaves two threads in the
queue. A thread is there from the timestamp of its request to the end of its push
(`Pushing`; a read's flush thread and a write's handler alike), or, as a release,
from the copy to its last answer (`Emptying`). Nothing else is restricted: the pool
has any size, a release may wait at its copy while others work, a read may be
answered while its own post is under way. `NothingLost`, `AnsweredAtMostOnce` and
`ImplementsService` are what the gateway must do until then, so whatever else goes
wrong in it needs two threads in the queue; `gateway_popped` shows that it does go
wrong there.

### RequestService

What the gateway promises without threads and copies: a request is new,
accepted, queued, and answered or expired; the queue is a sequence nobody
overtakes in. The refinement mapping in `GatewayHistory` reads `status` off
`push`, `responses` and the age of a request (`Status`) and `order` off the
slots below the tail. A request may be queued late (`EnqueueLate`): its time
stamp is taken before the push, and by then it may already be outdated.
Expired requests may still be answered, since the code looks at the age of one
entry and stores the next.

### AstraeaSystem

`GatewayHistory` with `A == INSTANCE Astraea`: a request in `writePosts` becomes a
call of Astraea (`WriteDelivered`) or is lost (`LoseWrite`); a posted release
becomes a release handler (`ReleaseDelivered`) or is lost (`LoseRelease`).
`GatewayHandler` adds the one thing the gateway alone cannot say: a read handler
at 319 goes on only when the call is over. Nothing is retried, as in the code.

### Client

`Receive` reads both clocks; `NoteFirst` .. `Stamp` are the statements of
`/response`. Milliseconds and seconds are one unit: the properties compare
times with each other and with `TIMEOUT` only. The write of `received.csv` is
two steps (emptied on open, filled on close). Whether `response_times.csv` is
there is a variable that is chosen at the start (`responseTimesFile`); without
it the print crashes. A row's 13 digits do not fit `INT_BUF` = 12 bytes, so the
process may die at the first row (`RowOverrunsBuffer`) or go on, as the build
has it. With two threads `NoteTime` may lose an element or set the size back,
and `VectorRaceCrashes` may end the run. `arrivals` and `noted` are histories: when
responses came, and which of them did not end a silence. `overlapped` remembers whether two
responses were ever handled at once: the properties about rows speak of runs
in which none were, whichever thread took them.

### CJsonList, CJsonHeap, CJsonTree, CJsonTreeProperties

A heap is a function from the live structures to records of their fields
(`next`, `prev`, `child`, type, value, name and the two flags for what is
borrowed). `CJsonList` is the pointer work alone. In `CJsonHeap` a function
works on a *memory*: heap, number of string blocks, fuel (allocations that still
succeed in this call) and the pointer it returns. In `CJsonTree` every public
function that creates, links, copies or frees is one action, with the fuel chosen
anew, so that it fails at each allocation it has. Literals are numbers and raw
items strings here: they differ in nothing the properties see. Names are numbers,
`2i` and `2i + 1` being one name in two cases.

The loops and recursions of the code are recursive functions over numbers here,
which the provers can take: a list is walked by index (`From`), what a delete
reaches is a closure in as many rounds as there are structures (`Closure`,
`Owned`), and the recursion of `cJSON_Duplicate` is a stack of copies under way:
`Descended` is the call for the next child, which on failure unwinds all of them,
`Ascended` its return and the links of lines 2601-2615. Allocations happen in the
code's order. `CJsonTreeProperties` has what stays recursive: `Compare`, and the
`Meaning` of an item that copies and comparisons are held against.

The caller of the model keeps the library's rules (`RulesKept`): it adds only
what it owns, to containers that own their children, puts nothing below itself
and deletes nothing shown by a reference it can still reach. `roots` is what the caller must still
delete, `lost` what nobody can: references whose name could not be copied.
`ListsAreSequences`, `DuplicateIsFaithful` and `CompareIsEquality` look, in
every reachable state, at the calls that could be made next and compare their
outcome with that of a sequence, or of what the items mean.

### CJsonBytes, PrintBuffer, CJsonPieces, CJsonPrint, CJsonUtf16, CJsonParse, CJsonMinify

Texts are sequences of bytes, values are records (`CJsonBytes`). `PrintBuffer`
is `ensure`, `update_offset` and the writes between them: a block with its
length, offset and depth, moved by realloc or by hand, `overflow` when a byte
outside is touched, `live` for blocks not freed. `CJsonPieces` is a string, whose
length is counted (`OutputLength`) before its bytes are written (`Output`), and
a text of fixed length. `CJsonPrint` ensures, writes and advances piece by piece
as the code does, and has the four entries (`print`, used by formatted and
unformatted print, `PrintBuffered`, `PrintPreallocated`). `CJsonParse` is the recursive descent on an offset, with
its depth, the estimate of a string's block, and the fuel. `CJsonUtf16` is the
decoding of `\u` escapes, with what they mean (`EscapeOf` and `CharacterOf`,
which the code has no part in) behind it, `CJsonMinify` the pass in place.

### CJsonGrammar, CJsonText

`CJsonGrammar` says which bytes are a text and how a value is rendered without
buffers and offsets. `CJsonText` is a text on its way: printed by one of the
calls into one of many sizes, or arriving with an escape or a comment, then
changed in a byte, lost or added; parsing and minifying are evaluated in every
state.

### HttpTexts, HttpRequestHelper, HttpRequestBody

`HttpTexts` has what the helper makes of texts: a `std::map` walked in the order
of its names (`Before`, `InOrder`), `escapeParams` as its two loops, the second
of which walks the map of encoded names in an order of its own,
`getResponseFromJson` with the length that wraps; and how a URL is read by its
receiver (`Ahead`, `Past`, `Parts`, `Unescape`), which the code has no part in.
`HttpRequestHelper` is a call of the helper: a URL made of parameters, or the
answer of a GET, whole or broken off. `HttpRequestBody` puts it together with
`CJsonText`: a body printed by cJSON. `failed` is a history of the parameters one of
whose own allocations failed, chosen anew for each call; `BodyMeansParams` compares
what is posted with the caller's map less these, so a loop that ends at the first
failure, or drops a parameter without one, is noticed.

`MC*` modules instantiate these for TLC and add symmetry.

### Mutated forms

Definitions headed "Mutated form" are no part of any specification: each is a
plausible mistake in the definition below it, kept to show that the property it
is paired with (`mutants` in `PROJECT.json`) would notice it.

## 4. Runs

Passing:

| Run | Instance | Shows |
|---|---|---|
| `astraea` | 4 writes, fair | `OneAckProcess`, `FlagHasAckProcess`, `ReturnIsCovered`, `EveryWriteReturns` |
| `throughput` | 7 s, silence 2 s, 6 answers | the rows count every answer once (`RowsCountPrecedingAnswers`), in order; the file is an old state of memory; a timeout's file misses the last second |
| `gateway_calm` | 2 workers, 1 read, 2 writes, ages 0..4, outdated after 1, errors of the database; up to the step in which two threads meet in the queue | `ImplementsService` (answers leave in the order of the queue), `NothingLost`, `AnsweredAtMostOnce` |
| `gateway_race` | 2 workers, 1 read, 1 write, outdated after 0 s of 1, fair | `AnsweredOnlyAfterQuery` and `AnsweredReadsArePosted` under every race, and `EveryHandlerReturns` |
| `system` | 1 worker, 2 reads, 1 write, losses, database errors, fair | `NoHandlerHangs`: the worker that waits for Astraea is the only one that could take Astraea's release, and the two do not wait for each other, whatever is lost |
| `system_pool` | 2 workers, 1 read, 1 write, losses, outdated after 1 s of 2, fair; up to a meeting in the queue | `AnsweredReadsAreLogged`, though another's release may answer a read between its push and its post; `ReleaseAnswersQueue`, with the entry that becomes outdated before its release is through as the stated exception |
| `client` | 2 threads, 4 responses in 7 s, silence 2 s, with and without `response_times.csv` | `NotedBeforeCheck` through every race; which responses are rows, and when the file is written and what it holds, while none overlap |
| `cjson_tree` | 6 structures, 4 calls, 0, 1, 2 or 8 allocations per call | linked lists of live structures (`HeapIsSound`), one owner of everything allocated (`EverythingIsOwned`), list calls as sequences, faithful copies, comparison as equality |
| `cjson_text` | 22 values, `INT_MAX` 18, 10 buffer sizes, 6 amounts of memory, one changed byte, 10 maps of parameters as bodies; 1 URL, maps of 0 to 2 parameters from 7 names and 4 values, 3 responses broken off at every byte | prints stay in their block and own one (`PrintIsSafe`), and are the value; parsing accepts the grammar, stays inside text and blocks and frees on failure (`ParseIsSafe`); escapes, minifying and bodies mean what they should; a URL is taken apart into the parameters of the call (`UrlMeansParams`), an answer gives its response or a beginning of it (`ResponseIsFound`) |

Violated, each a statement of the repository that the code does not keep
(`findings`):

| Run | Statement | What happens |
|---|---|---|
| `gateway_popped` | "pop outdated and responded requests from actual list", :245 | two releases copy the same queue; the second pops what nobody took |
| `system_answered` | "The client also receives the responses", gateway/README.md:15 | a write is coalesced, its request queued after the release's copy; no release follows |
| `client_rows` | `sed -i '$ d'`, run.sh:48 | the surplus row is the first one, not the last |

More remarks of the source disagree with it and are plain to see, so no
run is spent on them (cJSON.h:152 asks for 5 bytes more than a text needs; one
is enough, `PreallocatedNeedsOneByte`): "store valid requests in list" (gateway.cpp:234)
stands above the line that stores what stands behind an outdated entry, whatever its
own age (`AnswerLate` of `RequestService`); "Gone through the lock" (gateway.cpp:341) is logged where
nothing is ever locked; "send request to db" (356) stands above a call that is
commented out, so a write is answered and never put to the database; and "get
all requests from queue that were sent to astraea" (210) is not what a second
worker finds, since a flush thread may queue a read before line 319 posts it.

**Bounds and why they are enough.** All are constants. Four writes in Astraea:
one ack process, one that coalesces, one that takes over while a third comes
between test and reset. In the gateway three entries give every
pattern of outdated and valid neighbours the walk distinguishes (it looks at
one entry and takes the next, and an outdated one may be the last); two workers are
the least for two releases, or for a release while a read is being posted,
three actors with the flush thread for a push between check and pop.
`CONSTRAINT Calm` ends a behaviour of `gateway_calm` and `system_pool` at the first
state with `raced`. That takes nothing from what they check, for every property there
holds by its own words from that state on; only `AnsweredReadsAreLogged` goes
further, and there `SystemLogsAnsweredReads` is the proof (section 5).
`MaxClock` exceeds `MaxAge` so that entries become outdated in the queue and in
the copy while others are not. `MaxAge`, `TIMEOUT` and `MAX_REQ` stand for 5, 8 (10 in the
client) and 90000 seconds or requests: only comparisons with them matter, and
each run passes its bounds, except `system`, which is not about ages, and
`system_answered`, whose counterexample needs none; `TIMEOUT` is not reached in the
three system runs, since the record has a run of its own. `MaxAnswers` and
`MaxResponses` bound histories. In `Overrun` the walk past the end takes one
element and stops. A release arrives at most once per posted write, which
`OneAckProcess` and `TypeOK` of `Astraea` justify. The client needs a first
response, one after it, one that ends a silence and one behind that; two
threads are the pool of its source. The helper's names hold every separator, one
that begins with another, and bytes that change their place in the order when
encoded; two parameters are the least with an ampersand between.

`cjson_tree`: six structures are an array of three and two items outside
(the middle, first, last and only place of a list), or a container of two and its
copy. Four calls build such trees and take one step more: two create the array of
two and an item, the third links them, the fourth unlinks, copies or deletes in
the middle. The two numbers can change places (`Symmetry`).
0 allocations fail at once, 1 between structure and name, 2 behind the name, 8
never. `cjson_text`: `INT_MAX` 18 puts each value's text on either side of the
three regimes of `ensure` (doubling, the jump to `INT_MAX`, failure), as the
buffer sizes do for what a caller passes; `NumberLength` 3 and the nesting limit
2 stand for 63 and 1000. The alphabet of changed bytes has every byte the
parser distinguishes and the encodings' codes both sides of every limit.

Deadlock is not checked: every run ends when its finitely many requests are
done, when the clock has reached its bound, or when the process has died.

**Fairness.** Weak fairness of every thread's own steps, which the operating
system's scheduler gives. In `Astraea` weak fairness is enough for the mutex
because a call takes it once and the calls are finitely many. In `Gateway` the
step after the post (`PostReturns`) is fair because curl comes back with an
answer or an error; `AstraeaSystem` replaces that assumption by Astraea's own
progress. There, delivery-or-loss of a write is fair, and a waiting release is
taken by an idle worker unless it is lost first; that it is lost is never fair,
nor is the arrival of new requests or the clock. The client, the record and
cJSON have no liveness property: nothing in them waits.

## 5. Proofs

Checked by TLAPS for every value of the constants satisfying the named `ASSUME`s
(the constants' types, `NoWrite \notin Write` and the like, nothing else).

* `AstraeaProofs`: `TypeCorrect`, `AckProcessIsUnique`, `FlagIsNeverStale`,
  `ReturnsAreCovered`. That at most one ack process exists is not inductive: the
  flag is reset without the mutex. The strengthening says that the mutex is held
  exactly by the thread in the critical section, that a thread about to set the
  flag found it clear *and that it still is clear*, since only an ack process
  changes it and there is none, and that the flag is set exactly while there is
  an ack process. The type invariant needs, besides, that a call that has not
  responded has no release posted. `ReturnsAreCovered` is an action property
  from that invariant.
* `GatewayProofs`: `GatewayTypeCorrect`, `AnswersFollowQueries`,
  `AnsweredReadsWerePosted`, for a pool of any size and every race. The types need
  that a worker is in a client's handler
  exactly when it holds a request, and that a worker still in the pop loop has
  pops left to make. `AnsweredOnlyAfterQuery` is strengthened to: whatever is in
  a slot, a copy, or a list of taken requests is junk or a request that was
  queried if it is a read - memory, whatever the races do to it, holds only what
  a flush thread put there after the database's answer. That an answered read is
  posted, or about to be, follows from where the handlers are (`HandlerInv`): each
  request has one handler (`ServedOnce`), a handler past the count has a flush thread
  started and one at the count has not (`HandlersFollowPush`), and a request that has
  no handler at the count or the post is posted (`PostedOrServed`). What is answered
  was queried, so its handler is past the count.
* `GatewayProofs`, second part, for `GatewayHistorySpec`, again for a pool of any size:
  `CalmLosesNothing`, `CalmAnswersOnce` and `CalmImplementsService`, the refinement of
  `RequestService` step by step. None of the properties is inductive: what they
  say of an answered request depends on where a release was when it took it, and
  until two threads meet in the queue only one thread has a part of it in hand.
  `HistoryInv` (theorem `CalmGateway`) is the invariant: the types and handlers as
  above, always, and `~raced => Locked /\ CalmInv`. `Locked` says that at most one
  thread is in the queue now. `CalmInv` says: the slots below the tail hold the pushed
  requests, each once, in the order of their time stamps; the copy is the queue
  behind `Bound`, the first slot the walk has not taken, which stays where it is
  while the pops move the head to it; what is in hands lies before `Bound`, in
  order, and is not yet answered; what lies before `Bound` is answered, in hands
  or outdated; what lies behind it is unanswered or outdated. The exception for
  outdated entries is the walk past the end of the copy, which may take one a
  second time. A step from a calm state keeps `CalmInv` even if it is the one that
  brings a second thread in; only the next one could break it. The
  refinement maps an answer to `AnswerNext` of the first unanswered request of the
  queue (`CalmInv` shows that all before it are answered or outdated), a push
  to `Enqueue` or `EnqueueLate`, a tick of the clock to the expiry of those that
  became outdated in it.
* `AstraeaSystemProofs`: `SystemRunsAstraea` and `SystemRunsGateway` take the
  composition apart: every step of the system is a step of Astraea or leaves it
  alone, and a step of the gateway and its history or leaves that alone, whatever the
  network loses. So `SystemHasOneAckProcess` and `SystemImplementsService` follow from the
  theorems of the parts. For the gateway this needs that a release is never
  delivered more often than a write was posted, which Astraea's type invariant
  gives. `SystemLogsAnsweredReads` is about both, and about every race: a read that was
  accepted is in the logger's hands, or its post is lost, or its own handler has
  not heard of its post yet (`ReadsReachLogger`); one that is answered has a handler
  past the count, so it is in that very call.
* `ClientProofs`: `VectorIsStarted`, for any number of threads: types and
  `NotedBeforeCheck`. The vector never becomes empty again: in every way a
  push that raced can end, there is an element in it. `FileStaysPrefix`,
  `RowsAreArrivals` and `SilenceWritesFile` are about the time until two responses
  overlap. `SerialInv` of this module says for each label of the handler what is
  still to be done: from `first` to `check` the rows lack the response in hand,
  unless it ended a silence, and comparing `last_second` finds out which
  (`Pending`); from `close` on they hold what is noted. That the thread has seen
  the vector's present size excludes a lost push.
* `ThroughputProofs`: `RecordTypeCorrect`, `RowsStayOrdered`, `FileStaysPrefix`,
  `RowsCountAnswers`, `TimeoutMissesLastSecond`, for every `TIMEOUT`, clock and
  number of answers. The rows are ordered because
  the last one is never later than the clock and a row is added only for a later
  second than the last one's; the file is a prefix because it is written from the
  rows and rows are only ever changed at the end, which is stated as one
  invariant on rows and file together. The counts need that no answer came after
  the second of the last row, and none at all while there is no row
  (`NoneBehind`): then an answer in a second without a row finds all earlier
  ones counted, and opens a row for itself.
* `CJsonProofs`, for every `INT_MAX`, block and string: the print of
  a string and the reading of its escapes. `EnsureMakesRoom`, `WhatIsEnsuredFits`:
  what `ensure` grants lies inside the block, with a byte to spare, and what was
  printed is still there, whichever of the regimes the new size came from and
  whether realloc or a copy moved it; what is then written within the demand
  stands there and touches no byte outside. They assume that the offset lies
  inside the block (`InBlock`), which is what excludes the copy out of an empty
  block (section 6). The demand of a string is counted by one loop and filled by
  another: `CountedIsWritten` shows that they agree, so `StringIsPrinted` finds
  the closing quote where the count puts it, and the NUL behind it is the first
  one, which is what `update_offset` looks for. `NextPieceFollows` and
  `StepStaysInBlock` therefore give `InBlock` back to the next piece. Both loops
  are recursive functions; the induction over the length of the string is on
  the least number at which they would differ (`LeastNumber`, `CountingUp`).
  `EscapeMeansCharacter` is the way back: for every character of Unicode the text
  of its escape, whatever follows it, is consumed whole and becomes its UTF-8,
  which is decoded to that character again; digit by digit, the two halves of
  a pair and the one to four bytes are divisions with remainder by powers of 2
  whose parts come together. `EscapesShrink` says of every text, right or
  wrong, that an escape becomes at most half as many bytes as it was written in,
  which is why the block that `parse_string` allocates beforehand is large enough.
* `CJsonTreeProofs`, for every finite set of structures, every set of names and
  values, every number of calls and every number of allocations that succeed in
  each. It starts with `DetachKeepsLinks`, `AppendKeepsLinks`, `InsertKeepsLinks`,
  `ReplaceKeepsLinks`: the four pointer manipulations leave all lists of the heap
  linked (`Linked`), put the new item between the right neighbours and leave the
  one taken out free. The argument follows the assignments one by one: a lemma each
  for what an assignment through a pointer that may be NULL does to every
  structure, then the sum of them field by field. What they assume of the item,
  that it stands in a list of that container or in none, the invariant gives.

  `TreeInvariant` is that invariant. `ListsStayLinked` is not inductive: whether a
  call that frees a tree leaves the others whole depends on who owns what.
  `Tree(h, D, R)` says that the lists of heap `h` are linked and that what stands
  in none of them is exactly `R`; `Sound` adds that `strings` counts the blocks the
  structures own. The invariant is `Sound` with the caller's items and the lost
  references for `R`, the two being disjoint, and `RulesKept`. For every operator of
  `CJsonHeap` there is a lemma that it turns `Sound` of one `R` into `Sound` of the
  next: it gives one item more (`Gave`), takes one (`Took`), or fails and leaves
  `R` alone. Deleting needs that what is reached by `Owned` is closed, so that no
  list that stays leads into what goes (`ClosureIsLeast`, `DeleteKeepsTree`).
  The deep copy has an invariant of its own (`Duplicating`): the heap is sound if
  the copies under way count as the caller's, each has its children so far in a
  list that ends where its frame says, and what is still to be copied is in the
  original heap, which is untouched; a failure deletes all open copies and gives
  `R` back.

  `EverythingStaysOwned` follows with the rules: that nobody owns a structure
  twice is in the links (`OneContainer`), but that somebody does needs that lists
  end and begin somewhere. A chain of `prev` pointers that came to no first item would
  come back to where it was, since the structures are finitely many, and an item
  would follow itself, which `RulesKept` excludes (`HasOwner`). Counting also shows
  that a walk from a first item ends with NULL within as many steps as there are
  structures (`WalkEnds`, `FromIsList`), so that
  `ListsStaySequences` can compare it with `Append`, `InsertAt`, `ReplaceAt` and
  `RemoveAt` index by index: the list with the item in its place is shown to be a
  list from the new first item on, and there is only one (`ListIsUnique`).
  `RulesKept` is a guard of every call, the rules the library asks its caller to
  keep; without them an item added below itself is owned by itself, which the
  library does not prevent.
* `HttpRequestHelperProofs`: `UrlIsUnderstood` and `AnswerIsUnderstood`, for every
  URL without a question mark, every finite map of byte strings and every
  response (`HelperAssumption`). What a call leaves behind is the inductive
  invariant (`CallIsMade`); the rest is about the operators. The order of byte
  strings is total, so the ranks of a map's names are the numbers below its size,
  each once, and walking them visits every parameter once (`MapIsWalkedInOrder`).
  An encoded text has no separator and is decoded to what it was
  (`EncodedIsDecoded`): byte by byte, the decoder is never left with a percent
  sign whose digits are still to come (`Clean`). Hence two names are never encoded to
  one, and the second map holds as many parameters as the first
  (`NoParameterIsLost`). The loop of `escapeParams` keeps `IsQuery`: what stands
  behind the question mark is the parts so far with an ampersand between each
  two (`UrlHasQuery`), so cutting it there gives back the parts
  (`PartsAreParameters`) and cutting each at its equals sign the parameters. Of a
  broken answer the cases are where the length wraps: none of them reaches in
  front of the response.

Every safety property the runs check of gateway, record, Astraea, client and
system is a theorem, and so are those of the helper's URLs and answers and of
cJSON's lists and their owners. Only model-checked are `DuplicateIsFaithful` and
`CompareIsEquality` (that a copy is sound is proved; that it *means* the same, and
what a comparison computes, speaks of `Meaning` and `Compare`), the printing,
parsing and minifying of whole values and the helper's bodies, which it prints
(what follows a value is RECURSIVE, which the prover's arithmetic backend does not take, and what it computes for every
value is an induction over data), and the liveness properties `EveryWriteReturns`,
`EveryHandlerReturns`, `ReleaseAnswersQueue` and `NoHandlerHangs` (liveness under
fairness and ENABLED are out of the prover's reach). Induction over numbers is
used in set form only, through the least element of a set of naturals
(`LeastElement` in `GatewayProofs`, `LeastNumber` in `CJsonProofs`). The violated statements are shown by
counterexamples.

## 6. Not modelled

* Of cJSON.c: `cJSON_SetNumberHelper`, the `Is...` and `Get...` calls that look
  at one field, the wrappers of malloc and free, `cJSON_Version`; exponents and
  more than one fractional digit in printed numbers; NULL strings, which print
  as `""`; trees that break the caller's rules (an item in two lists, a cycle, a
  reference to what is freed). The client's copy of the file is the same.
* A guess of 0 bytes for `cJSON_PrintBuffered` with an allocator of the caller's
  own: `ensure` then copies one byte of an empty block (448). Nobody in the
  repository makes that call. Minify counts `/*/` as a whole comment and runs
  past the NUL in texts that end inside a comment or a string; its property
  speaks of texts that parse and of whole comments.
* Of the helper: the log's time stamp; `createForm`, which nobody calls;
  `restCallGet`'s network. The client's copy of `restCallPostJsonAsync` posts as
  many bytes as there are parameters, and nobody calls it. `root`, `json` and
  `headers` are never freed, and a print that fails is followed by
  `strlen(NULL)` (151): neither the memory nor the end of the process is in the
  models.
* gateway.py, amcs, Docker files: no program, or none in the repository.
* The client's drivers: loops over `restCallPost`. (They give `client:12346` as
  the client's address, where nothing listens, and line 88 has three slashes in
  its URL, so only requests from `send_request.sh` are answered as intended.)
* Failure to create a thread, and what the framework does with an exception
  then. `std::async` (314) is called without a policy and is modelled as the thread
  libstdc++ starts for it. An implementation that defers the task instead would never
  run it, since nobody reads the future: its reads would be posted and released, but
  neither queried nor queued. The model has no such behaviour.
* An answer that is lost after the call was received. curl is given a connect timeout
  only (http_request_helper.h:156), so a read handler may then wait at 319 for ever.
  `LoseWrite` is a call that never arrives; `NoHandlerHangs` assumes that Astraea's
  answer, once given, reaches the gateway.
* The byte-order mark in front of a text: `SkipBom` is in the parser, its three bytes
  are not in the alphabet of `cjson_text`.
* Within single actions: `PostReturns` takes the return of the post, the look at
  `not_done`, its reset and the writing of the file as one step, so two handlers never
  both pass the look (they could only crash, which `DataRace` lets them); `Overrun`
  takes one element behind the end of the copy and ends, where the code may go on over
  more; a late push of `NoteFirst` in the client happens only while the vector is
  short. No property depends on what is left out.
* Lost increments of `n_requests` and `release` other than by the loads and
  stores of `AcceptRead` and `CountRead`; the file under two simultaneous
  writers.
* A restart after `exit(1)`: the gateway keeps nothing, the next process is a
  new run.
