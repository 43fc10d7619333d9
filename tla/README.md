# A TLA+ verification project for vhttp-server

This directory holds TLA+ models of the server in `../src`, the TLC
configurations that check them, and TLAPS proofs of their safety properties.
`PROJECT.json` lists the components, the runs, the mutants, which lines of the
source each definition stands for, the findings, the hazards and the theorems.

## The system

The program is an HTTP file server of one process. One thread runs the epoll
loop of `main.c` and, from it, the HTTP worker; a pool of four threads is
created at the start and, in this commit, is given nothing to do (its only
caller is compiled out, `main.c:289-302`). Everything else is a library the two
use.

| component | state it keeps | operations | what makes it correct |
|---|---|---|---|
| thread pool (`vthread_pool.c`) | ring buffer of tasks, list of threads and their `State`, three counters, `Terminate`; one mutex, three condition variables | `Init`, `AddTask`, `Wait`, `Destroy`; `VThread_Main` in each worker | tasks are a bounded FIFO, each run once; no lost wakeup; counters exact; no use of a moved thread record; only infinite tasks are cancelled; `Wait` returns when the work is done; nobody waits for ever |
| event loop and connection table (`main.c`, `vtcp_socket.h`, `varray.h`) | `Connections` with `Id`, `FileDescriptor`, `Readable`, `Closed`; the events of the last `epoll_wait` | one turn: wait, handle each event, accept or reuse or refuse, `ProcessEvents` | slots, descriptors and epoll registrations agree; an event reaches the connection it is about; no edge is lost; requests are read, hang-ups closed, the backlog served |
| epoll wrapper (`vepoll.c`) | the epoll descriptor and the event array | create, add, remove | (part of the above) |
| HTTP worker (`EpollHttpWorker`) | locals of one call; `Conn->Closed` | peek, find the end of the head, discard, parse, build and send the response, sendfile | every request of a client is answered once, with the answer to that request; input left unread is announced again |
| hash table (`vhash_table.c`) | `Items`, `Count`, `Capacity` | init, insert (with rehash), get, remove, count, free, iterate | it is a map; calls return; `Count` is right |
| request parser (`http_request.c`) | `vhttp_request` | init, parse, destroy | accepts well-formed heads; decodes the path |
| string library (`vstring.c`) | growable byte strings, views | append, insert, remove, concatenate, copy, split, find, trim, read a file | the string holds what the calls made, through every growth; split and find return what they should; a path is terminated |
| growable array (`varray.h`) | header and items | push, insert, remove | no item lost by a reallocation, a fixed array drops what does not fit |
| files, MIME table, sockets, logging | | thin wrappers | |

How they interact: the loop marks a slot `Readable`, `ProcessEvents` calls the
worker with the slot, and the worker sets the slot's `Closed` when it gives the
connection up; the worker calls the parser, which fills a hash table with the
headers and a string with the path. The loop and the worker share nothing with
the pool's threads.

The hard parts are the pool's interleavings (signals outside the mutex,
unlocked reads and writes of `State`, a list that `realloc` moves, a task that
is for a moment in nobody's count), and in the loop the asynchronous peers:
edge-triggered notifications, slots and descriptors that are reused while
events fetched earlier still name them, heads that arrive in pieces, hang-ups
and resets between any two system calls, and a descriptor limit.

## The modules

| module | what it is |
|---|---|
| `TaskPool` | abstract: a bounded FIFO of tasks, each taken by one thread and ended at most once |
| `ThreadPool` | `vthread_pool.c`; implements `TaskPool` |
| `ThreadPoolProofs` | its safety properties as theorems, and that it implements `TaskPool` |
| `EventLoop` | `main.c` without the inside of the worker, `vepoll.c`, the table |
| `EventLoopProofs` | its safety properties as theorems |
| `HttpWorker` | `EpollHttpWorker` on one connection, system call by system call |
| `HttpWorkerProofs` | its safety properties as theorems |
| `WorkerInLoop` | `HttpWorker` seen by `EventLoop`: what its state is in the loop's table, and the property that its steps are the loop's |
| `WorkerInLoopProofs` | that they are |
| `VString` | the operations of `vstring.c` as operators, without state |
| `VStringCalls` | a program that calls them on one string, and what it believes the string holds |
| `HttpRequest` | `http_request.c`, on `VString`: from peeked bytes to `Request`, `FilePath` and the MIME lookup |
| `HttpRequestProofs` | that heads are taken out of the socket one by one and whole |
| `VArray` | `varray.h`, and a program that calls it |
| `LibraryProofs` | that string and array hold what the calls made of them, and that the searches find what is there |
| `KeyValueMap` | abstract: what `vhash_table.h` promises |
| `HashTable` | `vhash_table.c`; implements `KeyValueMap` as long as nothing is removed |
| `HashTableProofs` | its types, count, iteration and the refinement as theorems |
| `DataFacts` | lemmas about sets of natural numbers, induction and sequences that the proof modules share |
| `MC...` | instances for TLC |

Each module that models code also holds *variants*, marked "mutant" or "Variant
of", just before the definition they vary: the same operation with a plausible
bug. No specification uses them. They exist so that every property can be
shown to fail when the code is wrong in that way; `PROJECT.json` pairs them.

### ThreadPool

A critical section is one action, named after what it does: `AddTask` is
`VThreadPool_AddTask` up to the unlock or the `pthread_cond_wait` inside
`VTaskList_Enqueue`, `EnqueueWoken` is the re-entry after that wait, and
`AddTaskSignal` the signal that follows the unlock. In a worker, `TakeTask`,
`WaitForTask` and `ThreadExit` are the ways through the loop of lines 118-133,
`MarkState` the unlocked write of `State`, `CountIn` lines 139-149, `RunTask` the
procedure, `CountOut` lines 155-161, `CheckAllDone` lines 164-168.
`VThreadPool_Destroy` is one action for each turn of its unlocked loop. The
variables carry the names of the C fields. `wpc` and `cpc` say where workers and
clients are; `stale` holds the threads whose `vthread*` points into a block that
`realloc` may have freed; `cancelled`, `submitted` and `finished` are history.
Condition variables wake one waiter, and waits may return spuriously. After
`DestroyFree` the pool's memory is gone and no worker takes a step that would touch
it: what the code would do there is undefined (`vthread_pool.c:280` has the TODO).
Tasks are `default`, `infinite` or `null`; the procedure of an infinite one never
returns, as the comment at line 154 assumes.

### EventLoop

The server is one thread, so an `epoll_wait`, the handling of one event, and one
run of the worker are one action each; peers act between any two of them. The
kernel is modelled from the calls the code makes: lowest-numbered free descriptor
first, a socket leaves epoll with its only descriptor, level-triggered listener,
edge-triggered connections, the flags of an event computed when `epoll_wait`
returns it. `Place`, `PlaceFull` and `Refuse` are the three branches of the
acceptance code. A run of the worker is `Serve` (it reads everything), `OpenFile`,
`Respond` and `SendfileEnds`, between which clients act, or `Cleanup`, by when it may
have read the connection's input or not; that it may clean up at any time
over-approximates its bad-request exits. `Killed` is SIGPIPE on a connection that was
reset, or the parser's write behind its array; the phase is then "dead".
`EPOLLOUT` and `Writable` decide nothing in the code and are left out.

Two defects break the agreement of table, descriptors and epoll for good:
`close(Conn->Closed)` (line 321) and the reuse of a slot of a full table under `Id`
0 (line 443). They have runs of their own. The predicate `Healthy` (descriptor
1 is still the standard output, every slot carries its own index) delimits the
regime before either has happened, and the agreement properties are claimed for it;
`EventsInBounds` and `BacklogServed` are claimed for all states.

### HttpWorker

The byte stream is a sequence of pieces, two for the head of a request (so that a
head may be incomplete) and one for its body. `Peek...` are the outcomes of
the `MSG_PEEK`, `Discard` the second `recv` together with the parse, `Build` the
making of the response, `SendResponse`, `SendEagain` and `SendFails` the outcomes of
one `send`. A run starts (`Start`) only on an event that tells of input and of no
hang-up: one that does makes the loop close the connection (`HangUpCloses`). `length`, `size`, `tries` and `url` are
`StringPool->Length`, `RequestSize`, `Tries` and the requests whose paths make up
`Request.Url`: `VHttpRequest_DecodeUrl` writes each path in front of the previous
ones. `ParseOverruns` is the other outcome of `VString_SplitBySubstring` writing
behind its result array (`vstring.c:313`), which happens when exactly two ends of
head are in the buffer. After a reset, `recv` may return what came before it or
fail; `send` fails and may kill the process, since only the error responses are sent
with `MSG_NOSIGNAL`. What is in the socket at one time is assumed to fit in the 4092
bytes of one peek, with four bytes to spare (`HttpRequest` has the full pool); bodies hold no
line ends; heads are well-formed or rejected, those whose parse is undefined are in `HttpRequest` too, and
the write behind `CKey` that every header causes there goes unnoticed here.

`VString_FindSubstring` compares past `Length`, where the heads of this run lie that were
peeked before. When the bytes up to `Length` end in the middle of a head, and a head was
parsed before (`OldBytesFit`), they and the old ones may look like the end of one:
`PeekOldBytes` then finds it behind `Length`, and the variable `torn` records that. From
there on the pieces no longer say what the worker finds: any place may look like an
end of head, and `DiscardTorn` takes the piece at the cut whole or in part, and parses,
rejects, or dies on what it took. What a torn stream is answered with is not kept in
`answers`. So `AnsweredOnce` is claimed up to that point, since the head at the cut is
answered before all of it has come, and the type invariant lets `size` exceed
`length` from there on. A client that waits for each answer, and one whose requests arrive
whole, never get there.

The response is written into `ResponseMalloced`, which all connections share, and its
length is the `strlen` of it. `resp` is the one being sent; `LeftBehind` is the set of
everything that responses before it, of any connections, can have left in the buffer
and in `LastResponseLength`. Responses have one of two lengths, which is what the
clearing with the previous response's length can go wrong about. `SendEagain` drops the rest of a response,
as the code does; the answer is then marked `cut`.

### WorkerInLoop

`EventLoop` has a run of the worker in a few actions, made by hand from the same code.
This module relates the two: `Loop` is `EventLoop` for a table of one connection,
already accepted, with each variable given by the state of `HttpWorker` (a run that has
peeked something counts as unread input until it sees EAGAIN; `files` counts the
descriptors it took for good), and `RunsAsInLoop` says that every step of the worker
and the client is a step of `EventLoop` or changes nothing there. `Start` and
`HangUpCloses` stand for `epoll_wait` and the handling of one event together, so they
are compared with `HandleEvent` in the state after the event was taken (`Turn`). After
the descriptor was closed nothing more is compared: the loop would reuse the slot. So
what the `loop_...` runs show for the loop's own worker holds for the detailed one, as
far as a single connection goes.

### VString, VStringCalls, HttpRequest

A `vstring` is its whole allocation and a length. The bytes behind the length are
kept, because the code looks at them: `VString_FindSubstring` compares past `Length`,
and `FilePath->Data` is used as a C string although nothing ends it but the zeros of
`calloc`; what `realloc` adds is unknown (`Junk`). The operations are operators named
like the functions. `VStringCalls` applies them in any order to one string, beside the
text that should result. `VString_ReadEntireFile` has the number of bytes that `read`
returned as a parameter: fewer than the file has become the `Length`, and -1 makes it
2^64 - 1 (`LengthMod - 1`). After that (`failed`) the program stops, since every further call would
look at bytes that do not exist.

`HttpRequest` models the path from the socket to the file name: `Peek` fills
`StringPool` over what an earlier peek left, as far as its capacity goes, and looks for the
end of a head, with up to three unknown bytes behind the allocation (`Behind`);
`ParseHead` takes the head out of the socket and runs `VHttpRequest_Parse`, and
`BuildPath`, at the end of the input, builds `FilePath` and looks up its extension.
Texts are sequences of tokens. A method, a version, a file name's extension is one
token, since the parser compares or copies it whole; blanks, CR, LF, colon, percent,
plus, dot and hex digits are tokens of their own. So an escape, a trimmed value and an
end of head that is split over two segments are what they are in the code, and a
capacity of 5 tokens stands for `INIT_TEXT_SIZE`. Undefined behaviour ends the model: in
`pc = "undefined"` when something is read that is not there (views that were not set, a
length of -1, a scan past the text), in `pc = "clobbered"` when something is written behind
an array (`Split`, `RequestLines`, the words of the request line, and `CKey`, whose NUL
lies behind it for every header with a name). After such a write the run may also go on
unharmed. `%00` is decoded to the NUL it is, which ends the path for `open` and `strrchr`.
What a head that is refused left in `Request` is not kept: the connection is closed.
The five tries are in `HttpWorker`. `straddled` records that an end of head was found
behind `Length`, where old bytes lie or the allocation ends; from then on the heads are
cut wrong, and the properties claim nothing more.

### VArray

The macros of `varray.h` as operators, and a program that calls them. Nothing in the
server calls more than `Push`, `Count` and `Capacity`.

### HashTable

One action per call. The hash function is a variable chosen in the initial state, so
TLC tries all of them. A probe that meets neither its key nor an empty slot never
ends, and then the table is stuck in that call (`state`). `iter` is the client's
iterator; it takes a new one after a call that fills or empties a slot. `cut` records
a removal that left a hole in front of a filled slot, behind which keys are out of
reach: `ImplementsMap` is claimed up to then, so only for the server's use of the table
without reserve, since it removes nothing.

## The runs

| run | instance | shows |
|---|---|---|
| `pool_safety` | 2 threads, 3 tasks of every kind, 2 producers, 1 client that waits and destroys | type, exact counters, no lost wakeup, no stale thread record, only infinite tasks cancelled, what `Wait` guarantees, refinement of `TaskPool` |
| `pool_live` | 2 threads, 3 default tasks, 2 producers, 1 waiter, fair | every task ends, blocked producers and the waiter return |
| `pool_hang` | 2 threads, 3 infinite tasks, fair | **violated** `AddTaskReturns` |
| `loop_safety` | 3 clients, 2 slots, 2 descriptors to begin with, batches of 4 | table, descriptors, registrations and events agree; no edge is lost; only connections whose peer hung up are closed |
| `loop_live` | 2 clients, 1 slot, fair | requests read, hang-ups closed, backlog served, as long as clients read what they are sent |
| `loop_stale` | 2 clients, 2 slots | **violated** `ClosesOnlyHungUp` |
| `loop_full` | 3 clients, 2 slots | **violated** `RegisteredUnderOwnSlot` |
| `worker` | up to 3 requests, clients that pipeline or wait, in pieces or whole, fair | its steps are steps of `EventLoop`; answers are the right ones and given once (until old bytes complete a head), no bytes of an older response follow one, unread input is announced, well-formed requests are not rejected, every request is answered |
| `worker_body` | a request with a body | **violated** `BodyTaken` |
| `table_map` | 3 keys, 2 values, every hash function to 0..2, capacity 2 growing to 4, all calls | the table implements a map up to the first hole; until the rehash `Count` is exact and insertions end, an iterator returns every item once |
| `libraries` | heads: 10 shapes of headers on 8 paths, 18 request lines, runs of two and three heads, in one or two segments, some with more lines or bytes than fit; strings of up to 4 of 3 characters, reads of files that fail or fall short; arrays of up to 5 items | heads are taken out of the socket exactly, parsed, decoded and turned into a path as the client means them; parsing reads or writes what is not there only in the named cases; strings, split, finders and arrays do what they should |
| `table_hang` | 5 colliding keys, capacity 2 growing to 4 | **violated** `InsertReturns` |

What the violated runs found:

- `pool_hang`: the check for "all threads run infinite procedures" is made once,
  before the wait. A producer that is already blocked on the full queue when the last
  thread turns infinite is never woken, which is the hang the comment at
  `vthread_pool.c:52-55` says is solved.
- `loop_stale`: the cleanup path calls `close(1)`. The connection's descriptor stays
  open and registered; its slot is reused; when the old peer hangs up, the event
  closes the new connection.
- `loop_full`: a connection accepted into a full table is registered under index 0.
- `worker_body`: `ContentLength` is never set, so a body is not read and is taken for
  the beginning of the next request's head (and mostly answered with a 400).
- `table_hang`: a rehash sets `Count` to 0 and does not count the items it moves. The
  table then fills up without growing and the next insertion never returns. With the
  table of 16 that the parser uses, it takes 33 different header names.

Two further disagreements with `vhash_table.h` were seen and are listed as a hazard
only, since the server never removes an item: a removal cuts probe chains (no
tombstone), and the removed value's pointer stays in the slot for
`VHashTable_Free` to free again.

What the passing runs have to except, and a reader of the code should know:

- `ParseDefined`: `VHttpRequest_Parse` reads what is not there for a header without a
  colon, for one with a blank value, and for a request line of one or two words. It writes
  behind an array for a request line of four words, when exactly two whole heads are in
  the buffer, for a head of exactly 65 lines, and by one byte for every header with a name
  (`CKey`). (A request line of five words is accepted: the split stops at three.)
- `HeadsTakenExactly`, `AnsweredOnce` and the bound on `RequestSize`: after a first head of
  the same run, the beginning of the next one and old bytes behind `Length` can together
  look like an end of head; the same goes for what lies behind the allocation when the pool
  is full but for less than three bytes. Too much is taken then, and the head is
  answered before all of it was sent.
- `StringsExact`: a failed `read` leaves a `Length` of 2^64 - 1.
- `WaitReturnsQuiescent`: `VThreadPool_Wait` returns while a task is between
  its removal from the queue and its count.
- `UrlDecoded`: a `+` becomes a blank and a plus sign (`http_request.c:50-53`).
- `PathExact`: a path of `INIT_TEXT_SIZE` bytes or more may not be terminated; one with
  `%00` ends there.
- `FindersExact`: a separator's first character in front of a separator hides it;
  `VString_FindLastCharOccurence` never looks at index 0.
- `VString_CopyCString` on a string that is not empty appends behind the cleared text
  and then sets the length of the copy; the server only calls it on empty strings, and
  on `StrMethod`, which nothing reads.
- The three liveness properties of `EventLoop`: one client that does not read the file
  it is being sent stops the server for everybody, and one that resets may end it.

### Bounds

`MaxTasks` (calls of `AddTask`): three tasks on two threads are enough for a full
queue with a blocked producer, for both threads to turn infinite, for a third
thread to be added (a reallocation of the list) and for a cancellation. `MaxFd`: the
process starts with descriptors 0-4, so 6 leaves two for connections and files, and
EMFILE is reached. `Capacity` 1 or 2 stands for `SOMAXCONN`, `BatchSize` 4 for
`MAX_EPOLL_EVENTS`; with three clients the batch holds every ready file, so several
events and a reuse of slots fall into one batch. Clients may come back any number of
times. `MaxRequests` 3: two requests in one buffer and a third behind them. `MaxBefore` 4:
with two lengths of response, four responses leave behind everything that more would.
`MaxTries` is the code's own 5. `MaxFiles` is three times `MaxRequests`: a run opens one
file, and begins with a piece of a request that arrived; a request has three pieces. `MaxCapacity` limits the table to one rehash, which
is where its behaviour changes; `MaxHash` is large enough for all patterns of
collision and of none; `CountMod` stands for 2^64. `MaxText` 4 and `StringSize` 2: a
string that grows once or twice, separators of two characters at both ends, in a row
and with false starts. `TextSize` 5 lets `Request.Url` and `FilePath` grow in some
heads and not in others. `PoolSize` 36 (for 4092) holds the single heads but for
the longest, and not the longer runs, so peeks are cut short; `MaxLines` 3 (for 64) is met, and exceeded by one
and by two. `LengthMod` 64 stands for 2^64: no text is as long. The
proofs hold for every value of the constants; in them too `MaxTries` is the code's own 5
and a response has one of two lengths.

### Fairness

`ThreadPool`: weak fairness of each worker and of each client that is inside a call:
a thread that can run is scheduled and gets the mutex (its critical sections are
short and POSIX threads are preemptive), and a default procedure returns. New calls,
spurious wakeups and destruction have none. `EventLoop` and `HttpWorker`: weak
fairness of the one server thread, whose loop has no other way to stop. Clients need do
nothing: they need not even read a file they are being sent, so `SendfileEnds` has no
fairness. The sendfile loop (lines 291-296) spins until they do, and the liveness
properties of `EventLoop` say so: they are implied by `StallsEnd`, that every stall
ends, and end in `Dead` if the process does. `BacklogServed` also takes for granted that
descriptors become free again and again, since a file once opened never gives its
descriptor back; without that, TLC shows the backlog waiting for ever at EMFILE. The
response of `HttpWorker` needs no such assumption: when the client does not read it,
`send` fails with EAGAIN and the worker goes on.

`CHECK_DEADLOCK FALSE` is set everywhere: clients and peers may stop calling, an
infinite procedure does not return, and the table may be freed.

## The proofs

Every safety property of the pool, the loop, the worker, the table, the string and the
array that a run checks is also a theorem, for every value of the constants, and of the
parser's the one about the bytes it takes out of the socket. The action
properties and the three refinements are among them.

| theorem | module | property |
|---|---|---|
| `LocalInvAlways` | `ThreadPoolProofs` | `[]LocalInv`, the inductive invariant of the pool |
| `CountersAlwaysExact` | `ThreadPoolProofs` | `[]CountersExact` |
| `TypeCorrect` | `ThreadPoolProofs` | `[]TypeOK` |
| `StaleNeverUsed` | `ThreadPoolProofs` | `[]NoStaleThreadUse` |
| `CancelsOnlyInfinite` | `ThreadPoolProofs` | `[]CancelOnlyInfinite` |
| `WakeupNeverLost` | `ThreadPoolProofs` | `[]NoLostWakeup` |
| `WaitQuiescence` | `ThreadPoolProofs` | `WaitReturnsQuiescent` |
| `PoolImplementsTaskPool` | `ThreadPoolProofs` | `ImplementsTaskPool` |
| `LoopTypes` | `EventLoopProofs` | `[]TypeOK` |
| `EventIndexInBounds` | `EventLoopProofs` | `[]EventsInBounds` |
| `TableMatches` | `EventLoopProofs` | `[]SlotsMatchDescriptors` |
| `NoStaleEvent` | `EventLoopProofs` | `[]EventsHitTheirConnection` |
| `EdgesKept` | `EventLoopProofs` | `[]NoEdgeLost` |
| `WorkHasInput` | `EventLoopProofs` | `[]ReadableMeansInput` |
| `LoopClosesHungUp` | `EventLoopProofs` | `ClosesHungUpWhileHealthy` |
| `WorkerTypes` | `HttpWorkerProofs` | `[]TypeOK` |
| `NothingStranded` | `HttpWorkerProofs` | `[]UnreadIsAnnounced` |
| `ResponseAsBuilt` | `HttpWorkerProofs` | `[]ResponsesIntact` |
| `NoSecondAnswer` | `HttpWorkerProofs` | `[]AnsweredOnce` |
| `AnswersToTheirRequests` | `HttpWorkerProofs` | `[]AnswersMatch` |
| `NoFalseRejection` | `HttpWorkerProofs` | `[]WellFormedNotRejected` |
| `WorkerRunsInLoop` | `WorkerInLoopProofs` | `RunsAsInLoop` |
| `TableTypes` | `HashTableProofs` | `[]TypeOK` |
| `CountExact` | `HashTableProofs` | `[]CountExactBeforeRehash` |
| `IterationReturnsAll` | `HashTableProofs` | `[]IterationComplete` |
| `TableImplementsMap` | `HashTableProofs` | `ImplementsMap` |
| `ArrayHoldsItems` | `LibraryProofs` | `[]ArrayExact` |
| `StringHoldsText` | `LibraryProofs` | `[]StringsExact` |
| `StringFindersExact` | `LibraryProofs` | `[]FindersExact` |
| `HeadsAreTakenExactly` | `HttpRequestProofs` | `[]HeadsTakenExactly` |

The assumptions are the named ones of the modules, and no others. `ThreadPool`: at least
one thread, finitely many clients, the kinds of task named there. `EventLoop`: a table
with at least one slot and an index for the listener beyond it, descriptors up to 4 at
least, batches of one event at least, finitely many clients (`PeersAssumption`; they
are none of the process's own files). `HttpWorker`: scripts and manners of the kinds
named there, any number of requests in a script and of responses before it. `HashTable`: a capacity of at least one, a counter that does not
wrap below `MaxCapacity` (`CountModAssumption`), and keys that are not the value by which
an empty slot is known (`KeysAssumption`: in the code that value is a null pointer).
`VArray`: capacities are natural numbers. `VStringCalls`: the string starts with room for at
least one byte (`StringSizeAssumption`: the server's strings do), `MaxText` is a natural
number, and `LengthMod` one above 0 (`LengthModAssumption`). `HttpRequest`: `StringPool`, its other
strings and `RequestLines` have a size of at least one (`RequestAssumption`), whatever a client sends, and
the lines of its heads are not empty and hold no line ends (`StreamsAssumption`); what else
they hold is arbitrary, well-formed or not. TLC evaluates both on the streams of its run,
in which every shape of head satisfies them.

Hardly any of the properties is inductive alone. Each proof module begins with the
strengthening it needs; TLC checked those of the pool, the loop, the worker, the
table and the parser first, on the instances of their runs. The shape
is always the same: the invariant holds initially, each action of `Next` keeps it (one
lemma for each, or for a few that are alike), and the property follows.

**The pool.** Take `NoStaleThreadUse`: a thread's record may be moved while it runs, and
the reason it is not touched afterwards is that the list only grows when every thread in
it has `State` INFINITE, and a thread with that state is past its last write. So
`LocalInv` ties `State` to the program counter and the task of each worker
(`WorkerInv`), bounds the list by the tasks submitted, ties the cursors and `Count` to
the contents of the ring buffer (`QueueInv`), and says what each client may be doing
(`ClientInv`: after `Terminate`, only the destroying one). `CancelOnlyInfinite` is part
of it for the same reason. The counters are proved by counting: an action adds a thread
to, or takes one from, exactly the set whose cardinality the counter is, by the theorems
on finite sets. `NoLostWakeup` is proved by cases on how an action changes the
sleeping, woken and signalling sets. `WaitReturnsQuiescent` follows from the exact
count of normal workers: with the counter at zero nobody is between lines 147 and 159.

**The pool as a `TaskPool`.** A task is submitted to the abstract queue only if it is
unknown there, and finished only while it runs, so the refinement needs `OnceInv`: a task
is at one place only, in a slot of the ring, in a worker's hands, with a blocked
client, or finished, and tasks to come have larger numbers. With it
every step maps: `VTaskList_Put` appends to the queue that the ring is read as
(`PutAppends`), `VTaskList_Dequeue` takes its head (`DequeueTakesHead`), the end of a
procedure finishes the task, and every other step leaves the three abstract variables
alone.

**The loop.** `KernelInv` holds in all states: a socket has one descriptor or one place
in the backlog, registrations lead into the table, the events of a batch are of
different files. The last is what makes the rest true: the loop closes a slot while other
events wait, and none of them is of the same connection. `IntactInv` adds,
while the table is `Healthy`, that open slots and connections with a descriptor are
matched one to one (`SlotsOpen`, `SlotsOwned`), that waiting events lead to their
connection and tell the truth about it (`EventsHit`, `EventsSay`), and that
everything unread or hung up is still announced somewhere (`InputKept`, `HangUpKept`).
Once unhealthy, a table stays so (`HealthStays`), and the cleanup path of a healthy table
makes it so (`CleanupIsUnhealthy`), which is why nothing is left to show there.
`EventsInBounds` follows from `KernelInv`, the other properties from `IntactInv`.

**The worker.** As long as the stream is not `torn`, `StreamInv` says that what is still to
be read is a piece of the
client's stream in which every head is followed by its end and every body by the next
head (`Orderly`). `PeekInv` says what the worker knows between two system calls,
although the client goes on sending: the end of head it found is still the first one in
the socket. From these `OnceInv`: the requests whose paths are in `Request.Url` and those
that were answered are different ones, and none of their heads is unread. `SerialInv`
and `PoliteInv` are the two regimes of clients that the last two properties are about; in
both the stream is never torn (`NeverTorn`). That
a response is as long as it was built, whatever is left in the shared buffer, is
`BuiltLength`, about `strlen` of a buffer with bytes of an older response behind a NUL.

**The worker in the loop.** `RunsAsInLoop` is a step-by-step refinement: `StepSeen` has one
case for each action of `HttpWorker` (`...Seen`), and names the action of `EventLoop` it is, or that
what the loop sees stays the same. Besides `WorkerInv` it needs that the descriptor a run
takes for a file is the lowest free one and exists: a run opens one file at most and
begins with input that was announced, so the files opened and the runs that may still come
(`Turns`: pieces unsent, an announcement waiting, a run that has not answered) are together
never more than the client's pieces (`FilesInv`), torn stream or not. The
loop's variables are given by the named operators `Table`, `Descriptors`, `Peer`, `Rx`,
`Ready` and `Interest`, and each case is proved from how the step changes those.

**The table.** `TableInv` (types, `IterInv`, `CountInv`) gives the exact count and the
complete iteration of a table that was not rehashed: `Count` is the number of filled
slots, so one is empty and every probe ends (`InsertEnds`). For the map,
`ChainInv` says that, where no removal has cut a chain, every key is `Reachable`: no
empty slot and no other slot with that key lies on its probe sequence before it. A
rehash keeps this (`RehashKeeps`), by induction on the number of items moved: after n
moves at most n slots are in use, so the next probe ends too. The arithmetic is in
`StepFacts`: a probe's steps visit every slot of the table once.

**The array.** `ArrayInv` relates the cells up to `Count` to the items the calls
should have left; each operation is a lemma.

**The string.** `Holds(s, t)` says that the bytes of `s` up to `Length` are the text `t` and
fit; each operation is a lemma about it, from the reallocation up (`Resizes`, `RoomsFor`:
doubling ends, since a capacity of at least one is doubled). The loops that append are
recursive functions, followed by induction on the number of characters (`AppendsAll`). For
`VString_Trim` the stripped text is shown to exist, to be where the scans stop
(`StripsTo`), and to be the only one (`StripsOnlyTo`).

For the split, the text is seen as its *cuts*: 0 and the places behind an occurrence of the
separator. `SplitInv` says of the loop after `k` characters that `Start` is the last
cut so far, that `Check` is 1 exactly if the last character begins a separator, and that the
array holds one view for each non-empty gap between two cuts, in order, and none else
(`Listed`); once the array was full, that a further cut was met. `SplitKeeps` is
the step, by cases as the code's `if`s; the assumption that there is no `FalseStart` is
used where a mismatch resets `Check`. `Enumerates` then shows that such a list numbers the
starts of the expected pieces, so the views are the pieces. That `SplitBySubstring`
writes behind its array for exactly one piece too many follows from the same invariant.

**The parser.** `HeadsInv` says that the socket and what has not reached it are together
the heads that are not parsed yet (`Stands`), until a comparison that began within
`StringPool`'s `Length` ran on behind it; that before the first head was
parsed only zeros lie there (`Fresh`), so that this needs an older head, or a pool so full
that the comparison leaves it; and that in `parse` the
bytes in `StringPool` begin with a whole head, `RequestSize` tokens long (`HeadPeeked`).
That `VString_FindSubstring` finds the end of the first head and not something inside
it is `FindsHead`: two line ends in a row appear in a head only at its end (`HeadText`),
because its lines are not empty. `SplitsHead` does the same for the split in
`VHttpRequest_Parse`, which looks for that end again by another loop and makes a view of
what precedes it; from the view's length comes `Request.Length`. `HeadCut`, by
`SplitLoops`, follows that loop up to the end of the head. So the two searches agree, and
`HeaderParsing` shows that nothing else in `Parse` changes the outcome: header lines
are only written to within `StringPool`.

Induction over data is done with `DataFacts!SetInduction`, which takes a set where
the library's theorems take a predicate: for the rehash, for the client's stream
(`FirstStream`), for what responses leave behind (`LeftBehindFinite`), for the
string's loops, and for concatenations (`FlattenSums`).

Only model-checked:

- liveness: `EveryTaskEnds`, `AddTaskReturns`, `WaitReturns`, `RequestsRead`,
  `HangUpsClosed`, `BacklogServed`, `EveryRequestAnswered`. Fairness and `ENABLED` are
  out of the prover's reach;
- the other properties of `HttpRequest`, `WellFormedParsed`, `ParseDefined`, `UrlDecoded` and
  `PathExact`: they compare a parser made of many scans with what a head means, token by
  token, and need words that are clean of every character it looks for; only the first
  of its scans, for the end of the head, is proved about;
- the violated properties, which are false.

## What is not modelled

- `ThreadSendfile` (compiled out), `NonblockRecv`, `Send` and `SetSocketRecvTimeout` of
  `vtcp_socket.c`, `VString_ToLower` and `VStringView_ToCString` (no callers), `vlogger`
  (empty), printing.
- Socket options and keep-alive; a peer that vanishes without a word is a peer that
  does nothing.
- What the bytes of a response say. That the Content-Length of a text file with a NUL
  in it is larger than what `strncat` copies (lines 229-231), that an empty text file is
  answered with 404 (line 224), and a response longer than `RESPONSE_MAX_LEN` are
  therefore outside.
- Short and failed reads of a file in the worker: `HttpWorker` and `EventLoop` have a text
  file read whole and its descriptor closed. In the code, a read that falls short leaves
  the descriptor open, and one that fails makes the response a 200 with a Content-Length of 2^64 - 1;
  what the string holds in both cases is in `VStringCalls`.
- The names of the MIME types, and the kinds of file besides regular ones and others.
- Several connections with the inside of the worker: `HttpWorker` has one, and
  `WorkerInLoop` relates it to a loop with one. What another connection's runs leave to
  it is the response buffer, which is in `HttpWorker` as `LeftBehind`, and descriptor 1,
  which is in `EventLoop`.
- `main` exits if `epoll_wait` fails, and allocation failures abort or crash; both end
  everything.

## Plan

Done, in this order because the pool is the only concurrent component and the loop the
centre of the server: `TaskPool`, `ThreadPool` and its safety proofs; `EventLoop`;
`HashTable` with `KeyValueMap`; `HttpWorker`; the text processing (`VString`,
`HttpRequest`) and `VArray`; the table's iterator; the shared response buffer and partial
sends in `HttpWorker`; the stalled and the killed server in `EventLoop`; the refinement
between the two, `WorkerInLoop`.

Then the proofs: the pool's, the refinement of `TaskPool`, the loop's, the worker's, the
table's, the array's, the worker's place in the loop, the string's, and how the parser takes
heads out of the socket.

Next, proving: the other properties of `HttpRequest`, beginning with `WellFormedParsed`.
