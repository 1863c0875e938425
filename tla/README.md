# c-labs in TLA+

c-labs is a collection of small C and C++ programs, with a copy of dlib beside
one of them. This directory holds specifications of the parts whose correctness
is a matter of order and state, the TLC models that check them, and TLAPS proofs
of their main invariants.

The largest program is the HTTP sniffer in `src/c++11/libtins`. It is modelled
from the arithmetic of TCP sequence numbers up to its threads and signals. Then
there are the smaller programs, and classes of dlib: a pipe, a thread pool, a
mutex for readers and writers, a server, two balanced trees, and the logger and
the command-line parser that `dlib-minimal` uses.

## The system

| Part | Source | Modules | Status |
|---|---|---|---|
| Sequence numbers | `c++11/libtins/tcpcap_stream.cpp` | `SeqNumbers` | modelled |
| Reassembly | `tcpcap_stream.cpp`, `.hpp` | `TCPCapStream`, `Reassembly`, `InOrderStream` | modelled |
| Follower | `tcpcap_stream.cpp`, `.hpp` | `Follower`, `FollowedStreams` | modelled |
| Sniffer sessions | `c++11/libtins/sniffer.cpp` | `SnifferSessions`, `Sniffer` | but for printed data |
| Sniffer threads | `sniffer.cpp` | `SnifferThreads`, `Sniffer` | modelled |
| Ordering experiment | `c++11/ordering/ordering.cpp` | `MemoryOrdering` | but for the delay |
| Echo client and server | `servers` | `EchoTest` | from connect on |
| Coroutine server | `libmill/test.c` | `MillServer` | modelled |
| HTTP over Redis | `c++11/libevent_redis` | `RedisHttp` | the blocking variant |
| Daytime servers | `asio-minimal/server.cpp` | `AsioServer` | the servers |
| Geohash | `redis/geohash.c`, `rgeohash.c` | `Geohash` | but for distances and areas |
| Search tree of the exercises | `c++11/tests/test.cc` | `IntTree` | the tree |
| dlib: pipe | `pipe/pipe_kernel_1.h` | `Pipe`, `Fifo` | modelled |
| dlib: thread pool | `threads/thread_pool_extension.cpp`, `.h` | `ThreadPool` | but for futures |
| dlib: read_write_mutex | `threads/read_write_mutex_extension.h` | `ReadWriteMutex`, `ReadersWriters` | modelled |
| dlib: server | `server/server_kernel_1.h`, `.cpp` | `Server` | but for settings |
| dlib: logger | `logger/logger_kernel_1.h`, `.cpp` | `Logger` | but for texts and the end of the program |
| dlib: command-line parser | `cmd_line_parser/cmd_line_parser_kernel_1.h` | `CmdLineParser` | but for `swap` and the checks |
| dlib: binary search trees | `binary_search_tree/*_kernel_1.h`, `*_kernel_2.h` | `AVLTree`, `RedBlackTree`, `SortedPairs` | but for swap and serialization |

dlib's sources are under `src/dlib-minimal/lib/dlib/`. `PROJECT.json` gives the
lines that each definition stands for.

### How the parts of the sniffer interact

A packet that libtins captures enters `TCPCapStreamFollower::callback`. The
callback finds the session of its two endpoints, or opens one on a SYN.
`TCPCapStream::update` passes the data to `generic_process`, which stores it and
appends to the payload what has become contiguous. If anything was appended, the
callback calls `data_fun`, which is `http_cap`, and then `cap`, which empties the
payload and the fragments. After a FIN or RST it calls `end_fun`, which is
`http_fin`, and erases the session. `http_cap` and `http_fin` keep a table of
HTTP sessions of their own, under `MUTEX`. The handler of SIGINT and SIGUSR1
takes the same mutex.

The other programs stand alone. The classes of dlib do too: each is a monitor
or a data structure that any program may use.

### What is hard here

Packets are lost, repeated, reordered and cut differently when they are sent
again. Sequence numbers wrap. Endpoints are used again for a new connection.
Signals arrive while a mutex is held. Processors reorder. Calls return parts of
what was asked for. Coroutines share `errno`. Threads wait on condition variables
that are signalled once, or not at all when nobody is counted as waiting. Settings
change while an object that reads them is under construction. Nodes move while an
enumerator points to them. `PROJECT.json` lists these hazards at the lines where
they bite.

## Modules

`...Proofs` holds theorems about the module of that name. `MC...` gives values
for TLC.

### SeqNumbers, TCPCapStream, Reassembly

`seq_number_diff` is 2^31 in the code and a parameter here. `addition_modulo`
keeps the code's value, one less than the size of the space.

The record `h` is one direction: `my_seq`, `pload` (the payload), `frags` (the
map from numbers to payloads), and the two locals of `generic_process`, `it` and
`added_some`. `Capture` is the entry of `generic_process` up to its loop. `Cut`,
`Discard` and `Append1` are the three branches of the loop. `ReturnTrue` is the
return of true followed by `data_fun` and `cap`. `ReturnFalse` is the other
return. A byte is its offset in the stream, so order can be stated exactly. The
process is `crashed` when `vector::erase` is asked for more bytes than there
are. `held` and `captured` are history variables.

`Capture` takes any run of bytes within half the sequence space of the byte that
is due. This is an assumption on the network (`InWindow`): TCP's window is at most
a quarter of the space, and a duplicate older than half the space is not met.

`InOrderStream` is the promise: each call of `data_fun` hands over the bytes that
come next.

### Follower

`sessions` maps pairs of endpoints to streams. A stream is opened under the
swapped key, as in the code. `OpenStream` and `UpdateStream` are the two paths
of the callback, and `Die` is the path on which `generic_process` fails. Here
the loop of `generic_process` is one step, since the callback is one call on one
thread. `Connect` and the packets are the environment: a SYN, a SYN-ACK, all
segmentations of the data, FINs and RSTs, each capturable at any time and any
number of times while its connection lasts. `MaxStreams` bounds the streams that
are opened. `out`, `streams`, `ended` and `fins` are history.

`FollowedStreams` is the promise: streams open, deliver in order and end once.
It cannot be kept for a stream whose endpoints have connected anew. `Follows`
therefore lets such a stream go wrong, but no other stream with it.

### SnifferSessions, SnifferThreads, Sniffer

`SnifferSessions` has the bodies of the functions that hold `MUTEX`. Of a
`Stream` it keeps `initial` and `state`. What `http_inspect` can tell of a payload
is in the set `Payload`: whose it is, whether it holds a complete header, whether
it is empty. `reports` counts the entries a session made.

In `SnifferThreads` a thread is a stack of activities, of which the topmost runs,
and a signal pushes a handler. `sa_mask` is empty, so a handler blocks only its
own signal. SIGINT's handler calls `exit` with the mutex held. `process` tells
whether the statics are being destroyed, by `exit` or by the return of `main`.

`Sniffer` is both together. `http_cap` is cut in two where it can be interrupted:
it finds or makes its session, and later inspects the payload through the pointer
it holds. `call` is the call in between. One assumption ties the clock to it: an
`http_cap` is not interrupted for longer than `SECS_TO_EXPIRE`. Without it the
first session could be too old already when the first collection, which only
starts the clock of `gc`, comes.

### MemoryOrdering

Each thread has a FIFO buffer of stores. `Flush` moves the oldest to memory.
`mfence`, `sem_post` and `sem_wait` wait for an empty buffer. The random delay
of the code is the time a thread may spend between two steps. The counter
`iterations` is left out, so the model covers any number of experiments.

### EchoTest, MillServer, RedisHttp, AsioServer

`Programs` holds these and `MemoryOrdering` side by side, for the run and for the
proofs; `MillServer` is in `Coroutines`, because its proof is kept with others that count.

`EchoTest`: `Write` and `doRead` move any part of what there is; the two streams
between the processes have room for `Room` bytes; the server may die at any
moment, also with the connection reset. What is then written is lost, or the
write fails. A read returns what had arrived and then 0, for which `doRead` has
no test, so that the client reads 0 for ever; or it fails, and the client exits.
When the client has gone, `recvfrom` returns 0 or -1, and the server, which does
not look, stores its zero at `mesg[n]`, outside `mesg` for -1 and `MESG`. It
may hit `connfd` (the server is `stray` and serves no more), or end the process,
or do no harm.

`MillServer`: a coroutine runs from one blocking call to the next. `ch` holds the
dialogues that wait in `chs`, which is a channel without buffer. Every call may
fail or run out of time, and sets the one `errno`. When `tcpaccept` fails, `main`
goes round its loop without a call that suspends it. `spins` says that it does;
no coroutine runs then. It ends when `tcpaccept` finds a connection or waits for one.

`RedisHttp`: one action per call of the handler that can fail or throw. `c`, `r`
and `buffer` are what has been allocated. Others increment the key as well. The
key is a `long long` and is printed with `%d`: `printed` gives the low bits, as an
`int`. Where `redisConnect` returns NULL the process is `crashed`.

`AsioServer`: a pending asynchronous operation is a variable; a handler is an
action that ends one operation and starts the next. Each may end in an error.

### Geohash, IntTree

`Geohash` keeps the shifts and masks of `interleave64` and `deinterleave64` on a
word of `2^ROUNDS` bits, and the borrow and carry of `geohash_move_x` and `_y`.
Coordinates are integers, and both ranges of latitudes are kept: that of
`geohashEncodeWGS84`, and that of the text. `geohash_decode64` goes from the text
to the corner of its cell and from there to a hash, as the code does. What an
uninitialized `h` holds is any member of `Garbage`.

`IntTree` is the tree of `test.cc` with the identity of its nodes, since `remove`
moves keys from node to node.

### Pipe, ThreadPool, ReadWriteMutex, Server

These are monitors. A step of a thread runs from where it gets the mutex to
where it waits or returns. `asleep` holds the threads that wait on a signaler and
have not been woken. A thread that was woken, or whose wait ended without cause,
goes on when it gets the mutex.

`Fifo` is what a pipe promises, `ReadersWriters` what a mutex for readers and
writers does.

In `ThreadPool` the mutex `m` is a variable, because `add_task` leaves it and
takes it again. A task may submit tasks (`Nested`) and wait for them. `add_task`
called by a worker when no slot is empty unlocks `m`, calls its task, and unlocks `m`
once more when it returns, whoever has it. `stolen` records that a thread lost `m`
in this way. Nothing protects the pool after that, and the properties say nothing
of it; `NoTaskIsLost` shows what comes of it. In `Server`
the steps of `start()` between two locks are actions of their own, and each may
fail.

### Logger, CmdLineParser

`Logger` has the five tables of settings, the copies that each logger carries,
the mutex `m`, and what was written. A table is a function on the names of its
nodes. The constructor is three actions, one for each time it takes `m`. A
statement takes `m` with its first item and keeps it to the end of its line.
`auto_flush` and the header are set by the same code with another table;
`Settings` says which of them an instance has. `life` counts the threads that
have had an id. `overtaken` is history: the settings that changed after a
constructor had read them.

`CmdLineParser` knows a text by the place where it was typed, so a property can
say what was taken from where. One pass of the loop over `argv`, or over the
letters of a list of options, is a step.

### AVLTree, RedBlackTree

In `AVLTree` a tree is a value and a pointer to a node is the pair it holds. In
`RedBlackTree` nodes have addresses, and the one leaf `NIL` is a node that is
written to, as in the code. `SortedPairs` is the contract of both kernels: the
pairs, and where the enumerator stands.

## Runs

| Run | Checks | Bounds |
|---|---|---|
| `streams` | `NothingDueIsHeld`, `CrashesOnlyAtTheTop`, `HandlerReturns`, `Promise` of one direction; `OneSessionPerPair`, `SessionsAreOpenStreams`, `Follows` of the follower | 16 sequence numbers, 8 bytes from number 11, segments of up to 3; two connections of one pair of endpoints, roles exchanged, and one that shares an endpoint; two streams |
| `sniffer` | `BackExists`, `NoOrphans`, `NoneTooOld`, `PointsIntoTable`, `NoUseAfterExit`, `StuckOnlyByReentry`, `MutexIsReleased` | two ids, two streams, two ticks |
| `programs` | nine properties of the seven small programs | see below |
| `monitors` | `LocksAddUp`, `NobodyOversleeps`, `DestructorsWait`, `HandoverIsMine`, `IsFifo`, `EachTaskOnce`, `BooksAreRight`, `ClearWaitsForAll`, `LoggersAgree`, `MessagesWhole`, `LineIsDivided` | two or three threads; see below |
| `monitors_live` | `IsReadersWriters`, `LockObtained`, `WaitingEnds`, `ClearEnds` | two or three threads |
| `search_trees` | `Conventions`, `TreesAreSortedPairs` | 6 pairs (AVL), 4 (red-black), trees of 12 and 7 nodes |

`streams`, `programs`, `monitors` and `search_trees` look at several systems in one
run. A variable chosen in the initial state (`about`, `program`, `object`, `kernel`) says which
system a behaviour is about. The variables of the others do not change, so the
states are the sum of those of the systems, not their product. In `sniffer`,
`watched` splits the behaviours in the same way: both signals with one
stream and all payloads but complete headers of clients, or SIGUSR1 with all ids
and those headers.

What the properties say:

- `streams`, a direction. What is delivered is a prefix of what was sent, and grows only at
  its end (`Promise`, which is the refinement of `InOrderStream`). No byte that is
  due is left among the fragments. `generic_process` returns. It cuts a chunk by
  more than its size only if a captured byte had one of the two highest numbers.
- `streams`, the follower. A pair of endpoints has one session. The sessions are the streams
  that were opened and not ended. The streams are as `FollowedStreams` says.
- `sniffer`. `stats.back()` exists when it is used. No session outlives its stream
  or stays after the collection that should have taken it. The pointer
  `http_cap` holds stays good. After `exit` began, nobody but the handler that
  called it is inside the mutex. The program hangs only when the owner of the
  mutex is interrupted.
- `programs`. The fence prevents reordering, and the experiments do not overlap
  (`NoReorder`, `ResetWhileQuiet`). Every byte of the echo client is in one place,
  in order, until its server dies; its buffer, which it reads into and sends again,
  never changes; it says ok only when all came back (`NothingLost`); and it finishes
  unless its server dies or goes astray (`Finishes`). The numbers of the
  coroutine server are right (`StatisticsAddUp`), and its dialogues end unless
  `tcpaccept` fails from some moment on (`Finishes`). A request of the Redis server
  has one reply and leaves nothing allocated, but for the one in which the process
  crashes. The values replied increase as long as the key fits an `int`
  (`OneReplyNoLeak`). Who
  connects to the daytime servers is served (`EveryoneServed`). The hash is that
  of the cell after any walk, and the text of a point leads to a cell less than a
  cell of the text away (`HashIsCell`). The tree holds what was inserted, in order, and `search` finds
  it (`InorderIsSorted`).
- `monitors`. No lock is lost (`LocksAddUp`). Who sleeps has to wait, and enough
  threads are awake for what there is to do. Destructors wait for those inside. A
  handover returns true only if the item was received, and a pipe is a queue.
  Every task is called once, and who waits for it finds it, until `m` is `stolen`. The server's counter
  and set of connections are right. Its `clear()` waits for `on_connect`. A logger
  has the settings of its name, whenever it was made, and a hook exactly when it
  writes to `hookbuf`, but for a logger whose stream or level was set while it was
  constructed. With the same exception messages are not broken up, a hook is given the whole of
  its message, and threads that dlib made never share a name. Every string of a
  command line is used once, an option has its number of arguments, and a line
  that is parsed owes nothing to the one before.
- `monitors_live`. The mutex is one for readers and writers. Locks are obtained.
  The pool's calls that block return, unless tasks wait for each other or for
  themselves; a call inside a pipe that is disabled returns; `clear()` and `start()` end.
- `search_trees`. Both trees keep the convention that their class states and are
  the sorted dictionary, also for an enumeration that removes as it goes.

### Why the bounds are enough

- `streams`: the stream passes the top of the space, and is long enough for
  late and early segments on both sides of it. Three bytes allow segments that
  overlap at either end, contain each other and only touch.
  The connections of the follower carry few bytes, since `Reassembly` covers the
  reassembly. Two connections are what the lookup can confuse.
- `sniffer`: a session expires after two ticks and a collection is due after one,
  so sessions meet collections before, at and after their age.
- `programs`: no thread of the experiment ever has more than two stores pending.
  The echo streams have the least room with which the client finishes
  (`EchoAssumption`): with less, both sides would wait in a write. Three dialogues,
  three requests and two clients each let one overtake another. The largest `int` is
  3 and the key grows to 5, so that it outgrows the `int` between requests. The geohash has
  words of 8 bits per coordinate, which take the same masks and shifts as 32, and
  6 steps.
  The tree has three keys in five nodes, so equal keys meet.
- `monitors`: three threads are a handover, its rival and who disables. Pools have
  two or three workers and up to five tasks, so slots are used again. Five tasks and
  two workers are what it takes for `m` to be stolen and a task lost: two tasks fill
  the slots, one is called inside `add_task`, and two are put in one slot. The live
  run has three tasks, enough for tasks that wait for each other. Servers have
  three connections and a limit of two, so that `start` waits at it. Two loggers,
  one below the other, and three settings in a row are what the tables can get
  wrong: a node made on the way down, one removed, and one overwritten. Three
  threads with two statements and ids that are used twice let messages and names
  meet. Options take no, one and two arguments and up to three strings are typed,
  in one line or several, so that an option is followed by too few, just enough
  and more.
- `search_trees`: the small sets of pairs give every shape with all rotations and
  equal keys on both sides. The thinnest AVL trees of height five and a tree of
  seven black nodes are the smallest in which a repair after a removal goes on at
  a second level.

Deadlock checking is off: every system here may rest, since the network need not
send, bounded clocks and streams run out, and users need not call.

### Fairness

- `Reassembly`: weak fairness of `Process`. The thread inside the callback keeps
  running. No segment has to arrive.
- `Sniffer`: weak fairness of each thread's own steps. No signal and no packet has
  to come, and none has to be taken.
- Small programs: weak fairness of the client's steps and of each step of the
  server (echo), and of the handlers that are due (asio). Strong fairness of each
  coroutine and of `chr` (libmill): none can run while `main` spins, and whenever
  `main` is suspended the scheduler resumes those that are ready in turn; their
  calls have deadlines. No client has to come.
- Monitors: weak fairness of threads that can run and of the waits that have a
  timeout. Users of the mutex give their locks back, and each asks a bounded
  number of times, since a stream of readers may starve a writer. Tasks return.
  `on_connect` returns once its connection is shut down.

### Where code and documentation disagree

Six runs end in a counterexample; each states what a comment promises.

- `captured_is_delivered`: `cap` frees fragments that wait behind a gap, so
  bytes that were captured are not delivered when the gap is filled.
- `never_crashes_wrap`: `addition_modulo` is 2^32 - 1 where RFC 1982, which its
  comment cites, has 2^32. A segment that reaches the top of the space is taken to
  end one byte later than it does. If it really ends just before the expected
  number, it is accepted and cut by one byte more than it has. The crash is the
  model's outcome for this call of `vector::erase`, whose behaviour is undefined.
- `one_connection_per_stream`: endpoints that connect again before the end of
  their first connection was captured have their bytes delivered in the old
  stream.
- `fin_finishes`: a FIN captured before the SYN-ACK does not finish the stream.
- `no_task_is_lost`: `add_task` called by a task while every slot is taken unlocks
  `m` twice (`thread_pool_extension.cpp:277`). The second unlock may free the mutex
  of a thread that is about to fill a slot; another one fills the same slot, and one
  of the two tasks is never called.
- `hook_means_hookbuf`: the constructor of a logger reads its stream and its level
  before it joins the set of loggers (`logger_kernel_1.cpp:439`). After a hook set in
  between, the logger has the hook but writes to the old stream: its messages go
  there without header or end of line, and the hook is called with no text. A level
  set in between is lost on the new logger. The class says that "All methods of this
  class are thread safe" (abstract:157) and that a logger with a hook writes to
  `hookbuf` (`logger_kernel_1.h:99`). `LoggersAgree` and `MessagesWhole` exempt what
  was `overtaken` in this way.

Others were met on the way. The properties above are stated so that they hold
beside them, and no run is about them.

- `tcpcap_stream.cpp:171`: `update` can return true though no payload changed
  (`tcpcap_stream.hpp:180`). A retransmission that ends exactly at the expected number
  is stored as an empty fragment and "appended".
- `pipe_kernel_1.h:220`: `wait_for_num_blocked_dequeues` may go to sleep although
  its condition holds, and is not woken (abstract:88 says it returns).
- `pipe_kernel_1.h:521`: on a pipe of size 0, `enqueue_or_timeout` leaves its item
  for a dequeue that has just run out of time, and then waits without its timeout
  (abstract:196).
- `server_kernel_1.h:508`: a service thread is counted after it was created. A
  `clear()` in another thread can find `thread_count` at zero and return early
  (abstract:93).
- `server_kernel_1.h:430`: a `clear()` between the test of `shutting_down` and the
  `add` to `cons` misses the connection, and waits until its peer closes it.
- `server_kernel_1.h:459`: when `new param` throws, the deleted connection stays
  in `cons`.
- `server_kernel_1.h:523`: `set_max_connections(0)` does not release a `start()`
  that waits at its limit.
- `read_write_mutex_extension.h:138`: `unlock_readonly` by a thread without a lock,
  while a writer collects, makes a lock too many (abstract:131 allows the call).
  The model's threads give back only what they have.
- `logger_kernel_1.cpp:362`: names of threads that dlib did not make are never
  removed, so a later thread with the same id gets the same "unique" number
  (abstract:308).
- `tcpclient.c:194`: `doRead` takes the 0 that `read` returns at the end of the stream
  for a read of no bytes. A client whose server ends in order reads for ever.
- `libmill/test.c:127`: while `tcpaccept` fails, `main` goes round without letting
  any other coroutine run. Dialogues stop, and their deadlines with them.
- `rgeohash.c:29`: latitudes between 85.05 and 90 leave `h` uninitialized, and the
  eleventh character is taken by a negative shift. Longitude 180 is the cell of
  -180.

## Proofs

| Theorem | Says |
|---|---|
| `ReassemblyProofs!CompareIsOrder` | `compare_seq_numbers` orders numbers whose offsets are less than half the space apart |
| `ReassemblyProofs!AddIsEndOrOneMore` | `add_sequence_numbers` is exact, or one too large at the top |
| `ReassemblyProofs!TypeCorrect`, `DeliversInOrder` | the state keeps its types; what is delivered is a prefix of what was sent |
| `ReassemblyProofs!Refinement` | `Promise`: each direction implements `InOrderStream` |
| `ReassemblyProofs!NothingDueIsLeftBehind` | `NothingDueIsHeld` |
| `ReassemblyProofs!CrashesAtTheTop` | `CrashesOnlyAtTheTop` |
| `ReassemblyProofs!NoOverrunBelowTheTop` | no crash while the numbers stay below the top |
| `ReassemblyProofs!OneSession`, `OpenStreams` | `OneSessionPerPair`, `SessionsAreOpenStreams` |
| `SnifferProofs!StatsBackIsDefined`, `SessionsAreFollowed`, `CollectionIsComplete`, `ReportsAreBounded` | of `SnifferSessions`: `BackExists`, `NoOrphans`, `NoneTooOld`; a session makes at most two entries |
| `SnifferProofs!TableIsSound` | the same of the whole program, where `http_cap` is interrupted |
| `SnifferProofs!PointerStaysValid`, `ExitIsAlone`, `HangsOnlyByReentry` | `PointsIntoTable`, `NoUseAfterExit`, `StuckOnlyByReentry` |
| `SnifferProofs!ThreadsAreImplemented` | the whole program implements `SnifferThreads` |
| `ProgramsProofs!FencePreventsReordering`, `ExperimentsAreSeparate` | `NoReorder`, `ResetWhileQuiet` |
| `ProgramsProofs!EveryByteComesBack` | `NothingLost` |
| `ProgramsProofs!EveryRequestHasOneReply` | `OneReplyNoLeak` |
| `CountsProofs!StatisticsAreRight` | `StatisticsAddUp` |
| `ProgramsProofs!AnswersGoToTheirSender` | `AnswersItsSender` of `AsioServer` |
| `MonitorsProofs!MutexInvariant` | `LocksAddUp`, at most one writer, no lost wake-up |
| `MonitorsProofs!MutexIsReadersWriters` | `IsReadersWriters`: the mutex implements `ReadersWriters` |
| `PipeProofs!NoPipeOversleeps`, `PipeDestructorWaits`, `HandoverIsReceived` | `NobodyOversleeps`, `DestructorsWait`, `HandoverIsMine` of `Pipe` |
| `PipeProofs!PipeIsFifo` | `IsFifo`: the pipe implements `Fifo` |
| `MonitorsProofs!ServerBooksAreRight`, `NoClearOversleeps` | `BooksAreRight`, `NobodyOversleeps` of `Server` |
| `MonitorsProofs!StartThrowsAfterServices` | `ClearWaitsForAll`, an action property |
| `CountsProofs!LinesAreDivided` | `LineIsDivided` |
| `LoggerProofs!LoggersHaveTheirSettings`, `MessagesAreWhole` | `LoggersAgree`, `MessagesWhole` |
| `ThreadPoolProofs!PoolCallsEachTaskOnce`, `PoolWaitersSeeTasks` | `EachTaskOnce`, `WaitersSeeTasks` |
| `ThreadPoolProofs!NoPoolOversleeps`, `PoolDestructorWaits` | `NobodyOversleeps`, `DestructorsWait` of `ThreadPool` |

They hold for every value of the constants that meets the named assumptions:
`seq_number_diff` at least 2 (`WidthAssumption`); an initial number within the
space and natural lengths (`StreamAssumption`); connections between two different
endpoints, with numbers within the space (`ConnectionAssumption`); natural
periods (`TimeAssumption`); a buffer of at least one store (`BufferAssumption`);
an echo buffer that the two streams and one byte in `mesg` can hold, since the
client writes all of it before it reads, and natural bounds (`ProgramsAssumption`);
finitely many connections of the coroutine server (`CoroutinesAssumption`);
finitely many threads and at least one lock (`ReadWriteMutexAssumption`).

`Pipe`, `Server`, `ThreadPool`, `Logger` and `CmdLineParser` are instances in
one run, most of them several times, so
their assumptions are definitions, `MCMonitors` assumes them of every instance, and
the theorems have them as hypotheses: finitely many threads, a size and bounds
that are natural (`PipeAssumption`); finitely many connections, limits that are
natural, and a thread that calls `start` and is not one of those that call `clear`
(`ServerAssumption`); finitely many clients
and workers that differ (`ThreadPoolAssumption`); a main thread that
dlib did not make, loggers with names that are not empty, some of the two further
settings, and streams of which `cout` is one and the hook's buffer is none
(`LoggerAssumption`); numbers of arguments that are natural, and strings of the
kinds that the parser tells apart (`CmdLineParserAssumption`).

The properties of the same name in `MCMonitors` are the conjunction over the
instances of the run, so the run and the theorems are about the same formulas.

`MonitorsProofs` extends `ReadWriteMutex` and has the server as an instance with
variables of its own (`Srv`). `CountsProofs` extends `CmdLineParser` and `Coroutines`,
`ReassemblyProofs` extends `Reassembly` and `Follower`.

The arguments:

- **Reassembly.** `InOrder` says nothing of the fragments, so it is not
  inductive. `IInv` adds that every fragment holds the bytes its key announces,
  lies no earlier than what has been delivered, and ends less than half the
  space later. Only then do comparisons of numbers agree with the order of
  offsets, which is what `CompareIsOrder` needs. It also says that `my_seq` is
  the number of the next byte. `AddIsEndOrOneMore` covers the code's modulus:
  an end that is one too large can make the loop cut a fragment it should discard,
  which leaves an empty one, and never a wrong byte. On entry it is the crash
  above: the chunk reached the top, so a byte with one of the two highest numbers
  was captured (`CrashesAtTheTop`). `NoOverrunBelowTheTop` follows for streams with
  `ISN + StreamLen < SEQ_SPACE - 1`.
  `NothingDueIsHeld` needs `DInv`. Every byte that was captured and kept lies in a
  fragment or before `my_seq` (`HeldAccounted`). No fragment starts before the one at
  the loop's iterator, and where the loop ends none starts at or before the byte
  expected (`IteratorLeads`). The iterator that passes the last key goes on at the
  first one, and that is the next in the order of offsets because fragments lie
  within half the space.
- **Follower.** `OneSessionPerPair` is inductive once packets are known to belong
  to connections, whose two ends differ. `SessionsAreOpenStreams` needs
  `SessionInv`: streams are records whose identifiers are below
  `last_identifier`, and so are those that ended. The lemma `UpdateKeeps` says
  that `update` changes no identifier, whatever reassembly computes.
- **SnifferSessions.** The four properties are inductive together with the types
  and one more fact: the table is empty until the first call of `gc` has set its
  static time. Without it the first call, which collects nothing, could record
  a time for which a session is already too old.
- **Sniffer.** `WholeInv` has three parts. `ThreadsInv` is about the stacks: what
  lies on them, and that one activity at a time is inside the mutex, on the thread
  that owns it. `TableInv` is the invariant of the sessions, at every step.
  `CallInv` ties the two: while there is a call, the callback at the bottom of the
  follower's stack is inside the mutex, the session of the call is in the table,
  and the call is younger than a session may become, unless the program hangs. The
  first session of all is in the table before `gc` has run, so the extra fact of
  `SnifferSessions` holds only between calls. While the callback is inside nobody
  else is, so nobody collects its session. A thread that waits for ever waits for
  an owner that lies below it on its own stack, because the other thread
  could go on.
- **MemoryOrdering.** Beside types the invariant has three parts. What each buffer
  holds at each label. An account of the semaphores: what the two threads owe
  plus `endSema` is what `main` has posted and not waited for. And the order: a
  thread past its fence has its store in memory, and of two threads that have
  loaded, one loaded 1.
- **EchoTest.** Where each part of the buffer is: what came back, the stream to the
  client, `mesg`, the stream to the server and `rest` are consecutive parts of it,
  each given by where it begins (`EchoInv`). A step moves the front of one part to
  the back of the one before. `recvfrom` overwrites `mesg`, which is empty then. When
  the server has died the parts are still consecutive and in order, but what is
  written gets lost, so they no longer make up the whole buffer.
- **RedisHttp.** The request that is served has no reply before it reaches its
  `free`, and all others have one. An answer of Redis that waits to be formatted
  is above every value replied, since the key only grows (`ValuesSoFar`), and is
  printed as it is while the key fits an `int` (`IntsArePrinted`).
- **MillServer.** What a dialogue sends through the channel is what has become of
  it, and none is in the channel twice (`ReportsAreTrue`). A dialogue whose call has
  failed makes no other (`LostAreOver`). Then each report that is received changes
  each count by the one dialogue.
- **AsioServer.** A datagram that waits for its handler was sent by
  `remote_endpoint_`: the next receive starts only after the send has copied it.
- **ReadWriteMutex.** `LocksAddUp` alone is not inductive: when a writer finishes
  collecting, the sum must be its own, so there must be one collector
  (`OneWriter`). The two flags must agree with where the threads are, or the
  next writer would start too early. `NoLostWakeup` rests on both: a sleeper's
  reason ends only in a step that broadcasts. The refinement follows. When the
  writer has all locks the sum leaves no reader, and a reader that finds a lock
  leaves no writer.
- **Pipe.** The three counters of waiters are the numbers of threads at the places
  between increment and decrement, with those whose time ran out and those that
  were woken (`Counted`). Threads sleep only in waiting loops (`SleepsInLoop`).
  `Ring` relates `first`, `last` and `pipe_size`. With these `NobodyOversleeps` is
  inductive: each step that makes somebody's condition true wakes as many as it
  must, because the counter it tests is exact. `PipeIsFifo` maps the slots from
  `first` on, or the item handed over, to the queue of `Fifo`. Every step adds at
  one end, takes from the other, takes back, or stutters.
- **Server.** `SetUp` follows the connection that `start()` has in hand. `Objects`
  says that what a thread serves exists until that thread deletes it, `Known` that
  `cons` knows it, each as far as failures and other threads' `clear()` allow.
  `ThreadsCounted` counts the service threads, with the one that `start()` has made
  and not yet counted. `AllServed` says that `start()`, once past the wait of its
  own `clear()`, has no service left: only `start()` makes one.
- **ThreadPool.** `Locked` says who has `m`. `Assigned` gives every busy worker a
  slot of its own, marked until the worker clears it. `Filled` and `Logged` tie
  slots and tasks: a task that has not returned is in the slot that its id names
  by its residue, and the ids a slot gives later are larger. `Inline` is the pool
  without threads, which calls tasks inside `add_task`. A worker that finds no
  slot does the same, and `Filled` says nothing of such tasks. All of it holds until `m` is
  `stolen` (`PoolInvariance`); that no worker is left when the destructor returns
  holds also afterwards. `Destroying` is the destructor. `EnoughAwake` counts: while a worker
  sleeps, the workers awake in their loop are at least the slots that wait, although
  `add_task` wakes one. There is a worker for each slot, so those that wait never
  outnumber the workers that are free.
- **Logger.** Two invariants. `LoggerInv` begins with the tables: the lemma about
  `assign_tables` says that afterwards a name at or below the one assigned finds
  the new value, and every other name what it found before, although nodes were
  made on the way and others removed. A logger that is there has what the tables
  give to its name, but for what was `overtaken` (`CopiesAgree`). A constructor between two locks has read what
  the tables still say, or `overtaken` knows (`ReadSoFar`). The tables give a hook
  exactly to the names to which they give `hookbuf` (`HooksAreBuffered`): the two are
  assigned under one lock. `WrittenInv` says that who writes has `gd.m`
  (`WritersLock`), so the last piece in a stream is the end of a line or belongs to
  the writer (`LinesWhole`), and what is in `hookbuf` is the writer's (`HooksWhole`). A
  name in use belongs to one thread, and the names used up lie below
  `next_thread_name` (`NamesApart`).
- **CmdLineParser.** `LineIsDivided` is about whole lines. `Divided` says the same of
  the part of a line before `argv[i]`, and of the first `k` letters of `argv[i]`, none of
  which takes an argument (`Place`). Whatever was taken lies before `argv[i]`
  (`TakenBefore`). So the strings that an option takes now are new, and no
  two of its lists of arguments are equal. An option's count is the size of the
  set of places where it was typed (`OptionIs`), and each step adds one place. `parse` starts with all options cleared,
  also after a line that was refused, and a line is refused as having too few
  arguments only where the strings left, and the text attached, do not suffice.

## Only model-checked

- Liveness under fairness, which like ENABLED is out of the prover's reach:
  `HandlerReturns`, `MutexIsReleased`, `Finishes`, `EveryoneServed`,
  `LockObtained`, `WaitingEnds`, `ClearEnds`.
- What recursive definitions compute: `Follows` (the loop of `generic_process` in
  one step), `Geohash`, `IntTree`, `AVLTree`, `RedBlackTree`. The prover has no
  induction over data, and no RECURSIVE operators.

## Not modelled

In what is modelled:

- Copying and freeing of fragments, which has no effect but on memory.
- The bytes counted per session, the times printed, and the text of HTTP headers.
- The random number generator of the experiment.
- Simultaneous opens and packets that belong to no connection of the model.
- Name lookup, `accept` and `fork` of the echo server, and the straight-line
  clients of the daytime servers.
- Distances, boxes and radius areas of the geohash, which are floating point.
- Futures of the thread pool; addresses and ports of the server; `swap` and serialization of the trees.
- The text of log messages and headers, statements inside statements, names with
  empty words, and the deletion of the logger's data when the program ends. The
  checks that `cmd_line_parser_check` makes on a parsed line, and its help text.

Other parts of the repository:

- The asynchronous HTTP server over Redis: two threads use one context of hiredis
  without a lock, and what happens then is decided in libraries that are not here.
- The variant with cpp-netlib, the multi-threaded HTTP server, the netfilter
  module and the library samples keep no state of their own between calls.
- The Thrift calculator: handlers that log and compute, and one map.
- The other exercises, the subtitle shifter and the linear solver: a few lines of
  formatting or floating-point arithmetic, for which a test shows as much.
- The rest of dlib. It is a vendored library of more than two hundred thousand
  lines, against some five thousand of the repository's own, so the modelled
  share of all lines is small. Most of it is matrices, optimisation, learning,
  images, windows and parsers: floating-point arithmetic, template
  metaprogramming and platform layers, which TLA+ does not describe and TLC does
  not reach. The classes chosen here are ones with state of their own and
  interleavings or invariants that are hard to test, and the two that the
  repository's own program, `dlib-minimal/main.cpp`, uses.
