----------------------------- MODULE MCMonitors -----------------------------
(***************************************************************************)
(* Objects of dlib for TLC: those that threads wait in, read_write_mutex,  *)
(* pipe, thread_pool and server, and those that dlib-minimal uses, logger  *)
(* and cmd_line_parser.  A behaviour is about one object, with threads and *)
(* bounds of its own; the variables of the others do not change.           *)
(***************************************************************************)
EXTENDS ReadWriteMutex, Sequences

CONSTANTS Objects,              \* what is looked at
          PipeThreads,          \* the threads that use a pipe
          a, b, c,              \* connections
          main, other,          \* clients of a pool; who calls clear
          w1, w2,               \* workers of a pool
          NestingWorkers,       \* of the one whose tasks submit tasks
          NestingTasks,         \* how many these are
          NoThread, NoConnection, starter,
          Off                   \* a variable of another object

VARIABLES object,
          at, waiting,                                  \* pc and asleep of the others
          pipe, item, next, received,                   \* of a pipe
          m,                                            \* of a pool or the loggers
          tasks, destructing, idx, slot, last, log, done, stolen,   \* of a pool
          running,                                      \* of a pool or a server
          shutting_down, cons, thread_count, max_connections, client, conn, service,
          tables, loggers, thread_names, next_thread_name, hookbuf, written, hooked,
          local, sets, statements, life, overtaken,     \* of the loggers
          options, words, have_parsed_line, line, arg, letter, escape, error, typed

pipe_vars == <<pipe, item, next, received>>
pool_vars == <<tasks, destructing, idx, slot, last, log, done, stolen>>
server_vars == <<shutting_down, cons, thread_count, max_connections, client, conn, service>>
logger_vars == <<tables, loggers, thread_names, next_thread_name, hookbuf, written, hooked,
                 local, sets, statements, life, overtaken>>
parser_vars == <<options, words, have_parsed_line, line, arg, letter, escape, error, typed>>
all == <<object, vars, at, waiting, pipe_vars, m, pool_vars, running, server_vars,
         logger_vars, parser_vars>>

-----------------------------------------------------------------------------
\* A pipe that hands over, and one with two places.
Handover == INSTANCE Pipe WITH
    Threads <- PipeThreads, pipe_max_size <- 0, num <- 1, Spurious <- TRUE, MaxItems <- 2,
    pc <- at, asleep <- waiting
Buffer == INSTANCE Pipe WITH
    Threads <- PipeThreads, pipe_max_size <- 2, num <- 1, Spurious <- TRUE, MaxItems <- 3,
    pc <- at, asleep <- waiting

\* Pools with two clients, with tasks that submit tasks, and without threads.
Shared == INSTANCE ThreadPool WITH
    Clients <- {main, other}, Workers <- {w1, w2}, Nested <- FALSE, MaxTasks <- 4,
    pc <- at, asleep <- waiting
Nesting == INSTANCE ThreadPool WITH
    Clients <- {main}, Workers <- NestingWorkers, Nested <- TRUE, MaxTasks <- NestingTasks,
    pc <- at, asleep <- waiting
Empty == INSTANCE ThreadPool WITH
    Clients <- {main, other}, Workers <- {}, Nested <- TRUE, MaxTasks <- 4,
    pc <- at, asleep <- waiting

\* Servers in which anything may fail, anything but the allocation of a
\* param, and nothing while main calls clear.
Fails == INSTANCE Server WITH
    Connections <- {a, b, c}, Clearers <- {}, Limits <- {2},
    Errors <- {"listen", "accept", "add", "param", "thread"},
    pc <- at, asleep <- waiting
Keeps == INSTANCE Server WITH
    Connections <- {a, b, c}, Clearers <- {}, Limits <- {2},
    Errors <- {"listen", "accept", "add", "thread"},
    pc <- at, asleep <- waiting
Cleared == INSTANCE Server WITH
    Connections <- {a, b}, Clearers <- {main}, Limits <- {1, 2}, Errors <- {},
    pc <- at, asleep <- waiting

\* Loggers a and a.b whose settings change, and one that three threads write
\* to: main, one that dlib made, and another one.
Set == INSTANCE Logger WITH
    Threads <- {main, w1}, Plain <- {main}, Loggers <- {"a", "a.b"},
    name <- [l \in {"a", "a.b"} |-> IF l = "a" THEN <<"a">> ELSE <<"a", "b">>],
    Settings <- {"header"}, Streams <- {"cout", "file"},
    MaxSets <- 3, MaxStatements <- 0, MaxLives <- 1, pc <- at
Written == INSTANCE Logger WITH
    Threads <- {main, other, w1}, Plain <- {main, other}, Loggers <- {"a"},
    name <- [l \in {"a"} |-> <<"a">>],
    Settings <- {}, Streams <- {"cout"},
    MaxSets <- 1, MaxStatements <- 2, MaxLives <- 2, pc <- at

\* Options a, b and c, which take no, one and two arguments.
Parser == INSTANCE CmdLineParser WITH
    Names <- {"a", "b", "c"},
    number_of_arguments <- [n \in {"a", "b", "c"} |->
                               IF n = "a" THEN 0 ELSE IF n = "b" THEN 1 ELSE 2],
    Strings <- {[kind |-> t] : t \in {"word", "escape", "dash"}}
               \cup {[kind |-> "long", name |-> n, after |-> t] :
                        n \in {"b", "c"}, t \in {"", "=", "=text"}}
               \cup {[kind |-> "long", name |-> "a", after |-> "=text"]}
               \cup {[kind |-> "short", letters |-> l] : l \in {<<"b">>, <<"a", "b">>, <<"c", "a">>}},
    MaxStrings <- 3, pc <- at, i <- arg, k <- letter

ASSUME /\ Handover!PipeAssumption /\ Buffer!PipeAssumption
       /\ Shared!ThreadPoolAssumption /\ Nesting!ThreadPoolAssumption
       /\ Empty!ThreadPoolAssumption
       /\ Fails!ServerAssumption /\ Keeps!ServerAssumption /\ Cleared!ServerAssumption
       /\ Set!LoggerAssumption /\ Written!LoggerAssumption
       /\ Parser!CmdLineParserAssumption

-----------------------------------------------------------------------------
PipeOff == pipe = Off /\ item = Off /\ next = Off /\ received = Off
PoolOff == /\ tasks = Off /\ destructing = Off /\ idx = Off /\ slot = Off
           /\ last = Off /\ log = Off /\ done = Off /\ stolen = Off
ServerOff == /\ shutting_down = Off /\ cons = Off /\ thread_count = Off /\ client = Off
             /\ max_connections = Off /\ conn = Off /\ service = Off
LoggerOff == /\ tables = Off /\ loggers = Off /\ thread_names = Off /\ next_thread_name = Off
             /\ hookbuf = Off /\ written = Off /\ hooked = Off /\ local = Off
             /\ sets = Off /\ statements = Off /\ life = Off /\ overtaken = Off
ParserOff == /\ options = Off /\ words = Off /\ have_parsed_line = Off /\ line = Off
             /\ arg = Off /\ letter = Off /\ escape = Off /\ error = Off /\ typed = Off

IsPipe == object \in {"handover", "buffer"}
IsPool == object \in {"shared", "nesting", "empty"}
IsServer == object \in {"fails", "keeps", "cleared"}
IsLogger == object \in {"set", "written"}

MCInit ==
    /\ object \in Objects
    /\ Init
    /\ IF IsPipe THEN IF object = "handover" THEN Handover!Init ELSE Buffer!Init
       ELSE PipeOff
    /\ IF IsPool THEN CASE object = "shared" -> Shared!Init
                        [] object = "nesting" -> Nesting!Init
                        [] object = "empty" -> Empty!Init
       ELSE PoolOff
    /\ IF IsServer THEN IF object = "cleared" THEN Cleared!Init ELSE Fails!Init
       ELSE ServerOff
    /\ IF IsLogger THEN IF object = "set" THEN Set!Init ELSE Written!Init
       ELSE LoggerOff
    /\ IF object = "parser" THEN Parser!Init ELSE ParserOff
    /\ object = "mutex" => at = Off
    /\ object = "mutex" \/ IsLogger \/ object = "parser" => waiting = Off
    /\ ~IsPool /\ ~IsLogger => m = Off
    /\ ~IsPool /\ ~IsServer => running = Off

MCNext ==
    /\ UNCHANGED object
    /\ \/ /\ object = "mutex" /\ Next
          /\ UNCHANGED <<at, waiting, pipe_vars, m, pool_vars, running, server_vars,
                         logger_vars, parser_vars>>
       \/ /\ \/ object = "handover" /\ Handover!Next
             \/ object = "buffer" /\ Buffer!Next
          /\ UNCHANGED <<vars, m, pool_vars, running, server_vars, logger_vars, parser_vars>>
       \/ /\ \/ object = "shared" /\ Shared!Next
             \/ object = "nesting" /\ Nesting!Next
             \/ object = "empty" /\ Empty!Next
          /\ UNCHANGED <<vars, pipe_vars, server_vars, logger_vars, parser_vars>>
       \/ /\ \/ object = "fails" /\ Fails!Next
             \/ object = "keeps" /\ Keeps!Next
             \/ object = "cleared" /\ Cleared!Next
          /\ UNCHANGED <<vars, pipe_vars, m, pool_vars, logger_vars, parser_vars>>
       \/ /\ \/ object = "set" /\ Set!Next
             \/ object = "written" /\ Written!Next
          /\ UNCHANGED <<vars, waiting, pipe_vars, pool_vars, running, server_vars, parser_vars>>
       \/ /\ object = "parser" /\ Parser!Next
          /\ UNCHANGED <<vars, waiting, pipe_vars, m, pool_vars, running, server_vars, logger_vars>>

MCSpec == MCInit /\ [][MCNext]_all

\* The fairness of each module, while its object is looked at.
MCFairness ==
    /\ Fairness
    /\ \A t \in PipeThreads :
          /\ WF_(Handover!vars)(object = "handover" /\ Handover!Resume(t))
          /\ WF_(Handover!vars)(object = "handover" /\ Handover!Timeout(t))
          /\ WF_(Buffer!vars)(object = "buffer" /\ Buffer!Resume(t))
          /\ WF_(Buffer!vars)(object = "buffer" /\ Buffer!Timeout(t))
    /\ \A t \in {main} \cup NestingWorkers :
          /\ WF_(Nesting!vars)(object = "nesting" /\ at[t] # "user" /\ Nesting!Step(t))
          /\ WF_(Nesting!vars)(object = "nesting" /\ (Nesting!TaskReturns(t) \/ Nesting!InlineReturns(t)))
    /\ WF_(Fails!vars)(object = "fails" /\ Fails!StartStep)
    /\ WF_(Fails!vars)(object = "fails" /\ Fails!ClearStep(starter))
    /\ WF_(Cleared!vars)(object = "cleared" /\ Cleared!StartStep)
    /\ \A t \in {main, starter} : WF_(Cleared!vars)(object = "cleared" /\ Cleared!ClearStep(t))
    /\ \A k \in {a, b, c} :
          /\ WF_(Fails!vars)(object = "fails" /\ conn[k] = "shut" /\ Fails!OnConnectReturns(k))
          /\ WF_(Fails!vars)(object = "fails" /\ (Fails!Remove(k) \/ Fails!Uncount(k)))
    /\ \A k \in {a, b} :
          /\ WF_(Cleared!vars)(object = "cleared" /\ conn[k] = "shut" /\ Cleared!OnConnectReturns(k))
          /\ WF_(Cleared!vars)(object = "cleared" /\ (Cleared!Remove(k) \/ Cleared!Uncount(k)))

MCFairSpec == MCSpec /\ MCFairness

-----------------------------------------------------------------------------
(* What holds of several objects *)

\* Who sleeps has to wait: in read_write_mutex, where unlock_readonly does not
\* always broadcast; in a pipe and in the thread pool, where enqueue and
\* add_task wake one thread only, so that enough threads are awake for what
\* there is to do; and in the clear() of a server.
NobodyOversleeps ==
    /\ object = "mutex" => NoLostWakeup
    /\ object = "handover" => Handover!NobodyOversleeps
    /\ object = "buffer" => Buffer!NobodyOversleeps
    /\ object = "shared" => Shared!NobodyOversleeps
    /\ object = "nesting" => Nesting!NobodyOversleeps
    /\ object = "cleared" => Cleared!NobodyOversleeps

\* Destructors wait: when ~pipe has deleted the buffer no thread is inside the
\* pipe, and when ~thread_pool has returned all tasks have, and no worker is
\* left.
DestructorsWait ==
    /\ object = "handover" => Handover!DestructorsWait
    /\ object = "buffer" => Buffer!DestructorsWait
    /\ object = "shared" => Shared!DestructorsWait
    /\ object = "nesting" => Nesting!DestructorsWait

\* Calls that block return: the thread pool's add_task, waits and destructor,
\* also when a worker waits for tasks, unless there are tasks that wait for each
\* other or for themselves; and whatever call is inside a pipe when disable is
\* called, unless enable is called.
WaitingEnds ==
    /\ \A t \in {main} \cup NestingWorkers :
          (object = "nesting" /\ at[t] \in {"add_task", "wait_for_task", "wait_for_all_tasks",
                                            "shutdown", "join"})
              ~> (object = "nesting" => at[t] \in {"user", "gone"} \/ Nesting!WaitForEachOther)
    /\ \A t \in PipeThreads :
          (IsPipe /\ at[t] \notin {"idle", "destroyed"} /\ ~pipe.enabled) ~>
              (IsPipe => at[t] \in {"idle", "destroyed"} \/ pipe.enabled)

-----------------------------------------------------------------------------
(* The pipe *)

\* enqueue on a pipe of size 0 takes back its own item or none, and returns
\* true only when a dequeue has received that item.
HandoverIsMine == object = "handover" => Handover!HandoverIsMine

\* Items leave a pipe in the order in which they entered, each at most once.
IsFifo ==
    /\ object = "handover" => Handover!F!Init
    /\ object = "buffer" => Buffer!F!Init
    /\ [][/\ object = "handover" => [Handover!F!Next]_(Handover!F!vars)
          /\ object = "buffer" => [Buffer!F!Next]_(Buffer!F!vars)]_all

-----------------------------------------------------------------------------
(* The thread pool *)

\* Every task submitted waits in one slot, is called by one thread or has
\* returned, also when tasks submit tasks and when the pool has no thread; and
\* until it has, wait_for_task finds it in its slot, although slots are used
\* again.  That holds until the second unlock of an add_task that called its
\* task itself releases the mutex of another thread.
EachTaskOnce ==
    /\ object = "shared" => Shared!EachTaskOnce /\ Shared!WaitersSeeTasks
    /\ object = "nesting" => Nesting!EachTaskOnce /\ Nesting!WaitersSeeTasks
    /\ object = "empty" => Empty!EachTaskOnce

\* add_task hands its task off to a thread which then calls it, whatever the
\* other threads do: none is lost and none is called twice.
NoTaskIsLost == object = "nesting" => Nesting!TasksAreCalledOnce

-----------------------------------------------------------------------------
(* The server *)

\* The server's books are right: thread_count is the number of service
\* threads, although each is counted after it has been created, when it may
\* have ended already; cons holds the open connections and no other, unless
\* the allocation of a param fails; and with clear() in another thread no
\* connection is used after it was closed.
BooksAreRight ==
    /\ object = "fails" => Fails!BooksAreRight
    /\ object = "keeps" => Keeps!BooksAreRight
    /\ object = "cleared" => Cleared!BooksAreRight

\* clear() by start itself returns when on_connect has for all connections.
ClearWaitsForAll ==
    [][object = "fails" /\ starter \in Fails!Clearing /\ at'[starter] = "out" =>
           ~running /\ \A k \in {a, b, c} : service[k] # "on_connect"]_all

\* A clear() by start itself ends, and clear() in another thread makes start()
\* end.
ClearEnds ==
    /\ (object = "fails" /\ starter \in Fails!Clearing) ~>
           (object = "fails" => starter \notin Fails!Clearing)
    /\ (object = "cleared" /\ main \in Cleared!Clearing) ~>
           (object = "cleared" => ~running)

-----------------------------------------------------------------------------
(* The logger and the parser *)

\* A logger has the settings that its name and those above it were given,
\* whenever it was made, and has a hook exactly when it writes to hookbuf;
\* except a level or a stream that was set while its constructor ran.
LoggersAgree ==
    /\ object = "set" => Set!LoggersAgree
    /\ object = "written" => Written!LoggersAgree

\* A message is written as a whole and a hook is given the whole of it, unless
\* the logger's stream was set while its constructor ran; two threads never have
\* the same name, though the system uses ids again, unless dlib did not make
\* them.
MessagesWhole == object = "written" => Written!MessagesWhole

\* A logger that has a hook writes to the buffer that the hook is given, also
\* when it was made while another thread set the hook of all loggers.
HookMeansHookbuf == object = "set" => Set!HookMeansHookbuf

\* Every string of a command line is an option, the first --, an argument of
\* the option before it, or a word, each once, whatever was parsed before; and
\* parse throws ETOO_FEW_ARGS only if there are too few.
LineIsDivided == object = "parser" => Parser!LineIsDivided
=============================================================================
