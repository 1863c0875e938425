----------------------------- MODULE ThreadPool -----------------------------
(***************************************************************************)
(* dlib's thread_pool (dlib/threads/thread_pool_extension.{h,cpp}): as     *)
(* many task slots as worker threads, and tasks that may themselves submit *)
(* tasks and wait for them.  A section under the mutex m that makes one    *)
(* change is one step, taken when m is free; the one of add_task that      *)
(* finds an empty slot and then fills it is two, with m held in between.   *)
(* add_task called by a worker when no slot is empty unlocks m itself and  *)
(* calls the task, and its auto_mutex unlocks m once more when it returns: *)
(* pthread_mutex_unlock of a default mutex then releases m whoever has it. *)
(* From then on nothing protects the pool; the model follows what this     *)
(* does to a thread that is about to fill a slot, and `stolen' records it. *)
(***************************************************************************)
EXTENDS Integers, FiniteSets, Sequences

CONSTANTS
    Clients,        \* threads outside the pool
    Workers,        \* the pool's threads
    NoThread,       \* no thread: m is free
    Nested,         \* whether tasks submit tasks
    MaxTasks        \* bound: tasks submitted

ThreadPoolAssumption ==
    /\ IsFiniteSet(Workers) /\ IsFiniteSet(Clients)
    /\ Clients \cap Workers = {}
    /\ NoThread \notin Clients \cup Workers
    /\ Nested \in BOOLEAN
    /\ MaxTasks \in Nat

AllThreads == Clients \cup Workers
Size == Cardinality(Workers)
Slots == 0 .. Size - 1

VARIABLES
    m,              \* the thread that has locked the mutex
    tasks,          \* the slots
    destructing,    \* we_are_destructing
    pc,             \* where each thread is; "user": in its own code or a task's
    asleep,         \* the threads inside wait()
    running,        \* running[t]: the tasks t is in, innermost last
    idx,            \* idx[t]: the slot add_task found
    slot,           \* slot[t]: the slot worker t took its task from
    last,           \* last[t]: what t's last add_task returned, 0 if none
    log,            \* log[k]: the id and the submitter of the k-th task
    done,           \* the tasks that have been called and have returned
    stolen          \* whether m was released while another thread had it

vars == <<m, tasks, destructing, pc, asleep, running, idx, slot, last, log, done, stolen>>
pool == <<tasks, destructing, log, stolen>>
locals == <<running, idx, slot, last, done>>

Init ==
    /\ m = NoThread
    /\ tasks = [i \in Slots |-> [task_id |-> 0, thread_id |-> NoThread, task |-> 0,
                                 is_being_processed |-> FALSE, next_task_id |-> 2]]
    /\ destructing = FALSE
    /\ pc = [t \in AllThreads |-> IF t \in Workers THEN "loop" ELSE "user"]
    /\ asleep = {}
    /\ running = [t \in AllThreads |-> <<>>]
    /\ idx = [t \in AllThreads |-> 0]
    /\ slot = [t \in AllThreads |-> 0]
    /\ last = [t \in AllThreads |-> 0]
    /\ log = <<>>
    /\ done = {}
    /\ stolen = FALSE

-----------------------------------------------------------------------------
is_empty(i) == tasks[i].task_id = 0
is_ready(i) == ~tasks[i].is_being_processed /\ ~is_empty(i)
is_worker_thread(t) == t \in Workers \/ Size = 0

FirstOf(S) == IF S = {} THEN -1 ELSE CHOOSE i \in S : \A j \in S : i <= j
find_empty_task_slot == FirstOf({i \in Slots : is_empty(i)})
\* Mutant: a task that is being processed is taken again.
find_any_task == FirstOf({i \in Slots : ~is_empty(i)})
find_ready_task == FirstOf({i \in Slots : is_ready(i)})

task_done_signaler == {"add_task", "wait_for_task", "wait_for_all_tasks", "shutdown"}
task_ready_signaler == {"loop"}
broadcast(sig) == {t \in asleep : pc[t] \in sig}

\* t passes the mutex: it has been woken, if it slept, and m is free.
Enters(t, place) == pc[t] = place /\ t \notin asleep /\ m = NoThread
\* t calls a function of the pool; no client does once the destructor runs.
Calls(t) ==
    /\ Enters(t, "user")
    /\ t \in Clients => \A c \in Clients : pc[c] \notin {"shutdown", "join", "gone"}
Goes(t, place) == pc' = [pc EXCEPT ![t] = place]
Sleeps(t, place) == Goes(t, place) /\ asleep' = asleep \cup {t}

-----------------------------------------------------------------------------
(***************************************************************************)
(* add_task and add_task_internal                                          *)
(***************************************************************************)
Submitting == {t \in AllThreads : pc[t] \in {"add_task", "fill"}}

\* Bound: MaxTasks.
MaySubmit(t) ==
    /\ Len(log) + Cardinality(Submitting) < MaxTasks
    /\ t \in Workers => Nested

FindsSlot(t) ==
    /\ find_empty_task_slot # -1
    /\ idx' = [idx EXCEPT ![t] = find_empty_task_slot]
    /\ m' = t
    /\ Goes(t, "fill")
    /\ UNCHANGED <<pool, asleep, running, slot, last, done>>

WaitsForSlot(t) ==
    /\ find_empty_task_slot = -1
    /\ ~is_worker_thread(t)
    /\ Sleeps(t, "add_task")
    /\ UNCHANGED <<m, pool, locals>>

\* m.unlock(), and the task is called right here
CallsInline(t) ==
    /\ find_empty_task_slot = -1
    /\ is_worker_thread(t)
    /\ log' = Append(log, [id |-> 1, by |-> t])
    /\ running' = [running EXCEPT ![t] = Append(@, Len(log) + 1)]
    /\ last' = [last EXCEPT ![t] = 0]
    /\ Goes(t, "user")
    /\ UNCHANGED <<m, tasks, destructing, stolen, asleep, idx, slot, done>>

add_task(t) ==
    \/ Calls(t) /\ MaySubmit(t) /\
          (FindsSlot(t) \/ WaitsForSlot(t) \/ CallsInline(t))
    \/ Enters(t, "add_task") /\ (FindsSlot(t) \/ WaitsForSlot(t))

make_next_task_id(i) == tasks[i].next_task_id * Size + i

signal_ready ==
    LET S == broadcast(task_ready_signaler)
    IN  \/ S = {} /\ UNCHANGED asleep
        \/ \E w \in S : asleep' = asleep \ {w}

Fill(t) ==
    /\ pc[t] = "fill"
    /\ LET i == idx[t]
           id == make_next_task_id(i)
       IN  /\ tasks' = [tasks EXCEPT ![i].task_id = id, ![i].thread_id = t,
                                     ![i].task = Len(log) + 1, ![i].next_task_id = @ + 1]
           /\ log' = Append(log, [id |-> id, by |-> t])
           /\ last' = [last EXCEPT ![t] = id]
    /\ signal_ready
    /\ m' = NoThread
    /\ Goes(t, "user")
    /\ UNCHANGED <<destructing, stolen, running, idx, slot, done>>

\* A task called inside add_task returns, and ~auto_mutex unlocks m again.
InlineReturns(t) ==
    /\ pc[t] = "user"
    /\ Len(running[t]) > (IF t \in Workers THEN 1 ELSE 0)
    /\ done' = done \cup {running[t][Len(running[t])]}
    /\ running' = [running EXCEPT ![t] = SubSeq(@, 1, Len(@) - 1)]
    /\ last' = [last EXCEPT ![t] = 1]
    /\ m' = NoThread
    /\ stolen' = (stolen \/ m # NoThread)
    /\ UNCHANGED <<tasks, destructing, log, pc, asleep, idx, slot>>

-----------------------------------------------------------------------------
(***************************************************************************)
(* The functions that wait for tasks.  With wait_for_task a thread waits   *)
(* for the task it submitted last.  wait_for_all_tasks finds tasks by the  *)
(* thread that submitted them, and workers run many tasks in turn: a task  *)
(* that calls it can wait for itself.                                      *)
(***************************************************************************)
task_id_to_index(id) == id % Size
unfinished(id) == Size # 0 /\ tasks[task_id_to_index(id)].task_id = id

Wait(t, function, condition) ==
    /\ \/ condition /\ Sleeps(t, function)
       \/ ~condition /\ Goes(t, "user") /\ UNCHANGED asleep
    /\ UNCHANGED <<m, pool, locals>>

wait_for_task(t) ==
    /\ \/ Calls(t) /\ last[t] # 0
       \/ Enters(t, "wait_for_task")
    /\ Wait(t, "wait_for_task", unfinished(last[t]))

wait_for_all_tasks(t) ==
    /\ Calls(t) \/ Enters(t, "wait_for_all_tasks")
    /\ Wait(t, "wait_for_all_tasks",
            \E i \in Slots : ~is_empty(i) /\ tasks[i].thread_id = t)

(***************************************************************************)
(* A worker's loop                                                         *)
(***************************************************************************)
WorkerEnds(t) ==
    /\ Enters(t, "loop")
    /\ destructing
    /\ Goes(t, "ended")
    /\ UNCHANGED <<m, pool, asleep, locals>>

WorkerWaits(t) ==
    /\ Enters(t, "loop")
    /\ ~destructing /\ find_ready_task = -1
    /\ Sleeps(t, "loop")
    /\ UNCHANGED <<m, pool, locals>>

WorkerTakes(t) ==
    /\ Enters(t, "loop")
    /\ ~destructing /\ find_ready_task # -1
    /\ tasks' = [tasks EXCEPT ![find_ready_task].is_being_processed = TRUE]
    /\ slot' = [slot EXCEPT ![t] = find_ready_task]
    /\ running' = [running EXCEPT ![t] = <<tasks[find_ready_task].task>>]
    /\ last' = [last EXCEPT ![t] = 0]
    /\ Goes(t, "user")
    /\ UNCHANGED <<m, destructing, stolen, asleep, idx, log, done>>

TaskReturns(t) ==
    /\ t \in Workers
    /\ pc[t] = "user" /\ Len(running[t]) = 1
    /\ done' = done \cup {running[t][1]}
    /\ running' = [running EXCEPT ![t] = <<>>]
    /\ Goes(t, "clear")
    /\ UNCHANGED <<m, pool, asleep, idx, slot, last>>

\* Mutant: nobody is told.
ClearSilent(t) ==
    /\ Enters(t, "clear")
    /\ tasks' = [tasks EXCEPT ![slot[t]].is_being_processed = FALSE,
                              ![slot[t]].task_id = 0]
    /\ Goes(t, "loop")
    /\ UNCHANGED <<m, destructing, stolen, asleep, log, locals>>

Clear(t) ==
    /\ Enters(t, "clear")
    /\ tasks' = [tasks EXCEPT ![slot[t]].is_being_processed = FALSE,
                              ![slot[t]].task_id = 0]
    /\ asleep' = asleep \ broadcast(task_done_signaler)
    /\ Goes(t, "loop")
    /\ UNCHANGED <<m, destructing, stolen, log, locals>>

(***************************************************************************)
(* The destructor of thread_pool, when no other client is inside.          *)
(***************************************************************************)
shutdown_pool(t) ==
    /\ t \in Clients
    /\ \/ Calls(t) /\ \A c \in Clients : pc[c] = "user" /\ running[c] = <<>>
       \/ Enters(t, "shutdown")
    /\ IF \E i \in Slots : ~is_empty(i)
       THEN Sleeps(t, "shutdown") /\ UNCHANGED destructing
       ELSE /\ destructing' = TRUE
            /\ asleep' = asleep \ broadcast(task_ready_signaler)
            /\ Goes(t, "join")
    /\ UNCHANGED <<m, tasks, stolen, log, locals>>

Join(t) ==
    /\ pc[t] = "join"
    /\ \A w \in Workers : pc[w] = "ended"
    /\ Goes(t, "gone")
    /\ UNCHANGED <<m, pool, asleep, locals>>

-----------------------------------------------------------------------------
Step(t) ==
    \/ add_task(t) \/ Fill(t) \/ InlineReturns(t)
    \/ wait_for_task(t) \/ wait_for_all_tasks(t)
    \/ WorkerEnds(t) \/ WorkerWaits(t) \/ WorkerTakes(t)
    \/ TaskReturns(t) \/ Clear(t)
    \/ shutdown_pool(t) \/ Join(t)

Next == \E t \in AllThreads : Step(t)

\* A thread inside the pool goes on, and a task returns in the end.
Fairness ==
    \A t \in AllThreads :
        /\ WF_vars(pc[t] # "user" /\ Step(t))
        /\ WF_vars(TaskReturns(t) \/ InlineReturns(t))

Spec == Init /\ [][Next]_vars /\ Fairness

-----------------------------------------------------------------------------
(***************************************************************************)
(* Properties.                                                             *)
(***************************************************************************)
Ready == {i \in Slots : is_ready(i)}
AtLoop == {w \in Workers : pc[w] = "loop"}

\* No task is lost, and none is called twice: every task that was submitted
\* waits in one slot, or is being called by one thread, or has returned.
TasksAreCalledOnce ==
    \A k \in 1 .. Len(log) :
        Cardinality({i \in Slots : is_ready(i) /\ tasks[i].task = k}) +
        Cardinality({x \in AllThreads \X (1 .. MaxTasks) :
                         x[2] <= Len(running[x[1]]) /\ running[x[1]][x[2]] = k}) +
        (IF k \in done THEN 1 ELSE 0) = 1

\* That, as long as no thread's m was released by another: also when workers
\* call tasks inside add_task, and unlock m twice while nobody has it.
EachTaskOnce == stolen \/ TasksAreCalledOnce

\* What wait_for_task and wait_for_all_tasks look at tells the truth: a task
\* that has not returned still has its slot, with its id and its submitter,
\* and no two tasks share an id, although slots are used again; unless the task
\* was called inside add_task, or m was released under a thread that had it.
WaitersSeeTasks ==
    stolen \/
    \A k \in 1 .. Len(log) :
        /\ log[k].id # 1 /\ k \notin done =>
               LET s == tasks[task_id_to_index(log[k].id)]
               IN  s.task_id = log[k].id /\ s.thread_id = log[k].by
        /\ \A j \in 1 .. Len(log) : log[k].id = log[j].id => j = k \/ log[k].id = 1

\* There is a free worker for every task that waits, so tasks that wait for
\* tasks cannot block the pool; and when such a worker sleeps, enough others
\* have been woken, although add_task wakes only one.
NobodyOversleeps ==
    stolen \/
    /\ Cardinality(Ready) <= Cardinality(AtLoop)
    /\ AtLoop \cap asleep # {} => Cardinality(Ready) <= Cardinality(AtLoop \ asleep)

\* ~thread_pool "blocks until all tasks in the pool have finished": once it
\* has returned every task has, and no worker is left.
DestructorsWait ==
    (\E c \in Clients : pc[c] = "gone") =>
        /\ stolen \/ done = 1 .. Len(log)
        /\ \A w \in Workers : pc[w] = "ended"

\* Worker w waits for the task that v is in.
Awaits(w, v) ==
    /\ pc[v] \in {"user", "wait_for_task", "wait_for_all_tasks"}
    /\ LET s == tasks[slot[v]]
       IN  \/ pc[w] = "wait_for_task" /\ s.task_id = last[w]
           \/ pc[w] = "wait_for_all_tasks" /\ s.task_id # 0 /\ s.thread_id = w

\* Tasks that wait for each other, or one for itself: nothing the pool does
\* can end that.
WaitForEachOther ==
    \E S \in SUBSET Workers \ {{}} : \A w \in S : \E v \in S : Awaits(w, v)
=============================================================================
