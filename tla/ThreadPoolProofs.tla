-------------------------- MODULE ThreadPoolProofs --------------------------
(***************************************************************************)
(* Safety of dlib's thread_pool, for any number of threads and tasks:      *)
(* every task is called once, those who wait for a task find it, there is  *)
(* always a worker for a task that waits, and the destructor returns when  *)
(* all is done.  All of it holds for tasks that submit tasks too, until    *)
(* the second unlock of an add_task that called its task itself releases   *)
(* m while another thread has it.                                          *)
(***************************************************************************)
EXTENDS ThreadPool, FiniteSetTheorems, TLAPS

\* Most steps are about sets and functions; those with arithmetic cite SMT.
USE Zenon

-----------------------------------------------------------------------------
(* The inductive invariant *)

WorkerPlaces == {"loop", "user", "fill", "wait_for_task", "wait_for_all_tasks", "clear", "ended"}
ClientPlaces == {"user", "add_task", "fill", "wait_for_task", "wait_for_all_tasks",
                 "shutdown", "join", "gone"}
TaskType == [task_id : Nat, thread_id : AllThreads \cup {NoThread}, task : Nat,
             is_being_processed : BOOLEAN, next_task_id : Nat]

TypeOK ==
    /\ m \in AllThreads \cup {NoThread}
    /\ tasks \in [Slots -> TaskType]
    /\ destructing \in BOOLEAN
    /\ pc \in [AllThreads -> WorkerPlaces \cup ClientPlaces]
    /\ \A w \in Workers : pc[w] \in WorkerPlaces
    /\ \A c \in Clients : pc[c] \in ClientPlaces
    /\ asleep \subseteq AllThreads
    /\ running \in [AllThreads -> Seq(Nat)]
    /\ idx \in [AllThreads -> Nat]
    /\ slot \in [AllThreads -> Nat]
    /\ log \in Seq([id : Nat, by : AllThreads])
    /\ done \subseteq 1 .. Len(log)

\* m is held by the thread that is about to fill an empty slot.
Locked ==
    \A t \in AllThreads :
        /\ m = t <=> pc[t] = "fill"
        /\ pc[t] = "fill" => idx[t] \in Slots /\ is_empty(idx[t])

\* Who sleeps is in a waiting loop.
SleepsInLoop == \A t \in asleep : pc[t] \in task_done_signaler \cup task_ready_signaler

Busy == {w \in Workers : pc[w] \notin {"loop", "ended"}}

\* Every busy worker has a slot of its own, which stays marked until the worker
\* clears it, and nothing else is marked.  The first task it is in is that of
\* the slot.
Assigned ==
    /\ \A w \in Busy :
          /\ slot[w] \in Slots /\ ~is_empty(slot[w]) /\ tasks[slot[w]].is_being_processed
          /\ pc[w] = "clear" => running[w] = <<>> /\ tasks[slot[w]].task \in done
          /\ pc[w] # "clear" => /\ Len(running[w]) >= 1 /\ running[w][1] = tasks[slot[w]].task
                                /\ tasks[slot[w]].task \notin done
    /\ \A v, w \in Busy : slot[v] = slot[w] => v = w
    /\ \A i \in Slots : tasks[i].is_being_processed => \E w \in Busy : slot[w] = i
    /\ \A w \in Workers \ Busy : running[w] = <<>>

\* A slot that is not empty holds a task with its id and its submitter.
Filled ==
    \A i \in Slots :
        /\ tasks[i].next_task_id >= 2
        /\ ~is_empty(i) =>
              /\ tasks[i].task \in 1 .. Len(log) /\ tasks[i].task_id # 1
              /\ log[tasks[i].task].id = tasks[i].task_id
              /\ log[tasks[i].task].by = tasks[i].thread_id
              /\ task_id_to_index(tasks[i].task_id) = i
        /\ is_ready(i) => tasks[i].task \notin done

\* A task that was given a slot and has not returned is in the slot its id
\* tells, the ids differ, and those that a slot gives in future are larger.
Logged ==
    \A k \in 1 .. Len(log) : log[k].id # 1 =>
        LET i == task_id_to_index(log[k].id)
        IN  /\ Size > 0 /\ i \in Slots
            /\ log[k].id < make_next_task_id(i)
            /\ k \notin done => ~is_empty(i) /\ tasks[i].task = k
            /\ \A j \in 1 .. Len(log) : log[j].id = log[k].id => j = k

\* Where in running[t] the tasks are that t calls inside add_task.
InlineAt(t) == {n \in 1 .. Len(running[t]) : t \in Workers => n > 1}

\* The tasks with id 1 are those called inside add_task, each by one thread; a
\* client does that only in a pool without threads.
Inline ==
    /\ Size > 0 => \A c \in Clients : running[c] = <<>>
    /\ \A t \in AllThreads : \A n \in InlineAt(t) :
          /\ running[t][n] \in (1 .. Len(log)) \ done /\ running[t][n] >= n
          /\ log[running[t][n]].id = 1
    /\ \A t, u \in AllThreads : \A n \in InlineAt(t), l \in InlineAt(u) :
          running[t][n] = running[u][l] => t = u /\ n = l
    /\ \A k \in (1 .. Len(log)) \ done : log[k].id = 1 =>
          \E t \in AllThreads : \E n \in InlineAt(t) : running[t][n] = k

Bounded == Len(log) + Cardinality(Submitting) <= MaxTasks

\* One client runs the destructor, while the others stay outside.
Destroying ==
    /\ \A c \in Clients : pc[c] \in {"shutdown", "join", "gone"} =>
          \A d \in Clients : running[d] = <<>> /\ (d # c => pc[d] = "user")
    /\ destructing <=> \E c \in Clients : pc[c] \in {"join", "gone"}
    /\ destructing => /\ \A i \in Slots : is_empty(i)
                      /\ Busy = {}
    /\ \A w \in Workers : pc[w] = "ended" => destructing
    /\ \A c \in Clients : pc[c] = "gone" => \A w \in Workers : pc[w] = "ended"

\* While a worker sleeps in its loop enough others are awake.
EnoughAwake == AtLoop \cap asleep # {} => Cardinality(Ready) <= Cardinality(AtLoop \ asleep)

IInv ==
    /\ TypeOK
    /\ Locked
    /\ SleepsInLoop
    /\ Assigned
    /\ Filled
    /\ Logged
    /\ Inline
    /\ Bounded
    /\ Destroying
    /\ EnoughAwake

-----------------------------------------------------------------------------
(* Slots *)

\* There are as many slots as workers.
LEMMA SlotFacts ==
    ASSUME ThreadPoolAssumption
    PROVE  /\ Size \in Nat /\ Slots \subseteq Nat
           /\ Size = 0 => Slots = {} /\ Workers = {}
           /\ IsFiniteSet(Slots) /\ Cardinality(Slots) = Size
           /\ NoThread \notin AllThreads /\ Clients \cap Workers = {}
           /\ AllThreads = Clients \cup Workers /\ MaxTasks \in Nat
<1>1. IsFiniteSet(Workers)
  BY DEF ThreadPoolAssumption
<1>2. Size \in Nat /\ (Size = 0 => Workers = {})
  BY <1>1, FS_CardinalityType, FS_EmptySet DEF Size
<1>3. IsFiniteSet(0 .. Size - 1) /\ Cardinality(0 .. Size - 1) = IF 0 > Size - 1 THEN 0 ELSE (Size - 1) - 0 + 1
  <2>1. 0 \in Int /\ Size - 1 \in Int
    BY <1>2, SMT
  <2> QED
    BY <2>1, FS_Interval
<1>4. Slots \subseteq Nat /\ IsFiniteSet(Slots) /\ Cardinality(Slots) = Size
  BY <1>2, <1>3, SMT DEF Slots
<1>5. Size = 0 => Slots = {}
  BY SMT DEF Slots
<1> QED
  BY <1>2, <1>4, <1>5 DEF ThreadPoolAssumption, AllThreads

\* The slot that find_empty_task_slot and find_ready_task return.
LEMMA First ==
    ASSUME NEW S \in SUBSET Nat
    PROVE  /\ FirstOf(S) = -1 <=> S = {}
           /\ S # {} => FirstOf(S) \in S
<1>1. CASE S = {}
  BY <1>1 DEF FirstOf
<1>2. CASE S # {}
  <2> DEFINE R == {x \in Nat \X Nat : x[1] < x[2]}
  <2>1. IsWellFoundedOn(R, Nat)
    BY NatLessThanWellFounded DEF OpToRel
  <2> HIDE DEF R
  <2>2. PICK i \in S : \A j \in S : <<j, i>> \notin R
    BY <1>2, <2>1, WFMin
  <2>3. ASSUME NEW j \in S PROVE i <= j
    <3>1. <<j, i>> \notin R /\ i \in Nat /\ j \in Nat
      BY <2>2
    <3>2. ~(<<j, i>>[1] < <<j, i>>[2])
      BY <3>1 DEF R
    <3> QED
      BY <3>1, <3>2, SMT
  <2>4. FirstOf(S) \in S
    BY <1>2, <2>3 DEF FirstOf
  <2> QED
    BY <1>2, <2>4, SMT
<1> QED
  BY <1>1, <1>2

\* The slot of an id that make_next_task_id gives.
LEMMA Residue ==
    ASSUME NEW z \in Nat, z > 0, NEW n \in Nat, NEW i \in 0 .. z - 1
    PROVE  (n * z + i) % z = i
<1> DEFINE a == n * z + i
           d == a \div z
           r == a % z
<1>1. a \in Nat /\ d \in Int /\ r \in Int /\ a = z * d + r /\ 0 <= r /\ r < z
  BY SMT
<1>2. z * (d - n) = i - r
  <2>1. n * z \in Int /\ z * d \in Int /\ z * (d - n) = z * d - n * z
    BY <1>1, SMT
  <2> HIDE DEF d, r
  <2> QED
    BY <1>1, <2>1, SMT
<1> HIDE DEF a, d, r
<1> DEFINE e == d - n
<1>3. e \in Int /\ z * e = i - r
  BY <1>1, <1>2, SMT
<1> HIDE DEF e
<1>4. e < 1
  <2> SUFFICES ASSUME e >= 1 PROVE FALSE
    BY <1>3, SMT
  <2>1. z * (e - 1) >= 0 /\ z * (e - 1) = z * e - z /\ z * e \in Int
    BY <1>3, SMT
  <2> QED
    BY <1>1, <1>3, <2>1, SMT
<1>5. e > -1
  <2> SUFFICES ASSUME e <= -1 PROVE FALSE
    BY <1>3, SMT
  <2>1. z * (-1 - e) >= 0 /\ z * (-1 - e) = -z - z * e /\ z * e \in Int
    BY <1>3, SMT
  <2> QED
    BY <1>1, <1>3, <2>1, SMT
<1>6. e = 0
  BY <1>3, <1>4, <1>5, SMT
<1>7. r = i
  BY <1>1, <1>3, <1>6, SMT
<1> QED
  BY <1>7 DEF r, a

-----------------------------------------------------------------------------
(* Steps that move one thread *)

\* The threads that are counted against the bound, t and the others apart.
LEMMA CountSubmitting ==
    ASSUME ThreadPoolAssumption, IInv, NEW t \in AllThreads, NEW new, pc' = [pc EXCEPT ![t] = new]
    PROVE  /\ IsFiniteSet(Submitting) /\ Cardinality(Submitting) \in Nat
           /\ Cardinality(Submitting') \in Nat
           /\ pc[t] \in {"add_task", "fill"} /\ new \in {"add_task", "fill"} =>
                  Cardinality(Submitting') = Cardinality(Submitting)
           /\ pc[t] \notin {"add_task", "fill"} /\ new \notin {"add_task", "fill"} =>
                  Cardinality(Submitting') = Cardinality(Submitting)
           /\ pc[t] \notin {"add_task", "fill"} /\ new \in {"add_task", "fill"} =>
                  Cardinality(Submitting') = Cardinality(Submitting) + 1
           /\ pc[t] \in {"add_task", "fill"} /\ new \notin {"add_task", "fill"} =>
                  Cardinality(Submitting') = Cardinality(Submitting) - 1
<1> DEFINE P == {"add_task", "fill"}
<1>1. pc'[t] = new /\ \A u \in AllThreads : u # t => pc'[u] = pc[u]
  BY DEF IInv, TypeOK
<1>2. IsFiniteSet(AllThreads)
  BY FS_Union DEF ThreadPoolAssumption, AllThreads
<1>3. Submitting \subseteq AllThreads /\ Submitting' \subseteq AllThreads
  BY DEF Submitting
<1>4. IsFiniteSet(Submitting) /\ IsFiniteSet(Submitting')
  BY <1>2, <1>3, FS_Subset
<1>5. Cardinality(Submitting) \in Nat /\ Cardinality(Submitting') \in Nat
  BY <1>4, FS_CardinalityType
<1>6. CASE pc[t] \in P /\ new \in P
  <2>1. Submitting' = Submitting
    BY <1>1, <1>6 DEF Submitting
  <2> QED
    BY <1>4, <1>5, <1>6, <2>1
<1>7. CASE pc[t] \notin P /\ new \notin P
  <2>1. Submitting' = Submitting
    BY <1>1, <1>7 DEF Submitting
  <2> QED
    BY <1>4, <1>5, <1>7, <2>1
<1>8. CASE pc[t] \notin P /\ new \in P
  <2>1. Submitting' = Submitting \cup {t} /\ t \notin Submitting
    BY <1>1, <1>8 DEF Submitting
  <2> QED
    BY <1>4, <1>5, <1>8, <2>1, FS_AddElement
<1>9. CASE pc[t] \in P /\ new \notin P
  <2>1. Submitting' = Submitting \ {t} /\ t \in Submitting
    BY <1>1, <1>9 DEF Submitting
  <2> QED
    BY <1>4, <1>5, <1>9, <2>1, FS_RemoveElement
<1> QED
  BY <1>6, <1>7, <1>8, <1>9

\* Each task called inside add_task is called once.
LEMMA InlineApart ==
    ASSUME Inline, NEW u \in AllThreads, NEW v \in AllThreads, NEW n \in InlineAt(u), NEW l \in InlineAt(v),
           running[u][n] = running[v][l]
    PROVE  u = v /\ n = l
<1>1. \A i \in InlineAt(u), j \in InlineAt(v) : running[u][i] = running[v][j] => u = v /\ i = j
  BY DEF Inline
<1>2. running[u][n] = running[v][l] => u = v /\ n = l
  BY <1>1, SMT
<1> QED
  BY <1>2

\* What is called inside add_task stays as it is when other tasks are
\* submitted, taken and done with.
LEMMA InlineKept ==
    ASSUME Inline, \A c \in Clients : running'[c] = running[c],
           \A u \in AllThreads : /\ InlineAt(u)' = InlineAt(u)
                                 /\ \A n \in InlineAt(u) : running'[u][n] = running[u][n],
           \A k \in 1 .. Len(log) : k \in 1 .. Len(log') /\ log'[k].id = log[k].id,
           \A k \in 1 .. Len(log') : log'[k].id = 1 => k \in 1 .. Len(log),
           done \subseteq done',
           \A k \in 1 .. Len(log) : log[k].id = 1 /\ k \in done' => k \in done
    PROVE  Inline'
<1>1. Size > 0 => \A c \in Clients : running'[c] = <<>>
  BY DEF Inline
<1>2. ASSUME NEW u \in AllThreads, NEW n \in InlineAt(u)'
      PROVE  /\ running'[u][n] \in (1 .. Len(log')) \ done' /\ running'[u][n] >= n
             /\ log'[running'[u][n]].id = 1
  <2>1. n \in InlineAt(u) /\ running'[u][n] = running[u][n]
    BY <1>2
  <2>2. /\ running[u][n] \in (1 .. Len(log)) \ done /\ running[u][n] >= n
        /\ log[running[u][n]].id = 1
    BY <2>1 DEF Inline
  <2> QED
    BY <2>1, <2>2
<1>3. ASSUME NEW u \in AllThreads, NEW v \in AllThreads, NEW n \in InlineAt(u)', NEW l \in InlineAt(v)',
             running'[u][n] = running'[v][l]
      PROVE  u = v /\ n = l
  <2>1. n \in InlineAt(u) /\ l \in InlineAt(v) /\ running[u][n] = running[v][l]
    BY <1>3
  <2> QED
    BY <2>1, InlineApart, SMT
<1>4. ASSUME NEW k \in (1 .. Len(log')) \ done', log'[k].id = 1
      PROVE  \E u \in AllThreads : \E n \in InlineAt(u)' : running'[u][n] = k
  <2>1. k \in (1 .. Len(log)) \ done /\ log[k].id = 1
    BY <1>4
  <2>2. PICK u \in AllThreads : \E n \in InlineAt(u) : running[u][n] = k
    BY <2>1 DEF Inline
  <2> QED
    BY <2>2, ZenonT(30)
<1> QED
  BY <1>1, <1>2, <1>3, <1>4 DEF Inline

\* What is said of slots and tasks stays true when neither of them changes.
LEMMA TablesStay ==
    ASSUME Filled, Logged, Inline, UNCHANGED <<tasks, log, running, done>>
    PROVE  Filled' /\ Logged' /\ Inline'
<1>1. Filled'
  BY SMT DEF Filled, is_empty, is_ready, task_id_to_index
<1>2. Logged'
  BY SMT DEF Logged, is_empty, make_next_task_id, task_id_to_index
<1>3. \A t \in AllThreads : InlineAt(t)' = InlineAt(t)
  BY DEF InlineAt
<1>4. Inline'
  BY <1>3, InlineKept
<1> QED
  BY <1>1, <1>2, <1>4

\* t goes to a place outside the workers' loop, as it was before; nothing else
\* changes but m, idx and who sleeps.
LEMMA MoveInv ==
    ASSUME ThreadPoolAssumption, IInv, NEW t \in AllThreads, NEW new,
           pc' = [pc EXCEPT ![t] = new], UNCHANGED <<pool, running, slot, done>>,
           t \in Workers => /\ pc[t] \in {"user", "wait_for_task", "wait_for_all_tasks"}
                            /\ new \in {"user", "wait_for_task", "wait_for_all_tasks", "fill"},
           t \in Clients => /\ pc[t] \in {"user", "add_task", "wait_for_task", "wait_for_all_tasks"}
                            /\ new \in {"user", "add_task", "wait_for_task", "wait_for_all_tasks", "fill"}
                            /\ \A c \in Clients : pc[c] \notin {"shutdown", "join", "gone"},
           \/ asleep' = asleep
           \/ asleep' = asleep \cup {t} /\ new \in task_done_signaler,
           t \notin asleep,
           IF new = "fill"
           THEN m = NoThread /\ m' = t /\ idx' = [idx EXCEPT ![t] = find_empty_task_slot] /\ find_empty_task_slot # -1
           ELSE m' = m /\ idx' = idx,
           Bounded'
    PROVE  IInv'
<1>0. /\ TypeOK /\ Locked /\ SleepsInLoop /\ Assigned /\ Filled /\ Logged /\ Inline /\ Destroying
      /\ EnoughAwake
  BY DEF IInv
<1>1. pc'[t] = new /\ \A u \in AllThreads : u # t => pc'[u] = pc[u]
  BY <1>0 DEF TypeOK
<1>2. Busy' = Busy /\ AtLoop' = AtLoop /\ Clients \subseteq AllThreads /\ Workers \subseteq AllThreads
  <2>1. Clients \subseteq AllThreads /\ Workers \subseteq AllThreads
    BY DEF AllThreads
  <2>2. t \in Workers => pc[t] \notin {"loop", "ended"} /\ new \notin {"loop", "ended"}
    OBVIOUS
  <2>3. Busy' = Busy
    BY <1>1, <2>1, <2>2 DEF Busy
  <2>4. AtLoop' = AtLoop
    BY <1>1, <2>1, <2>2 DEF AtLoop
  <2> QED
    BY <2>1, <2>3, <2>4
<1>3. UNCHANGED <<tasks, destructing, log, running, slot, done>>
  BY DEF pool
<1>4. new = "fill" => find_empty_task_slot \in Slots /\ is_empty(find_empty_task_slot)
  BY SlotFacts, First DEF find_empty_task_slot
<1>5. TypeOK'
  <2>1. new \in WorkerPlaces \cup ClientPlaces
    BY SlotFacts DEF WorkerPlaces, ClientPlaces
  <2>2. pc' \in [AllThreads -> WorkerPlaces \cup ClientPlaces]
    BY <1>0, <2>1 DEF TypeOK
  <2>3. \A w \in Workers : pc'[w] \in WorkerPlaces
    BY <1>0, <1>1, <1>2 DEF TypeOK, WorkerPlaces
  <2>4. \A c \in Clients : pc'[c] \in ClientPlaces
    BY <1>0, <1>1, <1>2 DEF TypeOK, ClientPlaces
  <2>5. idx' \in [AllThreads -> Nat] /\ m' \in AllThreads \cup {NoThread}
    BY <1>0, <1>4, SlotFacts DEF TypeOK
  <2> QED
    BY <1>0, <1>3, <2>2, <2>3, <2>4, <2>5 DEF TypeOK
<1>6. Locked'
  <2>1. \A u \in AllThreads : pc[u] = "fill" <=> m = u
    BY <1>0 DEF Locked
  <2>2. CASE new = "fill"
    BY <1>0, <1>1, <1>3, <1>4, <2>1, <2>2, SlotFacts, SMTT(60) DEF Locked, is_empty, TypeOK
  <2>3. CASE new # "fill"
    <3>1. pc[t] # "fill"
      BY SlotFacts
    <3> QED
      BY <1>0, <1>1, <1>3, <2>3, <3>1 DEF Locked, is_empty
  <2> QED
    BY <2>2, <2>3
<1>7. SleepsInLoop'
  BY <1>0, <1>1, SMTT(60) DEF SleepsInLoop, TypeOK, task_done_signaler, task_ready_signaler
<1>8. Assigned'
  <2>1. \A w \in Workers : pc'[w] = "clear" <=> pc[w] = "clear"
    BY <1>1, <1>2
  <2> QED
    BY <1>0, <1>2, <1>3, <2>1, SMT DEF Assigned, is_empty, Busy
<1>9. Filled' /\ Logged' /\ Inline'
  BY <1>0, <1>3, TablesStay
<1>10. Destroying'
  BY <1>0, <1>1, <1>2, <1>3, SlotFacts, SMT DEF Destroying, is_empty, Busy
<1>11. EnoughAwake'
  <2>1. Ready' = Ready
    BY <1>3 DEF Ready, is_ready, is_empty
  <2>2. t \notin AtLoop
    BY SlotFacts DEF AtLoop
  <2>3. AtLoop' \cap asleep' = AtLoop \cap asleep /\ AtLoop' \ asleep' = AtLoop \ asleep
    BY <1>2, <2>2
  <2> QED
    BY <1>0, <2>1, <2>3 DEF EnoughAwake
<1> QED
  BY <1>5, <1>6, <1>7, <1>8, <1>9, <1>10, <1>11 DEF IInv

\* A client inside a function of the pool keeps the destructor away.
LEMMA NobodyDestroys ==
    ASSUME ThreadPoolAssumption, IInv, NEW t \in AllThreads,
           \/ Calls(t)
           \/ pc[t] \in {"add_task", "wait_for_all_tasks"}
           \/ pc[t] = "wait_for_task",
           t \in Clients
    PROVE  \A c \in Clients : pc[c] \notin {"shutdown", "join", "gone"}
<1>1. CASE Calls(t)
  BY <1>1 DEF Calls
<1>2. CASE pc[t] \in {"add_task", "wait_for_all_tasks", "wait_for_task"}
  BY <1>2 DEF IInv, Destroying
<1> QED
  BY <1>1, <1>2

\* add_task finds an empty slot or waits for one.
LEMMA FindsOrWaitsInv ==
    ASSUME ThreadPoolAssumption, IInv, NEW t \in AllThreads,
           \/ Calls(t) /\ MaySubmit(t)
           \/ Enters(t, "add_task"),
           FindsSlot(t) \/ WaitsForSlot(t)
    PROVE  IInv'
<1>1. /\ pc[t] \in {"user", "add_task"} /\ t \notin asleep /\ m = NoThread
      /\ t \in Workers => pc[t] = "user"
  BY DEF Calls, Enters, IInv, TypeOK, WorkerPlaces
<1>2. t \in Clients => \A c \in Clients : pc[c] \notin {"shutdown", "join", "gone"}
  BY <1>1, NobodyDestroys DEF Enters
<1> DEFINE new == IF FindsSlot(t) THEN "fill" ELSE "add_task"
<1>3. /\ pc' = [pc EXCEPT ![t] = new] /\ UNCHANGED <<pool, running, slot, done>>
      /\ new \in {"fill", "add_task"}
      /\ new = "add_task" => t \notin Workers
  BY DEF FindsSlot, WaitsForSlot, Goes, Sleeps, locals, is_worker_thread
<1>4. Bounded'
  <2>1. /\ Cardinality(Submitting') \in Nat /\ Cardinality(Submitting) \in Nat
        /\ pc[t] = "add_task" => Cardinality(Submitting') = Cardinality(Submitting)
        /\ pc[t] = "user" => Cardinality(Submitting') = Cardinality(Submitting) + 1
    BY <1>1, <1>3, CountSubmitting
  <2>2. Len(log) \in Nat /\ log' = log /\ MaxTasks \in Nat
    BY <1>3, SlotFacts, SMT DEF IInv, TypeOK, pool
  <2>3. CASE pc[t] = "add_task"
    BY <2>1, <2>2, <2>3 DEF IInv, Bounded
  <2>4. CASE pc[t] = "user"
    BY <2>1, <2>2, <2>4, SMT DEF MaySubmit, Bounded, Enters
  <2> QED
    BY <1>1, <2>3, <2>4
<1>5. CASE FindsSlot(t)
  BY <1>1, <1>2, <1>3, <1>4, <1>5, MoveInv DEF FindsSlot, Goes
<1>6. CASE WaitsForSlot(t)
  <2>1. /\ pc' = [pc EXCEPT ![t] = "add_task"] /\ asleep' = asleep \cup {t} /\ m' = m /\ idx' = idx
        /\ "add_task" \in task_done_signaler /\ t \notin Workers
    BY <1>6 DEF WaitsForSlot, Sleeps, Goes, locals, task_done_signaler, is_worker_thread
  <2> QED
    BY <1>1, <1>2, <1>3, <1>4, <2>1, MoveInv
<1> QED
  BY <1>5, <1>6

\* wait_for_task and wait_for_all_tasks wait or return.
LEMMA WaitInv ==
    ASSUME ThreadPoolAssumption, IInv, NEW t \in AllThreads, wait_for_task(t) \/ wait_for_all_tasks(t)
    PROVE  IInv'
<1>1. PICK function \in {"wait_for_task", "wait_for_all_tasks"}, condition \in BOOLEAN :
          /\ Wait(t, function, condition)
          /\ Calls(t) \/ Enters(t, function)
  <2>1. CASE wait_for_task(t)
    BY <2>1 DEF wait_for_task, unfinished
  <2>2. CASE wait_for_all_tasks(t)
    <3> DEFINE C == \E i \in Slots : ~is_empty(i) /\ tasks[i].thread_id = t
    <3>1. C \in BOOLEAN /\ Wait(t, "wait_for_all_tasks", C)
      BY <2>2 DEF wait_for_all_tasks
    <3> HIDE DEF C
    <3> QED
      BY <2>2, <3>1 DEF wait_for_all_tasks
  <2> QED
    BY <2>1, <2>2
<1>2. /\ pc[t] \in {"user", function} /\ t \notin asleep
      /\ t \in Workers => t \notin Clients
  BY <1>1, SlotFacts DEF Calls, Enters
<1>3. t \in Clients => \A c \in Clients : pc[c] \notin {"shutdown", "join", "gone"}
  BY <1>1, NobodyDestroys DEF Enters
<1>4. PICK new \in {"user", function} :
          /\ pc' = [pc EXCEPT ![t] = new]
          /\ \/ asleep' = asleep
             \/ asleep' = asleep \cup {t} /\ new \in task_done_signaler
          /\ m' = m /\ idx' = idx /\ UNCHANGED <<pool, running, slot, done>>
  BY <1>1 DEF Wait, Sleeps, Goes, locals, task_done_signaler
<1>5. Bounded'
  <2>1. Cardinality(Submitting') = Cardinality(Submitting)
    BY <1>2, <1>4, CountSubmitting
  <2> QED
    BY <1>4, <2>1 DEF IInv, Bounded, pool
<1> QED
  BY <1>1, <1>2, <1>3, <1>4, <1>5, MoveInv, SlotFacts

-----------------------------------------------------------------------------
(* Tasks called inside add_task *)

\* Busy workers keep their slots when only what is called inside add_task changes.
LEMMA AssignedKept ==
    ASSUME Assigned, UNCHANGED <<pc, tasks, slot>>, done \subseteq done',
           \A w \in Busy : tasks[slot[w]].task \in done' => tasks[slot[w]].task \in done,
           \A w \in Busy : pc[w] # "clear" => Len(running'[w]) >= 1 /\ running'[w][1] = running[w][1],
           \A w \in Workers : running[w] = <<>> => running'[w] = <<>>
    PROVE  Assigned'
<1>1. Busy' = Busy /\ Busy \subseteq Workers
  BY DEF Busy
<1>2. ASSUME NEW w \in Busy
      PROVE  /\ slot'[w] \in Slots /\ tasks'[slot'[w]].task_id # 0 /\ tasks'[slot'[w]].is_being_processed
             /\ pc'[w] = "clear" => running'[w] = <<>> /\ tasks'[slot'[w]].task \in done'
             /\ pc'[w] # "clear" => /\ Len(running'[w]) >= 1 /\ running'[w][1] = tasks'[slot'[w]].task
                                    /\ tasks'[slot'[w]].task \notin done'
  <2>1. /\ slot[w] \in Slots /\ tasks[slot[w]].task_id # 0 /\ tasks[slot[w]].is_being_processed
        /\ pc[w] = "clear" => running[w] = <<>> /\ tasks[slot[w]].task \in done
        /\ pc[w] # "clear" => running[w][1] = tasks[slot[w]].task /\ tasks[slot[w]].task \notin done
    BY DEF Assigned, is_empty
  <2> QED
    BY <1>1, <2>1
<1>3. \A w \in Workers \ Busy : running'[w] = <<>>
  BY DEF Assigned
<1>4. /\ \A v, w \in Busy : slot'[v] = slot'[w] => v = w
      /\ \A i \in Slots : tasks'[i].is_being_processed => \E w \in Busy : slot'[w] = i
  BY DEF Assigned
<1> QED
  BY <1>1, <1>2, <1>3, <1>4 DEF Assigned, is_empty

\* A task with the id 1 is not the one of a slot.
LEMMA InlineNotInSlot ==
    ASSUME Filled, NEW k, log[k].id = 1, NEW i \in Slots, ~is_empty(i)
    PROVE  tasks[i].task # k
BY DEF Filled

\* When a thread calls a task itself, or is done with it, the books change and
\* nothing else does.
LEMMA OnlyBooks ==
    ASSUME ThreadPoolAssumption, IInv, TypeOK', Assigned', Filled', Logged', Inline', Bounded',
           UNCHANGED <<m, pc, asleep, tasks, destructing, idx>>,
           \/ \A c \in Clients : running'[c] = running[c]
           \/ \A c \in Clients : pc[c] \notin {"shutdown", "join", "gone"}
    PROVE  IInv'
<1>1. Locked'
  BY DEF IInv, Locked, is_empty
<1>2. SleepsInLoop'
  BY DEF IInv, SleepsInLoop, task_done_signaler, task_ready_signaler
<1>3. Busy' = Busy /\ AtLoop' = AtLoop /\ Ready' = Ready
  BY DEF Busy, AtLoop, Ready, is_ready, is_empty
<1>4. Destroying'
  BY <1>3 DEF IInv, Destroying, is_empty
<1>5. EnoughAwake'
  BY <1>3 DEF IInv, EnoughAwake
<1> QED
  BY <1>1, <1>2, <1>4, <1>5 DEF IInv

\* The lengths and the first tasks of what is running.
LEMMA RunningFacts ==
    ASSUME ThreadPoolAssumption, IInv, NEW t \in AllThreads
    PROVE  /\ running[t] \in Seq(Nat) /\ Len(running[t]) \in Nat /\ Len(log) \in Nat
           /\ log \in Seq([id : Nat, by : AllThreads])
           /\ done \subseteq 1 .. Len(log)
           /\ t \in Workers /\ pc[t] = "user" =>
                 /\ t \in Busy /\ Len(running[t]) >= 1 /\ running[t][1] \in 1 .. Len(log)
                 /\ slot[t] \in Slots /\ ~is_empty(slot[t]) /\ running[t][1] = tasks[slot[t]].task
           /\ Size > 0 /\ t \in Clients => Len(running[t]) = 0
<1>1. /\ running[t] \in Seq(Nat) /\ log \in Seq([id : Nat, by : AllThreads])
      /\ done \subseteq 1 .. Len(log)
  BY DEF IInv, TypeOK
<1>2. Len(running[t]) \in Nat
  BY <1>1, SMT
<1>3. Len(log) \in Nat
  BY <1>1, SMT
<1>4. ASSUME t \in Workers, pc[t] = "user"
      PROVE  /\ t \in Busy /\ Len(running[t]) >= 1 /\ running[t][1] \in 1 .. Len(log)
             /\ slot[t] \in Slots /\ ~is_empty(slot[t]) /\ running[t][1] = tasks[slot[t]].task
  <2>1. t \in Busy
    BY <1>4 DEF Busy
  <2>2. /\ Len(running[t]) >= 1 /\ running[t][1] = tasks[slot[t]].task
        /\ slot[t] \in Slots /\ ~is_empty(slot[t])
    BY <1>4, <2>1 DEF IInv, Assigned
  <2> QED
    BY <2>1, <2>2 DEF IInv, Filled
<1>5. Size > 0 /\ t \in Clients => Len(running[t]) = 0
  <2>1. Size > 0 /\ t \in Clients => running[t] = <<>>
    BY DEF IInv, Inline
  <2> QED
    BY <2>1, SMT
<1> QED
  BY <1>1, <1>2, <1>3, <1>4, <1>5

\* add_task calls the task itself.
LEMMA CallsInlineInv ==
    ASSUME ThreadPoolAssumption, IInv, NEW t \in AllThreads,
           Calls(t), MaySubmit(t), CallsInline(t)
    PROVE  IInv'
<1> DEFINE L == Len(log)
           r == running[t]
           new == [id |-> 1, by |-> t]
<1>1. /\ t \in Workers \/ Size = 0
      /\ Size = 0 => Workers = {}
      /\ \A c \in Clients : c \notin Workers
      /\ Clients \subseteq AllThreads /\ Workers \subseteq AllThreads
  BY SlotFacts DEF CallsInline, is_worker_thread
<1>2. /\ pc[t] = "user"
      /\ t \in Clients => \A c \in Clients : pc[c] \notin {"shutdown", "join", "gone"}
  BY DEF Calls, Enters
<1>3. /\ TypeOK /\ log' = Append(log, new) /\ running' = [running EXCEPT ![t] = Append(r, L + 1)]
      /\ pc' = pc /\ UNCHANGED <<m, tasks, destructing, asleep, idx, slot, done>>
  BY DEF CallsInline, Goes, Calls, Enters, IInv, TypeOK
<1>4. new \in [id : Nat, by : AllThreads] /\ new.id = 1
  OBVIOUS
<1>5. /\ L \in Nat /\ Len(r) \in Nat /\ done \subseteq 1 .. L /\ r \in Seq(Nat)
      /\ log \in Seq([id : Nat, by : AllThreads])
      /\ t \in Workers => t \in Busy /\ Len(r) >= 1 /\ r[1] \in 1 .. L
  BY <1>2, RunningFacts
<1>6. /\ log' \in Seq([id : Nat, by : AllThreads]) /\ Len(log') = L + 1
      /\ \A k \in 1 .. L : log'[k] = log[k]
      /\ log'[L + 1].id = 1
  <2> HIDE DEF new
  <2>1. /\ log' \in Seq([id : Nat, by : AllThreads]) /\ Len(log') = L + 1
        /\ \A k \in 1 .. L : log'[k] = log[k]
        /\ log'[L + 1] = new
    BY <1>3, <1>4, <1>5, SMT
  <2> QED
    BY <1>4, <2>1
<1> HIDE DEF new
<1>7. /\ running'[t] \in Seq(Nat) /\ Len(running'[t]) = Len(r) + 1
      /\ \A n \in 1 .. Len(r) : running'[t][n] = r[n]
      /\ running'[t][Len(r) + 1] = L + 1
      /\ \A u \in AllThreads : u # t => running'[u] = running[u]
      /\ running' \in [AllThreads -> Seq(Nat)]
  <2> DEFINE q == Append(r, L + 1)
  <2>1. /\ q \in Seq(Nat) /\ Len(q) = Len(r) + 1 /\ q[Len(r) + 1] = L + 1
        /\ \A n \in 1 .. Len(r) : q[n] = r[n]
    BY <1>5, SMT
  <2>2. running' = [running EXCEPT ![t] = q]
    BY <1>3
  <2> HIDE DEF q
  <2> QED
    BY <1>3, <2>1, <2>2 DEF TypeOK
<1>8. TypeOK'
  <2>1. done' \subseteq 1 .. Len(log')
    BY <1>3, <1>5, <1>6, SMT
  <2> QED
    BY <1>3, <1>6, <1>7, <2>1 DEF TypeOK
<1>9. Bounded'
  <2>1. Submitting' = Submitting
    BY <1>3 DEF Submitting
  <2>2. Cardinality(Submitting) \in Nat
    <3>1. pc' = [pc EXCEPT ![t] = "user"]
      BY DEF CallsInline, Goes
    <3> QED
      BY <3>1, CountSubmitting
  <2> QED
    BY <1>5, <1>6, <2>1, <2>2, SlotFacts, SMT DEF Bounded, MaySubmit
<1>10. Assigned'
  <2>1. \A w \in Busy : pc[w] # "clear" => Len(running'[w]) >= 1 /\ running'[w][1] = running[w][1]
    <3> SUFFICES ASSUME NEW w \in Busy, pc[w] # "clear"
                 PROVE  Len(running'[w]) >= 1 /\ running'[w][1] = running[w][1]
      OBVIOUS
    <3>1. CASE w = t
      <4>1. t \in Workers
        BY <3>1 DEF Busy
      <4>2. 1 \in 1 .. Len(r) /\ Len(r) + 1 >= 1
        BY <1>5, <4>1, SMT
      <4> QED
        BY <1>7, <3>1, <4>2
    <3>2. CASE w # t
      BY <1>1, <1>7, <3>2 DEF IInv, Assigned, Busy
    <3> QED
      BY <3>1, <3>2
  <2>2. \A w \in Workers : running[w] = <<>> => running'[w] = <<>>
    <3>1. t \in Workers => r # <<>>
      <4>1. Len(<<>>) = 0
        OBVIOUS
      <4> QED
        BY <1>5, <4>1, SMT
    <3> QED
      BY <1>1, <1>7, <3>1
  <2> QED
    BY <1>3, <2>1, <2>2, AssignedKept DEF IInv
<1>11. Filled'
  <2>1. \A k \in 1 .. L : k \in 1 .. L + 1
    BY <1>5, SMT
  <2> QED
    BY <1>3, <1>6, <2>1 DEF IInv, Filled, is_empty, is_ready, task_id_to_index
<1>12. \A k \in 1 .. L + 1 : k \in 1 .. L \/ k = L + 1
  BY <1>5, SMT
<1>13. Logged'
  <2>1. \A k \in 1 .. L + 1 : log'[k].id # 1 => k \in 1 .. L /\ log'[k] = log[k]
    BY <1>6, <1>12
  <2>2. ASSUME NEW k \in 1 .. L + 1, log'[k].id # 1
        PROVE  LET i == log'[k].id % Size
               IN  /\ Size > 0 /\ i \in Slots
                   /\ log'[k].id < tasks'[i].next_task_id * Size + i
                   /\ k \notin done' => tasks'[i].task_id # 0 /\ tasks'[i].task = k
                   /\ \A j \in 1 .. L + 1 : log'[j].id = log'[k].id => j = k
    <3>1. k \in 1 .. L /\ log'[k] = log[k] /\ log[k].id # 1
      BY <2>1, <2>2
    <3>2. LET i == log[k].id % Size
          IN  /\ Size > 0 /\ i \in Slots
              /\ log[k].id < tasks[i].next_task_id * Size + i
              /\ k \notin done => tasks[i].task_id # 0 /\ tasks[i].task = k
              /\ \A j \in 1 .. L : log[j].id = log[k].id => j = k
      BY <3>1 DEF IInv, Logged, is_empty, make_next_task_id, task_id_to_index
    <3>3. \A j \in 1 .. L + 1 : log'[j].id = log'[k].id => j = k
      BY <2>1, <2>2, <3>1, <3>2
    <3> QED
      BY <1>3, <3>1, <3>2, <3>3
  <2> QED
    BY <1>6, <2>2 DEF Logged, is_empty, make_next_task_id, task_id_to_index
<1>14. Inline'
  <2>1. /\ Size > 0 => \A c \in Clients : running[c] = <<>>
        /\ \A u \in AllThreads : \A n \in InlineAt(u) :
              /\ running[u][n] \in (1 .. L) \ done /\ running[u][n] >= n
              /\ log[running[u][n]].id = 1
        /\ \A u, v \in AllThreads : \A n \in InlineAt(u), l \in InlineAt(v) :
              running[u][n] = running[v][l] => u = v /\ n = l
        /\ \A k \in (1 .. L) \ done : log[k].id = 1 =>
              \E u \in AllThreads : \E n \in InlineAt(u) : running[u][n] = k
    BY DEF IInv, Inline
  <2>2. ASSUME NEW u \in AllThreads, NEW n \in InlineAt(u)'
        PROVE  \/ u = t /\ n = Len(r) + 1 /\ running'[u][n] = L + 1
               \/ n \in InlineAt(u) /\ running'[u][n] = running[u][n]
    <3>1. CASE u = t
      <4>1. n \in 1 .. Len(r) + 1 /\ (t \in Workers => n > 1)
        BY <1>7, <2>2, <3>1 DEF InlineAt
      <4>2. n = Len(r) + 1 \/ n \in 1 .. Len(r)
        BY <1>5, <4>1, SMT
      <4> QED
        BY <1>7, <3>1, <4>1, <4>2 DEF InlineAt
    <3>2. CASE u # t
      BY <1>7, <2>2, <3>2 DEF InlineAt
    <3> QED
      BY <3>1, <3>2
  <2>3. ASSUME NEW u \in AllThreads, NEW n \in InlineAt(u)
        PROVE  n \in InlineAt(u)' /\ running'[u][n] = running[u][n]
    <3>1. CASE u = t
      <4>1. n \in 1 .. Len(r) /\ (t \in Workers => n > 1)
        BY <2>3, <3>1 DEF InlineAt
      <4>2. n \in 1 .. Len(r) + 1
        BY <1>5, <4>1, SMT
      <4> QED
        BY <1>7, <3>1, <4>1, <4>2 DEF InlineAt
    <3>2. CASE u # t
      BY <1>7, <2>3, <3>2 DEF InlineAt
    <3> QED
      BY <3>1, <3>2
  <2>4. Len(r) + 1 \in InlineAt(t)'
    <3>1. Len(r) + 1 \in 1 .. Len(r) + 1 /\ (t \in Workers => Len(r) + 1 > 1)
      BY <1>5, SMT
    <3> QED
      BY <1>7, <3>1 DEF InlineAt
  <2>5. L + 1 >= Len(r) + 1
    <3>1. CASE Len(r) \in InlineAt(t)
      <4>1. r[Len(r)] \in 1 .. L /\ r[Len(r)] >= Len(r)
        BY <2>1, <3>1
      <4> QED
        BY <1>5, <4>1, SMT
    <3>2. CASE Len(r) \notin InlineAt(t)
      <4>1. Len(r) \notin 1 .. Len(r) \/ (t \in Workers /\ ~(Len(r) > 1))
        BY <3>2 DEF InlineAt
      <4> QED
        BY <1>5, <4>1, SMT
    <3> QED
      BY <3>1, <3>2
  <2>6. L + 1 \in (1 .. L + 1) \ done /\ \A k \in 1 .. L : k \in 1 .. L + 1 /\ k # L + 1
    BY <1>5, SMT
  <2>7. \A u \in AllThreads : \A n \in InlineAt(u)' :
           /\ running'[u][n] \in (1 .. L + 1) \ done /\ running'[u][n] >= n
           /\ log'[running'[u][n]].id = 1
    <3> SUFFICES ASSUME NEW u \in AllThreads, NEW n \in InlineAt(u)'
                 PROVE  /\ running'[u][n] \in (1 .. L + 1) \ done /\ running'[u][n] >= n
                        /\ log'[running'[u][n]].id = 1
      OBVIOUS
    <3>1. CASE u = t /\ n = Len(r) + 1 /\ running'[u][n] = L + 1
      BY <1>6, <2>5, <2>6, <3>1
    <3>2. CASE n \in InlineAt(u) /\ running'[u][n] = running[u][n]
      <4>1. /\ running[u][n] \in (1 .. L) \ done /\ running[u][n] >= n
            /\ log[running[u][n]].id = 1
        BY <2>1, <3>2, ZenonT(30)
      <4> QED
        BY <1>6, <2>6, <3>2, <4>1
    <3> QED
      BY <2>2, <3>1, <3>2
  <2>8. ASSUME NEW u \in AllThreads, NEW v \in AllThreads, NEW n \in InlineAt(u)', NEW l \in InlineAt(v)',
               running'[u][n] = running'[v][l]
        PROVE  u = v /\ n = l
    <3>1. \A x \in AllThreads : \A k \in InlineAt(x) : running[x][k] # L + 1
      BY <2>1, <2>6
    <3>2. CASE n \in InlineAt(u) /\ running'[u][n] = running[u][n]
      <4>1. l \in InlineAt(v) /\ running'[v][l] = running[v][l]
        BY <2>2, <2>8, <3>1, <3>2
      <4>2. running[u][n] = running[v][l] /\ Inline
        BY <2>8, <3>2, <4>1 DEF IInv
      <4> QED
        BY <3>2, <4>1, <4>2, InlineApart, SMT
    <3>3. CASE u = t /\ n = Len(r) + 1 /\ running'[u][n] = L + 1
      BY <2>2, <2>8, <3>1, <3>3, ZenonT(30)
    <3> QED
      BY <2>2, <3>2, <3>3
  <2>9. ASSUME NEW k \in (1 .. L + 1) \ done, log'[k].id = 1
        PROVE  \E u \in AllThreads : \E n \in InlineAt(u)' : running'[u][n] = k
    <3>1. CASE k = L + 1
      BY <1>7, <2>4, <3>1
    <3>2. CASE k # L + 1
      <4>1. k \in (1 .. L) \ done /\ log[k].id = 1
        BY <1>6, <1>12, <2>9, <3>2
      <4>2. PICK u \in AllThreads : \E n \in InlineAt(u) : running[u][n] = k
        BY <2>1, <4>1
      <4> QED
        BY <2>3, <4>2
    <3> QED
      BY <3>1, <3>2
  <2>10. Size > 0 => \A c \in Clients : running'[c] = <<>>
    <3>1. Size > 0 => t \in Workers
      BY <1>1, SMT
    <3> SUFFICES ASSUME Size > 0, NEW c \in Clients PROVE running'[c] = <<>>
      OBVIOUS
    <3>2. c # t /\ c \in AllThreads /\ running[c] = <<>>
      BY <1>1, <2>1, <3>1
    <3> QED
      BY <1>7, <3>2
  <2>11. Len(log') = L + 1 /\ done' = done
    BY <1>3, <1>6
  <2> QED
    BY <2>7, <2>8, <2>9, <2>10, <2>11 DEF Inline
<1>15. \/ \A c \in Clients : running'[c] = running[c]
       \/ \A c \in Clients : pc[c] \notin {"shutdown", "join", "gone"}
  BY <1>1, <1>2, <1>7, SlotFacts
<1> QED
  BY <1>3, <1>8, <1>9, <1>10, <1>11, <1>13, <1>14, <1>15, OnlyBooks

\* A task that was called inside add_task returns, while nobody has m.
LEMMA InlineReturnsInv ==
    ASSUME ThreadPoolAssumption, IInv, NEW t \in AllThreads, InlineReturns(t), m = NoThread
    PROVE  IInv'
<1> DEFINE L == Len(log)
           r == running[t]
           n0 == Len(r)
           k0 == r[n0]
<1>0. TypeOK /\ Assigned /\ Filled /\ Logged /\ Destroying
  BY DEF IInv
<1>1. /\ r \in Seq(Nat) /\ n0 \in Nat /\ L \in Nat /\ done \subseteq 1 .. L /\ n0 > 0
      /\ t \in Workers => n0 > 1
      /\ Clients \subseteq AllThreads /\ Workers \subseteq AllThreads
  <2>1. r \in Seq(Nat) /\ n0 \in Nat /\ L \in Nat /\ done \subseteq 1 .. L
    BY RunningFacts
  <2>2. n0 > (IF t \in Workers THEN 1 ELSE 0)
    BY DEF InlineReturns
  <2>3. n0 > 0 /\ (t \in Workers => n0 > 1)
    BY <2>1, <2>2, SMT
  <2> QED
    BY <2>1, <2>3, SlotFacts
<1>2. /\ Size > 0 => \A c \in Clients : running[c] = <<>>
      /\ \A u \in AllThreads : \A n \in InlineAt(u) :
            /\ running[u][n] \in (1 .. L) \ done /\ running[u][n] >= n
            /\ log[running[u][n]].id = 1
      /\ \A u, v \in AllThreads : \A n \in InlineAt(u), l \in InlineAt(v) :
            running[u][n] = running[v][l] => u = v /\ n = l
      /\ \A k \in (1 .. L) \ done : log[k].id = 1 =>
            \E u \in AllThreads : \E n \in InlineAt(u) : running[u][n] = k
  BY DEF IInv, Inline
<1>3. n0 \in InlineAt(t) /\ k0 \in (1 .. L) \ done /\ log[k0].id = 1
  <2>1. n0 \in 1 .. n0
    BY <1>1, SMT
  <2>2. n0 \in InlineAt(t)
    BY <1>1, <2>1 DEF InlineAt
  <2> QED
    BY <1>2, <2>2
<1>4. /\ UNCHANGED <<m, tasks, destructing, log, pc, asleep, idx, slot>>
      /\ done' = done \cup {k0} /\ pc[t] = "user"
  BY DEF InlineReturns
<1>5. /\ running'[t] \in Seq(Nat) /\ Len(running'[t]) = n0 - 1
      /\ \A n \in 1 .. n0 - 1 : running'[t][n] = r[n]
      /\ \A u \in AllThreads : u # t => running'[u] = running[u]
      /\ running' \in [AllThreads -> Seq(Nat)]
  <2> DEFINE q == SubSeq(r, 1, n0 - 1)
  <2>1. q \in Seq(Nat) /\ Len(q) = n0 - 1 /\ \A n \in 1 .. n0 - 1 : q[n] = r[n]
    BY <1>1, SMTT(60)
  <2>2. running' = [running EXCEPT ![t] = q]
    BY DEF InlineReturns
  <2> HIDE DEF q
  <2> QED
    BY <1>0, <2>1, <2>2 DEF TypeOK
<1>6. \A i \in Slots : ~is_empty(i) => tasks[i].task # k0
  BY <1>0, <1>3, InlineNotInSlot
<1> HIDE DEF k0
<1>7. TypeOK'
  BY <1>0, <1>1, <1>3, <1>4, <1>5 DEF TypeOK
<1>8. Bounded'
  BY <1>4 DEF IInv, Bounded, Submitting
<1>9. Assigned'
  <2>1. \A w \in Busy : pc[w] # "clear" => Len(running'[w]) >= 1 /\ running'[w][1] = running[w][1]
    <3> SUFFICES ASSUME NEW w \in Busy, pc[w] # "clear"
                 PROVE  Len(running'[w]) >= 1 /\ running'[w][1] = running[w][1]
      OBVIOUS
    <3>1. CASE w = t
      <4>1. t \in Workers
        BY <3>1 DEF Busy
      <4>2. 1 \in 1 .. n0 - 1 /\ n0 - 1 >= 1
        BY <1>1, <4>1, SMT
      <4> QED
        BY <1>5, <3>1, <4>2
    <3>2. CASE w # t
      BY <1>0, <1>1, <1>5, <3>2 DEF Assigned, Busy
    <3> QED
      BY <3>1, <3>2
  <2>2. \A w \in Workers : running[w] = <<>> => running'[w] = <<>>
    <3>1. r # <<>>
      <4>1. Len(<<>>) = 0
        OBVIOUS
      <4> QED
        BY <1>1, <4>1, SMT
    <3> QED
      BY <1>1, <1>5, <3>1
  <2>3. \A w \in Busy : slot[w] \in Slots /\ ~is_empty(slot[w])
    BY <1>0 DEF Assigned
  <2> QED
    BY <1>0, <1>4, <1>6, <2>1, <2>2, <2>3, AssignedKept
<1>10. Filled'
  BY <1>0, <1>4, <1>6 DEF Filled, is_empty, is_ready, task_id_to_index
<1>11. Logged'
  <2>1. done \subseteq done'
    BY <1>4
  <2> QED
    BY <1>0, <1>4, <2>1 DEF Logged, is_empty, make_next_task_id, task_id_to_index
<1>12. ASSUME NEW u \in AllThreads, NEW n \in InlineAt(u)'
       PROVE  n \in InlineAt(u) /\ running'[u][n] = running[u][n] /\ ~(u = t /\ n = n0)
  <2>1. CASE u = t
    <3>1. n \in 1 .. n0 - 1 /\ (t \in Workers => n > 1)
      BY <1>5, <1>12, <2>1 DEF InlineAt
    <3>2. n \in 1 .. n0 /\ n # n0
      BY <1>1, <3>1, SMTT(60)
    <3> QED
      BY <1>5, <2>1, <3>1, <3>2 DEF InlineAt
  <2>2. CASE u # t
    BY <1>5, <1>12, <2>2 DEF InlineAt
  <2> QED
    BY <2>1, <2>2
<1>13. ASSUME NEW u \in AllThreads, NEW n \in InlineAt(u), running[u][n] # k0
       PROVE  n \in InlineAt(u)' /\ running'[u][n] = running[u][n]
  <2>1. CASE u = t
    <3>1. n \in 1 .. n0 /\ n # n0 /\ (t \in Workers => n > 1)
      BY <1>13, <2>1 DEF InlineAt, k0
    <3>2. n \in 1 .. n0 - 1
      BY <1>1, <3>1, SMT
    <3> QED
      BY <1>5, <2>1, <3>1, <3>2 DEF InlineAt
  <2>2. CASE u # t
    BY <1>5, <1>13, <2>2 DEF InlineAt
  <2> QED
    BY <2>1, <2>2
<1>14. Inline'
  <2>1. \A u \in AllThreads : \A n \in InlineAt(u)' :
           /\ running'[u][n] \in (1 .. L) \ done' /\ running'[u][n] >= n
           /\ log'[running'[u][n]].id = 1
    <3> SUFFICES ASSUME NEW u \in AllThreads, NEW n \in InlineAt(u)'
                 PROVE  /\ running'[u][n] \in (1 .. L) \ done' /\ running'[u][n] >= n
                        /\ log'[running'[u][n]].id = 1
      OBVIOUS
    <3>1. n \in InlineAt(u) /\ running'[u][n] = running[u][n] /\ ~(u = t /\ n = n0)
      BY <1>12
    <3>2. running[u][n] # k0
      <4> SUFFICES ASSUME running[u][n] = running[t][n0] PROVE FALSE
        BY DEF k0
      <4>1. u = t /\ n = n0
        <5>1. n \in InlineAt(u) /\ n0 \in InlineAt(t) /\ Inline
          BY <1>3, <3>1 DEF IInv
        <5> HIDE DEF n0
        <5> QED
          BY <5>1, InlineApart, SMT
      <4> QED
        BY <3>1, <4>1
    <3>3. /\ running[u][n] \in (1 .. L) \ done /\ running[u][n] >= n
          /\ log[running[u][n]].id = 1
      BY <1>2, <3>1, ZenonT(30)
    <3> QED
      BY <1>4, <3>1, <3>2, <3>3
  <2>2. ASSUME NEW u \in AllThreads, NEW v \in AllThreads, NEW n \in InlineAt(u)', NEW l \in InlineAt(v)',
               running'[u][n] = running'[v][l]
        PROVE  u = v /\ n = l
    <3>1. n \in InlineAt(u) /\ l \in InlineAt(v) /\ running[u][n] = running[v][l]
      BY <1>12, <2>2
    <3>2. Inline
      BY DEF IInv
    <3> QED
      BY <3>1, <3>2, InlineApart, SMT
  <2>3. ASSUME NEW k \in (1 .. L) \ done', log'[k].id = 1
        PROVE  \E u \in AllThreads : \E n \in InlineAt(u)' : running'[u][n] = k
    <3>1. k \in (1 .. L) \ done /\ log[k].id = 1 /\ k # k0
      BY <1>4, <2>3
    <3>2. PICK u \in AllThreads : \E n \in InlineAt(u) : running[u][n] = k
      BY <1>2, <3>1
    <3> QED
      BY <1>13, <3>1, <3>2
  <2>4. Size > 0 => \A c \in Clients : running'[c] = <<>>
    <3>1. r # <<>>
      BY <1>1, SMT
    <3> QED
      BY <1>1, <1>2, <1>5, <3>1
  <2>5. Len(log') = L
    BY <1>4
  <2> QED
    BY <2>1, <2>2, <2>3, <2>4, <2>5 DEF Inline
<1>15. \/ \A c \in Clients : running'[c] = running[c]
       \/ \A c \in Clients : pc[c] \notin {"shutdown", "join", "gone"}
  <2>1. CASE t \in Clients
    <3>1. r # <<>>
      BY <1>1, SMT
    <3> QED
      BY <1>0, <2>1, <3>1 DEF Destroying
  <2>2. CASE t \notin Clients
    BY <1>1, <1>5, <2>2
  <2> QED
    BY <2>1, <2>2
<1> QED
  BY <1>4, <1>7, <1>8, <1>9, <1>10, <1>11, <1>14, <1>15, OnlyBooks

-----------------------------------------------------------------------------
(* The workers' loop *)

\* Only a worker is in the loop or clears a slot.
LEMMA WorkersLoop ==
    ASSUME ThreadPoolAssumption, IInv
    PROVE  /\ \A u \in AllThreads : pc[u] \in {"loop", "clear", "ended"} => u \in Workers
           /\ \A u \in AllThreads : pc[u] \in {"add_task", "shutdown", "join", "gone"} =>
                  u \in Clients
           /\ Clients \subseteq AllThreads /\ Workers \subseteq AllThreads
           /\ \A c \in Clients : c \notin Workers
           /\ AtLoop = {u \in AllThreads : pc[u] = "loop"}
           /\ AtLoop \cap asleep = {u \in asleep : pc[u] = "loop"}
<1>1. /\ \A u \in Workers : pc[u] \in WorkerPlaces
      /\ \A u \in Clients : pc[u] \in ClientPlaces
      /\ asleep \subseteq AllThreads
  BY DEF IInv, TypeOK
<1>2. \A u \in AllThreads : pc[u] \in {"loop", "clear", "ended"} => u \in Workers
  BY <1>1, SlotFacts DEF ClientPlaces
<1>3. \A u \in AllThreads : pc[u] \in {"add_task", "shutdown", "join", "gone"} =>
          u \in Clients
  BY <1>1, SlotFacts DEF WorkerPlaces
<1>4. AtLoop = {u \in AllThreads : pc[u] = "loop"}
  BY <1>2, SlotFacts DEF AtLoop
<1> QED
  BY <1>1, <1>2, <1>3, <1>4, SlotFacts

\* What EnoughAwake counts is finite.
LEMMA CountAwake ==
    ASSUME ThreadPoolAssumption, NEW R \in SUBSET Slots, NEW A \in SUBSET Workers
    PROVE  /\ IsFiniteSet(R) /\ Cardinality(R) \in Nat /\ IsFiniteSet(A) /\ Cardinality(A) \in Nat
           /\ R = {} => Cardinality(R) = 0
BY SlotFacts, FS_Subset, FS_CardinalityType, FS_EmptySet DEF ThreadPoolAssumption

\* A worker that finds destructing set leaves.
LEMMA WorkerEndsInv ==
    ASSUME ThreadPoolAssumption, IInv, NEW t \in AllThreads, WorkerEnds(t)
    PROVE  IInv'
<1>0. /\ TypeOK /\ Locked /\ SleepsInLoop /\ Assigned /\ Filled /\ Logged /\ Inline /\ Destroying
      /\ Bounded /\ EnoughAwake
  BY DEF IInv
<1>1. /\ pc[t] = "loop" /\ pc' = [pc EXCEPT ![t] = "ended"] /\ destructing /\ t \notin asleep
      /\ UNCHANGED <<m, tasks, destructing, log, asleep, running, idx, slot, done>>
  BY DEF WorkerEnds, Enters, Goes, pool, locals
<1>2. pc'[t] = "ended" /\ (\A u \in AllThreads : u # t => pc'[u] = pc[u]) /\ t \in Workers
  BY <1>0, <1>1, WorkersLoop DEF TypeOK
<1>3. Busy' = Busy
  BY <1>1, <1>2, SlotFacts DEF Busy
<1>4. TypeOK'
  BY <1>0, <1>1, <1>2, SlotFacts, ZenonT(60) DEF TypeOK, WorkerPlaces
<1>5. Locked'
  BY <1>0, <1>1, <1>2 DEF Locked, is_empty
<1>6. SleepsInLoop'
  BY <1>0, <1>1, <1>2 DEF SleepsInLoop, TypeOK, task_ready_signaler, task_done_signaler
<1>7. Assigned'
  <2>1. \A w \in Workers : pc'[w] = "clear" <=> pc[w] = "clear"
    BY <1>1, <1>2, SlotFacts
  <2> QED
    BY <1>0, <1>1, <1>3, <2>1, SMT DEF Assigned, is_empty, Busy
<1>8. Filled' /\ Logged' /\ Inline'
  BY <1>0, <1>1, TablesStay
<1>9. Bounded'
  <2>0. pc[t] \notin {"add_task", "fill"} /\ "ended" \notin {"add_task", "fill"}
    BY <1>1
  <2>1. Cardinality(Submitting') = Cardinality(Submitting)
    BY <1>1, <2>0, CountSubmitting
  <2> QED
    BY <1>0, <1>1, <2>1 DEF Bounded
<1>10. Destroying'
  <2>1. \A c \in Clients : pc'[c] = pc[c]
    BY <1>2, SlotFacts
  <2> QED
    BY <1>0, <1>1, <1>2, <1>3, <2>1, SlotFacts, SMT DEF Destroying, is_empty
<1>11. EnoughAwake'
  <2>1. Ready' = {}
    BY <1>0, <1>1 DEF Ready, is_ready, is_empty, Destroying
  <2>2. Ready' \in SUBSET Slots /\ AtLoop' \ asleep' \in SUBSET Workers
    BY <2>1 DEF AtLoop
  <2> QED
    BY <2>1, <2>2, CountAwake, SMT DEF EnoughAwake
<1> QED
  BY <1>4, <1>5, <1>6, <1>7, <1>8, <1>9, <1>10, <1>11 DEF IInv

\* A worker that finds no task waits.
LEMMA WorkerWaitsInv ==
    ASSUME ThreadPoolAssumption, IInv, NEW t \in AllThreads, WorkerWaits(t)
    PROVE  IInv'
<1>0. /\ TypeOK /\ Locked /\ SleepsInLoop /\ Assigned /\ Filled /\ Logged /\ Inline /\ Destroying
      /\ Bounded /\ EnoughAwake
  BY DEF IInv
<1>1. /\ pc[t] = "loop" /\ pc' = [pc EXCEPT ![t] = "loop"] /\ find_ready_task = -1
      /\ asleep' = asleep \cup {t}
      /\ UNCHANGED <<m, tasks, destructing, log, running, idx, slot, done>>
  BY DEF WorkerWaits, Sleeps, Enters, Goes, pool, locals
<1>2. pc' = pc
  BY <1>0, <1>1 DEF TypeOK
<1>3. Busy' = Busy
  BY <1>2 DEF Busy
<1>4. TypeOK'
  BY <1>0, <1>1, <1>2 DEF TypeOK
<1>5. Locked'
  BY <1>0, <1>1, <1>2 DEF Locked, is_empty
<1>6. SleepsInLoop'
  BY <1>0, <1>1, <1>2 DEF SleepsInLoop, task_ready_signaler, task_done_signaler
<1>7. Assigned'
  BY <1>0, <1>1, <1>2, <1>3, SMT DEF Assigned, is_empty
<1>8. Filled' /\ Logged' /\ Inline'
  BY <1>0, <1>1, TablesStay
<1>9. Bounded'
  BY <1>0, <1>1, <1>2 DEF Bounded, Submitting
<1>10. Destroying'
  BY <1>0, <1>1, <1>2, <1>3 DEF Destroying, is_empty
<1>11. EnoughAwake'
  <2>1. Ready' = {}
    <3>1. Ready = {}
      BY <1>1, SlotFacts, First DEF Ready, find_ready_task
    <3> QED
      BY <1>1, <3>1 DEF Ready, is_ready, is_empty
  <2>2. Ready' \in SUBSET Slots /\ AtLoop' \ asleep' \in SUBSET Workers
    BY <2>1 DEF AtLoop
  <2> QED
    BY <2>1, <2>2, CountAwake, SMT DEF EnoughAwake
<1> QED
  BY <1>4, <1>5, <1>6, <1>7, <1>8, <1>9, <1>10, <1>11 DEF IInv

\* A worker takes the first task that is ready.
LEMMA WorkerTakesInv ==
    ASSUME ThreadPoolAssumption, IInv, NEW t \in AllThreads, WorkerTakes(t)
    PROVE  IInv'
<1>0. /\ TypeOK /\ Locked /\ SleepsInLoop /\ Assigned /\ Filled /\ Logged /\ Inline /\ Destroying
      /\ Bounded /\ EnoughAwake
  BY DEF IInv
<1> DEFINE i == find_ready_task
           k == tasks[i].task
<1>1. /\ pc[t] = "loop" /\ pc' = [pc EXCEPT ![t] = "user"] /\ ~destructing /\ t \notin asleep
      /\ tasks' = [tasks EXCEPT ![i].is_being_processed = TRUE]
      /\ slot' = [slot EXCEPT ![t] = i]
      /\ running' = [running EXCEPT ![t] = <<k>>]
      /\ UNCHANGED <<m, destructing, asleep, idx, log, done>>
  BY DEF WorkerTakes, Enters, Goes
<1>2. i \in Slots /\ is_ready(i) /\ i \in Ready /\ i \in Nat
  BY SlotFacts, First, SMT DEF WorkerTakes, find_ready_task, Ready
<1> HIDE DEF i
<1>3. /\ pc'[t] = "user" /\ \A u \in AllThreads : u # t => pc'[u] = pc[u]
      /\ slot'[t] = i /\ \A u \in AllThreads : u # t => slot'[u] = slot[u]
      /\ running'[t] = <<k>> /\ \A u \in AllThreads : u # t => running'[u] = running[u]
      /\ t \in Workers /\ Workers \subseteq AllThreads /\ Clients \subseteq AllThreads
      /\ \A c \in Clients : c # t
  <2>1. t \in Workers /\ Workers \subseteq AllThreads /\ Clients \subseteq AllThreads /\ \A c \in Clients : c # t
    BY <1>1, WorkersLoop
  <2> QED
    BY <1>0, <1>1, <2>1 DEF TypeOK
<1>4. /\ tasks[i] \in TaskType /\ k \in Nat
      /\ tasks'[i] = [tasks[i] EXCEPT !.is_being_processed = TRUE]
      /\ \A j \in Slots : j # i => tasks'[j] = tasks[j]
      /\ tasks' \in [Slots -> TaskType]
  <2>1. tasks[i] \in TaskType
    BY <1>0, <1>2 DEF TypeOK
  <2>2. k \in Nat /\ [tasks[i] EXCEPT !.is_being_processed = TRUE] \in TaskType
    BY <2>1 DEF TaskType
  <2> QED
    BY <1>0, <1>1, <1>2, <2>1, <2>2 DEF TypeOK
<1>5. /\ tasks'[i].is_being_processed
      /\ \A j \in Slots : /\ tasks'[j].task_id = tasks[j].task_id /\ tasks'[j].thread_id = tasks[j].thread_id
                          /\ tasks'[j].task = tasks[j].task /\ tasks'[j].next_task_id = tasks[j].next_task_id
                          /\ j # i => tasks'[j].is_being_processed = tasks[j].is_being_processed
  BY <1>4, SMT DEF TaskType
<1>6. Busy' = Busy \cup {t} /\ t \notin Busy /\ AtLoop' = AtLoop \ {t} /\ t \in AtLoop
  BY <1>1, <1>3, SMT DEF Busy, AtLoop
<1>7. TypeOK'
  <2>1. <<k>> \in Seq(Nat)
    BY <1>4, SMT
  <2>2. running' \in [AllThreads -> Seq(Nat)]
    BY <1>0, <1>1, <2>1 DEF TypeOK
  <2>3. slot' \in [AllThreads -> Nat]
    BY <1>0, <1>1, <1>2 DEF TypeOK
  <2>4. /\ pc' \in [AllThreads -> WorkerPlaces \cup ClientPlaces]
        /\ \A w \in Workers : pc'[w] \in WorkerPlaces
        /\ \A c \in Clients : pc'[c] \in ClientPlaces
    BY <1>0, <1>1, <1>3 DEF TypeOK, WorkerPlaces, ClientPlaces
  <2> QED
    BY <1>0, <1>1, <1>4, <2>2, <2>3, <2>4 DEF TypeOK
<1>8. Locked'
  BY <1>0, <1>1, <1>3, <1>5, SMT DEF Locked, is_empty
<1>9. SleepsInLoop'
  BY <1>0, <1>1, <1>3 DEF SleepsInLoop, TypeOK, task_ready_signaler, task_done_signaler
<1>10. Assigned'
  <2>1. ASSUME NEW w \in Busy
        PROVE  slot[w] # i /\ slot'[w] = slot[w] /\ pc'[w] = pc[w] /\ running'[w] = running[w] /\ w # t
               /\ w \in Workers
    BY <1>0, <1>2, <1>3, <1>6 DEF Assigned, is_ready, Busy
  <2>2. ~is_empty(i) /\ k \notin done
    BY <1>0, <1>2 DEF Filled, is_ready
  <2>3. ASSUME NEW w \in Busy'
        PROVE  /\ slot'[w] \in Slots /\ tasks'[slot'[w]].task_id # 0 /\ tasks'[slot'[w]].is_being_processed
               /\ pc'[w] = "clear" => running'[w] = <<>> /\ tasks'[slot'[w]].task \in done'
               /\ pc'[w] # "clear" => /\ Len(running'[w]) >= 1 /\ running'[w][1] = tasks'[slot'[w]].task
                                      /\ tasks'[slot'[w]].task \notin done'
    <3>1. CASE w = t
      <4>1. Len(<<k>>) >= 1 /\ <<k>>[1] = k
        BY SMT
      <4> HIDE DEF k
      <4>2. Len(running'[w]) >= 1 /\ running'[w][1] = k /\ pc'[w] # "clear" /\ slot'[w] = i
        BY <1>3, <3>1, <4>1
      <4>3. tasks'[i].task = k /\ tasks'[i].task_id # 0
        BY <1>2, <1>5, <2>2 DEF is_empty, k
      <4>4. k \notin done'
        BY <1>1, <2>2
      <4>5. /\ slot'[w] \in Slots /\ tasks'[slot'[w]].task_id # 0 /\ tasks'[slot'[w]].is_being_processed
            /\ running'[w][1] = tasks'[slot'[w]].task /\ tasks'[slot'[w]].task \notin done'
        BY <1>2, <1>5, <4>2, <4>3, <4>4, ZenonT(30)
      <4> QED
        BY <4>2, <4>5
    <3>2. CASE w # t
      <4>1. w \in Busy
        BY <1>6, <2>3, <3>2
      <4>2. /\ slot[w] \in Slots /\ ~is_empty(slot[w]) /\ tasks[slot[w]].is_being_processed
            /\ pc[w] = "clear" => running[w] = <<>> /\ tasks[slot[w]].task \in done
            /\ pc[w] # "clear" => /\ Len(running[w]) >= 1 /\ running[w][1] = tasks[slot[w]].task
                                  /\ tasks[slot[w]].task \notin done
        BY <1>0, <4>1 DEF Assigned
      <4> QED
        BY <1>1, <1>5, <2>1, <4>1, <4>2, SMT DEF is_empty
    <3> QED
      BY <3>1, <3>2
  <2>4. \A v, w \in Busy' : slot'[v] = slot'[w] => v = w
    BY <1>0, <1>3, <1>6, <2>1, SMT DEF Assigned
  <2>5. \A j \in Slots : tasks'[j].is_being_processed => \E w \in Busy' : slot'[w] = j
    <3> TAKE j \in Slots
    <3>1. CASE j = i
      BY <1>3, <1>6, <3>1
    <3>2. CASE j # i
      BY <1>0, <1>5, <1>6, <2>1, <3>2, SMT DEF Assigned
    <3> QED
      BY <3>1, <3>2
  <2>6. \A w \in Workers \ Busy' : running'[w] = <<>>
    BY <1>0, <1>3, <1>6 DEF Assigned
  <2> QED
    BY <2>3, <2>4, <2>5, <2>6 DEF Assigned, is_empty
<1>11. Filled'
  <2> SUFFICES ASSUME NEW j \in Slots
               PROVE  /\ tasks'[j].next_task_id >= 2
                      /\ ~is_empty(j)' =>
                            /\ tasks'[j].task \in 1 .. Len(log') /\ tasks'[j].task_id # 1
                            /\ log'[tasks'[j].task].id = tasks'[j].task_id
                            /\ log'[tasks'[j].task].by = tasks'[j].thread_id
                            /\ task_id_to_index(tasks'[j].task_id) = j
                      /\ is_ready(j)' => tasks'[j].task \notin done'
    BY DEF Filled, task_id_to_index
  <2>1. is_ready(j)' => is_ready(j)
    BY <1>5, ZenonT(30) DEF is_ready, is_empty
  <2> QED
    BY <1>0, <1>1, <1>5, <2>1, SMT DEF Filled, is_empty
<1>12. Logged'
  BY <1>0, <1>1, <1>5, SMT DEF Logged, is_empty, make_next_task_id, task_id_to_index
<1>13. Inline'
  <2>1. \A c \in Clients : running'[c] = running[c]
    BY <1>3
  <2>2. running[t] = <<>>
    BY <1>0, <1>3, <1>6 DEF Assigned
  <2>3. InlineAt(t) = {} /\ InlineAt(t)' = {}
    <3>1. \A n \in 1 .. Len(<<>>) : FALSE
      BY SMT
    <3>2. \A n \in 1 .. Len(<<k>>) : ~(n > 1)
      BY SMT
    <3> HIDE DEF k
    <3> QED
      BY <1>3, <2>2, <3>1, <3>2 DEF InlineAt
  <2>4. \A u \in AllThreads : u # t => InlineAt(u)' = InlineAt(u) /\ running'[u] = running[u]
    BY <1>3 DEF InlineAt
  <2>5. \A u \in AllThreads : /\ InlineAt(u)' = InlineAt(u)
                             /\ \A n \in InlineAt(u) : running'[u][n] = running[u][n]
    BY <2>3, <2>4
  <2> QED
    BY <1>0, <1>1, <2>1, <2>5, InlineKept
<1>14. Bounded'
  <2>0. pc[t] \notin {"add_task", "fill"} /\ "user" \notin {"add_task", "fill"}
    BY <1>1
  <2>1. Cardinality(Submitting') = Cardinality(Submitting)
    BY <1>1, <2>0, CountSubmitting
  <2> QED
    BY <1>0, <1>1, <2>1 DEF Bounded
<1>15. Destroying'
  <2>1. \A c \in Clients : pc'[c] = pc[c] /\ running'[c] = running[c]
    BY <1>3
  <2> QED
    BY <1>0, <1>1, <1>3, <2>1, SMT DEF Destroying
<1>16. EnoughAwake'
  <2>1. Ready' = Ready \ {i} /\ i \in Ready
    BY <1>2, <1>5 DEF Ready, is_ready, is_empty
  <2>2. AtLoop' \cap asleep' = AtLoop \cap asleep /\ AtLoop' \ asleep' = (AtLoop \ asleep) \ {t} /\ t \in AtLoop \ asleep
    BY <1>1, <1>6
  <2>3. Ready \in SUBSET Slots /\ AtLoop \ asleep \in SUBSET Workers
    BY DEF Ready, AtLoop
  <2>4. /\ Cardinality(Ready') = Cardinality(Ready) - 1 /\ Cardinality(Ready) \in Nat
        /\ Cardinality(AtLoop' \ asleep') = Cardinality(AtLoop \ asleep) - 1
        /\ Cardinality(AtLoop \ asleep) \in Nat
    BY <2>1, <2>2, <2>3, CountAwake, FS_RemoveElement, SMTT(60)
  <2> QED
    BY <1>0, <2>2, <2>4, SMT DEF EnoughAwake
<1> QED
  BY <1>7, <1>8, <1>9, <1>10, <1>11, <1>12, <1>13, <1>14, <1>15, <1>16 DEF IInv

\* No two slots hold the same task.
LEMMA SlotsDiffer ==
    ASSUME IInv, NEW i \in Slots, NEW j \in Slots, ~is_empty(i), ~is_empty(j), tasks[i].task = tasks[j].task
    PROVE  i = j
<1>1. /\ log[tasks[i].task].id = tasks[i].task_id /\ task_id_to_index(tasks[i].task_id) = i
      /\ log[tasks[j].task].id = tasks[j].task_id /\ task_id_to_index(tasks[j].task_id) = j
  BY DEF IInv, Filled
<1> QED
  BY <1>1

\* A task returns to the worker that called it.
LEMMA TaskReturnsInv ==
    ASSUME ThreadPoolAssumption, IInv, NEW t \in AllThreads, TaskReturns(t)
    PROVE  IInv'
<1>0. /\ TypeOK /\ Locked /\ SleepsInLoop /\ Assigned /\ Filled /\ Logged /\ Inline /\ Destroying
      /\ Bounded /\ EnoughAwake
  BY DEF IInv
<1> DEFINE i == slot[t]
           k == tasks[i].task
<1>1. /\ t \in Workers /\ pc[t] = "user" /\ pc' = [pc EXCEPT ![t] = "clear"]
      /\ done' = done \cup {running[t][1]} /\ Len(running[t]) = 1
      /\ running' = [running EXCEPT ![t] = <<>>]
      /\ UNCHANGED <<m, tasks, destructing, log, asleep, idx, slot>>
  BY DEF TaskReturns, Goes, pool
<1>2. /\ t \in Busy /\ i \in Slots /\ ~is_empty(i) /\ tasks[i].is_being_processed
      /\ running[t][1] = k /\ k \notin done /\ k \in 1 .. Len(log) /\ log[k].id # 1
  <2>1. t \in Busy
    BY <1>1 DEF Busy
  <2>2. /\ i \in Slots /\ ~is_empty(i) /\ tasks[i].is_being_processed
        /\ running[t][1] = k /\ k \notin done
    BY <1>0, <1>1, <2>1 DEF Assigned
  <2> QED
    BY <1>0, <2>1, <2>2 DEF Filled
<1>3. done' = done \cup {k}
  BY <1>1, <1>2
<1> HIDE DEF k
<1>4. /\ pc'[t] = "clear" /\ \A u \in AllThreads : u # t => pc'[u] = pc[u]
      /\ running'[t] = <<>> /\ \A u \in AllThreads : u # t => running'[u] = running[u]
      /\ Workers \subseteq AllThreads /\ Clients \subseteq AllThreads /\ \A c \in Clients : c # t
  <2>1. Workers \subseteq AllThreads /\ Clients \subseteq AllThreads /\ \A c \in Clients : c # t
    BY <1>1, WorkersLoop
  <2> QED
    BY <1>0, <1>1, <2>1 DEF TypeOK
<1>5. Busy' = Busy /\ AtLoop' = AtLoop
  <2>1. Busy' = Busy
    BY <1>1, <1>4 DEF Busy
  <2>2. AtLoop' = AtLoop
    BY <1>1, <1>4 DEF AtLoop
  <2> QED
    BY <2>1, <2>2
<1>6. TypeOK'
  <2>1. <<>> \in Seq(Nat) /\ running' \in [AllThreads -> Seq(Nat)]
    BY <1>0, <1>1, SMT DEF TypeOK
  <2>2. /\ pc' \in [AllThreads -> WorkerPlaces \cup ClientPlaces]
        /\ \A w \in Workers : pc'[w] \in WorkerPlaces
        /\ \A c \in Clients : pc'[c] \in ClientPlaces
    BY <1>0, <1>1, <1>4 DEF TypeOK, WorkerPlaces, ClientPlaces
  <2>3. done' \subseteq 1 .. Len(log')
    BY <1>0, <1>1, <1>2, <1>3 DEF TypeOK
  <2> QED
    BY <1>0, <1>1, <2>1, <2>2, <2>3 DEF TypeOK
<1>7. Locked'
  BY <1>0, <1>1, <1>4, SMT DEF Locked, is_empty
<1>8. SleepsInLoop'
  BY <1>0, <1>1, <1>4 DEF SleepsInLoop, TypeOK, task_ready_signaler, task_done_signaler
<1>9. Assigned'
  <2>1. ASSUME NEW w \in Busy
        PROVE  /\ slot'[w] \in Slots /\ tasks'[slot'[w]].task_id # 0 /\ tasks'[slot'[w]].is_being_processed
               /\ pc'[w] = "clear" => running'[w] = <<>> /\ tasks'[slot'[w]].task \in done'
               /\ pc'[w] # "clear" => /\ Len(running'[w]) >= 1 /\ running'[w][1] = tasks'[slot'[w]].task
                                      /\ tasks'[slot'[w]].task \notin done'
    <3>1. CASE w = t
      BY <1>1, <1>2, <1>3, <1>4, <3>1 DEF is_empty, k
    <3>2. CASE w # t
      <4>1. /\ slot[w] \in Slots /\ ~is_empty(slot[w]) /\ tasks[slot[w]].is_being_processed
            /\ pc[w] = "clear" => running[w] = <<>> /\ tasks[slot[w]].task \in done
            /\ pc[w] # "clear" => /\ Len(running[w]) >= 1 /\ running[w][1] = tasks[slot[w]].task
                                  /\ tasks[slot[w]].task \notin done
        BY <1>0 DEF Assigned
      <4>2. slot[w] # i
        BY <1>0, <1>2, <3>2 DEF Assigned
      <4>3. tasks[slot[w]].task # k
        BY <1>2, <4>1, <4>2, SlotsDiffer DEF k
      <4>4. pc'[w] = pc[w] /\ running'[w] = running[w]
        BY <1>4, <3>2 DEF Busy
      <4> QED
        BY <1>1, <1>3, <4>1, <4>3, <4>4 DEF is_empty
    <3> QED
      BY <3>1, <3>2
  <2>2. \A w \in Workers \ Busy : running'[w] = <<>>
    BY <1>0, <1>2, <1>4 DEF Assigned
  <2> QED
    BY <1>0, <1>1, <1>5, <2>1, <2>2, SMT DEF Assigned, is_empty
<1>10. Filled'
  <2>1. ASSUME NEW j \in Slots, is_ready(j) PROVE tasks[j].task \notin done'
    <3>1. j # i
      BY <1>2, <2>1 DEF is_ready
    <3>2. tasks[j].task # k
      BY <1>2, <2>1, <3>1, SlotsDiffer DEF k, is_ready
    <3> QED
      BY <1>0, <1>3, <2>1, <3>2 DEF Filled
  <2> QED
    BY <1>0, <1>1, <2>1 DEF Filled, is_empty, is_ready, task_id_to_index
<1>11. Logged'
  <2>1. done \subseteq done'
    BY <1>3
  <2> QED
    BY <1>0, <1>1, <2>1 DEF Logged, is_empty, make_next_task_id, task_id_to_index
<1>12. Inline'
  <2>1. \A c \in Clients : running'[c] = running[c]
    BY <1>4
  <2>2. InlineAt(t) = {} /\ InlineAt(t)' = {}
    <3>1. \A n \in 1 .. Len(<<>>) : FALSE
      BY SMT
    <3>2. \A n \in 1 .. Len(running[t]) : ~(n > 1)
      BY <1>1, SMT
    <3> QED
      BY <1>1, <1>4, <3>1, <3>2 DEF InlineAt
  <2>3. \A u \in AllThreads : u # t => InlineAt(u)' = InlineAt(u) /\ running'[u] = running[u]
    BY <1>4 DEF InlineAt
  <2>4. \A u \in AllThreads : /\ InlineAt(u)' = InlineAt(u)
                             /\ \A n \in InlineAt(u) : running'[u][n] = running[u][n]
    BY <2>2, <2>3
  <2>5. \A l \in 1 .. Len(log) : log[l].id = 1 /\ l \in done' => l \in done
    BY <1>2, <1>3
  <2> QED
    BY <1>0, <1>1, <1>3, <2>1, <2>4, <2>5, InlineKept
<1>13. Bounded'
  <2>1. pc[t] \notin {"add_task", "fill"} /\ "clear" \notin {"add_task", "fill"}
    BY <1>1
  <2>2. Cardinality(Submitting') = Cardinality(Submitting)
    BY <1>1, <2>1, CountSubmitting
  <2> QED
    BY <1>0, <1>1, <2>2 DEF Bounded
<1>14. Destroying'
  <2>1. \A c \in Clients : pc'[c] = pc[c] /\ running'[c] = running[c]
    BY <1>4
  <2>2. ~destructing
    BY <1>0, <1>2 DEF Destroying
  <2> QED
    BY <1>0, <1>1, <1>4, <2>1, <2>2, SMT DEF Destroying
<1>15. EnoughAwake'
  <2>1. Ready' = Ready
    BY <1>1 DEF Ready, is_ready, is_empty
  <2> QED
    BY <1>0, <1>1, <1>5, <2>1 DEF EnoughAwake
<1> QED
  BY <1>6, <1>7, <1>8, <1>9, <1>10, <1>11, <1>12, <1>13, <1>14, <1>15 DEF IInv

\* A worker clears the slot of the task it has called, and tells those who wait.
LEMMA ClearInv ==
    ASSUME ThreadPoolAssumption, IInv, NEW t \in AllThreads, Clear(t)
    PROVE  IInv'
<1>0. /\ TypeOK /\ Locked /\ SleepsInLoop /\ Assigned /\ Filled /\ Logged /\ Inline /\ Destroying
      /\ Bounded /\ EnoughAwake
  BY DEF IInv
<1> DEFINE i == slot[t]
<1>1. /\ pc[t] = "clear" /\ pc' = [pc EXCEPT ![t] = "loop"] /\ t \notin asleep
      /\ tasks' = [tasks EXCEPT ![i].is_being_processed = FALSE, ![i].task_id = 0]
      /\ asleep' = asleep \ broadcast(task_done_signaler)
      /\ UNCHANGED <<m, destructing, log, running, idx, slot, done>>
  BY DEF Clear, Enters, Goes, locals
<1>2. m = NoThread
  BY DEF Clear, Enters
<1>3. /\ pc'[t] = "loop" /\ \A u \in AllThreads : u # t => pc'[u] = pc[u]
      /\ t \in Workers /\ Workers \subseteq AllThreads /\ Clients \subseteq AllThreads
      /\ \A c \in Clients : c # t
  <2>1. t \in Workers /\ Workers \subseteq AllThreads /\ Clients \subseteq AllThreads /\ \A c \in Clients : c # t
    BY <1>1, WorkersLoop
  <2> QED
    BY <1>0, <1>1, <2>1 DEF TypeOK
<1>4. /\ t \in Busy /\ i \in Slots /\ ~is_empty(i) /\ tasks[i].is_being_processed
      /\ running[t] = <<>> /\ tasks[i].task \in done
  <2>1. t \in Busy
    BY <1>1, <1>3 DEF Busy
  <2> QED
    BY <1>0, <1>1, <2>1 DEF Assigned
<1> HIDE DEF i
<1>5. /\ tasks' \in [Slots -> TaskType]
      /\ ~tasks'[i].is_being_processed /\ tasks'[i].task_id = 0
      /\ tasks'[i].next_task_id = tasks[i].next_task_id
      /\ \A j \in Slots : j # i => tasks'[j] = tasks[j]
  <2> DEFINE new == [tasks[i] EXCEPT !.is_being_processed = FALSE, !.task_id = 0]
  <2>1. tasks[i] \in TaskType
    BY <1>0, <1>4 DEF TypeOK
  <2>2. new \in TaskType /\ ~new.is_being_processed /\ new.task_id = 0
        /\ new.next_task_id = tasks[i].next_task_id
    BY <2>1 DEF TaskType
  <2>3. tasks' = [tasks EXCEPT ![i] = new]
    BY <1>0, <1>1, <1>4 DEF TypeOK
  <2> HIDE DEF new
  <2> QED
    BY <1>0, <1>4, <2>2, <2>3 DEF TypeOK
<1>6. /\ Busy' = Busy \ {t} /\ AtLoop' = AtLoop \cup {t}
      /\ AtLoop' \cap asleep' = AtLoop \cap asleep
      /\ AtLoop' \ asleep' = (AtLoop \ asleep) \cup {t}
  <2>1. Busy' = Busy \ {t}
    BY <1>1, <1>3 DEF Busy
  <2>2. AtLoop' = AtLoop \cup {t}
    BY <1>1, <1>3 DEF AtLoop
  <2>3. \A u \in AtLoop : u \in asleep' <=> u \in asleep
    BY <1>1 DEF AtLoop, broadcast, task_done_signaler
  <2>4. t \notin asleep'
    BY <1>1
  <2> QED
    BY <1>1, <2>1, <2>2, <2>3, <2>4
<1>7. TypeOK'
  <2>1. /\ pc' \in [AllThreads -> WorkerPlaces \cup ClientPlaces]
        /\ \A w \in Workers : pc'[w] \in WorkerPlaces
        /\ \A c \in Clients : pc'[c] \in ClientPlaces
    BY <1>0, <1>1, <1>3 DEF TypeOK, WorkerPlaces, ClientPlaces
  <2> QED
    BY <1>0, <1>1, <1>5, <2>1 DEF TypeOK
<1>8. Locked'
  BY <1>0, <1>1, <1>2, <1>3, SlotFacts DEF Locked
<1>9. SleepsInLoop'
  BY <1>0, <1>1, <1>3 DEF SleepsInLoop, TypeOK, task_ready_signaler, task_done_signaler
<1>10. Assigned'
  <2>1. ASSUME NEW w \in Busy'
        PROVE  /\ slot'[w] \in Slots /\ tasks'[slot'[w]].task_id # 0 /\ tasks'[slot'[w]].is_being_processed
               /\ pc'[w] = "clear" => running'[w] = <<>> /\ tasks'[slot'[w]].task \in done'
               /\ pc'[w] # "clear" => /\ Len(running'[w]) >= 1 /\ running'[w][1] = tasks'[slot'[w]].task
                                      /\ tasks'[slot'[w]].task \notin done'
    <3>1. w \in Busy /\ w # t /\ pc'[w] = pc[w]
      BY <1>3, <1>6, <2>1 DEF Busy
    <3>2. slot[w] # i
      BY <1>0, <1>4, <3>1 DEF Assigned, i
    <3>3. /\ slot[w] \in Slots /\ ~is_empty(slot[w]) /\ tasks[slot[w]].is_being_processed
          /\ pc[w] = "clear" => running[w] = <<>> /\ tasks[slot[w]].task \in done
          /\ pc[w] # "clear" => /\ Len(running[w]) >= 1 /\ running[w][1] = tasks[slot[w]].task
                                /\ tasks[slot[w]].task \notin done
      BY <1>0, <3>1 DEF Assigned
    <3> QED
      BY <1>1, <1>5, <3>1, <3>2, <3>3 DEF is_empty
  <2>2. \A v, w \in Busy' : slot'[v] = slot'[w] => v = w
    BY <1>0, <1>1, <1>6 DEF Assigned
  <2>3. \A j \in Slots : tasks'[j].is_being_processed => \E w \in Busy' : slot'[w] = j
    <3> SUFFICES ASSUME NEW j \in Slots, tasks'[j].is_being_processed
                 PROVE  \E w \in Busy' : slot'[w] = j
      OBVIOUS
    <3>1. j # i /\ tasks[j].is_being_processed
      BY <1>5
    <3>2. PICK w \in Busy : slot[w] = j
      BY <1>0, <3>1 DEF Assigned
    <3>3. w # t
      BY <3>1, <3>2 DEF i
    <3> QED
      BY <1>1, <1>6, <3>2, <3>3
  <2>4. \A w \in Workers \ Busy' : running'[w] = <<>>
    BY <1>0, <1>1, <1>4, <1>6 DEF Assigned
  <2> QED
    BY <2>1, <2>2, <2>3, <2>4 DEF Assigned, is_empty
<1>11. Filled'
  <2> SUFFICES ASSUME NEW j \in Slots
               PROVE  /\ tasks'[j].next_task_id >= 2
                      /\ tasks'[j].task_id # 0 =>
                            /\ tasks'[j].task \in 1 .. Len(log') /\ tasks'[j].task_id # 1
                            /\ log'[tasks'[j].task].id = tasks'[j].task_id
                            /\ log'[tasks'[j].task].by = tasks'[j].thread_id
                            /\ task_id_to_index(tasks'[j].task_id) = j
                            /\ ~tasks'[j].is_being_processed => tasks'[j].task \notin done'
    BY DEF Filled, is_empty, is_ready, task_id_to_index
  <2>1. CASE j = i
    BY <1>0, <1>4, <1>5, <2>1 DEF Filled
  <2>2. CASE j # i
    BY <1>0, <1>1, <1>5, <2>2 DEF Filled, is_empty, is_ready
  <2> QED
    BY <2>1, <2>2
<1>12. Logged'
  <2> SUFFICES ASSUME NEW k \in 1 .. Len(log), log[k].id # 1
               PROVE  LET j == log[k].id % Size
                      IN  /\ Size > 0 /\ j \in Slots
                          /\ log[k].id < tasks'[j].next_task_id * Size + j
                          /\ k \notin done => tasks'[j].task_id # 0 /\ tasks'[j].task = k
                          /\ \A l \in 1 .. Len(log) : log[l].id = log[k].id => l = k
    BY <1>1 DEF Logged, is_empty, make_next_task_id, task_id_to_index
  <2> DEFINE j == log[k].id % Size
  <2>1. /\ Size > 0 /\ j \in Slots
        /\ log[k].id < tasks[j].next_task_id * Size + j
        /\ k \notin done => ~is_empty(j) /\ tasks[j].task = k
        /\ \A l \in 1 .. Len(log) : log[l].id = log[k].id => l = k
    BY <1>0 DEF Logged, make_next_task_id, task_id_to_index
  <2> HIDE DEF j
  <2>2. tasks'[j].next_task_id = tasks[j].next_task_id
    BY <1>5, <2>1
  <2>3. k \notin done => j # i
    BY <1>4, <2>1
  <2> QED
    BY <1>5, <2>1, <2>2, <2>3 DEF is_empty, j
<1>13. Inline'
  <2>1. \A u \in AllThreads : InlineAt(u)' = InlineAt(u)
    BY <1>1 DEF InlineAt
  <2> QED
    BY <1>0, <1>1, <2>1, InlineKept
<1>14. Bounded'
  <2>1. pc[t] \notin {"add_task", "fill"} /\ "loop" \notin {"add_task", "fill"}
    BY <1>1
  <2>2. Cardinality(Submitting') = Cardinality(Submitting)
    BY <1>1, <2>1, CountSubmitting
  <2> QED
    BY <1>0, <1>1, <2>2 DEF Bounded
<1>15. Destroying'
  <2>1. \A c \in Clients : pc'[c] = pc[c]
    BY <1>3
  <2>2. ~destructing
    BY <1>0, <1>4 DEF Destroying
  <2> QED
    BY <1>0, <1>1, <1>3, <2>1, <2>2, SMT DEF Destroying
<1>16. EnoughAwake'
  <2>1. Ready' = Ready
    BY <1>4, <1>5 DEF Ready, is_ready, is_empty
  <2>2. Ready \in SUBSET Slots /\ AtLoop \ asleep \in SUBSET Workers /\ t \notin AtLoop
    BY <1>1 DEF Ready, AtLoop
  <2>3. /\ Cardinality(AtLoop' \ asleep') = Cardinality(AtLoop \ asleep) + 1
        /\ Cardinality(AtLoop \ asleep) \in Nat /\ Cardinality(Ready) \in Nat
    BY <1>6, <2>2, CountAwake, FS_AddElement
  <2> QED
    BY <1>0, <1>6, <2>1, <2>3, SMT DEF EnoughAwake
<1> QED
  BY <1>7, <1>8, <1>9, <1>10, <1>11, <1>12, <1>13, <1>14, <1>15, <1>16 DEF IInv

-----------------------------------------------------------------------------
(* The destructor *)

\* The destructor waits for every slot to be empty, then tells the workers.
LEMMA ShutdownInv ==
    ASSUME ThreadPoolAssumption, IInv, NEW t \in AllThreads, shutdown_pool(t)
    PROVE  IInv'
<1>0. /\ TypeOK /\ Locked /\ SleepsInLoop /\ Assigned /\ Filled /\ Logged /\ Inline /\ Destroying
      /\ Bounded /\ EnoughAwake
  BY DEF IInv
<1> DEFINE Left == \E i \in Slots : ~is_empty(i)
           new == IF Left THEN "shutdown" ELSE "join"
<1>1. /\ t \in Clients /\ pc[t] \in {"user", "shutdown"} /\ t \notin asleep
      /\ \A d \in Clients : running[d] = <<>> /\ (d # t => pc[d] = "user")
  BY <1>0 DEF shutdown_pool, Calls, Enters, Destroying
<1>2. /\ pc' = [pc EXCEPT ![t] = new] /\ new \in {"shutdown", "join"}
      /\ UNCHANGED <<m, tasks, log, running, idx, slot, done>>
  BY DEF shutdown_pool, Sleeps, Goes, locals
<1>3. /\ Left => new = "shutdown" /\ asleep' = asleep \cup {t} /\ destructing' = destructing
      /\ ~Left => new = "join" /\ asleep' = asleep \ broadcast(task_ready_signaler) /\ destructing' = TRUE
  BY DEF shutdown_pool, Sleeps
<1> HIDE DEF new
<1>4. /\ pc'[t] = new /\ \A u \in AllThreads : u # t => pc'[u] = pc[u]
      /\ Workers \subseteq AllThreads /\ Clients \subseteq AllThreads /\ t \notin Workers
  <2>1. Workers \subseteq AllThreads /\ Clients \subseteq AllThreads /\ t \notin Workers
    BY <1>1, WorkersLoop
  <2> QED
    BY <1>0, <1>2, <2>1 DEF TypeOK
<1>5. \A w \in Workers : pc'[w] = pc[w]
  BY <1>4
<1>6. Busy' = Busy /\ AtLoop' = AtLoop /\ Ready' = Ready
  <2>1. Ready' = Ready
    BY <1>2 DEF Ready, is_ready, is_empty
  <2> QED
    BY <1>5, <2>1 DEF Busy, AtLoop
<1>7. ~destructing
  BY <1>0, <1>1 DEF Destroying
<1>8. TypeOK'
  <2>1. /\ pc' \in [AllThreads -> WorkerPlaces \cup ClientPlaces]
        /\ \A w \in Workers : pc'[w] \in WorkerPlaces
        /\ \A c \in Clients : pc'[c] \in ClientPlaces
    BY <1>0, <1>2, <1>4 DEF TypeOK, WorkerPlaces, ClientPlaces
  <2>2. asleep' \subseteq AllThreads /\ destructing' \in BOOLEAN
    BY <1>0, <1>3 DEF TypeOK
  <2> QED
    BY <1>0, <1>2, <2>1, <2>2 DEF TypeOK
<1>9. Locked'
  BY <1>0, <1>1, <1>2, <1>4, SMT DEF Locked, is_empty
<1>10. SleepsInLoop'
  <2>1. CASE Left
    BY <1>0, <1>3, <1>4, <2>1 DEF SleepsInLoop, TypeOK, task_ready_signaler, task_done_signaler
  <2>2. CASE ~Left
    BY <1>0, <1>1, <1>3, <1>4, <2>2, ZenonT(30) DEF SleepsInLoop, TypeOK, task_ready_signaler, task_done_signaler
  <2> QED
    BY <2>1, <2>2
<1>11. Assigned'
  BY <1>0, <1>2, <1>5, <1>6, SMT DEF Assigned, is_empty, Busy
<1>12. Filled' /\ Logged' /\ Inline'
  BY <1>0, <1>2, TablesStay
<1>13. Bounded'
  <2>1. pc[t] \notin {"add_task", "fill"} /\ new \notin {"add_task", "fill"}
    BY <1>1, <1>2
  <2>2. Cardinality(Submitting') = Cardinality(Submitting)
    BY <1>2, <2>1, CountSubmitting
  <2> QED
    BY <1>0, <1>2, <2>2 DEF Bounded
<1>14. Destroying'
  <2>1. \A d \in Clients : running'[d] = <<>> /\ (d # t => pc'[d] = "user")
    BY <1>1, <1>2, <1>4
  <2>2. \A w \in Workers : pc[w] # "ended"
    BY <1>0, <1>7 DEF Destroying
  <2>3. CASE Left
    BY <1>3, <1>4, <1>5, <1>7, <2>1, <2>2, <2>3, SMT DEF Destroying
  <2>4. CASE ~Left
    <3>1. Busy = {}
      BY <1>0, <2>4 DEF Assigned
    <3>2. \A i \in Slots : is_empty(i)'
      BY <1>2, <2>4 DEF is_empty
    <3>3. destructing' /\ Busy' = {} /\ pc'[t] = "join" /\ \A d \in Clients : pc'[d] # "gone"
      BY <1>1, <1>3, <1>4, <1>6, <2>1, <2>4, <3>1
    <3> QED
      BY <1>1, <1>5, <2>1, <2>2, <3>2, <3>3 DEF Destroying
  <2> QED
    BY <2>3, <2>4
<1>15. EnoughAwake'
  <2>1. CASE Left
    <3>1. AtLoop' \cap asleep' = AtLoop \cap asleep /\ AtLoop' \ asleep' = AtLoop \ asleep
      BY <1>3, <1>4, <1>6, <2>1 DEF AtLoop
    <3> QED
      BY <1>0, <1>6, <3>1 DEF EnoughAwake
  <2>2. CASE ~Left
    <3>1. Ready' = {} /\ Ready' \in SUBSET Slots /\ AtLoop' \ asleep' \in SUBSET Workers
      BY <1>6, <2>2 DEF Ready, is_ready, AtLoop
    <3> QED
      BY <3>1, CountAwake, SMT DEF EnoughAwake
  <2> QED
    BY <2>1, <2>2
<1> QED
  BY <1>8, <1>9, <1>10, <1>11, <1>12, <1>13, <1>14, <1>15 DEF IInv

\* The destructor returns when the workers have ended.
LEMMA JoinInv ==
    ASSUME ThreadPoolAssumption, IInv, NEW t \in AllThreads, Join(t)
    PROVE  IInv'
<1>0. /\ TypeOK /\ Locked /\ SleepsInLoop /\ Assigned /\ Filled /\ Logged /\ Inline /\ Destroying
      /\ Bounded /\ EnoughAwake
  BY DEF IInv
<1>1. /\ pc[t] = "join" /\ pc' = [pc EXCEPT ![t] = "gone"] /\ \A w \in Workers : pc[w] = "ended"
      /\ UNCHANGED <<m, tasks, destructing, log, asleep, running, idx, slot, done>>
  BY DEF Join, Goes, pool, locals
<1>2. /\ pc'[t] = "gone" /\ \A u \in AllThreads : u # t => pc'[u] = pc[u]
      /\ Workers \subseteq AllThreads /\ Clients \subseteq AllThreads /\ t \notin Workers /\ t \in Clients
  <2>1. Workers \subseteq AllThreads /\ Clients \subseteq AllThreads /\ t \notin Workers /\ t \in Clients
    BY <1>1, WorkersLoop
  <2> QED
    BY <1>0, <1>1, <2>1 DEF TypeOK
<1>3. \A w \in Workers : pc'[w] = pc[w]
  BY <1>2
<1>4. Busy' = Busy /\ AtLoop' = AtLoop /\ Ready' = Ready
  <2>1. Ready' = Ready
    BY <1>1 DEF Ready, is_ready, is_empty
  <2> QED
    BY <1>3, <2>1 DEF Busy, AtLoop
<1>5. TypeOK'
  BY <1>0, <1>1, <1>2 DEF TypeOK, ClientPlaces
<1>6. Locked'
  BY <1>0, <1>1, <1>2 DEF Locked, is_empty
<1>7. SleepsInLoop'
  BY <1>0, <1>1, <1>2 DEF SleepsInLoop, TypeOK, task_ready_signaler, task_done_signaler
<1>8. Assigned'
  BY <1>0, <1>1, <1>3, <1>4, SMT DEF Assigned, is_empty, Busy
<1>9. Filled' /\ Logged' /\ Inline'
  BY <1>0, <1>1, TablesStay
<1>10. Bounded'
  <2>1. pc[t] \notin {"add_task", "fill"} /\ "gone" \notin {"add_task", "fill"}
    BY <1>1
  <2>2. Cardinality(Submitting') = Cardinality(Submitting)
    BY <1>1, <2>1, CountSubmitting
  <2> QED
    BY <1>0, <1>1, <2>2 DEF Bounded
<1>11. Destroying'
  BY <1>0, <1>1, <1>2, <1>3, <1>4, SMT DEF Destroying, is_empty
<1>12. EnoughAwake'
  BY <1>0, <1>1, <1>4 DEF EnoughAwake
<1> QED
  BY <1>5, <1>6, <1>7, <1>8, <1>9, <1>10, <1>11, <1>12 DEF IInv

-----------------------------------------------------------------------------
(* add_task fills the slot it has found *)

\* What Fill writes: the slot i, with an id that is new, and the log of length L.
Fills(t, i, id, L) ==
    /\ i \in Slots /\ i \in Nat /\ Size > 0 /\ Size \in Nat /\ L \in Nat /\ is_empty(i)
    /\ ~tasks[i].is_being_processed /\ \A w \in Busy : slot[w] # i
    /\ id \in Nat /\ id > 1 /\ id % Size = i
    /\ tasks' \in [Slots -> TaskType]
    /\ tasks'[i].task_id = id /\ tasks'[i].thread_id = t /\ tasks'[i].task = L + 1
    /\ ~tasks'[i].is_being_processed
    /\ tasks'[i].next_task_id \in Nat /\ tasks'[i].next_task_id = tasks[i].next_task_id + 1
    /\ tasks'[i].next_task_id * Size + i = id + Size
    /\ \A j \in Slots : j # i => tasks'[j] = tasks[j]
    /\ log' \in Seq([id : Nat, by : AllThreads]) /\ Len(log') = L + 1
    /\ \A k \in 1 .. L : log'[k] = log[k]
    /\ log'[L + 1].id = id /\ log'[L + 1].by = t

\* Every submission is logged with its id.
LEMMA LogEntry ==
    ASSUME TypeOK, NEW k \in 1 .. Len(log)
    PROVE  log[k].id \in Nat
<1>1. log \in Seq([id : Nat, by : AllThreads])
  BY DEF TypeOK
<1>2. ASSUME NEW S, log \in Seq(S) PROVE log[k] \in S
  BY <1>2, SMT
<1>3. log[k] \in [id : Nat, by : AllThreads]
  BY <1>1, <1>2
<1> QED
  BY <1>3

\* add_task_internal writes into the slot that it found empty, and no worker
\* is busy with that slot.
LEMMA FillFacts ==
    ASSUME ThreadPoolAssumption, IInv, NEW t \in AllThreads, Fill(t),
           NEW i, i = idx[t], NEW id, id = make_next_task_id(i), NEW L, L = Len(log)
    PROVE  Fills(t, i, id, L)
<1>0. TypeOK /\ Locked /\ Assigned /\ Filled
  BY DEF IInv
<1>1. pc[t] = "fill" /\ i \in Slots /\ is_empty(i)
  BY <1>0 DEF Fill, Locked
<1>2. Size \in Nat /\ Size > 0 /\ i \in Nat /\ i \in 0 .. Size - 1
  BY <1>1, SlotFacts, SMTT(60) DEF Slots
<1>3. ~tasks[i].is_being_processed /\ \A w \in Busy : slot[w] # i
  BY <1>0, <1>1 DEF Assigned
<1>4. log \in Seq([id : Nat, by : AllThreads]) /\ L \in Nat
  <2>1. log \in Seq([id : Nat, by : AllThreads])
    BY <1>0 DEF TypeOK
  <2> QED
    BY <2>1, SMT
<1> DEFINE n == tasks[i].next_task_id
<1>5. tasks[i] \in TaskType /\ n \in Nat /\ n >= 2
  BY <1>0, <1>1 DEF TypeOK, TaskType, Filled
<1>6. id = n * Size + i
  BY DEF make_next_task_id
<1> HIDE DEF n
<1>7. id \in Nat /\ id > 1 /\ id % Size = i /\ (n + 1) * Size + i = id + Size
  <2>1. n * Size \in Nat /\ n * Size >= n /\ (n + 1) * Size = n * Size + Size
    <3>1. n * Size \in Nat
      BY <1>2, <1>5, SMT
    <3>2. (n + 1) * Size = n * Size + Size
      BY <1>2, <1>5, SMT
    <3>3. n * (Size - 1) >= 0 /\ n * (Size - 1) = n * Size - n
      BY <1>2, <1>5, SMT
    <3> QED
      BY <1>5, <3>1, <3>2, <3>3, SMT
  <2>2. id % Size = i
    BY <1>2, <1>5, <1>6, Residue, ZenonT(60)
  <2>3. id \in Nat /\ id > 1 /\ (n + 1) * Size + i = id + Size
    BY <1>2, <1>5, <1>6, <2>1, SMT
  <2> QED
    BY <2>2, <2>3
<1> DEFINE new == [tasks[i] EXCEPT !.task_id = id, !.thread_id = t, !.task = L + 1, !.next_task_id = n + 1]
<1>8. /\ new \in TaskType /\ new.task_id = id /\ new.thread_id = t /\ new.task = L + 1
      /\ new.is_being_processed = tasks[i].is_being_processed /\ new.next_task_id = n + 1
  <2> DEFINE k == L + 1
             l == n + 1
  <2>1. k \in Nat /\ l \in Nat /\ t \in AllThreads \cup {NoThread} /\ id \in Nat
    BY <1>4, <1>5, <1>7, SMT
  <2> HIDE DEF k, l
  <2>2. /\ [tasks[i] EXCEPT !.task_id = id, !.thread_id = t, !.task = k, !.next_task_id = l] \in TaskType
        /\ [tasks[i] EXCEPT !.task_id = id, !.thread_id = t, !.task = k, !.next_task_id = l].task_id = id
        /\ [tasks[i] EXCEPT !.task_id = id, !.thread_id = t, !.task = k, !.next_task_id = l].thread_id = t
        /\ [tasks[i] EXCEPT !.task_id = id, !.thread_id = t, !.task = k, !.next_task_id = l].task = k
        /\ [tasks[i] EXCEPT !.task_id = id, !.thread_id = t, !.task = k, !.next_task_id = l].next_task_id = l
        /\ [tasks[i] EXCEPT !.task_id = id, !.thread_id = t, !.task = k, !.next_task_id = l].is_being_processed =
               tasks[i].is_being_processed
    BY <1>5, <2>1 DEF TaskType
  <2> QED
    BY <2>2 DEF k, l
<1>9. tasks' = [tasks EXCEPT ![i] = new]
  <2>1. tasks' = [tasks EXCEPT ![i].task_id = id, ![i].thread_id = t, ![i].task = L + 1, ![i].next_task_id = @ + 1]
    BY DEF Fill
  <2>2. tasks' = [tasks EXCEPT ![i] =
                     [tasks[i] EXCEPT !.task_id = id, !.thread_id = t, !.task = L + 1, !.next_task_id = @ + 1]]
    BY <1>0, <1>1, <2>1 DEF TypeOK
  <2> QED
    BY <1>5, <2>2 DEF n, TaskType
<1> HIDE DEF new
<1>10. /\ tasks'[i] = new /\ tasks' \in [Slots -> TaskType]
       /\ \A j \in Slots : j # i => tasks'[j] = tasks[j]
  BY <1>0, <1>1, <1>8, <1>9 DEF TypeOK
<1>11. tasks'[i].next_task_id * Size + i = id + Size
  BY <1>7, <1>8, <1>10
<1> DEFINE entry == [id |-> id, by |-> t]
<1>12. entry \in [id : Nat, by : AllThreads] /\ entry.id = id /\ entry.by = t /\ log' = Append(log, entry)
  BY <1>7 DEF Fill
<1> HIDE DEF entry
<1>13. /\ log' \in Seq([id : Nat, by : AllThreads]) /\ Len(log') = L + 1
       /\ \A k \in 1 .. L : log'[k] = log[k]
       /\ log'[L + 1] = entry
  BY <1>4, <1>12, SMT
<1>14. n = tasks[i].next_task_id
  BY DEF n
<1>15. /\ tasks'[i].task_id = id /\ tasks'[i].thread_id = t /\ tasks'[i].task = L + 1
       /\ ~tasks'[i].is_being_processed
  BY <1>3, <1>8, <1>10
<1>16. tasks'[i].next_task_id \in Nat /\ tasks'[i].next_task_id = tasks[i].next_task_id + 1
  BY <1>5, <1>8, <1>10, <1>14, SMT
<1>17. log'[L + 1].id = id /\ log'[L + 1].by = t
  BY <1>12, <1>13
<1> QED
  BY <1>1, <1>2, <1>3, <1>4, <1>7, <1>10, <1>11, <1>13, <1>15, <1>16, <1>17 DEF Fills

\* add_task fills the slot, and wakes a worker if one sleeps.
LEMMA FillInv ==
    ASSUME ThreadPoolAssumption, IInv, NEW t \in AllThreads, Fill(t)
    PROVE  IInv'
<1>0. /\ TypeOK /\ Locked /\ SleepsInLoop /\ Assigned /\ Filled /\ Logged /\ Inline /\ Destroying
      /\ Bounded /\ EnoughAwake
  BY DEF IInv
<1>1. PICK i, id, L : i = idx[t] /\ id = make_next_task_id(i) /\ L = Len(log) /\ Fills(t, i, id, L)
  BY FillFacts
<1>2. /\ i \in Slots /\ i \in Nat /\ Size > 0 /\ Size \in Nat /\ L \in Nat /\ is_empty(i)
      /\ ~tasks[i].is_being_processed /\ \A w \in Busy : slot[w] # i
      /\ id \in Nat /\ id > 1 /\ id % Size = i
      /\ tasks' \in [Slots -> TaskType]
      /\ tasks'[i].task_id = id /\ tasks'[i].thread_id = t /\ tasks'[i].task = L + 1
      /\ ~tasks'[i].is_being_processed
      /\ tasks'[i].next_task_id \in Nat /\ tasks'[i].next_task_id = tasks[i].next_task_id + 1
      /\ tasks'[i].next_task_id * Size + i = id + Size
      /\ \A j \in Slots : j # i => tasks'[j] = tasks[j]
      /\ log' \in Seq([id : Nat, by : AllThreads]) /\ Len(log') = L + 1
      /\ \A k \in 1 .. L : log'[k] = log[k]
      /\ log'[L + 1].id = id /\ log'[L + 1].by = t
  BY <1>1 DEF Fills
<1>3. /\ pc[t] = "fill" /\ pc' = [pc EXCEPT ![t] = "user"] /\ m' = NoThread /\ signal_ready
      /\ UNCHANGED <<destructing, running, idx, slot, done>>
  BY DEF Fill, Goes
<1>4. /\ pc'[t] = "user" /\ \A u \in AllThreads : u # t => pc'[u] = pc[u]
      /\ Workers \subseteq AllThreads /\ Clients \subseteq AllThreads /\ \A c \in Clients : c \notin Workers
      /\ done \subseteq 1 .. L
  <2>1. Workers \subseteq AllThreads /\ Clients \subseteq AllThreads /\ \A c \in Clients : c \notin Workers
    BY WorkersLoop
  <2> QED
    BY <1>0, <1>1, <1>3, <2>1 DEF TypeOK
<1>5. Busy' = Busy /\ AtLoop' = AtLoop
  <2>1. Busy' = Busy
    BY <1>3, <1>4 DEF Busy
  <2>2. AtLoop' = AtLoop
    BY <1>3, <1>4 DEF AtLoop
  <2> QED
    BY <2>1, <2>2
<1>6. \/ AtLoop \cap asleep = {} /\ asleep' = asleep
      \/ \E w \in AtLoop \cap asleep : asleep' = asleep \ {w}
  <2>1. broadcast(task_ready_signaler) = AtLoop \cap asleep
    BY WorkersLoop DEF broadcast, task_ready_signaler
  <2> QED
    BY <1>3, <2>1 DEF signal_ready
<1>7. TypeOK'
  <2>1. /\ pc' \in [AllThreads -> WorkerPlaces \cup ClientPlaces]
        /\ \A w \in Workers : pc'[w] \in WorkerPlaces
        /\ \A c \in Clients : pc'[c] \in ClientPlaces
    BY <1>0, <1>3, <1>4 DEF TypeOK, WorkerPlaces, ClientPlaces
  <2>2. done' \subseteq 1 .. Len(log')
    <3>1. L \in Nat /\ Len(log') = L + 1
      BY <1>2
    <3> QED
      BY <1>3, <1>4, <3>1, SMT
  <2>3. asleep' \subseteq AllThreads
    BY <1>0, <1>6 DEF TypeOK
  <2> QED
    BY <1>0, <1>2, <1>3, <2>1, <2>2, <2>3, SlotFacts DEF TypeOK
<1>8. Locked'
  <2>1. \A u \in AllThreads : pc'[u] # "fill"
    BY <1>0, <1>3, <1>4 DEF Locked
  <2> QED
    BY <1>3, <2>1, SlotFacts DEF Locked
<1>9. SleepsInLoop'
  <2>1. asleep' \subseteq asleep /\ t \notin asleep
    BY <1>0, <1>3, <1>6, ZenonT(30) DEF SleepsInLoop, task_ready_signaler, task_done_signaler
  <2> QED
    BY <1>0, <1>4, <2>1 DEF SleepsInLoop, TypeOK, task_ready_signaler, task_done_signaler
<1>10. Assigned'
  <2>1. \A w \in Busy : slot[w] \in Slots /\ tasks'[slot[w]] = tasks[slot[w]]
    BY <1>0, <1>2 DEF Assigned
  <2>2. \A w \in Workers : pc'[w] = "clear" <=> pc[w] = "clear"
    BY <1>3, <1>4
  <2>3. \A j \in Slots : tasks'[j].is_being_processed => tasks[j].is_being_processed
    BY <1>2
  <2> QED
    BY <1>0, <1>3, <1>5, <2>1, <2>2, <2>3, SMTT(60) DEF Assigned, is_empty, Busy
<1>11. Filled'
  <2> SUFFICES ASSUME NEW j \in Slots
               PROVE  /\ tasks'[j].next_task_id >= 2
                      /\ tasks'[j].task_id # 0 =>
                            /\ tasks'[j].task \in 1 .. Len(log') /\ tasks'[j].task_id # 1
                            /\ log'[tasks'[j].task].id = tasks'[j].task_id
                            /\ log'[tasks'[j].task].by = tasks'[j].thread_id
                            /\ task_id_to_index(tasks'[j].task_id) = j
                            /\ ~tasks'[j].is_being_processed => tasks'[j].task \notin done'
    BY DEF Filled, is_empty, is_ready, task_id_to_index
  <2>1. CASE j = i
    <3>1. tasks[i].next_task_id \in Nat /\ tasks[i].next_task_id >= 2
      BY <1>0, <1>2 DEF Filled, TypeOK, TaskType
    <3>2. tasks'[i].next_task_id >= 2
      BY <1>2, <3>1, SMTT(60)
    <3>3. L + 1 \in 1 .. L + 1 /\ L + 1 \notin done
      BY <1>2, <1>4, SMTT(60)
    <3>4. id # 1
      BY <1>2, SMT
    <3> QED
      BY <1>2, <1>3, <2>1, <3>2, <3>3, <3>4 DEF task_id_to_index
  <2>2. CASE j # i
    <3>1. /\ tasks[j].next_task_id >= 2
          /\ tasks[j].task_id # 0 =>
                /\ tasks[j].task \in 1 .. L /\ tasks[j].task_id # 1
                /\ log[tasks[j].task].id = tasks[j].task_id
                /\ log[tasks[j].task].by = tasks[j].thread_id
                /\ task_id_to_index(tasks[j].task_id) = j
                /\ ~tasks[j].is_being_processed => tasks[j].task \notin done
      BY <1>0, <1>1 DEF Filled, is_empty, is_ready
    <3>2. \A k \in 1 .. L : k \in 1 .. L + 1
      BY <1>2, SMTT(60)
    <3> QED
      BY <1>2, <1>3, <2>2, <3>1, <3>2
  <2> QED
    BY <2>1, <2>2
<1>12. Logged'
  <2>0. /\ tasks'[i].next_task_id * Size + i = id + Size
        /\ id \in Nat /\ Size \in Nat /\ Size > 0
    BY <1>2
  <2>1. ASSUME NEW k \in 1 .. L, log[k].id # 1
        PROVE  LET j == log[k].id % Size
               IN  /\ log[k].id \in Nat /\ Size > 0 /\ j \in Slots
                   /\ log[k].id < tasks'[j].next_task_id * Size + j
                   /\ k \notin done => tasks'[j].task_id # 0 /\ tasks'[j].task = k
                   /\ \A l \in 1 .. L : log[l].id = log[k].id => l = k
                   /\ log[k].id # id
    <3> DEFINE j == log[k].id % Size
    <3>1. /\ Size > 0 /\ j \in Slots
          /\ log[k].id < make_next_task_id(j)
          /\ k \notin done => ~is_empty(j) /\ tasks[j].task = k
          /\ \A l \in 1 .. L : log[l].id = log[k].id => l = k
      BY <1>0, <1>1, <1>2, <2>1 DEF Logged, task_id_to_index
    <3>2. log[k].id \in Nat
      <4>1. k \in 1 .. Len(log)
        BY <1>1, <2>1
      <4> QED
        BY <1>0, <4>1, LogEntry
    <3>3. j = log[k].id % Size
      BY ZenonT(30)
    <3> HIDE DEF j
    <3>4. CASE j = i
      <4>1. log[k].id < id /\ k \in done
        BY <1>1, <1>2, <3>1, <3>4
      <4>2. log[k].id < tasks'[j].next_task_id * Size + j
        BY <2>0, <3>2, <3>4, <4>1, SMT
      <4> QED
        BY <1>2, <3>1, <3>2, <3>3, <4>1, <4>2, SMTT(60)
    <3>5. CASE j # i
      <4>1. tasks'[j] = tasks[j]
        BY <1>2, <3>1, <3>5
      <4>2. log[k].id < tasks'[j].next_task_id * Size + j
        BY <3>1, <4>1 DEF make_next_task_id
      <4>3. log[k].id # id
        BY <1>2, <3>3, <3>5
      <4> QED
        BY <3>1, <3>2, <3>3, <4>1, <4>2, <4>3 DEF is_empty
    <3> QED
      BY <3>4, <3>5
  <2>2. id < tasks'[i].next_task_id * Size + i
    BY <2>0, SMT
  <2>3. ASSUME NEW k \in 1 .. L + 1, log'[k].id # 1
        PROVE  LET j == log'[k].id % Size
               IN  /\ Size > 0 /\ j \in Slots
                   /\ log'[k].id < tasks'[j].next_task_id * Size + j
                   /\ k \notin done => tasks'[j].task_id # 0 /\ tasks'[j].task = k
                   /\ \A l \in 1 .. L + 1 : log'[l].id = log'[k].id => l = k
    <3>1. \A l \in 1 .. L + 1 : l \in 1 .. L \/ l = L + 1
      BY <1>2, SMTT(60)
    <3>2. CASE k = L + 1
      <4>1. \A l \in 1 .. L : log'[l].id # id
        <5>1. \A l \in 1 .. L : log'[l] = log[l] /\ log[l].id # id
          <6>1. id # 1
            BY <1>2, SMT
          <6> QED
            BY <1>2, <2>1, <6>1
        <5> QED
          BY <5>1
      <4>2. \A l \in 1 .. L + 1 : log'[l].id = log'[k].id => l = k
        BY <1>2, <3>1, <3>2, <4>1
      <4>3. log'[k].id = id /\ id % Size = i /\ id # 1 /\ id # 0
        BY <1>2, <3>2, SMT
      <4> QED
        BY <1>2, <2>2, <3>2, <4>2, <4>3
    <3>3. CASE k \in 1 .. L
      <4>1. log'[k] = log[k] /\ log[k].id # 1
        BY <1>2, <2>3, <3>3
      <4>2. \A l \in 1 .. L + 1 : log'[l].id = log'[k].id => l = k
        <5> SUFFICES ASSUME NEW l \in 1 .. L + 1, log'[l].id = log'[k].id
                     PROVE  l = k
          OBVIOUS
        <5>1. l # L + 1
          BY <1>2, <2>1, <3>3, <4>1, ZenonT(60)
        <5>2. l \in 1 .. L /\ log'[l] = log[l]
          BY <1>2, <3>1, <5>1
        <5> QED
          BY <2>1, <3>3, <4>1, <5>2
      <4> QED
        BY <2>1, <3>3, <4>1, <4>2
    <3> QED
      BY <3>1, <3>2, <3>3
  <2> QED
    BY <1>2, <1>3, <2>3, SMT DEF Logged, is_empty, make_next_task_id, task_id_to_index
<1>13. Inline'
  <2>1. \A u \in AllThreads : InlineAt(u)' = InlineAt(u)
    BY <1>3 DEF InlineAt
  <2>2. id # 1 /\ (\A k \in 1 .. L : k \in 1 .. L + 1) /\ \A k \in 1 .. L + 1 : k \in 1 .. L \/ k = L + 1
    BY <1>2, SMT
  <2>3. /\ \A k \in 1 .. Len(log) : k \in 1 .. Len(log') /\ log'[k].id = log[k].id
        /\ \A k \in 1 .. Len(log') : log'[k].id = 1 => k \in 1 .. Len(log)
    BY <1>1, <1>2, <2>2
  <2> QED
    BY <1>0, <1>3, <2>1, <2>3, InlineKept
<1>14. Bounded'
  <2>1. pc[t] \in {"add_task", "fill"} /\ "user" \notin {"add_task", "fill"}
    BY <1>3
  <2>2. /\ Cardinality(Submitting') = Cardinality(Submitting) - 1
        /\ Cardinality(Submitting') \in Nat /\ Cardinality(Submitting) \in Nat
    BY <1>3, <2>1, CountSubmitting
  <2> QED
    BY <1>0, <1>1, <1>2, <2>2, SlotFacts, SMTT(60) DEF Bounded
<1>15. Destroying'
  <2>1. ~destructing
    BY <1>0, <1>3, SlotFacts DEF Destroying, Busy
  <2>2. CASE t \in Clients
    <3>1. \A c \in Clients : pc'[c] \notin {"shutdown", "join", "gone"}
      BY <1>0, <1>3, <1>4, <2>2 DEF Destroying
    <3>2. \A w \in Workers : pc'[w] = pc[w]
      BY <1>4, <2>2
    <3> QED
      BY <1>0, <1>3, <2>1, <3>1, <3>2 DEF Destroying
  <2>3. CASE t \notin Clients
    <3>1. \A c \in Clients : pc'[c] = pc[c]
      BY <1>4, <2>3
    <3> QED
      BY <1>0, <1>3, <1>4, <2>1, <3>1, SMT DEF Destroying
  <2> QED
    BY <2>2, <2>3
<1>16. EnoughAwake'
  <2> SUFFICES ASSUME AtLoop \cap asleep' # {}
               PROVE  Cardinality(Ready') <= Cardinality(AtLoop \ asleep')
    BY <1>5 DEF EnoughAwake
  <2>1. PICK w \in AtLoop \cap asleep : asleep' = asleep \ {w}
    BY <1>6
  <2>2. AtLoop \ asleep' = (AtLoop \ asleep) \cup {w} /\ w \notin AtLoop \ asleep
    BY <2>1
  <2>3. Ready' = Ready \cup {i} /\ i \notin Ready
    <3>1. \A j \in Slots : j # i => (is_ready(j)' <=> is_ready(j))
      BY <1>2 DEF is_ready, is_empty
    <3>2. is_ready(i)' /\ ~is_ready(i) /\ i \in Slots
      BY <1>2, SMT DEF is_ready, is_empty
    <3> QED
      BY <3>1, <3>2 DEF Ready
  <2>4. Ready \in SUBSET Slots /\ AtLoop \ asleep \in SUBSET Workers
    BY DEF Ready, AtLoop
  <2>5. /\ Cardinality(AtLoop \ asleep') = Cardinality(AtLoop \ asleep) + 1
        /\ Cardinality(Ready') = Cardinality(Ready) + 1
        /\ Cardinality(AtLoop \ asleep) \in Nat /\ Cardinality(Ready) \in Nat
    BY <2>2, <2>3, <2>4, CountAwake, FS_AddElement
  <2> QED
    BY <1>0, <2>1, <2>5, SMT DEF EnoughAwake
<1> QED
  BY <1>7, <1>8, <1>9, <1>10, <1>11, <1>12, <1>13, <1>14, <1>15, <1>16 DEF IInv

-----------------------------------------------------------------------------
(* Induction *)

\* The constructor establishes the invariant.
LEMMA InitInv ==
    ASSUME ThreadPoolAssumption, Init
    PROVE  IInv
<1>1. /\ NoThread \notin AllThreads /\ Workers \subseteq AllThreads /\ Clients \subseteq AllThreads
      /\ \A c \in Clients : c \notin Workers
  BY SlotFacts
<1>2. /\ \A w \in Workers : pc[w] = "loop" /\ running[w] = <<>>
      /\ \A c \in Clients : pc[c] = "user" /\ running[c] = <<>>
      /\ \A i \in Slots : is_empty(i) /\ ~tasks[i].is_being_processed /\ tasks[i].next_task_id = 2
      /\ \A t \in AllThreads : pc[t] \in {"loop", "user"}
  BY <1>1 DEF Init, is_empty
<1>3. Len(log) = 0 /\ done = {} /\ asleep = {} /\ ~destructing /\ m = NoThread
  BY DEF Init
<1>4. Busy = {}
  BY <1>2 DEF Busy
<1>5. TypeOK
  <2>1. tasks \in [Slots -> TaskType]
    BY DEF Init, TaskType
  <2>2. /\ pc \in [AllThreads -> WorkerPlaces \cup ClientPlaces]
        /\ \A w \in Workers : pc[w] \in WorkerPlaces
        /\ \A c \in Clients : pc[c] \in ClientPlaces
    BY <1>1 DEF Init, WorkerPlaces, ClientPlaces
  <2>3. running \in [AllThreads -> Seq(Nat)] /\ log \in Seq([id : Nat, by : AllThreads])
    BY SMT DEF Init
  <2>4. idx \in [AllThreads -> Nat] /\ slot \in [AllThreads -> Nat]
    BY DEF Init
  <2>5. destructing \in BOOLEAN
    BY DEF Init
  <2> QED
    BY <1>3, <2>1, <2>2, <2>3, <2>4, <2>5 DEF TypeOK
<1>6. Locked
  BY <1>1, <1>2, <1>3 DEF Locked
<1>7. SleepsInLoop /\ EnoughAwake
  BY <1>3 DEF SleepsInLoop, EnoughAwake
<1>8. Assigned
  BY <1>2, <1>4 DEF Assigned
<1>9. Filled
  BY <1>2, SMT DEF Filled, is_ready
<1>10. Logged /\ Inline
  <2>1. 1 .. Len(log) = {}
    BY <1>3, SMT
  <2>2. \A t \in AllThreads : InlineAt(t) = {}
    <3>1. \A t \in AllThreads : running[t] = <<>>
      BY <1>2, SlotFacts
    <3>2. 1 .. Len(<<>>) = {}
      BY SMT
    <3> QED
      BY <3>1, <3>2 DEF InlineAt
  <2> QED
    BY <1>2, <2>1, <2>2 DEF Logged, Inline
<1>11. Bounded
  <2>1. Submitting = {}
    BY <1>2 DEF Submitting
  <2>2. Cardinality(Submitting) = 0
    BY <2>1, FS_EmptySet
  <2> QED
    BY <1>3, <2>2, SlotFacts, SMT DEF Bounded
<1>12. Destroying
  BY <1>2, <1>3, <1>4 DEF Destroying
<1> QED
  BY <1>5, <1>6, <1>7, <1>8, <1>9, <1>10, <1>11, <1>12 DEF IInv

\* What happened to m is not forgotten.
LEMMA StolenStays ==
    ASSUME [Next]_vars, stolen
    PROVE  stolen'
<1>1. ASSUME NEW t \in AllThreads, Step(t) PROVE stolen'
  <2>1. CASE add_task(t)
    BY <2>1 DEF add_task, FindsSlot, WaitsForSlot, CallsInline, pool
  <2>2. CASE Fill(t) \/ InlineReturns(t)
    BY <2>2 DEF Fill, InlineReturns
  <2>3. CASE wait_for_task(t) \/ wait_for_all_tasks(t)
    BY <2>3 DEF wait_for_task, wait_for_all_tasks, Wait, pool
  <2>4. CASE WorkerEnds(t) \/ WorkerWaits(t) \/ WorkerTakes(t) \/ TaskReturns(t) \/ Clear(t)
    BY <2>4 DEF WorkerEnds, WorkerWaits, WorkerTakes, TaskReturns, Clear, pool
  <2>5. CASE shutdown_pool(t) \/ Join(t)
    BY <2>5 DEF shutdown_pool, Join, pool
  <2> QED
    BY <1>1, <2>1, <2>2, <2>3, <2>4, <2>5 DEF Step
<1>2. CASE UNCHANGED vars
  BY <1>2 DEF vars
<1> QED
  BY <1>1, <1>2 DEF Next

\* Every step keeps the invariant, as long as m is not released under the
\* thread that has it.
LEMMA Inductive ==
    ASSUME ThreadPoolAssumption, IInv, [Next]_vars, ~stolen'
    PROVE  IInv'
<1>1. CASE Next
  <2> SUFFICES ASSUME NEW t \in AllThreads, Step(t) PROVE IInv'
    BY <1>1 DEF Next
  <2>1. CASE add_task(t)
    BY <2>1, CallsInlineInv, FindsOrWaitsInv DEF add_task
  <2>2. CASE Fill(t)
    BY <2>2, FillInv
  <2>3. CASE InlineReturns(t)
    BY <2>3, InlineReturnsInv DEF InlineReturns
  <2>4. CASE wait_for_task(t) \/ wait_for_all_tasks(t)
    BY <2>4, WaitInv
  <2>5. CASE WorkerEnds(t)
    BY <2>5, WorkerEndsInv
  <2>6. CASE WorkerWaits(t)
    BY <2>6, WorkerWaitsInv
  <2>7. CASE WorkerTakes(t)
    BY <2>7, WorkerTakesInv
  <2>8. CASE TaskReturns(t)
    BY <2>8, TaskReturnsInv
  <2>9. CASE Clear(t)
    BY <2>9, ClearInv
  <2>10. CASE shutdown_pool(t)
    BY <2>10, ShutdownInv
  <2>11. CASE Join(t)
    BY <2>11, JoinInv
  <2> QED
    BY <2>1, <2>2, <2>3, <2>4, <2>5, <2>6, <2>7, <2>8, <2>9, <2>10, <2>11 DEF Step
<1>2. CASE UNCHANGED vars
  <2>0. UNCHANGED <<m, tasks, destructing, pc, asleep, running, idx, slot, log, done>>
    BY <1>2 DEF vars
  <2>1. TypeOK' /\ Locked' /\ SleepsInLoop'
    BY <2>0 DEF IInv, TypeOK, Locked, SleepsInLoop, is_empty
  <2>2. Assigned'
    <3>1. Busy' = Busy
      BY <2>0 DEF Busy
    <3> QED
      BY <2>0, <3>1, SMT DEF IInv, Assigned, is_empty
  <2>3. Filled' /\ Logged' /\ Inline'
    BY <2>0, TablesStay DEF IInv
  <2>4. Bounded'
    BY <2>0 DEF IInv, Bounded, Submitting
  <2>5. Destroying'
    BY <2>0 DEF IInv, Destroying, Busy, is_empty
  <2>6. EnoughAwake'
    BY <2>0 DEF IInv, EnoughAwake, AtLoop, Ready, is_ready, is_empty
  <2> QED
    BY <2>1, <2>2, <2>3, <2>4, <2>5, <2>6 DEF IInv
<1> QED
  BY <1>1, <1>2

\* What a thread is in: a worker first in the task of its slot, and any thread
\* in tasks that it called inside add_task.
LEMMA WhatRuns ==
    ASSUME ThreadPoolAssumption, IInv, NEW t \in AllThreads, NEW n \in Nat, n >= 1, n <= Len(running[t])
    PROVE  /\ running[t][n] \in (1 .. Len(log)) \ done /\ n <= MaxTasks
           /\ \/ n \in InlineAt(t) /\ log[running[t][n]].id = 1
              \/ /\ n = 1 /\ t \in Busy /\ slot[t] \in Slots /\ ~is_empty(slot[t])
                 /\ tasks[slot[t]].is_being_processed
                 /\ running[t][n] = tasks[slot[t]].task /\ log[running[t][n]].id # 1
<1>0. TypeOK /\ Assigned /\ Filled /\ Inline /\ Bounded
  BY DEF IInv
<1>1. running[t] # <<>> /\ n \in 1 .. Len(running[t])
  <2>1. running[t] \in Seq(Nat)
    BY <1>0 DEF TypeOK
  <2>2. Len(running[t]) \in Nat /\ Len(running[t]) # 0
    BY <2>1, SMT
  <2> QED
    BY <2>2, SMT
<1>2. Len(log) \in Nat /\ Len(log) <= MaxTasks /\ MaxTasks \in Nat
  <2>1. log \in Seq([id : Nat, by : AllThreads])
    BY <1>0 DEF TypeOK
  <2>2. Len(log) \in Nat
    BY <2>1, SMT
  <2>3. IsFiniteSet(Submitting)
    <3>1. IsFiniteSet(AllThreads)
      BY FS_Union DEF ThreadPoolAssumption, AllThreads
    <3> QED
      BY <3>1, FS_Subset DEF Submitting
  <2>4. Cardinality(Submitting) \in Nat
    BY <2>3, FS_CardinalityType
  <2> QED
    BY <1>0, <2>2, <2>4, SlotFacts, SMT DEF Bounded
<1>3. CASE n \notin InlineAt(t)
  <2>0. t \in Workers /\ ~(n > 1)
    BY <1>1, <1>3 DEF InlineAt
  <2>1. t \in Busy /\ n = 1
    <3>1. t \in Busy
      BY <1>0, <1>1, <2>0 DEF Assigned
    <3>2. n = 1
      BY <2>0, SMT
    <3> QED
      BY <3>1, <3>2
  <2>2. /\ slot[t] \in Slots /\ ~is_empty(slot[t]) /\ tasks[slot[t]].is_being_processed
        /\ running[t][1] = tasks[slot[t]].task /\ tasks[slot[t]].task \notin done
    BY <1>0, <1>1, <2>1 DEF Assigned
  <2>3. tasks[slot[t]].task \in 1 .. Len(log) /\ log[tasks[slot[t]].task].id # 1
    BY <1>0, <2>2 DEF Filled
  <2>4. n <= MaxTasks
    BY <1>2, <2>1, <2>3, SMT
  <2> QED
    BY <2>1, <2>2, <2>3, <2>4
<1>4. CASE n \in InlineAt(t)
  <2>1. /\ running[t][n] \in (1 .. Len(log)) \ done /\ running[t][n] >= n
        /\ log[running[t][n]].id = 1
    BY <1>0, <1>4 DEF Inline
  <2>2. n <= MaxTasks
    BY <1>2, <2>1, SMT
  <2> QED
    BY <1>4, <2>1, <2>2
<1> QED
  BY <1>3, <1>4

-----------------------------------------------------------------------------
(* What the invariant gives *)

\* Every task waits in a slot, or is being called, or has returned.
LEMMA OnceInv ==
    ASSUME ThreadPoolAssumption, IInv
    PROVE  TasksAreCalledOnce
<1>0. Assigned /\ Filled /\ Logged /\ Inline
  BY DEF IInv
<1> SUFFICES ASSUME NEW k \in 1 .. Len(log)
             PROVE  Cardinality({i \in Slots : is_ready(i) /\ tasks[i].task = k}) +
                    Cardinality({x \in AllThreads \X (1 .. MaxTasks) :
                                     x[2] <= Len(running[x[1]]) /\ running[x[1]][x[2]] = k}) +
                    (IF k \in done THEN 1 ELSE 0) = 1
  BY DEF TasksAreCalledOnce
<1> DEFINE A == {i \in Slots : is_ready(i) /\ tasks[i].task = k}
           B == {x \in AllThreads \X (1 .. MaxTasks) :
                     x[2] <= Len(running[x[1]]) /\ running[x[1]][x[2]] = k}
<1>1. ASSUME NEW i \in Slots PROVE i \in A <=> is_ready(i) /\ tasks[i].task = k
  OBVIOUS
<1>2. ASSUME NEW t \in AllThreads, NEW n \in Nat, n >= 1, n <= Len(running[t]), running[t][n] = k
      PROVE  <<t, n>> \in B
  <2>1. n <= MaxTasks /\ MaxTasks \in Nat
    BY <1>2, WhatRuns, SlotFacts
  <2> QED
    BY <1>2, <2>1, SMT
<1>3. ASSUME NEW x \in B
      PROVE  \E t \in AllThreads, n \in Nat :
                x = <<t, n>> /\ n >= 1 /\ n <= Len(running[t]) /\ running[t][n] = k
  <2>1. PICK t \in AllThreads, n \in 1 .. MaxTasks : x = <<t, n>>
    BY SMT
  <2>2. n \in Nat /\ n >= 1
    BY SlotFacts, SMT
  <2>3. n <= Len(running[t]) /\ running[t][n] = k
    BY <2>1
  <2> QED
    BY <2>1, <2>2, <2>3
<1>4. A \subseteq Slots
  OBVIOUS
<1> HIDE DEF A, B
<1>5. CASE k \in done
  <2>1. A = {}
    BY <1>0, <1>1, <1>4, <1>5 DEF Filled
  <2>2. B = {}
    <3> SUFFICES ASSUME NEW x \in B PROVE FALSE
      OBVIOUS
    <3>1. PICK t \in AllThreads, n \in Nat :
              x = <<t, n>> /\ n >= 1 /\ n <= Len(running[t]) /\ running[t][n] = k
      BY <1>3
    <3> QED
      BY <1>5, <3>1, WhatRuns
  <2>3. Cardinality(A) = 0 /\ Cardinality(B) = 0
    BY <2>1, <2>2, FS_EmptySet
  <2> QED
    BY <1>5, <2>3, SMT DEF A, B
<1>6. CASE k \notin done /\ log[k].id # 1
  <2> DEFINE i == task_id_to_index(log[k].id)
  <2>1. i \in Slots /\ ~is_empty(i) /\ tasks[i].task = k
    BY <1>0, <1>6 DEF Logged
  <2> HIDE DEF i
  <2>2. ASSUME NEW t \in AllThreads, NEW n \in Nat, n >= 1, n <= Len(running[t]), running[t][n] = k
        PROVE  t \in Busy /\ n = 1 /\ slot[t] = i /\ tasks[i].is_being_processed
    <3>1. /\ n = 1 /\ t \in Busy /\ slot[t] \in Slots /\ ~is_empty(slot[t])
          /\ tasks[slot[t]].is_being_processed /\ k = tasks[slot[t]].task
      BY <1>6, <2>2, WhatRuns
    <3>2. slot[t] = i
      BY <2>1, <3>1, SlotsDiffer
    <3> QED
      BY <3>1, <3>2
  <2>3. \A j \in A : j = i
    BY <1>1, <1>4, <2>1, SlotsDiffer DEF is_ready
  <2>4. CASE tasks[i].is_being_processed
    <3>1. A = {}
      BY <1>1, <1>4, <2>3, <2>4 DEF is_ready
    <3>2. PICK w \in Busy : slot[w] = i
      BY <1>0, <2>1, <2>4 DEF Assigned
    <3>3. w \in AllThreads /\ Len(running[w]) >= 1 /\ running[w][1] = k
      BY <1>0, <1>6, <2>1, <3>2, SlotFacts DEF Assigned, Busy
    <3>4. 1 <= Len(running[w]) /\ 1 \in Nat /\ 1 >= 1
      <4>1. Len(running[w]) \in Nat
        BY <3>3, RunningFacts
      <4> QED
        BY <3>3, <4>1, SMT
    <3>5. <<w, 1>> \in B
      BY <1>2, <3>3, <3>4
    <3>6. ASSUME NEW x \in B PROVE x = <<w, 1>>
      <4>1. PICK t \in AllThreads, n \in Nat :
                x = <<t, n>> /\ n >= 1 /\ n <= Len(running[t]) /\ running[t][n] = k
        BY <1>3
      <4>2. t \in Busy /\ n = 1 /\ slot[t] = i
        BY <2>2, <4>1
      <4>3. t = w
        BY <1>0, <3>2, <4>2, SMT DEF Assigned
      <4> QED
        BY <4>1, <4>2, <4>3
    <3>7. B = {<<w, 1>>}
      BY <3>5, <3>6
    <3>8. Cardinality(A) = 0 /\ Cardinality(B) = 1
      BY <3>1, <3>7, FS_EmptySet, FS_Singleton
    <3> QED
      BY <1>6, <3>8, SMT DEF A, B
  <2>5. CASE ~tasks[i].is_being_processed
    <3>1. A = {i}
      <4>1. i \in A
        BY <1>1, <2>1, <2>5 DEF is_ready
      <4> QED
        BY <2>3, <4>1
    <3>2. B = {}
      <4> SUFFICES ASSUME NEW x \in B PROVE FALSE
        OBVIOUS
      <4>1. PICK t \in AllThreads, n \in Nat :
                x = <<t, n>> /\ n >= 1 /\ n <= Len(running[t]) /\ running[t][n] = k
        BY <1>3
      <4> QED
        BY <2>2, <2>5, <4>1
    <3>3. Cardinality(A) = 1 /\ Cardinality(B) = 0
      BY <3>1, <3>2, FS_EmptySet, FS_Singleton
    <3> QED
      BY <1>6, <3>3, SMT DEF A, B
  <2> QED
    BY <2>4, <2>5
<1>7. CASE k \notin done /\ log[k].id = 1
  <2>1. A = {}
    BY <1>0, <1>1, <1>4, <1>7 DEF Filled, is_ready
  <2>2. PICK t \in AllThreads : \E n \in InlineAt(t) : running[t][n] = k
    BY <1>0, <1>7 DEF Inline
  <2>3. PICK n \in InlineAt(t) : running[t][n] = k
    BY <2>2
  <2>4. n \in Nat /\ n >= 1 /\ n <= Len(running[t])
    <3>1. Len(running[t]) \in Nat /\ n \in 1 .. Len(running[t])
      BY RunningFacts DEF InlineAt
    <3> QED
      BY <3>1, SMT
  <2>5. <<t, n>> \in B
    BY <1>2, <2>3, <2>4
  <2>6. ASSUME NEW x \in B PROVE x = <<t, n>>
    <3>1. PICK u \in AllThreads, l \in Nat :
              x = <<u, l>> /\ l >= 1 /\ l <= Len(running[u]) /\ running[u][l] = k
      BY <1>3
    <3>2. l \in InlineAt(u)
      BY <1>7, <3>1, WhatRuns
    <3>3. running[t][n] = running[u][l]
      BY <2>3, <3>1
    <3>4. t = u /\ n = l
      <4>1. t \in AllThreads /\ u \in AllThreads /\ n \in InlineAt(t) /\ l \in InlineAt(u) /\ Inline
        BY <1>0, <2>3, <3>2
      <4>2. \A i \in InlineAt(t), j \in InlineAt(u) : running[t][i] = running[u][j] => t = u /\ i = j
        BY <4>1 DEF Inline
      <4> QED
        BY <3>3, <4>1, <4>2, ZenonT(30)
    <3> QED
      BY <3>1, <3>4
  <2>7. B = {<<t, n>>}
    BY <2>5, <2>6
  <2>8. Cardinality(A) = 0 /\ Cardinality(B) = 1
    BY <2>1, <2>7, FS_EmptySet, FS_Singleton
  <2> QED
    BY <1>7, <2>8, SMTT(60) DEF A, B
<1> QED
  BY <1>5, <1>6, <1>7

\* There is a free worker for every task that waits: the slots of the busy
\* ones are not ready, and there are as many slots as workers.
LEMMA FreeWorkers ==
    ASSUME ThreadPoolAssumption, IInv
    PROVE  Cardinality(Ready) <= Cardinality(AtLoop)
<1>0. Assigned /\ Destroying
  BY DEF IInv
<1>1. Ready \in SUBSET Slots /\ AtLoop \in SUBSET Workers /\ Busy \in SUBSET Workers
  BY DEF Ready, AtLoop, Busy
<1>2. /\ Cardinality(Ready) \in Nat /\ Cardinality(AtLoop) \in Nat
      /\ Cardinality(Busy) \in Nat /\ IsFiniteSet(Busy)
  BY <1>1, CountAwake
<1>3. CASE destructing
  <2>1. Ready = {}
    BY <1>0, <1>3 DEF Destroying, Ready, is_ready
  <2> QED
    BY <1>1, <1>2, <2>1, CountAwake, SMT
<1>4. CASE ~destructing
  <2>1. AtLoop = Workers \ Busy
    BY <1>0, <1>4 DEF AtLoop, Busy, Destroying
  <2> DEFINE Others == Slots \ Ready
             f == [w \in Busy |-> slot[w]]
  <2>2. f \in Injection(Busy, Others)
    <3>1. \A w \in Busy : slot[w] \in Others
      BY <1>0 DEF Assigned, Ready, is_ready
    <3>2. f \in [Busy -> Others]
      BY <3>1
    <3>3. \A v, w \in Busy : f[v] = f[w] => v = w
      BY <1>0 DEF Assigned
    <3> QED
      BY <3>2, <3>3 DEF Injection, IsInjective
  <2> HIDE DEF f
  <2>3. IsFiniteSet(Others) /\ Cardinality(Others) = Size - Cardinality(Ready)
    <3>1. IsFiniteSet(Slots) /\ Cardinality(Slots) = Size /\ Slots \cap Ready = Ready
      BY <1>1, SlotFacts
    <3> QED
      BY <3>1, FS_Difference, SMT
  <2>4. Cardinality(AtLoop) = Size - Cardinality(Busy)
    <3>1. IsFiniteSet(Workers) /\ Workers \cap Busy = Busy
      BY <1>1 DEF ThreadPoolAssumption
    <3> QED
      BY <2>1, <3>1, FS_Difference, SMT DEF Size
  <2>5. Cardinality(Busy) <= Cardinality(Others)
    BY <1>2, <2>2, <2>3, FS_Injection
  <2> HIDE DEF Others
  <2> QED
    BY <1>2, <2>3, <2>4, <2>5, SlotFacts, SMT
<1> QED
  BY <1>3, <1>4

\* When the destructor has returned, every task has.
LEMMA AllDone ==
    ASSUME ThreadPoolAssumption, IInv
    PROVE  (\E c \in Clients : pc[c] = "gone") => done = 1 .. Len(log)
<1>0. TypeOK /\ Assigned /\ Logged /\ Inline /\ Destroying
  BY DEF IInv
<1> SUFFICES ASSUME NEW c \in Clients, pc[c] = "gone"
             PROVE  done = 1 .. Len(log)
  OBVIOUS
<1>1. \A w \in Workers : pc[w] = "ended"
  BY <1>0 DEF Destroying
<1>2. destructing /\ \A i \in Slots : is_empty(i)
  BY <1>0 DEF Destroying
<1>3. \A t \in AllThreads : InlineAt(t) = {}
  <2>1. \A d \in Clients : running[d] = <<>>
    BY <1>0 DEF Destroying
  <2>2. \A w \in Workers : running[w] = <<>>
    BY <1>0, <1>1 DEF Assigned, Busy
  <2>3. 1 .. Len(<<>>) = {}
    BY SMT
  <2> QED
    BY <2>1, <2>2, <2>3, SlotFacts DEF InlineAt
<1>4. ASSUME NEW k \in 1 .. Len(log), k \notin done PROVE FALSE
  <2>1. CASE log[k].id # 1
    BY <1>0, <1>2, <1>4, <2>1 DEF Logged
  <2>2. CASE log[k].id = 1
    BY <1>0, <1>3, <1>4, <2>2 DEF Inline
  <2> QED
    BY <2>1, <2>2
<1> QED
  BY <1>0, <1>4 DEF TypeOK

\* Whatever becomes of m, the destructor joins every worker.
Joined == /\ pc = [t \in AllThreads |-> pc[t]]
          /\ \A c \in Clients : pc[c] = "gone" => \A w \in Workers : pc[w] = "ended"

\* A thread that has ended takes no step, and only Join leads to "gone".
LEMMA StepMoves ==
    ASSUME NEW t \in AllThreads, Step(t), pc = [u \in AllThreads |-> pc[u]]
    PROVE  /\ pc[t] # "ended"
           /\ \E new : /\ pc' = [pc EXCEPT ![t] = new]
                       /\ new = "gone" => \A w \in Workers : pc[w] = "ended"
<1>1. CASE add_task(t)
  BY <1>1 DEF add_task, Calls, Enters, FindsSlot, WaitsForSlot, CallsInline, Sleeps, Goes
<1>2. CASE Fill(t)
  <2>1. pc[t] = "fill" /\ pc' = [pc EXCEPT ![t] = "user"]
    BY <1>2 DEF Fill, Goes
  <2>2. "user" # "gone" /\ pc[t] # "ended"
    BY <2>1
  <2>3. \E new : pc' = [pc EXCEPT ![t] = new] /\ new # "gone"
    <3> WITNESS "user"
    <3> QED
      BY <2>1, <2>2
  <2> QED
    BY <2>2, <2>3
<1>3. CASE InlineReturns(t)
  <2>1. pc[t] = "user" /\ pc' = pc
    BY <1>3 DEF InlineReturns
  <2>2. pc' = [pc EXCEPT ![t] = "user"]
    BY <2>1
  <2> QED
    BY <2>1, <2>2
<1>4. CASE wait_for_task(t) \/ wait_for_all_tasks(t)
  BY <1>4 DEF wait_for_task, wait_for_all_tasks, Calls, Enters, Wait, Sleeps, Goes
<1>5. CASE WorkerEnds(t) \/ WorkerWaits(t) \/ WorkerTakes(t)
  BY <1>5 DEF WorkerEnds, WorkerWaits, WorkerTakes, Enters, Sleeps, Goes
<1>6. CASE TaskReturns(t) \/ Clear(t)
  BY <1>6 DEF TaskReturns, Clear, Enters, Goes
<1>7. CASE shutdown_pool(t)
  BY <1>7 DEF shutdown_pool, Calls, Enters, Sleeps, Goes
<1>8. CASE Join(t)
  BY <1>8 DEF Join, Goes
<1> QED
  BY <1>1, <1>2, <1>3, <1>4, <1>5, <1>6, <1>7, <1>8 DEF Step

\* The destructor joins every worker, and workers do not come back.
LEMMA JoinedInv ==
    ASSUME ThreadPoolAssumption, Joined, [Next]_vars
    PROVE  Joined'
<1>1. ASSUME NEW t \in AllThreads, Step(t) PROVE Joined'
  <2>1. PICK new : /\ pc' = [pc EXCEPT ![t] = new]
                   /\ new = "gone" => \A w \in Workers : pc[w] = "ended"
    BY <1>1, StepMoves DEF Joined
  <2>2. pc[t] # "ended"
    BY <1>1, StepMoves DEF Joined
  <2>3. /\ pc'[t] = new /\ \A u \in AllThreads : u # t => pc'[u] = pc[u]
        /\ pc' = [u \in AllThreads |-> pc'[u]]
    BY <2>1 DEF Joined
  <2>4. ASSUME NEW c \in Clients, pc'[c] = "gone", NEW w \in Workers PROVE pc'[w] = "ended"
    <3>1. c \in AllThreads /\ w \in AllThreads
      BY SlotFacts
    <3>2. pc[w] = "ended"
      BY <2>1, <2>3, <2>4, <3>1 DEF Joined
    <3> QED
      BY <2>2, <2>3, <3>1, <3>2
  <2> QED
    BY <2>3, <2>4 DEF Joined
<1>2. CASE UNCHANGED vars
  BY <1>2 DEF vars, Joined
<1> QED
  BY <1>1, <1>2 DEF Next

\* What wait_for_task and wait_for_all_tasks look at.
LEMMA WaitersInv ==
    ASSUME ThreadPoolAssumption, IInv
    PROVE  WaitersSeeTasks
<1>0. Filled /\ Logged
  BY DEF IInv
<1> SUFFICES ASSUME NEW k \in 1 .. Len(log), log[k].id # 1
             PROVE  /\ k \notin done =>
                           /\ tasks[task_id_to_index(log[k].id)].task_id = log[k].id
                           /\ tasks[task_id_to_index(log[k].id)].thread_id = log[k].by
                    /\ \A j \in 1 .. Len(log) : log[k].id = log[j].id => j = k
  BY DEF WaitersSeeTasks
<1> DEFINE i == task_id_to_index(log[k].id)
<1>1. /\ i \in Slots
      /\ k \notin done => ~is_empty(i) /\ tasks[i].task = k
      /\ \A j \in 1 .. Len(log) : log[j].id = log[k].id => j = k
  BY <1>0 DEF Logged
<1> HIDE DEF i
<1>2. k \notin done => tasks[i].task_id = log[k].id /\ tasks[i].thread_id = log[k].by
  BY <1>0, <1>1 DEF Filled
<1> QED
  BY <1>1, <1>2 DEF i

-----------------------------------------------------------------------------
(* Theorems *)

\* The inductive invariant holds until m is released under the thread that has it.
THEOREM PoolInvariance == ThreadPoolAssumption => (Spec => [](stolen \/ IInv))
<1> SUFFICES ASSUME ThreadPoolAssumption PROVE Spec => [](stolen \/ IInv)
  OBVIOUS
<1>1. Init => stolen \/ IInv
  BY InitInv
<1>2. (stolen \/ IInv) /\ [Next]_vars => (stolen \/ IInv)'
  BY Inductive, StolenStays
<1> QED
  BY <1>1, <1>2, PTL DEF Spec

\* add_task loses no task, and no task is called twice, also when tasks submit
\* tasks and workers call them inside add_task.
THEOREM PoolCallsEachTaskOnce == ThreadPoolAssumption => (Spec => []EachTaskOnce)
<1> SUFFICES ASSUME ThreadPoolAssumption PROVE Spec => []EachTaskOnce
  OBVIOUS
<1>1. stolen \/ IInv => EachTaskOnce
  BY OnceInv DEF EachTaskOnce
<1>2. Spec => [](stolen \/ IInv)
  BY PoolInvariance
<1> QED
  BY <1>1, <1>2, PTL

\* A task that has not returned has its slot, with its id and its submitter,
\* and no two tasks have the same id, although the slots are used again.
THEOREM PoolWaitersSeeTasks == ThreadPoolAssumption => (Spec => []WaitersSeeTasks)
<1> SUFFICES ASSUME ThreadPoolAssumption PROVE Spec => []WaitersSeeTasks
  OBVIOUS
<1>1. stolen \/ IInv => WaitersSeeTasks
  BY WaitersInv DEF WaitersSeeTasks
<1>2. Spec => [](stolen \/ IInv)
  BY PoolInvariance
<1> QED
  BY <1>1, <1>2, PTL

\* There is a free worker for every task that waits, and enough of them are
\* awake, although add_task wakes only one.
THEOREM NoPoolOversleeps == ThreadPoolAssumption => (Spec => []NobodyOversleeps)
<1> SUFFICES ASSUME ThreadPoolAssumption PROVE Spec => []NobodyOversleeps
  OBVIOUS
<1>1. stolen \/ IInv => NobodyOversleeps
  BY FreeWorkers DEF NobodyOversleeps, IInv, EnoughAwake
<1>2. Spec => [](stolen \/ IInv)
  BY PoolInvariance
<1> QED
  BY <1>1, <1>2, PTL

\* The destructor of the pool returns only when every worker has ended and,
\* unless m was released under a thread that had it, every task has returned.
THEOREM PoolDestructorWaits == ThreadPoolAssumption => (Spec => []DestructorsWait)
<1> SUFFICES ASSUME ThreadPoolAssumption PROVE Spec => []DestructorsWait
  OBVIOUS
<1>1. (stolen \/ IInv) /\ Joined => DestructorsWait
  BY AllDone DEF Joined, DestructorsWait
<1>2. Spec => [](stolen \/ IInv)
  BY PoolInvariance
<1>3. Init => Joined
  <2> SUFFICES ASSUME Init PROVE Joined
    OBVIOUS
  <2>1. pc = [t \in AllThreads |-> IF t \in Workers THEN "loop" ELSE "user"]
    BY DEF Init
  <2>2. \A t \in AllThreads : pc[t] # "gone"
    BY <2>1
  <2> QED
    BY <2>1, <2>2, SlotFacts DEF Joined
<1>4. Joined /\ [Next]_vars => Joined'
  BY JoinedInv
<1> QED
  BY <1>1, <1>2, <1>3, <1>4, PTL DEF Spec
=============================================================================
