--------------------------- MODULE ProgramsProofs ---------------------------
(***************************************************************************)
(* The small programs, for every value of their constants: the             *)
(* memory-ordering experiment, the echo client and server, the HTTP server *)
(* over Redis and the daytime servers.                                     *)
(***************************************************************************)
EXTENDS Programs, TLAPS

\* Most steps are about sets and functions; those with arithmetic cite SMT.
USE Zenon

-----------------------------------------------------------------------------
(* The memory-ordering experiment: with the fence, and with a store buffer *)
(* of any size, ordering.cpp never detects a reordering, and no experiment *)
(* reaches into the next one.                                              *)

Entries == [var : Vars, val : {0, 1}]

\* How many of t's transactions have been asked for and are not over.
Owed(t) == sema[beginSema(t)] + (IF pc[t] = "begin" THEN 0 ELSE 1)

\* The transactions main has posted and not yet waited for.
Unpaid == IF pc[main] = "wait 1" THEN 2
          ELSE IF pc[main] = "post 2" \/ pc[main] = "wait 2" THEN 1 ELSE 0

\* t was let go in this experiment.
Released(t) == \/ pc[main] = "wait 1" \/ pc[main] = "wait 2" \/ pc[main] = "check"
               \/ pc[main] = "post 2" /\ t = "thread1"

\* t has done its load; its result is on the way to memory or there.
Loaded(t) == pc[t] = "end" \/ (Released(t) /\ Owed(t) = 0)
Past(t)   == pc[t] = "load" \/ Loaded(t)
Value(t)  == IF buffer[t] = <<>> THEN memory[Result(t)] ELSE Head(buffer[t]).val

WorkerLabels == {"begin", "store", "fence", "load", "end"}
MainLabels   == {"reset X", "reset Y", "post 1", "post 2", "wait 1", "wait 2", "check"}

Types ==
  /\ pc \in [Threads -> WorkerLabels \cup MainLabels]
  /\ memory \in [Vars -> {0, 1}]
  /\ buffer \in [Threads -> Seq(Entries)]
  /\ sema \in [Semas -> Nat]

\* What the buffer of a worker at label l may hold.
WorkerAt(t, l, b, m) ==
  /\ l \in WorkerLabels
  /\ l = "begin" \/ l = "store" \/ l = "load" => b = <<>>
  /\ l = "fence" => b \in Seq([var : {Mine(t)}, val : {1}]) /\ (b = <<>> => m[Mine(t)] = 1)
  /\ l = "end" => b \in Seq([var : {Result(t)}, val : {0, 1}]) /\ Len(b) <= 1

MainAt(l, b) ==
  /\ l \in MainLabels
  /\ l = "reset Y" \/ l = "post 1" \/ b = <<>>

Buffers ==
  /\ \A t \in Workers : WorkerAt(t, pc[t], buffer[t], memory)
  /\ MainAt(pc[main], buffer[main])
  /\ \A t \in Threads : Len(buffer[t]) <= BufferSize

Counts ==
  /\ \A t \in Workers : Owed(t) \in {0, 1} /\ (~Released(t) => Owed(t) = 0)
  /\ Owed("thread1") + Owed("thread2") + sema["endSema"] = Unpaid

Order ==
  /\ \A t \in Workers : Past(t) => memory[Mine(t)] = 1
  /\ Loaded("thread1") /\ Loaded("thread2") => Value("thread1") = 1 \/ Value("thread2") = 1

IInv == Types /\ Buffers /\ Counts /\ Order

-----------------------------------------------------------------------------
\* The names of the threads, of their variables and of their semaphores.
LEMMA Names ==
  /\ Workers = {"thread1", "thread2"} /\ Threads = {"thread1", "thread2", "main"}
  /\ main = "main" /\ main \notin Workers /\ main \in Threads /\ Workers \subseteq Threads
  /\ Mine("thread1") = "X" /\ Theirs("thread1") = "Y" /\ Result("thread1") = "r1"
  /\ Mine("thread2") = "Y" /\ Theirs("thread2") = "X" /\ Result("thread2") = "r2"
  /\ beginSema("thread1") = "beginSema1" /\ beginSema("thread2") = "beginSema2"
  /\ Vars = {"X", "Y", "r1", "r2"} /\ Semas = {"beginSema1", "beginSema2", "endSema"}
  BY DEF Workers, Threads, main, Mine, Theirs, Result, beginSema, Vars, Semas

\* A load by a thread whose buffer is empty takes what is in memory.
LEMMA LoadsMemory ==
  ASSUME NEW t, NEW v, buffer[t] = <<>>
  PROVE  Load(t, v) = memory[v]
  BY SMT DEF Load, Pending

\* The initial state of ordering.cpp satisfies the inductive invariant.
LEMMA InitInv == Init => IInv
  <1> SUFFICES ASSUME Init PROVE IInv
    OBVIOUS
  <1>1. pc = [t \in Threads |-> IF t = main THEN "reset X" ELSE "begin"]
    BY DEF Init
  <1>2. memory = [v \in Vars |-> 0]
    BY DEF Init
  <1>3. buffer = [t \in Threads |-> <<>>]
    BY DEF Init
  <1>4. sema = [s \in Semas |-> 0]
    BY DEF Init
  <1>5. pc["main"] = "reset X" /\ pc["thread1"] = "begin" /\ pc["thread2"] = "begin"
    BY <1>1, Names
  <1>6. \A t \in Threads : buffer[t] = <<>>
    BY <1>3
  <1>7. sema["beginSema1"] = 0 /\ sema["beginSema2"] = 0 /\ sema["endSema"] = 0
    BY <1>4, Names
  <1>8. Types
    <2>1. pc \in [Threads -> WorkerLabels \cup MainLabels]
      BY <1>1 DEF WorkerLabels, MainLabels
    <2>2. memory \in [Vars -> {0, 1}]
      BY <1>2
    <2>3. buffer \in [Threads -> Seq(Entries)]
      BY <1>3, SMT
    <2>4. sema \in [Semas -> Nat]
      BY <1>4
    <2> QED
      BY <2>1, <2>2, <2>3, <2>4 DEF Types
  <1>9. Buffers
    <2>1. \A t \in Workers : WorkerAt(t, pc[t], buffer[t], memory)
      BY <1>5, <1>6, Names DEF WorkerAt, WorkerLabels
    <2>2. MainAt(pc[main], buffer[main])
      BY <1>5, <1>6, Names DEF MainAt, MainLabels
    <2>3. \A t \in Threads : Len(buffer[t]) <= BufferSize
      BY <1>6, BufferAssumption, SMT
    <2> QED
      BY <2>1, <2>2, <2>3 DEF Buffers
  <1>10. Owed("thread1") = 0
    <2>1. pc["thread1"] = "begin"
      BY <1>5
    <2>2. sema[beginSema("thread1")] = 0
      BY <1>7, Names
    <2> QED
      BY <2>1, <2>2, SMT DEF Owed
  <1>11. Owed("thread2") = 0
    <2>1. pc["thread2"] = "begin"
      BY <1>5
    <2>2. sema[beginSema("thread2")] = 0
      BY <1>7, Names
    <2> QED
      BY <2>1, <2>2, SMT DEF Owed
  <1>12. Unpaid = 0
    BY <1>5, Names DEF Unpaid
  <1>13. Counts
    BY <1>7, <1>10, <1>11, <1>12, Names, SMT DEF Counts
  <1>14. Order
    BY <1>5, Names DEF Order, Past, Loaded, Released
  <1> QED
    BY <1>8, <1>9, <1>13, <1>14 DEF IInv
\* Goto moves one thread.
LEMMA Moved ==
  ASSUME Types, NEW t \in Threads, NEW l \in WorkerLabels \cup MainLabels, Goto(t, l)
  PROVE  /\ pc' \in [Threads -> WorkerLabels \cup MainLabels]
         /\ pc'[t] = l /\ \A u \in Threads : u # t => pc'[u] = pc[u]
  BY DEF Types, Goto

\* A step that leaves main and the semaphores alone, and no worker at the
\* other side of its sem_wait, leaves the counts alone.
LEMMA SameCounts ==
  ASSUME Types, Counts, pc'[main] = pc[main], UNCHANGED sema,
         \A u \in Workers : (pc'[u] = "begin") = (pc[u] = "begin")
  PROVE  /\ Counts'
         /\ \A u \in Workers : Owed(u)' = Owed(u)
         /\ \A u \in Workers : Released(u)' <=> Released(u)
  <1>1. \A u \in Workers : Owed(u)' = Owed(u)
    BY DEF Owed
  <1>2. \A u \in Workers : Released(u)' <=> Released(u)
    BY DEF Released
  <1>3. Unpaid' = Unpaid
    BY DEF Unpaid
  <1> QED
    BY <1>1, <1>2, <1>3, Names DEF Counts

\* sem_wait on the begin semaphore keeps the invariant.
LEMMA BeginInv ==
  ASSUME IInv, NEW t \in Workers, Begin(t)
  PROVE  IInv'
  <1> USE DEF IInv
  <1>1. /\ pc' \in [Threads -> WorkerLabels \cup MainLabels] /\ pc'[t] = "store"
        /\ \A u \in Threads : u # t => pc'[u] = pc[u]
    BY Moved, Names DEF Begin, WorkerLabels
  <1>2. pc[t] = "begin" /\ UNCHANGED <<memory, buffer>> /\ buffer[t] = <<>>
    BY DEF Begin, sem_wait, Drained
  <1>3. /\ sema' \in [Semas -> Nat] /\ sema'[beginSema(t)] = sema[beginSema(t)] - 1
        /\ \A s \in Semas : s # beginSema(t) => sema'[s] = sema[s]
    BY Names, SMT DEF Types, Begin, sem_wait
  <1>4. Types'
    BY <1>1, <1>2, <1>3 DEF Types
  <1>5. Buffers'
    BY <1>1, <1>2, Names, ZenonT(30) DEF Buffers, WorkerAt, WorkerLabels
  <1>6. \A u \in Workers : Owed(u)' = Owed(u)
    BY <1>1, <1>2, <1>3, Names, SMTT(30) DEF Owed, Types
  <1>7. \A u \in Workers : Released(u)' <=> Released(u)
    BY <1>1, Names DEF Released
  <1>8. Unpaid' = Unpaid
    BY <1>1, Names DEF Unpaid
  <1>9. sema'["endSema"] = sema["endSema"]
    BY <1>3, Names
  <1>10. Counts'
    BY <1>6, <1>7, <1>8, <1>9, Names DEF Counts
  <1>11. \A u \in Workers : Value(u)' = Value(u)
    BY <1>2 DEF Value
  <1>12. \A u \in Workers : (Loaded(u)' => Loaded(u)) /\ (Past(u)' => Past(u))
    BY <1>1, <1>6, <1>7, Names DEF Loaded, Past
  <1>13. Order'
    BY <1>2, <1>11, <1>12, Names DEF Order
  <1> QED
    BY <1>4, <1>5, <1>10, <1>13

\* The store to X, or Y, keeps the invariant.
LEMMA StoreInv ==
  ASSUME IInv, NEW t \in Workers, StoreMine(t)
  PROVE  IInv'
  <1> USE DEF IInv
  <1> DEFINE e == [var |-> Mine(t), val |-> 1]
  <1>1. /\ pc' \in [Threads -> WorkerLabels \cup MainLabels] /\ pc'[t] = "fence"
        /\ \A u \in Threads : u # t => pc'[u] = pc[u]
    BY Moved, Names, ZenonT(30) DEF StoreMine, WorkerLabels
  <1>2. pc[t] = "store" /\ UNCHANGED <<memory, sema>> /\ buffer[t] = <<>>
    BY DEF StoreMine, Buffers, WorkerAt
  <1>3. e \in Entries /\ e \in [var : {Mine(t)}, val : {1}]
    BY Names DEF Entries
  <1>4. /\ buffer' = [buffer EXCEPT ![t] = Append(@, e)] /\ Len(buffer[t]) < BufferSize
    BY DEF StoreMine, Store
  <1>5. /\ buffer' \in [Threads -> Seq(Entries)] /\ buffer'[t] = Append(<<>>, e)
        /\ \A u \in Threads : u # t => buffer'[u] = buffer[u]
    <2> HIDE DEF e
    <2> QED
      BY <1>2, <1>3, <1>4, Names, SMT DEF Types
  <1>6. /\ buffer'[t] \in Seq([var : {Mine(t)}, val : {1}]) /\ buffer'[t] # <<>>
        /\ Len(buffer'[t]) = 1
    <2> HIDE DEF e
    <2> QED
      BY <1>3, <1>5, SMT
  <1>7. Types'
    BY <1>1, <1>2, <1>5 DEF Types
  <1>8. Buffers'
    <2>1. WorkerAt(t, pc'[t], buffer'[t], memory')
      BY <1>1, <1>6 DEF WorkerAt, WorkerLabels
    <2>2. \A u \in Workers : u # t => WorkerAt(u, pc'[u], buffer'[u], memory')
      BY <1>1, <1>2, <1>5, Names DEF Buffers
    <2>3. Len(buffer'[t]) <= BufferSize
      BY <1>6, BufferAssumption, SMT
    <2>4. \A u \in Threads : u # t => Len(buffer'[u]) <= BufferSize
      BY <1>5 DEF Buffers
    <2> QED
      BY <1>1, <1>5, <2>1, <2>2, <2>3, <2>4, Names DEF Buffers
  <1>9. /\ Counts' /\ (\A u \in Workers : Owed(u)' = Owed(u))
        /\ \A u \in Workers : Released(u)' <=> Released(u)
    BY <1>1, <1>2, SameCounts, Names
  <1>10. Owed(t) # 0
    BY <1>2, Names, SMT DEF Owed, Types
  <1>11. \A u \in Workers : /\ (Loaded(u)' => Loaded(u)) /\ (Past(u)' => Past(u))
                            /\ (Loaded(u)' => Value(u)' = Value(u))
    <2>1. ~Loaded(t)'
      BY <1>1, <1>9, <1>10 DEF Loaded
    <2>2. \A u \in Workers : u # t => Value(u)' = Value(u)
      BY <1>2, <1>5, Names DEF Value
    <2> QED
      BY <1>1, <1>9, <2>1, <2>2, Names DEF Loaded, Past
  <1>12. Order'
    BY <1>2, <1>11, Names DEF Order
  <1> QED
    BY <1>7, <1>8, <1>9, <1>12

\* mfence keeps the invariant: the store is in memory when the load comes.
LEMMA FenceInv ==
  ASSUME IInv, NEW t \in Workers, Fence(t)
  PROVE  IInv'
  <1> USE DEF IInv
  <1>1. /\ pc' \in [Threads -> WorkerLabels \cup MainLabels] /\ pc'[t] = "load"
        /\ \A u \in Threads : u # t => pc'[u] = pc[u]
    BY Moved, Names, ZenonT(30) DEF Fence, WorkerLabels
  <1>2. pc[t] = "fence" /\ UNCHANGED <<memory, buffer, sema>> /\ buffer[t] = <<>>
    BY DEF Fence, mfence, Drained
  <1>3. memory[Mine(t)] = 1
    BY <1>2 DEF Buffers, WorkerAt
  <1>4. Types'
    BY <1>1, <1>2 DEF Types
  <1>5. Buffers'
    BY <1>1, <1>2, Names, SMT DEF Buffers, WorkerAt, WorkerLabels
  <1>6. /\ Counts' /\ (\A u \in Workers : Owed(u)' = Owed(u))
        /\ \A u \in Workers : Released(u)' <=> Released(u)
    BY <1>1, <1>2, SameCounts, Names
  <1>7. \A u \in Workers : Value(u)' = Value(u)
    BY <1>2 DEF Value
  <1>8. \A u \in Workers : (Loaded(u)' => Loaded(u)) /\ (Past(u)' => Past(u) \/ u = t)
    BY <1>1, <1>6, Names DEF Loaded, Past
  <1>9. Order'
    BY <1>2, <1>3, <1>7, <1>8, Names DEF Order
  <1> QED
    BY <1>4, <1>5, <1>6, <1>9

\* The load keeps the invariant: if the other thread has loaded already, its
\* store is in memory and this load takes it.
LEMMA LoadInv ==
  ASSUME IInv, NEW t \in Workers, LoadTheirs(t)
  PROVE  IInv'
  <1> USE DEF IInv
  <1> DEFINE x == memory[Theirs(t)]
             e == [var |-> Result(t), val |-> x]
  <1>1. /\ pc' \in [Threads -> WorkerLabels \cup MainLabels] /\ pc'[t] = "end"
        /\ \A u \in Threads : u # t => pc'[u] = pc[u]
    BY Moved, Names, ZenonT(30) DEF LoadTheirs, WorkerLabels
  <1>2. pc[t] = "load" /\ UNCHANGED <<memory, sema>> /\ buffer[t] = <<>>
    BY DEF LoadTheirs, Buffers, WorkerAt
  <1>3. Load(t, Theirs(t)) = x
    BY <1>2, LoadsMemory
  <1>4. x \in {0, 1}
    BY Names DEF Types
  <1>5. e \in Entries /\ e \in [var : {Result(t)}, val : {0, 1}] /\ e.val = x
    BY <1>4, Names DEF Entries
  <1>6. /\ buffer' = [buffer EXCEPT ![t] = Append(@, e)] /\ Len(buffer[t]) < BufferSize
    BY <1>3 DEF LoadTheirs, Store
  <1>7. /\ buffer' \in [Threads -> Seq(Entries)] /\ buffer'[t] = Append(<<>>, e)
        /\ \A u \in Threads : u # t => buffer'[u] = buffer[u]
    <2> HIDE DEF e
    <2> QED
      BY <1>2, <1>5, <1>6, Names, SMT DEF Types
  <1>8. /\ buffer'[t] \in Seq([var : {Result(t)}, val : {0, 1}]) /\ buffer'[t] # <<>>
        /\ Len(buffer'[t]) = 1 /\ Head(buffer'[t]) = e
    <2> HIDE DEF e
    <2> QED
      BY <1>5, <1>7, SMT
  <1>9. Types'
    BY <1>1, <1>2, <1>7 DEF Types
  <1>10. Buffers'
    <2>1. WorkerAt(t, pc'[t], buffer'[t], memory')
      BY <1>1, <1>8, SMT DEF WorkerAt, WorkerLabels
    <2>2. \A u \in Workers : u # t => WorkerAt(u, pc'[u], buffer'[u], memory')
      BY <1>1, <1>2, <1>7, Names DEF Buffers
    <2>3. Len(buffer'[t]) <= BufferSize
      BY <1>8, BufferAssumption, SMT
    <2>4. \A u \in Threads : u # t => Len(buffer'[u]) <= BufferSize
      BY <1>7 DEF Buffers
    <2> QED
      BY <1>1, <1>7, <2>1, <2>2, <2>3, <2>4, Names DEF Buffers
  <1>11. /\ Counts' /\ (\A u \in Workers : Owed(u)' = Owed(u))
         /\ \A u \in Workers : Released(u)' <=> Released(u)
    BY <1>1, <1>2, SameCounts, Names
  <1>12. \A u \in Workers : (Past(u)' => Past(u)) /\ (u # t /\ Loaded(u)' => Loaded(u))
    BY <1>1, <1>2, <1>11, Names DEF Loaded, Past
  <1>13. Value(t)' = x
    <2> HIDE DEF e, x
    <2> QED
      BY <1>5, <1>8 DEF Value
  <1>14. \A u \in Workers : u # t /\ Loaded(u)' => x = 1
    <2>1. \A u \in Workers : u # t => Mine(u) = Theirs(t)
      BY Names
    <2>2. \A u \in Workers : u # t /\ Loaded(u)' => Past(u)
      BY <1>12 DEF Past
    <2> QED
      BY <2>1, <2>2, SMT DEF Order
  <1>15. \A u \in Workers : Past(u)' => memory'[Mine(u)] = 1
    BY <1>2, <1>12 DEF Order
  <1>16. Order'
    <2> HIDE DEF x
    <2> QED
      BY <1>13, <1>14, <1>15, Names DEF Order
  <1> QED
    BY <1>9, <1>10, <1>11, <1>16

\* sem_post on endSema keeps the invariant: the result is in memory.
LEMMA EndInv ==
  ASSUME IInv, NEW t \in Workers, End(t)
  PROVE  IInv'
  <1> USE DEF IInv
  <1>1. /\ pc' \in [Threads -> WorkerLabels \cup MainLabels] /\ pc'[t] = "begin"
        /\ \A u \in Threads : u # t => pc'[u] = pc[u]
    BY Moved, Names, ZenonT(30) DEF End, WorkerLabels
  <1>2. pc[t] = "end" /\ UNCHANGED <<memory, buffer>> /\ buffer[t] = <<>>
    BY DEF End, sem_post, Drained
  <1>3. /\ sema' \in [Semas -> Nat] /\ sema'["endSema"] = sema["endSema"] + 1
        /\ \A s \in Semas : s # "endSema" => sema'[s] = sema[s]
    BY Names, SMT DEF Types, End, sem_post
  <1>4. Types'
    BY <1>1, <1>2, <1>3 DEF Types
  <1>5. Buffers'
    BY <1>1, <1>2, Names, SMT DEF Buffers, WorkerAt, WorkerLabels
  <1>6. \A u \in Workers : sema'[beginSema(u)] = sema[beginSema(u)] /\ sema[beginSema(u)] \in Nat
    BY <1>3, Names DEF Types
  <1>7. Owed(t) = 1 /\ Owed(t)' = 0
    <2>1. sema[beginSema(t)] = 0 /\ Owed(t) = 1
      BY <1>2, <1>6, SMT DEF Owed, Counts
    <2> QED
      BY <1>1, <1>6, <2>1, SMT DEF Owed
  <1>8. \A u \in Workers : u # t => Owed(u)' = Owed(u)
    BY <1>1, <1>6, Names DEF Owed
  <1>9. \A u \in Workers : Released(u)' <=> Released(u)
    BY <1>1, Names DEF Released
  <1>10. Unpaid' = Unpaid
    BY <1>1, Names DEF Unpaid
  <1>11. Counts'
    <2>1. \A u \in Workers : Owed(u)' \in {0, 1} /\ (~Released(u)' => Owed(u)' = 0)
      BY <1>7, <1>8, <1>9 DEF Counts
    <2>2. (Owed("thread1") + Owed("thread2") + sema["endSema"])' = Unpaid'
      BY <1>3, <1>7, <1>8, <1>10, Names, SMT DEF Counts, Types
    <2> QED
      BY <2>1, <2>2 DEF Counts
  <1>12. \A u \in Workers : Value(u)' = Value(u)
    BY <1>2 DEF Value
  <1>13. \A u \in Workers : (Loaded(u)' => Loaded(u)) /\ (Past(u)' => Past(u))
    BY <1>1, <1>2, <1>8, <1>9, Names DEF Loaded, Past
  <1>14. Order'
    BY <1>2, <1>12, <1>13, Names DEF Order
  <1> QED
    BY <1>4, <1>5, <1>11, <1>14

\* A buffer that is not full, as Store requires, has room for one more.
LEMMA BufferRoom ==
  ASSUME NEW n \in Nat, n < BufferSize
  PROVE  n + 1 <= BufferSize
  BY BufferAssumption, SMT

\* Nothing unpaid: no thread owes anything.
LEMMA ZeroSum ==
  ASSUME NEW a \in {0, 1}, NEW b \in {0, 1}, NEW c \in Nat, a + b + c = 0
  PROVE  a = 0 /\ b = 0 /\ c = 0
  BY SMT

\* A thread that owes nothing waits on its begin semaphore, which is zero.
LEMMA OwesNothing ==
  ASSUME NEW u, sema[beginSema(u)] \in Nat, Owed(u) = 0
  PROVE  pc[u] = "begin" /\ sema[beginSema(u)] = 0
  BY SMT DEF Owed

\* A thread that main has not let go has nothing in flight.
LEMMA Quiet ==
  ASSUME Types, Counts
  PROVE  \A u \in Workers : ~Released(u) => pc[u] = "begin" /\ sema[beginSema(u)] = 0 /\ ~Past(u)
  <1> SUFFICES ASSUME NEW u \in Workers, ~Released(u)
               PROVE  pc[u] = "begin" /\ sema[beginSema(u)] = 0 /\ ~Past(u)
    OBVIOUS
  <1>1. sema[beginSema(u)] \in Nat
    BY Names DEF Types
  <1>2. Owed(u) = 0
    BY DEF Counts
  <1>3. pc[u] = "begin" /\ sema[beginSema(u)] = 0
    BY <1>1, <1>2, SMT DEF Owed
  <1> QED
    BY <1>3 DEF Past, Loaded

\* A store makes the buffer longer by one.
LEMMA Appended ==
  ASSUME NEW S, NEW b \in Seq(S), NEW e \in S
  PROVE  Append(b, e) \in Seq(S) /\ Len(Append(b, e)) = Len(b) + 1 /\ Len(b) \in Nat
  BY SMT

\* The two resets of main keep the invariant.
LEMMA ResetInv ==
  ASSUME IInv, ResetX \/ ResetY
  PROVE  IInv'
  <1> USE DEF IInv
  <1>1. PICK v \in {"X", "Y"}, l \in {"reset Y", "post 1"} :
          /\ Store(main, v, 0) /\ Goto(main, l)
          /\ pc[main] \in {"reset X", "reset Y"} /\ UNCHANGED <<memory, sema>>
    BY DEF ResetX, ResetY, after_reset
  <1> DEFINE e == [var |-> v, val |-> 0]
             b == buffer[main]
  <1>2. /\ pc' \in [Threads -> WorkerLabels \cup MainLabels] /\ pc'[main] = l
        /\ \A u \in Threads : u # main => pc'[u] = pc[u]
    <2>1. l \in WorkerLabels \cup MainLabels
      BY DEF MainLabels
    <2> QED
      BY <1>1, <2>1, Moved, Names
  <1>3. e \in Entries
    BY Names DEF Entries
  <1>4. buffer' = [buffer EXCEPT ![main] = Append(@, e)] /\ Len(buffer[main]) < BufferSize
    BY <1>1 DEF Store
  <1>5. /\ buffer' \in [Threads -> Seq(Entries)] /\ Len(buffer'[main]) = Len(buffer[main]) + 1
        /\ \A u \in Threads : u # main => buffer'[u] = buffer[u]
    <2>1. b \in Seq(Entries)
      BY Names DEF Types
    <2>2. Append(b, e) \in Seq(Entries) /\ Len(Append(b, e)) = Len(b) + 1
      <3> HIDE DEF e, b
      <3> QED
        BY <1>3, <2>1, Appended
    <2>3. main \in Threads
      BY Names
    <2> HIDE DEF e
    <2> QED
      BY <1>4, <2>2, <2>3 DEF Types
  <1>6. Types'
    BY <1>1, <1>2, <1>5 DEF Types
  <1>7. Buffers'
    <2>1. \A u \in Workers : WorkerAt(u, pc'[u], buffer'[u], memory')
      BY <1>1, <1>2, <1>5, Names DEF Buffers
    <2>2. MainAt(pc'[main], buffer'[main])
      BY <1>2 DEF MainAt, MainLabels
    <2>3. Len(buffer'[main]) <= BufferSize
      <3>1. b \in Seq(Entries)
        BY Names DEF Types
      <3> DEFINE n == Len(b)
      <3>2. n \in Nat
        BY <1>3, <3>1, Appended
      <3>3. n < BufferSize
        BY <1>4
      <3>4. n + 1 <= BufferSize
        <4> HIDE DEF n
        <4> QED
          BY <3>2, <3>3, BufferRoom
      <3> QED
        BY <1>5, <3>4
    <2>4. \A u \in Threads : u # main => Len(buffer'[u]) <= BufferSize
      BY <1>5 DEF Buffers
    <2> QED
      BY <2>1, <2>2, <2>3, <2>4 DEF Buffers
  <1>8. \A u \in Workers : Owed(u)' = Owed(u)
    BY <1>1, <1>2, Names DEF Owed
  <1>9. \A u \in Workers : ~Released(u) /\ ~Released(u)'
    BY <1>1, <1>2 DEF Released
  <1>10. Unpaid = 0 /\ Unpaid' = 0
    BY <1>1, <1>2 DEF Unpaid
  <1>11. Counts'
    BY <1>1, <1>8, <1>9, <1>10, Names DEF Counts
  <1>12. \A u \in Workers : ~Past(u)'
    BY <1>2, <1>9, Quiet, Names, ZenonT(30) DEF Past, Loaded
  <1>13. Order'
    BY <1>12, Names DEF Order, Past
  <1> QED
    BY <1>6, <1>7, <1>11, <1>13

\* The store that reaches memory keeps the invariant.
LEMMA FlushInv ==
  ASSUME IInv, NEW t \in Threads, Flush(t)
  PROVE  IInv'
  <1> USE DEF IInv
  <1> DEFINE b == buffer[t]
             e == Head(b)
  <1>1. b # <<>> /\ UNCHANGED <<pc, sema>>
    BY DEF Flush
  <1>2. b \in Seq(Entries) /\ Len(b) \in Nat
    BY SMT DEF Types
  <1>3. e \in Entries
    <2> HIDE DEF b
    <2> QED
      BY <1>1, <1>2, SMT
  <1>4. Tail(b) \in Seq(Entries) /\ Len(Tail(b)) = Len(b) - 1
    <2> HIDE DEF b
    <2> QED
      BY <1>1, <1>2, SMT
  <1>5. e.var \in Vars /\ e.val \in {0, 1}
    <2> HIDE DEF e
    <2> QED
      BY <1>3 DEF Entries
  <1>6. /\ memory' \in [Vars -> {0, 1}] /\ memory'[e.var] = e.val
        /\ \A v \in Vars : v # e.var => memory'[v] = memory[v]
    <2>1. memory' = [memory EXCEPT ![e.var] = e.val]
      BY DEF Flush
    <2> HIDE DEF e
    <2> QED
      BY <1>5, <2>1 DEF Types
  <1>7. /\ buffer' \in [Threads -> Seq(Entries)] /\ buffer'[t] = Tail(b)
        /\ \A u \in Threads : u # t => buffer'[u] = buffer[u]
    BY <1>4 DEF Types, Flush
  <1>8. Types'
    BY <1>1, <1>6, <1>7 DEF Types
  <1>9. Counts' /\ \A u \in Workers : (Past(u)' <=> Past(u)) /\ (Loaded(u)' <=> Loaded(u))
    <2>1. \A u \in Workers : Owed(u)' = Owed(u)
      BY <1>1 DEF Owed
    <2>2. \A u \in Workers : Released(u)' <=> Released(u)
      BY <1>1 DEF Released
    <2>3. Counts'
      BY <1>1, SameCounts
    <2> QED
      BY <1>1, <2>1, <2>2, <2>3 DEF Past, Loaded
  <1>10. \A u \in Threads : Len(buffer'[u]) <= BufferSize
    <2>1. Len(buffer'[t]) <= BufferSize
      BY <1>2, <1>4, <1>7, BufferAssumption, SMT DEF Buffers
    <2> QED
      BY <1>7, <2>1 DEF Buffers
  <1>11. CASE t = main
    <2>1. pc[main] = "reset Y" \/ pc[main] = "post 1"
      BY <1>1, <1>11 DEF Buffers, MainAt
    <2>2. \A u \in Workers : ~Released(u)
      BY <2>1 DEF Released
    <2>3. \A u \in Workers : pc[u] = "begin" /\ ~Past(u) /\ ~Loaded(u)
      BY <2>2, Quiet DEF Past
    <2>4. Order'
      BY <1>9, <2>3, Names DEF Order
    <2>5. \A u \in Workers : WorkerAt(u, pc'[u], buffer'[u], memory')
      BY <1>1, <1>7, <1>11, <2>3, Names, ZenonT(30) DEF Buffers, WorkerAt
    <2>6. MainAt(pc'[main], buffer'[main])
      BY <1>1, <2>1 DEF MainAt, MainLabels
    <2> QED
      BY <1>8, <1>9, <1>10, <2>4, <2>5, <2>6 DEF Buffers
  <1>12. CASE t \in Workers
    <2> USE <1>12
    <2>1. WorkerAt(t, pc[t], b, memory)
      BY DEF Buffers
    <2>2. MainAt(pc'[main], buffer'[main])
      BY <1>1, <1>7, Names DEF Buffers
    <2>3. CASE pc[t] = "fence"
      <3>1. b \in Seq([var : {Mine(t)}, val : {1}])
        BY <2>1, <2>3 DEF WorkerAt
      <3>2. e \in [var : {Mine(t)}, val : {1}] /\ Tail(b) \in Seq([var : {Mine(t)}, val : {1}])
        <4> DEFINE S == [var : {Mine(t)}, val : {1}]
        <4> HIDE DEF b, S
        <4>1. Head(b) \in S /\ Tail(b) \in Seq(S)
          <5>1. b \in Seq(S)
            BY <3>1 DEF S
          <5> QED
            BY <1>1, <3>1, <5>1, SMT
        <4> QED
          BY <4>1 DEF S
      <3>3. e.var = Mine(t) /\ e.val = 1
        <4> HIDE DEF e
        <4> QED
          BY <3>2
      <3>4. memory'[Mine(t)] = 1 /\ \A v \in Vars : v # Mine(t) => memory'[v] = memory[v]
        BY <1>6, <3>3
      <3>5. WorkerAt(t, pc'[t], buffer'[t], memory')
        BY <1>1, <1>7, <2>3, <3>2, <3>4 DEF WorkerAt, WorkerLabels
      <3>6. \A u \in Workers : u # t => WorkerAt(u, pc'[u], buffer'[u], memory')
        <4>1. \A u \in Workers : u # t => memory'[Mine(u)] = memory[Mine(u)]
          BY <3>4, Names
        <4>2. \A u \in Workers : u # t => buffer'[u] = buffer[u] /\ pc'[u] = pc[u]
          BY <1>1, <1>7, Names
        <4> QED
          BY <4>1, <4>2, ZenonT(30) DEF Buffers, WorkerAt
      <3>7. ~Loaded(t)
        <4>1. Owed(t) # 0
          BY <2>3, Names, SMT DEF Owed, Types
        <4> QED
          BY <2>3, <4>1 DEF Loaded
      <3>8. \A u \in Workers : u # t => Value(u)' = Value(u)
        BY <1>7, <3>4, Names, SMT DEF Value
      <3>9. \A u \in Workers : Past(u)' => memory'[Mine(u)] = 1
        BY <1>9, <3>4, Names, ZenonT(30) DEF Order
      <3>10. Order'
        BY <1>9, <3>7, <3>9, Names DEF Order
      <3> QED
        BY <1>8, <1>9, <1>10, <2>2, <3>5, <3>6, <3>10 DEF Buffers
    <2>4. CASE pc[t] = "end"
      <3>1. b \in Seq([var : {Result(t)}, val : {0, 1}]) /\ Len(b) <= 1
        BY <2>1, <2>4 DEF WorkerAt
      <3>2. e \in [var : {Result(t)}, val : {0, 1}] /\ Tail(b) = <<>>
        <4> DEFINE S == [var : {Result(t)}, val : {0, 1}]
        <4> HIDE DEF b, S
        <4>1. Head(b) \in S /\ Tail(b) = <<>>
          <5>1. b \in Seq(S)
            BY <3>1 DEF S
          <5> QED
            BY <1>1, <3>1, <5>1, SMT
        <4> QED
          BY <4>1 DEF S
      <3>3. e.var = Result(t)
        <4> HIDE DEF e
        <4> QED
          BY <3>2
      <3>4. memory'[Result(t)] = e.val /\ \A v \in Vars : v # Result(t) => memory'[v] = memory[v]
        BY <1>6, <3>3
      <3>5. WorkerAt(t, pc'[t], buffer'[t], memory')
        <4>1. buffer'[t] = <<>>
          BY <1>7, <3>2
        <4> QED
          BY <1>1, <2>4, <4>1, SMT DEF WorkerAt, WorkerLabels
      <3>6. \A u \in Workers : u # t => WorkerAt(u, pc'[u], buffer'[u], memory')
        <4>1. \A u \in Workers : u # t => memory'[Mine(u)] = memory[Mine(u)]
          BY <3>4, Names, ZenonT(30)
        <4>2. \A u \in Workers : u # t => buffer'[u] = buffer[u] /\ pc'[u] = pc[u]
          BY <1>1, <1>7, Names
        <4> QED
          BY <4>1, <4>2 DEF Buffers, WorkerAt
      <3>7. Value(t)' = Value(t)
        <4>1. Value(t)' = memory'[Result(t)]
          <5> HIDE DEF b
          <5> QED
            BY <1>7, <3>2 DEF Value
        <4>2. Value(t) = e.val
          BY <1>1 DEF Value
        <4> QED
          BY <3>4, <4>1, <4>2
      <3>8. \A u \in Workers : u # t => Value(u)' = Value(u)
        BY <1>7, <3>4, Names, ZenonT(30) DEF Value
      <3>9. \A u \in Workers : memory'[Mine(u)] = memory[Mine(u)]
        BY <3>4, Names
      <3>10. Order'
        BY <1>9, <3>7, <3>8, <3>9, Names, ZenonT(30) DEF Order
      <3> QED
        BY <1>8, <1>9, <1>10, <2>2, <3>5, <3>6, <3>10 DEF Buffers
    <2> QED
      BY <1>1, <2>1, <2>3, <2>4 DEF WorkerAt, WorkerLabels
  <1> QED
    BY <1>11, <1>12, Names

\* The posts and waits of main keep the invariant.
LEMMA MainInv ==
  ASSUME IInv, Post1 \/ Post2 \/ Wait1 \/ Wait2 \/ Check
  PROVE  IInv'
  <1> USE DEF IInv
  <1>1. UNCHANGED <<memory, buffer>> /\ buffer[main] = <<>>
    <2>1. CASE Check
      BY <2>1 DEF Check, Buffers, MainAt
    <2> QED
      BY <2>1 DEF Post1, Post2, Wait1, Wait2, sem_post, sem_wait, Drained
  <1>2. PICK l \in MainLabels : Goto(main, l)
    BY DEF Post1, Post2, Wait1, Wait2, Check, MainLabels, after_first_wait
  <1>3. /\ pc' \in [Threads -> WorkerLabels \cup MainLabels] /\ pc'[main] = l
        /\ \A u \in Threads : u # main => pc'[u] = pc[u]
    BY <1>2, Moved, Names
  <1>4. sema' \in [Semas -> Nat]
    <2>1. CASE Post1 \/ Post2
      <3>1. PICK s \in Semas : sema' = [sema EXCEPT ![s] = @ + 1]
        BY <2>1, Names DEF Post1, Post2, sem_post, secondSema
      <3> QED
        BY <3>1, SMT DEF Types
    <2>2. CASE Wait1 \/ Wait2
      <3>1. /\ sema["endSema"] > 0 /\ "endSema" \in Semas
            /\ sema' = [sema EXCEPT !["endSema"] = @ - 1]
        BY <2>2, Names DEF Wait1, Wait2, sem_wait
      <3> QED
        BY <3>1, SMT DEF Types
    <2>3. CASE Check
      BY <2>3 DEF Check, Types
    <2> QED
      BY <2>1, <2>2, <2>3
  <1>5. Types'
    BY <1>1, <1>3, <1>4 DEF Types
  <1>6. Buffers'
    <2>1. \A u \in Workers : WorkerAt(u, pc'[u], buffer'[u], memory')
      BY <1>1, <1>3, Names DEF Buffers
    <2>2. MainAt(pc'[main], buffer'[main])
      BY <1>1, <1>3 DEF MainAt
    <2> QED
      BY <1>1, <2>1, <2>2 DEF Buffers
  <1>7. \A u \in Workers : (pc'[u] = pc[u]) /\ Value(u)' = Value(u)
    BY <1>1, <1>3, Names DEF Value
  <1>8. CASE Post1
    <2>1. pc[main] = "post 1" /\ pc'[main] = "post 2"
      BY <1>8, Names DEF Post1, Goto, Types
    <2>2. /\ sema'["beginSema1"] = sema["beginSema1"] + 1
          /\ sema'["beginSema2"] = sema["beginSema2"] /\ sema'["endSema"] = sema["endSema"]
      BY <1>8, Names DEF Post1, sem_post, Types
    <2>3. \A u \in Workers : ~Released(u)
      BY <2>1 DEF Released
    <2>4. \A u \in Workers : pc[u] = "begin" /\ sema[beginSema(u)] = 0 /\ ~Past(u)
      BY <2>3, Quiet
    <2>5. Owed("thread1") = 0 /\ Owed("thread2") = 0
      BY <2>3, Names DEF Counts
    <2>6. Owed("thread1")' = 1
      BY <1>7, <2>2, <2>4, Names, SMT DEF Owed
    <2>7. Owed("thread2")' = 0
      BY <1>7, <2>2, <2>4, Names, SMT DEF Owed
    <2>8. Unpaid = 0 /\ Unpaid' = 1
      BY <2>1 DEF Unpaid
    <2>9. sema["endSema"] = 0
      BY <2>5, <2>8, Names, SMT DEF Counts, Types
    <2>10. Released("thread1")'
      BY <2>1 DEF Released
    <2>11. Counts'
      BY <2>2, <2>6, <2>7, <2>8, <2>9, <2>10, Names, SMT DEF Counts
    <2>12. ~Past("thread1")' /\ ~Past("thread2")'
      <3>1. ~Released("thread2")'
        BY <2>1 DEF Released
      <3> QED
        BY <1>7, <2>4, <2>6, <3>1, Names, SMT DEF Past, Loaded
    <2>13. Order'
      BY <2>12, Names DEF Order, Past
    <2> QED
      BY <1>5, <1>6, <2>11, <2>13
  <1>9. CASE Post2
    <2>1. pc[main] = "post 2" /\ pc'[main] = "wait 1"
      BY <1>9, Names DEF Post2, Goto, Types
    <2>2. /\ sema'["beginSema2"] = sema["beginSema2"] + 1
          /\ sema'["beginSema1"] = sema["beginSema1"] /\ sema'["endSema"] = sema["endSema"]
      BY <1>9, Names DEF Post2, sem_post, Types, secondSema
    <2>3. ~Released("thread2") /\ Released("thread1")
      BY <2>1 DEF Released
    <2>4. pc["thread2"] = "begin" /\ sema[beginSema("thread2")] = 0 /\ ~Past("thread2")
      BY <2>3, Quiet, Names
    <2>5. Owed("thread2") = 0
      BY <2>3, Names DEF Counts
    <2>6. Owed("thread2")' = 1
      BY <1>7, <2>2, <2>4, Names, SMT DEF Owed
    <2>7. Owed("thread1")' = Owed("thread1")
      BY <1>7, <2>2, Names DEF Owed
    <2>8. Unpaid = 1 /\ Unpaid' = 2
      BY <2>1 DEF Unpaid
    <2>9. Owed("thread1") \in {0, 1} /\ sema["endSema"] \in Nat
      BY Names DEF Counts, Types
    <2>10. Released("thread1")' /\ Released("thread2")'
      BY <2>1 DEF Released
    <2>11. Counts'
      <3>1. Owed("thread1") + 0 + sema["endSema"] = 1
        BY <2>5, <2>8 DEF Counts
      <3>2. Owed("thread1")' + Owed("thread2")' + sema'["endSema"] = 2
        BY <2>2, <2>6, <2>7, <2>9, <3>1, SMT
      <3> QED
        BY <2>6, <2>7, <2>8, <2>9, <2>10, <3>2, Names DEF Counts
    <2>12. ~Past("thread2")' /\ (Past("thread1")' => Past("thread1"))
      BY <1>7, <2>3, <2>4, <2>6, <2>7, Names, SMT DEF Past, Loaded
    <2>13. Order'
      BY <1>1, <2>12, Names DEF Order, Past
    <2> QED
      BY <1>5, <1>6, <2>11, <2>13
  <1>10. CASE Wait1 \/ Wait2
    <2>1. \/ pc[main] = "wait 1" /\ pc'[main] = "wait 2"
          \/ pc[main] = "wait 2" /\ pc'[main] = "check"
      BY <1>10, Names DEF Wait1, Wait2, Goto, Types, after_first_wait
    <2>2. /\ sema'["endSema"] = sema["endSema"] - 1
          /\ sema'["beginSema1"] = sema["beginSema1"] /\ sema'["beginSema2"] = sema["beginSema2"]
      <3>1. sema' = [sema EXCEPT !["endSema"] = @ - 1]
        BY <1>10 DEF Wait1, Wait2, sem_wait
      <3> QED
        BY <3>1, Names DEF Types
    <2>3. \A u \in Workers : Owed(u)' = Owed(u)
      BY <1>7, <2>2, Names, SMT DEF Owed
    <2>4. \A u \in Workers : Released(u)' /\ Released(u)
      BY <2>1 DEF Released
    <2>5. Unpaid' = Unpaid - 1
      <3>1. CASE pc[main] = "wait 1" /\ pc'[main] = "wait 2"
        <4>1. Unpaid = 2
          BY <3>1 DEF Unpaid
        <4>2. Unpaid' = 1
          BY <3>1 DEF Unpaid
        <4> QED
          BY <4>1, <4>2, SMT
      <3>2. CASE pc[main] = "wait 2" /\ pc'[main] = "check"
        <4>1. Unpaid = 1
          BY <3>2 DEF Unpaid
        <4>2. Unpaid' = 0
          BY <3>2 DEF Unpaid
        <4> QED
          BY <4>1, <4>2, SMT
      <3> QED
        BY <2>1, <3>1, <3>2
    <2>6. \A u \in Workers : Owed(u)' \in {0, 1}
      BY <2>3 DEF Counts
    <2>7. Counts'
      <3>1. Owed("thread1") \in {0, 1} /\ Owed("thread2") \in {0, 1} /\ sema["endSema"] \in Nat
        BY Names DEF Counts, Types
      <3>2. Owed("thread1") + Owed("thread2") + sema["endSema"] = Unpaid
        BY DEF Counts
      <3>3. Owed("thread1")' + Owed("thread2")' + sema'["endSema"] = Unpaid'
        BY <2>2, <2>3, <2>5, <3>1, <3>2, Names, SMT
      <3> QED
        BY <2>4, <2>6, <3>3 DEF Counts
    <2>8. \A u \in Workers : (Past(u)' => Past(u)) /\ (Loaded(u)' => Loaded(u))
      BY <1>7, <2>3, <2>4 DEF Past, Loaded
    <2>9. Order'
      BY <1>1, <1>7, <2>8, Names DEF Order
    <2> QED
      BY <1>5, <1>6, <2>7, <2>9
  <1>11. CASE Check
    <2>1. pc[main] = "check" /\ pc'[main] = "reset X" /\ UNCHANGED sema
      BY <1>11, Names DEF Check, Goto, Types
    <2>2. \A u \in Workers : Owed(u)' = Owed(u)
      BY <1>7, <2>1 DEF Owed
    <2>3. Unpaid = 0 /\ Unpaid' = 0
      BY <2>1 DEF Unpaid
    <2>4. Owed("thread1") = 0 /\ Owed("thread2") = 0
      <3>1. Owed("thread1") \in {0, 1} /\ Owed("thread2") \in {0, 1} /\ sema["endSema"] \in Nat
        BY Names DEF Counts, Types
      <3>2. Owed("thread1") + Owed("thread2") + sema["endSema"] = 0
        BY <2>3 DEF Counts
      <3> QED
        BY <3>1, <3>2, SMT
    <2>5. Counts'
      BY <2>1, <2>2, <2>3, <2>4, Names DEF Counts
    <2>6. \A u \in Workers : ~Released(u)'
      BY <2>1 DEF Released
    <2>7. \A u \in Workers : ~Past(u)'
      <3>1. \A u \in Workers : sema[beginSema(u)] \in Nat /\ Owed(u) = 0
        BY <2>4, Names DEF Types
      <3>2. \A u \in Workers : pc[u] = "begin"
        BY <3>1, SMT DEF Owed
      <3> QED
        BY <1>7, <2>6, <3>2 DEF Past, Loaded
    <2>8. Order'
      BY <2>7, Names DEF Order, Past
    <2> QED
      BY <1>5, <1>6, <2>5, <2>8
  <1> QED
    BY <1>8, <1>9, <1>10, <1>11

\* The inductive invariant holds in every state of the experiment.
THEOREM Invariance == Spec => []IInv
  <1>1. IInv /\ [Next]_vars => IInv'
    <2> SUFFICES ASSUME IInv, [Next]_vars PROVE IInv'
      OBVIOUS
    <2>1. CASE Main
      BY <2>1, ResetInv, MainInv DEF Main
    <2>2. ASSUME NEW t \in Workers, Worker(t) PROVE IInv'
      BY <2>2, BeginInv, StoreInv, FenceInv, LoadInv, EndInv DEF Worker
    <2>3. ASSUME NEW t \in Threads, Flush(t) PROVE IInv'
      BY <2>3, FlushInv
    <2>4. CASE UNCHANGED vars
      BY <2>4 DEF vars, IInv, Types, Buffers, Counts, Order, Owed, Unpaid, Released,
                  Loaded, Past, Value
    <2> QED
      BY <2>1, <2>2, <2>3, <2>4 DEF Next
  <1> QED
    BY InitInv, <1>1, PTL DEF Spec

\* ordering.cpp 5, for a store buffer of any size: with USE_CPU_FENCE main
\* never finds that both threads loaded the old value.
THEOREM FencePreventsReordering == Spec => []NoReorder
  <1>1. IInv => NoReorder
    <2> SUFFICES ASSUME IInv, pc[main] = "check"
                 PROVE  ~(Load(main, "r1") = 0 /\ Load(main, "r2") = 0)
      BY DEF NoReorder
    <2> USE DEF IInv
    <2>1. Load(main, "r1") = memory["r1"] /\ Load(main, "r2") = memory["r2"]
      <3>1. buffer[main] = <<>>
        BY DEF Buffers, MainAt
      <3> QED
        BY <3>1, LoadsMemory
    <2>2. Unpaid = 0
      BY DEF Unpaid
    <2>3. Owed("thread1") = 0 /\ Owed("thread2") = 0
      <3>1. Owed("thread1") \in {0, 1} /\ Owed("thread2") \in {0, 1} /\ sema["endSema"] \in Nat
        BY Names DEF Counts, Types
      <3>2. Owed("thread1") + Owed("thread2") + sema["endSema"] = 0
        BY <2>2 DEF Counts
      <3> QED
        BY <3>1, <3>2, SMT
    <2>4. Loaded("thread1") /\ Loaded("thread2")
      BY <2>3 DEF Loaded, Released
    <2>5. pc["thread1"] = "begin" /\ pc["thread2"] = "begin"
      <3>1. sema[beginSema("thread1")] \in Nat /\ sema[beginSema("thread2")] \in Nat
        BY Names DEF Types
      <3> QED
        BY <2>3, <3>1, SMT DEF Owed
    <2>6. buffer["thread1"] = <<>> /\ buffer["thread2"] = <<>>
      BY <2>5, Names DEF Buffers, WorkerAt
    <2>7. Value("thread1") = memory["r1"] /\ Value("thread2") = memory["r2"]
      BY <2>6, Names DEF Value
    <2> QED
      BY <2>1, <2>4, <2>7, SMT DEF Order
  <1> QED
    BY Invariance, <1>1, PTL

\* main resets and checks only while both threads wait for the next experiment
\* and nothing of the last one is in their buffers.
THEOREM ExperimentsAreSeparate == Spec => []ResetWhileQuiet
  <1>1. IInv => ResetWhileQuiet
    <2> SUFFICES ASSUME IInv, pc[main] \in {"check", "reset X", "reset Y"}, NEW t \in Workers
                 PROVE  pc[t] = "begin" /\ sema[beginSema(t)] = 0 /\ Drained(t)
      BY DEF ResetWhileQuiet
    <2> USE DEF IInv
    <2>1. Unpaid = 0
      BY DEF Unpaid
    <2>2. Owed(t) = 0
      <3>1. Owed("thread1") \in {0, 1} /\ Owed("thread2") \in {0, 1} /\ sema["endSema"] \in Nat
        BY Names DEF Counts, Types
      <3>2. Owed("thread1") + Owed("thread2") + sema["endSema"] = 0
        BY <2>1 DEF Counts
      <3>3. Owed("thread1") = 0 /\ Owed("thread2") = 0
        BY <3>1, <3>2, ZeroSum
      <3> QED
        BY <3>3, Names
    <2>3. sema[beginSema(t)] \in Nat
      BY Names DEF Types
    <2>4. pc[t] = "begin" /\ sema[beginSema(t)] = 0
      BY <2>2, <2>3, OwesNothing
    <2> QED
      BY <2>4 DEF Drained, Buffers, WorkerAt
  <1> QED
    BY Invariance, <1>1, PTL
-----------------------------------------------------------------------------
(* Sequences                                                               *)

\* A sequence is a function on 1 .. Len.
LEMMA SeqLength ==
  ASSUME NEW S, NEW s \in Seq(S)
  PROVE  Len(s) \in Nat /\ DOMAIN s = 1 .. Len(s) /\ s \in [1 .. Len(s) -> S]
BY SMT

\* The empty sequence is of every type, and no other has length 0.
LEMMA SeqEmpty ==
  ASSUME NEW S
  PROVE  /\ <<>> \in Seq(S) /\ Len(<<>>) = 0
         /\ \A s \in Seq(S) : s # <<>> => Len(s) \in Nat \ {0}
BY SMT

\* One element of a sequence is replaced.
LEMMA SeqUpdate ==
  ASSUME NEW S, NEW s \in Seq(S), NEW j \in 1 .. Len(s), NEW x \in S
  PROVE  LET u == [s EXCEPT ![j] = x]
         IN  u \in Seq(S) /\ Len(u) = Len(s) /\ \A l \in 1 .. Len(s) : u[l] = IF l = j THEN x ELSE s[l]
BY SMT

\* Sequences with the same elements are the same.
LEMMA SeqSame ==
  ASSUME NEW S, NEW s \in Seq(S), NEW u \in Seq(S), Len(u) = Len(s), \A j \in 1 .. Len(s) : u[j] = s[j]
  PROVE  s = u
BY SMT

\* Two sequences, one after the other.
LEMMA SeqJoin ==
  ASSUME NEW S, NEW s \in Seq(S), NEW u \in Seq(S)
  PROVE  /\ s \o u \in Seq(S) /\ Len(s \o u) = Len(s) + Len(u)
         /\ \A j \in 1 .. Len(s) + Len(u) : (s \o u)[j] = IF j <= Len(s) THEN s[j] ELSE u[j - Len(s)]
BY SMT

\* A part of a sequence.
LEMMA SeqCut ==
  ASSUME NEW S, NEW s, NEW a \in Int, NEW b \in Int, \A j \in a .. b : s[j] \in S
  PROVE  /\ SubSeq(s, a, b) \in Seq(S) /\ Len(SubSeq(s, a, b)) = IF a <= b THEN b - a + 1 ELSE 0
         /\ \A j \in 1 .. b - a + 1 : SubSeq(s, a, b)[j] = s[a + j - 1]
BY SMT

\* One more element at the end.
LEMMA SeqAppend ==
  ASSUME NEW S, NEW s \in Seq(S), NEW x \in S
  PROVE  /\ Append(s, x) \in Seq(S) /\ Append(s, x) # <<>> /\ Len(Append(s, x)) = Len(s) + 1
         /\ (\A j \in 1 .. Len(s) : Append(s, x)[j] = s[j]) /\ Append(s, x)[Len(s) + 1] = x
BY SMT

-----------------------------------------------------------------------------
(* The echo client and server                                              *)

\* The n bytes of a buffer after the first a.
Bytes(a, n) == [k \in 1 .. n |-> a + k]

\* How much of the buffer has come back, and where, in the buffer, what the
\* streams, mesg and rest hold begins.
Back == IF echo_pc = "read" THEN amtread ELSE 0
InMesg == Back + Len(toClient)
InServer == InMesg + Len(mesg)
InRest == InServer + Len(toServer)

EchoTypes ==
  /\ iobuf = Bytes(0, BUFSIZE)
  /\ echo_i \in 0 .. NOREQUESTS
  /\ amtread \in 0 .. BUFSIZE
  /\ echo_pc \in {"loop", "write", "read", "ok", "exit"}
  /\ toClient \in Seq(Nat) /\ mesg \in Seq(Nat) /\ toServer \in Seq(Nat) /\ rest \in Seq(Nat)

\* While a buffer is under way its parts follow one another, rest too as long as
\* the server takes what is written; otherwise nothing is under way.  What
\* recvfrom puts into mesg overwrites nothing.
EchoInv ==
  /\ EchoTypes
  /\ echo_pc \in {"write", "read"} =>
       /\ toClient = Bytes(Back, Len(toClient))
       /\ mesg = Bytes(InMesg, Len(mesg))
       /\ toServer = Bytes(InServer, Len(toServer))
       /\ InRest + Len(rest) <= BUFSIZE
       /\ server # "dead" => rest = Bytes(InRest, Len(rest)) /\ InRest + Len(rest) = BUFSIZE
       /\ echo_i < NOREQUESTS
  /\ echo_pc = "read" => rest = <<>>
  /\ echo_pc \in {"loop", "ok"} => toClient = <<>> /\ mesg = <<>> /\ toServer = <<>>
  /\ echo_pc = "ok" => echo_i = NOREQUESTS
  /\ server = "recv" => mesg = <<>>

\* A part of a buffer has the length it was asked for.
LEMMA BytesAreSeq ==
  ASSUME NEW a \in Nat, NEW n \in Nat
  PROVE  /\ Bytes(a, n) \in Seq(Nat) /\ Len(Bytes(a, n)) = n
         /\ \A k \in 1 .. n : Bytes(a, n)[k] = a + k
BY SMT DEF Bytes

\* Two parts that follow one another make one.
LEMMA BytesConcat ==
  ASSUME NEW a \in Nat, NEW m \in Nat, NEW n \in Nat
  PROVE  Bytes(a, m) \o Bytes(a + m, n) = Bytes(a, m + n)
<1> DEFINE s == Bytes(a, m)
           t == Bytes(a + m, n)
           u == Bytes(a, m + n)
<1>1. /\ s \in Seq(Nat) /\ Len(s) = m /\ \A k \in 1 .. m : s[k] = a + k
      /\ t \in Seq(Nat) /\ Len(t) = n /\ \A k \in 1 .. n : t[k] = (a + m) + k
      /\ u \in Seq(Nat) /\ Len(u) = m + n /\ \A k \in 1 .. m + n : u[k] = a + k
  <2>1. a + m \in Nat /\ m + n \in Nat
    BY SMT
  <2> QED
    BY <2>1, BytesAreSeq
<1> HIDE DEF s, t, u
<1>2. /\ s \o t \in Seq(Nat) /\ Len(s \o t) = m + n
      /\ \A k \in 1 .. m + n : (s \o t)[k] = IF k <= m THEN s[k] ELSE t[k - m]
  <2>1. /\ s \o t \in Seq(Nat) /\ Len(s \o t) = Len(s) + Len(t)
        /\ \A k \in 1 .. Len(s) + Len(t) : (s \o t)[k] = IF k <= Len(s) THEN s[k] ELSE t[k - Len(s)]
    BY <1>1, SeqJoin
  <2> QED
    BY <1>1, <2>1
<1>3. ASSUME NEW k \in 1 .. m + n PROVE (s \o t)[k] = u[k]
  <2>1. CASE k <= m
    BY <1>1, <1>2, <2>1, SMT
  <2>2. CASE ~(k <= m)
    <3>1. k - m \in 1 .. n /\ (a + m) + (k - m) = a + k
      BY <2>2, SMT
    <3>2. (s \o t)[k] = t[k - m]
      BY <1>2, <2>2
    <3>3. t[k - m] = (a + m) + (k - m) /\ u[k] = a + k
      BY <1>1, <3>1
    <3> QED
      BY <3>1, <3>2, <3>3
  <2> QED
    BY <2>1, <2>2
<1>4. s \o t = u
  BY <1>1, <1>2, <1>3, SeqSame
<1> QED
  BY <1>4 DEF s, t, u

\* What read, write, recvfrom and sendto take of a part, and what they leave.
LEMMA BytesCut ==
  ASSUME NEW a \in Nat, NEW n \in Nat, NEW k \in 0 .. n
  PROVE  /\ SubSeq(Bytes(a, n), 1, k) = Bytes(a, k)
         /\ SubSeq(Bytes(a, n), k + 1, n) = Bytes(a + k, n - k)
<1> DEFINE s == Bytes(a, n)
           t == Bytes(a, k)
           u == Bytes(a + k, n - k)
<1>1. /\ s \in Seq(Nat) /\ Len(s) = n /\ \A j \in 1 .. n : s[j] = a + j
      /\ t \in Seq(Nat) /\ Len(t) = k /\ \A j \in 1 .. k : t[j] = a + j
      /\ u \in Seq(Nat) /\ Len(u) = n - k /\ \A j \in 1 .. n - k : u[j] = (a + k) + j
  <2>1. a + k \in Nat /\ n - k \in Nat /\ k \in Nat
    BY SMT
  <2> QED
    BY <2>1, BytesAreSeq
<1> HIDE DEF s, t, u
<1>2. SubSeq(s, 1, k) = t
  <2>1. /\ SubSeq(s, 1, k) \in Seq(Nat)
        /\ Len(SubSeq(s, 1, k)) = IF 1 <= k THEN k - 1 + 1 ELSE 0
        /\ \A j \in 1 .. k - 1 + 1 : SubSeq(s, 1, k)[j] = s[1 + j - 1]
    <3>1. \A j \in 1 .. k : s[j] \in Nat
      BY <1>1, SMTT(30)
    <3> QED
      BY <3>1, SeqCut, SMT
  <2>2. Len(SubSeq(s, 1, k)) = k /\ \A j \in 1 .. k : SubSeq(s, 1, k)[j] = t[j]
    BY <1>1, <2>1, SMT
  <2> QED
    BY <1>1, <2>1, <2>2, SeqSame
<1>3. SubSeq(s, k + 1, n) = u
  <2>1. /\ SubSeq(s, k + 1, n) \in Seq(Nat)
        /\ Len(SubSeq(s, k + 1, n)) = IF k + 1 <= n THEN n - (k + 1) + 1 ELSE 0
        /\ \A j \in 1 .. n - (k + 1) + 1 : SubSeq(s, k + 1, n)[j] = s[(k + 1) + j - 1]
    <3>1. \A j \in k + 1 .. n : s[j] \in Nat
      BY <1>1, SMTT(30)
    <3> QED
      BY <3>1, SeqCut, SMT
  <2>2. Len(SubSeq(s, k + 1, n)) = n - k /\ \A j \in 1 .. n - k : SubSeq(s, k + 1, n)[j] = u[j]
    BY <1>1, <2>1, SMTT(30)
  <2> QED
    BY <1>1, <2>1, <2>2, SeqSame, ZenonT(30)
<1> QED
  BY <1>2, <1>3 DEF s, t, u

\* The same, with the types and the lengths of the two halves.
LEMMA BytesTake ==
  ASSUME NEW a \in Nat, NEW m \in Nat, NEW n \in 0 .. m
  PROVE  /\ SubSeq(Bytes(a, m), 1, n) = Bytes(a, n)
         /\ SubSeq(Bytes(a, m), 1, n) \in Seq(Nat)
         /\ Len(SubSeq(Bytes(a, m), 1, n)) = n
         /\ SubSeq(Bytes(a, m), n + 1, m) = Bytes(a + n, m - n)
         /\ SubSeq(Bytes(a, m), n + 1, m) \in Seq(Nat)
         /\ Len(SubSeq(Bytes(a, m), n + 1, m)) = m - n
<1>1. n \in Nat /\ a + n \in Nat /\ m - n \in Nat
  BY SMT
<1>2. SubSeq(Bytes(a, m), 1, n) = Bytes(a, n) /\ SubSeq(Bytes(a, m), n + 1, m) = Bytes(a + n, m - n)
  BY BytesCut
<1>3. /\ Bytes(a, n) \in Seq(Nat) /\ Len(Bytes(a, n)) = n
      /\ Bytes(a + n, m - n) \in Seq(Nat) /\ Len(Bytes(a + n, m - n)) = m - n
  BY <1>1, BytesAreSeq
<1> QED
  BY <1>2, <1>3

\* The front of a part moves to the back of the part before it.
LEMMA BytesMove ==
  ASSUME NEW a \in Nat, NEW l \in Nat, NEW m \in Nat, NEW n \in 0 .. m
  PROVE  /\ Bytes(a, l) \o SubSeq(Bytes(a + l, m), 1, n) = Bytes(a, l + n)
         /\ Bytes(a, l) \o SubSeq(Bytes(a + l, m), 1, n) \in Seq(Nat)
         /\ Len(Bytes(a, l) \o SubSeq(Bytes(a + l, m), 1, n)) = l + n
<1>1. n \in Nat /\ a + l \in Nat /\ l + n \in Nat
  BY SMT
<1>2. SubSeq(Bytes(a + l, m), 1, n) = Bytes(a + l, n)
  BY <1>1, BytesTake
<1>3. Bytes(a, l) \o Bytes(a + l, n) = Bytes(a, l + n)
  BY <1>1, BytesConcat, ZenonT(30)
<1>4. Bytes(a, l + n) \in Seq(Nat) /\ Len(Bytes(a, l + n)) = l + n
  BY <1>1, BytesAreSeq
<1> QED
  BY <1>2, <1>3, <1>4

\* Before the first echoTest the buffer is filled and nothing is under way.
LEMMA EchoStarts == Echo!Init => EchoInv
<1> SUFFICES ASSUME Echo!Init PROVE EchoInv
  OBVIOUS
<1>1. BUFSIZE \in Nat /\ NOREQUESTS \in Nat
  BY ProgramsAssumption DEF Echo!EchoAssumption
<1>2. iobuf = Bytes(0, BUFSIZE)
  BY <1>1, SMT DEF Echo!Init, Echo!fillBuf, Bytes
<1> QED
  BY <1>1, <1>2, SMT DEF Echo!Init, EchoInv, EchoTypes

\* The positions are numbers.
LEMMA EchoPositions ==
  ASSUME EchoTypes
  PROVE  /\ BUFSIZE \in Nat /\ NOREQUESTS \in Nat
         /\ Back \in Nat /\ InMesg \in Nat /\ InServer \in Nat /\ InRest \in Nat
         /\ Len(toClient) \in Nat /\ Len(mesg) \in Nat /\ Len(toServer) \in Nat /\ Len(rest) \in Nat
         /\ InMesg = Back + Len(toClient) /\ InServer = InMesg + Len(mesg)
         /\ InRest = InServer + Len(toServer)
<1>1. BUFSIZE \in Nat /\ NOREQUESTS \in Nat
  BY ProgramsAssumption DEF Echo!EchoAssumption
<1>2. Len(toClient) \in Nat /\ Len(mesg) \in Nat /\ Len(toServer) \in Nat /\ Len(rest) \in Nat
  BY SeqLength DEF EchoTypes
<1>3. Back \in Nat
  BY <1>1, SMT DEF EchoTypes, Back
<1> QED
  BY <1>1, <1>2, <1>3, SMT DEF InMesg, InServer, InRest

\* echoTest starts the next buffer when nothing of the last is under way.
LEMMA echoTestEchoInv == EchoInv /\ Echo!echoTest => EchoInv'
<1> SUFFICES ASSUME EchoInv, Echo!echoTest PROVE EchoInv'
  OBVIOUS
<1>0. EchoTypes /\ BUFSIZE \in Nat /\ NOREQUESTS \in Nat
  BY EchoPositions DEF EchoInv
<1>1. /\ echo_pc = "loop" /\ toClient = <<>> /\ mesg = <<>> /\ toServer = <<>>
      /\ UNCHANGED <<iobuf, echo_i, amtread, toServer, toClient, mesg, server>>
  BY DEF EchoInv, Echo!echoTest
<1>2. CASE Echo!Again
  <2>1. echo_pc' = "write" /\ rest' = Bytes(0, BUFSIZE) /\ echo_i' < NOREQUESTS
    BY <1>0, <1>1, <1>2 DEF Echo!echoTest, Echo!Again, EchoTypes
  <2>2. Bytes(0, BUFSIZE) \in Seq(Nat) /\ Len(Bytes(0, BUFSIZE)) = BUFSIZE
    BY <1>0, BytesAreSeq
  <2>3. EchoTypes'
    BY <1>0, <1>1, <2>1, <2>2 DEF EchoTypes
  <2>4. Back' = 0 /\ InMesg' = 0 /\ InServer' = 0 /\ InRest' = 0
    BY <1>1, <2>1, SMT DEF Back, InMesg, InServer, InRest
  <2>5. Bytes(0, 0) = <<>> /\ Len(<<>>) = 0
    BY SMT DEF Bytes
  <2>6. InRest' + Len(rest') = BUFSIZE /\ BUFSIZE <= BUFSIZE
    BY <1>0, <2>1, <2>2, <2>4, SMT
  <2> QED
    BY <1>0, <1>1, <2>1, <2>2, <2>3, <2>4, <2>5, <2>6 DEF EchoInv
<1>3. CASE ~Echo!Again
  <2>1. echo_pc' = "ok" /\ rest' = rest /\ echo_i' = NOREQUESTS
    BY <1>0, <1>1, <1>3, SMT DEF Echo!echoTest, Echo!Again, EchoTypes
  <2>2. EchoTypes'
    BY <1>0, <1>1, <2>1 DEF EchoTypes
  <2> QED
    BY <1>1, <2>1, <2>2 DEF EchoInv
<1> QED
  BY <1>2, <1>3

\* A write moves the front of rest to the back of the stream to the server.
LEMMA WriteEchoInv == EchoInv /\ Echo!Write => EchoInv'
<1> SUFFICES ASSUME EchoInv, Echo!Write PROVE EchoInv'
  OBVIOUS
<1>1. /\ EchoTypes /\ echo_pc = "write" /\ amtread' = 0
      /\ UNCHANGED <<iobuf, echo_i, toClient, mesg, server>>
      /\ server = "recv" => mesg = <<>>
      /\ Back = 0 /\ echo_i < NOREQUESTS
  BY DEF EchoInv, Echo!Write, Back
<1>2. /\ toClient = Bytes(0, Len(toClient)) /\ mesg = Bytes(InMesg, Len(mesg))
      /\ toServer = Bytes(InServer, Len(toServer)) /\ InRest + Len(rest) <= BUFSIZE
      /\ server # "dead" => rest = Bytes(InRest, Len(rest)) /\ InRest + Len(rest) = BUFSIZE
  BY <1>1 DEF EchoInv
<1>3. ASSUME NEW n \in 1 .. Len(rest), server # "dead",
             toServer' = toServer \o SubSeq(rest, 1, n),
             rest' = SubSeq(rest, n + 1, Len(rest)),
             echo_pc' = IF rest' = <<>> THEN "read" ELSE "write"
      PROVE  EchoInv'
  <2> DEFINE l == Len(toServer)
             m == Len(rest)
  <2>0. /\ l \in Nat /\ m \in Nat /\ InServer \in Nat /\ InRest \in Nat /\ InMesg \in Nat
        /\ InRest = InServer + l /\ n \in 1 .. m /\ BUFSIZE \in Nat /\ InRest + m = BUFSIZE
    BY <1>1, <1>2, <1>3, EchoPositions
  <2>a. /\ toServer = Bytes(InServer, l) /\ rest = Bytes(InServer + l, m)
        /\ toServer' = toServer \o SubSeq(rest, 1, n) /\ rest' = SubSeq(rest, n + 1, m)
        /\ InServer = InMesg + Len(mesg)
    BY <1>1, <1>2, <1>3, EchoPositions
  <2> HIDE DEF l, m
  <2>1. /\ n \in 0 .. m /\ InServer + l \in Nat /\ InServer + (l + n) = InRest + n
        /\ (InRest + n) + (m - n) = BUFSIZE
    BY <2>0, SMT
  <2>2. toServer' = Bytes(InServer, l + n) /\ toServer' \in Seq(Nat) /\ Len(toServer') = l + n
    <3>0. InServer \in Nat /\ l \in Nat /\ m \in Nat /\ n \in 0 .. m
      BY <2>0, <2>1
    <3>1. /\ Bytes(InServer, l) \o SubSeq(Bytes(InServer + l, m), 1, n) = Bytes(InServer, l + n)
          /\ Bytes(InServer, l) \o SubSeq(Bytes(InServer + l, m), 1, n) \in Seq(Nat)
          /\ Len(Bytes(InServer, l) \o SubSeq(Bytes(InServer + l, m), 1, n)) = l + n
      BY <3>0, BytesMove
    <3> QED
      BY <2>a, <3>1
  <2>3. rest' = Bytes(InRest + n, m - n) /\ rest' \in Seq(Nat) /\ Len(rest') = m - n
    <3>0. InRest \in Nat /\ m \in Nat /\ n \in 0 .. m
      BY <2>0, <2>1
    <3>1. /\ SubSeq(Bytes(InRest, m), n + 1, m) = Bytes(InRest + n, m - n)
          /\ SubSeq(Bytes(InRest, m), n + 1, m) \in Seq(Nat)
          /\ Len(SubSeq(Bytes(InRest, m), n + 1, m)) = m - n
      BY <3>0, BytesTake
    <3> QED
      BY <2>0, <2>a, <3>1
  <2>5. Back' = 0
    BY <1>1 DEF Back
  <2>6. InMesg' = InMesg /\ InServer' = InServer /\ InRest' = InRest + n
    BY <1>1, <2>0, <2>a, <2>1, <2>2, <2>5 DEF InMesg, InServer, InRest
  <2>7. EchoTypes'
    <3>1. amtread' \in 0 .. BUFSIZE
      BY <1>1, <2>0, SMT
    <3>2. echo_pc' \in {"read", "write"}
      BY <1>3
    <3> QED
      BY <1>1, <2>2, <2>3, <3>1, <3>2, ZenonT(30) DEF EchoTypes
  <2>8. InRest' + Len(rest') = BUFSIZE /\ InRest' + Len(rest') <= BUFSIZE
    BY <2>0, <2>1, <2>3, <2>6, SMTT(30)
  <2>9. rest' = <<>> \/ echo_pc' = "write"
    BY <1>3
  <2>10. echo_pc' \in {"read", "write"}
    BY <1>3
  <2> QED
    BY <1>1, <1>2, <2>9, <2>10, <2>2, <2>3, <2>5, <2>6, <2>7, <2>8, ZenonT(30) DEF EchoInv
<1>4. CASE server = "dead" /\ echo_pc' = "exit" /\ UNCHANGED <<toServer, rest>>
  <2>1. EchoTypes'
    <3>1. amtread' \in 0 .. BUFSIZE
      BY <1>1, EchoPositions, SMT
    <3> QED
      BY <1>1, <1>4, <3>1 DEF EchoTypes
  <2> QED
    BY <1>1, <1>4, <2>1, ZenonT(30) DEF EchoInv
<1>5. ASSUME NEW n \in 1 .. Len(rest), server = "dead", toServer' = toServer,
             rest' = SubSeq(rest, n + 1, Len(rest)),
             echo_pc' = IF rest' = <<>> THEN "read" ELSE "write"
      PROVE  EchoInv'
  <2> DEFINE m == Len(rest)
  <2>0. m \in Nat /\ n \in 1 .. m /\ BUFSIZE \in Nat /\ InRest \in Nat /\ InRest + m <= BUFSIZE
        /\ rest \in Seq(Nat)
    BY <1>1, <1>2, EchoPositions DEF EchoTypes
  <2>1. rest' \in Seq(Nat) /\ Len(rest') \in Nat /\ Len(rest') <= m
    <3>1. \A j \in n + 1 .. Len(rest) : rest[j] \in Nat
      BY <2>0, SMT
    <3>2. n + 1 \in Int /\ Len(rest) \in Int
      BY <2>0, SMT
    <3>3. rest' \in Seq(Nat) /\ Len(rest') = IF n + 1 <= m THEN m - (n + 1) + 1 ELSE 0
      BY <1>5, <2>0, <3>1, <3>2, SeqCut, SMT
    <3> HIDE DEF m
    <3> QED
      BY <2>0, <3>3, SMT
  <2>2. echo_pc' \in {"read", "write"} /\ (rest' = <<>> \/ echo_pc' = "write")
    BY <1>5
  <2>3. Back' = 0 /\ amtread' \in 0 .. BUFSIZE
    BY <1>1, <2>0, SMT DEF Back
  <2>4. InMesg' = InMesg /\ InServer' = InServer /\ InRest' = InRest
    BY <1>1, <1>5, <2>3 DEF InMesg, InServer, InRest
  <2>5. EchoTypes'
    BY <1>1, <1>5, <2>1, <2>2, <2>3 DEF EchoTypes
  <2>6. InRest' + Len(rest') <= BUFSIZE
    <3> HIDE DEF m
    <3> QED
      BY <2>0, <2>1, <2>4, SMT
  <2> HIDE DEF m
  <2> QED
    BY <1>1, <1>2, <1>5, <2>2, <2>3, <2>4, <2>5, <2>6 DEF EchoInv
<1> QED
  BY <1>1, <1>3, <1>4, <1>5 DEF Echo!Write

\* A read puts the front of the stream where it came from.
LEMMA doReadEchoInv == EchoInv /\ Echo!doRead => EchoInv'
<1> SUFFICES ASSUME EchoInv, Echo!doRead PROVE EchoInv'
  OBVIOUS
<1>1. /\ EchoTypes /\ echo_pc = "read" /\ rest = <<>>
      /\ UNCHANGED <<rest, toServer, mesg, server>>
      /\ server = "recv" => mesg = <<>>
      /\ Back = amtread /\ echo_i < NOREQUESTS
  BY DEF EchoInv, Echo!doRead, Back
<1>2. /\ toClient = Bytes(amtread, Len(toClient)) /\ mesg = Bytes(InMesg, Len(mesg))
      /\ toServer = Bytes(InServer, Len(toServer)) /\ InRest + Len(rest) <= BUFSIZE
      /\ server # "dead" => rest = Bytes(InRest, Len(rest)) /\ InRest + Len(rest) = BUFSIZE
  BY <1>1 DEF EchoInv
<1>3. CASE server = "dead" /\ echo_pc' = "exit" /\ UNCHANGED <<iobuf, echo_i, amtread, toClient>>
  <2>1. EchoTypes'
    BY <1>1, <1>3 DEF EchoTypes
  <2> QED
    BY <1>1, <1>3, <2>1 DEF EchoInv
<1>4. ASSUME ~(server = "dead" /\ echo_pc' = "exit" /\ UNCHANGED <<iobuf, echo_i, amtread, toClient>>)
      PROVE  EchoInv'
  <2>3. PICK n \in 0 .. Len(toClient) :
          /\ n <= BUFSIZE - amtread
          /\ iobuf' = [k \in 1 .. BUFSIZE |->
                         IF k \in amtread + 1 .. amtread + n THEN toClient[k - amtread] ELSE iobuf[k]]
          /\ toClient' = SubSeq(toClient, n + 1, Len(toClient))
          /\ amtread' = amtread + n
          /\ IF Echo!ReadComplete(n) THEN echo_pc' = "loop" /\ echo_i' = echo_i + 1
             ELSE UNCHANGED <<echo_pc, echo_i>>
    BY <1>4 DEF Echo!doRead, Echo!bpt
  <2> DEFINE l == Len(toClient)
  <2>a. /\ l \in Nat /\ n \in 0 .. l /\ BUFSIZE \in Nat /\ NOREQUESTS \in Nat
        /\ amtread \in 0 .. BUFSIZE /\ InMesg = amtread + l
        /\ toClient = Bytes(amtread, l) /\ toClient' = SubSeq(toClient, n + 1, l)
    BY <1>1, <1>2, <2>3, EchoPositions DEF EchoTypes
  <2>4. l \in Nat /\ n \in 0 .. l /\ n \in Nat /\ l - n \in Nat /\ amtread \in Nat
        /\ amtread + n \in Nat /\ BUFSIZE \in Nat /\ NOREQUESTS \in Nat
        /\ InMesg = amtread + l
    <3> HIDE DEF l
    <3> QED
      BY <2>a, SMT
  <2>5. iobuf' = iobuf
    <3>1. \A k \in 1 .. l : toClient[k] = amtread + k
      <4> HIDE DEF l
      <4> QED
        BY <2>a, <2>4, BytesAreSeq
    <3>2. iobuf = [k \in 1 .. BUFSIZE |-> 0 + k]
      BY <1>1 DEF EchoTypes, Bytes
    <3>3. ASSUME NEW k \in 1 .. BUFSIZE PROVE iobuf'[k] = iobuf[k]
      <4> HIDE DEF l
      <4>1. CASE k \in amtread + 1 .. amtread + n
        <5>1. k - amtread \in 1 .. l /\ amtread + (k - amtread) = 0 + k
          BY <2>4, <4>1, SMT
        <5>2. toClient[k - amtread] = 0 + k
          BY <3>1, <5>1
        <5> QED
          BY <2>3, <3>2, <4>1, <5>2
      <4>2. CASE ~(k \in amtread + 1 .. amtread + n)
        BY <2>3, <4>2
      <4> QED
        BY <4>1, <4>2
    <3> QED
      BY <2>3, <3>2, <3>3
  <2>7. toClient' = Bytes(amtread + n, l - n) /\ toClient' \in Seq(Nat) /\ Len(toClient') = l - n
    <3> HIDE DEF l
    <3> QED
      <4>1. /\ SubSeq(Bytes(amtread, l), n + 1, l) = Bytes(amtread + n, l - n)
            /\ SubSeq(Bytes(amtread, l), n + 1, l) \in Seq(Nat)
            /\ Len(SubSeq(Bytes(amtread, l), n + 1, l)) = l - n
        <5>1. amtread \in Nat /\ l \in Nat /\ n \in 0 .. l
          BY <2>4
        <5> QED
          BY <5>1, BytesTake
      <4> QED
        BY <2>a, <4>1
  <2>8. CASE Echo!ReadComplete(n)
    <3>1. amtread + n = BUFSIZE
      BY <2>3, <2>4, <2>8, SMT DEF Echo!ReadComplete
    <3>2. /\ InMesg \in Nat /\ InServer \in Nat /\ InRest \in Nat
          /\ Len(mesg) \in Nat /\ Len(toServer) \in Nat /\ Len(rest) \in Nat
          /\ InServer = InMesg + Len(mesg) /\ InRest = InServer + Len(toServer)
      BY <1>1, EchoPositions
    <3>a. InRest <= BUFSIZE
      BY <1>2, <2>4, <3>2, SMTT(30)
    <3>3. Len(toClient') = 0 /\ Len(mesg) = 0 /\ Len(toServer) = 0
      <4> HIDE DEF l
      <4>1. Len(toClient') = l - n
        BY <2>7
      <4> QED
        BY <2>4, <3>1, <3>2, <3>a, <4>1, SMT
    <3>4. toClient' = <<>> /\ mesg' = <<>> /\ toServer' = <<>>
      BY <1>1, <2>7, <3>3, SeqEmpty DEF EchoTypes
    <3>5. echo_pc' = "loop" /\ echo_i' \in 0 .. NOREQUESTS
      BY <1>1, <2>3, <2>4, <2>8, SMTT(30) DEF EchoTypes
    <3>6. amtread' \in 0 .. BUFSIZE
      BY <2>3, <2>4, SMT
    <3>7. EchoTypes'
      BY <1>1, <2>5, <2>7, <3>5, <3>6 DEF EchoTypes
    <3> QED
      BY <1>1, <3>4, <3>5, <3>7 DEF EchoInv
  <2>9. CASE ~Echo!ReadComplete(n)
    <3>1. echo_pc' = "read" /\ echo_i' = echo_i /\ amtread' = amtread + n
      BY <1>1, <2>3, <2>9
    <3>2. amtread' \in 0 .. BUFSIZE
      BY <2>3, <2>4, SMT
    <3>3. EchoTypes'
      BY <1>1, <2>5, <2>7, <3>1, <3>2 DEF EchoTypes
    <3>4. Back' = amtread + n
      BY <3>1 DEF Back
    <3>5. InMesg' = InMesg
      BY <2>4, <2>7, <3>4, SMTT(30) DEF InMesg
    <3>6. InServer' = InServer /\ InRest' = InRest
      BY <1>1, <3>5 DEF InServer, InRest
    <3> HIDE DEF l
    <3> QED
      BY <1>1, <1>2, <2>7, <3>1, <3>3, <3>4, <3>5, <3>6 DEF EchoInv
  <2> QED
    BY <2>8, <2>9
<1> QED
  BY <1>3, <1>4

\* recvfrom takes the front of the stream to the server into an empty mesg.
LEMMA recvfromEchoInv == EchoInv /\ Echo!recvfrom => EchoInv'
<1> SUFFICES ASSUME EchoInv, Echo!recvfrom PROVE EchoInv'
  OBVIOUS
<1>1. /\ EchoTypes /\ mesg = <<>> /\ server' = "send" /\ server = "recv"
      /\ UNCHANGED <<iobuf, echo_i, rest, amtread, echo_pc, toClient>>
      /\ Len(mesg) = 0
  BY DEF EchoInv, Echo!recvfrom, Echo!client
<1> DEFINE l == Len(toServer)
           n == echo_n'
<1>0. CASE n <= 0
  <2>1. echo_pc \in {"ok", "exit"} /\ n \in {0, -1}
    BY <1>0, <1>1, EchoPositions, SMTT(30) DEF Echo!recvfrom, Echo!ClientGone
  <2>2. toServer' = toServer /\ mesg' = SubSeq(toServer, 1, n)
    <3>1. /\ mesg' = SubSeq(toServer, 1, n)
          /\ toServer' = IF n > 0 THEN SubSeq(toServer, n + 1, Len(toServer)) ELSE toServer
      BY DEF Echo!recvfrom
    <3>2. ~(n > 0)
      BY <2>1, SMT
    <3> QED
      BY <3>1, <3>2
  <2>3. mesg' = <<>>
    <3>1. toServer \in Seq(Nat) /\ 1 \in Int /\ n \in Int /\ ~(1 <= n)
      BY <1>1, <2>1, SMT DEF EchoTypes
    <3>2. \A k \in 1 .. n : toServer[k] \in Nat
      BY <3>1, SMT
    <3>3. mesg' \in Seq(Nat) /\ Len(mesg') = 0
      BY <2>2, <3>1, <3>2, SeqCut, SMT
    <3> QED
      BY <3>3, SeqEmpty
  <2>4. EchoTypes'
    BY <1>1, <2>2, <2>3 DEF EchoTypes
  <2> QED
    BY <1>1, <2>1, <2>2, <2>3, <2>4 DEF EchoInv
<1> SUFFICES ASSUME ~(n <= 0) PROVE EchoInv'
  BY <1>0
<1>2. /\ n \in 1 .. Len(toServer)
      /\ mesg' = SubSeq(toServer, 1, n) /\ toServer' = SubSeq(toServer, n + 1, Len(toServer))
  <2>1. /\ n \in -1 .. MESG /\ (n \in 1 .. Len(toServer) \/ n = 0 \/ n = -1)
        /\ mesg' = SubSeq(toServer, 1, n)
        /\ toServer' = IF n > 0 THEN SubSeq(toServer, n + 1, Len(toServer)) ELSE toServer
    BY DEF Echo!recvfrom
  <2>2. MESG \in Nat
    BY ProgramsAssumption DEF Echo!EchoAssumption
  <2>3. n > 0 /\ n \in 1 .. Len(toServer)
    <3> HIDE DEF n
    <3> QED
      BY <2>1, <2>2, SMT
  <2> QED
    BY <2>1, <2>3
<1> HIDE DEF n
<1>3. /\ l \in Nat /\ InMesg \in Nat /\ InServer = InMesg + Len(mesg) /\ InRest = InServer + l
      /\ Back \in Nat
  BY <1>1, EchoPositions
<1>4. n \in 0 .. l /\ l - n \in Nat /\ InServer = InMesg /\ InServer \in Nat /\ n \in Nat /\ l # 0
  <2>1. n \in 1 .. l
    BY <1>2
  <2> HIDE DEF l
  <2> QED
    BY <1>1, <1>3, <2>1, SMT
<1>5. CASE echo_pc \in {"write", "read"}
  <2>1. /\ toClient = Bytes(Back, Len(toClient)) /\ toServer = Bytes(InMesg, l)
        /\ rest = Bytes(InRest, Len(rest)) /\ InRest + Len(rest) = BUFSIZE
        /\ InRest + Len(rest) <= BUFSIZE /\ echo_i < NOREQUESTS
    BY <1>1, <1>4, <1>5 DEF EchoInv
  <2>2. /\ mesg' = Bytes(InMesg, n) /\ mesg' \in Seq(Nat) /\ Len(mesg') = n
        /\ toServer' = Bytes(InMesg + n, l - n) /\ toServer' \in Seq(Nat) /\ Len(toServer') = l - n
    <3> DEFINE s == Bytes(InMesg, l)
    <3> HIDE DEF l
    <3>a. InMesg \in Nat /\ l \in Nat /\ n \in 0 .. l
      BY <1>3, <1>4
    <3>1. /\ SubSeq(s, 1, n) = Bytes(InMesg, n) /\ SubSeq(s, 1, n) \in Seq(Nat)
          /\ Len(SubSeq(s, 1, n)) = n
          /\ SubSeq(s, n + 1, l) = Bytes(InMesg + n, l - n) /\ SubSeq(s, n + 1, l) \in Seq(Nat)
          /\ Len(SubSeq(s, n + 1, l)) = l - n
      BY <3>a, BytesTake, ZenonT(30)
    <3>2. mesg' = SubSeq(s, 1, n) /\ toServer' = SubSeq(s, n + 1, l)
      BY <1>2, <2>1 DEF l
    <3> QED
      BY <3>1, <3>2
  <2>3. EchoTypes'
    BY <1>1, <2>2 DEF EchoTypes
  <2>a. Back' = Back
    <3>1. echo_pc' = echo_pc /\ amtread' = amtread
      BY <1>1
    <3> QED
      BY <3>1 DEF Back
  <2>4. InMesg' = InMesg
    BY <1>1, <2>a DEF InMesg
  <2>5. InServer' = InMesg + n
    BY <2>2, <2>4 DEF InServer
  <2>6. InRest' = InRest
    <3>1. InRest' = (InMesg + n) + (l - n)
      BY <2>2, <2>5 DEF InRest
    <3> HIDE DEF l
    <3> QED
      BY <1>3, <1>4, <3>1, SMT
  <2> HIDE DEF l
  <2>7. /\ toClient' = Bytes(Back', Len(toClient')) /\ mesg' = Bytes(InMesg', Len(mesg'))
        /\ toServer' = Bytes(InServer', Len(toServer')) /\ rest' = Bytes(InRest', Len(rest'))
        /\ InRest' + Len(rest') = BUFSIZE /\ InRest' + Len(rest') <= BUFSIZE
        /\ echo_i' < NOREQUESTS
    BY <1>1, <2>1, <2>2, <2>a, <2>4, <2>5, <2>6
  <2>8. (echo_pc = "read" => rest = <<>>) /\ echo_pc' = echo_pc /\ rest' = rest
    BY <1>1 DEF EchoInv
  <2> QED
    BY <1>1, <1>5, <2>3, <2>7, <2>8 DEF EchoInv
<1>6. CASE echo_pc = "exit"
  <2>1. mesg' \in Seq(Nat) /\ toServer' \in Seq(Nat)
    <3>1. toServer \in Seq(Nat)
      BY <1>1 DEF EchoTypes
    <3>2. \A k \in 1 .. Len(toServer) : toServer[k] \in Nat
      BY <3>1, SMT
    <3> QED
      BY <1>2, <1>3, <1>4, <3>1, <3>2, SeqCut, SMTT(30)
  <2>2. EchoTypes'
    BY <1>1, <2>1 DEF EchoTypes
  <2> QED
    BY <1>1, <1>6, <2>2 DEF EchoInv
<1>7. CASE echo_pc \in {"loop", "ok"}
  <2>1. l = 0
    BY <1>7, SMT DEF EchoInv
  <2> QED
    BY <1>4, <2>1
<1> QED
  BY <1>1, <1>5, <1>6, <1>7 DEF EchoTypes

\* sendto moves the front of mesg to the back of the stream to the client.
LEMMA sendtoEchoInv == EchoInv /\ Echo!sendto => EchoInv'
<1> SUFFICES ASSUME EchoInv, Echo!sendto PROVE EchoInv'
  OBVIOUS
<1>1. /\ EchoTypes /\ server = "send"
      /\ UNCHANGED <<iobuf, echo_i, rest, amtread, echo_pc, toServer>>
  BY DEF EchoInv, Echo!sendto, Echo!client
<1>0. CASE mesg = <<>> /\ UNCHANGED <<toClient, mesg>>
  <2>1. EchoTypes'
    BY <1>0, <1>1 DEF EchoTypes
  <2>2. Back' = Back /\ InMesg' = InMesg /\ InServer' = InServer /\ InRest' = InRest
    BY <1>0, <1>1 DEF Back, InMesg, InServer, InRest
  <2> QED
    BY <1>0, <1>1, <2>1, <2>2 DEF EchoInv
<1> SUFFICES ASSUME ~(mesg = <<>> /\ UNCHANGED <<toClient, mesg>>) PROVE EchoInv'
  BY <1>0
<1>2. PICK n \in 1 .. Len(mesg) :
        /\ toClient' = toClient \o SubSeq(mesg, 1, n)
        /\ mesg' = SubSeq(mesg, n + 1, Len(mesg))
        /\ server' \in IF mesg' = <<>> THEN Echo!Terminated ELSE {"send"}
  BY DEF Echo!sendto
<1> DEFINE l == Len(toClient)
           m == Len(mesg)
<1>3. /\ l \in Nat /\ m \in Nat /\ InMesg = Back + l /\ InServer = InMesg + m
      /\ Back \in Nat /\ n \in 1 .. m
  BY <1>1, EchoPositions
<1>4. /\ n \in 0 .. m /\ m - n \in Nat /\ l + n \in Nat /\ InMesg \in Nat /\ m # 0
      /\ InMesg + n = Back + (l + n) /\ (InMesg + n) + (m - n) = InServer /\ InMesg + n \in Nat
  <2> HIDE DEF l, m
  <2> QED
    BY <1>3, SMT
<1>5. server' = "recv" => mesg' = <<>>
  BY <1>2
<1>6. CASE echo_pc \in {"write", "read"}
  <2>1. /\ toClient = Bytes(Back, l) /\ mesg = Bytes(InMesg, m)
        /\ toServer = Bytes(InServer, Len(toServer))
        /\ rest = Bytes(InRest, Len(rest)) /\ InRest + Len(rest) = BUFSIZE
        /\ InRest + Len(rest) <= BUFSIZE /\ echo_i < NOREQUESTS
    BY <1>1, <1>6 DEF EchoInv
  <2>2. toClient' = Bytes(Back, l + n) /\ toClient' \in Seq(Nat) /\ Len(toClient') = l + n
    <3> DEFINE s == Bytes(Back, l) \o SubSeq(Bytes(Back + l, m), 1, n)
    <3>1. toClient' = s
      BY <1>2, <1>3, <2>1
    <3> HIDE DEF l, m
    <3>2. Back \in Nat /\ l \in Nat /\ m \in Nat /\ n \in 0 .. m
      BY <1>3, <1>4
    <3>3. s = Bytes(Back, l + n) /\ s \in Seq(Nat) /\ Len(s) = l + n
      BY <3>2, BytesMove, ZenonT(30)
    <3> QED
      BY <3>1, <3>3
  <2>3. mesg' = Bytes(InMesg + n, m - n) /\ mesg' \in Seq(Nat) /\ Len(mesg') = m - n
    <3> DEFINE t == SubSeq(Bytes(InMesg, m), n + 1, m)
    <3>1. mesg' = t
      BY <1>2, <2>1
    <3> HIDE DEF m
    <3>a. InMesg \in Nat /\ m \in Nat /\ n \in 0 .. m
      BY <1>3, <1>4
    <3>2. t = Bytes(InMesg + n, m - n) /\ t \in Seq(Nat) /\ Len(t) = m - n
      BY <3>a, BytesTake
    <3> QED
      BY <3>1, <3>2
  <2>4. EchoTypes'
    BY <1>1, <2>2, <2>3 DEF EchoTypes
  <2>5. Back' = Back
    BY <1>1 DEF Back
  <2>6. InMesg' = InMesg + n
    BY <1>4, <2>2, <2>5 DEF InMesg
  <2>7. InServer' = InServer
    BY <1>4, <2>3, <2>6 DEF InServer
  <2>8. InRest' = InRest
    BY <1>1, <2>7 DEF InRest
  <2> HIDE DEF l, m
  <2>9. /\ toClient' = Bytes(Back', Len(toClient')) /\ mesg' = Bytes(InMesg', Len(mesg'))
        /\ toServer' = Bytes(InServer', Len(toServer')) /\ rest' = Bytes(InRest', Len(rest'))
        /\ InRest' + Len(rest') = BUFSIZE /\ InRest' + Len(rest') <= BUFSIZE
        /\ echo_i' < NOREQUESTS
    BY <1>1, <2>1, <2>2, <2>3, <2>5, <2>6, <2>7, <2>8
  <2>10. (echo_pc = "read" => rest = <<>>) /\ echo_pc' = echo_pc /\ rest' = rest
    BY <1>1 DEF EchoInv
  <2> QED
    BY <1>1, <1>5, <1>6, <2>4, <2>9, <2>10 DEF EchoInv
<1>7. CASE echo_pc = "exit"
  <2>1. toClient' \in Seq(Nat) /\ mesg' \in Seq(Nat)
    <3>1. mesg \in Seq(Nat) /\ toClient \in Seq(Nat)
      BY <1>1 DEF EchoTypes
    <3>2. \A k \in 1 .. Len(mesg) : mesg[k] \in Nat
      BY <3>1, SMT
    <3>3. SubSeq(mesg, 1, n) \in Seq(Nat) /\ mesg' \in Seq(Nat)
      <4>1. n \in 1 .. Len(mesg) /\ Len(mesg) \in Nat
        BY <1>3
      <4>2. (\A k \in 1 .. n : mesg[k] \in Nat) /\ (\A k \in n + 1 .. Len(mesg) : mesg[k] \in Nat)
        BY <3>2, <4>1, SMT
      <4> QED
        BY <1>2, <3>1, <4>1, <4>2, SeqCut, SMT
    <3> QED
      BY <1>2, <3>1, <3>3, SeqJoin
  <2>2. EchoTypes'
    BY <1>1, <2>1 DEF EchoTypes
  <2> QED
    BY <1>1, <1>5, <1>7, <2>2 DEF EchoInv
<1>8. CASE echo_pc \in {"loop", "ok"}
  <2>1. m = 0
    BY <1>8, SMT DEF EchoInv
  <2> QED
    BY <1>4, <2>1
<1> QED
  BY <1>1, <1>6, <1>7, <1>8 DEF EchoTypes

\* Every step keeps the invariant.
LEMMA EchoStep == EchoInv /\ [Echo!Next]_(Echo!vars) => EchoInv'
<1> SUFFICES ASSUME EchoInv, [Echo!Next]_(Echo!vars) PROVE EchoInv'
  OBVIOUS
<1>1. CASE Echo!Die
  <2>1. UNCHANGED <<iobuf, echo_i, rest, amtread, echo_pc, toServer, toClient, mesg>> /\ server' = "dead"
    BY <1>1 DEF Echo!Die, Echo!client
  <2>2. EchoTypes'
    BY <2>1 DEF EchoInv, EchoTypes
  <2>3. Back' = Back /\ InMesg' = InMesg /\ InServer' = InServer /\ InRest' = InRest
    BY <2>1 DEF Back, InMesg, InServer, InRest
  <2> QED
    BY <2>1, <2>2, <2>3 DEF EchoInv
<1>2. CASE UNCHANGED Echo!vars
  BY <1>2 DEF Echo!vars, EchoInv, EchoTypes, Back, InMesg, InServer, InRest
<1> QED
  BY <1>1, <1>2, echoTestEchoInv, WriteEchoInv, doReadEchoInv, recvfromEchoInv, sendtoEchoInv
     DEF Echo!Next

\* The parts, one after the other, are the buffer.
LEMMA EchoInvMeans == EchoInv => NothingLost
<1> SUFFICES ASSUME EchoInv PROVE NothingLost
  OBVIOUS
<1>1. EchoTypes /\ (echo_pc = "ok" => echo_i = NOREQUESTS /\ toServer = <<>> /\ toClient = <<>> /\ mesg = <<>>)
  BY DEF EchoInv
<1>2. BUFSIZE \in Nat /\ Bytes(0, BUFSIZE) = Echo!fillBuf
  BY <1>1, EchoPositions, SMT DEF Bytes, Echo!fillBuf
<1>3. iobuf = Echo!fillBuf
  BY <1>1, <1>2 DEF EchoTypes
<1>4. ASSUME server # "dead", echo_pc \in {"write", "read"}
      PROVE  (IF echo_pc = "read" THEN SubSeq(Echo!fillBuf, 1, amtread) ELSE <<>>)
                \o toClient \o mesg \o toServer \o rest = Echo!fillBuf
  <2>1. /\ toClient = Bytes(Back, Len(toClient)) /\ mesg = Bytes(InMesg, Len(mesg))
        /\ toServer = Bytes(InServer, Len(toServer)) /\ rest = Bytes(InRest, Len(rest))
        /\ InRest + Len(rest) = BUFSIZE
    BY <1>4 DEF EchoInv
  <2>2. (IF echo_pc = "read" THEN SubSeq(Echo!fillBuf, 1, amtread) ELSE <<>>) = Bytes(0, Back)
    <3>1. CASE echo_pc = "read"
      <4>1. Back = amtread /\ amtread \in 0 .. BUFSIZE /\ 0 \in Nat
        BY <1>1, <3>1 DEF Back, EchoTypes
      <4>2. SubSeq(Bytes(0, BUFSIZE), 1, amtread) = Bytes(0, amtread)
        BY <1>2, <4>1, BytesTake
      <4> QED
        BY <1>2, <3>1, <4>1, <4>2
    <3>2. CASE echo_pc # "read"
      BY <3>2, SMT DEF Back, Bytes
    <3> QED
      BY <3>1, <3>2
  <2>3. ASSUME NEW a \in Nat, NEW n \in Nat PROVE Bytes(0, a) \o Bytes(a, n) = Bytes(0, a + n)
    <3>1. 0 + a = a /\ 0 \in Nat
      BY SMT
    <3>2. Bytes(0, a) \o Bytes(0 + a, n) = Bytes(0, a + n)
      BY <3>1, BytesConcat
    <3> QED
      BY <3>1, <3>2
  <2>4. /\ Bytes(0, Back) \o toClient = Bytes(0, InMesg)
        /\ Bytes(0, InMesg) \o mesg = Bytes(0, InServer)
        /\ Bytes(0, InServer) \o toServer = Bytes(0, InRest)
        /\ Bytes(0, InRest) \o rest = Bytes(0, BUFSIZE)
    <3>1. /\ Back \in Nat /\ InMesg \in Nat /\ InServer \in Nat /\ InRest \in Nat
          /\ Len(toClient) \in Nat /\ Len(mesg) \in Nat /\ Len(toServer) \in Nat /\ Len(rest) \in Nat
          /\ InMesg = Back + Len(toClient) /\ InServer = InMesg + Len(mesg)
          /\ InRest = InServer + Len(toServer)
      BY <1>1, EchoPositions
    <3>2. /\ Bytes(0, Back) \o Bytes(Back, Len(toClient)) = Bytes(0, Back + Len(toClient))
          /\ Bytes(0, InMesg) \o Bytes(InMesg, Len(mesg)) = Bytes(0, InMesg + Len(mesg))
          /\ Bytes(0, InServer) \o Bytes(InServer, Len(toServer)) = Bytes(0, InServer + Len(toServer))
          /\ Bytes(0, InRest) \o Bytes(InRest, Len(rest)) = Bytes(0, InRest + Len(rest))
      BY <2>3, <3>1
    <3> QED
      BY <2>1, <3>1, <3>2
  <2> QED
    BY <1>2, <2>2, <2>4
<1> QED
  BY <1>1, <1>3, <1>4 DEF NothingLost, Echo!NothingLost, Echo!OkMeansAll

\* tcpclient.c and tcpserver.c lose, repeat and reorder nothing, for every
\* buffer, number of requests, size of mesg and room in the streams: echoTest
\* sends the same buffer every time, and reports success only when every one
\* has come back.
THEOREM EveryByteComesBack == Echo!Spec => []NothingLost
<1>1. Echo!Init => EchoInv
  BY EchoStarts
<1>2. EchoInv /\ [Echo!Next]_(Echo!vars) => EchoInv'
  BY EchoStep
<1>3. EchoInv => NothingLost
  BY EchoInvMeans
<1> QED
  BY <1>1, <1>2, <1>3, PTL DEF Echo!Spec

-----------------------------------------------------------------------------
(* The HTTP server over Redis                                              *)

RedisReply == [code : Nat, value : Int]

\* Request k has been replied to with a value; and that value.
ReplyOk(k) == Len(replies[k]) = 1 /\ replies[k][1].code = Redis!HTTP_OK
ValueOf(k) == replies[k][1].value

RedisTypes ==
  /\ redis_pc \in {"idle", "redisConnect", "redisSetTimeout", "redisCommand", "string_format",
                   "free", "crashed"}
  /\ counter \in Nat /\ requests \in Nat
  /\ replies \in Seq(Seq(RedisReply)) /\ Len(replies) = requests

\* The request that is being served has no reply yet before its "free", and the
\* others have one each.
RepliesSoFar ==
  /\ \A k \in 1 .. requests - 1 : Len(replies[k]) = 1
  /\ redis_pc # "idle" => requests > 0
  /\ redis_pc \in {"idle", "free"} /\ requests > 0 => Len(replies[requests]) = 1
  /\ redis_pc \notin {"idle", "free"} => replies[requests] = <<>>

\* What is held outside a connection, and where func's answer is.
NothingHeld ==
  /\ redis_pc = "idle" => ~returnbuffer
  /\ redis_pc \in {"idle", "redisConnect", "crashed"} => redis_c = Redis!NULL
  /\ redis_pc # "string_format" => redis_r = Redis!NoAnswer

\* The values replied increase; the one that Redis has answered is above them.
InOrder ==
  /\ \A k \in 1 .. requests : ReplyOk(k) => ValueOf(k) \in 1 .. counter
  /\ \A j, k \in 1 .. requests : j < k /\ ReplyOk(j) /\ ReplyOk(k) => ValueOf(j) < ValueOf(k)
  /\ redis_r.type = "integer" =>
       \A k \in 1 .. requests : ReplyOk(k) => ValueOf(k) < redis_r.integer

ValuesSoFar ==
  /\ redis_r.type = "integer" => redis_r.integer \in 1 .. counter
  /\ counter <= INT_MAX => InOrder

RedisInv == RedisTypes /\ RepliesSoFar /\ NothingHeld /\ ValuesSoFar

\* %d prints an int as it is, and anything else as some int.
LEMMA IntsArePrinted ==
  ASSUME NEW x \in Nat
  PROVE  Redis!printed(x) \in Int /\ (x <= INT_MAX => Redis!printed(x) = x)
<1> DEFINE z == 2 * (INT_MAX + 1)
           q == x \div z
           low == x % z
<1>1. INT_MAX \in Nat
  BY ProgramsAssumption
<1>2. z \in Nat /\ z > 0 /\ INT_MAX < z
  BY <1>1, SMT
<1> HIDE DEF z
<1>3. q \in Int /\ low \in Int /\ x = z * q + low /\ 0 <= low /\ low < z
  BY <1>2, SMT
<1>4. ASSUME x <= INT_MAX PROVE low = x
  <2> HIDE DEF q, low
  <2>1. q < 1
    <3> SUFFICES ASSUME q >= 1 PROVE FALSE
      BY <1>3, SMT
    <3>1. z * q = z + z * (q - 1) /\ z * (q - 1) >= 0 /\ z * q \in Int
      BY <1>2, <1>3, SMT
    <3> QED
      BY <1>1, <1>2, <1>3, <1>4, <3>1, SMT
  <2>2. q > -1
    <3> SUFFICES ASSUME q <= -1 PROVE FALSE
      BY <1>3, SMT
    <3>1. z * q = z * (q + 1) - z /\ z * (q + 1) <= 0 /\ z * q \in Int
      BY <1>2, <1>3, SMT
    <3> QED
      BY <1>2, <1>3, <3>1, SMT
  <2>3. q = 0
    BY <1>3, <2>1, <2>2, SMT
  <2> QED
    BY <1>2, <1>3, <2>3, SMT
<1>5. Redis!printed(x) = IF low > INT_MAX THEN low - z ELSE low
  BY DEF Redis!printed, z
<1> HIDE DEF q, low
<1> QED
  BY <1>1, <1>2, <1>3, <1>4, <1>5, SMT

\* Before the first request there is nothing.
LEMMA RedisStarts == Redis!Init => RedisInv
<1> SUFFICES ASSUME Redis!Init PROVE RedisInv
  OBVIOUS
<1>1. /\ redis_pc = "idle" /\ redis_c = Redis!NULL /\ redis_r = Redis!NoAnswer /\ returnbuffer = FALSE
      /\ counter = 0 /\ requests = 0 /\ replies = <<>>
  BY DEF Redis!Init
<1>2. redis_r.type # "integer"
  BY <1>1 DEF Redis!NoAnswer, Redis!Answer, Redis!NULL
<1>3. RedisTypes
  BY <1>1, SMT DEF RedisTypes
<1>4. RepliesSoFar
  BY <1>1, SMT DEF RepliesSoFar
<1>5. NothingHeld
  BY <1>1 DEF NothingHeld
<1>6. ValuesSoFar
  BY <1>1, <1>2, SMT DEF ValuesSoFar, InOrder
<1> QED
  BY <1>3, <1>4, <1>5, <1>6 DEF RedisInv

\* A step that replies nothing keeps the order of the values.
LEMMA RedisKeeps ==
  ASSUME RedisTypes, ValuesSoFar, UNCHANGED <<requests, replies>>, counter' \in Nat, counter <= counter',
         redis_r' = redis_r \/ redis_r'.type # "integer"
  PROVE  ValuesSoFar'
<1>1. \A k \in 1 .. requests : (ReplyOk(k)' <=> ReplyOk(k)) /\ ValueOf(k)' = ValueOf(k)
  BY DEF ReplyOk, ValueOf
<1>2. counter \in Nat /\ requests' = requests
  BY DEF RedisTypes
<1>3. \A v : v \in 1 .. counter => v \in 1 .. counter'
  BY <1>2, SMT
<1>4. ASSUME redis_r'.type = "integer" PROVE redis_r' = redis_r /\ redis_r'.integer \in 1 .. counter'
  <2>1. redis_r' = redis_r
    BY <1>4
  <2> QED
    BY <1>3, <1>4, <2>1 DEF ValuesSoFar
<1>5. ASSUME counter' <= INT_MAX PROVE InOrder'
  <2>1. INT_MAX \in Nat
    BY ProgramsAssumption
  <2>2. counter <= INT_MAX
    BY <1>2, <1>5, <2>1, SMT
  <2>3. InOrder
    BY <2>2 DEF ValuesSoFar
  <2>4. \A k \in 1 .. requests' : ReplyOk(k)' => ValueOf(k)' \in 1 .. counter'
    BY <1>1, <1>2, <1>3, <2>3 DEF InOrder
  <2>5. \A j, k \in 1 .. requests' : j < k /\ ReplyOk(j)' /\ ReplyOk(k)' => ValueOf(j)' < ValueOf(k)'
    BY <1>1, <1>2, <2>3 DEF InOrder
  <2>6. ASSUME redis_r'.type = "integer"
        PROVE  \A k \in 1 .. requests' : ReplyOk(k)' => ValueOf(k)' < redis_r'.integer
    BY <1>1, <1>2, <1>4, <2>3, <2>6 DEF InOrder
  <2> QED
    BY <2>4, <2>5, <2>6 DEF InOrder
<1> QED
  BY <1>4, <1>5 DEF ValuesSoFar

\* evhttp_send_reply: the request has its reply, and a value it carries is
\* above those before it.
LEMMA RedisSends ==
  ASSUME RedisInv, redis_pc \notin {"idle", "free"}, NEW code \in Nat, NEW value \in Int,
         Redis!send_reply(code, value), UNCHANGED <<requests, counter>>,
         redis_pc' = "free", redis_r' = Redis!NoAnswer,
         code = Redis!HTTP_OK => redis_r.type = "integer" /\ value = Redis!printed(redis_r.integer)
  PROVE  RedisInv'
<1> DEFINE reply == [code |-> code, value |-> value]
           first == Append(<<>>, reply)
<1>1. /\ requests \in Nat /\ requests > 0 /\ requests \in 1 .. Len(replies) /\ replies[requests] = <<>>
      /\ replies \in Seq(Seq(RedisReply)) /\ Len(replies) = requests /\ counter \in Nat
  BY SMT DEF RedisInv, RedisTypes, RepliesSoFar
<1>2. reply \in RedisReply /\ reply.code = code /\ reply.value = value
  BY DEF RedisReply
<1>3. first \in Seq(RedisReply) /\ Len(first) = 1 /\ first[1] = reply
  <2> HIDE DEF reply
  <2> QED
    BY <1>2, SMT
<1>4. replies' = [replies EXCEPT ![requests] = first]
  BY <1>1 DEF Redis!send_reply
<1> HIDE DEF first, reply
<1>5. /\ replies' \in Seq(Seq(RedisReply)) /\ Len(replies') = Len(replies)
      /\ \A j \in 1 .. Len(replies) : replies'[j] = IF j = requests THEN first ELSE replies[j]
  <2> DEFINE T == Seq(RedisReply)
  <2>1. replies \in Seq(T) /\ requests \in 1 .. Len(replies) /\ first \in T
    BY <1>1, <1>3
  <2> HIDE DEF T
  <2>2. /\ [replies EXCEPT ![requests] = first] \in Seq(T)
        /\ Len([replies EXCEPT ![requests] = first]) = Len(replies)
        /\ \A j \in 1 .. Len(replies) :
             [replies EXCEPT ![requests] = first][j] = IF j = requests THEN first ELSE replies[j]
    BY <2>1, SeqUpdate, SMT
  <2> QED
    BY <1>4, <2>2 DEF T
<1>a. \A k \in 1 .. requests - 1 : k \in 1 .. requests /\ k # requests
  BY <1>1, SMT
<1>6. /\ requests' = requests /\ counter' = counter /\ replies'[requests] = first
      /\ \A k \in 1 .. requests : k # requests => replies'[k] = replies[k]
      /\ \A k \in 1 .. requests - 1 : k \in 1 .. requests /\ k # requests
  BY <1>1, <1>5, <1>a
<1>7. RedisTypes'
  BY <1>1, <1>5, <1>6 DEF RedisTypes
<1>8. RepliesSoFar'
  <2>1. \A k \in 1 .. requests - 1 : Len(replies'[k]) = 1
    BY <1>6 DEF RedisInv, RepliesSoFar
  <2> QED
    BY <1>1, <1>3, <1>6, <2>1 DEF RepliesSoFar
<1>9. redis_r'.type # "integer"
  BY DEF Redis!NoAnswer, Redis!Answer, Redis!NULL
<1>10. ASSUME NEW k \in 1 .. requests, k # requests
       PROVE  (ReplyOk(k)' <=> ReplyOk(k)) /\ ValueOf(k)' = ValueOf(k)
  BY <1>6, <1>10 DEF ReplyOk, ValueOf
<1>11. ASSUME ReplyOk(requests)'
       PROVE  redis_r.type = "integer" /\ ValueOf(requests)' = Redis!printed(redis_r.integer)
  <2>1. replies'[requests'][1].code = Redis!HTTP_OK
    BY <1>11 DEF ReplyOk
  <2>2. code = Redis!HTTP_OK
    BY <1>2, <1>3, <1>6, <2>1
  <2> QED
    BY <1>2, <1>3, <1>6, <2>2 DEF ValueOf
<1>12. ASSUME counter' <= INT_MAX PROVE InOrder'
  <2>1. InOrder
    BY <1>6, <1>12 DEF RedisInv, ValuesSoFar
  <2>2. redis_r.type = "integer" => redis_r.integer \in 1 .. counter
    BY DEF RedisInv, ValuesSoFar
  <2>3. redis_r.type = "integer" => Redis!printed(redis_r.integer) = redis_r.integer
    <3>1. INT_MAX \in Nat /\ counter <= INT_MAX
      BY <1>6, <1>12, ProgramsAssumption
    <3>2. \A x \in 1 .. counter : x \in Nat /\ x <= INT_MAX
      BY <1>1, <3>1, SMT
    <3> QED
      BY <2>2, <3>2, IntsArePrinted
  <2>4. ASSUME NEW k \in 1 .. requests, ReplyOk(k)' PROVE ValueOf(k)' \in 1 .. counter
    <3>1. CASE k = requests
      <4>1. ReplyOk(requests)' /\ ValueOf(k)' = ValueOf(requests)'
        BY <1>6, <2>4, <3>1
      <4> QED
        BY <1>11, <2>2, <2>3, <4>1
    <3>2. CASE k # requests
      BY <1>10, <2>4, <3>2, <2>1 DEF InOrder
    <3> QED
      BY <3>1, <3>2
  <2>5. ASSUME NEW j \in 1 .. requests, NEW k \in 1 .. requests, j < k, ReplyOk(j)', ReplyOk(k)'
         PROVE  ValueOf(j)' < ValueOf(k)'
    <3>1. j # requests
      BY <1>1, <2>5, SMT
    <3>2. ReplyOk(j) /\ ValueOf(j)' = ValueOf(j)
      BY <1>10, <2>5, <3>1
    <3>3. CASE k = requests
      <4>1. redis_r.type = "integer" /\ ValueOf(k)' = redis_r.integer
        BY <1>6, <1>11, <2>2, <2>3, <2>5, <3>3
      <4> QED
        BY <3>2, <4>1, <2>1 DEF InOrder
    <3>4. CASE k # requests
      <4>1. ReplyOk(k) /\ ValueOf(k)' = ValueOf(k)
        BY <1>10, <2>5, <3>4
      <4> QED
        BY <2>5, <3>2, <4>1, <2>1 DEF InOrder
    <3> QED
      BY <3>3, <3>4
  <2> QED
    BY <1>6, <1>9, <2>4, <2>5 DEF InOrder
<1>14. ValuesSoFar'
  BY <1>9, <1>12 DEF ValuesSoFar
<1>15. NothingHeld'
  BY DEF NothingHeld
<1> QED
  BY <1>7, <1>8, <1>14, <1>15 DEF RedisInv

\* request_handler opens a request with no reply.
LEMMA request_handlerRedisInv == RedisInv /\ Redis!request_handler => RedisInv'
<1> SUFFICES ASSUME RedisInv, Redis!request_handler PROVE RedisInv'
  OBVIOUS
<1>1. /\ redis_pc = "idle" /\ redis_pc' = "redisConnect" /\ requests' = requests + 1
      /\ replies' = Append(replies, <<>>) /\ UNCHANGED <<redis_c, redis_r, counter>>
  BY DEF Redis!request_handler
<1>2. /\ requests \in Nat /\ replies \in Seq(Seq(RedisReply)) /\ Len(replies) = requests /\ counter \in Nat
  BY DEF RedisInv, RedisTypes
<1>3. /\ replies' \in Seq(Seq(RedisReply)) /\ Len(replies') = requests + 1
      /\ \A k \in 1 .. requests : replies'[k] = replies[k]
      /\ replies'[requests + 1] = <<>>
  <2>1. <<>> \in Seq(RedisReply)
    BY SeqEmpty
  <2> QED
    BY <1>1, <1>2, <2>1, SeqAppend, SMT
<1>4. /\ requests + 1 \in Nat /\ requests + 1 > 0 /\ (requests + 1) - 1 = requests
      /\ \A k \in 1 .. requests : k \in 1 .. requests - 1 \/ (k = requests /\ requests > 0)
      /\ \A k \in 1 .. requests + 1 : k \in 1 .. requests \/ k = requests + 1
  BY <1>2, SMT
<1>5. RedisTypes'
  BY <1>1, <1>2, <1>3, <1>4 DEF RedisTypes
<1>6. RepliesSoFar'
  <2>1. \A k \in 1 .. requests : Len(replies[k]) = 1
    BY <1>1, <1>4 DEF RedisInv, RepliesSoFar
  <2>2. \A k \in 1 .. requests' - 1 : Len(replies'[k]) = 1
    BY <1>1, <1>3, <1>4, <2>1
  <2> QED
    BY <1>1, <1>3, <1>4, <2>2 DEF RepliesSoFar
<1>7. NothingHeld'
  BY <1>1 DEF RedisInv, NothingHeld
<1>8. \A k \in 1 .. requests : (ReplyOk(k)' <=> ReplyOk(k)) /\ ValueOf(k)' = ValueOf(k)
  BY <1>3 DEF ReplyOk, ValueOf
<1>9. \A k \in 1 .. requests + 1 : ReplyOk(k)' => k \in 1 .. requests
  <2>1. Len(<<>>) # 1
    BY SMT
  <2> QED
    BY <1>3, <1>4, <2>1 DEF ReplyOk
<1>10. ValuesSoFar'
  <2>1. redis_r'.type # "integer"
    BY <1>1, SMT DEF RedisInv, NothingHeld, Redis!NoAnswer, Redis!Answer, Redis!NULL
  <2>2. ASSUME counter' <= INT_MAX PROVE InOrder'
    <3>1. InOrder
      BY <1>1, <2>2 DEF RedisInv, ValuesSoFar
    <3>2. \A k \in 1 .. requests' : ReplyOk(k)' => ValueOf(k)' \in 1 .. counter'
      BY <1>1, <1>8, <1>9, <3>1 DEF InOrder
    <3>3. \A j, k \in 1 .. requests' : j < k /\ ReplyOk(j)' /\ ReplyOk(k)' => ValueOf(j)' < ValueOf(k)'
      BY <1>1, <1>8, <1>9, <3>1 DEF InOrder
    <3> QED
      BY <2>1, <3>2, <3>3 DEF InOrder
  <2> QED
    BY <2>1, <2>2 DEF ValuesSoFar
<1> QED
  BY <1>5, <1>6, <1>7, <1>10 DEF RedisInv

\* A step within a request that replies nothing.
LEMMA RedisGoesOn ==
  ASSUME RedisInv, UNCHANGED <<requests, replies>>, redis_pc \notin {"idle", "free"},
         redis_pc' \in {"redisSetTimeout", "redisCommand", "crashed"},
         counter' = counter, redis_r' = redis_r, redis_pc # "string_format",
         redis_pc' = "crashed" => redis_pc = "redisConnect" /\ redis_c' = redis_c
  PROVE  RedisInv'
<1>1. counter' \in Nat /\ counter <= counter'
  BY SMT DEF RedisInv, RedisTypes
<1>2. ValuesSoFar'
  BY <1>1, RedisKeeps DEF RedisInv
<1>3. RedisTypes'
  BY <1>1 DEF RedisInv, RedisTypes
<1>4. RepliesSoFar'
  BY DEF RedisInv, RepliesSoFar
<1>5. NothingHeld'
  BY DEF RedisInv, NothingHeld
<1> QED
  BY <1>2, <1>3, <1>4, <1>5 DEF RedisInv

\* redisConnect and redisSetTimeout go on, reply, or never return.
LEMMA ConnectRedisInv ==
  RedisInv /\ (Redis!redisConnect \/ Redis!redisSetTimeout) => RedisInv'
<1> SUFFICES ASSUME RedisInv, Redis!redisConnect \/ Redis!redisSetTimeout PROVE RedisInv'
  OBVIOUS
<1>1. /\ redis_pc \in {"redisConnect", "redisSetTimeout"} /\ UNCHANGED <<redis_r, counter, requests>>
      /\ redis_pc' = "crashed" => redis_pc = "redisConnect" /\ redis_c' = redis_c
      /\ \/ redis_pc' \in {"redisSetTimeout", "redisCommand", "crashed"} /\ UNCHANGED replies
         \/ redis_pc' = "free" /\ Redis!send_reply(Redis!HTTP_SERVUNAVAIL, Redis!NONE)
         \/ redis_pc' = "free" /\ Redis!send_reply(Redis!HTTP_INTERNAL, Redis!NONE)
  BY DEF Redis!redisConnect, Redis!redisSetTimeout
<1>2. redis_r' = Redis!NoAnswer
  BY <1>1 DEF RedisInv, NothingHeld
<1>3. /\ Redis!HTTP_SERVUNAVAIL \in Nat /\ Redis!HTTP_INTERNAL \in Nat /\ Redis!NONE \in Int
      /\ Redis!HTTP_SERVUNAVAIL # Redis!HTTP_OK /\ Redis!HTTP_INTERNAL # Redis!HTTP_OK
  BY SMT DEF Redis!HTTP_SERVUNAVAIL, Redis!HTTP_INTERNAL, Redis!HTTP_OK, Redis!NONE
<1>4. redis_pc \notin {"idle", "free"} /\ redis_pc # "string_format"
  BY <1>1
<1>5. CASE redis_pc' \in {"redisSetTimeout", "redisCommand", "crashed"} /\ UNCHANGED replies
  BY <1>1, <1>4, <1>5, RedisGoesOn
<1>6. CASE redis_pc' = "free" /\ Redis!send_reply(Redis!HTTP_SERVUNAVAIL, Redis!NONE)
  BY <1>1, <1>2, <1>3, <1>4, <1>6, RedisSends
<1>7. CASE redis_pc' = "free" /\ Redis!send_reply(Redis!HTTP_INTERNAL, Redis!NONE)
  BY <1>1, <1>2, <1>3, <1>4, <1>7, RedisSends
<1> QED
  BY <1>1, <1>5, <1>6, <1>7

\* An answer of Redis carries a value that no reply has carried.
LEMMA redisCommandRedisInv == RedisInv /\ Redis!redisCommand => RedisInv'
<1> SUFFICES ASSUME RedisInv, Redis!redisCommand PROVE RedisInv'
  OBVIOUS
<1>1. /\ redis_pc = "redisCommand" /\ redis_pc' = "string_format"
      /\ UNCHANGED <<redis_c, returnbuffer, requests, replies>>
      /\ \/ counter' = counter + 1 /\ redis_r' \in {Redis!Answer("integer", counter + 1), Redis!NoAnswer}
         \/ redis_r' \in {Redis!Answer("error", Redis!NONE), Redis!NoAnswer} /\ counter' = counter
  BY DEF Redis!redisCommand
<1>2. counter \in Nat /\ counter' \in Nat /\ counter <= counter' /\ counter' \in {counter, counter + 1}
  BY <1>1, SMT DEF RedisInv, RedisTypes
<1>3. RedisTypes'
  BY <1>1, <1>2 DEF RedisInv, RedisTypes
<1>4. RepliesSoFar'
  BY <1>1 DEF RedisInv, RepliesSoFar
<1>5. NothingHeld'
  BY <1>1 DEF NothingHeld
<1>6. CASE redis_r'.type # "integer"
  <2>1. ValuesSoFar'
    BY <1>1, <1>2, <1>6, RedisKeeps DEF RedisInv
  <2> QED
    BY <1>3, <1>4, <1>5, <2>1 DEF RedisInv
<1>7. CASE redis_r'.type = "integer"
  <2>1. counter' = counter + 1 /\ redis_r'.integer = counter + 1
    <3>1. Redis!Answer("error", Redis!NONE).type # "integer" /\ Redis!NoAnswer.type # "integer"
      BY DEF Redis!NoAnswer, Redis!Answer, Redis!NULL
    <3>2. Redis!Answer("integer", counter + 1).integer = counter + 1
      BY DEF Redis!Answer
    <3> QED
      BY <1>1, <1>7, <3>1, <3>2
  <2>3. \A k \in 1 .. requests : (ReplyOk(k)' <=> ReplyOk(k)) /\ ValueOf(k)' = ValueOf(k)
    BY <1>1 DEF ReplyOk, ValueOf
  <2>4. \A v \in 1 .. counter : v \in 1 .. counter + 1 /\ v < counter + 1
    BY <1>2, SMT
  <2>5. counter + 1 \in 1 .. counter + 1
    BY <1>2, SMT
  <2>6. requests' = requests
    BY <1>1
  <2>7. ASSUME counter' <= INT_MAX PROVE InOrder'
    <3>1. INT_MAX \in Nat
      BY ProgramsAssumption
    <3>2. counter <= INT_MAX
      BY <1>2, <2>7, <3>1, SMT
    <3>3. InOrder
      BY <3>2 DEF RedisInv, ValuesSoFar
    <3>4. \A k \in 1 .. requests' : ReplyOk(k)' => ValueOf(k)' \in 1 .. counter' /\ ValueOf(k)' < redis_r'.integer
      BY <2>1, <2>3, <2>4, <2>6, <3>3 DEF InOrder
    <3>5. \A j, k \in 1 .. requests' : j < k /\ ReplyOk(j)' /\ ReplyOk(k)' => ValueOf(j)' < ValueOf(k)'
      BY <2>3, <2>6, <3>3 DEF InOrder
    <3> QED
      BY <3>4, <3>5 DEF InOrder
  <2>9. ValuesSoFar'
    BY <2>1, <2>5, <2>7 DEF ValuesSoFar
  <2> QED
    BY <1>3, <1>4, <1>5, <2>9 DEF RedisInv
<1> QED
  BY <1>6, <1>7

\* string_format replies with the value, or without one.
LEMMA string_formatRedisInv == RedisInv /\ (Redis!string_format \/ Redis!Copy) => RedisInv'
<1> SUFFICES ASSUME RedisInv, Redis!string_format \/ Redis!Copy PROVE RedisInv'
  OBVIOUS
<1>1. /\ Redis!HTTP_OK \in Nat /\ Redis!HTTP_INTERNAL \in Nat /\ Redis!NONE \in Int
      /\ Redis!HTTP_INTERNAL # Redis!HTTP_OK
  BY SMT DEF Redis!HTTP_INTERNAL, Redis!HTTP_OK, Redis!NONE
<1>2. /\ redis_pc = "string_format" /\ redis_pc' = "free" /\ redis_r' = Redis!NoAnswer
      /\ UNCHANGED <<requests, counter>>
  BY DEF Redis!string_format, Redis!Copy
<1>3. \/ Redis!send_reply(Redis!HTTP_INTERNAL, Redis!NONE)
      \/ redis_r.type = "integer" /\ Redis!send_reply(Redis!HTTP_OK, Redis!printed(redis_r.integer))
  <2>1. CASE Redis!Copy
    BY <2>1 DEF Redis!Copy
  <2>2. CASE Redis!string_format
    <3>1. PICK thrown \in BOOLEAN :
            /\ status' = IF Redis!reply_integer /\ ~thrown THEN Redis!HTTP_OK ELSE Redis!HTTP_INTERNAL
            /\ Redis!send_reply(status', IF status' = Redis!HTTP_OK THEN Redis!printed(redis_r.integer)
                                         ELSE Redis!NONE)
      BY <2>2 DEF Redis!string_format
    <3> QED
      BY <1>1, <3>1 DEF Redis!reply_integer
  <2> QED
    BY <2>1, <2>2
<1>4. redis_pc \notin {"idle", "free"}
  BY <1>2
<1>5. CASE Redis!send_reply(Redis!HTTP_INTERNAL, Redis!NONE)
  BY <1>1, <1>2, <1>4, <1>5, RedisSends
<1>6. CASE redis_r.type = "integer" /\ Redis!send_reply(Redis!HTTP_OK, Redis!printed(redis_r.integer))
  <2>1. Redis!printed(redis_r.integer) \in Int
    <3>1. redis_r.integer \in Nat
      BY <1>6, SMT DEF RedisInv, ValuesSoFar, RedisTypes
    <3> QED
      BY <3>1, IntsArePrinted
  <2> QED
    BY <1>1, <1>2, <1>4, <1>6, <2>1, RedisSends
<1> QED
  BY <1>3, <1>5, <1>6

\* Every step keeps the invariant.
LEMMA RedisStep == RedisInv /\ [Redis!Next]_(Redis!vars) => RedisInv'
<1> SUFFICES ASSUME RedisInv, [Redis!Next]_(Redis!vars) PROVE RedisInv'
  OBVIOUS
<1>1. CASE Redis!Incremented
  <2>1. /\ UNCHANGED <<redis_pc, redis_c, redis_r, status, returnbuffer, requests, replies>>
        /\ counter' \in Nat /\ counter <= counter'
    BY <1>1, SMT DEF Redis!Incremented, RedisInv, RedisTypes
  <2>2. ValuesSoFar'
    BY <2>1, RedisKeeps DEF RedisInv
  <2> QED
    BY <2>1, <2>2 DEF RedisInv, RedisTypes, RepliesSoFar, NothingHeld
<1>2. CASE Redis!Free
  <2>1. /\ redis_pc = "free" /\ redis_pc' = "idle" /\ returnbuffer' = FALSE /\ redis_c' = Redis!NULL
        /\ UNCHANGED <<redis_r, counter, requests, replies>>
    BY <1>2 DEF Redis!Free, Redis!c_freed
  <2>2. counter' \in Nat /\ counter <= counter'
    BY <2>1, SMT DEF RedisInv, RedisTypes
  <2>3. ValuesSoFar'
    BY <2>1, <2>2, RedisKeeps DEF RedisInv
  <2>4. RedisTypes'
    BY <2>1, <2>2 DEF RedisInv, RedisTypes
  <2>5. RepliesSoFar'
    BY <2>1 DEF RedisInv, RepliesSoFar
  <2>6. NothingHeld'
    BY <2>1 DEF RedisInv, NothingHeld
  <2> QED
    BY <2>3, <2>4, <2>5, <2>6 DEF RedisInv
<1>3. CASE UNCHANGED Redis!vars
  BY <1>3 DEF Redis!vars, RedisInv, RedisTypes, RepliesSoFar, NothingHeld, ValuesSoFar, InOrder,
     ReplyOk, ValueOf
<1> QED
  BY <1>1, <1>2, <1>3, request_handlerRedisInv, ConnectRedisInv, redisCommandRedisInv,
     string_formatRedisInv DEF Redis!Next

\* The invariant, read as the property.
LEMMA RedisInvMeans == RedisInv => OneReplyNoLeak
<1> SUFFICES ASSUME RedisInv PROVE OneReplyNoLeak
  OBVIOUS
<1>1. requests \in Nat /\ Len(replies) = requests
  BY DEF RedisInv, RedisTypes
<1>2. \A k \in 1 .. requests : k \in 1 .. requests - 1 \/ (k = requests /\ requests > 0)
  BY <1>1, SMT
<1>3. ASSUME NEW k \in 1 .. requests
      PROVE  /\ Len(replies[k]) = 0 \/ Len(replies[k]) = 1
             /\ Len(replies[k]) = IF k < requests \/ redis_pc \in {"free", "idle"} THEN 1 ELSE 0
  <2>1. Len(<<>>) = 0
    OBVIOUS
  <2>2. CASE k \in 1 .. requests - 1
    <3>1. k < requests
      BY <1>1, <2>2, SMT
    <3> QED
      BY <2>2, <3>1 DEF RedisInv, RepliesSoFar
  <2>3. CASE k = requests /\ requests > 0
    <3>a. ~(k < requests)
      BY <1>1, <2>3, SMT
    <3>1. CASE redis_pc \in {"idle", "free"}
      BY <2>3, <3>1 DEF RedisInv, RepliesSoFar
    <3>2. CASE redis_pc \notin {"idle", "free"}
      <4>1. redis_pc \notin {"free", "idle"} /\ replies[k] = <<>>
        BY <2>3, <3>2 DEF RedisInv, RepliesSoFar
      <4>2. Len(replies[k]) = 0
        BY <2>1, <4>1
      <4> QED
        BY <3>a, <4>1, <4>2, SMT
    <3> QED
      BY <3>1, <3>2
  <2> QED
    BY <1>2, <2>2, <2>3
<1>4. ASSUME NEW k \in 1 .. requests, NEW a \in 1 .. Len(replies[k]), replies[k][a].code = Redis!HTTP_OK
      PROVE  ReplyOk(k) /\ replies[k][a].value = ValueOf(k)
  <2> DEFINE n == Len(replies[k])
  <2>a. (n = 0 \/ n = 1) /\ a \in 1 .. n
    BY <1>3
  <2> HIDE DEF n
  <2>b. n = 1 /\ a = 1
    BY <2>a, SMT
  <2>1. Len(replies[k]) = 1 /\ a = 1
    BY <2>b DEF n
  <2> QED
    BY <1>4, <2>1 DEF ReplyOk, ValueOf
<1>5. Redis!OneReplyNoLeak
  <2>1. \A k \in 1 .. Len(replies) :
          Len(replies[k]) = IF k < requests \/ redis_pc \in {"free", "idle"} THEN 1 ELSE 0
    BY <1>1, <1>3
  <2>2. /\ redis_pc = "crashed" => redis_c = Redis!NULL
        /\ redis_pc = "idle" => redis_c = Redis!NULL /\ redis_r = Redis!NoAnswer /\ ~returnbuffer
    BY DEF RedisInv, NothingHeld
  <2> QED
    BY <2>1, <2>2 DEF Redis!OneReplyNoLeak
<1>6. Redis!ValuesIncrease
  <2> SUFFICES ASSUME counter <= INT_MAX PROVE Redis!ValuesIncrease
    BY DEF Redis!ValuesIncrease
  <2>1. /\ \A k \in 1 .. requests : ReplyOk(k) => ValueOf(k) \in 1 .. counter
        /\ \A j, k \in 1 .. requests : j < k /\ ReplyOk(j) /\ ReplyOk(k) => ValueOf(j) < ValueOf(k)
    BY DEF RedisInv, ValuesSoFar, InOrder
  <2>2. ASSUME NEW j \in 1 .. Len(replies), NEW a \in 1 .. Len(replies[j]),
               replies[j][a].code = Redis!HTTP_OK
        PROVE  replies[j][a].value \in 1 .. counter
    BY <1>1, <1>4, <2>1, <2>2
  <2>3. ASSUME NEW j \in 1 .. Len(replies), NEW k \in 1 .. Len(replies), j < k,
               NEW a \in 1 .. Len(replies[j]), NEW b \in 1 .. Len(replies[k]),
               replies[j][a].code = Redis!HTTP_OK, replies[k][b].code = Redis!HTTP_OK
        PROVE  replies[j][a].value < replies[k][b].value
    <3>1. ReplyOk(j) /\ replies[j][a].value = ValueOf(j) /\ ReplyOk(k) /\ replies[k][b].value = ValueOf(k)
      BY <1>1, <1>4, <2>3
    <3> QED
      BY <1>1, <2>1, <2>3, <3>1
  <2> QED
    BY <2>2, <2>3 DEF Redis!ValuesIncrease
<1> QED
  BY <1>5, <1>6 DEF OneReplyNoLeak

\* libevent_redis, however many requests come and however far the key has gone:
\* each has one reply and leaves nothing allocated, whichever call fails or
\* throws, and the values of the replies strictly increase.
THEOREM EveryRequestHasOneReply == Redis!Spec => []OneReplyNoLeak
<1>1. Redis!Init => RedisInv
  BY RedisStarts
<1>2. RedisInv /\ [Redis!Next]_(Redis!vars) => RedisInv'
  BY RedisStep
<1>3. RedisInv => OneReplyNoLeak
  BY RedisInvMeans
<1> QED
  BY <1>1, <1>2, <1>3, PTL DEF Redis!Spec

-----------------------------------------------------------------------------
(* The daytime servers                                                     *)

\* While a datagram waits for its handler, remote_endpoint_ is its sender, and
\* the sends under way have copies of theirs.
AsioInv == (receive = "ready" => remote_endpoint_ = from) /\ Asio!AnswersItsSender

\* asio-minimal/server.cpp, with any number of clients and datagrams: each
\* answer goes to the sender of the datagram it answers, though start_receive
\* lets the next datagram overwrite remote_endpoint_ while the send is under
\* way.
THEOREM AnswersGoToTheirSender == Asio!Init /\ [][Asio!Next]_(Asio!vars) => []Asio!AnswersItsSender
<1>1. Asio!Init => AsioInv
  BY DEF Asio!Init, AsioInv, Asio!AnswersItsSender
<1>2. AsioInv /\ [Asio!Next]_(Asio!vars) => AsioInv'
  <2> SUFFICES ASSUME AsioInv, [Asio!Next]_(Asio!vars) PROVE AsioInv'
    OBVIOUS
  <2>1. CASE UNCHANGED <<receive, from, remote_endpoint_, sends>>
    BY <2>1 DEF AsioInv, Asio!AnswersItsSender
  <2>2. CASE Asio!handle_receive
    <3>1. CASE receive = "error" /\ receive' = "none" /\ UNCHANGED <<from, remote_endpoint_, sends>>
      BY <3>1 DEF AsioInv, Asio!AnswersItsSender
    <3>2. CASE /\ receive = "ready" /\ receive' = "started" /\ UNCHANGED <<from, remote_endpoint_>>
               /\ sends' = sends \cup {[for |-> from, number |-> sent[from], to |-> remote_endpoint_]}
      <4>1. remote_endpoint_ = from
        BY <3>2 DEF AsioInv
      <4>2. ASSUME NEW m \in sends' PROVE m.to = m.for
        BY <3>2, <4>1, SMT DEF AsioInv, Asio!AnswersItsSender
      <4> QED
        BY <3>2, <4>2 DEF AsioInv, Asio!AnswersItsSender
    <3> QED
      BY <2>2, <3>1, <3>2 DEF Asio!handle_receive, Asio!destinations
  <2>3. CASE Asio!handle_send
    BY <2>3 DEF Asio!handle_send, AsioInv, Asio!AnswersItsSender
  <2>4. ASSUME NEW s \in Senders, Asio!Receives(s) PROVE AsioInv'
    BY <2>4 DEF Asio!Receives, AsioInv, Asio!AnswersItsSender
  <2>5. CASE Asio!ReceiveFails
    BY <2>5 DEF Asio!ReceiveFails, AsioInv, Asio!AnswersItsSender
  <2>6. CASE Asio!Tcp \/ Asio!AcceptFails \/ Asio!Returns \/ \E c \in Clients : Asio!Connect(c)
    BY <2>1, <2>6 DEF Asio!Tcp, Asio!handle_accept, Asio!Accepts, Asio!handle_write, Asio!AcceptFails,
       Asio!Returns, Asio!Connect, Asio!udp
  <2>7. CASE UNCHANGED Asio!vars
    BY <2>1, <2>7 DEF Asio!vars
  <2> QED
    BY <2>2, <2>3, <2>4, <2>5, <2>6, <2>7 DEF Asio!Next, Asio!Udp
<1>3. AsioInv => Asio!AnswersItsSender
  BY DEF AsioInv
<1> QED
  BY <1>1, <1>2, <1>3, PTL

=============================================================================
