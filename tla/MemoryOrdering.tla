-------------------------- MODULE MemoryOrdering ---------------------------
(***************************************************************************)
(* ordering.cpp: the experiment that looks for the reordering of a store   *)
(* and a later load.  main resets X and Y, lets both threads run one       *)
(* transaction each, waits for both and looks at r1 and r2.                *)
(*                                                                         *)
(* The machine is an x86: every processor has a FIFO buffer of stores that *)
(* reach memory later; a load takes the newest buffered store to its       *)
(* address, or else memory; mfence, and the locked instruction in sem_post *)
(* and sem_wait, wait until the buffer is empty.                           *)
(***************************************************************************)
EXTENDS Integers, Sequences

main    == "main"
Workers == {"thread1", "thread2"}
Threads == Workers \cup {main}
Vars    == {"X", "Y", "r1", "r2"}
Semas   == {"beginSema1", "beginSema2", "endSema"}

\* thread1 stores to X and loads Y into r1; thread2 the other way round.
Mine(t)   == IF t = "thread1" THEN "X" ELSE "Y"
Theirs(t) == IF t = "thread1" THEN "Y" ELSE "X"
Result(t) == IF t = "thread1" THEN "r1" ELSE "r2"
beginSema(t) == IF t = "thread1" THEN "beginSema1" ELSE "beginSema2"

CONSTANT BufferSize   \* how many stores a processor's buffer holds

ASSUME BufferAssumption == BufferSize \in Nat \ {0}

VARIABLES pc,       \* where each thread is
          memory,
          buffer,   \* the stores of each thread that have not reached memory
          sema      \* the value of each semaphore

vars == <<pc, memory, buffer, sema>>

\* The newest buffered store to v, if there is one, else what memory holds.
Pending(t, v) == {i \in DOMAIN buffer[t] : buffer[t][i].var = v}
Load(t, v) ==
  IF Pending(t, v) = {} THEN memory[v]
  ELSE buffer[t][CHOOSE i \in Pending(t, v) : \A j \in Pending(t, v) : j <= i].val

Store(t, v, x) == /\ Len(buffer[t]) < BufferSize
                  /\ buffer' = [buffer EXCEPT ![t] = Append(@, [var |-> v, val |-> x])]

Drained(t) == buffer[t] = <<>>

Goto(t, l) == pc' = [pc EXCEPT ![t] = l]

sem_post(t, s) == Drained(t) /\ sema' = [sema EXCEPT ![s] = @ + 1]
sem_wait(t, s) == Drained(t) /\ sema[s] > 0 /\ sema' = [sema EXCEPT ![s] = @ - 1]

-----------------------------------------------------------------------------
Init ==
  /\ pc = [t \in Threads |-> IF t = main THEN "reset X" ELSE "begin"]
  /\ memory = [v \in Vars |-> 0]
  /\ buffer = [t \in Threads |-> <<>>]
  /\ sema = [s \in Semas |-> 0]

\* The hardware: the oldest store of a buffer reaches memory.
Flush(t) ==
  /\ buffer[t] # <<>>
  /\ memory' = [memory EXCEPT ![Head(buffer[t]).var] = Head(buffer[t]).val]
  /\ buffer' = [buffer EXCEPT ![t] = Tail(@)]
  /\ UNCHANGED <<pc, sema>>

\* thread1Func and thread2Func
Begin(t) == /\ pc[t] = "begin"
            /\ sem_wait(t, beginSema(t))
            /\ Goto(t, "store")
            /\ UNCHANGED <<memory, buffer>>

StoreMine(t) == /\ pc[t] = "store"
                /\ Store(t, Mine(t), 1)
                /\ Goto(t, "fence")
                /\ UNCHANGED <<memory, sema>>

\* Mutant: the compiler barrier of USE_CPU_FENCE 0.
compiler_barrier(t) == TRUE

mfence(t) == Drained(t)

Fence(t) == /\ pc[t] = "fence"
            /\ mfence(t)
            /\ Goto(t, "load")
            /\ UNCHANGED <<memory, buffer, sema>>

LoadTheirs(t) == /\ pc[t] = "load"
                 /\ Store(t, Result(t), Load(t, Theirs(t)))
                 /\ Goto(t, "end")
                 /\ UNCHANGED <<memory, sema>>

End(t) == /\ pc[t] = "end"
          /\ sem_post(t, "endSema")
          /\ Goto(t, "begin")
          /\ UNCHANGED <<memory, buffer>>

\* main
ResetX == /\ pc[main] = "reset X"
          /\ Store(main, "X", 0)
          /\ Goto(main, "reset Y")
          /\ UNCHANGED <<memory, sema>>

after_reset == "post 1"

ResetY == /\ pc[main] = "reset Y"
          /\ Store(main, "Y", 0)
          /\ Goto(main, after_reset)
          /\ UNCHANGED <<memory, sema>>

Post1 == /\ pc[main] = "post 1"
         /\ sem_post(main, "beginSema1")
         /\ Goto(main, "post 2")
         /\ UNCHANGED <<memory, buffer>>

secondSema == "beginSema2"

Post2 == /\ pc[main] = "post 2"
         /\ sem_post(main, secondSema)
         /\ Goto(main, "wait 1")
         /\ UNCHANGED <<memory, buffer>>

\* Mutant: main waits for one of the two.
after_first_wait_check == "check"
after_first_wait == "wait 2"

Wait1 == /\ pc[main] = "wait 1"
         /\ sem_wait(main, "endSema")
         /\ Goto(main, after_first_wait)
         /\ UNCHANGED <<memory, buffer>>

Wait2 == /\ pc[main] = "wait 2"
         /\ sem_wait(main, "endSema")
         /\ Goto(main, "check")
         /\ UNCHANGED <<memory, buffer>>

\* The comparison of r1 and r2, whose outcome is only counted and printed.
Check == /\ pc[main] = "check"
         /\ Goto(main, "reset X")
         /\ UNCHANGED <<memory, buffer, sema>>

Main == ResetX \/ ResetY \/ Post1 \/ Post2 \/ Wait1 \/ Wait2 \/ Check
Worker(t) == Begin(t) \/ StoreMine(t) \/ Fence(t) \/ LoadTheirs(t) \/ End(t)

Next == Main \/ (\E t \in Workers : Worker(t)) \/ (\E t \in Threads : Flush(t))

Spec == Init /\ [][Next]_vars

-----------------------------------------------------------------------------
\* ordering.cpp 5, "Set either of these to 1 to prevent CPU reordering": with
\* the fence, main never finds that both threads loaded the old value.
NoReorder == pc[main] = "check" => ~(Load(main, "r1") = 0 /\ Load(main, "r2") = 0)

\* main resets X and Y, and looks at r1 and r2, only while both threads wait
\* and all they stored is in memory: one transaction never reaches into the
\* next one.
ResetWhileQuiet ==
  pc[main] \in {"check", "reset X", "reset Y"} =>
    \A t \in Workers : pc[t] = "begin" /\ sema[beginSema(t)] = 0 /\ Drained(t)
=============================================================================
