--------------------------- MODULE ReadWriteMutex ---------------------------
(***************************************************************************)
(* dlib's read_write_mutex (dlib/threads/read_write_mutex_extension.h).    *)
(* What a function does under the mutex m, up to a wait or its end, is one *)
(* step.  The mutex knows no thread: a thread with several readonly locks  *)
(* is to it as several threads with one each, as they are here.  A thread  *)
(* unlocks what it has locked and nothing else.                            *)
(***************************************************************************)
EXTENDS Naturals, FiniteSets

CONSTANTS
    Threads,
    max_locks,
    MaxCalls        \* bound: the locks each thread asks for

ASSUME ReadWriteMutexAssumption ==
    /\ IsFiniteSet(Threads)
    /\ max_locks \in Nat \ {0}
    /\ MaxCalls \in Nat

VARIABLES
    available_locks,
    write_lock_in_progress,
    write_lock_active,
    locks_obtained,     \* lock()'s local variable, for each thread
    pc,                 \* the lock a thread waits for or has
    asleep,             \* the threads inside s.wait()
    calls

vars == <<available_locks, write_lock_in_progress, write_lock_active, locks_obtained, pc,
          asleep, calls>>

Init ==
    /\ available_locks = max_locks
    /\ write_lock_in_progress = FALSE
    /\ write_lock_active = FALSE
    /\ locks_obtained = [t \in Threads |-> 0]
    /\ pc = [t \in Threads |-> "none"]
    /\ asleep = {}
    /\ calls = [t \in Threads |-> 0]

Places == {"none", "lock", "obtain", "write", "lock_readonly", "read"}
Readers == {t \in Threads : pc[t] = "read"}
Writers == {t \in Threads : pc[t] = "write"}

Go(t, place) == pc' = [pc EXCEPT ![t] = place]

\* t calls a function that locks, or comes out of the wait in it.
Calls(t) ==
    /\ pc[t] = "none"
    /\ calls[t] < MaxCalls
    /\ calls' = [calls EXCEPT ![t] = @ + 1]

Woken(t, place) == pc[t] = place /\ t \notin asleep /\ UNCHANGED calls

\* Mutant: one lock short of all of them.
nearly_all(n) == n + 1 >= max_locks
all_locks(n) == n = max_locks

\* locks_obtained becomes n, and the loop in lock() ends or waits.
Obtain(t, n) ==
    /\ locks_obtained' = [locks_obtained EXCEPT ![t] = n]
    /\ available_locks' = 0
    /\ \/ /\ all_locks(n)
          /\ write_lock_in_progress' = FALSE
          /\ write_lock_active' = TRUE
          /\ Go(t, "write")
          /\ UNCHANGED asleep
       \/ /\ ~all_locks(n)
          /\ write_lock_in_progress' = TRUE
          /\ asleep' = asleep \cup {t}
          /\ Go(t, "obtain")
          /\ UNCHANGED write_lock_active

writer_before == write_lock_in_progress

lock(t) ==
    /\ Calls(t) \/ Woken(t, "lock")
    /\ \/ /\ writer_before
          /\ Go(t, "lock")
          /\ asleep' = asleep \cup {t}
          /\ UNCHANGED <<available_locks, write_lock_in_progress, write_lock_active,
                         locks_obtained>>
       \/ ~writer_before /\ Obtain(t, available_locks)

lock_goes_on(t) ==
    /\ Woken(t, "obtain")
    /\ Obtain(t, locks_obtained[t] + available_locks)

\* Mutant: readers need not be told when a writer has finished.
not_the_readers == {t \in asleep : pc[t] = "lock_readonly"}
after_broadcast == {}

unlock(t) ==
    /\ pc[t] = "write"
    /\ Go(t, "none")
    /\ IF write_lock_active
       THEN /\ available_locks' = max_locks
            /\ write_lock_active' = FALSE
            /\ asleep' = after_broadcast
       ELSE UNCHANGED <<available_locks, write_lock_active, asleep>>
    /\ UNCHANGED <<write_lock_in_progress, locks_obtained, calls>>

none_available == available_locks = 0

lock_readonly(t) ==
    /\ Calls(t) \/ Woken(t, "lock_readonly")
    /\ \/ /\ none_available
          /\ Go(t, "lock_readonly")
          /\ asleep' = asleep \cup {t}
          /\ UNCHANGED available_locks
       \/ /\ ~none_available
          /\ available_locks' = available_locks - 1
          /\ Go(t, "read")
          /\ UNCHANGED asleep
    /\ UNCHANGED <<write_lock_in_progress, write_lock_active, locks_obtained>>

lock_to_free == available_locks # max_locks /\ ~write_lock_active
might_be_listening(n) == n = 1 \/ write_lock_in_progress

GiveBack ==
    IF lock_to_free
    THEN /\ available_locks' = available_locks + 1
         /\ asleep' = IF might_be_listening(available_locks') THEN {} ELSE asleep
    ELSE UNCHANGED <<available_locks, asleep>>

unlock_readonly(t) ==
    /\ pc[t] = "read"
    /\ Go(t, "none")
    /\ GiveBack
    /\ UNCHANGED <<write_lock_in_progress, write_lock_active, locks_obtained, calls>>

\* s.wait() may return without a signal.
SpuriousWakeup(t) ==
    /\ t \in asleep
    /\ asleep' = asleep \ {t}
    /\ UNCHANGED <<available_locks, write_lock_in_progress, write_lock_active,
                   locks_obtained, pc, calls>>

Step(t) ==
    \/ pc[t] # "none" /\ (lock(t) \/ lock_readonly(t))
    \/ lock_goes_on(t) \/ unlock(t) \/ unlock_readonly(t)

Next ==
    \E t \in Threads :
        \/ lock(t) \/ lock_goes_on(t) \/ unlock(t)
        \/ lock_readonly(t) \/ unlock_readonly(t)
        \/ SpuriousWakeup(t)

\* A woken thread goes on, and who has a lock gives it back.
Fairness == \A t \in Threads : WF_vars(Step(t))

Spec == Init /\ [][Next]_vars /\ Fairness

-----------------------------------------------------------------------------
(***************************************************************************)
(* Properties.                                                             *)
(***************************************************************************)
\* The type of the state.
TypeOK ==
    /\ available_locks \in 0 .. max_locks
    /\ write_lock_in_progress \in BOOLEAN
    /\ write_lock_active \in BOOLEAN
    /\ locks_obtained \in [Threads -> 0 .. max_locks]
    /\ pc \in [Threads -> Places]
    /\ asleep \subseteq Threads
    /\ calls \in [Threads -> 0 .. MaxCalls]

\* No lock is lost or made: those available, those of the readers, those a
\* writer has obtained so far and those of the writer add up to max_locks.
LocksAddUp ==
    LET taken == available_locks + Cardinality(Readers) +
                 (IF write_lock_active THEN max_locks ELSE 0)
    IN  IF write_lock_in_progress
        THEN \A t \in Threads : pc[t] = "obtain" => taken + locks_obtained[t] = max_locks
        ELSE taken = max_locks

\* "if (some thread is on the process of obtaining a write lock) then
\* write_lock_in_progress == true", "if (some thread currently has a write
\* lock on this mutex) then write_lock_active == true", and one thread at
\* most does either.
OneWriter ==
    /\ write_lock_in_progress = (\E t \in Threads : pc[t] = "obtain")
    /\ write_lock_active = (Writers # {})
    /\ \A t, u \in Threads : pc[t] = pc[u] /\ pc[t] \in {"obtain", "write"} => t = u

\* Who sleeps has something to wait for, that ends with a broadcast.
NoLostWakeup ==
    \A t \in asleep :
        /\ pc[t] \in {"lock", "obtain", "lock_readonly"}
        /\ IF pc[t] = "lock" THEN write_lock_in_progress \/ write_lock_active
           ELSE available_locks = 0

\* The mutex is what ReadersWriters describes: "will allow many threads to
\* obtain simultaneous readonly locks but will only allow a single thread to
\* obtain a write lock", and no readers with it.
RW == INSTANCE ReadersWriters WITH readers <- Readers, writers <- Writers
IsReadersWriters == RW!Spec

\* Every lock asked for is obtained, when all threads give theirs back and
\* each asks for a bounded number of them.
LockObtained ==
    \A t \in Threads :
        pc[t] \in {"lock", "obtain", "lock_readonly"} ~> pc[t] \in {"write", "read"}
=============================================================================
