---------------------------- MODULE MonitorsProofs ----------------------------
(***************************************************************************)
(* Two objects of dlib.  read_write_mutex keeps its locks and loses no     *)
(* wake-up, for any number of threads and locks, and is a mutex for        *)
(* readers and writers; these theorems are about programs that call        *)
(* unlock_readonly only with a lock.  server keeps its books, for any      *)
(* connections, threads and limits.                                        *)
(***************************************************************************)
EXTENDS ReadWriteMutex, FiniteSetTheorems, TLAPS

-----------------------------------------------------------------------------
(* The mutex *)

\* The strengthening that is inductive: the four invariants together.
IInv == TypeOK /\ LocksAddUp /\ OneWriter /\ NoLostWakeup

\* What LocksAddUp and OneWriter say, without the case distinction.
LEMMA Sums ==
    ASSUME TypeOK, LocksAddUp, OneWriter
    PROVE  /\ Cardinality(Readers) \in Nat /\ IsFiniteSet(Readers)
           /\ ~write_lock_in_progress =>
                available_locks + Cardinality(Readers) +
                    (IF write_lock_active THEN max_locks ELSE 0) = max_locks
           /\ \A t \in Threads : pc[t] = "obtain" =>
                write_lock_in_progress /\
                available_locks + Cardinality(Readers) +
                    (IF write_lock_active THEN max_locks ELSE 0) + locks_obtained[t] = max_locks
<1>1. IsFiniteSet(Readers)
  BY FS_Subset, ReadWriteMutexAssumption DEF Readers
<1>2. Cardinality(Readers) \in Nat
  BY <1>1, FS_CardinalityType
<1>3. ASSUME NEW t \in Threads, pc[t] = "obtain" PROVE write_lock_in_progress
  BY <1>3 DEF OneWriter, TypeOK
<1> QED BY <1>1, <1>2, <1>3 DEF LocksAddUp

\* A thread that starts or stops reading makes one reader more or less.
LEMMA ReadersChange ==
    ASSUME IsFiniteSet(Readers), pc \in [Threads -> Places], NEW t \in Threads, NEW place \in Places,
           pc' = [pc EXCEPT ![t] = place]
    PROVE  /\ place # "read" /\ pc[t] # "read" => Readers' = Readers
           /\ place = "read" /\ pc[t] # "read" =>
                Readers' = Readers \cup {t} /\ Cardinality(Readers)' = Cardinality(Readers) + 1
           /\ place # "read" /\ pc[t] = "read" =>
                /\ Readers' = Readers \ {t}
                /\ Cardinality(Readers)' = Cardinality(Readers) - 1
                /\ Readers # {} /\ Cardinality(Readers) > 0
<1>1. \A u \in Threads : pc'[u] = IF u = t THEN place ELSE pc[u]
  OBVIOUS
<1>2. place # "read" /\ pc[t] # "read" => Readers' = Readers
  BY <1>1 DEF Readers
<1>3. ASSUME place = "read", pc[t] # "read"
      PROVE  Readers' = Readers \cup {t} /\ Cardinality(Readers)' = Cardinality(Readers) + 1
  <2>1. Readers' = Readers \cup {t}
    BY <1>1, <1>3 DEF Readers
  <2>2. t \notin Readers
    BY <1>3 DEF Readers
  <2>3. Cardinality(Readers \cup {t}) = Cardinality(Readers) + 1
    BY <2>2, FS_AddElement, Zenon
  <2> QED BY <2>1, <2>3
<1>4. ASSUME place # "read", pc[t] = "read"
      PROVE  /\ Readers' = Readers \ {t}
             /\ Cardinality(Readers)' = Cardinality(Readers) - 1
             /\ Readers # {} /\ Cardinality(Readers) > 0
  <2>1. Readers' = Readers \ {t}
    BY <1>1, <1>4 DEF Readers
  <2>2. t \in Readers
    BY <1>4 DEF Readers
  <2>3. Cardinality(Readers \ {t}) = Cardinality(Readers) - 1
    BY <2>2, FS_RemoveElement, Zenon
  <2>4. Cardinality(Readers) \in Nat /\ Cardinality(Readers) # 0
    BY <2>2, FS_CardinalityType, FS_EmptySet
  <2> QED BY <2>1, <2>2, <2>3, <2>4
<1> QED BY <1>2, <1>3, <1>4

\* The steps in which a writer takes what is available preserve the invariant.
LEMMA ObtainPreserves ==
    ASSUME IInv, NEW t \in Threads, t \notin asleep, NEW n, Obtain(t, n), calls' \in [Threads -> 0 .. MaxCalls],
           \/ pc[t] \in {"none", "lock"} /\ ~write_lock_in_progress /\ n = available_locks
           \/ pc[t] = "obtain" /\ n = locks_obtained[t] + available_locks
    PROVE  IInv'
<1> USE ReadWriteMutexAssumption
<1> DEFINE active == IF write_lock_active THEN max_locks ELSE 0
           place == IF all_locks(n) THEN "write" ELSE "obtain"
<1>1. /\ Cardinality(Readers) \in Nat /\ IsFiniteSet(Readers)
      /\ available_locks \in Nat /\ n \in Nat
      /\ n + Cardinality(Readers) + active = max_locks
  BY Sums DEF IInv, TypeOK
<1>2. pc \in [Threads -> Places] /\ pc' = [pc EXCEPT ![t] = place] /\ pc[t] # "read"
  <2>1. pc \in [Threads -> Places]
    BY DEF IInv, TypeOK
  <2>2. pc' = [pc EXCEPT ![t] = place]
    BY DEF Obtain, Go
  <2> QED BY <2>1, <2>2
<1>3. Readers' = Readers
  <2>1. place \in Places /\ place # "read"
    BY DEF Places
  <2> HIDE DEF place
  <2> QED BY <2>1, <1>1, <1>2, ReadersChange, Zenon
<1>4. /\ \A u \in Threads : pc'[u] = IF u = t THEN place ELSE pc[u]
      /\ pc' \in [Threads -> Places]
  BY <1>2 DEF IInv, TypeOK, Places
<1>5. \A u \in Threads : pc[u] = "obtain" => u = t
  <2> SUFFICES ASSUME NEW u \in Threads, pc[u] = "obtain" PROVE u = t
    OBVIOUS
  <2>1. write_lock_in_progress
    BY DEF IInv, OneWriter
  <2>2. pc[t] = "obtain"
    BY <2>1
  <2> QED BY <2>2 DEF IInv, OneWriter
<1>6. all_locks(n) => ~write_lock_active /\ Cardinality(Readers) = 0
  <2>1. write_lock_active \in BOOLEAN
    BY DEF IInv, TypeOK
  <2> HIDE DEF place
  <2>2. n = max_locks => ~write_lock_active /\ Cardinality(Readers) = 0
    BY <1>1, <2>1
  <2> QED BY <2>2 DEF all_locks
<1>7. TypeOK'
  <2>1. locks_obtained' \in [Threads -> 0 .. max_locks]
    BY <1>1 DEF Obtain, IInv, TypeOK
  <2>2. asleep' \subseteq Threads /\ write_lock_active' \in BOOLEAN
    BY Zenon DEF Obtain, IInv, TypeOK
  <2>3. available_locks' = 0 /\ write_lock_in_progress' \in BOOLEAN
    BY Zenon DEF Obtain
  <2> HIDE DEF place
  <2> QED BY <2>1, <2>2, <2>3, <1>4 DEF TypeOK
<1>8. LocksAddUp'
  <2>1. CASE all_locks(n)
    <3>1. available_locks' = 0 /\ write_lock_active' = TRUE /\ write_lock_in_progress' = FALSE
      BY <2>1 DEF Obtain
    <3> HIDE DEF place
    <3> QED BY <2>1, <3>1, <1>1, <1>3, <1>6 DEF LocksAddUp
  <2>2. CASE ~all_locks(n)
    <3>1. \A u \in Threads : pc'[u] = "obtain" => u = t /\ locks_obtained'[u] = n
      BY <1>4, <1>5 DEF Obtain, IInv, TypeOK
    <3>2. available_locks' = 0 /\ write_lock_active' = write_lock_active /\ write_lock_in_progress'
      BY <2>2 DEF Obtain
    <3> HIDE DEF place
    <3> QED BY <3>1, <3>2, <1>1, <1>3 DEF LocksAddUp
  <2> QED BY <2>1, <2>2
<1>9. OneWriter'
  <2>1. CASE all_locks(n)
    <3>1. \A u \in Threads : pc[u] # "write"
      BY <2>1, <1>6, Zenon DEF IInv, OneWriter, Writers
    <3>2. write_lock_active' = TRUE /\ write_lock_in_progress' = FALSE /\ place = "write"
      BY <2>1 DEF Obtain
    <3> QED BY <3>1, <3>2, <1>4, <1>5, Zenon DEF OneWriter, Writers
  <2>2. CASE ~all_locks(n)
    <3>1. write_lock_active' = write_lock_active /\ write_lock_in_progress' = TRUE /\ place = "obtain"
      BY <2>2 DEF Obtain
    <3>2. Writers' = Writers
      BY <3>1, <1>4, <1>5, <2>2 DEF Writers, IInv, OneWriter
    <3> QED BY <3>1, <3>2, <1>4, <1>5 DEF OneWriter, IInv
  <2> QED BY <2>1, <2>2
<1>10. NoLostWakeup'
  <2> SUFFICES ASSUME NEW u \in asleep'
      PROVE  /\ pc'[u] \in {"lock", "obtain", "lock_readonly"}
             /\ pc'[u] = "lock" => write_lock_in_progress' \/ write_lock_active'
             /\ pc'[u] # "lock" => available_locks' = 0
    BY DEF NoLostWakeup
  <2>1. available_locks' = 0 /\ (write_lock_in_progress' \/ write_lock_active')
    BY DEF Obtain
  <2>2. CASE u = t /\ ~all_locks(n)
    BY <2>1, <2>2, <1>4 DEF Obtain
  <2>3. CASE u \in asleep
    <3>1. pc[u] \in {"lock", "obtain", "lock_readonly"} /\ u \in Threads
      BY <2>3 DEF IInv, NoLostWakeup, TypeOK
    <3> QED BY <3>1, <2>1, <2>3, <1>4
  <2> QED BY <2>2, <2>3 DEF Obtain
<1> QED BY <1>7, <1>8, <1>9, <1>10 DEF IInv

\* A thread that falls asleep, wakes up or does nothing preserves it.
LEMMA SleepPreserves ==
    ASSUME IInv, NEW t \in Threads, NEW place \in {"lock", "lock_readonly"},
           t \notin asleep, pc[t] \in {"none", place}, Go(t, place), asleep' = asleep \cup {t},
           IF place = "lock" THEN write_lock_in_progress ELSE available_locks = 0,
           calls' \in [Threads -> 0 .. MaxCalls],
           UNCHANGED <<available_locks, write_lock_in_progress, write_lock_active, locks_obtained>>
    PROVE  IInv'
<1>1. /\ \A u \in Threads : pc'[u] = IF u = t THEN place ELSE pc[u]
      /\ pc' \in [Threads -> Places]
  BY DEF Go, IInv, TypeOK, Places
<1>2. Readers' = Readers /\ Writers' = Writers
  BY <1>1 DEF Readers, Writers
<1>3. TypeOK'
  BY <1>1 DEF IInv, TypeOK
<1>4. LocksAddUp'
  <2>1. \A u \in Threads : pc'[u] = "obtain" => pc[u] = "obtain"
    BY <1>1
  <2> QED BY <1>2, <2>1 DEF IInv, LocksAddUp
<1>5. OneWriter'
  <2>1. \A u \in Threads : (pc'[u] = "obtain") = (pc[u] = "obtain") /\
                            (pc'[u] = "write") = (pc[u] = "write")
    BY <1>1
  <2> QED BY <1>2, <2>1 DEF IInv, OneWriter
<1>6. NoLostWakeup'
  BY <1>1 DEF IInv, NoLostWakeup, TypeOK
<1> QED BY <1>3, <1>4, <1>5, <1>6 DEF IInv

\* Taking and giving back one readonly lock preserves it.
LEMMA OneLockPreserves ==
    ASSUME IInv, NEW t \in Threads, t \notin asleep, calls' \in [Threads -> 0 .. MaxCalls],
           UNCHANGED <<write_lock_in_progress, write_lock_active, locks_obtained>>,
           \/ /\ pc[t] \in {"none", "lock_readonly"} /\ Go(t, "read")
              /\ available_locks # 0 /\ available_locks' = available_locks - 1
              /\ asleep' = asleep
           \/ pc[t] = "read" /\ Go(t, "none") /\ GiveBack
    PROVE  IInv'
<1> USE ReadWriteMutexAssumption
<1> DEFINE active == IF write_lock_active THEN max_locks ELSE 0
           place == IF pc[t] = "read" THEN "none" ELSE "read"
<1>1. /\ Cardinality(Readers) \in Nat /\ IsFiniteSet(Readers)
      /\ available_locks \in 0 .. max_locks
      /\ available_locks + Cardinality(Readers) + active <= max_locks
      /\ ~write_lock_in_progress => available_locks + Cardinality(Readers) + active = max_locks
  <2>1. CASE write_lock_in_progress
    <3>1. PICK u \in Threads : pc[u] = "obtain"
      BY <2>1, Zenon DEF IInv, OneWriter
    <3>2. locks_obtained[u] \in Nat
      BY DEF IInv, TypeOK
    <3> HIDE DEF place
    <3> QED BY <2>1, <3>1, <3>2, Sums DEF IInv, TypeOK
  <2>2. CASE ~write_lock_in_progress
    BY <2>2, Sums DEF IInv, TypeOK
  <2> QED BY <2>1, <2>2
<1>2. pc \in [Threads -> Places] /\ pc' = [pc EXCEPT ![t] = place] /\ place \in Places
  BY DEF Go, IInv, TypeOK, Places
<1>3. /\ \A u \in Threads : pc'[u] = IF u = t THEN place ELSE pc[u]
      /\ pc' \in [Threads -> Places]
  BY <1>2
<1>4. Writers' = Writers
  BY <1>3 DEF Writers
<1>5. \A u \in Threads : (pc'[u] = "obtain") = (pc[u] = "obtain") /\
                          (pc'[u] = "write") = (pc[u] = "write")
  BY <1>3
<1>6. /\ available_locks' \in 0 .. max_locks
      /\ available_locks' + Cardinality(Readers)' = available_locks + Cardinality(Readers)
  <2>1. CASE pc[t] = "read"
    <3>1. Cardinality(Readers)' = Cardinality(Readers) - 1 /\ Cardinality(Readers) > 0
      <4>1. place = "none"
        BY <2>1
      <4> QED BY <1>1, <1>2, <2>1, <4>1, ReadersChange, Zenon
    <3>2. GiveBack
      BY <2>1
    <3>3. ~write_lock_active /\ available_locks < max_locks
      <4>1. write_lock_active \in BOOLEAN
        BY DEF IInv, TypeOK
      <4> HIDE DEF place
      <4> QED BY <3>1, <4>1, <1>1
    <3>4. available_locks' = available_locks + 1
      BY <3>2, <3>3, <1>1 DEF GiveBack, lock_to_free
    <3> HIDE DEF place
    <3> QED BY <3>1, <3>3, <3>4, <1>1
  <2>2. CASE pc[t] # "read"
    <3>1. available_locks # 0 /\ available_locks' = available_locks - 1
      BY <2>2
    <3>2. Cardinality(Readers)' = Cardinality(Readers) + 1
      <4>1. place = "read"
        BY <2>2
      <4> QED BY <1>1, <1>2, <2>2, <4>1, ReadersChange, Zenon
    <3> HIDE DEF place
    <3> QED BY <3>1, <3>2, <1>1
  <2> QED BY <2>1, <2>2
<1> HIDE DEF place
<1>7. TypeOK'
  <2>1. asleep' \subseteq Threads
    BY DEF GiveBack, IInv, TypeOK
  <2> QED BY <2>1, <1>3, <1>6 DEF IInv, TypeOK
<1>8. LocksAddUp'
  <2>1. Cardinality(Readers)' \in Int
    <3>1. IsFiniteSet(Readers)'
      BY FS_Subset DEF Readers
    <3> QED BY <3>1, FS_CardinalityType
  <2>2. CASE write_lock_in_progress
    <3> SUFFICES ASSUME NEW u \in Threads, pc'[u] = "obtain"
                 PROVE  available_locks' + Cardinality(Readers)' + active + locks_obtained[u] = max_locks
      BY <2>2 DEF LocksAddUp
    <3>1. available_locks + Cardinality(Readers) + active + locks_obtained[u] = max_locks
      BY <1>5, Sums DEF IInv
    <3>2. locks_obtained[u] \in Nat /\ active \in Nat
      BY DEF IInv, TypeOK
    <3> HIDE DEF active
    <3> QED BY <2>1, <3>1, <3>2, <1>1, <1>6
  <2>3. CASE ~write_lock_in_progress
    <3>1. active \in Nat
      BY DEF IInv, TypeOK
    <3>2. available_locks' + Cardinality(Readers)' + active = max_locks
      <4> HIDE DEF active
      <4> QED BY <2>1, <2>3, <3>1, <1>1, <1>6
    <3> QED BY <2>3, <3>2 DEF LocksAddUp
  <2> QED BY <2>2, <2>3 DEF IInv, TypeOK
<1>9. OneWriter'
  BY <1>4, <1>5 DEF IInv, OneWriter
<1>10. NoLostWakeup'
  <2> SUFFICES ASSUME NEW u \in asleep'
      PROVE  /\ pc'[u] \in {"lock", "obtain", "lock_readonly"}
             /\ pc'[u] = "lock" => write_lock_in_progress' \/ write_lock_active'
             /\ pc'[u] # "lock" => available_locks' = 0
    BY DEF NoLostWakeup
  <2>1. u \in asleep /\ u # t /\ u \in Threads
    BY DEF GiveBack, IInv, TypeOK
  <2>2. /\ pc'[u] = pc[u] /\ pc[u] \in {"lock", "obtain", "lock_readonly"}
        /\ pc[u] = "lock" => write_lock_in_progress \/ write_lock_active
        /\ pc[u] # "lock" => available_locks = 0
    BY <2>1, <1>3 DEF IInv, NoLostWakeup
  <2>3. available_locks = 0 => available_locks' = 0
    <3>1. CASE pc[t] = "read"
      <4>1. GiveBack
        BY <3>1
      <4>2. available_locks = 0 => available_locks' # 1
        BY <4>1, <2>1 DEF GiveBack, might_be_listening
      <4> QED BY <4>1, <4>2 DEF GiveBack
    <3>2. CASE pc[t] # "read"
      BY <3>2, <1>1
    <3> QED BY <3>1, <3>2
  <2> QED BY <2>2, <2>3
<1> QED BY <1>7, <1>8, <1>9, <1>10 DEF IInv

\* unlock() preserves it: the writer has all the locks and gives all back.
LEMMA UnlockPreserves ==
    ASSUME IInv, NEW t \in Threads, unlock(t)
    PROVE  IInv'
<1> USE ReadWriteMutexAssumption
<1>1. write_lock_active
  <2>1. t \in Writers
    BY DEF unlock, Writers
  <2> QED BY <2>1, Zenon DEF IInv, OneWriter
<1>2. /\ available_locks' = max_locks /\ write_lock_active' = FALSE /\ asleep' = {}
      /\ UNCHANGED <<write_lock_in_progress, locks_obtained, calls>>
  BY <1>1 DEF unlock, after_broadcast
<1>3. /\ \A u \in Threads : pc'[u] = IF u = t THEN "none" ELSE pc[u]
      /\ pc' \in [Threads -> Places]
  BY DEF unlock, Go, IInv, TypeOK, Places
<1>4. Readers' = Readers
  BY <1>3 DEF unlock, Readers
<1>5. \A u \in Threads : pc[u] = "write" => u = t
  BY DEF unlock, IInv, OneWriter
<1>6. TypeOK'
  <2>1. max_locks \in 0 .. max_locks
    OBVIOUS
  <2> QED BY <1>2, <1>3, <2>1, Zenon DEF IInv, TypeOK
<1>7. LocksAddUp'
  <2>1. Cardinality(Readers) \in Nat
    BY Sums DEF IInv
  <2>2. CASE write_lock_in_progress
    <3> SUFFICES ASSUME NEW u \in Threads, pc'[u] = "obtain"
                 PROVE  max_locks + Cardinality(Readers) + locks_obtained[u] = max_locks
      BY <1>2, <1>4, <2>1, <2>2 DEF LocksAddUp
    <3>1. pc[u] = "obtain"
      BY <1>3
    <3>2. available_locks + Cardinality(Readers) + max_locks + locks_obtained[u] = max_locks
      BY <3>1, <1>1, Sums DEF IInv
    <3>3. locks_obtained[u] \in Nat /\ available_locks \in Nat
      BY DEF IInv, TypeOK
    <3> QED BY <2>1, <3>2, <3>3
  <2>3. CASE ~write_lock_in_progress
    <3>1. available_locks + Cardinality(Readers) + max_locks = max_locks
      BY <2>3, <1>1, Sums DEF IInv
    <3>2. available_locks \in Nat
      BY DEF IInv, TypeOK
    <3>3. Cardinality(Readers) = 0
      BY <2>1, <3>1, <3>2
    <3> QED BY <2>3, <3>3, <1>2, <1>4 DEF LocksAddUp
  <2> QED BY <2>2, <2>3
<1>8. OneWriter'
  <2>1. \A u \in Threads : pc'[u] # "write" /\ (pc'[u] = "obtain") = (pc[u] = "obtain")
    BY <1>3, <1>5 DEF unlock
  <2>2. Writers' = {}
    BY <2>1 DEF Writers
  <2>3. (\E u \in Threads : pc'[u] = "obtain") = (\E u \in Threads : pc[u] = "obtain")
    BY <2>1
  <2>4. write_lock_in_progress' = (\E u \in Threads : pc'[u] = "obtain")
    BY <1>2, <2>3 DEF IInv, OneWriter
  <2>5. \A u, v \in Threads : pc'[u] = pc'[v] /\ pc'[u] \in {"obtain", "write"} => u = v
    BY <2>1 DEF IInv, OneWriter
  <2> QED BY <1>2, <2>2, <2>4, <2>5, Zenon DEF OneWriter
<1>9. NoLostWakeup'
  BY <1>2 DEF NoLostWakeup
<1> QED BY <1>6, <1>7, <1>8, <1>9 DEF IInv

\* Every step of the mutex keeps the invariant.
LEMMA Inductive ==
    ASSUME IInv, [Next]_vars
    PROVE  IInv'
<1>1. ASSUME NEW t \in Threads, Calls(t) \/ (\E place \in Places : Woken(t, place))
      PROVE  calls' \in [Threads -> 0 .. MaxCalls] /\ t \notin asleep
  <2>1. CASE Calls(t)
    <3>1. t \notin asleep
      BY <2>1 DEF Calls, IInv, NoLostWakeup
    <3>2. calls' \in [Threads -> 0 .. MaxCalls]
      BY <2>1, ReadWriteMutexAssumption DEF Calls, IInv, TypeOK
    <3> QED BY <3>1, <3>2
  <2>2. CASE \E place \in Places : Woken(t, place)
    BY <2>2 DEF Woken, IInv, TypeOK
  <2> QED BY <1>1, <2>1, <2>2
<1>2. ASSUME NEW t \in Threads, lock(t) PROVE IInv'
  <2>1. /\ calls' \in [Threads -> 0 .. MaxCalls] /\ t \notin asleep
        /\ pc[t] \in {"none", "lock"}
    BY <1>1, <1>2 DEF lock, Calls, Woken, Places
  <2>2. CASE write_lock_in_progress
    BY <1>2, <2>1, <2>2, SleepPreserves DEF lock, writer_before
  <2>3. CASE ~write_lock_in_progress
    BY <1>2, <2>1, <2>3, ObtainPreserves DEF lock, writer_before
  <2> QED BY <2>2, <2>3
<1>3. ASSUME NEW t \in Threads, lock_goes_on(t) PROVE IInv'
  <2>1. calls' \in [Threads -> 0 .. MaxCalls] /\ t \notin asleep /\ pc[t] = "obtain"
    BY <1>1, <1>3 DEF lock_goes_on, Woken, Places
  <2> QED BY <1>3, <2>1, ObtainPreserves DEF lock_goes_on
<1>4. ASSUME NEW t \in Threads, lock_readonly(t) PROVE IInv'
  <2>1. /\ calls' \in [Threads -> 0 .. MaxCalls] /\ t \notin asleep
        /\ pc[t] \in {"none", "lock_readonly"}
    BY <1>1, <1>4 DEF lock_readonly, Calls, Woken, Places
  <2>2. CASE available_locks = 0
    BY <1>4, <2>1, <2>2, SleepPreserves DEF lock_readonly, none_available
  <2>3. CASE available_locks # 0
    BY <1>4, <2>1, <2>3, OneLockPreserves DEF lock_readonly, none_available
  <2> QED BY <2>2, <2>3
<1>5. ASSUME NEW t \in Threads, unlock_readonly(t) PROVE IInv'
  <2>1. pc[t] = "read"
    BY <1>5 DEF unlock_readonly
  <2>2. t \notin asleep /\ calls' \in [Threads -> 0 .. MaxCalls]
    BY <1>5, <2>1 DEF unlock_readonly, IInv, NoLostWakeup, TypeOK
  <2> QED BY <1>5, <2>1, <2>2, OneLockPreserves DEF unlock_readonly
<1>6. ASSUME NEW t \in Threads, SpuriousWakeup(t) PROVE IInv'
  <2>1. Readers' = Readers /\ Writers' = Writers
    BY <1>6 DEF SpuriousWakeup, Readers, Writers
  <2> QED BY <1>6, <2>1 DEF SpuriousWakeup, IInv, TypeOK, LocksAddUp, OneWriter, NoLostWakeup
<1>7. CASE UNCHANGED vars
  <2>1. Readers' = Readers /\ Writers' = Writers
    BY <1>7 DEF vars, Readers, Writers
  <2> QED BY <1>7, <2>1 DEF vars, IInv, TypeOK, LocksAddUp, OneWriter, NoLostWakeup
<1> QED BY <1>2, <1>3, <1>4, <1>5, <1>6, <1>7, UnlockPreserves DEF Next

\* The locks of a read_write_mutex always add up, it has one writer at most,
\* and nobody sleeps in it without a reason: for all numbers of threads and
\* locks.
THEOREM MutexInvariant ==
    Spec => [](TypeOK /\ LocksAddUp /\ OneWriter /\ NoLostWakeup)
<1>1. Init => IInv
  <2> SUFFICES ASSUME Init PROVE IInv
    OBVIOUS
  <2>1. Readers = {} /\ Writers = {} /\ Cardinality({}) = 0
    BY FS_EmptySet DEF Init, Readers, Writers
  <2>2. TypeOK
    <3>1. max_locks \in 0 .. max_locks /\ 0 \in 0 .. max_locks /\ 0 \in 0 .. MaxCalls
      BY ReadWriteMutexAssumption
    <3> QED BY <3>1, Zenon DEF Init, TypeOK, Places
  <2>3. LocksAddUp
    BY <2>1, ReadWriteMutexAssumption DEF Init, LocksAddUp
  <2>4. OneWriter /\ NoLostWakeup
    BY <2>1, Zenon DEF Init, OneWriter, NoLostWakeup
  <2> QED BY <2>2, <2>3, <2>4 DEF IInv
<1>2. IInv /\ [Next]_vars => IInv'
  BY Inductive
<1> QED BY <1>1, <1>2, PTL DEF Spec, IInv

\* Each step of the mutex is a step of ReadersWriters or changes no lock.
LEMMA StepRefines ==
    ASSUME IInv, IInv', [Next]_vars
    PROVE  [RW!Next]_<<Readers, Writers>>
<1> USE DEF RW!Next, RW!StartReading, RW!StartWriting, RW!Stop
<1>1. \A t \in Threads : pc[t] \in Places
  BY DEF IInv, TypeOK
<1>2. ASSUME NEW t \in Threads, NEW place \in Places, pc' = [pc EXCEPT ![t] = place]
      PROVE  \A u \in Threads : pc'[u] = IF u = t THEN place ELSE pc[u]
  BY <1>2 DEF IInv, TypeOK
<1>3. ASSUME NEW t \in Threads, pc[t] \notin {"read", "write"},
             \E place \in {"lock", "obtain", "lock_readonly"} : Go(t, place)
      PROVE  UNCHANGED <<Readers, Writers>>
  <2>1. PICK place \in {"lock", "obtain", "lock_readonly"} : Go(t, place)
    BY <1>3
  <2>2. \A u \in Threads : pc'[u] = IF u = t THEN place ELSE pc[u]
    <3>1. place \in Places /\ pc' = [pc EXCEPT ![t] = place]
      BY <2>1 DEF Go, Places
    <3> QED BY <1>2, <3>1, Zenon
  <2> QED BY <1>3, <2>2 DEF Readers, Writers
<1>4. ASSUME NEW t \in Threads, NEW n, Obtain(t, n), pc[t] \notin {"read", "write"}
      PROVE  [RW!Next]_<<Readers, Writers>>
  <2>1. CASE all_locks(n)
    <3>1. \A u \in Threads : pc'[u] = IF u = t THEN "write" ELSE pc[u]
      BY <1>2, <1>4, <2>1 DEF Obtain, Go, Places
    <3>2. Readers' = {} /\ Writers' = {t}
      <4>1. available_locks' = 0 /\ write_lock_active' /\ write_lock_in_progress' = FALSE
        BY <1>4, <2>1 DEF Obtain
      <4>2. Cardinality(Readers)' \in Nat /\ IsFiniteSet(Readers)'
        BY FS_Subset, FS_CardinalityType, ReadWriteMutexAssumption DEF Readers
      <4>3. 0 + Cardinality(Readers)' + max_locks = max_locks
        BY <4>1 DEF IInv, LocksAddUp
      <4>4. Cardinality(Readers)' = 0
        BY <4>2, <4>3, ReadWriteMutexAssumption
      <4>5. Readers' = {}
        BY <4>2, <4>4, FS_EmptySet
      <4>6. Writers' = {t}
        BY <3>1 DEF IInv, OneWriter, Writers
      <4> QED BY <4>5, <4>6
    <3>3. Readers = {} /\ Writers = {}
      BY <3>1, <3>2, <1>4 DEF Readers, Writers
    <3> QED BY <3>2, <3>3
  <2>2. CASE ~all_locks(n)
    BY <1>3, <1>4, <2>2 DEF Obtain
  <2> QED BY <2>1, <2>2
<1>5. ASSUME NEW t \in Threads, lock(t) \/ lock_goes_on(t)
      PROVE  [RW!Next]_<<Readers, Writers>>
  <2>1. pc[t] \notin {"read", "write"}
    BY <1>5 DEF lock, lock_goes_on, Calls, Woken
  <2>2. (\E n : Obtain(t, n)) \/ Go(t, "lock")
    BY <1>5 DEF lock, lock_goes_on
  <2> QED BY <1>3, <1>4, <2>1, <2>2
<1>6. ASSUME NEW t \in Threads, lock_readonly(t)
      PROVE  [RW!Next]_<<Readers, Writers>>
  <2>1. pc[t] \notin {"read", "write"}
    BY <1>6 DEF lock_readonly, Calls, Woken
  <2>2. CASE none_available
    BY <1>3, <1>6, <2>1, <2>2 DEF lock_readonly
  <2>3. CASE ~none_available
    <3>1. Go(t, "read") /\ available_locks # 0
      BY <1>6, <2>3 DEF lock_readonly, none_available
    <3>2. \A u \in Threads : pc'[u] = IF u = t THEN "read" ELSE pc[u]
      BY <1>2, <3>1, Zenon DEF Go, Places
    <3>3. Readers' = Readers \cup {t} /\ Writers' = Writers /\ t \notin Readers
      BY <2>1, <3>2 DEF Readers, Writers
    <3>4. /\ Cardinality(Readers) \in Nat /\ available_locks \in Nat
          /\ available_locks + Cardinality(Readers) +
                (IF write_lock_active THEN max_locks ELSE 0) <= max_locks
      <4>1. Cardinality(Readers) \in Nat
        BY Sums DEF IInv
      <4>2. CASE write_lock_in_progress
        <5>1. PICK u \in Threads : pc[u] = "obtain"
          BY <4>2, Zenon DEF IInv, OneWriter
        <5>2. locks_obtained[u] \in Nat
          BY DEF IInv, TypeOK
        <5> QED BY <4>1, <5>1, <5>2, Sums, ReadWriteMutexAssumption DEF IInv, TypeOK
      <4>3. CASE ~write_lock_in_progress
        BY <4>1, <4>3, Sums, ReadWriteMutexAssumption DEF IInv, TypeOK
      <4> QED BY <4>2, <4>3
    <3>5. ~write_lock_active /\ Cardinality(Readers) < max_locks
      BY <3>1, <3>4, ReadWriteMutexAssumption
    <3>6. Writers = {}
      BY <3>5, Zenon DEF IInv, OneWriter
    <3>7. RW!Cardinality(Readers) = Cardinality(Readers)
      BY DEF Cardinality, RW!Cardinality
    <3>8. RW!StartReading(t)
      BY <3>3, <3>5, <3>6, <3>7
    <3> QED BY <3>8
  <2> QED BY <2>2, <2>3
<1>7. ASSUME NEW t \in Threads, unlock(t) \/ unlock_readonly(t)
      PROVE  [RW!Next]_<<Readers, Writers>>
  <2>1. \A u \in Threads : pc'[u] = IF u = t THEN "none" ELSE pc[u]
    BY <1>2, <1>7 DEF unlock, unlock_readonly, Go, Places
  <2>2. t \in Readers \cup Writers
    BY <1>7 DEF unlock, unlock_readonly, Readers, Writers
  <2>3. Readers' = Readers \ {t} /\ Writers' = Writers \ {t}
    BY <2>1 DEF Readers, Writers
  <2> QED BY <2>2, <2>3
<1>8. ASSUME pc' = pc PROVE UNCHANGED <<Readers, Writers>>
  BY <1>8 DEF Readers, Writers
<1> QED BY <1>5, <1>6, <1>7, <1>8 DEF Next, SpuriousWakeup, vars

\* A read_write_mutex is what ReadersWriters describes.
THEOREM MutexIsReadersWriters ==
    Spec => IsReadersWriters
<1>1. Init => RW!Init
  BY DEF Init, RW!Init, Readers, Writers
<1>2. Spec => []IInv
  BY MutexInvariant DEF IInv
<1>3. IInv /\ IInv' /\ [Next]_vars => [RW!Next]_<<Readers, Writers>>
  BY StepRefines
<1> QED BY <1>1, <1>2, <1>3, PTL DEF Spec, IsReadersWriters, RW!Spec

-----------------------------------------------------------------------------
(* The server *)

CONSTANTS Connections, NoConnection, starter, Clearers, Errors, Limits
VARIABLES running, shutting_down, cons, thread_count, max_connections, client, conn, service,
          at, waiting           \* the server's pc and asleep

Srv == INSTANCE Server WITH pc <- at, asleep <- waiting

\* The operators of FiniteSets that Server has are those that are used here.
LEMMA SetsAreSets ==
    /\ \A S : Srv!IsFiniteSet(S) <=> IsFiniteSet(S)
    /\ \A S : Srv!Cardinality(S) = Cardinality(S)
<1>1. \A S : Srv!IsFiniteSet(S) <=> IsFiniteSet(S)
  BY Zenon DEF IsFiniteSet, Srv!IsFiniteSet
<1>2. \A S : Srv!Cardinality(S) = Cardinality(S)
  BY <1>1, Zenon DEF Cardinality, Srv!Cardinality
<1> QED
  BY <1>1, <1>2

\* ThreadsCounted.
Counted == thread_count = Cardinality(Srv!Served) - (IF at[starter] = "count" THEN 1 ELSE 0)


Starting == {"accept", "check", "add", "param", "thread", "count", "limit", "limit_again",
             "close", "failed"}
ClearPlaces == {"clear", "clear_limit", "clear_connections", "clear_threads",
                "clear_listener", "clear_done"}
ConnStates == {"new", "open", "shut", "deleted", "used_after_delete"}
ServiceStates == {"none", "on_connect", "remove", "uncount", "done"}

ServerTypes ==
    /\ running \in BOOLEAN
    /\ shutting_down \in BOOLEAN
    /\ cons \subseteq Connections
    /\ thread_count \in Int
    /\ max_connections \in Nat
    /\ at \in [Srv!AllThreads -> {"out"} \cup Starting \cup ClearPlaces]
    /\ waiting \subseteq Srv!AllThreads
    /\ client \in Connections \cup {NoConnection}
    /\ conn \in [Connections -> ConnStates]
    /\ service \in [Connections -> ServiceStates]

\* The connection that start() is setting up has no thread yet, is in cons
\* only after it was added, and only a clear() can have shut it down.
SetUp ==
    /\ at[starter] \in {"add", "param", "thread"} => client # NoConnection
    /\ at[starter] \in {"check", "add"} /\ client # NoConnection =>
           conn[client] = "open" /\ service[client] = "none" /\ client \notin cons
    /\ at[starter] \in {"param", "thread"} =>
           conn[client] \in {"open", "shut"} /\ service[client] = "none"

\* A connection nobody has accepted has no thread and is not in cons, and one
\* that a thread serves is there until that thread deletes it.
Objects ==
    \A c \in Connections :
        /\ conn[c] = "new" => service[c] = "none" /\ c \notin cons
        /\ "param" \notin Errors =>
               /\ conn[c] # "used_after_delete"
               /\ c \in cons => conn[c] = "open"
               /\ service[c] \in {"on_connect", "remove"} => conn[c] \in {"open", "shut"}

\* Without a clear() in another thread, what is open and served is in cons.
Known ==
    "param" \notin Errors /\ Clearers = {} =>
        /\ at[starter] \in {"param", "thread"} => client \in cons
        /\ \A c \in Connections : service[c] = "on_connect" /\ conn[c] = "open" => c \in cons

\* running is set while start() accepts, and nobody but start() is there.
Runs ==
    /\ running <=> at[starter] \in Starting
    /\ \A t \in Clearers : at[t] \in {"out"} \cup ClearPlaces

\* start() in its own clear() has waited for the service threads.
AllServed == at[starter] \in {"clear_listener", "clear_done"} => Srv!Served = {}

ServerInv ==
    /\ ServerTypes
    /\ SetUp
    /\ Objects
    /\ Known
    /\ Runs
    /\ AllServed
    /\ Counted
    /\ Srv!NobodyOversleeps

-----------------------------------------------------------------------------
(* Places and counting *)

\* starter is a thread, and the places are different strings.
LEMMA Facts ==
    ASSUME Srv!ServerAssumption, ServerTypes
    PROVE  /\ starter \in Srv!AllThreads /\ starter \notin Clearers
           /\ Srv!AllThreads = {starter} \cup Clearers
           /\ at[starter] \in {"out"} \cup Starting \cup ClearPlaces
           /\ IsFiniteSet(Srv!Served) /\ Cardinality(Srv!Served) \in Nat
           /\ NoConnection \notin Connections
<1>1. Srv!Served \subseteq Connections /\ IsFiniteSet(Connections)
  BY SetsAreSets, Zenon DEF Srv!Served, Srv!ServerAssumption
<1>2. IsFiniteSet(Srv!Served)
  BY <1>1, FS_Subset
<1> QED
  BY <1>2, FS_CardinalityType DEF Srv!AllThreads, Srv!ServerAssumption, ServerTypes

\* start() begins to accept.
LEMMA StartInv ==
    ASSUME Srv!ServerAssumption, ServerInv, Srv!Start
    PROVE  ServerInv'
<1> USE DEF Srv!Start, Srv!At, Srv!Go
<1>0. ServerTypes /\ SetUp /\ Objects /\ Known /\ Runs /\ AllServed /\ Counted /\ Srv!NobodyOversleeps
  BY DEF ServerInv
<1>1. ServerTypes'
  BY <1>0, Facts DEF ServerTypes, Starting, ClearPlaces, ConnStates, ServiceStates, SetUp,
     Srv!ServerAssumption
<1>2. SetUp'
  BY <1>0, Facts DEF ServerTypes, SetUp, Objects, Starting, ClearPlaces, Runs
<1>3. Objects'
  BY <1>0, Facts DEF ServerTypes, SetUp, Objects
<1>4. Known'
  BY <1>0, Facts DEF ServerTypes, SetUp, Objects, Known
<1>5. Runs'
  BY <1>0, Facts DEF ServerTypes, Runs, Starting, ClearPlaces
<1>6. AllServed'
  BY <1>0, Facts DEF ServerTypes, AllServed, Srv!Served, SetUp
<1>7. Counted'
  <2>1. Srv!Served' = Srv!Served
    BY <1>0 DEF Srv!Served
  <2> QED
    BY <1>0, <2>1, Facts DEF Counted, ServerTypes
<1>8. Srv!NobodyOversleeps'
  BY <1>0, Facts DEF ServerTypes, Srv!NobodyOversleeps, Runs, Starting, ClearPlaces
<1> QED
  BY <1>1, <1>2, <1>3, <1>4, <1>5, <1>6, <1>7, <1>8 DEF ServerInv

\* create_listener fails.
LEMMA StartFailsInv ==
    ASSUME Srv!ServerAssumption, ServerInv, Srv!StartFails
    PROVE  ServerInv'
<1> USE DEF Srv!StartFails, Srv!At, Srv!Go
<1>0. ServerTypes /\ SetUp /\ Objects /\ Known /\ Runs /\ AllServed /\ Counted /\ Srv!NobodyOversleeps
  BY DEF ServerInv
<1>1. ServerTypes'
  BY <1>0, Facts DEF ServerTypes, Starting, ClearPlaces, ConnStates, ServiceStates, SetUp,
     Srv!ServerAssumption
<1>2. SetUp'
  BY <1>0, Facts DEF ServerTypes, SetUp, Objects, Starting, ClearPlaces, Runs
<1>3. Objects'
  BY <1>0, Facts DEF ServerTypes, SetUp, Objects
<1>4. Known'
  BY <1>0, Facts DEF ServerTypes, SetUp, Objects, Known
<1>5. Runs'
  BY <1>0, Facts DEF ServerTypes, Runs, Starting, ClearPlaces
<1>6. AllServed'
  BY <1>0, Facts DEF ServerTypes, AllServed, Srv!Served, SetUp
<1>7. Counted'
  <2>1. Srv!Served' = Srv!Served
    BY <1>0 DEF Srv!Served
  <2> QED
    BY <1>0, <2>1, Facts DEF Counted, ServerTypes
<1>8. Srv!NobodyOversleeps'
  BY <1>0, Facts DEF ServerTypes, Srv!NobodyOversleeps, Runs, Starting, ClearPlaces
<1> QED
  BY <1>1, <1>2, <1>3, <1>4, <1>5, <1>6, <1>7, <1>8 DEF ServerInv

\* accept returns a connection, times out or fails.
LEMMA AcceptInv ==
    ASSUME Srv!ServerAssumption, ServerInv, Srv!Accept
    PROVE  ServerInv'
<1> USE DEF Srv!Accept, Srv!At, Srv!Go
<1>0. ServerTypes /\ SetUp /\ Objects /\ Known /\ Runs /\ AllServed /\ Counted /\ Srv!NobodyOversleeps
  BY DEF ServerInv
<1>1. ServerTypes'
  BY <1>0, Facts DEF ServerTypes, Starting, ClearPlaces, ConnStates, ServiceStates, SetUp,
     Srv!ServerAssumption
<1>2. SetUp'
  BY <1>0, Facts DEF ServerTypes, SetUp, Objects, Starting, ClearPlaces, Runs
<1>3. Objects'
  BY <1>0, Facts DEF ServerTypes, SetUp, Objects
<1>4. Known'
  BY <1>0, Facts DEF ServerTypes, SetUp, Objects, Known
<1>5. Runs'
  BY <1>0, Facts DEF ServerTypes, Runs, Starting, ClearPlaces
<1>6. AllServed'
  BY <1>0, Facts DEF ServerTypes, AllServed, Srv!Served, SetUp
<1>7. Counted'
  <2>1. Srv!Served' = Srv!Served
    BY <1>0 DEF Srv!Served
  <2> QED
    BY <1>0, <2>1, Facts DEF Counted, ServerTypes
<1>8. Srv!NobodyOversleeps'
  BY <1>0, Facts DEF ServerTypes, Srv!NobodyOversleeps, Runs, Starting, ClearPlaces
<1> QED
  BY <1>1, <1>2, <1>3, <1>4, <1>5, <1>6, <1>7, <1>8 DEF ServerInv

\* start() looks at shutting_down.
LEMMA CheckInv ==
    ASSUME Srv!ServerAssumption, ServerInv, Srv!Check
    PROVE  ServerInv'
<1> USE DEF Srv!Check, Srv!At, Srv!Go, Srv!AfterAccept, Srv!delete
<1>0. ServerTypes /\ SetUp /\ Objects /\ Known /\ Runs /\ AllServed /\ Counted /\ Srv!NobodyOversleeps
  BY DEF ServerInv
<1>1. ServerTypes'
  BY <1>0, Facts DEF ServerTypes, Starting, ClearPlaces, ConnStates, ServiceStates, SetUp,
     Srv!ServerAssumption
<1>2. SetUp'
  BY <1>0, Facts DEF ServerTypes, SetUp, Objects, Starting, ClearPlaces, Runs
<1>3. Objects'
  BY <1>0, Facts DEF ServerTypes, SetUp, Objects
<1>4. Known'
  BY <1>0, Facts DEF ServerTypes, SetUp, Objects, Known
<1>5. Runs'
  BY <1>0, Facts DEF ServerTypes, Runs, Starting, ClearPlaces
<1>6. AllServed'
  BY <1>0, Facts DEF ServerTypes, AllServed, Srv!Served, SetUp
<1>7. Counted'
  <2>1. Srv!Served' = Srv!Served
    BY <1>0 DEF Srv!Served
  <2> QED
    BY <1>0, <2>1, Facts DEF Counted, ServerTypes
<1>8. Srv!NobodyOversleeps'
  BY <1>0, Facts DEF ServerTypes, Srv!NobodyOversleeps, Runs, Starting, ClearPlaces
<1> QED
  BY <1>1, <1>2, <1>3, <1>4, <1>5, <1>6, <1>7, <1>8 DEF ServerInv

\* The connection is added to cons.
LEMMA AddInv ==
    ASSUME Srv!ServerAssumption, ServerInv, Srv!Add
    PROVE  ServerInv'
<1> USE DEF Srv!Add, Srv!At, Srv!Go, Srv!delete
<1>0. ServerTypes /\ SetUp /\ Objects /\ Known /\ Runs /\ AllServed /\ Counted /\ Srv!NobodyOversleeps
  BY DEF ServerInv
<1>1. ServerTypes'
  BY <1>0, Facts DEF ServerTypes, Starting, ClearPlaces, ConnStates, ServiceStates, SetUp,
     Srv!ServerAssumption
<1>2. SetUp'
  BY <1>0, Facts DEF ServerTypes, SetUp, Objects, Starting, ClearPlaces, Runs
<1>3. Objects'
  BY <1>0, Facts DEF ServerTypes, SetUp, Objects
<1>4. Known'
  BY <1>0, Facts DEF ServerTypes, SetUp, Objects, Known
<1>5. Runs'
  BY <1>0, Facts DEF ServerTypes, Runs, Starting, ClearPlaces
<1>6. AllServed'
  BY <1>0, Facts DEF ServerTypes, AllServed, Srv!Served, SetUp
<1>7. Counted'
  <2>1. Srv!Served' = Srv!Served
    BY <1>0 DEF Srv!Served
  <2> QED
    BY <1>0, <2>1, Facts DEF Counted, ServerTypes
<1>8. Srv!NobodyOversleeps'
  BY <1>0, Facts DEF ServerTypes, Srv!NobodyOversleeps, Runs, Starting, ClearPlaces
<1> QED
  BY <1>1, <1>2, <1>3, <1>4, <1>5, <1>6, <1>7, <1>8 DEF ServerInv

\* The param of the service thread is allocated.
LEMMA MakeParamInv ==
    ASSUME Srv!ServerAssumption, ServerInv, Srv!MakeParam
    PROVE  ServerInv'
<1> USE DEF Srv!MakeParam, Srv!At, Srv!Go, Srv!delete
<1>0. ServerTypes /\ SetUp /\ Objects /\ Known /\ Runs /\ AllServed /\ Counted /\ Srv!NobodyOversleeps
  BY DEF ServerInv
<1>1. ServerTypes'
  BY <1>0, Facts DEF ServerTypes, Starting, ClearPlaces, ConnStates, ServiceStates, SetUp,
     Srv!ServerAssumption
<1>2. SetUp'
  BY <1>0, Facts DEF ServerTypes, SetUp, Objects, Starting, ClearPlaces, Runs
<1>3. Objects'
  BY <1>0, Facts DEF ServerTypes, SetUp, Objects
<1>4. Known'
  BY <1>0, Facts DEF ServerTypes, SetUp, Objects, Known
<1>5. Runs'
  BY <1>0, Facts DEF ServerTypes, Runs, Starting, ClearPlaces
<1>6. AllServed'
  BY <1>0, Facts DEF ServerTypes, AllServed, Srv!Served, SetUp
<1>7. Counted'
  <2>1. Srv!Served' = Srv!Served
    BY <1>0 DEF Srv!Served
  <2> QED
    BY <1>0, <2>1, Facts DEF Counted, ServerTypes
<1>8. Srv!NobodyOversleeps'
  BY <1>0, Facts DEF ServerTypes, Srv!NobodyOversleeps, Runs, Starting, ClearPlaces
<1> QED
  BY <1>1, <1>2, <1>3, <1>4, <1>5, <1>6, <1>7, <1>8 DEF ServerInv

\* The service thread is created.
LEMMA CreateThreadInv ==
    ASSUME Srv!ServerAssumption, ServerInv, Srv!create_new_thread
    PROVE  ServerInv'
<1> USE DEF Srv!create_new_thread, Srv!At, Srv!Go, Srv!delete, Srv!cons_without
<1>0. ServerTypes /\ SetUp /\ Objects /\ Known /\ Runs /\ AllServed /\ Counted /\ Srv!NobodyOversleeps
  BY DEF ServerInv
<1>1. ServerTypes'
  BY <1>0, Facts DEF ServerTypes, Starting, ClearPlaces, ConnStates, ServiceStates, SetUp,
     Srv!ServerAssumption
<1>2. SetUp'
  BY <1>0, Facts DEF ServerTypes, SetUp, Objects, Starting, ClearPlaces, Runs
<1>3. Objects'
  BY <1>0, Facts DEF ServerTypes, SetUp, Objects
<1>4. Known'
  BY <1>0, Facts DEF ServerTypes, SetUp, Objects, Known
<1>5. Runs'
  BY <1>0, Facts DEF ServerTypes, Runs, Starting, ClearPlaces
<1>6. AllServed'
  BY <1>0, Facts DEF ServerTypes, AllServed, Srv!Served, SetUp
<1>7. Counted'
  <2>1. CASE service' = [service EXCEPT ![client] = "on_connect"] /\ at'[starter] = "count"
    <3>1. client \in Connections /\ client \notin Srv!Served /\ at[starter] = "thread"
      BY <1>0, Facts DEF ServerTypes, SetUp, Srv!Served
    <3>2. Srv!Served' = Srv!Served \cup {client}
      BY <1>0, <2>1, <3>1 DEF Srv!Served, ServerTypes
    <3>3. Cardinality(Srv!Served') = Cardinality(Srv!Served) + 1
      BY <1>0, <3>1, <3>2, Facts, FS_AddElement, Zenon
    <3> QED
      BY <1>0, <2>1, <3>1, <3>3, Facts DEF Counted, ServerTypes
  <2>2. CASE service' = service /\ at'[starter] = "failed"
    <3>1. Srv!Served' = Srv!Served
      BY <2>2 DEF Srv!Served
    <3> QED
      BY <1>0, <2>2, <3>1, Facts DEF Counted, ServerTypes
  <2> QED
    BY <1>0, <2>1, <2>2, Facts DEF ServerTypes
<1>8. Srv!NobodyOversleeps'
  BY <1>0, Facts DEF ServerTypes, Srv!NobodyOversleeps, Runs, Starting, ClearPlaces
<1> QED
  BY <1>1, <1>2, <1>3, <1>4, <1>5, <1>6, <1>7, <1>8 DEF ServerInv

\* start() counts the thread it has created.
LEMMA CountInv ==
    ASSUME Srv!ServerAssumption, ServerInv, Srv!Count
    PROVE  ServerInv'
<1> USE DEF Srv!Count, Srv!At, Srv!Go, Srv!broadcast, Srv!thread_count_zero
<1>0. ServerTypes /\ SetUp /\ Objects /\ Known /\ Runs /\ AllServed /\ Counted /\ Srv!NobodyOversleeps
  BY DEF ServerInv
<1>1. ServerTypes'
  BY <1>0, Facts DEF ServerTypes, Starting, ClearPlaces, ConnStates, ServiceStates, SetUp,
     Srv!ServerAssumption
<1>2. SetUp'
  BY <1>0, Facts DEF ServerTypes, SetUp, Objects, Starting, ClearPlaces, Runs
<1>3. Objects'
  BY <1>0, Facts DEF ServerTypes, SetUp, Objects
<1>4. Known'
  BY <1>0, Facts DEF ServerTypes, SetUp, Objects, Known
<1>5. Runs'
  BY <1>0, Facts DEF ServerTypes, Runs, Starting, ClearPlaces
<1>6. AllServed'
  BY <1>0, Facts DEF ServerTypes, AllServed, Srv!Served, SetUp
<1>7. Counted'
  <2>1. Srv!Served' = Srv!Served
    BY <1>0 DEF Srv!Served
  <2> QED
    BY <1>0, <2>1, Facts DEF Counted, ServerTypes
<1>8. Srv!NobodyOversleeps'
  BY <1>0, Facts DEF ServerTypes, Srv!NobodyOversleeps, Runs, Starting, ClearPlaces
<1> QED
  BY <1>1, <1>2, <1>3, <1>4, <1>5, <1>6, <1>7, <1>8 DEF ServerInv

\* start() waits while there are too many threads.
LEMMA LimitInv ==
    ASSUME Srv!ServerAssumption, ServerInv, Srv!Limit
    PROVE  ServerInv'
<1> USE DEF Srv!Limit, Srv!At, Srv!Go, Srv!full
<1>0. ServerTypes /\ SetUp /\ Objects /\ Known /\ Runs /\ AllServed /\ Counted /\ Srv!NobodyOversleeps
  BY DEF ServerInv
<1>1. ServerTypes'
  BY <1>0, Facts DEF ServerTypes, Starting, ClearPlaces, ConnStates, ServiceStates, SetUp,
     Srv!ServerAssumption
<1>2. SetUp'
  BY <1>0, Facts DEF ServerTypes, SetUp, Objects, Starting, ClearPlaces, Runs
<1>3. Objects'
  BY <1>0, Facts DEF ServerTypes, SetUp, Objects
<1>4. Known'
  BY <1>0, Facts DEF ServerTypes, SetUp, Objects, Known
<1>5. Runs'
  BY <1>0, Facts DEF ServerTypes, Runs, Starting, ClearPlaces
<1>6. AllServed'
  BY <1>0, Facts DEF ServerTypes, AllServed, Srv!Served, SetUp
<1>7. Counted'
  <2>1. Srv!Served' = Srv!Served
    BY <1>0 DEF Srv!Served
  <2> QED
    BY <1>0, <2>1, Facts DEF Counted, ServerTypes
<1>8. Srv!NobodyOversleeps'
  BY <1>0, Facts DEF ServerTypes, Srv!NobodyOversleeps, Runs, Starting, ClearPlaces
<1> QED
  BY <1>1, <1>2, <1>3, <1>4, <1>5, <1>6, <1>7, <1>8 DEF ServerInv

\* start() has left its loop.
LEMMA CloseInv ==
    ASSUME Srv!ServerAssumption, ServerInv, Srv!Close
    PROVE  ServerInv'
<1> USE DEF Srv!Close, Srv!At, Srv!Go, Srv!told_closed, Srv!broadcast, Srv!running_signaler
<1>0. ServerTypes /\ SetUp /\ Objects /\ Known /\ Runs /\ AllServed /\ Counted /\ Srv!NobodyOversleeps
  BY DEF ServerInv
<1>1. ServerTypes'
  BY <1>0, Facts, Zenon DEF ServerTypes, Starting, ClearPlaces, ConnStates, ServiceStates, SetUp,
     Srv!ServerAssumption
<1>2. SetUp'
  BY <1>0, Facts DEF ServerTypes, SetUp, Objects, Starting, ClearPlaces, Runs
<1>3. Objects'
  BY <1>0, Facts DEF ServerTypes, SetUp, Objects
<1>4. Known'
  BY <1>0, Facts DEF ServerTypes, SetUp, Objects, Known
<1>5. Runs'
  BY <1>0, Facts DEF ServerTypes, Runs, Starting, ClearPlaces
<1>6. AllServed'
  BY <1>0, Facts DEF ServerTypes, AllServed, Srv!Served, SetUp
<1>7. Counted'
  <2>1. Srv!Served' = Srv!Served
    BY <1>0 DEF Srv!Served
  <2> QED
    BY <1>0, <2>1, Facts DEF Counted, ServerTypes
<1>8. Srv!NobodyOversleeps'
  BY <1>0, Facts DEF ServerTypes, Srv!NobodyOversleeps, Runs, Starting, ClearPlaces
<1> QED
  BY <1>1, <1>2, <1>3, <1>4, <1>5, <1>6, <1>7, <1>8 DEF ServerInv

\* clear() is called.
LEMMA ClearInv ==
    ASSUME Srv!ServerAssumption, ServerInv, NEW t \in Srv!AllThreads, Srv!Clear(t)
    PROVE  ServerInv'
<1> USE DEF Srv!Clear, Srv!At, Srv!Go
<1>0. ServerTypes /\ SetUp /\ Objects /\ Known /\ Runs /\ AllServed /\ Counted /\ Srv!NobodyOversleeps
  BY DEF ServerInv
<1>1. ServerTypes'
  BY <1>0, Facts DEF ServerTypes, Starting, ClearPlaces, ConnStates, ServiceStates, SetUp,
     Srv!ServerAssumption
<1>2. SetUp'
  BY <1>0, Facts DEF ServerTypes, SetUp, Objects, Starting, ClearPlaces, Runs
<1>3. Objects'
  BY <1>0, Facts DEF ServerTypes, SetUp, Objects
<1>4. Known'
  BY <1>0, Facts DEF ServerTypes, SetUp, Objects, Known
<1>5. Runs'
  BY <1>0, Facts DEF ServerTypes, Runs, Starting, ClearPlaces
<1>6. AllServed'
  BY <1>0, Facts DEF ServerTypes, AllServed, Srv!Served, SetUp
<1>7. Counted'
  <2>1. Srv!Served' = Srv!Served
    BY <1>0 DEF Srv!Served
  <2> QED
    BY <1>0, <2>1, Facts DEF Counted, ServerTypes
<1>8. Srv!NobodyOversleeps'
  BY <1>0, Facts DEF ServerTypes, Srv!NobodyOversleeps, Runs, Starting, ClearPlaces
<1> QED
  BY <1>1, <1>2, <1>3, <1>4, <1>5, <1>6, <1>7, <1>8 DEF ServerInv

\* clear() sets shutting_down.
LEMMA ClearSignalsInv ==
    ASSUME Srv!ServerAssumption, ServerInv, NEW t \in Srv!AllThreads, Srv!ClearSignals(t)
    PROVE  ServerInv'
<1> USE DEF Srv!ClearSignals, Srv!At, Srv!Go
<1>0. ServerTypes /\ SetUp /\ Objects /\ Known /\ Runs /\ AllServed /\ Counted /\ Srv!NobodyOversleeps
  BY DEF ServerInv
<1>1. ServerTypes'
  BY <1>0, Facts DEF ServerTypes, Starting, ClearPlaces, ConnStates, ServiceStates, SetUp,
     Srv!ServerAssumption
<1>2. SetUp'
  BY <1>0, Facts DEF ServerTypes, SetUp, Objects, Starting, ClearPlaces, Runs
<1>3. Objects'
  BY <1>0, Facts DEF ServerTypes, SetUp, Objects
<1>4. Known'
  BY <1>0, Facts DEF ServerTypes, SetUp, Objects, Known
<1>5. Runs'
  BY <1>0, Facts DEF ServerTypes, Runs, Starting, ClearPlaces
<1>6. AllServed'
  BY <1>0, Facts DEF ServerTypes, AllServed, Srv!Served, SetUp
<1>7. Counted'
  <2>1. Srv!Served' = Srv!Served
    BY <1>0 DEF Srv!Served
  <2> QED
    BY <1>0, <2>1, Facts DEF Counted, ServerTypes
<1>8. Srv!NobodyOversleeps'
  BY <1>0, Facts DEF ServerTypes, Srv!NobodyOversleeps, Runs, Starting, ClearPlaces
<1> QED
  BY <1>1, <1>2, <1>3, <1>4, <1>5, <1>6, <1>7, <1>8 DEF ServerInv

\* clear() resets max_connections.
LEMMA ClearLimitInv ==
    ASSUME Srv!ServerAssumption, ServerInv, NEW t \in Srv!AllThreads, Srv!ClearLimit(t)
    PROVE  ServerInv'
<1> USE DEF Srv!ClearLimit, Srv!At, Srv!Go
<1>0. ServerTypes /\ SetUp /\ Objects /\ Known /\ Runs /\ AllServed /\ Counted /\ Srv!NobodyOversleeps
  BY DEF ServerInv
<1>1. ServerTypes'
  BY <1>0, Facts DEF ServerTypes, Starting, ClearPlaces, ConnStates, ServiceStates, SetUp,
     Srv!ServerAssumption
<1>2. SetUp'
  BY <1>0, Facts DEF ServerTypes, SetUp, Objects, Starting, ClearPlaces, Runs
<1>3. Objects'
  BY <1>0, Facts DEF ServerTypes, SetUp, Objects
<1>4. Known'
  BY <1>0, Facts DEF ServerTypes, SetUp, Objects, Known
<1>5. Runs'
  BY <1>0, Facts DEF ServerTypes, Runs, Starting, ClearPlaces
<1>6. AllServed'
  BY <1>0, Facts DEF ServerTypes, AllServed, Srv!Served, SetUp
<1>7. Counted'
  <2>1. Srv!Served' = Srv!Served
    BY <1>0 DEF Srv!Served
  <2> QED
    BY <1>0, <2>1, Facts DEF Counted, ServerTypes
<1>8. Srv!NobodyOversleeps'
  BY <1>0, Facts DEF ServerTypes, Srv!NobodyOversleeps, Runs, Starting, ClearPlaces
<1> QED
  BY <1>1, <1>2, <1>3, <1>4, <1>5, <1>6, <1>7, <1>8 DEF ServerInv

\* clear() shuts all connections down.
LEMMA ClearConnectionsInv ==
    ASSUME Srv!ServerAssumption, ServerInv, NEW t \in Srv!AllThreads, Srv!ClearConnections(t)
    PROVE  ServerInv'
<1> USE DEF Srv!ClearConnections, Srv!At, Srv!Go, Srv!told, Srv!shutdown
<1>0. ServerTypes /\ SetUp /\ Objects /\ Known /\ Runs /\ AllServed /\ Counted /\ Srv!NobodyOversleeps
  BY DEF ServerInv
<1>1. ServerTypes'
  BY <1>0, Facts DEF ServerTypes, Starting, ClearPlaces, ConnStates, ServiceStates, SetUp,
     Srv!ServerAssumption
<1>2. SetUp'
  BY <1>0, Facts DEF ServerTypes, SetUp, Objects, Starting, ClearPlaces, Runs
<1>3. Objects'
  BY <1>0, Facts DEF ServerTypes, SetUp, Objects
<1>4. Known'
  BY <1>0, Facts DEF ServerTypes, SetUp, Objects, Known
<1>5. Runs'
  BY <1>0, Facts DEF ServerTypes, Runs, Starting, ClearPlaces
<1>6. AllServed'
  BY <1>0, Facts DEF ServerTypes, AllServed, Srv!Served, SetUp
<1>7. Counted'
  <2>1. Srv!Served' = Srv!Served
    BY <1>0 DEF Srv!Served
  <2> QED
    BY <1>0, <2>1, Facts DEF Counted, ServerTypes
<1>8. Srv!NobodyOversleeps'
  BY <1>0, Facts DEF ServerTypes, Srv!NobodyOversleeps, Runs, Starting, ClearPlaces
<1> QED
  BY <1>1, <1>2, <1>3, <1>4, <1>5, <1>6, <1>7, <1>8 DEF ServerInv

\* clear() waits for the service threads and for the listener.
LEMMA ClearWaitsInv ==
    ASSUME Srv!ServerAssumption, ServerInv, NEW t \in Srv!AllThreads, Srv!ClearWaits(t)
    PROVE  ServerInv'
<1> USE DEF Srv!ClearWaits, Srv!At, Srv!Go, Srv!HasToWait
<1>0. ServerTypes /\ SetUp /\ Objects /\ Known /\ Runs /\ AllServed /\ Counted /\ Srv!NobodyOversleeps
  BY DEF ServerInv
<1>1. ServerTypes'
  BY <1>0, Facts DEF ServerTypes, Starting, ClearPlaces, ConnStates, ServiceStates, SetUp,
     Srv!ServerAssumption
<1>2. SetUp'
  BY <1>0, Facts DEF ServerTypes, SetUp, Objects, Starting, ClearPlaces, Runs
<1>3. Objects'
  BY <1>0, Facts DEF ServerTypes, SetUp, Objects
<1>4. Known'
  BY <1>0, Facts DEF ServerTypes, SetUp, Objects, Known
<1>5. Runs'
  BY <1>0, Facts DEF ServerTypes, Runs, Starting, ClearPlaces
<1>6. AllServed'
  <2>1. Srv!Served' = Srv!Served
    BY DEF Srv!Served
  <2>2. CASE at[starter] = "clear_threads" /\ at'[starter] = "clear_listener"
    <3>1. ~(thread_count > 0)
      BY <1>0, <2>2, Facts DEF ServerTypes
    <3>2. Cardinality(Srv!Served) = 0
      BY <1>0, <2>2, <3>1, Facts DEF ServerTypes, Counted
    <3> QED
      BY <1>0, <2>1, <3>2, Facts, FS_EmptySet DEF AllServed
  <2>3. CASE ~(at[starter] = "clear_threads" /\ at'[starter] = "clear_listener")
    <3>1. at'[starter] \in {"clear_listener", "clear_done"} => at[starter] \in {"clear_listener", "clear_done"}
      BY <1>0, <2>3, Facts DEF ServerTypes
    <3> QED
      BY <1>0, <2>1, <3>1 DEF AllServed
  <2> QED
    BY <2>2, <2>3
<1>7. Counted'
  <2>1. Srv!Served' = Srv!Served
    BY <1>0 DEF Srv!Served
  <2> QED
    BY <1>0, <2>1, Facts DEF Counted, ServerTypes
<1>8. Srv!NobodyOversleeps'
  BY <1>0, Facts DEF ServerTypes, Srv!NobodyOversleeps, Runs, Starting, ClearPlaces
<1> QED
  BY <1>1, <1>2, <1>3, <1>4, <1>5, <1>6, <1>7, <1>8 DEF ServerInv

\* clear() returns.
LEMMA ClearReturnsInv ==
    ASSUME Srv!ServerAssumption, ServerInv, NEW t \in Srv!AllThreads, Srv!ClearReturns(t)
    PROVE  ServerInv'
<1> USE DEF Srv!ClearReturns, Srv!At, Srv!Go
<1>0. ServerTypes /\ SetUp /\ Objects /\ Known /\ Runs /\ AllServed /\ Counted /\ Srv!NobodyOversleeps
  BY DEF ServerInv
<1>1. ServerTypes'
  BY <1>0, Facts, Zenon DEF ServerTypes, Starting, ClearPlaces, ConnStates, ServiceStates, SetUp,
     Srv!ServerAssumption
<1>2. SetUp'
  BY <1>0, Facts DEF ServerTypes, SetUp, Objects, Starting, ClearPlaces, Runs
<1>3. Objects'
  BY <1>0, Facts DEF ServerTypes, SetUp, Objects
<1>4. Known'
  BY <1>0, Facts DEF ServerTypes, SetUp, Objects, Known
<1>5. Runs'
  BY <1>0, Facts DEF ServerTypes, Runs, Starting, ClearPlaces
<1>6. AllServed'
  BY <1>0, Facts DEF ServerTypes, AllServed, Srv!Served, SetUp
<1>7. Counted'
  <2>1. Srv!Served' = Srv!Served
    BY <1>0 DEF Srv!Served
  <2> QED
    BY <1>0, <2>1, Facts DEF Counted, ServerTypes
<1>8. Srv!NobodyOversleeps'
  BY <1>0, Facts DEF ServerTypes, Srv!NobodyOversleeps, Runs, Starting, ClearPlaces
<1> QED
  BY <1>1, <1>2, <1>3, <1>4, <1>5, <1>6, <1>7, <1>8 DEF ServerInv

\* set_max_connections is called.
LEMMA LimitsInv ==
    ASSUME Srv!ServerAssumption, ServerInv, NEW n \in Limits, Srv!set_max_connections(n)
    PROVE  ServerInv'
<1> USE DEF Srv!set_max_connections, Srv!At, Srv!Go
<1>0. ServerTypes /\ SetUp /\ Objects /\ Known /\ Runs /\ AllServed /\ Counted /\ Srv!NobodyOversleeps
  BY DEF ServerInv
<1>1. ServerTypes'
  BY <1>0, Facts DEF ServerTypes, Starting, ClearPlaces, ConnStates, ServiceStates, SetUp,
     Srv!ServerAssumption
<1>2. SetUp'
  BY <1>0, Facts DEF ServerTypes, SetUp, Objects, Starting, ClearPlaces, Runs
<1>3. Objects'
  BY <1>0, Facts DEF ServerTypes, SetUp, Objects
<1>4. Known'
  BY <1>0, Facts DEF ServerTypes, SetUp, Objects, Known
<1>5. Runs'
  BY <1>0, Facts DEF ServerTypes, Runs, Starting, ClearPlaces
<1>6. AllServed'
  BY <1>0, Facts DEF ServerTypes, AllServed, Srv!Served, SetUp
<1>7. Counted'
  <2>1. Srv!Served' = Srv!Served
    BY <1>0 DEF Srv!Served
  <2> QED
    BY <1>0, <2>1, Facts DEF Counted, ServerTypes
<1>8. Srv!NobodyOversleeps'
  BY <1>0, Facts DEF ServerTypes, Srv!NobodyOversleeps, Runs, Starting, ClearPlaces
<1> QED
  BY <1>1, <1>2, <1>3, <1>4, <1>5, <1>6, <1>7, <1>8 DEF ServerInv

\* on_connect returns.
LEMMA OnConnectReturnsInv ==
    ASSUME Srv!ServerAssumption, ServerInv, NEW c \in Connections, Srv!OnConnectReturns(c)
    PROVE  ServerInv'
<1> USE DEF Srv!OnConnectReturns, Srv!At, Srv!Go
<1>0. ServerTypes /\ SetUp /\ Objects /\ Known /\ Runs /\ AllServed /\ Counted /\ Srv!NobodyOversleeps
  BY DEF ServerInv
<1>1. ServerTypes'
  BY <1>0, Facts DEF ServerTypes, Starting, ClearPlaces, ConnStates, ServiceStates, SetUp,
     Srv!ServerAssumption
<1>2. SetUp'
  BY <1>0, Facts DEF ServerTypes, SetUp, Objects, Starting, ClearPlaces, Runs
<1>3. Objects'
  BY <1>0, Facts DEF ServerTypes, SetUp, Objects
<1>4. Known'
  BY <1>0, Facts DEF ServerTypes, SetUp, Objects, Known
<1>5. Runs'
  BY <1>0, Facts DEF ServerTypes, Runs, Starting, ClearPlaces
<1>6. AllServed'
  BY <1>0, Facts DEF ServerTypes, AllServed, Srv!Served, SetUp
<1>7. Counted'
  <2>1. Srv!Served' = Srv!Served
    BY <1>0 DEF Srv!Served
  <2> QED
    BY <1>0, <2>1, Facts DEF Counted, ServerTypes
<1>8. Srv!NobodyOversleeps'
  BY <1>0, Facts DEF ServerTypes, Srv!NobodyOversleeps, Runs, Starting, ClearPlaces
<1> QED
  BY <1>1, <1>2, <1>3, <1>4, <1>5, <1>6, <1>7, <1>8 DEF ServerInv

\* The service thread takes its connection out of cons and deletes it.
LEMMA RemoveInv ==
    ASSUME Srv!ServerAssumption, ServerInv, NEW c \in Connections, Srv!Remove(c)
    PROVE  ServerInv'
<1> USE DEF Srv!Remove, Srv!At, Srv!Go, Srv!cons_without, Srv!delete
<1>0. ServerTypes /\ SetUp /\ Objects /\ Known /\ Runs /\ AllServed /\ Counted /\ Srv!NobodyOversleeps
  BY DEF ServerInv
<1>1. ServerTypes'
  BY <1>0, Facts DEF ServerTypes, Starting, ClearPlaces, ConnStates, ServiceStates, SetUp,
     Srv!ServerAssumption
<1>2. SetUp'
  BY <1>0, Facts DEF ServerTypes, SetUp, Objects, Starting, ClearPlaces, Runs
<1>3. Objects'
  BY <1>0, Facts DEF ServerTypes, SetUp, Objects
<1>4. Known'
  BY <1>0, Facts DEF ServerTypes, SetUp, Objects, Known
<1>5. Runs'
  BY <1>0, Facts DEF ServerTypes, Runs, Starting, ClearPlaces
<1>6. AllServed'
  BY <1>0, Facts DEF ServerTypes, AllServed, Srv!Served, SetUp
<1>7. Counted'
  <2>1. Srv!Served' = Srv!Served
    BY <1>0 DEF Srv!Served
  <2> QED
    BY <1>0, <2>1, Facts DEF Counted, ServerTypes
<1>8. Srv!NobodyOversleeps'
  BY <1>0, Facts DEF ServerTypes, Srv!NobodyOversleeps, Runs, Starting, ClearPlaces
<1> QED
  BY <1>1, <1>2, <1>3, <1>4, <1>5, <1>6, <1>7, <1>8 DEF ServerInv

\* The service thread counts itself out.
LEMMA UncountInv ==
    ASSUME Srv!ServerAssumption, ServerInv, NEW c \in Connections, Srv!Uncount(c)
    PROVE  ServerInv'
<1> USE DEF Srv!Uncount, Srv!At, Srv!Go, Srv!thread_count_less, Srv!broadcast,
            Srv!thread_count_signaler, Srv!thread_count_zero
<1>0. ServerTypes /\ SetUp /\ Objects /\ Known /\ Runs /\ AllServed /\ Counted /\ Srv!NobodyOversleeps
  BY DEF ServerInv
<1>1. ServerTypes'
  BY <1>0, Facts DEF ServerTypes, Starting, ClearPlaces, ConnStates, ServiceStates, SetUp,
     Srv!ServerAssumption
<1>2. SetUp'
  BY <1>0, Facts DEF ServerTypes, SetUp, Objects, Starting, ClearPlaces, Runs
<1>3. Objects'
  BY <1>0, Facts DEF ServerTypes, SetUp, Objects
<1>4. Known'
  BY <1>0, Facts DEF ServerTypes, SetUp, Objects, Known
<1>5. Runs'
  BY <1>0, Facts DEF ServerTypes, Runs, Starting, ClearPlaces
<1>6. AllServed'
  BY <1>0, Facts DEF ServerTypes, AllServed, Srv!Served, SetUp
<1>7. Counted'
  <2>1. c \in Srv!Served /\ Srv!Served' = Srv!Served \ {c}
    BY <1>0 DEF Srv!Served, ServerTypes
  <2>2. Cardinality(Srv!Served') = Cardinality(Srv!Served) - 1
    BY <1>0, <2>1, Facts, FS_RemoveElement, Zenon
  <2> QED
    BY <1>0, <2>2, Facts DEF Counted, ServerTypes
<1>8. Srv!NobodyOversleeps'
  BY <1>0, Facts DEF ServerTypes, Srv!NobodyOversleeps, Runs, Starting, ClearPlaces
<1> QED
  BY <1>1, <1>2, <1>3, <1>4, <1>5, <1>6, <1>7, <1>8 DEF ServerInv

-----------------------------------------------------------------------------
(* The theorems *)

\* Before start() is called for the first time.
LEMMA InitInv ==
    ASSUME Srv!ServerAssumption, Srv!Init
    PROVE  ServerInv
<1> USE DEF Srv!Init
<1>1. Srv!Served = {} /\ \A t \in {starter} \cup Clearers : at[t] = "out"
  BY DEF Srv!AllThreads, Srv!Served
<1>2. ServerTypes /\ SetUp /\ Objects /\ Known /\ Runs /\ AllServed
  <2>1. ServerTypes
    <3>1. at \in [Srv!AllThreads -> {"out"} \cup Starting \cup ClearPlaces]
      OBVIOUS
    <3>2. conn \in [Connections -> ConnStates] /\ service \in [Connections -> ServiceStates]
      BY DEF ConnStates, ServiceStates
    <3>3. running \in BOOLEAN /\ shutting_down \in BOOLEAN
      BY Zenon
    <3>4. thread_count \in Int /\ max_connections \in Nat
      OBVIOUS
    <3> QED
      BY <3>1, <3>2, <3>3, <3>4 DEF ServerTypes
  <2>2. SetUp /\ Objects /\ Known
    BY <1>1 DEF SetUp, Objects, Known
  <2>3. Runs
    BY <1>1 DEF Runs, Starting
  <2> QED
    BY <1>1, <2>1, <2>2, <2>3 DEF AllServed
<1>3. Counted
  BY <1>1, FS_EmptySet DEF Counted
<1>4. Srv!NobodyOversleeps
  BY DEF Srv!NobodyOversleeps
<1> QED
  BY <1>2, <1>3, <1>4 DEF ServerInv

\* Every step keeps the invariant.
LEMMA ServerInductive ==
    ASSUME Srv!ServerAssumption, ServerInv, [Srv!Next]_(Srv!vars)
    PROVE  ServerInv'
<1>1. CASE UNCHANGED Srv!vars
  BY <1>1 DEF Srv!vars, ServerInv, ServerTypes, SetUp, Objects, Known, Runs, AllServed, Srv!Served, Counted,
     Srv!NobodyOversleeps
<1>2. CASE Srv!Start \/ Srv!StartFails \/ Srv!StartStep
  BY <1>2, StartInv, StartFailsInv, AcceptInv, CheckInv, AddInv, MakeParamInv, CreateThreadInv,
     CountInv, LimitInv, CloseInv DEF Srv!StartStep
<1>3. CASE \E t \in Srv!AllThreads : Srv!Clear(t) \/ Srv!ClearStep(t)
  BY <1>3, ClearInv, ClearSignalsInv, ClearLimitInv, ClearConnectionsInv, ClearWaitsInv,
     ClearReturnsInv DEF Srv!ClearStep
<1>4. CASE \E n \in Limits : Srv!set_max_connections(n)
  BY <1>4, LimitsInv
<1>5. CASE \E c \in Connections : Srv!OnConnectReturns(c) \/ Srv!Remove(c) \/ Srv!Uncount(c)
  BY <1>5, OnConnectReturnsInv, RemoveInv, UncountInv
<1> QED
  BY <1>1, <1>2, <1>3, <1>4, <1>5 DEF Srv!Next

\* The inductive invariant holds in every reachable state.
THEOREM ServerInvariance == Srv!ServerAssumption => (Srv!Spec => []ServerInv)
<1> SUFFICES ASSUME Srv!ServerAssumption PROVE Srv!Spec => []ServerInv
  OBVIOUS
<1>1. Srv!Init => ServerInv
  BY InitInv
<1>2. ServerInv /\ [Srv!Next]_(Srv!vars) => ServerInv'
  BY ServerInductive
<1> QED
  BY <1>1, <1>2, PTL DEF Srv!Spec

\* thread_count is the number of service threads, no connection is used after
\* it was closed and cons holds the open ones, as far as failures and clear()
\* in other threads allow.
THEOREM ServerBooksAreRight == Srv!ServerAssumption => (Srv!Spec => []Srv!BooksAreRight)
<1> SUFFICES ASSUME Srv!ServerAssumption PROVE Srv!Spec => []Srv!BooksAreRight
  OBVIOUS
<1>1. ServerInv => Srv!BooksAreRight
  <2> SUFFICES ASSUME ServerInv PROVE Srv!BooksAreRight
    OBVIOUS
  <2>1. Srv!Cardinality(Srv!Served) = Cardinality(Srv!Served)
    BY SetsAreSets
  <2>2. Srv!ThreadsCounted
    BY <2>1, Zenon DEF ServerInv, Counted, Srv!ThreadsCounted
  <2>3. Objects /\ Known
    BY DEF ServerInv
  <2> QED
    BY <2>2, <2>3 DEF Srv!BooksAreRight, Srv!NoUseAfterDelete, Srv!ConsAreOpen, Objects, Known
<1>2. Srv!Spec => []ServerInv
  BY ServerInvariance
<1> QED
  BY <1>1, <1>2, PTL

\* Whoever sleeps in clear() still has to wait, also when the last service
\* thread ends before it was counted.
THEOREM NoClearOversleeps == Srv!ServerAssumption => (Srv!Spec => []Srv!NobodyOversleeps)
<1> SUFFICES ASSUME Srv!ServerAssumption PROVE Srv!Spec => []Srv!NobodyOversleeps
  OBVIOUS
<1>1. ServerInv => Srv!NobodyOversleeps
  BY DEF ServerInv
<1>2. Srv!Spec => []ServerInv
  BY ServerInvariance
<1> QED
  BY <1>1, <1>2, PTL

\* start() throws, after a clear() of its own, when every on_connect has
\* returned.
THEOREM StartThrowsAfterServices == Srv!ServerAssumption => (Srv!Spec => Srv!ClearWaitsForAll)
<1> SUFFICES ASSUME Srv!ServerAssumption PROVE Srv!Spec => Srv!ClearWaitsForAll
  OBVIOUS
<1> DEFINE Waited == at'[starter] = "out" /\ starter \in Srv!Clearing =>
                         ~running /\ \A c \in Connections : service[c] # "on_connect"
<1>1. ServerInv /\ [Srv!Next]_(Srv!vars) => [Waited]_(Srv!vars)
  <2> SUFFICES ASSUME ServerInv, Srv!Next, at'[starter] = "out", starter \in Srv!Clearing
               PROVE  ~running /\ \A c \in Connections : service[c] # "on_connect"
    BY DEF Waited
  <2>1. ServerTypes /\ Runs /\ AllServed
    BY SMTT(60) DEF ServerInv
  <2>2. at[starter] = "clear_done"
    BY <2>1, Facts, Zenon DEF Srv!Next, Srv!StartStep, Srv!ClearStep, Srv!Start, Srv!StartFails,
       Srv!Accept, Srv!Check, Srv!AfterAccept, Srv!Add, Srv!MakeParam, Srv!create_new_thread,
       Srv!Count, Srv!Limit, Srv!Close, Srv!Clear, Srv!ClearSignals, Srv!ClearLimit,
       Srv!ClearConnections, Srv!ClearWaits, Srv!ClearReturns, Srv!set_max_connections,
       Srv!OnConnectReturns, Srv!Remove, Srv!Uncount, Srv!Clearing, ServerTypes, Srv!At, Srv!Go
  <2> QED
    BY <2>1, <2>2 DEF Runs, AllServed, Srv!Served, Starting
<1>2. Srv!Spec => []ServerInv
  BY ServerInvariance
<1> QED
  BY <1>1, <1>2, PTL DEF Srv!Spec, Srv!ClearWaitsForAll
===============================================================================
