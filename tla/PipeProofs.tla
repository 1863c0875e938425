----------------------------- MODULE PipeProofs -----------------------------
(***************************************************************************)
(* Safety of dlib's pipe, for any number of threads, any pipe_max_size and *)
(* any number of items: no wake-up is lost, the destructor leaves nobody   *)
(* inside, an item handed over is really received, and the ring buffer is  *)
(* a first in first out queue.                                             *)
(***************************************************************************)
EXTENDS Pipe, FiniteSetTheorems, TLAPS

\* Most steps are about sets and functions; those with arithmetic cite SMT.
USE Zenon

-----------------------------------------------------------------------------
(* The inductive invariant *)

PipeType ==
    [size : Nat, enabled : BOOLEAN, enqueue_enabled : BOOLEAN, data : [Slots -> Nat],
     first : Nat, last : Nat, dequeue_waiters : Nat, enqueue_waiters : Nat,
     unblock_sig_waiters : Nat]

TypeOK ==
    /\ pipe \in PipeType
    /\ pc \in [Threads -> Places]
    /\ asleep \subseteq Threads
    /\ item \in [Threads -> Nat]
    /\ next \in Nat
    /\ received \in Seq(Nat)

EnqueueWaiters == Enqueuing \cup HandingOver \cup {"wait_until_empty", "enqueue_timed_out"}
DequeueWaiters == Dequeuing \cup {"dequeue_timed_out"}

\* The three counters count the threads inside, also those whose time ran out
\* and those that have been woken and not yet seen it.
Counted ==
    /\ pipe.dequeue_waiters = Cardinality(At(DequeueWaiters))
    /\ pipe.enqueue_waiters = Cardinality(At(EnqueueWaiters))
    /\ pipe.unblock_sig_waiters = Cardinality(At(unblock_sig))

\* Only in a waiting loop does anybody sleep.
SleepsInLoop == \A t \in asleep : pc[t] \in enqueue_sig \cup dequeue_sig \cup unblock_sig

\* The positions are those of a ring buffer, or of the item handed over.
Ring ==
    IF pipe_max_size = 0
    THEN /\ pipe.size = 0 /\ pipe.first \in {0, 1} /\ pipe.last \in {0, 1}
         /\ At(HandingOver) = {} => pipe.first = 1 /\ pipe.last = 1
    ELSE /\ At(HandingOver) = {}
         /\ pipe.size <= pipe_max_size
         /\ pipe.size > 0 => /\ pipe.first < pipe_max_size
                             /\ pipe.last = (pipe.first + pipe.size - 1) % pipe_max_size

\* There is one destructor, and the pipe is disabled once it has begun.
OneDestructor ==
    \A t \in At({"destructor", "destroyed"}) :
        ~pipe.enabled /\ \A u \in At({"destructor", "destroyed"}) : u = t

IInv ==
    /\ TypeOK
    /\ Counted
    /\ SleepsInLoop
    /\ Ring
    /\ OneDestructor
    /\ HandoverIsMine
    /\ NobodyOversleeps
    /\ DestructorsWait

-----------------------------------------------------------------------------
(* Counting *)

One(condition) == IF condition THEN 1 ELSE 0

\* The threads at some places, and those but t, when q tells where they are.
Where(q, places) == {u \in Threads : q[u] \in places}
WhereOthers(q, places, t) == {u \in Threads \ {t} : q[u] \in places}

\* How many threads are at some places, t and the others apart.
LEMMA Count ==
    ASSUME PipeAssumption, NEW q, NEW S, NEW t \in Threads
    PROVE  /\ IsFiniteSet(Where(q, S)) /\ IsFiniteSet(WhereOthers(q, S, t))
           /\ Cardinality(WhereOthers(q, S, t)) \in Nat
           /\ Cardinality(Where(q, S)) = Cardinality(WhereOthers(q, S, t)) + One(q[t] \in S)
           /\ WhereOthers(q, S, t) = {} <=> Cardinality(WhereOthers(q, S, t)) = 0
<1> DEFINE A == Where(q, S)
           B == WhereOthers(q, S, t)
<1>1. IsFiniteSet(Threads) /\ A \subseteq Threads /\ B \subseteq Threads /\ t \notin B
  BY DEF PipeAssumption, Where, WhereOthers
<1>2. IsFiniteSet(A) /\ IsFiniteSet(B)
  BY <1>1, FS_Subset
<1>3. Cardinality(A) \in Nat /\ Cardinality(B) \in Nat /\ (B = {} <=> Cardinality(B) = 0)
  BY <1>2, FS_CardinalityType, FS_EmptySet
<1>4. Cardinality(A) = Cardinality(B) + One(q[t] \in S)
  <2>1. CASE q[t] \in S
    <3>1. A = B \cup {t}
      BY <2>1 DEF Where, WhereOthers
    <3>2. Cardinality(A) = Cardinality(B) + 1
      BY <1>1, <1>2, <3>1, FS_AddElement
    <3> HIDE DEF A, B
    <3> QED BY <2>1, <3>2 DEF One
  <2>2. CASE q[t] \notin S
    <3>1. A = B
      BY <2>2 DEF Where, WhereOthers
    <3> HIDE DEF A, B
    <3> QED BY <1>3, <2>2, <3>1, SMT DEF One
  <2> QED
    BY <2>1, <2>2
<1> QED
  BY <1>2, <1>3, <1>4

-----------------------------------------------------------------------------
(* One thread's step *)

Others(t, places) == WhereOthers(pc, places, t)

\* The counters of p, when t is counted at a place.
CountsAs(p, t, place) ==
    /\ p.dequeue_waiters = Cardinality(Others(t, DequeueWaiters)) + One(place \in DequeueWaiters)
    /\ p.enqueue_waiters = Cardinality(Others(t, EnqueueWaiters)) + One(place \in EnqueueWaiters)
    /\ p.unblock_sig_waiters = Cardinality(Others(t, unblock_sig)) + One(place \in unblock_sig)

SameBuffer(p) ==
    /\ p.size = pipe.size /\ p.first = pipe.first /\ p.last = pipe.last /\ p.data = pipe.data
    /\ p.enqueue_enabled = pipe.enqueue_enabled

\* t is at the loop of a place, having called the function or been woken: p
\* are the members then, and w those it has told.
Ready(t, place, p, w) ==
    /\ t \notin asleep /\ w \subseteq asleep
    /\ place \in Places \ {"idle", "destroyed"}
    /\ \/ pc[t] = place /\ p.enabled = pipe.enabled
       \/ /\ pc[t] = "idle" /\ InUse /\ place \in Operations
          /\ IF place = "destructor" THEN ~p.enabled /\ w = asleep ELSE p.enabled = pipe.enabled
          /\ place \in Dequeuing /\ pipe.size = 0 /\ pipe.enqueue_waiters > 0 =>
                 broadcast(enqueue_sig) \subseteq w
    /\ p \in PipeType /\ SameBuffer(p)
    /\ CountsAs(p, t, place)

\* The sets of places, spelt out.
LEMMA PlaceSets ==
    /\ Enqueuing = {"enqueue", "enqueue_or_timeout"}
    /\ Dequeuing = {"dequeue", "dequeue_or_timeout"}
    /\ HandingOver = {"handover", "handover_or_timeout"}
    /\ TimedOut = {"enqueue_timed_out", "dequeue_timed_out"}
    /\ Operations = {"enqueue", "enqueue_or_timeout", "dequeue", "dequeue_or_timeout",
                     "wait_until_empty", "wait_for_num", "destructor"}
    /\ Places = {"enqueue", "enqueue_or_timeout", "dequeue", "dequeue_or_timeout",
                 "wait_until_empty", "wait_for_num", "destructor", "handover",
                 "handover_or_timeout", "enqueue_timed_out", "dequeue_timed_out", "idle",
                 "destroyed"}
    /\ EnqueueWaiters = {"enqueue", "enqueue_or_timeout", "handover", "handover_or_timeout",
                         "wait_until_empty", "enqueue_timed_out"}
    /\ DequeueWaiters = {"dequeue", "dequeue_or_timeout", "dequeue_timed_out"}
    /\ enqueue_sig = {"enqueue", "enqueue_or_timeout", "handover", "handover_or_timeout",
                      "wait_until_empty"}
    /\ dequeue_sig = {"dequeue", "dequeue_or_timeout"}
    /\ unblock_sig = {"wait_for_num", "destructor"}
BY DEF Enqueuing, Dequeuing, HandingOver, TimedOut, Operations, Places, EnqueueWaiters,
       DequeueWaiters, enqueue_sig, dequeue_sig, unblock_sig

\* The condition of the loop at each place.
LEMMA Conditions ==
    ASSUME NEW p, NEW place \in Places
    PROVE  /\ place \in Enqueuing => (MustWait(place, p) <=> no_room(p, place = "enqueue_or_timeout"))
           /\ place \in Dequeuing => (MustWait(place, p) <=> nothing_to_take(p))
           /\ place \in HandingOver => (MustWait(place, p) <=> not_taken(p))
           /\ place = "wait_until_empty" => (MustWait(place, p) <=> not_empty(p))
           /\ place = "wait_for_num" => (MustWait(place, p) <=> too_few_blocked(p))
           /\ place = "destructor" => (MustWait(place, p) <=> someone_inside(p))
           /\ MustWait(place, p) => place \in enqueue_sig \cup dequeue_sig \cup unblock_sig
BY PlaceSets DEF MustWait

\* A condition on enqueue_sig depends on the buffer, on what is enabled and,
\* when items are handed over, on whether a dequeue waits.
LEMMA StillWaits ==
    ASSUME NEW p, NEW q, NEW place \in enqueue_sig, MustWait(place, p),
           q.size = p.size, q.first = p.first, q.last = p.last, q.enabled = p.enabled,
           q.enqueue_enabled = p.enqueue_enabled,
           pipe_max_size = 0 => (q.dequeue_waiters > 0 => p.dequeue_waiters > 0)
    PROVE  MustWait(place, q)
<1>1. place \in Places
  BY PlaceSets
<1>2. CASE place \in Enqueuing
  BY <1>1, <1>2, Conditions DEF no_room, disabled
<1>3. CASE place \in HandingOver
  BY <1>1, <1>3, Conditions DEF not_taken, disabled
<1>4. CASE place = "wait_until_empty"
  BY <1>1, <1>4, Conditions DEF not_empty
<1> QED
  BY <1>2, <1>3, <1>4, PlaceSets

\* The books after a step of t: what the counters and the sleepers are.
LEMMA Books ==
    ASSUME PipeAssumption, IInv, NEW t \in Threads, NEW place \in Places,
           pc' = [pc EXCEPT ![t] = place], pipe' \in PipeType, CountsAs(pipe', t, place),
           asleep' \subseteq asleep \cup {t},
           t \in asleep' => place \in enqueue_sig \cup dequeue_sig \cup unblock_sig,
           item' \in [Threads -> Nat], next' \in Nat, received' \in Seq(Nat)
    PROVE  /\ TypeOK' /\ Counted' /\ SleepsInLoop'
           /\ pc'[t] = place /\ \A u \in Threads : u # t => pc'[u] = pc[u]
<1>1. pc'[t] = place /\ \A u \in Threads : u # t => pc'[u] = pc[u]
  BY DEF IInv, TypeOK
<1>2. TypeOK'
  BY DEF IInv, TypeOK
<1>3. SleepsInLoop'
  BY <1>1 DEF IInv, TypeOK, SleepsInLoop
<1>4. ASSUME NEW S
      PROVE  Cardinality(Where(pc', S)) = Cardinality(Others(t, S)) + One(place \in S)
  <2>1. WhereOthers(pc', S, t) = Others(t, S)
    BY <1>1 DEF Others, WhereOthers
  <2>2. Cardinality(Where(pc', S)) = Cardinality(WhereOthers(pc', S, t)) + One(pc'[t] \in S)
    BY Count
  <2> QED
    BY <1>1, <2>1, <2>2
<1>5. \A S : At(S)' = Where(pc', S)
  BY DEF At, Where
<1>6. Counted'
  BY <1>4, <1>5 DEF Counted, CountsAs, DequeueWaiters, EnqueueWaiters, unblock_sig
<1> QED
  BY <1>1, <1>2, <1>3, <1>6

\* A thread that calls a function comes to its loop, counted in.
LEMMA EnterReady ==
    ASSUME PipeAssumption, IInv, NEW t \in Threads, NEW op \in Operations, pc[t] = "idle", InUse
    PROVE  Ready(t, op, Entered(op), Told(op))
<1> DEFINE p == Entered(op)
           w == Told(op)
<1>1. t \notin asleep /\ op \in Places \ {"idle", "destroyed"}
  BY PlaceSets DEF IInv, SleepsInLoop
<1>2. ASSUME NEW S
      PROVE  /\ Cardinality(At(S)) = Cardinality(Others(t, S)) + One("idle" \in S)
             /\ Cardinality(Others(t, S)) \in Nat
  BY Count DEF At, Where, Others
<1>3. /\ pipe.dequeue_waiters = Cardinality(Others(t, DequeueWaiters))
      /\ pipe.enqueue_waiters = Cardinality(Others(t, EnqueueWaiters))
      /\ pipe.unblock_sig_waiters = Cardinality(Others(t, unblock_sig))
  <2>1. "idle" \notin DequeueWaiters /\ "idle" \notin EnqueueWaiters /\ "idle" \notin unblock_sig
    BY PlaceSets
  <2> QED
    BY <1>2, <2>1, SMT DEF IInv, Counted, One
<1>4. pipe \in PipeType
  BY DEF IInv, TypeOK
<1>5. CASE op \in Enqueuing \cup {"wait_until_empty"}
  <2>1. p = [pipe EXCEPT !.enqueue_waiters = @ + 1] /\ w = {}
    BY <1>5, PlaceSets DEF Entered, Told
  <2>2. p \in PipeType /\ SameBuffer(p) /\ p.enabled = pipe.enabled
        /\ p.enqueue_waiters = pipe.enqueue_waiters + 1
        /\ p.dequeue_waiters = pipe.dequeue_waiters
        /\ p.unblock_sig_waiters = pipe.unblock_sig_waiters
    BY <1>4, <2>1, SMT DEF PipeType, SameBuffer
  <2>3. CountsAs(p, t, op)
    <3>1. op \in EnqueueWaiters /\ op \notin DequeueWaiters /\ op \notin unblock_sig
      BY <1>5, PlaceSets
    <3> QED
      BY <1>2, <1>3, <2>2, <3>1, SMT DEF CountsAs, One
  <2> HIDE DEF p, w
  <2> QED
    BY <1>1, <1>5, <2>1, <2>2, <2>3, PlaceSets DEF Ready, p, w
<1>6. CASE op \in Dequeuing
  <2>1. p = [pipe EXCEPT !.dequeue_waiters = @ + 1] /\ w = dequeue_tells
    BY <1>6, PlaceSets DEF Entered, Told
  <2>2. p \in PipeType /\ SameBuffer(p) /\ p.enabled = pipe.enabled
        /\ p.enqueue_waiters = pipe.enqueue_waiters
        /\ p.dequeue_waiters = pipe.dequeue_waiters + 1
        /\ p.unblock_sig_waiters = pipe.unblock_sig_waiters
    BY <1>4, <2>1, SMT DEF PipeType, SameBuffer
  <2>3. CountsAs(p, t, op)
    <3>1. op \notin EnqueueWaiters /\ op \in DequeueWaiters /\ op \notin unblock_sig
      BY <1>6, PlaceSets
    <3> QED
      BY <1>2, <1>3, <2>2, <3>1, SMT DEF CountsAs, One
  <2>4. w \subseteq asleep /\ (pipe.size = 0 /\ pipe.enqueue_waiters > 0 => broadcast(enqueue_sig) \subseteq w)
    BY <2>1 DEF dequeue_tells, If, broadcast
  <2> HIDE DEF p, w
  <2> QED
    BY <1>1, <1>6, <2>2, <2>3, <2>4, PlaceSets DEF Ready, p, w
<1>7. CASE op = "wait_for_num"
  <2>1. p = [pipe EXCEPT !.unblock_sig_waiters = @ + 1] /\ w = {}
    BY <1>7, PlaceSets DEF Entered, Told
  <2>2. p \in PipeType /\ SameBuffer(p) /\ p.enabled = pipe.enabled
        /\ p.enqueue_waiters = pipe.enqueue_waiters
        /\ p.dequeue_waiters = pipe.dequeue_waiters
        /\ p.unblock_sig_waiters = pipe.unblock_sig_waiters + 1
    BY <1>4, <2>1, SMT DEF PipeType, SameBuffer
  <2>3. CountsAs(p, t, op)
    <3>1. op \notin EnqueueWaiters /\ op \notin DequeueWaiters /\ op \in unblock_sig
      BY <1>7, PlaceSets
    <3> QED
      BY <1>2, <1>3, <2>2, <3>1, SMT DEF CountsAs, One
  <2> HIDE DEF p, w
  <2> QED
    BY <1>1, <1>7, <2>1, <2>2, <2>3, PlaceSets DEF Ready, p, w
<1>8. CASE op = "destructor"
  <2>1. p = [pipe EXCEPT !.unblock_sig_waiters = @ + 1, !.enabled = FALSE] /\ w = asleep
    BY <1>8, PlaceSets DEF Entered, Told
  <2>2. p \in PipeType /\ SameBuffer(p) /\ ~p.enabled
        /\ p.enqueue_waiters = pipe.enqueue_waiters
        /\ p.dequeue_waiters = pipe.dequeue_waiters
        /\ p.unblock_sig_waiters = pipe.unblock_sig_waiters + 1
    <3>1. p \in PipeType
      <4> DEFINE q == [pipe EXCEPT !.unblock_sig_waiters = @ + 1]
      <4>1. q \in PipeType /\ FALSE \in BOOLEAN
        BY <1>4, SMT DEF PipeType
      <4>2. p = [q EXCEPT !.enabled = FALSE]
        BY <2>1
      <4> HIDE DEF q, p
      <4> QED BY <4>1, <4>2 DEF PipeType
    <3>2. SameBuffer(p)
        /\ p.enqueue_waiters = pipe.enqueue_waiters
        /\ p.dequeue_waiters = pipe.dequeue_waiters
        /\ p.unblock_sig_waiters = pipe.unblock_sig_waiters + 1
      BY <1>4, <2>1 DEF PipeType, SameBuffer
    <3>3. ~p.enabled
      BY <1>4, <2>1 DEF PipeType
    <3> QED
      BY <3>1, <3>2, <3>3
  <2>3. CountsAs(p, t, op)
    <3>1. op \notin EnqueueWaiters /\ op \notin DequeueWaiters /\ op \in unblock_sig
      BY <1>8, PlaceSets
    <3> QED
      BY <1>2, <1>3, <2>2, <3>1, SMT DEF CountsAs, One
  <2> HIDE DEF p, w
  <2> QED
    BY <1>1, <1>8, <2>1, <2>2, <2>3, PlaceSets DEF Ready, p, w
<1> QED
  BY <1>5, <1>6, <1>7, <1>8, PlaceSets

\* So does a thread that was woken.
LEMMA ResumeReady ==
    ASSUME PipeAssumption, IInv, NEW t \in Threads, pc[t] \notin {"idle", "destroyed"}, t \notin asleep
    PROVE  Ready(t, pc[t], pipe, {})
<1>1. ASSUME NEW S
      PROVE  Cardinality(At(S)) = Cardinality(Others(t, S)) + One(pc[t] \in S)
  BY Count DEF At, Where, Others
<1>2. CountsAs(pipe, t, pc[t])
  BY <1>1 DEF IInv, Counted, CountsAs
<1> QED
  BY <1>2 DEF Ready, SameBuffer, IInv, TypeOK

\* There are enough woken dequeues as long as none of them leaves, none goes
\* to sleep and no item is added.
LEMMA EnoughAwake ==
    ASSUME PipeAssumption, IInv, TypeOK',
           broadcast(dequeue_sig)' # {} =>
              /\ broadcast(dequeue_sig) # {}
              /\ At(dequeue_sig) \ asleep \subseteq (At(dequeue_sig) \ asleep)'
              /\ Available' <= Available /\ Available' \in Nat /\ Available \in Nat
              /\ pipe'.enabled = pipe.enabled
    PROVE  broadcast(dequeue_sig)' # {} =>
              /\ pipe'.enabled
              /\ Available' <= Cardinality((At(dequeue_sig) \ asleep)')
<1> SUFFICES ASSUME broadcast(dequeue_sig)' # {}
             PROVE  /\ pipe'.enabled
                    /\ Available' <= Cardinality((At(dequeue_sig) \ asleep)')
  OBVIOUS
<1> DEFINE A == At(dequeue_sig) \ asleep
           B == (At(dequeue_sig) \ asleep)'
<1>1. A \subseteq B /\ IsFiniteSet(B) /\ IsFiniteSet(A)
  <2>1. IsFiniteSet(Threads) /\ A \subseteq Threads /\ B \subseteq Threads
    BY DEF PipeAssumption, At
  <2> QED
    BY <2>1, FS_Subset
<1>2. Cardinality(A) <= Cardinality(B) /\ Cardinality(A) \in Nat /\ Cardinality(B) \in Nat
  BY <1>1, FS_Subset, FS_CardinalityType
<1>3. pipe.enabled /\ Available <= Cardinality(A)
  BY DEF IInv, NobodyOversleeps
<1> HIDE DEF A, B
<1>4. Available' <= Available /\ Available' \in Nat /\ Available \in Nat
  OBVIOUS
<1>5. Available' <= Cardinality(B)
  BY <1>2, <1>3, <1>4, SMT
<1> QED
  BY <1>3, <1>5 DEF B

\* Whatever t does at its loop, the destructor stays the last one inside.
LEMMA DestructorStays ==
    ASSUME PipeAssumption, IInv, NEW t \in Threads, NEW place, NEW p, NEW w, Ready(t, place, p, w),
           NEW new \in Places, pc' = [pc EXCEPT ![t] = new], pipe'.enabled = p.enabled,
           new \in {"destructor", "destroyed"} => place = "destructor",
           new = "destroyed" => ~someone_inside(p)
    PROVE  OneDestructor' /\ DestructorsWait'
<1> DEFINE D == {"destructor", "destroyed"}
<1>1. pc'[t] = new /\ \A u \in Threads : u # t => pc'[u] = pc[u]
  BY DEF IInv, TypeOK
<1>2. OneDestructor'
  <2>1. CASE pc[t] = place /\ p.enabled = pipe.enabled
    <3>1. \A u \in Threads : pc'[u] \in D => pc[u] \in D
      BY <1>1, <2>1
    <3>2. \A u \in Threads : pc[u] \in D => ~pipe.enabled /\ \A v \in Threads : pc[v] \in D => v = u
      BY DEF IInv, OneDestructor, At
    <3>3. \A u \in Threads : pc'[u] \in D => ~pipe'.enabled /\ \A v \in Threads : pc'[v] \in D => v = u
      BY <2>1, <3>1, <3>2
    <3> QED
      BY <3>3 DEF OneDestructor, At
  <2>2. CASE pc[t] = "idle" /\ InUse /\ (place = "destructor" => ~p.enabled)
    <3>1. \A u \in Threads : pc'[u] \in D => u = t /\ ~pipe'.enabled
      BY <1>1, <2>2 DEF InUse
    <3> QED
      BY <3>1 DEF OneDestructor, At
  <2> QED
    BY <2>1, <2>2 DEF Ready
<1>3. DestructorsWait'
  <2> SUFFICES ASSUME NEW u \in Threads, pc'[u] = "destroyed", NEW v \in Threads
               PROVE  pc'[v] \in {"idle", "destroyed"}
    BY DEF DestructorsWait
  <2>1. CASE u # t
    <3>1. pc[u] = "destroyed"
      BY <1>1, <2>1
    <3>2. pc[t] \in {"idle", "destroyed"} /\ ~InUse
      BY <3>1 DEF IInv, DestructorsWait, InUse
    <3> QED
      BY <3>2 DEF Ready
  <2>2. CASE u = t
    <3>1. place = "destructor" /\ ~someone_inside(p)
      BY <1>1, <2>2
    <3>2. place \notin DequeueWaiters /\ place \notin EnqueueWaiters /\ place \in unblock_sig
      BY <3>1, PlaceSets
    <3>3. ASSUME NEW S
          PROVE  Cardinality(Others(t, S)) \in Nat /\ (Cardinality(Others(t, S)) = 0 => Others(t, S) = {})
      BY Count DEF Others
    <3>4. /\ p.dequeue_waiters = Cardinality(Others(t, DequeueWaiters))
          /\ p.enqueue_waiters = Cardinality(Others(t, EnqueueWaiters))
          /\ p.unblock_sig_waiters = Cardinality(Others(t, unblock_sig)) + 1
      BY <3>2, <3>3, SMT DEF Ready, CountsAs, One
    <3>5. /\ Cardinality(Others(t, DequeueWaiters)) = 0
          /\ Cardinality(Others(t, EnqueueWaiters)) = 0
          /\ Cardinality(Others(t, unblock_sig)) = 0
      BY <3>1, <3>3, <3>4, SMT DEF someone_inside
    <3>6. Others(t, DequeueWaiters) = {} /\ Others(t, EnqueueWaiters) = {} /\ Others(t, unblock_sig) = {}
      BY <3>3, <3>5
    <3>7. CASE v # t
      <4>1. pc[v] \notin DequeueWaiters /\ pc[v] \notin EnqueueWaiters /\ pc[v] \notin unblock_sig
        BY <3>6, <3>7 DEF Others, WhereOthers
      <4>2. pc[v] \in Places /\ pc'[v] = pc[v]
        BY <1>1, <3>7 DEF IInv, TypeOK
      <4> QED
        BY <4>1, <4>2, PlaceSets
    <3> QED
      BY <2>2, <3>7
  <2> QED
    BY <2>1, <2>2
<1> QED
  BY <1>2, <1>3

\* t finds that it has to wait.
LEMMA SleepInv ==
    ASSUME PipeAssumption, IInv, NEW t \in Threads, NEW place, NEW p, NEW w, Ready(t, place, p, w),
           MustWait(place, p), Sleep(t, place, p, w), UNCHANGED <<item, next, received>>
    PROVE  IInv'
<1>1. /\ pipe' = p /\ pc' = [pc EXCEPT ![t] = place] /\ asleep' = (asleep \ w) \cup {t}
      /\ place \in Places /\ item' = item /\ next' = next /\ received' = received
  BY DEF Sleep, Ready
<1>2. place \in enqueue_sig \cup dequeue_sig \cup unblock_sig
  BY <1>1, Conditions
<1>3. /\ TypeOK' /\ Counted' /\ SleepsInLoop'
      /\ pc'[t] = place /\ \A u \in Threads : u # t => pc'[u] = pc[u]
  BY <1>1, <1>2, Books DEF Ready, IInv, TypeOK
<1>4. OneDestructor' /\ DestructorsWait'
  BY <1>1, <1>2, DestructorStays, PlaceSets
<1>5. At(HandingOver)' = At(HandingOver)
  <2>1. place \in HandingOver => pc[t] = place
    BY PlaceSets DEF Ready
  <2>2. pc[t] \in HandingOver => place = pc[t]
    BY PlaceSets DEF Ready
  <2> QED
    BY <1>3, <2>1, <2>2 DEF At, HandingOver
<1>6. SameBuffer(pipe')
  BY <1>1 DEF Ready
<1>7. Ring'
  BY <1>5, <1>6 DEF IInv, Ring, SameBuffer
<1>8. HandoverIsMine'
  BY <1>1, <1>5, <1>6, SMT DEF IInv, HandoverIsMine, SameBuffer
<1>9. ASSUME NEW u \in broadcast(enqueue_sig)'
      PROVE  MustWait(pc'[u], pipe')
  <2>1. CASE u = t
    BY <1>1, <1>3, <2>1
  <2>2. CASE u # t
    <3>1. u \in asleep \ w /\ u \in Threads /\ pc'[u] = pc[u] /\ pc[u] \in enqueue_sig
      BY <1>1, <1>3, <1>9, <2>2 DEF broadcast, enqueue_sig, IInv, TypeOK
    <3>2. MustWait(pc[u], pipe)
      BY <3>1 DEF IInv, NobodyOversleeps, broadcast
    <3>3. pipe'.enabled = pipe.enabled
      BY <1>1, <3>1 DEF Ready
    <3>4. pipe_max_size = 0 => (pipe'.dequeue_waiters > 0 => pipe.dequeue_waiters > 0)
      <4> SUFFICES ASSUME pipe_max_size = 0 PROVE pipe'.dequeue_waiters > 0 => pipe.dequeue_waiters > 0
        OBVIOUS
      <4>1. pipe.dequeue_waiters = Cardinality(Others(t, DequeueWaiters)) + One(pc[t] \in DequeueWaiters)
        BY Count, ZenonT(60) DEF IInv, Counted, At, Where, Others
      <4>2. pipe'.dequeue_waiters = Cardinality(Others(t, DequeueWaiters)) + One(place \in DequeueWaiters)
        BY <1>1 DEF Ready, CountsAs
      <4>3. pc[t] = place \/ place \notin DequeueWaiters
        <5>1. CASE pc[t] = "idle" /\ place \in Dequeuing
          <6>1. pipe.size = 0
            BY DEF IInv, Ring
          <6>2. pipe.enqueue_waiters > 0
            <7>1. u \in Others(t, EnqueueWaiters)
              BY <2>2, <3>1, PlaceSets DEF Others, WhereOthers
            <7>2. /\ Cardinality(Others(t, EnqueueWaiters)) # 0
                  /\ Cardinality(Others(t, EnqueueWaiters)) \in Nat
              BY <7>1, Count DEF Others
            <7>3. pipe.enqueue_waiters
                     = Cardinality(Others(t, EnqueueWaiters)) + One(pc[t] \in EnqueueWaiters)
              BY Count, ZenonT(60) DEF IInv, Counted, At, Where, Others
            <7> QED
              BY <7>2, <7>3, SMT DEF One
          <6>3. broadcast(enqueue_sig) \subseteq w
            BY <5>1, <6>1, <6>2, PlaceSets DEF Ready
          <6> QED
            BY <3>1, <6>3 DEF broadcast
        <5>2. CASE pc[t] = "idle" /\ place \notin Dequeuing
          BY <5>2, PlaceSets DEF Ready
        <5> QED
          BY <5>1, <5>2 DEF Ready
      <4>4. Cardinality(Others(t, DequeueWaiters)) \in Nat
        BY Count DEF Others
      <4> QED
        BY <4>1, <4>2, <4>3, <4>4, SMT DEF One
    <3> QED
      BY <1>6, <3>1, <3>2, <3>3, <3>4, StillWaits DEF SameBuffer
  <2> QED
    BY <2>1, <2>2
<1>10. broadcast(dequeue_sig)' # {} =>
          /\ pipe'.enabled
          /\ Available' <= Cardinality((At(dequeue_sig) \ asleep)')
  <2>1. CASE place \in Dequeuing
    <3>1. nothing_to_take(pipe')
      BY <1>1, <2>1, Conditions
    <3>2. pipe'.enabled /\ Available' = 0
      <4>1. pipe'.enabled /\ pipe_max_size \in Nat
        BY <3>1 DEF nothing_to_take, PipeAssumption
      <4>2. Available' = 0
        BY <3>1, <4>1, SMT DEF nothing_to_take, Available
      <4> QED
        BY <4>1, <4>2
    <3>3. Cardinality((At(dequeue_sig) \ asleep)') \in Nat
      <4>1. IsFiniteSet(Threads) /\ (At(dequeue_sig) \ asleep)' \subseteq Threads
        BY DEF PipeAssumption, At
      <4> QED
        BY <4>1, FS_Subset, FS_CardinalityType
    <3> QED
      BY <3>2, <3>3, SMT
  <2>2. CASE place \notin Dequeuing
    <3>1. pc[t] \notin dequeue_sig /\ place \notin dequeue_sig
      BY <2>2, PlaceSets DEF Ready
    <3>2. broadcast(dequeue_sig)' = broadcast(dequeue_sig) \ w
      BY <1>1, <1>3, <3>1 DEF broadcast, dequeue_sig, IInv, TypeOK, Ready
    <3>3. At(dequeue_sig) \ asleep \subseteq (At(dequeue_sig) \ asleep)'
      BY <1>1, <1>3, <3>1 DEF At, dequeue_sig
    <3>4. Available' = Available /\ Available \in Nat
      BY <1>6 DEF Available, SameBuffer, IInv, TypeOK, PipeType
    <3>5. broadcast(dequeue_sig)' # {} => pipe'.enabled = pipe.enabled
      BY <1>1, <3>2 DEF Ready, broadcast
    <3> QED
      BY <1>3, <3>2, <3>3, <3>4, <3>5, EnoughAwake, SMT
  <2> QED
    BY <2>1, <2>2
<1>11. NobodyOversleeps'
  BY <1>9, <1>10 DEF NobodyOversleeps
<1> QED
  BY <1>3, <1>4, <1>7, <1>8, <1>11 DEF IInv

\* t returns without having touched the buffer: enqueue and dequeue when they
\* are out of time or the pipe is disabled, and the functions that only wait.
LEMMA ReturnInv ==
    ASSUME PipeAssumption, IInv, NEW t \in Threads, NEW place, NEW p, NEW w, NEW v, Ready(t, place, p, w),
           NEW q \in PipeType, CountsAs(q, t, "idle"), SameBuffer(q), q.enabled = p.enabled,
           place \notin HandingOver, place # "destructor",
           pc[t] \in dequeue_sig => ~pipe.enabled,
           Return(t, q, v), UNCHANGED <<item, next, received>>
    PROVE  IInv'
<1>1. /\ pipe' = q /\ pc' = [pc EXCEPT ![t] = "idle"] /\ asleep' = asleep \ v
      /\ "idle" \in Places /\ item' = item /\ next' = next /\ received' = received
  BY PlaceSets DEF Return
<1>2. t \notin asleep /\ q.enabled = pipe.enabled
  BY DEF Ready
<1>3. /\ TypeOK' /\ Counted' /\ SleepsInLoop'
      /\ pc'[t] = "idle" /\ \A u \in Threads : u # t => pc'[u] = pc[u]
  BY <1>1, <1>2, Books DEF IInv, TypeOK
<1>4. OneDestructor' /\ DestructorsWait'
  BY <1>1, DestructorStays
<1>5. At(HandingOver)' = At(HandingOver)
  <2>1. pc[t] \notin HandingOver /\ "idle" \notin HandingOver
    BY PlaceSets DEF Ready
  <2> QED
    BY <1>3, <2>1 DEF At, HandingOver
<1>6. Ring'
  BY <1>1, <1>5 DEF IInv, Ring, SameBuffer
<1>7. HandoverIsMine'
  BY <1>1, <1>5, SMT DEF IInv, HandoverIsMine, SameBuffer
<1>8. ASSUME NEW u \in broadcast(enqueue_sig)'
      PROVE  MustWait(pc'[u], pipe')
  <2>1. u \in asleep /\ u \in Threads /\ u # t /\ pc'[u] = pc[u] /\ pc[u] \in enqueue_sig
    BY <1>1, <1>2, <1>3, <1>8 DEF broadcast, enqueue_sig, IInv, TypeOK
  <2>2. MustWait(pc[u], pipe)
    BY <2>1 DEF IInv, NobodyOversleeps, broadcast
  <2>3. pipe'.dequeue_waiters > 0 => pipe.dequeue_waiters > 0
    <3>1. pipe.dequeue_waiters = Cardinality(Others(t, DequeueWaiters)) + One(pc[t] \in DequeueWaiters)
      BY Count, ZenonT(60) DEF IInv, Counted, At, Where, Others
    <3>2. pipe'.dequeue_waiters = Cardinality(Others(t, DequeueWaiters)) + One("idle" \in DequeueWaiters)
      BY <1>1 DEF CountsAs
    <3>3. Cardinality(Others(t, DequeueWaiters)) \in Nat /\ "idle" \notin DequeueWaiters
      BY Count, PlaceSets DEF Others
    <3> QED
      BY <3>1, <3>2, <3>3, SMT DEF One
  <2> QED
    BY <1>1, <1>2, <2>1, <2>2, <2>3, StillWaits DEF SameBuffer
<1>9. broadcast(dequeue_sig)' # {} =>
          /\ pipe'.enabled
          /\ Available' <= Cardinality((At(dequeue_sig) \ asleep)')
  <2>1. "idle" \notin dequeue_sig
    BY PlaceSets
  <2>2. broadcast(dequeue_sig)' = broadcast(dequeue_sig) \ v
    BY <1>1, <1>2, <1>3 DEF broadcast, dequeue_sig, IInv, TypeOK
  <2>3. broadcast(dequeue_sig)' # {} => At(dequeue_sig) \ asleep \subseteq (At(dequeue_sig) \ asleep)'
    <3>1. broadcast(dequeue_sig)' # {} => pipe.enabled
      BY <2>2 DEF IInv, NobodyOversleeps
    <3> QED
      BY <1>1, <1>3, <3>1 DEF At, dequeue_sig
  <2>4. Available' = Available /\ Available \in Nat
    BY <1>1 DEF Available, SameBuffer, IInv, TypeOK, PipeType
  <2> QED
    BY <1>1, <1>2, <1>3, <2>2, <2>3, <2>4, EnoughAwake, SMT
<1>10. NobodyOversleeps'
  BY <1>8, <1>9 DEF NobodyOversleeps
<1> QED
  BY <1>3, <1>4, <1>6, <1>7, <1>10 DEF IInv

-----------------------------------------------------------------------------
(* The ring buffer *)

\* Positions wrap once at most.
LEMMA Wraps ==
    ASSUME NEW m \in Nat, m > 0, NEW a \in Nat, a < 2 * m
    PROVE  a % m = IF a < m THEN a ELSE a - m
<1> DEFINE d == a \div m
           r == a % m
<1>1. d \in Int /\ r \in Int /\ a = m * d + r /\ 0 <= r /\ r < m
  BY SMT
<1> HIDE DEF d, r
<1>2. d < 2
  <2> SUFFICES ASSUME d >= 2 PROVE FALSE
    BY <1>1, SMT
  <2>1. m * (d - 2) >= 0 /\ m * (d - 2) = m * d - 2 * m /\ m * d \in Int
    BY <1>1, SMT
  <2> QED
    BY <1>1, <2>1, SMT
<1>3. d > -1
  <2> SUFFICES ASSUME d <= -1 PROVE FALSE
    BY <1>1, SMT
  <2>1. m * (-1 - d) >= 0 /\ m * (-1 - d) = -m - m * d /\ m * d \in Int
    BY <1>1, SMT
  <2> QED
    BY <1>1, <2>1, SMT
<1>4. d = 0 \/ d = 1
  BY <1>1, <1>2, <1>3, SMT
<1>5. r = IF a < m THEN a ELSE a - m
  BY <1>1, <1>4, SMT
<1> QED
  BY <1>5 DEF r

\* The members after enqueue has placed its item.
LEMMA Placed ==
    ASSUME PipeAssumption, NEW p \in PipeType, next \in Nat,
           p.size = 0 \/ pipe_max_size > 0
    PROVE  LET L == IF p.size = 0 THEN 0 ELSE (p.last + 1) % pipe_max_size IN
           /\ placed(p) \in PipeType /\ L \in Slots
           /\ placed(p).first = IF p.size = 0 THEN 0 ELSE p.first
           /\ placed(p).last = L
           /\ placed(p).data = [p.data EXCEPT ![L] = next]
           /\ placed(p).size = p.size
           /\ placed(p).enabled = p.enabled /\ placed(p).enqueue_enabled = p.enqueue_enabled
           /\ placed(p).dequeue_waiters = p.dequeue_waiters
           /\ placed(p).enqueue_waiters = p.enqueue_waiters
           /\ placed(p).unblock_sig_waiters = p.unblock_sig_waiters
<1> DEFINE L == IF p.size = 0 THEN 0 ELSE (p.last + 1) % pipe_max_size
           G == IF p.size = 0 THEN 0 ELSE p.first
           D == [p.data EXCEPT ![L] = next]
<1>1. L \in Nat /\ L \in Slots /\ G \in Nat
  BY SMTT(60) DEF PipeType, Slots, PipeAssumption
<1>2. D \in [Slots -> Nat]
  <2> HIDE DEF L
  <2> QED BY <1>1 DEF PipeType
<1>3. placed(p) = [p EXCEPT !.first = G, !.last = L, !.data[L] = next]
  BY DEF placed
<1> HIDE DEF L, G
<1>4. placed(p) = [p EXCEPT !.first = G, !.last = L, !.data = D]
  BY <1>3 DEF PipeType
<1> HIDE DEF D
<1>5. placed(p) \in PipeType
  BY <1>1, <1>2, <1>4, ZenonT(60) DEF PipeType
<1>6. /\ placed(p).first = G /\ placed(p).last = L /\ placed(p).data = D
      /\ placed(p).size = p.size
      /\ placed(p).dequeue_waiters = p.dequeue_waiters
      /\ placed(p).enqueue_waiters = p.enqueue_waiters
      /\ placed(p).unblock_sig_waiters = p.unblock_sig_waiters
  BY <1>4 DEF PipeType
<1>7. placed(p).enabled = p.enabled /\ placed(p).enqueue_enabled = p.enqueue_enabled
  BY <1>4 DEF PipeType
<1> QED
  BY <1>1, <1>5, <1>6, <1>7 DEF L, G, D

\* Sequences with the same elements in the same places are the same.
LEMMA SameSequence ==
    ASSUME NEW s \in Seq(Nat), NEW u \in Seq(Nat), Len(s) = Len(u),
           \A i \in 1 .. Len(s) : s[i] = u[i]
    PROVE  s = u
  BY SMTT(60)

\* A function on 1 .. n is a sequence of length n.
LEMMA IsSequence ==
    ASSUME NEW n \in Nat, NEW f \in [1 .. n -> Nat]
    PROVE  f \in Seq(Nat) /\ Len(f) = n
<1>1. f \in Seq(Nat)
  BY SMT
<1>2. Len(f) \in Nat /\ 1 .. Len(f) = 1 .. n
  BY <1>1, SMT
<1>3. Len(f) = n
  <2> DEFINE k == Len(f)
  <2>1. k \in Nat /\ \A i : i \in 1 .. k <=> i \in 1 .. n
    BY <1>2
  <2> HIDE DEF k
  <2>2. k <= n
    <3>1. CASE k = 0
      BY <3>1, SMT
    <3>2. CASE k > 0
      BY <2>1, <3>2, SMTT(60)
    <3> QED
      BY <2>1, <3>1, <3>2, SMT
  <2>3. n <= k
    <3>1. CASE n = 0
      BY <2>1, <3>1, SMT
    <3>2. CASE n > 0
      BY <2>1, <3>2, SMT
    <3> QED
      BY <3>1, <3>2, SMT
  <2> QED
    BY <2>1, <2>2, <2>3, SMT DEF k
<1> QED
  BY <1>1, <1>3

RingOf(p) == [i \in 1 .. p.size |-> p.data[(p.first + i - 1) % pipe_max_size]]

\* The contents of a ring buffer with members p are a sequence.
LEMMA InRing ==
    ASSUME PipeAssumption, pipe_max_size > 0, NEW p \in PipeType
    PROVE  /\ RingOf(p) \in Seq(Nat) /\ Len(RingOf(p)) = p.size
           /\ \A i \in 1 .. p.size :
                 /\ (p.first + i - 1) % pipe_max_size \in Slots
                 /\ RingOf(p)[i] = p.data[(p.first + i - 1) % pipe_max_size]
<1>1. pipe_max_size \in Nat /\ p.size \in Nat /\ p.first \in Nat /\ p.data \in [Slots -> Nat]
  BY DEF PipeAssumption, PipeType
<1>2. \A i \in 1 .. p.size : (p.first + i - 1) % pipe_max_size \in Slots
  BY <1>1, SMTT(60) DEF Slots
<1>3. RingOf(p) \in [1 .. p.size -> Nat]
  BY <1>1, <1>2 DEF RingOf
<1> QED
  BY <1>1, <1>2, <1>3, IsSequence DEF RingOf

-----------------------------------------------------------------------------
(* enqueue *)

\* enqueue wakes one dequeue for its item, if one sleeps.
LEMMA OneMoreAwake ==
    ASSUME PipeAssumption, IInv, TypeOK', NEW t \in Threads, NEW p, NEW s \in signal(dequeue_sig),
           NEW place \in Places, pc[t] \notin dequeue_sig, place \notin dequeue_sig,
           pc' = [pc EXCEPT ![t] = place], t \notin asleep,
           asleep' = asleep \ If(p.dequeue_waiters > 0, s) \/
           asleep' = (asleep \ If(p.dequeue_waiters > 0, s)) \cup {t},
           p.dequeue_waiters = Cardinality(Others(t, DequeueWaiters)) + One(pc'[t] \in DequeueWaiters),
           Available \in Nat, Available' = Available + 1, pipe'.enabled = pipe.enabled
    PROVE  broadcast(dequeue_sig)' # {} =>
              /\ pipe'.enabled
              /\ Available' <= Cardinality((At(dequeue_sig) \ asleep)')
<1> SUFFICES ASSUME broadcast(dequeue_sig)' # {}
             PROVE  /\ pipe'.enabled
                    /\ Available' <= Cardinality((At(dequeue_sig) \ asleep)')
  OBVIOUS
<1> DEFINE A == At(dequeue_sig) \ asleep
           B == (At(dequeue_sig) \ asleep)'
<1>1. pc'[t] = place /\ (\A u \in Threads : u # t => pc'[u] = pc[u]) /\ asleep \subseteq Threads
  BY DEF IInv, TypeOK
<1>2. PICK d : d \in broadcast(dequeue_sig)'
  OBVIOUS
<1>3. d \in broadcast(dequeue_sig) /\ d \in Threads /\ d # t
  BY <1>1, <1>2 DEF broadcast, dequeue_sig
<1>4. p.dequeue_waiters > 0
  <2>1. d \in Others(t, DequeueWaiters)
    BY <1>3, PlaceSets DEF Others, WhereOthers, broadcast
  <2>2. Cardinality(Others(t, DequeueWaiters)) # 0 /\ Cardinality(Others(t, DequeueWaiters)) \in Nat
    BY <2>1, Count DEF Others
  <2> QED
    BY <2>2, SMT DEF One
<1>5. PICK x \in broadcast(dequeue_sig) : s = {x}
  BY <1>3 DEF signal
<1>6. x \in asleep /\ x \in Threads /\ x # t /\ pc[x] \in dequeue_sig
  BY <1>1, <1>5 DEF broadcast
<1>7. If(p.dequeue_waiters > 0, s) = {x}
  BY <1>4, <1>5 DEF If
<1>8. B = A \cup {x} /\ x \notin A
  BY <1>1, <1>6, <1>7, SMT DEF At, dequeue_sig
<1>9. IsFiniteSet(A)
  <2>1. IsFiniteSet(Threads) /\ A \subseteq Threads
    BY DEF PipeAssumption, At
  <2> QED
    BY <2>1, FS_Subset
<1>10. Cardinality(B) = Cardinality(A) + 1 /\ Cardinality(A) \in Nat
  BY <1>8, <1>9, FS_AddElement, FS_CardinalityType, ZenonT(60)
<1>11. pipe.enabled /\ Available <= Cardinality(A)
  BY <1>3 DEF IInv, NobodyOversleeps
<1> HIDE DEF A, B
<1>12. Available' <= Cardinality(B)
  BY <1>10, <1>11, SMT
<1> QED
  BY <1>11, <1>12 DEF B

\* What the refinement asks of a step.
Refines == [F!Next]_(F!vars)

\* A step that leaves the buffer, next and received alone is no step of Fifo.
LEMMA BufferStays ==
    ASSUME SameBuffer(pipe'), UNCHANGED <<next, received>>
    PROVE  Refines
<1>1. Contents' = Contents
  BY DEF SameBuffer, Contents, Available
<1> QED
  BY <1>1 DEF Refines, F!vars

\* enqueue adds its item behind the last one of the ring buffer.
LEMMA PutInBuffer ==
    ASSUME PipeAssumption, IInv, pipe_max_size > 0,
           NEW t \in Threads, NEW place \in Enqueuing, NEW p, NEW w, Ready(t, place, p, w),
           ~MustWait(place, p), ~disabled(p), enqueue_puts(t, place, p)
    PROVE  IInv' /\ Refines
<1> DEFINE m == pipe_max_size
           L == IF p.size = 0 THEN 0 ELSE (p.last + 1) % pipe_max_size
           q == [placed(p) EXCEPT !.size = @ + 1, !.enqueue_waiters = @ - 1]
<1>1. PICK s \in signal(dequeue_sig) : Return(t, q, If(p.dequeue_waiters > 0, s))
  BY DEF enqueue_puts
<1>2. /\ pipe' = q /\ pc' = [pc EXCEPT ![t] = "idle"] /\ asleep' = asleep \ If(p.dequeue_waiters > 0, s)
      /\ "idle" \in Places /\ item' = item /\ next' = next + 1 /\ received' = received
  BY <1>1, PlaceSets DEF Return, enqueue_puts
<1>3. /\ p \in PipeType /\ SameBuffer(p) /\ p.enabled = pipe.enabled /\ t \notin asleep
      /\ place \in Places /\ next \in Nat /\ CountsAs(p, t, place) /\ m \in Nat /\ m > 0
  BY PlaceSets DEF Ready, IInv, TypeOK, PipeAssumption
<1>4. p.size < m /\ p.size \in Nat /\ p.enabled /\ p.enqueue_enabled
  <2>1. ~no_room(p, place = "enqueue_or_timeout")
    BY <1>3, Conditions
  <2>2. p.size # m /\ p.enabled /\ p.enqueue_enabled
    BY <1>3, <2>1, SMT DEF no_room, disabled
  <2>3. p.size <= m /\ p.size \in Nat
    BY <1>3, SMT DEF IInv, Ring, SameBuffer, PipeType
  <2> QED
    BY <1>3, <2>2, <2>3, SMT
<1>5. /\ placed(p) \in PipeType /\ L \in Slots
      /\ placed(p).first = IF p.size = 0 THEN 0 ELSE p.first
      /\ placed(p).last = L
      /\ placed(p).data = [p.data EXCEPT ![L] = next]
      /\ placed(p).size = p.size
      /\ placed(p).enabled = p.enabled /\ placed(p).enqueue_enabled = p.enqueue_enabled
      /\ placed(p).dequeue_waiters = p.dequeue_waiters
      /\ placed(p).enqueue_waiters = p.enqueue_waiters
      /\ placed(p).unblock_sig_waiters = p.unblock_sig_waiters
  BY <1>3, Placed
<1>6. /\ p.dequeue_waiters = Cardinality(Others(t, DequeueWaiters))
      /\ p.enqueue_waiters - 1 = Cardinality(Others(t, EnqueueWaiters))
      /\ p.unblock_sig_waiters = Cardinality(Others(t, unblock_sig))
      /\ p.enqueue_waiters - 1 \in Nat
  <2>1. place \notin DequeueWaiters /\ place \in EnqueueWaiters /\ place \notin unblock_sig
    BY PlaceSets
  <2>2. \A S : Cardinality(Others(t, S)) \in Nat
    BY Count DEF Others
  <2> QED
    BY <1>3, <2>1, <2>2, SMT DEF CountsAs, One
<1>7. /\ q \in PipeType
      /\ q.size = p.size + 1 /\ q.enqueue_waiters = p.enqueue_waiters - 1
      /\ q.first = placed(p).first /\ q.last = placed(p).last /\ q.data = placed(p).data
      /\ q.dequeue_waiters = p.dequeue_waiters
      /\ q.unblock_sig_waiters = p.unblock_sig_waiters
  <2> DEFINE r == placed(p)
  <2>1. r \in PipeType /\ r.size = p.size /\ r.enqueue_waiters = p.enqueue_waiters
        /\ r.dequeue_waiters = p.dequeue_waiters
        /\ r.unblock_sig_waiters = p.unblock_sig_waiters
    BY <1>5
  <2>2. q = [r EXCEPT !.size = r.size + 1, !.enqueue_waiters = r.enqueue_waiters - 1]
    OBVIOUS
  <2> HIDE DEF r, q
  <2>3. q \in PipeType
    <3> DEFINE n == r.size + 1
               k == r.enqueue_waiters - 1
    <3>1. n \in Nat /\ k \in Nat /\ q = [r EXCEPT !.size = n, !.enqueue_waiters = k]
      BY <1>4, <1>6, <2>1, <2>2, SMT
    <3> HIDE DEF n, k
    <3> QED BY <2>1, <3>1 DEF PipeType
  <2>4. /\ q.size = r.size + 1 /\ q.enqueue_waiters = r.enqueue_waiters - 1
        /\ q.first = r.first /\ q.last = r.last /\ q.data = r.data
        /\ q.dequeue_waiters = r.dequeue_waiters
        /\ q.unblock_sig_waiters = r.unblock_sig_waiters
    BY <2>1, <2>2 DEF PipeType
  <2> QED BY <2>1, <2>3, <2>4 DEF r
<1>8. q.enabled = pipe.enabled /\ q.enqueue_enabled = p.enqueue_enabled
  <2> DEFINE r == placed(p)
  <2>1. r \in PipeType
    BY <1>5
  <2> HIDE DEF r
  <2>2. q.enabled = r.enabled /\ q.enqueue_enabled = r.enqueue_enabled
    BY <2>1 DEF PipeType, r
  <2> QED
    BY <1>3, <1>5, <2>2 DEF r
<1> HIDE DEF L, q, m
<1>9. CountsAs(q, t, "idle")
  <2>1. "idle" \notin DequeueWaiters /\ "idle" \notin EnqueueWaiters /\ "idle" \notin unblock_sig
    BY PlaceSets
  <2>2. \A S : Cardinality(Others(t, S)) \in Nat
    BY Count DEF Others
  <2> QED
    BY <1>6, <1>7, <2>1, <2>2, SMT DEF CountsAs, One
<1>10. /\ TypeOK' /\ Counted' /\ SleepsInLoop'
       /\ pc'[t] = "idle" /\ \A u \in Threads : u # t => pc'[u] = pc[u]
  <2>1. next' \in Nat
    BY <1>2, <1>3, SMTT(60)
  <2> QED
    BY <1>2, <1>3, <1>7, <1>9, <2>1, Books DEF IInv, TypeOK
<1>11. OneDestructor' /\ DestructorsWait'
  BY <1>2, <1>3, <1>8, DestructorStays, ZenonT(60)
<1>12. At(HandingOver) = {} /\ At(HandingOver)' = {}
  <2>1. At(HandingOver) = {}
    BY <1>3, SMT DEF IInv, Ring, m
  <2> QED
    BY <1>10, <2>1, PlaceSets DEF At, HandingOver
<1>13. /\ p.size > 0 => /\ p.first < m /\ p.first \in Nat
                        /\ p.last = (p.first + p.size - 1) % m
                        /\ L = (p.first + p.size) % m
       /\ q.first < m /\ q.first \in Nat
       /\ L = (q.first + p.size) % m
  <2>1. CASE p.size = 0
    <3>1. L = 0 /\ q.first = 0 /\ q.first + p.size = 0
      BY <1>5, <1>7, <2>1, SMT DEF L
    <3>2. 0 % m = 0
      BY <1>3, SMT
    <3> QED
      BY <1>3, <1>4, <2>1, <3>1, <3>2, SMT
  <2>2. CASE p.size > 0
    <3>1. p.first < m /\ p.last = (p.first + p.size - 1) % m /\ p.first \in Nat
      BY <1>3, <2>2, SMT DEF IInv, Ring, SameBuffer, PipeType, m
    <3>2. L = (p.last + 1) % m /\ q.first = p.first
      BY <1>5, <1>7, <2>2, <1>4, SMT DEF L, m
    <3>3. p.last = IF p.first + p.size - 1 < m THEN p.first + p.size - 1 ELSE p.first + p.size - 1 - m
      BY <1>3, <1>4, <2>2, <3>1, Wraps, SMT
    <3>4. (p.first + p.size) % m = IF p.first + p.size < m THEN p.first + p.size ELSE p.first + p.size - m
      BY <1>3, <1>4, <2>2, <3>1, Wraps, SMT
    <3>5. (p.last + 1) % m = IF p.last + 1 < m THEN p.last + 1 ELSE p.last + 1 - m
      <4>1. p.last \in Nat /\ p.last + 1 \in Nat /\ p.last + 1 < 2 * m
        BY <1>3, <1>4, <2>2, <3>1, <3>3, SMTT(60)
      <4> QED
        BY <1>3, <4>1, Wraps, SMT
    <3>6. (p.last + 1) % m = (p.first + p.size) % m
      BY <1>3, <1>4, <2>2, <3>1, <3>3, <3>4, <3>5, SMTT(60)
    <3> QED
      BY <3>1, <3>2, <3>6
  <2> QED
    BY <1>4, <2>1, <2>2, SMT
<1>14. Ring'
  <2>1. q.size <= m /\ q.size - 1 = p.size
    BY <1>3, <1>4, <1>7, SMT
  <2>2. q.first + q.size - 1 = q.first + p.size
    BY <1>4, <1>7, <1>13, SMTT(60)
  <2>3. q.last = (q.first + q.size - 1) % m
    BY <1>5, <1>7, <1>13, <2>2
  <2> QED
    BY <1>2, <1>3, <1>12, <1>13, <2>1, <2>3, SMTT(60) DEF Ring, m
<1>15. HandoverIsMine'
  BY <1>12 DEF HandoverIsMine
<1>16. ASSUME NEW u \in broadcast(enqueue_sig)'
       PROVE  MustWait(pc'[u], pipe')
  <2>1. u \in asleep /\ u \in Threads /\ u # t /\ pc'[u] = pc[u] /\ pc[u] \in enqueue_sig
        /\ pc[u] \in Places
    BY <1>2, <1>3, <1>10, <1>16 DEF broadcast, enqueue_sig, IInv, TypeOK
  <2>2. MustWait(pc[u], pipe)
    BY <2>1 DEF IInv, NobodyOversleeps, broadcast
  <2>3. pc[u] \notin Enqueuing
    BY <1>3, <1>4, <2>1, <2>2, Conditions, SMTT(60) DEF no_room, SameBuffer, m
  <2>4. pc[u] \notin HandingOver
    BY <1>12, <2>1 DEF At
  <2>5. pc[u] = "wait_until_empty"
    BY <2>1, <2>3, <2>4, PlaceSets
  <2>6. not_empty(pipe')
    <3>1. not_empty(pipe)
      BY <2>1, <2>2, <2>5, Conditions
    <3>2. q.size > 0
      BY <1>4, <1>7, SMTT(60)
    <3> QED
      BY <1>2, <1>8, <3>1, <3>2 DEF not_empty
  <2> QED
    BY <2>1, <2>5, <2>6, Conditions
<1>17. broadcast(dequeue_sig)' # {} =>
          /\ pipe'.enabled
          /\ Available' <= Cardinality((At(dequeue_sig) \ asleep)')
  <2>1. pc[t] \notin dequeue_sig /\ "idle" \notin dequeue_sig /\ "idle" \notin DequeueWaiters
    BY PlaceSets DEF Ready
  <2>2. Available = p.size /\ Available' = p.size + 1
    BY <1>2, <1>3, <1>7 DEF Available, SameBuffer, m
  <2>3. p.dequeue_waiters = Cardinality(Others(t, DequeueWaiters)) + One(pc'[t] \in DequeueWaiters)
    <3>1. Cardinality(Others(t, DequeueWaiters)) \in Nat
      BY Count DEF Others
    <3> QED
      BY <1>6, <1>10, <2>1, <3>1, SMTT(60) DEF One
  <2>4. pipe'.enabled = pipe.enabled
    BY <1>2, <1>8
  <2> QED
    BY <1>2, <1>3, <1>4, <1>10, <2>1, <2>2, <2>3, <2>4, OneMoreAwake
<1>18. Refines
  <2>1. m = pipe_max_size /\ m # 0 /\ pipe \in PipeType
    BY <1>3, SMT DEF m, IInv, TypeOK
  <2>2. Contents = RingOf(pipe) /\ Contents' = RingOf(q)
    BY <1>2, <2>1 DEF Contents, RingOf
  <2>3. /\ Contents \in Seq(Nat) /\ Len(Contents) = p.size
        /\ \A i \in 1 .. p.size : /\ (p.first + i - 1) % m \in Slots
                                  /\ Contents[i] = p.data[(p.first + i - 1) % m]
    BY <1>3, <2>1, <2>2, InRing DEF SameBuffer
  <2>4. /\ Contents' \in Seq(Nat) /\ Len(Contents') = p.size + 1
        /\ \A i \in 1 .. p.size + 1 : Contents'[i] = q.data[(q.first + i - 1) % m]
    BY <1>3, <1>7, <2>1, <2>2, InRing
  <2>5. \A i \in 1 .. p.size : Contents'[i] = Contents[i]
    <3> SUFFICES ASSUME NEW i \in 1 .. p.size PROVE Contents'[i] = Contents[i]
      OBVIOUS
    <3>1. q.first = p.first /\ p.first \in Nat /\ p.first < m /\ p.size > 0 /\ i \in 1 .. p.size + 1
      BY <1>4, <1>5, <1>7, <1>13, SMTT(60)
    <3>2. (p.first + i - 1) % m # L
      <4>1. (p.first + i - 1) % m = IF p.first + i - 1 < m THEN p.first + i - 1 ELSE (p.first + i - 1) - m
        <5>1. p.first + i - 1 \in Nat /\ p.first + i - 1 < 2 * m
          BY <1>3, <1>4, <3>1, SMT
        <5> QED
          BY <1>3, <3>1, <5>1, Wraps
      <4>2. (p.first + p.size) % m = IF p.first + p.size < m THEN p.first + p.size ELSE p.first + p.size - m
        BY <1>3, <1>4, <3>1, Wraps, SMTT(60)
      <4> QED
        BY <1>3, <1>4, <1>13, <3>1, <4>1, <4>2, SMT
    <3>3. (p.first + i - 1) % m \in Slots /\ p.data \in [Slots -> Nat]
      BY <1>3, <2>3 DEF PipeType
    <3>4. q.data[(p.first + i - 1) % m] = p.data[(p.first + i - 1) % m]
      BY <1>5, <1>7, <3>2, <3>3, SMT
    <3> QED
      BY <2>3, <2>4, <3>1, <3>4
  <2>6. Contents'[p.size + 1] = next
    <3>1. (q.first + (p.size + 1) - 1) % m = L
      <4>1. q.first + (p.size + 1) - 1 = q.first + p.size
        BY <1>4, <1>13, SMT
      <4> QED
        BY <1>13, <4>1
    <3>2. q.data[L] = next
      BY <1>3, <1>5, <1>7, SMT DEF PipeType
    <3>3. p.size + 1 \in 1 .. p.size + 1
      BY <1>4, SMT
    <3> QED
      BY <2>4, <3>1, <3>2, <3>3
  <2>7. Contents' = Append(Contents, next)
    <3> DEFINE c == Contents
               d == Contents'
               e == Append(c, next)
    <3>1. e \in Seq(Nat) /\ Len(e) = Len(c) + 1 /\ e[Len(c) + 1] = next
          /\ \A i \in 1 .. Len(c) : e[i] = c[i]
      BY <1>3, <2>3, SMT
    <3>2. Len(d) = Len(e) /\ \A i \in 1 .. Len(d) : d[i] = e[i]
      <4> HIDE DEF c, d, e
      <4>1. Len(c) = p.size /\ Len(d) = p.size + 1 /\ p.size \in Nat
            /\ (\A i \in 1 .. p.size : d[i] = c[i]) /\ d[p.size + 1] = next
        BY <1>4, <2>3, <2>4, <2>5, <2>6 DEF c, d
      <4> QED
        BY <3>1, <4>1, SMTT(60)
    <3> HIDE DEF c, d, e
    <3>3. d \in Seq(Nat)
      BY <2>4 DEF d
    <3> QED
      BY <3>1, <3>2, <3>3, SameSequence DEF c, d, e
  <2>8. Len(Contents) < m
    BY <1>4, <2>3
  <2>9. F!Put
    BY <1>2, <2>1, <2>7, <2>8 DEF F!Put
  <2> QED
    BY <2>9 DEF Refines, F!Next
<1>19. NobodyOversleeps'
  BY <1>16, <1>17 DEF NobodyOversleeps
<1> QED
  BY <1>10, <1>11, <1>14, <1>15, <1>18, <1>19 DEF IInv

\* enqueue on a pipe of size 0 leaves its item in data[0] and waits.
LEMMA PutToHandOver ==
    ASSUME PipeAssumption, IInv, pipe_max_size = 0,
           NEW t \in Threads, NEW place \in Enqueuing, NEW p, NEW w, Ready(t, place, p, w),
           ~MustWait(place, p), ~disabled(p), enqueue_puts(t, place, p)
    PROVE  IInv' /\ Refines
<1> DEFINE q   == placed(p)
           new == IF place = "enqueue" THEN "handover" ELSE "handover_or_timeout"
<1>1. PICK s \in signal(dequeue_sig) : Sleep(t, new, q, If(p.dequeue_waiters > 0, s))
  BY SMT DEF enqueue_puts
<1>2. /\ pipe' = q /\ pc' = [pc EXCEPT ![t] = new]
      /\ asleep' = (asleep \ If(p.dequeue_waiters > 0, s)) \cup {t}
      /\ item' = [item EXCEPT ![t] = next] /\ next' = next + 1 /\ received' = received
  BY <1>1, SMT DEF Sleep, enqueue_puts
<1>3. /\ p \in PipeType /\ SameBuffer(p) /\ p.enabled = pipe.enabled /\ t \notin asleep
      /\ place \in Places /\ next \in Nat /\ CountsAs(p, t, place)
      /\ new \in HandingOver /\ new \in Places
  BY PlaceSets DEF Ready, IInv, TypeOK
<1>4. p.size = 0 /\ p.first = 1 /\ p.enabled /\ p.enqueue_enabled
  <2>1. ~no_room(p, place = "enqueue_or_timeout")
    BY <1>3, Conditions
  <2>2. p.size = 0
    BY <1>3 DEF IInv, Ring, SameBuffer
  <2> QED
    BY <2>1, <2>2 DEF no_room, disabled
<1>5. /\ q \in PipeType /\ q.first = 0 /\ q.last = 0 /\ q.data[0] = next /\ q.size = 0
      /\ q.dequeue_waiters = p.dequeue_waiters
      /\ q.enqueue_waiters = p.enqueue_waiters
      /\ q.unblock_sig_waiters = p.unblock_sig_waiters
  <2>1. 0 \in Slots /\ p.data \in [Slots -> Nat]
    BY <1>3, SMT DEF Slots, PipeType
  <2> QED
    BY <1>3, <1>4, <2>1, Placed
<1>6. q.enabled = p.enabled /\ q.enqueue_enabled = p.enqueue_enabled
  BY <1>3, <1>4, Placed
<1> HIDE DEF q, new
<1>7. CountsAs(q, t, new)
  <2>1. /\ new \notin DequeueWaiters /\ new \in EnqueueWaiters /\ new \notin unblock_sig
        /\ place \notin DequeueWaiters /\ place \in EnqueueWaiters /\ place \notin unblock_sig
    BY <1>3, PlaceSets
  <2> QED
    BY <1>3, <1>5, <2>1 DEF CountsAs, One
<1>8. /\ TypeOK' /\ Counted' /\ SleepsInLoop'
      /\ pc'[t] = new /\ \A u \in Threads : u # t => pc'[u] = pc[u]
  <2>1. next' \in Nat /\ item' \in [Threads -> Nat] /\ received' \in Seq(Nat)
    BY <1>2, <1>3, SMT DEF IInv, TypeOK
  <2>2. new \in enqueue_sig \cup dequeue_sig \cup unblock_sig
    BY <1>3, PlaceSets
  <2> QED
    BY <1>2, <1>3, <1>5, <1>7, <2>1, <2>2, Books
<1>9. OneDestructor' /\ DestructorsWait'
  BY <1>2, <1>3, <1>6, DestructorStays, PlaceSets
<1>10. At(HandingOver) = {} /\ At(HandingOver)' = {t}
  <2>1. At(HandingOver) = {}
    BY <1>3, <1>4, SMT DEF IInv, HandoverIsMine, SameBuffer
  <2> QED
    BY <1>3, <1>8, <2>1 DEF At, HandingOver
<1>11. Ring'
  BY <1>2, <1>5, <1>10 DEF Ring
<1>12. HandoverIsMine'
  <2>1. item'[t] = next
    BY <1>2 DEF IInv, TypeOK
  <2> QED
    BY <1>2, <1>5, <1>10, <2>1 DEF HandoverIsMine
<1>13. ~disabled(q)
  BY <1>4, <1>6 DEF disabled
<1>14. ASSUME NEW u \in broadcast(enqueue_sig)'
       PROVE  MustWait(pc'[u], pipe')
  <2>1. CASE u = t
    BY <1>2, <1>3, <1>5, <1>8, <1>13, <2>1, Conditions, SMTT(60) DEF not_taken
  <2>2. CASE u # t
    <3>1. u \in asleep /\ u \in Threads /\ pc'[u] = pc[u] /\ pc[u] \in enqueue_sig
          /\ pc[u] \in Places
      BY <1>2, <1>8, <1>14, <2>2 DEF broadcast, enqueue_sig, IInv, TypeOK
    <3>2. MustWait(pc[u], pipe)
      BY <3>1 DEF IInv, NobodyOversleeps, broadcast
    <3>3. pc[u] \notin HandingOver
      BY <1>10, <3>1 DEF At
    <3>4. pc[u] # "wait_until_empty"
      <4>1. pc[u] = "wait_until_empty" => pipe.size > 0
        BY <3>1, <3>2, Conditions DEF not_empty
      <4>2. pipe.size = 0
        BY <1>3, <1>4 DEF SameBuffer
      <4> QED
        BY <4>1, <4>2, SMT
    <3>5. pc[u] \in Enqueuing
      BY <3>1, <3>3, <3>4, PlaceSets
    <3> QED
      BY <1>2, <1>5, <1>13, <3>1, <3>5, Conditions, SMTT(60) DEF no_room
  <2> QED
    BY <2>1, <2>2
<1>15. broadcast(dequeue_sig)' # {} =>
          /\ pipe'.enabled
          /\ Available' <= Cardinality((At(dequeue_sig) \ asleep)')
  <2>1. pc[t] \notin dequeue_sig /\ new \notin dequeue_sig /\ new \notin DequeueWaiters
        /\ place \notin DequeueWaiters
    BY <1>3, PlaceSets DEF Ready
  <2>2. Available = 0 /\ Available' = 1
    BY <1>2, <1>3, <1>4, <1>5, SMTT(60) DEF Available, SameBuffer
  <2>3. p.dequeue_waiters = Cardinality(Others(t, DequeueWaiters)) + One(pc'[t] \in DequeueWaiters)
    BY <1>3, <1>8, <2>1 DEF CountsAs, One
  <2>4. pipe'.enabled = pipe.enabled
    BY <1>2, <1>3, <1>6
  <2>5. Available \in Nat /\ Available' = Available + 1
    BY <2>2, SMT
  <2> QED
    BY <1>2, <1>3, <1>8, <2>1, <2>3, <2>4, <2>5, OneMoreAwake
<1>16. Refines
  <2>1. Contents = <<>> /\ Contents' = <<next>>
    BY <1>2, <1>3, <1>4, <1>5, SMTT(60) DEF Contents, Available, SameBuffer
  <2>2. Len(Contents) < 1 /\ Contents' = Append(Contents, next)
    BY <2>1, SMT
  <2> QED
    BY <1>2, <2>2 DEF Refines, F!Next, F!Put
<1>17. NobodyOversleeps'
  BY <1>14, <1>15 DEF NobodyOversleeps
<1> QED
  BY <1>8, <1>9, <1>11, <1>12, <1>16, <1>17 DEF IInv

\* enqueue on a pipe of size 0 comes back: its item was taken, or it takes
\* the item back because the pipe has been disabled.
LEMMA LeaveHandoverInv ==
    ASSUME PipeAssumption, IInv, NEW t \in Threads, NEW place \in HandingOver, NEW p, NEW w,
           Ready(t, place, p, w), ~MustWait(place, p), leave_handover(t, p)
    PROVE  IInv' /\ Refines
<1> DEFINE q == [p EXCEPT !.first = 1, !.last = 1, !.enqueue_waiters = @ - 1]
           v == IF p.last = 0
                THEN If(p.unblock_sig_waiters > 0, broadcast(unblock_sig))
                ELSE If(p.enqueue_waiters > 1, broadcast(enqueue_sig)) \cup
                     If(~p.enabled /\ p.unblock_sig_waiters > 0, broadcast(unblock_sig))
<1>1. /\ pipe' = q /\ pc' = [pc EXCEPT ![t] = "idle"] /\ asleep' = asleep \ v
      /\ item' = item /\ next' = next /\ received' = received /\ "idle" \in Places
  BY PlaceSets DEF leave_handover, Return
<1>2. /\ p \in PipeType /\ SameBuffer(p) /\ p.enabled = pipe.enabled /\ t \notin asleep
      /\ place \in Places /\ CountsAs(p, t, place) /\ pc[t] = place
  BY PlaceSets DEF Ready
<1>3. t \in At(HandingOver) /\ At(HandingOver) = {t} /\ p.first = 0
  <2>1. t \in At(HandingOver)
    BY <1>2 DEF At
  <2> QED
    BY <1>2, <2>1 DEF IInv, HandoverIsMine, SameBuffer
<1>4. pipe_max_size = 0 /\ p.size = 0 /\ p.last \in {0, 1}
  BY <1>2, <1>3 DEF IInv, Ring, SameBuffer
<1>5. /\ p.dequeue_waiters = Cardinality(Others(t, DequeueWaiters))
      /\ p.enqueue_waiters - 1 = Cardinality(Others(t, EnqueueWaiters))
      /\ p.unblock_sig_waiters = Cardinality(Others(t, unblock_sig))
      /\ p.enqueue_waiters - 1 \in Nat /\ p.enqueue_waiters \in Nat
  <2>1. place \notin DequeueWaiters /\ place \in EnqueueWaiters /\ place \notin unblock_sig
    BY PlaceSets
  <2>2. \A S : Cardinality(Others(t, S)) \in Nat
    BY Count DEF Others
  <2> QED
    BY <1>2, <2>1, <2>2, SMT DEF CountsAs, One
<1>6. /\ q \in PipeType /\ q.first = 1 /\ q.last = 1 /\ q.size = 0
      /\ q.dequeue_waiters = p.dequeue_waiters
      /\ q.enqueue_waiters = p.enqueue_waiters - 1
      /\ q.unblock_sig_waiters = p.unblock_sig_waiters
  <2> DEFINE k == p.enqueue_waiters - 1
  <2>1. k \in Nat /\ q = [p EXCEPT !.first = 1, !.last = 1, !.enqueue_waiters = k]
    BY <1>5
  <2> HIDE DEF k, q
  <2> QED BY <1>2, <1>4, <2>1, ZenonT(60) DEF PipeType, k
<1>7. q.enabled = p.enabled
  BY <1>2 DEF PipeType
<1> HIDE DEF q, v
<1>8. CountsAs(q, t, "idle")
  <2>1. "idle" \notin DequeueWaiters /\ "idle" \notin EnqueueWaiters /\ "idle" \notin unblock_sig
    BY PlaceSets
  <2>2. \A S : Cardinality(Others(t, S)) \in Nat
    BY Count DEF Others
  <2> QED
    BY <1>5, <1>6, <2>1, <2>2, SMT DEF CountsAs, One
<1>9. /\ TypeOK' /\ Counted' /\ SleepsInLoop'
      /\ pc'[t] = "idle" /\ \A u \in Threads : u # t => pc'[u] = pc[u]
  BY <1>1, <1>2, <1>6, <1>8, Books DEF IInv, TypeOK
<1>10. OneDestructor' /\ DestructorsWait'
  BY <1>1, <1>7, DestructorStays, ZenonT(60)
<1>11. At(HandingOver)' = {}
  BY <1>3, <1>9, PlaceSets DEF At, HandingOver
<1>12. Ring' /\ HandoverIsMine'
  BY <1>1, <1>4, <1>6, <1>11 DEF Ring, HandoverIsMine
<1>13. ASSUME NEW u \in broadcast(enqueue_sig)'
       PROVE  FALSE
  <2>1. /\ u \in asleep \ v /\ u \in Threads /\ u # t /\ pc[u] \in enqueue_sig /\ pc[u] \in Places
        /\ u \in broadcast(enqueue_sig)
    BY <1>1, <1>2, <1>9, <1>13 DEF broadcast, enqueue_sig, IInv, TypeOK
  <2>2. MustWait(pc[u], pipe)
    BY <2>1 DEF IInv, NobodyOversleeps
  <2>3. pc[u] \notin HandingOver
    BY <1>3, <2>1 DEF At
  <2>4. pc[u] # "wait_until_empty"
    <3>1. pc[u] = "wait_until_empty" => pipe.size > 0
      BY <2>1, <2>2, Conditions DEF not_empty
    <3>2. pipe.size = 0
      BY <1>2, <1>4 DEF SameBuffer
    <3> QED
      BY <3>1, <3>2, SMT
  <2>5. pc[u] \in Enqueuing
    BY <2>1, <2>3, <2>4, PlaceSets
  <2>6. ~disabled(pipe)
    BY <2>1, <2>2, <2>5, Conditions DEF no_room
  <2>7. ~disabled(p)
    BY <1>2, <2>6 DEF disabled, SameBuffer
  <2>8. p.last # 0
    BY <1>2, <2>7, Conditions DEF not_taken
  <2>9. p.enqueue_waiters > 1
    <3>1. u \in Others(t, EnqueueWaiters)
      BY <2>1, PlaceSets DEF Others, WhereOthers
    <3>2. /\ Cardinality(Others(t, EnqueueWaiters)) # 0
          /\ Cardinality(Others(t, EnqueueWaiters)) \in Nat
      BY <3>1, Count DEF Others
    <3> QED
      BY <1>5, <3>2, SMT
  <2>10. broadcast(enqueue_sig) \subseteq v
    BY <2>8, <2>9 DEF v, If
  <2> QED
    BY <2>1, <2>10
<1>14. broadcast(dequeue_sig)' # {} =>
          /\ pipe'.enabled
          /\ Available' <= Cardinality((At(dequeue_sig) \ asleep)')
  <2>1. pc[t] \notin dequeue_sig /\ "idle" \notin dequeue_sig
    BY <1>2, PlaceSets
  <2>2. broadcast(dequeue_sig)' = broadcast(dequeue_sig) \ v
    BY <1>1, <1>2, <1>9, <2>1 DEF broadcast, dequeue_sig, IInv, TypeOK
  <2>3. At(dequeue_sig) \ asleep \subseteq (At(dequeue_sig) \ asleep)'
    BY <1>1, <1>9, <2>1 DEF At, dequeue_sig
  <2>4. Available' = 0 /\ Available \in {0, 1}
    BY <1>1, <1>4, <1>6, SMTT(60) DEF Available
  <2>5. Available' \in Nat /\ Available \in Nat /\ Available' <= Available
    BY <2>4, SMT
  <2>6. pipe'.enabled = pipe.enabled
    BY <1>1, <1>2, <1>7
  <2> QED
    BY <1>9, <2>2, <2>3, <2>5, <2>6, EnoughAwake
<1>15. Refines
  <2>1. Contents' = <<>>
    BY <1>1, <1>4, <1>6, SMT DEF Contents, Available
  <2> QED
    BY <1>1, <1>4, <2>1 DEF Refines, F!Next, F!TakeBack
<1>16. NobodyOversleeps'
  BY <1>13, <1>14 DEF NobodyOversleeps
<1> QED
  BY <1>9, <1>10, <1>12, <1>15, <1>16 DEF IInv

-----------------------------------------------------------------------------
(* dequeue *)

\* The members after dequeue has taken an item.
LEMMA Taken ==
    ASSUME PipeAssumption, IInv, NEW p \in PipeType, SameBuffer(p), p.enabled, ~nothing_to_take(p)
    PROVE  /\ taken(p) \in PipeType
           /\ pipe_max_size > 0 => /\ p.size > 0 /\ taken(p).first = (p.first + 1) % pipe_max_size
                                   /\ taken(p).size = p.size - 1 /\ taken(p).last = p.last
           /\ pipe_max_size = 0 => /\ p.size = 0 /\ p.first = 0 /\ p.last = 0
                                   /\ taken(p).size = 0 /\ taken(p).first = 0 /\ taken(p).last = 1
           /\ taken(p).data = p.data
           /\ taken(p).enabled = p.enabled /\ taken(p).enqueue_enabled = p.enqueue_enabled
           /\ taken(p).dequeue_waiters = p.dequeue_waiters
           /\ taken(p).enqueue_waiters = p.enqueue_waiters
           /\ taken(p).unblock_sig_waiters = p.unblock_sig_waiters
           /\ p.first \in Slots
<1>0. pipe_max_size \in Nat /\ p.size \in Nat /\ p.first \in Nat /\ p.last \in Nat
  BY DEF PipeAssumption, PipeType
<1>1. CASE pipe_max_size > 0
  <2>1. p.size > 0
    BY <1>0, <1>1, SMT DEF nothing_to_take
  <2> DEFINE f == (p.first + 1) % pipe_max_size
             n == p.size - 1
  <2>2. f \in Nat /\ n \in Nat /\ taken(p) = [p EXCEPT !.first = f, !.size = n]
    BY <1>0, <1>1, <2>1, SMT DEF taken
  <2>3. p.first \in Slots
    BY <1>0, <1>1, <2>1, SMT DEF IInv, Ring, SameBuffer, Slots
  <2> HIDE DEF f, n
  <2>4. taken(p) \in PipeType
    BY <2>2 DEF PipeType
  <2>5. /\ taken(p).first = f /\ taken(p).size = n /\ taken(p).last = p.last
        /\ taken(p).data = p.data
        /\ taken(p).dequeue_waiters = p.dequeue_waiters
        /\ taken(p).enqueue_waiters = p.enqueue_waiters
        /\ taken(p).unblock_sig_waiters = p.unblock_sig_waiters
    BY <2>2 DEF PipeType
  <2>6. taken(p).enabled = p.enabled /\ taken(p).enqueue_enabled = p.enqueue_enabled
    BY <2>2 DEF PipeType
  <2> QED
    BY <1>1, <2>1, <2>3, <2>4, <2>5, <2>6, SMT DEF f, n
<1>2. CASE pipe_max_size = 0
  <2>1. p.size = 0 /\ p.first = 0 /\ p.last = 0 /\ p.first \in Slots
    BY <1>2, SMT DEF nothing_to_take, IInv, Ring, SameBuffer, Slots
  <2>2. taken(p) = [p EXCEPT !.last = 1]
    BY <1>2, SMT DEF taken
  <2>3. taken(p) \in PipeType
    BY <2>2, SMT DEF PipeType
  <2>4. /\ taken(p).first = p.first /\ taken(p).size = p.size /\ taken(p).last = 1
        /\ taken(p).data = p.data
        /\ taken(p).dequeue_waiters = p.dequeue_waiters
        /\ taken(p).enqueue_waiters = p.enqueue_waiters
        /\ taken(p).unblock_sig_waiters = p.unblock_sig_waiters
    BY <2>2 DEF PipeType
  <2>5. taken(p).enabled = p.enabled /\ taken(p).enqueue_enabled = p.enqueue_enabled
    BY <2>2 DEF PipeType
  <2> QED
    BY <1>2, <2>1, <2>3, <2>4, <2>5, SMT
<1>3. pipe_max_size > 0 \/ pipe_max_size = 0
  BY <1>0, SMT
<1> QED
  BY <1>1, <1>2, <1>3

\* dequeue takes the oldest item.
LEMMA TakeInv ==
    ASSUME PipeAssumption, IInv, NEW t \in Threads, NEW place \in Dequeuing, NEW p, NEW w,
           Ready(t, place, p, w), ~MustWait(place, p), p.enabled, dequeue_takes(t, p, w)
    PROVE  IInv' /\ Refines
<1> DEFINE m == pipe_max_size
           r == taken(p)
           q == [r EXCEPT !.dequeue_waiters = @ - 1]
           v == w \cup If(p.enqueue_waiters > 0, broadcast(enqueue_sig))
<1>1. /\ pipe' = q /\ pc' = [pc EXCEPT ![t] = "idle"] /\ asleep' = asleep \ v
      /\ item' = item /\ next' = next /\ received' = Append(received, p.data[p.first])
      /\ "idle" \in Places
  BY PlaceSets DEF dequeue_takes, Return
<1>2. /\ p \in PipeType /\ SameBuffer(p) /\ p.enabled = pipe.enabled /\ t \notin asleep
      /\ place \in Places /\ CountsAs(p, t, place) /\ m \in Nat /\ pc[t] \notin HandingOver
      /\ p.size \in Nat /\ p.first \in Nat /\ p.data \in [Slots -> Nat]
  BY PlaceSets DEF Ready, PipeAssumption, PipeType
<1>3. ~nothing_to_take(p)
  BY <1>2, Conditions
<1>4. /\ r \in PipeType
      /\ m > 0 => p.size > 0 /\ r.first = (p.first + 1) % m /\ r.size = p.size - 1 /\ r.last = p.last
      /\ m = 0 => /\ p.size = 0 /\ p.first = 0 /\ p.last = 0
                  /\ r.size = 0 /\ r.first = 0 /\ r.last = 1
      /\ r.data = p.data /\ r.enabled = p.enabled
      /\ r.dequeue_waiters = p.dequeue_waiters /\ r.enqueue_waiters = p.enqueue_waiters
      /\ r.unblock_sig_waiters = p.unblock_sig_waiters
      /\ p.first \in Slots
  BY <1>2, <1>3, Taken
<1>5. /\ p.dequeue_waiters - 1 = Cardinality(Others(t, DequeueWaiters))
      /\ p.enqueue_waiters = Cardinality(Others(t, EnqueueWaiters))
      /\ p.unblock_sig_waiters = Cardinality(Others(t, unblock_sig))
      /\ p.dequeue_waiters - 1 \in Nat
  <2>1. place \in DequeueWaiters /\ place \notin EnqueueWaiters /\ place \notin unblock_sig
    BY PlaceSets
  <2>2. \A S : Cardinality(Others(t, S)) \in Nat
    BY Count DEF Others
  <2> QED
    BY <1>2, <2>1, <2>2, SMTT(60) DEF CountsAs, One
<1>6. /\ q \in PipeType /\ q.first = r.first /\ q.last = r.last /\ q.size = r.size /\ q.data = r.data
      /\ q.dequeue_waiters = p.dequeue_waiters - 1
      /\ q.enqueue_waiters = r.enqueue_waiters
      /\ q.unblock_sig_waiters = r.unblock_sig_waiters
  <2> HIDE DEF r
  <2> DEFINE k == p.dequeue_waiters - 1
  <2>1. k \in Nat /\ q = [r EXCEPT !.dequeue_waiters = k]
    BY <1>4, <1>5
  <2> HIDE DEF k, q
  <2> QED BY <1>4, <2>1 DEF PipeType, k
<1>7. q.enabled = p.enabled
  <2> HIDE DEF r
  <2> QED BY <1>4 DEF PipeType
<1> HIDE DEF q, v, r, m
<1>8. CountsAs(q, t, "idle")
  <2>1. "idle" \notin DequeueWaiters /\ "idle" \notin EnqueueWaiters /\ "idle" \notin unblock_sig
    BY PlaceSets
  <2>2. \A S : Cardinality(Others(t, S)) \in Nat
    BY Count DEF Others
  <2> QED
    BY <1>4, <1>5, <1>6, <2>1, <2>2, SMT DEF CountsAs, One
<1>9. /\ TypeOK' /\ Counted' /\ SleepsInLoop'
      /\ pc'[t] = "idle" /\ \A u \in Threads : u # t => pc'[u] = pc[u]
  <2>1. p.data[p.first] \in Nat /\ received \in Seq(Nat)
    BY <1>2, <1>4 DEF IInv, TypeOK
  <2>2. received' \in Seq(Nat)
    BY <1>1, <2>1, SMT
  <2> QED
    BY <1>1, <1>2, <1>6, <1>8, <2>2, Books DEF IInv, TypeOK
<1>10. OneDestructor' /\ DestructorsWait'
  BY <1>1, <1>7, DestructorStays, ZenonT(60)
<1>11. At(HandingOver)' = At(HandingOver)
  BY <1>2, <1>9, PlaceSets DEF At, HandingOver
<1>12. m > 0 => /\ p.first < m /\ q.first < m /\ q.first \in Nat
                 /\ q.first = IF p.first + 1 < m THEN p.first + 1 ELSE p.first + 1 - m
  <2> SUFFICES ASSUME m > 0 PROVE /\ p.first < m /\ q.first < m /\ q.first \in Nat
                                  /\ q.first = IF p.first + 1 < m THEN p.first + 1 ELSE p.first + 1 - m
    OBVIOUS
  <2>1. p.first < m
    BY <1>2, <1>4, SMT DEF Slots, m
  <2>2. q.first = (p.first + 1) % m
    BY <1>4, <1>6
  <2>3. (p.first + 1) % m = IF p.first + 1 < m THEN p.first + 1 ELSE p.first + 1 - m
    BY <1>2, <2>1, Wraps, SMT
  <2> QED
    BY <1>2, <2>1, <2>2, <2>3, SMT
<1>13. Ring'
  <2>1. CASE m = 0
    <3>1. At(HandingOver) # {}
      BY <1>2, <1>4, <2>1, SMTT(60) DEF IInv, Ring, SameBuffer, m
    <3> QED
      BY <1>1, <1>4, <1>6, <1>11, <2>1, <3>1 DEF Ring, m
  <2>2. CASE m > 0
    <3>1. At(HandingOver) = {} /\ p.size <= m /\ p.size > 0 /\ p.last = (p.first + p.size - 1) % m
          /\ q.size = p.size - 1
      BY <1>2, <1>4, <1>6, <2>2, SMTT(60) DEF IInv, Ring, SameBuffer, m
    <3>2. q.size > 0 => q.last = (q.first + q.size - 1) % m
      <4> SUFFICES ASSUME q.size > 0 PROVE q.last = (q.first + q.size - 1) % m
        OBVIOUS
      <4> DEFINE a == p.first + p.size - 1
                 b == q.first + q.size - 1
      <4>1. a \in Nat /\ b \in Nat /\ a < 2 * m /\ b < 2 * m /\ (b = a \/ (b = a - m /\ a >= m))
        <5>1. m \in Nat /\ p.first \in Nat /\ p.size \in Nat /\ p.first < m /\ p.size <= m
              /\ q.first \in Nat /\ q.size = p.size - 1 /\ q.size > 0 /\ q.first < m
              /\ (q.first = p.first + 1 \/ q.first = p.first + 1 - m)
          BY <1>2, <1>12, <2>2, <3>1
        <5>2. p.size >= 2 /\ a = p.first + p.size - 1 /\ b = q.first + p.size - 2
          BY <5>1, SMT
        <5> HIDE DEF a, b
        <5>3. CASE q.first = p.first + 1
          <6>1. b = a
            BY <5>1, <5>2, <5>3, SMT
          <6>2. a \in Nat /\ a < 2 * m
            BY <5>1, <5>2, SMT
          <6> QED
            BY <6>1, <6>2
        <5>4. CASE q.first = p.first + 1 - m
          BY <5>1, <5>2, <5>4, SMT
        <5> QED
          BY <5>1, <5>3, <5>4
      <4>2. q.last = a % m
        BY <1>4, <1>6, <2>2, <3>1
      <4> HIDE DEF a, b
      <4>3. a % m = IF a < m THEN a ELSE a - m
        BY <1>2, <2>2, <4>1, Wraps
      <4>4. b % m = IF b < m THEN b ELSE b - m
        BY <1>2, <2>2, <4>1, Wraps
      <4>5. a % m = b % m
        BY <1>2, <2>2, <4>1, <4>3, <4>4, SMTT(60)
      <4> QED
        BY <4>2, <4>5 DEF b
    <3>3. q.size <= m
      BY <1>2, <3>1, SMTT(60)
    <3> QED
      BY <1>1, <1>11, <1>12, <2>2, <3>1, <3>2, <3>3, SMTT(60) DEF Ring, m
  <2> QED
    BY <1>2, <2>1, <2>2, SMT
<1>14. HandoverIsMine'
  <2> SUFFICES ASSUME NEW h \in At(HandingOver)
               PROVE  /\ At(HandingOver)' = {h}
                      /\ pipe'.first = 0
                      /\ pipe'.last # 0
                      /\ item'[h] \in {received'[i] : i \in DOMAIN received'}
    BY <1>11 DEF HandoverIsMine
  <2>1. m = 0
    BY DEF IInv, Ring, m
  <2>2. At(HandingOver) = {h} /\ p.data[p.first] = item[h]
    BY <1>2, <1>4, <2>1, SMT DEF IInv, HandoverIsMine, SameBuffer
  <2>3. received \in Seq(Nat) /\ p.data[p.first] \in Nat
    BY <1>2, <1>4 DEF IInv, TypeOK
  <2> DEFINE k == Len(received) + 1
  <2>4. k \in DOMAIN received' /\ received'[k] = p.data[p.first]
    BY <1>1, <2>3, SMT
  <2> HIDE DEF k
  <2> QED
    BY <1>1, <1>4, <1>6, <1>11, <2>1, <2>2, <2>4, SMTT(60)
<1>15. ASSUME NEW u \in broadcast(enqueue_sig)'
       PROVE  FALSE
  <2>1. /\ u \in asleep \ v /\ u \in Threads /\ u # t /\ pc[u] \in enqueue_sig
        /\ u \in broadcast(enqueue_sig)
    BY <1>1, <1>2, <1>9, <1>15 DEF broadcast, enqueue_sig, IInv, TypeOK
  <2>2. p.enqueue_waiters > 0
    <3>1. u \in Others(t, EnqueueWaiters)
      BY <2>1, PlaceSets DEF Others, WhereOthers
    <3>2. /\ Cardinality(Others(t, EnqueueWaiters)) # 0
          /\ Cardinality(Others(t, EnqueueWaiters)) \in Nat
      BY <3>1, Count DEF Others
    <3> QED
      BY <1>5, <3>2, SMT
  <2> QED
    BY <2>1, <2>2 DEF v, If
<1>16. Available \in Nat /\ Available' \in Nat /\ Available' = Available - 1
  <2>1. CASE m = 0
    BY <1>1, <1>2, <1>4, <1>6, <2>1, SMTT(60) DEF Available, SameBuffer, m
  <2>2. CASE m > 0
    BY <1>1, <1>2, <1>4, <1>6, <2>2, SMT DEF Available, SameBuffer, m
  <2> QED
    BY <1>2, <2>1, <2>2, SMTT(60)
<1>17. broadcast(dequeue_sig)' # {} =>
          /\ pipe'.enabled
          /\ Available' <= Cardinality((At(dequeue_sig) \ asleep)')
  <2> SUFFICES ASSUME broadcast(dequeue_sig)' # {}
               PROVE  /\ pipe'.enabled
                      /\ Available' <= Cardinality((At(dequeue_sig) \ asleep)')
    OBVIOUS
  <2> DEFINE A == At(dequeue_sig) \ asleep
             B == (At(dequeue_sig) \ asleep)'
  <2>1. broadcast(dequeue_sig) # {}
    BY <1>1, <1>2, <1>9, PlaceSets DEF broadcast, dequeue_sig, IInv, TypeOK
  <2>2. A \ {t} \subseteq B
    BY <1>1, <1>9 DEF At, dequeue_sig
  <2>3. IsFiniteSet(A) /\ IsFiniteSet(B)
    <3>1. IsFiniteSet(Threads) /\ A \subseteq Threads /\ B \subseteq Threads
      BY DEF PipeAssumption, At
    <3> QED
      BY <3>1, FS_Subset
  <2>4. Available <= Cardinality(A)
    BY <2>1 DEF IInv, NobodyOversleeps
  <2> HIDE DEF A, B
  <2>5. Cardinality(A) - 1 <= Cardinality(A \ {t}) /\ Cardinality(A \ {t}) <= Cardinality(B)
        /\ Cardinality(A) \in Nat /\ Cardinality(B) \in Nat /\ Cardinality(A \ {t}) \in Nat
    <3>1. IsFiniteSet(A \ {t}) /\ Cardinality(A \ {t}) = IF t \in A THEN Cardinality(A) - 1 ELSE Cardinality(A)
      BY <2>3, FS_RemoveElement
    <3>2. Cardinality(A) \in Nat /\ Cardinality(B) \in Nat /\ Cardinality(A \ {t}) \in Nat
      BY <2>3, <3>1, FS_CardinalityType
    <3>3. Cardinality(A \ {t}) <= Cardinality(B)
      BY <2>2, <2>3, FS_Subset
    <3> QED
      BY <3>1, <3>2, <3>3, SMT
  <2>6. Available' <= Cardinality(B)
    BY <1>16, <2>4, <2>5, SMT
  <2>7. pipe'.enabled
    BY <1>1, <1>7
  <2> QED
    BY <2>6, <2>7 DEF B
<1>18. Refines
  <2>1. CASE m = 0
    <3>1. Available = 1 /\ Available' = 0 /\ pipe.data[0] = p.data[p.first]
      BY <1>1, <1>2, <1>4, <1>6, <2>1 DEF Available, SameBuffer, m
    <3>2. Contents = <<p.data[p.first]>> /\ Contents' = <<>>
      BY <2>1, <3>1, SMTT(60) DEF Contents, m
    <3>3. F!Take
      <4> DEFINE x == p.data[p.first]
      <4>1. Contents = <<x>> /\ received' = Append(received, x)
        BY <1>1, <3>2
      <4> HIDE DEF x
      <4>2. Contents # <<>> /\ Head(Contents) = x /\ Tail(Contents) = <<>>
        BY <4>1, SMTT(60)
      <4> QED
        BY <1>1, <3>2, <4>1, <4>2 DEF F!Take
    <3> QED
      BY <3>3 DEF Refines, F!Next
  <2>2. CASE m > 0
    <3>1. m = pipe_max_size /\ m # 0 /\ pipe \in PipeType
      BY <1>2, <2>2, SMT DEF m, IInv, TypeOK
    <3>2. Contents = RingOf(pipe) /\ Contents' = RingOf(q)
      BY <1>1, <3>1 DEF Contents, RingOf
    <3>3. /\ Contents \in Seq(Nat) /\ Len(Contents) = p.size
          /\ \A i \in 1 .. p.size : Contents[i] = p.data[(p.first + i - 1) % m]
      BY <1>2, <2>2, <3>1, <3>2, InRing, SMTT(60) DEF SameBuffer
    <3>4. p.size > 0 /\ q.size = p.size - 1 /\ q.data = p.data
      BY <1>4, <1>6, <2>2
    <3>5. /\ Contents' \in Seq(Nat) /\ Len(Contents') = p.size - 1
          /\ \A i \in 1 .. p.size - 1 : Contents'[i] = p.data[(q.first + i - 1) % m]
      BY <1>6, <2>2, <3>1, <3>2, <3>4, InRing, SMTT(60)
    <3>6. \A i \in 1 .. p.size - 1 : Contents'[i] = Contents[i + 1]
      <4> SUFFICES ASSUME NEW i \in 1 .. p.size - 1 PROVE Contents'[i] = Contents[i + 1]
        OBVIOUS
      <4> DEFINE a == p.first + (i + 1) - 1
                 b == q.first + i - 1
      <4>1. a \in Nat /\ b \in Nat /\ a < 2 * m /\ b < 2 * m /\ (b = a \/ (b = a - m /\ a >= m))
        <5>1. m \in Nat /\ p.first \in Nat /\ p.size \in Nat /\ p.first < m /\ p.size <= m
              /\ q.first \in Nat /\ q.first < m /\ i \in Nat /\ i >= 1 /\ i <= p.size - 1
              /\ (q.first = p.first + 1 \/ q.first = p.first + 1 - m)
          BY <1>2, <1>12, <2>2, SMTT(60) DEF IInv, Ring, SameBuffer, m
        <5>2. a = p.first + i /\ b = q.first + i - 1
          BY <5>1, SMT
        <5> HIDE DEF a, b
        <5>3. CASE q.first = p.first + 1
          <6>1. b = a
            BY <5>1, <5>2, <5>3, SMT
          <6>2. a \in Nat /\ a < 2 * m
            BY <5>1, <5>2, SMT
          <6> QED
            BY <6>1, <6>2
        <5>4. CASE q.first = p.first + 1 - m
          BY <5>1, <5>2, <5>4, SMT
        <5> QED
          BY <5>1, <5>3, <5>4
      <4>2. i + 1 \in 1 .. p.size
        BY <1>2, SMT
      <4>3. Contents[i + 1] = p.data[a % m] /\ Contents'[i] = p.data[b % m]
        BY <3>3, <3>5, <4>2
      <4> HIDE DEF a, b
      <4>4. a % m = IF a < m THEN a ELSE a - m
        BY <1>2, <2>2, <4>1, Wraps
      <4>5. b % m = IF b < m THEN b ELSE b - m
        BY <1>2, <2>2, <4>1, Wraps
      <4>6. a % m = b % m
        BY <1>2, <2>2, <4>1, <4>4, <4>5, SMT
      <4> QED
        BY <4>3, <4>6
    <3>7. Head(Contents) = p.data[p.first]
      <4>1. 1 \in 1 .. p.size /\ p.first + 1 - 1 = p.first
        BY <1>2, <3>4, SMTT(60)
      <4>2. p.first % m = p.first
        BY <1>2, <1>12, <2>2, Wraps, SMTT(60)
      <4>3. Contents[1] = p.data[p.first]
        BY <3>3, <4>1, <4>2
      <4> QED
        BY <3>3, <4>3, SMT
    <3>8. Contents' = Tail(Contents)
      <4> DEFINE c == Contents
                 d == Contents'
                 e == Tail(c)
      <4>1. c \in Seq(Nat) /\ Len(c) = p.size /\ p.size \in Nat /\ p.size > 0
            /\ d \in Seq(Nat) /\ Len(d) = p.size - 1
            /\ \A i \in 1 .. p.size - 1 : d[i] = c[i + 1]
        BY <1>2, <3>3, <3>4, <3>5, <3>6
      <4> HIDE DEF c, d
      <4>2. e \in Seq(Nat) /\ Len(e) = Len(c) - 1 /\ \A i \in 1 .. Len(e) : e[i] = c[i + 1]
        BY <4>1, SMTT(60)
      <4> HIDE DEF e
      <4>3. Len(d) = Len(e) /\ \A i \in 1 .. Len(d) : d[i] = e[i]
        BY <4>1, <4>2
      <4> QED
        BY <4>1, <4>2, <4>3, SameSequence DEF c, d, e
    <3>9. F!Take
      <4>1. Contents # <<>>
        BY <3>3, <3>4, SMT
      <4> QED
        BY <1>1, <3>7, <3>8, <4>1 DEF F!Take
    <3> QED
      BY <3>9 DEF Refines, F!Next
  <2> QED
    BY <1>2, <2>1, <2>2, SMT
<1>19. NobodyOversleeps'
  BY <1>15, <1>17 DEF NobodyOversleeps
<1> QED
  BY <1>9, <1>10, <1>13, <1>14, <1>18, <1>19 DEF IInv

-----------------------------------------------------------------------------
(* Leaving without touching the buffer *)

\* The members once t has counted itself out.
LEMMA CountedOut ==
    ASSUME PipeAssumption, NEW t \in Threads, NEW place \in Places, NEW p \in PipeType,
           SameBuffer(p), CountsAs(p, t, place), NEW q,
           \/ place \in EnqueueWaiters /\ q = [p EXCEPT !.enqueue_waiters = @ - 1]
           \/ place \in DequeueWaiters /\ q = [p EXCEPT !.dequeue_waiters = @ - 1]
           \/ place \in unblock_sig /\ q = [p EXCEPT !.unblock_sig_waiters = @ - 1]
    PROVE  /\ q \in PipeType /\ SameBuffer(q) /\ q.enabled = p.enabled
           /\ CountsAs(q, t, "idle") /\ CountsAs(q, t, "destroyed")
<1>1. /\ place \in EnqueueWaiters => place \notin DequeueWaiters /\ place \notin unblock_sig
      /\ place \in DequeueWaiters => place \notin EnqueueWaiters /\ place \notin unblock_sig
      /\ place \in unblock_sig => place \notin DequeueWaiters /\ place \notin EnqueueWaiters
  BY PlaceSets
<1>2. \A S : Cardinality(Others(t, S)) \in Nat
  BY Count DEF Others
<1>3. /\ p.dequeue_waiters = Cardinality(Others(t, DequeueWaiters)) + One(place \in DequeueWaiters)
      /\ p.enqueue_waiters = Cardinality(Others(t, EnqueueWaiters)) + One(place \in EnqueueWaiters)
      /\ p.unblock_sig_waiters = Cardinality(Others(t, unblock_sig)) + One(place \in unblock_sig)
  BY DEF CountsAs
<1>4. /\ q \in PipeType
      /\ q.dequeue_waiters = Cardinality(Others(t, DequeueWaiters))
      /\ q.enqueue_waiters = Cardinality(Others(t, EnqueueWaiters))
      /\ q.unblock_sig_waiters = Cardinality(Others(t, unblock_sig))
      /\ q.size = p.size /\ q.first = p.first /\ q.last = p.last /\ q.data = p.data
  <2>1. CASE place \in EnqueueWaiters /\ q = [p EXCEPT !.enqueue_waiters = @ - 1]
    <3> DEFINE k == p.enqueue_waiters - 1
    <3>1. /\ k = Cardinality(Others(t, EnqueueWaiters)) /\ k \in Nat
          /\ p.dequeue_waiters = Cardinality(Others(t, DequeueWaiters))
          /\ p.unblock_sig_waiters = Cardinality(Others(t, unblock_sig))
      BY <1>1, <1>2, <1>3, <2>1, SMT DEF One
    <3>2. q = [p EXCEPT !.enqueue_waiters = k]
      BY <2>1 DEF PipeType
    <3> HIDE DEF k
    <3> QED
      BY <3>1, <3>2 DEF PipeType
  <2>2. CASE place \in DequeueWaiters /\ q = [p EXCEPT !.dequeue_waiters = @ - 1]
    <3> DEFINE k == p.dequeue_waiters - 1
    <3>1. /\ k = Cardinality(Others(t, DequeueWaiters)) /\ k \in Nat
          /\ p.enqueue_waiters = Cardinality(Others(t, EnqueueWaiters))
          /\ p.unblock_sig_waiters = Cardinality(Others(t, unblock_sig))
      BY <1>1, <1>2, <1>3, <2>2, SMT DEF One
    <3>2. q = [p EXCEPT !.dequeue_waiters = k]
      BY <2>2 DEF PipeType
    <3> HIDE DEF k
    <3> QED
      BY <3>1, <3>2 DEF PipeType
  <2>3. CASE place \in unblock_sig /\ q = [p EXCEPT !.unblock_sig_waiters = @ - 1]
    <3> DEFINE k == p.unblock_sig_waiters - 1
    <3>1. /\ k = Cardinality(Others(t, unblock_sig)) /\ k \in Nat
          /\ p.enqueue_waiters = Cardinality(Others(t, EnqueueWaiters))
          /\ p.dequeue_waiters = Cardinality(Others(t, DequeueWaiters))
      BY <1>1, <1>2, <1>3, <2>3, SMT DEF One
    <3>2. q = [p EXCEPT !.unblock_sig_waiters = k]
      BY <2>3 DEF PipeType
    <3> HIDE DEF k
    <3> QED
      BY <3>1, <3>2 DEF PipeType
  <2> QED
    BY <2>1, <2>2, <2>3
<1>5. q.enabled = p.enabled /\ q.enqueue_enabled = p.enqueue_enabled
  BY DEF PipeType
<1>6. ASSUME NEW new \in {"idle", "destroyed"} PROVE CountsAs(q, t, new)
  <2>1. new \notin DequeueWaiters /\ new \notin EnqueueWaiters /\ new \notin unblock_sig
    BY PlaceSets
  <2> QED
    BY <1>2, <1>4, <2>1, SMT DEF CountsAs, One
<1>7. SameBuffer(q)
  BY <1>4, <1>5 DEF SameBuffer
<1> QED
  BY <1>4, <1>5, <1>6, <1>7

\* The destructor returns: it was the last one inside.
LEMMA LeaveDestructorInv ==
    ASSUME PipeAssumption, IInv, NEW t \in Threads, NEW place, NEW p, NEW w,
           Ready(t, place, p, w), place = "destructor", ~MustWait(place, p), leave_destructor(t, p, w)
    PROVE  IInv' /\ Refines
<1> DEFINE q == [p EXCEPT !.unblock_sig_waiters = @ - 1]
<1>1. /\ pipe' = q /\ pc' = [pc EXCEPT ![t] = "destroyed"] /\ asleep' = asleep \ w
      /\ "destroyed" \in Places /\ item' = item /\ next' = next /\ received' = received
      /\ place \in unblock_sig /\ place \in Places
  BY PlaceSets DEF leave_destructor
<1>2. q \in PipeType /\ SameBuffer(q) /\ q.enabled = p.enabled /\ CountsAs(q, t, "destroyed")
  BY <1>1, CountedOut, SMT DEF Ready
<1>3. ~someone_inside(p) /\ t \notin asleep
  BY <1>1, Conditions DEF Ready
<1> HIDE DEF q
<1>4. /\ TypeOK' /\ Counted' /\ SleepsInLoop'
      /\ pc'[t] = "destroyed" /\ \A u \in Threads : u # t => pc'[u] = pc[u]
  BY <1>1, <1>2, <1>3, Books DEF IInv, TypeOK
<1>5. OneDestructor' /\ DestructorsWait'
  BY <1>1, <1>2, <1>3, DestructorStays
<1>6. \A u \in Threads : pc'[u] \in {"idle", "destroyed"}
  BY <1>4, <1>5 DEF DestructorsWait
<1>7. At(HandingOver)' = {} /\ At(HandingOver) = {}
  <2>1. pc[t] \notin HandingOver
    BY PlaceSets DEF Ready
  <2> QED
    BY <1>4, <1>6, <2>1, PlaceSets DEF At, HandingOver
<1>8. Ring'
  BY <1>1, <1>2, <1>7 DEF IInv, Ring, SameBuffer
<1>9. HandoverIsMine'
  BY <1>7 DEF HandoverIsMine
<1>10. asleep' = {}
  <2>1. \A u \in asleep' : u \in Threads /\ pc'[u] \in enqueue_sig \cup dequeue_sig \cup unblock_sig
    BY <1>4 DEF TypeOK, SleepsInLoop, enqueue_sig, dequeue_sig, unblock_sig
  <2> QED
    BY <1>6, <2>1, PlaceSets
<1>11. NobodyOversleeps'
  BY <1>10 DEF NobodyOversleeps, broadcast
<1>12. Refines
  BY <1>1, <1>2, BufferStays
<1> QED
  BY <1>4, <1>5, <1>8, <1>9, <1>11, <1>12 DEF IInv

\* The functions that return without having touched the buffer.
LEMMA PlainReturn ==
    ASSUME PipeAssumption, IInv, NEW t \in Threads, NEW place, NEW p, NEW w, NEW v, NEW q,
           Ready(t, place, p, w), place \notin HandingOver, place # "destructor",
           \/ place \in EnqueueWaiters /\ q = [p EXCEPT !.enqueue_waiters = @ - 1]
           \/ place \in DequeueWaiters /\ q = [p EXCEPT !.dequeue_waiters = @ - 1]
           \/ place \in unblock_sig /\ q = [p EXCEPT !.unblock_sig_waiters = @ - 1],
           pc[t] \in dequeue_sig => ~pipe.enabled,
           Return(t, q, v), UNCHANGED <<item, next, received>>
    PROVE  IInv' /\ Refines
<1>1. q \in PipeType /\ SameBuffer(q) /\ q.enabled = p.enabled /\ CountsAs(q, t, "idle")
  BY CountedOut, SMT DEF Ready
<1>2. IInv'
  BY <1>1, ReturnInv
<1>3. Refines
  BY <1>1, BufferStays DEF Return
<1> QED
  BY <1>2, <1>3

-----------------------------------------------------------------------------
(* Calling a function and waking up in it *)

\* t goes on at the loop of its place: it waits, or the function does its work.
LEMMA ProceedInv ==
    ASSUME PipeAssumption, IInv, NEW t \in Threads, NEW place, NEW p, NEW w, Ready(t, place, p, w),
           Proceed(t, place, p, w)
    PROVE  IInv' /\ Refines
<1>1. /\ place \in Places \ {"idle", "destroyed"} /\ pipe_max_size \in Nat
      /\ (pc[t] = place /\ p.enabled = pipe.enabled) \/ pc[t] = "idle"
      /\ "idle" \notin dequeue_sig
  BY PlaceSets DEF Ready, PipeAssumption
<1>2. CASE MustWait(place, p) /\ Sleep(t, place, p, w) /\ UNCHANGED <<item, next, received>>
  <2>1. IInv'
    BY <1>2, SleepInv
  <2>2. Refines
    BY <1>2, BufferStays DEF Ready, Sleep
  <2> QED
    BY <2>1, <2>2
<1>3. CASE ~MustWait(place, p) /\ Leave(t, place, p, w)
  <2>1. CASE place \in Enqueuing
    <3>1. leave_enqueue(t, place, p) /\ place \in EnqueueWaiters /\ place \notin HandingOver
          /\ place \notin dequeue_sig /\ place # "destructor"
      BY <1>3, <2>1, PlaceSets DEF Leave
    <3>2. CASE disabled(p)
      BY <1>1, <3>1, <3>2, PlainReturn DEF leave_enqueue, enqueue_fails
    <3>3. CASE ~disabled(p)
      <4>1. enqueue_puts(t, place, p)
        BY <3>1, <3>3 DEF leave_enqueue
      <4>2. pipe_max_size = 0 \/ pipe_max_size > 0
        BY <1>1, SMT
      <4> QED
        BY <1>3, <2>1, <3>3, <4>1, <4>2, PutInBuffer, PutToHandOver
    <3> QED
      BY <3>2, <3>3
  <2>2. CASE place \in Dequeuing
    <3>1. leave_dequeue(t, p, w) /\ place \in DequeueWaiters /\ place \notin HandingOver
          /\ place # "destructor"
      BY <1>3, <2>2, PlaceSets DEF Leave
    <3>2. CASE ~p.enabled
      BY <1>1, <3>1, <3>2, PlainReturn DEF leave_dequeue, dequeue_fails
    <3>3. CASE p.enabled
      BY <1>3, <2>2, <3>1, <3>3, TakeInv DEF leave_dequeue
    <3> QED
      BY <3>2, <3>3
  <2>3. CASE place \in HandingOver
    <3>1. leave_handover(t, p)
      BY <1>3, <2>3, PlaceSets DEF Leave
    <3> QED
      BY <1>3, <2>3, <3>1, LeaveHandoverInv
  <2>4. CASE place = "wait_until_empty"
    <3>1. leave_wait_until_empty(t, p) /\ place \in EnqueueWaiters /\ place \notin HandingOver
          /\ place \notin dequeue_sig /\ place # "destructor"
      BY <1>3, <2>4, PlaceSets DEF Leave
    <3> QED
      BY <1>1, <3>1, PlainReturn DEF leave_wait_until_empty
  <2>5. CASE place = "wait_for_num"
    <3>1. leave_wait_for_num(t, p) /\ place \in unblock_sig /\ place \notin HandingOver
          /\ place \notin dequeue_sig /\ place # "destructor"
      BY <1>3, <2>5, PlaceSets DEF Leave
    <3> QED
      BY <1>1, <3>1, PlainReturn DEF leave_wait_for_num
  <2>6. CASE place = "destructor"
    <3>1. leave_destructor(t, p, w)
      BY <1>3, <2>6, PlaceSets DEF Leave
    <3> QED
      BY <1>3, <2>6, <3>1, LeaveDestructorInv
  <2>7. CASE place = "enqueue_timed_out"
    <3>1. enqueue_fails(t, p) /\ place \in EnqueueWaiters /\ place \notin HandingOver
          /\ place \notin dequeue_sig /\ place # "destructor"
      BY <1>3, <2>7, PlaceSets DEF Leave
    <3> QED
      BY <1>1, <3>1, PlainReturn DEF enqueue_fails
  <2>8. CASE place = "dequeue_timed_out"
    <3>1. dequeue_fails(t, p, w) /\ place \in DequeueWaiters /\ place \notin HandingOver
          /\ place \notin dequeue_sig /\ place # "destructor"
      BY <1>3, <2>8, PlaceSets DEF Leave
    <3> QED
      BY <1>1, <3>1, PlainReturn DEF dequeue_fails
  <2> QED
    BY <1>1, <2>1, <2>2, <2>3, <2>4, <2>5, <2>6, <2>7, <2>8, PlaceSets
<1> QED
  BY <1>2, <1>3 DEF Proceed

\* A call with timeout 0 that would have to wait returns at once.
LEMMA CallWithoutTimeoutInv ==
    ASSUME PipeAssumption, IInv, NEW t \in Threads,
           NEW op \in {"enqueue_or_timeout", "dequeue_or_timeout"}, CallWithoutTimeout(t, op)
    PROVE  IInv' /\ Refines
<1>1. op \in Operations /\ op \notin HandingOver /\ op # "destructor" /\ "idle" \notin dequeue_sig
      /\ pc[t] = "idle" /\ InUse
  BY PlaceSets DEF CallWithoutTimeout
<1>2. Ready(t, op, Entered(op), Told(op))
  BY <1>1, EnterReady
<1>3. CASE op = "enqueue_or_timeout"
  <2>1. op \in EnqueueWaiters /\ enqueue_fails(t, Entered(op))
    BY <1>3, PlaceSets DEF CallWithoutTimeout
  <2> QED
    BY <1>1, <1>2, <2>1, PlainReturn DEF enqueue_fails
<1>4. CASE op = "dequeue_or_timeout"
  <2>1. op \in DequeueWaiters /\ dequeue_fails(t, Entered(op), Told(op))
    BY <1>4, PlaceSets DEF CallWithoutTimeout
  <2> QED
    BY <1>1, <1>2, <2>1, PlainReturn DEF dequeue_fails
<1> QED
  BY <1>3, <1>4

-----------------------------------------------------------------------------
(* The end of a wait *)

\* wait_or_timeout runs out of time.
LEMMA TimeoutInv ==
    ASSUME PipeAssumption, IInv, NEW t \in Threads, Timeout(t)
    PROVE  IInv' /\ Refines
<1> DEFINE new == IF pc[t] = "enqueue_or_timeout" THEN "enqueue_timed_out" ELSE "dequeue_timed_out"
<1>1. /\ pc' = [pc EXCEPT ![t] = new] /\ asleep' = asleep \ {t} /\ t \in asleep
      /\ pipe' = pipe /\ item' = item /\ next' = next /\ received' = received /\ new \in Places
      /\ pc[t] \in {"enqueue_or_timeout", "dequeue_or_timeout"}
  BY PlaceSets DEF Timeout, IInv, TypeOK
<1>2. /\ new \in EnqueueWaiters <=> pc[t] \in EnqueueWaiters
      /\ new \in DequeueWaiters <=> pc[t] \in DequeueWaiters
      /\ new \in unblock_sig <=> pc[t] \in unblock_sig
      /\ new \notin enqueue_sig /\ new \notin dequeue_sig /\ new \notin HandingOver
      /\ new \notin {"idle", "destructor", "destroyed"} /\ pc[t] \notin HandingOver
  BY <1>1, PlaceSets
<1> HIDE DEF new
<1>3. CountsAs(pipe, t, new)
  <2>1. ASSUME NEW S
        PROVE  Cardinality(At(S)) = Cardinality(Others(t, S)) + One(pc[t] \in S)
    BY Count DEF At, Where, Others
  <2> QED
    BY <1>2, <2>1 DEF IInv, Counted, CountsAs, One
<1>4. /\ TypeOK' /\ Counted' /\ SleepsInLoop'
      /\ pc'[t] = new /\ \A u \in Threads : u # t => pc'[u] = pc[u]
  BY <1>1, <1>3, Books DEF IInv, TypeOK
<1>5. OneDestructor' /\ DestructorsWait'
  BY <1>1, <1>2, <1>4 DEF IInv, OneDestructor, DestructorsWait, At
<1>6. At(HandingOver)' = At(HandingOver)
  BY <1>2, <1>4 DEF At, HandingOver
<1>7. Ring' /\ HandoverIsMine'
  BY <1>1, <1>6, SMT DEF IInv, Ring, HandoverIsMine
<1>8. ASSUME NEW u \in broadcast(enqueue_sig)'
      PROVE  MustWait(pc'[u], pipe')
  <2>1. u \in asleep /\ u \in Threads /\ u # t /\ pc'[u] = pc[u] /\ pc[u] \in enqueue_sig
    BY <1>1, <1>4, <1>8 DEF broadcast, enqueue_sig, IInv, TypeOK
  <2> QED
    BY <1>1, <2>1 DEF IInv, NobodyOversleeps, broadcast
<1>9. broadcast(dequeue_sig)' # {} =>
          /\ pipe'.enabled
          /\ Available' <= Cardinality((At(dequeue_sig) \ asleep)')
  <2>1. broadcast(dequeue_sig)' \subseteq broadcast(dequeue_sig)
    BY <1>1, <1>4 DEF broadcast, dequeue_sig, IInv, TypeOK
  <2>2. At(dequeue_sig) \ asleep \subseteq (At(dequeue_sig) \ asleep)'
    BY <1>1, <1>4 DEF At, dequeue_sig
  <2>3. Available' = Available /\ Available \in Nat
    BY <1>1 DEF Available, IInv, TypeOK, PipeType
  <2> QED
    BY <1>1, <1>4, <2>1, <2>2, <2>3, EnoughAwake, SMT
<1>10. NobodyOversleeps'
  BY <1>8, <1>9 DEF NobodyOversleeps
<1>11. Refines
  BY <1>1, BufferStays DEF SameBuffer
<1> QED
  BY <1>4, <1>5, <1>7, <1>10, <1>11 DEF IInv

\* A function that does not wait changes the members and wakes some threads.
LEMMA SetInv ==
    ASSUME PipeAssumption, IInv, NEW q \in PipeType, NEW v,
           pipe' = q, asleep' = asleep \ v, UNCHANGED <<pc, item, next, received>>,
           q.dequeue_waiters = pipe.dequeue_waiters, q.enqueue_waiters = pipe.enqueue_waiters,
           q.unblock_sig_waiters = pipe.unblock_sig_waiters,
           q.first = pipe.first, q.last = pipe.last, q.data = pipe.data,
           q.size \in {0, pipe.size},
           InUse \/ q.enabled = pipe.enabled,
           \A u \in broadcast(enqueue_sig) \ v : MustWait(pc[u], q),
           broadcast(dequeue_sig) \ v # {} => q.enabled = pipe.enabled
    PROVE  IInv'
<1>1. /\ \A S : At(S)' = At(S)
      /\ \A S : broadcast(S)' = broadcast(S) \ v
  BY DEF At, broadcast
<1>2. TypeOK' /\ SleepsInLoop'
  BY DEF IInv, TypeOK, SleepsInLoop, enqueue_sig, dequeue_sig, unblock_sig
<1>3. Counted'
  BY <1>1 DEF IInv, Counted, EnqueueWaiters, DequeueWaiters, unblock_sig
<1>4. q.size \in Nat /\ pipe.size \in Nat /\ pipe_max_size \in Nat
  BY DEF IInv, TypeOK, PipeType, PipeAssumption
<1>5. At(HandingOver)' = At(HandingOver)
  BY <1>1 DEF HandingOver
<1>6. Ring'
  <2>1. CASE pipe_max_size = 0
    BY <1>5, <2>1 DEF IInv, Ring
  <2>2. CASE pipe_max_size > 0
    BY <1>4, <1>5, <2>2, SMTT(60) DEF IInv, Ring
  <2> QED
    BY <1>4, <2>1, <2>2, SMT
<1>7. HandoverIsMine'
  BY <1>5, SMT DEF IInv, HandoverIsMine
<1>8. OneDestructor' /\ DestructorsWait'
  <2>1. CASE InUse
    BY <2>1 DEF OneDestructor, DestructorsWait, At, InUse
  <2>2. CASE q.enabled = pipe.enabled
    BY <2>2 DEF IInv, OneDestructor, DestructorsWait, At
  <2> QED
    BY <2>1, <2>2
<1>9. broadcast(dequeue_sig)' # {} =>
          /\ pipe'.enabled
          /\ Available' <= Cardinality((At(dequeue_sig) \ asleep)')
  <2>1. broadcast(dequeue_sig)' = broadcast(dequeue_sig) \ v
    BY <1>1 DEF dequeue_sig
  <2>2. At(dequeue_sig) \ asleep \subseteq (At(dequeue_sig) \ asleep)'
    BY DEF At, dequeue_sig
  <2>3. Available' <= Available /\ Available' \in Nat /\ Available \in Nat
    <3>1. CASE pipe_max_size > 0
      BY <1>4, <3>1, SMT DEF Available
    <3>2. CASE pipe_max_size = 0
      BY <3>2, SMT DEF Available
    <3> QED
      BY <1>4, <3>1, <3>2, SMTT(60)
  <2> QED
    BY <1>2, <2>1, <2>2, <2>3, EnoughAwake
<1>10. NobodyOversleeps'
  BY <1>1, <1>9 DEF NobodyOversleeps, enqueue_sig
<1> QED
  BY <1>2, <1>3, <1>6, <1>7, <1>8, <1>10 DEF IInv

\* A wait ends without cause.
LEMMA SpuriousWakeupInv ==
    ASSUME PipeAssumption, IInv, NEW t \in Threads, SpuriousWakeup(t)
    PROVE  IInv' /\ Refines
<1>1. /\ pipe' = pipe /\ asleep' = asleep \ {t} /\ UNCHANGED <<pc, item, next, received>>
      /\ pipe \in PipeType
  BY DEF SpuriousWakeup, IInv, TypeOK
<1>2. \A u \in broadcast(enqueue_sig) \ {t} : MustWait(pc[u], pipe)
  BY DEF IInv, NobodyOversleeps
<1>3. IInv'
  BY <1>1, <1>2, SetInv
<1>4. Refines
  BY <1>1, BufferStays DEF SameBuffer
<1> QED
  BY <1>3, <1>4

-----------------------------------------------------------------------------
(* The functions that do not wait *)

\* A thread sleeps on enqueue_sig only while the pipe is enabled, and in
\* enqueue only while enqueue is enabled.
LEMMA AsleepWhenEnabled ==
    ASSUME IInv, NEW u \in broadcast(enqueue_sig)
    PROVE  /\ pc[u] \in enqueue_sig /\ pc[u] \in Places /\ MustWait(pc[u], pipe)
           /\ pipe.enabled
           /\ pc[u] # "wait_until_empty" => pipe.enqueue_enabled
<1>1. pc[u] \in enqueue_sig /\ pc[u] \in Places /\ MustWait(pc[u], pipe)
  BY PlaceSets DEF IInv, NobodyOversleeps, broadcast
<1> QED
  BY <1>1, Conditions, PlaceSets DEF no_room, not_taken, not_empty, disabled

\* empty drops the items and wakes whoever waits for room.
LEMMA EmptyInv ==
    ASSUME PipeAssumption, IInv, NEW t \in Threads, empty(t)
    PROVE  IInv' /\ Refines
<1> DEFINE q == [pipe EXCEPT !.size = 0]
           v == If(pipe.enqueue_waiters > 0, broadcast(enqueue_sig))
<1>1. /\ pipe' = q /\ asleep' = asleep \ v /\ UNCHANGED <<pc, item, next, received>>
      /\ InUse /\ pipe \in PipeType
  BY DEF empty, Set, IInv, TypeOK
<1>2. /\ q \in PipeType /\ q.size = 0 /\ q.first = pipe.first /\ q.last = pipe.last
      /\ q.data = pipe.data /\ q.dequeue_waiters = pipe.dequeue_waiters
      /\ q.enqueue_waiters = pipe.enqueue_waiters
      /\ q.unblock_sig_waiters = pipe.unblock_sig_waiters
  BY <1>1 DEF PipeType
<1>3. q.enabled = pipe.enabled /\ q.enqueue_enabled = pipe.enqueue_enabled
  BY <1>1 DEF PipeType
<1>4. \A u \in broadcast(enqueue_sig) \ v : MustWait(pc[u], q)
  <2> SUFFICES ASSUME NEW u \in broadcast(enqueue_sig), u \notin v PROVE FALSE
    OBVIOUS
  <2>1. pipe.enqueue_waiters > 0
    <3>1. u \in Threads /\ u \in Where(pc, EnqueueWaiters)
      BY PlaceSets DEF broadcast, IInv, TypeOK, Where
    <3>2. pipe.enqueue_waiters = Cardinality(Where(pc, EnqueueWaiters))
      BY DEF IInv, Counted, At, Where
    <3>3. IsFiniteSet(Where(pc, EnqueueWaiters))
      BY <3>1, Count
    <3>4. Cardinality(Where(pc, EnqueueWaiters)) # 0 /\ Cardinality(Where(pc, EnqueueWaiters)) \in Nat
      BY <3>1, <3>3, FS_EmptySet, FS_CardinalityType
    <3> QED
      BY <3>2, <3>4, SMT
  <2> QED
    BY <2>1 DEF If
<1> HIDE DEF q, v
<1>5. IInv'
  BY <1>1, <1>2, <1>3, <1>4, SetInv
<1>6. Refines
  <2>0. pipe_max_size \in Nat
    BY DEF PipeAssumption
  <2>1. CASE pipe_max_size = 0
    <3>1. SameBuffer(pipe')
      BY <1>1, <1>2, <1>3, <2>1 DEF SameBuffer, IInv, Ring
    <3> QED
      BY <1>1, <3>1, BufferStays
  <2>2. CASE pipe_max_size > 0
    <3>1. Contents' = [i \in 1 .. 0 |-> q.data[(q.first + i - 1) % pipe_max_size]]
      BY <1>1, <1>2, <2>2, SMT DEF Contents
    <3>2. Contents' = <<>>
      BY <3>1, SMT
    <3> QED
      BY <1>1, <2>2, <3>2 DEF Refines, F!Next, F!Clear
  <2> QED
    BY <2>0, <2>1, <2>2, SMT
<1> QED
  BY <1>5, <1>6

\* enable: nobody slept while the pipe was disabled.
LEMMA EnableInv ==
    ASSUME PipeAssumption, IInv, NEW t \in Threads, enable(t)
    PROVE  IInv' /\ Refines
<1> DEFINE q == [pipe EXCEPT !.enabled = TRUE]
<1>1. /\ pipe' = q /\ asleep' = asleep \ {} /\ UNCHANGED <<pc, item, next, received>>
      /\ InUse /\ pipe \in PipeType
  BY DEF enable, Set, IInv, TypeOK
<1>2. /\ q \in PipeType /\ q.size = pipe.size /\ q.first = pipe.first /\ q.last = pipe.last
      /\ q.data = pipe.data /\ q.dequeue_waiters = pipe.dequeue_waiters
      /\ q.enqueue_waiters = pipe.enqueue_waiters
      /\ q.unblock_sig_waiters = pipe.unblock_sig_waiters
  BY <1>1 DEF PipeType
<1>3. q.enabled = TRUE /\ q.enqueue_enabled = pipe.enqueue_enabled
  BY <1>1 DEF PipeType
<1>4. pipe.enabled \in BOOLEAN
  BY <1>1 DEF PipeType
<1> HIDE DEF q
<1>5. \A u \in broadcast(enqueue_sig) \ {} : MustWait(pc[u], q)
  <2> SUFFICES ASSUME NEW u \in broadcast(enqueue_sig) PROVE MustWait(pc[u], q)
    OBVIOUS
  <2>1. pc[u] \in enqueue_sig /\ MustWait(pc[u], pipe) /\ pipe.enabled
    BY AsleepWhenEnabled
  <2>2. q.enabled = pipe.enabled
    BY <1>3, <1>4, <2>1
  <2> QED
    BY <1>2, <1>3, <2>1, <2>2, StillWaits
<1>6. broadcast(dequeue_sig) \ {} # {} => q.enabled = pipe.enabled
  BY <1>3, <1>4 DEF IInv, NobodyOversleeps
<1>7. IInv'
  BY <1>1, <1>2, <1>5, <1>6, SetInv
<1>8. Refines
  BY <1>1, <1>2, <1>3, BufferStays DEF SameBuffer
<1> QED
  BY <1>7, <1>8

\* disable wakes everybody.
LEMMA DisableInv ==
    ASSUME PipeAssumption, IInv, NEW t \in Threads, disable(t)
    PROVE  IInv' /\ Refines
<1> DEFINE q == [pipe EXCEPT !.enabled = FALSE]
<1>1. /\ pipe' = q /\ asleep' = asleep \ asleep /\ UNCHANGED <<pc, item, next, received>>
      /\ InUse /\ pipe \in PipeType
  BY DEF disable, Set, IInv, TypeOK
<1>2. /\ q \in PipeType /\ q.size = pipe.size /\ q.first = pipe.first /\ q.last = pipe.last
      /\ q.data = pipe.data /\ q.dequeue_waiters = pipe.dequeue_waiters
      /\ q.enqueue_waiters = pipe.enqueue_waiters
      /\ q.unblock_sig_waiters = pipe.unblock_sig_waiters
  BY <1>1 DEF PipeType
<1>3. q.enqueue_enabled = pipe.enqueue_enabled
  BY <1>1 DEF PipeType
<1> HIDE DEF q
<1>4. \A sig : broadcast(sig) \ asleep = {}
  BY DEF broadcast
<1>5. IInv'
  BY <1>1, <1>2, <1>4, SetInv
<1>6. Refines
  BY <1>1, <1>2, <1>3, BufferStays DEF SameBuffer
<1> QED
  BY <1>5, <1>6

\* enable_enqueue: nobody slept in enqueue while it was disabled, and
\* wait_until_empty does not ask.
LEMMA EnableEnqueueInv ==
    ASSUME PipeAssumption, IInv, NEW t \in Threads, enable_enqueue(t)
    PROVE  IInv' /\ Refines
<1> DEFINE q == [pipe EXCEPT !.enqueue_enabled = TRUE]
<1>1. /\ pipe' = q /\ asleep' = asleep \ {} /\ UNCHANGED <<pc, item, next, received>>
      /\ InUse /\ pipe \in PipeType
  BY DEF enable_enqueue, Set, IInv, TypeOK
<1>2. /\ q \in PipeType /\ q.size = pipe.size /\ q.first = pipe.first /\ q.last = pipe.last
      /\ q.data = pipe.data /\ q.dequeue_waiters = pipe.dequeue_waiters
      /\ q.enqueue_waiters = pipe.enqueue_waiters
      /\ q.unblock_sig_waiters = pipe.unblock_sig_waiters
  BY <1>1 DEF PipeType
<1>3. q.enqueue_enabled = TRUE /\ q.enabled = pipe.enabled
  BY <1>1 DEF PipeType
<1>4. pipe.enqueue_enabled \in BOOLEAN
  BY <1>1 DEF PipeType
<1> HIDE DEF q
<1>5. \A u \in broadcast(enqueue_sig) \ {} : MustWait(pc[u], q)
  <2> SUFFICES ASSUME NEW u \in broadcast(enqueue_sig) PROVE MustWait(pc[u], q)
    OBVIOUS
  <2>1. /\ pc[u] \in enqueue_sig /\ pc[u] \in Places /\ MustWait(pc[u], pipe)
        /\ pc[u] # "wait_until_empty" => pipe.enqueue_enabled
    BY AsleepWhenEnabled
  <2>2. CASE pc[u] = "wait_until_empty"
    BY <1>2, <1>3, <2>1, <2>2, Conditions DEF not_empty
  <2>3. CASE pc[u] # "wait_until_empty"
    <3>1. q.enqueue_enabled = pipe.enqueue_enabled
      BY <1>3, <1>4, <2>1, <2>3
    <3> QED
      BY <1>2, <1>3, <2>1, <3>1, StillWaits
  <2> QED
    BY <2>2, <2>3
<1>6. IInv'
  BY <1>1, <1>2, <1>3, <1>5, SetInv
<1>7. Contents' = Contents
  BY <1>1, <1>2 DEF Contents, Available
<1> QED
  BY <1>1, <1>6, <1>7 DEF Refines, F!vars

\* disable_enqueue wakes everybody who waits on enqueue_sig.
LEMMA DisableEnqueueInv ==
    ASSUME PipeAssumption, IInv, NEW t \in Threads, disable_enqueue(t)
    PROVE  IInv' /\ Refines
<1> DEFINE q == [pipe EXCEPT !.enqueue_enabled = FALSE]
           v == broadcast(enqueue_sig)
<1>1. /\ pipe' = q /\ asleep' = asleep \ v /\ UNCHANGED <<pc, item, next, received>>
      /\ InUse /\ pipe \in PipeType
  BY DEF disable_enqueue, Set, IInv, TypeOK
<1>2. /\ q \in PipeType /\ q.size = pipe.size /\ q.first = pipe.first /\ q.last = pipe.last
      /\ q.data = pipe.data /\ q.dequeue_waiters = pipe.dequeue_waiters
      /\ q.enqueue_waiters = pipe.enqueue_waiters
      /\ q.unblock_sig_waiters = pipe.unblock_sig_waiters
  BY <1>1 DEF PipeType
<1>3. q.enabled = pipe.enabled
  BY <1>1 DEF PipeType
<1>4. \A u \in broadcast(enqueue_sig) \ v : MustWait(pc[u], q)
  OBVIOUS
<1> HIDE DEF q, v
<1>5. IInv'
  BY <1>1, <1>2, <1>3, <1>4, SetInv
<1>6. Contents' = Contents
  BY <1>1, <1>2 DEF Contents, Available
<1> QED
  BY <1>1, <1>5, <1>6 DEF Refines, F!vars

-----------------------------------------------------------------------------
(* The theorems *)

\* A new pipe: it is empty, and nobody is inside.
LEMMA InitInv ==
    ASSUME PipeAssumption, Init
    PROVE  IInv /\ F!Init
<1> USE DEF Init
<1>1. pipe_max_size \in Nat
  BY DEF PipeAssumption
<1>3. TypeOK
  <2>1. "idle" \in Places
    BY PlaceSets
  <2>2. pc \in [Threads -> Places] /\ item \in [Threads -> Nat] /\ received \in Seq(Nat)
    BY <2>1, SMT
  <2>3. pipe \in PipeType
    BY DEF PipeType
  <2> QED
    BY <2>2, <2>3 DEF TypeOK
<1>4. ASSUME NEW S, "idle" \notin S PROVE At(S) = {}
  BY <1>4 DEF At
<1>5. /\ At(EnqueueWaiters) = {} /\ At(DequeueWaiters) = {} /\ At(unblock_sig) = {}
      /\ At(HandingOver) = {} /\ At({"destructor", "destroyed"}) = {}
  BY <1>4, PlaceSets
<1>6. Counted
  BY <1>5, FS_EmptySet DEF Counted
<1>7. SleepsInLoop /\ OneDestructor /\ HandoverIsMine /\ DestructorsWait
  BY <1>5 DEF SleepsInLoop, OneDestructor, HandoverIsMine, DestructorsWait
<1>8. Ring
  BY <1>1, <1>5, SMT DEF Ring
<1>9. NobodyOversleeps
  BY DEF NobodyOversleeps, broadcast
<1>10. F!Init
  <2>1. Contents = <<>>
    <3>1. CASE pipe_max_size = 0
      BY <3>1, SMT DEF Contents, Available
    <3>2. CASE pipe_max_size > 0
      BY <3>2, SMT DEF Contents
    <3> QED
      BY <1>1, <3>1, <3>2, SMT
  <2> QED
    BY <2>1 DEF F!Init
<1> QED
  BY <1>3, <1>6, <1>7, <1>8, <1>9, <1>10 DEF IInv

\* Every step keeps the invariant and is a step of Fifo or leaves it alone.
LEMMA Inductive ==
    ASSUME PipeAssumption, IInv, [Next]_vars
    PROVE  IInv' /\ Refines
<1>1. CASE UNCHANGED vars
  <2>1. IInv'
    BY <1>1, SMTT(60) DEF vars, IInv, TypeOK, Counted, SleepsInLoop, Ring, OneDestructor, HandoverIsMine,
       NobodyOversleeps, DestructorsWait, At, broadcast, Available, Enqueuing, HandingOver,
       EnqueueWaiters, DequeueWaiters, enqueue_sig, dequeue_sig, unblock_sig
  <2>2. Refines
    BY <1>1, BufferStays DEF vars, SameBuffer
  <2> QED
    BY <2>1, <2>2
<1>2. ASSUME NEW t \in Threads, NEW op \in Operations, Call(t, op)
      PROVE  IInv' /\ Refines
  BY <1>2, EnterReady, ProceedInv DEF Call
<1>3. ASSUME NEW t \in Threads, Resume(t)
      PROVE  IInv' /\ Refines
  BY <1>3, ResumeReady, ProceedInv DEF Resume
<1>4. CASE Next
  BY <1>2, <1>3, <1>4, CallWithoutTimeoutInv, TimeoutInv, SpuriousWakeupInv, EmptyInv, EnableInv,
     DisableInv, EnableEnqueueInv, DisableEnqueueInv DEF Next
<1> QED
  BY <1>1, <1>4

\* The inductive invariant holds in every reachable state.
THEOREM PipeInvariance == PipeAssumption => (Spec => []IInv)
<1> SUFFICES ASSUME PipeAssumption PROVE Spec => []IInv
  OBVIOUS
<1>1. Init => IInv
  BY InitInv
<1>2. IInv /\ [Next]_vars => IInv'
  BY Inductive
<1> QED
  BY <1>1, <1>2, PTL DEF Spec

\* No thread sleeps on enqueue_sig when it could go on, and as many dequeues
\* are awake as there are items, although enqueue wakes only one.
THEOREM NoPipeOversleeps == PipeAssumption => (Spec => []NobodyOversleeps)
<1> SUFFICES ASSUME PipeAssumption PROVE Spec => []NobodyOversleeps
  OBVIOUS
<1>1. IInv => NobodyOversleeps
  BY DEF IInv
<1>2. Spec => []IInv
  BY PipeInvariance
<1> QED
  BY <1>1, <1>2, PTL

\* The destructor of the pipe returns only when nobody is inside any more.
THEOREM PipeDestructorWaits == PipeAssumption => (Spec => []DestructorsWait)
<1> SUFFICES ASSUME PipeAssumption PROVE Spec => []DestructorsWait
  OBVIOUS
<1>1. IInv => DestructorsWait
  BY DEF IInv
<1>2. Spec => []IInv
  BY PipeInvariance
<1> QED
  BY <1>1, <1>2, PTL

\* With pipe_max_size 0 an enqueue that returns true was received, and one
\* that gives up takes back its own item.
THEOREM HandoverIsReceived == PipeAssumption => (Spec => []HandoverIsMine)
<1> SUFFICES ASSUME PipeAssumption PROVE Spec => []HandoverIsMine
  OBVIOUS
<1>1. IInv => HandoverIsMine
  BY DEF IInv
<1>2. Spec => []IInv
  BY PipeInvariance
<1> QED
  BY <1>1, <1>2, PTL

\* The pipe implements Fifo: its ring buffer, or the slot of an item handed
\* over, is a queue that loses, repeats and reorders nothing.
THEOREM PipeIsFifo == PipeAssumption => (Spec => IsFifo)
<1> SUFFICES ASSUME PipeAssumption PROVE Spec => IsFifo
  OBVIOUS
<1>1. Init => F!Init
  BY InitInv
<1>2. IInv /\ [Next]_vars => [F!Next]_(F!vars)
  BY Inductive DEF Refines
<1>3. Spec => []IInv
  BY PipeInvariance
<1> QED
  BY <1>1, <1>2, <1>3, PTL DEF Spec, IsFifo, F!Spec
=============================================================================
