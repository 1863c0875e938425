-------------------------------- MODULE Pipe --------------------------------
(***************************************************************************)
(* dlib's pipe (dlib/pipe/pipe_kernel_1.h): a bounded first in first out   *)
(* queue between threads.  One mutex protects it, so what a thread does    *)
(* between locking it and waiting or returning is one step.  A thread      *)
(* waits on the signaler its place in the code names; `asleep' holds the   *)
(* threads that wait and have not been woken.  With pipe_max_size 0 an     *)
(* item is handed over: the enqueuing thread leaves it in data[0]          *)
(* (first = last = 0) and waits until last is 1.                           *)
(* Items are numbered in the order in which they enter data.               *)
(***************************************************************************)
EXTENDS Integers, FiniteSets, Sequences

CONSTANTS
    Threads,        \* the threads that use the pipe
    pipe_max_size,
    num,            \* the argument of wait_for_num_blocked_dequeues
    Spurious,       \* whether waits also end without cause, as POSIX allows
    MaxItems        \* bound: items that enter the pipe

PipeAssumption ==
    /\ pipe_max_size \in Nat
    /\ num \in Nat
    /\ MaxItems \in Nat
    /\ Spurious \in BOOLEAN
    /\ IsFiniteSet(Threads)

VARIABLES
    pipe,           \* the members of the object
    pc,             \* pc[t]: the waiting loop t is in, "idle" outside the pipe
    asleep,         \* the threads inside wait() or wait_or_timeout()
    item,           \* item[t]: what t left in data[0] to be taken
    next,           \* the number of the next item
    received        \* the items dequeue has returned, in order

vars == <<pipe, pc, asleep, item, next, received>>

-----------------------------------------------------------------------------
Slots == 0 .. (IF pipe_max_size > 0 THEN pipe_max_size - 1 ELSE 0)

Enqueuing == {"enqueue", "enqueue_or_timeout"}
Dequeuing == {"dequeue", "dequeue_or_timeout"}
HandingOver == {"handover", "handover_or_timeout"}
TimedOut == {"enqueue_timed_out", "dequeue_timed_out"}
Operations == Enqueuing \cup Dequeuing \cup
              {"wait_until_empty", "wait_for_num", "destructor"}
Places == Operations \cup HandingOver \cup TimedOut \cup {"idle", "destroyed"}

\* The three signalers, each as the loops that wait on it.
enqueue_sig == Enqueuing \cup HandingOver \cup {"wait_until_empty"}
dequeue_sig == Dequeuing
unblock_sig == {"wait_for_num", "destructor"}

broadcast(sig) == {t \in asleep : pc[t] \in sig}
signal(sig) == IF broadcast(sig) = {} THEN {{}} ELSE {{t} : t \in broadcast(sig)}
If(condition, woken) == IF condition THEN woken ELSE {}

Init ==
    /\ pipe = [size |-> 0, enabled |-> TRUE, enqueue_enabled |-> TRUE,
               data |-> [i \in Slots |-> 0], first |-> 1, last |-> 1,
               dequeue_waiters |-> 0, enqueue_waiters |-> 0,
               unblock_sig_waiters |-> 0]
    /\ pc = [t \in Threads |-> "idle"]
    /\ asleep = {}
    /\ item = [t \in Threads |-> 0]
    /\ next = 1
    /\ received = <<>>

-----------------------------------------------------------------------------
(***************************************************************************)
(* The condition of the loop at each place, p being the members.           *)
(***************************************************************************)
disabled(p) == ~p.enabled \/ ~p.enqueue_enabled

\* Mutant: a second item may be left while the first waits to be taken.
no_room_over(p, timed) ==
    p.size = pipe_max_size /\ ~disabled(p) /\ pipe_max_size # 0

no_room(p, timed) ==
    /\ p.size = pipe_max_size
    /\ ~disabled(p)
    /\ ~(pipe_max_size = 0 /\ p.first = 1 /\ (timed => p.dequeue_waiters > 0))

nothing_to_take(p) ==
    /\ p.size = 0
    /\ p.enabled
    /\ ~(pipe_max_size = 0 /\ p.first = 0 /\ p.last = 0)

not_taken(p) == p.last = 0 /\ ~disabled(p)

not_empty(p) == p.size > 0 /\ p.enabled

too_few_blocked(p) == (p.dequeue_waiters < num \/ p.size # 0) /\ p.enabled

\* Mutant: the destructor does not wait for those in enqueue.
someone_dequeues(p) == p.dequeue_waiters > 0 \/ p.unblock_sig_waiters > 1

someone_inside(p) ==
    p.dequeue_waiters > 0 \/ p.enqueue_waiters > 0 \/ p.unblock_sig_waiters > 1

MustWait(place, p) ==
    CASE place \in Enqueuing -> no_room(p, place = "enqueue_or_timeout")
      [] place \in Dequeuing -> nothing_to_take(p)
      [] place \in HandingOver -> not_taken(p)
      [] place = "wait_until_empty" -> not_empty(p)
      [] place = "wait_for_num" -> too_few_blocked(p)
      [] place = "destructor" -> someone_inside(p)
      [] OTHER -> FALSE

-----------------------------------------------------------------------------
\* t goes to sleep at a place, or leaves the pipe; w is whom it woke before.
Sleep(t, place, p, w) ==
    /\ pipe' = p
    /\ pc' = [pc EXCEPT ![t] = place]
    /\ asleep' = (asleep \ w) \cup {t}

Return(t, p, w) ==
    /\ pipe' = p
    /\ pc' = [pc EXCEPT ![t] = "idle"]
    /\ asleep' = asleep \ w

(***************************************************************************)
(* What each function does once its loop ends.                             *)
(***************************************************************************)
\* enqueue and enqueue_or_timeout when disabled or out of time
enqueue_fails(t, p) ==
    /\ Return(t, [p EXCEPT !.enqueue_waiters = @ - 1], broadcast(unblock_sig))
    /\ UNCHANGED <<item, next, received>>

\* where the item goes: the first and last that enqueue sets
placed(p) ==
    LET last == IF p.size = 0 THEN 0 ELSE (p.last + 1) % pipe_max_size
    IN  [p EXCEPT !.first = IF p.size = 0 THEN 0 ELSE @,
                  !.last = last,
                  !.data[last] = next]

enqueue_puts(t, place, p) ==
    /\ next' = next + 1
    /\ \E s \in signal(dequeue_sig) :
         LET w == If(p.dequeue_waiters > 0, s)
         IN  IF pipe_max_size > 0
             THEN /\ Return(t, [placed(p) EXCEPT !.size = @ + 1,
                                                 !.enqueue_waiters = @ - 1], w)
                  /\ UNCHANGED item
             ELSE /\ Sleep(t, IF place = "enqueue" THEN "handover"
                              ELSE "handover_or_timeout", placed(p), w)
                  /\ item' = [item EXCEPT ![t] = next]
    /\ UNCHANGED received

leave_enqueue(t, place, p) ==
    IF disabled(p) THEN enqueue_fails(t, p) ELSE enqueue_puts(t, place, p)

leave_handover(t, p) ==
    LET q == [p EXCEPT !.first = 1, !.last = 1, !.enqueue_waiters = @ - 1]
        w == IF p.last = 0
             THEN If(p.unblock_sig_waiters > 0, broadcast(unblock_sig))
             ELSE If(p.enqueue_waiters > 1, broadcast(enqueue_sig)) \cup
                  If(~p.enabled /\ p.unblock_sig_waiters > 0, broadcast(unblock_sig))
    IN  /\ Return(t, q, w)
        /\ UNCHANGED <<item, next, received>>

dequeue_fails(t, p, w) ==
    /\ Return(t, [p EXCEPT !.dequeue_waiters = @ - 1], w \cup broadcast(unblock_sig))
    /\ UNCHANGED <<item, next, received>>

\* Mutant: the item handed over is not marked as taken.
taken_unmarked(p) ==
    IF pipe_max_size > 0
    THEN [p EXCEPT !.first = (@ + 1) % pipe_max_size, !.size = @ - 1]
    ELSE p

taken(p) ==
    IF pipe_max_size > 0
    THEN [p EXCEPT !.first = (@ + 1) % pipe_max_size, !.size = @ - 1]
    ELSE [p EXCEPT !.last = 1]

dequeue_takes(t, p, w) ==
    /\ Return(t, [taken(p) EXCEPT !.dequeue_waiters = @ - 1],
              w \cup If(p.enqueue_waiters > 0, broadcast(enqueue_sig)))
    /\ received' = Append(received, p.data[p.first])
    /\ UNCHANGED <<item, next>>

leave_dequeue(t, p, w) ==
    IF ~p.enabled THEN dequeue_fails(t, p, w) ELSE dequeue_takes(t, p, w)

leave_wait_until_empty(t, p) ==
    /\ Return(t, [p EXCEPT !.enqueue_waiters = @ - 1],
              If(~p.enabled, broadcast(unblock_sig)))
    /\ UNCHANGED <<item, next, received>>

leave_wait_for_num(t, p) ==
    /\ Return(t, [p EXCEPT !.unblock_sig_waiters = @ - 1],
              If(~p.enabled, broadcast(unblock_sig)))
    /\ UNCHANGED <<item, next, received>>

leave_destructor(t, p, w) ==
    /\ pipe' = [p EXCEPT !.unblock_sig_waiters = @ - 1]
    /\ pc' = [pc EXCEPT ![t] = "destroyed"]
    /\ asleep' = asleep \ w
    /\ UNCHANGED <<item, next, received>>

Leave(t, place, p, w) ==
    CASE place \in Enqueuing -> leave_enqueue(t, place, p)
      [] place \in Dequeuing -> leave_dequeue(t, p, w)
      [] place \in HandingOver -> leave_handover(t, p)
      [] place = "wait_until_empty" -> leave_wait_until_empty(t, p)
      [] place = "wait_for_num" -> leave_wait_for_num(t, p)
      [] place = "destructor" -> leave_destructor(t, p, w)
      [] place = "enqueue_timed_out" -> enqueue_fails(t, p)
      [] place = "dequeue_timed_out" -> dequeue_fails(t, p, w)

-----------------------------------------------------------------------------
(***************************************************************************)
(* A thread calls a function that may wait: it counts itself in, tells     *)
(* those the function tells before its loop, and runs to its first wait or *)
(* to its return.  Nobody calls anything once the destructor has begun.    *)
(***************************************************************************)
InUse == \A t \in Threads : pc[t] \notin {"destructor", "destroyed"}

\* Bound: no more items than MaxItems can enter.
MayEnqueue ==
    next + Cardinality({t \in Threads : pc[t] \in Enqueuing}) <= MaxItems

Entered(op) ==
    CASE op \in Enqueuing \cup {"wait_until_empty"} ->
             [pipe EXCEPT !.enqueue_waiters = @ + 1]
      [] op \in Dequeuing -> [pipe EXCEPT !.dequeue_waiters = @ + 1]
      [] op = "wait_for_num" -> [pipe EXCEPT !.unblock_sig_waiters = @ + 1]
      [] op = "destructor" ->
             [pipe EXCEPT !.unblock_sig_waiters = @ + 1, !.enabled = FALSE]

dequeue_tells ==
    If(pipe.size = 0,
       If(pipe.unblock_sig_waiters > 0, broadcast(unblock_sig)) \cup
       If(pipe.enqueue_waiters > 0, broadcast(enqueue_sig)))

Told(op) ==
    CASE op \in Dequeuing -> dequeue_tells
      [] op = "destructor" -> asleep
      [] OTHER -> {}

Proceed(t, place, p, w) ==
    \/ /\ MustWait(place, p)
       /\ Sleep(t, place, p, w)
       /\ UNCHANGED <<item, next, received>>
    \/ /\ ~MustWait(place, p)
       /\ Leave(t, place, p, w)

Call(t, op) ==
    /\ pc[t] = "idle"
    /\ InUse
    /\ op \in Enqueuing => MayEnqueue
    /\ Proceed(t, op, Entered(op), Told(op))

\* enqueue_or_timeout and dequeue_or_timeout with timeout 0
CallWithoutTimeout(t, op) ==
    /\ pc[t] = "idle"
    /\ InUse
    /\ MustWait(op, Entered(op))
    /\ IF op = "enqueue_or_timeout"
       THEN enqueue_fails(t, Entered(op))
       ELSE dequeue_fails(t, Entered(op), Told(op))

\* A woken thread has the mutex again and looks at its loop's condition.
Resume(t) ==
    /\ pc[t] \notin {"idle", "destroyed"}
    /\ t \notin asleep
    /\ Proceed(t, pc[t], pipe, {})

\* wait_or_timeout runs out of time.
Timeout(t) ==
    /\ t \in asleep
    /\ pc[t] \in {"enqueue_or_timeout", "dequeue_or_timeout"}
    /\ pc' = [pc EXCEPT ![t] = IF @ = "enqueue_or_timeout" THEN "enqueue_timed_out"
                               ELSE "dequeue_timed_out"]
    /\ asleep' = asleep \ {t}
    /\ UNCHANGED <<pipe, item, next, received>>

\* A wait ends without cause.
SpuriousWakeup(t) ==
    /\ Spurious
    /\ t \in asleep
    /\ asleep' = asleep \ {t}
    /\ UNCHANGED <<pipe, pc, item, next, received>>

-----------------------------------------------------------------------------
(***************************************************************************)
(* The functions that do not wait.                                         *)
(***************************************************************************)
Set(t, p, w) ==
    /\ pc[t] = "idle"
    /\ InUse
    /\ pipe' = p
    /\ asleep' = asleep \ w
    /\ UNCHANGED <<pc, item, next, received>>

\* Mutant: empty tells nobody.
empty_silent(t) == Set(t, [pipe EXCEPT !.size = 0], {})

empty(t) ==
    Set(t, [pipe EXCEPT !.size = 0],
        If(pipe.enqueue_waiters > 0, broadcast(enqueue_sig)))

enable(t) == Set(t, [pipe EXCEPT !.enabled = TRUE], {})

disable(t) == Set(t, [pipe EXCEPT !.enabled = FALSE], asleep)

enable_enqueue(t) == Set(t, [pipe EXCEPT !.enqueue_enabled = TRUE], {})

disable_enqueue(t) ==
    Set(t, [pipe EXCEPT !.enqueue_enabled = FALSE], broadcast(enqueue_sig))

Next ==
    \E t \in Threads :
        \/ \E op \in Operations : Call(t, op)
        \/ \E op \in {"enqueue_or_timeout", "dequeue_or_timeout"} :
                CallWithoutTimeout(t, op)
        \/ Resume(t)
        \/ Timeout(t)
        \/ SpuriousWakeup(t)
        \/ empty(t)
        \/ enable(t)
        \/ disable(t)
        \/ enable_enqueue(t)
        \/ disable_enqueue(t)

\* A woken thread gets the mutex in the end, and a timeout runs out.
Fairness == \A t \in Threads : WF_vars(Resume(t)) /\ WF_vars(Timeout(t))

Spec == Init /\ [][Next]_vars /\ Fairness

-----------------------------------------------------------------------------
(***************************************************************************)
(* Properties.                                                             *)
(***************************************************************************)
At(places) == {t \in Threads : pc[t] \in places}

\* Handing over with pipe_max_size 0: one thread at a time; what it takes
\* back when nobody took it is its own item, and when enqueue returns true a
\* dequeue has really received that item.
HandoverIsMine ==
    \A t \in At(HandingOver) :
        /\ At(HandingOver) = {t}
        /\ pipe.first = 0
        /\ IF pipe.last = 0
           THEN pipe.data[0] = item[t]
           ELSE item[t] \in {received[i] : i \in DOMAIN received}

Available ==
    IF pipe_max_size > 0 THEN pipe.size
    ELSE IF pipe.first = 0 /\ pipe.last = 0 THEN 1 ELSE 0

\* No wake-up is lost: a thread sleeping on enqueue_sig still has to wait,
\* although disable, disable_enqueue, empty, dequeue and the end of a handover
\* each wake only whom they must; and while a dequeue sleeps there are at
\* least as many woken dequeues as items, although enqueue wakes just one.
NobodyOversleeps ==
    /\ \A t \in broadcast(enqueue_sig) : MustWait(pc[t], pipe)
    /\ broadcast(dequeue_sig) # {} =>
           /\ pipe.enabled
           /\ Available <= Cardinality(At(dequeue_sig) \ asleep)

\* When the destructor has deleted data no thread is inside the pipe.
DestructorsWait ==
    (\E t \in Threads : pc[t] = "destroyed") =>
        \A t \in Threads : pc[t] \in {"idle", "destroyed"}

\* What is inside, oldest first.
Contents ==
    IF pipe_max_size = 0
    THEN IF Available = 1 THEN <<pipe.data[0]>> ELSE <<>>
    ELSE [i \in 1 .. pipe.size |-> pipe.data[(pipe.first + i - 1) % pipe_max_size]]

F == INSTANCE Fifo WITH Capacity <- pipe_max_size, queue <- Contents

\* The ring buffer is a queue: items leave it in the order in which they
\* entered, each at most once, and none is overwritten.
IsFifo == F!Spec
=============================================================================
