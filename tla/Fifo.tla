-------------------------------- MODULE Fifo --------------------------------
(***************************************************************************)
(* What dlib's pipe promises, without its threads: "a first in first out   *)
(* queue with a fixed maximum size" (dlib/pipe/pipe_kernel_abstract.h).    *)
(* With capacity 0 the queue holds at most the one item being handed over, *)
(* which its sender may take back.                                         *)
(***************************************************************************)
EXTENDS Naturals, Sequences

CONSTANT Capacity

VARIABLES
    queue,      \* the items inside, oldest first
    next,       \* the number of the next item to enter
    received    \* the items that left to a receiver, in order

vars == <<queue, next, received>>

Init == queue = <<>> /\ next = 1 /\ received = <<>>

Put ==
    /\ Len(queue) < (IF Capacity = 0 THEN 1 ELSE Capacity)
    /\ queue' = Append(queue, next)
    /\ next' = next + 1
    /\ UNCHANGED received

Take ==
    /\ queue # <<>>
    /\ received' = Append(received, Head(queue))
    /\ queue' = Tail(queue)
    /\ UNCHANGED next

TakeBack ==
    /\ Capacity = 0
    /\ queue' = <<>>
    /\ UNCHANGED <<next, received>>

Clear ==
    /\ Capacity > 0
    /\ queue' = <<>>
    /\ UNCHANGED <<next, received>>

Next == Put \/ Take \/ TakeBack \/ Clear

Spec == Init /\ [][Next]_vars
=============================================================================
