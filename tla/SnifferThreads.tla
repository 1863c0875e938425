--------------------------- MODULE SnifferThreads ---------------------------
(***************************************************************************)
(* The threads of sniffer.cpp and its MUTEX.  main waits in join for the   *)
(* thread that runs http_follower, which calls http_cap or http_fin for    *)
(* packet after packet.  A signal interrupts a thread that does not block  *)
(* it and runs signal_callback_handler on top of whatever the thread was   *)
(* doing; sa_mask is empty, so the handler blocks only its own signal.     *)
(* All three functions take MUTEX first and keep it to their end.          *)
(*                                                                         *)
(* A thread is a stack of activities, of which the topmost runs.  Each is  *)
(* a record: what it is, and where it stands ("outside" MUTEX, at its      *)
(* "lock", or "inside").                                                   *)
(***************************************************************************)
EXTENDS Integers, Sequences

SIGINT  == "SIGINT"
SIGUSR1 == "SIGUSR1"
Signals == {SIGINT, SIGUSR1}

main     == "main"
follower == "follower"
Threads  == {main, follower}
Nobody   == "nobody"

VARIABLES stack,     \* the activities of each thread
          owner,     \* the thread that has locked MUTEX, or Nobody
          pending,   \* the signals sent and not yet taken
          process    \* "running", "exiting" while exit(0) destroys the
                     \* statics, "returning" while the end of main does, "gone"

vars == <<stack, owner, pending, process>>

Activity(what, at) == [what |-> what, at |-> at]

Depth(t)  == Len(stack[t])
Top(t)    == stack[t][Depth(t)]
Inside(t, n) == stack[t][n].at = "inside"

\* The topmost activity of t goes on at `at'.
GoesOn(t, at) == stack' = [stack EXCEPT ![t][Depth(t)].at = at]

-----------------------------------------------------------------------------
Init ==
  /\ stack = [t \in Threads |-> <<Activity(IF t = main THEN "join" ELSE "follow", "outside")>>]
  /\ owner = Nobody
  /\ pending = {}
  /\ process = "running"

Kill(s) ==
  /\ process # "gone"
  /\ s \notin pending
  /\ pending' = pending \cup {s}
  /\ UNCHANGED <<stack, owner, process>>

\* A thread blocks the signals it is handling; one that has ended takes none.
blocks(t, s) == \/ \E n \in 1 .. Depth(t) : stack[t][n].what = s
                \/ stack[t][1].what = "ended"

\* t is interrupted, wherever it stands.
Interrupt(t, s) ==
  /\ process # "gone"
  /\ s \in pending
  /\ ~blocks(t, s)
  /\ pending' = pending \ {s}
  /\ stack' = [stack EXCEPT ![t] = Append(@, Activity(s, "lock"))]
  /\ UNCHANGED <<owner, process>>

\* http_follower has a packet for http_cap or http_fin.
Packet(t) ==
  /\ process # "gone"
  /\ Top(t) = Activity("follow", "outside")
  /\ GoesOn(t, "lock")
  /\ UNCHANGED <<owner, pending, process>>

\* The capture fails: sniff_loop, and with it http_follower, returns.
SniffLoopEnds(t) ==
  /\ process # "gone"
  /\ stack[t] = <<Activity("follow", "outside")>>
  /\ stack' = [stack EXCEPT ![t] = <<Activity("ended", "outside")>>]
  /\ UNCHANGED <<owner, pending, process>>

\* join returns, and main returns 1: the statics are destroyed.
MainReturns(t) ==
  /\ process = "running"
  /\ stack[t] = <<Activity("join", "outside")>>
  /\ stack[follower][1].what = "ended"
  /\ process' = "returning"
  /\ UNCHANGED <<stack, owner, pending>>

can_lock(t) == owner = Nobody

\* The lock_guard of the topmost activity.
Lock(t) ==
  /\ process # "gone"
  /\ Top(t).at = "lock"
  /\ can_lock(t)
  /\ owner' = t
  /\ GoesOn(t, "inside")
  /\ UNCHANGED <<pending, process>>

\* Mutant: the handler of SIGUSR1 returns without unlocking.
owner_kept_by_handler(t) == IF Top(t).what = SIGUSR1 THEN t ELSE Nobody

owner_after_unlock(t) == Nobody

\* The lock_guard goes out of scope: http_cap or http_fin returns to the
\* follower, or the handler of SIGUSR1 to what it interrupted.
Unlock(t) ==
  /\ process # "gone"
  /\ Top(t).at = "inside"
  /\ Top(t).what # SIGINT
  /\ owner' = owner_after_unlock(t)
  /\ IF Top(t).what = "follow"
     THEN GoesOn(t, "outside")
     ELSE stack' = [stack EXCEPT ![t] = SubSeq(@, 1, Depth(t) - 1)]
  /\ UNCHANGED <<pending, process>>

\* Mutant: the guard is gone before exit is called.
owner_in_exit(t) == Nobody

\* exit never returns, so the lock_guard of the handler is never destroyed.
owner_after_exit(t) == t

\* exit(0) in the handler of SIGINT: the statics are destroyed first.
Exit(t) ==
  /\ process \in {"running", "returning"}
  /\ Top(t) = Activity(SIGINT, "inside")
  /\ process' = "exiting"
  /\ owner' = owner_after_exit(t)
  /\ UNCHANGED <<stack, pending>>

\* Mutant: exit waits for the threads that still want MUTEX.
exit_joins(t) == \A u \in Threads \ {t} : Top(u).at # "lock"

\* exit waits for nobody.
exit_completes(t) == TRUE

\* The thread that called exit, or main, reaches the end of it.
Gone(t) ==
  /\ \/ process = "exiting" /\ Top(t) = Activity(SIGINT, "inside") /\ exit_completes(t)
     \/ process = "returning" /\ stack[t] = <<Activity("join", "outside")>>
  /\ process' = "gone"
  /\ UNCHANGED <<stack, owner, pending>>

Run(t) == Lock(t) \/ Unlock(t) \/ Exit(t) \/ MainReturns(t) \/ Gone(t)

Next == \/ \E s \in Signals : Kill(s)
        \/ \E t \in Threads, s \in Signals : Interrupt(t, s)
        \/ \E t \in Threads : Packet(t) \/ SniffLoopEnds(t) \/ Run(t)

Spec == Init /\ [][Next]_vars

\* A thread that can run, runs; nobody has to send a signal or a packet.
FairSpec == Spec /\ \A t \in Threads : WF_vars(Run(t))

-----------------------------------------------------------------------------
\* Once exit has begun to destroy `sessions' and Stream::stats, nobody but
\* the handler that called it is inside MUTEX, where they are used.
NoUseAfterExit ==
  process = "exiting" =>
    \A t \in Threads : \A n \in 1 .. Depth(t) : Inside(t, n) => stack[t][n].what = SIGINT

\* The owner of MUTEX was interrupted inside it, and its handler waits for it.
Reentered == owner # Nobody /\ Top(owner).at = "lock"

\* Nothing but a signal can happen any more.
Stuck == /\ process \in {"running", "exiting"}
         /\ \A t \in Threads : \/ Top(t).at = "lock" /\ owner # Nobody
                               \/ Top(t).what = "join" /\ stack[follower][1].what # "ended"

\* The program can hang in one way only: a thread that owns MUTEX is
\* interrupted inside it by a handler that takes MUTEX.
StuckOnlyByReentry ==
  Stuck => Reentered /\ \E n \in 1 .. Depth(owner) : Inside(owner, n)

\* Whoever owns MUTEX gives it back, or the process ends, unless a handler
\* interrupts it inside.
MutexIsReleased == (owner # Nobody) ~> (owner = Nobody \/ process = "gone" \/ Reentered)
=============================================================================
