------------------------------ MODULE Sniffer -------------------------------
(***************************************************************************)
(* sniffer.cpp as a whole: the threads of SnifferThreads work on the table *)
(* of SnifferSessions.  http_cap takes two steps here: it looks its        *)
(* session up and keeps a pointer to it, and later writes through that     *)
(* pointer; in between, the clock goes on, signals arrive, and only MUTEX  *)
(* keeps the collection of old sessions in a handler away.                 *)
(***************************************************************************)
EXTENDS SnifferSessions

VARIABLES stack, owner, pending, process,   \* see SnifferThreads
          call      \* the locals of http_cap while it runs, or NoCall

T == INSTANCE SnifferThreads

threads == <<stack, owner, pending, process>>

all == <<vars, threads, call>>

NoCall == [known |-> FALSE]

-----------------------------------------------------------------------------
\* The follower's thread is in its callback, outside MUTEX or inside.
InCallback(at) == process # "gone" /\ T!Top(T!follower) = T!Activity("follow", at)

\* Mutant: the old sessions are collected as soon as the session is found.
table_found_late(id) == IF id \in DOMAIN sessions THEN gc(sessions)
                                                  ELSE Put(sessions, id, Stream(now))

\* The table once http_cap has looked for its session.
table_found(id) == IF id \in DOMAIN sessions THEN sessions
                                             ELSE Put(sessions, id, Stream(now))

\* http_cap up to its loop: pst points into the table if the session is known,
\* and to the local st, whose copy went into the table, if it is new.
Find(id, payload) ==
  /\ InCallback("inside") /\ call = NoCall
  /\ id \in open
  /\ call' = [id |-> id, payload |-> payload, known |-> id \in DOMAIN sessions,
              since |-> now]
  /\ sessions' = table_found(id)
  /\ reports' = [i \in DOMAIN table_found(id) |-> IF i \in DOMAIN sessions THEN reports[i] ELSE 0]
  /\ UNCHANGED <<stats, last, now, open, opened, threads>>

\* The rest of http_cap: http_inspect on *pst, then gc, then MUTEX is given back.
Inspect ==
  /\ InCallback("inside") /\ call # NoCall
  /\ LET st    == IF call.known THEN sessions[call.id] ELSE Stream(now)
         found == finds_header(st, call.payload)
         table == IF call.known THEN Put(sessions, call.id, stat(st, call.payload))
                                ELSE sessions
     IN  /\ stats' = IF found THEN Append(stats, call.id) ELSE stats
         /\ sessions' = gc(table)
         /\ reports' = Restrict([reports EXCEPT ![call.id] = @ + (IF found THEN 1 ELSE 0)],
                                DOMAIN gc(table))
  /\ last' = gc_last
  /\ call' = NoCall
  /\ T!Unlock(T!follower)
  /\ UNCHANGED <<now, open, opened>>

Finish(id) == /\ InCallback("inside") /\ call = NoCall
              /\ http_fin(id)
              /\ T!Unlock(T!follower)
              /\ UNCHANGED call

\* The handler of SIGUSR1, on whichever thread took the signal.
Handle(t) == /\ T!Top(t).what = T!SIGUSR1
             /\ T!Unlock(t)
             /\ Report
             /\ UNCHANGED call

Run(t) == \/ /\ T!Lock(t) \/ T!Exit(t) \/ T!MainReturns(t) \/ T!Gone(t)
             /\ UNCHANGED <<vars, call>>
          \/ Handle(t)
          \/ /\ t = T!follower
             /\ \/ Inspect
                \/ \E id \in Id : Finish(id) \/ \E payload \in Payload : Find(id, payload)

\* A call of http_cap takes less than SECS_TO_EXPIRE, an hour, unless it is
\* stuck for ever.
InTime == call # NoCall /\ ~T!Reentered => now < call.since + SECS_TO_EXPIRE

\* What the network, the clock and the users of kill do.
Environment ==
  \/ process # "gone" /\ InTime /\ Tick /\ UNCHANGED <<threads, call>>
  \/ \E id \in Id : InCallback("outside") /\ Follow(id) /\ UNCHANGED <<threads, call>>
  \/ open # {} /\ T!Packet(T!follower) /\ UNCHANGED <<vars, call>>
  \/ T!SniffLoopEnds(T!follower) /\ UNCHANGED <<vars, call>>
  \/ \E s \in T!Signals : /\ T!Kill(s) \/ \E t \in T!Threads : T!Interrupt(t, s)
                          /\ UNCHANGED <<vars, call>>

SnifferInit == Init /\ T!Init /\ call = NoCall

SnifferNext == Environment \/ \E t \in T!Threads : Run(t)

\* A thread that can run, runs; nobody has to send a signal or a packet.
SnifferSpec == SnifferInit /\ [][SnifferNext]_all /\ \A t \in T!Threads : WF_all(Run(t))

-----------------------------------------------------------------------------
\* The pointer pst of http_cap stays valid while http_cap runs: no handler, on
\* either thread, collects the session it points to, however old, and the
\* collection of http_cap itself comes after the last use.
PointsIntoTable ==
  call # NoCall => call.id \in DOMAIN sessions /\ owner = T!follower

\* Once exit has begun to destroy `sessions' and Stream::stats, nobody but
\* the handler that called it is inside MUTEX, where they are used.
NoUseAfterExit == T!NoUseAfterExit

\* The program can hang in one way only: a thread that owns MUTEX is
\* interrupted inside it by a handler that takes MUTEX.
StuckOnlyByReentry == T!StuckOnlyByReentry

\* Whoever owns MUTEX gives it back, or the process ends, unless a handler
\* interrupts it inside: a collection or a report in between changes nothing.
MutexIsReleased == T!MutexIsReleased
=============================================================================
