-------------------------- MODULE SnifferSessions ---------------------------
(***************************************************************************)
(* The table of HTTP sessions of sniffer.cpp: http_cap and http_fin, which *)
(* the follower calls as data_fun and end_fun, the statistics, and the     *)
(* collection of old sessions.  Every action is the body of a function     *)
(* that holds MUTEX from its first line to its last; SnifferThreads is     *)
(* about that lock.                                                        *)
(*                                                                         *)
(* A session is known by its id, the string get_id makes of the two        *)
(* endpoints.  Of a Stream the model keeps initial and state; id is its    *)
(* key, and the byte counts and `last' are only ever printed.              *)
(***************************************************************************)
EXTENDS Integers, Sequences, Functions

CONSTANTS Id,               \* what get_id returns, for the endpoints there are
          SECS_TO_EXPIRE,
          SECS_TO_GC,
          MaxTime,          \* bound: the clock is watched until then
          MaxStreams        \* bound: so many streams are followed

ASSUME TimeAssumption == /\ SECS_TO_EXPIRE \in Nat /\ SECS_TO_GC \in Nat
                         /\ MaxTime \in Nat /\ MaxStreams \in Nat

VARIABLES sessions,    \* from ids to [initial, state]
          stats,       \* Stream::stats: the session ids of the entries, oldest first
          last,        \* the static variable of gc, or NEVER
          now,         \* the clock, in seconds
          open,        \* environment: the ids of the streams being followed
          opened,      \* environment: how many streams have been followed
          reports      \* history: how many entries each session has made

vars == <<sessions, stats, last, now, open, opened, reports>>

NEVER == -1

UNKNOWN == "UNKNOWN"
CLIENT  == "CLIENT"
SERVER  == "SERVER"

\* What http_inspect can tell of the payload data_fun sees: it is empty
\* (update can return true for nothing), or comes from one side, and holds a
\* complete header of that side's kind (a method and a blank line, or HTTP/
\* and a blank line), or does not.
Payload == [from : {CLIENT, SERVER}, header : BOOLEAN, empty : {FALSE}]
             \cup [from : {CLIENT}, header : {FALSE}, empty : {TRUE}]

Stream(time) == [initial |-> time, state |-> UNKNOWN]

is_expired(st) == st.initial + SECS_TO_EXPIRE < now

-----------------------------------------------------------------------------
\* Mutant: the step past an erased session skips the one after it.
gc_skips(table) ==
  IF last # NEVER /\ now - last > SECS_TO_GC
  THEN LET old  == {i \in DOMAIN table : is_expired(table[i])}
           kept == IF old = {} THEN {} ELSE old \ {CHOOSE i \in old : TRUE}
       IN  Restrict(table, DOMAIN table \ (old \ kept))
  ELSE table

\* gc, applied to the table as its caller leaves it.  Its static variable is
\* set by the first call, which collects nothing.
gc(table) ==
  IF last # NEVER /\ now - last > SECS_TO_GC
  THEN Restrict(table, {i \in DOMAIN table : ~is_expired(table[i])})
  ELSE table

gc_last == IF last = NEVER \/ now - last > SECS_TO_GC THEN now ELSE last

\* http_inspect, called for the six methods and then for "HTTP/": a session
\* whose kind is unknown takes the kind of the first complete header, and
\* makes an entry of it.
finds_header(st, payload) == st.state = UNKNOWN /\ ~payload.empty /\ payload.header

\* Stream::stat(flow, data) on the session that http_inspect was given.
stat(st, payload) ==
  IF finds_header(st, payload) THEN [initial |-> now, state |-> payload.from] ELSE st

\* In the other two states http_inspect adds the size to the newest entry,
\* whichever session made it: stats.back().
uses_back(st, payload) == st.state # UNKNOWN /\ ~payload.empty

-----------------------------------------------------------------------------
Init ==
  /\ sessions = [i \in {} |-> Stream(0)]
  /\ stats = <<>>
  /\ last = NEVER
  /\ now = 0
  /\ open = {} /\ opened = 0
  /\ reports = [i \in {} |-> 0]

Put(table, id, value) == [i \in DOMAIN table \cup {id} |-> IF i = id THEN value ELSE table[i]]

Tick == /\ now < MaxTime
        /\ now' = now + 1
        /\ UNCHANGED <<sessions, stats, last, open, opened, reports>>

\* The follower inserts a stream.
Follow(id) == /\ id \notin open /\ opened < MaxStreams
              /\ open' = open \cup {id} /\ opened' = opened + 1
              /\ UNCHANGED <<sessions, stats, last, now, reports>>

\* data_fun.  What a new session's first payload tells is recorded in the
\* local variable st, after its copy went into the table.
http_cap(id, payload) ==
  /\ id \in open
  /\ LET known == id \in DOMAIN sessions
         st    == IF known THEN sessions[id] ELSE Stream(now)
         table == Put(sessions, id, IF known THEN stat(st, payload) ELSE st)
         count == (IF known THEN reports[id] ELSE 0)
                    + (IF finds_header(st, payload) THEN 1 ELSE 0)
     IN  /\ stats' = IF finds_header(st, payload) THEN Append(stats, id) ELSE stats
         /\ sessions' = gc(table)
         /\ reports' = Restrict(Put(reports, id, count), DOMAIN gc(table))
  /\ last' = gc_last
  /\ UNCHANGED <<now, open, opened>>

\* Mutant: a session that has expired is left to gc.
erased_by_fin_if_fresh(id) ==
  IF id \in DOMAIN sessions /\ is_expired(sessions[id]) THEN {} ELSE {id}

\* http_fin erases the session of the stream, if it is still there.
erased_by_fin(id) == {id}

\* end_fun; the follower erases its stream next.
http_fin(id) ==
  /\ id \in open
  /\ open' = open \ {id}
  /\ sessions' = Restrict(sessions, DOMAIN sessions \ erased_by_fin(id))
  /\ reports' = Restrict(reports, DOMAIN sessions')
  /\ UNCHANGED <<stats, last, now, opened>>

\* Mutant: the table is printed once.
stats_after_print == <<>>

\* SIGUSR1 prints the sessions and the statistics, and leaves them.
stats_printed == stats

\* signal_callback_handler(SIGUSR1)
Report ==
  /\ sessions' = gc(sessions)
  /\ reports' = Restrict(reports, DOMAIN gc(sessions))
  /\ last' = gc_last
  /\ stats' = stats_printed
  /\ UNCHANGED <<now, open, opened>>

Next == \/ Tick
        \/ \E id \in Id : Follow(id) \/ http_fin(id)
        \/ \E id \in Id, payload \in Payload : http_cap(id, payload)
        \/ Report

Spec == Init /\ [][Next]_vars

-----------------------------------------------------------------------------
TypeOK ==
  /\ DOMAIN sessions \subseteq Id
  /\ \A i \in DOMAIN sessions : sessions[i] \in [initial : 0 .. now,
                                                 state : {UNKNOWN, CLIENT, SERVER}]
  /\ stats \in Seq(Id)
  /\ last \in {NEVER} \cup 0 .. now
  /\ now \in 0 .. MaxTime
  /\ open \subseteq Id /\ opened \in 0 .. MaxStreams
  /\ DOMAIN reports = DOMAIN sessions /\ \A i \in DOMAIN reports : reports[i] \in Nat

\* When http_inspect reaches for stats.back(), which is undefined on an empty
\* vector, there is an entry: a session leaves UNKNOWN only in the function
\* that makes one, and no entry is ever removed.
BackExists ==
  \A i \in DOMAIN sessions, payload \in Payload :
    uses_back(sessions[i], payload) => stats # <<>>

\* Every session belongs to a stream that is being followed: http_fin and the
\* end of the stream go together, and gc never brings a session back.
NoOrphans == DOMAIN sessions \subseteq open

\* Since the last collection no session is left that was too old then: gc
\* erases while it iterates and skips none, and `initial' only moves on.
NoneTooOld == \A i \in DOMAIN sessions : sessions[i].initial + SECS_TO_EXPIRE >= last

\* A session makes at most two entries, the first for the payload that
\* opened it (recorded in a copy the table does not keep) and one more: once
\* it is known to be CLIENT or SERVER, no header in it is looked at again.
AtMostTwoReports ==
  \A i \in DOMAIN sessions :
    reports[i] <= IF sessions[i].state = UNKNOWN THEN 1 ELSE 2
=============================================================================
