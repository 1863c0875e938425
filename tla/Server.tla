------------------------------- MODULE Server -------------------------------
(***************************************************************************)
(* dlib's server (dlib/server/server_kernel_1.h): start() accepts          *)
(* connections and gives each a thread that runs on_connect, clear() shuts *)
(* everything down from another thread, and start() calls clear() itself   *)
(* when something fails.  Every section under one of the mutexes is a      *)
(* step; the listening ip and port play no part and are left out.  The     *)
(* program neither starts the server nor sets its limit while clear() is   *)
(* in progress.                                                            *)
(***************************************************************************)
EXTENDS Integers, FiniteSets

CONSTANTS
    Connections,    \* bound: the connections clients open
    NoConnection,   \* accept timed out
    starter,        \* the thread that calls start
    Clearers,       \* the threads that call clear
    Errors,         \* what can fail: "listen", "accept", "add", "param", "thread"
    Limits          \* the values max_connections is given

ServerAssumption ==
    /\ NoConnection \notin Connections
    /\ starter \notin Clearers
    /\ IsFiniteSet(Connections)
    /\ Limits \subseteq Nat

AllThreads == {starter} \cup Clearers

VARIABLES
    running,
    shutting_down,
    cons,
    thread_count,
    max_connections,
    pc,             \* where the threads in start and clear are
    asleep,         \* those of them inside wait()
    client,         \* start's current connection
    conn,           \* conn[c]: the connection object
    service         \* service[c]: where c's thread is

vars == <<running, shutting_down, cons, thread_count, max_connections, pc, asleep,
          client, conn, service>>

Init ==
    /\ running = FALSE
    /\ shutting_down = FALSE
    /\ cons = {}
    /\ thread_count = 0
    /\ max_connections = 0
    /\ pc = [t \in AllThreads |-> "out"]
    /\ asleep = {}
    /\ client = NoConnection
    /\ conn = [c \in Connections |-> "new"]
    /\ service = [c \in Connections |-> "none"]

-----------------------------------------------------------------------------
\* The signalers, as the places where threads wait on them.
thread_count_zero == {"clear_threads"}
thread_count_signaler == {"limit", "limit_again"}
running_signaler == {"clear_listener"}
broadcast(sig) == asleep \ {t \in asleep : pc[t] \in sig}

At(t, place) == pc[t] = place /\ t \notin asleep
Go(t, place) == pc' = [pc EXCEPT ![t] = place]

\* What becomes of a connection object; one that is gone must not be used.
shutdown(state) == IF state = "deleted" THEN "used_after_delete" ELSE "shut"
delete(state) == IF state \in {"deleted", "new"} THEN "used_after_delete" ELSE "deleted"

\* The threads inside clear().
Clearing == {t \in AllThreads : pc[t] \in {"clear", "clear_limit", "clear_connections",
                                        "clear_threads", "clear_listener", "clear_done"}}

-----------------------------------------------------------------------------
(***************************************************************************)
(* start()                                                                 *)
(***************************************************************************)
Start ==
    /\ At(starter, "out")
    /\ ~running
    /\ Clearing = {}
    /\ running' = TRUE
    /\ Go(starter, "accept")
    /\ UNCHANGED <<shutting_down, cons, thread_count, max_connections, asleep, client,
                   conn, service>>

\* create_listener fails
StartFails ==
    /\ "listen" \in Errors
    /\ At(starter, "out")
    /\ ~running
    /\ Clearing = {}
    /\ max_connections' = 0
    /\ UNCHANGED <<running, shutting_down, cons, thread_count, pc, asleep, client, conn,
                   service>>

Accept ==
    /\ At(starter, "accept")
    /\ \/ \E c \in Connections :
             /\ conn[c] = "new"
             /\ client' = c
             /\ conn' = [conn EXCEPT ![c] = "open"]
             /\ Go(starter, "check")
       \/ /\ client' = NoConnection
          /\ Go(starter, "check")
          /\ UNCHANGED conn
       \/ /\ "accept" \in Errors
          /\ Go(starter, "failed")
          /\ UNCHANGED <<client, conn>>
    /\ UNCHANGED <<running, shutting_down, cons, thread_count, max_connections, asleep,
                   service>>

AfterAccept ==
    IF shutting_down THEN "close" ELSE IF client = NoConnection THEN "accept" ELSE "add"

Check ==
    /\ At(starter, "check")
    /\ conn' = IF AfterAccept = "close" /\ client # NoConnection
               THEN [conn EXCEPT ![client] = delete(@)] ELSE conn
    /\ Go(starter, AfterAccept)
    /\ UNCHANGED <<running, shutting_down, cons, thread_count, max_connections, asleep,
                   client, service>>

cons_without(c) == cons \ {c}

\* cons.add, new param and create_new_thread each may fail: the connection
\* is deleted, and only the last one of the three takes it out of cons.
Add ==
    /\ At(starter, "add")
    /\ \/ cons' = cons \cup {client} /\ Go(starter, "param") /\ UNCHANGED conn
       \/ /\ "add" \in Errors
          /\ conn' = [conn EXCEPT ![client] = delete(@)]
          /\ Go(starter, "failed")
          /\ UNCHANGED cons
    /\ UNCHANGED <<running, shutting_down, thread_count, max_connections, asleep, client,
                   service>>

MakeParam ==
    /\ At(starter, "param")
    /\ \/ Go(starter, "thread") /\ UNCHANGED conn
       \/ /\ "param" \in Errors
          /\ conn' = [conn EXCEPT ![client] = delete(@)]
          /\ Go(starter, "failed")
    /\ UNCHANGED <<running, shutting_down, cons, thread_count, max_connections, asleep,
                   client, service>>

create_new_thread ==
    /\ At(starter, "thread")
    /\ \/ /\ service' = [service EXCEPT ![client] = "on_connect"]
          /\ Go(starter, "count")
          /\ UNCHANGED <<cons, conn>>
       \/ /\ "thread" \in Errors
          /\ cons' = cons_without(client)
          /\ conn' = [conn EXCEPT ![client] = delete(@)]
          /\ Go(starter, "failed")
          /\ UNCHANGED service
    /\ UNCHANGED <<running, shutting_down, thread_count, max_connections, asleep, client>>

Count ==
    /\ At(starter, "count")
    /\ thread_count' = thread_count + 1
    /\ asleep' = IF thread_count' = 0 THEN broadcast(thread_count_zero) ELSE asleep
    /\ Go(starter, "limit")
    /\ UNCHANGED <<running, shutting_down, cons, max_connections, client, conn, service>>

\* if (max_connections != 0) while (thread_count >= max_connections) ...
full(place) ==
    /\ place = "limit" => max_connections # 0
    /\ thread_count >= max_connections

Limit ==
    /\ At(starter, "limit") \/ At(starter, "limit_again")
    /\ \/ /\ pc[starter] = "limit_again" /\ shutting_down
          /\ Go(starter, "close")
          /\ UNCHANGED asleep
       \/ /\ ~(pc[starter] = "limit_again" /\ shutting_down)
          /\ full(pc[starter])
          /\ Go(starter, "limit_again")
          /\ asleep' = asleep \cup {starter}
       \/ /\ ~(pc[starter] = "limit_again" /\ shutting_down)
          /\ ~full(pc[starter])
          /\ Go(starter, "accept")
          /\ UNCHANGED asleep
    /\ UNCHANGED <<running, shutting_down, cons, thread_count, max_connections, client,
                   conn, service>>

told_closed == broadcast(running_signaler)

\* start returns, or goes on to clear() before it throws.
Close ==
    /\ At(starter, "close") \/ At(starter, "failed")
    /\ running' = FALSE
    /\ asleep' = told_closed
    /\ Go(starter, IF pc[starter] = "close" THEN "out" ELSE "clear")
    /\ UNCHANGED <<shutting_down, cons, thread_count, max_connections, client, conn,
                   service>>

-----------------------------------------------------------------------------
(***************************************************************************)
(* clear()                                                                 *)
(***************************************************************************)
Clear(t) ==
    /\ t \in Clearers
    /\ At(t, "out")
    /\ Go(t, "clear")
    /\ UNCHANGED <<running, shutting_down, cons, thread_count, max_connections, asleep,
                   client, conn, service>>

ClearSignals(t) ==
    /\ At(t, "clear")
    /\ shutting_down' = TRUE
    /\ Go(t, "clear_limit")
    /\ UNCHANGED <<running, cons, thread_count, max_connections, asleep, client, conn,
                   service>>

ClearLimit(t) ==
    /\ At(t, "clear_limit")
    /\ max_connections' = 0
    /\ Go(t, "clear_connections")
    /\ UNCHANGED <<running, shutting_down, cons, thread_count, asleep, client, conn,
                   service>>

\* Mutant: the connections are only forgotten.
forgotten(c) == conn[c]
told(c) == IF c \in cons THEN shutdown(conn[c]) ELSE conn[c]

ClearConnections(t) ==
    /\ At(t, "clear_connections")
    /\ conn' = [c \in Connections |-> told(c)]
    /\ cons' = {}
    /\ Go(t, "clear_threads")
    /\ UNCHANGED <<running, shutting_down, thread_count, max_connections, asleep, client,
                   service>>

\* Mutant: only the listener is waited for.
HasToWaitForListener(t) == pc[t] = "clear_listener" /\ running
HasToWait(t) == IF pc[t] = "clear_threads" THEN thread_count > 0 ELSE running

ClearWaits(t) ==
    /\ At(t, "clear_threads") \/ At(t, "clear_listener")
    /\ \/ HasToWait(t) /\ asleep' = asleep \cup {t} /\ UNCHANGED pc
       \/ /\ ~HasToWait(t)
          /\ Go(t, IF pc[t] = "clear_threads" THEN "clear_listener" ELSE "clear_done")
          /\ UNCHANGED asleep
    /\ UNCHANGED <<running, shutting_down, cons, thread_count, max_connections, client,
                   conn, service>>

ClearReturns(t) ==
    /\ At(t, "clear_done")
    /\ shutting_down' = FALSE
    /\ Go(t, "out")
    /\ UNCHANGED <<running, cons, thread_count, max_connections, asleep, client, conn,
                   service>>

set_max_connections(n) ==
    /\ Clearing = {}
    /\ max_connections' = n
    /\ UNCHANGED <<running, shutting_down, cons, thread_count, pc, asleep, client, conn,
                   service>>

-----------------------------------------------------------------------------
(***************************************************************************)
(* service_connection(), one thread for each connection                    *)
(***************************************************************************)
OnConnectReturns(c) ==
    /\ service[c] = "on_connect"
    /\ service' = [service EXCEPT ![c] = "remove"]
    /\ UNCHANGED <<running, shutting_down, cons, thread_count, max_connections, pc, asleep,
                   client, conn>>

Remove(c) ==
    /\ service[c] = "remove"
    /\ cons' = cons_without(c)
    /\ conn' = [conn EXCEPT ![c] = delete(@)]
    /\ service' = [service EXCEPT ![c] = "uncount"]
    /\ UNCHANGED <<running, shutting_down, thread_count, max_connections, pc, asleep,
                   client>>

\* Mutant: the thread stays counted.
thread_count_kept == thread_count
thread_count_less == thread_count - 1

Uncount(c) ==
    /\ service[c] = "uncount"
    /\ thread_count' = thread_count_less
    /\ asleep' = broadcast(thread_count_signaler \cup
                           (IF thread_count' = 0 THEN thread_count_zero ELSE {}))
    /\ service' = [service EXCEPT ![c] = "done"]
    /\ UNCHANGED <<running, shutting_down, cons, max_connections, pc, client, conn>>

-----------------------------------------------------------------------------
StartStep ==
    \/ Accept \/ Check \/ Add \/ MakeParam \/ create_new_thread \/ Count \/ Limit \/ Close

ClearStep(t) ==
    \/ ClearSignals(t) \/ ClearLimit(t) \/ ClearConnections(t) \/ ClearWaits(t)
    \/ ClearReturns(t)

Next ==
    \/ Start \/ StartFails \/ StartStep
    \/ \E t \in AllThreads : Clear(t) \/ ClearStep(t)
    \/ \E n \in Limits : set_max_connections(n)
    \/ \E c \in Connections : OnConnectReturns(c) \/ Remove(c) \/ Uncount(c)

(***************************************************************************)
(* start and clear go on once called, and so does the end of a service;    *)
(* on_connect need not return before its connection is shut down.          *)
(***************************************************************************)
Fairness ==
    /\ WF_vars(StartStep)
    /\ \A t \in AllThreads : WF_vars(ClearStep(t))
    /\ \A c \in Connections : /\ WF_vars(conn[c] = "shut" /\ OnConnectReturns(c))
                              /\ WF_vars(Remove(c) \/ Uncount(c))

Spec == Init /\ [][Next]_vars /\ Fairness

-----------------------------------------------------------------------------
(***************************************************************************)
(* Properties.                                                             *)
(***************************************************************************)
Served == {c \in Connections : service[c] \in {"on_connect", "remove", "uncount"}}

\* thread_count is the number of service threads, although each is counted
\* after it has been created, when it may have ended already.
ThreadsCounted ==
    thread_count = Cardinality(Served) - (IF pc[starter] = "count" THEN 1 ELSE 0)

\* "cons == a set containing all open connections": what clear() finds there
\* still exists, nothing is closed twice, and a connection that is served
\* and not in cons has been shut down.
ConsAreOpen ==
    \A c \in Connections :
        /\ conn[c] # "used_after_delete"
        /\ c \in cons => conn[c] = "open"
        /\ service[c] = "on_connect" /\ conn[c] = "open" => c \in cons

\* What can be said with clear() in another thread: no connection object is
\* used or closed after it was closed.
NoUseAfterDelete ==
    \A c \in Connections :
        conn[c] # "used_after_delete" /\ (c \in cons => conn[c] # "deleted")

\* The server's books are right.  With clear() in another thread a connection
\* can be in no set and yet be open, and when the allocation of a param fails
\* a connection that was closed stays in cons.
BooksAreRight ==
    /\ ThreadsCounted
    /\ "param" \notin Errors => NoUseAfterDelete
    /\ "param" \notin Errors /\ Clearers = {} => ConsAreOpen

\* No wake-up is lost: whoever sleeps in clear() still has to wait.
NobodyOversleeps ==
    \A t \in asleep :
        CASE pc[t] = "clear_threads" -> thread_count > 0
          [] pc[t] = "clear_listener" -> running
          [] OTHER -> TRUE

\* clear() by start itself returns when on_connect has for all connections.
ClearWaitsForAll ==
    [][pc'[starter] = "out" /\ starter \in Clearing =>
           ~running /\ \A c \in Connections : service[c] # "on_connect"]_vars
=============================================================================
