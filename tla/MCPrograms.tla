----------------------------- MODULE MCPrograms -----------------------------
(***************************************************************************)
(* The small programs of the repository, for TLC.  A behaviour is one of   *)
(* the program that it is about; the variables of the others keep their    *)
(* first values.                                                           *)
(***************************************************************************)
EXTENDS Programs, Coroutines

VARIABLES program,
          hash, at, point, text,
          root, keys

\* Bounds: what the programs are watched for.
Geo == INSTANCE Geohash WITH
    ROUNDS <- 3, STEP <- 6, CHARS <- 3, HALF <- 128, LAT_MAX <- 121, MaxStep <- 3,
    Points <- {-130, -128, -122, -121, -120, -37, 0, 1, 77, 120, 121, 122, 128},
    Garbage <- {0, 1365, 4095}
Tree == INSTANCE IntTree WITH Keys <- 1 .. 3, Nodes <- 1 .. 4

echo_vars == <<iobuf, echo_i, rest, amtread, echo_pc, toServer, toClient, echo_n, mesg, server>>
mill_vars == <<mill_pc, errno, ch, connections, active, failed, listening, spins, lost>>
redis_vars == <<redis_pc, redis_c, redis_r, status, returnbuffer, counter, requests, replies>>
asio_vars == <<accept, tcp, receive, from, remote_endpoint_, sends, sent, answered, up, errors>>
geo_vars == <<hash, at, point, text>>
tree_vars == <<root, keys>>
all == <<program, vars, echo_vars, mill_vars, redis_vars, asio_vars, geo_vars, tree_vars>>

MCInit ==
    /\ program \in {"ordering", "echo", "mill", "redis", "asio", "geohash", "tree"}
    /\ Init /\ Echo!Init /\ Mill!Init /\ Redis!Init /\ Asio!Init /\ Geo!Init /\ Tree!Init
    /\ program # "mill" => errno = 0

MCNext ==
    \/ /\ program = "ordering" /\ Next
       /\ UNCHANGED <<program, echo_vars, mill_vars, redis_vars, asio_vars, geo_vars, tree_vars>>
    \/ /\ program = "echo" /\ Echo!Next
       /\ UNCHANGED <<program, vars, mill_vars, redis_vars, asio_vars, geo_vars, tree_vars>>
    \/ /\ program = "mill" /\ Mill!Next
       /\ UNCHANGED <<program, vars, echo_vars, redis_vars, asio_vars, geo_vars, tree_vars>>
    \/ /\ program = "redis" /\ Redis!Next
       /\ UNCHANGED <<program, vars, echo_vars, mill_vars, asio_vars, geo_vars, tree_vars>>
    \/ /\ program = "asio" /\ Asio!Next
       /\ UNCHANGED <<program, vars, echo_vars, mill_vars, redis_vars, geo_vars, tree_vars>>
    \/ /\ program = "geohash" /\ Geo!Next
       /\ UNCHANGED <<program, vars, echo_vars, mill_vars, redis_vars, asio_vars, tree_vars>>
    \/ /\ program = "tree" /\ Tree!Next
       /\ UNCHANGED <<program, vars, echo_vars, mill_vars, redis_vars, asio_vars, geo_vars>>

\* Processes and coroutines run, calls with a deadline return, and io_service
\* calls the handlers that are due.
MCFairness ==
    /\ WF_(Echo!vars)(program = "echo" /\ Echo!Client)
    /\ WF_(Echo!vars)(program = "echo" /\ Echo!recvfrom)
    /\ WF_(Echo!vars)(program = "echo" /\ Echo!sendto)
    /\ SF_(Mill!vars)(Mill!chr)
    /\ \A k \in Connections : SF_(Mill!vars)(Mill!Run(k))
    /\ WF_(Asio!vars)(program = "asio" /\ Asio!Tcp)
    /\ WF_(Asio!vars)(Asio!handle_receive)
    /\ WF_(Asio!vars)(Asio!handle_send)

MCSpec == MCInit /\ [][MCNext]_all /\ MCFairness

-----------------------------------------------------------------------------
\* The echo client finishes, unless the server dies or writes a zero outside
\* mesg: it does not wait for the server while the server waits for it.  Every
\* connection that libmill/test.c accepts is closed in the end, unless tcpaccept
\* fails from some moment on: then main never lets the dialogues run.
Finishes ==
    /\ <>(program = "echo" => echo_pc = "ok" \/ server \in {"dead", "stray"})
    /\ Mill!DialoguesEnd

\* asio-minimal: who connects or sends is served, unless the chain of handlers
\* it depends on has failed; and a datagram is answered to its sender, though
\* the next receive overwrites remote_endpoint_.
EveryoneServed == Asio!EveryoneServed /\ []Asio!AnswersItsSender

\* geohash.c: after any walk over neighbours the hash is that of the cell one
\* is in, and deinterleave64 undoes interleave64; rgeohash.c: the text of a
\* point leads back to the cell it is in.
HashIsCell == Geo!HashIsCell /\ Geo!DecodesToCell /\ Geo!TextLeadsBack

\* c++11/tests/test.cc: the tree is in order and holds what was inserted and
\* not removed, each in a node of its own; search finds exactly those keys.
InorderIsSorted == Tree!InorderIsSorted /\ Tree!SearchFinds
=============================================================================
