------------------------------ MODULE Programs ------------------------------
(***************************************************************************)
(* The small programs of the repository that talk to others, side by side: *)
(* the memory-ordering experiment, the echo client and server, the HTTP    *)
(* server over Redis and the asio daytime servers.  Each has constants and *)
(* variables of its own.                                                   *)
(***************************************************************************)
EXTENDS MemoryOrdering

CONSTANTS BUFSIZE, NOREQUESTS, MESG, Room,      \* of the echo client and server
          INT_MAX, MaxRequests, MaxCounter,     \* of the HTTP server
          Clients, Senders, MaxPackets          \* of the daytime servers

VARIABLES iobuf, echo_i, rest, amtread, echo_pc, toServer, toClient, echo_n, mesg, server,
          redis_pc, redis_c, redis_r, status, returnbuffer, counter, requests, replies,
          accept, tcp, receive, from, remote_endpoint_, sends, sent, answered, up, errors

Echo == INSTANCE EchoTest WITH pc <- echo_pc, i <- echo_i, n <- echo_n
Redis == INSTANCE RedisHttp WITH
    pc <- redis_pc, c <- redis_c, r <- redis_r, buffer <- returnbuffer
Asio == INSTANCE AsioServer

ASSUME ProgramsAssumption ==
    /\ Echo!EchoAssumption
    /\ INT_MAX \in Nat /\ MaxRequests \in Nat /\ MaxCounter \in Nat

-----------------------------------------------------------------------------
\* tcpclient.c and tcpserver.c: what is on its way is what the client has sent
\* and not read, every byte once and in order, however the reads and writes cut
\* it; the buffer, which is sent again after it was read into, never changes;
\* and the client says "tcpclient finished ok" only when every buffer has come
\* back, though the server may die at any moment.
NothingLost == Echo!NothingLost /\ Echo!OkMeansAll

\* libevent_redis: whichever calls fail or throw, a request has one reply and
\* leaves nothing allocated, but for the one in which redisConnect returns NULL
\* and the process crashes; the numbers replied are the key's own and strictly
\* increase, as long as the key fits the int that they are printed as.
OneReplyNoLeak == Redis!OneReplyNoLeak /\ Redis!ValuesIncrease
=============================================================================
