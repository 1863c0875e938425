------------------------------ MODULE EchoTest ------------------------------
(***************************************************************************)
(* The echo client (servers/tcpclient.c) and the child process that serves *)
(* it (servers/tcpserver.c), over the two byte streams of a connection.    *)
(* A byte is the position in iobuf that fillBuf gave it, so that a byte    *)
(* out of place shows.  read and write move any number of bytes that the   *)
(* stream has or has room for; a blocking write goes on until all is gone. *)
(***************************************************************************)
EXTENDS Integers, Sequences

CONSTANTS
    BUFSIZE,        \* 1024
    NOREQUESTS,     \* 10
    MESG,           \* 1000, the size of the server's mesg
    Room            \* what a stream holds before it has been read

\* The streams and one byte in mesg hold a whole buffer, which the client
\* writes before it reads: a kernel holds more than BUFSIZE for a socket.
EchoAssumption ==
    /\ BUFSIZE \in Nat \ {0} /\ NOREQUESTS \in Nat /\ MESG \in Nat \ {0} /\ Room \in Nat \ {0}
    /\ 2 * Room + 1 >= BUFSIZE

VARIABLES
    iobuf, i, rest,     \* the client's buffer, its loop, what write still has to send
    amtread, pc,        \* doRead's count, and where the client is
    toServer, toClient, \* the streams
    n, mesg,            \* what recvfrom returned, and what sendto still has to send
    server              \* where the server is: "dead" is also a broken connection

client == <<iobuf, i, rest, amtread, pc>>
vars == <<iobuf, i, rest, amtread, pc, toServer, toClient, n, mesg, server>>

\* Client: fillBuf, and connect.
fillBuf == [k \in 1 .. BUFSIZE |-> k]

Init ==
    /\ iobuf = fillBuf
    /\ i = 0 /\ rest = <<>> /\ amtread = 0 /\ pc = "loop"
    /\ toServer = <<>> /\ toClient = <<>> /\ n = 0 /\ mesg = <<>> /\ server = "recv"

Again == i < NOREQUESTS

echoTest ==
    /\ pc = "loop"
    /\ IF Again THEN pc' = "write" /\ rest' = iobuf ELSE pc' = "ok" /\ UNCHANGED rest
    /\ UNCHANGED <<iobuf, i, amtread, toServer, toClient, n, mesg, server>>

\* What is written to a server that has gone is lost, or the write fails.
Write ==
    /\ pc = "write"
    /\ \/ \E k \in 1 .. Len(rest) :
             /\ \/ /\ server # "dead"
                   /\ Len(toServer) + k <= Room
                   /\ toServer' = toServer \o SubSeq(rest, 1, k)
                \/ server = "dead" /\ UNCHANGED toServer
             /\ rest' = SubSeq(rest, k + 1, Len(rest))
             /\ pc' = IF rest' = <<>> THEN "read" ELSE "write"
       \/ server = "dead" /\ pc' = "exit" /\ UNCHANGED <<toServer, rest>>
    /\ amtread' = 0
    /\ UNCHANGED <<iobuf, i, toClient, n, mesg, server>>

ReadComplete(rc) == amtread + rc >= BUFSIZE

\* Mutant: bpt is not advanced.
bpt_kept == 0
bpt == amtread

\* One read of doRead.  At the end of the stream it returns 0, again and
\* again; on a connection that was reset it fails.
doRead ==
    /\ pc = "read"
    /\ \/ \E rc \in 0 .. Len(toClient) :
             /\ rc = 0 => toClient = <<>> /\ server = "dead"
             /\ rc <= BUFSIZE - amtread
             /\ iobuf' = [k \in 1 .. BUFSIZE |->
                             IF k \in bpt + 1 .. bpt + rc THEN toClient[k - bpt] ELSE iobuf[k]]
             /\ toClient' = SubSeq(toClient, rc + 1, Len(toClient))
             /\ amtread' = amtread + rc
             /\ IF ReadComplete(rc) THEN pc' = "loop" /\ i' = i + 1 ELSE UNCHANGED <<pc, i>>
       \/ server = "dead" /\ pc' = "exit" /\ UNCHANGED <<iobuf, i, amtread, toClient>>
    /\ UNCHANGED <<rest, toServer, n, mesg, server>>

-----------------------------------------------------------------------------
\* Server: one recvfrom, and the sendto of what it returned.
ClientGone == pc \in {"ok", "exit"}

\* recvfrom returns 0 or -1 when the client has gone; nobody asks.
recvfrom ==
    /\ server = "recv"
    /\ n' \in -1 .. MESG
    /\ \/ n' \in 1 .. Len(toServer)
       \/ n' = 0 /\ ClientGone /\ toServer = <<>>
       \/ n' = -1 /\ ClientGone
    /\ mesg' = SubSeq(toServer, 1, n')
    /\ toServer' = IF n' > 0 THEN SubSeq(toServer, n' + 1, Len(toServer)) ELSE toServer
    /\ server' = "send"
    /\ UNCHANGED <<client, toClient>>

\* mesg[n] = 0: outside mesg it may change connfd, and the child serves no
\* more, or the process ends.
Terminated == IF n \in 0 .. MESG - 1 THEN {"recv"} ELSE {"recv", "stray", "dead"}

sendto ==
    /\ server = "send"
    /\ \/ \E k \in 1 .. Len(mesg) :
             /\ Len(toClient) + k <= Room
             /\ toClient' = toClient \o SubSeq(mesg, 1, k)
             /\ mesg' = SubSeq(mesg, k + 1, Len(mesg))
             /\ server' \in IF mesg' = <<>> THEN Terminated ELSE {"send"}
       \/ mesg = <<>> /\ server' \in Terminated /\ UNCHANGED <<toClient, mesg>>
    /\ UNCHANGED <<client, toServer, n>>

\* The server's process may end, and the connection break, at any moment.
Die ==
    /\ server # "dead"
    /\ server' = "dead"
    /\ UNCHANGED <<client, toServer, toClient, n, mesg>>

Next == echoTest \/ Write \/ doRead \/ recvfrom \/ sendto \/ Die

Spec == Init /\ [][Next]_vars

\* The steps of the client, the kernel moving bytes while there is room.
Client == echoTest \/ Write \/ doRead

-----------------------------------------------------------------------------
\* What is on its way is what the client has sent and not read: every byte
\* once and in order, however the reads and writes cut it; and iobuf, which
\* is sent again after it was read into, never changes ("write buffer to
\* remote and read same amount back").  What a server that dies
\* had is lost; what the client has read is still in its place.
NothingLost ==
    /\ iobuf = fillBuf
    /\ server # "dead" /\ pc \in {"write", "read"} =>
        (IF pc = "read" THEN SubSeq(fillBuf, 1, amtread) ELSE <<>>)
            \o toClient \o mesg \o toServer \o rest = fillBuf

\* "tcpclient finished ok": only when every buffer has come back, though the
\* server may die at any moment.
OkMeansAll == pc = "ok" => i = NOREQUESTS /\ toServer = <<>> /\ toClient = <<>> /\ mesg = <<>>
=============================================================================
