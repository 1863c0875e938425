-------------------------- MODULE FollowedStreams ---------------------------
(***************************************************************************)
(* What TCPCapStreamFollower promises to the functors it is given.  Streams *)
(* get identifiers in the order they open; each stands for one connection;  *)
(* what data_fun sees of a direction is what that side of the connection    *)
(* sent, in order, nothing twice and nothing left out; end_fun is called    *)
(* once, and data_fun is not called for that stream again.                  *)
(***************************************************************************)
EXTENDS Integers, Sequences

CONSTANTS Connections,      \* the connections there are
          BytesOf(_, _, _, _)  \* BytesOf(c, d, first, n): n bytes of direction d of c

VARIABLES streams,   \* the connection each stream stands for, in order of identifier
          out,       \* per stream and direction, the bytes data_fun has seen
          ended      \* the identifiers end_fun was called for

Directions == {"client", "server"}

Init == streams = <<>> /\ out = <<>> /\ ended = {}

Open == \E c \in Connections :
  /\ streams' = Append(streams, c)
  /\ out' = Append(out, [d \in Directions |-> <<>>])
  /\ UNCHANGED ended

\* One packet of the stream at position k: some bytes of one direction, and
\* perhaps the end of the stream.
Packet(k) == \E d \in Directions, ends \in BOOLEAN :
  /\ k \notin ended
  /\ \E n \in 0 .. streams[k].len :
        out' = [out EXCEPT ![k][d] = @ \o BytesOf(streams[k], d, Len(@), n)]
  /\ ended' = ended \cup (IF ends THEN {k} ELSE {})
  /\ UNCHANGED streams

Next == Open \/ \E k \in DOMAIN streams : Packet(k)

Spec == Init /\ [][Next]_<<streams, out, ended>>
=============================================================================
