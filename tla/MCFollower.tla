----------------------------- MODULE MCFollower -----------------------------
(* Small sets of connections for Follower.                                 *)
EXTENDS Follower

Conn(client, server, client_isn, server_isn, len) ==
  [client |-> client, server |-> server, len |-> len,
   isn |-> [client |-> client_isn, server |-> server_isn]]

\* Two endpoints connect a second time, the other way round, with numbers
\* that fall into the window of the first.
Again == {Conn("A", "B", 3, 12, 2), Conn("B", "A", 11, 4, 2)}

\* The same with less data; and one of them is the server of a third
\* connection, whose client sends across the top of the sequence space.
All == {Conn("A", "B", 3, 12, 2), Conn("B", "A", 11, 4, 1), Conn("C", "A", 14, 5, 1)}
=============================================================================
