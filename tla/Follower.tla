------------------------------ MODULE Follower ------------------------------
(***************************************************************************)
(* TCPCapStreamFollower: the map of sessions, and its callback, which      *)
(* finds the session of a captured packet in either direction, opens one   *)
(* on a SYN, updates it, calls data_fun and cap when update returns true,  *)
(* and calls end_fun and erases the session once it is finished.           *)
(*                                                                         *)
(* The wire carries the packets of some TCP connections.  The sniffer      *)
(* captures any of them in any order, any number of times or never.  A     *)
(* byte is a triple: its connection, its direction, its offset.            *)
(***************************************************************************)
EXTENDS TCPCapStream

CONSTANTS Connections,     \* records [client, server, isn, len]: see below
          MaxStreams       \* bound: the sniffer is watched until it has opened so many

\* isn maps each direction to its initial number, len is how many bytes each
\* direction carries; endpoints stand for an address and a port.
ASSUME ConnectionAssumption ==
  \A c \in Connections :
     /\ c.client # c.server
     /\ \A d \in {"client", "server"} : c.isn[d] \in SeqNumber
     /\ c.len \in Nat

VARIABLES sessions,         \* sessions: from StreamInfo to TCPCapStream
          last_identifier,
          alive,            \* FALSE once the process has died
          wire,             \* environment: the connections in progress
          gone,             \* environment: the connections that are over
          streams, out, ended,  \* history: see FollowedStreams
          fins              \* history: the streams a FIN was captured for

follower_vars == <<sessions, last_identifier, alive, wire, gone, streams, out, ended, fins>>

Directions == {"client", "server"}

BytesOf(c, d, first, n) == [i \in 1 .. n |-> <<c, d, first + i - 1>>]

Followed == INSTANCE FollowedStreams

-----------------------------------------------------------------------------
(* The packets of a connection, as its two peers send them                  *)

Source(c, d)      == IF d = "client" THEN c.client ELSE c.server
Destination(c, d) == IF d = "client" THEN c.server ELSE c.client
Other(d)          == IF d = "client" THEN "server" ELSE "client"

Packet(c, d, flags, seq, ack, data) ==
  [src |-> Source(c, d), dst |-> Destination(c, d), flags |-> flags,
   seq |-> uint32(seq), ack_seq |-> uint32(ack), data |-> data]

Handshake(c) ==
  {Packet(c, "client", {"SYN"}, c.isn["client"], 0, <<>>),
   Packet(c, "server", {"SYN", "ACK"}, c.isn["server"], c.isn["client"] + 1, <<>>)}

\* Data, alone or with the FIN that follows the last byte; a FIN of its own
\* is the one with no data.
Segment(c, d, flags, first, n) ==
  Packet(c, d, flags, c.isn[d] + 1 + first, c.isn[Other(d)] + 1, BytesOf(c, d, first, n))

Segments(c, d) ==
  (UNION {{Segment(c, d, {"ACK"}, first, n) : n \in 1 .. (c.len - first)} : first \in 0 .. c.len})
    \cup {Segment(c, d, {"ACK", "FIN"}, first, c.len - first) : first \in 0 .. c.len}

Resets(c, d) == {Packet(c, d, {"RST"}, c.isn[d] + 1, 0, <<>>)}

Packets(c) == Handshake(c) \cup UNION {Segments(c, d) \cup Resets(c, d) : d \in Directions}

-----------------------------------------------------------------------------
(***************************************************************************)
(* TCPCapStream.  A stream is a record                                     *)
(*   info           the client's and the server's endpoint                 *)
(*   identifier                                                            *)
(*   half           per direction: sequence number, payload, fragments     *)
(*   syn_ack_sent, fin_sent                                                *)
(***************************************************************************)

NewStream(pkt, identifier) ==
  [info         |-> <<pkt.src, pkt.dst>>,
   identifier   |-> identifier,
   half         |-> [client |-> NewHalf(pkt.seq), server |-> NewHalf(0)],
   syn_ack_sent |-> FALSE,
   fin_sent     |-> FALSE]

Dir(st, pkt) == IF pkt.src = st.info[1] THEN "client" ELSE "server"

\* One pass of the loop of generic_process, and the loop.  Each pass erases
\* a fragment and at most one in two adds one.
Pass(h) == IF ~looping(h) THEN h
           ELSE IF cuts(h) THEN cut(h)
           ELSE IF discards(h) THEN discard(h)
           ELSE append(h)

Loop(h) ==
  LET passes == 2 * Cardinality(DOMAIN h.frags) + 1
      after[k \in 0 .. passes] == IF k = 0 THEN h ELSE Pass(after[k - 1])
  IN  after[CHOOSE k \in 0 .. passes : ~looping(after[k])]

generic_process(h, pkt) ==
  IF pkt.data = <<>> THEN h ELSE Loop(store(h, pkt.seq, pkt.data))

\* update returns the added_some of the packet's direction.
update(st, pkt) ==
  LET d == Dir(st, pkt)
  IN  IF st.syn_ack_sent
      THEN [st EXCEPT !.half[d] = generic_process(@, pkt),
                      !.fin_sent = @ \/ pkt.flags \cap {"FIN", "RST"} # {}]
      ELSE IF pkt.flags = {"SYN", "ACK"}
      THEN [st EXCEPT !.half["server"].my_seq = uint32(pkt.seq + 1),
                      !.half["client"].my_seq = pkt.ack_seq,
                      !.syn_ack_sent = TRUE]
      ELSE st

\* generic_process would cut the packet's data by more than its size.
Dies(st, pkt) == /\ st.syn_ack_sent
                 /\ pkt.data # <<>>
                 /\ overruns(st.half[Dir(st, pkt)], pkt.seq, pkt.data)

-----------------------------------------------------------------------------
(* TCPCapStreamFollower::callback                                           *)

\* Mutants: only one of the two keys is tried.
find_same_way(pkt) == {<<pkt.src, pkt.dst>>} \cap DOMAIN sessions
find_other_way(pkt) == {<<pkt.dst, pkt.src>>} \cap DOMAIN sessions

\* The session of a packet: its own key first, then the swapped one.
find(pkt) ==
  LET info == <<pkt.src, pkt.dst>>
  IN  IF info \in DOMAIN sessions THEN {info}
      ELSE {<<pkt.dst, pkt.src>>} \cap DOMAIN sessions

FollowerInit ==
  /\ sessions = [info \in {} |-> <<>>]
  /\ last_identifier = 0
  /\ alive = TRUE
  /\ wire = {} /\ gone = {}
  /\ streams = <<>> /\ out = <<>> /\ ended = {} /\ fins = {}

\* A connection starts; its endpoints have given up any earlier one.
Connect(c) ==
  /\ c \notin wire \cup gone
  /\ LET old == {d \in wire : {d.client, d.server} = {c.client, c.server}}
     IN  /\ wire' = (wire \ old) \cup {c}
         /\ gone' = gone \cup old
  /\ UNCHANGED <<sessions, last_identifier, alive, streams, out, ended, fins>>

\* No session and a SYN without ACK: a session is inserted, under the swapped
\* key.
OpenStream(c, pkt) ==
  /\ alive
  /\ find(pkt) = {}
  /\ "SYN" \in pkt.flags /\ "ACK" \notin pkt.flags
  /\ last_identifier < MaxStreams
  /\ LET info == <<pkt.dst, pkt.src>>
         st   == NewStream(pkt, last_identifier)
     IN  sessions' = [i \in DOMAIN sessions \cup {info} |->
                        IF i = info THEN st ELSE sessions[i]]
  /\ last_identifier' = last_identifier + 1
  /\ streams' = Append(streams, c)
  /\ out' = Append(out, [d \in Directions |-> <<>>])
  /\ UNCHANGED <<alive, wire, gone, ended, fins>>

\* The session exists: update, data_fun and cap, end_fun and erase.
UpdateStream(pkt) ==
  /\ alive
  /\ \E info \in find(pkt) :
       LET st  == update(sessions[info], pkt)
           d   == Dir(st, pkt)
           h   == st.half[d]
           new == [IF h.added_some THEN cap(h) ELSE h
                     EXCEPT !.it = END, !.added_some = FALSE]
       IN  /\ ~Dies(sessions[info], pkt)
           /\ sessions' = IF st.fin_sent
                          THEN Restrict(sessions, DOMAIN sessions \ {info})
                          ELSE [sessions EXCEPT ![info] = [st EXCEPT !.half[d] = new]]
           /\ out' = IF h.added_some
                     THEN [out EXCEPT ![st.identifier + 1] =
                             [e \in Directions |-> @[e] \o st.half[e].pload]]
                     ELSE out
           /\ ended' = IF st.fin_sent THEN ended \cup {st.identifier + 1} ELSE ended
           /\ fins' = IF "FIN" \in pkt.flags THEN fins \cup {st.identifier + 1} ELSE fins
  /\ UNCHANGED <<last_identifier, alive, wire, gone, streams>>

Die(pkt) ==
  /\ alive
  /\ \E info \in find(pkt) : Dies(sessions[info], pkt)
  /\ alive' = FALSE
  /\ UNCHANGED <<sessions, last_identifier, wire, gone, streams, out, ended, fins>>

FollowerNext ==
  \/ \E c \in Connections : Connect(c)
  \/ \E c \in wire : \E pkt \in Packets(c) :
        OpenStream(c, pkt) \/ UpdateStream(pkt) \/ Die(pkt)

FollowerSpec == FollowerInit /\ [][FollowerNext]_follower_vars

-----------------------------------------------------------------------------
Endpoints == UNION {{c.client, c.server} : c \in Connections}

\* Two endpoints have one session at most, whichever of them is seen sending
\* first and however their roles change from one connection to the next: the
\* callback looks a packet up both ways before it inserts.
OneSessionPerPair ==
  \A a, b \in Endpoints : ~({<<a, b>>, <<b, a>>} \subseteq DOMAIN sessions)

\* The sessions in the map are exactly the streams that have been opened and
\* not ended, each once: identifiers are never shared, end_fun is called for
\* a session that goes and for no other, and data_fun, which is called with a
\* session of the map, never comes after end_fun.
SessionsAreOpenStreams ==
  /\ {sessions[i].identifier + 1 : i \in DOMAIN sessions} = (1 .. last_identifier) \ ended
  /\ \A i, j \in DOMAIN sessions :
       sessions[i].identifier = sessions[j].identifier => i = j

\* The open streams whose endpoints have connected anew since.
Stale == {k \in (DOMAIN streams) \ ended : streams[k] \notin wire}

\* A step that can be seen in the stream at position k alone.
OnlyConcerns(k) == /\ UNCHANGED streams
                   /\ out' = [out EXCEPT ![k] = out'[k]]
                   /\ ended' \in {ended, ended \cup {k}}

\* The follower keeps what FollowedStreams promises of every stream, until the
\* endpoints of that stream connect anew; what such a stream is given from
\* then on never shows in another stream, even one of the same endpoint.
Follows == Followed!Init
           /\ [][Followed!Next \/ \E k \in Stale : OnlyConcerns(k)]_<<streams, out, ended>>

-----------------------------------------------------------------------------
\* tcpcap_stream.hpp 104 and 126: a payload is what "the connection's client"
\* (server) "has sent so far": no stream gets bytes of two connections.
OneConnectionPerStream ==
  \A k \in DOMAIN out : \A d \in Directions :
    \A i \in DOMAIN out[k][d] : out[k][d][i][1] = streams[k]

\* tcpcap_stream.hpp 164-165: "A stream is considered to be finished, if at
\* least one of the peers sends a TCP segment containing the FIN bit on."
FinFinishes == fins \subseteq ended
=============================================================================
