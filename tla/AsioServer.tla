----------------------------- MODULE AsioServer -----------------------------
(***************************************************************************)
(* asio-minimal/server.cpp: one thread runs io_service, which carries two  *)
(* chains of asynchronous operations: tcp_server accepts, starts a write   *)
(* and accepts again; udp_server receives, starts a send and receives      *)
(* again.  An operation completes at any time; its handler runs later.     *)
(***************************************************************************)
EXTENDS Naturals, FiniteSets

CONSTANTS Clients,     \* the clients of the TCP server
          Senders,     \* those of the UDP server
          MaxPackets   \* bound: datagrams a sender sends

VARIABLES
    accept,           \* "started", "error", "none", or the client of a completion
    tcp,              \* each client: "away", "waiting", "writing" or "served"
    receive,          \* "started", "ready", "error" or "none"
    from,             \* history: who sent what was received last
    remote_endpoint_,
    sends,            \* the sends under way: whom they answer and where they go
    sent, answered,   \* datagrams sent by, and sends completed for, each sender
    up,               \* io_service.run has not returned
    errors            \* history: the operations that have failed

vars == <<accept, tcp, receive, from, remote_endpoint_, sends, sent, answered, up, errors>>
udp  == <<receive, from, remote_endpoint_, sends, sent, answered>>

Nobody == "nobody"

Init ==
    /\ accept = "started" /\ tcp = [c \in Clients |-> "away"]
    /\ receive = "started" /\ from = Nobody /\ remote_endpoint_ = Nobody
    /\ sends = {} /\ sent = [s \in Senders |-> 0] /\ answered = [s \in Senders |-> 0]
    /\ up = TRUE /\ errors = {}

Connect(c) == /\ tcp[c] = "away"
              /\ tcp' = [tcp EXCEPT ![c] = "waiting"]
              /\ UNCHANGED <<accept, udp, up, errors>>

\* async_accept takes a client that waits, or fails.
Accepts(c) == /\ accept = "started" /\ tcp[c] = "waiting"
              /\ accept' = c
              /\ UNCHANGED <<tcp, udp, up, errors>>

AcceptFails == /\ accept = "started"
               /\ accept' = "error" /\ errors' = errors \cup {"accept"}
               /\ UNCHANGED <<tcp, udp, up>>

\* Mutant: only the first client is accepted.
accept_once == "none"
start_accept == "started"

handle_accept ==
    \/ /\ accept \in Clients
       /\ tcp' = [tcp EXCEPT ![accept] = "writing"]
       /\ accept' = start_accept
       /\ UNCHANGED <<udp, up, errors>>
    \/ /\ accept = "error"
       /\ accept' = "none"
       /\ UNCHANGED <<tcp, udp, up, errors>>

\* async_write completes, with or without an error; the connection goes with
\* the last pointer to it.
handle_write(c) == /\ tcp[c] = "writing"
                   /\ tcp' = [tcp EXCEPT ![c] = "served"]
                   /\ UNCHANGED <<accept, udp, up, errors>>

\* async_receive_from takes a datagram, whole or cut to the buffer of one
\* byte, and writes its sender to remote_endpoint_; or it fails.
Receives(s) == /\ receive = "started" /\ sent[s] < MaxPackets
               /\ sent' = [sent EXCEPT ![s] = @ + 1]
               /\ receive' = "ready" /\ from' = s /\ remote_endpoint_' = s
               /\ UNCHANGED <<accept, tcp, sends, answered, up, errors>>

ReceiveFails == /\ receive = "started"
                /\ receive' = "error" /\ errors' = errors \cup {"receive"}
                /\ UNCHANGED <<accept, tcp, from, remote_endpoint_, sends, sent, answered, up>>

\* What async_send_to may find in remote_endpoint_.
destinations == {remote_endpoint_}

\* async_send_to copies its destination; the next receive is started then.
handle_receive ==
    \/ /\ receive = "ready"
       /\ \E to \in destinations :
             sends' = sends \cup {[for |-> from, number |-> sent[from], to |-> to]}
       /\ receive' = "started"
       /\ UNCHANGED <<accept, tcp, from, remote_endpoint_, sent, answered, up, errors>>
    \/ /\ receive = "error"
       /\ receive' = "none"
       /\ UNCHANGED <<accept, tcp, from, remote_endpoint_, sends, sent, answered, up, errors>>

handle_send == \E m \in sends :
    /\ sends' = sends \ {m}
    /\ answered' = [answered EXCEPT ![m.for] = @ + 1]
    /\ UNCHANGED <<accept, tcp, receive, from, remote_endpoint_, sent, up, errors>>

\* run returns when no operation is left.
Returns ==
    /\ up /\ accept = "none" /\ receive = "none"
    /\ sends = {} /\ \A c \in Clients : tcp[c] # "writing"
    /\ up' = FALSE
    /\ UNCHANGED <<accept, tcp, udp, errors>>

Tcp == handle_accept \/ \E c \in Clients : Accepts(c) \/ handle_write(c)
Udp == handle_receive \/ handle_send

Next == \/ Tcp \/ Udp \/ AcceptFails \/ ReceiveFails \/ Returns
        \/ \E c \in Clients : Connect(c)
        \/ \E s \in Senders : Receives(s)

\* run calls every handler that is due, and what a peer waits for completes.
Fairness == WF_vars(Tcp) /\ WF_vars(handle_receive) /\ WF_vars(handle_send) /\ WF_vars(Returns)

Spec == Init /\ [][Next]_vars /\ Fairness

-----------------------------------------------------------------------------
\* The daytime goes to the sender of the datagram it answers, though the next
\* receive overwrites remote_endpoint_ while the send is under way.
AnswersItsSender == \A m \in sends : m.to = m.for

\* A client that connects is served, and a datagram that is received is
\* answered, unless the chain it depends on has ended with an error; an error
\* of one chain leaves the other alone.
EveryoneServed ==
    /\ \A c \in Clients : (tcp[c] = "waiting") ~> (tcp[c] = "served" \/ "accept" \in errors)
    /\ \A s \in Senders, n \in 1 .. MaxPackets : (sent[s] = n) ~> (answered[s] >= n)
=============================================================================
