----------------------------- MODULE MillServer -----------------------------
(***************************************************************************)
(* libmill/test.c: the accepting loop of main, one coroutine dialogue per  *)
(* connection, and the coroutine statistics, which takes their reports     *)
(* from a channel that holds nothing.  Coroutines run one at a time, from  *)
(* one call that may suspend them to the next; errno belongs to them all.  *)
(* While tcpaccept fails it suspends nobody, and main goes round its loop  *)
(* alone.                                                                  *)
(***************************************************************************)
EXTENDS Naturals, Sequences, FiniteSets

CONSTANT Connections     \* the connections that arrive

VARIABLES
    pc,         \* where each dialogue is: the call it is suspended in
    errno,      \* 0 or not
    ch,         \* the dialogues suspended in chs, in order, with what they send
    connections, active, failed,   \* the variables of statistics
    listening,  \* statistics is in chr
    spins,      \* main has not been suspended since tcpaccept failed
    lost        \* history: the dialogues one of whose calls has failed

vars == <<pc, errno, ch, connections, active, failed, listening, spins, lost>>

CONN_ESTABLISHED == 1
CONN_SUCCEEDED == 2
CONN_FAILED == 3

\* The calls of dialogue, in order.
Calls == <<"tcpsend", "tcpflush", "tcprecvuntil", "tcpsend_2", "tcpflush_2">>

CallAfter(call) == Calls[1 + CHOOSE k \in 1 .. Len(Calls) - 1 : Calls[k] = call]

Init ==
    /\ pc = [c \in Connections |-> "away"]
    /\ errno \in {0, 1}
    /\ ch = <<>>
    /\ connections = 0 /\ active = 0 /\ failed = 0 /\ listening = TRUE /\ spins = FALSE
    /\ lost = {}

\* main: tcpaccept returns a connection, and go suspends main: the new dialogue
\* runs up to its first chs.
Accept(c) ==
    /\ pc[c] = "away"
    /\ errno' = 0 /\ spins' = FALSE
    /\ pc' = [pc EXCEPT ![c] = "established"]
    /\ ch' = Append(ch, [from |-> c, op |-> CONN_ESTABLISHED])
    /\ UNCHANGED <<connections, active, failed, listening, lost>>

\* It fails, and main calls it again.
AcceptFails ==
    /\ errno' = 1 /\ spins' = TRUE
    /\ UNCHANGED <<pc, ch, connections, active, failed, listening, lost>>

\* It finds no connection, and waits for one.
AcceptWaits ==
    /\ spins
    /\ errno' = 1 /\ spins' = FALSE
    /\ UNCHANGED <<pc, ch, connections, active, failed, listening, lost>>

\* Mutant: errno is kept from before the call.
errno_before(err) == errno
\* What dialogue finds in errno when a call has returned, nothing having run
\* in between.
errno_after(err) == err

\* A call of dialogue returns, in time or when its deadline has passed; at the
\* label cleanup errno chooses the report.
Returns(c, err) ==
    /\ ~spins
    /\ pc[c] \in {Calls[k] : k \in 1 .. Len(Calls)}
    /\ errno' = errno_after(err)
    /\ lost' = IF err # 0 THEN lost \cup {c} ELSE lost
    /\ IF errno' # 0 \/ pc[c] = Calls[Len(Calls)]
       THEN /\ pc' = [pc EXCEPT ![c] = "cleanup"]
            /\ ch' = Append(ch, [from |-> c,
                                 op   |-> IF errno' = 0 THEN CONN_SUCCEEDED ELSE CONN_FAILED])
       ELSE pc' = [pc EXCEPT ![c] = CallAfter(pc[c])] /\ UNCHANGED ch
    /\ UNCHANGED <<connections, active, failed, listening, spins>>

ends(op) == op # CONN_ESTABLISHED

\* Mutant: statistics ends with the first failure.
goes_on_if_ok(op) == op # CONN_FAILED
goes_on(op) == TRUE

\* statistics receives from the dialogue that has waited longest, which goes
\* on to its first call or closes its connection.
chr ==
    /\ ~spins /\ listening /\ ch # <<>>
    /\ LET c == Head(ch).from
           op == Head(ch).op
       IN  /\ connections' = IF op = CONN_ESTABLISHED THEN connections + 1 ELSE connections
           /\ active' = IF op = CONN_ESTABLISHED THEN active + 1
                        ELSE IF ends(op) THEN active - 1 ELSE active
           /\ failed' = IF op = CONN_FAILED THEN failed + 1 ELSE failed
           /\ listening' = goes_on(op)
           /\ pc' = [pc EXCEPT ![c] = IF op = CONN_ESTABLISHED THEN Calls[1] ELSE "closed"]
    /\ ch' = Tail(ch)
    /\ UNCHANGED <<errno, spins, lost>>

Run(c) == \E err \in {0, 1} : Returns(c, err)

Next == AcceptFails \/ AcceptWaits \/ chr \/ \E c \in Connections : Accept(c) \/ Run(c)

\* Whenever main is suspended the scheduler resumes the coroutines that can go
\* on, in the order in which they became ready, and the deadline of ten seconds
\* ends every call.
Fairness == SF_vars(chr) /\ \A c \in Connections : SF_vars(Run(c))

Spec == Init /\ [][Next]_vars /\ Fairness

-----------------------------------------------------------------------------
\* The numbers that are printed agree with what the dialogues have been
\* through, whatever order they report in: a connection is active from its
\* first report to its last one, and none is counted twice or below zero.
StatisticsAddUp ==
    LET counted == {c \in Connections : pc[c] \notin {"away", "established"}}
        closed  == {c \in Connections : pc[c] = "closed"}
    IN  /\ connections = Cardinality(counted)
        /\ active = Cardinality(counted \ closed)
        /\ failed = Cardinality(closed \cap lost)

\* Every connection that is accepted is closed, unless tcpaccept fails without
\* end: none waits for ever for the channel, whatever becomes of the others and
\* however often main goes round its loop in between.
DialoguesEnd ==
    \A c \in Connections : (pc[c] = "established") ~> (pc[c] = "closed" \/ []spins)
=============================================================================
