----------------------------- MODULE Reassembly -----------------------------
(***************************************************************************)
(* One direction of a followed connection.  A peer sends StreamLen bytes,  *)
(* the first at sequence number ISN; the sniffer captures segments of them *)
(* in any order, any of them several times or never, cut in any way.  Each *)
(* captured segment goes through TCPCapStream::generic_process and, when   *)
(* that returns true, through data_fun and cap (the call in                *)
(* TCPCapStreamFollower::callback).  One action is one pass of the loop of *)
(* generic_process, so that what the loop maintains can be stated.         *)
(***************************************************************************)
EXTENDS TCPCapStream

CONSTANTS ISN,          \* the number of the first byte
          StreamLen,    \* how many bytes the peer sends
          MaxSegment    \* the most bytes in a segment

ASSUME StreamAssumption == /\ ISN \in SeqNumber
                           /\ StreamLen \in Nat
                           /\ MaxSegment \in Nat

VARIABLES h,           \* the direction's state and the locals of generic_process
          pc,          \* "idle", "loop" or "crashed"
          delivered,   \* history: all bytes passed to data_fun so far
          held,        \* history: offsets captured since the last cap
          captured     \* history: offsets captured since the beginning

vars == <<h, pc, delivered, held, captured>>

Abstract == INSTANCE InOrderStream WITH out <- delivered

Bytes(first, n) == Abstract!Bytes(first, n)

\* The offset of the next byte expected.
Cur == Len(delivered) + Len(h.pload)

\* A TCP window is far smaller than half the sequence space: what is captured
\* is less than seq_number_diff away from what is expected.
InWindow(first, n) == /\ Cur - first < seq_number_diff
                      /\ (first + n) - Cur < seq_number_diff

-----------------------------------------------------------------------------
Init ==
  /\ h = NewHalf(ISN)
  /\ pc = "idle"
  /\ delivered = <<>>
  /\ held = {}
  /\ captured = {}

\* generic_process is entered with a segment that carries data.
Capture(first, n) ==
  /\ pc = "idle"
  /\ first + n <= StreamLen
  /\ InWindow(first, n)
  /\ captured' = captured \cup (first .. first + n - 1)
  /\ LET seq == uint32(ISN + first)
         raw == Bytes(first, n)
     IN  IF overruns(h, seq, raw)
         THEN /\ pc' = "crashed"
              /\ UNCHANGED <<h, delivered, held>>
         ELSE /\ h' = store(h, seq, raw)
              /\ pc' = "loop"
              /\ held' = held \cup (first .. first + n - 1)
              /\ UNCHANGED delivered

\* The three branches of the loop.
Cut     == /\ pc = "loop" /\ looping(h) /\ cuts(h)
           /\ h' = cut(h)
           /\ UNCHANGED <<pc, delivered, held, captured>>

\* Mutant: the useless fragment is neither erased nor stepped over.
DiscardNothing == /\ pc = "loop" /\ looping(h) /\ discards(h)
                  /\ UNCHANGED vars

Discard == /\ pc = "loop" /\ looping(h) /\ discards(h)
           /\ h' = discard(h)
           /\ UNCHANGED <<pc, delivered, held, captured>>

Append1 == /\ pc = "loop" /\ looping(h) /\ h.it = h.my_seq
           /\ h' = append(h)
           /\ UNCHANGED <<pc, delivered, held, captured>>

\* generic_process returns true: data_fun sees the payload, then cap.
ReturnTrue ==
  /\ pc = "loop" /\ ~looping(h) /\ h.added_some
  /\ delivered' = delivered \o h.pload
  /\ h' = [cap(h) EXCEPT !.added_some = FALSE]
  /\ held' = {}
  /\ pc' = "idle"
  /\ UNCHANGED captured

\* generic_process returns false: nothing else happens.
ReturnFalse ==
  /\ pc = "loop" /\ ~looping(h) /\ ~h.added_some
  /\ h' = [h EXCEPT !.it = END]
  /\ pc' = "idle"
  /\ UNCHANGED <<delivered, held, captured>>

Process == Cut \/ Discard \/ Append1 \/ ReturnTrue \/ ReturnFalse

Next == \/ \E first \in 0 .. StreamLen, n \in 1 .. MaxSegment : Capture(first, n)
        \/ Process

Spec == Init /\ [][Next]_vars

\* The sniffing thread keeps running while it is inside the callback; nothing
\* obliges the network to deliver another segment.
FairSpec == Spec /\ WF_vars(Process)

-----------------------------------------------------------------------------
Payload == Seq(Nat)

TypeOK ==
  /\ h = [my_seq |-> h.my_seq, pload |-> h.pload, frags |-> h.frags,
          it |-> h.it, added_some |-> h.added_some]
  /\ h.my_seq \in SeqNumber
  /\ h.pload \in Payload
  /\ DOMAIN h.frags \subseteq SeqNumber
  /\ \A s \in DOMAIN h.frags : h.frags[s] \in Payload
  /\ h.it \in DOMAIN h.frags \cup {END}
  /\ h.added_some \in BOOLEAN
  /\ pc \in {"idle", "loop", "crashed"}
  /\ delivered \in Payload
  /\ held \subseteq Nat
  /\ captured \subseteq Nat

\* The bytes handed to data_fun, and the payload being put together, are a
\* prefix of what the peer sent: no byte lost, repeated or out of order,
\* whatever order the segments were captured in and however they overlap
\* (the slicing and the comparisons of generic_process).
InOrder == delivered \o h.pload = Bytes(0, Cur)

\* When the loop of generic_process has ended, the byte it waits for is not
\* among the bytes captured since the last cap: the loop, its iterator that
\* goes on at the first key past the last, and safe_insert never leave behind
\* a byte that was due.
NothingDueIsHeld == (pc # "loop" \/ ~looping(h)) => Cur \notin held

\* generic_process cuts a chunk by more than its size only if a captured chunk
\* reached one of the two highest numbers of the sequence space, where the
\* modulus of add_sequence_numbers is one short: anywhere else, old and
\* overlapping chunks are cut to what they bring.
CrashesOnlyAtTheTop ==
  pc = "crashed" => \E o \in captured : uint32(ISN + o) >= SEQ_SPACE - 2

\* The loop of generic_process ends: its iterator, which restarts at the
\* first key whenever it passes the last, does not go round for ever.
HandlerReturns == (pc = "loop") ~> (pc = "idle")

\* What InOrderStream promises of the calls of data_fun.
Promise == Abstract!Spec

-----------------------------------------------------------------------------
(***************************************************************************)
(* The inductive invariant behind InOrder.  Offsets are absolute.  A       *)
(* payload p stored under key s is placed at offset a when it is the run   *)
(* of the stream that starts there and s is the number of a; it starts no  *)
(* earlier than base, and ends less than half the sequence space after.    *)
(***************************************************************************)
Base == Len(delivered)

PlacedAt(s, p, a, base) ==
  /\ p \in Payload
  /\ s = uint32(ISN + a)
  /\ base <= a
  /\ (a + Len(p)) - base < seq_number_diff
  /\ a + Len(p) <= StreamLen
  /\ p = Bytes(a, Len(p))

Placed(frags, base) ==
  \A s \in DOMAIN frags : \E a \in 0 .. StreamLen : PlacedAt(s, frags[s], a, base)

\* Every fragment holds the bytes its key announces.
FragmentsPlaced == Placed(h.frags, Base)

\* my_seq is the number of the next byte, and what was appended is in order.
PayloadPlaced ==
  /\ h.my_seq = uint32(ISN + Cur)
  /\ Len(h.pload) < seq_number_diff
  /\ Cur <= StreamLen
  /\ delivered = Bytes(0, Base)
  /\ h.pload = Bytes(Base, Len(h.pload))

\* Outside the loop, and until a fragment is appended, the payload is empty.
PayloadFresh == (pc # "loop" \/ ~h.added_some) => h.pload = <<>>

IInv == TypeOK /\ FragmentsPlaced /\ PayloadPlaced /\ PayloadFresh

(***************************************************************************)
(* What NothingDueIsHeld rests on, besides.                                *)
(***************************************************************************)
\* Byte o lies in a fragment.
Covered(frags, base, o) ==
  \E s \in DOMAIN frags, a \in 0 .. StreamLen :
    PlacedAt(s, frags[s], a, base) /\ a <= o /\ o < a + Len(frags[s])

\* No fragment starts before offset c.
StartFrom(frags, base, c) ==
  \A s \in DOMAIN frags, a \in 0 .. StreamLen : PlacedAt(s, frags[s], a, base) => c <= a

\* A captured byte is not lost: it has its place before the byte expected, or a
\* fragment holds it.
HeldAccounted == \A o \in held : o < Cur \/ Covered(h.frags, Base, o)

\* The loop meets the fragments in the order of the stream: none starts before
\* the one at the iterator, and outside of the loop, or when the iterator is
\* the end, none starts at the byte expected or before.
IteratorLeads ==
  IF pc = "loop" /\ h.it # END
  THEN \E a \in 0 .. StreamLen :
         PlacedAt(h.it, h.frags[h.it], a, Base) /\ StartFrom(h.frags, Base, a)
  ELSE StartFrom(h.frags, Base, Cur + 1)

DInv == IInv /\ HeldAccounted /\ IteratorLeads

-----------------------------------------------------------------------------
\* tcpcap_stream.cpp 43: "Sequence number add as defined by RFC 1982": the end
\* of a chunk is where it ends, so none is cut by more than its size.
NeverCrashes == pc # "crashed"

\* tcpcap_stream.hpp 224-225: data_fun "will be called whenever one of the
\* peers in a connection sends data": the byte that is due has not been
\* captured yet.
CapturedIsDelivered == pc = "idle" => Cur \notin captured
=============================================================================
