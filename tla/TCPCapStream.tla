---------------------------- MODULE TCPCapStream ----------------------------
(***************************************************************************)
(* One direction of a TCPCapStream: the fragments received out of order,   *)
(* the payload put together so far, and TCPCapStream::generic_process,     *)
(* which moves bytes from the first to the second (tcpcap_stream.cpp).     *)
(*                                                                         *)
(* A payload is a sequence of bytes; what a byte is, is up to the module   *)
(* that uses this one.  The state of a direction, together with the locals *)
(* of generic_process, is a record                                         *)
(*   my_seq      client_seq or server_seq: the next expected number        *)
(*   pload       client_payload_ or server_payload_                        *)
(*   frags       client_frags or server_frags, a map of payloads           *)
(*   it          the loop's iterator: a key of frags, or END               *)
(*   added_some  what generic_process will return                          *)
(***************************************************************************)
EXTENDS SeqNumbers, Sequences, FiniteSetsExt, Functions

\* frags.end()
END == -1

NoFragments == [s \in {} |-> <<>>]

\* A direction whose next expected sequence number is seq.
NewHalf(seq) == [my_seq |-> seq, pload |-> <<>>, frags |-> NoFragments,
                 it |-> END, added_some |-> FALSE]

\* payload.erase(payload.begin(), payload.begin() + n)
slice(payload, n) == SubSeq(payload, n + 1, Len(payload))

\* The largest payload stays when two start at the same number.
safe_insert(frags, seq, raw) ==
  IF seq \in DOMAIN frags /\ Len(frags[seq]) > Len(raw)
  THEN frags
  ELSE [s \in DOMAIN frags \cup {seq} |-> IF s = seq THEN raw ELSE frags[s]]

erase(frags, seq) == Restrict(frags, DOMAIN frags \ {seq})

\* Mutant: the iterator stops at the end of the map.
next_without_wrap(it, frags) ==
  LET above == {s \in DOMAIN frags : s > it}
  IN  IF above # {} THEN Min(above) ELSE END

\* Where the iterator stands once frags[it] is erased: the next key, or the
\* first one past the end, or the end of an empty map.
erase_iterator(it, frags) ==
  LET rest  == DOMAIN frags \ {it}
      above == {s \in rest : s > it}
  IN  IF above # {} THEN Min(above) ELSE IF rest # {} THEN Min(rest) ELSE END

-----------------------------------------------------------------------------
(***************************************************************************)
(* generic_process up to its loop: a chunk that ends at or after my_seq is *)
(* cut to start no earlier than my_seq and stored; any other is dropped.   *)
(***************************************************************************)

\* Mutant: no chunk is refused for being entirely old.
accepts_old(h, seq, raw) == TRUE

accepts(h, seq, raw) ==
  compare_seq_numbers(add_sequence_numbers(seq, Len(raw)), h.my_seq) >= 0

starts_before(h, seq) == compare_seq_numbers(seq, h.my_seq) < 0

\* The cut asks for more bytes than the chunk has: vector::erase is called
\* past the end, and the process dies in memmove or in the insert that
\* follows.
overruns(h, seq, raw) ==
  /\ accepts(h, seq, raw)
  /\ starts_before(h, seq)
  /\ subtract_sequence_numbers(h.my_seq, seq) > Len(raw)

\* Mutant: a chunk that starts before my_seq is stored there uncut.
store_uncut(h, seq, raw) ==
  LET frags == safe_insert(h.frags, IF starts_before(h, seq) THEN h.my_seq ELSE seq, raw)
  IN  IF accepts(h, seq, raw)
      THEN [h EXCEPT !.frags = frags, !.added_some = FALSE,
                     !.it = IF h.my_seq \in DOMAIN frags THEN h.my_seq ELSE END]
      ELSE [h EXCEPT !.it = END, !.added_some = FALSE]

store(h, seq, raw) ==
  LET frags == IF starts_before(h, seq)
               THEN safe_insert(h.frags, h.my_seq,
                                slice(raw, subtract_sequence_numbers(h.my_seq, seq)))
               ELSE safe_insert(h.frags, seq, raw)
  IN  IF accepts(h, seq, raw)
      THEN [h EXCEPT !.frags = frags, !.added_some = FALSE,
                     !.it = IF h.my_seq \in DOMAIN frags THEN h.my_seq ELSE END]
      ELSE [h EXCEPT !.it = END, !.added_some = FALSE]

-----------------------------------------------------------------------------
(***************************************************************************)
(* The loop of generic_process, one operator per branch.  looping(h) is    *)
(* its condition; `break' on an empty map is the iterator being END.       *)
(***************************************************************************)
looping(h) == h.it # END /\ compare_seq_numbers(h.it, h.my_seq) <= 0

fragment_end(h) == add_sequence_numbers(h.it, Len(h.frags[h.it]))

\* The fragment starts before my_seq and ends after it: its tail moves to my_seq.
cuts(h) == /\ compare_seq_numbers(h.it, h.my_seq) < 0
           /\ compare_seq_numbers(fragment_end(h), h.my_seq) > 0

cut(h) ==
  LET tail  == slice(h.frags[h.it], subtract_sequence_numbers(h.my_seq, h.it))
      frags == safe_insert(h.frags, h.my_seq, tail)
  IN  [h EXCEPT !.frags = erase(frags, h.it), !.it = erase_iterator(h.it, frags)]

\* The fragment starts before my_seq and brings nothing new.
discards(h) == /\ compare_seq_numbers(h.it, h.my_seq) < 0
               /\ compare_seq_numbers(fragment_end(h), h.my_seq) <= 0

discard(h) == [h EXCEPT !.frags = erase(h.frags, h.it), !.it = erase_iterator(h.it, h.frags)]

\* The fragment starts at my_seq: its bytes are appended to the payload.
append(h) ==
  [h EXCEPT !.pload      = h.pload \o h.frags[h.it],
            !.my_seq     = uint32(h.my_seq + Len(h.frags[h.it])),
            !.frags      = erase(h.frags, h.it),
            !.it         = erase_iterator(h.it, h.frags),
            !.added_some = TRUE]

-----------------------------------------------------------------------------
\* Mutant: the fragments are freed and the payload is kept.
cap_fragments_only(h) == [h EXCEPT !.frags = NoFragments, !.it = END]

\* TCPCapStream::cap on the direction the packet belongs to: every fragment
\* is freed, and the payload is emptied.
cap(h) == [h EXCEPT !.frags = NoFragments, !.pload = <<>>, !.it = END]
=============================================================================
