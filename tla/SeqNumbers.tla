----------------------------- MODULE SeqNumbers -----------------------------
(***************************************************************************)
(* TCP sequence numbers and the three operations tcpcap_stream.cpp does on *)
(* them (lines 37-68).  The code fixes SERIAL_BITS = 32; here the width is *)
(* a parameter, given by seq_number_diff = 2 ^ (SERIAL_BITS - 1), so that  *)
(* a small instance wraps around as the real one does.                     *)
(***************************************************************************)
EXTENDS Integers

CONSTANT seq_number_diff

ASSUME WidthAssumption == seq_number_diff \in Nat /\ seq_number_diff >= 2

\* The number of values of a uint32_t, and the reduction of its arithmetic.
SEQ_SPACE == 2 * seq_number_diff
SeqNumber == 0 .. (SEQ_SPACE - 1)

uint32(n) == n % SEQ_SPACE

\* std::numeric_limits<uint32_t>::max(), which is SEQ_SPACE - 1: the comment
\* of line 40 announces SEQ_SPACE itself.
addition_modulo == SEQ_SPACE - 1

add_sequence_numbers(seq1, seq2) == (seq1 + seq2) % addition_modulo

subtract_sequence_numbers(seq1, seq2) ==
  IF seq1 > seq2
  THEN seq1 - seq2
  ELSE uint32(((SEQ_SPACE - 1) - seq2) + seq1 + 1)

\* -1, 0 or 1; two numbers exactly seq_number_diff apart compare as 1 both ways.
compare_seq_numbers(seq1, seq2) ==
  IF seq1 = seq2 THEN 0
  ELSE IF seq1 < seq2
       THEN IF seq2 - seq1 < seq_number_diff THEN -1 ELSE 1
       ELSE IF seq1 - seq2 > seq_number_diff THEN -1 ELSE 1
=============================================================================
