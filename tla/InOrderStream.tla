--------------------------- MODULE InOrderStream ----------------------------
(***************************************************************************)
(* What a stream follower promises for one direction of a connection: the  *)
(* bytes it hands to its user are the bytes the peer sent, in order, each  *)
(* once and none skipped.  The byte at offset i of the stream is the       *)
(* number i.  How much is handed over at a time is left open.              *)
(***************************************************************************)
EXTENDS Integers, Sequences

CONSTANT StreamLen    \* how many bytes the peer sends
VARIABLE out          \* the bytes handed over so far

\* The n bytes of the stream that start at offset first.
Bytes(first, n) == [i \in 1 .. n |-> first + i - 1]

Init == out = <<>>

HandOver == \E n \in 1 .. (StreamLen - Len(out)) : out' = out \o Bytes(Len(out), n)

Spec == Init /\ [][HandOver]_out
=============================================================================
