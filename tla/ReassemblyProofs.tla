-------------------------- MODULE ReassemblyProofs --------------------------
(***************************************************************************)
(* TCPCapStream::generic_process, with the cap that follows it, delivers   *)
(* a prefix of the stream: for every width of the sequence numbers, every  *)
(* initial number, every stream and every segmentation of it.  Then the    *)
(* map of sessions of TCPCapStreamFollower.                                *)
(***************************************************************************)
EXTENDS Reassembly, Follower, SequenceTheorems, WellFoundedInduction, TLAPS

\* Most steps are about sets and functions; those with arithmetic cite SMT.
USE Zenon

-----------------------------------------------------------------------------
(* Sequence numbers: what the arithmetic of tcpcap_stream.cpp computes, for *)
(* every width.  The numbers are seen as the residues uint32(a) of absolute *)
(* offsets a.                                                               *)

\* The sequence space of a uint32_t is a positive number of values.
LEMMA SpaceIsNat == SEQ_SPACE \in Nat /\ SEQ_SPACE >= 4
BY WidthAssumption, SMT DEF SEQ_SPACE

\* The value of an expression of type uint32_t is a sequence number.
LEMMA Reduced == \A n \in Int : uint32(n) \in SeqNumber
BY SpaceIsNat, SMT DEF uint32, SeqNumber

\* Euclidean division, as % is used by the unsigned arithmetic of the code.
LEMMA DivMod == ASSUME NEW m \in Nat, m > 0, NEW a \in Int
  PROVE  /\ a \div m \in Int /\ a % m \in Int
         /\ a = m * (a \div m) + (a % m) /\ 0 <= a % m /\ a % m < m
BY SMT

\* A multiple of m strictly between -2m and 2m is -m, 0 or m: a difference of
\* two sequence numbers wraps at most once.
LEMMA SmallMultiple == ASSUME NEW m \in Nat, m > 0, NEW d \in Int, m * d < 2 * m, -(2 * m) < m * d
  PROVE d \in {-1, 0, 1}
<1>1. d < 2
  <2> SUFFICES ASSUME d >= 2 PROVE FALSE
    BY SMT
  <2>1. m * (d - 2) >= 0
    BY SMT
  <2> QED
    BY <2>1, SMT
<1>2. d > -2
  <2> SUFFICES ASSUME d <= -2 PROVE FALSE
    BY SMT
  <2>1. m * (-2 - d) >= 0
    BY SMT
  <2> QED
    BY <2>1, SMT
<1> QED
  BY <1>1, <1>2, SMT

\* Offsets less than the sequence space apart have residues that differ as
\* they do, up to one turn.
LEMMA Near ==
  ASSUME NEW a \in Int, NEW c \in Int, a - c < SEQ_SPACE, c - a < SEQ_SPACE
  PROVE  \/ uint32(a) - uint32(c) = a - c
         \/ uint32(a) - uint32(c) = (a - c) + SEQ_SPACE
         \/ uint32(a) - uint32(c) = (a - c) - SEQ_SPACE
<1> DEFINE M == SEQ_SPACE
<1>0. M \in Nat /\ M > 0
  BY SpaceIsNat, SMT
<1>1. PICK p \in Int : a = M * p + uint32(a) /\ uint32(a) \in 0 .. M - 1
  BY <1>0, DivMod, SMT DEF uint32
<1>2. PICK q \in Int : c = M * q + uint32(c) /\ uint32(c) \in 0 .. M - 1
  BY <1>0, DivMod, SMT DEF uint32
<1> HIDE DEF M
<1>3. M * (p - q) = M * p - M * q /\ M * p \in Int /\ M * q \in Int
  BY <1>0, <1>1, <1>2, SMT
<1>4. M * (p - q) = (a - c) - (uint32(a) - uint32(c))
  BY <1>0, <1>1, <1>2, <1>3, SMT
<1>5. M * (p - q) < 2 * M /\ -(2 * M) < M * (p - q)
  BY <1>0, <1>1, <1>2, <1>4, SMT DEF M
<1>6. p - q \in {-1, 0, 1}
  BY <1>0, <1>1, <1>2, <1>5, SmallMultiple, SMT
<1>7. M * (p - q) \in {-M, 0, M}
  BY <1>6, <1>0, SMT
<1> QED
  BY <1>7, <1>0, <1>1, <1>2, <1>4, SMT DEF M

\* compare_seq_numbers orders the numbers as the offsets they stand for, when
\* these are less than seq_number_diff apart.
LEMMA CompareIsOrder ==
  ASSUME NEW a \in Int, NEW c \in Int,
         a - c < seq_number_diff, c - a < seq_number_diff
  PROVE  /\ compare_seq_numbers(uint32(a), uint32(c)) \in {-1, 0, 1}
         /\ compare_seq_numbers(uint32(a), uint32(c)) < 0 <=> a < c
         /\ compare_seq_numbers(uint32(a), uint32(c)) > 0 <=> a > c
         /\ compare_seq_numbers(uint32(a), uint32(c)) = 0 <=> a = c
<1>1. uint32(a) \in SeqNumber /\ uint32(c) \in SeqNumber
  BY Reduced
<1>2. \/ uint32(a) - uint32(c) = a - c
      \/ uint32(a) - uint32(c) = (a - c) + SEQ_SPACE
      \/ uint32(a) - uint32(c) = (a - c) - SEQ_SPACE
  BY Near, WidthAssumption, SMT DEF SEQ_SPACE
<1> QED
  BY <1>1, <1>2, WidthAssumption, SMT DEF compare_seq_numbers, SEQ_SPACE, SeqNumber

\* Of two numbers exactly seq_number_diff apart the first compares as the later.
LEMMA CompareAtHalf ==
  ASSUME NEW a \in Int, NEW c \in Int, a - c = seq_number_diff
  PROVE  compare_seq_numbers(uint32(a), uint32(c)) = 1
<1>1. uint32(a) \in SeqNumber /\ uint32(c) \in SeqNumber
  BY Reduced
<1>2. \/ uint32(a) - uint32(c) = a - c
      \/ uint32(a) - uint32(c) = (a - c) + SEQ_SPACE
      \/ uint32(a) - uint32(c) = (a - c) - SEQ_SPACE
  BY Near, WidthAssumption, SMT DEF SEQ_SPACE
<1> QED
  BY <1>1, <1>2, WidthAssumption, SMT DEF compare_seq_numbers, SEQ_SPACE, SeqNumber

\* subtract_sequence_numbers gives the distance of two offsets, also across the
\* top of the sequence space.
LEMMA SubtractIsDifference ==
  ASSUME NEW a \in Int, NEW c \in Int, c <= a, a - c < SEQ_SPACE
  PROVE  subtract_sequence_numbers(uint32(a), uint32(c)) = a - c
<1>0. SEQ_SPACE \in Nat /\ SEQ_SPACE >= 4
  BY SpaceIsNat
<1>1. uint32(a) \in SeqNumber /\ uint32(c) \in SeqNumber
  BY Reduced
<1>2. \/ uint32(a) - uint32(c) = a - c
      \/ uint32(a) - uint32(c) = (a - c) + SEQ_SPACE
      \/ uint32(a) - uint32(c) = (a - c) - SEQ_SPACE
  BY Near, <1>0, SMT
<1>3. CASE uint32(a) > uint32(c)
  BY <1>0, <1>1, <1>2, <1>3, SMT DEF subtract_sequence_numbers, SeqNumber
<1>4. CASE uint32(a) <= uint32(c)
  <2>1. subtract_sequence_numbers(uint32(a), uint32(c)) = uint32(SEQ_SPACE - uint32(c) + uint32(a))
    BY <1>0, <1>1, <1>4, SMT DEF subtract_sequence_numbers, SeqNumber
  <2>2. CASE uint32(a) = uint32(c)
    <3>1. uint32(SEQ_SPACE) = 0
      BY <1>0, SMT DEF uint32
    <3> QED
      BY <2>1, <2>2, <3>1, <1>0, <1>1, <1>2, SMT DEF SeqNumber
  <2>3. CASE uint32(a) < uint32(c)
    <3>1. SEQ_SPACE - uint32(c) + uint32(a) = a - c
      BY <2>3, <1>0, <1>1, <1>2, SMT DEF SeqNumber
    <3>2. uint32(a - c) = a - c
      BY <1>0, SMT DEF uint32
    <3> QED
      BY <2>1, <3>1, <3>2
  <2> QED
    BY <2>2, <2>3, <1>4, <1>1, SMT DEF SeqNumber
<1> QED
  BY <1>3, <1>4, <1>1, <1>0, SMT DEF SeqNumber

\* Turns of the sequence space do not change the residue.
LEMMA Turn ==
  ASSUME NEW b \in Int, NEW k \in Int
  PROVE  uint32(b + SEQ_SPACE * k) = uint32(b)
<1> DEFINE M == SEQ_SPACE
           x == uint32(b + M * k)
           y == uint32(b)
<1>0. M \in Nat /\ M > 0
  BY SpaceIsNat, SMT
<1>1. M * k \in Int
  BY <1>0, SMT
<1>2. PICK p \in Int : b + M * k = M * p + x /\ x \in 0 .. M - 1
  <2> HIDE DEF M
  <2>1. b + M * k \in Int
    BY <1>1, SMT
  <2> QED
    BY <1>0, <2>1, DivMod, SMT DEF uint32, M
<1>3. PICK q \in Int : b = M * q + y /\ y \in 0 .. M - 1
  BY <1>0, DivMod, SMT DEF uint32
<1> HIDE DEF M, x, y
<1>4. M * p \in Int /\ M * q \in Int
  BY <1>0, <1>2, <1>3, SMT
<1>5. M * ((q - p) + k) = (M * q - M * p) + M * k
  BY <1>0, <1>2, <1>3, SMT
<1>6. M * ((q - p) + k) = x - y
  BY <1>1, <1>2, <1>3, <1>4, <1>5, <1>0, SMT
<1>7. (q - p) + k \in {-1, 0, 1}
  <2>1. M * ((q - p) + k) < 2 * M /\ -(2 * M) < M * ((q - p) + k)
    BY <1>6, <1>2, <1>3, <1>0, SMT
  <2> QED
    BY <2>1, <1>0, <1>2, <1>3, SmallMultiple, SMT
<1>8. M * ((q - p) + k) \in {-M, 0, M}
  BY <1>7, <1>0, SMT
<1>9. x = y
  BY <1>8, <1>6, <1>2, <1>3, <1>0, SMT
<1> QED
  BY <1>9 DEF x, y, M

\* Adding to a residue is adding to the offset (my_seq += size).
LEMMA AddToResidue ==
  ASSUME NEW a \in Int, NEW n \in Int
  PROVE  uint32(uint32(a) + n) = uint32(a + n)
<1>0. SEQ_SPACE \in Nat /\ SEQ_SPACE > 0
  BY SpaceIsNat, SMT
<1>1. PICK p \in Int : a = SEQ_SPACE * p + uint32(a) /\ uint32(a) \in 0 .. SEQ_SPACE - 1
  BY <1>0, DivMod, SMT DEF uint32
<1>2. SEQ_SPACE * p \in Int
  BY <1>0, <1>1, SMT
<1>3. a + n = (uint32(a) + n) + SEQ_SPACE * p
  BY <1>1, <1>2, <1>0, SMT
<1>4. uint32((uint32(a) + n) + SEQ_SPACE * p) = uint32(uint32(a) + n)
  <2> DEFINE b == uint32(a) + n
  <2>1. b \in Int
    BY <1>1, <1>0, SMT
  <2> HIDE DEF b
  <2>2. uint32(b + SEQ_SPACE * p) = uint32(b)
    BY <2>1, <1>1, Turn
  <2> QED
    BY <2>2 DEF b
<1> QED
  BY <1>3, <1>4

\* add_sequence_numbers, whose modulus is one less than the sequence space,
\* gives the end of a chunk when the chunk stays below the top, and one more
\* than the end when it does not.
LEMMA AddIsEndOrOneMore ==
  ASSUME NEW a \in Int, NEW n \in Nat, n <= SEQ_SPACE - 2
  PROVE  add_sequence_numbers(uint32(a), n)
           = IF uint32(a) + n < SEQ_SPACE - 1 THEN uint32(a + n) ELSE uint32(a + n + 1)
<1>0. SEQ_SPACE \in Nat /\ SEQ_SPACE >= 4
  BY SpaceIsNat
<1>1. uint32(a) \in 0 .. SEQ_SPACE - 1
  BY Reduced DEF SeqNumber
<1>2. CASE uint32(a) + n < SEQ_SPACE - 1
  <2>1. add_sequence_numbers(uint32(a), n) = uint32(a) + n
    BY <1>0, <1>1, <1>2, SMT DEF add_sequence_numbers, addition_modulo
  <2>2. uint32(uint32(a) + n) = uint32(a) + n
    BY <1>0, <1>1, <1>2, SMT DEF uint32
  <2> QED
    BY <2>1, <2>2, <1>2, AddToResidue, SMT
<1>3. CASE ~(uint32(a) + n < SEQ_SPACE - 1)
  <2> DEFINE r == uint32(a) + n - (SEQ_SPACE - 1)
  <2>1. r \in 0 .. SEQ_SPACE - 2
    BY <1>0, <1>1, <1>3, SMT
  <2>2. add_sequence_numbers(uint32(a), n) = r
    <3>1. add_sequence_numbers(uint32(a), n) = (r + (SEQ_SPACE - 1)) % (SEQ_SPACE - 1)
      BY <1>0, <1>1, SMT DEF add_sequence_numbers, addition_modulo
    <3> HIDE DEF r
    <3> QED
      BY <3>1, <2>1, <1>0, SMT
  <2>3. uint32(uint32(a) + (n + 1)) = uint32(r + SEQ_SPACE * 1)
    <3>1. uint32(a) + (n + 1) = r + SEQ_SPACE * 1
      BY <1>0, <1>1, SMT
    <3> QED
      BY <3>1
  <2>4. uint32(r + SEQ_SPACE * 1) = uint32(r) /\ uint32(r) = r
    <3> HIDE DEF r
    <3>1. uint32(r) = r
      BY <2>1, <1>0, SMT DEF uint32
    <3> QED
      BY <3>1, <2>1, Turn, <1>0, SMT
  <2>5. uint32(uint32(a) + (n + 1)) = uint32(a + n + 1)
    <3>1. a + (n + 1) = a + n + 1 /\ n + 1 \in Int
      BY SMT
    <3> QED
      BY <3>1, AddToResidue
  <2> QED
    BY <2>2, <2>3, <2>4, <2>5, <1>3
<1> QED
  BY <1>2, <1>3

-----------------------------------------------------------------------------
(* Payloads                                                                *)

\* A run of the stream is a payload of the length asked for.
LEMMA BytesIsPayload ==
  ASSUME NEW a \in Nat, NEW n \in Nat
  PROVE  /\ Bytes(a, n) \in Payload
         /\ Len(Bytes(a, n)) = n
         /\ \A i \in 1 .. n : Bytes(a, n)[i] = a + i - 1
BY SMT DEF Bytes, Abstract!Bytes, Payload

\* Appending the run that comes next gives a longer run (pload.insert).
LEMMA AppendRun ==
  ASSUME NEW a \in Nat, NEW m \in Nat, NEW n \in Nat
  PROVE  Bytes(a, m) \o Bytes(a + m, n) = Bytes(a, m + n)
<1> DEFINE s == Bytes(a, m)
           t == Bytes(a + m, n)
           u == Bytes(a, m + n)
<1>1. /\ s \in Payload /\ Len(s) = m /\ \A i \in 1 .. m : s[i] = a + i - 1
      /\ t \in Payload /\ Len(t) = n /\ \A i \in 1 .. n : t[i] = (a + m) + i - 1
      /\ u \in Payload /\ Len(u) = m + n /\ \A i \in 1 .. m + n : u[i] = a + i - 1
  <2>1. a + m \in Nat /\ m + n \in Nat
    BY SMT
  <2> QED
    BY <2>1, BytesIsPayload
<1> HIDE DEF s, t, u
<1>2. /\ s \o t \in Payload
      /\ Len(s \o t) = m + n
      /\ \A i \in 1 .. m + n : (s \o t)[i] = IF i <= m THEN s[i] ELSE t[i - m]
  BY <1>1, ConcatProperties, ZenonT(60) DEF Payload
<1>3. \A i \in 1 .. m + n : (s \o t)[i] = u[i]
  <2> SUFFICES ASSUME NEW i \in 1 .. m + n
               PROVE  (s \o t)[i] = u[i]
    OBVIOUS
  <2>1. CASE i <= m
    BY <2>1, <1>1, <1>2, SMT
  <2>2. CASE ~(i <= m)
    <3>1. i - m \in 1 .. n
      BY <2>2, SMT
    <3> QED
      BY <3>1, <2>2, <1>1, <1>2, SMT
  <2> QED
    BY <2>1, <2>2
<1>4. s \o t = u
  BY <1>1, <1>2, <1>3, SeqEqual DEF Payload
<1> QED
  BY <1>4 DEF s, t, u

\* Cutting the first k bytes of a run leaves the run that starts k later.
LEMMA SliceRun ==
  ASSUME NEW a \in Nat, NEW n \in Nat, NEW k \in 0 .. n
  PROVE  slice(Bytes(a, n), k) = Bytes(a + k, n - k)
<1> DEFINE s == Bytes(a, n)
           t == SubSeq(s, k + 1, n)
           u == Bytes(a + k, n - k)
<1>1. /\ s \in Payload /\ Len(s) = n /\ \A i \in 1 .. n : s[i] = a + i - 1
      /\ u \in Payload /\ Len(u) = n - k /\ \A i \in 1 .. n - k : u[i] = (a + k) + i - 1
  <2>1. a + k \in Nat /\ n - k \in Nat
    BY SMT
  <2> QED
    BY <2>1, BytesIsPayload
<1> HIDE DEF s, u
<1>2. \A i \in k + 1 .. n : s[i] \in Nat
  BY <1>1, SMT
<1>3. /\ t \in Payload
      /\ Len(t) = n - k
      /\ \A i \in 1 .. n - k : t[i] = s[k + i]
  <2>1. /\ SubSeq(s, k + 1, n) \in Seq(Nat)
        /\ Len(SubSeq(s, k + 1, n)) = IF k + 1 <= n THEN n - (k + 1) + 1 ELSE 0
        /\ \A i \in 1 .. n - (k + 1) + 1 : SubSeq(s, k + 1, n)[i] = s[(k + 1) + i - 1]
    BY <1>2, SubSeqProperties, SMT
  <2> QED
    BY <2>1, SMT DEF Payload
<1> HIDE DEF t
<1>4. \A i \in 1 .. n - k : t[i] = u[i]
  BY <1>1, <1>3, SMT
<1>5. t = u
  BY <1>1, <1>3, <1>4, SeqEqual DEF Payload
<1> QED
  BY <1>5, <1>1 DEF slice, t, u, s

-----------------------------------------------------------------------------
(* The map of fragments                                                    *)

\* A set of sequence numbers that is not empty has a least element: begin()
\* and the increment of the map's iterator are defined.
LEMMA LeastNumber ==
  ASSUME NEW S, S \subseteq Nat, S # {}
  PROVE  Min(S) \in S /\ \A y \in S : Min(S) <= y
<1> DEFINE less == {ss \in Nat \X Nat : ss[1] < ss[2]}
<1>0. IsWellFoundedOn(less, Nat)
  BY NatLessThanWellFounded DEF OpToRel
<1> HIDE DEF less
<1>1. PICK x \in S : \A y \in S : ~(<<y, x>> \in less)
  BY <1>0, WFMin
<1>2. \A y \in S : x =< y
  <2> SUFFICES ASSUME NEW y \in S PROVE x =< y
    OBVIOUS
  <2>1. x \in Nat /\ y \in Nat
    OBVIOUS
  <2>2. ~(<<y, x>> \in less)
    BY <1>1
  <2>3. ~(y < x)
    BY <2>1, <2>2 DEF less
  <2> QED
    BY <2>1, <2>3, SMT
<1> QED
  BY <1>2 DEF Min

\* erase_iterator returns a key of the map that is left, or its end.
LEMMA IteratorStays ==
  ASSUME NEW f, DOMAIN f \subseteq SeqNumber, NEW k
  PROVE  /\ erase_iterator(k, f) \in (DOMAIN f \ {k}) \cup {END}
         /\ DOMAIN erase(f, k) = DOMAIN f \ {k}
<1> DEFINE rest  == DOMAIN f \ {k}
           above == {s \in rest : s > k}
<1>1. rest \subseteq Nat /\ above \subseteq Nat
  BY SpaceIsNat, SMT DEF SeqNumber
<1>2. above # {} => Min(above) \in rest
  <2> SUFFICES ASSUME above # {} PROVE Min(above) \in rest
    OBVIOUS
  <2>1. Min(above) \in above
    BY <1>1, LeastNumber
  <2> QED
    BY <2>1
<1>3. rest # {} => Min(rest) \in rest
  BY <1>1, LeastNumber
<1>4. erase_iterator(k, f) \in rest \cup {END}
  BY <1>2, <1>3 DEF erase_iterator
<1> QED
  BY <1>4 DEF erase, Restrict

\* What is placed has the types of the map.
LEMMA PlacedTyped ==
  ASSUME NEW f, NEW base \in Nat, Placed(f, base)
  PROVE  DOMAIN f \subseteq SeqNumber /\ \A s \in DOMAIN f : f[s] \in Payload
<1> SUFFICES ASSUME NEW s \in DOMAIN f
             PROVE  s \in SeqNumber /\ f[s] \in Payload
  OBVIOUS
<1>1. PICK a \in 0 .. StreamLen : PlacedAt(s, f[s], a, base)
  BY DEF Placed
<1>2. ISN + a \in Int
  BY StreamAssumption, SpaceIsNat, SMT DEF SeqNumber
<1> QED
  BY <1>1, <1>2, Reduced DEF PlacedAt

\* safe_insert keeps the fragments placed.
LEMMA InsertPlaced ==
  ASSUME NEW f, NEW base \in Nat, Placed(f, base),
         NEW s, NEW p, NEW a \in 0 .. StreamLen, PlacedAt(s, p, a, base)
  PROVE  Placed(safe_insert(f, s, p), base)
BY DEF Placed, safe_insert

\* Erasing a fragment keeps the others placed.
LEMMA ErasePlaced ==
  ASSUME NEW f, NEW base \in Nat, Placed(f, base), NEW k
  PROVE  Placed(erase(f, k), base)
BY DEF Placed, erase, Restrict

-----------------------------------------------------------------------------
(* The inductive invariant                                                 *)

\* What the invariant says of the numbers it is about.
LEMMA Positions ==
  ASSUME IInv
  PROVE  /\ Base \in Nat /\ Len(h.pload) \in Nat /\ Cur \in Nat
         /\ Cur = Base + Len(h.pload)
         /\ Cur <= StreamLen /\ Cur < Base + seq_number_diff
         /\ StreamLen \in Nat /\ ISN \in Nat /\ seq_number_diff \in Nat
         /\ h.my_seq = uint32(ISN + Cur)
         /\ Placed(h.frags, Base)
<1>1. Base \in Nat /\ Len(h.pload) \in Nat
  BY LenProperties DEF IInv, TypeOK, Payload, Base
<1>2. ISN \in Nat /\ seq_number_diff \in Nat /\ StreamLen \in Nat
  BY StreamAssumption, WidthAssumption, SpaceIsNat, SMT DEF SeqNumber
<1> QED
  BY <1>1, <1>2, SMT DEF IInv, PayloadPlaced, FragmentsPlaced, Cur, Base

\* compare_seq_numbers, applied to the number of an offset near the next
\* expected one and to my_seq, tells which comes first.
LEMMA ComparesOffsets ==
  ASSUME IInv, NEW a \in Nat,
         a - Cur < seq_number_diff, Cur - a < seq_number_diff
  PROVE  LET c == compare_seq_numbers(uint32(ISN + a), h.my_seq)
         IN  (c < 0 <=> a < Cur) /\ (c = 0 <=> a = Cur) /\ (c > 0 <=> a > Cur)
<1> DEFINE x == ISN + a
           y == ISN + Cur
<1>1. /\ Cur \in Nat /\ ISN \in Nat /\ seq_number_diff \in Nat
      /\ h.my_seq = uint32(y)
  BY Positions
<1>2. /\ x \in Int /\ y \in Int
      /\ x - y < seq_number_diff /\ y - x < seq_number_diff
      /\ (x < y <=> a < Cur) /\ (x = y <=> a = Cur) /\ (x > y <=> a > Cur)
  BY <1>1, SMT
<1> HIDE DEF x, y
<1>3. LET c == compare_seq_numbers(uint32(x), uint32(y))
      IN  (c < 0 <=> x < y) /\ (c = 0 <=> x = y) /\ (c > 0 <=> x > y)
  BY <1>2, CompareIsOrder
<1> QED
  BY <1>1, <1>2, <1>3 DEF x

\* add_sequence_numbers gives the number of the end of a chunk, or, for a
\* chunk that touches the top of the sequence space, of the byte after.
LEMMA EndOffset ==
  ASSUME NEW a \in Nat, NEW n \in Nat, n <= SEQ_SPACE - 2
  PROVE  \E e \in {a + n, a + n + 1} :
            add_sequence_numbers(uint32(ISN + a), n) = uint32(ISN + e)
<1> DEFINE x == ISN + a
<1>1. ISN \in Nat
  BY StreamAssumption, SpaceIsNat, SMT DEF SeqNumber
<1>2. x \in Int
  BY <1>1, SMT
<1>3. x + n = ISN + (a + n) /\ x + n + 1 = ISN + (a + n + 1)
  BY <1>1, SMT
<1> HIDE DEF x
<1>4. \/ add_sequence_numbers(uint32(x), n) = uint32(x + n)
      \/ add_sequence_numbers(uint32(x), n) = uint32(x + n + 1)
  BY <1>2, AddIsEndOrOneMore
<1> QED
  BY <1>3, <1>4 DEF x

\* The initial state of a direction satisfies the invariant.
LEMMA InitIInv == Init => IInv
<1> SUFFICES ASSUME Init PROVE IInv
  OBVIOUS
<1>1. ISN \in Nat /\ ISN \in SeqNumber /\ StreamLen \in Nat /\ ISN < SEQ_SPACE
  BY StreamAssumption, SpaceIsNat, SMT DEF SeqNumber
<1>2. uint32(ISN + 0) = ISN
  BY <1>1, SpaceIsNat, SMT DEF uint32
<1>3. /\ delivered = <<>> /\ h.pload = <<>> /\ h.my_seq = ISN
      /\ h.frags = NoFragments /\ h.it = END /\ h.added_some = FALSE
      /\ pc = "idle" /\ held = {} /\ captured = {}
  BY DEF Init, NewHalf
<1>4. DOMAIN h.frags = {}
  BY <1>3 DEF NoFragments
<1>5. TypeOK
  BY <1>1, <1>3, <1>4, SMT DEF TypeOK, Payload, Init, NewHalf
<1>6. Len(delivered) = 0 /\ Len(h.pload) = 0 /\ Base = 0 /\ Cur = 0
  BY <1>3, SMT DEF Base, Cur
<1>7. Bytes(0, 0) = <<>>
  BY SMT DEF Bytes, Abstract!Bytes
<1>8. PayloadPlaced
  BY <1>1, <1>2, <1>3, <1>6, <1>7, WidthAssumption, SMTT(30) DEF PayloadPlaced
<1> QED
  BY <1>3, <1>4, <1>5, <1>8 DEF IInv, FragmentsPlaced, Placed, PayloadFresh

\* A step that changes only the fragments, the iterator and the locals keeps
\* the invariant when the new fragments are placed.
LEMMA FragmentStep ==
  ASSUME IInv, NEW f, Placed(f, Base), NEW i \in DOMAIN f \cup {END}, NEW b \in BOOLEAN,
         h' = [my_seq |-> h.my_seq, pload |-> h.pload, frags |-> f,
               it |-> i, added_some |-> b],
         delivered' = delivered, pc' \in {"idle", "loop", "crashed"},
         held' \subseteq Nat, captured' \subseteq Nat,
         (pc' # "loop" \/ ~b) => h.pload = <<>>
  PROVE  IInv'
<1>1. /\ h'.my_seq = h.my_seq /\ h'.pload = h.pload /\ h'.frags = f
      /\ h'.it = i /\ h'.added_some = b
  OBVIOUS
<1>2. DOMAIN f \subseteq SeqNumber /\ \A s \in DOMAIN f : f[s] \in Payload
  BY Positions, PlacedTyped
<1>3. h.my_seq \in SeqNumber /\ h.pload \in Payload /\ delivered \in Payload
  BY DEF IInv, TypeOK
<1>4. TypeOK'
  BY <1>1, <1>2, <1>3 DEF TypeOK
<1>5. PayloadPlaced /\ Base' = Base /\ Cur' = Cur
  BY <1>1 DEF IInv, Base, Cur
<1>6. PayloadPlaced'
  BY <1>1, <1>5 DEF PayloadPlaced
<1>7. FragmentsPlaced'
  BY <1>1, <1>5 DEF FragmentsPlaced, Placed, PlacedAt
<1>8. PayloadFresh'
  BY <1>1 DEF PayloadFresh
<1> QED
  BY <1>4, <1>6, <1>7, <1>8 DEF IInv

\* What Capture changes when generic_process does not die in the cut.
LEMMA CaptureLoops ==
  ASSUME IInv, NEW first \in 0 .. StreamLen, NEW n \in 1 .. MaxSegment, Capture(first, n)
  PROVE  /\ first \in Nat /\ n \in Nat /\ n > 0 /\ first + n <= StreamLen
         /\ Cur - first < seq_number_diff /\ (first + n) - Cur < seq_number_diff
         /\ Cur = Base /\ h.pload = <<>> /\ pc = "idle" /\ delivered' = delivered
         /\ held' \subseteq Nat /\ captured' \subseteq Nat
         /\ overruns(h, uint32(ISN + first), Bytes(first, n)) =>
              h' = h /\ pc' = "crashed" /\ held' = held
         /\ ~overruns(h, uint32(ISN + first), Bytes(first, n)) =>
              /\ h' = store(h, uint32(ISN + first), Bytes(first, n))
              /\ pc' = "loop" /\ held' = held \cup (first .. first + n - 1)
<1>1. /\ first \in Nat /\ n \in Nat /\ n > 0 /\ first + n <= StreamLen
      /\ Cur - first < seq_number_diff /\ (first + n) - Cur < seq_number_diff
  BY StreamAssumption, SMT DEF Capture, InWindow
<1>2. first .. first + n - 1 \subseteq Nat /\ held \subseteq Nat /\ captured \subseteq Nat
  BY <1>1, SMT DEF IInv, TypeOK
<1>3. h.pload = <<>>
  BY DEF Capture, IInv, PayloadFresh
<1>4. Len(h.pload) = 0
  BY <1>3, SMT
<1>5. Cur = Base
  BY <1>4, Positions, SMT
<1> QED
  BY <1>1, <1>2, <1>3, <1>5 DEF Capture

\* A captured chunk that is accepted is stored under the number of its first
\* byte that is new, without the bytes before.
LEMMA CaptureStores ==
  ASSUME IInv, NEW first \in 0 .. StreamLen, NEW n \in 1 .. MaxSegment, Capture(first, n),
         ~overruns(h, uint32(ISN + first), Bytes(first, n)),
         accepts(h, uint32(ISN + first), Bytes(first, n))
  PROVE  \E s \in SeqNumber, p \in Payload, a \in 0 .. StreamLen :
            /\ PlacedAt(s, p, a, Base)
            /\ a = (IF first < Cur THEN Cur ELSE first) /\ a + Len(p) = first + n
            /\ h' = [my_seq |-> h.my_seq, pload |-> h.pload,
                     frags |-> safe_insert(h.frags, s, p),
                     it |-> IF h.my_seq \in DOMAIN safe_insert(h.frags, s, p)
                            THEN h.my_seq ELSE END,
                     added_some |-> FALSE]
<1> DEFINE seq == uint32(ISN + first)
           raw == Bytes(first, n)
           k == subtract_sequence_numbers(h.my_seq, seq)
           s == IF starts_before(h, seq) THEN h.my_seq ELSE seq
           p == IF starts_before(h, seq) THEN slice(raw, k) ELSE raw
           f == safe_insert(h.frags, s, p)
<1>1. /\ first \in Nat /\ n \in Nat /\ first + n <= StreamLen
      /\ Cur - first < seq_number_diff /\ (first + n) - Cur < seq_number_diff
      /\ Cur = Base /\ h' = store(h, seq, raw)
  BY CaptureLoops
<1>2. /\ raw \in Payload /\ Len(raw) = n
  BY <1>1, BytesIsPayload
<1>3. /\ Cur \in Nat /\ Cur <= StreamLen /\ StreamLen \in Nat
      /\ Placed(h.frags, Base) /\ Base \in Nat /\ h.my_seq = uint32(ISN + Cur)
      /\ seq_number_diff \in Nat /\ ISN \in Nat
  BY Positions
<1>4. h' = [my_seq |-> h.my_seq, pload |-> h.pload, frags |-> f,
            it |-> IF h.my_seq \in DOMAIN f THEN h.my_seq ELSE END, added_some |-> FALSE]
  <2>1. h = [my_seq |-> h.my_seq, pload |-> h.pload, frags |-> h.frags,
             it |-> h.it, added_some |-> h.added_some]
    BY DEF IInv, TypeOK
  <2>2. f = IF starts_before(h, seq)
            THEN safe_insert(h.frags, h.my_seq, slice(raw, k))
            ELSE safe_insert(h.frags, seq, raw)
    OBVIOUS
  <2> HIDE DEF f
  <2> QED
    BY <1>1, <2>1, <2>2 DEF store
<1>5. s \in SeqNumber
  BY <1>1, <1>3, Reduced, SMTT(30)
<1>6. starts_before(h, seq) <=> first < Cur
  <2>1. first - Cur < seq_number_diff
    BY <1>1, <1>3, SMT
  <2> QED
    BY <1>1, <2>1, ComparesOffsets DEF starts_before
<1> HIDE DEF f
<1>7. CASE first < Cur
  <2>1. k = Cur - first
    <3>1. /\ ISN + Cur \in Int /\ ISN + first \in Int
          /\ ISN + first <= ISN + Cur /\ (ISN + Cur) - (ISN + first) < SEQ_SPACE
          /\ (ISN + Cur) - (ISN + first) = Cur - first
      BY <1>1, <1>3, <1>7, SMTT(30) DEF SEQ_SPACE
    <3> QED
      BY <1>3, <3>1, SubtractIsDifference
  <2>2. k \in 0 .. n
    BY <1>1, <1>2, <1>3, <1>6, <1>7, <2>1, SMTT(30) DEF overruns
  <2>3. slice(raw, k) = Bytes(Cur, n - k)
    <3>1. first + k = Cur
      BY <1>1, <1>3, <2>1, SMTT(30)
    <3> QED
      BY <1>1, <2>2, <3>1, SliceRun
  <2>4. n - k \in Nat /\ Cur + (n - k) = first + n
    BY <1>1, <1>3, <2>1, <2>2, SMTT(30)
  <2> HIDE DEF k
  <2>5. slice(raw, k) \in Payload /\ Len(slice(raw, k)) = n - k
    BY <1>3, <2>3, <2>4, BytesIsPayload, SMTT(30)
  <2>6. PlacedAt(h.my_seq, slice(raw, k), Cur, Base)
    BY <1>1, <1>3, <2>3, <2>4, <2>5, SMTT(30) DEF PlacedAt
  <2>7. Cur \in 0 .. StreamLen /\ s = h.my_seq /\ p = slice(raw, k)
    BY <1>3, <1>6, <1>7, SMT
  <2> HIDE DEF s, p
  <2> QED
    BY <1>4, <1>5, <1>7, <2>4, <2>5, <2>6, <2>7 DEF f
<1>8. CASE ~(first < Cur)
  <2>1. PlacedAt(seq, raw, first, Base)
    BY <1>1, <1>2, <1>3, <1>8, SMT DEF PlacedAt
  <2>2. s = seq /\ p = raw
    BY <1>6, <1>8
  <2> HIDE DEF s, p
  <2> QED
    BY <1>2, <1>4, <1>5, <1>8, <2>1, <2>2 DEF f
<1> QED
  BY <1>7, <1>8

\* Whatever is captured, the invariant stays.
LEMMA CaptureIInv ==
  ASSUME IInv, NEW first \in 0 .. StreamLen, NEW n \in 1 .. MaxSegment, Capture(first, n)
  PROVE  IInv'
<1> DEFINE seq == uint32(ISN + first)
           raw == Bytes(first, n)
<1>1. /\ h.pload = <<>> /\ delivered' = delivered
      /\ held' \subseteq Nat /\ captured' \subseteq Nat
      /\ overruns(h, seq, raw) => h' = h /\ pc' = "crashed"
      /\ ~overruns(h, seq, raw) => h' = store(h, seq, raw) /\ pc' = "loop"
  BY CaptureLoops
<1>2. Placed(h.frags, Base) /\ Base \in Nat
  BY Positions
<1>3. h = [my_seq |-> h.my_seq, pload |-> h.pload, frags |-> h.frags,
           it |-> h.it, added_some |-> h.added_some]
  BY DEF IInv, TypeOK
<1>4. CASE overruns(h, seq, raw)
  BY <1>1, <1>2, <1>3, <1>4, FragmentStep DEF IInv, TypeOK
<1>5. CASE ~overruns(h, seq, raw) /\ ~accepts(h, seq, raw)
  <2>1. h' = [my_seq |-> h.my_seq, pload |-> h.pload, frags |-> h.frags,
              it |-> END, added_some |-> FALSE]
    BY <1>1, <1>3, <1>5 DEF store
  <2> QED
    BY <1>1, <1>2, <1>5, <2>1, FragmentStep
<1>6. CASE ~overruns(h, seq, raw) /\ accepts(h, seq, raw)
  <2>1. PICK s \in SeqNumber, p \in Payload, a \in 0 .. StreamLen :
            /\ PlacedAt(s, p, a, Base)
            /\ h' = [my_seq |-> h.my_seq, pload |-> h.pload,
                     frags |-> safe_insert(h.frags, s, p),
                     it |-> IF h.my_seq \in DOMAIN safe_insert(h.frags, s, p)
                            THEN h.my_seq ELSE END,
                     added_some |-> FALSE]
    BY <1>6, CaptureStores
  <2> DEFINE f == safe_insert(h.frags, s, p)
             i == IF h.my_seq \in DOMAIN f THEN h.my_seq ELSE END
  <2>2. Placed(f, Base)
    BY <1>2, <2>1, InsertPlaced
  <2> HIDE DEF f
  <2>3. i \in DOMAIN f \cup {END}
    OBVIOUS
  <2> QED
    BY <1>1, <1>6, <2>1, <2>2, <2>3, FragmentStep DEF f
<1> QED
  BY <1>4, <1>5, <1>6

\* Where the fragment under the loop's iterator lies.
LEMMA AtIterator ==
  ASSUME IInv, h.it # END
  PROVE  /\ h.it \in DOMAIN h.frags
         /\ \E a \in 0 .. StreamLen :
               /\ PlacedAt(h.it, h.frags[h.it], a, Base)
               /\ a - Cur < seq_number_diff /\ Cur - a < seq_number_diff
<1>1. h.it \in DOMAIN h.frags
  BY DEF IInv, TypeOK
<1>2. PICK a \in 0 .. StreamLen : PlacedAt(h.it, h.frags[h.it], a, Base)
  BY <1>1, Positions DEF Placed
<1>3. Len(h.frags[h.it]) \in Nat
  BY <1>2, LenProperties DEF PlacedAt, Payload
<1>4. a - Cur < seq_number_diff /\ Cur - a < seq_number_diff
  <2>1. /\ Base <= a /\ (a + Len(h.frags[h.it])) - Base < seq_number_diff
    BY <1>2 DEF PlacedAt
  <2>2. /\ Base \in Nat /\ Cur \in Nat /\ Base <= Cur /\ Cur < Base + seq_number_diff
        /\ seq_number_diff \in Nat /\ StreamLen \in Nat
    BY Positions, SMTT(30)
  <2> QED
    BY <1>3, <2>1, <2>2, SMT
<1> QED
  BY <1>1, <1>2, <1>4

\* The branch that cuts a fragment cuts it by at most its size, and what is
\* left of it starts at my_seq.
LEMMA CutMoves ==
  ASSUME IInv, Cut
  PROVE  \E a \in 0 .. StreamLen, tail \in Payload :
            /\ PlacedAt(h.it, h.frags[h.it], a, Base) /\ h.it \in DOMAIN h.frags
            /\ a < Cur /\ Cur + Len(tail) = a + Len(h.frags[h.it])
            /\ PlacedAt(h.my_seq, tail, Cur, Base)
            /\ h' = [my_seq |-> h.my_seq, pload |-> h.pload,
                     frags |-> erase(safe_insert(h.frags, h.my_seq, tail), h.it),
                     it |-> erase_iterator(h.it, safe_insert(h.frags, h.my_seq, tail)),
                     added_some |-> h.added_some]
<1> DEFINE p == h.frags[h.it]
           n == Len(p)
           k == subtract_sequence_numbers(h.my_seq, h.it)
           f == safe_insert(h.frags, h.my_seq, slice(p, k))
           g == erase(f, h.it)
           i == erase_iterator(h.it, f)
<1>1. /\ h.it # END /\ cuts(h) /\ h' = cut(h) /\ pc = "loop" /\ pc' = pc
      /\ delivered' = delivered /\ held' = held /\ captured' = captured
  BY DEF Cut, looping
<1>2. /\ h.it \in DOMAIN h.frags
      /\ \E a \in 0 .. StreamLen :
               /\ PlacedAt(h.it, p, a, Base)
               /\ a - Cur < seq_number_diff /\ Cur - a < seq_number_diff
  BY <1>1, AtIterator
<1>3. PICK a \in 0 .. StreamLen :
               /\ PlacedAt(h.it, p, a, Base)
               /\ a - Cur < seq_number_diff /\ Cur - a < seq_number_diff
  BY <1>2
<1>4. /\ Base \in Nat /\ Cur \in Nat /\ Base <= Cur /\ Cur < Base + seq_number_diff
      /\ seq_number_diff \in Nat /\ StreamLen \in Nat /\ ISN \in Nat /\ Cur <= StreamLen
      /\ Placed(h.frags, Base) /\ h.my_seq = uint32(ISN + Cur)
  BY Positions, SMTT(30)
<1>5. /\ a \in Nat /\ n \in Nat /\ h.it = uint32(ISN + a) /\ Base <= a
      /\ (a + n) - Base < seq_number_diff /\ a + n <= StreamLen /\ p = Bytes(a, n)
  BY <1>3, <1>4, LenProperties, SMTT(30) DEF PlacedAt, Payload
<1> HIDE DEF n, p
<1>6. a < Cur
  BY <1>1, <1>3, <1>5, ComparesOffsets DEF cuts
<1>7. Cur - a \in 0 .. n
  <2>1. n <= SEQ_SPACE - 2
    BY <1>4, <1>5, SMT DEF SEQ_SPACE
  <2>2. PICK e \in {a + n, a + n + 1} :
           add_sequence_numbers(uint32(ISN + a), n) = uint32(ISN + e)
    BY <1>5, <2>1, EndOffset
  <2>3. e \in Nat /\ e - Cur < seq_number_diff /\ Cur - e < seq_number_diff
    BY <1>3, <1>4, <1>5, <1>6, SMTT(30)
  <2>4. fragment_end(h) = uint32(ISN + e)
    BY <1>5, <2>2 DEF fragment_end, n, p
  <2>5. e > Cur
    BY <1>1, <2>3, <2>4, ComparesOffsets, ZenonT(30) DEF cuts
  <2> QED
    BY <1>4, <1>5, <1>6, <2>2, <2>5, SMTT(30)
<1>8. k = Cur - a
  <2>1. /\ ISN + Cur \in Int /\ ISN + a \in Int
        /\ ISN + a <= ISN + Cur /\ (ISN + Cur) - (ISN + a) < SEQ_SPACE
        /\ (ISN + Cur) - (ISN + a) = Cur - a
    BY <1>3, <1>4, <1>5, <1>6, SMTT(30) DEF SEQ_SPACE
  <2> QED
    BY <1>4, <1>5, <2>1, SubtractIsDifference
<1> HIDE DEF k
<1>9. /\ PlacedAt(h.my_seq, slice(p, k), Cur, Base)
      /\ slice(p, k) \in Payload /\ Cur + Len(slice(p, k)) = a + n
  <2>1. a + k = Cur /\ n - k \in Nat /\ Cur + (n - k) = a + n /\ k \in 0 .. n
    BY <1>4, <1>5, <1>7, <1>8, SMTT(30)
  <2>2. slice(p, k) = Bytes(Cur, n - k)
    BY <1>5, <2>1, SliceRun
  <2>3. slice(p, k) \in Payload /\ Len(slice(p, k)) = n - k
    BY <1>4, <2>1, <2>2, BytesIsPayload, SMTT(30)
  <2> QED
    BY <1>4, <1>5, <2>1, <2>2, <2>3 DEF PlacedAt
<1>10. h' = [my_seq |-> h.my_seq, pload |-> h.pload, frags |-> g,
             it |-> i, added_some |-> h.added_some]
  <2>1. h = [my_seq |-> h.my_seq, pload |-> h.pload, frags |-> h.frags,
             it |-> h.it, added_some |-> h.added_some]
    BY DEF IInv, TypeOK
  <2> QED
    BY <1>1, <2>1 DEF cut, p, k
<1> DEFINE t == slice(p, k)
<1> HIDE DEF t
<1> QED
  BY <1>2, <1>3, <1>6, <1>9, <1>10 DEF n, p, t

\* The branch that cuts a fragment keeps the invariant.
LEMMA CutIInv ==
  ASSUME IInv, Cut
  PROVE  IInv'
<1>1. /\ pc = "loop" /\ pc' = pc
      /\ delivered' = delivered /\ held' = held /\ captured' = captured
  BY DEF Cut
<1>2. PICK tail \in Payload :
        /\ PlacedAt(h.my_seq, tail, Cur, Base)
        /\ h' = [my_seq |-> h.my_seq, pload |-> h.pload,
                 frags |-> erase(safe_insert(h.frags, h.my_seq, tail), h.it),
                 it |-> erase_iterator(h.it, safe_insert(h.frags, h.my_seq, tail)),
                 added_some |-> h.added_some]
  BY CutMoves
<1> DEFINE f == safe_insert(h.frags, h.my_seq, tail)
           g == erase(f, h.it)
           i == erase_iterator(h.it, f)
<1>3. Base \in Nat /\ Cur \in 0 .. StreamLen /\ Placed(h.frags, Base)
  BY Positions, SMTT(30)
<1>4. Placed(f, Base)
  BY <1>2, <1>3, InsertPlaced
<1> HIDE DEF f
<1>5. Placed(g, Base)
  BY <1>3, <1>4, ErasePlaced
<1>6. i \in DOMAIN g \cup {END}
  BY <1>3, <1>4, PlacedTyped, IteratorStays
<1>7. h' = [my_seq |-> h.my_seq, pload |-> h.pload, frags |-> g,
            it |-> i, added_some |-> h.added_some]
  BY <1>2 DEF f
<1> HIDE DEF g, i
<1> QED
  BY <1>1, <1>5, <1>6, <1>7, FragmentStep DEF IInv, TypeOK, PayloadFresh

\* The branch that erases a fragment that brings nothing new.
LEMMA DiscardIInv ==
  ASSUME IInv, Discard
  PROVE  IInv'
<1> DEFINE g == erase(h.frags, h.it)
           i == erase_iterator(h.it, h.frags)
<1>1. /\ h' = discard(h) /\ pc = "loop" /\ pc' = pc
      /\ delivered' = delivered /\ held' = held /\ captured' = captured
  BY DEF Discard
<1>2. Base \in Nat /\ Placed(h.frags, Base)
  BY Positions
<1>3. Placed(g, Base)
  BY <1>2, ErasePlaced
<1>4. i \in DOMAIN g \cup {END}
  BY <1>2, PlacedTyped, IteratorStays
<1>5. h' = [my_seq |-> h.my_seq, pload |-> h.pload, frags |-> g,
            it |-> i, added_some |-> h.added_some]
  <2>1. h = [my_seq |-> h.my_seq, pload |-> h.pload, frags |-> h.frags,
             it |-> h.it, added_some |-> h.added_some]
    BY DEF IInv, TypeOK
  <2> QED
    BY <1>1, <2>1 DEF discard
<1> HIDE DEF g, i
<1> QED
  BY <1>1, <1>3, <1>4, <1>5, FragmentStep DEF IInv, TypeOK, PayloadFresh

\* The branch that appends: the fragment under the iterator starts at the
\* next expected byte, so the payload grows by the bytes that come next.
LEMMA AppendMoves ==
  ASSUME IInv, Append1
  PROVE  /\ PlacedAt(h.it, h.frags[h.it], Cur, Base) /\ h.it \in DOMAIN h.frags
         /\ Base' = Base /\ Cur' = Cur + Len(h.frags[h.it]) /\ Cur' \in Nat
         /\ h'.frags = erase(h.frags, h.it) /\ h'.it = erase_iterator(h.it, h.frags)
         /\ IInv'
<1> DEFINE p == h.frags[h.it]
           n == Len(p)
           g == erase(h.frags, h.it)
           i == erase_iterator(h.it, h.frags)
           m == Len(h.pload)
<1>1. /\ h.it # END /\ h.it = h.my_seq /\ h' = append(h) /\ pc = "loop" /\ pc' = pc
      /\ delivered' = delivered /\ held' = held /\ captured' = captured
  BY DEF Append1, looping
<1>2. PICK a \in 0 .. StreamLen :
               /\ PlacedAt(h.it, p, a, Base)
               /\ a - Cur < seq_number_diff /\ Cur - a < seq_number_diff
  BY <1>1, AtIterator
<1>3. /\ Base \in Nat /\ m \in Nat /\ Cur = Base + m /\ Cur \in Nat
      /\ seq_number_diff \in Nat /\ StreamLen \in Nat /\ ISN \in Nat
      /\ Placed(h.frags, Base) /\ h.my_seq = uint32(ISN + Cur)
  BY Positions
<1>4. /\ a \in Nat /\ n \in Nat /\ h.it = uint32(ISN + a) /\ p \in Payload
      /\ (a + n) - Base < seq_number_diff /\ a + n <= StreamLen /\ p = Bytes(a, n)
  BY <1>2, <1>3, LenProperties, SMTT(30) DEF PlacedAt, Payload
<1> HIDE DEF n, p, m
<1>5. a = Cur
  <2>1. compare_seq_numbers(uint32(ISN + a), h.my_seq) = 0
    BY <1>1, <1>4 DEF compare_seq_numbers
  <2> QED
    BY <1>2, <1>4, <2>1, ComparesOffsets
<1>6. /\ h.pload \in Payload /\ h.pload = Bytes(Base, m) /\ delivered \in Payload
      /\ delivered = Bytes(0, Base) /\ held \subseteq Nat /\ captured \subseteq Nat
  BY DEF IInv, TypeOK, PayloadPlaced, m
<1>7. /\ h.pload \o p = Bytes(Base, m + n) /\ m + n \in Nat
      /\ h.pload \o p \in Payload /\ Len(h.pload \o p) = m + n
  <2>0. Bytes(Base, m) \o Bytes(Base + m, n) = Bytes(Base, m + n)
    <3>1. Base \in Nat /\ m \in Nat /\ n \in Nat
      BY <1>3, <1>4
    <3> QED
      BY <3>1, AppendRun
  <2>1. h.pload \o p = Bytes(Base, m + n)
    BY <1>3, <1>4, <1>5, <1>6, <2>0
  <2>2. m + n \in Nat
    BY <1>3, <1>4, SMT
  <2> QED
    BY <1>3, <2>1, <2>2, BytesIsPayload, SMTT(30)
<1>8. uint32(h.my_seq + n) = uint32(ISN + (Cur + n))
  <2>1. ISN + Cur \in Int /\ n \in Int /\ (ISN + Cur) + n = ISN + (Cur + n)
    BY <1>3, <1>4, SMT
  <2> QED
    BY <1>3, <2>1, AddToResidue
<1>9. h' = [my_seq |-> uint32(h.my_seq + n), pload |-> h.pload \o p, frags |-> g,
            it |-> i, added_some |-> TRUE]
  <2>1. h = [my_seq |-> h.my_seq, pload |-> h.pload, frags |-> h.frags,
             it |-> h.it, added_some |-> h.added_some]
    BY DEF IInv, TypeOK
  <2> QED
    BY <1>1, <2>1 DEF append, p, n
<1>10. Placed(g, Base)
  BY <1>3, ErasePlaced
<1>11. i \in DOMAIN g \cup {END}
  BY <1>3, PlacedTyped, IteratorStays
<1> HIDE DEF g, i
<1>12. /\ h'.my_seq = uint32(ISN + (Cur + n)) /\ h'.pload = h.pload \o p /\ h'.frags = g
       /\ h'.it = i /\ h'.added_some = TRUE
  BY <1>8, <1>9
<1>13. Base' = Base /\ Cur' = Cur + n
  <2>1. Base' = Base
    BY <1>1 DEF Base
  <2>2. Cur' = Base + (m + n)
    BY <1>1, <1>7, <1>12 DEF Base, Cur
  <2> QED
    BY <1>3, <1>4, <2>1, <2>2, SMTT(30)
<1>14. TypeOK'
  <2>1. DOMAIN g \subseteq SeqNumber /\ \A s \in DOMAIN g : g[s] \in Payload
    BY <1>3, <1>10, PlacedTyped
  <2>2. uint32(ISN + (Cur + n)) \in SeqNumber
    BY <1>3, <1>4, Reduced, SMTT(30)
  <2> QED
    BY <1>1, <1>6, <1>7, <1>9, <1>11, <1>12, <2>1, <2>2, ZenonT(30) DEF TypeOK
<1>15. FragmentsPlaced'
  BY <1>10, <1>12, <1>13 DEF FragmentsPlaced, Placed, PlacedAt
<1>16. PayloadPlaced'
  <2>1. m + n < seq_number_diff /\ Cur + n <= StreamLen
    BY <1>3, <1>4, <1>5, SMTT(30)
  <2> QED
    BY <1>1, <1>6, <1>7, <1>12, <1>13, <2>1 DEF PayloadPlaced
<1>17. PayloadFresh'
  BY <1>1, <1>12 DEF PayloadFresh
<1>18. h.it \in DOMAIN h.frags /\ Cur + n \in Nat
  BY <1>1, <1>3, <1>4, AtIterator, SMTT(30)
<1> QED
  BY <1>2, <1>5, <1>12, <1>13, <1>14, <1>15, <1>16, <1>17, <1>18, ZenonT(30) DEF IInv, p, n, g, i

\* The branch that appends keeps the invariant.
LEMMA AppendIInv ==
  ASSUME IInv, Append1
  PROVE  IInv'
BY AppendMoves

\* data_fun gets the payload, and cap empties it and the fragments.
LEMMA ReturnTrueIInv ==
  ASSUME IInv, ReturnTrue
  PROVE  IInv'
<1> DEFINE m == Len(h.pload)
<1>1. /\ h' = [my_seq |-> h.my_seq, pload |-> <<>>, frags |-> NoFragments,
               it |-> END, added_some |-> FALSE]
      /\ delivered' = delivered \o h.pload /\ held' = {} /\ captured' = captured
      /\ pc' = "idle"
  <2>1. h = [my_seq |-> h.my_seq, pload |-> h.pload, frags |-> h.frags,
             it |-> h.it, added_some |-> h.added_some]
    BY DEF IInv, TypeOK
  <2> QED
    BY <2>1 DEF ReturnTrue, cap
<1>2. /\ h'.my_seq = h.my_seq /\ h'.pload = <<>> /\ h'.frags = NoFragments
      /\ h'.it = END /\ h'.added_some = FALSE
  BY <1>1
<1>3. /\ Base \in Nat /\ m \in Nat /\ Cur = Base + m /\ Cur \in Nat
      /\ seq_number_diff \in Nat /\ Cur <= StreamLen /\ h.my_seq = uint32(ISN + Cur)
  BY Positions
<1>4. /\ delivered = Bytes(0, Base) /\ h.pload = Bytes(Base, m)
      /\ h.my_seq \in SeqNumber /\ captured \subseteq Nat
  BY DEF IInv, TypeOK, PayloadPlaced
<1> HIDE DEF m
<1>5. delivered' = Bytes(0, Cur)
  <2>1. 0 + Base = Base /\ 0 \in Nat
    BY <1>3, SMT
  <2>2. Bytes(0, Base) \o Bytes(0 + Base, m) = Bytes(0, Base + m)
    BY <1>3, <2>1, AppendRun
  <2> QED
    BY <1>1, <1>3, <1>4, <2>1, <2>2
<1>6. delivered' \in Payload /\ Len(delivered') = Cur
  BY <1>3, <1>5, BytesIsPayload
<1>7. Base' = Cur /\ Cur' = Cur
  BY <1>2, <1>3, <1>6, SMTT(30) DEF Base, Cur
<1>8. DOMAIN h'.frags = {}
  BY <1>2 DEF NoFragments
<1>9. TypeOK'
  BY <1>1, <1>2, <1>4, <1>6, <1>8, SMTT(30) DEF TypeOK, Payload
<1>10. PayloadPlaced'
  <2>1. Bytes(Cur, 0) = <<>>
    BY <1>3, SMT DEF Bytes, Abstract!Bytes
  <2> QED
    BY <1>2, <1>3, <1>5, <1>7, <2>1, WidthAssumption, SMTT(30) DEF PayloadPlaced
<1>11. FragmentsPlaced' /\ PayloadFresh'
  BY <1>2, <1>8 DEF FragmentsPlaced, Placed, PayloadFresh
<1> QED
  BY <1>9, <1>10, <1>11 DEF IInv

\* generic_process returns false: only its locals go.
LEMMA ReturnFalseIInv ==
  ASSUME IInv, ReturnFalse
  PROVE  IInv'
<1>1. /\ h' = [my_seq |-> h.my_seq, pload |-> h.pload, frags |-> h.frags,
               it |-> END, added_some |-> h.added_some]
      /\ delivered' = delivered /\ held' = held /\ captured' = captured
      /\ pc' = "idle" /\ ~h.added_some
  <2>1. h = [my_seq |-> h.my_seq, pload |-> h.pload, frags |-> h.frags,
             it |-> h.it, added_some |-> h.added_some]
    BY DEF IInv, TypeOK
  <2> QED
    BY <2>1 DEF ReturnFalse
<1>2. /\ Placed(h.frags, Base) /\ h.added_some \in BOOLEAN
      /\ held \subseteq Nat /\ captured \subseteq Nat /\ h.pload = <<>>
  BY <1>1, Positions DEF IInv, TypeOK, PayloadFresh
<1> QED
  BY <1>1, <1>2, FragmentStep

-----------------------------------------------------------------------------
(* The theorems                                                            *)

\* Every step of the follower, and every stuttering step, keeps the invariant.
LEMMA NextIInv == IInv /\ [Next]_vars => IInv'
<1> SUFFICES ASSUME IInv, [Next]_vars PROVE IInv'
  OBVIOUS
<1>1. CASE \E first \in 0 .. StreamLen, n \in 1 .. MaxSegment : Capture(first, n)
  BY <1>1, CaptureIInv
<1>2. CASE Cut
  BY <1>2, CutIInv
<1>3. CASE Discard
  BY <1>3, DiscardIInv, ZenonT(30)
<1>4. CASE Append1
  BY <1>4, AppendIInv
<1>5. CASE ReturnTrue
  BY <1>5, ReturnTrueIInv
<1>6. CASE ReturnFalse
  BY <1>6, ReturnFalseIInv
<1>7. CASE UNCHANGED vars
  BY <1>7 DEF vars, IInv, TypeOK, FragmentsPlaced, Placed, PlacedAt, PayloadPlaced,
              PayloadFresh, Base, Cur
<1> QED
  BY <1>1, <1>2, <1>3, <1>4, <1>5, <1>6, <1>7 DEF Next, Process

\* The invariant of the reassembly holds throughout: fragments hold the bytes
\* their keys announce, and my_seq is the number of the next byte.
THEOREM Invariance == Spec => []IInv
BY InitIInv, NextIInv, PTL DEF Spec

\* The state of a direction keeps its types whatever is captured.
THEOREM TypeCorrect == Spec => []TypeOK
<1>1. IInv => TypeOK
  BY DEF IInv
<1> QED
  BY <1>1, Invariance, PTL

\* What data_fun is given, and what generic_process is putting together, is a
\* prefix of what the peer sent.
THEOREM DeliversInOrder == Spec => []InOrder
<1>1. IInv => InOrder
  <2> SUFFICES ASSUME IInv PROVE InOrder
    OBVIOUS
  <2> DEFINE m == Len(h.pload)
  <2>1. /\ Base \in Nat /\ m \in Nat /\ Cur = Base + m /\ 0 \in Nat /\ 0 + Base = Base
    BY Positions, SMT
  <2>2. delivered = Bytes(0, Base) /\ h.pload = Bytes(Base, m)
    BY DEF IInv, PayloadPlaced
  <2> HIDE DEF m
  <2>3. Bytes(0, Base) \o Bytes(0 + Base, m) = Bytes(0, Base + m)
    BY <2>1, AppendRun
  <2> QED
    BY <2>1, <2>2, <2>3 DEF InOrder
<1> QED
  BY <1>1, Invariance, PTL

\* generic_process implements the abstract stream: each call of data_fun
\* hands over the bytes that come next, and nothing else touches them.
THEOREM Refinement == Spec => Promise
<1>1. Init => Abstract!Init
  BY DEF Init, Abstract!Init
<1>2. IInv /\ [Next]_vars => [Abstract!HandOver]_delivered
  <2> SUFFICES ASSUME IInv, Next, delivered' # delivered
               PROVE  Abstract!HandOver
    BY DEF vars
  <2> DEFINE m == Len(h.pload)
  <2>1. delivered' = delivered \o h.pload
    BY DEF Next, Process, Capture, Cut, Discard, Append1, ReturnTrue, ReturnFalse
  <2>2. /\ Base \in Nat /\ m \in Nat /\ Cur = Base + m /\ Cur <= StreamLen
        /\ StreamLen \in Nat
    BY Positions
  <2>3. /\ h.pload = Bytes(Base, m) /\ delivered \in Seq(Nat) /\ h.pload \in Seq(Nat)
    BY DEF IInv, TypeOK, PayloadPlaced, Payload
  <2>4. m # 0
    <3> SUFFICES ASSUME m = 0 PROVE FALSE
      OBVIOUS
    <3>1. h.pload = <<>>
      BY <2>3, EmptySeq
    <3> QED
      BY <2>1, <2>3, <3>1, ConcatEmptySeq
  <2> HIDE DEF m
  <2>5. m \in 1 .. (StreamLen - Base)
    BY <2>2, <2>4, SMT
  <2> QED
    BY <2>1, <2>3, <2>5 DEF Abstract!HandOver, Base, Bytes
<1> QED
  BY <1>1, <1>2, Invariance, PTL DEF Spec, Promise, Abstract!Spec

\* A chunk is cut by more than its size only if a captured chunk reached one of
\* the two highest numbers of the sequence space (generic_process, lines 171-179).
THEOREM CrashesAtTheTop == Spec => []CrashesOnlyAtTheTop
<1>1. Init => CrashesOnlyAtTheTop
  BY DEF Init, CrashesOnlyAtTheTop
<1>2. IInv /\ CrashesOnlyAtTheTop /\ [Next]_vars => CrashesOnlyAtTheTop'
  <2> SUFFICES ASSUME IInv, CrashesOnlyAtTheTop, [Next]_vars
               PROVE  CrashesOnlyAtTheTop'
    OBVIOUS
  <2>1. ASSUME NEW first \in 0 .. StreamLen, NEW n \in 1 .. MaxSegment, Capture(first, n)
        PROVE  CrashesOnlyAtTheTop'
    <3> DEFINE seq == uint32(ISN + first)
               raw == Bytes(first, n)
    <3>1. /\ Cur \in Nat /\ ISN \in Nat /\ StreamLen \in Nat /\ seq_number_diff \in Nat
          /\ SEQ_SPACE \in Nat /\ SEQ_SPACE = 2 * seq_number_diff /\ SEQ_SPACE >= 4
          /\ h.my_seq = uint32(ISN + Cur)
      BY Positions, SpaceIsNat DEF SEQ_SPACE
    <3>2. /\ first \in Nat /\ n \in Nat /\ n > 0 /\ first + n <= StreamLen
          /\ Cur - first < seq_number_diff /\ (first + n) - Cur < seq_number_diff
      BY <2>1, StreamAssumption, SMT DEF Capture, InWindow
    <3>3. Len(raw) = n
      BY <3>2, BytesIsPayload
    <3>4. seq \in 0 .. SEQ_SPACE - 1
      BY <3>1, <3>2, Reduced, SMTT(30) DEF SeqNumber
    <3>5. ASSUME NEW k \in Nat, seq + k < SEQ_SPACE
          PROVE  uint32(ISN + (first + k)) = seq + k
      <4>1. uint32(seq + k) = uint32((ISN + first) + k)
        BY <3>1, <3>2, AddToResidue, SMTT(30)
      <4>2. uint32(seq + k) = seq + k
        BY <3>1, <3>4, <3>5, SMTT(30) DEF uint32
      <4>3. (ISN + first) + k = ISN + (first + k)
        BY <3>1, <3>2, SMT
      <4> QED
        BY <4>1, <4>2, <4>3
    <3>6. CASE seq + n < SEQ_SPACE - 1
      <4>1. add_sequence_numbers(seq, n) = uint32(ISN + (first + n))
        <5>1. add_sequence_numbers(seq, n) = seq + n
          BY <3>1, <3>2, <3>4, <3>6, SMTT(30) DEF add_sequence_numbers, addition_modulo
        <5>2. seq + n < SEQ_SPACE
          BY <3>1, <3>2, <3>4, <3>6, SMTT(30)
        <5> QED
          BY <3>2, <3>5, <5>1, <5>2
      <4>2. ~overruns(h, seq, raw)
        <5> SUFFICES ASSUME overruns(h, seq, raw) PROVE FALSE
          OBVIOUS
        <5>1. first < Cur
          BY <3>1, <3>2, ComparesOffsets, SMTT(30) DEF overruns, starts_before
        <5>2. /\ first + n \in Nat /\ (first + n) - Cur < seq_number_diff
              /\ Cur - (first + n) < seq_number_diff
          BY <3>1, <3>2, SMT
        <5>3. first + n >= Cur
          <6>1. ~(compare_seq_numbers(uint32(ISN + (first + n)), h.my_seq) < 0)
            BY <3>3, <4>1, SMT DEF overruns, accepts, compare_seq_numbers
          <6>2. ~(first + n < Cur)
            BY <5>2, <6>1, ComparesOffsets
          <6> QED
            BY <3>1, <5>2, <6>2, SMTT(30)
        <5>4. subtract_sequence_numbers(h.my_seq, seq) = Cur - first
          <6>1. /\ ISN + Cur \in Int /\ ISN + first \in Int
                /\ ISN + first <= ISN + Cur /\ (ISN + Cur) - (ISN + first) < SEQ_SPACE
                /\ (ISN + Cur) - (ISN + first) = Cur - first
            BY <3>1, <3>2, <5>1, SMTT(30)
          <6> QED
            BY <3>1, <6>1, SubtractIsDifference
        <5> QED
          BY <3>1, <3>2, <3>3, <5>3, <5>4, SMTT(30) DEF overruns
      <4> QED
        BY <2>1, <4>2 DEF Capture, CrashesOnlyAtTheTop
    <3>7. CASE seq + n >= SEQ_SPACE - 1
      <4> DEFINE k == IF seq + n <= SEQ_SPACE THEN n - 1 ELSE (SEQ_SPACE - 1) - seq
      <4>1. k \in 0 .. n - 1 /\ seq + k < SEQ_SPACE /\ seq + k >= SEQ_SPACE - 2
        BY <3>1, <3>2, <3>4, <3>7, SMTT(30)
      <4> HIDE DEF k
      <4>2. uint32(ISN + (first + k)) >= SEQ_SPACE - 2
        BY <3>2, <3>5, <4>1, SMTT(30)
      <4>3. first + k \in captured'
        BY <2>1, <3>2, <4>1, SMTT(30) DEF Capture
      <4> QED
        BY <4>2, <4>3 DEF CrashesOnlyAtTheTop
    <3> QED
      BY <3>1, <3>2, <3>4, <3>6, <3>7, SMTT(30)
  <2>2. CASE Process
    BY <2>2 DEF Process, Cut, Discard, Append1, ReturnTrue, ReturnFalse, CrashesOnlyAtTheTop
  <2>3. CASE UNCHANGED vars
    BY <2>3 DEF vars, CrashesOnlyAtTheTop
  <2> QED
    BY <2>1, <2>2, <2>3 DEF Next
<1> QED
  BY <1>1, <1>2, Invariance, PTL DEF Spec

\* Only bytes the peer sent are captured.
LEMMA CapturedIsSent == Spec => [](captured \subseteq 0 .. StreamLen - 1)
<1>1. Init => captured \subseteq 0 .. StreamLen - 1
  BY DEF Init
<1>2. captured \subseteq 0 .. StreamLen - 1 /\ [Next]_vars => (captured \subseteq 0 .. StreamLen - 1)'
  BY StreamAssumption, SMT
     DEF Next, Capture, Process, Cut, Discard, Append1, ReturnTrue, ReturnFalse, vars
<1> QED
  BY <1>1, <1>2, PTL DEF Spec

\* A stream whose numbers stay below the top of the sequence space never has
\* a chunk cut by more than its size.
THEOREM NoOverrunBelowTheTop ==
  ISN + StreamLen < SEQ_SPACE - 1 => (Spec => []NeverCrashes)
<1> SUFFICES ASSUME ISN + StreamLen < SEQ_SPACE - 1
             PROVE  Spec => []NeverCrashes
  OBVIOUS
<1>1. CrashesOnlyAtTheTop /\ captured \subseteq 0 .. StreamLen - 1 => NeverCrashes
  BY StreamAssumption, SpaceIsNat, SMT
     DEF CrashesOnlyAtTheTop, NeverCrashes, uint32, SeqNumber
<1> QED
  BY <1>1, CrashesAtTheTop, CapturedIsSent, PTL

-----------------------------------------------------------------------------
(* What is due is not held: captured bytes stay in the fragments until they *)
(* are appended, and the loop meets the fragments in the order of the       *)
(* stream.                                                                  *)

\* A fragment's key tells where it starts.
LEMMA OneOffset ==
  ASSUME NEW base \in Nat, NEW s, NEW p, NEW q,
         NEW a \in 0 .. StreamLen, NEW b \in 0 .. StreamLen,
         PlacedAt(s, p, a, base), PlacedAt(s, q, b, base)
  PROVE  a = b
<1> DEFINE x == ISN + a
           y == ISN + b
<1>1. ISN \in Nat /\ StreamLen \in Nat /\ seq_number_diff \in Nat
  BY StreamAssumption, WidthAssumption, SpaceIsNat, SMTT(30) DEF SeqNumber
<1>2. Len(p) \in Nat /\ Len(q) \in Nat
  BY LenProperties DEF PlacedAt, Payload
<1>3. /\ x \in Int /\ y \in Int /\ (x = y <=> a = b)
      /\ x - y < seq_number_diff /\ y - x < seq_number_diff
  BY <1>1, <1>2, SMT DEF PlacedAt
<1>4. uint32(x) = uint32(y)
  BY DEF PlacedAt
<1> HIDE DEF x, y
<1>5. compare_seq_numbers(uint32(x), uint32(y)) = 0
  BY <1>4 DEF compare_seq_numbers
<1> QED
  BY <1>3, <1>5, CompareIsOrder

\* The keys after the iterator's, and then those from the first on, are in
\* the order of the stream: a map of uint32_t keys, read from a key and past
\* its end again from the beginning, is in the order of the offsets.
LEMMA KeysInOrder ==
  ASSUME NEW a \in Nat, NEW b \in Nat, NEW c \in Nat, a < b, a < c,
         b - a < seq_number_diff, c - a < seq_number_diff
  PROVE  LET x == uint32(ISN + a)
             y == uint32(ISN + b)
             z == uint32(ISN + c)
         IN  /\ y > x /\ ~(z > x) => b <= c
             /\ (y > x <=> z > x) /\ y <= z => b <= c
<1> DEFINE x == uint32(ISN + a)
           y == uint32(ISN + b)
           z == uint32(ISN + c)
<1>1. ISN \in Nat /\ seq_number_diff \in Nat /\ SEQ_SPACE = 2 * seq_number_diff
  BY StreamAssumption, WidthAssumption, SpaceIsNat, SMTT(30) DEF SeqNumber, SEQ_SPACE
<1>2. /\ ISN + a \in Int /\ ISN + b \in Int /\ ISN + c \in Int
      /\ (ISN + b) - (ISN + a) = b - a /\ (ISN + c) - (ISN + a) = c - a
  BY <1>1, SMT
<1>3. x \in 0 .. SEQ_SPACE - 1 /\ y \in 0 .. SEQ_SPACE - 1 /\ z \in 0 .. SEQ_SPACE - 1
  BY <1>2, Reduced DEF SeqNumber
<1>4. \/ y - x = b - a
      \/ y - x = (b - a) + SEQ_SPACE
      \/ y - x = (b - a) - SEQ_SPACE
  <2> DEFINE p == ISN + b
             q == ISN + a
  <2>1. /\ p \in Int /\ q \in Int /\ p - q = b - a
        /\ p - q < SEQ_SPACE /\ q - p < SEQ_SPACE
    BY <1>1, <1>2, SMT
  <2> HIDE DEF p, q
  <2>2. \/ uint32(p) - uint32(q) = p - q
        \/ uint32(p) - uint32(q) = (p - q) + SEQ_SPACE
        \/ uint32(p) - uint32(q) = (p - q) - SEQ_SPACE
    BY <2>1, Near
  <2> QED
    BY <2>1, <2>2 DEF p, q
<1>5. \/ z - x = c - a
      \/ z - x = (c - a) + SEQ_SPACE
      \/ z - x = (c - a) - SEQ_SPACE
  <2> DEFINE p == ISN + c
             q == ISN + a
  <2>1. /\ p \in Int /\ q \in Int /\ p - q = c - a
        /\ p - q < SEQ_SPACE /\ q - p < SEQ_SPACE
    BY <1>1, <1>2, SMT
  <2> HIDE DEF p, q
  <2>2. \/ uint32(p) - uint32(q) = p - q
        \/ uint32(p) - uint32(q) = (p - q) + SEQ_SPACE
        \/ uint32(p) - uint32(q) = (p - q) - SEQ_SPACE
    BY <2>1, Near
  <2> QED
    BY <2>1, <2>2 DEF p, q
<1> HIDE DEF x, y, z
<1>6. (y > x /\ ~(z > x) => b <= c) /\ ((y > x <=> z > x) /\ y <= z => b <= c)
  BY <1>1, <1>3, <1>4, <1>5, SMTT(30)
<1> QED
  BY <1>6 DEF x, y, z

\* safe_insert loses no byte: of two payloads under one key the longer stays,
\* and it holds the bytes of both.
LEMMA InsertCovers ==
  ASSUME NEW f, NEW base \in Nat, Placed(f, base),
         NEW s, NEW p, NEW a \in 0 .. StreamLen, PlacedAt(s, p, a, base),
         NEW o \in Nat, Covered(f, base, o) \/ (a <= o /\ o < a + Len(p))
  PROVE  Covered(safe_insert(f, s, p), base, o)
<1> DEFINE g == safe_insert(f, s, p)
<1>1. StreamLen \in Nat /\ Len(p) \in Nat
  BY StreamAssumption, LenProperties DEF PlacedAt, Payload
<1>2. CASE s \in DOMAIN f /\ Len(f[s]) > Len(p)
  <2>1. g = f
    BY <1>2 DEF safe_insert
  <2>2. PICK b \in 0 .. StreamLen : PlacedAt(s, f[s], b, base)
    BY <1>2 DEF Placed
  <2>3. b = a
    BY <2>2, OneOffset
  <2>4. Len(f[s]) \in Nat
    BY <2>2, LenProperties DEF PlacedAt, Payload
  <2>5. a <= o /\ o < a + Len(p) => Covered(f, base, o)
    <3> SUFFICES ASSUME a <= o, o < a + Len(p) PROVE Covered(f, base, o)
      OBVIOUS
    <3>1. o < a + Len(f[s])
      BY <1>1, <1>2, <2>4, SMTT(30)
    <3> QED
      BY <1>2, <2>2, <2>3, <3>1 DEF Covered
  <2> QED
    BY <2>1, <2>5
<1>3. CASE ~(s \in DOMAIN f /\ Len(f[s]) > Len(p))
  <2>1. DOMAIN g = DOMAIN f \cup {s} /\ g[s] = p /\ \A t \in DOMAIN f : t # s => g[t] = f[t]
    BY <1>3 DEF safe_insert
  <2> HIDE DEF g
  <2>2. a <= o /\ o < a + Len(p) => Covered(g, base, o)
    BY <2>1 DEF Covered
  <2>3. Covered(f, base, o) => Covered(g, base, o)
    <3> SUFFICES ASSUME Covered(f, base, o) PROVE Covered(g, base, o)
      OBVIOUS
    <3>1. PICK t \in DOMAIN f, b \in 0 .. StreamLen :
             PlacedAt(t, f[t], b, base) /\ b <= o /\ o < b + Len(f[t])
      BY DEF Covered
    <3>2. CASE t # s
      BY <2>1, <3>1, <3>2 DEF Covered
    <3>3. CASE t = s
      <4>1. a = b
        BY <3>1, <3>3, OneOffset
      <4>2. Len(f[t]) \in Nat
        BY <3>1, LenProperties DEF PlacedAt, Payload
      <4>3. o < a + Len(p)
        BY <1>1, <1>3, <3>1, <3>3, <4>1, <4>2, SMTT(30)
      <4> QED
        BY <2>2, <3>1, <4>1, <4>3
    <3> QED
      BY <3>2, <3>3
  <2> QED
    BY <2>2, <2>3 DEF g
<1> QED
  BY <1>2, <1>3

\* Erasing a fragment loses only the bytes that it holds.
LEMMA EraseCovers ==
  ASSUME NEW f, NEW base \in Nat, NEW k, NEW p, NEW a \in 0 .. StreamLen,
         k \in DOMAIN f => PlacedAt(k, f[k], a, base) /\ f[k] = p,
         NEW o \in Nat, Covered(f, base, o), ~(a <= o /\ o < a + Len(p))
  PROVE  Covered(erase(f, k), base, o)
<1>1. PICK t \in DOMAIN f, b \in 0 .. StreamLen :
        PlacedAt(t, f[t], b, base) /\ b <= o /\ o < b + Len(f[t])
  BY DEF Covered
<1>2. t # k
  <2> SUFFICES ASSUME t = k PROVE FALSE
    OBVIOUS
  <2>1. a = b
    BY <1>1, OneOffset
  <2> QED
    BY <1>1, <2>1
<1>3. t \in DOMAIN erase(f, k) /\ erase(f, k)[t] = f[t]
  BY <1>2 DEF erase, Restrict
<1> QED
  BY <1>1, <1>3 DEF Covered

\* Where the fragments start after safe_insert.
LEMMA InsertStart ==
  ASSUME NEW f, NEW base \in Nat, NEW c \in Nat, StartFrom(f, base, c),
         NEW s, NEW p, NEW a \in 0 .. StreamLen, PlacedAt(s, p, a, base), c <= a
  PROVE  StartFrom(safe_insert(f, s, p), base, c)
<1> DEFINE g == safe_insert(f, s, p)
<1> SUFFICES ASSUME NEW t \in DOMAIN g, NEW b \in 0 .. StreamLen, PlacedAt(t, g[t], b, base)
             PROVE  c <= b
  BY DEF StartFrom
<1>1. CASE t = s
  <2>1. a = b
    BY <1>1, OneOffset
  <2> QED
    BY <2>1
<1>2. CASE t # s
  <2>1. t \in DOMAIN f /\ g[t] = f[t]
    BY <1>2 DEF safe_insert
  <2> HIDE DEF g
  <2> QED
    BY <2>1 DEF StartFrom
<1> QED
  BY <1>1, <1>2

\* Where the fragments start after one is erased.
LEMMA EraseStart ==
  ASSUME NEW f, NEW base \in Nat, NEW c, StartFrom(f, base, c), NEW k
  PROVE  StartFrom(erase(f, k), base, c)
BY DEF StartFrom, erase, Restrict

\* After a fragment is erased the iterator stands at the first of the others,
\* in the order of the stream, if none started before the erased one.
LEMMA NextInOrder ==
  ASSUME NEW f, NEW base \in Nat, Placed(f, base),
         NEW k, NEW p, NEW a \in 0 .. StreamLen, PlacedAt(k, p, a, base), StartFrom(f, base, a)
  PROVE  LET g == erase(f, k)
             i == erase_iterator(k, f)
         IN  IF i = END
             THEN DOMAIN g = {}
             ELSE \E c \in 0 .. StreamLen :
                    a < c /\ PlacedAt(i, g[i], c, base) /\ StartFrom(g, base, c)
<1> DEFINE rest  == DOMAIN f \ {k}
           above == {s \in rest : s > k}
           g     == erase(f, k)
<1>1. /\ StreamLen \in Nat /\ seq_number_diff \in Nat /\ a \in Nat
      /\ k \in Nat /\ rest \subseteq Nat /\ above \subseteq Nat
  <2>1. ISN + a \in Int /\ StreamLen \in Nat /\ seq_number_diff \in Nat
    BY StreamAssumption, WidthAssumption, SpaceIsNat, SMTT(30) DEF SeqNumber
  <2>2. k \in SeqNumber
    BY <2>1, Reduced DEF PlacedAt
  <2> QED
    BY <2>1, <2>2, PlacedTyped, SpaceIsNat, SMTT(30) DEF SeqNumber
<1>2. DOMAIN g = rest /\ \A t \in rest : g[t] = f[t]
  BY DEF erase, Restrict
<1>3. ASSUME NEW t \in rest, NEW b \in 0 .. StreamLen, PlacedAt(t, f[t], b, base)
      PROVE  a < b /\ b - a < seq_number_diff
  <2>1. a <= b
    BY <1>3 DEF StartFrom
  <2>2. a # b
    BY <1>3 DEF PlacedAt
  <2>3. base <= a /\ (b + Len(f[t])) - base < seq_number_diff /\ Len(f[t]) \in Nat
    BY <1>3, LenProperties DEF PlacedAt, Payload
  <2> QED
    BY <1>1, <2>1, <2>2, <2>3, SMTT(30)
<1>4. ASSUME NEW i \in rest,
             \A t \in rest : (i > k /\ ~(t > k)) \/ ((i > k <=> t > k) /\ i <= t)
      PROVE  \E c \in 0 .. StreamLen :
               a < c /\ PlacedAt(i, g[i], c, base) /\ StartFrom(g, base, c)
  <2>1. PICK c \in 0 .. StreamLen : PlacedAt(i, f[i], c, base)
    BY DEF Placed
  <2>2. ASSUME NEW t \in rest, NEW b \in 0 .. StreamLen, PlacedAt(t, f[t], b, base)
        PROVE  c <= b
    <3>1. a < c /\ c - a < seq_number_diff /\ a < b /\ b - a < seq_number_diff
      BY <1>3, <2>1, <2>2
    <3>2. k = uint32(ISN + a) /\ i = uint32(ISN + c) /\ t = uint32(ISN + b)
      BY <2>1, <2>2 DEF PlacedAt
    <3>3. b \in Nat /\ c \in Nat
      BY <1>1, SMT
    <3>4. /\ i > k /\ ~(t > k) => c <= b
          /\ (i > k <=> t > k) /\ i <= t => c <= b
      BY <1>1, <3>1, <3>2, <3>3, KeysInOrder
    <3> QED
      BY <1>4, <3>4
  <2>3. StartFrom(g, base, c)
    BY <1>2, <2>2 DEF StartFrom
  <2> QED
    BY <1>2, <1>3, <2>1, <2>3
<1>5. CASE above # {}
  <2>1. Min(above) \in above /\ \A t \in above : Min(above) <= t
    BY <1>1, <1>5, LeastNumber
  <2>2. erase_iterator(k, f) = Min(above)
    BY <1>5 DEF erase_iterator
  <2>3. \A t \in rest : \/ Min(above) > k /\ ~(t > k)
                        \/ (Min(above) > k <=> t > k) /\ Min(above) <= t
    BY <2>1
  <2>4. Min(above) \in rest /\ Min(above) # END
    BY <1>1, <2>1, SMTT(30) DEF END
  <2> QED
    BY <1>4, <2>2, <2>3, <2>4
<1>6. CASE above = {} /\ rest # {}
  <2>1. Min(rest) \in rest /\ \A t \in rest : Min(rest) <= t
    BY <1>1, <1>6, LeastNumber
  <2>2. erase_iterator(k, f) = Min(rest)
    BY <1>6 DEF erase_iterator
  <2>3. \A t \in rest : ~(t > k)
    BY <1>6
  <2>4. Min(rest) # END
    BY <1>1, <2>1, SMTT(30) DEF END
  <2> QED
    BY <1>4, <2>1, <2>2, <2>3, <2>4
<1>7. CASE rest = {}
  <2>1. erase_iterator(k, f) = END
    BY <1>7 DEF erase_iterator
  <2> QED
    BY <1>2, <1>7, <2>1
<1> QED
  BY <1>5, <1>6, <1>7

\* A direction starts with nothing held.
LEMMA InitDInv == Init => DInv
BY InitIInv, SMT DEF Init, NewHalf, NoFragments, DInv, HeldAccounted, IteratorLeads, StartFrom

\* The bytes of a captured chunk are old, or a fragment holds them; and the
\* fragment at the next byte expected, if there is one, is the first.
LEMMA CaptureDInv ==
  ASSUME DInv, NEW first \in 0 .. StreamLen, NEW n \in 1 .. MaxSegment, Capture(first, n)
  PROVE  HeldAccounted' /\ IteratorLeads'
<1> DEFINE seq == uint32(ISN + first)
           raw == Bytes(first, n)
<1>0. IInv /\ HeldAccounted /\ IteratorLeads
  BY DEF DInv
<1>1. /\ first \in Nat /\ n \in Nat /\ first + n <= StreamLen
      /\ Cur - first < seq_number_diff /\ (first + n) - Cur < seq_number_diff
      /\ Cur = Base /\ h.pload = <<>> /\ pc = "idle" /\ delivered' = delivered
      /\ overruns(h, seq, raw) => h' = h /\ pc' = "crashed" /\ held' = held
      /\ ~overruns(h, seq, raw) =>
              /\ h' = store(h, seq, raw)
              /\ pc' = "loop" /\ held' = held \cup (first .. first + n - 1)
  BY <1>0, CaptureLoops
<1>2. /\ Cur \in Nat /\ Base \in Nat /\ StreamLen \in Nat /\ seq_number_diff \in Nat
      /\ ISN \in Nat /\ h.my_seq = uint32(ISN + Cur) /\ Placed(h.frags, Base)
      /\ held \subseteq Nat /\ Cur <= StreamLen
  BY <1>0, Positions DEF IInv, TypeOK
<1>3. StartFrom(h.frags, Base, Cur + 1)
  BY <1>0, <1>1 DEF IteratorLeads
<1>4. Base' = Base
  BY <1>1 DEF Base
<1>5. CASE overruns(h, seq, raw)
  <2>1. h' = h /\ pc' = "crashed" /\ held' = held /\ Cur' = Cur
    BY <1>1, <1>5 DEF Cur
  <2> QED
    BY <1>0, <1>3, <1>4, <2>1 DEF HeldAccounted, IteratorLeads
<1>6. CASE ~overruns(h, seq, raw) /\ ~accepts(h, seq, raw)
  <2>1. h'.frags = h.frags /\ h'.it = END /\ h'.pload = h.pload
    <3>1. h = [my_seq |-> h.my_seq, pload |-> h.pload, frags |-> h.frags,
               it |-> h.it, added_some |-> h.added_some]
      BY <1>0 DEF IInv, TypeOK
    <3>2. h' = [my_seq |-> h.my_seq, pload |-> h.pload, frags |-> h.frags,
                it |-> END, added_some |-> FALSE]
      BY <1>1, <1>6, <3>1 DEF store
    <3> QED
      BY <3>2
  <2>2. Cur' = Cur
    BY <1>1, <2>1 DEF Cur
  <2>3. first + n <= Cur
    <3>1. n <= SEQ_SPACE - 2
      BY <1>1, <1>2, SMT DEF SEQ_SPACE
    <3>2. PICK e \in {first + n, first + n + 1} : add_sequence_numbers(seq, n) = uint32(ISN + e)
      BY <1>1, <3>1, EndOffset
    <3>3. Len(raw) = n
      BY <1>1, BytesIsPayload
    <3>4. ~(compare_seq_numbers(uint32(ISN + e), h.my_seq) >= 0)
      BY <1>6, <3>2, <3>3 DEF accepts
    <3>5. CASE first + n > Cur /\ e - Cur < seq_number_diff
      <4>1. e \in Nat /\ Cur - e < seq_number_diff /\ e > Cur
        BY <1>1, <1>2, <3>5, SMTT(30)
      <4>2. compare_seq_numbers(uint32(ISN + e), h.my_seq) > 0
        BY <1>0, <3>5, <4>1, ComparesOffsets
      <4> QED
        BY <3>4, <4>2, SMTT(30) DEF compare_seq_numbers
    <3>6. CASE ~(e - Cur < seq_number_diff)
      <4> DEFINE x == ISN + e
                 y == ISN + Cur
      <4>1. x \in Int /\ y \in Int /\ x - y = seq_number_diff
        BY <1>1, <1>2, <3>6, SMTT(30)
      <4> HIDE DEF x, y
      <4>2. compare_seq_numbers(uint32(x), uint32(y)) = 1
        BY <4>1, CompareAtHalf
      <4> QED
        BY <1>2, <3>4, <4>2, SMTT(30) DEF x, y
    <3> QED
      BY <1>1, <1>2, <3>5, <3>6, SMTT(30)
  <2>4. \A o \in first .. first + n - 1 : o < Cur
    BY <1>1, <1>2, <2>3, SMTT(30)
  <2>5. HeldAccounted'
    BY <1>0, <1>1, <1>4, <1>6, <2>1, <2>2, <2>4, ZenonT(30) DEF HeldAccounted
  <2>6. IteratorLeads'
    BY <1>3, <1>4, <2>1, <2>2 DEF IteratorLeads
  <2> QED
    BY <2>5, <2>6
<1>7. CASE ~overruns(h, seq, raw) /\ accepts(h, seq, raw)
  <2>1. PICK s \in SeqNumber, p \in Payload, a \in 0 .. StreamLen :
            /\ PlacedAt(s, p, a, Base)
            /\ a = (IF first < Cur THEN Cur ELSE first) /\ a + Len(p) = first + n
            /\ h' = [my_seq |-> h.my_seq, pload |-> h.pload,
                     frags |-> safe_insert(h.frags, s, p),
                     it |-> IF h.my_seq \in DOMAIN safe_insert(h.frags, s, p)
                            THEN h.my_seq ELSE END,
                     added_some |-> FALSE]
    BY <1>0, <1>7, CaptureStores
  <2> DEFINE f == safe_insert(h.frags, s, p)
  <2>2. /\ h'.frags = f /\ h'.pload = h.pload
        /\ h'.it = IF h.my_seq \in DOMAIN f THEN h.my_seq ELSE END
    BY <2>1
  <2>3. Cur' = Cur
    BY <1>1, <2>2 DEF Cur
  <2>4. \A o \in Nat : Covered(h.frags, Base, o) => Covered(f, Base, o)
    BY <1>2, <2>1, InsertCovers
  <2>5. \A o \in Nat : a <= o /\ o < a + Len(p) => Covered(f, Base, o)
    BY <1>2, <2>1, InsertCovers
  <2>6. Cur <= a
    BY <1>1, <1>2, <2>1, SMTT(30)
  <2>7. StartFrom(f, Base, Cur)
    <3>1. StartFrom(h.frags, Base, Cur)
      BY <1>2, <1>3, SMT DEF StartFrom
    <3> QED
      BY <1>2, <2>1, <2>6, <3>1, InsertStart
  <2>8. Placed(f, Base)
    BY <1>2, <2>1, InsertPlaced
  <2> HIDE DEF f
  <2>9. HeldAccounted'
    <3> SUFFICES ASSUME NEW o \in held' PROVE o < Cur \/ Covered(f, Base, o)
      BY <1>4, <2>2, <2>3 DEF HeldAccounted
    <3>1. CASE o \in held
      BY <1>0, <1>2, <2>4, <3>1 DEF HeldAccounted
    <3>2. CASE o \in first .. first + n - 1
      <4>1. o \in Nat /\ (o < Cur \/ (a <= o /\ o < a + Len(p)))
        BY <1>1, <1>2, <2>1, <3>2, SMTT(30)
      <4> QED
        BY <2>5, <4>1
    <3> QED
      BY <1>1, <1>7, <3>1, <3>2
  <2>10. IteratorLeads'
    <3>1. CASE h.my_seq \in DOMAIN f
      <4>1. PICK b \in 0 .. StreamLen : PlacedAt(h.my_seq, f[h.my_seq], b, Base)
        BY <2>8, <3>1 DEF Placed
      <4>2. Len(f[h.my_seq]) \in Nat
        BY <4>1, LenProperties DEF PlacedAt, Payload
      <4>3. b \in Nat /\ Cur <= b /\ b - Cur < seq_number_diff /\ Cur - b < seq_number_diff
        <5>1. Base <= b /\ (b + Len(f[h.my_seq])) - Base < seq_number_diff
          BY <4>1 DEF PlacedAt
        <5> QED
          BY <1>1, <1>2, <4>2, <5>1, SMTT(30)
      <4>4. compare_seq_numbers(uint32(ISN + b), h.my_seq) = 0
        BY <4>1 DEF PlacedAt, compare_seq_numbers
      <4>5. b = Cur
        BY <1>0, <4>3, <4>4, ComparesOffsets
      <4>6. h.my_seq # END
        BY <1>0, SpaceIsNat, SMTT(30) DEF IInv, TypeOK, SeqNumber, END
      <4> QED
        <5>1. h'.it = h.my_seq /\ StartFrom(f, Base, b)
          BY <2>2, <2>7, <3>1, <4>5
        <5>2. \E c \in 0 .. StreamLen :
                PlacedAt(h'.it, h'.frags[h'.it], c, Base') /\ StartFrom(h'.frags, Base', c)
          BY <1>4, <2>2, <4>1, <5>1
        <5>3. h'.it # END /\ pc' = "loop"
          BY <1>1, <1>7, <4>6, <5>1
        <5> QED
          BY <5>2, <5>3 DEF IteratorLeads
    <3>2. CASE h.my_seq \notin DOMAIN f
      <4>1. StartFrom(f, Base, Cur + 1)
        <5> SUFFICES ASSUME NEW t \in DOMAIN f, NEW b \in 0 .. StreamLen,
                            PlacedAt(t, f[t], b, Base)
                     PROVE  Cur + 1 <= b
          BY DEF StartFrom
        <5>1. Cur <= b
          BY <2>7 DEF StartFrom
        <5>2. b # Cur
          BY <1>2, <3>2 DEF PlacedAt
        <5> QED
          BY <1>2, <5>1, <5>2, SMTT(30)
      <4>2. h'.it = END
        BY <2>2, <3>2
      <4> QED
        BY <1>4, <2>2, <2>3, <4>1, <4>2 DEF IteratorLeads
    <3> QED
      BY <3>1, <3>2
  <2> QED
    BY <2>9, <2>10
<1> QED
  BY <1>5, <1>6, <1>7

\* The loop's condition says that the fragment at the iterator is not one that
\* starts after the next byte expected.
LEMMA LoopReached ==
  ASSUME IInv, pc = "loop", IteratorLeads, ~looping(h)
  PROVE  StartFrom(h.frags, Base, Cur + 1)
<1>1. CASE h.it = END
  BY <1>1 DEF IteratorLeads
<1>2. CASE h.it # END
  <2>1. PICK a \in 0 .. StreamLen :
           PlacedAt(h.it, h.frags[h.it], a, Base) /\ StartFrom(h.frags, Base, a)
    BY <1>2 DEF IteratorLeads
  <2>2. PICK b \in 0 .. StreamLen :
           /\ PlacedAt(h.it, h.frags[h.it], b, Base)
           /\ b - Cur < seq_number_diff /\ Cur - b < seq_number_diff
    BY <1>2, AtIterator
  <2>3. Base \in Nat /\ Cur \in Nat /\ StreamLen \in Nat
    BY Positions
  <2>4. a = b
    BY <2>1, <2>2, <2>3, OneOffset
  <2>5. ~(compare_seq_numbers(uint32(ISN + a), h.my_seq) <= 0)
    BY <1>2, <2>1 DEF looping, PlacedAt
  <2>6. a > Cur
    <3>1. a \in Nat /\ a - Cur < seq_number_diff /\ Cur - a < seq_number_diff
      BY <2>2, <2>3, <2>4, SMTT(30)
    <3>2. LET c == compare_seq_numbers(uint32(ISN + a), h.my_seq)
          IN  (c < 0 <=> a < Cur) /\ (c = 0 <=> a = Cur) /\ (c > 0 <=> a > Cur)
      BY <3>1, ComparesOffsets
    <3>3. compare_seq_numbers(uint32(ISN + a), h.my_seq) \in {-1, 0, 1}
      BY DEF compare_seq_numbers
    <3> QED
      BY <2>3, <2>5, <3>1, <3>2, <3>3, SMTT(30)
  <2> QED
    BY <2>1, <2>3, <2>6, SMTT(30) DEF StartFrom
<1> QED
  BY <1>1, <1>2

\* When the fragment at the iterator is erased, the iterator leads the others.
LEMMA IteratorMoves ==
  ASSUME NEW f, NEW base \in Nat, Placed(f, base),
         NEW k, NEW p, NEW a \in 0 .. StreamLen, PlacedAt(k, p, a, base), StartFrom(f, base, a),
         h'.frags = erase(f, k), h'.it = erase_iterator(k, f), Base' = base, pc' = "loop"
  PROVE  IteratorLeads'
<1> DEFINE g == erase(f, k)
           i == erase_iterator(k, f)
<1>1. IF i = END
      THEN DOMAIN g = {}
      ELSE \E d \in 0 .. StreamLen :
             a < d /\ PlacedAt(i, g[i], d, base) /\ StartFrom(g, base, d)
  BY NextInOrder
<1> HIDE DEF g, i
<1>2. h'.frags = g /\ h'.it = i
  BY DEF g, i
<1>3. CASE i = END
  <2>1. StartFrom(g, base, Cur' + 1)
    BY <1>1, <1>3 DEF StartFrom
  <2> QED
    BY <1>2, <1>3, <2>1 DEF IteratorLeads
<1>4. CASE i # END
  BY <1>1, <1>2, <1>4 DEF IteratorLeads
<1> QED
  BY <1>3, <1>4

\* A cut fragment leaves its bytes that are not old at my_seq.
LEMMA CutDInv ==
  ASSUME DInv, Cut
  PROVE  HeldAccounted' /\ IteratorLeads'
<1>0. IInv /\ HeldAccounted /\ IteratorLeads
  BY DEF DInv
<1>1. /\ pc = "loop" /\ h.it # END /\ pc' = pc /\ delivered' = delivered /\ held' = held
  BY DEF Cut, looping
<1>2. PICK a \in 0 .. StreamLen, tail \in Payload :
            /\ PlacedAt(h.it, h.frags[h.it], a, Base) /\ h.it \in DOMAIN h.frags
            /\ a < Cur /\ Cur + Len(tail) = a + Len(h.frags[h.it])
            /\ PlacedAt(h.my_seq, tail, Cur, Base)
            /\ h' = [my_seq |-> h.my_seq, pload |-> h.pload,
                     frags |-> erase(safe_insert(h.frags, h.my_seq, tail), h.it),
                     it |-> erase_iterator(h.it, safe_insert(h.frags, h.my_seq, tail)),
                     added_some |-> h.added_some]
  BY <1>0, CutMoves
<1> DEFINE f == safe_insert(h.frags, h.my_seq, tail)
           g == erase(f, h.it)
<1>3. /\ Base \in Nat /\ Cur \in Nat /\ Cur \in 0 .. StreamLen /\ StreamLen \in Nat
      /\ h.my_seq = uint32(ISN + Cur) /\ Placed(h.frags, Base) /\ held \subseteq Nat
  BY <1>0, Positions, SMTT(30) DEF IInv, TypeOK
<1>4. /\ h'.frags = g /\ h'.it = erase_iterator(h.it, f) /\ h'.pload = h.pload
      /\ Base' = Base /\ Cur' = Cur
  BY <1>1, <1>2 DEF Base, Cur
<1>5. StartFrom(h.frags, Base, a)
  <2>1. PICK b \in 0 .. StreamLen :
           PlacedAt(h.it, h.frags[h.it], b, Base) /\ StartFrom(h.frags, Base, b)
    BY <1>0, <1>1 DEF IteratorLeads
  <2>2. a = b
    BY <1>2, <1>3, <2>1, OneOffset, ZenonT(30)
  <2> QED
    BY <2>1, <2>2
<1>6. StartFrom(f, Base, a) /\ Placed(f, Base)
  BY <1>2, <1>3, <1>5, InsertStart, InsertPlaced, SMTT(30)
<1>7. h.it # h.my_seq
  <2> SUFFICES ASSUME h.it = h.my_seq PROVE FALSE
    OBVIOUS
  <2>1. a = Cur
    BY <1>2, <1>3, OneOffset
  <2> QED
    BY <1>2, <1>3, <2>1, SMTT(30)
<1> DEFINE e == erase(h.frags, h.it)
<1>8. g = safe_insert(e, h.my_seq, tail)
  BY <1>7 DEF safe_insert, erase, Restrict
<1>9. Placed(e, Base)
  BY <1>3, ErasePlaced
<1> HIDE DEF e, g
<1>10. HeldAccounted'
  <2> SUFFICES ASSUME NEW o \in held PROVE o < Cur \/ Covered(g, Base, o)
    BY <1>1, <1>4 DEF HeldAccounted
  <2>1. o \in Nat /\ (o < Cur \/ Covered(h.frags, Base, o))
    BY <1>0, <1>3 DEF HeldAccounted
  <2>2. CASE Covered(h.frags, Base, o) /\ ~(a <= o /\ o < a + Len(h.frags[h.it]))
    <3>1. Covered(e, Base, o)
      BY <1>2, <1>3, <2>1, <2>2, EraseCovers DEF e
    <3> QED
      BY <1>2, <1>3, <1>8, <1>9, <2>1, <3>1, InsertCovers, ZenonT(30)
  <2>3. CASE a <= o /\ o < a + Len(h.frags[h.it])
    <3>1. o < Cur \/ (Cur <= o /\ o < Cur + Len(tail))
      BY <1>2, <1>3, <2>1, <2>3, SMTT(30)
    <3> QED
      BY <1>2, <1>3, <1>8, <1>9, <2>1, <3>1, InsertCovers, ZenonT(30)
  <2> QED
    BY <2>1, <2>2, <2>3
<1>11. IteratorLeads'
  BY <1>1, <1>2, <1>3, <1>4, <1>6, IteratorMoves DEF g
<1> QED
  BY <1>10, <1>11

\* A fragment is discarded only when all of its bytes are old.
LEMMA DiscardDInv ==
  ASSUME DInv, Discard
  PROVE  HeldAccounted' /\ IteratorLeads'
<1> DEFINE p == h.frags[h.it]
           n == Len(p)
           g == erase(h.frags, h.it)
<1>0. IInv /\ HeldAccounted /\ IteratorLeads
  BY DEF DInv
<1>1. /\ pc = "loop" /\ h.it # END /\ discards(h) /\ h' = discard(h) /\ pc' = pc
      /\ delivered' = delivered /\ held' = held
  BY DEF Discard, looping
<1>2. PICK a \in 0 .. StreamLen :
        /\ PlacedAt(h.it, p, a, Base)
        /\ a - Cur < seq_number_diff /\ Cur - a < seq_number_diff
  BY <1>0, <1>1, AtIterator, ZenonT(30)
<1>3. /\ Base \in Nat /\ Cur \in Nat /\ Base <= Cur /\ Cur < Base + seq_number_diff
      /\ seq_number_diff \in Nat /\ StreamLen \in Nat /\ ISN \in Nat
      /\ Placed(h.frags, Base) /\ held \subseteq Nat
  BY <1>0, Positions, SMTT(30) DEF IInv, TypeOK
<1>4. /\ a \in Nat /\ n \in Nat /\ h.it = uint32(ISN + a) /\ Base <= a
      /\ (a + n) - Base < seq_number_diff
  BY <1>2, <1>3, LenProperties, SMTT(30) DEF PlacedAt, Payload
<1>5. /\ h'.frags = g /\ h'.it = erase_iterator(h.it, h.frags)
      /\ Base' = Base /\ Cur' = Cur
  <2>1. h = [my_seq |-> h.my_seq, pload |-> h.pload, frags |-> h.frags,
             it |-> h.it, added_some |-> h.added_some]
    BY <1>0 DEF IInv, TypeOK
  <2>2. h' = [my_seq |-> h.my_seq, pload |-> h.pload, frags |-> g,
              it |-> erase_iterator(h.it, h.frags), added_some |-> h.added_some]
    BY <1>1, <2>1 DEF discard
  <2>3. h'.frags = g /\ h'.it = erase_iterator(h.it, h.frags) /\ h'.pload = h.pload
    BY <2>2
  <2> QED
    BY <1>1, <2>3 DEF Base, Cur
<1>6. StartFrom(h.frags, Base, a)
  <2>1. PICK b \in 0 .. StreamLen :
           PlacedAt(h.it, p, b, Base) /\ StartFrom(h.frags, Base, b)
    BY <1>0, <1>1 DEF IteratorLeads
  <2>2. a = b
    BY <1>2, <1>3, <2>1, OneOffset
  <2> QED
    BY <2>1, <2>2
<1> HIDE DEF n
<1>7. a + n <= Cur
  <2>1. n <= SEQ_SPACE - 2
    BY <1>3, <1>4, SMTT(30) DEF SEQ_SPACE
  <2>2. PICK e \in {a + n, a + n + 1} :
           add_sequence_numbers(uint32(ISN + a), n) = uint32(ISN + e)
    BY <1>4, <2>1, EndOffset
  <2>3. fragment_end(h) = uint32(ISN + e)
    BY <1>4, <2>2 DEF fragment_end, n
  <2>4. a < Cur
    BY <1>0, <1>1, <1>2, <1>4, ComparesOffsets, ZenonT(30) DEF discards
  <2>5. e \in Nat /\ e - Cur < seq_number_diff /\ Cur - e < seq_number_diff
    BY <1>2, <1>3, <1>4, <2>4, SMTT(30)
  <2>6. compare_seq_numbers(uint32(ISN + e), h.my_seq) <= 0
    BY <1>1, <2>3 DEF discards
  <2>7. LET c == compare_seq_numbers(uint32(ISN + e), h.my_seq)
        IN  (c < 0 <=> e < Cur) /\ (c = 0 <=> e = Cur) /\ (c > 0 <=> e > Cur)
    BY <1>0, <2>5, ComparesOffsets
  <2>8. compare_seq_numbers(uint32(ISN + e), h.my_seq) \in {-1, 0, 1}
    BY DEF compare_seq_numbers
  <2>9. ~(e > Cur)
    BY <2>6, <2>7, <2>8, SMTT(30)
  <2> QED
    BY <1>3, <1>4, <2>2, <2>5, <2>9, SMTT(30)
<1>8. HeldAccounted'
  <2> SUFFICES ASSUME NEW o \in held PROVE o < Cur \/ Covered(g, Base, o)
    BY <1>1, <1>5 DEF HeldAccounted
  <2>1. o \in Nat /\ (o < Cur \/ Covered(h.frags, Base, o))
    BY <1>0, <1>3 DEF HeldAccounted
  <2>2. CASE Covered(h.frags, Base, o) /\ ~(a <= o /\ o < a + n)
    BY <1>2, <1>3, <2>1, <2>2, EraseCovers DEF n
  <2>3. CASE a <= o /\ o < a + n
    BY <1>3, <1>4, <1>7, <2>1, <2>3, SMTT(30)
  <2> QED
    BY <2>1, <2>2, <2>3
<1>9. IteratorLeads'
  BY <1>1, <1>2, <1>3, <1>5, <1>6, IteratorMoves
<1> QED
  BY <1>8, <1>9

\* The bytes of an appended fragment come before the new my_seq.
LEMMA AppendDInv ==
  ASSUME DInv, Append1
  PROVE  HeldAccounted' /\ IteratorLeads'
<1> DEFINE p == h.frags[h.it]
           n == Len(p)
           g == erase(h.frags, h.it)
<1>0. IInv /\ HeldAccounted /\ IteratorLeads
  BY DEF DInv
<1>1. pc = "loop" /\ h.it # END /\ pc' = pc /\ held' = held
  BY DEF Append1, looping
<1>2. /\ PlacedAt(h.it, p, Cur, Base) /\ h.it \in DOMAIN h.frags
      /\ Base' = Base /\ Cur' = Cur + n
      /\ h'.frags = g /\ h'.it = erase_iterator(h.it, h.frags)
  BY <1>0, AppendMoves
<1>3. /\ Base \in Nat /\ Cur \in Nat /\ Cur \in 0 .. StreamLen
      /\ Placed(h.frags, Base) /\ held \subseteq Nat /\ n \in Nat
  BY <1>0, <1>2, Positions, LenProperties, SMTT(30) DEF IInv, TypeOK, PlacedAt, Payload
<1>4. StartFrom(h.frags, Base, Cur)
  <2>1. PICK b \in 0 .. StreamLen :
           PlacedAt(h.it, p, b, Base) /\ StartFrom(h.frags, Base, b)
    BY <1>0, <1>1 DEF IteratorLeads
  <2>2. Cur = b
    BY <1>2, <1>3, <2>1, OneOffset
  <2> QED
    BY <2>1, <2>2
<1> HIDE DEF n
<1>5. HeldAccounted'
  <2> SUFFICES ASSUME NEW o \in held PROVE o < Cur + n \/ Covered(g, Base, o)
    BY <1>1, <1>2 DEF HeldAccounted
  <2>1. o \in Nat /\ (o < Cur \/ Covered(h.frags, Base, o))
    BY <1>0, <1>3 DEF HeldAccounted
  <2>2. CASE Covered(h.frags, Base, o) /\ ~(Cur <= o /\ o < Cur + n)
    BY <1>2, <1>3, <2>1, <2>2, EraseCovers DEF n
  <2>3. o < Cur => o < Cur + n
    BY <1>3, <2>1, SMTT(30)
  <2> QED
    BY <2>1, <2>2, <2>3
<1>6. IteratorLeads'
  BY <1>1, <1>2, <1>3, <1>4, IteratorMoves
<1> QED
  BY <1>5, <1>6

\* After generic_process has returned, no fragment starts at the byte expected.
LEMMA ReturnDInv ==
  ASSUME DInv, ReturnTrue \/ ReturnFalse
  PROVE  HeldAccounted' /\ IteratorLeads'
<1>0. IInv /\ HeldAccounted /\ IteratorLeads
  BY DEF DInv
<1>1. CASE ReturnTrue
  <2>1. h'.frags = NoFragments /\ held' = {} /\ pc' = "idle"
    <3>1. h = [my_seq |-> h.my_seq, pload |-> h.pload, frags |-> h.frags,
               it |-> h.it, added_some |-> h.added_some]
      BY <1>0 DEF IInv, TypeOK
    <3>2. h' = [my_seq |-> h.my_seq, pload |-> <<>>, frags |-> NoFragments,
                it |-> END, added_some |-> FALSE]
      BY <1>1, <3>1 DEF ReturnTrue, cap
    <3> QED
      BY <1>1, <3>2, SMTT(30) DEF ReturnTrue
  <2>2. DOMAIN h'.frags = {}
    BY <2>1 DEF NoFragments
  <2> QED
    BY <2>1, <2>2 DEF HeldAccounted, IteratorLeads, StartFrom
<1>2. CASE ReturnFalse
  <2>1. pc = "loop" /\ ~looping(h) /\ pc' = "idle" /\ held' = held /\ delivered' = delivered
    BY <1>2 DEF ReturnFalse
  <2>2. h'.frags = h.frags /\ h'.pload = h.pload
    <3>1. h = [my_seq |-> h.my_seq, pload |-> h.pload, frags |-> h.frags,
               it |-> h.it, added_some |-> h.added_some]
      BY <1>0 DEF IInv, TypeOK
    <3>2. h' = [my_seq |-> h.my_seq, pload |-> h.pload, frags |-> h.frags,
                it |-> END, added_some |-> h.added_some]
      BY <1>2, <3>1 DEF ReturnFalse
    <3> QED
      BY <3>2
  <2>3. Base' = Base /\ Cur' = Cur
    BY <2>1, <2>2 DEF Base, Cur
  <2>4. StartFrom(h.frags, Base, Cur + 1)
    BY <1>0, <2>1, LoopReached
  <2> QED
    BY <1>0, <2>1, <2>2, <2>3, <2>4 DEF HeldAccounted, IteratorLeads
<1> QED
  BY <1>1, <1>2

\* Every step keeps the bytes accounted for and the iterator in front.
LEMMA NextDInv == DInv /\ [Next]_vars => DInv'
<1> SUFFICES ASSUME DInv, [Next]_vars PROVE DInv'
  OBVIOUS
<1>1. IInv'
  BY NextIInv DEF DInv
<1>2. ASSUME NEW first \in 0 .. StreamLen, NEW n \in 1 .. MaxSegment, Capture(first, n)
      PROVE  HeldAccounted' /\ IteratorLeads'
  BY <1>2, CaptureDInv
<1>3. ASSUME Process
      PROVE  HeldAccounted' /\ IteratorLeads'
  <2>1. CASE Cut
    BY <2>1, CutDInv
  <2>2. CASE Discard
    BY <2>2, DiscardDInv
  <2>3. CASE Append1
    BY <2>3, AppendDInv
  <2>4. CASE ReturnTrue \/ ReturnFalse
    BY <2>4, ReturnDInv
  <2> QED
    BY <1>3, <2>1, <2>2, <2>3, <2>4 DEF Process
<1>4. ASSUME UNCHANGED vars
      PROVE  HeldAccounted' /\ IteratorLeads'
  <2>1. Base' = Base /\ Cur' = Cur /\ h' = h /\ pc' = pc /\ held' = held
    BY <1>4 DEF vars, Base, Cur
  <2> QED
    BY <2>1 DEF DInv, HeldAccounted, IteratorLeads
<1>5. HeldAccounted' /\ IteratorLeads'
  BY <1>2, <1>3, <1>4 DEF Next
<1> QED
  BY <1>1, <1>5 DEF DInv

\* When generic_process has left its loop, the byte it waits for has not been
\* captured since the last cap: no fragment that was due is left behind, by the
\* loop, by its iterator or by safe_insert.
THEOREM NothingDueIsLeftBehind == Spec => []NothingDueIsHeld
<1>1. DInv => NothingDueIsHeld
  <2> SUFFICES ASSUME DInv, pc # "loop" \/ ~looping(h), Cur \in held PROVE FALSE
    BY DEF NothingDueIsHeld
  <2>0. IInv /\ HeldAccounted /\ IteratorLeads
    BY DEF DInv
  <2>1. StartFrom(h.frags, Base, Cur + 1)
    <3>1. CASE pc # "loop"
      BY <2>0, <3>1 DEF IteratorLeads
    <3>2. CASE pc = "loop"
      BY <2>0, <3>2, LoopReached
    <3> QED
      BY <3>1, <3>2
  <2>2. Cur \in Nat
    BY <2>0, Positions
  <2>3. Covered(h.frags, Base, Cur)
    BY <2>0, <2>2, SMT DEF HeldAccounted
  <2>4. PICK s \in DOMAIN h.frags, a \in 0 .. StreamLen :
          PlacedAt(s, h.frags[s], a, Base) /\ a <= Cur
    BY <2>3 DEF Covered
  <2>5. Cur + 1 <= a
    BY <2>1, <2>4 DEF StartFrom
  <2> QED
    BY <2>2, <2>4, <2>5, SMTT(30)
<1> QED
  BY <1>1, InitDInv, NextDInv, PTL DEF Spec

-----------------------------------------------------------------------------
(* The map of sessions of TCPCapStreamFollower, for any connections, any   *)
(* captures of their packets and any number of streams.                    *)

\* A captured packet goes from one end of its connection to the other.
LEMMA PacketEnds ==
  ASSUME NEW c \in Connections, NEW pkt \in Packets(c)
  PROVE  /\ pkt.src # pkt.dst
         /\ pkt.src \in Endpoints /\ pkt.dst \in Endpoints
<1>1. c.client # c.server /\ c.client \in Endpoints /\ c.server \in Endpoints
  BY ConnectionAssumption, ZenonT(30) DEF Endpoints
<1>2. \E d \in Directions : pkt.src = Source(c, d) /\ pkt.dst = Destination(c, d)
  <2>1. CASE pkt \in Handshake(c)
    BY <2>1, SMTT(30) DEF Handshake, Packet, Directions
  <2>2. ASSUME NEW d \in Directions, pkt \in Segments(c, d)
        PROVE  pkt.src = Source(c, d) /\ pkt.dst = Destination(c, d)
    BY <2>2, SMTT(30) DEF Segments, Segment, Packet
  <2>3. ASSUME NEW d \in Directions, pkt \in Resets(c, d)
        PROVE  pkt.src = Source(c, d) /\ pkt.dst = Destination(c, d)
    BY <2>3, SMT DEF Resets, Packet
  <2> QED
    BY <2>1, <2>2, <2>3 DEF Packets
<1> QED
  BY <1>1, <1>2 DEF Directions, Source, Destination

\* What update changes of a stream is neither its key nor its identifier.
LEMMA UpdateKeeps ==
  ASSUME NEW st, NEW pkt, NEW i, NEW id, NEW hs, NEW s, NEW f,
         st = [info |-> i, identifier |-> id, half |-> hs, syn_ack_sent |-> s, fin_sent |-> f]
  PROVE  \E h2, s2, f2 :
           update(st, pkt) = [info |-> i, identifier |-> id, half |-> h2,
                              syn_ack_sent |-> s2, fin_sent |-> f2]
<1> DEFINE d  == Dir(st, pkt)
           g  == generic_process(hs[d], pkt)
           fl == f \/ pkt.flags \cap {"FIN", "RST"} # {}
           h1 == [hs EXCEPT ![d] = g]
           h3 == [[hs EXCEPT !["server"].my_seq = uint32(pkt.seq + 1)]
                     EXCEPT !["client"].my_seq = pkt.ack_seq]
<1>1. st.half = hs /\ st.syn_ack_sent = s /\ st.fin_sent = f
  OBVIOUS
<1>2. CASE st.syn_ack_sent
  <2>1. update(st, pkt) = [st EXCEPT !.half[d] = g, !.fin_sent = fl]
    BY <1>1, <1>2 DEF update
  <2> HIDE DEF d, g, fl
  <2>2. update(st, pkt) = [info |-> i, identifier |-> id, half |-> [hs EXCEPT ![d] = g],
                           syn_ack_sent |-> s, fin_sent |-> fl]
    BY <1>1, <2>1
  <2> QED
    BY <2>2
<1>3. CASE ~st.syn_ack_sent
  <2>1. CASE pkt.flags = {"SYN", "ACK"}
    <3>1. update(st, pkt) = [st EXCEPT !.half["server"].my_seq = uint32(pkt.seq + 1),
                                       !.half["client"].my_seq = pkt.ack_seq,
                                       !.syn_ack_sent = TRUE]
      BY <1>3, <2>1 DEF update
    <3>2. update(st, pkt) = [info |-> i, identifier |-> id, half |-> update(st, pkt).half,
                             syn_ack_sent |-> TRUE, fin_sent |-> f]
      BY <3>1
    <3> QED
      BY <3>2
  <2>2. CASE pkt.flags # {"SYN", "ACK"}
    BY <1>3, <2>2 DEF update
  <2> QED
    BY <2>1, <2>2
<1> QED
  BY <1>2, <1>3

\* The callback finds a session of the map, or none under either key.
LEMMA FindFinds ==
  ASSUME NEW pkt
  PROVE  /\ find(pkt) \subseteq DOMAIN sessions
         /\ find(pkt) = {} => /\ <<pkt.src, pkt.dst>> \notin DOMAIN sessions
                              /\ <<pkt.dst, pkt.src>> \notin DOMAIN sessions
BY DEF find

-----------------------------------------------------------------------------
\* No two endpoints ever have two sessions.
THEOREM OneSession == FollowerSpec => []OneSessionPerPair
<1>1. FollowerInit => OneSessionPerPair
  BY DEF FollowerInit, OneSessionPerPair
<1>2. OneSessionPerPair /\ wire \subseteq Connections /\ [FollowerNext]_follower_vars => OneSessionPerPair'
  <2> SUFFICES ASSUME OneSessionPerPair, wire \subseteq Connections, [FollowerNext]_follower_vars
               PROVE  OneSessionPerPair'
    OBVIOUS
  <2>1. ASSUME NEW c \in wire, NEW pkt \in Packets(c), OpenStream(c, pkt)
        PROVE  OneSessionPerPair'
    <3>1. pkt.src # pkt.dst
      BY PacketEnds
    <3>2. /\ DOMAIN sessions' = DOMAIN sessions \cup {<<pkt.dst, pkt.src>>}
          /\ <<pkt.src, pkt.dst>> \notin DOMAIN sessions
      BY <2>1, FindFinds DEF OpenStream
    <3> SUFFICES ASSUME NEW a \in Endpoints, NEW b \in Endpoints,
                        <<a, b>> \in DOMAIN sessions', <<b, a>> \in DOMAIN sessions'
                 PROVE  FALSE
      BY DEF OneSessionPerPair
    <3>3. CASE <<a, b>> = <<pkt.dst, pkt.src>>
      BY <3>1, <3>2, <3>3
    <3>4. CASE <<b, a>> = <<pkt.dst, pkt.src>>
      BY <3>1, <3>2, <3>4
    <3>5. CASE <<a, b>> \in DOMAIN sessions /\ <<b, a>> \in DOMAIN sessions
      BY <3>5 DEF OneSessionPerPair
    <3> QED
      BY <3>2, <3>3, <3>4, <3>5
  <2>2. ASSUME NEW c \in wire, NEW pkt \in Packets(c), UpdateStream(pkt)
        PROVE  OneSessionPerPair'
    <3>1. DOMAIN sessions' \subseteq DOMAIN sessions
      BY <2>2 DEF UpdateStream, Restrict
    <3> QED
      BY <3>1 DEF OneSessionPerPair
  <2>3. CASE sessions' = sessions
    BY <2>3 DEF OneSessionPerPair
  <2> QED
    BY <2>1, <2>2, <2>3 DEF FollowerNext, Connect, Die, follower_vars
<1>3. FollowerInit => wire \subseteq Connections
  BY DEF FollowerInit
<1>4. wire \subseteq Connections /\ [FollowerNext]_follower_vars => (wire \subseteq Connections)'
  BY DEF FollowerNext, Connect, OpenStream, UpdateStream, Die, follower_vars
<1> QED
  BY <1>1, <1>2, <1>3, <1>4, PTL DEF FollowerSpec

-----------------------------------------------------------------------------
\* A stream of the map is a record whose identifier was handed out.
Shape(st, n) ==
  /\ st = [info |-> st.info, identifier |-> st.identifier, half |-> st.half,
           syn_ack_sent |-> st.syn_ack_sent, fin_sent |-> st.fin_sent]
  /\ st.identifier \in 0 .. n - 1

SessionInv ==
  /\ last_identifier \in Nat
  /\ ended \subseteq 1 .. last_identifier
  /\ \A info \in DOMAIN sessions : Shape(sessions[info], last_identifier)
  /\ SessionsAreOpenStreams

\* OpenStream adds the identifier it hands out, and no other.
LEMMA OpenStreamInv ==
  ASSUME SessionInv, NEW c, NEW pkt, OpenStream(c, pkt)
  PROVE  SessionInv'
<1> DEFINE key == <<pkt.dst, pkt.src>>
           new == NewStream(pkt, last_identifier)
<1>1. /\ DOMAIN sessions' = DOMAIN sessions \cup {key}
      /\ sessions'[key] = new
      /\ \A i \in DOMAIN sessions : sessions'[i] = sessions[i]
      /\ key \notin DOMAIN sessions
      /\ last_identifier' = last_identifier + 1 /\ ended' = ended
  BY FindFinds DEF OpenStream
<1>2. /\ last_identifier \in Nat
      /\ ended \subseteq 1 .. last_identifier
      /\ \A i \in DOMAIN sessions : sessions[i].identifier \in 0 .. last_identifier - 1
  BY DEF SessionInv, Shape
<1>3. Shape(new, last_identifier') /\ new.identifier = last_identifier
  BY <1>1, <1>2, SMTT(30) DEF Shape, NewStream
<1>4. \A i \in DOMAIN sessions' : Shape(sessions'[i], last_identifier')
  <2> SUFFICES ASSUME NEW i \in DOMAIN sessions' PROVE Shape(sessions'[i], last_identifier')
    OBVIOUS
  <2>1. CASE i = key
    BY <1>1, <1>3, <2>1, ZenonT(30) DEF Shape
  <2>2. CASE i \in DOMAIN sessions
    BY <1>1, <1>2, <2>2, SMTT(30) DEF Shape, SessionInv
  <2> QED
    BY <1>1, <2>1, <2>2
<1> HIDE DEF key, new
<1>5. SessionsAreOpenStreams'
  <2>1. \A i, j \in DOMAIN sessions' :
           sessions'[i].identifier = sessions'[j].identifier => i = j
    BY <1>1, <1>2, <1>3, SMTT(30) DEF SessionInv, SessionsAreOpenStreams
  <2>2. {sessions[i].identifier + 1 : i \in DOMAIN sessions} = (1 .. last_identifier) \ ended
    BY DEF SessionInv, SessionsAreOpenStreams
  <2>3. {sessions'[i].identifier + 1 : i \in DOMAIN sessions'}
          = {sessions[i].identifier + 1 : i \in DOMAIN sessions} \cup {last_identifier + 1}
    BY <1>1, <1>3
  <2>4. (1 .. last_identifier') \ ended' = ((1 .. last_identifier) \ ended) \cup {last_identifier + 1}
    BY <1>1, <1>2, SMTT(30)
  <2> QED
    BY <2>1, <2>2, <2>3, <2>4 DEF SessionsAreOpenStreams
<1> QED
  BY <1>1, <1>2, <1>4, <1>5, SMTT(30) DEF SessionInv

\* update and cap leave the identifiers alone, and a session that is finished
\* leaves the map in the step that calls end_fun.
LEMMA UpdateStreamInv ==
  ASSUME SessionInv, NEW pkt, UpdateStream(pkt)
  PROVE  SessionInv'
<1>1. PICK key \in find(pkt) :
        LET st  == update(sessions[key], pkt)
            d   == Dir(st, pkt)
            hs   == st.half[d]
            new == [IF hs.added_some THEN cap(hs) ELSE hs
                      EXCEPT !.it = END, !.added_some = FALSE]
        IN  /\ sessions' = IF st.fin_sent
                           THEN Restrict(sessions, DOMAIN sessions \ {key})
                           ELSE [sessions EXCEPT ![key] = [st EXCEPT !.half[d] = new]]
            /\ ended' = IF st.fin_sent THEN ended \cup {st.identifier + 1} ELSE ended
  BY DEF UpdateStream
<1> DEFINE old == sessions[key]
           st  == update(old, pkt)
           id  == old.identifier
<1>2. last_identifier' = last_identifier
  BY DEF UpdateStream
<1>3. /\ key \in DOMAIN sessions
      /\ last_identifier \in Nat
      /\ ended \subseteq 1 .. last_identifier
      /\ \A i \in DOMAIN sessions : Shape(sessions[i], last_identifier)
      /\ \A i \in DOMAIN sessions : sessions[i].identifier \in 0 .. last_identifier - 1
      /\ {sessions[i].identifier + 1 : i \in DOMAIN sessions} = (1 .. last_identifier) \ ended
      /\ \A i, j \in DOMAIN sessions :
           sessions[i].identifier = sessions[j].identifier => i = j
  BY FindFinds DEF SessionInv, Shape, SessionsAreOpenStreams
<1>4. /\ st = [info |-> st.info, identifier |-> st.identifier, half |-> st.half,
               syn_ack_sent |-> st.syn_ack_sent, fin_sent |-> st.fin_sent]
      /\ st.identifier = id
  <2>1. old = [info |-> old.info, identifier |-> old.identifier, half |-> old.half,
               syn_ack_sent |-> old.syn_ack_sent, fin_sent |-> old.fin_sent]
    BY <1>3 DEF Shape
  <2> HIDE DEF old
  <2>2. PICK h2, s2, f2 :
           st = [info |-> old.info, identifier |-> old.identifier, half |-> h2,
                 syn_ack_sent |-> s2, fin_sent |-> f2]
    BY <2>1, UpdateKeeps, SMTT(30)
  <2> HIDE DEF st
  <2> QED
    BY <2>2
<1> HIDE DEF st
<1>5. CASE st.fin_sent
  <2>1. /\ DOMAIN sessions' = DOMAIN sessions \ {key}
        /\ \A i \in DOMAIN sessions' : sessions'[i] = sessions[i]
        /\ ended' = ended \cup {id + 1}
    BY <1>1, <1>4, <1>5 DEF Restrict, st
  <2> HIDE DEF id
  <2>2. id \in 0 .. last_identifier - 1
    BY <1>3 DEF id
  <2>3. {sessions'[i].identifier + 1 : i \in DOMAIN sessions'}
          = {sessions[i].identifier + 1 : i \in DOMAIN sessions} \ {id + 1}
    <3>1. \A i \in DOMAIN sessions : i # key => sessions[i].identifier + 1 # id + 1
      BY <1>3, <2>2, SMTT(30) DEF id
    <3>2. sessions[key].identifier + 1 = id + 1
      BY DEF id
    <3> QED
      BY <1>3, <2>1, <3>1, <3>2, SMTT(30)
  <2>4. SessionsAreOpenStreams'
    BY <1>2, <1>3, <2>1, <2>3, ZenonT(30) DEF SessionsAreOpenStreams
  <2>5. ended' \subseteq 1 .. last_identifier
    BY <1>3, <2>1, <2>2, SMTT(30)
  <2> QED
    BY <1>2, <1>3, <2>1, <2>4, <2>5 DEF SessionInv
<1>6. CASE ~st.fin_sent
  <2>1. PICK d, new : sessions' = [sessions EXCEPT ![key] = [st EXCEPT !.half[d] = new]]
    BY <1>1, <1>6 DEF st
  <2> DEFINE fresh == [st EXCEPT !.half[d] = new]
  <2>2. fresh = [info |-> st.info, identifier |-> id, half |-> fresh.half,
                 syn_ack_sent |-> st.syn_ack_sent, fin_sent |-> st.fin_sent]
    BY <1>4, SMTT(30)
  <2>3. fresh.identifier = id /\ Shape(fresh, last_identifier)
    BY <1>3, <2>2 DEF Shape
  <2>4. /\ DOMAIN sessions' = DOMAIN sessions
        /\ sessions'[key] = fresh
        /\ \A i \in DOMAIN sessions : i # key => sessions'[i] = sessions[i]
        /\ ended' = ended
    BY <1>1, <1>3, <1>6, <2>1 DEF st
  <2> HIDE DEF fresh
  <2>5. \A i \in DOMAIN sessions : /\ sessions'[i].identifier = sessions[i].identifier
                                   /\ Shape(sessions'[i], last_identifier)
    BY <1>3, <2>3, <2>4
  <2>6. SessionsAreOpenStreams'
    BY <1>2, <1>3, <2>4, <2>5, SMTT(30) DEF SessionsAreOpenStreams
  <2> QED
    BY <1>2, <1>3, <2>4, <2>5, <2>6 DEF SessionInv
<1> QED
  BY <1>5, <1>6

\* Sessions and open streams are the same thing, for any number of streams.
THEOREM OpenStreams == FollowerSpec => []SessionsAreOpenStreams
<1>1. FollowerInit => SessionInv
  BY SMT DEF FollowerInit, SessionInv, SessionsAreOpenStreams
<1>2. SessionInv /\ [FollowerNext]_follower_vars => SessionInv'
  <2> SUFFICES ASSUME SessionInv, [FollowerNext]_follower_vars PROVE SessionInv'
    OBVIOUS
  <2>1. ASSUME NEW c \in wire, NEW pkt \in Packets(c), OpenStream(c, pkt)
        PROVE  SessionInv'
    BY <2>1, OpenStreamInv
  <2>2. ASSUME NEW c \in wire, NEW pkt \in Packets(c), UpdateStream(pkt)
        PROVE  SessionInv'
    BY <2>2, UpdateStreamInv
  <2>3. CASE UNCHANGED <<sessions, last_identifier, ended>>
    BY <2>3 DEF SessionInv, SessionsAreOpenStreams
  <2> QED
    BY <2>1, <2>2, <2>3 DEF FollowerNext, Connect, Die, follower_vars
<1>3. SessionInv => SessionsAreOpenStreams
  BY DEF SessionInv
<1> QED
  BY <1>1, <1>2, <1>3, PTL DEF FollowerSpec
=============================================================================
