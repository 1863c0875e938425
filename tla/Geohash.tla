------------------------------ MODULE Geohash -------------------------------
(***************************************************************************)
(* redis/geohash.c and rgeohash.c: the bits of a hash, its neighbours, and *)
(* the text of a hash and back.  A coordinate is a whole number of units,  *)
(* HALF of them from the middle of the range to its end; the widths shrink *)
(* together, and 2 * STEP bits still fill the characters but for 2 bits.   *)
(***************************************************************************)
EXTENDS Integers, Sequences, Bitwise

CONSTANTS
    ROUNDS,     \* 5: a coordinate has 2^5 bits
    STEP,       \* 26, GEO_STEP_MAX
    CHARS,      \* 11, the characters of a hash
    HALF,       \* 180 of longitude, 90 of latitude
    LAT_MAX,    \* 85.05112878, GEO_LAT_MAX
    Points,     \* the coordinates that callers ask for
    MaxStep,    \* the steps of the hashes that are moved
    Garbage     \* what an uninitialized hash, or an undefined shift, may hold

VARIABLES hash, at,         \* a hash, and the cell it should be the hash of
          point, text       \* what was last made a text, and the text

vars == <<hash, at, point, text>>

WIDTH == 2 ^ (ROUNDS + 1)
Word(n) == n % 2 ^ WIDTH
abs(n) == IF n < 0 THEN -n ELSE n

\* B[k]: runs of 2^k ones and 2^k zeros, ones first.
B == [k \in 0 .. ROUNDS |-> (2 ^ WIDTH - 1) \div (2 ^ (2 ^ k) + 1)]
ODD == 2 * B[0]

spread(n) ==
    LET x[k \in 0 .. ROUNDS] ==
            IF k = ROUNDS THEN n ELSE (x[k + 1] | Word(x[k + 1] * 2 ^ (2 ^ k))) & B[k]
    IN  x[0]

interleave64(xlo, ylo) == spread(xlo) | (2 * spread(ylo))

gather(n) ==
    LET x[k \in 0 .. ROUNDS] ==
            IF k = 0 THEN n & B[0] ELSE (x[k - 1] | (x[k - 1] \div 2 ^ (2 ^ (k - 1)))) & B[k]
    IN  x[ROUNDS]

\* The two halves of the word that deinterleave64 returns.
deinterleave64(n) == [lat |-> gather(n), long |-> gather(n \div 2)]

\* The fixed point of a coordinate in a range of -max .. max.
Offset(p, max, step) == ((p + max) * 2 ^ step) \div (2 * max)

\* geohashEncode, with the latitudes of the range: it returns 0 and leaves
\* the hash alone beyond the latitude it supports, whatever the range.
Encodes(long, lat) == abs(long) <= HALF /\ abs(lat) <= LAT_MAX
Cell(long, lat, max, step) ==
    [lat |-> Offset(lat, max, step), long |-> Offset(long, HALF, step)]
Encoded(long, lat, max, step) ==
    LET c == Cell(long, lat, max, step) IN interleave64(c.lat, c.long)

NoHash == [bits |-> 0, step |-> 0]
Origin == [long |-> 0, lat |-> 0]

Init == hash = NoHash /\ at = Origin /\ point = Origin /\ text = <<>>

geohashEncodeWGS84(long, lat, step) ==
    /\ Encodes(long, lat)
    /\ hash' = [bits |-> Encoded(long, lat, LAT_MAX, step), step |-> step]
    /\ at' = Cell(long, lat, LAT_MAX, step)
    /\ point' = Origin /\ text' = <<>>

-----------------------------------------------------------------------------
\* The mask m, shifted to the bits of a hash.
For(m, step) == m \div 2 ^ (WIDTH - 2 * step)

\* Mutant: the borrow is not led over the other coordinate's bits.
moved_alone(x, zz, d) == Word(x + d * (zz + 1))
\* x, a coordinate's bits, one up or down: zz leads the carry over the bits
\* of the other one.
moved(x, zz, d) == IF d > 0 THEN Word(x + (zz + 1)) ELSE Word((x | zz) - (zz + 1))

geohash_move_x(h, d) ==
    IF d = 0 THEN h
    ELSE [h EXCEPT !.bits =
            (moved(@ & ODD, For(B[0], h.step), d) & For(ODD, h.step)) | (@ & B[0])]

geohash_move_y(h, d) ==
    IF d = 0 THEN h
    ELSE [h EXCEPT !.bits =
            (@ & ODD) | (moved(@ & B[0], For(ODD, h.step), d) & For(B[0], h.step))]

\* The neighbour dx to the east and dy to the north.
geohashNeighbors(dx, dy) ==
    /\ hash.step > 0
    /\ hash' = geohash_move_y(geohash_move_x(hash, dx), dy)
    /\ at' = [long |-> IF dx = 0 THEN at.long ELSE (at.long + dx) % 2 ^ hash.step,
              lat  |-> IF dy = 0 THEN at.lat ELSE (at.lat + dy) % 2 ^ hash.step]
    /\ UNCHANGED <<point, text>>

-----------------------------------------------------------------------------
\* The places in geoalphabet of a hash's characters; the last shift is by a
\* negative number of bits.
Characters(bits, undefined) ==
    [c \in 1 .. CHARS |->
        IF c * 5 <= 2 * STEP THEN (bits \div 2 ^ (2 * STEP - c * 5)) % 32 ELSE undefined]

\* geohash, of rgeohash.c: what geohashEncode returns is not looked at.  A
\* point that is not on the map has the text "error", here no character.
geohash(long, lat) ==
    /\ text' \in IF abs(long) > HALF \/ abs(lat) > HALF THEN {<<>>}
                 ELSE {Characters(bits, u) :
                         u \in {g % 32 : g \in Garbage},
                         bits \in IF Encodes(long, lat)
                                  THEN {Encoded(long, lat, HALF, STEP)} ELSE Garbage}
    /\ point' = [long |-> long, lat |-> lat]
    /\ hash' = NoHash /\ at' = Origin

halved(r, one) == LET m == (r[1] + r[2]) \div 2
                  IN  IF one THEN <<m, r[2]>> ELSE <<r[1], m>>

\* The corner that is left when every bit of a text has halved the range of
\* the longitudes or of the latitudes, which take turns.
corner(t) ==
    LET Bit(n) == (t[1 + n \div 5] \div 2 ^ (4 - (n % 5))) % 2 = 1
        coords[n \in 0 .. 5 * CHARS] ==
            IF n = 0 THEN [f \in {0, 1} |-> <<-HALF, HALF>>]
            ELSE [coords[n - 1] EXCEPT ![n % 2] = halved(@, Bit(n - 1))]
    IN  [long |-> coords[5 * CHARS][1][1], lat |-> coords[5 * CHARS][0][1]]

\* What geohash_decode64 may return: the hash of the corner, in the range of
\* geohashEncodeWGS84, with all STEP bits, so that geohashAlign52Bits shifts by
\* 0; an uninitialized hash if the corner is beyond the latitudes; 0 for a text
\* with a character that is not in geoalphabet, as "error" has.
geohash_decode64(t) ==
    IF t = <<>> THEN {0}
    ELSE LET p == corner(t)
         IN  IF Encodes(p.long, p.lat) THEN {Encoded(p.long, p.lat, LAT_MAX, STEP)} ELSE Garbage

\* The calls keep nothing: a behaviour is about one hash.
Next ==
    \/ /\ hash = NoHash /\ text = <<>>
       /\ \E long, lat \in Points :
             \/ \E step \in 1 .. MaxStep : geohashEncodeWGS84(long, lat, step)
             \/ geohash(long, lat)
    \/ \E dx, dy \in {-1, 0, 1} : geohashNeighbors(dx, dy)

-----------------------------------------------------------------------------
\* However often one moves to a neighbour, the hash is that of the cell one
\* is in, and its bits are the ones that geohash.c 47 promises ("the bits of
\* x are in the even positions and bits from y in the odd"): the earth is
\* round both ways, and no carry reaches into the other coordinate.
HashIsCell ==
    \A n \in 0 .. WIDTH - 1 :
        (hash.bits \div 2 ^ n) % 2 =
            ((IF n % 2 = 0 THEN at.lat ELSE at.long) \div 2 ^ (n \div 2)) % 2

\* deinterleave64, which geohashDecode starts from, undoes interleave64.
DecodesToCell == deinterleave64(hash.bits) = at

\* The text of a point leads geohash_decode64 to a cell less than a cell of the
\* text away from it, round the earth where need be: for the points that
\* geohashEncode takes, but for those within a cell of the text from its
\* northern and southern limits, whose corner may be beyond.
TextLeadsBack ==
    LET wide == HALF \div 2 ^ (STEP - 2)
    IN  text # <<>> /\ Encodes(point.long, abs(point.lat) + wide) =>
            \A bits \in geohash_decode64(text) :
                LET cell == deinterleave64(bits)
                IN  /\ \E d \in 1 - wide .. wide - 1 :
                          cell.lat = Offset(point.lat + d, LAT_MAX, STEP)
                    /\ \E d \in 1 - wide .. wide - 1 :
                         cell.long = Offset(((point.long + d + HALF) % (2 * HALF)) - HALF, HALF, STEP)
=============================================================================
