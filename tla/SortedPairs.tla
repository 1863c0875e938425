---------------------------- MODULE SortedPairs ----------------------------
(***************************************************************************)
(* What dlib's binary_search_tree promises its users: a dictionary whose   *)
(* pairs, several of which may have equivalent keys, are kept in key order *)
(* and enumerated in that order, even while the enumeration removes the    *)
(* pair it stands on.  A pair is <<key, value>>.                           *)
(***************************************************************************)
EXTENDS Naturals, Sequences, SequencesExt

CONSTANTS Pairs,    \* the pairs a user adds, each at most once at a time
          NoPair    \* nothing was handed back

VARIABLES pairs,    \* the contents in enumeration order
          at,       \* where the enumerator is: 0 before the first pair,
                    \* Len(pairs) + 1 past the last
          out       \* the pair the last operation handed back

vars == <<pairs, at, out>>

Key(p) == p[1]

Keys == {Key(p) : p \in Pairs}

InOrder(s) == \A i, j \in DOMAIN s : i < j => Key(s[i]) <= Key(s[j])

Init == pairs = <<>> /\ at = 0 /\ out = NoPair

\* Among pairs with the same key the new one may go anywhere.
Add(p) ==
    /\ p \notin ToSet(pairs)
    /\ \E i \in 1 .. Len(pairs) + 1 :
          InOrder(InsertAt(pairs, i, p)) /\ pairs' = InsertAt(pairs, i, p)
    /\ at' = 0
    /\ out' = NoPair

Drop(i) == pairs' = RemoveAt(pairs, i) /\ out' = pairs[i]

\* Some pair with the key is removed, and the enumerator is reset.
RemoveKey(k) == \E i \in DOMAIN pairs : Key(pairs[i]) = k /\ Drop(i) /\ at' = 0

RemoveLeast == pairs # <<>> /\ Drop(1) /\ at' = 0

RemoveBiggest == pairs # <<>> /\ Drop(Len(pairs)) /\ at' = 0

\* The pair after the removed one moves into its place, and is current.
RemoveCurrent == at \in DOMAIN pairs /\ Drop(at) /\ UNCHANGED at

Clear == pairs' = <<>> /\ at' = 0 /\ out' = NoPair

Reset == at' = 0 /\ out' = NoPair /\ UNCHANGED pairs

MoveNext ==
    /\ at' = IF at > Len(pairs) THEN at ELSE at + 1
    /\ out' = NoPair /\ UNCHANGED pairs

\* To a pair with the key, else to the first bigger one, else past the end.
Position(k) ==
    LET same   == {i \in DOMAIN pairs : Key(pairs[i]) = k}
        bigger == {i \in DOMAIN pairs : Key(pairs[i]) > k}
    IN /\ at' \in IF same # {} THEN same
                  ELSE {i \in bigger \cup {Len(pairs) + 1} :
                           \A j \in bigger : i <= j}
       /\ out' = NoPair /\ UNCHANGED pairs

Next ==
    \/ \E p \in Pairs : Add(p)
    \/ \E k \in Keys : RemoveKey(k) \/ Position(k)
    \/ RemoveLeast \/ RemoveBiggest \/ RemoveCurrent
    \/ Clear \/ Reset \/ MoveNext

Spec == Init /\ [][Next]_vars
=============================================================================
