--------------------------- MODULE MCSearchTrees ----------------------------
(***************************************************************************)
(* The two kernels of dlib's binary_search_tree for TLC.  A behaviour is   *)
(* one kernel, from the empty tree on or from a tree in which a removal    *)
(* reaches far; the variables of the other one do not change.              *)
(***************************************************************************)
EXTENDS Integers, Sequences, TLC

CONSTANTS a1, a2, a3, a4, NIL, Null, NoPair

VARIABLES kernel,                                       \* which tree
          tree_size, current_element, at_start_, out,   \* of both
          tree_root, tree_height, stack,                \* of AVLTree
          h                                             \* of RedBlackTree

mine == <<tree_root, tree_height, stack>>
vars == <<kernel, tree_size, current_element, at_start_, out, mine, h>>

\* A pair is a key and a value; some keys have several pairs, so that equal
\* keys meet in rotations.
AVL == INSTANCE AVLTree WITH Pairs <-
           {<<1, 1>>, <<2, 1>>, <<2, 2>>, <<3, 1>>, <<3, 2>>, <<4, 1>>}
Thin == INSTANCE AVLTree WITH Pairs <- (1 .. 12) \X {1}
RedBlack == INSTANCE RedBlackTree WITH
                Pairs <- {<<1, 1>>, <<2, 1>>, <<2, 2>>, <<3, 1>>},
                Addr <- {a1, a2, a3, a4}
Black == INSTANCE RedBlackTree WITH Pairs <- (1 .. 7) \X {1}, Addr <- 1 .. 7

AnyAddress == Permutations({a1, a2, a3, a4})

-----------------------------------------------------------------------------
\* The thinnest trees of height five, with the keys from 1 to 12: a removal
\* rotates at several levels.  Adding their nodes level by level builds each.
Thinnest[height \in 0 .. 5, lo \in 1 .. 13] ==
    LET size == <<0, 1, 2, 4, 7, 12>>
        node(l, r, b, k) ==
           [d |-> <<k, 1>>, balance |-> b, left |-> l, right |-> r]
    IN IF height = 0 THEN {<<>>}
       ELSE IF height = 1 THEN {node(<<>>, <<>>, 0, lo)}
       ELSE {node(l, r, -1, lo + size[height]) :
                l \in Thinnest[height - 1, lo],
                r \in Thinnest[height - 2, lo + size[height] + 1]}
            \cup
            {node(l, r, 1, lo + size[height - 1]) :
                l \in Thinnest[height - 2, lo],
                r \in Thinnest[height - 1, lo + size[height - 1] + 1]}

ThinInit ==
    /\ tree_root \in Thinnest[5, 1] /\ tree_size = 12 /\ tree_height = 5
    /\ current_element = NoPair /\ at_start_ = TRUE /\ stack = <<>>
    /\ out = NoPair

\* A full tree of seven black nodes, which adding and removing red nodes below
\* it leaves behind: a removal makes fix_after_remove go up to the root.  The
\* node at address n holds the key n.
BlackInit ==
    /\ h = LET All == (1 .. 7) \cup {NIL} IN
           [left   |-> [n \in All |-> IF n = 4 THEN 2 ELSE IF n \in {2, 6} THEN n - 1 ELSE NIL],
            right  |-> [n \in All |-> IF n = 4 THEN 6 ELSE IF n \in {2, 6} THEN n + 1 ELSE NIL],
            parent |-> [n \in All |-> IF n \in {1, 3} THEN 2 ELSE IF n \in {5, 7} THEN 6
                                      ELSE IF n \in {2, 6} THEN 4 ELSE NIL],
            color  |-> [n \in All |-> "black"],
            d      |-> [n \in All |-> IF n = NIL THEN NoPair ELSE <<n, 1>>],
            root   |-> 4]
    /\ tree_size = 7
    /\ current_element = Null /\ at_start_ = TRUE
    /\ out = NoPair

Init ==
    \/ kernel = "avl" /\ AVL!Init /\ h = Null
    \/ kernel = "thin" /\ ThinInit /\ h = Null
    \/ kernel = "red-black" /\ RedBlack!Init /\ tree_root = Null /\ tree_height = Null /\ stack = Null
    \/ kernel = "black" /\ BlackInit /\ tree_root = Null /\ tree_height = Null /\ stack = Null

\* From a thin tree, any one removal, also by an enumerator that got there;
\* from a black one, any removals.
ThinNext ==
    /\ tree_size = 12
    /\ \/ \E k \in 1 .. 12 : Thin!remove(k) \/ Thin!position_enumerator(k)
       \/ Thin!remove_any \/ Thin!remove_last_in_order \/ Thin!remove_current_element

BlackNext ==
    \/ \E k \in 1 .. 7 : Black!remove(k) \/ Black!position_enumerator(k)
    \/ Black!remove_any \/ Black!remove_last_in_order \/ Black!remove_current_element

Next ==
    /\ UNCHANGED kernel
    /\ \/ kernel = "avl" /\ AVL!Next /\ UNCHANGED h
       \/ kernel = "thin" /\ ThinNext /\ UNCHANGED h
       \/ kernel = "red-black" /\ RedBlack!Next /\ UNCHANGED mine
       \/ kernel = "black" /\ BlackNext /\ UNCHANGED mine

Spec == Init /\ [][Next]_vars

-----------------------------------------------------------------------------
\* The conventions of the classes hold whatever was added and removed.
\* Kernel 1: every balance is the difference of the heights of the subtrees,
\* which is at most one, and the enumerator's stack holds the path to its node,
\* also after remove_current_element moved nodes about.  Kernel 2: colours,
\* parent pointers and the shared leaf are as the class says.
Conventions ==
    /\ kernel = "avl" => AVL!Convention /\ AVL!StackIsPath
    /\ kernel = "thin" => Thin!Convention /\ Thin!StackIsPath
    /\ kernel = "red-black" => RedBlack!Convention
    /\ kernel = "black" => Black!Convention

\* Both kernels are the sorted dictionary: every operation removes, hands back
\* or stands on a pair that its contract allows, and an enumeration that
\* removes as it goes misses no pair and meets none twice; count finds every
\* equivalent key and operator[] one of them, although rotations leave equal
\* keys on both sides of a node.
TreesAreSortedPairs ==
    /\ kernel = "avl" => AVL!Abstract!Init
    /\ kernel = "red-black" => RedBlack!Abstract!Init
    /\ [][/\ kernel = "avl" => AVL!KeepsContract
          /\ kernel = "thin" => Thin!KeepsContract
          /\ kernel = "red-black" => RedBlack!KeepsContract
          /\ kernel = "black" => Black!KeepsContract]_vars
    /\ [](/\ kernel = "avl" => AVL!LookupsAgree
          /\ kernel = "thin" => Thin!LookupsAgree
          /\ kernel = "red-black" => RedBlack!LookupsAgree
          /\ kernel = "black" => Black!LookupsAgree)
=============================================================================
