---------------------------- MODULE RedBlackTree ----------------------------
(***************************************************************************)
(* dlib's binary_search_tree_kernel_2: a red-black tree of nodes with      *)
(* parent pointers, whose leaves are all the one node NIL.  NIL is written *)
(* to like any node, so the heap is modelled as it is: a function from     *)
(* addresses for each field.  An address that was freed may be allocated   *)
(* again.  A pair is <<key, value>>.                                       *)
(***************************************************************************)
EXTENDS Integers, Sequences, SequencesExt, FiniteSetsExt

CONSTANTS Pairs,        \* the pairs that are added
          Addr,         \* where nodes can be
          NIL,          \* the address of the leaf
          Null,         \* 0
          NoPair        \* what a node holds that is not in use

VARIABLES h,            \* left, right, parent, color and d of the nodes, and tree_root
          tree_size,
          current_element, at_start_,   \* the enumerator
          out                           \* the pair the operation handed back

vars == <<h, tree_size, current_element, at_start_, out>>

Key(p) == p[1]
Keys == {Key(p) : p \in Pairs}
Nodes == Addr \cup {NIL}

KeyAt(t) == Key(h.d[t])

Used == {t \in Addr : h.d[t] # NoPair}

-----------------------------------------------------------------------------
(* Rotations.  With a = "left" and b = "right" Rotate is rotate_left and   *)
(* DoubleRotate double_rotate_right; the other way round the other ones.   *)

\* new takes the place of t under up.
Link(g, up, t, new) ==
    IF t = g.root THEN [g EXCEPT !.root = new]
    ELSE IF g.left[up] = t THEN [g EXCEPT !.left[up] = new]
    ELSE [g EXCEPT !.right[up] = new]

IsNode(n) == n # NIL

Rotate(g, t, a, b) ==
    LET temp  == g[b][t]
        inner == g[a][temp]
        up    == g.parent[t]
        turned == [g EXCEPT ![b][t] = inner, ![a][temp] = t,
                            !.parent[inner] = IF IsNode(inner) THEN t ELSE @,
                            !.parent[temp] = up]
    IN [Link(turned, up, t, temp) EXCEPT !.parent[t] = temp]

DoubleRotate(g, t, a, b) ==
    LET temp == g[b][g[a][t]]
        mid  == g.parent[temp]
        up   == g.parent[t]
        turned == [g EXCEPT ![a][t] = g[b][temp], !.parent[g[b][temp]] = t,
                            !.parent[g[a][temp]] = mid, ![b][mid] = g[a][temp],
                            !.parent[mid] = temp,
                            ![b][temp] = t, ![a][temp] = mid, !.parent[temp] = up]
    IN [Link(turned, up, t, temp) EXCEPT !.parent[t] = temp]

Other(side) == IF side = "left" THEN "right" ELSE "left"

SideOf(g, t) == IF g.left[g.parent[t]] = t THEN "left" ELSE "right"

Red(g, t) == g.color[t] = "red"

RECURSIVE fix_after_add(_, _)
fix_after_add(g, t) ==
    LET p  == g.parent[t]
        gp == g.parent[p]
        a  == IF g.left[gp] = p THEN "left" ELSE "right"
        b  == Other(a)
    IN IF ~Red(g, p) THEN [g EXCEPT !.color[g.root] = "black"]
       ELSE IF g.color[g.left[gp]] = g.color[g.right[gp]]
       THEN fix_after_add([g EXCEPT !.color[gp] = "red", !.color[g.left[gp]] = "black",
                                    !.color[g.right[gp]] = "black"], gp)
       ELSE LET done == IF g[a][p] = t
                        THEN Rotate([g EXCEPT !.color[gp] = "red", !.color[p] = "black"], gp, b, a)
                        ELSE DoubleRotate([g EXCEPT !.color[t] = "black", !.color[gp] = "red"], gp, a, b)
            IN [done EXCEPT !.color[done.root] = "black"]

\* A red sibling is rotated away, and the sibling is then black.
BlackSibling(g, t, a, b) ==
    LET p == g.parent[t]
        s == g[b][p]
    IN IF Red(g, s)
       THEN Rotate([g EXCEPT !.color[s] = "black", !.color[p] = "red"], p, a, b)
       ELSE g

\* The sibling's child on the far side is made red.
OuterRed(g, t, a, b) ==
    LET s == g[b][g.parent[t]]
    IN IF Red(g, g[b][s]) THEN g
       ELSE Rotate([g EXCEPT !.color[g[a][s]] = "black", !.color[s] = "red"], s, b, a)

RECURSIVE fix_after_remove(_, _)
fix_after_remove(g, t) ==
    LET a  == SideOf(g, t)
        b  == Other(a)
        g1 == BlackSibling(g, t, a, b)
        p  == g1.parent[t]
        s  == g1[b][p]
        g2 == OuterRed(g1, t, a, b)
        p2 == g2.parent[t]
        s2 == g2[b][p2]
        g3 == Rotate([g2 EXCEPT !.color[s2] = g2.color[p2], !.color[p2] = "black",
                                !.color[g2[b][s2]] = "black"], p2, a, b)
    IN IF t = g.root \/ Red(g, t) THEN [g EXCEPT !.color[t] = "black"]
       ELSE IF ~Red(g1, g1.left[s]) /\ ~Red(g1, g1.right[s])
       THEN fix_after_remove([g1 EXCEPT !.color[s] = "red"], p)
       ELSE [g3 EXCEPT !.color[g3.root] = "black"]

-----------------------------------------------------------------------------
(* Adding and removing *)

Free(g, t) ==
    [g EXCEPT !.left[t] = NIL, !.right[t] = NIL, !.parent[t] = NIL,
              !.color[t] = "black", !.d[t] = NoPair]

\* The node t, which has no other child than child, is taken out of the tree.
\* Its parent's pointer on this side is tested first.
Splice(g, t, child, side) ==
    LET up  == g.parent[t]
        cut == IF g[side][up] = t THEN [g EXCEPT ![side][up] = child]
               ELSE IF side = "left" THEN [g EXCEPT !.right[up] = child]
               ELSE [g EXCEPT !.left[up] = child]
        plugged == [cut EXCEPT !.parent[child] = up,
                               !.root = IF @ = t THEN child ELSE @]
    IN Free(IF Red(g, t) THEN plugged ELSE fix_after_remove(plugged, child), t)

RECURSIVE Outermost(_, _, _)
Outermost(g, t, side) == IF g[side][t] = NIL THEN t ELSE Outermost(g, g[side][t], side)

remove_least_element_in_tree(g, t) ==
    LET least == Outermost(g, t, "left") IN Splice(g, least, g.right[least], "left")

remove_biggest_element_in_tree(g, t) ==
    LET biggest == Outermost(g, t, "right") IN Splice(g, biggest, g.left[biggest], "right")

\* The heap after the node t lost its pair, and where current_element is.
TakeOut(t, cur) ==
    LET least == Outermost(h, h.right[t], "left")
        moved == [h EXCEPT !.d[t] = h.d[least]]
    IN IF h.left[t] = NIL THEN <<Splice(h, t, h.right[t], "left"), cur>>
       ELSE IF h.right[t] = NIL THEN <<Splice(h, t, h.left[t], "left"), cur>>
       ELSE <<remove_least_element_in_tree(moved, h.right[t]), IF least = cur THEN t ELSE cur>>

\* The node found for k, searching from t.
RECURSIVE return_reference(_, _)
return_reference(t, k) ==
    IF t = NIL THEN NIL
    ELSE IF k < KeyAt(t) THEN return_reference(h.left[t], k)
    ELSE IF KeyAt(t) < k THEN return_reference(h.right[t], k)
    ELSE t

Matches(onLeft, onRight) == onLeft + onRight + 1

RECURSIVE get_count(_, _)
get_count(k, t) ==
    IF t = NIL THEN 0
    ELSE IF k < KeyAt(t) THEN get_count(k, h.left[t])
    ELSE IF KeyAt(t) < k THEN get_count(k, h.right[t])
    ELSE Matches(get_count(k, h.left[t]), get_count(k, h.right[t]))

-----------------------------------------------------------------------------
(* The enumerator *)

At(cur, start) == [cur |-> cur, start |-> start]

Enumerator == At(current_element, at_start_)

\* Up from t until the step up was from a left child.
RECURSIVE Climb(_)
Climb(t) ==
    LET parent == h.parent[t]
    IN IF parent = NIL THEN Null
       ELSE IF h.left[parent] = t THEN parent
       ELSE Climb(parent)

Moved(e) ==
    IF e.start
    THEN At(IF tree_size = 0 THEN e.cur ELSE Outermost(h, h.root, "left"), FALSE)
    ELSE IF e.cur = Null THEN e
    ELSE At(IF h.right[e.cur] # NIL THEN Outermost(h, h.right[e.cur], "left") ELSE Climb(e.cur), FALSE)

RECURSIVE Search(_, _, _, _)
Search(t, k, parent, went_left) ==
    IF t = NIL
    THEN IF parent = NIL THEN At(Null, FALSE)
         ELSE IF went_left THEN At(parent, FALSE)
         ELSE Moved(At(parent, FALSE))
    ELSE IF k < KeyAt(t) THEN Search(h.left[t], k, t, TRUE)
    ELSE IF KeyAt(t) < k THEN Search(h.right[t], k, t, FALSE)
    ELSE At(t, FALSE)

-----------------------------------------------------------------------------
(* The operations *)

Init ==
    /\ h = [left |-> [n \in Nodes |-> IF n = NIL THEN Null ELSE NIL],
            right |-> [n \in Nodes |-> IF n = NIL THEN Null ELSE NIL],
            parent |-> [n \in Nodes |-> IF n = NIL THEN Null ELSE NIL],
            color |-> [n \in Nodes |-> "black"],
            d |-> [n \in Nodes |-> NoPair],
            root |-> NIL]
    /\ tree_size = 0
    /\ current_element = Null /\ at_start_ = TRUE
    /\ out = NoPair

SetEnumerator(e) == current_element' = e.cur /\ at_start_' = e.start

Initial == At(Null, TRUE)

RECURSIVE Place(_, _)
Place(t, p) ==
    LET side == IF Key(p) < KeyAt(t) THEN "left" ELSE "right"
    IN IF h[side][t] = NIL THEN <<t, side>> ELSE Place(h[side][t], p)

add_to_tree(new, p) ==
    LET place == Place(h.root, p)
        t     == place[1]
    IN fix_after_add([h EXCEPT ![place[2]][t] = new, !.parent[new] = t,
                               !.color[new] = "red", !.d[new] = p], new)

add(p) ==
    /\ \A t \in Used : h.d[t] # p
    /\ \E new \in Addr \ Used :
          h' = IF tree_size = 0 THEN [h EXCEPT !.root = new, !.d[new] = p]
                                ELSE add_to_tree(new, p)
    /\ tree_size' = tree_size + 1
    /\ SetEnumerator(Initial)
    /\ out' = NoPair

\* Requires (*this)[d] != 0.  destroy is the same but for handing the pair back.
remove(k) ==
    LET t == return_reference(h.root, k)
    IN /\ t # NIL
       /\ h' = TakeOut(t, current_element)[1] /\ out' = h.d[t]
       /\ tree_size' = tree_size - 1
       /\ SetEnumerator(Initial)

remove_any ==
    /\ tree_size > 0
    /\ h' = remove_least_element_in_tree(h, h.root)
    /\ out' = h.d[Outermost(h, h.root, "left")]
    /\ tree_size' = tree_size - 1
    /\ SetEnumerator(Initial)

remove_last_in_order ==
    /\ tree_size > 0
    /\ h' = remove_biggest_element_in_tree(h, h.root)
    /\ out' = h.d[Outermost(h, h.root, "right")]
    /\ tree_size' = tree_size - 1
    /\ SetEnumerator(Initial)

\* Mutant: the enumerator stays on the node the next pair was moved out of.
NotMoved(res, cur) == cur
WhereMoved(res, cur) == res[2]

remove_current_element ==
    LET next == Moved(Enumerator)
        res  == TakeOut(current_element, next.cur)
    IN /\ current_element # Null
       /\ h' = res[1] /\ out' = h.d[current_element]
       /\ tree_size' = tree_size - 1
       /\ SetEnumerator(At(WhereMoved(res, next.cur), FALSE))

\* delete_tree, if there is a tree, and reset.
clear ==
    /\ h' = [left   |-> [n \in Nodes |-> IF n = NIL THEN h.left[n] ELSE NIL],
             right  |-> [n \in Nodes |-> IF n = NIL THEN h.right[n] ELSE NIL],
             parent |-> [n \in Nodes |-> IF n = NIL THEN h.parent[n] ELSE NIL],
             color  |-> [n \in Nodes |-> IF n = NIL THEN h.color[n] ELSE "black"],
             d      |-> [n \in Nodes |-> NoPair],
             root   |-> NIL]
    /\ tree_size' = 0
    /\ SetEnumerator(Initial)
    /\ out' = NoPair

Tree == <<h, tree_size>>

reset == SetEnumerator(Initial) /\ out' = NoPair /\ UNCHANGED Tree

move_next == SetEnumerator(Moved(Enumerator)) /\ out' = NoPair /\ UNCHANGED Tree

position_enumerator(k) == SetEnumerator(Search(h.root, k, NIL, FALSE)) /\ out' = NoPair /\ UNCHANGED Tree

Next ==
    \/ \E p \in Pairs : add(p)
    \/ \E k \in Keys : remove(k) \/ position_enumerator(k)
    \/ remove_any \/ remove_last_in_order \/ remove_current_element
    \/ clear \/ reset \/ move_next

Spec == Init /\ [][Next]_vars

-----------------------------------------------------------------------------
(* Properties *)

RECURSIVE InOrder(_)
InOrder(t) ==
    IF t = NIL THEN <<>> ELSE InOrder(h.left[t]) \o <<t>> \o InOrder(h.right[t])

InTree == InOrder(h.root)

RECURSIVE BlackNodes(_)
BlackNodes(t) ==    \* on the paths from t to a leaf
    IF t = NIL THEN {0}
    ELSE {n + (IF Red(h, t) THEN 0 ELSE 1) : n \in BlackNodes(h.left[t]) \cup BlackNodes(h.right[t])}

\* The convention of the class: the nodes in the tree are the ones in use, NIL
\* and the root are black, no red node has a red child, all paths to leaves
\* have the same number of black nodes and parent pointers lead back, although
\* removals leave what they find in NIL's own pointers.
Convention ==
    /\ ToSet(InTree) = Used /\ tree_size = Len(InTree) /\ tree_size = Cardinality(Used)
    /\ ~Red(h, NIL) /\ ~Red(h, h.root)
    /\ Cardinality(BlackNodes(h.root)) = 1
    /\ h.root # NIL => h.parent[h.root] = NIL
    /\ \A t \in Used, side \in {"left", "right"} :
          LET c == h[side][t]
          IN (Red(h, t) => ~Red(h, c)) /\ (c # NIL => h.parent[c] = t)

\* Lookups descend by key, although rotations leave equal keys on both sides
\* of a node: count finds every equivalent key and operator[] one of them.
LookupsAgree ==
    \A k \in Keys :
       LET same == {t \in Used : KeyAt(t) = k}
       IN /\ get_count(k, h.root) = Cardinality(same)
          /\ return_reference(h.root, k) \in IF same = {} THEN {NIL} ELSE same

Contents == [i \in DOMAIN InTree |-> h.d[InTree[i]]]

Position == IF at_start_ THEN 0
            ELSE IF current_element = Null THEN Len(InTree) + 1
            ELSE SelectInSeq(InTree, LAMBDA t : t = current_element)

Abstract == INSTANCE SortedPairs WITH pairs <- Contents, at <- Position

\* What each operation has to do for the sorted dictionary.
KeepsContract ==
    /\ \A p \in Pairs : add(p) => Abstract!Add(p)
    /\ \A k \in Keys : /\ remove(k) => Abstract!RemoveKey(k)
                       /\ position_enumerator(k) => Abstract!Position(k)
    /\ remove_any => Abstract!RemoveLeast
    /\ remove_last_in_order => Abstract!RemoveBiggest
    /\ remove_current_element => Abstract!RemoveCurrent
    /\ clear => Abstract!Clear
    /\ reset => Abstract!Reset
    /\ move_next => Abstract!MoveNext

\* The tree is the sorted dictionary: every operation removes, hands back or
\* stands on a pair that its contract allows, and an enumeration that removes
\* as it goes misses no pair and meets none twice.
IsSortedPairs == Abstract!Init /\ [][KeepsContract]_vars
=============================================================================
