------------------------------ MODULE AVLTree ------------------------------
(***************************************************************************)
(* dlib's binary_search_tree_kernel_1: a height-balanced tree with an      *)
(* enumerator that keeps the path to its node on a stack.  A tree is       *)
(* NullTree or a node with its subtrees inside; a pointer to a node is the *)
(* pair the node holds, for no two nodes hold the same.                    *)
(***************************************************************************)
EXTENDS Integers, Sequences, SequencesExt, FiniteSetsExt

CONSTANTS Pairs,    \* the <<key, value>> pairs that are added
          NoPair    \* the null pointer, and what out is at first

VARIABLES tree_root, tree_size, tree_height,
          current_element, at_start_, stack,    \* the enumerator
          out                                   \* the pair the operation handed back

vars == <<tree_root, tree_size, tree_height, current_element, at_start_, stack, out>>

Key(p) == p[1]
Keys == {Key(p) : p \in Pairs}

NullTree == <<>>

comp(a, b) == Key(a) < Key(b)

Bool(b) == IF b THEN 1 ELSE 0

\* The result of a function that changes the tree t refers to: the tree, by
\* how much the height changed, and the pair removed.
Res(t, change, d) == [t |-> t, change |-> change, d |-> d]

-----------------------------------------------------------------------------
(* Balancing *)

rotate_left(t) ==
    LET s     == t.right
        outer == s.balance = 1
    IN [s EXCEPT !.balance = IF outer THEN 0 ELSE -1,
                 !.left = [t EXCEPT !.balance = IF outer THEN 0 ELSE 1,
                                    !.right = s.left]]

rotate_right(t) ==
    LET s     == t.left
        outer == s.balance = -1
    IN [s EXCEPT !.balance = IF outer THEN 0 ELSE 1,
                 !.right = [t EXCEPT !.balance = IF outer THEN 0 ELSE -1,
                                     !.left = s.right]]

\* The balances of the two children of the node a double rotation lifts.
\* Mutant: as if the lifted node had been balanced.
BothEven(b) == <<0, 0>>
DoubleBalance(b) == <<IF b > 0 THEN -1 ELSE 0, IF b < 0 THEN 1 ELSE 0>>

Lift(s, l, r) ==
    LET b == DoubleBalance(s.balance)
    IN [s EXCEPT !.balance = 0, !.left = [l EXCEPT !.balance = b[1]],
                                !.right = [r EXCEPT !.balance = b[2]]]

double_rotate_right(t) ==
    LET s == t.left.right
    IN Lift(s, [t.left EXCEPT !.right = s.left], [t EXCEPT !.left = s.right])

double_rotate_left(t) ==
    LET s == t.right.left
    IN Lift(s, [t EXCEPT !.right = s.left], [t.right EXCEPT !.left = s.right])

Single(b) == b >= 0

\* change = 1: the tree became one shorter.
keep_node_balanced(t) ==
    LET n == IF t.balance = 2
             THEN IF Single(t.right.balance) THEN rotate_left(t) ELSE double_rotate_left(t)
             ELSE IF t.balance = -2
             THEN IF Single(-t.left.balance) THEN rotate_right(t) ELSE double_rotate_right(t)
             ELSE t
    IN Res(n, Bool(t.balance # 0 /\ n.balance = 0), NoPair)

-----------------------------------------------------------------------------
(* Adding and removing *)

RECURSIVE add_to_tree(_, _)
add_to_tree(t, d) ==
    IF t = NullTree
    THEN Res([d |-> d, balance |-> 0, left |-> NullTree, right |-> NullTree], 1, NoPair)
    ELSE LET goleft == comp(d, t.d)
             sub    == add_to_tree(IF goleft THEN t.left ELSE t.right, d)
             n      == IF goleft
                       THEN [t EXCEPT !.left = sub.t, !.balance = @ - sub.change]
                       ELSE [t EXCEPT !.right = sub.t, !.balance = @ + sub.change]
             kept   == keep_node_balanced(n)
         IN IF t.balance = 0 THEN Res(n, Bool(n.balance # 0), NoPair)
            ELSE IF n.balance \in {0, t.balance} THEN Res(n, 0, NoPair)
            ELSE Res(kept.t, 1 - kept.change, NoPair)

\* The left or the right subtree of t has become sub.t.
Shrunk(t, side, sub) ==
    LET n     == [t EXCEPT ![side] = sub.t,
                           !.balance = @ + (IF side = "left" THEN 1 ELSE -1) * sub.change]
        lean  == IF side = "left" THEN -1 ELSE 1
        kept  == keep_node_balanced(n)
    IN IF t.balance = lean THEN Res(n, Bool(n.balance = 0), sub.d)
       ELSE Res(kept.t, kept.change, sub.d)

RECURSIVE remove_biggest_element_in_tree(_)
remove_biggest_element_in_tree(t) ==
    IF t.right = NullTree THEN Res(t.left, 1, t.d)
    ELSE Shrunk(t, "right", remove_biggest_element_in_tree(t.right))

RECURSIVE remove_least_element_in_tree(_)
remove_least_element_in_tree(t) ==
    IF t.left = NullTree THEN Res(t.right, 1, t.d)
    ELSE Shrunk(t, "left", remove_least_element_in_tree(t.left))

\* The node's pair is taken out; with two subtrees the next pair replaces it.
TakeOut(t) ==
    IF t.left = NullTree THEN Res(t.right, 1, t.d)
    ELSE IF t.right = NullTree THEN Res(t.left, 1, t.d)
    ELSE LET least == remove_least_element_in_tree(t.right)
         IN [Shrunk([t EXCEPT !.d = least.d], "right", least) EXCEPT !.d = t.d]

RECURSIVE remove_from_tree(_, _)
remove_from_tree(t, k) ==
    IF k < Key(t.d) THEN Shrunk(t, "left", remove_from_tree(t.left, k))
    ELSE IF Key(t.d) < k THEN Shrunk(t, "right", remove_from_tree(t.right, k))
    ELSE TakeOut(t)

-----------------------------------------------------------------------------
(* Looking up *)

RECURSIVE return_reference(_, _)
return_reference(t, k) ==
    IF t = NullTree THEN NoPair
    ELSE IF k < Key(t.d) THEN return_reference(t.left, k)
    ELSE IF Key(t.d) < k THEN return_reference(t.right, k)
    ELSE t.d

Matches(onLeft, onRight) == onLeft + onRight + 1

RECURSIVE get_count(_, _)
get_count(k, t) ==
    LET onLeft  == get_count(k, t.left)
        onRight == get_count(k, t.right)
    IN IF t = NullTree THEN 0
       ELSE IF k < Key(t.d) THEN onLeft
       ELSE IF Key(t.d) < k THEN onRight
       ELSE Matches(onLeft, onRight)

-----------------------------------------------------------------------------
(* The enumerator: current_element, at_start_ and stack *)

At(c, start, s) == [cur |-> c, start |-> start, stack |-> s]

Enumerator == At(current_element, at_start_, stack)

\* The node of t that p points to.
RECURSIVE Deref(_, _)
Deref(t, p) ==
    IF t = NullTree \/ t.d = p THEN t
    ELSE LET l == Deref(t.left, p) IN IF l # NullTree THEN l ELSE Deref(t.right, p)

\* Down to the leftmost node below t.
RECURSIVE Leftmost(_, _)
Leftmost(t, s) ==
    IF t.left = NullTree THEN At(t.d, FALSE, s) ELSE Leftmost(t.left, Append(s, t.d))

\* Up from p until the step up was from a left child.
RECURSIVE Climb(_, _)
Climb(p, s) ==
    IF p = tree_root.d THEN At(NoPair, FALSE, s)
    ELSE LET parent == Deref(tree_root, Last(s))
         IN IF parent.left # NullTree /\ parent.left.d = p
            THEN At(parent.d, FALSE, Front(s))
            ELSE Climb(parent.d, Front(s))

Moved(e) ==
    LET node == Deref(tree_root, e.cur)
    IN IF e.start
       THEN IF tree_size = 0 THEN [e EXCEPT !.start = FALSE] ELSE Leftmost(tree_root, e.stack)
       ELSE IF e.cur = NoPair THEN e
       ELSE IF node.right # NullTree THEN Leftmost(node.right, Append(e.stack, e.cur))
       ELSE Climb(e.cur, e.stack)

\* The path that leads to p in t, found by key, equal keys on both sides.
MayBeLeft(a, b) == ~comp(a, b)

RECURSIVE fix_stack(_, _, _)
fix_stack(t, p, s) ==
    IF t = NullTree THEN {}
    ELSE IF t.d = p THEN {s}
    ELSE LET onLeft == IF MayBeLeft(t.d, p) THEN fix_stack(t.left, p, Append(s, t.d)) ELSE {}
         IN IF onLeft # {} THEN onLeft
            ELSE IF ~comp(p, t.d) THEN fix_stack(t.right, p, Append(s, t.d)) ELSE {}

\* Down the stack to current_element, which is taken out.  The second result
\* is where the enumerator is: on the next node, or still on this one when
\* the next pair is moved into it.
RECURSIVE remove_current_element_from_tree(_, _)
remove_current_element_from_tree(t, cur_stack_pos) ==
    LET onPath(c) == /\ c # NullTree
                     /\ \/ cur_stack_pos < Len(stack) /\ c.d = stack[cur_stack_pos + 1]
                        \/ c.d = current_element
        in(side)  == LET sub == remove_current_element_from_tree(t[side], cur_stack_pos + 1)
                     IN <<Shrunk(t, side, sub[1]), sub[2]>>
    IN IF t.d = current_element
       THEN <<TakeOut(t),
              IF NullTree \in {t.left, t.right} THEN Moved(Enumerator)
              ELSE At(remove_least_element_in_tree(t.right).d, FALSE, stack)>>
       ELSE IF onPath(t.left) THEN in("left")
       ELSE IF onPath(t.right) THEN in("right")
       ELSE <<Res(t, 0, NoPair), Enumerator>>

NextBigger(s, went_left) ==
    LET last == At(Last(s), FALSE, Front(s)) IN IF went_left THEN last ELSE Moved(last)

\* The search of position_enumerator, from t with the nodes s above it.
RECURSIVE Search(_, _, _, _)
Search(t, k, s, went_left) ==
    IF t = NullTree
    THEN IF s = <<>> THEN At(NoPair, FALSE, s)
         ELSE NextBigger(s, went_left)
    ELSE IF k < Key(t.d) THEN Search(t.left, k, Append(s, t.d), TRUE)
    ELSE IF Key(t.d) < k THEN Search(t.right, k, Append(s, t.d), FALSE)
    ELSE At(t.d, FALSE, s)

-----------------------------------------------------------------------------
(* The operations *)

SetEnumerator(e) ==
    current_element' = e.cur /\ at_start_' = e.start /\ stack' = e.stack

Initial == At(NoPair, TRUE, <<>>)

Init ==
    /\ tree_root = NullTree /\ tree_size = 0 /\ tree_height = 0
    /\ current_element = NoPair /\ at_start_ = TRUE /\ stack = <<>>
    /\ out = NoPair

add(p) ==
    LET res == add_to_tree(tree_root, p)
    IN /\ Deref(tree_root, p) = NullTree
       /\ tree_root' = res.t
       /\ tree_height' = tree_height + res.change
       /\ tree_size' = tree_size + 1
       /\ SetEnumerator(Initial)
       /\ out' = NoPair

\* What all the removals do with the result of the function that removed.
Removed(res, d) ==
    /\ tree_root' = res.t
    /\ tree_height' = tree_height - res.change
    /\ tree_size' = tree_size - 1
    /\ out' = d

\* Requires (*this)[d] != 0.  destroy is the same but for handing the pair back.
remove(k) ==
    /\ return_reference(tree_root, k) # NoPair
    /\ LET res == remove_from_tree(tree_root, k) IN Removed(res, res.d)
    /\ SetEnumerator(Initial)

remove_any ==
    /\ tree_size > 0
    /\ LET res == remove_least_element_in_tree(tree_root) IN Removed(res, res.d)
    /\ SetEnumerator(Initial)

remove_last_in_order ==
    /\ tree_size > 0
    /\ LET res == remove_biggest_element_in_tree(tree_root) IN Removed(res, res.d)
    /\ SetEnumerator(Initial)

HasToFix(e) == e.cur # NoPair

remove_current_element ==
    /\ current_element # NoPair
    /\ LET res   == remove_current_element_from_tree(tree_root, 1)
           fixed == fix_stack(res[1].t, res[2].cur, <<>>)
       IN /\ Removed(res[1], res[1].d)
          /\ SetEnumerator(IF HasToFix(res[2]) /\ fixed # {}
                           THEN [res[2] EXCEPT !.stack = CHOOSE s \in fixed : TRUE]
                           ELSE res[2])

clear ==
    /\ tree_root' = NullTree /\ tree_size' = 0 /\ tree_height' = 0
    /\ SetEnumerator(Initial)
    /\ out' = NoPair

Tree == <<tree_root, tree_size, tree_height>>

reset == SetEnumerator(Initial) /\ out' = NoPair /\ UNCHANGED Tree

move_next == SetEnumerator(Moved(Enumerator)) /\ out' = NoPair /\ UNCHANGED Tree

position_enumerator(k) ==
    SetEnumerator(Search(tree_root, k, <<>>, FALSE)) /\ out' = NoPair /\ UNCHANGED Tree

Next ==
    \/ \E p \in Pairs : add(p)
    \/ \E k \in Keys : remove(k) \/ position_enumerator(k)
    \/ remove_any \/ remove_last_in_order \/ remove_current_element
    \/ clear \/ reset \/ move_next

Spec == Init /\ [][Next]_vars

-----------------------------------------------------------------------------
(* Properties *)

RECURSIVE InOrder(_)
InOrder(t) == IF t = NullTree THEN <<>> ELSE InOrder(t.left) \o <<t.d>> \o InOrder(t.right)

RECURSIVE Height(_)
Height(t) == IF t = NullTree THEN 0 ELSE 1 + Max({Height(t.left), Height(t.right)})

Contents == InOrder(tree_root)

RECURSIVE IsBalanced(_)
IsBalanced(t) ==
    t # NullTree => /\ t.balance = Height(t.right) - Height(t.left)
                /\ t.balance \in -1 .. 1
                /\ IsBalanced(t.left) /\ IsBalanced(t.right)

\* The convention of the class: every balance is the difference of the heights
\* of the subtrees, which is at most one, whatever was added and removed, and
\* tree_height and tree_size are those of the tree.
Convention ==
    /\ IsBalanced(tree_root)
    /\ tree_height = Height(tree_root) /\ tree_size = Len(Contents)

\* Lookups descend by key, although rotations leave equal keys on both sides
\* of a node: count finds every equivalent key and operator[] one of them.
LookupsAgree ==
    \A k \in Keys :
       LET same == {p \in ToSet(Contents) : Key(p) = k}
       IN /\ get_count(k, tree_root) = Cardinality(same)
          /\ return_reference(tree_root, k) \in IF same = {} THEN {NoPair} ELSE same

RECURSIVE PathTo(_, _)
PathTo(t, p) ==
    IF t = NullTree THEN {}
    ELSE IF t.d = p THEN {<<>>}
    ELSE {<<t.d>> \o s : s \in PathTo(t.left, p) \cup PathTo(t.right, p)}

\* The stack holds the nodes from the root to the parent of the current one,
\* also after remove_current_element moved nodes about, and is empty when
\* there is none; so it never outgrows its fifty places.
StackIsPath ==
    IF current_element = NoPair THEN stack = <<>>
    ELSE PathTo(tree_root, current_element) = {stack} /\ Len(stack) < tree_height

Position == IF at_start_ THEN 0
            ELSE IF current_element = NoPair THEN Len(Contents) + 1
            ELSE SelectInSeq(Contents, LAMBDA p : p = current_element)

Abstract == INSTANCE SortedPairs WITH pairs <- Contents, at <- Position

\* What each operation has to do for the sorted dictionary.
KeepsContract ==
    /\ \A p \in Pairs : add(p) => Abstract!Add(p)
    /\ \A k \in Keys : /\ remove(k) => Abstract!RemoveKey(k)
                       /\ position_enumerator(k) => Abstract!Position(k)
    /\ remove_any => Abstract!RemoveLeast
    /\ remove_last_in_order => Abstract!RemoveBiggest
    /\ remove_current_element => Abstract!RemoveCurrent
    /\ clear => Abstract!Clear
    /\ reset => Abstract!Reset
    /\ move_next => Abstract!MoveNext

\* The tree is the sorted dictionary: every operation removes, hands back or
\* stands on a pair that its contract allows, and an enumeration that removes
\* as it goes misses no pair and meets none twice.
IsSortedPairs == Abstract!Init /\ [][KeepsContract]_vars
=============================================================================
