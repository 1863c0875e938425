------------------------------ MODULE IntTree -------------------------------
(***************************************************************************)
(* The binary search tree of c++11/tests/test.cc.  A tree is <<>>, for     *)
(* nullptr, or <<pl, k, pr, n>> with n the node it is in: remove puts the  *)
(* node of the largest smaller key where the removed one was.              *)
(***************************************************************************)
EXTENDS Integers, Sequences, FiniteSets

CONSTANTS Keys, Nodes    \* the keys, and the nodes that new may return

VARIABLES root,
          keys           \* how often each key was inserted and not removed

vars == <<root, keys>>

pl(p) == p[1]
k(p)  == p[2]
pr(p) == p[3]
node(p) == p[4]

\* The keys of the nodes from left to right, and the nodes.
RECURSIVE inorder(_)
inorder(p) == IF p = <<>> THEN <<>> ELSE inorder(pl(p)) \o <<k(p)>> \o inorder(pr(p))

RECURSIVE nodes(_)
nodes(p) == IF p = <<>> THEN {} ELSE nodes(pl(p)) \cup {node(p)} \cup nodes(pr(p))

\* n is the node that new returns.
RECURSIVE insert(_, _, _)
insert(p, key, n) ==
    IF p = <<>> THEN <<<<>>, key, <<>>, n>>
    ELSE IF key < k(p) THEN <<insert(pl(p), key, n), k(p), pr(p), node(p)>>
    ELSE <<pl(p), k(p), insert(pr(p), key, n), node(p)>>

RECURSIVE search(_, _)
search(p, key) ==
    /\ p # <<>>
    /\ \/ k(p) = key
       \/ key < k(p) /\ search(pl(p), key)
       \/ key > k(p) /\ search(pr(p), key)

RECURSIVE findmax(_)
findmax(p) == IF p = <<>> \/ pr(p) = <<>> THEN p ELSE findmax(pr(p))

\* Mutant: what is left of the largest key is lost.
removemax_all(p, pm) == IF node(p) = node(pm) THEN <<>> ELSE <<pl(p), k(p), <<>>, node(p)>>
RECURSIVE removemax(_, _)
removemax(p, pm) ==
    IF p = <<>> THEN <<>>
    ELSE IF node(p) = node(pm) THEN pl(pm)
    ELSE <<pl(p), k(p), removemax(pr(p), pm), node(p)>>

RECURSIVE remove(_, _)
remove(p, key) ==
    IF p = <<>> THEN <<>>
    ELSE IF k(p) = key
         THEN IF pl(p) = <<>> THEN pr(p)
              ELSE IF pr(p) = <<>> THEN pl(p)
              ELSE LET pm == findmax(pl(p))
                   IN  <<removemax(pl(p), pm), k(pm), pr(p), node(pm)>>
    ELSE IF key < k(p) THEN <<remove(pl(p), key), k(p), pr(p), node(p)>>
    ELSE <<pl(p), k(p), remove(pr(p), key), node(p)>>

Init == root = <<>> /\ keys = [key \in Keys |-> 0]

Insert(key) ==
    /\ nodes(root) # Nodes
    /\ root' = insert(root, key, CHOOSE n \in Nodes \ nodes(root) : TRUE)
    /\ keys' = [keys EXCEPT ![key] = @ + 1]

Remove(key) ==
    /\ root' = remove(root, key)
    /\ keys' = [keys EXCEPT ![key] = IF @ > 0 THEN @ - 1 ELSE 0]

Next == \E key \in Keys : Insert(key) \/ Remove(key)

-----------------------------------------------------------------------------
\* inorder visits the keys in order, and each one as often as it was inserted
\* and not yet removed, though remove may leave a key to the left of an equal
\* one, where insert never puts it; each is in a node of its own.
InorderIsSorted ==
    LET s == inorder(root)
    IN  /\ \A i \in 1 .. Len(s) - 1 : s[i] <= s[i + 1]
        /\ \A key \in Keys : Cardinality({i \in DOMAIN s : s[i] = key}) = keys[key]
        /\ Cardinality(nodes(root)) = Len(s)

\* search, which looks on one side of a node only, finds every key that is in
\* the tree, and no other.
SearchFinds == \A key \in Keys : search(root, key) <=> keys[key] > 0
=============================================================================
