\* Nodes of a red-black tree can be at any of four addresses, which are alike.
SPECIFICATION Spec
CONSTANTS
    a1 = a1
    a2 = a2
    a3 = a3
    a4 = a4
    NIL = NIL
    Null = Null
    NoPair = NoPair
SYMMETRY AnyAddress
INVARIANTS
    Conventions
PROPERTIES
    TreesAreSortedPairs
CHECK_DEADLOCK FALSE
