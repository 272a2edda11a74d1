CONSTANTS
    p1 = p1
    p2 = p2
    p3 = p3
    p4 = p4
    p5 = p5
    Ids <- FivePanes
SYMMETRY Symmetry
SPECIFICATION Spec
INVARIANTS TypeOK TypedWhereMeant
PROPERTY LeavesOthers
