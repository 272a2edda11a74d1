-------------------------------- MODULE MCPanes --------------------------------
(***************************************************************************)
(* An instance of Panes for TLC: a window with room for five panes.  Panes *)
(* are only compared, so they are symmetric.                               *)
(***************************************************************************)
EXTENDS Panes

CONSTANTS p1, p2, p3, p4, p5

FivePanes == {p1, p2, p3, p4, p5}
Symmetry == Permutations(FivePanes)
================================================================================
