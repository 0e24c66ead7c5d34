--------------------------- MODULE MCJspbWrappers ---------------------------
EXTENDS JspbWrappers, TLC

CONSTANTS p, q

MCTouched == p :> Fields @@ q :> {6}

Symmetry == Permutations(Arrays)
=============================================================================
