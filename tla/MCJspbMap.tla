------------------------------ MODULE MCJspbMap ------------------------------
EXTENDS JspbMap, TLC

Symmetry == Permutations(Objs) \union Permutations(Vals)
=============================================================================
