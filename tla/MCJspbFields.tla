---------------------------- MODULE MCJspbFields ----------------------------
EXTENDS JspbFields, TLC

CONSTANT a

MCOneof == <<1, 3>>

Ext(S) == [f \in Fields |-> IF f \in S THEN a ELSE Unset]

\* Nothing; both members of the oneof; an extension object where the class puts
\* it; one that comes early and holds regular fields; more slots than the class has.
MCLoads ==
  { [slots |-> <<>>, ext |-> NoExt],
    [slots |-> <<a, <<a>>, a>>, ext |-> NoExt],
    [slots |-> <<Unset, Unset, a, Unset>>, ext |-> Ext({6})],
    [slots |-> <<a>>, ext |-> Ext({3, 6})],
    [slots |-> <<Unset, Unset, Unset, Unset, a>>, ext |-> NoExt] }

Symmetry == Permutations(Refs) \union Permutations(Msgs)
=============================================================================
