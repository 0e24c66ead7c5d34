----------------------------- MODULE MessageTree -----------------------------
(***************************************************************************)
(* What message-valued fields promise: a field holds a child or a list of  *)
(* children, a child has a content, and the two change only as the caller  *)
(* says.  Setting a field does not touch the children in it; editing a     *)
(* child is seen through every field that holds it and nowhere else; a     *)
(* copy has children of its own.                                           *)
(***************************************************************************)
EXTENDS Integers, Sequences, SequencesExt

CONSTANTS Parents, Nodes, Vals, Empty, Unset, Singles, Oneof, Lists

VARIABLES
  field,   \* the child, or the children, in every field of every parent
  content  \* the content of every child; Empty if no field holds it

vars == <<field, content>>

Fields == Singles \union Oneof \union Lists

NodesIn(f, v) == IF f \in Lists THEN Range(v) ELSE {v} \ {Unset}
Held(fl) == UNION {NodesIn(f, fl[p][f]) : p \in Parents, f \in Fields}

Init ==
  /\ DOMAIN field = Parents
  /\ \A p \in Parents :
       /\ DOMAIN field[p] = Fields
       /\ \A f \in Fields : NodesIn(f, field[p][f]) \subseteq Nodes
  /\ content \in [Nodes -> Vals]
  /\ \A n \in Nodes \ Held(field) : content[n] = Empty

\* The calls, each as a relation of what is held before, x, and after, y: records
\* of the two variables.
Edit(x, y) ==
  /\ y.field = x.field
  /\ \E n \in Held(x.field) : y.content = [x.content EXCEPT ![n] = y.content[n]]

\* Children held before and after the call keep their content, those that come
\* bring one, and those dropped are gone.
ContentIsKept(x, y) ==
  /\ \A n \in Held(x.field) \intersect Held(y.field) : y.content[n] = x.content[n]
  /\ \A n \in Nodes \ Held(y.field) : y.content[n] = Empty

\* f of p becomes a child or nothing, or a list of one child or none.
Set(x, y, p, f) ==
  LET v == y.field[p][f]
  IN  /\ f \in Lists => Len(v) <= 1
      /\ y.field = [x.field EXCEPT ![p][f] = v]

SetOneof(x, y, p, f) ==
  y.field = [x.field EXCEPT ![p] =
    [g \in Fields |-> IF g = f THEN y.field[p][f] ELSE IF g \in Oneof THEN Unset ELSE @[g]]]

Insert(x, y, p, f) ==
  LET l == y.field[p][f]
  IN  \E i \in DOMAIN l : y.field = [x.field EXCEPT ![p][f] = InsertAt(@, i, l[i])]

\* q gets children of its own, one for every place a child of p has.
Places(fields) ==
  {<<f, 1>> : f \in {g \in Fields \ Lists : fields[g] # Unset}} \union
  UNION {{f} \X DOMAIN fields[f] : f \in Lists}

NodeAt(fields, at) == IF at[1] \in Lists THEN fields[at[1]][at[2]] ELSE fields[at[1]]

Copy(x, y, p, q) ==
  LET from == x.field[p]
      to == y.field[q]
  IN  /\ \A r \in Parents \ {q} : y.field[r] = x.field[r]
      /\ Places(from) = Places(to)
      /\ \A at \in Places(to) :
           /\ NodeAt(to, at) \notin Held(x.field)
           /\ \A b \in Places(to) : NodeAt(to, at) = NodeAt(to, b) => at = b
           /\ y.content[NodeAt(to, at)] = x.content[NodeAt(from, at)]

Call(x, y) ==
  \/ Edit(x, y)
  \/ /\ ContentIsKept(x, y)
     /\ \E p \in Parents :
          \/ \E f \in Fields : Set(x, y, p, f)
          \/ \E f \in Oneof : SetOneof(x, y, p, f)
          \/ \E f \in Lists : Len(y.field[p][f]) = Len(x.field[p][f]) + 1 /\ Insert(x, y, p, f)
          \/ \E q \in Parents : Copy(x, y, p, q)

\* Both are bound, so that TLC works them out once per step.
Next ==
  \E x \in {[field |-> field, content |-> content]},
     y \in {[field |-> field', content |-> content']} : Call(x, y)

Spec == Init /\ [][Next]_vars
=============================================================================
