----------------------------- MODULE FieldStore -----------------------------
(***************************************************************************)
(* What a message's field accessors promise: every message has one value   *)
(* per field, a call changes the fields it names in the message it names   *)
(* and no other, at most one member of a oneof is set, and a copy has the  *)
(* values of its original.                                                 *)
(***************************************************************************)
EXTENDS Integers, Sequences

CONSTANTS
  Msgs, Fields, Repeated, OneofMembers, Vals, Unset,
  Loaded  \* the fields of the data a message may be constructed over

VARIABLE content  \* the value of every field of every message

Lists == Seq(Vals)

Wellformed(c) ==
  /\ \A f \in Repeated : c[f] \in Lists
  /\ \A f \in Fields \ Repeated : c[f] \in Vals \union {Unset}
  /\ \A f, g \in OneofMembers : c[f] # Unset /\ c[g] # Unset => f = g

Init ==
  /\ content \in [Msgs -> Loaded]
  /\ \A m \in Msgs : Wellformed(content[m])

\* The calls, each as a relation of the content before, c, and after, d.
SetScalar(c, d, m, f, v) ==
  /\ f \notin Repeated \union OneofMembers
  /\ d = [c EXCEPT ![m][f] = v]

\* undefined is no value and leaves the other members; null is none and clears them.
SetOneof(c, d, m, f, v, undefined) ==
  d = [c EXCEPT ![m] =
    [g \in Fields |-> IF g = f THEN v
                      ELSE IF ~undefined /\ g \in OneofMembers THEN Unset
                      ELSE c[m][g]]]

SetList(c, d, m, f, l) ==
  d = [c EXCEPT ![m][f] = l]

Insert(c, d, m, f, i, v) ==
  d = [c EXCEPT ![m][f] = SubSeq(@, 1, i) \o <<v>> \o SubSeq(@, i + 1, Len(@))]

Copy(c, d, m, n) ==
  d = [c EXCEPT ![n] = c[m]]

\* Message n is constructed over data with the fields x.
Load(c, d, n, x) ==
  /\ x \in Loaded /\ Wellformed(x)
  /\ d = [c EXCEPT ![n] = x]

Call(c, d) ==
  \/ \E m \in Msgs, f \in Fields, v \in Vals \union {Unset} : SetScalar(c, d, m, f, v)
  \/ \E m \in Msgs, f \in OneofMembers, v \in Vals : SetOneof(c, d, m, f, v, FALSE)
  \/ \E m \in Msgs, f \in OneofMembers, undefined \in BOOLEAN :
       SetOneof(c, d, m, f, Unset, undefined)
  \/ \E m \in Msgs, f \in Repeated, l \in {<<>>} \union {<<v>> : v \in Vals} :
       SetList(c, d, m, f, l)
  \/ \E m \in Msgs, f \in Repeated, v \in Vals :
       \E i \in 0..Len(c[m][f]) : Insert(c, d, m, f, i, v)
  \/ \E m, n \in Msgs : Copy(c, d, m, n)
  \/ \E n \in Msgs, x \in Loaded : Load(c, d, n, x)

\* Both are bound, so that TLC works them out once per step.
Next == \E c \in {content}, d \in {content'} : Call(c, d)

Spec == Init /\ [][Next]_content
=============================================================================
