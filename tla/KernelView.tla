----------------------------- MODULE KernelView -----------------------------
(***************************************************************************)
(* What a kernel (src/experimental/runtime/kernel/kernel.js) promises its  *)
(* callers, with nothing of buffers, caches and encoders: every field has  *)
(* a value, and child messages in several places may be one object, which  *)
(* is edited in all of them at once.                                       *)
(***************************************************************************)
EXTENDS Integers, Sequences, SequencesExt

CONSTANTS
  Kernels, Contents, Unset, Unreadable,
  Scalars, Packables, Singles, RepeatedMessages

VARIABLES
  view,  \* of every field of every kernel: is it there, and its value
  same   \* for every place that holds a child, the places that hold the same object

vars == <<view, same>>

Repeated == Packables \union RepeatedMessages
Fields == Scalars \union Singles \union Repeated

\* What is held before a call, x, and after it, y, are records of the two variables.
PlacesOf(x, k, f) ==
  IF f \in RepeatedMessages
    THEN IF x.view[<<k, f>>].val = Unreadable THEN {} ELSE {<<k, f>>} \X DOMAIN x.view[<<k, f>>].val
  ELSE IF f \in Singles /\ x.view[<<k, f>>].val \in Contents THEN {<<k, f>>} \X {1}
  ELSE {}

Places(x) == UNION {PlacesOf(x, k, f) : k \in Kernels, f \in Fields}

ContentAt(x, at) ==
  LET val == x.view[at[1]].val
  IN  IF at[1][2] \in RepeatedMessages THEN val[at[2]] ELSE val

\* Places that hold one object are closed under it and show one content.
Coherent(x) ==
  /\ DOMAIN x.same = Places(x)
  /\ \A p \in DOMAIN x.same :
       /\ p \in x.same[p]
       /\ \A q \in x.same[p] : x.same[q] = x.same[p] /\ ContentAt(x, q) = ContentAt(x, p)

\* The places P keep their objects.
ObjectsStay(x, y, P) ==
  /\ P \subseteq Places(y)
  /\ \A p \in P : y.same[p] \intersect P = x.same[p] \intersect P

FieldChanges(x, y, k, f) ==
  /\ y.view = [x.view EXCEPT ![<<k, f>>] = y.view[<<k, f>>]]
  /\ ObjectsStay(x, y, Places(x) \ PlacesOf(x, k, f))

Clear(x, y, k, f) ==
  /\ FieldChanges(x, y, k, f)
  /\ y.view[<<k, f>>] = [has |-> FALSE, val |-> IF f \in Repeated THEN <<>> ELSE Unset]

Set(x, y, k, f) ==
  LET new == y.view[<<k, f>>]
  IN  /\ FieldChanges(x, y, k, f)
      /\ new.val \notin {Unset, Unreadable}
      /\ new.has = (f \in Repeated => new.val # <<>>)

\* None of the elements added is an old one, moved.
AddElements(x, y, k, f) ==
  LET old == x.view[<<k, f>>].val
      new == y.view[<<k, f>>]
  IN  /\ old # Unreadable
      /\ y.view = [x.view EXCEPT ![<<k, f>>] = new]
      /\ new.val # Unreadable
      /\ IsPrefix(old, new.val)
      /\ new.has = (new.val # <<>>)
      /\ ObjectsStay(x, y, Places(x))

SetElement(x, y, k, f) ==
  LET old == x.view[<<k, f>>]
      new == y.view[<<k, f>>]
  IN  /\ y.view = [x.view EXCEPT ![<<k, f>>] = new]
      /\ {old.val, new.val} \intersect {<<>>, Unreadable} = {}
      /\ new.has = old.has
      /\ DOMAIN new.val = DOMAIN old.val
      /\ \E i \in DOMAIN old.val :
           /\ \A j \in DOMAIN old.val \ {i} : new.val[j] = old.val[j]
           /\ ObjectsStay(x, y, Places(x) \ {<<<<k, f>>, i>>})

\* j becomes a copy of k, whose children are k's own or new ones.
Copy(x, y, k, j) ==
  LET others == {p \in Places(x) : p[1][1] # j}
      From(p) == <<<<k, p[1][2]>>, p[2]>>
      copies == {p \in Places(y) : p[1][1] = j}
  IN  /\ y.view = [kf \in DOMAIN x.view |-> IF kf[1] = j THEN x.view[<<k, kf[2]>>] ELSE x.view[kf]]
      /\ ObjectsStay(x, y, others)
      /\ \A p \in copies, q \in Places(y) :
           q \in y.same[p] =>
             p = q \/ (IF q \in copies THEN From(q) ELSE q) \in x.same[From(p)]

Edit(x, y) ==
  /\ y.same = x.same
  /\ \E p \in DOMAIN x.same :
       \A k \in Kernels, f \in Fields :
         LET mine == {q[2] : q \in {r \in x.same[p] : r[1] = <<k, f>>}}
             old == x.view[<<k, f>>]
             new == y.view[<<k, f>>]
         IN  /\ new.has = old.has
             /\ IF f \in RepeatedMessages /\ mine # {}
                  THEN DOMAIN new.val = DOMAIN old.val
                       /\ \A i \in DOMAIN old.val \ mine : new.val[i] = old.val[i]
                  ELSE mine = {} => new.val = old.val

Call(x, y) ==
  /\ Coherent(y)
  /\ \/ \E k \in Kernels, f \in Fields : Clear(x, y, k, f) \/ Set(x, y, k, f)
     \/ \E k \in Kernels, f \in Repeated : AddElements(x, y, k, f) \/ SetElement(x, y, k, f)
     \/ \E k \in Kernels : \E j \in Kernels \ {k} : Copy(x, y, k, j)
     \/ Edit(x, y)

Init == Coherent([view |-> view, same |-> same])

\* Both are bound, so that TLC works them out once per step.
Next ==
  \E x \in {[view |-> view, same |-> same]}, y \in {[view |-> view', same |-> same']} :
    <<x.view = y.view, x.same = y.same>> # <<TRUE, TRUE>> /\ Call(x, y)

Spec == Init /\ [][Next]_vars
=============================================================================
