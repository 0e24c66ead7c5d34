--------------------------- MODULE JspbFieldsProofs ---------------------------
(***************************************************************************)
(* Where a message keeps its fields, proved for any class, any data and    *)
(* any number of messages.  The operators that work on a message o and the *)
(* extension objects h are each described by what they leave: a message    *)
(* laid out well (Laid), the values of its fields (Raw), and the extension *)
(* objects other messages have (Apart).                                    *)
(***************************************************************************)
EXTENDS JspbFields, WellFoundedInduction, TLAPS

\* A set of natural numbers with an element has a least one: induction, in a form that
\* needs no operator parameter.
LEMMA LeastOf ==
  ASSUME NEW S \in SUBSET Nat, S # {}
  PROVE  \E n \in S : \A k \in S : n <= k
<1> DEFINE Below == {p \in Nat \X Nat : p[1] < p[2]}
<1>1. OpToRel(<, Nat) = Below
  BY DEF OpToRel
<1> HIDE DEF Below
<1>2. IsWellFoundedOn(Below, Nat)
  BY <1>1, NatLessThanWellFounded, Zenon
<1>3. PICK n \in S : \A k \in S : <<k, n>> \notin Below
  BY <1>2, WFMin
<1>4. ASSUME NEW k \in S PROVE n <= k
  <2>1. n \in Nat /\ k \in Nat /\ <<k, n>> \in Nat \X Nat
    OBVIOUS
  <2>2. ~ (k < n)
    BY <1>3, <2>1 DEF Below
  <2>3. QED
    BY <2>1, <2>2
<1>5. QED
  BY <1>3, <1>4

\* A bounded set of natural numbers with an element has a greatest one.
LEMMA GreatestOf ==
  ASSUME NEW S \in SUBSET Nat, S # {}, NEW bound \in Nat, \A n \in S : n <= bound
  PROVE  \E n \in S : \A k \in S : k <= n
<1> DEFINE T == {bound - n : n \in S}
<1>1. T \in SUBSET Nat /\ T # {}
  <2>1. \A n \in S : bound - n \in Nat
    OBVIOUS
  <2>2. PICK n \in S : TRUE
    OBVIOUS
  <2>3. bound - n \in T
    OBVIOUS
  <2>4. QED
    BY <2>1, <2>3
<1>2. PICK t \in T : \A u \in T : t <= u
  BY <1>1, LeastOf
<1>3. PICK n \in S : t = bound - n
  BY <1>2
<1>4. ASSUME NEW k \in S PROVE k <= n
  <2>1. bound - k \in T /\ k \in Nat /\ n \in Nat
    BY <1>3
  <2>2. bound - n <= bound - k
    BY <1>2, <1>3, <2>1
  <2>3. QED
    BY <2>1, <2>2
<1>5. QED
  BY <1>3, <1>4

-----------------------------------------------------------------------------
\* What an array, and a message's extensions, hold.
Cells == Value \union Refs
EOs == [Refs -> [Fields -> Value]]

PivotOver(length) ==
  IF SuggestedPivot > -1 THEN Larger(SuggestedPivot, length + 1) ELSE Infinity

\* The extension object, if there is one, is at the pivot, and the last element.  A class
\* without a pivot can have one that came with its data, but not at Infinity.
Laid(o) ==
  /\ o \in [array : Seq(Cells), pivot : Nat \ {0}, ext : Refs \union {NoExt}]
  /\ \A i \in 1..Len(o.array) : i < o.pivot => o.array[i] \in Value
  /\ IF o.ext = NoExt
       THEN Len(o.array) < o.pivot /\ o.pivot = PivotOver(Len(o.array))
       ELSE /\ Len(o.array) = o.pivot /\ o.array[o.pivot] = o.ext
            /\ SuggestedPivot > -1 \/ o.pivot < Infinity

\* What is stored for the field f.
Raw(o, h, f) ==
  IF f \in Extensions THEN IF o.ext = NoExt THEN Unset ELSE h[o.ext][f]
                      ELSE Slot(o, h, f)

\* What a message holds in its extension object, or would if it had one.
Property(o, h, g) == IF o.ext = NoExt THEN Unset ELSE h[o.ext][g]

\* The data that arrive have nothing in slots that are no field's, nor any property for a
\* field that has a slot of its own; and what a message stores is like that.
OnlyFields(l) ==
  /\ \A i \in 1..Len(l.slots) : i \notin Numbered => l.slots[i] = Unset
  /\ l.ext # NoExt => \A f \in Numbered : f <= Len(l.slots) => l.ext[f] = Unset

NoUnknown == \A l \in Loads : OnlyFields(l)

NothingElse(o, h) ==
  /\ \A i \in Nat \ {0} : i < o.pivot /\ i \notin Numbered => At(o.array, i) = Unset
  /\ \A f \in Numbered : f < o.pivot => Property(o, h, f) = Unset

\* s is made of o and h without a change to any extension object but o's and r.
Apart(s, o, h, r) ==
  /\ Laid(s.o) /\ s.h \in EOs
  /\ NoUnknown /\ NothingElse(o, h) => NothingElse(s.o, s.h)
  /\ s.o.ext \in {o.ext, r, NoExt}
  /\ \A e \in Refs \ {o.ext, r} : s.h[e] = h[e]

-----------------------------------------------------------------------------
(* Arrays *)

LEMMA ValueTypes ==
  /\ Unset \in Value /\ Sentinel \in Value /\ Unset \in Cells /\ Sentinel \in Cells
  /\ Unset \notin Refs /\ NoExt \notin Refs /\ Sentinel \notin Refs
  /\ \A v \in Value : v \notin Refs
  /\ EmptyEO \in [Fields -> Value]
BY ValuesAssumption DEF Value, Cells, EmptyEO

LEMMA FieldTypes ==
  /\ Fields \subseteq Nat \ {0}
  /\ \A f \in Fields : f < Infinity
  /\ Infinity \in Nat /\ SuggestedPivot \in Int
  /\ Extensions # {} => SuggestedPivot > -1
  /\ Singular \subseteq Fields /\ Repeated \subseteq Fields
  /\ OneofMembers \subseteq Fields /\ Extensions \subseteq Fields
  /\ Numbered \subseteq Fields /\ \A f \in Fields : f \in Numbered <=> f \notin Extensions
  /\ \A f \in Singular \union Repeated \union OneofMembers : f \notin Extensions
BY FieldsAssumption DEF Fields, Numbered

LEMMA AtType ==
  ASSUME NEW a \in Seq(Cells), NEW i \in Nat
  PROVE  At(a, i) \in Cells
BY ValueTypes DEF At

LEMMA PutIs ==
  ASSUME NEW a \in Seq(Cells), NEW i \in Nat \ {0}, NEW v \in Cells
  PROVE  /\ Put(a, i, v) \in Seq(Cells)
         /\ Len(Put(a, i, v)) = Larger(Len(a), i)
         /\ \A j \in Nat \ {0} : At(Put(a, i, v), j) = IF j = i THEN v ELSE At(a, j)
<1> DEFINE n == Larger(Len(a), i)
<1>1. n \in Nat /\ i \in 1..n /\ Len(a) <= n
  BY DEF Larger
<1>2. \A j \in 1..n : (IF j = i THEN v ELSE At(a, j)) \in Cells
  BY <1>1, AtType
<1>3. Put(a, i, v) \in Seq(Cells) /\ Len(Put(a, i, v)) = n
  BY <1>1, <1>2 DEF Put
<1>4. \A j \in 1..n : Put(a, i, v)[j] = IF j = i THEN v ELSE At(a, j)
  BY DEF Put
<1>5. ASSUME NEW j \in Nat \ {0}
      PROVE  At(Put(a, i, v), j) = IF j = i THEN v ELSE At(a, j)
  BY <1>1, <1>3, <1>4 DEF At
<1>6. QED
  BY <1>3, <1>5

\* An array that changes below the pivot, and grows at most up to it, keeps its layout.
LEMMA GrownLaid ==
  ASSUME NEW o, Laid(o), NEW a \in Seq(Cells),
         Len(a) = Len(o.array) \/ (Len(o.array) < Len(a) /\ Len(a) < o.pivot),
         \A i \in 1..Len(a) : i < o.pivot => a[i] \in Value,
         At(a, o.pivot) = At(o.array, o.pivot)
  PROVE  Laid([o EXCEPT !.array = a])
<1> DEFINE p == [o EXCEPT !.array = a]
<1>1. /\ o.array \in Seq(Cells) /\ o.pivot \in Nat \ {0} /\ o.ext \in Refs \union {NoExt}
      /\ p \in [array : Seq(Cells), pivot : Nat \ {0}, ext : Refs \union {NoExt}]
      /\ p.array = a /\ p.pivot = o.pivot /\ p.ext = o.ext
  BY DEF Laid
<1> HIDE DEF p
<1>2. CASE o.ext = NoExt
  <2>1. Len(o.array) < o.pivot /\ o.pivot = PivotOver(Len(o.array))
    BY <1>2 DEF Laid
  <2>2. Len(a) < o.pivot
    BY <2>1
  <2>3. o.pivot = PivotOver(Len(a))
    BY <1>1, <2>1, <2>2, FieldTypes DEF PivotOver, Larger
  <2>4. QED
    BY <1>1, <1>2, <2>2, <2>3 DEF Laid, p
<1>3. CASE o.ext # NoExt
  <2>1. /\ Len(o.array) = o.pivot /\ o.array[o.pivot] = o.ext
        /\ SuggestedPivot > -1 \/ o.pivot < Infinity
    BY <1>3 DEF Laid
  <2>2. Len(a) = o.pivot /\ a[o.pivot] = o.ext
    BY <1>1, <2>1 DEF At
  <2>3. QED
    BY <1>1, <1>3, <2>1, <2>2 DEF Laid, p
<1>4. QED
  BY <1>2, <1>3

LEMMA PutLaid ==
  ASSUME NEW o, Laid(o), NEW i \in Nat \ {0}, i < o.pivot, NEW v \in Value
  PROVE  /\ Laid([o EXCEPT !.array = Put(@, i, v)])
         /\ \A j \in Nat \ {0} : At(Put(o.array, i, v), j) = IF j = i THEN v ELSE At(o.array, j)
<1> DEFINE a == Put(o.array, i, v)
<1>1. /\ o.array \in Seq(Cells) /\ o.pivot \in Nat \ {0}
      /\ v \in Cells
  BY DEF Laid, Cells
<1>2. /\ a \in Seq(Cells) /\ Len(a) = Larger(Len(o.array), i)
      /\ \A j \in Nat \ {0} : At(a, j) = IF j = i THEN v ELSE At(o.array, j)
  BY <1>1, PutIs DEF Cells
<1> HIDE DEF a
<1>3. ASSUME NEW j \in 1..Len(a), j < o.pivot PROVE a[j] \in Value
  <2>1. a[j] = At(a, j) /\ j \in Nat \ {0}
    BY <1>2 DEF At
  <2>2. At(o.array, j) \in Value
    BY <1>1, <1>3, <2>1, ValueTypes DEF At, Laid
  <2>3. QED
    BY <1>2, <2>1, <2>2
<1>4. Len(a) = Len(o.array) \/ (Len(o.array) < Len(a) /\ Len(a) < o.pivot)
  BY <1>1, <1>2 DEF Larger
<1>5. At(a, o.pivot) = At(o.array, o.pivot)
  BY <1>1, <1>2
<1>6. Laid([o EXCEPT !.array = a])
  BY <1>2, <1>3, <1>4, <1>5, GrownLaid
<1>7. QED
  BY <1>2, <1>6 DEF a

-----------------------------------------------------------------------------
(* Putting a field *)

LEMMA EOAtPivot ==
  ASSUME NEW o, Laid(o)
  PROVE  /\ At(o.array, o.pivot) = IF o.ext = NoExt THEN Unset ELSE o.ext
         /\ (At(o.array, o.pivot) = Unset) <=> (o.ext = NoExt)
BY ValueTypes DEF Laid, At

LEMMA MaybeInitIs ==
  ASSUME NEW o, Laid(o), NEW h \in EOs, NEW r \in Refs,
         SuggestedPivot > -1 \/ o.ext # NoExt
  PROVE  LET s == MaybeInitEmptyExtensionObject(o, h, r)
         IN  /\ Apart(s, o, h, r)
             /\ s.o.ext \in Refs /\ s.o.ext = IF o.ext = NoExt THEN r ELSE o.ext
             /\ s.o.pivot = o.pivot
             /\ \A i \in Nat \ {0} : i < o.pivot => At(s.o.array, i) = At(o.array, i)
             /\ s.h[s.o.ext] = IF o.ext = NoExt THEN EmptyEO ELSE h[o.ext]
<1> DEFINE s == MaybeInitEmptyExtensionObject(o, h, r)
<1>1. o \in [array : Seq(Cells), pivot : Nat \ {0}, ext : Refs \union {NoExt}]
  BY DEF Laid
<1>2. CASE o.ext # NoExt
  <2>1. s = State(o, h)
    BY <1>2, EOAtPivot DEF MaybeInitEmptyExtensionObject
  <2>2. s.o = o /\ s.h = h
    BY <2>1 DEF State
  <2>3. QED
    BY <1>1, <1>2, <2>2 DEF Apart
<1>3. CASE o.ext = NoExt
  <2> DEFINE a == Put(o.array, o.pivot, r)
             p == [o EXCEPT !.array = a, !.ext = r]
  <2>1. s.o = p /\ s.h = [h EXCEPT ![r] = EmptyEO]
    BY <1>3, EOAtPivot DEF MaybeInitEmptyExtensionObject, State
  <2>2. /\ a \in Seq(Cells) /\ Len(a) = Larger(Len(o.array), o.pivot)
        /\ \A j \in Nat \ {0} : At(a, j) = IF j = o.pivot THEN r ELSE At(o.array, j)
    BY <1>1, PutIs DEF Cells
  <2>3. Len(o.array) < o.pivot
    BY <1>3 DEF Laid
  <2>4. Len(a) = o.pivot /\ a[o.pivot] = r
    BY <1>1, <2>2, <2>3 DEF Larger, At
  <2>5. \A i \in 1..Len(a) : i < o.pivot => a[i] \in Value
    BY <1>1, <2>2, <2>3, <2>4, ValueTypes DEF Laid, At
  <2>6. /\ p \in [array : Seq(Cells), pivot : Nat \ {0}, ext : Refs \union {NoExt}]
        /\ p.array = a /\ p.pivot = o.pivot /\ p.ext = r
    BY <1>1, <2>2
  <2>7. Laid(p)
    BY <1>3, <2>4, <2>5, <2>6, ValueTypes DEF Laid
  <2>8. s.h \in EOs /\ s.h[r] = EmptyEO /\ \A e \in Refs \ {r} : s.h[e] = h[e]
    BY <2>1, ValueTypes DEF EOs
  <2>9. NothingElse(o, h) => NothingElse(s.o, s.h)
    <3>1. \A i \in Nat \ {0} : i < o.pivot => At(s.o.array, i) = At(o.array, i)
      BY <1>1, <2>1, <2>2, <2>6
    <3>2. \A f \in Numbered : Property(s.o, s.h, f) = Unset
      BY <2>1, <2>6, <2>8, FieldTypes DEF Property, EmptyEO
    <3>3. s.o.pivot = o.pivot
      BY <2>1, <2>6
    <3>4. QED
      BY <3>1, <3>2, <3>3 DEF NothingElse
  <2>10. QED
    BY <1>1, <1>3, <2>1, <2>2, <2>6, <2>7, <2>8, <2>9 DEF Apart
<1>4. QED
  BY <1>2, <1>3

\* A field that is an extension, or from the pivot on, has an object or may be given one.
LEMMA MayHaveEO ==
  ASSUME NEW o, Laid(o), NEW f \in Fields, f \in Extensions \/ ~(f < o.pivot)
  PROVE  SuggestedPivot > -1 \/ o.ext # NoExt
BY FieldTypes DEF Laid, PivotOver

LEMMA RawIs ==
  ASSUME NEW o, NEW h, NEW g
  PROVE  Raw(o, h, g) = IF g \notin Extensions /\ g < o.pivot THEN At(o.array, g)
                        ELSE Property(o, h, g)
BY DEF Raw, Slot, Property

LEMMA PutExtensionIs ==
  ASSUME NEW o, Laid(o), NEW h \in EOs, NEW r \in Refs, NEW f \in Fields, NEW v \in Value,
         f \in Extensions \/ ~(f < o.pivot)
  PROVE  LET s == PutExtension(o, h, f, v, r)
         IN  /\ Apart(s, o, h, r)
             /\ s.o.pivot = o.pivot
             /\ \A g \in Fields : Raw(s.o, s.h, g) = IF g = f THEN v ELSE Raw(o, h, g)
<1> DEFINE m == MaybeInitEmptyExtensionObject(o, h, r)
           s == PutExtension(o, h, f, v, r)
           k == [m.h EXCEPT ![m.o.ext][f] = v]
<1>1. /\ Apart(m, o, h, r)
      /\ m.o.ext \in Refs /\ m.o.ext = IF o.ext = NoExt THEN r ELSE o.ext
      /\ m.o.pivot = o.pivot
      /\ \A i \in Nat \ {0} : i < o.pivot => At(m.o.array, i) = At(o.array, i)
      /\ m.h[m.o.ext] = IF o.ext = NoExt THEN EmptyEO ELSE h[o.ext]
  BY MayHaveEO, MaybeInitIs
<1>2. s.o = m.o /\ s.h = k
  BY DEF PutExtension, State
<1> HIDE DEF m
<1>3. m.h \in EOs
  BY <1>1 DEF Apart
<1>4. /\ k \in EOs
      /\ \A e \in Refs \ {m.o.ext} : k[e] = m.h[e]
      /\ \A g \in Fields : k[m.o.ext][g] = IF g = f THEN v ELSE m.h[m.o.ext][g]
  BY <1>1, <1>3 DEF EOs
<1> HIDE DEF k, s
<1>5. NothingElse(m.o, m.h) => NothingElse(m.o, k)
  <2>1. m.o.ext # NoExt
    BY <1>1, ValueTypes
  <2>2. f \in Numbered => ~(f < m.o.pivot)
    BY <1>1, FieldTypes
  <2>3. \A g \in Numbered : g < m.o.pivot => Property(m.o, k, g) = Property(m.o, m.h, g)
    BY <1>4, <2>1, <2>2, FieldTypes DEF Property
  <2>4. QED
    BY <2>3 DEF NothingElse
<1>6. m.o.ext # NoExt /\ Apart(s, o, h, r)
  BY <1>1, <1>2, <1>4, <1>5, ValueTypes DEF Apart
<1>7. ASSUME NEW g \in Fields
      PROVE  Raw(s.o, s.h, g) = IF g = f THEN v ELSE Raw(o, h, g)
  <2>1. Property(m.o, k, g) = IF g = f THEN v ELSE m.h[m.o.ext][g]
    BY <1>4, <1>6 DEF Property
  <2>2. m.h[m.o.ext][g] = Property(o, h, g)
    BY <1>1 DEF Property, EmptyEO
  <2>3. CASE g \notin Extensions /\ g < o.pivot
    <3>1. At(m.o.array, g) = At(o.array, g)
      BY <1>1, <2>3, FieldTypes
    <3>2. g # f
      BY <2>3
    <3>3. QED
      BY <1>1, <1>2, <2>3, <3>1, <3>2, RawIs
  <2>4. CASE ~(g \notin Extensions /\ g < o.pivot)
    BY <1>1, <1>2, <2>1, <2>2, <2>4, RawIs
  <2>5. QED
    BY <2>3, <2>4
<1>8. QED
  BY <1>1, <1>2, <1>6, <1>7 DEF s

\* setField: the one field gets the value, wherever it is kept.
LEMMA PutFieldIs ==
  ASSUME NEW o, Laid(o), NEW h \in EOs, NEW r \in Refs,
         NEW f \in Fields, f \notin Extensions, NEW v \in Value
  PROVE  LET s == PutField(o, h, f, v, r)
         IN  /\ Apart(s, o, h, r)
             /\ s.o.pivot = o.pivot
             /\ \A g \in Fields : Raw(s.o, s.h, g) = IF g = f THEN v ELSE Raw(o, h, g)
<1> DEFINE s == PutField(o, h, f, v, r)
           p == [o EXCEPT !.array = Put(@, f, v)]
<1>1. o.pivot \in Nat
  BY DEF Laid
<1>2. CASE f < o.pivot
  <2>1. s.o = p /\ s.h = h
    BY <1>2 DEF PutField, State
  <2>2. /\ p.array = Put(o.array, f, v) /\ p.pivot = o.pivot /\ p.ext = o.ext
    BY DEF Laid
  <2>3. /\ Laid(p)
        /\ \A j \in Nat \ {0} : At(p.array, j) = IF j = f THEN v ELSE At(o.array, j)
    BY <1>2, <2>2, PutLaid, FieldTypes
  <2>4. Apart(s, o, h, r)
    <3>1. f \in Numbered
      BY FieldTypes
    <3>2. NothingElse(o, h) => NothingElse(p, h)
      BY <2>2, <2>3, <3>1 DEF NothingElse, Property
    <3>3. QED
      BY <2>1, <2>2, <2>3, <3>2 DEF Apart
  <2> HIDE DEF s, p
  <2>5. ASSUME NEW g \in Fields
        PROVE  Raw(p, h, g) = IF g = f THEN v ELSE Raw(o, h, g)
    <3>1. g \in Nat \ {0} /\ Property(p, h, g) = Property(o, h, g)
      BY <2>2, FieldTypes DEF Property
    <3>2. QED
      BY <1>2, <2>2, <2>3, <3>1, RawIs
  <2>6. QED
    BY <2>1, <2>2, <2>4, <2>5 DEF s
<1>3. CASE ~(f < o.pivot)
  <2>1. s = PutExtension(o, h, f, v, r)
    BY <1>3 DEF PutField
  <2>2. QED
    BY <1>3, <2>1, PutExtensionIs
<1>4. QED
  BY <1>2, <1>3

-----------------------------------------------------------------------------
(* Constructing a message *)

\* initPivotAndExtensionObject_ over any array with an extension object at most at its end.
LEMMA LayOutIs ==
  ASSUME NEW a \in Seq(Cells), \A i \in 1..Len(a) : i < Len(a) => a[i] \in Value,
         IF At(a, Len(a)) \in Refs THEN SuggestedPivot > -1 \/ Len(a) < Infinity
                                   ELSE Len(a) < PivotOver(Len(a))
  PROVE  LET o == LayOut(a)
         IN  /\ Laid(o) /\ o.array = a
             /\ IF At(a, Len(a)) \in Refs THEN o.ext = At(a, Len(a)) /\ o.pivot = Len(a)
                ELSE o.ext = NoExt /\ o.pivot = PivotOver(Len(a))
<1> DEFINE o == LayOut(a)
<1>1. CASE At(a, Len(a)) \in Refs
  <2>1. Len(a) \in Nat \ {0} /\ a[Len(a)] = At(a, Len(a))
    BY <1>1, ValueTypes DEF At
  <2>2. o = [array |-> a, pivot |-> Len(a), ext |-> a[Len(a)]]
    BY <1>1 DEF LayOut
  <2>3. QED
    BY <1>1, <2>1, <2>2, ValueTypes DEF Laid
<1>2. CASE At(a, Len(a)) \notin Refs
  <2>1. o = [array |-> a, pivot |-> PivotOver(Len(a)), ext |-> NoExt]
    BY <1>2 DEF LayOut, PivotOver
  <2>2. PivotOver(Len(a)) \in Nat \ {0} /\ Len(a) < PivotOver(Len(a))
    BY <1>2, FieldTypes DEF PivotOver, Larger
  <2>3. ASSUME NEW i \in 1..Len(a) PROVE a[i] \in Value
    <3>1. a[Len(a)] \notin Refs \/ Len(a) = 0
      BY <1>2 DEF At
    <3>2. QED
      BY <3>1 DEF Cells
  <2>4. QED
    BY <1>2, <2>1, <2>2, <2>3 DEF Laid
<1>3. QED
  BY <1>1, <1>2

LEMMA FilledLengthIs ==
  ASSUME NEW a \in Seq(Cells), NEW S \in SUBSET Nat, NEW b \in Nat, \A k \in S : k <= b
  PROVE  /\ FilledLength(a, S) \in {Len(a)} \union S
         /\ \A k \in {Len(a)} \union S : k <= FilledLength(a, S)
<1> DEFINE T == {Len(a)} \union S
<1>1. Len(a) \in Nat
  OBVIOUS
<1>2. /\ T \in SUBSET Nat /\ T # {}
      /\ Larger(b, Len(a)) \in Nat
      /\ b <= Larger(b, Len(a)) /\ Len(a) <= Larger(b, Len(a))
  <2>1. T \in SUBSET Nat /\ Len(a) \in T
    BY <1>1
  <2>2. QED
    BY <1>1, <2>1 DEF Larger
<1>3. \A k \in T : k <= Larger(b, Len(a))
  <2>1. ASSUME NEW k \in S PROVE k <= Larger(b, Len(a))
    <3>1. k \in Nat /\ k <= b
      OBVIOUS
    <3>2. QED
      BY <1>2, <3>1
  <2>2. QED
    BY <1>2, <2>1
<1>4. \E n \in T : \A k \in T : k <= n
  BY <1>2, <1>3, GreatestOf
<1>5. QED
  BY <1>4 DEF FilledLength

\* Repeated fields without a list get the sentinel, others stay as they are.
LEMMA FillRepeatedIs ==
  ASSUME NEW o, Laid(o), NEW h \in EOs, NEW r \in Refs
  PROVE  LET s == FillRepeated(o, h, r)
         IN  /\ Apart(s, o, h, r)
             /\ s.o.pivot = o.pivot /\ (o.ext # NoExt => s.o.ext = o.ext)
             /\ \A g \in Fields : Raw(s.o, s.h, g) =
                  IF g \in Repeated /\ Raw(o, h, g) = Unset THEN Sentinel ELSE Raw(o, h, g)
<1> DEFINE low == {f \in Repeated : f < o.pivot}
           high == Repeated \ low
           length == FilledLength(o.array, low)
           a == [i \in 1..length |->
                   IF i \in low /\ At(o.array, i) = Unset THEN Sentinel ELSE At(o.array, i)]
           filled == [o EXCEPT !.array = a]
           m == MaybeInitEmptyExtensionObject(filled, h, r)
           k == [m.h EXCEPT ![m.o.ext] =
                  [f \in Fields |-> IF f \in high /\ @[f] = Unset THEN Sentinel ELSE @[f]]]
           s == FillRepeated(o, h, r)
<1>1. /\ o.array \in Seq(Cells) /\ o.pivot \in Nat \ {0} /\ o.ext \in Refs \union {NoExt}
      /\ low \in SUBSET Nat /\ \A i \in low : i < o.pivot /\ i > 0 /\ i <= o.pivot
      /\ Len(o.array) <= o.pivot
  <2>1. /\ o.array \in Seq(Cells) /\ o.pivot \in Nat \ {0} /\ o.ext \in Refs \union {NoExt}
        /\ Len(o.array) <= o.pivot
    BY DEF Laid
  <2>2. ASSUME NEW i \in low PROVE i \in Nat /\ i < o.pivot /\ i > 0 /\ i <= o.pivot
    BY <2>1, FieldTypes
  <2>3. QED
    BY <2>1, <2>2
<1>2. /\ length \in {Len(o.array)} \union low /\ length \in Nat
      /\ \A i \in {Len(o.array)} \union low : i <= length
  <2>1. /\ length \in {Len(o.array)} \union low
        /\ \A i \in {Len(o.array)} \union low : i <= length
    BY <1>1, FilledLengthIs
  <2>2. Len(o.array) \in Nat /\ \A i \in low : i \in Nat
    BY <1>1
  <2>3. QED
    BY <2>1, <2>2
<1> HIDE DEF length
<1>3. a \in Seq(Cells) /\ Len(a) = length
  <2>1. \A i \in 1..length :
          (IF i \in low /\ At(o.array, i) = Unset THEN Sentinel ELSE At(o.array, i)) \in Cells
    BY <1>1, <1>2, AtType, ValueTypes
  <2>2. QED
    BY <1>2, <2>1
<1>4. ASSUME NEW j \in Nat \ {0}
      PROVE  At(a, j) = IF j \in low /\ At(o.array, j) = Unset THEN Sentinel ELSE At(o.array, j)
  <2>1. CASE j \in 1..length
    BY <1>3, <2>1 DEF At
  <2>2. CASE j \notin 1..length
    <3>1. j \notin low /\ j \notin 1..Len(o.array)
      BY <1>1, <1>2, <2>2
    <3>2. QED
      BY <1>3, <2>2, <3>1 DEF At
  <2>3. QED
    BY <2>1, <2>2
<1> HIDE DEF a
<1>5. /\ Laid(filled) /\ filled.array = a /\ filled.pivot = o.pivot /\ filled.ext = o.ext
  <2>1. ASSUME NEW i \in 1..Len(a), i < o.pivot PROVE a[i] \in Value
    <3>1. a[i] = At(a, i) /\ i \in Nat \ {0}
      BY <1>2, <1>3 DEF At
    <3>2. At(o.array, i) \in Value
      BY <2>1, <3>1, ValueTypes DEF Laid, At
    <3>3. QED
      BY <1>4, <3>1, <3>2, ValueTypes
  <2>2. Len(a) = Len(o.array) \/ (Len(o.array) < Len(a) /\ Len(a) < o.pivot)
    BY <1>1, <1>2, <1>3
  <2>3. At(a, o.pivot) = At(o.array, o.pivot)
    BY <1>1, <1>4
  <2>4. Laid(filled)
    BY <1>3, <2>1, <2>2, <2>3, GrownLaid
  <2>5. QED
    BY <2>4 DEF Laid
<1>6. ASSUME NEW g \in Fields
      PROVE  Raw(filled, h, g) = IF g \in low /\ Raw(o, h, g) = Unset THEN Sentinel ELSE Raw(o, h, g)
  <2>1. g \in Nat \ {0} /\ Property(filled, h, g) = Property(o, h, g)
    BY <1>5, FieldTypes DEF Property
  <2>2. g \in low => g \notin Extensions /\ g < o.pivot
    BY FieldTypes
  <2>3. QED
    BY <1>4, <1>5, <2>1, <2>2, RawIs
<1>6a. NothingElse(o, h) => NothingElse(filled, h)
  <2>1. \A f \in low : f \in Numbered
    BY DEF Numbered
  <2>2. QED
    BY <1>4, <1>5, <2>1 DEF NothingElse, Property
<1> HIDE DEF filled
<1>7. CASE high = {}
  <2>1. s.o = filled /\ s.h = h
    BY <1>7 DEF FillRepeated, State, filled, a, length
  <2>2. Apart(s, o, h, r)
    BY <1>5, <1>6a, <2>1 DEF Apart
  <2>3. \A g : g \in low <=> g \in Repeated
    BY <1>7
  <2> HIDE DEF s, low
  <2>4. QED
    BY <1>5, <1>6, <2>1, <2>2, <2>3 DEF s
<1>8. CASE high # {}
  <2>1. s.o = m.o /\ s.h = k
    BY <1>8 DEF FillRepeated, State, filled, a, length
  <2>2. /\ Apart(m, filled, h, r)
        /\ m.o.ext \in Refs /\ m.o.ext = IF o.ext = NoExt THEN r ELSE o.ext
        /\ m.o.pivot = o.pivot
        /\ \A i \in Nat \ {0} : i < o.pivot => At(m.o.array, i) = At(a, i)
        /\ m.h[m.o.ext] = IF o.ext = NoExt THEN EmptyEO ELSE h[o.ext]
    <3>1. PICK f \in high : TRUE
      BY <1>8
    <3>2. f \in Fields /\ ~(f < filled.pivot)
      BY <1>5, FieldTypes
    <3>3. SuggestedPivot > -1 \/ filled.ext # NoExt
      BY <1>5, <3>2, MayHaveEO
    <3>4. QED
      BY <1>5, <3>3, MaybeInitIs
  <2> HIDE DEF m
  <2>3. m.h \in EOs /\ m.o.ext # NoExt
    BY <2>2, ValueTypes DEF Apart
  <2>4. /\ k \in EOs
        /\ \A e \in Refs \ {m.o.ext} : k[e] = m.h[e]
        /\ \A g \in Fields : k[m.o.ext][g] =
             IF g \in high /\ m.h[m.o.ext][g] = Unset THEN Sentinel ELSE m.h[m.o.ext][g]
    BY <2>2, <2>3, ValueTypes DEF EOs
  <2> HIDE DEF k
  <2>5. Apart(s, o, h, r)
    <3>1. \A g \in Numbered : g < m.o.pivot => Property(m.o, k, g) = Property(m.o, m.h, g)
      <4>1. \A g \in Numbered : g < m.o.pivot => g \in Fields /\ g \notin high
        BY <2>2, FieldTypes
      <4>2. QED
        BY <2>3, <2>4, <4>1 DEF Property
    <3>2. NothingElse(m.o, m.h) => NothingElse(m.o, k)
      BY <3>1 DEF NothingElse
    <3>3. QED
      BY <1>5, <1>6a, <2>1, <2>2, <2>4, <3>2 DEF Apart
  <2>6. ASSUME NEW g \in Fields
        PROVE  Raw(m.o, k, g) =
                 IF g \in Repeated /\ Raw(o, h, g) = Unset THEN Sentinel ELSE Raw(o, h, g)
    <3>1. m.h[m.o.ext][g] = Property(o, h, g)
      BY <2>2 DEF Property, EmptyEO
    <3>2. Property(m.o, k, g) =
            IF g \in high /\ Property(o, h, g) = Unset THEN Sentinel ELSE Property(o, h, g)
      BY <2>3, <2>4, <3>1 DEF Property
    <3>3. CASE g \notin Extensions /\ g < o.pivot
      <4>1. At(m.o.array, g) = At(a, g) /\ At(filled.array, g) = At(a, g)
        BY <1>5, <2>2, <3>3, FieldTypes
      <4>2. Raw(m.o, k, g) = Raw(filled, h, g)
        BY <1>5, <2>2, <3>3, <4>1, RawIs
      <4>3. QED
        BY <1>6, <3>3, <4>2
    <3>4. CASE ~(g \notin Extensions /\ g < o.pivot)
      <4>1. Raw(m.o, k, g) = Property(m.o, k, g) /\ Raw(o, h, g) = Property(o, h, g)
        BY <2>2, <3>4, RawIs
      <4>2. g \in high <=> g \in Repeated
        BY <3>4, FieldTypes
      <4>3. QED
        BY <3>2, <4>1, <4>2
    <3>5. QED
      BY <3>3, <3>4
  <2> HIDE DEF s
  <2>7. QED
    BY <2>1, <2>2, <2>5, <2>6 DEF s
<1>9. QED
  BY <1>7, <1>8

LEMMA RawOfMember ==
  ASSUME NEW o, NEW h, NEW f \in Singular \union Repeated \union OneofMembers
  PROVE  Raw(o, h, f) = Slot(o, h, f)
BY FieldTypes DEF Raw

\* The case of a oneof is a member with a value, or 0 if none has one.
LEMMA OneofCaseIs ==
  ASSUME NEW o, NEW h
  PROVE  \/ OneofCase(o, h) = 0 /\ \A f \in OneofMembers : Raw(o, h, f) = Unset
         \/ OneofCase(o, h) \in OneofMembers /\ Raw(o, h, OneofCase(o, h)) # Unset
<1> DEFINE set == {i \in 1..Len(Oneof) : Slot(o, h, Oneof[i]) # Unset}
<1>1. Len(Oneof) \in Nat /\ set \in SUBSET Nat /\ \A i \in set : i <= Len(Oneof)
  BY FieldsAssumption
<1>2. CASE set = {}
  <2>1. OneofCase(o, h) = 0
    BY <1>2 DEF OneofCase
  <2>2. \A f \in OneofMembers : Slot(o, h, f) = Unset
    BY <1>2 DEF OneofMembers
  <2>3. QED
    BY <2>1, <2>2, RawOfMember
<1>3. CASE set # {}
  <2> DEFINE i == CHOOSE n \in set : \A j \in set : j <= n
  <2>1. i \in set
    BY <1>1, <1>3, GreatestOf
  <2>2. OneofCase(o, h) = Oneof[i]
    BY <1>3 DEF OneofCase
  <2>3. Oneof[i] \in OneofMembers /\ Slot(o, h, Oneof[i]) # Unset
    BY <2>1 DEF OneofMembers
  <2>4. QED
    BY <2>2, <2>3, RawOfMember
<1>4. QED
  BY <1>2, <1>3

\* Fields as computeOneofCase leaves them: a member before another that is set has none.
SupersededIn(raw, f) ==
  \E i, j \in 1..Len(Oneof) : i < j /\ Oneof[i] = f /\ raw[Oneof[j]] # Unset
WithoutSuperseded(raw) == [f \in Fields |-> IF SupersededIn(raw, f) THEN Unset ELSE raw[f]]

\* The members that are not the case are those another supersedes, and some without a value.
LEMMA OthersAreSuperseded ==
  ASSUME NEW o, NEW h, NEW raw \in [Fields -> Value], \A g \in OneofMembers : raw[g] = Raw(o, h, g),
         NEW f \in OneofMembers
  PROVE  IF SupersededIn(raw, f) THEN f # OneofCase(o, h)
                                 ELSE f = OneofCase(o, h) \/ raw[f] = Unset
<1> DEFINE set == {i \in 1..Len(Oneof) : Slot(o, h, Oneof[i]) # Unset}
           last == CHOOSE n \in set : \A j \in set : j <= n
<1>1. Len(Oneof) \in Nat /\ set \in SUBSET Nat /\ \A i \in set : i <= Len(Oneof)
  BY FieldsAssumption
<1>2. \A i \in 1..Len(Oneof) : Oneof[i] \in OneofMembers /\ Slot(o, h, Oneof[i]) = raw[Oneof[i]]
  BY RawOfMember DEF OneofMembers
<1>3. \A i \in 1..Len(Oneof) : i \in set <=> raw[Oneof[i]] # Unset
  BY <1>2
<1>4. PICK k \in 1..Len(Oneof) : Oneof[k] = f
  BY DEF OneofMembers
<1>5. \A i, j \in 1..Len(Oneof) : Oneof[i] = Oneof[j] => i = j
  BY FieldsAssumption
<1>6. OneofCase(o, h) = IF set = {} THEN 0 ELSE Oneof[last]
  BY DEF OneofCase
<1>7. f # 0
  BY FieldTypes
<1>8. set # {} => last \in set /\ \A j \in set : j <= last
  BY <1>1, GreatestOf
<1>9. set \subseteq 1..Len(Oneof)
  OBVIOUS
<1> HIDE DEF set, last
<1>10. CASE SupersededIn(raw, f)
  <2>1. PICK j \in 1..Len(Oneof) : k < j /\ raw[Oneof[j]] # Unset
    BY <1>4, <1>5, <1>10 DEF SupersededIn
  <2>2. j \in set /\ last \in set /\ j <= last
    BY <1>3, <1>8, <2>1
  <2>3. last # k
    BY <1>1, <1>9, <2>1, <2>2
  <2>4. Oneof[last] # f
    BY <1>4, <1>5, <1>9, <2>2, <2>3
  <2>5. QED
    BY <1>6, <1>10, <2>2, <2>4
<1>11. CASE ~SupersededIn(raw, f)
  <2>1. \A j \in set : ~(k < j)
    BY <1>3, <1>4, <1>9, <1>11 DEF SupersededIn
  <2>2. CASE k \in set
    <3>1. last \in set /\ k <= last /\ ~(k < last) /\ k \in Nat /\ last \in Nat
      BY <1>1, <1>8, <2>1, <2>2
    <3>2. QED
      BY <1>4, <1>6, <1>11, <2>2, <3>1
  <2>3. CASE k \notin set
    BY <1>3, <1>4, <1>11, <2>3
  <2>4. QED
    BY <2>2, <2>3
<1>12. QED
  BY <1>10, <1>11

\* computeOneofCase: only the case keeps its value.
LEMMA KeepOneofCaseIs ==
  ASSUME NEW o, Laid(o), NEW h \in EOs, NEW r \in Refs
  PROVE  LET s == KeepOneofCase(o, h)
         IN  /\ Apart(s, o, h, r) /\ s.o.pivot = o.pivot /\ s.o.ext = o.ext
             /\ \A g \in Fields : Raw(s.o, s.h, g) =
                  IF g \in OneofMembers /\ g # OneofCase(o, h) THEN Unset ELSE Raw(o, h, g)
<1> DEFINE s == KeepOneofCase(o, h)
           lost == OneofMembers \ {OneofCase(o, h)}
           a == [i \in DOMAIN o.array |->
                   IF i \in lost /\ i < o.pivot THEN Unset ELSE o.array[i]]
           p == [o EXCEPT !.array = a]
           k == IF o.ext = NoExt THEN h
                ELSE [h EXCEPT ![o.ext] =
                       [f \in Fields |-> IF f \in lost /\ f >= o.pivot THEN Unset ELSE @[f]]]
<1>1. /\ o.array \in Seq(Cells) /\ o.pivot \in Nat \ {0} /\ o.ext \in Refs \union {NoExt}
      /\ Len(o.array) \in Nat /\ DOMAIN o.array = 1..Len(o.array)
  BY DEF Laid
<1>2. s.o = p /\ s.h = k
  BY DEF KeepOneofCase, State
<1> HIDE DEF lost, s
<1>3. a \in Seq(Cells) /\ Len(a) = Len(o.array)
  <2>1. \A i \in 1..Len(o.array) :
          (IF i \in lost /\ i < o.pivot THEN Unset ELSE o.array[i]) \in Cells
    BY <1>1, ValueTypes
  <2>2. QED
    BY <1>1, <2>1
<1>4. ASSUME NEW j \in Nat
      PROVE  At(a, j) = IF j \in lost /\ j < o.pivot THEN Unset ELSE At(o.array, j)
  BY <1>1, <1>3 DEF At
<1> HIDE DEF a
<1>5. Laid(p) /\ p.array = a /\ p.pivot = o.pivot /\ p.ext = o.ext
  <2>1. ASSUME NEW i \in 1..Len(a), i < o.pivot PROVE a[i] \in Value
    <3>1. a[i] = At(a, i) /\ At(o.array, i) = o.array[i]
      BY <1>1, <1>3 DEF At
    <3>2. o.array[i] \in Value
      BY <1>3, <2>1 DEF Laid
    <3>3. QED
      BY <1>4, <3>1, <3>2, ValueTypes
  <2>2. At(a, o.pivot) = At(o.array, o.pivot)
    BY <1>1, <1>4
  <2>3. Laid(p)
    BY <1>3, <2>1, <2>2, GrownLaid
  <2>4. QED
    BY <2>3 DEF Laid
<1> HIDE DEF p
<1>6. /\ k \in EOs
      /\ \A e \in Refs \ {o.ext} : k[e] = h[e]
      /\ \A g \in Fields : Property(p, k, g) =
           IF g \in lost /\ g >= o.pivot THEN Unset ELSE Property(o, h, g)
  <2>1. CASE o.ext = NoExt
    BY <1>5, <2>1 DEF Property
  <2>2. CASE o.ext # NoExt
    <3>1. o.ext \in Refs
      BY <1>1, <2>2
    <3>2. /\ k \in EOs
          /\ \A e \in Refs \ {o.ext} : k[e] = h[e]
          /\ \A g \in Fields : k[o.ext][g] =
               IF g \in lost /\ g >= o.pivot THEN Unset ELSE h[o.ext][g]
      BY <2>2, <3>1, ValueTypes DEF EOs
    <3>3. QED
      BY <1>5, <2>2, <3>2 DEF Property
  <2>3. QED
    BY <2>1, <2>2
<1> HIDE DEF k
<1>7. Apart(s, o, h, r)
  <2>1. NothingElse(o, h) => NothingElse(p, k)
    BY <1>4, <1>5, <1>6, FieldTypes DEF NothingElse
  <2>2. QED
    BY <1>1, <1>2, <1>5, <1>6, <2>1 DEF Apart
<1>8. ASSUME NEW g \in Fields
      PROVE  Raw(p, k, g) =
               IF g \in OneofMembers /\ g # OneofCase(o, h) THEN Unset ELSE Raw(o, h, g)
  <2>1. g \in Nat /\ (g \in lost => g \notin Extensions)
    BY FieldTypes DEF lost
  <2>2. Raw(p, k, g) = IF g \in lost THEN Unset ELSE Raw(o, h, g)
    <3>1. CASE g \notin Extensions /\ g < o.pivot
      BY <1>4, <1>5, <2>1, <3>1, RawIs
    <3>2. CASE g \in Extensions
      BY <1>5, <1>6, <2>1, <3>2, RawIs
    <3>3. CASE g \notin Extensions /\ ~(g < o.pivot)
      <4>1. g >= o.pivot
        BY <1>1, <2>1, <3>3
      <4>2. QED
        BY <1>5, <1>6, <3>3, <4>1, RawIs
    <3>4. QED
      BY <3>1, <3>2, <3>3
  <2>3. QED
    BY <2>2 DEF lost
<1>9. QED
  BY <1>2, <1>5, <1>7, <1>8 DEF s

\* What may be stored for a field, and the fields of a message o.
Storable(f) == IF f \in Repeated THEN Lists \union {Sentinel} ELSE Vals \union {Unset}
AtMostOneCase(raw) ==
  \A f, g \in OneofMembers : raw[f] # Unset /\ raw[g] # Unset => f = g
RawFields(o, h) == [f \in Fields |-> Raw(o, h, f)]
FieldsOK(o, h) ==
  /\ \A f \in Fields : Raw(o, h, f) \in Storable(f)
  /\ AtMostOneCase(RawFields(o, h))
  /\ NoUnknown => NothingElse(o, h)

\* Fields as they are when every repeated one has its list or the sentinel.
Filled(raw) == [f \in Fields |-> IF f \in Repeated /\ raw[f] = Unset THEN Sentinel ELSE raw[f]]

LEMMA StorableIsValue ==
  ASSUME NEW f
  PROVE  Storable(f) \subseteq Value
BY DEF Storable, Value

\* Where at most one member has a value, none is superseded.
LEMMA OneCaseIsKept ==
  ASSUME NEW raw, raw = [f \in Fields |-> raw[f]], AtMostOneCase(raw)
  PROVE  WithoutSuperseded(raw) = raw
<1>1. ASSUME NEW f \in Fields, SupersededIn(raw, f) PROVE raw[f] = Unset
  <2>1. PICK i \in 1..Len(Oneof), j \in 1..Len(Oneof) :
          i < j /\ Oneof[i] = f /\ raw[Oneof[j]] # Unset
    BY <1>1 DEF SupersededIn
  <2>2. Oneof[i] \in OneofMembers /\ Oneof[j] \in OneofMembers /\ Oneof[j] # Oneof[i]
    BY <2>1, FieldsAssumption DEF OneofMembers
  <2>3. QED
    BY <2>1, <2>2 DEF AtMostOneCase
<1>2. \A f \in Fields : (IF SupersededIn(raw, f) THEN Unset ELSE raw[f]) = raw[f]
  BY <1>1
<1>3. QED
  BY <1>2 DEF WithoutSuperseded

LEMMA ApartTransitive ==
  ASSUME NEW s, NEW t, NEW o, NEW h, NEW r, Apart(s, o, h, r), Apart(t, s.o, s.h, r)
  PROVE  Apart(t, o, h, r)
BY ValueTypes DEF Apart

\* initialize over an array: the message keeps to its fields' types, has at most one member
\* of the oneof, and shows what was in the array if that had at most one.
LEMMA InitializeOverIs ==
  ASSUME NEW a \in Seq(Cells), \A i \in 1..Len(a) : i < Len(a) => a[i] \in Value,
         IF At(a, Len(a)) \in Refs THEN SuggestedPivot > -1 \/ Len(a) < Infinity
                                   ELSE Len(a) < PivotOver(Len(a)),
         NEW h \in EOs, NEW r \in Refs,
         \A f \in Fields : Raw(LayOut(a), h, f) \in Storable(f) \union {Unset},
         NoUnknown => NothingElse(LayOut(a), h)
  PROVE  LET s == InitializeOver(a, h, r)
         IN  /\ Apart(s, LayOut(a), h, r)
             /\ s.o.pivot = LayOut(a).pivot
             /\ LayOut(a).ext # NoExt => s.o.ext = LayOut(a).ext
             /\ FieldsOK(s.o, s.h)
             /\ RawFields(s.o, s.h) = WithoutSuperseded(Filled(RawFields(LayOut(a), h)))
<1> DEFINE o == LayOut(a)
           p == FillRepeated(o, h, r)
           s == InitializeOver(a, h, r)
<1>1. Laid(o)
  BY LayOutIs
<1> HIDE DEF o
<1>2. /\ Apart(p, o, h, r) /\ p.o.pivot = o.pivot /\ (o.ext # NoExt => p.o.ext = o.ext)
      /\ \A g \in Fields : Raw(p.o, p.h, g) =
           IF g \in Repeated /\ Raw(o, h, g) = Unset THEN Sentinel ELSE Raw(o, h, g)
  BY <1>1, FillRepeatedIs
<1>3. s = KeepOneofCase(p.o, p.h)
  BY DEF InitializeOver, o
<1> HIDE DEF p
<1> DEFINE c == OneofCase(p.o, p.h)
<1>4. /\ Apart(s, p.o, p.h, r) /\ s.o.pivot = p.o.pivot /\ s.o.ext = p.o.ext
      /\ \A g \in Fields : Raw(s.o, s.h, g) =
           IF g \in OneofMembers /\ g # c THEN Unset ELSE Raw(p.o, p.h, g)
  BY <1>2, <1>3, KeepOneofCaseIs DEF Apart
<1> HIDE DEF s
<1>5. Apart(s, o, h, r)
  BY <1>2, <1>4, ApartTransitive
<1>6. ASSUME NEW g \in Fields
      PROVE  /\ Raw(s.o, s.h, g) \in Storable(g)
             /\ g \in OneofMembers => Raw(p.o, p.h, g) = Raw(o, h, g)
             /\ g \in OneofMembers /\ g # c => Raw(s.o, s.h, g) = Unset
  <2>1. Raw(o, h, g) \in Storable(g) \union {Unset}
    BY DEF o
  <2>2. g \in OneofMembers => g \notin Repeated
    BY FieldsAssumption
  <2>3. QED
    BY <1>2, <1>4, <2>1, <2>2 DEF Storable
<1>7. c = 0 \/ c \in OneofMembers
  BY OneofCaseIs
<1>8. FieldsOK(s.o, s.h)
  <2>1. \A f \in OneofMembers : RawFields(s.o, s.h)[f] = Raw(s.o, s.h, f)
    BY FieldTypes DEF RawFields
  <2>2. AtMostOneCase(RawFields(s.o, s.h))
    BY <1>6, <2>1, FieldTypes DEF AtMostOneCase
  <2>3. NoUnknown => NothingElse(s.o, s.h)
    BY <1>5 DEF Apart, o
  <2>4. QED
    BY <1>6, <2>2, <2>3 DEF FieldsOK
<1>9. RawFields(s.o, s.h) = WithoutSuperseded(Filled(RawFields(o, h)))
  <2> DEFINE raw == Filled(RawFields(o, h))
  <2>1. \A g \in Fields : raw[g] = Raw(p.o, p.h, g)
    BY <1>2 DEF Filled, RawFields
  <2>2. raw \in [Fields -> Value]
    <3>1. ASSUME NEW g \in Fields PROVE raw[g] \in Value
      <4>1. Raw(o, h, g) \in Value
        BY StorableIsValue, ValueTypes DEF o
      <4>2. QED
        BY <1>2, <2>1, <4>1, ValueTypes
    <3>2. QED
      BY <3>1 DEF Filled
  <2>3. \A g \in OneofMembers : g \in Fields /\ raw[g] = Raw(p.o, p.h, g)
    BY <2>1, FieldTypes
  <2> HIDE DEF raw
  <2>4. ASSUME NEW g \in Fields
        PROVE  Raw(s.o, s.h, g) = IF SupersededIn(raw, g) THEN Unset ELSE raw[g]
    <3>1. CASE g \in OneofMembers
      <4>1. IF SupersededIn(raw, g) THEN g # c ELSE g = c \/ raw[g] = Unset
        BY <2>2, <2>3, <3>1, OthersAreSuperseded
      <4> HIDE DEF c
      <4>2. QED
        BY <1>4, <2>1, <3>1, <4>1
    <3>2. CASE g \notin OneofMembers
      <4>1. ~SupersededIn(raw, g)
        BY <3>2 DEF SupersededIn, OneofMembers
      <4>2. QED
        BY <1>4, <2>1, <3>2, <4>1
    <3>3. QED
      BY <3>1, <3>2
  <2>5. QED
    BY <2>4 DEF RawFields, WithoutSuperseded, raw
<1>10. QED
  BY <1>2, <1>4, <1>5, <1>8, <1>9 DEF s, o

\* What data say of the fields, and what a message constructed over them stores for these.
DataFields(l) == [f \in Fields |-> RawData(l, f)]
Arrived(l) == WithoutSuperseded(Filled(DataFields(l)))

DataOK(l) ==
  /\ l.slots \in Seq(Value)
  /\ \/ l.ext = NoExt /\ Len(l.slots) < PivotOver(Len(l.slots))
     \/ l.ext \in [Fields -> Value] /\ (SuggestedPivot > -1 \/ Len(l.slots) + 1 < Infinity)
  /\ \A f \in Fields : RawData(l, f) \in Storable(f) \union {Unset}
  /\ NoUnknown => OnlyFields(l)

\* s is a message made from data, and of the extension objects only r is its own.
Fresh(s, h, r) ==
  /\ Laid(s.o) /\ s.h \in EOs /\ FieldsOK(s.o, s.h)
  /\ s.o.ext \in {r, NoExt}
  /\ \A e \in Refs \ {r} : s.h[e] = h[e]

LEMMA InitializeIs ==
  ASSUME NEW l, DataOK(l), NEW h \in EOs, NEW r \in Refs
  PROVE  LET s == Initialize(l, h, r)
         IN  /\ Fresh(s, h, r)
             /\ s.o.pivot = IF l.ext = NoExt THEN PivotOver(Len(l.slots)) ELSE Len(l.slots) + 1
             /\ RawFields(s.o, s.h) = Arrived(l)
<1> DEFINE s == Initialize(l, h, r)
           a == IF l.ext = NoExt THEN l.slots ELSE Append(l.slots, r)
           k == IF l.ext = NoExt THEN h ELSE [h EXCEPT ![r] = l.ext]
           o == LayOut(a)
<1>1. s = InitializeOver(a, k, r)
  BY DEF Initialize
<1> HIDE DEF s
<1>2. l.slots \in Seq(Value) /\ Len(l.slots) \in Nat
  BY DEF DataOK
<1>3. CASE l.ext = NoExt
  <2>1. a = l.slots /\ k = h /\ Len(l.slots) < PivotOver(Len(l.slots))
    BY <1>3, ValuesAssumption DEF DataOK
  <2> HIDE DEF a, k
  <2>2. a \in Seq(Cells) /\ \A i \in 1..Len(a) : a[i] \in Value
    BY <1>2, <2>1 DEF Cells
  <2>3. At(a, Len(a)) \notin Refs
    BY <2>2, ValueTypes DEF At
  <2>4. o.array = a /\ o.ext = NoExt /\ o.pivot = PivotOver(Len(a)) /\ Laid(o)
    BY <2>1, <2>2, <2>3, LayOutIs
  <2>5. Len(a) < o.pivot /\ o.pivot \in Nat
    BY <2>4 DEF Laid
  <2> HIDE DEF o
  <2>6. ASSUME NEW f \in Fields PROVE Raw(o, k, f) = RawData(l, f)
    <3>1. Property(o, k, f) = Unset /\ f \in Nat \ {0}
      BY <2>4, FieldTypes DEF Property
    <3>2. At(a, f) = IF f <= Len(l.slots) THEN l.slots[f] ELSE Unset
      BY <1>2, <2>1, <3>1 DEF At
    <3>3. QED
      BY <1>2, <1>3, <2>1, <2>4, <2>5, <3>1, <3>2, RawIs DEF RawData
  <2>7. RawFields(o, k) = DataFields(l)
    BY <2>6 DEF RawFields, DataFields
  <2>8. /\ Apart(s, o, k, r) /\ s.o.pivot = o.pivot /\ FieldsOK(s.o, s.h)
        /\ RawFields(s.o, s.h) = WithoutSuperseded(Filled(RawFields(o, k)))
    <3>1. \A f \in Fields : Raw(o, k, f) \in Storable(f) \union {Unset}
      BY <2>6 DEF DataOK
    <3>2. ASSUME NoUnknown PROVE NothingElse(o, k)
      <4>1. OnlyFields(l)
        BY <3>2 DEF DataOK
      <4>2. \A i \in Nat \ {0} : i \notin Numbered => At(o.array, i) = Unset
        BY <1>2, <2>1, <2>4, <4>1 DEF OnlyFields, At
      <4>3. QED
        BY <2>4, <4>2 DEF NothingElse, Property
    <3>3. IF At(a, Len(a)) \in Refs THEN SuggestedPivot > -1 \/ Len(a) < Infinity
                                    ELSE Len(a) < PivotOver(Len(a))
      BY <2>1, <2>3
    <3>4. QED
      BY <1>1, <2>1, <2>2, <3>1, <3>2, <3>3, InitializeOverIs DEF o
  <2>9. Fresh(s, h, r)
    BY <2>1, <2>4, <2>8, ValueTypes DEF Fresh, Apart
  <2>10. QED
    BY <1>3, <2>1, <2>4, <2>7, <2>8, <2>9 DEF s, Arrived
<1>4. CASE l.ext # NoExt
  <2>1. /\ a = Append(l.slots, r) /\ k = [h EXCEPT ![r] = l.ext] /\ l.ext \in [Fields -> Value]
        /\ SuggestedPivot > -1 \/ Len(l.slots) + 1 < Infinity
    BY <1>4 DEF DataOK
  <2> HIDE DEF a, k
  <2>2. /\ a \in Seq(Cells) /\ Len(a) = Len(l.slots) + 1 /\ a[Len(a)] = r
        /\ \A i \in 1..Len(l.slots) : a[i] = l.slots[i]
    BY <1>2, <2>1 DEF Cells
  <2>3. \A i \in 1..Len(a) : i < Len(a) => a[i] \in Value
    BY <1>2, <2>2
  <2>4. At(a, Len(a)) = r
    BY <1>2, <2>2 DEF At
  <2>5. k \in EOs /\ k[r] = l.ext /\ \A e \in Refs \ {r} : k[e] = h[e]
    BY <2>1 DEF EOs
  <2>6. o.array = a /\ o.ext = r /\ o.pivot = Len(a)
    BY <2>1, <2>2, <2>3, <2>4, LayOutIs
  <2> HIDE DEF o
  <2>7. ASSUME NEW f \in Fields PROVE Raw(o, k, f) = RawData(l, f)
    <3>1. Property(o, k, f) = l.ext[f] /\ f \in Nat \ {0}
      BY <2>5, <2>6, FieldTypes, ValueTypes DEF Property
    <3>2. f <= Len(l.slots) => At(a, f) = l.slots[f]
      BY <1>2, <2>2, <3>1 DEF At
    <3>3. f < o.pivot <=> f <= Len(l.slots)
      BY <1>2, <2>2, <2>6, <3>1
    <3>4. QED
      BY <1>4, <2>6, <3>1, <3>2, <3>3, RawIs DEF RawData
  <2>8. RawFields(o, k) = DataFields(l)
    BY <2>7 DEF RawFields, DataFields
  <2>9. /\ Apart(s, o, k, r) /\ s.o.pivot = o.pivot /\ FieldsOK(s.o, s.h)
        /\ RawFields(s.o, s.h) = WithoutSuperseded(Filled(RawFields(o, k)))
    <3>1. \A f \in Fields : Raw(o, k, f) \in Storable(f) \union {Unset}
      BY <2>7 DEF DataOK
    <3>2. ASSUME NoUnknown PROVE NothingElse(o, k)
      <4>1. OnlyFields(l)
        BY <3>2 DEF DataOK
      <4>2. \A i \in Nat \ {0} : i < o.pivot /\ i \notin Numbered => At(o.array, i) = Unset
        BY <1>2, <2>2, <2>6, <4>1 DEF OnlyFields, At
      <4>3. ASSUME NEW f \in Numbered, f < o.pivot PROVE Property(o, k, f) = Unset
        <5>1. f \in Nat /\ f <= Len(l.slots)
          BY <1>2, <2>2, <2>6, <4>3, FieldTypes
        <5>2. l.ext[f] = Unset
          BY <1>4, <4>1, <5>1 DEF OnlyFields
        <5>3. QED
          BY <2>5, <2>6, <5>2 DEF Property
      <4>4. QED
        BY <4>2, <4>3 DEF NothingElse
    <3>3. IF At(a, Len(a)) \in Refs THEN SuggestedPivot > -1 \/ Len(a) < Infinity
                                    ELSE Len(a) < PivotOver(Len(a))
      BY <2>1, <2>2, <2>4
    <3>4. QED
      BY <1>1, <2>2, <2>3, <2>5, <3>1, <3>2, <3>3, InitializeOverIs DEF o
  <2>10. Fresh(s, h, r)
    BY <2>5, <2>6, <2>9 DEF Fresh, Apart
  <2>11. QED
    BY <1>4, <2>2, <2>6, <2>8, <2>9, <2>10 DEF s, Arrived
<1>5. QED
  BY <1>3, <1>4
-----------------------------------------------------------------------------
(* Data taken out of a message *)

LEMMA EOAtEnd ==
  ASSUME NEW o, Laid(o)
  PROVE  /\ Len(o.array) \in Nat
         /\ (At(o.array, Len(o.array)) \in Refs) <=> (o.ext # NoExt)
         /\ o.ext # NoExt => Len(o.array) = o.pivot /\ o.array[Len(o.array)] = o.ext
<1>1. o.array \in Seq(Cells) /\ o.pivot \in Nat \ {0} /\ o.ext \in Refs \union {NoExt}
      /\ Len(o.array) \in Nat
  BY DEF Laid
<1>2. CASE o.ext = NoExt
  <2>1. Len(o.array) < o.pivot
    BY <1>2 DEF Laid
  <2>2. At(o.array, Len(o.array)) \in Value
    BY <1>1, <2>1, ValueTypes DEF At, Laid
  <2>3. QED
    BY <1>1, <1>2, <2>2, ValueTypes
<1>3. CASE o.ext # NoExt
  BY <1>1, <1>3 DEF Laid, At
<1>4. QED
  BY <1>2, <1>3

LEMMA ListTypes ==
  /\ <<>> \in Lists
  /\ Unset \notin Lists /\ Sentinel \notin Lists /\ Lists \subseteq Seq(Vals)
  /\ Unset \notin Vals /\ Sentinel \notin Vals /\ Unset # Sentinel
<1>1. <<>> \in [1..0 -> Vals]
  OBVIOUS
<1>2. <<>> \in Lists
  BY <1>1, ValuesAssumption DEF Lists
<1>3. Lists \subseteq Seq(Vals)
  BY ValuesAssumption DEF Lists
<1>4. QED
  BY <1>2, <1>3, ValuesAssumption

LEMMA SmallLists == {<<>>} \union {<<v>> : v \in Vals} \subseteq Lists
<1>1. ASSUME NEW v \in Vals PROVE <<v>> \in Lists
  <2>1. <<v>> \in [1..1 -> Vals]
    OBVIOUS
  <2>2. 1 \in 0..MaxList
    BY ValuesAssumption
  <2>3. QED
    BY <2>1, <2>2 DEF Lists
<1>2. QED
  BY <1>1, ListTypes

\* clone_ of the data array: the data of each field, the sentinel replaced.
LEMMA DataOfIs ==
  ASSUME NEW o, Laid(o), NEW h \in EOs, FieldsOK(o, h), sentinel = <<>>
  PROVE  LET d == DataOf(o, h)
         IN  /\ DataOK(d)
             /\ (d.ext = NoExt) <=> (o.ext = NoExt)
             /\ Len(d.slots) = IF o.ext = NoExt THEN Len(o.array) ELSE o.pivot - 1
             /\ DataFields(d) = [f \in Fields |-> Copied(Raw(o, h, f))]
<1> DEFINE d == DataOf(o, h)
           length == IF o.ext = NoExt THEN Len(o.array) ELSE o.pivot - 1
<1>1. /\ o.array \in Seq(Cells) /\ o.pivot \in Nat \ {0} /\ o.ext \in Refs \union {NoExt}
      /\ Len(o.array) \in Nat
      /\ \A i \in 1..Len(o.array) : i < o.pivot => o.array[i] \in Value
  BY DEF Laid
<1>2. \A v \in Value : Copied(v) \in Value
  BY ListTypes DEF Copied, Value
<1>3. length \in Nat /\ length <= Len(o.array) /\ length < o.pivot
  BY <1>1, EOAtEnd DEF Laid
<1>4. /\ d.slots = [i \in 1..length |-> Copied(o.array[i])]
      /\ d.ext = IF o.ext = NoExt THEN NoExt ELSE [f \in Fields |-> Copied(h[o.ext][f])]
  BY <1>1, EOAtEnd DEF DataOf
<1> HIDE DEF d
<1>5. d.slots \in Seq(Value) /\ Len(d.slots) = length
  <2>1. \A i \in 1..length : Copied(o.array[i]) \in Value
    BY <1>1, <1>2, <1>3
  <2>2. QED
    BY <1>3, <1>4, <2>1
<1>6. (d.ext = NoExt) <=> (o.ext = NoExt)
  <2>1. CASE o.ext # NoExt
    <3>1. d.ext \in [Fields -> Value]
      BY <1>1, <1>2, <1>4, <2>1 DEF EOs
    <3>2. QED
      BY <2>1, <3>1, ValuesAssumption
  <2>2. QED
    BY <1>4, <2>1
<1>7. \/ d.ext = NoExt /\ Len(d.slots) < PivotOver(Len(d.slots))
      \/ d.ext \in [Fields -> Value] /\ (SuggestedPivot > -1 \/ Len(d.slots) + 1 < Infinity)
  <2>1. CASE o.ext = NoExt
    BY <1>4, <1>5, <2>1 DEF Laid
  <2>2. CASE o.ext # NoExt
    <3>1. d.ext \in [Fields -> Value]
      BY <1>1, <1>2, <1>4, <2>2 DEF EOs
    <3>2. SuggestedPivot > -1 \/ o.pivot < Infinity
      BY <2>2 DEF Laid
    <3>3. Len(d.slots) + 1 = o.pivot
      BY <1>1, <1>5, <2>2
    <3>4. QED
      BY <3>1, <3>2, <3>3
  <2>3. QED
    BY <2>1, <2>2
<1>8. ASSUME NEW f \in Fields PROVE RawData(d, f) = Copied(Raw(o, h, f))
  <2>1. f \in Nat \ {0} /\ Copied(Unset) = Unset
    BY FieldTypes, ListTypes DEF Copied
  <2>2. CASE f \notin Extensions /\ f <= length
    <3>1. RawData(d, f) = Copied(o.array[f])
      BY <1>3, <1>4, <1>5, <2>1, <2>2 DEF RawData
    <3>2. Raw(o, h, f) = o.array[f]
      BY <1>1, <1>3, <2>1, <2>2, RawIs DEF At
    <3>3. QED
      BY <3>1, <3>2
  <2>3. CASE ~(f \notin Extensions /\ f <= length)
    <3>1. RawData(d, f) = Copied(Property(o, h, f))
      BY <1>4, <1>5, <1>6, <2>1, <2>3 DEF RawData, Property
    <3>2. Raw(o, h, f) = Property(o, h, f)
      <4>1. CASE f \notin Extensions /\ f < o.pivot
        <5>1. o.ext = NoExt
          BY <1>1, <2>1, <2>3, <4>1
        <5>2. At(o.array, f) = Unset
          BY <1>1, <2>1, <2>3, <4>1, <5>1 DEF At
        <5>3. QED
          BY <4>1, <5>1, <5>2, RawIs DEF Property
      <4>2. QED
        BY <4>1, RawIs
    <3>3. QED
      BY <3>1, <3>2
  <2>4. QED
    BY <2>2, <2>3
<1>9. \A f \in Fields : RawData(d, f) \in Storable(f) \union {Unset}
  <2>1. ASSUME NEW f \in Fields PROVE Copied(Raw(o, h, f)) \in Storable(f)
    BY ListTypes DEF FieldsOK, Storable, Copied
  <2>2. QED
    BY <1>8, <2>1
<1>10. DataOK(d)
  <2>1. ASSUME NoUnknown PROVE OnlyFields(d)
    <3>1. NothingElse(o, h) /\ Copied(Unset) = Unset
      BY <2>1, ListTypes DEF FieldsOK, Copied
    <3>2. \A i \in 1..length : i \notin Numbered => o.array[i] = Unset
      BY <1>1, <1>3, <3>1 DEF NothingElse, At
    <3>3. ASSUME NEW f \in Numbered, f <= length, d.ext # NoExt PROVE d.ext[f] = Unset
      <4>1. f \in Fields /\ f < o.pivot /\ o.ext # NoExt
        BY <1>1, <1>3, <1>6, <3>3, FieldTypes
      <4>2. h[o.ext][f] = Unset
        BY <3>1, <4>1 DEF NothingElse, Property
      <4>3. QED
        BY <1>4, <3>1, <4>1, <4>2
    <3>4. QED
      BY <1>3, <1>4, <1>5, <3>1, <3>2, <3>3 DEF OnlyFields
  <2>2. QED
    BY <1>5, <1>7, <1>9, <2>1 DEF DataOK
<1>11. DataFields(d) = [f \in Fields |-> Copied(Raw(o, h, f))]
  BY <1>8 DEF DataFields
<1>12. QED
  BY <1>5, <1>6, <1>10, <1>11 DEF d

\* A message rebuilt from the data of another has its pivot and shows its fields.
LEMMA ReloadIs ==
  ASSUME NEW o, Laid(o), NEW h \in EOs, FieldsOK(o, h), sentinel = <<>>,
         NEW r \in Refs
  PROVE  LET s == Initialize(DataOf(o, h), h, r)
         IN  /\ Fresh(s, h, r)
             /\ s.o.pivot = o.pivot
             /\ RawFields(s.o, s.h) = [f \in Fields |-> Copied(Raw(o, h, f))]
<1> DEFINE d == DataOf(o, h)
           s == Initialize(d, h, r)
<1>1. /\ DataOK(d)
      /\ (d.ext = NoExt) <=> (o.ext = NoExt)
      /\ Len(d.slots) = IF o.ext = NoExt THEN Len(o.array) ELSE o.pivot - 1
      /\ DataFields(d) = [f \in Fields |-> Copied(Raw(o, h, f))]
  BY DataOfIs
<1> HIDE DEF d
<1>2. /\ Fresh(s, h, r)
      /\ s.o.pivot = IF d.ext = NoExt THEN PivotOver(Len(d.slots)) ELSE Len(d.slots) + 1
      /\ RawFields(s.o, s.h) = Arrived(d)
  BY <1>1, InitializeIs
<1> HIDE DEF s
<1>3. s.o.pivot = o.pivot
  <2>1. o.pivot \in Nat
    BY DEF Laid
  <2>2. CASE o.ext = NoExt
    BY <1>1, <1>2, <2>2 DEF Laid
  <2>3. CASE o.ext # NoExt
    BY <1>1, <1>2, <2>1, <2>3
  <2>4. QED
    BY <2>2, <2>3
<1>4. AtMostOneCase(DataFields(d))
  <2>1. ASSUME NEW f \in OneofMembers
        PROVE  f \in Fields /\ DataFields(d)[f] = RawFields(o, h)[f]
    <3>1. f \in Fields /\ f \notin Repeated
      BY FieldTypes, FieldsAssumption
    <3>2. Raw(o, h, f) # Sentinel
      BY <3>1, ListTypes DEF FieldsOK, Storable
    <3>3. QED
      BY <1>1, <3>1, <3>2 DEF RawFields, Copied
  <2>2. QED
    BY <2>1 DEF FieldsOK, AtMostOneCase
<1>5. Filled(DataFields(d)) = DataFields(d)
  <2>1. ASSUME NEW f \in Repeated PROVE DataFields(d)[f] # Unset
    <3>1. f \in Fields
      BY FieldTypes
    <3>2. Copied(Raw(o, h, f)) \in Lists
      BY <3>1, ListTypes DEF FieldsOK, Storable, Copied
    <3>3. QED
      BY <1>1, <3>1, <3>2, ListTypes
  <2>2. QED
    BY <2>1, <1>1 DEF Filled
<1>6. Arrived(d) = DataFields(d)
  BY <1>4, <1>5, OneCaseIsKept DEF Arrived, DataFields
<1>7. QED
  BY <1>1, <1>2, <1>3, <1>6 DEF s, d

-----------------------------------------------------------------------------
(* The messages together *)

\* The inductive invariant: every message is laid out well and keeps to its fields' types,
\* no two have one extension object, and the shared empty list is empty.
Separate == \A m, n \in Msgs : msg[m].ext = msg[n].ext /\ msg[m].ext # NoExt => m = n

FieldsInv ==
  /\ sentinel = <<>>
  /\ msg \in [Msgs -> [array : Seq(Cells), pivot : Nat \ {0}, ext : Refs \union {NoExt}]]
  /\ eo \in EOs
  /\ \A m \in Msgs : Laid(msg[m]) /\ FieldsOK(msg[m], eo)
  /\ Separate

\* An extension object can only be where ext says.
LEMMA HoldsIs ==
  ASSUME NEW o, Laid(o), NEW e \in Refs
  PROVE  Holds(o, e) <=> o.ext = e
<1>1. ASSUME NEW i \in 1..Len(o.array), o.array[i] = e PROVE o.ext = e
  <2>1. /\ o.pivot \in Nat /\ i \in Nat /\ Len(o.array) \in Nat
        /\ Len(o.array) <= o.pivot
        /\ i < o.pivot => o.array[i] \in Value
    BY DEF Laid
  <2>2. ~(i < o.pivot)
    BY <1>1, <2>1, ValueTypes
  <2>3. i = Len(o.array) /\ i = o.pivot
    BY <2>1, <2>2
  <2>4. QED
    BY <1>1, <2>1, <2>3 DEF Laid
<1>2. QED
  BY <1>1 DEF Holds

LEMMA FreeIs ==
  ASSUME FieldsInv, NEW r \in Free
  PROVE  r \in Refs /\ \A m \in Msgs : msg[m].ext # r
BY DEF Free, Holds

\* A message depends on its own extension object alone.
LEMMA SameObjectSameFields ==
  ASSUME NEW o, NEW h, NEW k, o.ext # NoExt => h[o.ext] = k[o.ext]
  PROVE  /\ \A f \in Fields : Raw(o, k, f) = Raw(o, h, f)
         /\ RawFields(o, k) = RawFields(o, h)
         /\ FieldsOK(o, h) => FieldsOK(o, k)
<1>1. ASSUME NEW f \in Fields PROVE Raw(o, k, f) = Raw(o, h, f)
  BY RawIs DEF Property
<1>2. RawFields(o, k) = RawFields(o, h)
  BY <1>1 DEF RawFields
<1>3. NothingElse(o, h) => NothingElse(o, k)
  BY DEF NothingElse, Property
<1>4. QED
  BY <1>1, <1>2, <1>3 DEF FieldsOK

\* Every call of a message ends so: m gets a new layout, with an extension object that is
\* its own or was free, and the other messages show what they did.
LEMMA BecomeIs ==
  ASSUME FieldsInv, NEW m \in Msgs, NEW r \in Free, NEW s,
         Apart(s, msg[m], eo, r), FieldsOK(s.o, s.h),
         Become(m, s), sentinel' = sentinel
  PROVE  /\ FieldsInv'
         /\ msg' = [msg EXCEPT ![m] = s.o]
         /\ RawFields(msg'[m], eo') = RawFields(s.o, s.h)
         /\ \A n \in Msgs \ {m} : RawFields(msg'[n], eo') = RawFields(msg[n], eo)
<1>1. /\ Laid(s.o) /\ s.h \in EOs /\ s.o.ext \in {msg[m].ext, r, NoExt}
      /\ \A e \in Refs \ {msg[m].ext, r} : s.h[e] = eo[e]
  BY DEF Apart
<1>2. /\ msg' = [msg EXCEPT ![m] = s.o]
      /\ eo' = [e \in Refs |-> IF \E n \in Msgs : Holds(msg'[n], e) THEN s.h[e] ELSE EmptyEO]
  BY DEF Become
<1>3. /\ msg'[m] = s.o
      /\ \A n \in Msgs \ {m} : msg'[n] = msg[n]
  BY <1>2 DEF FieldsInv
<1>4. msg' \in [Msgs -> [array : Seq(Cells), pivot : Nat \ {0}, ext : Refs \union {NoExt}]]
  BY <1>1, <1>2 DEF FieldsInv, Laid
<1>5. \A n \in Msgs : Laid(msg'[n])
  BY <1>1, <1>3 DEF FieldsInv
<1>6. r \in Refs /\ \A n \in Msgs : msg[n].ext # r
  BY FreeIs
<1>7. Separate'
  <2>1. \A n \in Msgs \ {m} : msg[n].ext # NoExt => msg[n].ext # s.o.ext
    BY <1>1, <1>6 DEF FieldsInv, Separate
  <2>2. ASSUME NEW k \in Msgs, NEW n \in Msgs,
               msg'[k].ext = msg'[n].ext, msg'[k].ext # NoExt
        PROVE  k = n
    BY <1>3, <2>1, <2>2 DEF FieldsInv, Separate
  <2>3. QED
    BY <2>2 DEF Separate
<1>8. /\ eo' \in EOs
      /\ \A n \in Msgs : msg'[n].ext # NoExt => eo'[msg'[n].ext] = s.h[msg'[n].ext]
  <2>1. eo' \in EOs
    BY <1>1, <1>2, ValueTypes DEF EOs
  <2>2. ASSUME NEW n \in Msgs, msg'[n].ext # NoExt
        PROVE  eo'[msg'[n].ext] = s.h[msg'[n].ext]
    <3>1. msg'[n].ext \in Refs /\ Holds(msg'[n], msg'[n].ext)
      BY <1>4, <2>2 DEF Holds
    <3>2. QED
      BY <1>2, <3>1
  <2>3. QED
    BY <2>1, <2>2
<1>9. RawFields(msg'[m], eo') = RawFields(s.o, s.h) /\ FieldsOK(msg'[m], eo')
  BY <1>3, <1>8, SameObjectSameFields
<1>10. ASSUME NEW n \in Msgs \ {m}
       PROVE  RawFields(msg'[n], eo') = RawFields(msg[n], eo) /\ FieldsOK(msg'[n], eo')
  <2>1. msg'[n] = msg[n] /\ FieldsOK(msg[n], eo)
    BY <1>3 DEF FieldsInv
  <2>2. msg[n].ext # NoExt => s.h[msg[n].ext] = eo[msg[n].ext]
    BY <1>1, <1>6 DEF FieldsInv, Separate
  <2>3. msg[n].ext # NoExt => eo[msg[n].ext] = eo'[msg[n].ext]
    BY <1>8, <2>1, <2>2
  <2>4. QED
    BY <2>1, <2>3, SameObjectSameFields
<1>11. FieldsInv'
  BY <1>4, <1>5, <1>7, <1>8, <1>9, <1>10 DEF FieldsInv
<1>12. QED
  BY <1>2, <1>9, <1>10, <1>11

LEMMA FreshIsApart ==
  ASSUME NEW s, NEW h, NEW r, Fresh(s, h, r), NEW o
  PROVE  Apart(s, o, h, r)
BY DEF Fresh, Apart, FieldsOK

\* What the data a constructor gets look like to initialize.
LEMMA LoadIsData ==
  ASSUME NEW l \in Loads
  PROVE  DataOK(l)
<1>1. /\ l.slots \in Seq(Value \ {Sentinel}) /\ Len(l.slots) + 1 < Infinity
      /\ \A f \in Fields : f <= Len(l.slots) => l.slots[f] \in Arriving(f)
      /\ \/ l.ext = NoExt
         \/ l.ext \in [Fields -> Value] /\ \A f \in Fields : l.ext[f] \in Arriving(f)
  BY LoadsAssumption
<1>2. l.slots \in Seq(Value) /\ Len(l.slots) \in Nat
  BY <1>1
<1>3. Len(l.slots) < PivotOver(Len(l.slots))
  BY <1>1, <1>2, FieldTypes DEF PivotOver, Larger
<1>4. ASSUME NEW f \in Fields PROVE RawData(l, f) \in Storable(f) \union {Unset}
  <2>1. RawData(l, f) \in Arriving(f) \union {Unset}
    BY <1>1, ValuesAssumption DEF RawData
  <2>2. QED
    BY <2>1 DEF Arriving, Storable
<1>5. QED
  BY <1>1, <1>2, <1>3, <1>4 DEF DataOK, NoUnknown

-----------------------------------------------------------------------------
(* What each call does: m's fields become raw, and those of the others stay. *)

FieldsBecome(m, raw) ==
  /\ FieldsInv'
  /\ RawFields(msg'[m], eo') = raw
  /\ \A n \in Msgs \ {m} : RawFields(msg'[n], eo') = RawFields(msg[n], eo)

LEMMA BecomeFields ==
  ASSUME FieldsInv, NEW m \in Msgs, NEW r \in Free, NEW s,
         Apart(s, msg[m], eo, r), FieldsOK(s.o, s.h),
         Become(m, s), sentinel' = sentinel
  PROVE  FieldsBecome(m, RawFields(s.o, s.h))
BY BecomeIs DEF FieldsBecome

\* Fields stay well typed when one of them gets a value it may have, and no member of the
\* oneof is set beside another.
LEMMA OneFieldPut ==
  ASSUME NEW o, NEW h, FieldsOK(o, h), NEW p, NEW k,
         NEW f \in Fields, NEW v \in Storable(f),
         \A g \in Fields : Raw(p, k, g) = IF g = f THEN v ELSE Raw(o, h, g),
         f \in OneofMembers /\ v # Unset =>
           \A g \in OneofMembers \ {f} : Raw(o, h, g) = Unset,
         NoUnknown /\ NothingElse(o, h) => NothingElse(p, k)
  PROVE  /\ FieldsOK(p, k)
         /\ RawFields(p, k) = [RawFields(o, h) EXCEPT ![f] = v]
<1>1. RawFields(p, k) = [RawFields(o, h) EXCEPT ![f] = v]
  BY DEF RawFields
<1>2. \A g \in Fields : Raw(p, k, g) \in Storable(g)
  BY DEF FieldsOK
<1>3. ASSUME NEW i \in OneofMembers, NEW j \in OneofMembers,
             RawFields(p, k)[i] # Unset, RawFields(p, k)[j] # Unset
      PROVE  i = j
  <2>1. /\ i \in Fields /\ j \in Fields
        /\ RawFields(p, k)[i] = Raw(p, k, i) /\ RawFields(p, k)[j] = Raw(p, k, j)
        /\ RawFields(o, h)[i] = Raw(o, h, i) /\ RawFields(o, h)[j] = Raw(o, h, j)
    BY FieldTypes DEF RawFields
  <2>2. CASE i = f \/ j = f
    BY <1>3, <2>1, <2>2
  <2>3. CASE i # f /\ j # f
    BY <1>3, <2>1, <2>3 DEF FieldsOK, AtMostOneCase
  <2>4. QED
    BY <2>2, <2>3
<1>4. QED
  BY <1>1, <1>2, <1>3 DEF FieldsOK, AtMostOneCase

\* setField, and through it setProto3...Field, getField and addToRepeatedField.
LEMMA PutFieldStep ==
  ASSUME FieldsInv, NEW m \in Msgs, NEW r \in Free,
         NEW f \in Fields, f \notin Extensions \union OneofMembers, NEW v \in Storable(f),
         Become(m, PutField(msg[m], eo, f, v, r)), sentinel' = sentinel
  PROVE  FieldsBecome(m, [RawFields(msg[m], eo) EXCEPT ![f] = v])
<1> DEFINE s == PutField(msg[m], eo, f, v, r)
<1>1. /\ Laid(msg[m]) /\ FieldsOK(msg[m], eo) /\ eo \in EOs /\ r \in Refs /\ v \in Value
  BY FreeIs, StorableIsValue DEF FieldsInv
<1>2. /\ Apart(s, msg[m], eo, r)
      /\ \A g \in Fields : Raw(s.o, s.h, g) = IF g = f THEN v ELSE Raw(msg[m], eo, g)
  BY <1>1, PutFieldIs
<1> HIDE DEF s
<1>3. FieldsOK(s.o, s.h) /\ RawFields(s.o, s.h) = [RawFields(msg[m], eo) EXCEPT ![f] = v]
  BY <1>1, <1>2, OneFieldPut DEF Apart
<1>4. Become(m, s)
  BY DEF s
<1>5. QED
  BY <1>2, <1>3, <1>4, BecomeFields

\* setField and setFieldIgnoringDefault_
LEMMA SingularFields ==
  ASSUME NEW f \in Singular
  PROVE  /\ f \in Fields \ (Repeated \union OneofMembers) /\ f \notin Extensions
         /\ Storable(f) = Vals \union {Unset}
BY FieldTypes, FieldsAssumption DEF Storable

LEMMA SetFieldStep ==
  ASSUME FieldsInv, NEW m \in Msgs, NEW r \in Free,
         NEW f \in Singular, NEW v \in Vals \union {Unset}, SetField(m, f, v, r)
  PROVE  FieldsBecome(m, [RawFields(msg[m], eo) EXCEPT ![f] = v])
BY SingularFields, PutFieldStep DEF SetField

LEMMA SetListStep ==
  ASSUME FieldsInv, NEW m \in Msgs, NEW r \in Free,
         NEW f \in Repeated, NEW l \in {<<>>} \union {<<v>> : v \in Vals}, SetField(m, f, l, r)
  PROVE  FieldsBecome(m, [RawFields(msg[m], eo) EXCEPT ![f] = l])
<1>1. f \in Fields /\ f \notin Extensions \union OneofMembers
  BY FieldTypes, FieldsAssumption
<1>2. l \in Lists
  BY SmallLists
<1>3. QED
  BY <1>1, <1>2, PutFieldStep DEF SetField, Storable

LEMMA SetFieldIgnoringDefaultStep ==
  ASSUME FieldsInv, NEW m \in Msgs, NEW r \in Free,
         NEW f \in Singular, NEW v \in Vals \union {Default}, SetFieldIgnoringDefault(m, f, v, r)
  PROVE  FieldsBecome(m, [RawFields(msg[m], eo) EXCEPT ![f] = IF v = Default THEN Unset ELSE v])
<1> DEFINE w == IF v = Default THEN Unset ELSE v
<1>1. w \in Vals \union {Unset}
  OBVIOUS
<1>2. Become(m, PutField(msg[m], eo, f, w, r)) /\ sentinel' = sentinel
  BY DEF SetFieldIgnoringDefault
<1> HIDE DEF w
<1>3. FieldsBecome(m, [RawFields(msg[m], eo) EXCEPT ![f] = w])
  BY <1>1, <1>2, SingularFields, PutFieldStep
<1>4. QED
  BY <1>3 DEF w

\* setExtension
LEMMA SetExtensionStep ==
  ASSUME FieldsInv, NEW m \in Msgs, NEW r \in Free,
         NEW f \in Extensions, NEW v \in Vals \union {Unset},
         SetExtension(m, f, v, r)
  PROVE  FieldsBecome(m, [RawFields(msg[m], eo) EXCEPT ![f] = v])
<1> DEFINE s == PutExtension(msg[m], eo, f, v, r)
<1>1. f \in Fields /\ f \notin Repeated /\ f \notin OneofMembers
  BY FieldTypes
<1>2. v \in Storable(f)
  BY <1>1 DEF Storable
<1>3. /\ Laid(msg[m]) /\ FieldsOK(msg[m], eo) /\ eo \in EOs /\ r \in Refs /\ v \in Value
  BY <1>2, FreeIs, StorableIsValue DEF FieldsInv
<1>4. /\ Apart(s, msg[m], eo, r)
      /\ \A g \in Fields : Raw(s.o, s.h, g) = IF g = f THEN v ELSE Raw(msg[m], eo, g)
  BY <1>1, <1>3, PutExtensionIs
<1>5. Become(m, s) /\ sentinel' = sentinel
  BY DEF SetExtension
<1> HIDE DEF s
<1>6. FieldsOK(s.o, s.h) /\ RawFields(s.o, s.h) = [RawFields(msg[m], eo) EXCEPT ![f] = v]
  BY <1>1, <1>2, <1>3, <1>4, OneFieldPut DEF Apart
<1>7. QED
  BY <1>4, <1>5, <1>6, BecomeFields

\* The constructor: what its data leave is well typed, whatever oneof members they had.
LEMMA ConstructStep ==
  ASSUME FieldsInv, NEW n \in Msgs, NEW r \in Free, NEW l \in Loads, Construct(n, l, r)
  PROVE  FieldsBecome(n, Arrived(l))
<1> DEFINE s == Initialize(l, eo, r)
<1>1. eo \in EOs /\ r \in Refs
  BY FreeIs DEF FieldsInv
<1>2. Fresh(s, eo, r) /\ RawFields(s.o, s.h) = Arrived(l)
  BY <1>1, LoadIsData, InitializeIs
<1>3. Become(n, s) /\ sentinel' = sentinel
  BY DEF Construct
<1> HIDE DEF s
<1>4. FieldsBecome(n, RawFields(s.o, s.h))
  BY <1>2, <1>3, FreshIsApart, BecomeFields DEF Fresh
<1>5. QED
  BY <1>2, <1>4

\* What a message shows, as the values its clone stores.
Own(raw) == [f \in Fields |-> Copied(raw[f])]

\* cloneMessage
LEMMA CloneMessageStep ==
  ASSUME FieldsInv, NEW m \in Msgs, NEW n \in Msgs, NEW r \in Free, CloneMessage(m, n, r)
  PROVE  FieldsBecome(n, Own(RawFields(msg[m], eo)))
<1> DEFINE s == Initialize(DataOf(msg[m], eo), eo, r)
<1>1. /\ Laid(msg[m]) /\ FieldsOK(msg[m], eo) /\ eo \in EOs /\ r \in Refs /\ sentinel = <<>>
  BY FreeIs DEF FieldsInv
<1>2. Fresh(s, eo, r) /\ RawFields(s.o, s.h) = [f \in Fields |-> Copied(Raw(msg[m], eo, f))]
  BY <1>1, ReloadIs
<1>3. Become(n, s) /\ sentinel' = sentinel
  BY DEF CloneMessage
<1> HIDE DEF s
<1>4. RawFields(s.o, s.h) = Own(RawFields(msg[m], eo))
  BY <1>2 DEF Own, RawFields
<1>5. QED
  BY <1>2, <1>3, <1>4, FreshIsApart, BecomeFields DEF Fresh

\* copyInto between messages with one pivot: the clone's pivot is the one the target keeps.
LEMMA CopyIntoStep ==
  ASSUME FieldsInv, NEW m \in Msgs, NEW n \in Msgs, NEW r \in Free, CopyInto(m, n, r),
         msg[m].pivot = msg[n].pivot
  PROVE  FieldsBecome(n, Own(RawFields(msg[m], eo)))
<1> DEFINE s == Initialize(DataOf(msg[m], eo), eo, r)
<1>1. /\ Laid(msg[m]) /\ FieldsOK(msg[m], eo) /\ eo \in EOs /\ r \in Refs /\ sentinel = <<>>
  BY FreeIs DEF FieldsInv
<1>2. /\ Fresh(s, eo, r) /\ s.o.pivot = msg[n].pivot
      /\ RawFields(s.o, s.h) = [f \in Fields |-> Copied(Raw(msg[m], eo, f))]
  BY <1>1, ReloadIs
<1>3. Become(n, State([s.o EXCEPT !.pivot = msg[n].pivot], s.h)) /\ sentinel' = sentinel
  BY DEF CopyInto
<1> HIDE DEF s
<1> DEFINE t == State([s.o EXCEPT !.pivot = msg[n].pivot], s.h)
<1>4. t.o = s.o /\ t.h = s.h
  <2>1. s.o \in [array : Seq(Cells), pivot : Nat \ {0}, ext : Refs \union {NoExt}]
    BY <1>2 DEF Fresh, Laid
  <2>2. [s.o EXCEPT !.pivot = msg[n].pivot] = s.o
    BY <1>2, <2>1
  <2>3. QED
    BY <2>2 DEF State
<1>5. RawFields(t.o, t.h) = Own(RawFields(msg[m], eo))
  BY <1>2, <1>4 DEF Own, RawFields
<1>6. Apart(t, msg[n], eo, r) /\ FieldsOK(t.o, t.h)
  BY <1>2, <1>4 DEF Fresh, Apart, FieldsOK
<1>7. Become(n, t)
  BY <1>3
<1> HIDE DEF t
<1>8. QED
  BY <1>3, <1>5, <1>6, <1>7, BecomeFields

LEMMA ListFetched ==
  ASSUME NEW o, NEW h, FieldsOK(o, h), NEW f \in Repeated
  PROVE  /\ Fetched(o, h, f) \in Lists /\ Fetched(o, h, f) # Sentinel
         /\ Raw(o, h, f) = Slot(o, h, f)
         /\ sentinel = <<>> => Fetched(o, h, f) = Copied(Raw(o, h, f))
<1>1. f \in Fields /\ Raw(o, h, f) = Slot(o, h, f)
  BY FieldTypes, RawOfMember
<1>2. Slot(o, h, f) \in Lists \union {Sentinel}
  BY <1>1 DEF FieldsOK, Storable
<1>3. QED
  BY <1>1, <1>2, ListTypes DEF Fetched, Copied

LEMMA InsertIs ==
  ASSUME NEW l \in Lists, Len(l) < MaxList, NEW i \in 0..Len(l), NEW v \in Vals
  PROVE  InsertAt(l, i, v) \in Lists
<1>1. l \in Seq(Vals) /\ Len(l) \in Nat /\ MaxList \in Nat
  BY ListTypes, ValuesAssumption
<1> DEFINE k == InsertAt(l, i, v)
<1> DEFINE head == SubSeq(l, 1, i)
           tail == SubSeq(l, i + 1, Len(l))
<1>2. /\ head \in Seq(Vals) /\ Len(head) = i
      /\ tail \in Seq(Vals) /\ Len(tail) = Len(l) - i
  BY <1>1
<1>3. k \in Seq(Vals) /\ Len(k) = Len(l) + 1
  <2>1. k = (head \o <<v>>) \o tail
    BY DEF InsertAt
  <2> HIDE DEF k, head, tail
  <2>2. head \o <<v>> \in Seq(Vals) /\ Len(head \o <<v>>) = i + 1
    BY <1>1, <1>2
  <2>3. (head \o <<v>>) \o tail \in Seq(Vals)
        /\ Len((head \o <<v>>) \o tail) = i + 1 + (Len(l) - i)
    BY <1>1, <1>2, <2>2, SMTT(30)
  <2>4. QED
    BY <1>1, <2>1, <2>3
<1> HIDE DEF k
<1>4. k \in [1..Len(k) -> Vals] /\ Len(k) \in 0..MaxList
  BY <1>1, <1>3
<1>5. QED
  BY <1>4 DEF Lists, k

\* getField's write of an empty list of the message's own: what it shows is what it showed.
LEMMA GetFieldStep ==
  ASSUME FieldsInv, NEW m \in Msgs, NEW r \in Free, NEW f \in Repeated, GetField(m, f, r)
  PROVE  FieldsBecome(m, [RawFields(msg[m], eo) EXCEPT ![f] = <<>>])
<1>1. f \in Fields /\ f \notin Extensions \union OneofMembers
  BY FieldTypes, FieldsAssumption
<1>2. <<>> \in Storable(f)
  BY ListTypes DEF Storable
<1>3. Become(m, PutField(msg[m], eo, f, <<>>, r)) /\ sentinel' = sentinel
  BY DEF GetField
<1>4. QED
  BY <1>1, <1>2, <1>3, PutFieldStep

\* addToRepeatedField: the list it inserts into is never the shared one.
LEMMA AddToRepeatedFieldStep ==
  ASSUME FieldsInv, NEW m \in Msgs, NEW r \in Free, NEW f \in Repeated, NEW v \in Vals,
         AddToRepeatedField(m, f, v, r)
  PROVE  LET l == Copied(Raw(msg[m], eo, f))
         IN  \E i \in 0..Len(l) :
               /\ InsertAt(l, i, v) \in Lists
               /\ FieldsBecome(m, [RawFields(msg[m], eo) EXCEPT ![f] = InsertAt(l, i, v)])
<1> DEFINE l == Fetched(msg[m], eo, f)
<1>1. f \in Fields /\ f \notin Extensions \union OneofMembers
  BY FieldTypes, FieldsAssumption
<1>2. l \in Lists /\ l # Sentinel /\ l = Copied(Raw(msg[m], eo, f))
  BY ListFetched DEF FieldsInv
<1>3. PICK i \in 0..Len(l) :
        /\ Len(l) < MaxList /\ sentinel' = sentinel
        /\ Become(m, PutField(msg[m], eo, f, InsertAt(l, i, v), r))
  BY <1>2 DEF AddToRepeatedField
<1> HIDE DEF l
<1>4. InsertAt(l, i, v) \in Lists
  BY <1>2, <1>3, InsertIs
<1>5. FieldsBecome(m, [RawFields(msg[m], eo) EXCEPT ![f] = InsertAt(l, i, v)])
  BY <1>1, <1>3, <1>4, PutFieldStep DEF Storable
<1>6. QED
  BY <1>2, <1>4, <1>5

\* The fields after a member of the oneof is set, or unset.
OneofPut(raw, f, v, undefined) ==
  [g \in Fields |-> IF g = f THEN v
                    ELSE IF ~undefined /\ g \in OneofMembers THEN Unset
                    ELSE raw[g]]

\* setOneofField: the case is worked out again, the other member cleared, and the new one put.
LEMMA SetOneofFieldStep ==
  ASSUME FieldsInv, NEW m \in Msgs, NEW r \in Free,
         NEW f \in OneofMembers, NEW v \in Vals \union {Unset},
         NEW undefined \in BOOLEAN, undefined => v = Unset, SetOneofField(m, f, v, undefined, r)
  PROVE  FieldsBecome(m, OneofPut(RawFields(msg[m], eo), f, v, undefined))
<1> DEFINE o == msg[m]
           c == OneofCase(o, eo)
           kept == KeepOneofCase(o, eo)
           cleared == IF c # 0 /\ c # f /\ ~undefined THEN PutField(kept.o, kept.h, c, Unset, r)
                                                     ELSE kept
           s == PutField(cleared.o, cleared.h, f, v, r)
<1>1. Become(m, s) /\ sentinel' = sentinel
  BY DEF SetOneofField
<1>2. Laid(o) /\ FieldsOK(o, eo) /\ eo \in EOs /\ r \in Refs
  BY FreeIs DEF FieldsInv
<1> HIDE DEF o
<1>3. /\ \A g \in OneofMembers : g \in Fields /\ g \notin Extensions /\ g \notin Repeated
                                 /\ RawFields(o, eo)[g] = Raw(o, eo, g)
      /\ v \in Storable(f) /\ v \in Value /\ Unset \in Value
  <2>1. \A g \in OneofMembers : g \in Fields /\ g \notin Extensions /\ g \notin Repeated
    BY FieldTypes, FieldsAssumption
  <2>2. v \in Storable(f) /\ v \in Value /\ Unset \in Value
    BY <2>1, ValueTypes DEF Storable, Value
  <2>3. QED
    BY <2>1, <2>2 DEF RawFields
<1>4. \/ c = 0 /\ \A g \in OneofMembers : Raw(o, eo, g) = Unset
      \/ c \in OneofMembers /\ Raw(o, eo, c) # Unset
  BY OneofCaseIs
<1>5. /\ Apart(kept, o, eo, r)
      /\ \A g \in Fields : Raw(kept.o, kept.h, g) =
           IF g \in OneofMembers /\ g # c THEN Unset ELSE Raw(o, eo, g)
  BY <1>2, KeepOneofCaseIs
<1> HIDE DEF c, kept
<1>6. \A g \in OneofMembers : g # c => Raw(o, eo, g) = Unset
  BY <1>2, <1>3, <1>4 DEF FieldsOK, AtMostOneCase
<1>7. \A g \in Fields : Raw(kept.o, kept.h, g) = Raw(o, eo, g)
  BY <1>5, <1>6
<1>8. /\ Apart(cleared, o, eo, r)
      /\ \A g \in Fields : Raw(cleared.o, cleared.h, g) =
           IF g \in OneofMembers /\ g # f /\ ~undefined THEN Unset ELSE Raw(o, eo, g)
  <2>1. CASE c # 0 /\ c # f /\ ~undefined
    <3> DEFINE t == PutField(kept.o, kept.h, c, Unset, r)
    <3>1. c \in Fields /\ c \notin Extensions /\ c \in OneofMembers
      BY <1>3, <1>4, <2>1
    <3>2. Laid(kept.o) /\ kept.h \in EOs
      BY <1>5 DEF Apart
    <3>3. /\ Apart(t, kept.o, kept.h, r)
          /\ \A g \in Fields : Raw(t.o, t.h, g) = IF g = c THEN Unset ELSE Raw(kept.o, kept.h, g)
      BY <1>2, <1>3, <3>1, <3>2, PutFieldIs
    <3>4. cleared = t
      BY <2>1
    <3> HIDE DEF t, cleared
    <3>5. Apart(cleared, o, eo, r)
      BY <1>5, <3>3, <3>4, ApartTransitive
    <3>6. \A g \in Fields : Raw(cleared.o, cleared.h, g) =
            IF g \in OneofMembers /\ g # f /\ ~undefined THEN Unset ELSE Raw(o, eo, g)
      BY <1>6, <1>7, <2>1, <3>1, <3>3, <3>4
    <3>7. QED
      BY <3>5, <3>6
  <2>2. CASE ~(c # 0 /\ c # f /\ ~undefined)
    <3>1. cleared = kept
      BY <2>2
    <3>2. ASSUME NEW g \in OneofMembers, g # f, ~undefined PROVE Raw(o, eo, g) = Unset
      <4>1. c = 0 \/ c = f
        BY <2>2, <3>2
      <4>2. CASE c = 0
        <5>1. c \notin OneofMembers
          BY <4>2, FieldTypes
        <5>2. QED
          BY <1>4, <5>1
      <4>3. CASE c = f
        BY <1>6, <3>2, <4>3
      <4>4. QED
        BY <4>1, <4>2, <4>3
    <3>3. QED
      BY <1>5, <1>7, <3>1, <3>2
  <2>3. QED
    BY <2>1, <2>2
<1> HIDE DEF cleared
<1>9. /\ Apart(s, cleared.o, cleared.h, r)
      /\ \A g \in Fields : Raw(s.o, s.h, g) = IF g = f THEN v ELSE Raw(cleared.o, cleared.h, g)
  <2>1. Laid(cleared.o) /\ cleared.h \in EOs
    BY <1>8 DEF Apart
  <2>2. QED
    BY <1>2, <1>3, <2>1, PutFieldIs
<1> HIDE DEF s
<1>10. FieldsOK(cleared.o, cleared.h)
  <2>1. \A g \in Fields : Raw(cleared.o, cleared.h, g) \in Storable(g)
    BY <1>2, <1>3, <1>8 DEF FieldsOK, Storable
  <2>2. AtMostOneCase(RawFields(cleared.o, cleared.h))
    BY <1>2, <1>3, <1>8 DEF FieldsOK, AtMostOneCase, RawFields
  <2>3. QED
    BY <1>2, <1>8, <2>1, <2>2 DEF FieldsOK, Apart
<1>11. FieldsOK(s.o, s.h)
  BY <1>3, <1>8, <1>9, <1>10, OneFieldPut DEF Apart
<1>12. RawFields(s.o, s.h) = OneofPut(RawFields(o, eo), f, v, undefined)
  BY <1>8, <1>9 DEF RawFields, OneofPut
<1>13. Apart(s, o, eo, r)
  BY <1>8, <1>9, ApartTransitive
<1>14. QED
  BY <1>1, <1>11, <1>12, <1>13, BecomeFields DEF o

-----------------------------------------------------------------------------
(* The invariant *)

\* Constructed over data of their own, with objects of their own, messages start apart.
LEMMA InitEstablishes ==
  Init => FieldsInv /\ \A m \in Msgs : \E l \in Loads : RawFields(msg[m], eo) = Arrived(l)
<1> SUFFICES ASSUME Init
             PROVE  FieldsInv /\ \A m \in Msgs : \E l \in Loads : RawFields(msg[m], eo) = Arrived(l)
  OBVIOUS
<1> DEFINE none == [e \in Refs |-> EmptyEO]
<1>1. PICK l \in [Msgs -> Loads], r \in [Msgs -> Refs], h \in {none} :
        /\ \A m, n \in Msgs : r[m] = r[n] => m = n
        /\ msg = [m \in Msgs |-> Initialize(l[m], h, r[m]).o]
        /\ eo = [e \in Refs |->
                  IF \E m \in Msgs : r[m] = e
                    THEN Initialize(l[CHOOSE m \in Msgs : r[m] = e], h, e).h[e]
                    ELSE EmptyEO]
  BY Zenon DEF Init
<1>2. none \in EOs
  BY ValueTypes DEF EOs
<1> HIDE DEF none
<1>3. ASSUME NEW m \in Msgs
      PROVE  /\ Fresh(Initialize(l[m], none, r[m]), none, r[m])
             /\ RawFields(Initialize(l[m], none, r[m]).o, Initialize(l[m], none, r[m]).h) = Arrived(l[m])
  BY <1>2, LoadIsData, InitializeIs
<1>4. ASSUME NEW m \in Msgs
      PROVE  /\ Laid(msg[m]) /\ msg[m].ext \in {r[m], NoExt}
             /\ eo[r[m]] = Initialize(l[m], none, r[m]).h[r[m]]
             /\ FieldsOK(msg[m], eo) /\ RawFields(msg[m], eo) = Arrived(l[m])
  <2> DEFINE s == Initialize(l[m], none, r[m])
  <2>1. msg[m] = s.o
    BY <1>1
  <2>2. Laid(s.o) /\ s.o.ext \in {r[m], NoExt} /\ FieldsOK(s.o, s.h)
       /\ RawFields(s.o, s.h) = Arrived(l[m])
    BY <1>3 DEF Fresh
  <2>3. eo[r[m]] = s.h[r[m]]
    <3>1. (CHOOSE n \in Msgs : r[n] = r[m]) = m
      BY <1>1
    <3>2. QED
      BY <1>1, <3>1
  <2> HIDE DEF s
  <2>4. s.o.ext # NoExt => s.h[s.o.ext] = eo[s.o.ext]
    BY <2>2, <2>3
  <2>5. FieldsOK(s.o, eo) /\ RawFields(s.o, eo) = Arrived(l[m])
    <3>1. (FieldsOK(s.o, s.h) => FieldsOK(s.o, eo)) /\ RawFields(s.o, eo) = RawFields(s.o, s.h)
      BY <2>4, SameObjectSameFields
    <3>2. QED
      BY <2>2, <3>1
  <2>6. QED
    BY <2>1, <2>2, <2>3, <2>5 DEF s
<1>5. eo \in EOs
  <2>1. ASSUME NEW e \in Refs PROVE eo[e] \in [Fields -> Value]
    <3>1. CASE \E m \in Msgs : r[m] = e
      <4>1. PICK m \in Msgs : r[m] = e
        BY <3>1
      <4>2. Initialize(l[m], none, r[m]).h \in EOs
        BY <1>3 DEF Fresh
      <4>3. QED
        BY <1>4, <4>1, <4>2 DEF EOs
    <3>2. CASE ~ \E m \in Msgs : r[m] = e
      BY <1>1, <3>2, ValueTypes
    <3>3. QED
      BY <3>1, <3>2
  <2>2. QED
    BY <1>1, <2>1 DEF EOs
<1>6. msg \in [Msgs -> [array : Seq(Cells), pivot : Nat \ {0}, ext : Refs \union {NoExt}]]
  BY <1>1, <1>4 DEF Laid
<1>7. ASSUME NEW m \in Msgs, NEW n \in Msgs, msg[m].ext = msg[n].ext, msg[m].ext # NoExt
      PROVE  m = n
  <2>1. msg[m].ext = r[m] /\ msg[n].ext = r[n]
    BY <1>4, <1>7
  <2>2. r[m] = r[n]
    BY <1>7, <2>1
  <2>3. QED
    BY <1>1, <2>2
<1>8. QED
  BY <1>4, <1>5, <1>6, <1>7 DEF Init, FieldsInv, Separate

\* The calls, with what each makes of the fields of the message it is for.
Calls(m, r) ==
  \/ \E l \in Loads : FieldsBecome(m, Arrived(l))
  \/ \E f \in Fields \ (Repeated \union OneofMembers), v \in Vals \union {Unset} :
       FieldsBecome(m, [RawFields(msg[m], eo) EXCEPT ![f] = v])
  \/ \E f \in Repeated, l \in {<<>>} \union {<<v>> : v \in Vals} :
       FieldsBecome(m, [RawFields(msg[m], eo) EXCEPT ![f] = l])
  \/ \E f \in Repeated, v \in Vals :
       \E i \in 0..Len(Copied(Raw(msg[m], eo, f))) :
         LET l == InsertAt(Copied(Raw(msg[m], eo, f)), i, v)
         IN  l \in Lists /\ FieldsBecome(m, [RawFields(msg[m], eo) EXCEPT ![f] = l])
  \/ \E f \in OneofMembers, v \in Vals :
       FieldsBecome(m, OneofPut(RawFields(msg[m], eo), f, v, FALSE))
  \/ \E f \in OneofMembers, undefined \in BOOLEAN :
       FieldsBecome(m, OneofPut(RawFields(msg[m], eo), f, Unset, undefined))
  \/ \E n \in Msgs : FieldsBecome(n, Own(RawFields(msg[m], eo)))

LEMMA NextIsCalls ==
  ASSUME FieldsInv, Next, ~CopyAcrossPivots
  PROVE  \E m \in Msgs, r \in Free : Calls(m, r)
<1>1. PICK m \in Msgs, r \in Free :
        \/ \E l \in Loads : Construct(m, l, r)
        \/ \E f \in Singular, v \in Vals \union {Unset} : SetField(m, f, v, r)
        \/ \E f \in Repeated, l \in {<<>>} \union {<<v>> : v \in Vals} : SetField(m, f, l, r)
        \/ \E f \in Singular, v \in Vals \union {Default} : SetFieldIgnoringDefault(m, f, v, r)
        \/ \E f \in Repeated : GetField(m, f, r)
        \/ \E f \in Repeated, v \in Vals : AddToRepeatedField(m, f, v, r)
        \/ \E f \in OneofMembers, v \in Vals : SetOneofField(m, f, v, FALSE, r)
        \/ \E f \in OneofMembers, undefined \in BOOLEAN : SetOneofField(m, f, Unset, undefined, r)
        \/ \E f \in Extensions, v \in Vals \union {Unset} : SetExtension(m, f, v, r)
        \/ \E n \in Msgs : CloneMessage(m, n, r)
        \/ \E n \in Msgs : CopyInto(m, n, r)
  BY DEF Next
<1>2. ASSUME NEW l \in Loads, Construct(m, l, r) PROVE Calls(m, r)
  BY <1>2, ConstructStep DEF Calls
<1>3. Singular \subseteq Fields \ (Repeated \union OneofMembers)
  BY FieldTypes, FieldsAssumption
<1>4. ASSUME NEW f \in Singular, NEW v \in Vals \union {Unset}, SetField(m, f, v, r)
      PROVE  Calls(m, r)
  BY <1>3, <1>4, SetFieldStep DEF Calls
<1>5. ASSUME NEW f \in Repeated, NEW l \in {<<>>} \union {<<v>> : v \in Vals}, SetField(m, f, l, r)
      PROVE  Calls(m, r)
  BY <1>5, SetListStep DEF Calls
<1>6. ASSUME NEW f \in Singular, NEW v \in Vals \union {Default},
             SetFieldIgnoringDefault(m, f, v, r)
      PROVE  Calls(m, r)
  <2>1. (IF v = Default THEN Unset ELSE v) \in Vals \union {Unset}
    OBVIOUS
  <2>2. QED
    BY <1>3, <1>6, <2>1, SetFieldIgnoringDefaultStep DEF Calls
<1>7. ASSUME NEW f \in Repeated, GetField(m, f, r) PROVE Calls(m, r)
  BY <1>7, GetFieldStep DEF Calls
<1>8. ASSUME NEW f \in Repeated, NEW v \in Vals, AddToRepeatedField(m, f, v, r)
      PROVE  Calls(m, r)
  BY <1>8, AddToRepeatedFieldStep DEF Calls
<1>9. ASSUME NEW f \in OneofMembers
      PROVE  /\ \A v \in Vals : SetOneofField(m, f, v, FALSE, r) => Calls(m, r)
             /\ \A undefined \in BOOLEAN : SetOneofField(m, f, Unset, undefined, r) => Calls(m, r)
  BY SetOneofFieldStep DEF Calls
<1>10. ASSUME NEW f \in Extensions, NEW v \in Vals \union {Unset}, SetExtension(m, f, v, r)
       PROVE  Calls(m, r)
  <2>1. f \in Fields \ (Repeated \union OneofMembers)
    BY FieldTypes
  <2>2. QED
    BY <1>10, <2>1, SetExtensionStep DEF Calls
<1>11. ASSUME NEW n \in Msgs, CloneMessage(m, n, r) PROVE Calls(m, r)
  BY <1>11, CloneMessageStep DEF Calls
<1>12. ASSUME NEW n \in Msgs, CopyInto(m, n, r) PROVE Calls(m, r)
  <2>1. msg[m].pivot = msg[n].pivot
    BY <1>12 DEF CopyInto
  <2>2. QED
    BY <1>12, <2>1, CopyIntoStep DEF Calls
<1>13. Calls(m, r)
  BY <1>1, <1>2, <1>4, <1>5, <1>6, <1>7, <1>8, <1>9, <1>10, <1>11, <1>12
<1>14. QED
  BY <1>13

LEMMA StepKeepsInv ==
  ASSUME ~CopyAcrossPivots
  PROVE  FieldsInv /\ [Next]_vars => FieldsInv'
<1> SUFFICES ASSUME FieldsInv, [Next]_vars PROVE FieldsInv'
  OBVIOUS
<1>1. CASE Next
  BY <1>1, NextIsCalls DEF Calls, FieldsBecome
<1>2. CASE UNCHANGED vars
  <2>1. msg' = msg /\ eo' = eo /\ sentinel' = sentinel
    BY <1>2 DEF vars
  <2>2. \A m \in Msgs : Laid(msg'[m]) /\ FieldsOK(msg'[m], eo')
    BY <2>1 DEF FieldsInv
  <2>3. Separate'
    BY <2>1 DEF FieldsInv, Separate
  <2>4. QED
    BY <2>1, <2>2, <2>3 DEF FieldsInv
<1>3. QED
  BY <1>1, <1>2

\* The invariant holds of every class and any number of messages, as long as copyInto is
\* called on messages laid out alike (with one pivot) only.
LEMMA Invariance ==
  ASSUME ~CopyAcrossPivots
  PROVE  Spec => []FieldsInv
<1>1. Init => FieldsInv
  BY InitEstablishes
<1>2. FieldsInv /\ [Next]_vars => FieldsInv'
  BY StepKeepsInv
<1>3. QED
  BY <1>1, <1>2, PTL DEF Spec

-----------------------------------------------------------------------------
(* The theorems *)

\* Every slot of a data array holds a value or an extension object, and an extension object
\* a value for each field (the arrays setFieldIgnoringDefault_ and its kin write, message.js).
THEOREM TypeCorrect ==
  ASSUME ~CopyAcrossPivots
  PROVE  Spec => []TypeOK
<1>1. FieldsInv => TypeOK
  BY ListTypes, ValueTypes DEF FieldsInv, TypeOK, EOs, Cells
<1>2. QED
  BY <1>1, Invariance, PTL

\* The pivot always names the place of the extension object, the last slot of the array, so
\* maybeInitEmptyExtensionObject_ never overwrites a field (message.js:408).
THEOREM PivotAlwaysHoldsEO ==
  ASSUME ~CopyAcrossPivots
  PROVE  Spec => []PivotHoldsEO
<1>1. FieldsInv => PivotHoldsEO
  <2> SUFFICES ASSUME FieldsInv, NEW m \in Msgs
               PROVE  /\ At(msg[m].array, msg[m].pivot) =
                           IF msg[m].ext = NoExt THEN Unset ELSE msg[m].ext
                      /\ Len(msg[m].array) <= msg[m].pivot
                      /\ \A i \in 1..Len(msg[m].array) :
                           i < msg[m].pivot => msg[m].array[i] \notin Refs
    BY DEF PivotHoldsEO
  <2>1. Laid(msg[m])
    BY DEF FieldsInv
  <2>2. Len(msg[m].array) <= msg[m].pivot
    BY <2>1 DEF Laid
  <2>3. QED
    BY <2>1, <2>2, EOAtPivot, ValueTypes DEF Laid
<1>2. QED
  BY <1>1, Invariance, PTL

\* Copies share no state with their originals: no extension object is in two messages, and
\* the list every repeated field starts with stays empty (copyInto, message.js:1730).
THEOREM StateIsNotShared ==
  ASSUME ~CopyAcrossPivots
  PROVE  Spec => []NoSharedState
<1>1. FieldsInv => NoSharedState
  BY HoldsIs, ValueTypes DEF FieldsInv, Separate, NoSharedState
<1>2. QED
  BY <1>1, Invariance, PTL

\* What a message shows is its stored fields with the sentinel shown as a list.
Show(raw) == [f \in Fields |-> Shown(raw[f])]

LEMMA VisibleIs ==
  ASSUME NEW o, NEW h
  PROVE  Visible(o, h) = Show(RawFields(o, h))
BY DEF Visible, Show, RawFields, Raw

LEMMA OwnShowsTheSame ==
  ASSUME sentinel = <<>>, NEW raw
  PROVE  Show(Own(raw)) = Show(raw)
<1>1. ASSUME NEW f \in Fields PROVE Shown(Copied(raw[f])) = Shown(raw[f])
  BY ListTypes DEF Shown, Copied
<1>2. QED
  BY <1>1 DEF Show, Own

\* A message rebuilt from its own data, where initialize works out the pivot afresh, shows
\* the fields of the message the data come from (clone_ and initialize, message.js).
THEOREM ReloadAlwaysShowsTheSame ==
  ASSUME ~CopyAcrossPivots
  PROVE  Spec => []ReloadShowsTheSame
<1>1. ASSUME FieldsInv, NEW m \in Msgs, NEW r \in Free
      PROVE  LET s == Initialize(DataOf(msg[m], eo), eo, r)
             IN  Visible(s.o, s.h) = Visible(msg[m], eo)
  <2> DEFINE s == Initialize(DataOf(msg[m], eo), eo, r)
  <2>1. RawFields(s.o, s.h) = [f \in Fields |-> Copied(Raw(msg[m], eo, f))]
    BY <1>1, FreeIs, ReloadIs DEF FieldsInv
  <2> HIDE DEF s
  <2>2. RawFields(s.o, s.h) = Own(RawFields(msg[m], eo))
    BY <2>1 DEF Own, RawFields
  <2>3. Visible(s.o, s.h) = Visible(msg[m], eo)
    BY <1>1, <2>2, VisibleIs, OwnShowsTheSame DEF FieldsInv
  <2>4. QED
    BY <2>3 DEF s
<1>2. FieldsInv => ReloadShowsTheSame
  BY <1>1 DEF ReloadShowsTheSame
<1>3. QED
  BY <1>2, Invariance, PTL

-----------------------------------------------------------------------------
(* The accessors implement the abstract store of fields *)

LEMMA ContentChanges ==
  ASSUME FieldsInv, NEW m \in Msgs, NEW raw, FieldsBecome(m, raw)
  PROVE  Content' = [Content EXCEPT ![m] = Show(raw)]
<1>1. sentinel' = sentinel
  BY DEF FieldsInv, FieldsBecome
<1>2. ASSUME NEW n \in Msgs PROVE Visible(msg[n], eo)' = Show(RawFields(msg'[n], eo'))
  BY <1>1 DEF Visible, Show, RawFields, Raw, Shown, Slot
<1>3. ASSUME NEW n \in Msgs
      PROVE  Visible(msg[n], eo)' = IF n = m THEN Show(raw) ELSE Visible(msg[n], eo)
  BY <1>2, VisibleIs DEF FieldsBecome
<1>4. QED
  BY <1>3 DEF Content

\* What a well-typed message shows: lists for the repeated fields, values for the others.
LEMMA ShownOfField ==
  ASSUME sentinel = <<>>, NEW o, NEW h, FieldsOK(o, h)
  PROVE  Store!Wellformed(Visible(o, h))
<1>1. ASSUME NEW f \in Fields
      PROVE  /\ Visible(o, h)[f] = Shown(Raw(o, h, f))
             /\ f \in Repeated => Visible(o, h)[f] \in Lists
             /\ f \notin Repeated => Visible(o, h)[f] = Raw(o, h, f)
                                     /\ Visible(o, h)[f] \in Vals \union {Unset}
  <2>1. Visible(o, h)[f] = Shown(Raw(o, h, f))
    BY DEF Visible, Raw
  <2>2. Raw(o, h, f) \in Storable(f)
    BY DEF FieldsOK
  <2>3. QED
    BY <2>1, <2>2, ListTypes DEF Shown, Storable
<1>2. \A f \in OneofMembers : /\ f \in Fields /\ f \notin Repeated
                              /\ RawFields(o, h)[f] = Raw(o, h, f)
  BY FieldTypes, FieldsAssumption DEF RawFields
<1>3. \A f \in Repeated : Visible(o, h)[f] \in Seq(Vals)
  BY <1>1, FieldTypes, ListTypes
<1>4. \A f \in Fields \ Repeated : Visible(o, h)[f] \in Vals \union {Unset}
  BY <1>1
<1>5. ASSUME NEW f \in OneofMembers, NEW g \in OneofMembers,
             Visible(o, h)[f] # Unset, Visible(o, h)[g] # Unset
      PROVE  f = g
  BY <1>1, <1>2, <1>5 DEF FieldsOK, AtMostOneCase
<1>6. QED
  BY <1>3, <1>4, <1>5 DEF Store!Wellformed, Store!Lists

LEMMA RawFieldsType ==
  ASSUME FieldsInv, NEW m \in Msgs
  PROVE  /\ RawFields(msg[m], eo) \in [Fields -> Value]
         /\ Content[m] = Show(RawFields(msg[m], eo))
         /\ Content[m] \in [Fields -> Value]
<1>1. \A f \in Fields : Raw(msg[m], eo, f) \in Value
  BY StorableIsValue DEF FieldsInv, FieldsOK
<1>2. RawFields(msg[m], eo) \in [Fields -> Value]
  BY <1>1 DEF RawFields
<1>3. Content[m] = Show(RawFields(msg[m], eo))
  BY VisibleIs DEF Content
<1>4. Show(RawFields(msg[m], eo)) \in [Fields -> Value]
  BY <1>2, ListTypes DEF Show, Shown, FieldsInv, Value
<1>5. QED
  BY <1>2, <1>3, <1>4

\* Storing a value for a field shows as that value.
LEMMA PutShows ==
  ASSUME FieldsInv, NEW m \in Msgs, NEW f \in Fields, NEW v, v # Sentinel,
         FieldsBecome(m, [RawFields(msg[m], eo) EXCEPT ![f] = v])
  PROVE  Content' = [Content EXCEPT ![m][f] = v]
<1> DEFINE raw == RawFields(msg[m], eo)
<1>1. raw \in [Fields -> Value] /\ Content[m] = Show(raw)
  BY RawFieldsType
<1>2. FieldsBecome(m, [raw EXCEPT ![f] = v])
  OBVIOUS
<1> HIDE DEF raw
<1>3. Content' = [Content EXCEPT ![m] = Show([raw EXCEPT ![f] = v])]
  BY <1>2, ContentChanges
<1>4. Show([raw EXCEPT ![f] = v]) = [Show(raw) EXCEPT ![f] = v]
  BY <1>1 DEF Show, Shown
<1>5. Show([raw EXCEPT ![f] = v]) = [Content[m] EXCEPT ![f] = v]
  BY <1>1, <1>4
<1>6. QED
  BY <1>3, <1>5

\* A message constructed over data shows what the data hold, wherever they hold it.
LEMMA ArrivedShowsHeld ==
  ASSUME sentinel = <<>>, NEW l \in Loads
  PROVE  Show(Arrived(l)) = Held(l)
<1>1. ASSUME NEW f \in Fields PROVE RawData(l, f) # Sentinel /\ DataFields(l)[f] = RawData(l, f)
  <2>1. RawData(l, f) \in Arriving(f)
    BY LoadsAssumption, ValuesAssumption DEF RawData, Arriving
  <2>2. QED
    BY <2>1, ListTypes DEF Arriving, DataFields
<1>2. \A j \in 1..Len(Oneof) : /\ Oneof[j] \in Fields /\ Oneof[j] \notin Repeated
                               /\ Filled(DataFields(l))[Oneof[j]] = RawData(l, Oneof[j])
  <2>1. \A j \in 1..Len(Oneof) : Oneof[j] \in Fields /\ Oneof[j] \notin Repeated
    BY FieldsAssumption DEF OneofMembers
  <2>2. QED
    BY <1>1, <2>1 DEF Filled
<1>3. ASSUME NEW f \in Fields
      PROVE  /\ SupersededIn(Filled(DataFields(l)), f) <=> Superseded(l, f)
             /\ Superseded(l, f) => f \notin Repeated
  BY <1>2 DEF SupersededIn, Superseded
<1>4. ASSUME NEW f \in Fields PROVE Shown(Arrived(l)[f]) = Held(l)[f]
  <2>1. Arrived(l)[f] = IF Superseded(l, f) THEN Unset ELSE Filled(DataFields(l))[f]
    BY <1>3 DEF Arrived, WithoutSuperseded
  <2>2. Filled(DataFields(l))[f] = IF f \in Repeated /\ RawData(l, f) = Unset THEN Sentinel
                                   ELSE RawData(l, f)
    BY <1>1 DEF Filled
  <2>3. Unset # Sentinel
    BY ValuesAssumption
  <2>4. QED
    BY <1>1, <1>3, <2>1, <2>2, <2>3 DEF Shown, Held
<1>5. QED
  BY <1>4 DEF Show, Held

LEMMA InitImplements == Init => Store!Init
<1> SUFFICES ASSUME Init PROVE Store!Init
  OBVIOUS
<1>1. FieldsInv /\ \A m \in Msgs : \E l \in Loads : RawFields(msg[m], eo) = Arrived(l)
  BY InitEstablishes
<1>2. ASSUME NEW m \in Msgs
      PROVE  Content[m] \in {Held(l) : l \in Loads} /\ Store!Wellformed(Content[m])
  <2>1. PICK l \in Loads : RawFields(msg[m], eo) = Arrived(l)
    BY <1>1
  <2>2. Content[m] = Held(l)
    BY <1>1, <2>1, VisibleIs, ArrivedShowsHeld DEF Content, FieldsInv
  <2>3. Store!Wellformed(Content[m])
    BY <1>1, ShownOfField DEF FieldsInv, Content
  <2>4. QED
    BY <2>2, <2>3
<1>3. Content \in [Msgs -> {Held(l) : l \in Loads}]
  BY <1>2 DEF Content
<1>4. QED
  BY <1>2, <1>3 DEF Store!Init

\* What a change of the fields a message stores does to what the messages show.
LEMMA ChangesShow ==
  ASSUME FieldsInv, NEW m \in Msgs
  PROVE  /\ \A l \in Loads :
              FieldsBecome(m, Arrived(l)) => Store!Load(Content, Content', m, Held(l))
         /\ \A f \in Fields \ (Repeated \union OneofMembers), v \in Vals \union {Unset} :
              FieldsBecome(m, [RawFields(msg[m], eo) EXCEPT ![f] = v]) =>
                Store!SetScalar(Content, Content', m, f, v)
         /\ \A f \in Repeated, l \in {<<>>} \union {<<v>> : v \in Vals} :
              FieldsBecome(m, [RawFields(msg[m], eo) EXCEPT ![f] = l]) =>
                Store!SetList(Content, Content', m, f, l)
         /\ \A f \in Repeated, v \in Vals :
              \A i \in 0..Len(Copied(Raw(msg[m], eo, f))) :
                LET l == InsertAt(Copied(Raw(msg[m], eo, f)), i, v)
                IN  l \in Lists /\ FieldsBecome(m, [RawFields(msg[m], eo) EXCEPT ![f] = l]) =>
                      i \in 0..Len(Content[m][f]) /\ Store!Insert(Content, Content', m, f, i, v)
         /\ \A f \in OneofMembers, v \in Vals \union {Unset}, undefined \in BOOLEAN :
              FieldsBecome(m, OneofPut(RawFields(msg[m], eo), f, v, undefined)) =>
                Store!SetOneof(Content, Content', m, f, v, undefined)
         /\ \A n \in Msgs :
              FieldsBecome(n, Own(RawFields(msg[m], eo))) => Store!Copy(Content, Content', m, n)
<1> DEFINE raw == RawFields(msg[m], eo)
<1>0. /\ raw \in [Fields -> Value] /\ Content[m] = Show(raw) /\ Content[m] \in [Fields -> Value]
      /\ sentinel = <<>>
  BY RawFieldsType DEF FieldsInv, Value
<1>1. ASSUME NEW l \in Loads, FieldsBecome(m, Arrived(l))
      PROVE  Store!Load(Content, Content', m, Held(l))
  <2>1. Content' = [Content EXCEPT ![m] = Held(l)]
    BY <1>0, <1>1, ContentChanges, ArrivedShowsHeld
  <2>2. Store!Wellformed(Held(l))
    <3>1. FieldsOK(msg'[m], eo') /\ RawFields(msg'[m], eo') = Arrived(l)
      BY <1>1 DEF FieldsBecome, FieldsInv
    <3>2. Store!Wellformed(Visible(msg'[m], eo'))
      BY <1>0, <3>1, ShownOfField
    <3>3. Visible(msg'[m], eo') = Held(l)
      BY <1>0, <3>1, VisibleIs, ArrivedShowsHeld
    <3>4. QED
      BY <3>2, <3>3
  <2>3. QED
    BY <2>1, <2>2 DEF Store!Load
<1>2. ASSUME NEW f \in Fields \ (Repeated \union OneofMembers), NEW v \in Vals \union {Unset},
             FieldsBecome(m, [raw EXCEPT ![f] = v])
      PROVE  Store!SetScalar(Content, Content', m, f, v)
  <2>1. v # Sentinel
    BY ListTypes
  <2>2. Content' = [Content EXCEPT ![m][f] = v]
    BY <1>2, <2>1, PutShows, ZenonT(40)
  <2>3. QED
    BY <1>2, <2>2 DEF Store!SetScalar
<1>3. ASSUME NEW f \in Repeated, NEW l \in {<<>>} \union {<<v>> : v \in Vals},
             FieldsBecome(m, [raw EXCEPT ![f] = l])
      PROVE  Store!SetList(Content, Content', m, f, l)
  <2>1. f \in Fields /\ l # Sentinel
    <3>1. l \in Lists
      BY SmallLists
    <3>2. QED
      BY <3>1, FieldTypes, ListTypes
  <2>2. QED
    BY <1>3, <2>1, PutShows DEF Store!SetList
<1>4. ASSUME NEW f \in Repeated, NEW v \in Vals, NEW i \in 0..Len(Copied(Raw(msg[m], eo, f))),
             InsertAt(Copied(Raw(msg[m], eo, f)), i, v) \in Lists,
             FieldsBecome(m, [raw EXCEPT ![f] = InsertAt(Copied(Raw(msg[m], eo, f)), i, v)])
      PROVE  i \in 0..Len(Content[m][f]) /\ Store!Insert(Content, Content', m, f, i, v)
  <2> DEFINE l == InsertAt(Content[m][f], i, v)
  <2>1. f \in Fields /\ Content[m][f] = Copied(Raw(msg[m], eo, f))
    BY <1>0, FieldTypes, ListTypes DEF Show, RawFields, Shown, Copied
  <2>2. l # Sentinel
    BY <1>4, <2>1, ListTypes
  <2>3. FieldsBecome(m, [raw EXCEPT ![f] = l])
    BY <1>4, <2>1
  <2> HIDE DEF l
  <2>4. Content' = [Content EXCEPT ![m][f] = l]
    BY <2>1, <2>2, <2>3, PutShows, ZenonT(40)
  <2>5. QED
    BY <1>4, <2>1, <2>4 DEF Store!Insert, InsertAt, l
<1>5. ASSUME NEW f \in OneofMembers, NEW v \in Vals \union {Unset}, NEW undefined \in BOOLEAN,
             FieldsBecome(m, OneofPut(raw, f, v, undefined))
      PROVE  Store!SetOneof(Content, Content', m, f, v, undefined)
  <2>1. Show(OneofPut(raw, f, v, undefined)) = OneofPut(Show(raw), f, v, undefined)
    BY ListTypes DEF Show, OneofPut, Shown
  <2>2. Content' = [Content EXCEPT ![m] = OneofPut(Content[m], f, v, undefined)]
    BY <1>0, <1>5, <2>1, ContentChanges
  <2>3. QED
    BY <2>2 DEF Store!SetOneof, OneofPut
<1>6. ASSUME NEW n \in Msgs, FieldsBecome(n, Own(raw)) PROVE Store!Copy(Content, Content', m, n)
  BY <1>0, <1>6, ContentChanges, OwnShowsTheSame DEF Store!Copy
<1>7. QED
  BY <1>1, <1>2, <1>3, <1>4, <1>5, <1>6

LEMMA StepImplements ==
  ASSUME ~CopyAcrossPivots
  PROVE  FieldsInv /\ [Next]_vars => [Store!Next]_Content
<1> SUFFICES ASSUME FieldsInv, [Next]_vars PROVE [Store!Next]_Content
  OBVIOUS
<1>1. CASE Next
  <2>1. PICK m \in Msgs, r \in Free : Calls(m, r)
    BY <1>1, NextIsCalls
  <2>2. ASSUME NEW l \in Loads, FieldsBecome(m, Arrived(l)) PROVE Store!Call(Content, Content')
    <3>1. Store!Load(Content, Content', m, Held(l)) /\ Held(l) \in {Held(k) : k \in Loads}
      BY <2>2, ChangesShow
    <3>2. QED
      BY <3>1, Zenon DEF Store!Call
  <2>3. ASSUME NEW f \in Fields \ (Repeated \union OneofMembers), NEW v \in Vals \union {Unset},
               FieldsBecome(m, [RawFields(msg[m], eo) EXCEPT ![f] = v])
        PROVE  Store!Call(Content, Content')
    <3>1. Store!SetScalar(Content, Content', m, f, v)
      BY <2>3, ChangesShow
    <3>2. QED
      BY <3>1 DEF Store!Call
  <2>4. ASSUME NEW f \in Repeated, NEW l \in {<<>>} \union {<<v>> : v \in Vals},
               FieldsBecome(m, [RawFields(msg[m], eo) EXCEPT ![f] = l])
        PROVE  Store!Call(Content, Content')
    BY <2>4, ChangesShow DEF Store!Call
  <2>5. ASSUME NEW f \in Repeated, NEW v \in Vals, NEW i \in 0..Len(Copied(Raw(msg[m], eo, f))),
               InsertAt(Copied(Raw(msg[m], eo, f)), i, v) \in Lists,
               FieldsBecome(m, [RawFields(msg[m], eo) EXCEPT
                                  ![f] = InsertAt(Copied(Raw(msg[m], eo, f)), i, v)])
        PROVE  Store!Call(Content, Content')
    BY <2>5, ChangesShow DEF Store!Call
  <2>6. ASSUME NEW f \in OneofMembers, NEW v \in Vals,
               FieldsBecome(m, OneofPut(RawFields(msg[m], eo), f, v, FALSE))
        PROVE  Store!Call(Content, Content')
    BY <2>6, ChangesShow DEF Store!Call
  <2>7. ASSUME NEW f \in OneofMembers, NEW undefined \in BOOLEAN,
               FieldsBecome(m, OneofPut(RawFields(msg[m], eo), f, Unset, undefined))
        PROVE  Store!Call(Content, Content')
    BY <2>7, ChangesShow DEF Store!Call
  <2>8. ASSUME NEW n \in Msgs, FieldsBecome(n, Own(RawFields(msg[m], eo)))
        PROVE  Store!Call(Content, Content')
    BY <2>8, ChangesShow DEF Store!Call
  <2>9. Store!Call(Content, Content')
    BY <2>1, <2>2, <2>3, <2>4, <2>5, <2>6, <2>7, <2>8 DEF Calls
  <2>10. QED
    BY <2>9 DEF Store!Next
<1>2. CASE UNCHANGED vars
  BY <1>2 DEF vars, Content, Visible, Shown, Slot
<1>3. QED
  BY <1>1, <1>2

\* The messages, laid over their arrays, pivots and extension objects, are the plain store of
\* FieldStore: they start with the fields of the data they are constructed over, and every step
\* is one of the store's calls (message.js).
THEOREM FieldsImplementStore ==
  ASSUME ~CopyAcrossPivots
  PROVE  Spec => ImplementsFields
<1>1. Init => Store!Init
  BY InitImplements
<1>2. FieldsInv /\ [Next]_vars => [Store!Next]_Content
  BY StepImplements
<1>3. Spec => []FieldsInv
  BY Invariance
<1>4. QED
  BY <1>1, <1>2, <1>3, PTL DEF Spec, ImplementsFields, Store!Spec

\* Every call does what it says: of all the fields of all the messages it changes those it
\* names, in the message it names, to the values it was given; a constructor shows the fields
\* of its data, a getter changes none, and copies have their originals' (setField,
\* setFieldIgnoringDefault_, setOneofField, addToRepeatedField, setExtension, cloneMessage and
\* copyInto of message.js).
THEOREM EveryCallDoesWhatItSays ==
  ASSUME ~CopyAcrossPivots
  PROVE  Spec => CallsDoWhatTheySay
<1> DEFINE Says(c, d, m, r) ==
      /\ \A l \in Loads : Construct(m, l, r) => Store!Load(c, d, m, Held(l))
      /\ \A f \in Singular, v \in Vals \union {Unset} :
           SetField(m, f, v, r) => Store!SetScalar(c, d, m, f, v)
      /\ \A f \in Repeated, l \in {<<>>} \union {<<v>> : v \in Vals} :
           SetField(m, f, l, r) => Store!SetList(c, d, m, f, l)
      /\ \A f \in Singular, v \in Vals \union {Default} :
           SetFieldIgnoringDefault(m, f, v, r) =>
             Store!SetScalar(c, d, m, f, IF v = Default THEN Unset ELSE v)
      /\ \A f \in Repeated : GetField(m, f, r) => d = c
      /\ \A f \in Repeated, v \in Vals :
           AddToRepeatedField(m, f, v, r) =>
             \E i \in 0..Len(c[m][f]) : Store!Insert(c, d, m, f, i, v)
      /\ \A f \in OneofMembers, v \in Vals :
           SetOneofField(m, f, v, FALSE, r) => Store!SetOneof(c, d, m, f, v, FALSE)
      /\ \A f \in OneofMembers, undefined \in BOOLEAN :
           SetOneofField(m, f, Unset, undefined, r) =>
             Store!SetOneof(c, d, m, f, Unset, undefined)
      /\ \A f \in Extensions, v \in Vals \union {Unset} :
           SetExtension(m, f, v, r) => Store!SetScalar(c, d, m, f, v)
      /\ \A n \in Msgs : CloneMessage(m, n, r) \/ CopyInto(m, n, r) => Store!Copy(c, d, m, n)
<1>1. ASSUME FieldsInv, NEW m \in Msgs, NEW r \in Free
      PROVE  Says(Content, Content', m, r)
  <2>1. ASSUME NEW l \in Loads, Construct(m, l, r)
        PROVE  Store!Load(Content, Content', m, Held(l))
    BY <1>1, <2>1, ConstructStep, ChangesShow
  <2>2. ASSUME NEW f \in Singular, NEW v \in Vals \union {Unset}, SetField(m, f, v, r)
        PROVE  Store!SetScalar(Content, Content', m, f, v)
    BY <1>1, <2>2, SetFieldStep, SingularFields, ChangesShow
  <2>3. ASSUME NEW f \in Repeated, NEW l \in {<<>>} \union {<<v>> : v \in Vals},
               SetField(m, f, l, r)
        PROVE  Store!SetList(Content, Content', m, f, l)
    BY <1>1, <2>3, SetListStep, ChangesShow
  <2>4. ASSUME NEW f \in Singular, NEW v \in Vals \union {Default},
               SetFieldIgnoringDefault(m, f, v, r)
        PROVE  Store!SetScalar(Content, Content', m, f, IF v = Default THEN Unset ELSE v)
    <3> DEFINE w == IF v = Default THEN Unset ELSE v
    <3>1. w \in Vals \union {Unset} /\ FieldsBecome(m, [RawFields(msg[m], eo) EXCEPT ![f] = w])
      BY <1>1, <2>4, SetFieldIgnoringDefaultStep
    <3> HIDE DEF w
    <3>2. Store!SetScalar(Content, Content', m, f, w)
      BY <1>1, <3>1, SingularFields, ChangesShow
    <3>3. QED
      BY <3>2 DEF w
  <2>5. ASSUME NEW f \in Repeated, GetField(m, f, r) PROVE Content' = Content
    <3>1. Content' = [Content EXCEPT ![m][f] = <<>>]
      BY <1>1, <2>5, GetFieldStep, ChangesShow DEF Store!SetList
    <3>2. f \in Fields /\ Content[m][f] = <<>> /\ Content[m] \in [Fields -> Value]
      <4>1. Slot(msg[m], eo, f) = Sentinel /\ f \in Fields /\ f \notin Extensions
        BY <2>5, FieldTypes DEF GetField
      <4>2. QED
        BY <1>1, <4>1, RawFieldsType DEF Content, Visible, Shown, FieldsInv
    <3>3. [Content[m] EXCEPT ![f] = <<>>] = Content[m]
      BY <3>2
    <3>4. QED
      BY <3>1, <3>3 DEF Content
  <2>6. ASSUME NEW f \in Repeated, NEW v \in Vals, AddToRepeatedField(m, f, v, r)
        PROVE  \E i \in 0..Len(Content[m][f]) : Store!Insert(Content, Content', m, f, i, v)
    BY <1>1, <2>6, AddToRepeatedFieldStep, ChangesShow
  <2>7. ASSUME NEW f \in OneofMembers, NEW v \in Vals, SetOneofField(m, f, v, FALSE, r)
        PROVE  Store!SetOneof(Content, Content', m, f, v, FALSE)
    BY <1>1, <2>7, SetOneofFieldStep, ChangesShow
  <2>8. ASSUME NEW f \in OneofMembers, NEW undefined \in BOOLEAN,
               SetOneofField(m, f, Unset, undefined, r)
        PROVE  Store!SetOneof(Content, Content', m, f, Unset, undefined)
    BY <1>1, <2>8, SetOneofFieldStep, ChangesShow
  <2>9. ASSUME NEW f \in Extensions, NEW v \in Vals \union {Unset}, SetExtension(m, f, v, r)
        PROVE  Store!SetScalar(Content, Content', m, f, v)
    <3>1. f \in Fields \ (Repeated \union OneofMembers)
      BY FieldTypes
    <3>2. QED
      BY <1>1, <2>9, <3>1, SetExtensionStep, ChangesShow
  <2>10. ASSUME NEW n \in Msgs, CloneMessage(m, n, r) \/ CopyInto(m, n, r)
         PROVE  Store!Copy(Content, Content', m, n)
    <3>1. CopyInto(m, n, r) => msg[m].pivot = msg[n].pivot
      BY DEF CopyInto
    <3>2. FieldsBecome(n, Own(RawFields(msg[m], eo)))
      BY <1>1, <2>10, <3>1, CloneMessageStep, CopyIntoStep
    <3>3. QED
      BY <1>1, <3>2, ChangesShow
  <2>11. QED
    BY <2>1, <2>2, <2>3, <2>4, <2>5, <2>6, <2>7, <2>8, <2>9, <2>10
<1> HIDE DEF Says
<1>2. FieldsInv => \A c \in {Content}, d \in {Content'}, m \in Msgs, r \in Free : Says(c, d, m, r)
  BY <1>1
<1>3. FieldsInv => [\A c \in {Content}, d \in {Content'}, m \in Msgs, r \in Free :
                      Says(c, d, m, r)]_vars
  BY <1>2, Zenon
<1> USE DEF Says
<1>4. QED
  BY <1>3, Invariance, PTL DEF CallsDoWhatTheySay

-----------------------------------------------------------------------------
(* Equality, difference and copies *)

\* A slot of a message's array, with the extension object left out.
LEMMA SlotIs ==
  ASSUME NEW o, Laid(o), NEW i \in Nat \ {0}
  PROVE  (IF At(o.array, i) \in Refs THEN Unset ELSE At(o.array, i)) =
           IF i < o.pivot THEN At(o.array, i) ELSE Unset
<1>1. o.array \in Seq(Cells) /\ o.pivot \in Nat \ {0} /\ Len(o.array) <= o.pivot
  BY DEF Laid
<1>2. CASE i < o.pivot
  BY <1>1, <1>2, ValueTypes DEF Laid, At
<1>3. CASE i = o.pivot
  BY <1>3, EOAtPivot, ValueTypes DEF Laid
<1>4. CASE i > o.pivot
  BY <1>1, <1>4, ValueTypes DEF At
<1>5. QED
  BY <1>1, <1>2, <1>3, <1>4

LEMMA PropertiesAre ==
  ASSUME NEW o, Laid(o), NEW h, NEW f \in Fields
  PROVE  PropertiesOf(o.array, h)[f] = Property(o, h, f)
BY EOAtEnd DEF PropertiesOf, Property, EmptyEO

LEMMA EqualsIs ==
  ASSUME FieldsInv, NoUnknown, NEW m \in Msgs, NEW n \in Msgs, msg[m].pivot = msg[n].pivot
  PROVE  Equals(m, n) <=> Visible(msg[m], eo) = Visible(msg[n], eo)
<1> DEFINE o == msg[m]
           p == msg[n]
<1>1. /\ Laid(o) /\ Laid(p) /\ o.pivot = p.pivot /\ o.pivot \in Nat \ {0}
      /\ NothingElse(o, eo) /\ NothingElse(p, eo)
      /\ Len(o.array) \in Nat /\ Len(p.array) \in Nat
  <2>1. Laid(o) /\ Laid(p) /\ NothingElse(o, eo) /\ NothingElse(p, eo)
    BY Zenon DEF FieldsInv, FieldsOK
  <2>2. /\ o.pivot \in Nat \ {0} /\ o.array \in Seq(Cells) /\ p.array \in Seq(Cells)
    BY <2>1 DEF Laid
  <2>3. Len(o.array) \in Nat /\ Len(p.array) \in Nat
    BY <2>2
  <2>4. QED
    BY <2>1, <2>2, <2>3
<1>2. \A f \in Fields : /\ f \in Nat \ {0}
                        /\ Visible(o, eo)[f] = Shown(Raw(o, eo, f))
                        /\ Visible(p, eo)[f] = Shown(Raw(p, eo, f))
                        /\ f \in Numbered <=> f \notin Extensions
  BY FieldTypes DEF Visible, Raw
<1> DEFINE SameSlot(i) == Shown(At(o.array, i)) = Shown(At(p.array, i))
           SameProperty(f) == Shown(Property(o, eo, f)) = Shown(Property(p, eo, f))
<1>3. Equals(m, n) <=> /\ \A i \in Nat \ {0} : i < o.pivot => SameSlot(i)
                       /\ \A f \in Fields : SameProperty(f)
  <2> DEFINE length == Larger(Len(o.array), Len(p.array))
             Part(a, i) == Shown(IF At(a, i) \in Refs THEN Unset ELSE At(a, i))
  <2>1. ASSUME NEW i \in Nat \ {0}
        PROVE  /\ Part(o.array, i) = Shown(IF i < o.pivot THEN At(o.array, i) ELSE Unset)
               /\ Part(p.array, i) = Shown(IF i < o.pivot THEN At(p.array, i) ELSE Unset)
    BY <1>1, SlotIs
  <2>2. ASSUME NEW i \in Nat \ {0}, i \notin 1..length PROVE SameSlot(i)
    BY <1>1, <2>2 DEF At, Larger
  <2>3. length \in Nat
    BY <1>1 DEF Larger
  <2>4. SlotsEqual(o.array, p.array) <=> \A i \in 1..length : Part(o.array, i) = Part(p.array, i)
    <3>1. \A a, i : Part(a, i) = IF At(a, i) \in Refs THEN Unset ELSE Shown(At(a, i))
      BY ListTypes DEF Shown
    <3> HIDE DEF Part
    <3>2. QED
      BY <3>1 DEF SlotsEqual
  <2> HIDE DEF Part, length
  <2>5. (\A i \in 1..length : Part(o.array, i) = Part(p.array, i)) <=>
          \A i \in Nat \ {0} : i < o.pivot => SameSlot(i)
    BY <2>1, <2>2, <2>3
  <2>6. (\A f \in Fields : Shown(PropertiesOf(o.array, eo)[f]) =
                           Shown(PropertiesOf(p.array, eo)[f])) <=>
          \A f \in Fields : SameProperty(f)
    BY <1>1, PropertiesAre
  <2>7. QED
    BY <2>4, <2>5, <2>6 DEF Equals
<1>4. Visible(o, eo) = Visible(p, eo) <=>
        \A f \in Fields : Shown(Raw(o, eo, f)) = Shown(Raw(p, eo, f))
  BY <1>2 DEF Visible, Raw
<1>5. ASSUME NEW f \in Fields
      PROVE  Shown(Raw(o, eo, f)) = Shown(Raw(p, eo, f)) <=>
               IF f \notin Extensions /\ f < o.pivot THEN SameSlot(f) ELSE SameProperty(f)
  BY <1>1, RawIs
<1>6. ASSUME NEW i \in Nat \ {0}, i < o.pivot, i \notin Fields \/ i \in Extensions
      PROVE  SameSlot(i)
  BY <1>1, <1>2, <1>6, FieldTypes DEF NothingElse
<1>7. ASSUME NEW f \in Fields, f \notin Extensions, f < o.pivot PROVE SameProperty(f)
  BY <1>1, <1>2, <1>7 DEF NothingElse
<1> HIDE DEF SameSlot, SameProperty, o, p
<1>8. (\A f \in Fields : Shown(Raw(o, eo, f)) = Shown(Raw(p, eo, f))) <=>
        /\ \A i \in Nat \ {0} : i < o.pivot => SameSlot(i)
        /\ \A f \in Fields : SameProperty(f)
  BY <1>2, <1>5, <1>6, <1>7
<1>9. QED
  BY <1>3, <1>4, <1>8 DEF o, p

\* equals is equality of the field values ("have the same field values", message.js:1551),
\* wherever the two messages keep them, as long as neither came with data that are no
\* field's: those equals compares as well.
THEOREM EqualsIsFieldEquality ==
  ASSUME ~CopyAcrossPivots, NoUnknown
  PROVE  Spec => []EqualsComparesValues
<1>1. FieldsInv => EqualsComparesValues
  BY EqualsIs DEF EqualsComparesValues
<1>2. QED
  BY <1>1, Invariance, PTL

\* What copyInto leaves in the target is what its source shows ("the 2 messages will equals
\* in terms of value semantics", message.js:1729), between messages with one pivot; the run
\* fields_copy finds that it is not when the pivots differ.
THEOREM CopyIntoCopiesBetweenEqualPivots ==
  ASSUME ~CopyAcrossPivots
  PROVE  Spec => CopyIntoCopies
<1>1. ASSUME FieldsInv, NEW m \in Msgs, NEW n \in Msgs, NEW r \in Refs, CopyInto(m, n, r)
      PROVE  Visible(msg'[n], eo') = Visible(msg[m], eo)
  <2> DEFINE s == Initialize(DataOf(msg[m], eo), eo, r)
             t == State([s.o EXCEPT !.pivot = msg[n].pivot], s.h)
  <2>1. /\ Laid(msg[m]) /\ FieldsOK(msg[m], eo) /\ eo \in EOs /\ sentinel = <<>>
        /\ msg[m].pivot = msg[n].pivot
    BY <1>1 DEF FieldsInv, CopyInto
  <2>2. /\ Fresh(s, eo, r) /\ s.o.pivot = msg[n].pivot
        /\ RawFields(s.o, s.h) = [f \in Fields |-> Copied(Raw(msg[m], eo, f))]
    BY <2>1, ReloadIs
  <2>3. Become(n, t)
    BY <1>1 DEF CopyInto
  <2> HIDE DEF s
  <2>4. t.o = s.o /\ t.h = s.h
    <3>1. s.o \in [array : Seq(Cells), pivot : Nat \ {0}, ext : Refs \union {NoExt}]
      BY <2>2 DEF Fresh, Laid
    <3>2. [s.o EXCEPT !.pivot = msg[n].pivot] = s.o
      BY <2>2, <3>1
    <3>3. QED
      BY <3>2 DEF State
  <2>5. msg'[n] = s.o /\ (s.o.ext # NoExt => eo'[s.o.ext] = s.h[s.o.ext])
    <3>1. msg'[n] = s.o
      BY <1>1, <2>3, <2>4 DEF Become, FieldsInv
    <3>2. s.o.ext \in Refs \union {NoExt} /\ Holds(s.o, s.o.ext)
      BY <2>2 DEF Fresh, Laid, Holds
    <3>3. QED
      BY <2>3, <2>4, <3>1, <3>2 DEF Become
  <2>6. RawFields(msg'[n], eo') = Own(RawFields(msg[m], eo))
    BY <2>2, <2>5, SameObjectSameFields DEF Own, RawFields
  <2>7. QED
    BY <2>1, <2>6, VisibleIs, OwnShowsTheSame
<1>2. FieldsInv => [\A m, n \in Msgs : \A r \in Refs :
        CopyInto(m, n, r) => Visible(msg'[n], eo') = Visible(msg[m], eo)]_vars
  BY <1>1
<1>3. QED
  BY <1>2, Invariance, PTL DEF CopyIntoCopies

\* difference(m, n): the message over the elements of n's array that differ from m's.
LEMMA DifferenceIs ==
  ASSUME FieldsInv, NEW m \in Msgs, NEW n \in Msgs, NEW r \in Free,
         msg[m].pivot = msg[n].pivot
  PROVE  LET d == Difference(m, n, r)
         IN  /\ \A f \in Fields :
                  Visible(msg[m], eo)[f] # Visible(msg[n], eo)[f] =>
                    Visible(d.o, d.h)[f] = Visible(msg[n], eo)[f]
             /\ \A k \in Msgs : Visible(msg[k], d.h) = Visible(msg[k], eo)
<1> DEFINE o == msg[m]
           p == msg[n]
           length == Larger(Len(o.array), Len(p.array))
           differ == {i \in 1..length : ~ElementsEqual(At(o.array, i), At(p.array, i))}
           last == CHOOSE k \in differ \union {0} : \A i \in differ : i <= k
           a == [i \in 1..last |-> IF i \in differ THEN At(p.array, i) ELSE Unset]
           q == LayOut(a)
           d == Difference(m, n, r)
<1>1. /\ Laid(o) /\ Laid(p) /\ FieldsOK(p, eo) /\ eo \in EOs /\ sentinel = <<>>
      /\ o.pivot = p.pivot /\ p.pivot \in Nat \ {0} /\ r \in Refs
      /\ o.array \in Seq(Cells) /\ p.array \in Seq(Cells)
      /\ Len(o.array) <= o.pivot /\ Len(p.array) <= p.pivot
      /\ o.ext \in Refs \union {NoExt} /\ p.ext \in Refs \union {NoExt}
  BY FreeIs DEF FieldsInv, Laid
<1>2. d = InitializeOver(a, eo, r)
  BY DEF Difference, DifferenceOf
<1> HIDE DEF d, o, p
<1>3. length \in Nat /\ length <= p.pivot /\ Len(o.array) <= length /\ Len(p.array) <= length
  BY <1>1 DEF Larger
<1> HIDE DEF length
<1>4. /\ differ \in SUBSET (Nat \ {0}) /\ \A i \in differ : i <= p.pivot
      /\ last \in differ \union {0} /\ \A i \in differ : i <= last
  <2>1. differ \in SUBSET (Nat \ {0}) /\ \A i \in differ : i <= p.pivot
    BY <1>1, <1>3
  <2> DEFINE T == differ \union {0}
  <2>2. T \in SUBSET Nat /\ T # {} /\ \A i \in T : i <= p.pivot
    BY <1>1, <2>1
  <2> HIDE DEF differ
  <2>3. \E k \in T : \A i \in T : i <= k
    BY <1>1, <2>2, GreatestOf
  <2>4. \E k \in T : \A i \in differ : i <= k
    BY <2>3
  <2>5. QED
    BY <2>1, <2>4
<1>5. ASSUME NEW i \in Nat \ {0}
      PROVE  /\ i \in differ <=> ~ElementsEqual(At(o.array, i), At(p.array, i))
             /\ i > p.pivot => i \notin differ
  <2>1. CASE i \in 1..length
    BY <1>1, <1>3, <2>1
  <2>2. CASE i \notin 1..length
    <3>1. At(o.array, i) = Unset /\ At(p.array, i) = Unset
      BY <1>1, <1>3, <2>2 DEF At
    <3>2. ElementsEqual(Unset, Unset)
      BY ValueTypes DEF ElementsEqual
    <3>3. QED
      BY <2>2, <3>1, <3>2
  <2>3. QED
    BY <2>1, <2>2
<1> HIDE DEF differ, last
<1>6. /\ last \in Nat /\ last <= p.pivot
      /\ a \in Seq(Cells) /\ Len(a) = last
      /\ \A i \in Nat \ {0} : At(a, i) = IF i \in differ THEN At(p.array, i) ELSE Unset
  <2>1. last \in Nat /\ last <= p.pivot
    BY <1>1, <1>4
  <2>2. \A i \in 1..last : (IF i \in differ THEN At(p.array, i) ELSE Unset) \in Cells
    BY <1>1, AtType, ValueTypes
  <2>3. a \in Seq(Cells) /\ Len(a) = last
    BY <2>1, <2>2
  <2>4. ASSUME NEW i \in Nat \ {0}
        PROVE  At(a, i) = IF i \in differ THEN At(p.array, i) ELSE Unset
    BY <1>4, <2>1, <2>3 DEF At
  <2>5. QED
    BY <2>1, <2>3, <2>4
<1> HIDE DEF a
\* The two ways the array ends: with n's extension object, or with no object at all.
<1> DEFINE Both == p.pivot \in differ /\ p.ext # NoExt
<1>7. \A i \in Nat \ {0} : i < p.pivot => At(a, i) \in Value /\ At(p.array, i) \in Value
  BY <1>1, <1>6, ValueTypes DEF Laid, At
<1>8. /\ Both => last = p.pivot /\ At(a, last) = p.ext
      /\ ~Both => At(a, p.pivot) = Unset /\ At(a, last) \notin Refs
  <2>1. At(p.array, p.pivot) = IF p.ext = NoExt THEN Unset ELSE p.ext
    BY <1>1, EOAtPivot
  <2>2. CASE Both
    BY <1>1, <1>4, <1>6, <2>1, <2>2
  <2>3. CASE ~Both
    <3>1. At(a, p.pivot) = Unset
      BY <1>1, <1>6, <2>1, <2>3
    <3>2. last = 0 => At(a, last) = Unset
      BY DEF At
    <3>3. last < p.pivot \/ last = p.pivot
      BY <1>1, <1>6
    <3>4. QED
      BY <1>6, <1>7, <2>3, <3>1, <3>2, <3>3, ValueTypes
  <2>4. QED
    BY <2>2, <2>3
<1> HIDE DEF Both
<1>9. IF At(a, Len(a)) \in Refs THEN SuggestedPivot > -1 \/ Len(a) < Infinity
                                ELSE Len(a) < PivotOver(Len(a))
  <2>1. \/ SuggestedPivot > -1
        \/ p.ext = NoExt /\ p.pivot = Infinity
        \/ p.ext # NoExt /\ p.pivot < Infinity
    BY <1>1 DEF Laid, PivotOver
  <2>2. SuggestedPivot > -1 \/ o.ext = NoExt \/ p.pivot < Infinity
    BY <1>1 DEF Laid
  <2>3. Both => p.ext # NoExt
    BY DEF Both
  <2>4. ~Both /\ ~(SuggestedPivot > -1) => last < Infinity
    <3>1. SUFFICES ASSUME ~Both, ~(SuggestedPivot > -1), ~(last < Infinity) PROVE FALSE
      OBVIOUS
    <3>2. p.ext = NoExt /\ p.pivot = Infinity /\ o.ext = NoExt /\ last = p.pivot
      BY <1>1, <1>6, <2>1, <2>2, <3>1, FieldTypes
    <3>3. At(o.array, p.pivot) = Unset /\ At(p.array, p.pivot) = Unset
      BY <1>1, <3>2, EOAtPivot
    <3>4. ElementsEqual(Unset, Unset)
      BY ValueTypes DEF ElementsEqual
    <3>5. p.pivot \notin differ
      BY <1>1, <1>5, <3>3, <3>4
    <3>6. QED
      BY <1>1, <1>4, <3>2, <3>5
  <2>5. SuggestedPivot > -1 => last < PivotOver(last)
    BY <1>6, FieldTypes DEF PivotOver, Larger
  <2>6. QED
    BY <1>1, <1>6, <1>8, <2>1, <2>3, <2>4, <2>5, FieldTypes DEF PivotOver
<1>10. \A i \in 1..Len(a) : i < Len(a) => a[i] \in Value
  <2>1. ASSUME NEW i \in 1..Len(a), i < Len(a) PROVE a[i] \in Value
    <3>1. i \in Nat \ {0} /\ i < p.pivot /\ a[i] = At(a, i)
      BY <1>1, <1>6, <2>1 DEF At
    <3>2. QED
      BY <1>7, <3>1
  <2>2. QED
    BY <2>1
<1>11. /\ Laid(q) /\ q.array = a
       /\ Both => q.ext = p.ext /\ q.pivot = p.pivot
       /\ ~Both => q.ext = NoExt /\ last < q.pivot
  <2>1. /\ Laid(q) /\ q.array = a
        /\ IF At(a, Len(a)) \in Refs THEN q.ext = At(a, Len(a)) /\ q.pivot = Len(a)
           ELSE q.ext = NoExt /\ q.pivot = PivotOver(Len(a))
    BY <1>6, <1>9, <1>10, LayOutIs
  <2>2. Both => p.ext \in Refs
    BY <1>1 DEF Both
  <2> HIDE DEF q
  <2>3. QED
    BY <1>6, <1>8, <1>9, <2>1, <2>2
<1> HIDE DEF q
<1>12. ASSUME NEW f \in Fields PROVE Raw(q, eo, f) \in {Unset, Raw(p, eo, f)}
  <2>1. f \in Nat \ {0}
    BY FieldTypes
  <2>2. CASE Both
    <3>1. Property(q, eo, f) = Property(p, eo, f)
      BY <1>11, <2>2 DEF Property
    <3>2. QED
      BY <1>6, <1>11, <2>1, <2>2, <3>1, RawIs
  <2>3. CASE ~Both
    <3>1. Property(q, eo, f) = Unset
      BY <1>11, <2>3 DEF Property
    <3>2. CASE f \notin Extensions /\ f < q.pivot
      <4>1. Raw(q, eo, f) = At(a, f)
        BY <1>11, <3>2, RawIs
      <4>2. CASE f < p.pivot
        BY <1>6, <2>1, <3>2, <4>1, <4>2, RawIs
      <4>3. CASE f = p.pivot
        BY <1>8, <2>3, <4>1, <4>3
      <4>4. CASE f > p.pivot
        BY <1>5, <1>6, <2>1, <4>1, <4>4
      <4>5. QED
        BY <1>1, <2>1, <4>2, <4>3, <4>4
    <3>3. QED
      BY <3>1, <3>2, RawIs
  <2>4. QED
    BY <2>2, <2>3
<1>13. ASSUME NoUnknown PROVE NothingElse(q, eo)
  <2>1. NothingElse(p, eo)
    BY <1>1, <1>13 DEF FieldsOK
  <2>2. ASSUME NEW i \in Nat \ {0}, i < q.pivot, i \notin Numbered PROVE At(q.array, i) = Unset
    <3>1. CASE i < p.pivot
      BY <1>6, <1>11, <2>1, <2>2, <3>1 DEF NothingElse
    <3>2. CASE i = p.pivot
      BY <1>8, <1>11, <2>2, <3>2
    <3>3. CASE i > p.pivot
      BY <1>5, <1>6, <1>11, <3>3
    <3>4. QED
      BY <1>1, <3>1, <3>2, <3>3
  <2>3. ASSUME NEW f \in Numbered, f < q.pivot PROVE Property(q, eo, f) = Unset
    BY <1>11, <2>1, <2>3 DEF NothingElse, Property
  <2>4. QED
    BY <2>2, <2>3 DEF NothingElse
<1>14. \A f \in Fields : Raw(q, eo, f) \in Storable(f) \union {Unset}
  BY <1>1, <1>12 DEF FieldsOK
<1>15. AtMostOneCase(RawFields(q, eo))
  <2>1. \A f \in OneofMembers : /\ f \in Fields
                                /\ RawFields(q, eo)[f] = Raw(q, eo, f)
                                /\ RawFields(p, eo)[f] = Raw(p, eo, f)
    BY FieldTypes DEF RawFields
  <2>2. \A f \in OneofMembers : RawFields(q, eo)[f] # Unset => RawFields(p, eo)[f] # Unset
    BY <1>12, <2>1
  <2>3. QED
    BY <1>1, <2>2 DEF FieldsOK, AtMostOneCase
<1>16. /\ Apart(d, q, eo, r) /\ d.o.pivot = q.pivot
       /\ q.ext # NoExt => d.o.ext = q.ext
       /\ RawFields(d.o, d.h) = Filled(RawFields(q, eo))
  <2>1. /\ Apart(d, q, eo, r) /\ d.o.pivot = q.pivot
        /\ q.ext # NoExt => d.o.ext = q.ext
        /\ RawFields(d.o, d.h) = WithoutSuperseded(Filled(RawFields(q, eo)))
    BY <1>1, <1>2, <1>6, <1>9, <1>10, <1>13, <1>14, InitializeOverIs DEF q
  <2>2. AtMostOneCase(Filled(RawFields(q, eo)))
    BY <1>15, FieldTypes, FieldsAssumption DEF AtMostOneCase, Filled
  <2>3. WithoutSuperseded(Filled(RawFields(q, eo))) = Filled(RawFields(q, eo))
    BY <2>2, OneCaseIsKept DEF Filled
  <2>4. QED
    BY <2>1, <2>3
<1>17. ASSUME NEW f \in Fields, Raw(q, eo, f) = Raw(p, eo, f)
       PROVE  Raw(d.o, d.h, f) = Raw(p, eo, f)
  <2>1. f \in Repeated => Raw(p, eo, f) # Unset
    BY <1>1, ListTypes DEF FieldsOK, Storable
  <2>2. Raw(d.o, d.h, f) = RawFields(d.o, d.h)[f] /\ RawFields(q, eo)[f] = Raw(q, eo, f)
    BY DEF RawFields
  <2>3. QED
    BY <1>16, <1>17, <2>1, <2>2 DEF Filled
<1>18. ASSUME NEW f \in Fields, Visible(o, eo)[f] # Visible(p, eo)[f]
       PROVE  Raw(q, eo, f) = Raw(p, eo, f)
  <2>1. /\ f \in Nat \ {0}
        /\ Shown(Raw(o, eo, f)) # Shown(Raw(p, eo, f))
    BY <1>18, FieldTypes DEF Visible, Raw
  <2>2. CASE f \notin Extensions /\ f < p.pivot
    <3>1. Raw(o, eo, f) = At(o.array, f) /\ Raw(p, eo, f) = At(p.array, f)
      BY <1>1, <2>2, RawIs
    <3>2. At(p.array, f) \notin Refs
      BY <1>7, <2>1, <2>2, ValueTypes
    <3>3. f \in differ
      BY <1>5, <2>1, <3>1, <3>2 DEF ElementsEqual
    <3>4. f < q.pivot
      BY <1>4, <1>6, <1>11, <2>1, <2>2, <3>3 DEF Laid
    <3>5. QED
      BY <1>6, <1>11, <2>1, <2>2, <3>1, <3>3, <3>4, RawIs
  <2>3. CASE ~(f \notin Extensions /\ f < p.pivot)
    <3>1. /\ Raw(o, eo, f) = Property(o, eo, f) /\ Raw(p, eo, f) = Property(p, eo, f)
      BY <1>1, <2>3, RawIs
    <3>2. CASE p.ext = NoExt
      BY <1>12, <3>1, <3>2 DEF Property
    <3>3. CASE p.ext # NoExt
      <4>1. At(p.array, p.pivot) = p.ext /\ p.ext \in Refs
            /\ At(o.array, p.pivot) = (IF o.ext = NoExt THEN Unset ELSE o.ext)
        BY <1>1, <3>3, EOAtPivot
      <4>2. p.pivot \in differ
        <5>1. CASE o.ext = NoExt
          BY <1>1, <1>5, <4>1, <5>1, ValueTypes, ListTypes DEF ElementsEqual, Shown
        <5>2. CASE o.ext # NoExt
          <6>1. Shown(eo[o.ext][f]) # Shown(eo[p.ext][f])
            BY <2>1, <3>1, <3>3, <5>2 DEF Property
          <6>2. QED
            BY <1>1, <1>5, <4>1, <5>2, <6>1 DEF ElementsEqual
        <5>3. QED
          BY <5>1, <5>2
      <4>3. q.ext = p.ext /\ q.pivot = p.pivot
        BY <1>11, <3>3, <4>2 DEF Both
      <4>4. QED
        BY <2>3, <3>1, <4>3, RawIs DEF Property
    <3>4. QED
      BY <3>2, <3>3
  <2>4. QED
    BY <2>2, <2>3
<1>19. ASSUME NEW f \in Fields, Visible(o, eo)[f] # Visible(p, eo)[f]
       PROVE  Visible(d.o, d.h)[f] = Visible(p, eo)[f]
  <2>1. Raw(d.o, d.h, f) = Raw(p, eo, f)
    BY <1>17, <1>18, <1>19
  <2>2. QED
    BY <2>1 DEF Visible, Raw
<1>20. ASSUME NEW k \in Msgs PROVE Visible(msg[k], d.h) = Visible(msg[k], eo)
  <2>1. /\ \A e \in Refs \ {q.ext, r} : d.h[e] = eo[e]
        /\ msg[k].ext # r /\ msg[k].ext \in Refs \union {NoExt}
    BY <1>16, FreeIs DEF Apart, FieldsInv
  <2>2. CASE k = n /\ Both
    <3>1. /\ d.o.ext = p.ext /\ d.o.pivot = p.pivot /\ p.ext # NoExt
          /\ msg[k] = p
      BY <1>11, <1>16, <2>2 DEF Both, p
    <3>2. ASSUME NEW f \in Fields PROVE Raw(p, d.h, f) = Raw(p, eo, f)
      <4>1. CASE f \notin Extensions /\ f < p.pivot
        BY <4>1, RawIs
      <4>2. CASE ~(f \notin Extensions /\ f < p.pivot)
        <5>1. Raw(p, d.h, f) = Raw(d.o, d.h, f)
          BY <3>1, <4>2, RawIs DEF Property
        <5>2. Raw(q, eo, f) = Raw(p, eo, f)
          BY <1>11, <2>2, <4>2, RawIs DEF Property
        <5>3. QED
          BY <1>17, <5>1, <5>2
      <4>3. QED
        BY <4>1, <4>2
    <3>3. RawFields(p, d.h) = RawFields(p, eo)
      BY <3>2 DEF RawFields
    <3>4. QED
      BY <3>1, <3>3, VisibleIs
  <2>3. CASE ~(k = n /\ Both)
    <3>1. msg[k].ext # NoExt => d.h[msg[k].ext] = eo[msg[k].ext]
      BY <1>11, <2>1, <2>3 DEF FieldsInv, Separate, Both, p
    <3>2. RawFields(msg[k], d.h) = RawFields(msg[k], eo)
      BY <3>1, SameObjectSameFields
    <3>3. QED
      BY <3>2, VisibleIs
  <2>4. QED
    BY <2>2, <2>3
<1>21. QED
  BY <1>19, <1>20 DEF d, o, p

\* The difference of two messages with one pivot "will contain the top-level fields of m2
\* that differ from those of m1" (message.js:1505), and no message shows anything else for
\* it, though the result shares the second one's extension object.
THEOREM DifferenceIsWhatDiffers ==
  ASSUME ~CopyAcrossPivots
  PROVE  Spec => []DifferenceHasWhatDiffers
<1>1. FieldsInv => DifferenceHasWhatDiffers
  BY DifferenceIs DEF DifferenceHasWhatDiffers
<1>2. QED
  BY <1>1, Invariance, PTL
=============================================================================
