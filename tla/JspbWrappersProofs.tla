-------------------------- MODULE JspbWrappersProofs --------------------------
(***************************************************************************)
(* Message-valued fields, for any class, any number of messages and of     *)
(* children: an object in wrappers_ lies over the very array in its slot,  *)
(* two objects never lie over one array, and so a clone shows what its     *)
(* original's getters show, and what the getters show is a tree of         *)
(* messages.  The calls are described by what they leave of messages ms    *)
(* and children h that are Good.                                           *)
(***************************************************************************)
EXTENDS JspbWrappers, SequenceTheorems, TLAPS

Data == Arrays \union {Unset} \union Seq(Arrays)
Wrap == Objs \union {Unset} \union Seq(Objs)
Messages == [data : [Fields -> Data], wrap : [Fields -> Wrap], eo : BOOLEAN]
Heaps == [cell : [Arrays -> Vals], obj : [Objs -> Vals \union {NoObj, NoMap}]]

Live(h) == {o \in Objs : h.obj[o] # NoObj}

Distinct(s) == \A i, j \in DOMAIN s : s[i] = s[j] => i = j

\* Data d and wrapper w of a field f fit: w is none, or lies over d.  The list of a
\* repeated extension may have grown since it was wrapped (readBinaryExtension).
Fit(f, d, w) ==
  IF f \in Lists
    THEN /\ d \in Seq(Arrays)
         /\ \/ w = Unset /\ Distinct(d)
            \/ /\ w \in Seq(Objs) /\ Len(d) <= Len(w)
               /\ d = Each(f, w, ArrayOf) \/ (ReadsIntoLists /\ f \in RepeatedExtensions)
    ELSE /\ d \in Arrays \union {Unset} /\ w \in Objs \union {Unset}
         /\ w = Unset \/ d = ArrayOf[w]

\* What an extension field holds is in the extension object.
HasEO(m) == \A f \in InEO : (Elements(f, m.data[f]) # {} \/ m.wrap[f] # Unset) => m.eo

WellFormed(m) ==
  /\ m \in Messages
  /\ \A f \in Fields : Fit(f, m.data[f], m.wrap[f])
  /\ HasEO(m)

\* The arrays that a getter has yet to wrap.
Bare(m, f) == IF m.wrap[f] = Unset THEN Elements(f, m.data[f]) ELSE {}

\* No object lies over an array that is not wrapped yet, and no array waits in two slots
\* to be wrapped.  This is what makes wrapping once enough.
BareIsAlone(ms, h) ==
  /\ \A p \in Parents, f \in Fields : \A o \in Live(h) : ArrayOf[o] \notin Bare(ms[p], f)
  /\ \A p, q \in Parents, f, g \in Fields : \A a \in Bare(ms[p], f) :
       a \in Bare(ms[q], g) => p = q /\ f = g

OneOver(h) == \A x, y \in Live(h) : ArrayOf[x] = ArrayOf[y] => x = y

Good(ms, h) ==
  /\ ms \in [Parents -> Messages] /\ \A p \in Parents : WellFormed(ms[p])
  /\ h \in Heaps
  /\ \A p \in Parents : ObjsOf(ms[p]) \subseteq Live(h)
  /\ OneOver(h)
  /\ BareIsAlone(ms, h)

\* What nobody can reach is as it was at first.
Collected ==
  /\ LiveObjs = Kept(msg, heap).objs
  /\ \A a \in Arrays \ Kept(msg, heap).arrays : cell[a] = Empty

WrappersInv == Good(msg, heap) /\ Collected

-----------------------------------------------------------------------------
(* Fields and what is in them *)

LEMMA KindsOfFields ==
  /\ \A f \in Singular : f \in Fields \ Lists /\ f \notin InEO
  /\ \A f \in Oneof : f \in Fields \ Lists /\ f \notin InEO
  /\ \A f \in Repeated : f \in Lists /\ f \in Fields /\ f \notin InEO
  /\ \A f \in Extensions : f \in Fields \ Lists /\ f \in InEO
  /\ \A f \in RepeatedExtensions : f \in Lists /\ f \in Fields /\ f \in InEO
  /\ Lists \subseteq Fields
BY FieldsAssumption DEF Fields, Lists, InEO

LEMMA UnsetIsNothing ==
  Unset \notin Arrays /\ Unset \notin Objs /\ Unset \notin Seq(Arrays) /\ Unset \notin Seq(Objs)
BY FieldsAssumption

LEMMA NoMapIsNoObject == NoMap # NoObj /\ NoObj \notin Vals /\ NoMap \notin Vals
BY ConstantsAssumption

LEMMA ArrayOfType == \A o \in Objs : ArrayOf[o] \in Arrays
BY DEF ArrayOf, Objs

LEMMA ElementsOfList ==
  ASSUME NEW S, Unset \notin Seq(S), NEW f \in Lists, NEW v \in Seq(S)
  PROVE  /\ Elements(f, v) = {v[i] : i \in 1..Len(v)}
         /\ Elements(f, v) \subseteq S
         /\ \A i \in 1..Len(v) : v[i] \in Elements(f, v) /\ v[i] \in S
<1>1. v # Unset /\ DOMAIN v = 1..Len(v)
  OBVIOUS
<1>2. Elements(f, v) = {v[i] : i \in 1..Len(v)}
  BY <1>1 DEF Elements, Range
<1>3. \A i \in 1..Len(v) : v[i] \in S
  BY <1>1
<1>4. QED
  BY <1>2, <1>3

LEMMA ElementsOfOne ==
  ASSUME NEW f, f \notin Lists, NEW v
  PROVE  Elements(f, v) = IF v = Unset THEN {} ELSE {v}
BY DEF Elements

LEMMA ElementsOfNone ==
  ASSUME NEW f
  PROVE  Elements(f, Unset) = {} /\ (f \in Lists => Elements(f, <<>>) = {})
<1>1. Range(<<>>) = {}
  BY DEF Range
<1>2. QED
  BY <1>1 DEF Elements

LEMMA OneOfIs ==
  ASSUME NEW S
  PROVE  OneOf(S) \subseteq S
BY DEF OneOf

LEMMA NewObjsAre ==
  ASSUME NEW h, NEW a, NEW o \in NewObjs(h, a)
  PROVE  o \in Objs /\ h.obj[o] = NoObj /\ ArrayOf[o] = a
BY OneOfIs DEF NewObjs

\* The arrays of a child, or of a list of children.
LEMMA EachArray ==
  ASSUME NEW f \in Fields, NEW v,
         f \in Lists => v \in Seq(Objs), f \notin Lists => v \in Objs \union {Unset}
  PROVE  /\ f \in Lists => /\ Each(f, v, ArrayOf) \in Seq(Arrays)
                           /\ Len(Each(f, v, ArrayOf)) = Len(v)
                           /\ \A i \in 1..Len(v) : Each(f, v, ArrayOf)[i] = ArrayOf[v[i]]
         /\ f \notin Lists => /\ Each(f, v, ArrayOf) \in Arrays \union {Unset}
                              /\ Each(f, v, ArrayOf) = IF v = Unset THEN Unset ELSE ArrayOf[v]
         /\ Elements(f, Each(f, v, ArrayOf)) = {ArrayOf[o] : o \in Elements(f, v)}
<1>1. CASE f \in Lists
  <2> DEFINE e == [i \in 1..Len(v) |-> ArrayOf[v[i]]]
  <2>1. v \in Seq(Objs) /\ DOMAIN v = 1..Len(v) /\ Len(v) \in Nat /\ \A i \in 1..Len(v) : v[i] \in Objs
    BY <1>1
  <2>2. Each(f, v, ArrayOf) = e
    BY <1>1, <2>1 DEF Each
  <2>3. \A i \in 1..Len(v) : e[i] \in Arrays
    BY <2>1, ArrayOfType
  <2>4. e \in Seq(Arrays) /\ Len(e) = Len(v)
    BY <2>1, <2>3
  <2> HIDE DEF e
  <2>5. Elements(f, e) = {e[i] : i \in 1..Len(e)}
    BY <1>1, <2>4, ElementsOfList, UnsetIsNothing
  <2>6. Elements(f, v) = {v[i] : i \in 1..Len(v)}
    BY <1>1, <2>1, ElementsOfList, UnsetIsNothing
  <2>7. Elements(f, e) = {ArrayOf[o] : o \in Elements(f, v)}
    <3>1. \A i \in 1..Len(v) : e[i] = ArrayOf[v[i]]
      BY DEF e
    <3>2. QED
      BY <3>1, <2>4, <2>5, <2>6
  <2>8. QED
    BY <1>1, <2>2, <2>4, <2>7 DEF e
<1>2. CASE f \notin Lists
  <2>1. Each(f, v, ArrayOf) = IF v = Unset THEN Unset ELSE ArrayOf[v]
    BY <1>2 DEF Each
  <2>2. v # Unset => ArrayOf[v] \in Arrays /\ ArrayOf[v] # Unset
    BY <1>2, ArrayOfType, UnsetIsNothing
  <2>3. QED
    BY <1>2, <2>1, <2>2, ElementsOfOne
<1>3. QED
  BY <1>1, <1>2

-----------------------------------------------------------------------------
(* Good messages *)

LEMMA MessageParts ==
  ASSUME NEW ms, NEW h, Good(ms, h), NEW p \in Parents
  PROVE  /\ ms[p] \in Messages /\ WellFormed(ms[p])
         /\ \A f \in Fields :
              /\ ms[p].data[f] \in Data /\ ms[p].wrap[f] \in Wrap
              /\ Fit(f, ms[p].data[f], ms[p].wrap[f])
              /\ Elements(f, ms[p].wrap[f]) \subseteq Live(h)
<1>1. ms[p] \in Messages /\ WellFormed(ms[p]) /\ ObjsOf(ms[p]) \subseteq Live(h)
  BY DEF Good
<1>2. ASSUME NEW f \in Fields
      PROVE  /\ ms[p].data[f] \in Data /\ ms[p].wrap[f] \in Wrap
             /\ Fit(f, ms[p].data[f], ms[p].wrap[f])
             /\ Elements(f, ms[p].wrap[f]) \subseteq Live(h)
  <2>1. ms[p].data[f] \in Data /\ ms[p].wrap[f] \in Wrap
    BY <1>1 DEF Messages
  <2>2. Fit(f, ms[p].data[f], ms[p].wrap[f])
    BY <1>1 DEF WellFormed
  <2>3. Elements(f, ms[p].wrap[f]) \subseteq ObjsOf(ms[p])
    BY DEF ObjsOf
  <2>4. QED
    BY <1>1, <2>1, <2>2, <2>3
<1>3. QED
  BY <1>1, <1>2

\* What a well-formed message holds.
LEMMA WhatIsHeld ==
  ASSUME NEW f \in Fields, NEW d, NEW w, Fit(f, d, w)
  PROVE  Elements(f, d) \subseteq Arrays /\ Elements(f, w) \subseteq Objs
<1>1. CASE f \in Lists
  <2>1. Elements(f, d) \subseteq Arrays
    BY <1>1, ElementsOfList, UnsetIsNothing DEF Fit
  <2>2. CASE w = Unset
    BY <2>1, <2>2, ElementsOfNone
  <2>3. CASE w # Unset
    BY <1>1, <2>1, <2>3, ElementsOfList, UnsetIsNothing DEF Fit
  <2>4. QED
    BY <2>2, <2>3
<1>2. CASE f \notin Lists
  BY <1>2, ElementsOfOne DEF Fit
<1>3. QED
  BY <1>1, <1>2

LEMMA ArraysHeld ==
  ASSUME NEW ms, NEW h, Good(ms, h), NEW p \in Parents
  PROVE  ArraysOf(ms[p]) \subseteq Arrays
BY MessageParts, WhatIsHeld DEF ArraysOf

-----------------------------------------------------------------------------
(* What the calls leave *)

\* Children are synced, edited or come; the messages stay.
LEMMA OtherChildren ==
  ASSUME NEW ms, NEW h, Good(ms, h),
         NEW h2 \in Heaps, OneOver(h2), Live(h) \subseteq Live(h2),
         \A o \in Live(h2) \ Live(h) : \A q \in Parents, f \in Fields :
           ArrayOf[o] \notin Bare(ms[q], f)
  PROVE  Good(ms, h2)
<1>1. \A q \in Parents : ObjsOf(ms[q]) \subseteq Live(h2)
  BY DEF Good
<1>2. BareIsAlone(ms, h2)
  BY DEF Good, BareIsAlone
<1>3. QED
  BY <1>1, <1>2 DEF Good

\* The message p becomes m, which has no array to be wrapped that p had not.
LEMMA OtherMessage ==
  ASSUME NEW ms, NEW h, Good(ms, h), NEW p \in Parents, NEW m, WellFormed(m),
         NEW h2 \in Heaps, OneOver(h2), Live(h) \subseteq Live(h2),
         ObjsOf(m) \subseteq Live(h2),
         \A f \in Fields : Bare(m, f) \subseteq Bare(ms[p], f),
         \A o \in Live(h2) \ Live(h) : \A q \in Parents, f \in Fields :
           ArrayOf[o] \notin Bare([ms EXCEPT ![p] = m][q], f)
  PROVE  Good([ms EXCEPT ![p] = m], h2)
<1> DEFINE new == [ms EXCEPT ![p] = m]
<1>1. /\ ms \in [Parents -> Messages] /\ m \in Messages
      /\ \A q \in Parents : new[q] = IF q = p THEN m ELSE ms[q]
  BY DEF Good, WellFormed
<1>2. new \in [Parents -> Messages]
  BY <1>1
<1> HIDE DEF new
<1>3. \A q \in Parents : WellFormed(new[q]) /\ ObjsOf(new[q]) \subseteq Live(h2)
  BY <1>1 DEF Good
<1>4. \A q \in Parents, f \in Fields : Bare(new[q], f) \subseteq Bare(ms[q], f)
  BY <1>1
<1>5. BareIsAlone(new, h2)
  <2>1. ASSUME NEW q \in Parents, NEW f \in Fields, NEW o \in Live(h2)
        PROVE  ArrayOf[o] \notin Bare(new[q], f)
    <3>1. CASE o \in Live(h)
      BY <3>1, <1>4 DEF Good, BareIsAlone
    <3>2. CASE o \notin Live(h)
      BY <3>2 DEF new
    <3>3. QED
      BY <3>1, <3>2
  <2>2. ASSUME NEW q \in Parents, NEW r \in Parents, NEW f \in Fields, NEW g \in Fields,
               NEW a \in Bare(new[q], f), a \in Bare(new[r], g)
        PROVE  q = r /\ f = g
    BY <2>2, <1>4 DEF Good, BareIsAlone
  <2>3. QED
    BY <2>1, <2>2 DEF BareIsAlone
<1>6. QED
  BY <1>2, <1>3, <1>5 DEF Good, new

\* Objects the messages have or a caller may have are all that Become keeps, and they
\* are good as they were.
LEMMA BecomeKeeps ==
  ASSUME NEW ms, NEW h, Good(ms, h), Become(ms, h)
  PROVE  WrappersInv'
<1> DEFINE kept == Kept(ms, h)
<1>1. /\ msg' = ms
      /\ cell' = [a \in Arrays |-> IF a \in kept.arrays THEN h.cell[a] ELSE Empty]
      /\ obj' = [o \in Objs |-> IF o \in kept.objs THEN h.obj[o] ELSE NoObj]
  BY DEF Become
<1>2. heap' = [cell |-> cell', obj |-> obj']
  BY DEF heap
<1>3. h \in Heaps /\ Empty \in Vals
  BY ConstantsAssumption DEF Good
<1> DEFINE wrappers == UNION {ObjsOf(ms[p]) : p \in Parents}
           data == UNION {ArraysOf(ms[p]) : p \in Parents}
<1>4. /\ kept.objs = {o \in Objs : h.obj[o] # NoObj /\ (o \in wrappers \/ ArrayOf[o] \in data)}
      /\ kept.arrays = data \union {ArrayOf[o] : o \in kept.objs}
  BY DEF Kept
<1>5. kept.objs \subseteq Objs /\ \A o \in kept.objs : h.obj[o] # NoObj
  BY <1>4
<1> HIDE DEF kept
<1>6. /\ \A o \in kept.objs : obj'[o] = h.obj[o]
      /\ \A o \in Objs \ kept.objs : obj'[o] = NoObj
      /\ \A a \in Arrays : cell'[a] = IF a \in kept.arrays THEN h.cell[a] ELSE Empty
  BY <1>1, <1>5
<1>7. heap' \in Heaps
  <2>1. cell' \in [Arrays -> Vals]
    BY <1>1, <1>3 DEF Heaps
  <2>2. obj' \in [Objs -> Vals \union {NoObj, NoMap}]
    BY <1>1, <1>3 DEF Heaps
  <2>3. QED
    BY <1>2, <2>1, <2>2 DEF Heaps
<1>8. Live(heap') = kept.objs
  BY <1>2, <1>5, <1>6 DEF Live
<1>9. kept.objs \subseteq Live(h)
  BY <1>5 DEF Live
<1>10. \A p \in Parents : ObjsOf(ms[p]) \subseteq kept.objs
  <2>1. ASSUME NEW p \in Parents, NEW o \in ObjsOf(ms[p]) PROVE o \in kept.objs
    <3>1. o \in Objs /\ h.obj[o] # NoObj
      BY DEF Good, Live
    <3>2. o \in wrappers
      OBVIOUS
    <3> HIDE DEF wrappers, data
    <3>3. QED
      BY <3>1, <3>2, <1>4
  <2>2. QED
    BY <2>1
<1>11. OneOver(heap')
  BY <1>8, <1>9 DEF Good, OneOver
<1>12. BareIsAlone(ms, heap')
  BY <1>8, <1>9 DEF Good, BareIsAlone
<1>13. Good(msg', heap')
  BY <1>1, <1>7, <1>8, <1>10, <1>11, <1>12 DEF Good
<1>14. Kept(msg', heap').objs = kept.objs /\ Kept(msg', heap').arrays = kept.arrays
  <2>1. \A o \in Objs : heap'.obj[o] # NoObj <=> o \in kept.objs
    BY <1>2, <1>5, <1>6
  <2> DEFINE objs == {o \in Objs : heap'.obj[o] # NoObj /\ (o \in wrappers \/ ArrayOf[o] \in data)}
  <2> HIDE DEF wrappers, data
  <2>2. objs = kept.objs
    <3>1. \A o \in Objs : o \in kept.objs <=> h.obj[o] # NoObj /\ (o \in wrappers \/ ArrayOf[o] \in data)
      BY <1>4
    <3>2. \A o \in Objs : o \in objs <=> heap'.obj[o] # NoObj /\ (o \in wrappers \/ ArrayOf[o] \in data)
      OBVIOUS
    <3>3. QED
      BY <2>1, <3>1, <3>2, <1>5
  <2>3. /\ Kept(msg', heap').objs = objs
        /\ Kept(msg', heap').arrays = data \union {ArrayOf[o] : o \in objs}
    BY <1>1 DEF Kept, wrappers, data
  <2> HIDE DEF objs
  <2>4. QED
    BY <2>2, <2>3, <1>4
<1>15. Collected'
  <2>1. Live(heap') = LiveObjs'
    BY <1>2 DEF LiveObjs, Live
  <2>2. \A a \in Arrays \ kept.arrays : cell'[a] = Empty
    BY <1>6
  <2>3. QED
    BY <2>1, <2>2, <1>8, <1>14 DEF Collected
<1>16. QED
  BY <1>13, <1>15 DEF WrappersInv

\* toArray of live objects: only arrays change.
LEMMA SyncedIs ==
  ASSUME NEW h \in Heaps, NEW S, S \subseteq Live(h)
  PROVE  /\ Synced(h, S) \in Heaps /\ Synced(h, S).obj = h.obj
         /\ Live(Synced(h, S)) = Live(h)
         /\ OneOver(h) => OneOver(Synced(h, S))
<1> DEFINE Ahead(a) == {o \in S : ArrayOf[o] = a /\ h.obj[o] # NoMap}
           new == [a \in Arrays |->
                     IF Ahead(a) = {} THEN h.cell[a] ELSE h.obj[CHOOSE o \in Ahead(a) : TRUE]]
<1>1. ASSUME NEW a \in Arrays PROVE new[a] \in Vals
  <2>1. CASE Ahead(a) = {}
    BY <2>1 DEF Heaps
  <2>2. CASE Ahead(a) # {}
    <3>1. PICK o \in S : o = (CHOOSE x \in Ahead(a) : TRUE) /\ h.obj[o] # NoMap
      BY <2>2
    <3>2. h.obj[o] \in Vals
      BY <3>1 DEF Heaps, Live
    <3>3. QED
      BY <2>2, <3>1, <3>2
  <2>3. QED
    BY <2>1, <2>2
<1>2. Synced(h, S) = [h EXCEPT !.cell = new]
  BY DEF Synced
<1>3. new \in [Arrays -> Vals]
  BY <1>1
<1> HIDE DEF new
<1>4. Synced(h, S) \in Heaps /\ Synced(h, S).obj = h.obj
  BY <1>2, <1>3 DEF Heaps
<1>5. Live(Synced(h, S)) = Live(h)
  BY <1>4 DEF Live
<1>6. QED
  BY <1>4, <1>5 DEF OneOver

LEMMA SyncedKeeps ==
  ASSUME NEW ms, NEW h, Good(ms, h), NEW S, S \subseteq Live(h)
  PROVE  Good(ms, Synced(h, S)) /\ Live(Synced(h, S)) = Live(h)
<1>1. /\ Synced(h, S) \in Heaps /\ OneOver(Synced(h, S))
      /\ Live(Synced(h, S)) = Live(h)
  BY SyncedIs DEF Good
<1>2. QED
  BY <1>1, OtherChildren

\* A message with another field f.
WithField(m, f, d, w, eo) ==
  [data |-> [m.data EXCEPT ![f] = d], wrap |-> [m.wrap EXCEPT ![f] = w], eo |-> eo]

LEMMA MessageWith ==
  ASSUME NEW m \in Messages, NEW f \in Fields, NEW d, NEW w
  PROVE  [m EXCEPT !.wrap[f] = w, !.data[f] = d] = WithField(m, f, d, w, m.eo)
<1>1. [m EXCEPT !.wrap[f] = w] = [data |-> m.data, wrap |-> [m.wrap EXCEPT ![f] = w], eo |-> m.eo]
  BY DEF Messages
<1>2. [[data |-> m.data, wrap |-> [m.wrap EXCEPT ![f] = w], eo |-> m.eo] EXCEPT !.data[f] = d]
        = [data |-> [m.data EXCEPT ![f] = d], wrap |-> [m.wrap EXCEPT ![f] = w], eo |-> m.eo]
  OBVIOUS
<1>3. QED
  BY <1>1, <1>2, Zenon DEF WithField

LEMMA MessageWithBoth ==
  ASSUME NEW m \in Messages, NEW d, NEW w
  PROVE  [m EXCEPT !.data = d, !.wrap = w] = [data |-> d, wrap |-> w, eo |-> m.eo]
<1>1. [m EXCEPT !.data = d] = [data |-> d, wrap |-> m.wrap, eo |-> m.eo]
  BY DEF Messages
<1>2. [[data |-> d, wrap |-> m.wrap, eo |-> m.eo] EXCEPT !.wrap = w]
        = [data |-> d, wrap |-> w, eo |-> m.eo]
  OBVIOUS
<1>3. QED
  BY <1>1, <1>2, Zenon

LEMMA WithFieldIs ==
  ASSUME NEW m, WellFormed(m), NEW f \in Fields, NEW d, NEW w, Fit(f, d, w),
         NEW eo \in BOOLEAN, m.eo => eo, f \in InEO => eo
  PROVE  /\ WellFormed(WithField(m, f, d, w, eo))
         /\ \A g \in Fields : /\ WithField(m, f, d, w, eo).data[g] = IF g = f THEN d ELSE m.data[g]
                              /\ WithField(m, f, d, w, eo).wrap[g] = IF g = f THEN w ELSE m.wrap[g]
<1> DEFINE new == WithField(m, f, d, w, eo)
<1>1. m \in Messages
  BY DEF WellFormed
<1>2. d \in Data /\ w \in Wrap
  BY DEF Fit, Data, Wrap
<1>3. new \in Messages
  BY <1>1, <1>2 DEF WithField, Messages
<1>4. \A g \in Fields : /\ new.data[g] = IF g = f THEN d ELSE m.data[g]
                        /\ new.wrap[g] = IF g = f THEN w ELSE m.wrap[g]
  BY <1>1 DEF WithField, Messages
<1>5. new.eo = eo
  BY DEF WithField
<1> HIDE DEF new
<1>6. \A g \in Fields : Fit(g, new.data[g], new.wrap[g])
  BY <1>4 DEF WellFormed
<1>7. HasEO(new)
  <2>1. InEO \subseteq Fields
    BY DEF InEO, Fields, Lists
  <2>2. QED
    BY <1>4, <1>5, <2>1 DEF WellFormed, HasEO
<1>8. QED
  BY <1>3, <1>4, <1>6, <1>7 DEF WellFormed, new

\* In ms and h, the field f of p may get the data d and the wrapper w, which lies over d,
\* or neither, while the children become those of h2.
MayHold(ms, h, p, f, d, w, eo, h2) ==
  /\ Good(ms, h) /\ p \in Parents /\ f \in Fields
  /\ Fit(f, d, w) /\ (w = Unset => Elements(f, d) = {})
  /\ eo \in BOOLEAN /\ (ms[p].eo => eo) /\ (f \in InEO => eo)
  /\ h2 \in Heaps /\ OneOver(h2) /\ Live(h) \subseteq Live(h2)
  /\ Elements(f, w) \subseteq Live(h2)
  /\ \A o \in Live(h2) \ Live(h) : \A q \in Parents, g \in Fields :
       ArrayOf[o] \in Bare(ms[q], g) => q = p /\ g = f

LEMMA SetField ==
  ASSUME NEW ms, NEW h, NEW p, NEW f, NEW d, NEW w, NEW eo, NEW h2,
         MayHold(ms, h, p, f, d, w, eo, h2)
  PROVE  Good([ms EXCEPT ![p] = WithField(ms[p], f, d, w, eo)], h2)
<1> USE DEF MayHold
<1> DEFINE m == WithField(ms[p], f, d, w, eo)
<1>1. WellFormed(ms[p])
  BY MessageParts
<1>2. /\ WellFormed(m)
      /\ \A g \in Fields : /\ m.data[g] = IF g = f THEN d ELSE ms[p].data[g]
                           /\ m.wrap[g] = IF g = f THEN w ELSE ms[p].wrap[g]
  BY <1>1, WithFieldIs
<1> HIDE DEF m
<1>3. ObjsOf(m) \subseteq Live(h2)
  <2>1. \A g \in Fields : Elements(g, m.wrap[g]) \subseteq Live(h2)
    BY <1>2, MessageParts
  <2>2. QED
    BY <2>1 DEF ObjsOf
<1>4. Bare(m, f) = {} /\ \A g \in Fields : g # f => Bare(m, g) = Bare(ms[p], g)
  BY <1>2 DEF Bare
<1>5. \A g \in Fields : Bare(m, g) \subseteq Bare(ms[p], g)
  BY <1>4
<1>6. ASSUME NEW o \in Live(h2) \ Live(h), NEW q \in Parents, NEW g \in Fields
      PROVE  ArrayOf[o] \notin Bare([ms EXCEPT ![p] = m][q], g)
  <2>1. ms \in [Parents -> Messages]
    BY DEF Good
  <2>2. CASE q = p
    BY <2>1, <2>2, <1>4
  <2>3. CASE q # p
    BY <2>1, <2>3
  <2>4. QED
    BY <2>2, <2>3
<1>7. QED
  BY <1>2, <1>3, <1>5, <1>6, OtherMessage DEF m

\* Children a caller hands over.
LEMMA FreeArraysAre ==
  ASSUME WrappersInv, NEW a \in FreeArrays
  PROVE  /\ a \in Arrays /\ \A o \in LiveObjs : ArrayOf[o] # a
         /\ \A p \in Parents : a \notin ArraysOf(msg[p])
BY DEF FreeArrays, Kept, WrappersInv, Collected

LEMMA LiveIs ==
  /\ Live(heap) = LiveObjs /\ LiveObjs \subseteq Objs
  /\ heap.obj = obj /\ heap.cell = cell
BY DEF Live, LiveObjs, heap

LEMMA BareIsHeld ==
  ASSUME NEW m, NEW f \in Fields
  PROVE  Bare(m, f) \subseteq ArraysOf(m)
BY DEF Bare, ArraysOf

LEMMA NewChildIs ==
  ASSUME WrappersInv, NEW c \in NewChildren
  PROVE  /\ Good(msg, c.h) /\ c.o \in Live(c.h) /\ c.o \notin LiveObjs
         /\ Live(c.h) = LiveObjs \union {c.o} /\ c.h.cell = cell
         /\ ArrayOf[c.o] \in FreeArrays
         /\ \A o \in LiveObjs : c.h.obj[o] = obj[o]
<1>1. PICK a \in FreeArrays, o \in Objs, v \in {NoMap} \union Vals :
        o \in NewObjs(heap, a) /\ c.o = o /\ c.h = [heap EXCEPT !.obj[o] = v]
  <2>1. PICK x \in (UNION {NewObjs(heap, a) : a \in OneOf(FreeArrays)}) \X ({NoMap} \union (Vals \ {Empty})) :
          c = [o |-> x[1], h |-> [heap EXCEPT !.obj[x[1]] = x[2]]]
    BY DEF NewChildren
  <2>2. OneOf(FreeArrays) \subseteq FreeArrays
    BY OneOfIs
  <2>3. PICK a \in FreeArrays : x[1] \in NewObjs(heap, a)
    BY <2>1, <2>2
  <2>4. x[2] \in {NoMap} \union Vals
    BY <2>1
  <2>5. x[1] \in Objs
    BY <2>3, NewObjsAre
  <2>6. QED
    BY <2>1, <2>3, <2>4, <2>5
<1>2. /\ o \in Objs /\ obj[o] = NoObj /\ ArrayOf[o] = a
      /\ v \in Vals \union {NoMap} /\ v # NoObj
  BY <1>1, NewObjsAre, LiveIs, NoMapIsNoObject
<1>3. heap \in Heaps /\ OneOver(heap) /\ Good(msg, heap)
  BY DEF WrappersInv, Good
<1>4. c.h \in Heaps /\ c.h.cell = cell /\ \A x \in Objs : c.h.obj[x] = IF x = o THEN v ELSE obj[x]
  BY <1>1, <1>2, <1>3, LiveIs DEF Heaps
<1>5. Live(c.h) = LiveObjs \union {o} /\ o \notin LiveObjs
  BY <1>2, <1>4 DEF Live, LiveObjs
<1>6. /\ \A x \in LiveObjs : ArrayOf[x] # a
      /\ \A p \in Parents : a \notin ArraysOf(msg[p])
  BY FreeArraysAre
<1>7. OneOver(c.h)
  BY <1>2, <1>3, <1>5, <1>6, LiveIs DEF OneOver
<1>8. \A p \in Parents, f \in Fields : a \notin Bare(msg[p], f)
  BY <1>6, BareIsHeld
<1>9. Good(msg, c.h)
  BY <1>2, <1>3, <1>4, <1>5, <1>7, <1>8, LiveIs, OtherChildren
<1>10. QED
  BY <1>1, <1>2, <1>4, <1>5, <1>9 DEF LiveObjs

LEMMA ChildIs ==
  ASSUME WrappersInv, NEW c \in Children
  PROVE  /\ Good(msg, c.h) /\ c.o \in Live(c.h) /\ LiveObjs \subseteq Live(c.h)
<1>1. CASE c \in NewChildren
  BY <1>1, NewChildIs
<1>2. CASE \E o \in LiveObjs : c = [o |-> o, h |-> heap]
  BY <1>2, LiveIs DEF WrappersInv
<1>3. QED
  BY <1>1, <1>2 DEF Children

-----------------------------------------------------------------------------
(* Getters and setters *)

\* wrapRepeatedField_ wraps a list once.
LEMMA Wrapping ==
  ASSUME NEW ms, NEW h, Good(ms, h), NEW p \in Parents, NEW f \in Lists,
         f \in InEO => ms[p].eo, NEW w \in WrapRepeatedField(ms[p], h, f)
  PROVE  /\ Good([ms EXCEPT ![p] = w.m], w.h) /\ Live(h) \subseteq Live(w.h)
         /\ w.m.wrap[f] # Unset /\ w.m.data = ms[p].data /\ w.m.eo = ms[p].eo
         /\ \A g \in Fields : g # f => w.m.wrap[g] = ms[p].wrap[g]
         /\ \A o \in Live(h) : w.h.obj[o] = h.obj[o]
         /\ w.h.cell = h.cell
         /\ \A o \in Live(w.h) : w.h.obj[o] = IF o \in Live(h) THEN h.obj[o] ELSE NoMap
         /\ w.m.wrap[f] = ms[p].wrap[f] \/ ms[p].data[f] = Each(f, w.m.wrap[f], ArrayOf)
<1>1. /\ ms \in [Parents -> Messages] /\ h \in Heaps
      /\ ms[p] \in Messages /\ WellFormed(ms[p]) /\ f \in Fields
      /\ Fit(f, ms[p].data[f], ms[p].wrap[f])
  BY MessageParts, KindsOfFields DEF Good
<1>2. CASE ms[p].wrap[f] # Unset
  <2>1. w = [m |-> ms[p], h |-> h]
    BY <1>2 DEF WrapRepeatedField
  <2>2. [ms EXCEPT ![p] = w.m] = ms
    BY <1>1, <2>1
  <2>3. QED
    BY <1>2, <2>1, <2>2 DEF Live
<1>3. CASE ms[p].wrap[f] = Unset
  <2> DEFINE d == ms[p].data[f]
  <2>1. PICK g \in Own(DOMAIN d, {o \in Objs : h.obj[o] = NoObj}) :
          /\ \A i \in DOMAIN g : ArrayOf[g[i]] = d[i]
          /\ w.m = [ms[p] EXCEPT !.wrap[f] = g]
          /\ w.h = [h EXCEPT !.obj = [o \in Objs |-> IF o \in Range(g) THEN NoMap ELSE @[o]]]
    <3> DEFINE Fitting == {l \in Own(DOMAIN d, {o \in Objs : h.obj[o] = NoObj}) :
                             \A i \in DOMAIN l : ArrayOf[l[i]] = d[i]}
    <3>1. PICK g \in OneOf(Fitting) :
            w = [m |-> [ms[p] EXCEPT !.wrap[f] = g],
                 h |-> [h EXCEPT !.obj = [o \in Objs |-> IF o \in Range(g) THEN NoMap ELSE @[o]]]]
      BY <1>3 DEF WrapRepeatedField, Wrapped
    <3>2. g \in Fitting
      BY OneOfIs
    <3>3. QED
      BY <3>1, <3>2
  <2>2. d \in Seq(Arrays) /\ Distinct(d) /\ DOMAIN d = 1..Len(d) /\ Len(d) \in Nat
    BY <1>1, <1>3, UnsetIsNothing DEF Fit
  <2>3. /\ g \in [1..Len(d) -> {o \in Objs : h.obj[o] = NoObj}]
        /\ \A i, j \in 1..Len(d) : g[i] = g[j] => i = j
    BY <2>1, <2>2 DEF Own
  <2>4. /\ g \in Seq(Objs) /\ Len(g) = Len(d) /\ DOMAIN g = 1..Len(d) /\ g # Unset
        /\ \A i \in 1..Len(d) : g[i] \in Objs /\ h.obj[g[i]] = NoObj /\ ArrayOf[g[i]] = d[i]
    <3>1. g \in [1..Len(d) -> Objs]
      BY <2>3
    <3>2. g \in Seq(Objs) /\ Len(g) = Len(d)
      BY <3>1, <2>2
    <3>3. QED
      BY <3>2, <2>1, <2>2, <2>3, UnsetIsNothing
  <2> HIDE DEF d
  <2>5. d = Each(f, g, ArrayOf)
    <3>1. /\ Each(f, g, ArrayOf) \in Seq(Arrays) /\ Len(Each(f, g, ArrayOf)) = Len(d)
          /\ \A i \in 1..Len(d) : Each(f, g, ArrayOf)[i] = d[i]
      BY <1>1, <2>4, EachArray
    <3>2. QED
      BY <2>2, <3>1, SeqEqual
  <2>6. Range(g) = {g[i] : i \in 1..Len(d)} /\ Elements(f, g) = Range(g)
    BY <2>4 DEF Range, Elements
  <2>7. /\ w.h \in Heaps /\ w.h.cell = h.cell
        /\ \A o \in Objs : w.h.obj[o] = IF o \in Range(g) THEN NoMap ELSE h.obj[o]
    <3> DEFINE objs == [o \in Objs |-> IF o \in Range(g) THEN NoMap ELSE h.obj[o]]
    <3>1. objs \in [Objs -> Vals \union {NoObj, NoMap}]
      BY <1>1 DEF Heaps
    <3>2. w.h = [h EXCEPT !.obj = objs]
      BY <2>1
    <3> HIDE DEF objs
    <3>3. w.h \in Heaps /\ w.h.cell = h.cell /\ w.h.obj = objs
      BY <1>1, <3>1, <3>2 DEF Heaps
    <3>4. QED
      BY <3>3 DEF objs
  <2>8. Range(g) \subseteq Objs /\ \A o \in Range(g) : h.obj[o] = NoObj
    BY <2>4, <2>6
  <2>9. Live(w.h) = Live(h) \union Range(g)
    BY <2>7, <2>8, NoMapIsNoObject DEF Live
  <2>10. \A i \in 1..Len(d) : d[i] \in Bare(ms[p], f)
    BY <1>1, <1>3, <2>2, ElementsOfList, UnsetIsNothing DEF Bare, d
  <2>11. OneOver(w.h)
    <3>1. ASSUME NEW x \in Live(w.h), NEW y \in Range(g), ArrayOf[x] = ArrayOf[y] PROVE x = y
      <4>1. PICK i \in 1..Len(d) : y = g[i]
        BY <2>6
      <4>2. ArrayOf[x] = d[i]
        BY <3>1, <4>1, <2>4
      <4>3. x \notin Live(h)
        BY <4>2, <2>10, <1>1 DEF Good, BareIsAlone
      <4>4. PICK j \in 1..Len(d) : x = g[j]
        BY <4>3, <2>6, <2>9
      <4>5. d[i] = d[j]
        BY <4>2, <4>4, <2>4
      <4>6. i = j
        BY <4>5, <2>2 DEF Distinct
      <4>7. QED
        BY <4>1, <4>4, <4>6
    <3>2. QED
      BY <3>1, <2>9 DEF Good, OneOver
  <2>12. w.m = WithField(ms[p], f, d, g, ms[p].eo)
    BY <1>1, <2>1 DEF WithField, Messages, d
  <2>13. Fit(f, d, g)
    <3>1. Len(d) <= Len(g)
      BY <2>2, <2>4
    <3>2. QED
      BY <3>1, <2>2, <2>4, <2>5, Zenon DEF Fit
  <2>14. \A o \in Live(w.h) \ Live(h) : \A q \in Parents, k \in Fields :
           ArrayOf[o] \in Bare(ms[q], k) => q = p /\ k = f
    <3>1. ASSUME NEW o \in Live(w.h) \ Live(h), NEW q \in Parents, NEW k \in Fields,
                 ArrayOf[o] \in Bare(ms[q], k)
          PROVE  q = p /\ k = f
      <4>1. PICK i \in 1..Len(d) : o = g[i]
        BY <2>6, <2>9
      <4>2. ArrayOf[o] \in Bare(ms[p], f)
        BY <4>1, <2>4, <2>10
      <4>3. QED
        BY <3>1, <4>2, <1>1 DEF Good, BareIsAlone
    <3>2. QED
      BY <3>1
  <2>15. ms[p].eo \in BOOLEAN
    BY <1>1 DEF Messages
  <2>16. Elements(f, g) \subseteq Live(w.h) /\ Live(h) \subseteq Live(w.h)
    BY <2>6, <2>9
  <2>17. Good([ms EXCEPT ![p] = w.m], w.h)
    <3>1. Good([ms EXCEPT ![p] = WithField(ms[p], f, d, g, ms[p].eo)], w.h)
      <4>1. PICK eo \in BOOLEAN : eo = ms[p].eo
        BY <2>15
      <4>2. (ms[p].eo => eo) /\ (f \in InEO => eo)
        BY <4>1
      <4>3. Good([ms EXCEPT ![p] = WithField(ms[p], f, d, g, eo)], w.h)
        <5>1. MayHold(ms, h, p, f, d, g, eo, w.h)
          BY <1>1, <2>4, <2>7, <2>11, <2>13, <2>14, <2>16, <4>2, Zenon DEF MayHold
        <5>2. QED
          BY <5>1, SetField
      <4>4. QED
        BY <4>1, <4>3
    <3>2. QED
      BY <2>12, <3>1
  <2>18. /\ w.m.wrap[f] = g /\ w.m.data = ms[p].data /\ w.m.eo = ms[p].eo
         /\ \A k \in Fields : k # f => w.m.wrap[k] = ms[p].wrap[k]
    BY <1>1, <2>1 DEF Messages
  <2>19. /\ \A o \in Live(h) : w.h.obj[o] = h.obj[o]
         /\ \A o \in Live(w.h) : w.h.obj[o] = IF o \in Live(h) THEN h.obj[o] ELSE NoMap
    BY <2>7, <2>8, <2>9 DEF Live
  <2>20. QED
    BY <2>4, <2>5, <2>7, <2>16, <2>17, <2>18, <2>19 DEF d
<1>4. QED
  BY <1>2, <1>3

\* getWrapperField makes an object over an array that has none.
LEMMA GetWrapperFieldKeeps ==
  ASSUME WrappersInv, NEW p \in Parents, NEW f \in Fields \ Lists, f \in InEO => msg[p].eo,
         msg[p].wrap[f] = Unset, msg[p].data[f] # Unset,
         NEW o \in NewObjs(heap, msg[p].data[f])
  PROVE  Good([msg EXCEPT ![p].wrap[f] = o], [heap EXCEPT !.obj[o] = NoMap])
<1> DEFINE d == msg[p].data[f]
           h2 == [heap EXCEPT !.obj[o] = NoMap]
<1>1. /\ Good(msg, heap) /\ msg \in [Parents -> Messages] /\ heap \in Heaps
      /\ OneOver(heap) /\ BareIsAlone(msg, heap)
      /\ msg[p] \in Messages /\ Fit(f, d, msg[p].wrap[f])
  BY MessageParts DEF WrappersInv, Good
<1>2. o \in Objs /\ obj[o] = NoObj /\ ArrayOf[o] = d
  BY NewObjsAre, LiveIs
<1>3. d \in Bare(msg[p], f)
  BY ElementsOfOne DEF Bare
<1> HIDE DEF d
<1>4. h2 \in Heaps /\ \A x \in Objs : h2.obj[x] = IF x = o THEN NoMap ELSE obj[x]
  BY <1>1, <1>2, LiveIs DEF Heaps
<1> HIDE DEF h2
<1>5. Live(h2) = Live(heap) \union {o} /\ o \notin Live(heap)
  BY <1>2, <1>4, NoMapIsNoObject, LiveIs DEF Live
<1>6. \A x \in Live(heap) : ArrayOf[x] # d
  BY <1>1, <1>3 DEF BareIsAlone
<1>7. OneOver(h2)
  BY <1>1, <1>2, <1>5, <1>6 DEF OneOver
<1>8. \A q \in Parents, g \in Fields : d \in Bare(msg[q], g) => q = p /\ g = f
  BY <1>1, <1>3 DEF BareIsAlone
<1>9. [msg EXCEPT ![p].wrap[f] = o] = [msg EXCEPT ![p] = WithField(msg[p], f, d, o, msg[p].eo)]
  <2>1. [msg[p] EXCEPT !.wrap[f] = o] = WithField(msg[p], f, d, o, msg[p].eo)
    BY <1>1 DEF WithField, Messages, d
  <2>2. [msg EXCEPT ![p].wrap[f] = o] = [msg EXCEPT ![p] = [msg[p] EXCEPT !.wrap[f] = o]]
    BY <1>1
  <2>3. QED
    BY <2>1, <2>2
<1>10. Fit(f, d, o) /\ o # Unset /\ Elements(f, o) = {o} /\ msg[p].eo \in BOOLEAN
  <2>1. o # Unset
    BY <1>2, UnsetIsNothing
  <2>2. QED
    BY <1>1, <1>2, <2>1, ElementsOfOne DEF Fit, Messages
<1>11. \A x \in Live(h2) \ Live(heap) : \A q \in Parents, g \in Fields :
         ArrayOf[x] \in Bare(msg[q], g) => q = p /\ g = f
  BY <1>2, <1>5, <1>8
<1>12. Good([msg EXCEPT ![p] = WithField(msg[p], f, d, o, msg[p].eo)], h2)
  <2>1. Live(heap) \subseteq Live(h2) /\ Elements(f, o) \subseteq Live(h2)
    BY <1>5, <1>10
  <2>2. PICK eo \in BOOLEAN : eo = msg[p].eo
    BY <1>10
  <2>3. (msg[p].eo => eo) /\ (f \in InEO => eo)
    BY <2>2
  <2>4. Good([msg EXCEPT ![p] = WithField(msg[p], f, d, o, eo)], h2)
    <3>1. MayHold(msg, heap, p, f, d, o, eo, h2)
      BY <1>1, <1>4, <1>7, <1>10, <1>11, <2>1, <2>3, Zenon DEF MayHold
    <3>2. QED
      BY <3>1, SetField
  <2>5. QED
    BY <2>2, <2>4
<1>13. QED
  BY <1>9, <1>12 DEF h2

\* The setters: v is a child, a list of children, or nothing.
LEMMA StoredKeeps ==
  ASSUME NEW ms, NEW h, Good(ms, h), NEW p \in Parents, NEW f \in Fields, NEW v,
         f \in Lists => v \in Seq(Objs), f \notin Lists => v \in Objs \union {Unset},
         Elements(f, v) \subseteq Live(h),
         NEW eo \in BOOLEAN, ms[p].eo => eo, f \in InEO => eo
  PROVE  /\ [Stored(ms[p], h, f, v).m EXCEPT !.eo = eo]
              = WithField(ms[p], f, Each(f, v, ArrayOf), v, eo)
         /\ Good([ms EXCEPT ![p] = WithField(ms[p], f, Each(f, v, ArrayOf), v, eo)],
                 Stored(ms[p], h, f, v).h)
<1> DEFINE d == Each(f, v, ArrayOf)
<1>1. /\ ms[p] \in Messages /\ h \in Heaps /\ OneOver(h)
  BY MessageParts DEF Good
<1>2. [Stored(ms[p], h, f, v).m EXCEPT !.eo = eo] = WithField(ms[p], f, d, v, eo)
  <2>1. Stored(ms[p], h, f, v).m = WithField(ms[p], f, d, v, ms[p].eo)
    BY <1>1, MessageWith DEF Stored
  <2> HIDE DEF d
  <2>2. QED
    BY <2>1 DEF WithField
<1>3. /\ Stored(ms[p], h, f, v).h \in Heaps /\ OneOver(Stored(ms[p], h, f, v).h)
      /\ Live(Stored(ms[p], h, f, v).h) = Live(h)
  BY <1>1, SyncedIs DEF Stored
<1>4. Fit(f, d, v) /\ (v = Unset => Elements(f, d) = {})
  <2>1. CASE f \in Lists
    <3>1. v # Unset /\ d \in Seq(Arrays) /\ Len(d) = Len(v) /\ Len(v) \in Nat
      BY <2>1, EachArray, UnsetIsNothing
    <3>2. Len(d) <= Len(v)
      BY <3>1
    <3>3. QED
      BY <2>1, <3>1, <3>2, Zenon DEF Fit
  <2>2. CASE f \notin Lists
    <3>1. d \in Arrays \union {Unset} /\ d = IF v = Unset THEN Unset ELSE ArrayOf[v]
      BY <2>2, EachArray
    <3> HIDE DEF d
    <3>2. QED
      BY <2>2, <3>1, ElementsOfNone DEF Fit
  <2>3. QED
    BY <2>1, <2>2
<1>5. QED
  <2>1. MayHold(ms, h, p, f, d, v, eo, Stored(ms[p], h, f, v).h)
    BY <1>3, <1>4 DEF MayHold
  <2>2. QED
    BY <1>2, <2>1, SetField

LEMMA OthersClearedKeeps ==
  ASSUME NEW ms, NEW h, Good(ms, h), NEW p \in Parents, NEW f \in Oneof
  PROVE  /\ Good([ms EXCEPT ![p] = OthersCleared(ms[p], f)], h)
         /\ OthersCleared(ms[p], f).eo = ms[p].eo
         /\ \A g \in Fields :
              /\ OthersCleared(ms[p], f).data[g]
                   = IF g \in OneofCase(ms[p]) \ {f} THEN Unset ELSE ms[p].data[g]
              /\ OthersCleared(ms[p], f).wrap[g]
                   = IF g \in OneofCase(ms[p]) \ {f} THEN Unset ELSE ms[p].wrap[g]
<1> DEFINE m == ms[p]
           lost == OneofCase(m) \ {f}
           new == OthersCleared(m, f)
<1>1. /\ m \in Messages /\ WellFormed(m) /\ h \in Heaps /\ OneOver(h)
      /\ ObjsOf(m) \subseteq Live(h)
  BY MessageParts DEF Good
<1>2. lost \subseteq Fields \ Lists /\ \A g \in lost : g \notin InEO
  BY KindsOfFields DEF OneofCase
<1> HIDE DEF lost, m
<1>3. /\ new.data = [g \in Fields |-> IF g \in lost THEN Unset ELSE m.data[g]]
      /\ new.wrap = [g \in Fields |-> IF g \in lost THEN Unset ELSE m.wrap[g]]
      /\ new.eo = m.eo
      /\ new = [data |-> new.data, wrap |-> new.wrap, eo |-> new.eo]
  <2> DEFINE data == [g \in Fields |-> IF g \in lost THEN Unset ELSE m.data[g]]
             wrap == [g \in Fields |-> IF g \in lost THEN Unset ELSE m.wrap[g]]
  <2>1. new = [m EXCEPT !.data = data, !.wrap = wrap]
    BY DEF OthersCleared, lost
  <2>2. [m EXCEPT !.data = data, !.wrap = wrap] = [data |-> data, wrap |-> wrap, eo |-> m.eo]
    BY <1>1, MessageWithBoth
  <2> HIDE DEF data, wrap, new
  <2>3. new.data = data /\ new.wrap = wrap /\ new.eo = m.eo
    BY <2>1, <2>2
  <2>4. QED
    BY <2>1, <2>2, <2>3 DEF data, wrap
<1>4. Unset \in Data /\ Unset \in Wrap
  BY DEF Data, Wrap
<1> HIDE DEF new
<1>5. new \in Messages
  BY <1>1, <1>3, <1>4 DEF Messages
<1>6. \A g \in Fields : /\ new.data[g] = IF g \in lost THEN Unset ELSE m.data[g]
                        /\ new.wrap[g] = IF g \in lost THEN Unset ELSE m.wrap[g]
  BY <1>3
<1>7. WellFormed(new)
  <2>1. \A g \in Fields : Fit(g, new.data[g], new.wrap[g])
    BY <1>1, <1>2, <1>6 DEF WellFormed, Fit
  <2>2. HasEO(new)
    <3>1. InEO \subseteq Fields
      BY KindsOfFields DEF InEO
    <3>2. QED
      BY <1>1, <1>2, <1>3, <1>6, <3>1 DEF WellFormed, HasEO
  <2>3. QED
    BY <1>5, <2>1, <2>2 DEF WellFormed
<1>8. \A g \in Fields : /\ Elements(g, new.wrap[g]) \subseteq Elements(g, m.wrap[g])
                        /\ Bare(new, g) \subseteq Bare(m, g)
  BY <1>6, ElementsOfNone DEF Bare
<1>9. ObjsOf(new) \subseteq Live(h)
  BY <1>1, <1>8 DEF ObjsOf
<1>10. Good([ms EXCEPT ![p] = new], h)
  BY <1>1, <1>7, <1>8, <1>9, OtherMessage DEF m
<1>11. QED
  BY <1>3, <1>6, <1>10 DEF new, m, lost

\* The list t is s with e inserted at i.
Inserted(S, s, i, e, t) ==
  /\ t \in Seq(S) /\ Len(t) = Len(s) + 1
  /\ \A k \in 1 .. Len(s) + 1 : t[k] = IF k < i THEN s[k] ELSE IF k = i THEN e ELSE s[k - 1]

LEMMA InsertAtIs ==
  ASSUME NEW S, NEW s \in Seq(S), NEW e \in S, NEW i \in 1 .. Len(s) + 1
  PROVE  Inserted(S, s, i, e, InsertAt(s, i, e))
<1> DEFINE before == SubSeq(s, 1, i - 1)
           after == SubSeq(s, i, Len(s))
<1>1. Len(s) \in Nat /\ i \in Nat /\ 1 <= i /\ i <= Len(s) + 1
  OBVIOUS
<1>2. /\ before \in Seq(S) /\ Len(before) = i - 1
      /\ \A k \in 1 .. i - 1 : before[k] = s[k]
  BY <1>1
<1>3. /\ after \in Seq(S) /\ Len(after) = Len(s) - i + 1
      /\ \A k \in 1 .. Len(s) - i + 1 : after[k] = s[i + k - 1]
  <2>1. CASE i = Len(s) + 1
    BY <1>1, <2>1
  <2>2. CASE i # Len(s) + 1
    BY <1>1, <2>2
  <2>3. QED
    BY <2>1, <2>2
<1>4. InsertAt(s, i, e) = (before \o <<e>>) \o after
  BY DEF InsertAt
<1> HIDE DEF before, after
<1> DEFINE first == before \o <<e>>
<1>5. /\ first \in Seq(S) /\ Len(first) = i
      /\ \A k \in 1..i : first[k] = IF k = i THEN e ELSE before[k]
  BY <1>1, <1>2
<1> HIDE DEF first
<1>6. /\ first \o after \in Seq(S) /\ Len(first \o after) = Len(s) + 1
      /\ \A k \in 1 .. Len(s) + 1 : (first \o after)[k] = IF k <= i THEN first[k] ELSE after[k - i]
  <2>1. /\ first \o after \in Seq(S) /\ Len(first \o after) = Len(first) + Len(after)
        /\ \A k \in 1 .. Len(first) + Len(after) :
             (first \o after)[k] = IF k <= Len(first) THEN first[k] ELSE after[k - Len(first)]
    BY <1>3, <1>5, ConcatProperties
  <2>2. Len(first) = i /\ Len(first) + Len(after) = Len(s) + 1
    BY <1>1, <1>3, <1>5
  <2>3. QED
    BY <2>1, <2>2
<1>7. ASSUME NEW k \in 1 .. Len(s) + 1
      PROVE  (first \o after)[k] = IF k < i THEN s[k] ELSE IF k = i THEN e ELSE s[k - 1]
  <2>1. CASE k <= i
    <3>1. k \in 1..i /\ (k # i => k \in 1 .. i - 1)
      BY <1>1, <2>1
    <3>2. (first \o after)[k] = first[k] /\ (k < i <=> k # i)
      BY <1>1, <1>6, <2>1
    <3>3. QED
      BY <1>2, <1>5, <3>1, <3>2
  <2>2. CASE k > i
    <3>1. k - i \in 1 .. Len(s) - i + 1 /\ i + (k - i) - 1 = k - 1 /\ ~ k <= i /\ ~ k < i /\ k # i
      BY <1>1, <2>2
    <3>2. (first \o after)[k] = after[k - i]
      BY <1>6, <3>1
    <3>3. after[k - i] = s[i + (k - i) - 1]
      BY <1>3, <3>1
    <3>4. QED
      BY <3>1, <3>2, <3>3
  <2>3. k <= i \/ k > i
    BY <1>1
  <2>4. QED
    BY <2>1, <2>2, <2>3, Zenon
<1> DEFINE t == first \o after
<1>8. InsertAt(s, i, e) = t /\ t \in Seq(S) /\ Len(t) = Len(s) + 1
  BY <1>4, <1>6 DEF first
<1> HIDE DEF t
<1>9. Inserted(S, s, i, e, t)
  BY <1>7, <1>8 DEF Inserted, t
<1>10. QED
  BY <1>8, <1>9

\* The child o of h goes into a wrapped list of p, and its array where its wrapper went,
\* or, read into a repeated extension, its array goes nowhere.
LEMMA IntoListKeeps ==
  ASSUME NEW ms, NEW h, Good(ms, h), NEW p \in Parents, NEW f \in Lists,
         f \in InEO => ms[p].eo, NEW o \in Live(h), NEW w \in WrapRepeatedField(ms[p], h, f)
  PROVE  /\ Len(ms[p].data[f]) \in Nat
         /\ f \in Repeated => \A i \in 0..Len(ms[p].data[f]) :
              LET d == InsertAt(w.m.data[f], i + 1, ArrayOf[o])
                  v == InsertAt(w.m.wrap[f], i + 1, o)
              IN  /\ d = Each(f, v, ArrayOf)
                  /\ i + 1 \in 1 .. Len(w.m.wrap[f]) + 1 /\ w.m.wrap[f] \in Seq(Objs)
                  /\ w.m.data[f] = Each(f, w.m.wrap[f], ArrayOf)
                  /\ Good([ms EXCEPT ![p] = WithField(w.m, f, d, v, w.m.eo)],
                          Synced(w.h, {o}))
         /\ ReadsIntoLists /\ f \in RepeatedExtensions =>
              Good([ms EXCEPT ![p] = WithField(w.m, f, w.m.data[f], Append(w.m.wrap[f], o), w.m.eo)],
                   w.h)
<1> DEFINE ms1 == [ms EXCEPT ![p] = w.m]
<1>1. /\ Good(ms1, w.h) /\ Live(h) \subseteq Live(w.h)
      /\ w.m.wrap[f] # Unset /\ w.m.data = ms[p].data /\ w.m.eo = ms[p].eo
  BY Wrapping
<1>2. ms \in [Parents -> Messages] /\ ms1[p] = w.m /\ f \in Fields /\ o \in Objs
  BY KindsOfFields DEF Good, Live
<1>3. /\ WellFormed(w.m) /\ w.m \in Messages /\ Fit(f, w.m.data[f], w.m.wrap[f])
      /\ Elements(f, w.m.wrap[f]) \subseteq Live(w.h)
  BY <1>1, <1>2, MessageParts
<1>4. /\ w.m.data[f] \in Seq(Arrays) /\ w.m.wrap[f] \in Seq(Objs)
      /\ Len(w.m.data[f]) <= Len(w.m.wrap[f])
      /\ f \in Repeated => w.m.data[f] = Each(f, w.m.wrap[f], ArrayOf)
  <2>1. f \in Repeated => f \notin RepeatedExtensions
    BY FieldsAssumption DEF InEO
  <2>2. QED
    BY <1>1, <1>3, <2>1 DEF Fit
<1>5. Len(w.m.data[f]) \in Nat /\ Len(w.m.wrap[f]) \in Nat
  BY <1>4, LenProperties, SMTT(30)
<1>6. w.h \in Heaps /\ OneOver(w.h) /\ o \in Live(w.h)
  BY <1>1 DEF Good
<1>7. PICK eo \in BOOLEAN : eo = w.m.eo
  BY <1>3 DEF Messages
<1>8. (ms1[p].eo => eo) /\ (f \in InEO => eo)
  BY <1>1, <1>2, <1>7
<1>9. ASSUME NEW m PROVE [ms1 EXCEPT ![p] = m] = [ms EXCEPT ![p] = m]
  BY <1>2
<1> HIDE DEF ms1
<1>10. ASSUME f \in Repeated, NEW i \in 0..Len(w.m.data[f])
       PROVE  LET d == InsertAt(w.m.data[f], i + 1, ArrayOf[o])
                  v == InsertAt(w.m.wrap[f], i + 1, o)
              IN  /\ d = Each(f, v, ArrayOf) /\ i + 1 \in 1 .. Len(w.m.wrap[f]) + 1
                  /\ Good([ms EXCEPT ![p] = WithField(w.m, f, d, v, w.m.eo)],
                          Synced(w.h, {o}))
  <2> DEFINE d0 == w.m.data[f]
             v0 == w.m.wrap[f]
             d == InsertAt(d0, i + 1, ArrayOf[o])
             v == InsertAt(v0, i + 1, o)
             h2 == Synced(w.h, {o})
  <2>1. /\ d0 = Each(f, v0, ArrayOf) /\ Len(d0) = Len(v0) /\ Len(v0) \in Nat
        /\ \A k \in 1..Len(v0) : d0[k] = ArrayOf[v0[k]]
        /\ d0 \in Seq(Arrays) /\ v0 \in Seq(Objs) /\ ArrayOf[o] \in Arrays
    BY <1>2, <1>4, <1>5, <1>10, EachArray, ArrayOfType
  <2> HIDE DEF d0, v0
  <2>2. i + 1 \in 1 .. Len(v0) + 1 /\ i + 1 \in 1 .. Len(d0) + 1
    BY <2>1, <1>10 DEF d0
  <2>3. /\ d \in Seq(Arrays) /\ Len(d) = Len(d0) + 1
        /\ \A k \in 1 .. Len(d0) + 1 :
             d[k] = IF k < i + 1 THEN d0[k] ELSE IF k = i + 1 THEN ArrayOf[o] ELSE d0[k - 1]
    <3>1. Inserted(Arrays, d0, i + 1, ArrayOf[o], d)
      BY <2>1, <2>2, InsertAtIs
    <3> HIDE DEF d
    <3>2. QED
      BY <3>1 DEF Inserted
  <2>4. /\ v \in Seq(Objs) /\ Len(v) = Len(v0) + 1
        /\ \A k \in 1 .. Len(v0) + 1 :
             v[k] = IF k < i + 1 THEN v0[k] ELSE IF k = i + 1 THEN o ELSE v0[k - 1]
    <3>1. Inserted(Objs, v0, i + 1, o, v)
      <4>1. o \in Objs
        BY DEF Live
      <4>2. QED
        BY <2>1, <2>2, <4>1, InsertAtIs
    <3> HIDE DEF v
    <3>2. QED
      BY <3>1 DEF Inserted
  <2> HIDE DEF d, v
  <2>5. ASSUME NEW k \in 1 .. Len(v0) + 1 PROVE d[k] = ArrayOf[v[k]]
    <3>1. CASE k < i + 1
      <4>1. k \in 1..Len(v0)
        BY <2>1, <2>2, <3>1
      <4>2. QED
        BY <2>1, <2>3, <2>4, <3>1, <4>1
    <3>2. CASE k = i + 1
      BY <2>1, <2>2, <2>3, <2>4, <3>2
    <3>3. CASE k > i + 1
      <4>1. k - 1 \in 1..Len(v0) /\ ~ k < i + 1 /\ k # i + 1
        BY <2>1, <2>2, <3>3
      <4>2. QED
        BY <2>1, <2>3, <2>4, <4>1
    <3>4. QED
      BY <2>1, <2>2, <3>1, <3>2, <3>3
  <2>6. d = Each(f, v, ArrayOf)
    <3>1. /\ Each(f, v, ArrayOf) \in Seq(Arrays) /\ Len(Each(f, v, ArrayOf)) = Len(d)
          /\ \A k \in 1..Len(d) : Each(f, v, ArrayOf)[k] = d[k]
      BY <1>2, <2>1, <2>3, <2>4, <2>5, EachArray, SMTT(30)
    <3>2. QED
      BY <2>3, <3>1, SeqEqual
  <2>7. Fit(f, d, v) /\ v # Unset
    <3>1. Len(d) <= Len(v) /\ v # Unset
      BY <2>1, <2>3, <2>4, UnsetIsNothing
    <3>2. QED
      BY <2>3, <2>4, <2>6, <3>1, Zenon DEF Fit
  <2>8. Elements(f, v) \subseteq Elements(f, v0) \union {o}
    <3>1. Elements(f, v) = {v[k] : k \in 1..Len(v)}
      BY <2>4, ElementsOfList, UnsetIsNothing
    <3>2. \A k \in 1..Len(v0) : v0[k] \in Elements(f, v0)
      BY <2>1, ElementsOfList, UnsetIsNothing
    <3>3. \A k \in 1 .. Len(v0) + 1 : v[k] = o \/ \E j \in 1..Len(v0) : v[k] = v0[j]
      <4>1. ASSUME NEW k \in 1 .. Len(v0) + 1, k # i + 1
            PROVE  (k < i + 1 => k \in 1..Len(v0)) /\ (~ k < i + 1 => k - 1 \in 1..Len(v0))
        BY <2>1, <2>2, <4>1
      <4>2. QED
        BY <2>4, <4>1
    <3>4. QED
      BY <2>4, <3>1, <3>2, <3>3
  <2>9. /\ h2 \in Heaps /\ OneOver(h2) /\ Live(h2) = Live(w.h)
    BY <1>6, SyncedIs
  <2> HIDE DEF h2
  <2>10. MayHold(ms1, w.h, p, f, d, v, eo, h2)
    <3>1. Elements(f, v) \subseteq Live(h2) /\ Live(w.h) \subseteq Live(h2) /\ Live(h2) \ Live(w.h) = {}
      BY <1>3, <1>6, <2>8, <2>9 DEF v0
    <3>2. QED
      BY <1>1, <1>2, <1>8, <2>7, <2>9, <3>1, Zenon DEF MayHold
  <2>11. Good([ms1 EXCEPT ![p] = WithField(w.m, f, d, v, eo)], h2)
    BY <1>2, <2>10, SetField
  <2>12. Good([ms EXCEPT ![p] = WithField(w.m, f, d, v, w.m.eo)], h2)
    BY <1>7, <1>9, <2>11
  <2>13. QED
    BY <2>2, <2>6, <2>12 DEF d, v, h2, d0, v0
<1>11. ASSUME ReadsIntoLists, f \in RepeatedExtensions
       PROVE  Good([ms EXCEPT ![p] = WithField(w.m, f, w.m.data[f], Append(w.m.wrap[f], o), w.m.eo)],
                   w.h)
  <2> DEFINE d == w.m.data[f]
             v0 == w.m.wrap[f]
             v == Append(v0, o)
  <2>1. /\ d \in Seq(Arrays) /\ v0 \in Seq(Objs) /\ Len(d) <= Len(v0)
        /\ Len(v0) \in Nat /\ Len(d) \in Nat
    BY <1>4, <1>5
  <2> HIDE DEF d, v0
  <2>2. /\ v \in Seq(Objs) /\ Len(v) = Len(v0) + 1
        /\ \A k \in 1 .. Len(v0) + 1 : v[k] = IF k = Len(v0) + 1 THEN o ELSE v0[k]
    BY <1>2, <2>1
  <2> HIDE DEF v
  <2>3. v # Unset /\ Fit(f, d, v)
    <3>1. Len(d) <= Len(v) /\ v # Unset
      BY <2>1, <2>2, UnsetIsNothing
    <3>2. QED
      BY <1>11, <2>1, <2>2, <3>1, Zenon DEF Fit
  <2>4. Elements(f, v) \subseteq Elements(f, v0) \union {o}
    <3>1. Elements(f, v) = {v[k] : k \in 1..Len(v)}
      BY <2>2, ElementsOfList, UnsetIsNothing
    <3>2. \A k \in 1..Len(v0) : v0[k] \in Elements(f, v0)
      BY <2>1, ElementsOfList, UnsetIsNothing
    <3>3. \A k \in 1 .. Len(v0) + 1 : k # Len(v0) + 1 => k \in 1..Len(v0)
      BY <2>1
    <3>4. QED
      BY <2>2, <3>1, <3>2, <3>3
  <2>5. MayHold(ms1, w.h, p, f, d, v, eo, w.h)
    <3>1. Elements(f, v) \subseteq Live(w.h) /\ Live(w.h) \ Live(w.h) = {}
      BY <1>3, <1>6, <2>4 DEF v0
    <3>2. QED
      BY <1>1, <1>2, <1>6, <1>8, <2>3, <3>1, Zenon DEF MayHold
  <2>6. Good([ms1 EXCEPT ![p] = WithField(w.m, f, d, v, eo)], w.h)
    BY <1>2, <2>5, SetField
  <2>7. QED
    BY <1>7, <1>9, <2>6 DEF d, v, v0
<1>12. QED
  BY <1>1, <1>4, <1>5, <1>10, <1>11

-----------------------------------------------------------------------------
(* Copies *)

\* The message that becomes a copy of m, with an array of its own, by g, for each place.
CopyOf(m, g) ==
  [m EXCEPT !.wrap = [f \in Fields |-> Unset],
            !.data = [f \in Fields |->
              IF f \in Lists THEN [i \in DOMAIN @[f] |-> g[<<f, i>>]]
              ELSE IF @[f] = Unset THEN Unset ELSE g[<<f, 1>>]]]

CellsOf(m, g, h) ==
  [a \in Arrays |-> IF \E x \in DOMAIN g : g[x] = a
                      THEN h.cell[At(m, CHOOSE x \in DOMAIN g : g[x] = a)] ELSE h.cell[a]]

LEMMA OccurrencesAre ==
  ASSUME NEW m, WellFormed(m)
  PROVE  /\ \A f \in Fields \ Lists : m.data[f] # Unset <=> <<f, 1>> \in Occurrences(m)
         /\ \A f \in Lists : /\ m.data[f] \in Seq(Arrays)
                             /\ DOMAIN m.data[f] = 1..Len(m.data[f]) /\ Len(m.data[f]) \in Nat
                             /\ \A i \in 1..Len(m.data[f]) : <<f, i>> \in Occurrences(m)
         /\ \A x \in Occurrences(m) :
              /\ x[1] \in Fields /\ x = <<x[1], x[2]>>
              /\ IF x[1] \in Lists THEN x[2] \in 1..Len(m.data[x[1]])
                                   ELSE x[2] = 1 /\ m.data[x[1]] # Unset
<1>1. \A f \in Fields : Fit(f, m.data[f], m.wrap[f])
  BY DEF WellFormed
<1>2. \A f \in Lists : /\ m.data[f] \in Seq(Arrays)
                       /\ DOMAIN m.data[f] = 1..Len(m.data[f]) /\ Len(m.data[f]) \in Nat
  <2>1. \A f \in Lists : m.data[f] \in Seq(Arrays)
    BY <1>1, KindsOfFields DEF Fit
  <2>2. QED
    BY <2>1
<1> DEFINE Single == {<<f, 1>> : f \in {g \in Fields \ Lists : m.data[g] # Unset}}
           Listed == UNION {{f} \X DOMAIN m.data[f] : f \in Lists}
<1>3. Occurrences(m) = Single \union Listed
  BY DEF Occurrences
<1>4. \A f \in Lists : \A i \in 1..Len(m.data[f]) : <<f, i>> \in Listed
  BY <1>2
<1>5. \A f \in Fields \ Lists : m.data[f] # Unset => <<f, 1>> \in Single
  OBVIOUS
<1>6. \A x \in Single : /\ x[1] \in Fields \ Lists /\ x = <<x[1], x[2]>>
                        /\ x[2] = 1 /\ m.data[x[1]] # Unset
  OBVIOUS
<1>7. \A x \in Listed : /\ x[1] \in Lists /\ x = <<x[1], x[2]>>
                        /\ x[2] \in 1..Len(m.data[x[1]])
  BY <1>2
<1>8. ASSUME NEW f \in Fields \ Lists, <<f, 1>> \in Occurrences(m) PROVE m.data[f] # Unset
  <2>1. PICK x \in Single \union Listed : x = <<f, 1>>
    BY <1>3, <1>8
  <2>2. x[1] = f
    BY <2>1
  <2>3. QED
    BY <2>1, <2>2, <1>6, <1>7
<1> HIDE DEF Single, Listed
<1>9. \A x \in Occurrences(m) :
        /\ x[1] \in Fields /\ x = <<x[1], x[2]>>
        /\ IF x[1] \in Lists THEN x[2] \in 1..Len(m.data[x[1]])
                             ELSE x[2] = 1 /\ m.data[x[1]] # Unset
  BY <1>3, <1>6, <1>7, KindsOfFields
<1>10. QED
  BY <1>2, <1>3, <1>4, <1>5, <1>8, <1>9

\* The array at a place.
LEMMA AtIs ==
  ASSUME NEW m, WellFormed(m), NEW x \in Occurrences(m)
  PROVE  /\ At(m, x) \in Arrays /\ At(m, x) \in Elements(x[1], m.data[x[1]])
         /\ At(m, x) \in ArraysOf(m)
<1>1. x[1] \in Fields /\ Fit(x[1], m.data[x[1]], m.wrap[x[1]])
  BY OccurrencesAre DEF WellFormed
<1>2. At(m, x) \in Elements(x[1], m.data[x[1]])
  <2>1. CASE x[1] \in Lists
    <3>1. m.data[x[1]] \in Seq(Arrays) /\ x[2] \in 1..Len(m.data[x[1]])
      BY <2>1, OccurrencesAre
    <3>2. QED
      BY <2>1, <3>1, ElementsOfList, UnsetIsNothing DEF At
  <2>2. CASE x[1] \notin Lists
    BY <2>2, OccurrencesAre, ElementsOfOne DEF At
  <2>3. QED
    BY <2>1, <2>2
<1>3. QED
  BY <1>1, <1>2, WhatIsHeld DEF ArraysOf

LEMMA CopyOfIs ==
  ASSUME NEW m, WellFormed(m), NEW F, F \subseteq Arrays, NEW g \in Own(Occurrences(m), F)
  PROVE  /\ WellFormed(CopyOf(m, g)) /\ ObjsOf(CopyOf(m, g)) = {}
         /\ \A f \in Fields : CopyOf(m, g).wrap[f] = Unset
         /\ \A f \in Lists : /\ CopyOf(m, g).data[f] \in Seq(Arrays)
                             /\ Len(CopyOf(m, g).data[f]) = Len(m.data[f])
                             /\ \A i \in 1..Len(m.data[f]) : CopyOf(m, g).data[f][i] = g[<<f, i>>]
         /\ \A f \in Fields \ Lists : CopyOf(m, g).data[f] =
              IF m.data[f] = Unset THEN Unset ELSE g[<<f, 1>>]
         /\ \A f \in Fields : Elements(f, CopyOf(m, g).data[f]) \subseteq F
         /\ \A f, k \in Fields : \A a \in Elements(f, CopyOf(m, g).data[f]) :
              a \in Elements(k, CopyOf(m, g).data[k]) => f = k
<1> DEFINE new == CopyOf(m, g)
<1>1. /\ m \in Messages /\ m.eo \in BOOLEAN /\ HasEO(m)
      /\ \A f \in Fields : m.data[f] \in Data
      /\ Lists \subseteq Fields
  BY KindsOfFields DEF WellFormed, Messages
<1>2. /\ g \in [Occurrences(m) -> F]
      /\ \A x, y \in Occurrences(m) : g[x] = g[y] => x = y
  BY DEF Own
<1> DEFINE data == [f \in Fields |->
                      IF f \in Lists THEN [i \in DOMAIN m.data[f] |-> g[<<f, i>>]]
                      ELSE IF m.data[f] = Unset THEN Unset ELSE g[<<f, 1>>]]
           wrap == [f \in Fields |-> Unset]
<1>3. new = [data |-> data, wrap |-> wrap, eo |-> m.eo]
  <2>1. [m EXCEPT !.wrap = wrap] = [data |-> m.data, wrap |-> wrap, eo |-> m.eo]
    BY <1>1 DEF Messages
  <2>2. new = [[m EXCEPT !.wrap = wrap] EXCEPT !.data = data]
    BY <2>1 DEF CopyOf
  <2> HIDE DEF data, wrap
  <2>3. [[data |-> m.data, wrap |-> wrap, eo |-> m.eo] EXCEPT !.data = data]
          = [data |-> data, wrap |-> wrap, eo |-> m.eo]
    OBVIOUS
  <2>4. QED
    BY <2>1, <2>2, <2>3, Zenon
<1>4. \A f \in Lists : data[f] = [i \in 1..Len(m.data[f]) |-> g[<<f, i>>]]
  BY <1>1, OccurrencesAre
<1>5. \A f \in Fields \ Lists : data[f] = IF m.data[f] = Unset THEN Unset ELSE g[<<f, 1>>]
  OBVIOUS
<1>6. \A f \in Fields : wrap[f] = Unset
  OBVIOUS
<1>7. DOMAIN data = Fields /\ DOMAIN wrap = Fields
  OBVIOUS
<1>8. data = [f \in Fields |-> data[f]] /\ wrap = [f \in Fields |-> wrap[f]]
  OBVIOUS
<1> HIDE DEF data, wrap, new
<1>9. ASSUME NEW f \in Lists
      PROVE  /\ data[f] \in Seq(F) /\ data[f] \in Seq(Arrays) /\ Len(data[f]) = Len(m.data[f])
             /\ \A i \in 1..Len(m.data[f]) : data[f][i] = g[<<f, i>>] /\ data[f][i] \in F
             /\ Distinct(data[f])
  <2>1. /\ Len(m.data[f]) \in Nat
        /\ \A i \in 1..Len(m.data[f]) : <<f, i>> \in Occurrences(m)
    BY OccurrencesAre
  <2>2. \A i \in 1..Len(m.data[f]) : g[<<f, i>>] \in F
    BY <1>2, <2>1
  <2>3. data[f] \in [1..Len(m.data[f]) -> F]
    BY <1>4, <2>2
  <2>4. data[f] \in Seq(F) /\ Len(data[f]) = Len(m.data[f])
    BY <2>1, <2>3
  <2>5. data[f] \in Seq(Arrays)
    BY <2>4
  <2>6. Distinct(data[f])
    <3>1. ASSUME NEW i \in 1..Len(m.data[f]), NEW j \in 1..Len(m.data[f]), data[f][i] = data[f][j]
          PROVE  i = j
      <4>1. g[<<f, i>>] = g[<<f, j>>]
        BY <1>4, <3>1, ZenonT(40)
      <4>2. <<f, i>> = <<f, j>>
        BY <1>2, <2>1, <4>1
      <4>3. QED
        BY <4>2
    <3>2. QED
      BY <2>3, <3>1 DEF Distinct
  <2>7. QED
    <3>1. \A i \in 1..Len(m.data[f]) : data[f][i] = g[<<f, i>>] /\ data[f][i] \in F
      <4>1. data[f] = [i \in 1..Len(m.data[f]) |-> g[<<f, i>>]]
        BY <1>4
      <4>2. QED
        BY <2>2, <4>1
    <3>2. QED
      BY <2>4, <2>5, <2>6, <3>1, Zenon
<1>10. ASSUME NEW f \in Fields \ Lists, m.data[f] # Unset
       PROVE  data[f] = g[<<f, 1>>] /\ data[f] \in F
  <2>1. <<f, 1>> \in Occurrences(m)
    BY <1>10, OccurrencesAre
  <2>2. QED
    BY <1>2, <1>5, <1>10, <2>1
<1>11. ASSUME NEW f \in Fields PROVE Fit(f, data[f], Unset)
  <2>1. CASE f \in Lists
    BY <1>9, <2>1 DEF Fit
  <2>2. CASE f \notin Lists
    BY <1>5, <1>10, <2>2 DEF Fit
  <2>3. QED
    BY <2>1, <2>2
<1>12. new \in Messages
  <2>1. data \in [Fields -> Data]
    <3>1. \A f \in Fields : data[f] \in Data
      BY <1>11 DEF Fit, Data
    <3>2. QED
      BY <1>8, <3>1
  <2>2. wrap \in [Fields -> Wrap]
    <3>1. \A f \in Fields : wrap[f] \in Wrap
      BY <1>6 DEF Wrap
    <3>2. QED
      BY <1>8, <3>1
  <2>3. QED
    BY <1>1, <1>3, <2>1, <2>2 DEF Messages
\* Where an array of the copy is.
<1>13. ASSUME NEW f \in Fields, NEW a \in Elements(f, data[f])
       PROVE  a \in F /\ \E x \in Occurrences(m) : x[1] = f /\ a = g[x]
  <2>1. CASE f \in Lists
    <3>1. PICK i \in 1..Len(m.data[f]) : a = data[f][i]
      <4>1. data[f] \in Seq(Arrays) /\ Len(data[f]) = Len(m.data[f])
        BY <1>9, <2>1
      <4>2. Elements(f, data[f]) = {data[f][i] : i \in 1..Len(data[f])}
        BY <2>1, <4>1, ElementsOfList, UnsetIsNothing
      <4>3. QED
        BY <4>1, <4>2
    <3>2. <<f, i>> \in Occurrences(m) /\ <<f, i>>[1] = f
      BY <2>1, OccurrencesAre
    <3>3. a = g[<<f, i>>] /\ a \in F
      BY <1>9, <2>1, <3>1
    <3>4. QED
      BY <3>2, <3>3
  <2>2. CASE f \notin Lists
    <3>1. data[f] # Unset /\ a = data[f]
      BY <1>13, <2>2, ElementsOfOne
    <3>2. m.data[f] # Unset
      BY <1>5, <2>2, <3>1
    <3>3. <<f, 1>> \in Occurrences(m) /\ <<f, 1>>[1] = f
      BY <2>2, <3>2, OccurrencesAre
    <3>4. QED
      BY <1>10, <2>2, <3>1, <3>2, <3>3
  <2>3. QED
    BY <2>1, <2>2
<1>14. ASSUME NEW f \in Fields, NEW k \in Fields, NEW a \in Elements(f, data[f]),
              a \in Elements(k, data[k])
       PROVE  f = k
  <2>1. PICK x \in Occurrences(m) : x[1] = f /\ a = g[x]
    BY <1>13
  <2>2. PICK y \in Occurrences(m) : y[1] = k /\ a = g[y]
    BY <1>13, <1>14
  <2>3. QED
    BY <1>2, <2>1, <2>2
<1>15. HasEO(new)
  <2>1. ASSUME NEW f \in InEO, Elements(f, new.data[f]) # {} \/ new.wrap[f] # Unset PROVE new.eo
    <3>1. f \in Fields /\ new.wrap[f] = Unset /\ new.data[f] = data[f]
      BY <1>3, <1>6, KindsOfFields DEF InEO
    <3>2. PICK a \in Elements(f, data[f]) : TRUE
      BY <2>1, <3>1
    <3>3. PICK x \in Occurrences(m) : x[1] = f
      BY <1>13, <3>1
    <3>4. Elements(f, m.data[f]) # {}
      BY <3>3, AtIs
    <3>5. QED
      BY <1>1, <1>3, <3>4 DEF HasEO
  <2>2. QED
    BY <2>1 DEF HasEO
<1>16. WellFormed(new)
  BY <1>3, <1>6, <1>11, <1>12, <1>15 DEF WellFormed
<1>17. ObjsOf(new) = {}
  BY <1>3, <1>6, ElementsOfNone DEF ObjsOf
<1>18. QED
  BY <1>3, <1>5, <1>6, <1>9, <1>13, <1>14, <1>16, <1>17 DEF new

LEMMA HeapWith ==
  ASSUME NEW h \in Heaps, NEW o \in Live(h), NEW v \in Vals \union {NoMap},
         NEW c \in [Arrays -> Vals]
  PROVE  /\ [h EXCEPT !.obj[o] = v] \in Heaps /\ Live([h EXCEPT !.obj[o] = v]) = Live(h)
         /\ [h EXCEPT !.cell = c] \in Heaps /\ Live([h EXCEPT !.cell = c]) = Live(h)
         /\ [h EXCEPT !.cell = c].obj = h.obj
<1>1. v # NoObj /\ o \in Objs
  BY NoMapIsNoObject DEF Live
<1>2. [h EXCEPT !.obj[o] = v] \in Heaps
  BY <1>1 DEF Heaps
<1>3. \A x \in Objs : [h EXCEPT !.obj[o] = v].obj[x] = IF x = o THEN v ELSE h.obj[x]
  BY <1>1 DEF Heaps
<1>4. Live([h EXCEPT !.obj[o] = v]) = Live(h)
  BY <1>1, <1>3 DEF Live
<1>5. [h EXCEPT !.cell = c] \in Heaps /\ [h EXCEPT !.cell = c].obj = h.obj
  BY DEF Heaps
<1>6. QED
  BY <1>2, <1>4, <1>5 DEF Live

\* Children change, but none comes or goes.
LEMMA SameObjects ==
  ASSUME NEW ms, NEW h, Good(ms, h), NEW h2 \in Heaps, Live(h2) = Live(h)
  PROVE  Good(ms, h2)
<1>1. OneOver(h2)
  BY DEF Good, OneOver
<1>2. Live(h2) \ Live(h) = {} /\ Live(h) \subseteq Live(h2)
  OBVIOUS
<1>3. QED
  BY <1>1, <1>2, OtherChildren

\* What a copy leaves, its children by g.
LEMMA CopiedIs ==
  ASSUME WrappersInv, NEW p \in Parents, NEW q \in Parents, NEW S, S \subseteq LiveObjs,
         NEW g \in Own(Occurrences(msg[p]), FreeArrays)
  PROVE  LET h == Synced(heap, ObjsOf(msg[p]))
             h2 == Synced([h EXCEPT !.cell = CellsOf(msg[p], g, h)], S)
         IN  /\ Good([msg EXCEPT ![q] = CopyOf(msg[p], g)], h2)
             /\ CellsOf(msg[p], g, h) \in [Arrays -> Vals]
             /\ h \in Heaps /\ Live(h) = LiveObjs /\ h.obj = obj
             /\ Live(h2) = LiveObjs /\ h2.obj = obj
<1> DEFINE m == msg[p]
           h == Synced(heap, ObjsOf(m))
           cells == CellsOf(m, g, h)
           h1 == [h EXCEPT !.cell = cells]
           h2 == Synced(h1, S)
           new == CopyOf(m, g)
           ms == [msg EXCEPT ![q] = new]
<1>1. /\ Good(msg, heap) /\ WellFormed(m) /\ heap \in Heaps /\ ObjsOf(m) \subseteq Live(heap)
      /\ msg \in [Parents -> Messages]
  BY MessageParts DEF WrappersInv, Good
<1>2. h \in Heaps /\ h.obj = obj /\ Live(h) = LiveObjs
  BY <1>1, SyncedIs, LiveIs
<1> HIDE DEF h
<1>3. FreeArrays \subseteq Arrays
  BY DEF FreeArrays
<1>4. DOMAIN g = Occurrences(m)
  BY DEF Own
<1>5. cells \in [Arrays -> Vals]
  <2>1. ASSUME NEW a \in Arrays PROVE cells[a] \in Vals
    <3>1. CASE \E x \in DOMAIN g : g[x] = a
      <4> DEFINE x == CHOOSE x \in DOMAIN g : g[x] = a
      <4>1. x \in Occurrences(m)
        BY <3>1, <1>4
      <4> HIDE DEF x
      <4>2. At(m, x) \in Arrays
        BY <1>1, <4>1, AtIs
      <4>3. h.cell[At(m, x)] \in Vals
        BY <1>2, <4>2 DEF Heaps
      <4>4. QED
        BY <3>1, <4>3 DEF x, CellsOf
    <3>2. CASE ~ \E x \in DOMAIN g : g[x] = a
      BY <1>2, <3>2 DEF CellsOf, Heaps
    <3>3. QED
      BY <3>1, <3>2
  <2>2. QED
    BY <2>1 DEF CellsOf
<1> HIDE DEF cells
<1>6. h1 \in Heaps /\ Live(h1) = LiveObjs /\ h1.obj = obj
  <2>1. h1 \in Heaps /\ h1.obj = obj
    BY <1>2, <1>5 DEF Heaps
  <2>2. QED
    BY <2>1 DEF Live, LiveObjs
<1> HIDE DEF h1
<1>7. h2 \in Heaps /\ Live(h2) = LiveObjs /\ h2.obj = obj
  BY <1>6, SyncedIs
<1> HIDE DEF h2
<1>8. Good(msg, h2)
  BY <1>1, <1>7, LiveIs, SameObjects
<1>9. /\ WellFormed(new) /\ ObjsOf(new) = {}
      /\ \A f \in Fields : Bare(new, f) \subseteq FreeArrays
      /\ \A f, k \in Fields : \A a \in Bare(new, f) : a \in Bare(new, k) => f = k
  <2>1. WellFormed(new) /\ ObjsOf(new) = {}
    BY <1>1, <1>3, CopyOfIs
  <2>2. \A f \in Fields : Elements(f, new.data[f]) \subseteq FreeArrays
    BY <1>1, <1>3, CopyOfIs
  <2>3. \A f, k \in Fields : \A a \in Elements(f, new.data[f]) : a \in Elements(k, new.data[k]) => f = k
    BY <1>1, <1>3, CopyOfIs, SMTT(30)
  <2> HIDE DEF new
  <2>4. QED
    BY <2>1, <2>2, <2>3 DEF Bare
<1> HIDE DEF new
<1>10. /\ ms \in [Parents -> Messages] /\ ms[q] = new
       /\ \A r \in Parents : r # q => ms[r] = msg[r]
  BY <1>1, <1>9 DEF WellFormed
<1> HIDE DEF ms
<1>11. \A r \in Parents : WellFormed(ms[r]) /\ ObjsOf(ms[r]) \subseteq Live(h2)
  BY <1>8, <1>9, <1>10 DEF Good
<1>12. \A r \in Parents : r # q =>
         \A f \in Fields, a \in FreeArrays : Bare(ms[r], f) = Bare(msg[r], f) /\ a \notin Bare(ms[r], f)
  BY <1>10, FreeArraysAre, BareIsHeld
<1>13. BareIsAlone(ms, h2)
  <2>1. ASSUME NEW r \in Parents, NEW f \in Fields, NEW o \in Live(h2)
        PROVE  ArrayOf[o] \notin Bare(ms[r], f)
    <3>1. CASE r = q
      BY <1>7, <1>9, <1>10, <3>1, FreeArraysAre
    <3>2. CASE r # q
      BY <1>8, <1>10, <3>2 DEF Good, BareIsAlone
    <3>3. QED
      BY <3>1, <3>2
  <2>2. ASSUME NEW r \in Parents, NEW t \in Parents, NEW f \in Fields, NEW k \in Fields,
               NEW a \in Bare(ms[r], f), a \in Bare(ms[t], k)
        PROVE  r = t /\ f = k
    <3>1. CASE r = q /\ t = q
      BY <1>9, <1>10, <2>2, <3>1
    <3>2. CASE r # q /\ t # q
      BY <1>8, <1>10, <2>2, <3>2 DEF Good, BareIsAlone
    <3>3. CASE r = q /\ t # q
      <4>1. a \in FreeArrays
        BY <1>9, <1>10, <3>3
      <4>2. QED
        BY <1>12, <2>2, <3>3, <4>1
    <3>4. CASE r # q /\ t = q
      <4>1. a \in FreeArrays
        BY <1>9, <1>10, <2>2, <3>4
      <4>2. QED
        BY <1>12, <2>2, <3>4, <4>1
    <3>5. QED
      BY <3>1, <3>2, <3>3, <3>4
  <2>3. QED
    BY <2>1, <2>2 DEF BareIsAlone
<1>14. Good(ms, h2)
  BY <1>7, <1>8, <1>10, <1>11, <1>13 DEF Good
<1>15. QED
  BY <1>2, <1>5, <1>7, <1>14 DEF m, h, cells, h1, h2, new, ms

LEMMA CopyToStep ==
  ASSUME WrappersInv, NEW p \in Parents, NEW q \in Parents, NEW S, S \subseteq LiveObjs,
         CopyTo(p, q, S)
  PROVE  WrappersInv'
<1>1. PICK g \in Own(Occurrences(msg[p]), FreeArrays) :
        LET h == Synced(heap, ObjsOf(msg[p]))
        IN  Become([msg EXCEPT ![q] = CopyOf(msg[p], g)],
                   Synced([h EXCEPT !.cell = CellsOf(msg[p], g, h)], S))
  BY OneOfIs DEF CopyTo, ArrayToClone, SyncedBy, CopyOf, CellsOf
<1>2. QED
  BY <1>1, CopiedIs, BecomeKeeps

-----------------------------------------------------------------------------
(* The calls *)

LEMMA GetWrapperFieldStep ==
  ASSUME WrappersInv, NEW p \in Parents, NEW f \in Fields \ Lists, f \in InEO => msg[p].eo,
         GetWrapperField(p, f)
  PROVE  WrappersInv'
BY GetWrapperFieldKeeps, BecomeKeeps DEF GetWrapperField

LEMMA GetRepeatedWrapperFieldStep ==
  ASSUME WrappersInv, NEW p \in Parents, NEW f \in Lists, f \in InEO => msg[p].eo,
         GetRepeatedWrapperField(p, f)
  PROVE  WrappersInv'
<1>1. PICK w \in WrapRepeatedField(msg[p], heap, f) : Become([msg EXCEPT ![p] = w.m], w.h)
  BY DEF GetRepeatedWrapperField
<1>2. QED
  BY <1>1, Wrapping, BecomeKeeps DEF WrappersInv

LEMMA GetExtensionStep ==
  ASSUME WrappersInv, NEW p \in Parents, NEW f \in InEO, GetExtension(p, f)
  PROVE  WrappersInv'
<1>1. CASE f \in RepeatedExtensions
  BY <1>1, GetRepeatedWrapperFieldStep, KindsOfFields DEF GetExtension
<1>2. CASE f \notin RepeatedExtensions
  <2>1. f \in Fields \ Lists
    BY <1>2, KindsOfFields DEF InEO
  <2>2. QED
    BY <1>2, <2>1, GetWrapperFieldStep DEF GetExtension
<1>3. QED
  BY <1>1, <1>2

\* What a setter may be given: a child, a list of children, or nothing.
Given(f, v, h) ==
  /\ f \in Lists => v \in Seq(Objs)
  /\ f \notin Lists => v \in Objs \union {Unset}
  /\ Elements(f, v) \subseteq Live(h)

LEMMA NothingIsGiven ==
  ASSUME NEW f, NEW h
  PROVE  (f \notin Lists => Given(f, Unset, h)) /\ (f \in Lists => Given(f, <<>>, h))
BY ElementsOfNone DEF Given

LEMMA ChildIsGiven ==
  ASSUME NEW f, NEW h, NEW o \in Live(h)
  PROVE  (f \notin Lists => Given(f, o, h)) /\ (f \in Lists => Given(f, <<o>>, h))
<1>1. o \in Objs /\ o # Unset
  BY UnsetIsNothing DEF Live
<1>2. CASE f \notin Lists
  BY <1>1, <1>2, ElementsOfOne DEF Given
<1>3. CASE f \in Lists
  <2>1. <<o>> \in Seq(Objs) /\ Len(<<o>>) = 1 /\ <<o>>[1] = o
    BY <1>1
  <2>2. Elements(f, <<o>>) = {o}
    <3>1. <<o>> # Unset
      BY <2>1, UnsetIsNothing
    <3>2. Range(<<o>>) = {o}
      <4>1. DOMAIN <<o>> = 1..1
        OBVIOUS
      <4>2. Range(<<o>>) = {<<o>>[i] : i \in 1..1}
        BY <4>1 DEF Range
      <4>3. \A i \in 1..1 : <<o>>[i] = o
        OBVIOUS
      <4>4. QED
        BY <4>2, <4>3
    <3>3. QED
      BY <1>3, <3>1, <3>2 DEF Elements
  <2>3. QED
    BY <1>3, <2>1, <2>2 DEF Given
<1>4. QED
  BY <1>2, <1>3

LEMMA EOIsBoolean ==
  ASSUME NEW ms, NEW h, Good(ms, h), NEW p \in Parents
  PROVE  ms[p].eo \in BOOLEAN /\ ms \in [Parents -> Messages]
BY MessageParts DEF Messages, Good

\* A setter keeps the extension object as it is, or makes one.
LEMMA StoreKeeps ==
  ASSUME NEW ms, NEW h, Good(ms, h), NEW p \in Parents, NEW f \in Fields, NEW v, Given(f, v, h)
  PROVE  /\ f \notin InEO => /\ Stored(ms[p], h, f, v).m
                                  = WithField(ms[p], f, Each(f, v, ArrayOf), v, ms[p].eo)
                             /\ Good([ms EXCEPT ![p] = Stored(ms[p], h, f, v).m],
                                     Stored(ms[p], h, f, v).h)
         /\ [Stored(ms[p], h, f, v).m EXCEPT !.eo = TRUE]
              = WithField(ms[p], f, Each(f, v, ArrayOf), v, TRUE)
         /\ Good([ms EXCEPT ![p] = [Stored(ms[p], h, f, v).m EXCEPT !.eo = TRUE]],
                 Stored(ms[p], h, f, v).h)
<1>1. /\ [Stored(ms[p], h, f, v).m EXCEPT !.eo = TRUE]
           = WithField(ms[p], f, Each(f, v, ArrayOf), v, TRUE)
      /\ Good([ms EXCEPT ![p] = WithField(ms[p], f, Each(f, v, ArrayOf), v, TRUE)],
              Stored(ms[p], h, f, v).h)
  BY StoredKeeps DEF Given
<1>2. ASSUME f \notin InEO
      PROVE  /\ Stored(ms[p], h, f, v).m
                  = WithField(ms[p], f, Each(f, v, ArrayOf), v, ms[p].eo)
             /\ Good([ms EXCEPT ![p] = Stored(ms[p], h, f, v).m], Stored(ms[p], h, f, v).h)
  <2>1. PICK eo \in BOOLEAN : eo = ms[p].eo
    BY EOIsBoolean
  <2>2. ms[p].eo => eo
    BY <2>1
  <2>3. Good([ms EXCEPT ![p] = WithField(ms[p], f, Each(f, v, ArrayOf), v, eo)],
             Stored(ms[p], h, f, v).h)
    BY <1>2, <2>2, StoredKeeps DEF Given
  <2>4. Stored(ms[p], h, f, v).m = WithField(ms[p], f, Each(f, v, ArrayOf), v, ms[p].eo)
    BY MessageParts, MessageWith DEF Stored
  <2>5. QED
    BY <2>1, <2>3, <2>4
<1>3. QED
  BY <1>1, <1>2

LEMMA SetStep ==
  ASSUME WrappersInv, NEW p \in Parents, NEW f \in Fields \ InEO, NEW h, Good(msg, h),
         NEW v, Given(f, v, h), SetWrapperField(p, f, v, h) \/ SetRepeatedWrapperField(p, f, v, h)
  PROVE  WrappersInv'
<1>1. Become([msg EXCEPT ![p] = Stored(msg[p], h, f, v).m], Stored(msg[p], h, f, v).h)
  BY DEF SetWrapperField, SetRepeatedWrapperField
<1>2. QED
  BY <1>1, StoreKeeps, BecomeKeeps

LEMMA SetExtensionStep ==
  ASSUME WrappersInv, NEW p \in Parents, NEW f \in InEO, NEW h, Good(msg, h),
         NEW v, Given(f, v, h), SetExtension(p, f, v, h)
  PROVE  WrappersInv'
<1>1. Become([msg EXCEPT ![p] = [Stored(msg[p], h, f, v).m EXCEPT !.eo = TRUE]],
             Stored(msg[p], h, f, v).h)
  BY DEF SetExtension
<1>2. f \in Fields
  BY KindsOfFields DEF InEO
<1>3. QED
  BY <1>1, <1>2, StoreKeeps, BecomeKeeps

LEMMA SetOneofStep ==
  ASSUME WrappersInv, NEW p \in Parents, NEW f \in Oneof, NEW h, Good(msg, h),
         NEW v, Given(f, v, h), NEW undefined, SetOneofWrapperField(p, f, v, h, undefined)
  PROVE  WrappersInv'
<1> DEFINE m == IF undefined THEN msg[p] ELSE OthersCleared(msg[p], f)
           ms == [msg EXCEPT ![p] = m]
<1>1. Become([msg EXCEPT ![p] = Stored(m, h, f, v).m], Stored(m, h, f, v).h)
  BY DEF SetOneofWrapperField
<1>2. msg \in [Parents -> Messages] /\ f \in Fields /\ f \notin InEO
  BY EOIsBoolean, KindsOfFields
<1>3. Good(ms, h)
  <2>1. CASE undefined
    <3>1. ms = msg
      BY <1>2, <2>1
    <3>2. QED
      BY <3>1
  <2>2. CASE ~undefined
    BY <2>2, OthersClearedKeeps
  <2>3. QED
    BY <2>1, <2>2
<1>4. ms[p] = m /\ \A x : [ms EXCEPT ![p] = x] = [msg EXCEPT ![p] = x]
  BY <1>2
<1> HIDE DEF ms, m
<1>5. Good([ms EXCEPT ![p] = Stored(m, h, f, v).m], Stored(m, h, f, v).h)
  BY <1>2, <1>3, <1>4, StoreKeeps
<1>6. Good([msg EXCEPT ![p] = Stored(m, h, f, v).m], Stored(m, h, f, v).h)
  BY <1>4, <1>5
<1>7. QED
  BY <1>1, <1>6, BecomeKeeps

LEMMA GoodOne ==
  ASSUME NEW ms \in [Parents -> Messages], NEW p \in Parents, NEW m, NEW h,
         Good([ms EXCEPT ![p] = m], h)
  PROVE  m \in Messages
<1>1. [ms EXCEPT ![p] = m][p] = m
  OBVIOUS
<1>2. QED
  BY <1>1, MessageParts

LEMMA AddToRepeatedStep ==
  ASSUME WrappersInv, NEW p \in Parents, NEW f \in Repeated, NEW h, Good(msg, h),
         NEW o \in Live(h), NEW i \in 0..Len(msg[p].data[f]),
         AddToRepeatedWrapperField(p, f, i, o, h)
  PROVE  WrappersInv'
<1>1. PICK w \in WrapRepeatedField(msg[p], h, f) :
        Become([msg EXCEPT ![p] = [w.m EXCEPT !.wrap[f] = InsertAt(@, i + 1, o),
                                              !.data[f] = InsertAt(@, i + 1, ArrayOf[o])]],
               Synced(w.h, {o}))
  BY DEF AddToRepeatedWrapperField
<1>2. f \in Lists /\ f \notin InEO /\ f \in Fields
  BY KindsOfFields
<1> DEFINE d == InsertAt(w.m.data[f], i + 1, ArrayOf[o])
           v == InsertAt(w.m.wrap[f], i + 1, o)
<1>3. Good([msg EXCEPT ![p] = WithField(w.m, f, d, v, w.m.eo)], Synced(w.h, {o}))
  BY <1>2, IntoListKeeps
<1>4. w.m \in Messages
  <2>1. Good([msg EXCEPT ![p] = w.m], w.h)
    BY <1>2, Wrapping
  <2>2. msg \in [Parents -> Messages]
    BY EOIsBoolean
  <2>3. QED
    BY <2>1, <2>2, GoodOne
<1>5. [w.m EXCEPT !.wrap[f] = InsertAt(@, i + 1, o), !.data[f] = InsertAt(@, i + 1, ArrayOf[o])]
        = [w.m EXCEPT !.wrap[f] = v, !.data[f] = d]
  <2>1. [w.m EXCEPT !.wrap[f] = v] = [data |-> w.m.data, wrap |-> [w.m.wrap EXCEPT ![f] = v], eo |-> w.m.eo]
    BY <1>4 DEF Messages
  <2> HIDE DEF v
  <2>2. [w.m EXCEPT !.wrap[f] = v].data[f] = w.m.data[f]
    BY <2>1
  <2>3. QED
    BY <2>2 DEF v, d
<1>6. Become([msg EXCEPT ![p] = [w.m EXCEPT !.wrap[f] = v, !.data[f] = d]], Synced(w.h, {o}))
  BY <1>1, <1>5
<1> HIDE DEF d, v
<1>7. [w.m EXCEPT !.wrap[f] = v, !.data[f] = d] = WithField(w.m, f, d, v, w.m.eo)
  BY <1>2, <1>4, MessageWith
<1>8. Become([msg EXCEPT ![p] = WithField(w.m, f, d, v, w.m.eo)], Synced(w.h, {o}))
  BY <1>6, <1>7
<1>9. QED
  BY <1>3, <1>8, BecomeKeeps

LEMMA ReadBinaryExtensionStep ==
  ASSUME WrappersInv, NEW p \in Parents, NEW f \in InEO, NEW h, Good(msg, h),
         NEW o \in Live(h), ReadBinaryExtension(p, f, o, h)
  PROVE  WrappersInv'
<1>1. CASE f \in Extensions
  <2>1. SetExtension(p, f, o, h) /\ Given(f, o, h)
    BY <1>1, KindsOfFields, ChildIsGiven DEF ReadBinaryExtension
  <2>2. QED
    BY <2>1, SetExtensionStep
<1>2. CASE f \notin Extensions
  <2>1. f \in RepeatedExtensions /\ f \in Lists /\ f \in Fields
    BY <1>2, KindsOfFields DEF InEO
  <2>2. CASE ~msg[p].eo
    <3>1. SetExtension(p, f, <<o>>, h) /\ Given(f, <<o>>, h)
      BY <1>2, <2>1, <2>2, ChildIsGiven DEF ReadBinaryExtension
    <3>2. QED
      BY <3>1, SetExtensionStep
  <2>3. CASE msg[p].eo
    <3>1. /\ ReadsIntoLists
          /\ \E w \in WrapRepeatedField(msg[p], h, f) :
               Become([msg EXCEPT ![p] = [w.m EXCEPT !.wrap[f] = Append(@, o)]], w.h)
      BY <1>2, <2>3 DEF ReadBinaryExtension
    <3>2. PICK w \in WrapRepeatedField(msg[p], h, f) :
            Become([msg EXCEPT ![p] = [w.m EXCEPT !.wrap[f] = Append(@, o)]], w.h)
      BY <3>1
    <3> DEFINE v == Append(w.m.wrap[f], o)
    <3>3. Good([msg EXCEPT ![p] = WithField(w.m, f, w.m.data[f], v, w.m.eo)], w.h)
      BY <2>1, <2>3, <3>1, IntoListKeeps
    <3>4. w.m \in Messages
      <4>1. Good([msg EXCEPT ![p] = w.m], w.h)
        BY <2>1, <2>3, Wrapping
      <4>2. msg \in [Parents -> Messages]
        BY EOIsBoolean
      <4>3. QED
        BY <4>1, <4>2, GoodOne
    <3>5. [w.m EXCEPT !.wrap[f] = v] = WithField(w.m, f, w.m.data[f], v, w.m.eo)
      <4> HIDE DEF v
      <4>1. QED
        BY <3>4 DEF Messages, WithField
    <3>6. Become([msg EXCEPT ![p] = WithField(w.m, f, w.m.data[f], v, w.m.eo)], w.h)
      BY <3>2, <3>5
    <3>7. QED
      BY <3>3, <3>6, BecomeKeeps
  <2>4. QED
    BY <2>2, <2>3
<1>3. QED
  BY <1>1, <1>2

\* Calls on a child.
LEMMA ChildStep ==
  ASSUME WrappersInv, NEW o \in LiveObjs, CallOnChild(o)
  PROVE  WrappersInv'
<1>1. /\ Good(msg, heap) /\ heap \in Heaps /\ Live(heap) = LiveObjs
      /\ cell \in [Arrays -> Vals] /\ ArrayOf[o] \in Arrays
  BY LiveIs, ArrayOfType DEF WrappersInv, Good, Heaps
<1>2. ASSUME NEW v \in Vals, Become(msg, [heap EXCEPT !.obj[o] = v]) PROVE WrappersInv'
  <2>1. [heap EXCEPT !.obj[o] = v] \in Heaps /\ Live([heap EXCEPT !.obj[o] = v]) = Live(heap)
    BY <1>1, HeapWith
  <2>2. QED
    BY <1>1, <1>2, <2>1, SameObjects, BecomeKeeps
<1>3. CASE GetMapField(o)
  BY <1>1, <1>2, <1>3 DEF GetMapField
<1>4. CASE \E v \in Vals : EditMap(o, v)
  BY <1>2, <1>4 DEF EditMap
<1>5. CASE ToArrayOfChild(o)
  BY <1>1, <1>5, SyncedKeeps, BecomeKeeps DEF ToArrayOfChild
<1>6. CASE \E x \in LiveObjs \ {o} : CopyIntoChild(x, o)
  <2>1. PICK x \in LiveObjs : CopyIntoChild(x, o)
    BY <1>6
  <2> DEFINE h == Synced(heap, {x, o})
             cells == [h.cell EXCEPT ![ArrayOf[o]] = h.cell[ArrayOf[x]]]
  <2>2. h \in Heaps /\ Live(h) = LiveObjs
    BY <1>1, SyncedIs
  <2>3. Become(msg, [[h EXCEPT !.cell = cells] EXCEPT !.obj[o] = NoMap])
    BY <2>1 DEF CopyIntoChild
  <2> HIDE DEF h
  <2>4. cells \in [Arrays -> Vals]
    <3>1. ArrayOf[x] \in Arrays /\ h.cell \in [Arrays -> Vals]
      BY <2>1, <2>2, LiveIs, ArrayOfType DEF Heaps
    <3>2. QED
      BY <1>1, <3>1
  <2> HIDE DEF cells
  <2> DEFINE h1 == [h EXCEPT !.cell = cells]
  <2>5. h1 \in Heaps /\ Live(h1) = LiveObjs
    BY <2>2, <2>4, HeapWith
  <2> HIDE DEF h1
  <2>6. [h1 EXCEPT !.obj[o] = NoMap] \in Heaps /\ Live([h1 EXCEPT !.obj[o] = NoMap]) = LiveObjs
    BY <1>1, <2>5, HeapWith, ZenonT(40)
  <2>7. Become(msg, [h1 EXCEPT !.obj[o] = NoMap])
    BY <2>3 DEF h1
  <2>8. QED
    BY <1>1, <2>6, <2>7, SameObjects, BecomeKeeps
<1>7. QED
  BY <1>3, <1>4, <1>5, <1>6 DEF CallOnChild

\* Calls on a field of a message.
LEMMA FieldStep ==
  ASSUME WrappersInv, NEW p \in Parents, NEW f \in Fields, CallOnField(p, f)
  PROVE  WrappersInv'
<1>1. Good(msg, heap)
  BY DEF WrappersInv
<1>2. CASE f \in Singular \union Oneof /\ GetWrapperField(p, f)
  BY <1>2, KindsOfFields, GetWrapperFieldStep
<1>3. CASE f \in Repeated /\ GetRepeatedWrapperField(p, f)
  BY <1>3, KindsOfFields, GetRepeatedWrapperFieldStep
<1>4. CASE f \in InEO /\ GetExtension(p, f)
  BY <1>4, GetExtensionStep
<1>5. CASE f \in Singular /\ SetWrapperField(p, f, Unset, heap)
  BY <1>1, <1>5, KindsOfFields, NothingIsGiven, SetStep
<1>6. CASE f \in Oneof /\ \E undefined \in BOOLEAN : SetOneofWrapperField(p, f, Unset, heap, undefined)
  BY <1>1, <1>6, KindsOfFields, NothingIsGiven, SetOneofStep
<1>7. CASE f \in Repeated /\ SetRepeatedWrapperField(p, f, <<>>, heap)
  BY <1>1, <1>7, KindsOfFields, NothingIsGiven, SetStep
<1>8. CASE f \in Extensions /\ SetExtension(p, f, Unset, heap)
  BY <1>1, <1>8, KindsOfFields, NothingIsGiven, SetExtensionStep
<1>9. CASE f \in RepeatedExtensions /\ SetExtension(p, f, <<>>, heap)
  BY <1>1, <1>9, KindsOfFields, NothingIsGiven, SetExtensionStep
<1>10. ASSUME NEW c \in Children,
              \/ f \in Singular /\ SetWrapperField(p, f, c.o, c.h)
              \/ f \in Oneof /\ SetOneofWrapperField(p, f, c.o, c.h, FALSE)
              \/ f \in Repeated /\ SetRepeatedWrapperField(p, f, <<c.o>>, c.h)
              \/ f \in Repeated /\ \E i \in 0..Len(msg[p].data[f]) :
                   AddToRepeatedWrapperField(p, f, i, c.o, c.h)
              \/ f \in Extensions /\ SetExtension(p, f, c.o, c.h)
              \/ f \in RepeatedExtensions /\ SetExtension(p, f, <<c.o>>, c.h)
       PROVE  WrappersInv'
  <2>1. /\ Good(msg, c.h) /\ c.o \in Live(c.h)
        /\ f \notin Lists => Given(f, c.o, c.h)
        /\ f \in Lists => Given(f, <<c.o>>, c.h)
    BY ChildIs, ChildIsGiven
  <2>2. CASE f \in Singular /\ SetWrapperField(p, f, c.o, c.h)
    BY <2>1, <2>2, KindsOfFields, SetStep
  <2>3. CASE f \in Oneof /\ SetOneofWrapperField(p, f, c.o, c.h, FALSE)
    BY <2>1, <2>3, KindsOfFields, SetOneofStep
  <2>4. CASE f \in Repeated /\ SetRepeatedWrapperField(p, f, <<c.o>>, c.h)
    BY <2>1, <2>4, KindsOfFields, SetStep
  <2>5. CASE f \in Repeated /\ \E i \in 0..Len(msg[p].data[f]) :
               AddToRepeatedWrapperField(p, f, i, c.o, c.h)
    BY <2>1, <2>5, AddToRepeatedStep
  <2>6. CASE f \in Extensions /\ SetExtension(p, f, c.o, c.h)
    BY <2>1, <2>6, KindsOfFields, SetExtensionStep
  <2>7. CASE f \in RepeatedExtensions /\ SetExtension(p, f, <<c.o>>, c.h)
    BY <2>1, <2>7, KindsOfFields, SetExtensionStep
  <2>8. QED
    BY <1>10, <2>2, <2>3, <2>4, <2>5, <2>6, <2>7
<1>11. CASE f \in InEO /\ \E c \in NewChildren : ReadBinaryExtension(p, f, c.o, c.h)
  BY <1>11, NewChildIs, ReadBinaryExtensionStep
<1>12. QED
  BY <1>2, <1>3, <1>4, <1>5, <1>6, <1>7, <1>8, <1>9, <1>10, <1>11, Zenon DEF CallOnField

LEMMA ParentStep ==
  ASSUME WrappersInv, NEW p \in Parents, CallOnParent(p)
  PROVE  WrappersInv'
<1>1. Good(msg, heap) /\ \A q \in Parents : ObjsOf(msg[q]) \subseteq LiveObjs
  BY LiveIs DEF WrappersInv, Good
<1>2. CASE \E f \in Touched[p] : CallOnField(p, f)
  BY <1>2, FieldStep, FieldsAssumption
<1>3. CASE ToArray(p)
  BY <1>1, <1>3, LiveIs, SyncedKeeps, BecomeKeeps DEF ToArray, SyncedBy
<1>4. CASE \E q \in Parents : CloneMessage(p, q) \/ CopyInto(p, q)
  BY <1>1, <1>4, CopyToStep DEF CloneMessage, CopyInto, SyncedBy
<1>5. QED
  BY <1>2, <1>3, <1>4 DEF CallOnParent

-----------------------------------------------------------------------------
(* The invariant *)

LEMMA EmptyMessageIs ==
  /\ EmptyMessage \in Messages
  /\ \A f \in Fields : /\ EmptyMessage.data[f] = IF f \in Lists THEN <<>> ELSE Unset
                       /\ EmptyMessage.wrap[f] = Unset
                       /\ Elements(f, EmptyMessage.data[f]) = {}
                       /\ Fit(f, EmptyMessage.data[f], Unset)
<1>1. /\ EmptyMessage.data = [f \in Fields |-> IF f \in Lists THEN <<>> ELSE Unset]
      /\ EmptyMessage.wrap = [f \in Fields |-> Unset] /\ EmptyMessage.eo = FALSE
  BY DEF EmptyMessage
<1>2. <<>> \in Seq(Arrays) /\ Distinct(<<>>)
  BY DEF Distinct
<1>3. /\ EmptyMessage.data \in [Fields -> Data]
      /\ EmptyMessage.wrap \in [Fields -> Wrap]
  BY <1>1, <1>2 DEF Data, Wrap
<1>4. EmptyMessage \in Messages
  BY <1>1, <1>3 DEF Messages, EmptyMessage
<1>5. ASSUME NEW f \in Fields
      PROVE  /\ EmptyMessage.data[f] = IF f \in Lists THEN <<>> ELSE Unset
             /\ EmptyMessage.wrap[f] = Unset
             /\ Elements(f, EmptyMessage.data[f]) = {}
             /\ Fit(f, EmptyMessage.data[f], Unset)
  <2>1. /\ EmptyMessage.data[f] = IF f \in Lists THEN <<>> ELSE Unset
        /\ EmptyMessage.wrap[f] = Unset
    BY <1>1
  <2>2. Elements(f, EmptyMessage.data[f]) = {}
    BY <2>1, ElementsOfNone
  <2>3. Fit(f, EmptyMessage.data[f], Unset)
    BY <1>2, <2>1 DEF Fit
  <2>4. QED
    BY <2>1, <2>2, <2>3
<1>6. QED
  BY <1>4, <1>5

\* The message p arrived with the arrays l, which hold c, in its field f.
Arrived(p, f, n, l, c) ==
  /\ msg = [q \in Parents |->
       IF q = p THEN [EmptyMessage EXCEPT !.data[f] = IF f \in Lists THEN l ELSE l[1],
                                          !.eo = f \in InEO]
                ELSE EmptyMessage]
  /\ cell = [a \in Arrays |-> IF a \in Range(l) THEN c[CHOOSE i \in 1..n : l[i] = a]
                                               ELSE Empty]
  /\ obj = [o \in Objs |-> NoObj]

LEMMA InitInv == Init => WrappersInv
<1> SUFFICES ASSUME Init PROVE WrappersInv
  OBVIOUS
<1>1. PICK p \in Parents, f \in Fields :
        \E n \in IF f \in Lists THEN 0..MaxChildren ELSE {1} :
          \E l \in OneOf(Own(1..n, Arrays)), c \in [1..n -> Vals] : Arrived(p, f, n, l, c)
  BY DEF Init, Arrived
<1>2. PICK n, l, c :
        /\ n \in Nat /\ l \in [1..n -> Arrays] /\ c \in [1..n -> Vals]
        /\ f \notin Lists => n = 1
        /\ Distinct(l)
        /\ Arrived(p, f, n, l, c)
  <2>1. PICK n \in IF f \in Lists THEN 0..MaxChildren ELSE {1} :
          \E l \in OneOf(Own(1..n, Arrays)), c \in [1..n -> Vals] : Arrived(p, f, n, l, c)
    BY <1>1
  <2>2. n \in Nat /\ (f \notin Lists => n = 1)
    BY <2>1
  <2>3. ASSUME NEW l \in OneOf(Own(1..n, Arrays)) PROVE l \in [1..n -> Arrays] /\ Distinct(l)
    <3>1. l \in Own(1..n, Arrays)
      BY OneOfIs
    <3>2. QED
      BY <3>1 DEF Own, Distinct
  <2>4. QED
    BY <2>1, <2>2, <2>3
<1>3. n \in Nat /\ l \in [1..n -> Arrays] /\ c \in [1..n -> Vals] /\ (f \notin Lists => n = 1)
  BY <1>2
<1> DEFINE v == IF f \in Lists THEN l ELSE l[1]
           m == WithField(EmptyMessage, f, v, Unset, f \in InEO)
<1>4. /\ f \in Lists => v \in Seq(Arrays) /\ Distinct(v)
      /\ f \notin Lists => v \in Arrays
      /\ Elements(f, v) = Range(l)
  <2>1. CASE f \in Lists
    <3>1. l \in Seq(Arrays)
      BY <1>2
    <3>2. l # Unset
      BY <3>1, UnsetIsNothing
    <3>3. QED
      BY <1>2, <2>1, <3>1, <3>2 DEF Elements
  <2>2. CASE f \notin Lists
    <3>1. 1 \in 1..n /\ DOMAIN l = 1..n /\ \A i \in 1..n : i = 1
      BY <1>3, <2>2
    <3>2. l[1] \in Arrays
      BY <1>3, <3>1
    <3>3. Range(l) = {l[1]}
      BY <3>1 DEF Range
    <3>4. QED
      BY <2>2, <3>2, <3>3, ElementsOfOne, UnsetIsNothing
  <2>3. QED
    BY <2>1, <2>2
<1> HIDE DEF v
<1>5. [EmptyMessage EXCEPT !.data[f] = v, !.eo = f \in InEO] = m
  <2>1. [EmptyMessage EXCEPT !.data[f] = v]
          = [data |-> [EmptyMessage.data EXCEPT ![f] = v], wrap |-> EmptyMessage.wrap, eo |-> EmptyMessage.eo]
    BY EmptyMessageIs DEF Messages
  <2>2. [[data |-> [EmptyMessage.data EXCEPT ![f] = v], wrap |-> EmptyMessage.wrap, eo |-> EmptyMessage.eo]
            EXCEPT !.eo = f \in InEO]
          = [data |-> [EmptyMessage.data EXCEPT ![f] = v], wrap |-> EmptyMessage.wrap, eo |-> f \in InEO]
    OBVIOUS
  <2>3. EmptyMessage.wrap = [EmptyMessage.wrap EXCEPT ![f] = Unset]
    BY EmptyMessageIs DEF Messages
  <2>4. QED
    BY <2>1, <2>2, <2>3, Zenon DEF WithField
<1>6. Fit(f, v, Unset)
  BY <1>4 DEF Fit
<1>7. /\ m \in Messages /\ m.eo = (f \in InEO)
      /\ \A g \in Fields : /\ m.data[g] = IF g = f THEN v ELSE EmptyMessage.data[g]
                           /\ m.wrap[g] = Unset
  <2>1. v \in Data
    BY <1>4 DEF Data
  <2>2. Unset \in Wrap
    BY DEF Wrap
  <2>3. /\ EmptyMessage.data \in [Fields -> Data] /\ EmptyMessage.wrap \in [Fields -> Wrap]
    BY EmptyMessageIs DEF Messages
  <2>4. m \in Messages
    BY <2>1, <2>2, <2>3 DEF Messages, WithField
  <2>5. QED
    BY <2>3, <2>4, EmptyMessageIs DEF WithField
<1> HIDE DEF m
<1>8. msg \in [Parents -> Messages] /\ \A q \in Parents : msg[q] = IF q = p THEN m ELSE EmptyMessage
  BY <1>2, <1>5, <1>7, EmptyMessageIs DEF v, Arrived
<1>9. \A q \in Parents, g \in Fields :
        /\ msg[q].wrap[g] = Unset
        /\ Fit(g, msg[q].data[g], msg[q].wrap[g])
        /\ Elements(g, msg[q].data[g]) = IF q = p /\ g = f THEN Range(l) ELSE {}
  <2>1. ASSUME NEW q \in Parents, NEW g \in Fields
        PROVE  /\ msg[q].wrap[g] = Unset
               /\ Fit(g, msg[q].data[g], Unset)
               /\ Elements(g, msg[q].data[g]) = IF q = p /\ g = f THEN Range(l) ELSE {}
    <3>1. /\ Fit(g, EmptyMessage.data[g], Unset) /\ EmptyMessage.wrap[g] = Unset
          /\ Elements(g, EmptyMessage.data[g]) = {}
      BY EmptyMessageIs
    <3>2. CASE q = p
      BY <1>4, <1>6, <1>7, <1>8, <3>1, <3>2
    <3>3. CASE q # p
      BY <1>8, <3>1, <3>3
    <3>4. QED
      BY <3>2, <3>3
  <2>2. QED
    BY <2>1
<1>10. \A q \in Parents : HasEO(msg[q])
  <2>1. ASSUME NEW q \in Parents, NEW g \in InEO,
               Elements(g, msg[q].data[g]) # {} \/ msg[q].wrap[g] # Unset
        PROVE  msg[q].eo
    <3>1. g \in Fields
      BY KindsOfFields DEF InEO
    <3>2. q = p /\ g = f
      BY <1>9, <2>1, <3>1
    <3>3. QED
      BY <1>7, <1>8, <3>2
  <2>2. QED
    BY <2>1 DEF HasEO
<1>11. cell \in [Arrays -> Vals] /\ obj \in [Objs -> Vals \union {NoObj, NoMap}]
  <2>1. ASSUME NEW a \in Arrays
        PROVE  (IF a \in Range(l) THEN c[CHOOSE i \in 1..n : l[i] = a] ELSE Empty) \in Vals
    <3>1. CASE a \in Range(l)
      <4> DEFINE i == CHOOSE i \in 1..n : l[i] = a
      <4>1. \E j \in 1..n : l[j] = a
        BY <1>3, <3>1 DEF Range
      <4>2. i \in 1..n
        BY <4>1
      <4> HIDE DEF i
      <4>3. c[i] \in Vals
        BY <1>3, <4>2
      <4>4. QED
        BY <3>1, <4>3 DEF i
    <3>2. CASE a \notin Range(l)
      BY <3>2, ConstantsAssumption
    <3>3. QED
      BY <3>1, <3>2
  <2>2. QED
    BY <1>2, <2>1 DEF Arrived
<1>12. heap \in Heaps /\ Live(heap) = {} /\ LiveObjs = {}
  <2>1. LiveObjs = {}
    BY <1>2 DEF LiveObjs, Arrived
  <2>2. QED
    BY <1>11, <2>1, LiveIs DEF heap, Heaps
<1>13. \A q \in Parents : WellFormed(msg[q]) /\ ObjsOf(msg[q]) = {}
  BY <1>7, <1>8, <1>9, <1>10, EmptyMessageIs, ElementsOfNone DEF WellFormed, ObjsOf
<1>14. BareIsAlone(msg, heap)
  <2>1. \A q \in Parents, g \in Fields : Bare(msg[q], g) # {} => q = p /\ g = f
    BY <1>9 DEF Bare
  <2>2. QED
    BY <1>12, <2>1 DEF BareIsAlone
<1>15. Good(msg, heap)
  BY <1>8, <1>12, <1>13, <1>14 DEF Good, OneOver
<1>16. Collected
  <2>1. Kept(msg, heap).objs = {}
    BY <1>12, LiveIs DEF Kept, LiveObjs
  <2>2. Range(l) \subseteq Kept(msg, heap).arrays
    <3>1. Range(l) \subseteq ArraysOf(msg[p])
      BY <1>9 DEF ArraysOf
    <3>2. QED
      BY <3>1 DEF Kept
  <2>3. \A a \in Arrays \ Range(l) : cell[a] = Empty
    BY <1>2 DEF Arrived
  <2>4. QED
    BY <1>12, <2>1, <2>2, <2>3 DEF Collected
<1>17. QED
  BY <1>15, <1>16 DEF WrappersInv

\* Nothing changes.
LEMMA StutterKeeps ==
  ASSUME WrappersInv, UNCHANGED vars
  PROVE  WrappersInv'
<1>1. msg' = msg /\ heap' = heap /\ LiveObjs' = LiveObjs /\ cell' = cell
  BY DEF vars, heap, LiveObjs
<1>2. QED
  BY <1>1 DEF WrappersInv, Collected

LEMMA StepInv == WrappersInv /\ [Next]_vars => WrappersInv'
<1> SUFFICES ASSUME WrappersInv, [Next]_vars PROVE WrappersInv'
  OBVIOUS
<1>1. CASE \E p \in Parents : CallOnParent(p)
  BY <1>1, ParentStep
<1>2. CASE \E o \in LiveObjs : CallOnChild(o)
  BY <1>2, ChildStep
<1>3. CASE UNCHANGED vars
  BY <1>3, StutterKeeps
<1>4. QED
  BY <1>1, <1>2, <1>3 DEF Next

LEMMA Invariance == Spec => []WrappersInv
BY InitInv, StepInv, PTL DEF Spec

\* Arrays and children hold what they may, a message's wrappers are live objects, and a
\* message with anything in an extension has its extension object.
THEOREM TypeCorrect == Spec => []TypeOK
<1>1. ASSUME WrappersInv PROVE TypeOK
  <2>1. /\ cell \in [Arrays -> Vals] /\ obj \in [Objs -> Vals \union {NoObj, NoMap}]
    BY <1>1, LiveIs DEF WrappersInv, Good, Heaps
  <2>2. ASSUME NEW p \in Parents
        PROVE  /\ msg[p].eo \in BOOLEAN
               /\ ObjsOf(msg[p]) \subseteq LiveObjs /\ ArraysOf(msg[p]) \subseteq Arrays
               /\ \A f \in InEO : (Elements(f, msg[p].data[f]) # {} \/ msg[p].wrap[f] # Unset)
                                  => msg[p].eo
    <3>1. Good(msg, heap)
      BY <1>1 DEF WrappersInv
    <3>2. msg[p].eo \in BOOLEAN /\ ArraysOf(msg[p]) \subseteq Arrays
      BY <3>1, EOIsBoolean, ArraysHeld
    <3>3. ObjsOf(msg[p]) \subseteq LiveObjs /\ HasEO(msg[p])
      BY <3>1, LiveIs DEF Good, WellFormed
    <3>4. QED
      BY <3>2, <3>3 DEF HasEO
  <2>3. QED
    BY <2>1, <2>2 DEF TypeOK
<1>2. QED
  BY <1>1, Invariance, PTL

\* Two message objects never lie over one data array, whatever was read, set, added or
\* copied (getWrapperField and wrapRepeatedField_ wrap once, message.js:1163 and 1204).
THEOREM ArraysHaveOneWrapper == Spec => []OneWrapperPerArray
<1>1. ASSUME WrappersInv PROVE OneWrapperPerArray
  BY <1>1, LiveIs DEF WrappersInv, Good, OneOver, OneWrapperPerArray
<1>2. QED
  BY <1>1, Invariance, PTL

\* While no repeated extension is read into a list that is already there, a wrapper lies
\* over the very array in its slot, and a list of wrappers over the list of arrays.
LEMMA WrappersLieOverData ==
  ASSUME ~ReadsIntoLists, WrappersInv
  PROVE  WrappersOverData
<1>1. ASSUME NEW p \in Parents, NEW f \in Fields, msg[p].wrap[f] # Unset
      PROVE  msg[p].data[f] = Each(f, msg[p].wrap[f], ArrayOf)
  <2>1. Fit(f, msg[p].data[f], msg[p].wrap[f])
    BY MessageParts DEF WrappersInv
  <2>2. CASE f \in Lists
    BY <1>1, <2>1, <2>2 DEF Fit
  <2>3. CASE f \notin Lists
    BY <1>1, <2>1, <2>3 DEF Fit, Each
  <2>4. QED
    BY <2>2, <2>3
<1>2. QED
  BY <1>1 DEF WrappersOverData

THEOREM WrappersAlwaysLieOverData ==
  ASSUME ~ReadsIntoLists
  PROVE  Spec => []WrappersOverData
<1>1. WrappersInv => WrappersOverData
  BY WrappersLieOverData
<1>2. QED
  BY <1>1, Invariance, PTL

-----------------------------------------------------------------------------
(* What is shown *)

\* What an array holds once the objects S have written their maps to their arrays.
LEMMA SyncedAt ==
  ASSUME NEW h \in Heaps, OneOver(h), NEW S, S \subseteq Live(h), NEW a \in Arrays
  PROVE  /\ \A o \in S : ArrayOf[o] = a =>
              Synced(h, S).cell[a] = IF h.obj[o] = NoMap THEN h.cell[a] ELSE h.obj[o]
         /\ (\A o \in S : ArrayOf[o] # a) => Synced(h, S).cell[a] = h.cell[a]
<1> DEFINE ahead == {o \in S : ArrayOf[o] = a /\ h.obj[o] # NoMap}
<1>1. Synced(h, S).cell[a]
        = IF ahead = {} THEN h.cell[a] ELSE h.obj[CHOOSE o \in ahead : TRUE]
  BY DEF Synced, Heaps
<1>2. ASSUME NEW o \in S, ArrayOf[o] = a
      PROVE  Synced(h, S).cell[a] = IF h.obj[o] = NoMap THEN h.cell[a] ELSE h.obj[o]
  <2>1. \A x \in S : ArrayOf[x] = a => x = o
    BY <1>2 DEF OneOver
  <2>2. CASE h.obj[o] = NoMap
    <3>1. ahead = {}
      BY <2>1, <2>2
    <3>2. QED
      BY <1>1, <2>2, <3>1
  <2>3. CASE h.obj[o] # NoMap
    <3>1. ahead = {o}
      BY <1>2, <2>1, <2>3
    <3>2. (CHOOSE x \in ahead : TRUE) = o
      BY <3>1
    <3> HIDE DEF ahead
    <3>3. QED
      BY <1>1, <2>3, <3>1, <3>2
  <2>4. QED
    BY <2>2, <2>3
<1>3. ASSUME \A o \in S : ArrayOf[o] # a PROVE Synced(h, S).cell[a] = h.cell[a]
  <2>1. ahead = {}
    BY <1>3
  <2>2. QED
    BY <1>1, <2>1
<1>4. QED
  BY <1>2, <1>3

\* What the arrays of h hold, the maps of the objects over them included.
Contents(h) == Synced(h, Live(h)).cell

LEMMA ContentsAt ==
  ASSUME NEW h \in Heaps, OneOver(h), NEW a \in Arrays
  PROVE  /\ \A o \in Live(h) : ArrayOf[o] = a =>
              Contents(h)[a] = IF h.obj[o] = NoMap THEN h.cell[a] ELSE h.obj[o]
         /\ (\A o \in Live(h) : ArrayOf[o] # a) => Contents(h)[a] = h.cell[a]
BY SyncedAt DEF Contents

LEMMA ContentsType ==
  ASSUME NEW h \in Heaps
  PROVE  Contents(h) \in [Arrays -> Vals]
BY SyncedIs DEF Contents, Heaps

\* toArray changes nothing that is seen.
LEMMA SyncedContents ==
  ASSUME NEW h \in Heaps, OneOver(h), NEW S, S \subseteq Live(h), NEW a \in Arrays
  PROVE  Contents(Synced(h, S))[a] = Contents(h)[a]
<1> DEFINE s == Synced(h, S)
<1>1. s \in Heaps /\ s.obj = h.obj /\ Live(s) = Live(h) /\ OneOver(s)
  BY SyncedIs
<1>2. CASE \E o \in Live(h) : ArrayOf[o] = a
  <2>1. PICK o \in Live(h) : ArrayOf[o] = a
    BY <1>2
  <2>2. Contents(h)[a] = IF h.obj[o] = NoMap THEN h.cell[a] ELSE h.obj[o]
    BY <2>1, ContentsAt
  <2>3. Contents(s)[a] = IF h.obj[o] = NoMap THEN s.cell[a] ELSE h.obj[o]
    BY <1>1, <2>1, ContentsAt
  <2>4. h.obj[o] = NoMap => s.cell[a] = h.cell[a]
    <3>1. CASE o \in S
      BY <2>1, <3>1, SyncedAt
    <3>2. CASE o \notin S
      <4>1. \A x \in S : ArrayOf[x] # a
        BY <2>1, <3>2 DEF OneOver
      <4>2. QED
        BY <4>1, SyncedAt
    <3>3. QED
      BY <3>1, <3>2
  <2>5. QED
    BY <2>2, <2>3, <2>4
<1>3. CASE \A o \in Live(h) : ArrayOf[o] # a
  <2>1. Contents(h)[a] = h.cell[a]
    BY <1>3, ContentsAt
  <2>2. Contents(s)[a] = s.cell[a]
    BY <1>1, <1>3, ContentsAt
  <2>3. s.cell[a] = h.cell[a]
    BY <1>3, SyncedAt
  <2>4. QED
    BY <2>1, <2>2, <2>3
<1>4. QED
  BY <1>2, <1>3

\* The objects of a message are all that its arrays wait for, if every wrapper lies over
\* its data.
LEMMA MessageIsSynced ==
  ASSUME ~ReadsIntoLists, NEW ms, NEW h, Good(ms, h), NEW p \in Parents, NEW f \in Fields,
         NEW a \in Elements(f, ms[p].data[f])
  PROVE  Synced(h, ObjsOf(ms[p])).cell[a] = Contents(h)[a]
<1> DEFINE d == ms[p].data[f]
           w == ms[p].wrap[f]
           S == ObjsOf(ms[p])
<1>1. /\ h \in Heaps /\ OneOver(h) /\ S \subseteq Live(h) /\ Fit(f, d, w)
      /\ BareIsAlone(ms, h)
  BY MessageParts DEF Good
<1>2. a \in Arrays
  BY <1>1, WhatIsHeld
<1>3. CASE w = Unset
  <2>1. a \in Bare(ms[p], f)
    BY <1>3 DEF Bare
  <2>2. \A o \in Live(h) : ArrayOf[o] # a
    BY <1>1, <2>1 DEF BareIsAlone
  <2>3. \A o \in S : ArrayOf[o] # a
    BY <1>1, <2>2
  <2> HIDE DEF S
  <2>4. Synced(h, S).cell[a] = Contents(h)[a]
    BY <1>1, <1>2, <2>2, <2>3, SyncedAt, ContentsAt
  <2>5. QED
    BY <2>4 DEF S
<1>4. CASE w # Unset
  <2>1. d = Each(f, w, ArrayOf)
    <3>1. CASE f \in Lists
      BY <1>1, <1>4, <3>1 DEF Fit
    <3>2. CASE f \notin Lists
      BY <1>1, <1>4, <3>2 DEF Fit, Each
    <3>3. QED
      BY <3>1, <3>2
  <2>2. (f \in Lists => w \in Seq(Objs)) /\ (f \notin Lists => w \in Objs \union {Unset})
    BY <1>1, <1>4 DEF Fit
  <2>3. PICK o \in Elements(f, w) : a = ArrayOf[o]
    <3>1. Elements(f, Each(f, w, ArrayOf)) = {ArrayOf[o] : o \in Elements(f, w)}
      BY <2>2, EachArray
    <3>2. QED
      BY <2>1, <3>1
  <2>4. o \in S /\ o \in Live(h)
    BY <1>1, <2>3 DEF ObjsOf
  <2> HIDE DEF S
  <2>5. Synced(h, S).cell[a] = Contents(h)[a]
    BY <1>1, <1>2, <2>3, <2>4, SyncedAt, ContentsAt
  <2>6. QED
    BY <2>5 DEF S
<1>5. QED
  BY <1>3, <1>4

LEMMA EachAgrees ==
  ASSUME NEW f \in Fields, NEW d, NEW w, Fit(f, d, w), NEW g, NEW k,
         \A a \in Elements(f, d) : g[a] = k[a]
  PROVE  Each(f, d, g) = Each(f, d, k)
<1>1. CASE f \in Lists
  <2>1. d \in Seq(Arrays) /\ DOMAIN d = 1..Len(d)
    BY <1>1 DEF Fit
  <2>2. \A i \in DOMAIN d : g[d[i]] = k[d[i]]
    BY <1>1, <2>1, ElementsOfList, UnsetIsNothing
  <2>3. QED
    BY <1>1, <2>2 DEF Each
<1>2. CASE f \notin Lists
  BY <1>2, ElementsOfOne DEF Each
<1>3. QED
  BY <1>1, <1>2

LEMMA ShownIsData ==
  ASSUME ~ReadsIntoLists, WrappersInv, NEW p \in Parents, NEW f \in Fields
  PROVE  Shown(p, f) = msg[p].data[f]
BY WrappersLieOverData DEF WrappersOverData, Shown

LEMMA ContentIs == Content = Contents(heap)
BY LiveIs DEF Content, Contents

\* cloneMessage makes "a deep clone of the given message" (message.js:1708): once toArray
\* has run, a message's arrays hold what its getters show, and what they show of the
\* children is what the children show.
THEOREM ClonesAlwaysShowTheSame ==
  ASSUME ~ReadsIntoLists
  PROVE  Spec => []CloneShowsTheSame
<1>1. ASSUME WrappersInv PROVE CloneShowsTheSame
  <2>1. ASSUME NEW p \in Parents, NEW f \in Fields
        PROVE  Each(f, msg[p].data[f], Synced(heap, SyncedBy(msg[p])).cell)
                 = Each(f, Shown(p, f), Content)
    <3>1. Good(msg, heap) /\ Fit(f, msg[p].data[f], msg[p].wrap[f])
      BY <1>1, MessageParts DEF WrappersInv
    <3>2. \A a \in Elements(f, msg[p].data[f]) :
            Synced(heap, SyncedBy(msg[p])).cell[a] = Content[a]
      BY <3>1, MessageIsSynced, ContentIs DEF SyncedBy
    <3>3. QED
      BY <1>1, <3>1, <3>2, EachAgrees, ShownIsData
  <2>2. QED
    BY <2>1 DEF CloneShowsTheSame
<1>2. QED
  BY <1>1, Invariance, PTL

-----------------------------------------------------------------------------
(* Messages as a tree of children *)

\* What the getters show of messages ms whose wrappers lie over their data, and what is
\* in the children of h they hold.
DataOf(ms) == [p \in Parents |-> ms[p].data]

HeldIn(ms) == UNION {ArraysOf(ms[p]) : p \in Parents}

HeldContents(ms, h) == [a \in Arrays |-> IF a \in HeldIn(ms) THEN Contents(h)[a] ELSE Empty]

Seen(ms, h) == [field |-> DataOf(ms), content |-> HeldContents(ms, h)]

LEMMA WrapperOverData ==
  ASSUME ~ReadsIntoLists, NEW ms, NEW h, Good(ms, h), NEW p \in Parents, NEW f \in Fields,
         ms[p].wrap[f] # Unset
  PROVE  /\ ms[p].data[f] = Each(f, ms[p].wrap[f], ArrayOf)
         /\ f \in Lists => ms[p].wrap[f] \in Seq(Objs)
         /\ f \notin Lists => ms[p].wrap[f] \in Objs
<1>1. Fit(f, ms[p].data[f], ms[p].wrap[f])
  BY MessageParts
<1>2. CASE f \in Lists
  BY <1>1, <1>2 DEF Fit
<1>3. CASE f \notin Lists
  BY <1>1, <1>3 DEF Fit, Each
<1>4. QED
  BY <1>2, <1>3

\* A live object over an array nobody holds would be in wrappers_ over another array.
LEMMA WrappedIsHeld ==
  ASSUME ~ReadsIntoLists, NEW ms, NEW h, Good(ms, h), NEW p \in Parents, NEW o \in ObjsOf(ms[p])
  PROVE  ArrayOf[o] \in ArraysOf(ms[p])
<1>1. PICK f \in Fields : o \in Elements(f, ms[p].wrap[f])
  BY DEF ObjsOf
<1> DEFINE d == ms[p].data[f]
           w == ms[p].wrap[f]
<1>2. w # Unset
  BY <1>1, ElementsOfNone
<1>3. d = Each(f, w, ArrayOf) /\ (f \in Lists => w \in Seq(Objs)) /\ (f \notin Lists => w \in Objs)
  BY <1>2, WrapperOverData
<1>4. Elements(f, Each(f, w, ArrayOf)) = {ArrayOf[x] : x \in Elements(f, w)}
  BY <1>3, EachArray
<1>5. ArrayOf[o] \in Elements(f, d)
  BY <1>1, <1>3, <1>4
<1>6. QED
  BY <1>5 DEF ArraysOf

LEMMA KeptIs ==
  ASSUME ~ReadsIntoLists, NEW ms, NEW h, Good(ms, h)
  PROVE  /\ Kept(ms, h).arrays = HeldIn(ms)
         /\ Kept(ms, h).objs = {o \in Live(h) : ArrayOf[o] \in HeldIn(ms)}
<1> DEFINE wrappers == UNION {ObjsOf(ms[p]) : p \in Parents}
           objs == {o \in Objs : h.obj[o] # NoObj /\ (o \in wrappers \/ ArrayOf[o] \in HeldIn(ms))}
<1>1. Kept(ms, h).objs = objs /\ Kept(ms, h).arrays = HeldIn(ms) \union {ArrayOf[o] : o \in objs}
  BY DEF Kept, HeldIn
<1>2. \A o \in wrappers : ArrayOf[o] \in HeldIn(ms)
  BY WrappedIsHeld DEF HeldIn
<1> HIDE DEF wrappers
<1>3. \A o \in objs : ArrayOf[o] \in HeldIn(ms) /\ o \in Live(h)
  BY <1>2 DEF Live
<1>4. \A o \in Live(h) : ArrayOf[o] \in HeldIn(ms) => o \in objs
  BY DEF Live
<1> HIDE DEF objs
<1>5. QED
  BY <1>1, <1>3, <1>4

\* What is seen of the messages, now and after a call.
LEMMA ShownNow ==
  ASSUME ~ReadsIntoLists, WrappersInv
  PROVE  /\ [p \in Parents |-> [f \in Fields |-> Shown(p, f)]] = DataOf(msg)
         /\ Content = HeldContents(msg, heap)
<1>1. Good(msg, heap) /\ Collected /\ heap \in Heaps /\ OneOver(heap)
  BY DEF WrappersInv, Good
<1>2. ASSUME NEW p \in Parents PROVE [f \in Fields |-> Shown(p, f)] = msg[p].data
  <2>1. msg[p].data \in [Fields -> Data]
    BY <1>1, MessageParts DEF Messages
  <2>2. \A f \in Fields : Shown(p, f) = msg[p].data[f]
    BY ShownIsData
  <2>3. QED
    BY <2>1, <2>2
<1>3. [p \in Parents |-> [f \in Fields |-> Shown(p, f)]] = DataOf(msg)
  BY <1>2 DEF DataOf
<1>4. ASSUME NEW a \in Arrays, a \notin HeldIn(msg) PROVE Content[a] = Empty
  <2>1. a \notin Kept(msg, heap).arrays /\ \A o \in Live(heap) : ArrayOf[o] # a
    BY <1>1, <1>4, KeptIs, LiveIs DEF Collected
  <2>2. Contents(heap)[a] = cell[a]
    BY <1>1, <2>1, ContentsAt, LiveIs
  <2>3. QED
    BY <1>1, <1>4, <2>1, <2>2, ContentIs DEF Collected
<1>5. Content \in [Arrays -> Vals] /\ Content = Contents(heap)
  BY <1>1, ContentIs, ContentsType
<1>6. Content = HeldContents(msg, heap)
  BY <1>4, <1>5 DEF HeldContents
<1>7. QED
  BY <1>3, <1>6

LEMMA ShownNext ==
  ASSUME ~ReadsIntoLists, NEW ms, NEW h, Good(ms, h), Become(ms, h)
  PROVE  /\ [p \in Parents |-> [f \in Fields |-> Shown(p, f)']] = DataOf(ms)
         /\ Content' = HeldContents(ms, h)
<1>1. WrappersInv' /\ msg' = ms
  BY BecomeKeeps DEF Become
<1>2. [p \in Parents |-> [f \in Fields |-> Shown(p, f)']] = DataOf(ms)
  <2>1. ASSUME NEW p \in Parents PROVE [f \in Fields |-> Shown(p, f)'] = ms[p].data
    <3>1. ms[p].data \in [Fields -> Data]
      BY MessageParts DEF Messages
    <3>2. ASSUME NEW f \in Fields PROVE Shown(p, f)' = ms[p].data[f]
      <4>1. Shown(p, f)' = IF ms[p].wrap[f] = Unset THEN ms[p].data[f]
                                                  ELSE Each(f, ms[p].wrap[f], ArrayOf)
        BY <1>1 DEF Shown
      <4>2. QED
        BY <4>1, WrapperOverData
    <3>3. QED
      BY <3>1, <3>2
  <2>2. QED
    BY <2>1 DEF DataOf
<1>3. Content' = Contents(heap')
  <2>1. LiveObjs' = Live(heap')
    BY DEF LiveObjs, Live, heap
  <2>2. QED
    BY <2>1 DEF Content, Contents
<1>4. Content' = HeldContents(ms, h)
  <2> DEFINE held == HeldIn(ms)
             kept == {o \in Live(h) : ArrayOf[o] \in held}
  <2>1. /\ Kept(ms, h).arrays = held /\ Kept(ms, h).objs = kept
    BY KeptIs
  <2>2. /\ cell' = [a \in Arrays |-> IF a \in held THEN h.cell[a] ELSE Empty]
        /\ obj' = [o \in Objs |-> IF o \in kept THEN h.obj[o] ELSE NoObj]
    BY <2>1 DEF Become
  <2>3. heap' = [cell |-> cell', obj |-> obj'] /\ heap' \in Heaps /\ OneOver(heap')
    BY <1>1 DEF heap, WrappersInv, Good
  <2>4. h \in Heaps /\ OneOver(h) /\ \A o \in Live(h) : o \in Objs /\ h.obj[o] # NoObj
    BY DEF Good, Live
  <2> HIDE DEF held
  <2>5. Live(heap') = kept
    BY <2>2, <2>3, <2>4 DEF Live
  <2>6. ASSUME NEW a \in Arrays, a \in held PROVE Contents(heap')[a] = Contents(h)[a]
    <3>1. heap'.cell[a] = h.cell[a]
      BY <2>2, <2>3, <2>6
    <3>2. CASE \E o \in Live(h) : ArrayOf[o] = a
      <4>1. PICK o \in Live(h) : ArrayOf[o] = a
        BY <3>2
      <4>2. o \in Live(heap') /\ heap'.obj[o] = h.obj[o]
        BY <2>2, <2>3, <2>4, <2>5, <2>6, <4>1
      <4>3. QED
        BY <2>3, <2>4, <3>1, <4>1, <4>2, ContentsAt
    <3>3. CASE \A o \in Live(h) : ArrayOf[o] # a
      <4>1. \A o \in Live(heap') : ArrayOf[o] # a
        BY <2>5, <3>3
      <4>2. QED
        BY <2>3, <2>4, <3>1, <3>3, <4>1, ContentsAt
    <3>4. QED
      BY <3>2, <3>3
  <2>7. ASSUME NEW a \in Arrays, a \notin held PROVE Contents(heap')[a] = Empty
    <3>1. \A o \in Live(heap') : ArrayOf[o] # a
      BY <2>5, <2>7
    <3>2. heap'.cell[a] = Empty
      BY <2>2, <2>3, <2>7
    <3>3. QED
      BY <2>3, <3>1, <3>2, ContentsAt
  <2>8. Contents(heap') \in [Arrays -> Vals]
    BY <2>3, ContentsType
  <2>9. QED
    BY <1>3, <2>6, <2>7, <2>8 DEF HeldContents, held
<1>5. QED
  BY <1>2, <1>4

LEMMA TreeFields == Tree!Fields = Fields
BY DEF Tree!Fields, Fields, Lists

LEMMA DataIsTyped ==
  ASSUME NEW ms, NEW h, Good(ms, h)
  PROVE  /\ DataOf(ms) \in [Parents -> [Fields -> Data]]
         /\ \A p \in Parents : DataOf(ms)[p] = ms[p].data /\ ms[p].data \in [Fields -> Data]
<1>1. \A p \in Parents : ms[p].data \in [Fields -> Data]
  BY MessageParts DEF Messages
<1>2. DataOf(ms) \in [Parents -> [Fields -> Data]]
  BY <1>1 DEF DataOf
<1>3. QED
  BY <1>1, <1>2 DEF DataOf

LEMMA DataWith ==
  ASSUME WrappersInv, NEW p \in Parents, NEW m
  PROVE  /\ DataOf(msg) \in [Parents -> [Fields -> Data]]
         /\ DataOf(msg)[p] = msg[p].data
         /\ DataOf([msg EXCEPT ![p] = m]) = [DataOf(msg) EXCEPT ![p] = m.data]
         /\ Good(msg, heap) /\ msg \in [Parents -> Messages] /\ WellFormed(msg[p])
<1>1. Good(msg, heap) /\ msg \in [Parents -> Messages]
  BY DEF WrappersInv, Good
<1>2. DataOf(msg) \in [Parents -> [Fields -> Data]] /\ DataOf(msg)[p] = msg[p].data
  BY <1>1, DataIsTyped
<1>3. DataOf([msg EXCEPT ![p] = m]) = [DataOf(msg) EXCEPT ![p] = m.data]
  BY <1>1 DEF DataOf
<1>4. QED
  BY <1>1, <1>2, <1>3, MessageParts

LEMMA HeldIsHeld ==
  ASSUME NEW ms, NEW h, Good(ms, h)
  PROVE  Tree!Held(DataOf(ms)) = HeldIn(ms) /\ HeldIn(ms) \subseteq Arrays
<1>1. ASSUME NEW p \in Parents, NEW f \in Fields
      PROVE  Tree!NodesIn(f, DataOf(ms)[p][f]) = Elements(f, ms[p].data[f])
  <2>1. DataOf(ms)[p][f] = ms[p].data[f] /\ Fit(f, ms[p].data[f], ms[p].wrap[f])
    BY MessageParts, DataIsTyped
  <2>2. CASE f \in Lists
    <3>1. ms[p].data[f] # Unset
      BY <2>1, <2>2, UnsetIsNothing DEF Fit
    <3>2. QED
      BY <2>1, <2>2, <3>1 DEF Tree!NodesIn, Tree!Range, Elements, Range
  <2>3. CASE f \notin Lists
    BY <2>1, <2>3 DEF Tree!NodesIn, Elements
  <2>4. QED
    BY <2>2, <2>3
<1>2. Tree!Held(DataOf(ms)) = UNION {Tree!NodesIn(f, DataOf(ms)[p][f]) : p \in Parents, f \in Fields}
  BY TreeFields DEF Tree!Held
<1>3. HeldIn(ms) \subseteq Arrays
  BY ArraysHeld DEF HeldIn
<1>4. QED
  BY <1>1, <1>2, <1>3 DEF HeldIn, ArraysOf

\* A call is one of the tree, or is not seen.
Seems(ms, h) ==
  Seen(ms, h) = Seen(msg, heap) \/ Tree!Call(Seen(msg, heap), Seen(ms, h))

LEMMA TreeStep ==
  ASSUME ~ReadsIntoLists, WrappersInv, NEW ms, NEW h, Good(ms, h), Become(ms, h), Seems(ms, h)
  PROVE  [Tree!Next]_(Tree!vars)
<1>1. /\ [p \in Parents |-> [f \in Fields |-> Shown(p, f)]] = DataOf(msg)
      /\ Content = HeldContents(msg, heap)
  BY ShownNow
<1>2. /\ [p \in Parents |-> [f \in Fields |-> Shown(p, f)']] = DataOf(ms)
      /\ Content' = HeldContents(ms, h)
  BY ShownNext
<1>3. CASE Seen(ms, h) = Seen(msg, heap)
  <2>1. DataOf(ms) = DataOf(msg) /\ HeldContents(ms, h) = HeldContents(msg, heap)
    BY <1>3 DEF Seen
  <2>2. QED
    BY <1>1, <1>2, <2>1 DEF Tree!vars
<1>4. CASE Tree!Call(Seen(msg, heap), Seen(ms, h))
  BY <1>1, <1>2, <1>4 DEF Tree!Next, Seen
<1>5. QED
  BY <1>3, <1>4 DEF Seems

\* h shows what the children held by the messages show now.
SameInside(h) == \A a \in HeldIn(msg) : Contents(h)[a] = Contents(heap)[a]

LEMMA NotSeen ==
  ASSUME WrappersInv, NEW ms, NEW h, DataOf(ms) = DataOf(msg), HeldIn(ms) = HeldIn(msg), SameInside(h)
  PROVE  Seems(ms, h)
BY DEF Seems, Seen, HeldContents, SameInside

LEMMA ContentStays ==
  ASSUME WrappersInv, NEW ms, NEW h, Good(ms, h), SameInside(h)
  PROVE  Tree!ContentIsKept(Seen(msg, heap), Seen(ms, h))
<1>1. /\ Tree!Held(DataOf(msg)) = HeldIn(msg) /\ HeldIn(msg) \subseteq Arrays
      /\ Tree!Held(DataOf(ms)) = HeldIn(ms) /\ HeldIn(ms) \subseteq Arrays
  BY HeldIsHeld DEF WrappersInv
<1>2. \A a \in HeldIn(msg) \intersect HeldIn(ms) :
        HeldContents(ms, h)[a] = HeldContents(msg, heap)[a]
  BY <1>1 DEF HeldContents, SameInside
<1>3. \A a \in Arrays \ HeldIn(ms) : HeldContents(ms, h)[a] = Empty
  BY DEF HeldContents
<1>4. QED
  BY <1>1, <1>2, <1>3 DEF Tree!ContentIsKept, Seen

\* Setters.
LEMMA SetSeems ==
  ASSUME WrappersInv, NEW p \in Parents, NEW f \in Fields, NEW h, NEW m, NEW d,
         Good([msg EXCEPT ![p] = m], h), m.data = [msg[p].data EXCEPT ![f] = d],
         f \in Lists => Len(d) <= 1, SameInside(h)
  PROVE  Seems([msg EXCEPT ![p] = m], h)
<1> DEFINE ms == [msg EXCEPT ![p] = m]
<1>1. /\ DataOf(msg) \in [Parents -> [Fields -> Data]]
      /\ DataOf(msg)[p] = msg[p].data
      /\ DataOf(ms) = [DataOf(msg) EXCEPT ![p] = m.data]
  BY DataWith
<1>2. DataOf(ms) = [DataOf(msg) EXCEPT ![p][f] = d]
  BY <1>1
<1>3. DataOf(ms)[p][f] = d
  BY <1>1, <1>2, ZenonT(40)
<1>4. Tree!Set(Seen(msg, heap), Seen(ms, h), p, f)
  BY <1>2, <1>3 DEF Tree!Set, Seen
<1>5. Tree!ContentIsKept(Seen(msg, heap), Seen(ms, h))
  BY ContentStays
<1>6. QED
  BY <1>4, <1>5, TreeFields DEF Seems, Tree!Call

LEMMA OthersClearedData ==
  ASSUME NEW m \in Messages, NEW f
  PROVE  OthersCleared(m, f).data
           = [g \in Fields |-> IF g \in OneofCase(m) \ {f} THEN Unset ELSE m.data[g]]
<1> DEFINE data == [g \in Fields |-> IF g \in OneofCase(m) \ {f} THEN Unset ELSE m.data[g]]
           wrap == [g \in Fields |-> IF g \in OneofCase(m) \ {f} THEN Unset ELSE m.wrap[g]]
<1>1. OthersCleared(m, f) = [m EXCEPT !.data = data, !.wrap = wrap]
  BY DEF OthersCleared
<1>2. [m EXCEPT !.data = data, !.wrap = wrap] = [data |-> data, wrap |-> wrap, eo |-> m.eo]
  BY MessageWithBoth
<1> HIDE DEF data, wrap
<1>3. OthersCleared(m, f).data = data
  BY <1>1, <1>2
<1>4. QED
  BY <1>3 DEF data

LEMMA SetOneofSeems ==
  ASSUME WrappersInv, NEW p \in Parents, NEW f \in Oneof, NEW h, NEW m, NEW d,
         Good([msg EXCEPT ![p] = m], h), SameInside(h),
         m.data = [OthersCleared(msg[p], f).data EXCEPT ![f] = d]
  PROVE  Seems([msg EXCEPT ![p] = m], h)
<1> DEFINE ms == [msg EXCEPT ![p] = m]
           cleared == OthersCleared(msg[p], f)
<1>1. /\ DataOf(msg) \in [Parents -> [Fields -> Data]]
      /\ DataOf(msg)[p] = msg[p].data
      /\ DataOf(ms) = [DataOf(msg) EXCEPT ![p] = m.data]
      /\ Good(msg, heap) /\ msg \in [Parents -> Messages]
  BY DataWith
<1>2. /\ cleared.data \in [Fields -> Data]
      /\ \A g \in Fields : cleared.data[g]
           = IF g \in Oneof /\ g # f THEN Unset ELSE msg[p].data[g]
  <2>1. Good([msg EXCEPT ![p] = cleared], heap)
    BY <1>1, OthersClearedKeeps
  <2>2. cleared \in Messages
    BY <1>1, <2>1, GoodOne
  <2>3. \A g \in Fields : cleared.data[g]
          = IF g \in OneofCase(msg[p]) \ {f} THEN Unset ELSE msg[p].data[g]
    <3>1. msg[p] \in Messages
      BY <1>1 DEF WellFormed
    <3>2. cleared.data = [g \in Fields |-> IF g \in OneofCase(msg[p]) \ {f} THEN Unset ELSE msg[p].data[g]]
      BY <3>1, OthersClearedData
    <3>3. QED
      BY <3>2
  <2>4. QED
    BY <2>2, <2>3 DEF Messages, OneofCase
<1> HIDE DEF cleared
<1>3. f \in Fields
  BY KindsOfFields
<1>4. m.data = [g \in Fields |-> IF g = f THEN d ELSE IF g \in Oneof THEN Unset ELSE msg[p].data[g]]
  BY <1>2, <1>3 DEF cleared
<1>5. DataOf(ms)[p][f] = d
  BY <1>1, <1>3, <1>4
<1>6. DataOf(ms) = [DataOf(msg) EXCEPT ![p] =
        [g \in Fields |-> IF g = f THEN d ELSE IF g \in Oneof THEN Unset ELSE @[g]]]
  BY <1>1, <1>4
<1>7. Tree!SetOneof(Seen(msg, heap), Seen(ms, h), p, f)
  BY <1>5, <1>6, TreeFields DEF Tree!SetOneof, Seen
<1>8. Tree!ContentIsKept(Seen(msg, heap), Seen(ms, h))
  BY ContentStays
<1>9. QED
  BY <1>7, <1>8 DEF Seems, Tree!Call

LEMMA InsertSeems ==
  ASSUME WrappersInv, NEW p \in Parents, NEW f \in Lists, NEW h, NEW m, NEW a \in Arrays,
         NEW i \in 1 .. Len(msg[p].data[f]) + 1,
         Good([msg EXCEPT ![p] = m], h), SameInside(h),
         m.data = [msg[p].data EXCEPT ![f] = InsertAt(msg[p].data[f], i, a)]
  PROVE  Seems([msg EXCEPT ![p] = m], h)
<1> DEFINE ms == [msg EXCEPT ![p] = m]
           d == msg[p].data[f]
           l == InsertAt(d, i, a)
<1>1. /\ DataOf(msg) \in [Parents -> [Fields -> Data]]
      /\ DataOf(msg)[p] = msg[p].data
      /\ DataOf(ms) = [DataOf(msg) EXCEPT ![p] = m.data]
      /\ WellFormed(msg[p]) /\ f \in Fields
  BY DataWith, KindsOfFields
<1>2. d \in Seq(Arrays) /\ Len(d) \in Nat
  BY <1>1, OccurrencesAre
<1>3. /\ l \in Seq(Arrays) /\ Len(l) = Len(d) + 1 /\ l[i] = a /\ i \in DOMAIN l
  <2> HIDE DEF d
  <2>1. i \in 1 .. Len(d) + 1
    BY DEF d
  <2>2. /\ l \in Seq(Arrays) /\ Len(l) = Len(d) + 1
        /\ \A k \in 1 .. Len(d) + 1 :
             l[k] = IF k < i THEN d[k] ELSE IF k = i THEN a ELSE d[k - 1]
    <3>1. Inserted(Arrays, d, i, a, l)
      BY <1>2, <2>1, InsertAtIs
    <3> HIDE DEF l
    <3>2. QED
      BY <3>1 DEF Inserted
  <2> HIDE DEF l
  <2>3. QED
    BY <1>2, <2>1, <2>2
<1> HIDE DEF d, l
<1>4. DataOf(ms) = [DataOf(msg) EXCEPT ![p][f] = l]
  BY <1>1 DEF d, l
<1>5. DataOf(ms)[p][f] = l /\ DataOf(msg)[p][f] = d
  <2>1. DataOf(msg)[p][f] = d
    BY <1>1 DEF d
  <2>2. DataOf(ms)[p][f] = l
    BY <1>1, <1>4, ZenonT(40)
  <2>3. QED
    BY <2>1, <2>2
<1>6. DataOf(ms) = [DataOf(msg) EXCEPT ![p][f] = InsertAt(@, i, l[i])]
  BY <1>3, <1>4, <1>5 DEF l
<1>7. Tree!Insert(Seen(msg, heap), Seen(ms, h), p, f)
  BY <1>3, <1>5, <1>6 DEF Tree!Insert, Tree!InsertAt, InsertAt, Seen
<1>8. Len(Seen(ms, h).field[p][f]) = Len(Seen(msg, heap).field[p][f]) + 1
  BY <1>3, <1>5 DEF Seen
<1>9. Tree!ContentIsKept(Seen(msg, heap), Seen(ms, h))
  BY ContentStays
<1>10. QED
  BY <1>7, <1>8, <1>9 DEF Seems, Tree!Call

\* Objects that come without a map change nothing that is seen.
LEMMA NewObjectsContents ==
  ASSUME NEW h \in Heaps, NEW h2 \in Heaps, OneOver(h2), Live(h) \subseteq Live(h2),
         h2.cell = h.cell,
         \A o \in Live(h2) : h2.obj[o] = IF o \in Live(h) THEN h.obj[o] ELSE NoMap
  PROVE  \A a \in Arrays : Contents(h2)[a] = Contents(h)[a]
<1>1. OneOver(h)
  BY DEF OneOver
<1>2. ASSUME NEW a \in Arrays PROVE Contents(h2)[a] = Contents(h)[a]
  <2>1. CASE \E o \in Live(h) : ArrayOf[o] = a
    <3>1. PICK o \in Live(h) : ArrayOf[o] = a
      BY <2>1
    <3>2. Contents(h)[a] = IF h.obj[o] = NoMap THEN h.cell[a] ELSE h.obj[o]
      BY <1>1, <3>1, ContentsAt
    <3>3. Contents(h2)[a] = IF h2.obj[o] = NoMap THEN h2.cell[a] ELSE h2.obj[o]
      BY <3>1, ContentsAt
    <3>4. QED
      BY <3>1, <3>2, <3>3
  <2>2. CASE \A o \in Live(h) : ArrayOf[o] # a
    <3>1. Contents(h)[a] = h.cell[a]
      BY <1>1, <2>2, ContentsAt
    <3>2. CASE \E o \in Live(h2) : ArrayOf[o] = a
      <4>1. PICK o \in Live(h2) : ArrayOf[o] = a
        BY <3>2
      <4>2. Contents(h2)[a] = IF h2.obj[o] = NoMap THEN h2.cell[a] ELSE h2.obj[o]
        BY <4>1, ContentsAt
      <4>3. h2.obj[o] = NoMap
        BY <2>2, <4>1
      <4>4. QED
        BY <3>1, <4>2, <4>3
    <3>3. CASE \A o \in Live(h2) : ArrayOf[o] # a
      BY <3>1, <3>3, ContentsAt
    <3>4. QED
      BY <3>2, <3>3
  <2>3. QED
    BY <2>1, <2>2
<1>3. QED
  BY <1>2

LEMMA HeldNow ==
  ASSUME WrappersInv
  PROVE  HeldIn(msg) \subseteq Arrays /\ heap \in Heaps /\ OneOver(heap) /\ Good(msg, heap)
BY HeldIsHeld DEF WrappersInv, Good

LEMMA ChildInside ==
  ASSUME WrappersInv, NEW c \in Children
  PROVE  SameInside(c.h)
<1>1. CASE c \in NewChildren
  <2>1. /\ c.h \in Heaps /\ OneOver(c.h) /\ Live(c.h) = LiveObjs \union {c.o} /\ c.h.cell = cell
        /\ ArrayOf[c.o] \in FreeArrays /\ \A o \in LiveObjs : c.h.obj[o] = obj[o]
    BY <1>1, NewChildIs DEF Good
  <2>2. ASSUME NEW a \in HeldIn(msg) PROVE Contents(c.h)[a] = Contents(heap)[a]
    <3>1. a \in Arrays /\ ArrayOf[c.o] # a
      BY <2>1, HeldNow, FreeArraysAre DEF HeldIn
    <3>2. CASE \E o \in LiveObjs : ArrayOf[o] = a
      <4>1. PICK o \in LiveObjs : ArrayOf[o] = a
        BY <3>2
      <4>2. Contents(heap)[a] = IF obj[o] = NoMap THEN cell[a] ELSE obj[o]
        BY <3>1, <4>1, HeldNow, LiveIs, ContentsAt
      <4>3. Contents(c.h)[a] = IF c.h.obj[o] = NoMap THEN c.h.cell[a] ELSE c.h.obj[o]
        BY <2>1, <3>1, <4>1, ContentsAt
      <4>4. QED
        BY <2>1, <4>1, <4>2, <4>3
    <3>3. CASE \A o \in LiveObjs : ArrayOf[o] # a
      <4>1. Contents(heap)[a] = cell[a]
        BY <3>1, <3>3, HeldNow, LiveIs, ContentsAt
      <4>2. Contents(c.h)[a] = cell[a]
        BY <2>1, <3>1, <3>3, ContentsAt
      <4>3. QED
        BY <4>1, <4>2
    <3>4. QED
      BY <3>2, <3>3
  <2>3. QED
    BY <2>2 DEF SameInside
<1>2. CASE \E o \in LiveObjs : c = [o |-> o, h |-> heap]
  BY <1>2 DEF SameInside
<1>3. QED
  BY <1>1, <1>2 DEF Children

LEMMA SyncedInside ==
  ASSUME WrappersInv, NEW h \in Heaps, OneOver(h), NEW S, S \subseteq Live(h), SameInside(h)
  PROVE  SameInside(Synced(h, S))
BY HeldNow, SyncedContents DEF SameInside

LEMMA SameData ==
  ASSUME NEW ms, \A p \in Parents : ms[p].data = msg[p].data
  PROVE  DataOf(ms) = DataOf(msg) /\ HeldIn(ms) = HeldIn(msg)
BY DEF DataOf, HeldIn, ArraysOf

-----------------------------------------------------------------------------
(* Every call is one of the tree, or is not seen *)

LEMMA GetWrapperFieldTree ==
  ASSUME ~ReadsIntoLists, WrappersInv, NEW p \in Parents, NEW f \in Fields \ Lists,
         f \in InEO => msg[p].eo, GetWrapperField(p, f)
  PROVE  [Tree!Next]_(Tree!vars)
<1>1. PICK o \in NewObjs(heap, msg[p].data[f]) :
        Become([msg EXCEPT ![p].wrap[f] = o], [heap EXCEPT !.obj[o] = NoMap])
  BY DEF GetWrapperField
<1> DEFINE ms == [msg EXCEPT ![p].wrap[f] = o]
           h == [heap EXCEPT !.obj[o] = NoMap]
<1>2. Good(ms, h)
  BY GetWrapperFieldKeeps DEF GetWrapperField
<1>3. msg \in [Parents -> Messages] /\ msg[p] \in Messages
  BY HeldNow, EOIsBoolean
<1>4. \A q \in Parents : ms[q].data = msg[q].data
  BY <1>3 DEF Messages
<1>5. o \in Objs /\ obj[o] = NoObj
  BY NewObjsAre, LiveIs
<1>6. /\ h \in Heaps /\ OneOver(h) /\ h.cell = cell
      /\ \A x \in Objs : h.obj[x] = IF x = o THEN NoMap ELSE obj[x]
  BY <1>2, <1>5, HeldNow, LiveIs DEF Good, Heaps
<1> HIDE DEF ms, h
<1>7. \A a \in Arrays : Contents(h)[a] = Contents(heap)[a]
  <2>1. Live(h) = Live(heap) \union {o} /\ o \notin Live(heap)
    BY <1>5, <1>6, LiveIs, NoMapIsNoObject DEF Live
  <2>2. \A x \in Live(h) : h.obj[x] = IF x \in Live(heap) THEN heap.obj[x] ELSE NoMap
    BY <1>5, <1>6, <2>1, LiveIs
  <2>3. h.cell = heap.cell /\ Live(heap) \subseteq Live(h)
    BY <1>6, <2>1, LiveIs
  <2>4. QED
    BY <1>6, <2>2, <2>3, HeldNow, NewObjectsContents
<1>8. Seems(ms, h)
  BY <1>4, <1>7, HeldNow, SameData, NotSeen DEF SameInside
<1>9. QED
  BY <1>1, <1>2, <1>8, TreeStep DEF ms, h

\* Wrapping a list is not seen.
LEMMA WrappingInside ==
  ASSUME NEW ms, NEW h, Good(ms, h), NEW p \in Parents, NEW f \in Lists,
         f \in InEO => ms[p].eo, NEW w \in WrapRepeatedField(ms[p], h, f)
  PROVE  \A a \in Arrays : Contents(w.h)[a] = Contents(h)[a]
<1>1. /\ Good([ms EXCEPT ![p] = w.m], w.h) /\ Live(h) \subseteq Live(w.h) /\ w.h.cell = h.cell
      /\ \A o \in Live(w.h) : w.h.obj[o] = IF o \in Live(h) THEN h.obj[o] ELSE NoMap
  BY Wrapping
<1>2. w.h \in Heaps /\ OneOver(w.h) /\ h \in Heaps
  BY <1>1 DEF Good
<1>3. QED
  BY <1>1, <1>2, NewObjectsContents

LEMMA WrappingIsNotSeen ==
  ASSUME NEW ms, NEW h, Good(ms, h), NEW p \in Parents, NEW f \in Lists,
         f \in InEO => ms[p].eo, NEW w \in WrapRepeatedField(ms[p], h, f)
  PROVE  Good([ms EXCEPT ![p] = w.m], w.h) /\ w.m.data = ms[p].data
BY Wrapping

LEMMA GetRepeatedWrapperFieldTree ==
  ASSUME ~ReadsIntoLists, WrappersInv, NEW p \in Parents, NEW f \in Lists,
         f \in InEO => msg[p].eo, GetRepeatedWrapperField(p, f)
  PROVE  [Tree!Next]_(Tree!vars)
<1>1. PICK w \in WrapRepeatedField(msg[p], heap, f) : Become([msg EXCEPT ![p] = w.m], w.h)
  BY DEF GetRepeatedWrapperField
<1> DEFINE ms == [msg EXCEPT ![p] = w.m]
<1>2. Good(ms, w.h) /\ w.m.data = msg[p].data
  BY HeldNow, Wrapping
<1>3. msg \in [Parents -> Messages]
  BY HeldNow, EOIsBoolean
<1>4. \A q \in Parents : ms[q].data = msg[q].data
  BY <1>2, <1>3
<1>5. SameInside(w.h)
  BY HeldNow, WrappingInside DEF SameInside
<1> HIDE DEF ms
<1>6. Seems(ms, w.h)
  BY <1>4, <1>5, SameData, NotSeen
<1>7. QED
  BY <1>1, <1>2, <1>6, TreeStep DEF ms

LEMMA GetExtensionTree ==
  ASSUME ~ReadsIntoLists, WrappersInv, NEW p \in Parents, NEW f \in InEO, GetExtension(p, f)
  PROVE  [Tree!Next]_(Tree!vars)
<1>1. CASE f \in RepeatedExtensions
  BY <1>1, GetRepeatedWrapperFieldTree, KindsOfFields DEF GetExtension
<1>2. CASE f \notin RepeatedExtensions
  <2>1. f \in Fields \ Lists
    BY <1>2, KindsOfFields DEF InEO
  <2>2. QED
    BY <1>2, <2>1, GetWrapperFieldTree DEF GetExtension
<1>3. QED
  BY <1>1, <1>2

\* The setters give a field a child, a list of one, or nothing.
LEMMA AtMostOne ==
  ASSUME NEW f, NEW v, NEW h, Given(f, v, h), f \in Fields, f \in Lists => Len(v) <= 1
  PROVE  f \in Lists => Len(Each(f, v, ArrayOf)) <= 1
<1>1. f \in Lists => Len(Each(f, v, ArrayOf)) = Len(v)
  BY EachArray DEF Given
<1>2. QED
  BY <1>1

LEMMA StoredInside ==
  ASSUME WrappersInv, NEW ms, NEW h, Good(ms, h), SameInside(h), NEW f, NEW v, Given(f, v, h), NEW m
  PROVE  SameInside(Stored(m, h, f, v).h)
<1>1. h \in Heaps /\ OneOver(h) /\ Elements(f, v) \subseteq Live(h)
  BY DEF Good, Given
<1>2. SameInside(Synced(h, Elements(f, v)))
  BY <1>1, SyncedInside
<1>3. QED
  BY <1>2 DEF Stored

LEMMA SetTree ==
  ASSUME ~ReadsIntoLists, WrappersInv, NEW p \in Parents, NEW f \in Fields \ InEO,
         NEW h, Good(msg, h), SameInside(h), NEW v, Given(f, v, h), f \in Lists => Len(v) <= 1,
         SetWrapperField(p, f, v, h) \/ SetRepeatedWrapperField(p, f, v, h)
  PROVE  [Tree!Next]_(Tree!vars)
<1> DEFINE s == Stored(msg[p], h, f, v)
           d == Each(f, v, ArrayOf)
<1>1. Become([msg EXCEPT ![p] = s.m], s.h)
  BY DEF SetWrapperField, SetRepeatedWrapperField
<1>2. s.m = WithField(msg[p], f, d, v, msg[p].eo) /\ Good([msg EXCEPT ![p] = s.m], s.h)
  BY StoreKeeps
<1>3. s.m.data = [msg[p].data EXCEPT ![f] = d]
  BY <1>2 DEF WithField
<1>4. SameInside(s.h) /\ (f \in Lists => Len(d) <= 1)
  BY StoredInside, AtMostOne
<1> HIDE DEF s, d
<1>5. Seems([msg EXCEPT ![p] = s.m], s.h)
  BY <1>2, <1>3, <1>4, SetSeems
<1>6. QED
  BY <1>1, <1>2, <1>5, TreeStep

LEMMA SetExtensionTree ==
  ASSUME ~ReadsIntoLists, WrappersInv, NEW p \in Parents, NEW f \in InEO,
         NEW h, Good(msg, h), SameInside(h), NEW v, Given(f, v, h), f \in Lists => Len(v) <= 1,
         SetExtension(p, f, v, h)
  PROVE  [Tree!Next]_(Tree!vars)
<1> DEFINE s == Stored(msg[p], h, f, v)
           m == [s.m EXCEPT !.eo = TRUE]
           d == Each(f, v, ArrayOf)
<1>1. Become([msg EXCEPT ![p] = m], s.h) /\ f \in Fields
  BY KindsOfFields DEF SetExtension, InEO
<1>2. m = WithField(msg[p], f, d, v, TRUE) /\ Good([msg EXCEPT ![p] = m], s.h)
  <2>1. f \in Fields
    BY <1>1
  <2>2. /\ m = WithField(msg[p], f, d, v, TRUE)
        /\ Good([msg EXCEPT ![p] = WithField(msg[p], f, d, v, TRUE)], s.h)
    BY <2>1, StoredKeeps DEF Given
  <2> HIDE DEF m
  <2>3. QED
    BY <2>2
<1> HIDE DEF m
<1>3. m.data = [msg[p].data EXCEPT ![f] = d]
  BY <1>2 DEF WithField
<1>4. SameInside(s.h) /\ (f \in Lists => Len(d) <= 1)
  BY <1>1, StoredInside, AtMostOne
<1> HIDE DEF s, d
<1>5. Seems([msg EXCEPT ![p] = m], s.h)
  BY <1>1, <1>2, <1>3, <1>4, SetSeems
<1>6. QED
  BY <1>1, <1>2, <1>5, TreeStep

LEMMA SetOneofTree ==
  ASSUME ~ReadsIntoLists, WrappersInv, NEW p \in Parents, NEW f \in Oneof,
         NEW h, Good(msg, h), SameInside(h), NEW v, Given(f, v, h),
         NEW undefined, SetOneofWrapperField(p, f, v, h, undefined)
  PROVE  [Tree!Next]_(Tree!vars)
<1> DEFINE m == IF undefined THEN msg[p] ELSE OthersCleared(msg[p], f)
           ms == [msg EXCEPT ![p] = m]
           s == Stored(m, h, f, v)
           d == Each(f, v, ArrayOf)
<1>1. Become([msg EXCEPT ![p] = s.m], s.h)
  BY DEF SetOneofWrapperField
<1>2. msg \in [Parents -> Messages] /\ f \in Fields /\ f \notin InEO /\ f \notin Lists
  BY EOIsBoolean, KindsOfFields
<1>3. Good(ms, h)
  <2>1. CASE undefined
    <3>1. ms = msg
      BY <1>2, <2>1
    <3>2. QED
      BY <3>1
  <2>2. CASE ~undefined
    BY <1>2, <2>2, OthersClearedKeeps
  <2>3. QED
    BY <2>1, <2>2
<1>4. ms[p] = m /\ \A x : [ms EXCEPT ![p] = x] = [msg EXCEPT ![p] = x]
  BY <1>2
<1>5. m = IF undefined THEN msg[p] ELSE OthersCleared(msg[p], f)
  OBVIOUS
<1> HIDE DEF ms, m
<1>6. s.m = WithField(m, f, d, v, m.eo) /\ Good([ms EXCEPT ![p] = s.m], s.h)
  <2>1. /\ Stored(ms[p], h, f, v).m = WithField(ms[p], f, d, v, ms[p].eo)
        /\ Good([ms EXCEPT ![p] = Stored(ms[p], h, f, v).m], Stored(ms[p], h, f, v).h)
    BY <1>2, <1>3, StoreKeeps
  <2>2. QED
    BY <1>4, <2>1
<1>7. Good([msg EXCEPT ![p] = s.m], s.h)
  BY <1>4, <1>6
<1>8. s.m.data = [m.data EXCEPT ![f] = d]
  BY <1>6 DEF WithField
<1>9. SameInside(s.h)
  BY <1>2, StoredInside
<1> HIDE DEF s, d
<1>10. Seems([msg EXCEPT ![p] = s.m], s.h)
  <2>1. CASE undefined
    BY <1>2, <1>5, <1>7, <1>8, <1>9, <2>1, SetSeems
  <2>2. CASE ~undefined
    BY <1>5, <1>7, <1>8, <1>9, <2>2, SetOneofSeems
  <2>3. QED
    BY <2>1, <2>2
<1>11. QED
  BY <1>1, <1>7, <1>10, TreeStep

LEMMA AddToRepeatedTree ==
  ASSUME ~ReadsIntoLists, WrappersInv, NEW p \in Parents, NEW f \in Repeated,
         NEW h, Good(msg, h), SameInside(h), NEW o \in Live(h),
         NEW i \in 0..Len(msg[p].data[f]), AddToRepeatedWrapperField(p, f, i, o, h)
  PROVE  [Tree!Next]_(Tree!vars)
<1>1. PICK w \in WrapRepeatedField(msg[p], h, f) :
        Become([msg EXCEPT ![p] = [w.m EXCEPT !.wrap[f] = InsertAt(@, i + 1, o),
                                              !.data[f] = InsertAt(@, i + 1, ArrayOf[o])]],
               Synced(w.h, {o}))
  BY DEF AddToRepeatedWrapperField
<1>2. f \in Lists /\ f \notin InEO /\ f \in Fields
  BY KindsOfFields
<1> DEFINE d == InsertAt(w.m.data[f], i + 1, ArrayOf[o])
           v == InsertAt(w.m.wrap[f], i + 1, o)
<1>3. Good([msg EXCEPT ![p] = WithField(w.m, f, d, v, w.m.eo)], Synced(w.h, {o}))
  BY <1>2, IntoListKeeps
<1>4. w.m \in Messages
  <2>1. Good([msg EXCEPT ![p] = w.m], w.h)
    BY <1>2, Wrapping
  <2>2. msg \in [Parents -> Messages]
    BY EOIsBoolean
  <2>3. QED
    BY <2>1, <2>2, GoodOne
<1>5. [w.m EXCEPT !.wrap[f] = InsertAt(@, i + 1, o), !.data[f] = InsertAt(@, i + 1, ArrayOf[o])]
        = [w.m EXCEPT !.wrap[f] = v, !.data[f] = d]
  <2>1. [w.m EXCEPT !.wrap[f] = v] = [data |-> w.m.data, wrap |-> [w.m.wrap EXCEPT ![f] = v], eo |-> w.m.eo]
    BY <1>4 DEF Messages
  <2> HIDE DEF v
  <2>2. [w.m EXCEPT !.wrap[f] = v].data[f] = w.m.data[f]
    BY <2>1
  <2>3. QED
    BY <2>2 DEF v, d
<1>6. Become([msg EXCEPT ![p] = [w.m EXCEPT !.wrap[f] = v, !.data[f] = d]], Synced(w.h, {o}))
  BY <1>1, <1>5
<1>7. w.m.data = msg[p].data /\ ArrayOf[o] \in Arrays
  <2>1. f \in InEO => msg[p].eo
    BY <1>2
  <2>2. Good([msg EXCEPT ![p] = w.m], w.h) /\ w.m.data = msg[p].data
    BY <1>2, <2>1, WrappingIsNotSeen
  <2>3. o \in Objs
    BY DEF Live
  <2>4. QED
    BY <2>2, <2>3, ArrayOfType
<1>8. d = InsertAt(msg[p].data[f], i + 1, ArrayOf[o])
  BY <1>7
<1> HIDE DEF d, v
<1>9. [w.m EXCEPT !.wrap[f] = v, !.data[f] = d] = WithField(w.m, f, d, v, w.m.eo)
  BY <1>2, <1>4, MessageWith
<1> DEFINE m == WithField(w.m, f, d, v, w.m.eo)
<1>10. Become([msg EXCEPT ![p] = m], Synced(w.h, {o}))
  BY <1>6, <1>9
<1>11. m.data = [msg[p].data EXCEPT ![f] = d]
  BY <1>7 DEF WithField
<1>12. SameInside(Synced(w.h, {o}))
  <2>1. Good([msg EXCEPT ![p] = w.m], w.h) /\ o \in Live(w.h)
    BY <1>2, Wrapping
  <2>2. w.h \in Heaps /\ OneOver(w.h)
    BY <2>1 DEF Good
  <2>3. SameInside(w.h)
    <3>1. \A a \in Arrays : Contents(w.h)[a] = Contents(h)[a]
      BY <1>2, WrappingInside
    <3>2. QED
      BY <3>1, HeldNow DEF SameInside
  <2>4. QED
    BY <2>1, <2>2, <2>3, SyncedInside
<1>13. i + 1 \in 1 .. Len(msg[p].data[f]) + 1
  <2>1. Len(msg[p].data[f]) \in Nat
    BY <1>2, IntoListKeeps
  <2>2. QED
    BY <2>1
<1> HIDE DEF m
<1>14. Good([msg EXCEPT ![p] = m], Synced(w.h, {o}))
  BY <1>3 DEF m
<1>15. Seems([msg EXCEPT ![p] = m], Synced(w.h, {o}))
  BY <1>2, <1>7, <1>8, <1>11, <1>12, <1>13, <1>14, InsertSeems
<1>16. QED
  BY <1>10, <1>14, <1>15, TreeStep

LEMMA ReadBinaryExtensionTree ==
  ASSUME ~ReadsIntoLists, WrappersInv, NEW p \in Parents, NEW f \in InEO,
         NEW h, Good(msg, h), SameInside(h), NEW o \in Live(h),
         ReadBinaryExtension(p, f, o, h)
  PROVE  [Tree!Next]_(Tree!vars)
<1>1. CASE f \in Extensions
  <2>1. SetExtension(p, f, o, h) /\ Given(f, o, h) /\ f \notin Lists
    BY <1>1, KindsOfFields, ChildIsGiven DEF ReadBinaryExtension
  <2>2. QED
    BY <2>1, SetExtensionTree
<1>2. CASE f \notin Extensions
  <2>1. f \in Lists
    BY <1>2, KindsOfFields DEF InEO
  <2>2. SetExtension(p, f, <<o>>, h) /\ Given(f, <<o>>, h) /\ Len(<<o>>) <= 1
    BY <1>2, <2>1, ChildIsGiven DEF ReadBinaryExtension
  <2>3. QED
    BY <2>2, SetExtensionTree
<1>3. QED
  BY <1>1, <1>2

LEMMA FieldTree ==
  ASSUME ~ReadsIntoLists, WrappersInv, NEW p \in Parents, NEW f \in Fields, CallOnField(p, f)
  PROVE  [Tree!Next]_(Tree!vars)
<1>1. Good(msg, heap) /\ SameInside(heap)
  BY DEF WrappersInv, SameInside
<1>2. CASE f \in Singular \union Oneof /\ GetWrapperField(p, f)
  BY <1>2, KindsOfFields, GetWrapperFieldTree
<1>3. CASE f \in Repeated /\ GetRepeatedWrapperField(p, f)
  BY <1>3, KindsOfFields, GetRepeatedWrapperFieldTree
<1>4. CASE f \in InEO /\ GetExtension(p, f)
  BY <1>4, GetExtensionTree
<1>5. CASE f \in Singular /\ SetWrapperField(p, f, Unset, heap)
  BY <1>1, <1>5, KindsOfFields, NothingIsGiven, SetTree
<1>6. CASE f \in Oneof /\ \E undefined \in BOOLEAN : SetOneofWrapperField(p, f, Unset, heap, undefined)
  BY <1>1, <1>6, KindsOfFields, NothingIsGiven, SetOneofTree
<1>7. CASE f \in Repeated /\ SetRepeatedWrapperField(p, f, <<>>, heap)
  <2>1. Len(<<>>) <= 1
    OBVIOUS
  <2>2. QED
    BY <1>1, <1>7, <2>1, KindsOfFields, NothingIsGiven, SetTree
<1>8. CASE f \in Extensions /\ SetExtension(p, f, Unset, heap)
  BY <1>1, <1>8, KindsOfFields, NothingIsGiven, SetExtensionTree
<1>9. CASE f \in RepeatedExtensions /\ SetExtension(p, f, <<>>, heap)
  <2>1. Len(<<>>) <= 1
    OBVIOUS
  <2>2. QED
    BY <1>1, <1>9, <2>1, KindsOfFields, NothingIsGiven, SetExtensionTree
<1>10. ASSUME NEW c \in Children,
              \/ f \in Singular /\ SetWrapperField(p, f, c.o, c.h)
              \/ f \in Oneof /\ SetOneofWrapperField(p, f, c.o, c.h, FALSE)
              \/ f \in Repeated /\ SetRepeatedWrapperField(p, f, <<c.o>>, c.h)
              \/ f \in Repeated /\ \E i \in 0..Len(msg[p].data[f]) :
                   AddToRepeatedWrapperField(p, f, i, c.o, c.h)
              \/ f \in Extensions /\ SetExtension(p, f, c.o, c.h)
              \/ f \in RepeatedExtensions /\ SetExtension(p, f, <<c.o>>, c.h)
       PROVE  [Tree!Next]_(Tree!vars)
  <2>1. /\ Good(msg, c.h) /\ SameInside(c.h) /\ c.o \in Live(c.h) /\ Len(<<c.o>>) <= 1
        /\ f \notin Lists => Given(f, c.o, c.h)
        /\ f \in Lists => Given(f, <<c.o>>, c.h)
    BY ChildIs, ChildInside, ChildIsGiven
  <2>2. CASE f \in Singular /\ SetWrapperField(p, f, c.o, c.h)
    BY <2>1, <2>2, KindsOfFields, SetTree
  <2>3. CASE f \in Oneof /\ SetOneofWrapperField(p, f, c.o, c.h, FALSE)
    BY <2>1, <2>3, KindsOfFields, SetOneofTree
  <2>4. CASE f \in Repeated /\ SetRepeatedWrapperField(p, f, <<c.o>>, c.h)
    BY <2>1, <2>4, KindsOfFields, SetTree
  <2>5. CASE f \in Repeated /\ \E i \in 0..Len(msg[p].data[f]) :
               AddToRepeatedWrapperField(p, f, i, c.o, c.h)
    BY <2>1, <2>5, AddToRepeatedTree
  <2>6. CASE f \in Extensions /\ SetExtension(p, f, c.o, c.h)
    BY <2>1, <2>6, KindsOfFields, SetExtensionTree
  <2>7. CASE f \in RepeatedExtensions /\ SetExtension(p, f, <<c.o>>, c.h)
    BY <2>1, <2>7, KindsOfFields, SetExtensionTree
  <2>8. QED
    BY <1>10, <2>2, <2>3, <2>4, <2>5, <2>6, <2>7
<1>11. CASE f \in InEO /\ \E c \in NewChildren : ReadBinaryExtension(p, f, c.o, c.h)
  <2>1. PICK c \in NewChildren : ReadBinaryExtension(p, f, c.o, c.h)
    BY <1>11
  <2>2. c \in Children
    BY DEF Children
  <2>3. QED
    BY <1>11, <2>1, <2>2, ChildIs, ChildInside, ReadBinaryExtensionTree
<1>12. QED
  BY <1>2, <1>3, <1>4, <1>5, <1>6, <1>7, <1>8, <1>9, <1>10, <1>11, Zenon DEF CallOnField

\* Only what is in the child o changes, which a message holds.
LEMMA EditSeems ==
  ASSUME ~ReadsIntoLists, WrappersInv, NEW o \in LiveObjs, NEW h, Good(msg, h),
         \A a \in Arrays \ {ArrayOf[o]} : Contents(h)[a] = Contents(heap)[a]
  PROVE  Seems(msg, h)
<1> DEFINE n == ArrayOf[o]
           x == Seen(msg, heap)
           y == Seen(msg, h)
<1>1. n \in HeldIn(msg) /\ HeldIn(msg) \subseteq Arrays
  BY HeldNow, KeptIs, LiveIs DEF WrappersInv, Collected
<1>2. n \in Tree!Held(x.field)
  BY <1>1, HeldNow, HeldIsHeld DEF Seen
<1> HIDE DEF n
<1>3. HeldContents(msg, h) = [HeldContents(msg, heap) EXCEPT ![n] = HeldContents(msg, h)[n]]
  BY <1>1 DEF HeldContents, n
<1>4. y.content = [x.content EXCEPT ![n] = y.content[n]] /\ y.field = x.field
  BY <1>3 DEF Seen
<1>5. Tree!Edit(x, y)
  BY <1>2, <1>4 DEF Tree!Edit
<1>6. QED
  BY <1>5 DEF Seems, Tree!Call

LEMMA OthersStay ==
  ASSUME NEW h \in Heaps, OneOver(h), NEW h2 \in Heaps, Live(h2) = Live(h), NEW o \in Live(h),
         \A a \in Arrays \ {ArrayOf[o]} : h2.cell[a] = h.cell[a],
         \A x \in Live(h) \ {o} : h2.obj[x] = h.obj[x]
  PROVE  \A a \in Arrays \ {ArrayOf[o]} : Contents(h2)[a] = Contents(h)[a]
<1>1. OneOver(h2)
  BY DEF OneOver
<1>2. ASSUME NEW a \in Arrays \ {ArrayOf[o]} PROVE Contents(h2)[a] = Contents(h)[a]
  <2>1. CASE \E x \in Live(h) : ArrayOf[x] = a
    <3>1. PICK x \in Live(h) : ArrayOf[x] = a
      BY <2>1
    <3>2. Contents(h)[a] = IF h.obj[x] = NoMap THEN h.cell[a] ELSE h.obj[x]
      BY <3>1, ContentsAt
    <3>3. Contents(h2)[a] = IF h2.obj[x] = NoMap THEN h2.cell[a] ELSE h2.obj[x]
      BY <1>1, <3>1, ContentsAt
    <3>4. h2.obj[x] = h.obj[x] /\ h2.cell[a] = h.cell[a]
      BY <3>1
    <3>5. QED
      BY <3>2, <3>3, <3>4
  <2>2. CASE \A x \in Live(h) : ArrayOf[x] # a
    BY <1>1, <2>2, ContentsAt
  <2>3. QED
    BY <2>1, <2>2
<1>3. QED
  BY <1>2

LEMMA MapOfChild ==
  ASSUME WrappersInv, NEW o \in LiveObjs, NEW v \in Vals
  PROVE  LET h == [heap EXCEPT !.obj[o] = v]
         IN  /\ Good(msg, h) /\ h \in Heaps /\ OneOver(h) /\ Live(h) = LiveObjs /\ h.cell = cell
             /\ \A x \in Objs : h.obj[x] = IF x = o THEN v ELSE obj[x]
             /\ \A a \in Arrays \ {ArrayOf[o]} : Contents(h)[a] = Contents(heap)[a]
<1> DEFINE h == [heap EXCEPT !.obj[o] = v]
<1>1. /\ Good(msg, heap) /\ heap \in Heaps /\ OneOver(heap) /\ Live(heap) = LiveObjs
      /\ o \in Objs /\ heap.obj = obj /\ heap.cell = cell
  BY HeldNow, LiveIs
<1>2. h \in Heaps /\ Live(h) = LiveObjs
  <2>1. cell \in [Arrays -> Vals] /\ o \in Live(heap) /\ v \in Vals \union {NoMap}
    BY <1>1 DEF Heaps
  <2>2. QED
    BY <1>1, <2>1, HeapWith
<1>3. h.cell = cell /\ \A x \in Objs : h.obj[x] = IF x = o THEN v ELSE obj[x]
  BY <1>1 DEF Heaps
<1> HIDE DEF h
<1>4. Good(msg, h)
  BY <1>1, <1>2, SameObjects
<1>5. OneOver(h)
  BY <1>4 DEF Good
<1>6. \A x \in Live(heap) \ {o} : h.obj[x] = heap.obj[x]
  BY <1>1, <1>3, LiveIs
<1>7. \A a \in Arrays \ {ArrayOf[o]} : Contents(h)[a] = Contents(heap)[a]
  BY <1>1, <1>2, <1>3, <1>6, OthersStay
<1>8. QED
  BY <1>2, <1>3, <1>4, <1>5, <1>7 DEF h

LEMMA GetMapFieldTree ==
  ASSUME ~ReadsIntoLists, WrappersInv, NEW o \in LiveObjs, GetMapField(o)
  PROVE  [Tree!Next]_(Tree!vars)
<1> DEFINE v == cell[ArrayOf[o]]
           h == [heap EXCEPT !.obj[o] = v]
<1>1. /\ heap \in Heaps /\ OneOver(heap) /\ Live(heap) = LiveObjs /\ o \in Objs
      /\ ArrayOf[o] \in Arrays /\ heap.obj = obj /\ heap.cell = cell
  BY HeldNow, LiveIs, ArrayOfType
<1>2. v \in Vals /\ v # NoMap
  BY <1>1, NoMapIsNoObject DEF Heaps
<1>3. obj[o] = NoMap /\ Become(msg, h)
  BY DEF GetMapField
<1>4. v = cell[ArrayOf[o]]
  OBVIOUS
<1> HIDE DEF v
<1>5. /\ Good(msg, h) /\ h \in Heaps /\ OneOver(h) /\ Live(h) = LiveObjs
      /\ h.obj[o] = v
      /\ \A a \in Arrays \ {ArrayOf[o]} : Contents(h)[a] = Contents(heap)[a]
  BY <1>1, <1>2, MapOfChild
<1> HIDE DEF h
<1>6. Contents(h)[ArrayOf[o]] = v
  BY <1>1, <1>2, <1>5, ContentsAt
<1>7. Contents(heap)[ArrayOf[o]] = v
  BY <1>1, <1>3, <1>4, ContentsAt
<1>8. SameInside(h)
  BY <1>5, <1>6, <1>7, HeldNow DEF SameInside
<1>9. Seems(msg, h)
  BY <1>8, NotSeen
<1>10. QED
  BY <1>3, <1>5, <1>9, TreeStep

LEMMA EditMapTree ==
  ASSUME ~ReadsIntoLists, WrappersInv, NEW o \in LiveObjs, NEW v \in Vals, EditMap(o, v)
  PROVE  [Tree!Next]_(Tree!vars)
<1> DEFINE h == [heap EXCEPT !.obj[o] = v]
<1>1. Become(msg, h)
  BY DEF EditMap
<1>2. Good(msg, h) /\ \A a \in Arrays \ {ArrayOf[o]} : Contents(h)[a] = Contents(heap)[a]
  BY MapOfChild
<1> HIDE DEF h
<1>3. Seems(msg, h)
  BY <1>2, EditSeems
<1>4. QED
  BY <1>1, <1>2, <1>3, TreeStep

LEMMA ToArrayOfChildTree ==
  ASSUME ~ReadsIntoLists, WrappersInv, NEW o \in LiveObjs, ToArrayOfChild(o)
  PROVE  [Tree!Next]_(Tree!vars)
<1>1. Become(msg, Synced(heap, {o}))
  BY DEF ToArrayOfChild
<1>2. {o} \subseteq Live(heap) /\ SameInside(heap)
  BY LiveIs DEF SameInside
<1>3. Good(msg, Synced(heap, {o}))
  BY <1>2, HeldNow, SyncedKeeps
<1>4. SameInside(Synced(heap, {o}))
  BY <1>2, HeldNow, SyncedInside
<1>5. Seems(msg, Synced(heap, {o}))
  BY <1>4, NotSeen
<1>6. QED
  BY <1>1, <1>3, <1>5, TreeStep

LEMMA CopyIntoChildTree ==
  ASSUME ~ReadsIntoLists, WrappersInv, NEW o \in LiveObjs, NEW x \in LiveObjs, CopyIntoChild(x, o)
  PROVE  [Tree!Next]_(Tree!vars)
<1> DEFINE h == Synced(heap, {x, o})
           cells == [h.cell EXCEPT ![ArrayOf[o]] = h.cell[ArrayOf[x]]]
           h1 == [h EXCEPT !.cell = cells]
           h2 == [h1 EXCEPT !.obj[o] = NoMap]
<1>1. /\ heap \in Heaps /\ OneOver(heap) /\ Live(heap) = LiveObjs /\ Good(msg, heap)
      /\ {x, o} \subseteq Live(heap) /\ ArrayOf[o] \in Arrays /\ ArrayOf[x] \in Arrays /\ o \in Objs
  BY HeldNow, LiveIs, ArrayOfType
<1>2. h \in Heaps /\ OneOver(h) /\ Live(h) = LiveObjs
  BY <1>1, SyncedIs
<1>3. \A a \in Arrays : Contents(h)[a] = Contents(heap)[a]
  BY <1>1, SyncedContents
<1>4. Become(msg, h2)
  BY DEF CopyIntoChild
<1> HIDE DEF h
<1>5. /\ cells \in [Arrays -> Vals]
      /\ \A a \in Arrays \ {ArrayOf[o]} : cells[a] = h.cell[a]
  BY <1>1, <1>2 DEF Heaps
<1> HIDE DEF cells
<1>6. h1 \in Heaps /\ Live(h1) = LiveObjs /\ h1.cell = cells /\ h1.obj = h.obj
  BY <1>2, <1>5 DEF Heaps, Live
<1> HIDE DEF h1
<1>7. h2 \in Heaps /\ Live(h2) = LiveObjs
  <2>1. o \in Live(h1) /\ NoMap \in Vals \union {NoMap}
    BY <1>6
  <2>2. QED
    BY <1>5, <1>6, <2>1, HeapWith
<1>8. h2.cell = cells /\ \A y \in Objs \ {o} : h2.obj[y] = h.obj[y]
  BY <1>6 DEF Heaps
<1> HIDE DEF h2
<1>9. \A y \in Live(h) \ {o} : h2.obj[y] = h.obj[y]
  BY <1>2, <1>8, LiveIs
<1>10. \A a \in Arrays \ {ArrayOf[o]} : Contents(h2)[a] = Contents(h)[a]
  BY <1>2, <1>5, <1>7, <1>8, <1>9, OthersStay
<1>11. Good(msg, h2)
  BY <1>1, <1>7, SameObjects
<1>12. Seems(msg, h2)
  BY <1>3, <1>10, <1>11, EditSeems
<1>13. QED
  BY <1>4, <1>11, <1>12, TreeStep

LEMMA ChildTree ==
  ASSUME ~ReadsIntoLists, WrappersInv, NEW o \in LiveObjs, CallOnChild(o)
  PROVE  [Tree!Next]_(Tree!vars)
BY GetMapFieldTree, EditMapTree, ToArrayOfChildTree, CopyIntoChildTree DEF CallOnChild

-----------------------------------------------------------------------------
(* Copies *)

LEMMA ContentsSame ==
  ASSUME NEW h \in Heaps, OneOver(h), NEW h2 \in Heaps, Live(h2) = Live(h), h2.obj = h.obj,
         NEW a \in Arrays, h2.cell[a] = h.cell[a]
  PROVE  Contents(h2)[a] = Contents(h)[a]
<1>1. OneOver(h2)
  BY DEF OneOver
<1>2. CASE \E o \in Live(h) : ArrayOf[o] = a
  <2>1. PICK o \in Live(h) : ArrayOf[o] = a
    BY <1>2
  <2>2. Contents(h)[a] = IF h.obj[o] = NoMap THEN h.cell[a] ELSE h.obj[o]
    BY <2>1, ContentsAt
  <2>3. Contents(h2)[a] = IF h2.obj[o] = NoMap THEN h2.cell[a] ELSE h2.obj[o]
    BY <1>1, <2>1, ContentsAt
  <2>4. QED
    BY <2>2, <2>3
<1>3. CASE \A o \in Live(h) : ArrayOf[o] # a
  BY <1>1, <1>3, ContentsAt
<1>4. QED
  BY <1>2, <1>3

\* The places of a message, and what is there, are the tree's.
LEMMA PlacesAre ==
  ASSUME NEW m
  PROVE  /\ Tree!Places(m.data) = Occurrences(m)
         /\ \A x : Tree!NodeAt(m.data, x) = At(m, x)
BY TreeFields DEF Tree!Places, Occurrences, Tree!NodeAt, At

\* A copy has the places of its original, and in each the array g says.
LEMMA PlacesOfCopy ==
  ASSUME NEW m, WellFormed(m), NEW F, F \subseteq Arrays, NEW g \in Own(Occurrences(m), F)
  PROVE  /\ Occurrences(CopyOf(m, g)) = Occurrences(m)
         /\ \A x \in Occurrences(m) : At(CopyOf(m, g), x) = g[x] /\ g[x] \in F
<1> DEFINE new == CopyOf(m, g)
<1>1. /\ WellFormed(new)
      /\ \A f \in Lists : Len(new.data[f]) = Len(m.data[f])
      /\ \A f \in Lists : \A i \in 1..Len(m.data[f]) : new.data[f][i] = g[<<f, i>>]
      /\ \A f \in Fields \ Lists : new.data[f] = IF m.data[f] = Unset THEN Unset ELSE g[<<f, 1>>]
  BY CopyOfIs
<1> HIDE DEF new
<1>2. \A x \in Occurrences(m) : g[x] \in F
  BY DEF Own
<1>3. \A f \in Fields \ Lists : new.data[f] # Unset <=> m.data[f] # Unset
  <2>1. ASSUME NEW f \in Fields \ Lists, m.data[f] # Unset PROVE new.data[f] # Unset
    <3>1. <<f, 1>> \in Occurrences(m)
      BY <2>1, OccurrencesAre
    <3>2. g[<<f, 1>>] \in Arrays /\ new.data[f] = g[<<f, 1>>]
      BY <1>1, <1>2, <2>1, <3>1
    <3>3. QED
      BY <3>2, UnsetIsNothing
  <2>2. QED
    BY <1>1, <2>1
<1>4. \A f \in Lists : DOMAIN new.data[f] = DOMAIN m.data[f]
  <2>1. ASSUME NEW f \in Lists PROVE DOMAIN new.data[f] = DOMAIN m.data[f]
    <3>1. DOMAIN m.data[f] = 1..Len(m.data[f])
      BY OccurrencesAre
    <3>2. DOMAIN new.data[f] = 1..Len(new.data[f])
      BY <1>1, OccurrencesAre
    <3>3. QED
      BY <1>1, <3>1, <3>2
  <2>2. QED
    BY <2>1
<1>5. Occurrences(new) = Occurrences(m)
  <2>1. {k \in Fields \ Lists : new.data[k] # Unset} = {k \in Fields \ Lists : m.data[k] # Unset}
    BY <1>3
  <2>2. UNION {{f} \X DOMAIN new.data[f] : f \in Lists} = UNION {{f} \X DOMAIN m.data[f] : f \in Lists}
    BY <1>4
  <2>3. QED
    BY <2>1, <2>2, Zenon DEF Occurrences
<1>6. ASSUME NEW x \in Occurrences(m) PROVE At(new, x) = g[x]
  <2>1. /\ x[1] \in Fields /\ x = <<x[1], x[2]>>
        /\ IF x[1] \in Lists THEN x[2] \in 1..Len(m.data[x[1]])
                             ELSE x[2] = 1 /\ m.data[x[1]] # Unset
    BY OccurrencesAre
  <2>2. CASE x[1] \in Lists
    <3>1. new.data[x[1]][x[2]] = g[<<x[1], x[2]>>]
      BY <1>1, <2>1, <2>2
    <3>2. QED
      BY <2>1, <2>2, <3>1 DEF At
  <2>3. CASE x[1] \notin Lists
    <3>1. new.data[x[1]] = g[<<x[1], 1>>] /\ x[2] = 1
      BY <1>1, <2>1, <2>3
    <3>2. g[<<x[1], 1>>] = g[x]
      BY <2>1, <3>1
    <3>3. QED
      BY <2>3, <3>1, <3>2 DEF At
  <2>4. QED
    BY <2>2, <2>3
<1>7. QED
  BY <1>2, <1>5, <1>6 DEF new

\* What the children that messages held, and the new ones, show once the message p has
\* been copied.
LEMMA CopiedContents ==
  ASSUME ~ReadsIntoLists, WrappersInv, NEW p \in Parents, NEW S, S \subseteq LiveObjs,
         NEW g \in Own(Occurrences(msg[p]), FreeArrays)
  PROVE  LET h == Synced(heap, ObjsOf(msg[p]))
             h2 == Synced([h EXCEPT !.cell = CellsOf(msg[p], g, h)], S)
         IN  /\ SameInside(h2)
             /\ \A x \in Occurrences(msg[p]) : Contents(h2)[g[x]] = Contents(heap)[At(msg[p], x)]
<1> DEFINE m == msg[p]
           h == Synced(heap, ObjsOf(m))
           cells == CellsOf(m, g, h)
           h1 == [h EXCEPT !.cell = cells]
           h2 == Synced(h1, S)
<1>1. /\ Good(msg, heap) /\ WellFormed(m) /\ heap \in Heaps /\ OneOver(heap)
      /\ Live(heap) = LiveObjs /\ ObjsOf(m) \subseteq LiveObjs /\ HeldIn(msg) \subseteq Arrays
  BY HeldNow, MessageParts, LiveIs DEF Good
<1>2. cells \in [Arrays -> Vals] /\ h \in Heaps /\ Live(h) = LiveObjs /\ h.obj = obj
  BY CopiedIs
<1>3. \A a \in Arrays : Contents(h)[a] = Contents(heap)[a]
  BY <1>1, SyncedContents
<1>4. /\ \A x \in Occurrences(m) : g[x] \in FreeArrays
      /\ \A x, y \in Occurrences(m) : g[x] = g[y] => x = y
      /\ DOMAIN g = Occurrences(m)
  BY DEF Own
<1>5. \A a \in FreeArrays : a \in Arrays /\ a \notin HeldIn(msg) /\ \A o \in LiveObjs : ArrayOf[o] # a
  BY FreeArraysAre DEF HeldIn
<1>6. ASSUME NEW x \in Occurrences(m) PROVE cells[g[x]] = h.cell[At(m, x)]
  <2>1. (CHOOSE y \in DOMAIN g : g[y] = g[x]) = x
    BY <1>4
  <2>2. g[x] \in Arrays /\ \E y \in DOMAIN g : g[y] = g[x]
    BY <1>4, <1>5
  <2> HIDE DEF h
  <2>3. QED
    BY <2>1, <2>2 DEF CellsOf
<1>7. ASSUME NEW a \in HeldIn(msg) PROVE cells[a] = h.cell[a]
  <2>1. a \in Arrays /\ ~ \E y \in DOMAIN g : g[y] = a
    BY <1>1, <1>4, <1>5
  <2> HIDE DEF h
  <2>2. QED
    BY <2>1 DEF CellsOf
<1> HIDE DEF cells
<1>8. \A x \in Occurrences(m) : h.cell[At(m, x)] = Contents(heap)[At(m, x)] /\ At(m, x) \in Arrays
  <2>1. ASSUME NEW x \in Occurrences(m)
        PROVE  h.cell[At(m, x)] = Contents(heap)[At(m, x)] /\ At(m, x) \in Arrays
    <3>1. x[1] \in Fields /\ At(m, x) \in Elements(x[1], m.data[x[1]]) /\ At(m, x) \in Arrays
      BY <1>1, OccurrencesAre, AtIs
    <3>2. QED
      BY <1>1, <3>1, MessageIsSynced
  <2>2. QED
    BY <2>1
<1> HIDE DEF h
<1>9. OneOver(h)
  BY <1>1, <1>2 DEF OneOver
<1>10. h1 \in Heaps /\ Live(h1) = LiveObjs /\ h1.obj = h.obj /\ h1.cell = cells
  BY <1>2 DEF Heaps, Live
<1> HIDE DEF h1
<1>11. OneOver(h1)
  BY <1>9, <1>2, <1>10 DEF OneOver
<1>12. \A a \in Arrays : Contents(h2)[a] = Contents(h1)[a]
  BY <1>10, <1>11, SyncedContents
<1> HIDE DEF h2
<1>13. SameInside(h2)
  <2>1. ASSUME NEW a \in HeldIn(msg) PROVE Contents(h2)[a] = Contents(heap)[a]
    <3>1. a \in Arrays /\ h1.cell[a] = h.cell[a]
      BY <1>1, <1>7, <1>10
    <3>2. Contents(h1)[a] = Contents(h)[a]
      BY <1>2, <1>9, <1>10, <3>1, ContentsSame
    <3>3. QED
      BY <1>3, <1>12, <3>1, <3>2
  <2>2. QED
    BY <2>1 DEF SameInside
<1>14. ASSUME NEW x \in Occurrences(m) PROVE Contents(h2)[g[x]] = Contents(heap)[At(m, x)]
  <2>1. g[x] \in Arrays /\ \A o \in Live(h1) : ArrayOf[o] # g[x]
    BY <1>4, <1>5, <1>10
  <2>2. Contents(h1)[g[x]] = cells[g[x]]
    BY <1>10, <1>11, <2>1, ContentsAt
  <2>3. QED
    BY <1>6, <1>8, <1>12, <2>1, <2>2
<1>15. QED
  BY <1>13, <1>14 DEF m, h, cells, h1, h2

LEMMA CopySeems ==
  ASSUME ~ReadsIntoLists, WrappersInv, NEW p \in Parents, NEW q \in Parents,
         NEW g \in Own(Occurrences(msg[p]), FreeArrays), NEW h,
         Good([msg EXCEPT ![q] = CopyOf(msg[p], g)], h), SameInside(h),
         \A x \in Occurrences(msg[p]) : Contents(h)[g[x]] = Contents(heap)[At(msg[p], x)]
  PROVE  Seems([msg EXCEPT ![q] = CopyOf(msg[p], g)], h)
<1> DEFINE m == msg[p]
           new == CopyOf(m, g)
           ms == [msg EXCEPT ![q] = new]
           x == Seen(msg, heap)
           y == Seen(ms, h)
<1>1. /\ Good(msg, heap) /\ WellFormed(m) /\ msg \in [Parents -> Messages]
      /\ HeldIn(msg) \subseteq Arrays /\ FreeArrays \subseteq Arrays
  BY HeldNow, MessageParts DEF FreeArrays, Good
<1>2. /\ Occurrences(new) = Occurrences(m)
      /\ \A at \in Occurrences(m) : At(new, at) = g[at] /\ g[at] \in FreeArrays
  BY <1>1, PlacesOfCopy
<1>3. WellFormed(new) /\ ms[q] = new /\ \A r \in Parents \ {q} : ms[r] = msg[r]
  BY <1>1, CopyOfIs
<1>4. \A at, b \in Occurrences(m) : g[at] = g[b] => at = b
  BY DEF Own
<1>5. \A a \in FreeArrays : a \notin HeldIn(msg)
  BY FreeArraysAre DEF HeldIn
<1> HIDE DEF new
<1>6. x.field[p] = m.data /\ y.field[q] = new.data
  BY <1>3 DEF Seen, DataOf
<1>7. \A r \in Parents \ {q} : y.field[r] = x.field[r]
  BY <1>3 DEF Seen, DataOf
<1> HIDE DEF ms
<1>8. Tree!Places(m.data) = Occurrences(m) /\ Tree!Places(new.data) = Occurrences(m)
  BY <1>2, PlacesAre
<1>9. Tree!Held(x.field) = HeldIn(msg)
  BY <1>1, HeldIsHeld DEF Seen
<1>10. ASSUME NEW at \in Occurrences(m)
       PROVE  /\ Tree!NodeAt(new.data, at) = g[at] /\ Tree!NodeAt(m.data, at) = At(m, at)
              /\ y.content[g[at]] = x.content[At(m, at)]
  <2>1. Tree!NodeAt(new.data, at) = g[at] /\ Tree!NodeAt(m.data, at) = At(m, at)
    BY <1>2, PlacesAre
  <2>2. At(m, at) \in HeldIn(msg)
    BY <1>1, AtIs DEF HeldIn
  <2>3. g[at] \in HeldIn(ms) /\ g[at] \in Arrays
    <3>1. at \in Occurrences(new) /\ At(new, at) = g[at]
      BY <1>2
    <3>2. g[at] \in ArraysOf(ms[q])
      BY <1>3, <3>1, AtIs
    <3>3. QED
      BY <1>1, <1>2, <3>2 DEF HeldIn
  <2>4. y.content[g[at]] = Contents(h)[g[at]]
    BY <2>3 DEF Seen, HeldContents
  <2>5. x.content[At(m, at)] = Contents(heap)[At(m, at)]
    BY <1>1, <2>2 DEF Seen, HeldContents
  <2>6. QED
    BY <2>1, <2>4, <2>5
<1>11. Tree!ContentIsKept(x, y)
  BY ContentStays DEF ms, new
<1> HIDE DEF x, y, m
<1>12. Tree!Copy(x, y, p, q)
  <2>1. Tree!Places(x.field[p]) = Tree!Places(y.field[q])
    BY <1>6, <1>8
  <2>2. ASSUME NEW at \in Tree!Places(y.field[q])
        PROVE  /\ Tree!NodeAt(y.field[q], at) \notin Tree!Held(x.field)
               /\ \A b \in Tree!Places(y.field[q]) :
                    Tree!NodeAt(y.field[q], at) = Tree!NodeAt(y.field[q], b) => at = b
               /\ y.content[Tree!NodeAt(y.field[q], at)] = x.content[Tree!NodeAt(x.field[p], at)]
    <3>1. at \in Occurrences(m) /\ \A b \in Tree!Places(y.field[q]) : b \in Occurrences(m)
      BY <1>6, <1>8
    <3>2. g[at] \in FreeArrays
      BY <1>2, <3>1
    <3>3. Tree!NodeAt(y.field[q], at) \notin Tree!Held(x.field)
      BY <1>5, <1>6, <1>9, <1>10, <3>1, <3>2
    <3>4. \A b \in Tree!Places(y.field[q]) :
            Tree!NodeAt(y.field[q], at) = Tree!NodeAt(y.field[q], b) => at = b
      BY <1>4, <1>6, <1>10, <3>1
    <3>5. y.content[Tree!NodeAt(y.field[q], at)] = x.content[Tree!NodeAt(x.field[p], at)]
      BY <1>6, <1>10, <3>1
    <3>6. QED
      BY <3>3, <3>4, <3>5
  <2>3. QED
    BY <1>7, <2>1, <2>2 DEF Tree!Copy
<1>13. Seems(ms, h)
  BY <1>11, <1>12 DEF Seems, Tree!Call, x, y
<1>14. QED
  BY <1>13 DEF ms, new, m

LEMMA CopyToTree ==
  ASSUME ~ReadsIntoLists, WrappersInv, NEW p \in Parents, NEW q \in Parents,
         NEW S, S \subseteq LiveObjs, CopyTo(p, q, S)
  PROVE  [Tree!Next]_(Tree!vars)
<1>1. PICK g \in Own(Occurrences(msg[p]), FreeArrays) :
        LET h == Synced(heap, ObjsOf(msg[p]))
        IN  Become([msg EXCEPT ![q] = CopyOf(msg[p], g)],
                   Synced([h EXCEPT !.cell = CellsOf(msg[p], g, h)], S))
  BY OneOfIs DEF CopyTo, ArrayToClone, SyncedBy, CopyOf, CellsOf
<1> DEFINE h == Synced(heap, ObjsOf(msg[p]))
           h2 == Synced([h EXCEPT !.cell = CellsOf(msg[p], g, h)], S)
           ms == [msg EXCEPT ![q] = CopyOf(msg[p], g)]
<1>2. Good(ms, h2)
  BY CopiedIs
<1>3. SameInside(h2) /\ \A x \in Occurrences(msg[p]) :
                          Contents(h2)[g[x]] = Contents(heap)[At(msg[p], x)]
  BY CopiedContents
<1>4. Become(ms, h2)
  BY <1>1
<1> HIDE DEF h2
<1>5. Seems(ms, h2)
  BY <1>2, <1>3, CopySeems
<1> HIDE DEF ms
<1>6. QED
  BY <1>2, <1>4, <1>5, TreeStep

LEMMA ParentTree ==
  ASSUME ~ReadsIntoLists, WrappersInv, NEW p \in Parents, CallOnParent(p)
  PROVE  [Tree!Next]_(Tree!vars)
<1>1. \A q \in Parents : ObjsOf(msg[q]) \subseteq LiveObjs
  BY LiveIs DEF WrappersInv, Good
<1>2. CASE \E f \in Touched[p] : CallOnField(p, f)
  BY <1>2, FieldTree, FieldsAssumption
<1>3. CASE ToArray(p)
  <2>1. Become(msg, Synced(heap, ObjsOf(msg[p])))
    BY <1>3 DEF ToArray, SyncedBy
  <2>2. ObjsOf(msg[p]) \subseteq Live(heap) /\ SameInside(heap)
    BY <1>1, LiveIs DEF SameInside
  <2>3. Good(msg, Synced(heap, ObjsOf(msg[p])))
    BY <2>2, HeldNow, SyncedKeeps
  <2>4. SameInside(Synced(heap, ObjsOf(msg[p])))
    BY <2>2, HeldNow, SyncedInside
  <2>5. Seems(msg, Synced(heap, ObjsOf(msg[p])))
    BY <2>4, NotSeen
  <2>6. QED
    BY <2>1, <2>3, <2>5, TreeStep
<1>4. CASE \E q \in Parents : CloneMessage(p, q) \/ CopyInto(p, q)
  <2>1. PICK q \in Parents : CopyTo(p, q, {}) \/ CopyTo(p, q, ObjsOf(msg[q]))
    BY <1>4 DEF CloneMessage, CopyInto, SyncedBy
  <2>2. {} \subseteq LiveObjs /\ ObjsOf(msg[q]) \subseteq LiveObjs
    BY <1>1
  <2>3. QED
    BY <2>1, <2>2, CopyToTree
<1>5. QED
  BY <1>2, <1>3, <1>4 DEF CallOnParent

-----------------------------------------------------------------------------
(* Messages implement the tree *)

LEMMA InitTree == ~ReadsIntoLists /\ Init => Tree!Init
<1> SUFFICES ASSUME ~ReadsIntoLists, Init PROVE Tree!Init
  OBVIOUS
<1> DEFINE fields == [p \in Parents |-> [f \in Fields |-> Shown(p, f)]]
<1>1. WrappersInv
  BY InitInv
<1>2. fields = DataOf(msg) /\ Content = HeldContents(msg, heap)
  BY <1>1, ShownNow
<1>3. Good(msg, heap) /\ heap \in Heaps
  BY <1>1, HeldNow
<1>4. Tree!Held(DataOf(msg)) = HeldIn(msg) /\ HeldIn(msg) \subseteq Arrays
  BY <1>3, HeldIsHeld
<1>5. DOMAIN fields = Parents /\ \A p \in Parents : DOMAIN fields[p] = Fields
  OBVIOUS
<1> HIDE DEF fields
<1>6. ASSUME NEW p \in Parents, NEW f \in Fields PROVE Tree!NodesIn(f, fields[p][f]) \subseteq Arrays
  <2>1. Tree!NodesIn(f, fields[p][f]) \subseteq Tree!Held(fields)
    BY TreeFields DEF Tree!Held
  <2>2. QED
    BY <1>2, <1>4, <2>1
<1>7. Content \in [Arrays -> Vals]
  BY <1>3, ContentIs, ContentsType
<1>8. \A n \in Arrays \ Tree!Held(fields) : Content[n] = Empty
  BY <1>2, <1>4 DEF HeldContents
<1>9. QED
  BY <1>5, <1>6, <1>7, <1>8, TreeFields DEF Tree!Init, fields

LEMMA NextTree ==
  ~ReadsIntoLists /\ WrappersInv /\ [Next]_vars => [Tree!Next]_(Tree!vars)
<1> SUFFICES ASSUME ~ReadsIntoLists, WrappersInv, [Next]_vars PROVE [Tree!Next]_(Tree!vars)
  OBVIOUS
<1>1. CASE \E p \in Parents : CallOnParent(p)
  BY <1>1, ParentTree
<1>2. CASE \E o \in LiveObjs : CallOnChild(o)
  BY <1>2, ChildTree
<1>3. CASE UNCHANGED vars
  <2>1. msg' = msg /\ heap' = heap /\ LiveObjs' = LiveObjs
    BY <1>3 DEF vars, heap, LiveObjs
  <2>2. Content' = Content
    BY <2>1 DEF Content
  <2>3. [p \in Parents |-> [f \in Fields |-> Shown(p, f)']] = [p \in Parents |-> [f \in Fields |-> Shown(p, f)]]
    BY <2>1 DEF Shown
  <2>4. QED
    BY <2>2, <2>3 DEF Tree!vars
<1>4. QED
  BY <1>1, <1>2, <1>3 DEF Next

\* "Sets a proto field and syncs it to the backing array" (message.js:1215), "Syncs all map
\* fields' contents back to their underlying arrays" (message.js:1358): though every child
\* is kept twice, the getters show a tree of messages in which a child changes only when
\* somebody edits it, setting a field touches no child, and a copy has children of its own.
THEOREM MessagesImplementATree ==
  ASSUME ~ReadsIntoLists
  PROVE  Spec => ImplementsTree
<1>1. Init => Tree!Init
  BY InitTree
<1>2. WrappersInv /\ [Next]_vars => [Tree!Next]_(Tree!vars)
  BY NextTree
<1>3. QED
  BY <1>1, <1>2, Invariance, PTL DEF Spec, ImplementsTree, Tree!Spec

=============================================================================
