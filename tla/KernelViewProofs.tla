-------------------------- MODULE KernelViewProofs --------------------------
(***************************************************************************)
(* The kernel shows what KernelView promises, for any schema, any values   *)
(* and any number of kernels.  A heap is mapped to what its kernels show   *)
(* and to the places that hold one object; what a call does to a heap is   *)
(* then compared with what it may do to these.                             *)
(***************************************************************************)
EXTENDS KernelProofs

-----------------------------------------------------------------------------
(* What is seen of a heap. *)

PlacesOf(h, k, f) ==
  LET value == Shown(h.kernel[k], f, h)
  IN  IF f \in RepeatedMessages THEN IF value = Unreadable THEN {} ELSE {<<k, f>>} \X DOMAIN value
      ELSE IF f \in Singles /\ value \in Contents THEN {<<<<k, f>>, 1>>} ELSE {}

Places(h) == UNION {PlacesOf(h, k, f) : k \in Kernels, f \in Fields}

ObjOf(h, p) ==
  LET objs == ObjsIn(h.kernel[p[1][1]], p[1][2], h) IN IF objs = <<>> THEN NoObj ELSE objs[p[2]]

ViewOf(h) == [at \in Kernels \X Fields |-> Shows(h.kernel[at[1]], at[2], h)]

SameOf(h) ==
  LET obj == [p \in Places(h) |-> ObjOf(h, p)]
  IN  [p \in DOMAIN obj |->
        {q \in DOMAIN obj : q = p \/ (obj[p] # NoObj /\ obj[q] = obj[p])}]

Seen(h) == [view |-> ViewOf(h), same |-> SameOf(h)]

\* The variables of the view are what is seen of the heap.
LEMMA SeenMapped ==
  /\ [at \in Kernels \X Fields |-> Shows(kernel[at[1]], at[2], heap)] = ViewOf(heap)
  /\ LET obj == [p \in ViewPlaces |-> ObjAt(p)]
     IN  [p \in DOMAIN obj |->
           {q \in DOMAIN obj : q = p \/ (obj[p] # NoObj /\ obj[q] = obj[p])}] = SameOf(heap)
<1>1. heap.kernel = kernel
  BY DEF heap
<1>2. [at \in Kernels \X Fields |-> Shows(kernel[at[1]], at[2], heap)] = ViewOf(heap)
  BY <1>1 DEF ViewOf
<1>3. ViewPlaces = Places(heap)
  <2>1. \A k \in Kernels, f \in Fields : PlacesIn(k, f) = PlacesOf(heap, k, f)
    BY <1>1 DEF PlacesIn, PlacesOf
  <2>2. QED
    BY <2>1 DEF Places, ViewPlaces
<1>4. \A p : ObjAt(p) = ObjOf(heap, p)
  BY <1>1 DEF ObjAt, ObjOf
<1> DEFINE obj == [p \in ViewPlaces |-> ObjAt(p)]
<1>5. [p \in DOMAIN obj |->
        {q \in DOMAIN obj : q = p \/ (obj[p] # NoObj /\ obj[q] = obj[p])}] = SameOf(heap)
  BY <1>3, <1>4, Zenon DEF SameOf
<1>6. QED
  BY <1>2, <1>5, Zenon

\* So the view's states and steps are statements about what is seen of the heap.
LEMMA SeenNow ==
  /\ View!Init <=> View!Coherent(Seen(heap))
  /\ View!Next <=>
       /\ <<Seen(heap).view = Seen(heap)'.view, Seen(heap).same = Seen(heap)'.same>> # <<TRUE, TRUE>>
       /\ View!Call(Seen(heap), Seen(heap)')
  /\ View!vars = <<Seen(heap).view, Seen(heap).same>>
<1> DEFINE view == [at \in Kernels \X Fields |-> Shows(kernel[at[1]], at[2], heap)]
           obj == [p \in ViewPlaces |-> ObjAt(p)]
           same == [p \in DOMAIN obj |->
                     {q \in DOMAIN obj : q = p \/ (obj[p] # NoObj /\ obj[q] = obj[p])}]
<1>1. view = ViewOf(heap)
  BY SeenMapped, Zenon
<1>2. same = SameOf(heap)
  BY SeenMapped, Zenon
<1>3. View!vars = <<view, same>>
  BY DEF View!vars
<1>4. View!Init <=> View!Coherent([view |-> view, same |-> same])
  BY DEF View!Init, view, same, obj
<1>5. View!Next <=>
       \E x \in {[view |-> view, same |-> same]}, y \in {[view |-> view, same |-> same]'} :
         <<x.view = y.view, x.same = y.same>> # <<TRUE, TRUE>> /\ View!Call(x, y)
  BY DEF View!Next, view, same, obj
<1> HIDE DEF view, same
<1>6. [view |-> view, same |-> same] = Seen(heap)
  BY <1>1, <1>2 DEF Seen
<1>7. ([view |-> view, same |-> same] = Seen(heap))'
  BY <1>6, PTL
<1>8. Seen(heap).view = view /\ Seen(heap).same = same
  BY <1>1, <1>2 DEF Seen
<1>9. QED
  BY <1>3, <1>4, <1>5, <1>6, <1>7, <1>8
-----------------------------------------------------------------------------
(* Values and places. *)

\* A value is not one of the marks for a field that has none.
LEMMA NotAMark ==
  ASSUME NEW f \in Fields, NEW v \in Values(f)
  PROVE  v # Unset /\ v # Unreadable
BY ValuesAssumption, Kinds DEF Values

\* A field that is not there, one in the cache, and one in its bytes only.
LEMMA ShownIs ==
  ASSUME NEW h, HeapOK(h), NEW k \in Kernels, NEW f \in Fields
  PROVE  LET fl == h.kernel[k][f] IN
         /\ fl = NoField => Shows(h.kernel[k], f, h) =
              [has |-> FALSE, val |-> IF f \in Repeated THEN <<>> ELSE Unset]
         /\ fl # NoField /\ fl.cache # Undefined =>
              /\ Holds(h, f, fl.cache)
              /\ Shown(h.kernel[k], f, h) = ValueOf(h, f, fl.cache)
              /\ ValueOf(h, f, fl.cache) \in Values(f)
         /\ fl # NoField /\ fl.cache = Undefined =>
              /\ HasFieldNumber(h.kernel[k], f, h) = TRUE
              /\ fl.index \in Seq(FieldEntries(f)) /\ fl.index # <<>>
              /\ Shown(h.kernel[k], f, h) =
                   IF Readable(f, fl.index) THEN Decoded(f, fl.index) ELSE Unreadable
              /\ Decoded(f, fl.index) \in Values(f)
<1> DEFINE K == h.kernel[k]
           fl == h.kernel[k][f]
<1>1. ASSUME fl = NoField
      PROVE  Shows(K, f, h) = [has |-> FALSE, val |-> IF f \in Repeated THEN <<>> ELSE Unset]
  <2>1. HasFieldNumber(K, f, h) = FALSE
    BY <1>1 DEF HasFieldNumber
  <2>2. Shown(K, f, h) = IF f \in Repeated THEN <<>> ELSE Unset
    BY <1>1 DEF Shown
  <2>3. QED
    BY <2>1, <2>2 DEF Shows
<1>2. ASSUME fl # NoField PROVE FieldFits(h, f, fl)
  BY <1>2 DEF HeapOK
<1>3. ASSUME fl # NoField, fl.cache # Undefined
      PROVE  /\ Holds(h, f, fl.cache)
             /\ Shown(K, f, h) = ValueOf(h, f, fl.cache)
             /\ ValueOf(h, f, fl.cache) \in Values(f)
  <2>1. Holds(h, f, fl.cache)
    BY <1>2, <1>3 DEF FieldFits
  <2>2. Shown(K, f, h) = Cached(K, f, h)
    BY <1>3 DEF Shown
  <2>3. Cached(K, f, h) = ValueOf(h, f, fl.cache)
    BY CachedValue
  <2>4. QED
    BY <2>1, <2>2, <2>3, ValueType
<1>4. ASSUME fl # NoField, fl.cache = Undefined
      PROVE  /\ HasFieldNumber(K, f, h) = TRUE
             /\ fl.index \in Seq(FieldEntries(f)) /\ fl.index # <<>>
             /\ Shown(K, f, h) = IF Readable(f, fl.index) THEN Decoded(f, fl.index) ELSE Unreadable
             /\ Decoded(f, fl.index) \in Values(f)
  <2>1. fl.index # Null
    BY <1>2, <1>4 DEF FieldFits, FieldOK
  <2>2. fl.index \in Seq(FieldEntries(f)) /\ fl.index # <<>>
    BY <1>2, <1>4, <2>1 DEF FieldFits
  <2>3. HasFieldNumber(K, f, h) = TRUE
    BY <1>4, <2>1 DEF HasFieldNumber
  <2>4. Shown(K, f, h) = IF Readable(f, fl.index) THEN Decoded(f, fl.index) ELSE Unreadable
    BY <1>4 DEF Shown
  <2>5. QED
    BY <2>2, <2>3, <2>4, DecodedType
<1>5. QED
  BY <1>1, <1>3, <1>4

\* The places in a field.
LEMMA PlacesAre ==
  ASSUME NEW h, NEW k, NEW f \in Fields, NEW p
  PROVE  /\ p \in PlacesOf(h, k, f) => p = <<<<k, f>>, p[2]>> /\ f \in Singles \union RepeatedMessages
         /\ f \in RepeatedMessages =>
              (p \in PlacesOf(h, k, f) <=>
                 /\ Shown(h.kernel[k], f, h) # Unreadable
                 /\ \E i \in DOMAIN Shown(h.kernel[k], f, h) : p = <<<<k, f>>, i>>)
         /\ f \in Singles =>
              (p \in PlacesOf(h, k, f) <=>
                 Shown(h.kernel[k], f, h) \in Contents /\ p = <<<<k, f>>, 1>>)
BY Kinds DEF PlacesOf

\* A place is a place of some field.
LEMMA PlaceIs ==
  ASSUME NEW h, NEW p
  PROVE  p \in Places(h) <=> \E k \in Kernels, f \in Fields : p \in PlacesOf(h, k, f)
BY DEF Places

\* A field is where its places say.
LEMMA PlaceIn ==
  ASSUME NEW h, NEW k \in Kernels, NEW f \in Fields, NEW p \in Places(h), p[1] = <<k, f>>
  PROVE  p \in PlacesOf(h, k, f)
<1>1. PICK j \in Kernels, e \in Fields : p \in PlacesOf(h, j, e)
  BY PlaceIs
<1>2. p[1] = <<j, e>>
  BY <1>1, PlacesAre
<1>3. QED
  BY <1>1, <1>2

\* What is seen: of every field, whether it is there and its value.
LEMMA SeenIs ==
  ASSUME NEW h
  PROVE  /\ Seen(h).view = ViewOf(h) /\ Seen(h).same = SameOf(h)
         /\ View!Fields = Fields /\ View!Repeated = Repeated
         /\ ViewOf(h) = [kf \in Kernels \X Fields |-> ViewOf(h)[kf]]
         /\ \A k \in Kernels, f \in Fields : ViewOf(h)[<<k, f>>] = Shows(h.kernel[k], f, h)
         /\ \A k \in Kernels, f \in Fields :
              /\ ViewOf(h)[<<k, f>>].has = HasFieldNumber(h.kernel[k], f, h)
              /\ ViewOf(h)[<<k, f>>].val = Shown(h.kernel[k], f, h)
<1>1. Seen(h).view = ViewOf(h) /\ Seen(h).same = SameOf(h)
  BY DEF Seen
<1>2. View!Fields = Fields /\ View!Repeated = Repeated
  BY DEF View!Fields, View!Repeated, Fields, Repeated
<1>3. ViewOf(h) = [kf \in Kernels \X Fields |-> ViewOf(h)[kf]]
  BY DEF ViewOf
<1>4. ASSUME NEW k \in Kernels, NEW f \in Fields
      PROVE  ViewOf(h)[<<k, f>>] = Shows(h.kernel[k], f, h)
  BY DEF ViewOf
<1>5. ASSUME NEW k \in Kernels, NEW f \in Fields
      PROVE  Shows(h.kernel[k], f, h).has = HasFieldNumber(h.kernel[k], f, h)
             /\ Shows(h.kernel[k], f, h).val = Shown(h.kernel[k], f, h)
  BY DEF Shows
<1>6. QED
  BY <1>1, <1>2, <1>3, <1>4, <1>5

\* The view finds the same places as the heap has.
LEMMA SeenPlaces ==
  ASSUME NEW h
  PROVE  /\ \A k \in Kernels, f \in Fields : View!PlacesOf(Seen(h), k, f) = PlacesOf(h, k, f)
         /\ View!Places(Seen(h)) = Places(h)
<1>1. ASSUME NEW k \in Kernels, NEW f \in Fields
      PROVE  View!PlacesOf(Seen(h), k, f) = PlacesOf(h, k, f)
  <2>1. Seen(h).view[<<k, f>>].val = Shown(h.kernel[k], f, h)
    BY SeenIs
  <2>2. {<<k, f>>} \X {1} = {<<<<k, f>>, 1>>}
    OBVIOUS
  <2>3. QED
    BY <2>1, <2>2 DEF View!PlacesOf, PlacesOf
<1>2. View!Places(Seen(h)) = UNION {View!PlacesOf(Seen(h), k, f) : k \in Kernels, f \in Fields}
  <2>1. View!Fields = Fields
    BY SeenIs
  <2>2. QED
    BY <2>1 DEF View!Places
<1>3. QED
  BY <1>1, <1>2 DEF Places

\* Two places are one if one object is at both.
LEMMA SameIs ==
  ASSUME NEW h
  PROVE  /\ SameOf(h) = [p \in Places(h) |-> SameOf(h)[p]]
         /\ \A p \in Places(h) : \A q :
              q \in SameOf(h)[p] <=>
                /\ q \in Places(h)
                /\ q = p \/ (ObjOf(h, p) # NoObj /\ ObjOf(h, q) = ObjOf(h, p))
<1> DEFINE obj == [p \in Places(h) |-> ObjOf(h, p)]
<1>1. DOMAIN obj = Places(h) /\ \A p \in Places(h) : obj[p] = ObjOf(h, p)
  OBVIOUS
<1>2. SameOf(h) = [p \in DOMAIN obj |->
        {q \in DOMAIN obj : q = p \/ (obj[p] # NoObj /\ obj[q] = obj[p])}]
  BY DEF SameOf
<1> HIDE DEF obj
<1>3. QED
  BY <1>1, <1>2

-----------------------------------------------------------------------------
(* Objects. *)

\* A field that has data in the cache.
InCache(h, k, f) == h.kernel[k][f] # NoField /\ h.kernel[k][f].cache # Undefined

\* The contents of a list of objects.
ContentsOf(h, objs) == [i \in DOMAIN objs |-> h.child[objs[i]]]

\* The objects of a field, and the value they stand for.
LEMMA NoObjs ==
  ASSUME NEW h, NEW k, NEW f, ~ InCache(h, k, f) \/ f \notin Singles \union RepeatedMessages
  PROVE  ObjsIn(h.kernel[k], f, h) = <<>>
BY DEF ObjsIn, InCache

\* The object of a child in the cache.
LEMMA OneObj ==
  ASSUME NEW h, HeapOK(h), NEW k \in Kernels, NEW f \in Singles, InCache(h, k, f)
  PROVE  LET o == h.kernel[k][f].cache IN
         /\ ObjsIn(h.kernel[k], f, h) = <<o>> /\ o \in DOMAIN h.child
         /\ Shown(h.kernel[k], f, h) = h.child[o]
<1> DEFINE o == h.kernel[k][f].cache
<1>1. f \in Fields /\ f \notin Repeated /\ f \notin Scalars /\ f \notin Packables
  BY Kinds DEF Fields
<1>2. Holds(h, f, o) /\ Shown(h.kernel[k], f, h) = ValueOf(h, f, o)
  BY <1>1, ShownIs DEF InCache
<1>3. ObjsIn(h.kernel[k], f, h) = <<o>>
  BY DEF ObjsIn, InCache
<1>4. o \in DOMAIN h.child /\ ValueOf(h, f, o) = h.child[o]
  BY <1>1, <1>2 DEF Holds, ValueOf
<1>5. QED
  BY <1>2, <1>3, <1>4

\* The objects of a list in the cache.
LEMMA ListedObjs ==
  ASSUME NEW h, HeapOK(h), NEW k \in Kernels, NEW f \in RepeatedMessages, InCache(h, k, f)
  PROVE  LET a == h.kernel[k][f].cache IN
         /\ ObjsIn(h.kernel[k], f, h) = h.array[a]
         /\ a \in DOMAIN h.array /\ h.array[a] \in Seq(DOMAIN h.child)
         /\ Shown(h.kernel[k], f, h) = ContentsOf(h, h.array[a])
<1> DEFINE a == h.kernel[k][f].cache
<1>1. f \in Fields /\ f \notin Singles /\ f \notin Scalars /\ f \notin Packables
  BY Kinds DEF Fields, Repeated
<1>2. Holds(h, f, a) /\ Shown(h.kernel[k], f, h) = ValueOf(h, f, a)
  BY <1>1, ShownIs DEF InCache
<1>3. ObjsIn(h.kernel[k], f, h) = h.array[a]
  BY <1>1 DEF ObjsIn, InCache
<1>4. /\ a \in DOMAIN h.array /\ h.array[a] \in Seq(DOMAIN h.child)
      /\ ValueOf(h, f, a) = ContentsOf(h, h.array[a])
  BY <1>1, <1>2 DEF Holds, ValueOf, ContentsOf
<1>5. QED
  BY <1>2, <1>3, <1>4

\* A field's objects are objects of the heap.
LEMMA ObjsAre ==
  ASSUME NEW h, HeapOK(h), NEW k \in Kernels, NEW f \in Fields
  PROVE  ObjsIn(h.kernel[k], f, h) \in Seq(DOMAIN h.child)
<1>1. \A o \in DOMAIN h.child : <<o>> \in Seq(DOMAIN h.child)
  <2>1. ASSUME NEW S, NEW o \in S PROVE <<o>> \in Seq(S)
    OBVIOUS
  <2>2. QED
    BY <2>1
<1>2. CASE InCache(h, k, f) /\ f \in Singles
  BY <1>1, <1>2, OneObj
<1>3. CASE InCache(h, k, f) /\ f \in RepeatedMessages
  BY <1>3, ListedObjs
<1>4. CASE ~ InCache(h, k, f) \/ f \notin Singles \union RepeatedMessages
  <2>1. <<>> \in Seq(DOMAIN h.child)
    OBVIOUS
  <2>2. QED
    BY <1>4, <2>1, NoObjs
<1>5. QED
  BY <1>2, <1>3, <1>4

\* An object is found at the place it is in.
LEMMA ObjOfPlace ==
  ASSUME NEW h, HeapOK(h), NEW k \in Kernels, NEW f \in Fields, NEW p \in PlacesOf(h, k, f)
  PROVE  LET objs == ObjsIn(h.kernel[k], f, h) IN
         /\ objs = <<>> => ObjOf(h, p) = NoObj
         /\ objs # <<>> => p[2] \in DOMAIN objs /\ ObjOf(h, p) = objs[p[2]]
         /\ ObjOf(h, p) # NoObj =>
              objs # <<>> /\ ObjOf(h, p) \in DOMAIN h.child
                /\ View!ContentAt(Seen(h), p) = h.child[ObjOf(h, p)]
<1> DEFINE fl == h.kernel[k][f]
           objs == ObjsIn(h.kernel[k], f, h)
           v == Shown(h.kernel[k], f, h)
<1>1. p = <<<<k, f>>, p[2]>> /\ (f \in Singles \/ f \in RepeatedMessages)
  BY PlacesAre
<1>2. p[1] = <<k, f>> /\ p[1][1] = k /\ p[1][2] = f
  BY <1>1
<1>3. ObjOf(h, p) = IF objs = <<>> THEN NoObj ELSE objs[p[2]]
  BY <1>2 DEF ObjOf
<1>4. View!ContentAt(Seen(h), p) = IF f \in RepeatedMessages THEN v[p[2]] ELSE v
  <2>1. Seen(h).view[<<k, f>>].val = v
    BY SeenIs
  <2>2. QED
    BY <1>2, <2>1 DEF View!ContentAt
<1>5. ASSUME objs # <<>>
      PROVE  /\ p[2] \in DOMAIN objs /\ objs[p[2]] \in DOMAIN h.child
             /\ View!ContentAt(Seen(h), p) = h.child[objs[p[2]]]
  <2>1. InCache(h, k, f)
    BY <1>5, NoObjs
  <2>2. CASE f \in Singles
    <3>1. objs = <<fl.cache>> /\ fl.cache \in DOMAIN h.child /\ v = h.child[fl.cache]
      BY <2>1, <2>2, OneObj
    <3>2. p[2] = 1 /\ f \notin RepeatedMessages
      <4>1. p = <<<<k, f>>, 1>>
        BY <2>2, PlacesAre
      <4>2. QED
        BY <2>2, <4>1, Kinds
    <3>3. QED
      BY <1>4, <3>1, <3>2
  <2>3. CASE f \in RepeatedMessages
    <3>1. objs \in Seq(DOMAIN h.child) /\ v = ContentsOf(h, objs)
      BY <2>1, <2>3, ListedObjs
    <3>2. p[2] \in DOMAIN v
      <4>1. PICK i \in DOMAIN v : p = <<<<k, f>>, i>>
        BY <2>3, PlacesAre
      <4>2. QED
        BY <4>1
    <3> HIDE DEF v
    <3>3. DOMAIN v = DOMAIN objs /\ v[p[2]] = h.child[objs[p[2]]]
      BY <3>1, <3>2 DEF ContentsOf
    <3>4. QED
      BY <1>4, <2>3, <3>1, <3>2, <3>3, SeqIs
  <2>4. QED
    BY <1>1, <2>2, <2>3
<1>6. QED
  BY <1>3, <1>5

\* Places with one object show its content.
LEMMA SeenCoherent ==
  ASSUME NEW h, HeapOK(h)
  PROVE  View!Coherent(Seen(h))
<1> DEFINE x == Seen(h)
<1>1. DOMAIN x.same = View!Places(x) /\ DOMAIN x.same = Places(h) /\ x.same = SameOf(h)
  BY SeenIs, SeenPlaces, SameIs
<1>2. ASSUME NEW p \in Places(h), NEW q \in SameOf(h)[p]
      PROVE  SameOf(h)[q] = SameOf(h)[p] /\ View!ContentAt(x, q) = View!ContentAt(x, p)
  <2>1. q \in Places(h) /\ (q = p \/ (ObjOf(h, p) # NoObj /\ ObjOf(h, q) = ObjOf(h, p)))
    BY <1>2, SameIs
  <2>2. CASE q = p
    BY <2>2
  <2>3. CASE q # p
    <3>1. ObjOf(h, p) # NoObj /\ ObjOf(h, q) = ObjOf(h, p)
      BY <2>1, <2>3
    <3>2. \A r : r \in SameOf(h)[q] <=> r \in SameOf(h)[p]
      BY <2>1, <3>1, SameIs
    <3>3. ASSUME NEW r \in Places(h), ObjOf(h, r) # NoObj
          PROVE  View!ContentAt(x, r) = h.child[ObjOf(h, r)]
      <4>1. PICK k \in Kernels, f \in Fields : r \in PlacesOf(h, k, f)
        BY PlaceIs
      <4>2. QED
        BY <3>3, <4>1, ObjOfPlace
    <3>4. SameOf(h)[q] = SameOf(h)[p]
      <4>1. \A r : r \in Places(h) => \A t \in SameOf(h)[r] : t \in Places(h)
        BY SameIs
      <4>2. SameOf(h)[q] = {r \in Places(h) : r \in SameOf(h)[q]}
            /\ SameOf(h)[p] = {r \in Places(h) : r \in SameOf(h)[p]}
        BY <2>1, <4>1
      <4>3. QED
        BY <3>2, <4>2
    <3>5. QED
      BY <2>1, <3>1, <3>3, <3>4
  <2>4. QED
    BY <2>2, <2>3
<1>3. ASSUME NEW p \in Places(h) PROVE p \in SameOf(h)[p]
  BY SameIs
<1>4. QED
  BY <1>1, <1>2, <1>3 DEF View!Coherent

-----------------------------------------------------------------------------
(* Fields that cannot be told apart. *)

\* The field f shows the same in the kernel k of h as in j of g, with the same objects.
Alike(h, k, g, j, f) ==
  /\ Shows(g.kernel[j], f, g) = Shows(h.kernel[k], f, h)
  /\ ObjsIn(g.kernel[j], f, g) = ObjsIn(h.kernel[k], f, h)

\* Two fields with the same entries and the same cache are seen alike.
LEMMA AlikeIf ==
  ASSUME NEW h, HeapOK(h), NEW g, HeapOK(g), NEW k \in Kernels, NEW j \in Kernels, NEW f \in Fields,
         AlikeData(h, k, g, j, f)
  PROVE  Alike(h, k, g, j, f)
<1> DEFINE fl == h.kernel[k][f]
           gl == g.kernel[j][f]
<1>1. CASE fl = NoField
  <2>1. gl = NoField
    BY <1>1 DEF AlikeData
  <2>2. Shows(g.kernel[j], f, g) = Shows(h.kernel[k], f, h)
    BY <1>1, <2>1, ShownIs
  <2>3. ObjsIn(g.kernel[j], f, g) = <<>> /\ ObjsIn(h.kernel[k], f, h) = <<>>
    BY <1>1, <2>1, NoObjs DEF InCache
  <2>4. QED
    BY <2>2, <2>3 DEF Alike
<1>2. CASE fl # NoField /\ fl.cache = Undefined
  <2>1. gl # NoField /\ gl.cache = Undefined /\ gl.index = fl.index
    BY <1>2 DEF AlikeData
  <2>2. /\ HasFieldNumber(g.kernel[j], f, g) = HasFieldNumber(h.kernel[k], f, h)
        /\ Shown(g.kernel[j], f, g) = Shown(h.kernel[k], f, h)
    <3>1. HasFieldNumber(h.kernel[k], f, h) = TRUE
          /\ Shown(h.kernel[k], f, h) = IF Readable(f, fl.index) THEN Decoded(f, fl.index) ELSE Unreadable
      BY <1>2, ShownIs
    <3>2. HasFieldNumber(g.kernel[j], f, g) = TRUE
          /\ Shown(g.kernel[j], f, g) = IF Readable(f, gl.index) THEN Decoded(f, gl.index) ELSE Unreadable
      BY <2>1, ShownIs
    <3>3. gl.index = fl.index
      BY <2>1
    <3> HIDE DEF fl, gl
    <3>4. Shown(g.kernel[j], f, g) = Shown(h.kernel[k], f, h)
      BY <3>1, <3>2, <3>3
    <3>5. HasFieldNumber(g.kernel[j], f, g) = HasFieldNumber(h.kernel[k], f, h)
      BY <3>1, <3>2, Zenon
    <3>6. QED
      BY <3>4, <3>5, Zenon
  <2>3. ObjsIn(g.kernel[j], f, g) = <<>> /\ ObjsIn(h.kernel[k], f, h) = <<>>
    BY <1>2, <2>1, NoObjs DEF InCache
  <2>4. QED
    BY <2>2, <2>3 DEF Alike, Shows
<1>3. CASE fl # NoField /\ fl.cache # Undefined
  <2>1. gl # NoField /\ gl.cache # Undefined /\ gl.index = fl.index
    BY <1>3 DEF AlikeData
  <2>2. /\ ValueOf(g, f, gl.cache) = ValueOf(h, f, fl.cache)
        /\ f \in Repeated => g.array[gl.cache] = h.array[fl.cache]
        /\ f \in Singles => gl.cache = fl.cache
    BY <1>3 DEF AlikeData
  <2>3. Shown(g.kernel[j], f, g) = Shown(h.kernel[k], f, h)
    <3>1. Shown(h.kernel[k], f, h) = ValueOf(h, f, fl.cache)
      BY <1>3, ShownIs
    <3>2. Shown(g.kernel[j], f, g) = ValueOf(g, f, gl.cache)
      BY <2>1, ShownIs
    <3>3. QED
      BY <2>2, <3>1, <3>2
  <2>4. HasFieldNumber(g.kernel[j], f, g) <=> HasFieldNumber(h.kernel[k], f, h)
    BY <1>3, <2>1, <2>2 DEF HasFieldNumber
  <2>5. HasFieldNumber(g.kernel[j], f, g) = HasFieldNumber(h.kernel[k], f, h)
    BY <2>4 DEF HasFieldNumber
  <2>6. ObjsIn(g.kernel[j], f, g) = ObjsIn(h.kernel[k], f, h)
    BY <1>3, <2>1, <2>2, Kinds DEF ObjsIn
  <2>7. QED
    BY <2>3, <2>5, <2>6 DEF Alike, Shows
<1>4. QED
  BY <1>1, <1>2, <1>3

\* A field that was left alone, in a heap that has all there was.
LEMMA AlikeGrown ==
  ASSUME NEW h, HeapOK(h), NEW g, HeapOK(g), Grows(h, g), NEW k \in Kernels, NEW f \in Fields,
         g.kernel[k][f] = h.kernel[k][f]
  PROVE  Alike(h, k, g, k, f)
<1> DEFINE fl == h.kernel[k][f]
<1>1. ASSUME fl # NoField, fl.cache # Undefined
      PROVE  ValueOf(g, f, fl.cache) = ValueOf(h, f, fl.cache)
             /\ (f \in Repeated => g.array[fl.cache] = h.array[fl.cache])
  <2>1. Holds(h, f, fl.cache)
    BY <1>1, ShownIs
  <2>2. ValueOf(g, f, fl.cache) = ValueOf(h, f, fl.cache)
    BY <2>1, HoldsMore
  <2>3. f \in Repeated => fl.cache \in DOMAIN h.array
    BY <2>1, Kinds DEF Holds
  <2>4. QED
    BY <2>2, <2>3 DEF Grows
<1>2. AlikeData(h, k, g, k, f)
  BY <1>1 DEF AlikeData
<1>3. QED
  BY <1>2, AlikeIf

\* It has the same places, with the same objects in them.
LEMMA AlikePlaces ==
  ASSUME NEW h, NEW g, NEW k \in Kernels, NEW f \in Fields, Alike(h, k, g, k, f)
  PROVE  /\ PlacesOf(g, k, f) = PlacesOf(h, k, f)
         /\ \A p \in PlacesOf(h, k, f) : ObjOf(g, p) = ObjOf(h, p)
<1>1. Shown(g.kernel[k], f, g) = Shown(h.kernel[k], f, h)
  <2>1. Shows(g.kernel[k], f, g).val = Shows(h.kernel[k], f, h).val
    BY DEF Alike
  <2>2. QED
    BY <2>1 DEF Shows
<1>2. PlacesOf(g, k, f) = PlacesOf(h, k, f)
  BY <1>1 DEF PlacesOf
<1>3. ASSUME NEW p \in PlacesOf(h, k, f) PROVE ObjOf(g, p) = ObjOf(h, p)
  <2>1. p = <<<<k, f>>, p[2]>>
    BY PlacesAre
  <2>2. p[1][1] = k /\ p[1][2] = f
    BY <2>1
  <2>3. QED
    BY <2>2 DEF ObjOf, Alike
<1>4. QED
  BY <1>2, <1>3

\* Heaps with the same fields are seen alike.
LEMMA SeenAlike ==
  ASSUME NEW h, NEW g, \A k \in Kernels, f \in Fields : Alike(h, k, g, k, f)
  PROVE  Seen(g) = Seen(h)
<1>1. ViewOf(g) = ViewOf(h)
  <2>1. \A at \in Kernels \X Fields :
          Shows(g.kernel[at[1]], at[2], g) = Shows(h.kernel[at[1]], at[2], h)
    BY DEF Alike
  <2>2. QED
    BY <2>1 DEF ViewOf
<1>2. Places(g) = Places(h)
  <2>1. \A k \in Kernels, f \in Fields : PlacesOf(g, k, f) = PlacesOf(h, k, f)
    BY AlikePlaces
  <2>2. QED
    BY <2>1 DEF Places
<1>3. \A p \in Places(h) : ObjOf(g, p) = ObjOf(h, p)
  BY PlaceIs, AlikePlaces
<1>4. SameOf(g) = SameOf(h)
  BY <1>2, <1>3 DEF SameOf
<1>5. QED
  BY <1>1, <1>4 DEF Seen

\* Places stay with the object they have.
LEMMA ObjectsStayIf ==
  ASSUME NEW h, NEW g, NEW P \in SUBSET Places(h),
         \A p \in P : p \in Places(g) /\ ObjOf(g, p) = ObjOf(h, p)
  PROVE  View!ObjectsStay(Seen(h), Seen(g), P)
<1>1. P \subseteq View!Places(Seen(g))
  BY SeenPlaces
<1>2. ASSUME NEW p \in P
      PROVE  Seen(g).same[p] \intersect P = Seen(h).same[p] \intersect P
  <2>1. ASSUME NEW q \in P PROVE q \in SameOf(g)[p] <=> q \in SameOf(h)[p]
    BY SameIs
  <2>2. Seen(g).same = SameOf(g) /\ Seen(h).same = SameOf(h)
    BY SeenIs
  <2>3. QED
    BY <2>1, <2>2
<1>3. QED
  BY <1>1, <1>2 DEF View!ObjectsStay

\* One field changes, and the objects in all others stay.
LEMMA FieldChangesIf ==
  ASSUME NEW h, NEW g, NEW k \in Kernels, NEW f \in Fields,
         \A j \in Kernels, e \in Fields : j # k \/ e # f => Alike(h, j, g, j, e)
  PROVE  View!FieldChanges(Seen(h), Seen(g), k, f)
<1>1. ViewOf(g) = [ViewOf(h) EXCEPT ![<<k, f>>] = ViewOf(g)[<<k, f>>]]
  <2>1. ASSUME NEW at \in Kernels \X Fields, at # <<k, f>> PROVE ViewOf(g)[at] = ViewOf(h)[at]
    <3>1. at[1] # k \/ at[2] # f
      BY <2>1
    <3>2. Alike(h, at[1], g, at[1], at[2])
      BY <3>1
    <3>3. QED
      BY <3>2 DEF ViewOf, Alike
  <2>2. QED
    BY <2>1, SeenIs
<1>2. View!ObjectsStay(Seen(h), Seen(g), Places(h) \ PlacesOf(h, k, f))
  <2>1. ASSUME NEW p \in Places(h) \ PlacesOf(h, k, f)
        PROVE  p \in Places(g) /\ ObjOf(g, p) = ObjOf(h, p)
    <3>1. PICK j \in Kernels, e \in Fields : p \in PlacesOf(h, j, e)
      BY PlaceIs
    <3>2. Alike(h, j, g, j, e)
      BY <3>1
    <3>3. p \in PlacesOf(g, j, e) /\ ObjOf(g, p) = ObjOf(h, p)
      BY <3>1, <3>2, AlikePlaces
    <3>4. QED
      BY <3>3, PlaceIs
  <2>2. QED
    BY <2>1, ObjectsStayIf
<1>3. QED
  BY <1>1, <1>2, SeenIs, SeenPlaces DEF View!FieldChanges

\* The places of a field that is in the cache, each with its object.
LEMMA OnePlace ==
  ASSUME NEW h, HeapOK(h), NEW k \in Kernels, NEW f \in Singles, InCache(h, k, f)
  PROVE  LET o == h.kernel[k][f].cache
             at == <<<<k, f>>, 1>>
         IN
         /\ PlacesOf(h, k, f) = {at}
         /\ ObjOf(h, at) = o /\ o \in DOMAIN h.child
<1> DEFINE o == h.kernel[k][f].cache
           at == <<<<k, f>>, 1>>
<1>1. f \in Fields /\ f \notin RepeatedMessages
  BY Kinds DEF Fields
<1>2. ObjsIn(h.kernel[k], f, h) = <<o>> /\ o \in DOMAIN h.child /\ Shown(h.kernel[k], f, h) = h.child[o]
  BY OneObj
<1>3. h.child[o] \in Contents
  BY <1>2 DEF HeapOK
<1>4. PlacesOf(h, k, f) = {at}
  BY <1>1, <1>2, <1>3 DEF PlacesOf
<1>5. ObjOf(h, at) = o
  <2>1. at[1][1] = k /\ at[1][2] = f /\ at[2] = 1
    OBVIOUS
  <2>2. <<o>> # <<>> /\ <<o>>[1] = o
    OBVIOUS
  <2> HIDE DEF at, o
  <2>3. QED
    BY <1>2, <2>1, <2>2 DEF ObjOf
<1>6. QED
  BY <1>2, <1>4, <1>5

\* The places of a list in the cache, and the objects at them.
LEMMA ListedPlace ==
  ASSUME NEW h, HeapOK(h), NEW k \in Kernels, NEW f \in RepeatedMessages, InCache(h, k, f)
  PROVE  LET os == h.array[h.kernel[k][f].cache] IN
         /\ os \in Seq(DOMAIN h.child)
         /\ \A p : p \in PlacesOf(h, k, f) <=> \E i \in DOMAIN os : p = <<<<k, f>>, i>>
         /\ \A i \in DOMAIN os : ObjOf(h, <<<<k, f>>, i>>) = os[i]
<1> DEFINE os == h.array[h.kernel[k][f].cache]
           v == Shown(h.kernel[k], f, h)
<1>1. f \in Fields
  BY DEF Fields, Repeated
<1>2. ObjsIn(h.kernel[k], f, h) = os /\ os \in Seq(DOMAIN h.child) /\ v = ContentsOf(h, os)
  BY ListedObjs
<1>3. v # Unreadable
  <2>1. v \in Values(f)
    BY <1>1, ShownIs DEF InCache
  <2>2. QED
    BY <1>1, <2>1, NotAMark
<1>4. DOMAIN v = DOMAIN os
  BY <1>2 DEF ContentsOf
<1>5. ASSUME NEW p PROVE p \in PlacesOf(h, k, f) <=> \E i \in DOMAIN os : p = <<<<k, f>>, i>>
  <2> HIDE DEF os
  <2>1. p \in PlacesOf(h, k, f) <=> \E i \in DOMAIN v : p = <<<<k, f>>, i>>
    BY <1>1, <1>3, PlacesAre
  <2>2. QED
    BY <1>4, <2>1
<1>6. ASSUME NEW i \in DOMAIN os PROVE ObjOf(h, <<<<k, f>>, i>>) = os[i]
  <2> DEFINE at == <<<<k, f>>, i>>
  <2>1. at[1][1] = k /\ at[1][2] = f /\ at[2] = i
    OBVIOUS
  <2>2. os # <<>>
    BY <1>6
  <2> HIDE DEF at, os
  <2>3. ObjOf(h, at) = os[i]
    BY <1>2, <2>1, <2>2 DEF ObjOf
  <2>4. QED
    BY <2>3 DEF at
<1>7. QED
  BY <1>2, <1>5, <1>6

-----------------------------------------------------------------------------
(* What is not seen: storing, decoding and collecting. *)

\* A heap that has all there was, and the same kernels.
LEMMA SeenGrown ==
  ASSUME NEW h, HeapOK(h), NEW g, HeapOK(g), Grows(h, g), g.kernel = h.kernel
  PROVE  Seen(g) = Seen(h)
<1>1. \A k \in Kernels, f \in Fields : Alike(h, k, g, k, f)
  BY AlikeGrown
<1>2. QED
  BY <1>1, SeenAlike

\* Only what nothing refers to is collected.
LEMMA SeenCollected ==
  ASSUME NEW h, HeapOK(h), NEW g,
         g = [kernel |-> h.kernel, array |-> [a \in LiveArrays(h) |-> h.array[a]],
              child |-> [o \in LiveObjs(h) |-> h.child[o]]]
  PROVE  Seen(g) = Seen(h) /\ HeapOK(g)
<1>1. HeapOK(g) /\ g.kernel = h.kernel
  BY CollectedOK
<1>2. /\ \A a \in LiveArrays(h) : g.array[a] = h.array[a]
      /\ \A o \in LiveObjs(h) : g.child[o] = h.child[o]
  OBVIOUS
<1> DEFINE Kept(f, c) ==
             /\ f \in Repeated => g.array[c] = h.array[c]
             /\ f \in Singles => g.child[c] = h.child[c]
             /\ f \in RepeatedMessages =>
                  \A i \in DOMAIN h.array[c] : g.child[h.array[c][i]] = h.child[h.array[c][i]]
<1>3. ASSUME NEW k \in Kernels, NEW f \in Fields, NEW c, Has(h, k, f, c), c # Undefined
      PROVE  Kept(f, c)
  <2>1. f \in Repeated => c \in LiveArrays(h)
    BY <1>3, LiveIs
  <2>2. f \in Singles => c \in LiveObjs(h)
    BY <1>3, LiveIs
  <2>3. f \in RepeatedMessages => \A i \in DOMAIN h.array[c] : h.array[c][i] \in LiveObjs(h)
    BY <1>3, LiveIs
  <2>4. QED
    BY <1>2, <2>1, <2>2, <2>3
<1>4. ASSUME NEW k \in Kernels, NEW f \in Fields PROVE Alike(h, k, g, k, f)
  <2> DEFINE fl == h.kernel[k][f]
             c == fl.cache
  <2>1. ASSUME fl # NoField, c # Undefined
        PROVE  ValueOf(g, f, c) = ValueOf(h, f, c) /\ (f \in Repeated => g.array[c] = h.array[c])
    <3>1. Has(h, k, f, c) /\ c # Undefined
      BY <2>1 DEF Has
    <3> HIDE DEF c, Kept
    <3>2. Kept(f, c)
      BY <1>3, <3>1
    <3>3. ValueOf(g, f, c) = ValueOf(h, f, c)
      BY <3>2, Kinds DEF ValueOf, Kept
    <3>4. QED
      BY <3>2, <3>3 DEF Kept
  <2>2. AlikeData(h, k, g, k, f)
    BY <1>1, <2>1 DEF AlikeData
  <2>3. QED
    BY <1>1, <2>2, AlikeIf
<1>5. QED
  BY <1>1, <1>4, SeenAlike

\* Collecting what nobody holds is not seen.
LEMMA BecomeSeen ==
  ASSUME NEW h, HeapOK(h), Become(h)
  PROVE  Seen(heap)' = Seen(h)
<1> DEFINE g == [kernel |-> h.kernel, array |-> [a \in LiveArrays(h) |-> h.array[a]],
                 child |-> [o \in LiveObjs(h) |-> h.child[o]]]
<1>1. heap' = g
  BY DEF Become, heap
<1>2. \A c : c = g => Seen(c) = Seen(h)
  BY SeenCollected
<1>3. Seen(g) = Seen(h)
  BY <1>2
<1> HIDE DEF g
<1>4. QED
  BY <1>1, <1>3

\* What is decoded shows what it showed in the bytes.
LEMMA ShowsDecoded ==
  ASSUME NEW h, HeapOK(h), NEW g, HeapOK(g), NEW k \in Kernels, NEW f \in Fields,
         GotInto(h, k, f, g)
  PROVE  Shows(g.kernel[k], f, g) = Shows(h.kernel[k], f, h)
<1> DEFINE fl == h.kernel[k][f]
           gl == g.kernel[k][f]
           es == fl.index
<1>1. /\ fl # NoField /\ fl.cache = Undefined /\ gl # NoField /\ gl.cache # Undefined
      /\ gl.index = IF GetterEncoder(f) = None THEN es ELSE Null
      /\ Readable(f, es) /\ ValueOf(g, f, gl.cache) = Decoded(f, es)
  BY DEF GotInto
<1>2. /\ HasFieldNumber(h.kernel[k], f, h) = TRUE
      /\ Shown(h.kernel[k], f, h) = Decoded(f, es)
      /\ es \in Seq(FieldEntries(f)) /\ es # <<>>
  <2>1. /\ HasFieldNumber(h.kernel[k], f, h) = TRUE
        /\ Shown(h.kernel[k], f, h) = IF Readable(f, fl.index) THEN Decoded(f, fl.index) ELSE Unreadable
        /\ fl.index \in Seq(FieldEntries(f)) /\ fl.index # <<>>
    BY <1>1, ShownIs
  <2>2. QED
    BY <1>1, <2>1
<1>3. Shown(g.kernel[k], f, g) = Decoded(f, es) /\ Holds(g, f, gl.cache)
  <2>1. Shown(g.kernel[k], f, g) = ValueOf(g, f, gl.cache) /\ Holds(g, f, gl.cache)
    BY <1>1, ShownIs
  <2>2. QED
    BY <1>1, <2>1
<1>4. es # Null
  <2>1. FieldEntries(f) \subseteq Entries
    BY DEF FieldEntries
  <2>2. es \in Seq(Entries)
    BY <1>2, <2>1
  <2>3. QED
    BY <2>2, ValuesAssumption
<1>5. HasFieldNumber(g.kernel[k], f, g) = TRUE
  <2>1. CASE GetterEncoder(f) = None
    BY <1>1, <1>4, <2>1 DEF HasFieldNumber
  <2>2. CASE GetterEncoder(f) # None /\ f \notin Repeated
    BY <1>1, <2>2 DEF HasFieldNumber
  <2>3. CASE GetterEncoder(f) # None /\ f \in Repeated
    <3>1. f \in RepeatedMessages
      BY <2>3 DEF GetterEncoder, Repeated
    <3>2. Decoded(f, es) # <<>>
      <4>1. Decoded(f, es) = [i \in DOMAIN es |-> es[i].data]
        BY <3>1, Kinds DEF Decoded
      <4>2. 1 \in DOMAIN es
        BY <1>2
      <4>3. QED
        BY <4>1, <4>2
    <3>3. g.array[gl.cache] # <<>>
      BY <1>1, <1>3, <2>3, <3>2, EmptyList
    <3>4. QED
      BY <1>1, <3>3 DEF HasFieldNumber
  <2>4. QED
    BY <2>1, <2>2, <2>3
<1> HIDE DEF es
<1>6. Shown(g.kernel[k], f, g) = Shown(h.kernel[k], f, h)
  BY <1>2, <1>3
<1>7. HasFieldNumber(g.kernel[k], f, g) = HasFieldNumber(h.kernel[k], f, h)
  BY <1>2, <1>5, Zenon
<1>8. QED
  BY <1>6, <1>7, Zenon DEF Shows

\* Its places had no objects; those they have now are in no other place.
LEMMA ObjsDecoded ==
  ASSUME NEW h, HeapOK(h), NEW g, HeapOK(g), NEW k \in Kernels, NEW f \in Fields,
         GotInto(h, k, f, g),
         NEW p \in PlacesOf(g, k, f)
  PROVE  /\ ObjOf(g, p) \notin DOMAIN h.child
         /\ \A q \in PlacesOf(g, k, f) : ObjOf(g, q) = ObjOf(g, p) => q = p
<1> DEFINE c == g.kernel[k][f].cache
<1>1. InCache(g, k, f)
  BY DEF GotInto, InCache
<1>2. PICK held : NewlyMade(h, f, held) /\ CacheHas(g, f, c, held)
  BY DEF GotInto
<1>3. CASE f \in Singles
  <2>1. /\ PlacesOf(g, k, f) = {<<<<k, f>>, 1>>}
        /\ ObjOf(g, <<<<k, f>>, 1>>) = c
    BY <1>1, <1>3, OnePlace
  <2>2. c \notin DOMAIN h.child
    BY <1>2, <1>3, Kinds DEF NewlyMade, CacheHas
  <2>3. QED
    BY <2>1, <2>2
<1>4. CASE f \in RepeatedMessages
  <2>1. g.array[c] = held
    BY <1>2, <1>4, Kinds DEF CacheHas
  <2>2. /\ \A q : q \in PlacesOf(g, k, f) <=> \E i \in DOMAIN g.array[c] : q = <<<<k, f>>, i>>
        /\ \A i \in DOMAIN g.array[c] : ObjOf(g, <<<<k, f>>, i>>) = g.array[c][i]
    BY <1>1, <1>4, ListedPlace
  <2>3. /\ \A i \in DOMAIN held : held[i] \notin DOMAIN h.child
        /\ \A i, j \in DOMAIN held : held[i] = held[j] => i = j
    BY <1>2, <1>4 DEF NewlyMade
  <2>4. QED
    BY <2>1, <2>2, <2>3
<1>5. QED
  BY <1>3, <1>4, PlacesAre

\* Decoding one field into its cache is not seen.
LEMMA SeenDecoded ==
  ASSUME NEW h, HeapOK(h), NEW g, HeapOK(g), Grows(h, g), NEW k \in Kernels, NEW f \in Fields,
         \A j \in Kernels, e \in Fields : j # k \/ e # f => g.kernel[j][e] = h.kernel[j][e],
         GotInto(h, k, f, g)
  PROVE  Seen(g) = Seen(h)
<1> DEFINE mine == PlacesOf(h, k, f)
<1>1. \A j \in Kernels, e \in Fields : j # k \/ e # f => Alike(h, j, g, j, e)
  BY AlikeGrown
<1>2. \A j \in Kernels, e \in Fields :
        Shows(g.kernel[j], e, g) = Shows(h.kernel[j], e, h)
  BY <1>1, ShowsDecoded DEF Alike
<1>3. ViewOf(g) = ViewOf(h)
  BY <1>2 DEF ViewOf
<1>4. \A j \in Kernels, e \in Fields : PlacesOf(g, j, e) = PlacesOf(h, j, e)
  <2>1. ASSUME NEW j \in Kernels, NEW e \in Fields
        PROVE  Shown(g.kernel[j], e, g) = Shown(h.kernel[j], e, h)
    <3>1. Shows(g.kernel[j], e, g).val = Shows(h.kernel[j], e, h).val
      BY <1>2
    <3>2. QED
      BY <3>1 DEF Shows
  <2>2. QED
    BY <2>1 DEF PlacesOf
<1>5. Places(g) = Places(h)
  BY <1>4 DEF Places
<1>6. \A p \in mine : /\ ObjOf(h, p) = NoObj /\ ObjOf(g, p) \notin DOMAIN h.child
                      /\ \A q \in mine : ObjOf(g, q) = ObjOf(g, p) => q = p
  <2>1. ASSUME NEW p \in mine PROVE ObjOf(h, p) = NoObj
    <3>1. ~ InCache(h, k, f)
      BY DEF GotInto, InCache
    <3>2. QED
      BY <2>1, <3>1, NoObjs, ObjOfPlace
  <2>2. QED
    BY <1>4, <2>1, ObjsDecoded
<1>7. ASSUME NEW p \in Places(h), p \notin mine
      PROVE  ObjOf(g, p) = ObjOf(h, p) /\ (ObjOf(h, p) # NoObj => ObjOf(h, p) \in DOMAIN h.child)
  <2>1. PICK j \in Kernels, e \in Fields : p \in PlacesOf(h, j, e)
    BY PlaceIs
  <2>2. j # k \/ e # f
    BY <1>7, <2>1
  <2>3. QED
    BY <1>1, <2>1, <2>2, AlikePlaces, ObjOfPlace
<1> HIDE DEF mine
<1>8. ASSUME NEW p \in Places(h) PROVE SameOf(g)[p] = SameOf(h)[p]
  <2>1. ASSUME NEW q PROVE q \in SameOf(g)[p] <=> q \in SameOf(h)[p]
    <3>1. q \in SameOf(g)[p] <=>
            q \in Places(h) /\ (q = p \/ (ObjOf(g, p) # NoObj /\ ObjOf(g, q) = ObjOf(g, p)))
      BY <1>5, SameIs
    <3>2. q \in SameOf(h)[p] <=>
            q \in Places(h) /\ (q = p \/ (ObjOf(h, p) # NoObj /\ ObjOf(h, q) = ObjOf(h, p)))
      BY SameIs
    <3>3. QED
      BY <1>6, <1>7, <3>1, <3>2
  <2>2. SameOf(g)[p] = {q \in Places(h) : q \in SameOf(g)[p]}
        /\ SameOf(h)[p] = {q \in Places(h) : q \in SameOf(h)[p]}
    BY <1>5, SameIs
  <2>3. QED
    BY <2>1, <2>2
<1>9. SameOf(g) = SameOf(h)
  <2>1. SameOf(g) = [p \in Places(h) |-> SameOf(g)[p]] /\ SameOf(h) = [p \in Places(h) |-> SameOf(h)[p]]
    BY <1>5, SameIs
  <2>2. QED
    BY <1>8, <2>1
<1>10. QED
  BY <1>3, <1>9 DEF Seen

\* Reading changes nothing that is seen.
LEMMA SeenGot ==
  ASSUME NEW h, HeapOK(h), NEW k \in Kernels, NEW f \in Fields, CanGet(h.kernel[k], f)
  PROVE  Seen(Got(h, k, f)) = Seen(h)
<1> DEFINE g == Got(h, k, f)
<1>1. CASE AtHand(h.kernel[k], f)
  BY <1>1 DEF Got
<1>2. CASE ~AtHand(h.kernel[k], f)
  <2>1. \A c : c = g =>
          /\ HeapOK(c) /\ Grows(h, c) /\ GotInto(h, k, f, c)
          /\ \A j \in Kernels, e \in Fields : j # k \/ e # f => c.kernel[j][e] = h.kernel[j][e]
    BY <1>2, GotOK
  <2>2. /\ HeapOK(g) /\ Grows(h, g) /\ GotInto(h, k, f, g)
        /\ \A j \in Kernels, e \in Fields : j # k \/ e # f => g.kernel[j][e] = h.kernel[j][e]
    BY <2>1
  <2> HIDE DEF g
  <2>3. Seen(g) = Seen(h)
    BY <2>2, SeenDecoded
  <2>4. QED
    BY <2>3 DEF g
<1>3. QED
  BY <1>1, <1>2

-----------------------------------------------------------------------------
(* Setters. *)

\* A field that was set holds its new value in the cache only.
LEMMA SetFieldIs ==
  ASSUME NEW h, HeapOK(h), NEW k \in Kernels, NEW f \in Fields, NEW held, HeldFits(h, f, held),
         NEW encoder \in {"Each", "Packed"}, encoder = "Packed" => f \in Packables,
         NEW g, g = SetField(h, k, f, held, encoder)
  PROVE  /\ HeapOK(g) /\ Grows(h, g) /\ InCache(g, k, f)
         /\ \A j \in Kernels, e \in Fields : j # k \/ e # f => g.kernel[j][e] = h.kernel[j][e]
         /\ CacheHas(g, f, g.kernel[k][f].cache, held)
         /\ Shown(g.kernel[k], f, g) = HeldValue(h, f, held)
         /\ HeldValue(h, f, held) \in Values(f)
         /\ HasFieldNumber(g.kernel[k], f, g) = (f \in Repeated => HeldValue(h, f, held) # <<>>)
<1> DEFINE stored == InHeap(h, f, held)
           fl == Data(Null, stored.cache, encoder)
           v == HeldValue(h, f, held)
<1>1. MayBeHeld(h, f, held, Null, encoder)
  BY DEF MayBeHeld
<1>2. g = With(stored.heap, k, f, fl)
  BY DEF SetField, With, Data
<1>3. /\ HeapOK(g) /\ Grows(h, g)
      /\ g.kernel[k][f] = fl /\ fl \in FieldData /\ fl.cache # Undefined
      /\ \A j \in Kernels, e \in Fields : j # k \/ e # f => g.kernel[j][e] = h.kernel[j][e]
      /\ ValueOf(g, f, fl.cache) = v
      /\ CacheHas(g, f, fl.cache, held)
  BY <1>1, <1>2, PutOK
<1>4. fl.index = Null /\ fl # NoField
  BY <1>3, ValuesAssumption DEF Data
<1> HIDE DEF fl, v
<1>5. Holds(g, f, fl.cache) /\ Shown(g.kernel[k], f, g) = v /\ v \in Values(f)
  <2> DEFINE gl == g.kernel[k][f]
  <2>1. gl = fl
    BY <1>3
  <2>2. gl # NoField /\ gl.cache # Undefined
    BY <1>3, <1>4, <2>1
  <2>3. /\ Holds(g, f, gl.cache) /\ Shown(g.kernel[k], f, g) = ValueOf(g, f, gl.cache)
        /\ ValueOf(g, f, gl.cache) \in Values(f)
    <3>1. HeapOK(g)
      BY <1>3
    <3>2. QED
      BY <2>2, <3>1, ShownIs
  <2> HIDE DEF gl
  <2>4. QED
    BY <1>3, <2>1, <2>3
<1>6. HasFieldNumber(g.kernel[k], f, g) = (f \in Repeated => v # <<>>)
  <2>1. HasFieldNumber(g.kernel[k], f, g) <=> (f \in Repeated => g.array[fl.cache] # <<>>)
    BY <1>3, <1>4 DEF HasFieldNumber
  <2>2. f \in Repeated => (g.array[fl.cache] = <<>> <=> v = <<>>)
    BY <1>3, <1>5, EmptyList
  <2>3. HasFieldNumber(g.kernel[k], f, g) <=> (f \in Repeated => v # <<>>)
    BY <2>1, <2>2
  <2>4. QED
    BY <2>3 DEF HasFieldNumber
<1>7. QED
  BY <1>3, <1>4, <1>5, <1>6 DEF InCache, v

\* What setField_ does is a Set of the view.
LEMMA SetSeen ==
  ASSUME NEW h, HeapOK(h), NEW k \in Kernels, NEW f \in Fields, NEW held, HeldFits(h, f, held),
         NEW encoder \in {"Each", "Packed"}, encoder = "Packed" => f \in Packables,
         NEW g, g = SetField(h, k, f, held, encoder)
  PROVE  HeapOK(g) /\ View!Set(Seen(h), Seen(g), k, f)
<1> DEFINE v == HeldValue(h, f, held)
<1>1. /\ HeapOK(g) /\ Grows(h, g)
      /\ \A j \in Kernels, e \in Fields : j # k \/ e # f => g.kernel[j][e] = h.kernel[j][e]
      /\ Shown(g.kernel[k], f, g) = v /\ v \in Values(f)
      /\ HasFieldNumber(g.kernel[k], f, g) = (f \in Repeated => v # <<>>)
  BY SetFieldIs
<1>2. \A j \in Kernels, e \in Fields : j # k \/ e # f => Alike(h, j, g, j, e)
  BY <1>1, AlikeGrown
<1>3. View!FieldChanges(Seen(h), Seen(g), k, f)
  BY <1>2, FieldChangesIf
<1> HIDE DEF v
<1>4. /\ Seen(g).view[<<k, f>>].val = v
      /\ Seen(g).view[<<k, f>>].has = (f \in Repeated => v # <<>>)
  <2>1. /\ Seen(g).view[<<k, f>>].val = Shown(g.kernel[k], f, g)
        /\ Seen(g).view[<<k, f>>].has = HasFieldNumber(g.kernel[k], f, g)
    BY SeenIs
  <2>2. QED
    BY <1>1, <2>1, Zenon
<1>5. v \notin {Unset, Unreadable}
  BY <1>1, NotAMark
<1>6. View!Repeated = Repeated
  BY SeenIs
<1>7. QED
  BY <1>1, <1>3, <1>4, <1>5, <1>6 DEF View!Set

\* A field that is cleared.
LEMMA ClearSeen ==
  ASSUME NEW h, HeapOK(h), NEW k \in Kernels, NEW f \in Fields,
         NEW g, g = With(h, k, f, NoField)
  PROVE  HeapOK(g) /\ View!Clear(Seen(h), Seen(g), k, f)
<1>1. /\ HeapOK(g) /\ g.array = h.array /\ g.child = h.child /\ g.kernel[k][f] = NoField
      /\ \A j \in Kernels, e \in Fields : j # k \/ e # f => g.kernel[j][e] = h.kernel[j][e]
  BY ReplaceOK
<1>2. Grows(h, g)
  BY <1>1 DEF Grows
<1>3. \A j \in Kernels, e \in Fields : j # k \/ e # f => Alike(h, j, g, j, e)
  BY <1>1, <1>2, AlikeGrown
<1>4. View!FieldChanges(Seen(h), Seen(g), k, f)
  BY <1>3, FieldChangesIf
<1>5. Seen(g).view[<<k, f>>] = [has |-> FALSE, val |-> IF f \in Repeated THEN <<>> ELSE Unset]
  <2>1. Seen(g).view[<<k, f>>] = Shows(g.kernel[k], f, g)
    BY SeenIs
  <2>2. Shows(g.kernel[k], f, g) = [has |-> FALSE, val |-> IF f \in Repeated THEN <<>> ELSE Unset]
    BY <1>1, ShownIs
  <2>3. QED
    BY <2>1, <2>2, Zenon
<1>6. QED
  BY <1>1, <1>4, <1>5, SeenIs DEF View!Clear

\* What is seen after a step, and whether a call does that.
Told ==
  Seen(heap)' = Seen(heap) \/ View!Call(Seen(heap), Seen(heap)')

\* A call of one of the kinds that KernelView lists.
LEMMA CallIs ==
  ASSUME NEW h, HeapOK(h), Become(h), NEW x, x = Seen(heap),
         \/ \E k \in Kernels, f \in Fields :
              View!Clear(x, Seen(h), k, f) \/ View!Set(x, Seen(h), k, f)
         \/ \E k \in Kernels, f \in Repeated :
              View!AddElements(x, Seen(h), k, f) \/ View!SetElement(x, Seen(h), k, f)
         \/ \E k \in Kernels : \E j \in Kernels \ {k} : View!Copy(x, Seen(h), k, j)
         \/ View!Edit(x, Seen(h))
  PROVE  Told
<1>1. Seen(heap)' = Seen(h)
  BY BecomeSeen
<1>2. View!Coherent(Seen(h))
  BY SeenCoherent
<1>3. View!Fields = Fields /\ View!Repeated = Repeated
  BY SeenIs
<1>4. View!Call(x, Seen(h))
  BY <1>2, <1>3 DEF View!Call
<1>5. QED
  BY <1>1, <1>4 DEF Told

\* Values given by a caller, in a heap seen like the one they are given in.
LEMMA GivenSeen ==
  ASSUME NEW h, HeapOK(h), NEW f \in Fields, NEW n \in Nat, NEW g \in Given(h, f, n)
  PROVE  HeapOK(g.heap) /\ Seen(g.heap) = Seen(h)
BY GivenOK, SeenGrown

\* A get shows nothing.
LEMMA GetFieldTold ==
  ASSUME HeapOK(heap), NEW k \in Kernels, NEW f \in Fields, GetField(k, f)
  PROVE  Told
<1> DEFINE got == Got(heap, k, f)
<1>1. heap.kernel = kernel
  BY DEF heap
<1>2. HeapOK(got) /\ Seen(got) = Seen(heap)
  BY <1>1, GotOK, SeenGot DEF GetField
<1>3. Become(got)
  BY DEF GetField
<1> HIDE DEF got
<1>4. QED
  BY <1>2, <1>3, BecomeSeen DEF Told

\* getMessageAttach of a field that is not there is a Set.
LEMMA GetMessageAttachTold ==
  ASSUME HeapOK(heap), NEW k \in Kernels, NEW f \in Fields, GetMessageAttach(k, f)
  PROVE  Told
<1> DEFINE made == Made(heap, f, Empty)
           new == SetField(made.heap, k, f, made.held, "Each")
<1>1. Empty \in Values(f) /\ f \notin Packables
  BY ValuesAssumption, Kinds DEF Values, GetMessageAttach
<1>2. HeapOK(made.heap) /\ HeldFits(made.heap, f, made.held) /\ Seen(made.heap) = Seen(heap)
  BY <1>1, MadeOK, SeenGrown
<1>3. Become(new)
  BY DEF GetMessageAttach
<1> HIDE DEF made
<1>4. HeapOK(new) /\ View!Set(Seen(heap), Seen(new), k, f)
  BY <1>1, <1>2, SetSeen
<1> HIDE DEF new
<1>5. QED
  BY <1>3, <1>4, CallIs

\* A setter of a scalar or of a message is a Set.
LEMMA SetSingularTold ==
  ASSUME HeapOK(heap), NEW k \in Kernels, NEW f \in Fields, SetSingular(k, f)
  PROVE  Told
<1>1. f \in Scalars \/ f \in Singles
  BY DEF SetSingular
<1>2. PICK g \in Given(heap, f, 1) : Become(SetField(g.heap, k, f, g.held[1], "Each"))
  BY DEF SetSingular
<1>3. /\ HeapOK(g.heap) /\ Seen(g.heap) = Seen(heap)
      /\ g.held \in [1..1 -> IF f \in Scalars \union Packables THEN Vals ELSE DOMAIN g.heap.child]
  BY <1>2, GivenOK, GivenSeen
<1>4. HeldFits(g.heap, f, g.held[1])
  BY <1>1, <1>3, Kinds DEF HeldFits
<1> DEFINE new == SetField(g.heap, k, f, g.held[1], "Each")
<1>5. HeapOK(new) /\ View!Set(Seen(heap), Seen(new), k, f)
  BY <1>3, <1>4, SetSeen
<1> HIDE DEF new
<1>6. QED
  BY <1>2, <1>5, CallIs DEF new

\* A setter of a whole list is a Set.
LEMMA SetRepeatedIterableTold ==
  ASSUME HeapOK(heap), NEW k \in Kernels, NEW f \in Fields, SetRepeatedIterable(k, f)
  PROVE  Told
<1>1. f \in Repeated
  BY DEF SetRepeatedIterable
<1>2. PICK n \in 0..1, encoder \in Encoders(f) :
        \E g \in Given(heap, f, n) : Become(SetField(g.heap, k, f, g.held, encoder))
  BY DEF SetRepeatedIterable
<1>3. PICK g \in Given(heap, f, n) : Become(SetField(g.heap, k, f, g.held, encoder))
  BY <1>2
<1>4. n \in Nat
  OBVIOUS
<1>5. HeapOK(g.heap) /\ Seen(g.heap) = Seen(heap) /\ HeldFits(g.heap, f, g.held)
  BY <1>1, <1>4, GivenSeen, GivenToList, ListFits
<1> DEFINE new == SetField(g.heap, k, f, g.held, encoder)
<1>6. HeapOK(new) /\ View!Set(Seen(heap), Seen(new), k, f)
  BY <1>5, EncodersOK, SetSeen
<1> HIDE DEF new
<1>7. QED
  BY <1>3, <1>6, CallIs DEF new

\* clearField is a Clear.
LEMMA ClearFieldTold ==
  ASSUME HeapOK(heap), NEW k \in Kernels, NEW f \in Fields, ClearField(k, f)
  PROVE  Told
<1> DEFINE new == With(heap, k, f, NoField)
<1>1. HeapOK(new) /\ View!Clear(Seen(heap), Seen(new), k, f)
  BY ClearSeen
<1>2. Become(new)
  BY DEF ClearField, With
<1> HIDE DEF new
<1>3. QED
  BY <1>1, <1>2, CallIs

-----------------------------------------------------------------------------
(* Adding elements. *)

\* A list that begins with another has it as a prefix.
LEMMA PrefixIf ==
  ASSUME NEW V, NEW s \in Seq(V), NEW t \in Seq(V), Len(s) <= Len(t),
         \A i \in 1..Len(s) : t[i] = s[i]
  PROVE  View!IsPrefix(s, t)
<1>1. Len(s) \in Nat /\ Len(t) \in Nat
  OBVIOUS
<1>2. SubSeq(s, 1, Len(s)) = [i \in 1..Len(s) |-> s[i]]
  OBVIOUS
<1>3. SubSeq(t, 1, Len(s)) = [i \in 1..Len(s) |-> t[i]]
  BY <1>1
<1>4. QED
  BY <1>2, <1>3 DEF View!IsPrefix

\* The value that a list stands for.
LEMMA ListValue ==
  ASSUME NEW h, HeapOK(h), NEW f \in Repeated, NEW s \in Seq(Members(h, f))
  PROVE  /\ HeldValue(h, f, s) = IF f \in Packables THEN s ELSE ContentsOf(h, s)
         /\ HeldValue(h, f, s) \in Seq(Vals \union Contents)
         /\ Len(HeldValue(h, f, s)) = Len(s) /\ DOMAIN HeldValue(h, f, s) = DOMAIN s
         /\ f \in Packables => \A i \in DOMAIN s : HeldValue(h, f, s)[i] = s[i]
         /\ f \notin Packables => \A i \in DOMAIN s : HeldValue(h, f, s)[i] = h.child[s[i]]
<1> DEFINE v == HeldValue(h, f, s)
<1>1. f \in Fields /\ f \notin Scalars /\ f \notin Singles
  BY Kinds DEF Fields
<1>2. v = IF f \in Packables THEN s ELSE ContentsOf(h, s)
  BY <1>1 DEF HeldValue, ContentsOf
<1>3. CASE f \in Packables
  <2>1. s \in Seq(Vals)
    BY <1>3 DEF Members
  <2>2. s \in Seq(Vals \union Contents)
    BY <2>1
  <2>3. QED
    BY <1>2, <1>3, <2>2
<1>4. CASE f \notin Packables
  <2>1. s \in Seq(DOMAIN h.child) /\ Len(s) \in Nat /\ DOMAIN s = 1..Len(s)
    BY <1>4, SeqIs DEF Members
  <2>2. \A i \in 1..Len(s) : h.child[s[i]] \in Vals \union Contents
    <3>1. \A o \in DOMAIN h.child : h.child[o] \in Contents
      BY DEF HeapOK
    <3>2. QED
      BY <2>1, <3>1
  <2>3. v = [i \in 1..Len(s) |-> h.child[s[i]]]
    BY <1>2, <1>4, <2>1 DEF ContentsOf
  <2> HIDE DEF v
  <2>4. v \in Seq(Vals \union Contents) /\ Len(v) = Len(s)
    BY <2>1, <2>2, <2>3, IsSeq
  <2>5. QED
    BY <1>2, <1>4, <2>1, <2>3, <2>4 DEF v
<1>5. QED
  BY <1>3, <1>4

\* What a repeated field shows is what its elements stand for.
LEMMA ElementsShown ==
  ASSUME NEW h, HeapOK(h), NEW k \in Kernels, NEW f \in Repeated, AtHand(h.kernel[k], f)
  PROVE  /\ Elements(h, k, f) \in Seq(Members(h, f))
         /\ Shown(h.kernel[k], f, h) = HeldValue(h, f, Elements(h, k, f))
<1> DEFINE fl == h.kernel[k][f]
<1>1. f \in Fields
  BY DEF Fields
<1>2. Elements(h, k, f) \in Seq(Members(h, f))
  BY ElementsFit
<1>3. CASE fl = NoField
  <2> DEFINE es == Elements(h, k, f)
             v == HeldValue(h, f, es)
  <2>1. Shown(h.kernel[k], f, h) = <<>> /\ es = <<>>
    BY <1>3 DEF Shown, Elements
  <2>2. v \in Seq(Vals \union Contents) /\ DOMAIN v = DOMAIN es
    BY <1>2, ListValue
  <2> HIDE DEF v, es
  <2>3. v = <<>>
    BY <2>1, <2>2
  <2>4. QED
    BY <1>2, <2>1, <2>3 DEF v, es
<1>4. CASE fl # NoField
  <2>1. fl.cache # Undefined
    BY <1>4 DEF AtHand
  <2>2. Shown(h.kernel[k], f, h) = ValueOf(h, f, fl.cache)
    BY <1>1, <1>4, <2>1, ShownIs
  <2>3. Elements(h, k, f) = h.array[fl.cache]
    BY <1>4 DEF Elements
  <2> HIDE DEF fl
  <2>4. ValueOf(h, f, fl.cache) = HeldValue(h, f, h.array[fl.cache])
    BY <1>1, Kinds DEF ValueOf, HeldValue
  <2>5. QED
    BY <1>2, <2>2, <2>3, <2>4
<1>5. QED
  BY <1>3, <1>4

\* A repeated field that was set: a new array, and what is shown of it.
ListSet(h, k, f, list, g) ==
  /\ HeapOK(g) /\ Grows(h, g) /\ InCache(g, k, f)
  /\ \A j \in Kernels, e \in Fields : j # k \/ e # f => g.kernel[j][e] = h.kernel[j][e]
  /\ g.array[g.kernel[k][f].cache] = list
  /\ Shown(g.kernel[k], f, g) = HeldValue(h, f, list)
  /\ HeldValue(h, f, list) \in Values(f)
  /\ HasFieldNumber(g.kernel[k], f, g) = (HeldValue(h, f, list) # <<>>)

\* setField_ of a list leaves that list as the field's.
LEMMA SetFieldList ==
  ASSUME NEW h, HeapOK(h), NEW k \in Kernels, NEW f \in Repeated, NEW list \in Seq(Members(h, f)),
         NEW encoder \in {"Each", "Packed"}, encoder = "Packed" => f \in Packables
  PROVE  ListSet(h, k, f, list, SetField(h, k, f, list, encoder))
<1> DEFINE g == SetField(h, k, f, list, encoder)
           w == HeldValue(h, f, list)
<1>1. f \in Fields /\ HeldFits(h, f, list)
  BY ListFits DEF Fields
<1>2. \A d : d = g =>
         /\ HeapOK(d) /\ Grows(h, d) /\ InCache(d, k, f)
         /\ \A j \in Kernels, e \in Fields : j # k \/ e # f => d.kernel[j][e] = h.kernel[j][e]
         /\ CacheHas(d, f, d.kernel[k][f].cache, list)
         /\ Shown(d.kernel[k], f, d) = w /\ w \in Values(f)
         /\ HasFieldNumber(d.kernel[k], f, d) = (f \in Repeated => w # <<>>)
  BY <1>1, SetFieldIs
<1> HIDE DEF g, w
<1>3. (f \in Repeated => w # <<>>) = (w # <<>>)
  OBVIOUS
<1>4. /\ HeapOK(g) /\ Grows(h, g) /\ InCache(g, k, f)
      /\ \A j \in Kernels, e \in Fields : j # k \/ e # f => g.kernel[j][e] = h.kernel[j][e]
      /\ CacheHas(g, f, g.kernel[k][f].cache, list)
      /\ Shown(g.kernel[k], f, g) = w /\ w \in Values(f)
      /\ HasFieldNumber(g.kernel[k], f, g) = (w # <<>>)
  BY <1>2, <1>3, Zenon
<1>5. g.array[g.kernel[k][f].cache] = list
  BY <1>4 DEF CacheHas
<1>6. QED
  BY <1>4, <1>5, Zenon DEF ListSet, g, w

\* What is seen of a list: it is there if it has elements.
IsThere(r) == r.has = (r.val # <<>>)

\* A field of the list alone changes.
LEMMA ListSetView ==
  ASSUME NEW h, HeapOK(h), NEW k \in Kernels, NEW f \in Repeated, NEW list, NEW g,
         ListSet(h, k, f, list, g)
  PROVE  /\ \A j \in Kernels, e \in Fields : j # k \/ e # f => Alike(h, j, g, j, e)
         /\ Seen(g).view = [Seen(h).view EXCEPT ![<<k, f>>] = Seen(g).view[<<k, f>>]]
         /\ Seen(g).view[<<k, f>>].val = HeldValue(h, f, list)
         /\ IsThere(Seen(g).view[<<k, f>>])
         /\ HeldValue(h, f, list) # Unreadable
<1>1. f \in Fields
  BY DEF Fields
<1>2. /\ HeapOK(g) /\ Grows(h, g)
      /\ \A j \in Kernels, e \in Fields : j # k \/ e # f => g.kernel[j][e] = h.kernel[j][e]
      /\ HeldValue(h, f, list) \in Values(f)
  BY DEF ListSet
<1>3. \A j \in Kernels, e \in Fields : j # k \/ e # f => Alike(h, j, g, j, e)
  BY <1>2, AlikeGrown
<1>4. Seen(g).view = [Seen(h).view EXCEPT ![<<k, f>>] = Seen(g).view[<<k, f>>]]
  <2>1. View!FieldChanges(Seen(h), Seen(g), k, f)
    BY <1>1, <1>3, FieldChangesIf
  <2>2. QED
    BY <2>1 DEF View!FieldChanges
<1>5. /\ Seen(g).view[<<k, f>>].val = Shown(g.kernel[k], f, g)
      /\ Seen(g).view[<<k, f>>].has = HasFieldNumber(g.kernel[k], f, g)
  BY <1>1, SeenIs
<1>6. /\ Shown(g.kernel[k], f, g) = HeldValue(h, f, list)
      /\ HasFieldNumber(g.kernel[k], f, g) = (HeldValue(h, f, list) # <<>>)
  BY Zenon DEF ListSet
<1>7. /\ Seen(g).view[<<k, f>>].val = HeldValue(h, f, list)
      /\ IsThere(Seen(g).view[<<k, f>>])
  BY <1>5, <1>6, Zenon DEF IsThere
<1>8. HeldValue(h, f, list) # Unreadable
  BY <1>1, <1>2, NotAMark
<1>9. QED
  BY <1>3, <1>4, <1>7, <1>8, Zenon

\* Of a longer list, the first elements show what they showed.
LEMMA LongerValue ==
  ASSUME NEW h, HeapOK(h), NEW f \in Repeated,
         NEW s \in Seq(Members(h, f)), NEW t \in Seq(Members(h, f)), Len(s) <= Len(t),
         \A i \in DOMAIN s : t[i] = s[i]
  PROVE  View!IsPrefix(HeldValue(h, f, s), HeldValue(h, f, t))
<1> DEFINE v == HeldValue(h, f, s)
           w == HeldValue(h, f, t)
<1>1. /\ v \in Seq(Vals \union Contents) /\ Len(v) = Len(s) /\ DOMAIN v = DOMAIN s
      /\ f \in Packables => \A i \in DOMAIN s : v[i] = s[i]
      /\ f \notin Packables => \A i \in DOMAIN s : v[i] = h.child[s[i]]
  BY ListValue
<1>2. /\ w \in Seq(Vals \union Contents) /\ Len(w) = Len(t) /\ DOMAIN w = DOMAIN t
      /\ f \in Packables => \A i \in DOMAIN t : w[i] = t[i]
      /\ f \notin Packables => \A i \in DOMAIN t : w[i] = h.child[t[i]]
  BY ListValue
<1>3. /\ Len(s) \in Nat /\ DOMAIN s = 1..Len(s)
      /\ Len(t) \in Nat /\ DOMAIN t = 1..Len(t)
  BY SeqIs
<1> HIDE DEF v, w
<1>4. ASSUME NEW i \in 1..Len(v) PROVE w[i] = v[i]
  <2>1. i \in DOMAIN s /\ i \in DOMAIN t
    BY <1>1, <1>3
  <2>2. QED
    BY <1>1, <1>2, <2>1
<1>5. Len(v) <= Len(w)
  BY <1>1, <1>2
<1>6. QED
  BY <1>1, <1>2, <1>4, <1>5, PrefixIf DEF v, w

\* A list that is set and was in the cache: its places are the indices.
LEMMA ListGrownPlaces ==
  ASSUME NEW h, HeapOK(h), NEW k \in Kernels, NEW f \in Repeated, AtHand(h.kernel[k], f),
         NEW list, \A i \in DOMAIN Elements(h, k, f) : i \in DOMAIN list /\ list[i] = Elements(h, k, f)[i],
         NEW g, ListSet(h, k, f, list, g),
         NEW p \in PlacesOf(h, k, f)
  PROVE  p \in PlacesOf(g, k, f) /\ ObjOf(g, p) = ObjOf(h, p)
<1>1. f \in Fields
  BY DEF Fields
<1>2. f \in RepeatedMessages
  BY <1>1, PlacesAre, Kinds
<1>3. InCache(h, k, f)
  <2>1. SUFFICES ASSUME h.kernel[k][f] = NoField PROVE FALSE
    BY DEF AtHand, InCache
  <2>2. Shown(h.kernel[k], f, h) = <<>>
    BY <2>1 DEF Shown
  <2>3. PICK i \in DOMAIN Shown(h.kernel[k], f, h) : TRUE
    BY <1>1, <1>2, PlacesAre
  <2>4. QED
    BY <2>2, <2>3
<1> DEFINE os == h.array[h.kernel[k][f].cache]
           ns == g.array[g.kernel[k][f].cache]
<1>4. os = Elements(h, k, f)
  BY <1>3 DEF Elements, InCache
<1>5. HeapOK(g) /\ InCache(g, k, f) /\ ns = list
  BY DEF ListSet
<1>6. /\ \A q : q \in PlacesOf(h, k, f) <=> \E i \in DOMAIN os : q = <<<<k, f>>, i>>
      /\ \A i \in DOMAIN os : ObjOf(h, <<<<k, f>>, i>>) = os[i]
  BY <1>2, <1>3, ListedPlace
<1>7. /\ \A q : q \in PlacesOf(g, k, f) <=> \E i \in DOMAIN ns : q = <<<<k, f>>, i>>
      /\ \A i \in DOMAIN ns : ObjOf(g, <<<<k, f>>, i>>) = ns[i]
  BY <1>2, <1>5, ListedPlace
<1> HIDE DEF os, ns
<1>8. PICK i \in DOMAIN os : p = <<<<k, f>>, i>>
  BY <1>6
<1>9. i \in DOMAIN ns /\ ns[i] = os[i]
  BY <1>4, <1>5
<1>10. QED
  BY <1>6, <1>7, <1>8, <1>9

\* A list that was made longer is an AddElements of the view.
LEMMA AddSeen ==
  ASSUME NEW h, HeapOK(h), NEW k \in Kernels, NEW f \in Repeated, AtHand(h.kernel[k], f),
         NEW list \in Seq(Members(h, f)), Len(Elements(h, k, f)) <= Len(list),
         \A i \in DOMAIN Elements(h, k, f) : i \in DOMAIN list /\ list[i] = Elements(h, k, f)[i],
         NEW g, ListSet(h, k, f, list, g)
  PROVE  View!AddElements(Seen(h), Seen(g), k, f)
<1> DEFINE old == Elements(h, k, f)
           v == HeldValue(h, f, old)
           w == HeldValue(h, f, list)
<1>1. f \in Fields
  BY DEF Fields
<1>2. old \in Seq(Members(h, f)) /\ Shown(h.kernel[k], f, h) = v
  BY ElementsShown
<1>3. /\ \A j \in Kernels, e \in Fields : j # k \/ e # f => Alike(h, j, g, j, e)
      /\ Seen(g).view = [Seen(h).view EXCEPT ![<<k, f>>] = Seen(g).view[<<k, f>>]]
      /\ Seen(g).view[<<k, f>>].val = w
      /\ IsThere(Seen(g).view[<<k, f>>])
      /\ w # Unreadable
  BY ListSetView
<1>4. View!IsPrefix(v, w)
  BY <1>2, LongerValue
<1>5. Seen(h).view[<<k, f>>].val = v
  <2>1. Seen(h).view[<<k, f>>].val = Shown(h.kernel[k], f, h)
    BY <1>1, SeenIs
  <2>2. QED
    BY <1>2, <2>1
<1>6. v # Unreadable
  <2>1. v \in Seq(Vals) \union Seq(Contents)
    <3>1. HeldFits(h, f, old)
      BY <1>2, ListFits
    <3>2. CASE f \in Packables
      <4>1. v = old /\ old \in Seq(Vals)
        BY <1>2, <3>2, ListValue DEF Members
      <4>2. QED
        BY <4>1
    <3>3. CASE f \notin Packables
      <4>1. old \in Seq(DOMAIN h.child) /\ v = ContentsOf(h, old)
        BY <1>2, <3>3, ListValue DEF Members
      <4>2. \A o \in DOMAIN h.child : h.child[o] \in Contents
        BY DEF HeapOK
      <4> HIDE DEF v, old
      <4>3. v \in Seq(Contents)
        BY <4>1, <4>2 DEF ContentsOf
      <4>4. QED
        BY <4>3
    <3>4. QED
      BY <3>2, <3>3
  <2>2. QED
    BY <2>1, ValuesAssumption
<1>7. ASSUME NEW p \in Places(h)
      PROVE  p \in Places(g) /\ ObjOf(g, p) = ObjOf(h, p)
  <2>1. PICK j \in Kernels, e \in Fields : p \in PlacesOf(h, j, e)
    BY PlaceIs
  <2>2. p \in PlacesOf(g, j, e) /\ ObjOf(g, p) = ObjOf(h, p)
    <3>1. CASE j # k \/ e # f
      BY <1>3, <2>1, <3>1, AlikePlaces
    <3>2. CASE j = k /\ e = f
      BY <2>1, <3>2, ListGrownPlaces
    <3>3. QED
      BY <3>1, <3>2
  <2>3. QED
    BY <2>2, PlaceIs
<1>8. View!ObjectsStay(Seen(h), Seen(g), View!Places(Seen(h)))
  BY <1>7, ObjectsStayIf, SeenPlaces
<1> HIDE DEF v, w
<1>9. /\ Seen(h).view[<<k, f>>].val # Unreadable /\ Seen(g).view[<<k, f>>].val # Unreadable
       /\ View!IsPrefix(Seen(h).view[<<k, f>>].val, Seen(g).view[<<k, f>>].val)
  BY <1>3, <1>4, <1>5, <1>6
<1>10. QED
  BY <1>3, <1>8, <1>9, Zenon DEF View!AddElements, IsThere

\* An adder of elements is an AddElements.
LEMMA AddRepeatedIterableTold ==
  ASSUME HeapOK(heap), NEW k \in Kernels, NEW f \in Fields, AddRepeatedIterable(k, f)
  PROVE  Told
<1> DEFINE got == Got(heap, k, f)
<1>1. f \in Repeated
  BY DEF AddRepeatedIterable
<1>2. PICK n \in 0..1, encoder \in Encoders(f) :
        \E g \in Given(got, f, n) :
          Become(SetField(g.heap, k, f, Elements(g.heap, k, f) \o g.held, encoder))
  BY DEF AddRepeatedIterable
<1>3. PICK g \in Given(got, f, n) :
        Become(SetField(g.heap, k, f, Elements(g.heap, k, f) \o g.held, encoder))
  BY <1>2
<1>4. HeapOK(got) /\ AtHand(got.kernel[k], f) /\ Seen(got) = Seen(heap)
  <2>1. heap.kernel = kernel
    BY DEF heap
  <2>2. QED
    BY <2>1, GotOK, SeenGot DEF AddRepeatedIterable
<1> HIDE DEF got
<1>5. n \in Nat
  OBVIOUS
<1> DEFINE h == g.heap
           old == Elements(h, k, f)
           list == old \o g.held
           new == SetField(h, k, f, list, encoder)
<1>6. /\ HeapOK(h) /\ h.kernel = got.kernel /\ g.held \in Seq(Members(h, f))
      /\ Seen(h) = Seen(heap)
  BY <1>1, <1>4, <1>5, GivenOK, GivenToList, GivenSeen
<1>7. AtHand(h.kernel[k], f)
  BY <1>4, <1>6
<1>8. Become(new)
  BY <1>3
<1> HIDE DEF h
<1>9. old \in Seq(Members(h, f))
  BY <1>1, <1>6, <1>7, ElementsFit
<1>10. /\ list \in Seq(Members(h, f)) /\ Len(old) <= Len(list)
       /\ \A i \in DOMAIN old : i \in DOMAIN list /\ list[i] = old[i]
  <2> HIDE DEF old
  <2>1. QED
    BY <1>6, <1>9
<1> HIDE DEF list
<1>11. ListSet(h, k, f, list, new)
  BY <1>1, <1>6, <1>10, EncodersOK, SetFieldList
<1> HIDE DEF new
<1>12. View!AddElements(Seen(h), Seen(new), k, f)
  BY <1>1, <1>6, <1>7, <1>10, <1>11, AddSeen
<1>13. HeapOK(new)
  BY <1>11 DEF ListSet
<1>14. QED
  BY <1>1, <1>6, <1>8, <1>12, <1>13, CallIs

-----------------------------------------------------------------------------
(* Setting an element. *)

\* From h to g an element of the list of a field is set, in place.
ElementSet(h, k, f, c, i, g) ==
  /\ HeapOK(h) /\ HeapOK(g)
  /\ Has(h, k, f, c) /\ Has(g, k, f, c) /\ c # Undefined
  /\ \A j \in Kernels, e \in Fields : j # k \/ e # f => g.kernel[j][e] = h.kernel[j][e]
  /\ AlikeBut(c, h, g)
  /\ c \in DOMAIN h.array /\ h.array[c] \in Seq(Members(h, f)) /\ g.array[c] \in Seq(Members(g, f))
  /\ i \in DOMAIN h.array[c] /\ DOMAIN g.array[c] = DOMAIN h.array[c]
  /\ \A j \in DOMAIN h.array[c] : j # i => g.array[c][j] = h.array[c][j]

\* Putting an element into a list leaves one list with one other element.
LEMMA ElementPutSet ==
  ASSUME NEW k \in Kernels, NEW f \in Repeated, NEW got, NEW h, NEW c, NEW i, NEW x, NEW encoder,
         ElementGiven(got, h, k, f, c, i, x, encoder)
  PROVE  ElementSet(h, k, f, c, i, ElementPut(h, k, f, c, i, x, encoder))
<1> DEFINE g == ElementPut(h, k, f, c, i, x, encoder)
           fl == Data(Null, c, encoder)
           s == h.array[c]
           t == g.array[c]
<1>1. f \in Fields
  BY DEF Fields
<1>2. /\ HeapOK(h) /\ Has(h, k, f, c) /\ c # Undefined
      /\ s \in Seq(Members(h, f)) /\ i \in DOMAIN s /\ x \in Members(h, f)
  BY DEF ElementGiven
<1>3. /\ HeapOK(g) /\ g.kernel[k][f] = fl /\ fl # NoField
      /\ \A j \in Kernels, e \in Fields : j # k \/ e # f => g.kernel[j][e] = h.kernel[j][e]
      /\ AlikeBut(c, h, g) /\ t = Replaced(s, i, x)
  <2>1. LET d == ElementPut(h, k, f, c, i, x, encoder) IN
        /\ HeapOK(d)
        /\ d.kernel[k][f] = Data(Null, c, encoder) /\ Data(Null, c, encoder) # NoField
        /\ \A j \in Kernels, e \in Fields : j # k \/ e # f => d.kernel[j][e] = h.kernel[j][e]
        /\ AlikeBut(c, h, d) /\ d.array[c] = Replaced(h.array[c], i, x)
    BY ElementPutOK
  <2>2. QED
    BY <2>1
<1>4. fl.cache = c
  BY DEF Data
<1> HIDE DEF g, fl, s, t
<1>5. Has(g, k, f, c)
  BY <1>3, <1>4 DEF Has
<1>6. g.child = h.child
  BY <1>3 DEF AlikeBut
<1>7. t \in Seq(Members(g, f)) /\ DOMAIN t = DOMAIN s /\ \A j \in DOMAIN s : j # i => t[j] = s[j]
  <2>1. Members(g, f) = Members(h, f)
    BY <1>6 DEF Members
  <2>2. [s EXCEPT ![i] = x] \in Seq(Members(h, f))
    BY <1>2
  <2>3. /\ DOMAIN [s EXCEPT ![i] = x] = DOMAIN s
        /\ \A j \in DOMAIN s : j # i => [s EXCEPT ![i] = x][j] = s[j]
    OBVIOUS
  <2>4. QED
    BY <1>3, <2>1, <2>2, <2>3 DEF Replaced
<1>8. c \in DOMAIN h.array
  <2>1. Holds(h, f, c)
    BY <1>1, <1>2, CacheFits
  <2>2. QED
    BY <1>1, <2>1, Kinds DEF Holds
<1>9. QED
  BY <1>2, <1>3, <1>5, <1>7, <1>8 DEF ElementSet, s, t, g

\* No other field has that list.
LEMMA ElementOthers ==
  ASSUME NEW k \in Kernels, NEW f \in Repeated, NEW h, NEW c, NEW i, NEW g, ElementSet(h, k, f, c, i, g),
         NEW j \in Kernels, NEW e \in Fields, j # k \/ e # f
  PROVE  Alike(h, j, g, j, e)
<1> DEFINE fl == h.kernel[j][e]
           d == fl.cache
<1>1. /\ HeapOK(h) /\ HeapOK(g) /\ Has(h, k, f, c) /\ c # Undefined /\ c \in DOMAIN h.array
      /\ g.kernel[j][e] = fl /\ AlikeBut(c, h, g)
  BY DEF ElementSet
<1>2. ASSUME fl # NoField, d # Undefined
      PROVE  ValueOf(g, e, d) = ValueOf(h, e, d) /\ (e \in Repeated => g.array[d] = h.array[d])
  <2>1. Has(h, j, e, d)
    BY <1>2 DEF Has
  <2>2. e \in Repeated => d # c
    BY <1>1, <2>1 DEF HeapOK, OwnArrays
  <2> HIDE DEF d, fl
  <2>3. Holds(h, e, d)
    BY <1>1, <1>2, <2>1, CacheFits
  <2>4. ValueOf(g, e, d) = ValueOf(h, e, d)
    BY <1>1, <2>2, <2>3, HoldsOther
  <2>5. e \in Repeated => d \in DOMAIN h.array
    BY <2>3, Kinds DEF Holds
  <2>6. QED
    BY <1>1, <2>2, <2>4, <2>5 DEF AlikeBut
<1>3. AlikeData(h, j, g, j, e)
  BY <1>1, <1>2 DEF AlikeData
<1>4. QED
  BY <1>1, <1>3, AlikeIf

\* What a list in the cache shows.
LEMMA ListShows ==
  ASSUME NEW h, HeapOK(h), NEW k \in Kernels, NEW f \in Repeated, NEW c, Has(h, k, f, c), c # Undefined,
         NEW i, i \in DOMAIN h.array[c]
  PROVE  LET v == HeldValue(h, f, h.array[c]) IN
         /\ Shown(h.kernel[k], f, h) = v /\ v # <<>> /\ v # Unreadable
         /\ HasFieldNumber(h.kernel[k], f, h) = TRUE
<1> DEFINE s == h.array[c]
           v == HeldValue(h, f, s)
<1>1. f \in Fields
  BY DEF Fields
<1>2. h.kernel[k][f] # NoField /\ h.kernel[k][f].cache = c
  BY DEF Has
<1>3. AtHand(h.kernel[k], f) /\ Elements(h, k, f) = s
  BY <1>2 DEF AtHand, Elements
<1>4. s \in Seq(Members(h, f)) /\ Shown(h.kernel[k], f, h) = v
  BY <1>3, ElementsShown
<1>5. DOMAIN v = DOMAIN s
  BY <1>4, ListValue
<1> HIDE DEF s, v
<1>6. s # <<>> /\ v # <<>>
  BY <1>5 DEF s
<1>7. v # Unreadable
  <2>1. Shown(h.kernel[k], f, h) \in Values(f)
    BY <1>1, <1>2, ShownIs
  <2>2. QED
    BY <1>1, <1>4, <2>1, NotAMark
<1>8. HasFieldNumber(h.kernel[k], f, h) = TRUE
  BY <1>2, <1>6 DEF HasFieldNumber, s
<1>9. QED
  BY <1>4, <1>6, <1>7, <1>8 DEF v, s

\* A list with one other element is a SetElement of the view.
LEMMA ElementSeen ==
  ASSUME NEW k \in Kernels, NEW f \in Repeated, NEW h, NEW c, NEW i, NEW g, ElementSet(h, k, f, c, i, g)
  PROVE  View!SetElement(Seen(h), Seen(g), k, f)
<1> DEFINE s == h.array[c]
           t == g.array[c]
           v == HeldValue(h, f, s)
           w == HeldValue(g, f, t)
           at == <<<<k, f>>, i>>
<1>1. f \in Fields
  BY DEF Fields
<1>2. /\ HeapOK(h) /\ HeapOK(g) /\ Has(h, k, f, c) /\ Has(g, k, f, c) /\ c # Undefined
      /\ i \in DOMAIN s /\ DOMAIN t = DOMAIN s
      /\ s \in Seq(Members(h, f)) /\ t \in Seq(Members(g, f))
      /\ \A j \in DOMAIN s : j # i => t[j] = s[j]
  BY DEF ElementSet
<1>3. g.child = h.child
  BY DEF ElementSet, AlikeBut
<1>4. /\ Shown(h.kernel[k], f, h) = v /\ v # <<>> /\ v # Unreadable
      /\ HasFieldNumber(h.kernel[k], f, h) = TRUE
  BY <1>2, ListShows
<1>5. /\ Shown(g.kernel[k], f, g) = w /\ w # <<>> /\ w # Unreadable
      /\ HasFieldNumber(g.kernel[k], f, g) = TRUE
  BY <1>2, ListShows
<1>6. /\ DOMAIN v = DOMAIN s /\ DOMAIN w = DOMAIN s
      /\ \A j \in DOMAIN s : j # i => w[j] = v[j]
  <2>1. /\ DOMAIN v = DOMAIN s
        /\ f \in Packables => \A j \in DOMAIN s : v[j] = s[j]
        /\ f \notin Packables => \A j \in DOMAIN s : v[j] = h.child[s[j]]
    BY <1>2, ListValue
  <2>2. /\ DOMAIN w = DOMAIN t
        /\ f \in Packables => \A j \in DOMAIN t : w[j] = t[j]
        /\ f \notin Packables => \A j \in DOMAIN t : w[j] = g.child[t[j]]
    BY <1>2, ListValue
  <2> HIDE DEF v, w, s, t
  <2>3. QED
    BY <1>2, <1>3, <2>1, <2>2
<1>7. \A j \in Kernels, e \in Fields : j # k \/ e # f => Alike(h, j, g, j, e)
  BY ElementOthers
<1>8. Seen(g).view = [Seen(h).view EXCEPT ![<<k, f>>] = Seen(g).view[<<k, f>>]]
  <2>1. View!FieldChanges(Seen(h), Seen(g), k, f)
    BY <1>1, <1>7, FieldChangesIf
  <2>2. QED
    BY <2>1 DEF View!FieldChanges
<1>9. ASSUME NEW p \in Places(h), p # at
      PROVE  p \in Places(g) /\ ObjOf(g, p) = ObjOf(h, p)
  <2>1. PICK j \in Kernels, e \in Fields : p \in PlacesOf(h, j, e)
    BY PlaceIs
  <2>2. p \in PlacesOf(g, j, e) /\ ObjOf(g, p) = ObjOf(h, p)
    <3>1. CASE j # k \/ e # f
      BY <1>7, <2>1, <3>1, AlikePlaces
    <3>2. CASE j = k /\ e = f
      <4>1. f \in RepeatedMessages
        BY <1>1, <2>1, <3>2, PlacesAre, Kinds
      <4>2. /\ InCache(h, k, f) /\ h.kernel[k][f].cache = c
            /\ InCache(g, k, f) /\ g.kernel[k][f].cache = c
        BY <1>2 DEF InCache, Has
      <4>3. /\ \A q : q \in PlacesOf(h, k, f) <=> \E n \in DOMAIN s : q = <<<<k, f>>, n>>
            /\ \A n \in DOMAIN s : ObjOf(h, <<<<k, f>>, n>>) = s[n]
        BY <1>2, <4>1, <4>2, ListedPlace
      <4>4. /\ \A q : q \in PlacesOf(g, k, f) <=> \E n \in DOMAIN t : q = <<<<k, f>>, n>>
            /\ \A n \in DOMAIN t : ObjOf(g, <<<<k, f>>, n>>) = t[n]
        BY <1>2, <4>1, <4>2, ListedPlace
      <4> HIDE DEF s, t
      <4>5. PICK n \in DOMAIN s : p = <<<<k, f>>, n>>
        BY <2>1, <3>2, <4>3
      <4>6. n # i
        BY <1>9, <4>5
      <4>7. QED
        BY <1>2, <3>2, <4>3, <4>4, <4>5, <4>6
    <3>3. QED
      BY <3>1, <3>2
  <2>3. QED
    BY <2>2, PlaceIs
<1>10. View!ObjectsStay(Seen(h), Seen(g), View!Places(Seen(h)) \ {at})
  <2> HIDE DEF at
  <2>1. View!ObjectsStay(Seen(h), Seen(g), Places(h) \ {at})
    BY <1>9, ObjectsStayIf
  <2>2. QED
    BY <2>1, SeenPlaces
<1>11. /\ Seen(h).view[<<k, f>>].val = v /\ Seen(g).view[<<k, f>>].val = w
       /\ Seen(g).view[<<k, f>>].has = Seen(h).view[<<k, f>>].has
  <2>1. /\ Seen(h).view[<<k, f>>].val = Shown(h.kernel[k], f, h)
        /\ Seen(h).view[<<k, f>>].has = HasFieldNumber(h.kernel[k], f, h)
    BY <1>1, SeenIs
  <2>2. /\ Seen(g).view[<<k, f>>].val = Shown(g.kernel[k], f, g)
        /\ Seen(g).view[<<k, f>>].has = HasFieldNumber(g.kernel[k], f, g)
    BY <1>1, SeenIs
  <2>3. QED
    BY <1>4, <1>5, <2>1, <2>2, Zenon
<1> HIDE DEF v, w, s, t
<1>12. {v, w} \intersect {<<>>, Unreadable} = {}
  BY <1>4, <1>5
<1>13. /\ DOMAIN w = DOMAIN v /\ i \in DOMAIN v
       /\ \A j \in DOMAIN v \ {i} : w[j] = v[j]
  BY <1>2, <1>6
<1>14. QED
  BY <1>8, <1>10, <1>11, <1>12, <1>13, Zenon DEF View!SetElement

\* A setter of one element is a SetElement.
LEMMA SetRepeatedElementTold ==
  ASSUME HeapOK(heap), NEW k \in Kernels, NEW f \in Fields, SetRepeatedElement(k, f)
  PROVE  Told
<1> DEFINE got == Got(heap, k, f)
<1>1. f \in Repeated
  BY DEF SetRepeatedElement
<1>2. HeapOK(got) /\ Seen(got) = Seen(heap)
  <2>1. heap.kernel = kernel
    BY DEF heap
  <2>2. QED
    BY <2>1, GotOK, SeenGot DEF SetRepeatedElement
<1>3. PICK h, c, i, x, encoder :
        /\ ElementGiven(got, h, k, f, c, i, x, encoder)
        /\ Become(ElementPut(h, k, f, c, i, x, encoder))
  BY SetRepeatedElementIs
<1> HIDE DEF got
<1> DEFINE new == ElementPut(h, k, f, c, i, x, encoder)
<1>4. ElementSet(h, k, f, c, i, new)
  BY <1>1, <1>3, ElementPutSet
<1>5. Seen(h) = Seen(heap)
  <2>1. HeapOK(h) /\ Grows(got, h) /\ h.kernel = got.kernel
    BY <1>3 DEF ElementGiven
  <2>2. QED
    BY <1>2, <2>1, SeenGrown
<1> HIDE DEF new
<1>6. HeapOK(new) /\ View!SetElement(Seen(heap), Seen(new), k, f)
  <2>1. View!SetElement(Seen(h), Seen(new), k, f)
    BY <1>1, <1>4, ElementSeen
  <2>2. QED
    BY <1>4, <1>5, <2>1 DEF ElementSet
<1>7. QED
  BY <1>1, <1>3, <1>6, CallIs DEF new

-----------------------------------------------------------------------------
(* Editing an object. *)

\* The field f of the kernel k is there in g if it is in h.
SameHas(h, g, k, f) ==
  HasFieldNumber(g.kernel[k], f, g) = HasFieldNumber(h.kernel[k], f, h)

\* A field whose objects are not edited shows what it showed, and no field has others than it had.
LEMMA EditedField ==
  ASSUME NEW h, HeapOK(h), NEW o, NEW g, Edited(h, o, g), NEW k \in Kernels, NEW f \in Fields
  PROVE  LET v == Shown(h.kernel[k], f, h)
             w == Shown(g.kernel[k], f, g)
         IN
         /\ SameHas(h, g, k, f)
         /\ ObjsIn(g.kernel[k], f, g) = ObjsIn(h.kernel[k], f, h)
         /\ PlacesOf(g, k, f) = PlacesOf(h, k, f)
         /\ f \in RepeatedMessages =>
              /\ DOMAIN w = DOMAIN v
              /\ \A i \in DOMAIN v : \/ /\ <<<<k, f>>, i>> \in PlacesOf(h, k, f)
                                       /\ ObjOf(h, <<<<k, f>>, i>>) = o
                                    \/ w[i] = v[i]
         /\ (\A p \in PlacesOf(h, k, f) : ObjOf(h, p) # o) => w = v
<1> DEFINE K == h.kernel[k]
           fl == K[f]
           v == Shown(h.kernel[k], f, h)
           w == Shown(g.kernel[k], f, g)
<1>1. /\ HeapOK(g) /\ g.kernel = h.kernel /\ g.array = h.array /\ DOMAIN g.child = DOMAIN h.child
      /\ \A p \in DOMAIN h.child : p # o => g.child[p] = h.child[p]
  BY DEF Edited
<1>2. SameHas(h, g, k, f)
  BY <1>1, Zenon DEF HasFieldNumber, SameHas
<1>3. ObjsIn(g.kernel[k], f, g) = ObjsIn(h.kernel[k], f, h)
  BY <1>1, Zenon DEF ObjsIn
<1>4. CASE InCache(h, k, f) /\ f \in Singles
  <2>1. InCache(g, k, f) /\ f \notin RepeatedMessages /\ g.kernel[k][f] = fl
    BY <1>1, <1>4, Kinds DEF InCache
  <2> DEFINE at == <<<<k, f>>, 1>>
  <2>2. PlacesOf(h, k, f) = {at} /\ ObjOf(h, at) = fl.cache /\ fl.cache \in DOMAIN h.child
    BY <1>4, OnePlace
  <2>3. PlacesOf(g, k, f) = {at}
    BY <1>1, <1>4, <2>1, OnePlace
  <2>4. v = h.child[fl.cache]
    BY <1>4, OneObj
  <2>5. w = g.child[g.kernel[k][f].cache]
    BY <1>1, <1>4, <2>1, OneObj
  <2> HIDE DEF v, w, fl, at
  <2>6. (\A p \in PlacesOf(h, k, f) : ObjOf(h, p) # o) => w = v
    BY <1>1, <2>1, <2>2, <2>4, <2>5
  <2>7. QED
    BY <1>2, <1>3, <2>1, <2>2, <2>3, <2>6, Zenon DEF v, w
<1>5. CASE InCache(h, k, f) /\ f \in RepeatedMessages
  <2> DEFINE os == h.array[fl.cache]
  <2>1. InCache(g, k, f) /\ g.array[g.kernel[k][f].cache] = os
    BY <1>1, <1>5 DEF InCache
  <2>2. /\ os \in Seq(DOMAIN h.child)
        /\ \A p : p \in PlacesOf(h, k, f) <=> \E i \in DOMAIN os : p = <<<<k, f>>, i>>
        /\ \A i \in DOMAIN os : ObjOf(h, <<<<k, f>>, i>>) = os[i]
    BY <1>5, ListedPlace
  <2>3. \A p : p \in PlacesOf(g, k, f) <=> \E i \in DOMAIN g.array[g.kernel[k][f].cache] : p = <<<<k, f>>, i>>
    BY <1>1, <1>5, <2>1, ListedPlace
  <2>4. v = ContentsOf(h, os)
    BY <1>5, ListedObjs
  <2>5. w = ContentsOf(g, g.array[g.kernel[k][f].cache])
    BY <1>1, <1>5, <2>1, ListedObjs
  <2> HIDE DEF v, w, os
  <2>6. PlacesOf(g, k, f) = PlacesOf(h, k, f)
    <3>1. \A p : p \in PlacesOf(g, k, f) <=> p \in PlacesOf(h, k, f)
      BY <2>1, <2>2, <2>3
    <3>2. QED
      BY <3>1
  <2>7. DOMAIN v = DOMAIN os /\ DOMAIN w = DOMAIN os /\ v = [i \in DOMAIN os |-> v[i]] /\ w = [i \in DOMAIN os |-> w[i]]
    BY <2>1, <2>4, <2>5 DEF ContentsOf
  <2>8. ASSUME NEW i \in DOMAIN os, os[i] # o PROVE w[i] = v[i]
    <3>1. os[i] \in DOMAIN h.child
      BY <2>2, SeqIs
    <3>2. v[i] = h.child[os[i]] /\ w[i] = g.child[os[i]]
      BY <2>1, <2>4, <2>5 DEF ContentsOf
    <3>3. QED
      BY <1>1, <2>8, <3>1, <3>2
  <2>9. \A i \in DOMAIN v : \/ /\ <<<<k, f>>, i>> \in PlacesOf(h, k, f)
                                 /\ ObjOf(h, <<<<k, f>>, i>>) = o
                              \/ w[i] = v[i]
    BY <2>2, <2>7, <2>8
  <2>10. ASSUME \A p \in PlacesOf(h, k, f) : ObjOf(h, p) # o PROVE w = v
    <3>1. \A i \in DOMAIN os : w[i] = v[i]
      BY <2>7, <2>9, <2>10
    <3>2. QED
      BY <2>7, <3>1
  <2>11. QED
    BY <1>2, <1>3, <2>6, <2>7, <2>9, <2>10, Zenon DEF v, w
<1>6. CASE ~ InCache(h, k, f) \/ (f \notin Singles /\ f \notin RepeatedMessages)
  <2>1. w = v
    <3>1. CASE fl = NoField
      BY <1>1, <3>1 DEF Shown
    <3>2. CASE fl # NoField /\ fl.cache = Undefined
      BY <1>1, <3>2, Zenon DEF Shown
    <3>3. CASE InCache(h, k, f)
      <4>1. v = ValueOf(h, f, fl.cache)
        BY <3>3, ShownIs DEF InCache
      <4>2. g.kernel[k][f] = fl /\ fl # NoField /\ fl.cache # Undefined
        BY <1>1, <3>3 DEF InCache
      <4>3. w = ValueOf(g, f, g.kernel[k][f].cache)
        <5>1. HeapOK(g)
          BY <1>1
        <5>2. g.kernel[k][f] # NoField /\ g.kernel[k][f].cache # Undefined
          BY <4>2
        <5>3. QED
          BY <5>1, <5>2, ShownIs
      <4>4. ValueOf(g, f, fl.cache) = ValueOf(h, f, fl.cache)
        BY <1>1, <1>6, <3>3, Kinds DEF ValueOf
      <4> HIDE DEF v, w
      <4>5. QED
        BY <4>1, <4>2, <4>3, <4>4
    <3>4. QED
      BY <3>1, <3>2, <3>3 DEF InCache
  <2>2. PlacesOf(g, k, f) = PlacesOf(h, k, f)
    BY <2>1 DEF PlacesOf
  <2> HIDE DEF v, w
  <2>3. QED
    BY <1>2, <1>3, <2>1, <2>2, Zenon DEF v, w
<1>7. QED
  <2> HIDE DEF v, w
  <2>1. QED
    BY <1>4, <1>5, <1>6, Zenon

\* An edited object is an Edit of the view, at all its places.
LEMMA EditSeen ==
  ASSUME NEW h, HeapOK(h), NEW o, o # NoObj, NEW g, Edited(h, o, g),
         NEW p \in Places(h), ObjOf(h, p) = o
  PROVE  View!Edit(Seen(h), Seen(g))
<1> DEFINE Mine(k, f) == {q[2] : q \in {r \in Seen(h).same[p] : r[1] = <<k, f>>}}
           Holder(k, f, i) == <<<<k, f>>, i>> \in PlacesOf(h, k, f) /\ ObjOf(h, <<<<k, f>>, i>>) = o
<1>1. SameOf(g) = SameOf(h)
  <2>1. \A k \in Kernels, f \in Fields :
          ObjsIn(g.kernel[k], f, g) = ObjsIn(h.kernel[k], f, h) /\ PlacesOf(g, k, f) = PlacesOf(h, k, f)
    BY EditedField
  <2>2. Places(g) = Places(h)
    BY <2>1 DEF Places
  <2>3. ASSUME NEW q \in Places(h) PROVE ObjOf(g, q) = ObjOf(h, q)
    <3>1. PICK k \in Kernels, f \in Fields : q \in PlacesOf(h, k, f)
      BY PlaceIs
    <3>2. q[1][1] = k /\ q[1][2] = f
      <4>1. q = <<<<k, f>>, q[2]>>
        BY <3>1, PlacesAre
      <4>2. QED
        BY <4>1
    <3>3. QED
      BY <2>1, <3>2 DEF ObjOf
  <2>4. QED
    BY <2>2, <2>3 DEF SameOf
<1>2. \A r : r \in SameOf(h)[p] <=> r \in Places(h) /\ ObjOf(h, r) = o
  BY SameIs
<1>3. /\ Seen(h).same = SameOf(h) /\ Seen(g).same = SameOf(g)
      /\ p \in DOMAIN Seen(h).same
  BY SeenIs, SameIs
<1>4. ASSUME NEW k \in Kernels, NEW f \in Fields, NEW i, Holder(k, f, i)
      PROVE  i \in Mine(k, f)
  <2> DEFINE r == <<<<k, f>>, i>>
  <2>1. r \in Places(h) /\ ObjOf(h, r) = o
    BY <1>4, PlaceIs
  <2>2. r \in Seen(h).same[p]
    BY <1>2, <1>3, <2>1
  <2>3. r[1] = <<k, f>> /\ r[2] = i
    OBVIOUS
  <2> HIDE DEF r
  <2>4. QED
    BY <2>2, <2>3
<1>5. ASSUME NEW k \in Kernels, NEW f \in Fields, Mine(k, f) = {}, NEW r \in PlacesOf(h, k, f)
      PROVE  ObjOf(h, r) # o
  <2>1. r = <<<<k, f>>, r[2]>>
    BY PlacesAre
  <2>2. r[1] = <<k, f>>
    BY <2>1
  <2>3. r \in Places(h)
    BY PlaceIs
  <2>4. r \notin Seen(h).same[p]
    BY <1>5, <2>2
  <2>5. QED
    BY <1>2, <1>3, <2>3, <2>4
<1> HIDE DEF Mine
<1> DEFINE Changes(k, f) ==
             LET mine == Mine(k, f)
                 old == Seen(h).view[<<k, f>>]
                 new == Seen(g).view[<<k, f>>]
             IN  /\ new.has = old.has
                 /\ IF f \in RepeatedMessages /\ mine # {}
                      THEN DOMAIN new.val = DOMAIN old.val
                           /\ \A i \in DOMAIN old.val \ mine : new.val[i] = old.val[i]
                      ELSE mine = {} => new.val = old.val
<1>6. ASSUME NEW k \in Kernels, NEW f \in Fields PROVE Changes(k, f)
  <2> DEFINE v == Shown(h.kernel[k], f, h)
             w == Shown(g.kernel[k], f, g)
  <2>1. /\ SameHas(h, g, k, f)
        /\ f \in RepeatedMessages =>
             DOMAIN w = DOMAIN v /\ \A i \in DOMAIN v : Holder(k, f, i) \/ w[i] = v[i]
        /\ (\A q \in PlacesOf(h, k, f) : ObjOf(h, q) # o) => w = v
    BY EditedField
  <2>2. Seen(h).view[<<k, f>>].val = v /\ Seen(g).view[<<k, f>>].val = w
    BY SeenIs
  <2>3. /\ Seen(h).view[<<k, f>>].has = HasFieldNumber(h.kernel[k], f, h)
        /\ Seen(g).view[<<k, f>>].has = HasFieldNumber(g.kernel[k], f, g)
    BY SeenIs, Zenon
  <2> HIDE DEF v, w, Holder
  <2>4. f \in RepeatedMessages => DOMAIN w = DOMAIN v /\ \A i \in DOMAIN v \ Mine(k, f) : w[i] = v[i]
    BY <1>4, <2>1
  <2>5. Mine(k, f) = {} => w = v
    BY <1>5, <2>1
  <2>6. Seen(g).view[<<k, f>>].has = Seen(h).view[<<k, f>>].has
    BY <2>1, <2>3, Zenon DEF SameHas
  <2>7. QED
    BY <2>2, <2>4, <2>5, <2>6, Zenon
<1>7. View!Fields = Fields
  BY SeenIs
<1> HIDE DEF Changes
<1>8. \A k \in Kernels, f \in View!Fields : Changes(k, f)
  BY <1>6, <1>7
<1>9. QED
  BY <1>1, <1>3, <1>8, Zenon DEF View!Edit, Changes, Mine

\* An object that is live is in a place.
LEMMA LivePlace ==
  ASSUME NEW h, HeapOK(h), NEW o \in LiveObjs(h)
  PROVE  o # NoObj /\ \E p \in Places(h) : ObjOf(h, p) = o
<1>1. o # NoObj
  <2>1. o \in Nat
    BY LiveIs DEF HeapOK
  <2>2. QED
    BY <2>1, ValuesAssumption
<1>2. CASE o \in CachesOf(h, Singles)
  <2>1. PICK k \in Kernels, f \in Singles : Has(h, k, f, o) /\ o # Undefined
    BY <1>2, CachedAny
  <2>2. InCache(h, k, f) /\ h.kernel[k][f].cache = o /\ f \in Fields
    BY <2>1 DEF Has, InCache, Fields
  <2> DEFINE at == <<<<k, f>>, 1>>
  <2>3. at \in PlacesOf(h, k, f) /\ ObjOf(h, at) = o
    BY <2>2, OnePlace
  <2> HIDE DEF at
  <2>4. QED
    BY <1>1, <2>2, <2>3, PlaceIs
<1>3. CASE o \in UNION {ToSet(h.array[a]) : a \in CachesOf(h, RepeatedMessages)}
  <2>1. PICK a \in CachesOf(h, RepeatedMessages) : o \in ToSet(h.array[a])
    BY <1>3
  <2>2. PICK k \in Kernels, f \in RepeatedMessages : Has(h, k, f, a) /\ a # Undefined
    BY <2>1, CachedAny
  <2>3. InCache(h, k, f) /\ h.kernel[k][f].cache = a /\ f \in Fields
    BY <2>2 DEF Has, InCache, Fields, Repeated
  <2>4. PICK i \in DOMAIN h.array[a] : h.array[a][i] = o
    BY <2>1 DEF ToSet
  <2> DEFINE at == <<<<k, f>>, i>>
  <2>5. at \in PlacesOf(h, k, f) /\ ObjOf(h, at) = o
    BY <2>3, <2>4, ListedPlace
  <2> HIDE DEF at
  <2>6. QED
    BY <1>1, <2>3, <2>5, PlaceIs
<1>4. QED
  BY <1>2, <1>3 DEF LiveObjs

\* So is the caller's edit of a child it holds.
LEMMA EditTold ==
  ASSUME HeapOK(heap), NEW o \in DOMAIN child, Edit(o)
  PROVE  Told
<1>1. PICK g : Edited(heap, o, g) /\ Become(g)
  BY EditIs
<1>2. o \in LiveObjs(heap)
  BY DEF Edit
<1>3. o # NoObj /\ \E p \in Places(heap) : ObjOf(heap, p) = o
  BY <1>2, LivePlace
<1>4. View!Edit(Seen(heap), Seen(g))
  BY <1>1, <1>3, EditSeen
<1>5. HeapOK(g)
  BY <1>1 DEF Edited
<1>6. QED
  BY <1>1, <1>4, <1>5, CallIs

-----------------------------------------------------------------------------
(* Copies. *)

\* The places of a copy, and where they are copied from.
CopyFrom(k, p) == <<<<k, p[1][2]>>, p[2]>>

\* The field f of the kernel j shows what that of k did, with no objects yet or with the same.
CopyOf(h, k, g, j, f) ==
  /\ Shows(g.kernel[j], f, g) = Shows(h.kernel[k], f, h)
  /\ \/ ObjsIn(g.kernel[j], f, g) = <<>>
     \/ ObjsIn(g.kernel[j], f, g) = ObjsIn(h.kernel[k], f, h)

\* A place of a copy has no object yet, or that of the place it was copied from.
LEMMA CopiedPlace ==
  ASSUME NEW h, NEW g, NEW k \in Kernels, NEW j \in Kernels, NEW f \in Fields, CopyOf(h, k, g, j, f),
         NEW p \in PlacesOf(g, j, f)
  PROVE  /\ CopyFrom(k, p) \in PlacesOf(h, k, f)
         /\ ObjOf(g, p) = NoObj \/ ObjOf(g, p) = ObjOf(h, CopyFrom(k, p))
<1>1. Shown(g.kernel[j], f, g) = Shown(h.kernel[k], f, h)
  <2>1. Shows(g.kernel[j], f, g).val = Shows(h.kernel[k], f, h).val
    BY DEF CopyOf
  <2>2. QED
    BY <2>1 DEF Shows
<1>2. p = <<<<j, f>>, p[2]>> /\ f \in Singles \union RepeatedMessages
  BY PlacesAre
<1>3. p[1][1] = j /\ p[1][2] = f
  BY <1>2
<1> DEFINE q == <<<<k, f>>, p[2]>>
<1>4. CopyFrom(k, p) = q
  BY <1>3 DEF CopyFrom
<1>5. q \in PlacesOf(h, k, f)
  <2>1. CASE f \in RepeatedMessages
    <3>1. /\ Shown(h.kernel[k], f, h) # Unreadable
          /\ \E i \in DOMAIN Shown(h.kernel[k], f, h) : p = <<<<j, f>>, i>>
      BY <1>1, <2>1, PlacesAre
    <3>2. p[2] \in DOMAIN Shown(h.kernel[k], f, h)
      BY <3>1
    <3>3. QED
      BY <2>1, <3>1, <3>2, PlacesAre
  <2>2. CASE f \in Singles
    <3>1. Shown(h.kernel[k], f, h) \in Contents /\ p = <<<<j, f>>, 1>>
      BY <1>1, <2>2, PlacesAre
    <3>2. q = <<<<k, f>>, 1>>
      BY <3>1
    <3> HIDE DEF q
    <3>3. QED
      BY <2>2, <3>1, <3>2, PlacesAre
  <2>3. QED
    BY <1>2, <2>1, <2>2
<1>6. q[1][1] = k /\ q[1][2] = f /\ q[2] = p[2]
  OBVIOUS
<1> HIDE DEF q
<1>7. ObjOf(g, p) = NoObj \/ ObjOf(g, p) = ObjOf(h, q)
  BY <1>3, <1>6 DEF CopyOf, ObjOf
<1>8. QED
  BY <1>4, <1>5, <1>7

\* A kernel that got all of another's fields is a Copy of the view.
LEMMA CopySeen ==
  ASSUME NEW h, HeapOK(h), NEW g, HeapOK(g), NEW k \in Kernels, NEW j \in Kernels, k # j,
         \A i \in Kernels, f \in Fields : i # j => Alike(h, i, g, i, f),
         \A f \in Fields : CopyOf(h, k, g, j, f)
  PROVE  View!Copy(Seen(h), Seen(g), k, j)
<1> DEFINE others == {p \in Places(h) : p[1][1] # j}
           copies == {p \in Places(g) : p[1][1] = j}
<1>1. Seen(g).view = [kf \in DOMAIN Seen(h).view |->
                        IF kf[1] = j THEN Seen(h).view[<<k, kf[2]>>] ELSE Seen(h).view[kf]]
  <2>1. ASSUME NEW kf \in Kernels \X Fields
        PROVE  ViewOf(g)[kf] = IF kf[1] = j THEN ViewOf(h)[<<k, kf[2]>>] ELSE ViewOf(h)[kf]
    <3>1. kf = <<kf[1], kf[2]>> /\ kf[1] \in Kernels /\ kf[2] \in Fields
      OBVIOUS
    <3>2. ViewOf(g)[kf] = Shows(g.kernel[kf[1]], kf[2], g)
      BY DEF ViewOf
    <3>3. CASE kf[1] = j
      <4>1. ViewOf(h)[<<k, kf[2]>>] = Shows(h.kernel[k], kf[2], h)
        BY <3>1, SeenIs
      <4>2. QED
        BY <3>1, <3>2, <3>3, <4>1 DEF CopyOf
    <3>4. CASE kf[1] # j
      <4>1. ViewOf(h)[kf] = Shows(h.kernel[kf[1]], kf[2], h)
        BY DEF ViewOf
      <4>2. Alike(h, kf[1], g, kf[1], kf[2])
        BY <3>1, <3>4
      <4>3. QED
        BY <3>2, <3>4, <4>1, <4>2 DEF Alike
    <3>5. QED
      BY <3>3, <3>4
  <2>2. DOMAIN ViewOf(h) = Kernels \X Fields /\ ViewOf(g) = [kf \in Kernels \X Fields |-> ViewOf(g)[kf]]
    BY DEF ViewOf
  <2>3. Seen(g).view = ViewOf(g) /\ Seen(h).view = ViewOf(h)
    BY SeenIs
  <2>4. QED
    BY <2>1, <2>2, <2>3
<1>2. ASSUME NEW p \in Places(g), p[1][1] # j
      PROVE  p \in Places(h) /\ ObjOf(g, p) = ObjOf(h, p)
  <2>1. PICK i \in Kernels, f \in Fields : p \in PlacesOf(g, i, f)
    BY PlaceIs
  <2>2. p = <<<<i, f>>, p[2]>>
    BY <2>1, PlacesAre
  <2>3. i # j
    BY <1>2, <2>2
  <2>4. p \in PlacesOf(h, i, f) /\ ObjOf(g, p) = ObjOf(h, p)
    BY <2>1, <2>3, AlikePlaces
  <2>5. QED
    BY <2>4, PlaceIs
<1>3. ASSUME NEW p \in Places(h), p[1][1] # j
      PROVE  p \in Places(g) /\ ObjOf(g, p) = ObjOf(h, p)
  <2>1. PICK i \in Kernels, f \in Fields : p \in PlacesOf(h, i, f)
    BY PlaceIs
  <2>2. p = <<<<i, f>>, p[2]>>
    BY <2>1, PlacesAre
  <2>3. i # j
    BY <1>3, <2>2
  <2>4. p \in PlacesOf(g, i, f) /\ ObjOf(g, p) = ObjOf(h, p)
    BY <2>1, <2>3, AlikePlaces
  <2>5. QED
    BY <2>4, PlaceIs
<1>4. ASSUME NEW p \in Places(g), p[1][1] = j
      PROVE  /\ CopyFrom(k, p) \in Places(h)
             /\ ObjOf(g, p) = NoObj \/ ObjOf(g, p) = ObjOf(h, CopyFrom(k, p))
  <2>1. PICK i \in Kernels, f \in Fields : p \in PlacesOf(g, i, f)
    BY PlaceIs
  <2>2. p = <<<<i, f>>, p[2]>>
    BY <2>1, PlacesAre
  <2>3. i = j
    BY <1>4, <2>2
  <2>4. CopyFrom(k, p) \in PlacesOf(h, k, f)
        /\ (ObjOf(g, p) = NoObj \/ ObjOf(g, p) = ObjOf(h, CopyFrom(k, p)))
    BY <2>1, <2>3, CopiedPlace
  <2>5. QED
    BY <2>4, PlaceIs
<1>5. View!ObjectsStay(Seen(h), Seen(g), others)
  BY <1>3, ObjectsStayIf
<1>6. ASSUME NEW p \in copies, NEW q \in Places(g), q \in Seen(g).same[p]
      PROVE  p = q \/ (IF q \in copies THEN CopyFrom(k, q) ELSE q) \in Seen(h).same[CopyFrom(k, p)]
  <2>1. Seen(g).same = SameOf(g) /\ Seen(h).same = SameOf(h)
    BY SeenIs
  <2>2. SUFFICES ASSUME p # q
                 PROVE  (IF q \in copies THEN CopyFrom(k, q) ELSE q) \in SameOf(h)[CopyFrom(k, p)]
    BY <2>1
  <2>3. ObjOf(g, p) # NoObj /\ ObjOf(g, q) = ObjOf(g, p)
    BY <1>6, <2>1, <2>2, SameIs
  <2>4. CopyFrom(k, p) \in Places(h) /\ ObjOf(g, p) = ObjOf(h, CopyFrom(k, p))
    BY <1>4, <2>3
  <2>5. CASE q \in copies
    <3>1. CopyFrom(k, q) \in Places(h) /\ ObjOf(g, q) = ObjOf(h, CopyFrom(k, q))
      BY <1>4, <2>3, <2>5
    <3>2. CopyFrom(k, q) \in SameOf(h)[CopyFrom(k, p)]
      BY <2>3, <2>4, <3>1, SameIs
    <3>3. QED
      BY <2>5, <3>2
  <2>6. CASE q \notin copies
    <3>1. q \in Places(h) /\ ObjOf(g, q) = ObjOf(h, q)
      BY <1>2, <2>6
    <3>2. q \in SameOf(h)[CopyFrom(k, p)]
      BY <2>3, <2>4, <3>1, SameIs
    <3>3. QED
      BY <2>6, <3>2
  <2>7. QED
    BY <2>5, <2>6
<1>7. Places(h) = View!Places(Seen(h)) /\ Places(g) = View!Places(Seen(g))
  BY SeenPlaces
<1> HIDE DEF others, copies
<1>8. \A p \in copies, q \in View!Places(Seen(g)) :
        q \in Seen(g).same[p] =>
          p = q \/ (IF q \in copies THEN CopyFrom(k, q) ELSE q) \in Seen(h).same[CopyFrom(k, p)]
  BY <1>6, <1>7
<1>9. /\ others = {p \in View!Places(Seen(h)) : p[1][1] # j}
      /\ copies = {p \in View!Places(Seen(g)) : p[1][1] = j}
  BY <1>7 DEF others, copies
<1>10. QED
  BY <1>1, <1>5, <1>8, <1>9, Zenon DEF View!Copy, CopyFrom

\* shallowCopy is a Copy.
LEMMA ShallowCopyTold ==
  ASSUME HeapOK(heap), NEW k \in Kernels, NEW j \in Kernels, ShallowCopy(k, j)
  PROVE  Told
<1> DEFINE g == Copied(heap, k, j)
<1>1. Become(g) /\ k # j
  BY DEF ShallowCopy
<1>2. /\ HeapOK(g) /\ Grows(heap, g)
      /\ \A i \in Kernels : i # j => g.kernel[i] = heap.kernel[i]
      /\ \A f \in Fields : AlikeData(heap, k, g, j, f)
  BY CopiedOK
<1> HIDE DEF g
<1>3. \A i \in Kernels, f \in Fields : i # j => Alike(heap, i, g, i, f)
  BY <1>2, AlikeGrown
<1>4. \A f \in Fields : CopyOf(heap, k, g, j, f)
  <2>1. \A f \in Fields : Alike(heap, k, g, j, f)
    BY <1>2, AlikeIf
  <2>2. QED
    BY <2>1 DEF Alike, CopyOf
<1>5. View!Copy(Seen(heap), Seen(g), k, j)
  BY <1>1, <1>2, <1>3, <1>4, CopySeen
<1>6. QED
  BY <1>1, <1>2, <1>5, CallIs

\* What is parsed from serialize() is a Copy: it shares no object with the kernel.
LEMMA FromArrayBufferTold ==
  ASSUME HeapOK(heap), NEW k \in Kernels, NEW j \in Kernels, FromArrayBuffer(k, j)
  PROVE  Told
<1> DEFINE h == heap
           L == FromBytes(Serialize(h.kernel[k], h))
           g == Loaded(h, j, L)
<1>1. h.kernel = kernel /\ HeapOK(h) /\ h = heap
  BY DEF heap
<1>2. Become(g) /\ k # j
  BY <1>1 DEF FromArrayBuffer, Loaded
<1> HIDE DEF h
<1>3. /\ HeapOK(g) /\ g.array = h.array /\ g.child = h.child /\ g.kernel[j] = L
      /\ \A i \in Kernels : i # j => g.kernel[i] = h.kernel[i]
      /\ \A f \in Fields : L[f] # NoField => L[f].cache = Undefined
  <2>1. Read(h, j, L, g)
    BY <1>1, ReadOK
  <2> HIDE DEF g, L
  <2>2. QED
    BY <2>1 DEF Read
<1>4. \A f \in Fields : Shows(L, f, h) = Shows(h.kernel[k], f, h)
  BY <1>1, ParsedShowsTheSame
<1> HIDE DEF g, L
<1>5. Grows(h, g)
  BY <1>3 DEF Grows
<1>6. \A i \in Kernels, f \in Fields : i # j => Alike(h, i, g, i, f)
  BY <1>1, <1>3, <1>5, AlikeGrown
<1>7. ASSUME NEW f \in Fields PROVE CopyOf(h, k, g, j, f)
  <2>1. Shows(L, f, g) = Shows(L, f, h)
    <3>1. HasFieldNumber(L, f, g) = HasFieldNumber(L, f, h)
      BY <1>3, Zenon DEF HasFieldNumber
    <3>2. Shown(L, f, g) = Shown(L, f, h)
      BY <1>3, Zenon DEF Shown, Cached
    <3>3. QED
      BY <3>1, <3>2, Zenon DEF Shows
  <2>2. ObjsIn(L, f, g) = <<>>
    BY <1>3 DEF ObjsIn
  <2>3. QED
    BY <1>3, <1>4, <2>1, <2>2 DEF CopyOf
<1>8. View!Copy(Seen(h), Seen(g), k, j)
  BY <1>1, <1>2, <1>3, <1>6, <1>7, CopySeen
<1>9. QED
  BY <1>1, <1>2, <1>3, <1>8, CallIs

-----------------------------------------------------------------------------
(* The refinement. *)

\* Every step is one of these.
LEMMA NextTold == IInv /\ [Next]_vars => Told
<1>1. SUFFICES ASSUME IInv, [Next]_vars PROVE Told
  OBVIOUS
<1>2. HeapOK(heap)
  BY <1>1 DEF IInv
<1>3. CASE UNCHANGED vars
  <2>1. heap' = heap
    BY <1>3 DEF vars, heap
  <2>2. QED
    BY <2>1 DEF Told
<1>4. ASSUME NEW k \in Kernels, NEW f \in Fields,
             \/ GetField(k, f) \/ GetMessageAttach(k, f) \/ SetSingular(k, f)
             \/ SetRepeatedIterable(k, f) \/ AddRepeatedIterable(k, f)
             \/ SetRepeatedElement(k, f) \/ ClearField(k, f)
      PROVE  Told
  BY <1>2, <1>4, GetFieldTold, GetMessageAttachTold, SetSingularTold, SetRepeatedIterableTold,
     AddRepeatedIterableTold, SetRepeatedElementTold, ClearFieldTold
<1>5. ASSUME NEW k \in Kernels, NEW j \in Kernels, ShallowCopy(k, j) \/ FromArrayBuffer(k, j)
      PROVE  Told
  BY <1>2, <1>5, ShallowCopyTold, FromArrayBufferTold
<1>6. ASSUME NEW o \in DOMAIN child, Edit(o) PROVE Told
  BY <1>2, <1>6, EditTold
<1>7. QED
  BY <1>1, <1>3, <1>4, <1>5, <1>6 DEF Next

\* Spec implements KernelView: from any buffers, whatever is decoded, copied or collected
\* when, every step of the kernels is a call as KernelView promises it or shows nothing
\* (kernel.js getFieldWithDefault_, setField_, shallowCopy, serialize).
THEOREM KernelImplementsView == Spec => ImplementsView
<1>1. Init => View!Init
  <2>1. SUFFICES ASSUME Init PROVE View!Coherent(Seen(heap))
    BY SeenNow
  <2>2. HeapOK(heap)
    BY <2>1, InitOK DEF IInv
  <2>3. QED
    BY <2>2, SeenCoherent
<1>2. IInv /\ [Next]_vars => [View!Next]_(View!vars)
  <2>1. SUFFICES ASSUME Told, ~ View!Next PROVE View!vars' = View!vars
    BY NextTold
  <2>2. Seen(heap).view = Seen(heap)'.view /\ Seen(heap).same = Seen(heap)'.same
    <3>1. CASE Seen(heap)' = Seen(heap)
      BY <3>1
    <3>2. CASE View!Call(Seen(heap), Seen(heap)')
      <4> DEFINE a == Seen(heap).view = Seen(heap)'.view
                 b == Seen(heap).same = Seen(heap)'.same
      <4>1. <<a, b>> = <<TRUE, TRUE>>
        BY <2>1, <3>2, SeenNow
      <4> HIDE DEF a, b
      <4>2. a = TRUE /\ b = TRUE
        BY <4>1
      <4>3. QED
        BY <4>2 DEF a, b
    <3>3. QED
      BY <2>1, <3>1, <3>2 DEF Told
  <2>3. View!vars = <<Seen(heap).view, Seen(heap).same>>
    BY SeenNow
  <2>4. (View!vars = <<Seen(heap).view, Seen(heap).same>>)'
    BY SeenNow, PTL
  <2>5. QED
    BY <2>2, <2>3, <2>4
<1>3. QED
  BY <1>1, <1>2, InitOK, NextOK, PTL DEF Spec, ImplementsView, View!Spec
=============================================================================
