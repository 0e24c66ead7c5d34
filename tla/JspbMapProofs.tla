---------------------------- MODULE JspbMapProofs ----------------------------
(***************************************************************************)
(* The clean array always mirrors the map, and the map implements          *)
(* MapStore, for all keys, objects and contents.                           *)
(***************************************************************************)
EXTENDS JspbMap, FiniteSetTheorems, TLAPS

\* A finite set of keys is all an enumeration needs: its length is a number.
LEMMA PresentFinite ==
  /\ IsFiniteSet(Present)
  /\ Cardinality(Present) \in Nat
<1>1. Present \subseteq Keys
  BY DEF Present
<1>2. QED
  BY <1>1, KeysAssumption, FS_Subset, FS_CardinalityType

\* Two occurrences of a key in an array cannot both be the last.
LEMMA LastIsUnique ==
  ASSUME NEW a \in Seq(Records), NEW i \in 1..Len(a), NEW j \in 1..Len(a),
         IsLast(a, i), IsLast(a, j), a[i].key = a[j].key
  PROVE  i = j
BY DEF IsLast

\* Refilling the array in key order yields an array that loads as the map.
LEMMA RefillMirrors ==
  ASSUME NEW m \in [Keys -> Objs \union {Absent}],
         NEW S, S = {k \in Keys : m[k] # Absent}, Cardinality(S) \in Nat,
         NEW s \in SortedKeys(S), NEW a,
         a = [i \in 1..Cardinality(S) |-> [key |-> s[i], value |-> m[s[i]]]]
  PROVE  /\ a \in Seq(Records)
         /\ \A k \in Keys : LoadsFrom(a, k, m[k])
<1> DEFINE n == Cardinality(S)
<1>1. /\ s \in [1..n -> S]
      /\ \A k \in S : \E i \in 1..n : s[i] = k
      /\ \A i, j \in 1..n : i < j => s[i] < s[j]
  BY DEF SortedKeys
<1>2. \A i \in 1..n : [key |-> s[i], value |-> m[s[i]]] \in Records
  BY <1>1 DEF Records
<1>3. a \in Seq(Records) /\ Len(a) = n
  BY <1>2
<1>4. \A i \in 1..n : a[i].key = s[i] /\ a[i].value = m[s[i]]
  OBVIOUS
<1>5. ASSUME NEW k \in Keys
      PROVE  LoadsFrom(a, k, m[k])
  <2>1. CASE k \in S
    <3>1. PICK i \in 1..n : s[i] = k
      BY <1>1, <2>1
    <3>2. IsLast(a, i)
      <4>1. SUFFICES ASSUME NEW j \in i + 1 .. n PROVE s[j] # s[i]
        BY <1>3, <1>4 DEF IsLast
      <4>2. j \in 1..n /\ i < j
        OBVIOUS
      <4>3. s[i] < s[j]
        BY <1>1, <4>2
      <4>4. s[i] \in Int /\ s[j] \in Int
        BY <1>1, <4>2, KeysAssumption
      <4>5. QED
        BY <4>3, <4>4
    <3>3. QED
      BY <1>3, <1>4, <3>1, <3>2 DEF LoadsFrom
  <2>2. CASE k \notin S
    <3>1. \A i \in 1..Len(a) : a[i].key # k
      BY <1>1, <1>3, <1>4, <2>2
    <3>2. m[k] = Absent
      BY <2>2
    <3>3. QED
      BY <3>1, <3>2 DEF LoadsFrom
  <2>3. QED
    BY <2>1, <2>2
<1>6. QED
  BY <1>3, <1>5

\* What a reader gets out of an array that loads as the map m.
LEMMA ReadBackOfMirror ==
  ASSUME NEW a \in Seq(Records), NEW m \in [Keys -> Objs \union {Absent}],
         NEW c, NEW k \in Keys, LoadsFrom(a, k, m[k])
  PROVE  ReadBack(a, c)[k] = IF m[k] = Absent THEN Absent ELSE c[m[k]]
<1>1. CASE \E i \in 1..Len(a) : a[i].key = k
  <2> DEFINE l == CHOOSE i \in 1..Len(a) : a[i].key = k /\ IsLast(a, i)
  <2>1. PICK i \in 1..Len(a) : a[i].key = k /\ IsLast(a, i) /\ a[i].value = m[k]
    BY <1>1 DEF LoadsFrom
  <2>2. l \in 1..Len(a) /\ a[l].key = k /\ IsLast(a, l)
    BY <2>1
  <2>3. l = i
    BY <2>1, <2>2, LastIsUnique
  <2>4. a[l].value = m[k]
    BY <2>1, <2>3
  <2>5. a[i] \in Records
    OBVIOUS
  <2>6. m[k] # Absent
    BY <2>1, <2>5, ValsAssumption DEF Records
  <2>7. QED
    BY <1>1, <2>4, <2>6 DEF ReadBack
<1>2. CASE ~ \E i \in 1..Len(a) : a[i].key = k
  BY <1>2 DEF LoadsFrom, ReadBack
<1>3. QED
  BY <1>1, <1>2
-----------------------------------------------------------------------------
\* The invariant that carries both results.
IInv == TypeOK /\ ArrayMirrorsMap

LEMMA InitIInv == Init => IInv
<1> SUFFICES ASSUME Init PROVE IInv
  OBVIOUS
<1>1. arr \in Seq(Records)
  BY MaxLoadAssumption DEF Init, Loads
<1>2. QED
  BY <1>1 DEF Init, IInv, TypeOK, ArrayMirrorsMap

\* What Sync leaves behind: a well-formed array that mirrors the map.
LEMMA SyncIInv ==
  ASSUME IInv, Sync
  PROVE  /\ arr' \in Seq(Records)
         /\ cell' \in [Objs -> Vals]
         /\ arrClean' = TRUE
         /\ \A k \in Keys : LoadsFrom(arr', k, map[k])
<1>1. cell' \in [Objs -> Vals]
  BY DEF IInv, TypeOK, Sync, SyncValues
<1>2. CASE arrClean
  BY <1>1, <1>2 DEF IInv, TypeOK, ArrayMirrorsMap, Sync
<1>3. CASE ~arrClean
  <2>1. PICK s \in SortedKeys(Present) :
          arr' = [i \in 1..Cardinality(Present) |-> [key |-> s[i], value |-> map[s[i]]]]
    BY <1>3 DEF Sync
  <2>2. Present = {k \in Keys : map[k] # Absent}
    BY DEF Present
  <2>3. map \in [Keys -> Objs \union {Absent}]
    BY DEF IInv, TypeOK
  <2>4. /\ arr' \in Seq(Records)
        /\ \A k \in Keys : LoadsFrom(arr', k, map[k])
    BY <2>1, <2>2, <2>3, PresentFinite, RefillMirrors
  <2>5. QED
    BY <1>1, <2>4 DEF Sync
<1>4. QED
  BY <1>2, <1>3

\* Wrapping touches nothing but the set of wrapped objects and what they show.
LEMMA WrapTypeOK ==
  ASSUME TypeOK, NEW S, WrapEntries(S)
  PROVE  wrapped' \in SUBSET Objs /\ live' \in [Objs -> Vals]
BY DEF TypeOK, WrapEntries

LEMMA StepIInv == IInv /\ [Next]_vars => IInv'
<1> SUFFICES ASSUME IInv, [Next]_vars PROVE IInv'
  OBVIOUS
<1> USE DEF IInv
<1>1. ASSUME NEW o \in Objs, NEW v \in Vals, Mutate(o, v) PROVE IInv'
  BY <1>1 DEF Mutate, TypeOK, ArrayMirrorsMap, LoadsFrom, IsLast
<1>2. ASSUME NEW k \in Keys, NEW o \in Objs, Set(k, o) PROVE IInv'
  BY <1>2 DEF Set, TypeOK, ArrayMirrorsMap
<1>3. ASSUME NEW k \in Keys, Delete(k) PROVE IInv'
  BY <1>3 DEF Delete, TypeOK, ArrayMirrorsMap
<1>4. ASSUME NEW k \in Keys, Get(k) PROVE IInv'
  BY <1>4, WrapTypeOK DEF Get, TypeOK, ArrayMirrorsMap, LoadsFrom, IsLast
<1>5. ASSUME NEW k \in Keys, Has(k) PROVE IInv'
  BY <1>5 DEF Has, TypeOK, ArrayMirrorsMap, LoadsFrom, IsLast
<1>6. CASE Clear
  BY <1>6 DEF Clear, TypeOK, ArrayMirrorsMap
<1>7. CASE KeysOf
  BY <1>7 DEF KeysOf, TypeOK, ArrayMirrorsMap, LoadsFrom, IsLast
<1>8. CASE ToArray
  BY <1>8, SyncIInv DEF ToArray, TypeOK, ArrayMirrorsMap, LoadsFrom, IsLast
<1>9. CASE ToObject
  BY <1>9, SyncIInv, WrapTypeOK DEF ToObject, TypeOK, ArrayMirrorsMap, LoadsFrom, IsLast
<1>10. CASE GetEntryList
  BY <1>10 DEF GetEntryList, TypeOK, ArrayMirrorsMap, LoadsFrom, IsLast
<1>11. CASE Entries
  BY <1>11, WrapTypeOK DEF Entries, TypeOK, ArrayMirrorsMap, LoadsFrom, IsLast
<1>12. CASE ForEach
  <2>1. PICK s \in SortedKeys(Present) : iter' = s
    BY <1>12 DEF ForEach
  <2>2. s \in Seq(Keys)
    BY PresentFinite DEF SortedKeys, Present
  <2>3. QED
    BY <1>12, <2>1, <2>2 DEF ForEach, TypeOK, ArrayMirrorsMap, LoadsFrom, IsLast
<1>13. CASE ForEachVisit
  <2>1. iter' \in Seq(Keys)
    <3>1. iter \in Seq(Keys) /\ iter # <<>> /\ (iter' = Tail(iter) \/ iter' = <<>>)
      BY <1>13 DEF ForEachVisit, TypeOK
    <3>2. Tail(iter) \in Seq(Keys) /\ <<>> \in Seq(Keys)
      BY <3>1
    <3>3. QED
      BY <3>1, <3>2
  <2>2. wrapped' \in SUBSET Objs /\ live' \in [Objs -> Vals]
    BY <1>13, WrapTypeOK DEF ForEachVisit, TypeOK
  <2>3. QED
    BY <1>13, <2>1, <2>2 DEF ForEachVisit, TypeOK, ArrayMirrorsMap, LoadsFrom, IsLast
<1>14. CASE UNCHANGED vars
  BY <1>14 DEF vars, TypeOK, ArrayMirrorsMap, LoadsFrom, IsLast
<1>15. QED
  BY <1>1, <1>2, <1>3, <1>4, <1>5, <1>6, <1>7, <1>8, <1>9, <1>10, <1>11, <1>12,
     <1>13, <1>14 DEF Next

LEMMA Invariance == Spec => []IInv
BY InitIInv, StepIInv, PTL DEF Spec

\* The state of the map stays within its type.
THEOREM TypeCorrect == Spec => []TypeOK
BY Invariance, PTL DEF IInv

\* An array marked clean always loads as the map (arrClean, map.js:104).
THEOREM MirrorCorrect == Spec => []ArrayMirrorsMap
BY Invariance, PTL DEF IInv
-----------------------------------------------------------------------------
\* What the map shows is always a store of the abstract specification.
LEMMA ContentsType == IInv => Contents \in Store!Stores
BY DEF IInv, TypeOK, Contents, Content, Store!Stores

LEMMA InitImplements == Init => Store!Init
BY InitIInv, ContentsType DEF Init, Store!Init

\* Neither syncing nor wrapping changes what the map shows.
LEMMA SyncKeepsContents ==
  ASSUME IInv, Sync, map' = map, UNCHANGED <<wrapped, live>>
  PROVE  Contents' = Contents
BY DEF IInv, TypeOK, Sync, SyncValues, Contents, Content

LEMMA WrapKeepsContents ==
  ASSUME IInv, NEW S, WrapEntries(S), map' = map,
         cell' = cell \/ cell' = SyncValues
  PROVE  Contents' = Contents
<1>1. SUFFICES ASSUME NEW k \in Keys, map[k] # Absent
               PROVE  Content(map[k])' = Content(map[k])
  BY DEF Contents
<1>2. map[k] \in Objs
  BY <1>1 DEF IInv, TypeOK
<1>3. CASE map[k] \in wrapped
  BY <1>2, <1>3 DEF IInv, TypeOK, WrapEntries, Content
<1>4. CASE map[k] \notin wrapped
  BY <1>1, <1>2, <1>4 DEF IInv, TypeOK, WrapEntries, Content, SyncValues
<1>5. QED
  BY <1>1, <1>3, <1>4

\* After a sync the array, read by anyone, says exactly what the map shows.
LEMMA SyncedArrayReadsContents ==
  ASSUME IInv, Sync, map' = map
  PROVE  ReadBack(arr', cell') = Contents
<1>1. ASSUME NEW k \in Keys
      PROVE  ReadBack(arr', cell')[k] = Contents[k]
  <2>1. ReadBack(arr', cell')[k] = IF map[k] = Absent THEN Absent ELSE cell'[map[k]]
    <3>1. arr' \in Seq(Records) /\ LoadsFrom(arr', k, map[k])
      BY SyncIInv
    <3>2. map \in [Keys -> Objs \union {Absent}]
      BY DEF IInv, TypeOK
    <3>3. QED
      BY <3>1, <3>2, ReadBackOfMirror
  <2>2. CASE map[k] = Absent
    BY <2>1, <2>2 DEF Contents
  <2>3. CASE map[k] # Absent
    <3>1. map[k] \in Objs
      BY <2>3 DEF IInv, TypeOK
    <3>2. cell'[map[k]] = Content(map[k])
      BY <3>1 DEF Sync, SyncValues, Content
    <3>3. QED
      BY <2>1, <2>3, <3>2 DEF Contents
  <2>4. QED
    BY <2>2, <2>3
<1>2. QED
  BY <1>1 DEF ReadBack, Contents

LEMMA StepImplements == IInv /\ [Next]_vars => [Store!Next]_(Store!vars)
<1> SUFFICES ASSUME IInv, [Next]_vars PROVE [Store!Next]_(Store!vars)
  OBVIOUS
<1>0. Contents \in Store!Stores /\ TypeOK
  BY ContentsType DEF IInv
<1>1. ASSUME NEW o \in Objs, NEW v \in Vals, Mutate(o, v) PROVE Store!Next
  <2> DEFINE S == {k \in Keys : map[k] = o}
  <2>1. Store!Edit(S, v)
    BY <1>0, <1>1, ValsAssumption
    DEF Mutate, TypeOK, Contents, Content, Store!Edit, Store!Present
  <2>2. S \in SUBSET Keys
    OBVIOUS
  <2>3. QED
    BY <2>1, <2>2 DEF Store!Next
<1>2. ASSUME NEW k \in Keys, NEW o \in Objs, Set(k, o) PROVE Store!Next
  <2> DEFINE v == Content(o)
  <2>1. v \in Vals
    BY <1>0 DEF TypeOK, Content
  <2>2. Store!Set(k, v)
    BY <1>0, <1>2, ValsAssumption DEF Set, TypeOK, Contents, Content, Store!Set
  <2>3. QED
    BY <2>1, <2>2 DEF Store!Next
<1>3. ASSUME NEW k \in Keys, Delete(k) PROVE Store!Next
  <2>1. Store!Delete(k)
    BY <1>0, <1>3, ValsAssumption, SMTT(30)
    DEF Delete, TypeOK, Contents, Content, Present, Store!Delete, Store!Present
  <2>2. QED
    BY <2>1 DEF Store!Next
<1>4. ASSUME NEW k \in Keys, Get(k) PROVE Store!Next
  <2>1. Contents' = Contents
    BY <1>4, WrapKeepsContents DEF Get
  <2>2. QED
    BY <1>4, <2>1 DEF Get, Store!Next, Store!Read
<1>5. ASSUME NEW k \in Keys, Has(k) PROVE Store!Next
  <2>1. Contents' = Contents
    BY <1>5 DEF Has, Contents, Content
  <2>2. (k \in Present) = Store!Present(k)
    BY <1>0, ValsAssumption DEF TypeOK, Present, Contents, Content, Store!Present
  <2>3. QED
    BY <1>5, <2>1, <2>2 DEF Has, Store!Next, Store!Read
<1>6. ASSUME Clear PROVE Store!Next
  BY <1>6 DEF Clear, Contents, Store!Next, Store!Clear
<1>7. ASSUME KeysOf PROVE Store!Next
  <2>1. Contents' = Contents
    BY <1>7 DEF KeysOf, Contents, Content
  <2>2. Present = {k \in Keys : Store!Present(k)}
    BY <1>0, ValsAssumption DEF TypeOK, Present, Contents, Content, Store!Present
  <2>3. QED
    BY <1>7, <2>1, <2>2 DEF KeysOf, Store!Next, Store!Read
<1>8. ASSUME ToArray PROVE Store!Next
  <2>1. Contents' = Contents
    BY <1>8, SyncKeepsContents DEF ToArray
  <2>2. ReadBack(arr', cell') = Contents
    BY <1>8, SyncedArrayReadsContents DEF ToArray
  <2>3. QED
    BY <1>8, <2>1, <2>2 DEF ToArray, Store!Next, Store!Read
<1>9. ASSUME ToObject PROVE Store!Next
  <2>1. Contents' = Contents
    BY <1>9, WrapKeepsContents DEF ToObject, Sync
  <2>2. \A k \in Keys : LoadsFrom(arr', k, map[k])
    BY <1>9, SyncIInv DEF ToObject
  <2>3. \A k \in Keys : (~ \E i \in 1..Len(arr') : arr'[i].key = k) => map[k] = Absent
    BY <2>2 DEF LoadsFrom
  <2>4. [k \in Keys |-> IF \E i \in 1..Len(arr') : arr'[i].key = k
                          THEN Contents[k] ELSE Absent] = Contents
    BY <2>3 DEF Contents
  <2>5. QED
    BY <1>9, <2>1, <2>4 DEF ToObject, Store!Next, Store!Read
<1>10. ASSUME GetEntryList PROVE Store!Next
  <2> DEFINE c == [k \in Keys |-> IF k \in Present THEN cell[map[k]] ELSE Absent]
  <2>1. Contents' = Contents
    BY <1>10 DEF GetEntryList, Contents, Content
  <2>2. c \in Store!Stores
    BY <1>0 DEF TypeOK, Present, Store!Stores
  <2>3. \A k \in Keys : (c[k] = Absent) <=> (Contents[k] = Absent)
    BY <1>0, ValsAssumption DEF TypeOK, Present, Contents, Content
  <2>4. QED
    BY <1>10, <2>1, <2>2, <2>3 DEF GetEntryList, Store!Next, Store!EntryList
<1>11. ASSUME Entries PROVE Store!Next
  <2>1. Contents' = Contents
    BY <1>11, WrapKeepsContents DEF Entries
  <2>2. QED
    BY <1>11, <2>1 DEF Entries, Store!Next, Store!Iterate
<1>12. ASSUME ForEach PROVE Store!Next
  <2>1. Contents' = Contents
    BY <1>12 DEF ForEach, Contents, Content
  <2>2. QED
    BY <1>12, <2>1 DEF ForEach, Store!Next, Store!Iterate
<1>13. ASSUME ForEachVisit PROVE Store!Next
  <2> DEFINE k == Head(iter)
  <2>1. k \in Keys
    BY <1>0, <1>13 DEF ForEachVisit, TypeOK
  <2>2. CASE k \in Present
    <3>1. Contents' = Contents
      BY <1>13, <2>2, WrapKeepsContents DEF ForEachVisit
    <3>2. Store!Present(k)
      BY <1>0, <2>1, <2>2, ValsAssumption DEF TypeOK, Present, Contents, Content, Store!Present
    <3>3. QED
      BY <1>13, <2>1, <2>2, <3>1, <3>2 DEF ForEachVisit, Store!Next, Store!Iterate
  <2>3. CASE k \notin Present
    <3>1. Contents' = Contents
      BY <1>13, <2>3 DEF ForEachVisit, Contents, Content
    <3>2. QED
      BY <1>13, <2>3, <3>1 DEF ForEachVisit, Store!Next, Store!Iterate
  <2>4. QED
    BY <2>2, <2>3
<1>14. ASSUME UNCHANGED vars PROVE UNCHANGED Store!vars
  BY <1>14 DEF vars, Store!vars, Contents, Content
<1>15. QED
  BY <1>1, <1>2, <1>3, <1>4, <1>5, <1>6, <1>7, <1>8, <1>9, <1>10, <1>11, <1>12,
     <1>13, <1>14 DEF Next

\* The lazily synced map is the plain store of MapStore: each call does to what
\* the map shows, and reports of it, what the store's call does.
THEOREM MapImplementsStore == Spec => ImplementsStore
BY Invariance, InitImplements, StepImplements, PTL DEF Spec, ImplementsStore, Store!Spec
=============================================================================
