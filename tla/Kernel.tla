------------------------------- MODULE Kernel -------------------------------
(***************************************************************************)
(* The experimental kernel (src/experimental/runtime/kernel): a message    *)
(* over immutable bytes.  An index is built when the bytes come; a field   *)
(* is decoded when it is first asked for and then cached.  A cache with an *)
(* encoder is written anew by serialize(); without one, the field's old    *)
(* bytes are copied.                                                       *)
(*                                                                         *)
(* Bytes are a sequence of entries: field number, wire type and data, which *)
(* is a value, the values of a packed field, or the content of a child     *)
(* message.  They never change, so an index holds the entries themselves   *)
(* where the code holds their places.  A child message is an object with a *)
(* kernel of its own; here it is an object with a content, which its       *)
(* kernel shows and serializes.  Arrays in caches have an identity, for    *)
(* elements are set in place.  Identities are numbers, as many as needed.  *)
(***************************************************************************)
EXTENDS Integers, Sequences, FiniteSets, SequencesExt

CONSTANTS
  Kernels,
  Vals,              \* of scalar fields and elements
  Contents, Empty,   \* of child messages; that of a new one
  Scalars,           \* singular fields of a scalar type
  Packables,         \* repeated fields of a scalar type
  Messages, Groups,  \* singular children
  ReadOnly,          \* those among them that are asked for with getMessage
  RepeatedMessages,
  Buffers,           \* the bytes a kernel may be made of
  MaxSize,           \* bound on the values held, and the fields they are in
  Null, Undefined, None, NoField, NoObj, Unset, Unreadable

VARIABLES
  kernel,  \* fields_ of every kernel
  array,   \* the elements of the arrays in caches
  child    \* the content of the child objects

vars == <<kernel, array, child>>

Singles == Messages \union Groups
Repeated == Packables \union RepeatedMessages
Fields == Scalars \union Singles \union Repeated

WireTypes == {"VARINT", "FIXED64", "DELIMITED", "START_GROUP", "FIXED32"}

\* The data of an entry: a value of its field, or all those of a packed one.
DataOf(f, wire) ==
  IF f \in Packables /\ wire = "DELIMITED" THEN Seq(Vals)
  ELSE IF f \in Scalars \union Packables THEN Vals ELSE Contents

Entries ==
  {entry \in [field : Fields, wire : WireTypes, data : Vals \union Contents \union Seq(Vals)] :
     entry.data \in DataOf(entry.field, entry.wire)}

\* A field's data (field.js).
FieldData ==
  [index : Seq(Entries) \union {Null}, cache : Vals \union Nat \union {Undefined},
   encoder : {None, "Each", "Packed"}]

\* Field numbers are positive, and a field is of one kind.
ASSUME SchemaAssumption ==
  /\ Max(Fields) \in Nat
  /\ Fields \subseteq 1..Max(Fields)
  /\ (Scalars \union Packables) \intersect (Singles \union RepeatedMessages) = {}
  /\ Scalars \intersect Packables = {} /\ Singles \intersect RepeatedMessages = {}
  /\ Messages \intersect Groups = {}
  /\ ReadOnly \subseteq Singles

\* What stands for nothing, or for what cannot be read, is not a value.
ASSUME ValuesAssumption ==
  /\ Empty \in Contents
  /\ Buffers \subseteq Seq(Entries)
  /\ Undefined \notin Vals \union Nat
  /\ None \notin {"Each", "Packed"}
  /\ Null \notin Seq(Entries)
  /\ NoField \notin FieldData
  /\ NoObj \notin Nat
  /\ \A mark \in {Unset, Unreadable} :
       mark \notin Vals \union Contents \union Seq(Vals) \union Seq(Contents)

heap == [kernel |-> kernel, array |-> array, child |-> child]

Wire(f) ==
  IF f \in Scalars \union Packables THEN "VARINT"
  ELSE IF f \in Groups THEN "START_GROUP" ELSE "DELIMITED"

\* buildIndex: for each field, its entries in the bytes b.
FromBytes(b) ==
  [f \in Fields |->
    LET entries == FlattenSeq([i \in DOMAIN b |-> IF b[i].field = f THEN <<b[i]>> ELSE <<>>])
    IN  IF entries = <<>> THEN NoField
        ELSE [index |-> entries, cache |-> Undefined, encoder |-> None]]

\* validateWireType: of scalars and groups only the last entry is looked at.
Readable(f, es) ==
  IF f \in Packables THEN \A i \in DOMAIN es : es[i].wire \in {Wire(f), "DELIMITED"}
  ELSE IF f \in Scalars \union Groups THEN Last(es).wire = Wire(f)
  ELSE \A i \in DOMAIN es : es[i].wire = Wire(f)

\* The child read from the concatenated bytes of several entries: its last value counts.
Merged(es) ==
  LET set == {i \in DOMAIN es : es[i].data # Empty}
  IN  IF set = {} THEN Empty ELSE es[CHOOSE i \in set : \A j \in set : j <= i].data

Decoded(f, es) ==
  IF f \in Scalars \union Groups THEN Last(es).data
  ELSE IF f \in Messages THEN Merged(es)
  ELSE IF f \in Packables
    THEN FlattenSeq([i \in DOMAIN es |->
           IF es[i].wire = "DELIMITED" THEN es[i].data ELSE <<es[i].data>>])
  ELSE [i \in DOMAIN es |-> es[i].data]

\* The objects in the cache of a field, and the value it stands for.
ObjsIn(K, f, h) ==
  IF K[f] = NoField \/ f \notin Singles \union RepeatedMessages THEN <<>>
  ELSE IF K[f].cache = Undefined THEN <<>>
  ELSE IF f \in Singles THEN <<K[f].cache>> ELSE h.array[K[f].cache]

Cached(K, f, h) ==
  LET at == K[f].cache
  IN  IF f \in Scalars THEN at
      ELSE IF f \in Packables THEN h.array[at]
      ELSE IF f \in Singles THEN h.child[at]
      ELSE [i \in DOMAIN h.array[at] |-> h.child[h.array[at][i]]]

\* What a getter returns, or throws, of the field f of a kernel K; reading changes K.
Shown(K, f, h) ==
  LET fl == K[f]
  IN  IF fl = NoField THEN IF f \in Repeated THEN <<>> ELSE Unset
      ELSE IF fl.cache # Undefined THEN Cached(K, f, h)
      ELSE IF Readable(f, K[f].index) THEN Decoded(f, K[f].index)
      ELSE Unreadable

HasFieldNumber(K, f, h) ==
  LET fl == K[f]
  IN  /\ fl # NoField
      /\ \/ fl.index # Null
         \/ f \in Repeated => h.array[fl.cache] # <<>>

\* A slip: an empty packed field is written like any other.
EncodedEmpty(f, encoder, v) ==
  IF f \notin Repeated THEN <<[field |-> f, wire |-> Wire(f), data |-> v]>>
  ELSE IF encoder # "Packed" THEN [i \in DOMAIN v |-> [field |-> f, wire |-> Wire(f), data |-> v[i]]]
  ELSE <<[field |-> f, wire |-> "DELIMITED", data |-> v]>>

\* The encoders of fields: all values in one entry, or each in its own.
Encoded(f, encoder, v) ==
  IF f \notin Repeated THEN <<[field |-> f, wire |-> Wire(f), data |-> v]>>
  ELSE IF encoder # "Packed" THEN [i \in DOMAIN v |-> [field |-> f, wire |-> Wire(f), data |-> v[i]]]
  ELSE IF v = <<>> THEN <<>> ELSE <<[field |-> f, wire |-> "DELIMITED", data |-> v]>>

SerializedField(K, f, h) ==
  LET fl == K[f]
  IN  IF fl = NoField THEN <<>>
      ELSE IF fl.encoder # None THEN Encoded(f, fl.encoder, Cached(K, f, h))
      ELSE K[f].index

Serialize(K, h) ==
  FlattenSeq([f \in 1..Max(Fields) |-> IF f \in Fields THEN SerializedField(K, f, h) ELSE <<>>])
-----------------------------------------------------------------------------
(* The heap after storing.                                                 *)

\* A number for each member of S, none of them used and no two alike.
Fresh(used, S) ==
  CHOOSE names \in [S -> 1..(Cardinality(used) + Cardinality(S))] :
    \A x \in S : names[x] \notin used /\ \A y \in S \ {x} : names[x] # names[y]

\* What is stored, and new[x] under each name names[x].
Extended(stored, names, new) ==
  [a \in DOMAIN stored \union {names[x] : x \in DOMAIN names} |->
    IF a \in DOMAIN stored THEN stored[a] ELSE new[CHOOSE x \in DOMAIN names : names[x] = a]]

\* New objects with given contents: the heap that has them, and the objects.
NewObjs(h, cs) ==
  LET os == Fresh(DOMAIN h.child, DOMAIN cs)
  IN  [heap |-> [h EXCEPT !.child = Extended(h.child, os, cs)], held |-> os]

\* What a cache is to hold of the field f: a value, an object, or a new array of these.
InHeap(h, f, held) ==
  LET at == Fresh(DOMAIN h.array, {f})
  IN  IF f \in Repeated
        THEN [heap |-> [h EXCEPT !.array = Extended(h.array, at, [g \in {f} |-> held])],
              cache |-> at[f]]
        ELSE [heap |-> h, cache |-> held]

\* setField_
SetField(h, k, f, held, encoder) ==
  LET stored == InHeap(h, f, held)
  IN  [stored.heap EXCEPT !.kernel[k][f] =
         [index |-> Null, cache |-> stored.cache, encoder |-> encoder]]

\* A slip: the index stays.
SetCacheBesideIndex(h, k, f, held, encoder) ==
  LET stored == InHeap(h, f, held)
  IN  [stored.heap EXCEPT !.kernel[k][f].cache = stored.cache, !.kernel[k][f].encoder = encoder]

\* setCache, which drops the index if there is an encoder.
SetCache(h, k, f, held, encoder) ==
  LET stored == InHeap(h, f, held)
  IN  [stored.heap EXCEPT !.kernel[k][f] =
         [index |-> IF encoder = None THEN h.kernel[k][f].index ELSE Null,
          cache |-> stored.cache, encoder |-> encoder]]

\* The values of a field put in a form a cache holds; children become new objects.
Made(h, f, v) ==
  IF f \in RepeatedMessages THEN NewObjs(h, v)
  ELSE IF f \notin Singles THEN [heap |-> h, held |-> v]
  ELSE LET made == NewObjs(h, <<v>>) IN [made EXCEPT !.held = @[1]]

\* Nothing is left to decode: the field is not there, or in the cache.
AtHand(K, f) == K[f] # NoField => K[f].cache # Undefined

\* The getters throw at an entry of another wire type.
CanGet(K, f) == ~AtHand(K, f) => Readable(f, K[f].index)

\* The encoder a getter leaves with what it decodes.
GetterEncoder(f) == IF f \in Scalars \union Packables \union ReadOnly THEN None ELSE "Each"

\* getFieldWithDefault_, getRepeatedMessageArray_
Got(h, k, f) ==
  LET K == h.kernel[k]
      made == Made(h, f, Decoded(f, K[f].index))
  IN  IF AtHand(K, f) THEN h ELSE SetCache(made.heap, k, f, made.held, GetterEncoder(f))

\* The elements a repeated field holds once it was got.
Elements(h, k, f) ==
  LET fl == h.kernel[k][f] IN IF fl = NoField THEN <<>> ELSE h.array[fl.cache]

\* How the values of a repeated field may be written.
Encoders(f) == IF f \in Packables THEN {"Packed", "Each"} ELSE {"Each"}

-----------------------------------------------------------------------------
(* What a call leaves.                                                     *)

CachedIn(h, f) == {h.kernel[k][f].cache : k \in {j \in Kernels : h.kernel[j][f] # NoField}}
CachesOf(h, S) == (UNION {CachedIn(h, f) : f \in S}) \ {Undefined}
LiveArrays(h) == CachesOf(h, Repeated)
LiveObjs(h) ==
  CachesOf(h, Singles) \union UNION {ToSet(h.array[a]) : a \in CachesOf(h, RepeatedMessages)}

Shows(K, f, h) ==
  [has |-> HasFieldNumber(K, f, h), val |-> Shown(K, f, h)]

ValuesIn(K, f, h) ==
  IF K[f] = NoField THEN 0
  ELSE IF f \in Repeated /\ Shown(K, f, h) \notin {<<>>, Unreadable} THEN Len(Shown(K, f, h))
  ELSE 1

\* The values held, and the fields they are in, by all kernels together.
Small(h) ==
  LET values == UNION {{<<k, f>>} \X (1..ValuesIn(h.kernel[k], f, h)) : k \in Kernels, f \in Fields}
  IN  Cardinality(values) + Cardinality({v[1][2] : v \in values}) <= MaxSize

\* What no kernel refers to any more is collected.
Become(h) ==
  /\ Small(h)
  /\ kernel' = h.kernel
  /\ array' = [a \in LiveArrays(h) |-> h.array[a]]
  /\ child' = [o \in LiveObjs(h) |-> h.child[o]]

\* What a caller may store: values, and children new or held already.
Given(h, f, n) ==
  IF f \in Scalars \union Packables THEN {[heap |-> h, held |-> vs] : vs \in [1..n -> Vals]}
  ELSE {NewObjs(h, cs) : cs \in [1..n -> Contents]}
         \union {[heap |-> h, held |-> os] : os \in [1..n -> LiveObjs(h)]}

-----------------------------------------------------------------------------

Init ==
  /\ kernel \in [Kernels -> {FromBytes(b) : b \in Buffers}]
  /\ array = <<>>
  /\ child = <<>>
  /\ Small(heap)

GetField(k, f) ==
  /\ ~AtHand(kernel[k], f)
  /\ CanGet(kernel[k], f)
  /\ Become(Got(heap, k, f))

\* getMessageAttach of a field that is not there.
GetMessageAttach(k, f) ==
  /\ f \in Singles \ ReadOnly
  /\ kernel[k][f] = NoField
  /\ LET made == Made(heap, f, Empty) IN Become(SetField(made.heap, k, f, made.held, "Each"))

SetSingular(k, f) ==
  /\ f \in Scalars \union Singles
  /\ \E g \in Given(heap, f, 1) : Become(SetField(g.heap, k, f, g.held[1], "Each"))

SetRepeatedIterable(k, f) ==
  /\ f \in Repeated
  /\ \E n \in 0..1, encoder \in Encoders(f) :
       \E g \in Given(heap, f, n) : Become(SetField(g.heap, k, f, g.held, encoder))

AddRepeatedIterable(k, f) ==
  /\ f \in Repeated
  /\ CanGet(kernel[k], f)
  /\ \E n \in 0..1, encoder \in Encoders(f) :
       \E g \in Given(Got(heap, k, f), f, n) :
         Become(SetField(g.heap, k, f, Elements(g.heap, k, f) \o g.held, encoder))

\* In place; the setters of children leave the field as the getter made it.
SetRepeatedElement(k, f) ==
  /\ f \in Repeated
  /\ CanGet(kernel[k], f)
  /\ \E g \in Given(Got(heap, k, f), f, 1), i \in DOMAIN Elements(Got(heap, k, f), k, f), encoder \in Encoders(f) :
       LET field == g.heap.kernel[k][f]
           set == [g.heap EXCEPT !.array[field.cache][i] = g.held[1]]
       IN  Become([set EXCEPT !.kernel[k][f] =
             IF f \in Packables
               THEN [index |-> Null, cache |-> field.cache, encoder |-> encoder]
               ELSE field])

ClearField(k, f) ==
  /\ kernel[k][f] # NoField
  /\ Become([heap EXCEPT !.kernel[k][f] = NoField])

\* A slip: the copy has the same arrays.
CopiedAlias(h, k, j) == [h EXCEPT !.kernel[j] = h.kernel[k]]

\* Field.shallowCopy of every field: arrays are copied, children are shared.
Copied(h, k, j) ==
  LET K == h.kernel[k]
      lists == {f \in Repeated : K[f] # NoField /\ K[f].cache # Undefined}
      copies == Fresh(DOMAIN h.array, lists)
  IN  [h EXCEPT
        !.array = Extended(h.array, copies, [f \in lists |-> h.array[K[f].cache]]),
        !.kernel[j] = [f \in Fields |->
          IF f \in lists THEN [K[f] EXCEPT !.cache = copies[f]] ELSE K[f]]]

ShallowCopy(k, j) ==
  /\ k # j
  /\ Become(Copied(heap, k, j))

\* A kernel is made of what another one serializes.
FromArrayBuffer(k, j) ==
  /\ k # j
  /\ Become([heap EXCEPT !.kernel[j] = FromBytes(Serialize(kernel[k], heap))])

\* A child is changed through its own kernel.  One that came from getMessage is
\* not to be changed, says its comment: the parent would not serialize that.
Edit(o) ==
  /\ o \in LiveObjs(heap)
  /\ \A k \in Kernels, f \in Singles :
       kernel[k][f] # NoField =>
         kernel[k][f].cache # o \/ kernel[k][f].encoder # None
  /\ \E c \in Contents \ {child[o]} : Become([heap EXCEPT !.child[o] = c])

Next ==
  \/ \E k \in Kernels, f \in Fields :
       \/ GetField(k, f)
       \/ GetMessageAttach(k, f)
       \/ SetSingular(k, f)
       \/ SetRepeatedIterable(k, f)
       \/ AddRepeatedIterable(k, f)
       \/ SetRepeatedElement(k, f)
       \/ ClearField(k, f)
  \/ \E k, j \in Kernels : ShallowCopy(k, j) \/ FromArrayBuffer(k, j)
  \/ \E o \in DOMAIN child : Edit(o)

Spec == Init /\ [][Next]_vars
-----------------------------------------------------------------------------

\* getFieldWithDefault_ and setField_ leave a field in its bytes, in its cache or in both.
FieldOK(f, fl) ==
  \/ fl = NoField
  \/ /\ (fl.index = Null) = (fl.encoder # None)
     /\ fl.cache = Undefined => fl.index # Null
     /\ f \in RepeatedMessages /\ fl.cache # Undefined => fl.encoder # None

\* What has an encoder has no index, and the children of a repeated field, which are
\* set in place, always have one (field.js maybeRemoveIndexArray_).
TypeOK ==
  /\ \A k \in Kernels, f \in Fields : FieldOK(f, kernel[k][f])
  /\ \A a \in DOMAIN array : array[a] \in Seq(Vals \union DOMAIN child)
  /\ child \in [DOMAIN child -> Contents]

\* serialize() may copy the old bytes of fields or write their caches, but what is
\* parsed from it is what the kernel itself shows.
SerializesWhatItShows ==
  \A k \in Kernels :
    LET parsed == FromBytes(Serialize(kernel[k], heap))
    IN  \A f \in Fields : Shows(parsed, f, heap) = Shows(kernel[k], f, heap)

\* Places of children, and their object if it was made already.
PlacesIn(k, f) ==
  LET value == Shown(kernel[k], f, heap)
  IN  IF f \in RepeatedMessages THEN IF value = Unreadable THEN {} ELSE {<<k, f>>} \X DOMAIN value
      ELSE IF f \in Singles /\ value \in Contents THEN {<<<<k, f>>, 1>>} ELSE {}

ViewPlaces == UNION {PlacesIn(k, f) : k \in Kernels, f \in Fields}

ObjAt(p) ==
  LET objs == ObjsIn(kernel[p[1][1]], p[1][2], heap) IN IF objs = <<>> THEN NoObj ELSE objs[p[2]]

View == INSTANCE KernelView WITH
  view <- [at \in Kernels \X Fields |-> Shows(kernel[at[1]], at[2], heap)],
  same <- LET obj == [p \in ViewPlaces |-> ObjAt(p)]
          IN  [p \in DOMAIN obj |->
                {q \in DOMAIN obj : q = p \/ (obj[p] # NoObj /\ obj[q] = obj[p])}]

\* Whatever is decoded when, in whichever kernel of the copies, no caller can tell:
\* reads change nothing, a call changes its own field, and children are shared by
\* the places that got one object, in the kernel or its copies.
ImplementsView == View!Spec
=============================================================================
