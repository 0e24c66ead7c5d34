---------------------------- MODULE JspbWrappers ----------------------------
(***************************************************************************)
(* Message-valued fields of jspb.Message (src/message.js).  The value of   *)
(* such a field is kept twice: as a data array in a slot of the message's  *)
(* own array (or extension object), and, once somebody asked for it, as a  *)
(* message object laid over that array, in wrappers_.  A message object    *)
(* may itself be ahead of its array: its map fields reach the array only   *)
(* when its toArray is called.                                             *)
(*                                                                         *)
(* Parents are the messages with such fields.  A child message has one map *)
(* field: its data array is a cell with the serialized map, its object has *)
(* the live Map, if the map was asked for.  An object never leaves the     *)
(* array it was laid over, so objects are named <<array, n>>.  Where a     *)
(* slot lies is the business of JspbFields: slots here are numbered by     *)
(* field; null, undefined and a hole are Unset, the empty list sentinel    *)
(* and a missing list are <<>>.  No field is required (its getter would    *)
(* make a wrapper over no data), and no two setters are given one list.    *)
(***************************************************************************)
EXTENDS Integers, Sequences, FiniteSets, SequencesExt

CONSTANTS
  Parents,             \* message objects of one generated class
  Arrays,              \* identities of data arrays of children
  PerArray,            \* how many objects over one array are told apart
  Vals,                \* what a child's map may hold
  Empty,               \* the content of a new child
  Unset, NoMap, NoObj,
  Singular,            \* message fields outside of oneofs
  Oneof,               \* the members of a oneof, here of message type
  Repeated,            \* repeated message fields
  Extensions,          \* message extensions
  RepeatedExtensions,  \* repeated message extensions
  ReadsIntoLists,      \* may an extension arrive for a list already there?
  Touched,             \* bound: the fields of each message that calls are made on
  MaxChildren          \* bound on the children in messages

ASSUME ConstantsAssumption ==
  /\ PerArray \in Nat
  /\ Empty \in Vals
  /\ {NoMap, NoObj} \intersect Vals = {} /\ NoMap # NoObj

VARIABLES
  msg,   \* a parent: its data slots, its wrappers_, and whether it has an extension object
  cell,  \* the content of each data array
  obj    \* the child objects: the Map of each, if it was asked for

vars == <<msg, cell, obj>>

Lists == Repeated \union RepeatedExtensions
InEO == Extensions \union RepeatedExtensions
Fields == Singular \union Oneof \union Lists \union Extensions

Objs == Arrays \X (1..PerArray)
ArrayOf == [o \in Objs |-> o[1]]

\* A field is of one kind; undefined is no message and no list.
ASSUME FieldsAssumption ==
  /\ Singular \intersect (Oneof \union Repeated \union InEO) = {}
  /\ Oneof \intersect (Repeated \union InEO) = {}
  /\ Repeated \intersect InEO = {} /\ Extensions \intersect RepeatedExtensions = {}
  /\ Touched \in [Parents -> SUBSET Fields]
  /\ Unset \notin Arrays \union Objs \union Seq(Arrays) \union Seq(Objs)

\* The operators below work on a heap of children.
heap == [cell |-> cell, obj |-> obj]

Elements(f, v) == IF v = Unset THEN {} ELSE IF f \in Lists THEN Range(v) ELSE {v}
ObjsOf(m) == UNION {Elements(f, m.wrap[f]) : f \in Fields}
ArraysOf(m) == UNION {Elements(f, m.data[f]) : f \in Fields}

\* v, a child or a list of them, with g applied to each.
Each(f, v, g) ==
  IF f \in Lists THEN [i \in DOMAIN v |-> g[v[i]]]
  ELSE IF v = Unset THEN Unset ELSE g[v]

\* Children nobody can reach are collected.  An object that lost its place in
\* wrappers_ while its array kept its own counts as reachable: a caller has it.
Kept(ms, h) ==
  LET wrappers == UNION {ObjsOf(ms[p]) : p \in Parents}
      data == UNION {ArraysOf(ms[p]) : p \in Parents}
      objs == {o \in Objs : h.obj[o] # NoObj /\ (o \in wrappers \/ ArrayOf[o] \in data)}
  IN  [objs |-> objs, arrays |-> data \union {ArrayOf[o] : o \in objs}]

\* The places of m's data that hold a child.
Occurrences(m) ==
  {<<f, 1>> : f \in {g \in Fields \ Lists : m.data[g] # Unset}} \union
  UNION {{f} \X DOMAIN m.data[f] : f \in Lists}

\* Bound: the children all messages hold between them.
WithinBounds(ms) ==
  Cardinality(UNION {{p} \X Occurrences(ms[p]) : p \in Parents}) <= MaxChildren

\* The messages become ms, the children h.
Become(ms, h) ==
  LET kept == Kept(ms, h)
  IN  /\ WithinBounds(ms)
      /\ msg' = ms
      /\ cell' = [a \in Arrays |-> IF a \in kept.arrays THEN h.cell[a] ELSE Empty]
      /\ obj' = [o \in Objs |-> IF o \in kept.objs THEN h.obj[o] ELSE NoObj]

LiveObjs == {o \in Objs : obj[o] # NoObj}
FreeArrays == Arrays \ Kept(msg, heap).arrays

\* Unused identities are alike: one choice will do.
OneOf(S) == IF S = {} THEN {} ELSE {CHOOSE x \in S : TRUE}

\* An identity of its own in S for every element of D, if S is large enough (a bound).
Own(D, S) == {g \in [D -> S] : \A x, y \in D : g[x] = g[y] => x = y}

\* new ctor(data): an object over the array a.
NewObjs(h, a) == OneOf({o \in Objs : h.obj[o] = NoObj /\ ArrayOf[o] = a})

\* A child a caller may hand over: one it made, and whose map it may have edited, or
\* one it got from a message.
NewChildren ==
  {[o |-> x[1], h |-> [heap EXCEPT !.obj[x[1]] = x[2]]] :
     x \in (UNION {NewObjs(heap, a) : a \in OneOf(FreeArrays)}) \X ({NoMap} \union (Vals \ {Empty}))}

Children == NewChildren \union {[o |-> o, h |-> heap] : o \in LiveObjs}

\* toArray of the objects S: each writes its map to its array (syncMapFields_).
Synced(h, S) ==
  [h EXCEPT !.cell = [a \in Arrays |->
    LET ahead == {o \in S : ArrayOf[o] = a /\ h.obj[o] # NoMap}
    IN  IF ahead = {} THEN h.cell[a] ELSE h.obj[CHOOSE o \in ahead : TRUE]]]

EmptyMessage ==
  [data |-> [f \in Fields |-> IF f \in Lists THEN <<>> ELSE Unset],
   wrap |-> [f \in Fields |-> Unset],
   eo |-> FALSE]

\* One message was constructed over data that has something in the field f.
Init ==
  \E p \in Parents, f \in Fields :
    \E n \in IF f \in Lists THEN 0..MaxChildren ELSE {1} :
      \E l \in OneOf(Own(1..n, Arrays)), c \in [1..n -> Vals] :
        /\ msg = [q \in Parents |->
             IF q = p THEN [EmptyMessage EXCEPT !.data[f] = IF f \in Lists THEN l ELSE l[1],
                                                !.eo = f \in InEO]
                      ELSE EmptyMessage]
        /\ cell = [a \in Arrays |-> IF a \in Range(l) THEN c[CHOOSE i \in 1..n : l[i] = a]
                                                     ELSE Empty]
        /\ obj = [o \in Objs |-> NoObj]
-----------------------------------------------------------------------------
\* A wrapper is made when there is data and no wrapper.
GetWrapperField(p, f) ==
  LET d == msg[p].data[f]
  IN  /\ msg[p].wrap[f] = Unset
      /\ d # Unset
      /\ \E o \in NewObjs(heap, d) :
           Become([msg EXCEPT ![p].wrap[f] = o], [heap EXCEPT !.obj[o] = NoMap])

\* wrapRepeatedField_: m with an object over each array of the list f.
Wrapped(m, h, f) ==
  {[m |-> [m EXCEPT !.wrap[f] = g],
    h |-> [h EXCEPT !.obj = [o \in Objs |-> IF o \in Range(g) THEN NoMap ELSE @[o]]]] :
     g \in OneOf({l \in Own(DOMAIN m.data[f], {o \in Objs : h.obj[o] = NoObj}) :
                  \A i \in DOMAIN l : ArrayOf[l[i]] = m.data[f][i]})}

\* A slip the runs must notice: the list is wrapped anew each time.
WrapRepeatedFieldAnew(m, h, f) == Wrapped(m, h, f)

WrapRepeatedField(m, h, f) ==
  IF m.wrap[f] # Unset THEN {[m |-> m, h |-> h]} ELSE Wrapped(m, h, f)

GetRepeatedWrapperField(p, f) ==
  \E w \in WrapRepeatedField(msg[p], heap, f) : Become([msg EXCEPT ![p] = w.m], w.h)

\* m with v, a child of the heap h or a list of them, as its field f: the setters call
\* toArray of every child and store what it returns.
Stored(m, h, f, v) ==
  LET s == Synced(h, Elements(f, v))
  IN  [m |-> [m EXCEPT !.wrap[f] = v, !.data[f] = Each(f, v, ArrayOf)], h |-> s]

SetWrapperField(p, f, v, h) ==
  LET s == Stored(msg[p], h, f, v) IN Become([msg EXCEPT ![p] = s.m], s.h)

SetRepeatedWrapperField(p, f, v, h) ==
  LET s == Stored(msg[p], h, f, v) IN Become([msg EXCEPT ![p] = s.m], s.h)

\* setOneofField: the current case, if it is another member, loses slot and wrapper,
\* unless the value is undefined (null does clear it).
OneofCase(m) == {f \in Oneof : m.data[f] # Unset}

\* A slip: the wrapper of the current case stays.
OthersClearedInArray(m, f) ==
  LET lost == OneofCase(m) \ {f}
  IN  [m EXCEPT !.data = [g \in Fields |-> IF g \in lost THEN Unset ELSE @[g]]]

OthersCleared(m, f) ==
  LET lost == OneofCase(m) \ {f}
  IN  [m EXCEPT !.data = [g \in Fields |-> IF g \in lost THEN Unset ELSE @[g]],
                !.wrap = [g \in Fields |-> IF g \in lost THEN Unset ELSE @[g]]]

SetOneofWrapperField(p, f, v, h, undefined) ==
  LET m == IF undefined THEN msg[p] ELSE OthersCleared(msg[p], f)
      s == Stored(m, h, f, v)
  IN  Become([msg EXCEPT ![p] = s.m], s.h)

\* The child goes to the same place of both lists.
AddToRepeatedWrapperField(p, f, i, o, h) ==
  \E w \in WrapRepeatedField(msg[p], h, f) :
    LET s == Synced(w.h, {o})
        m == [w.m EXCEPT !.wrap[f] = InsertAt(@, i + 1, o),
                         !.data[f] = InsertAt(@, i + 1, ArrayOf[o])]
    IN  Become([msg EXCEPT ![p] = m], s)

\* getExtension has an answer only if there is an extension object.
GetExtension(p, f) ==
  /\ msg[p].eo
  /\ IF f \in RepeatedExtensions THEN GetRepeatedWrapperField(p, f)
                                   ELSE GetWrapperField(p, f)

\* A slip: the extension object is not made.
SetExtensionOfNone(p, f, v, h) ==
  LET s == Stored(msg[p], h, f, v) IN Become([msg EXCEPT ![p] = s.m], s.h)

SetExtension(p, f, v, h) ==
  LET s == Stored(msg[p], h, f, v)
  IN  Become([msg EXCEPT ![p] = [s.m EXCEPT !.eo = TRUE]], s.h)

\* readBinaryExtension of a message: of a repeated extension the list getExtension
\* returns is extended in place, if it returns one.
ReadBinaryExtension(p, f, o, h) ==
  IF f \in Extensions THEN SetExtension(p, f, o, h)
  ELSE IF ~msg[p].eo THEN SetExtension(p, f, <<o>>, h)
  ELSE /\ ReadsIntoLists
       /\ \E w \in WrapRepeatedField(msg[p], h, f) :
            Become([msg EXCEPT ![p] = [w.m EXCEPT !.wrap[f] = Append(@, o)]], w.h)

\* syncMapFields_ calls toArray of whatever is in wrappers_.
\* A slip: lists are passed over.
SyncedSingly(m) == UNION {Elements(f, m.wrap[f]) : f \in Fields \ Lists}
SyncedBy(m) == ObjsOf(m)

ToArray(p) == Become(msg, Synced(heap, SyncedBy(msg[p])))

At(m, x) == IF x[1] \in Lists THEN m.data[x[1]][x[2]] ELSE m.data[x[1]]

\* What clone_ is given.  A slip: the array as it is, without toArray.
ArrayAsItIs(m) == heap
ArrayToClone(m) == Synced(heap, SyncedBy(m))

\* q becomes a copy of p, the arrays by clone_, without wrappers; the objects S are
\* synced once the copy is made.
CopyTo(p, q, S) ==
  LET m == msg[p]
      h == ArrayToClone(m)
  IN  \E g \in OneOf(Own(Occurrences(m), FreeArrays)) :
        Become([msg EXCEPT ![q] =
                 [m EXCEPT !.wrap = [f \in Fields |-> Unset],
                           !.data = [f \in Fields |->
                             IF f \in Lists THEN [i \in DOMAIN @[f] |-> g[<<f, i>>]]
                             ELSE IF @[f] = Unset THEN Unset ELSE g[<<f, 1>>]]]],
               Synced([h EXCEPT !.cell = [a \in Arrays |->
                        IF \E x \in DOMAIN g : g[x] = a
                          THEN @[At(m, CHOOSE x \in DOMAIN g : g[x] = a)] ELSE @[a]]],
                      S))

\* q = p.cloneMessage()
CloneMessage(p, q) == CopyTo(p, q, {})

\* copyInto calls toArray of the target before it replaces what is in there.
CopyInto(p, q) == CopyTo(p, q, SyncedBy(msg[q]))
-----------------------------------------------------------------------------
\* Calls on a child.  getMapField: the Map is loaded from the array.
GetMapField(o) ==
  /\ obj[o] = NoMap
  /\ Become(msg, [heap EXCEPT !.obj[o] = cell[ArrayOf[o]]])

\* o.getMap().set(...): the array is stale from here on.
EditMap(o, v) == Become(msg, [heap EXCEPT !.obj[o] = v])

ToArrayOfChild(o) == Become(msg, Synced(heap, {o}))

\* copyInto(x, y) between children: y keeps its array object, which gets x's elements,
\* and loses its Map.
CopyIntoChild(x, y) ==
  LET h == Synced(heap, {x, y})
  IN  Become(msg, [h EXCEPT !.cell[ArrayOf[y]] = h.cell[ArrayOf[x]], !.obj[y] = NoMap])

CallOnField(p, f) ==
  \/ f \in Singular \union Oneof /\ GetWrapperField(p, f)
  \/ f \in Repeated /\ GetRepeatedWrapperField(p, f)
  \/ f \in InEO /\ GetExtension(p, f)
  \/ f \in Singular /\ SetWrapperField(p, f, Unset, heap)
  \/ f \in Oneof /\ \E undefined \in BOOLEAN :
       SetOneofWrapperField(p, f, Unset, heap, undefined)
  \/ f \in Repeated /\ SetRepeatedWrapperField(p, f, <<>>, heap)
  \/ f \in Extensions /\ SetExtension(p, f, Unset, heap)
  \/ f \in RepeatedExtensions /\ SetExtension(p, f, <<>>, heap)
  \/ \E c \in Children :
       \/ f \in Singular /\ SetWrapperField(p, f, c.o, c.h)
       \/ f \in Oneof /\ SetOneofWrapperField(p, f, c.o, c.h, FALSE)
       \/ f \in Repeated /\ SetRepeatedWrapperField(p, f, <<c.o>>, c.h)
       \/ f \in Repeated /\ \E i \in 0..Len(msg[p].data[f]) :
            AddToRepeatedWrapperField(p, f, i, c.o, c.h)
       \/ f \in Extensions /\ SetExtension(p, f, c.o, c.h)
       \/ f \in RepeatedExtensions /\ SetExtension(p, f, <<c.o>>, c.h)
  \/ f \in InEO /\ \E c \in NewChildren : ReadBinaryExtension(p, f, c.o, c.h)

CallOnParent(p) ==
  \/ \E f \in Touched[p] : CallOnField(p, f)
  \/ ToArray(p)
  \/ \E q \in Parents : CloneMessage(p, q) \/ CopyInto(p, q)

CallOnChild(o) ==
  \/ GetMapField(o)
  \/ \E v \in Vals : EditMap(o, v)
  \/ ToArrayOfChild(o)
  \/ \E x \in LiveObjs \ {o} : CopyIntoChild(x, o)

Next ==
  \/ \E p \in Parents : CallOnParent(p)
  \/ \E o \in LiveObjs : CallOnChild(o)

Spec == Init /\ [][Next]_vars
-----------------------------------------------------------------------------
TypeOK ==
  /\ cell \in [Arrays -> Vals]
  /\ obj \in [Objs -> Vals \union {NoObj, NoMap}]
  /\ \A p \in Parents :
       /\ msg[p].eo \in BOOLEAN
       /\ ObjsOf(msg[p]) \subseteq LiveObjs /\ ArraysOf(msg[p]) \subseteq Arrays
       /\ \A f \in InEO : (Elements(f, msg[p].data[f]) # {} \/ msg[p].wrap[f] # Unset)
                          => msg[p].eo

\* "Sets a proto field and syncs it to the backing array" (setWrapperField,
\* message.js:1215): whoever set, wrapped, added or cleared it, a wrapper lies over the
\* very array in its slot, lists place by place.
WrappersOverData ==
  \A p \in Parents, f \in Fields :
    \/ msg[p].wrap[f] = Unset
    \/ msg[p].data[f] = Each(f, msg[p].wrap[f], ArrayOf)

\* Two message objects never lie over one array, or the maps of one would overwrite
\* what the other shows (getWrapperField and wrapRepeatedField_ wrap only once,
\* message.js:1163 and 1204).
OneWrapperPerArray ==
  \A x, y \in LiveObjs : ArrayOf[x] = ArrayOf[y] => x = y

\* What a getter shows of the field f, and what is in an array, its Map included.
Shown(p, f) ==
  IF msg[p].wrap[f] = Unset THEN msg[p].data[f] ELSE Each(f, msg[p].wrap[f], ArrayOf)

Content == Synced(heap, LiveObjs).cell

\* cloneMessage makes "a deep clone of the given message" (message.js:1708): once
\* toArray has run, the array holds what the getters show, and so do a clone, equals and
\* JSON, while serializeBinary asks the getters.
CloneShowsTheSame ==
  \A p \in Parents :
    LET synced == Synced(heap, SyncedBy(msg[p])).cell
    IN  \A f \in Fields :
          Each(f, msg[p].data[f], synced) = Each(f, Shown(p, f), Content)

Tree == INSTANCE MessageTree
  WITH Nodes <- Arrays, Singles <- Singular \union Extensions,
       field <- [p \in Parents |-> [f \in Fields |-> Shown(p, f)]],
       content <- Content

\* Seen through its getters a message holds children, and a child's content changes
\* only when somebody edits that child: making wrappers and syncing arrays are not seen.
ImplementsTree == Tree!Spec
=============================================================================
