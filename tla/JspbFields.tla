----------------------------- MODULE JspbFields -----------------------------
(***************************************************************************)
(* Where jspb.Message (src/message.js) keeps its fields.  A message is     *)
(* laid over a data array: fields below its pivot are array slots, fields  *)
(* from the pivot on and extensions are properties of the extension object *)
(* (EO), itself the last slot of the array, made when first needed.        *)
(* Repeated fields start as one shared empty list, the sentinel.           *)
(*                                                                         *)
(* Slots are numbered by field (getIndex_ and getFieldNumber_ shift by a   *)
(* constant).  null, undefined and a hole are all Unset; only what         *)
(* setOneofField is given tells null and undefined apart.  A message is a  *)
(* record [array, pivot, ext]; eo gives the properties of the EO objects.  *)
(***************************************************************************)
EXTENDS Integers, Sequences

CONSTANTS
  Msgs,            \* message objects of one generated class
  Refs,            \* identities of extension objects
  Vals,            \* scalar values
  Default,         \* the value a proto3 setter stores as Unset
  Unset, NoExt, Sentinel,
  Singular,        \* field numbers set by setField or a setProto3 function
  Repeated,        \* repeatedFields
  Oneof,           \* the members of the class's oneof, in declared order
  Extensions,      \* extension field numbers
  SuggestedPivot,  \* what the generated constructor passes to initialize
  Infinity,        \* Number.MAX_VALUE, the pivot of a class without EO
  Loads,           \* data arrays a message is constructed over: [slots, ext]
  CopyAcrossPivots,\* do callers copyInto a message laid out differently?
  MaxList          \* bound on the length of a repeated field

VARIABLES
  msg,       \* the message objects
  eo,        \* the extension objects
  sentinel   \* the content of EMPTY_LIST_SENTINEL_

vars == <<msg, eo, sentinel>>

OneofMembers == {Oneof[i] : i \in 1..Len(Oneof)}
Numbered == Singular \union Repeated \union OneofMembers
Fields == Numbered \union Extensions

Lists == UNION {[1..n -> Vals] : n \in 0..MaxList}
Value == Vals \union {Unset, Sentinel} \union Lists

\* The numbers of a class as the generator gives them: a class with extensions has a
\* pivot (GetPivot, js_generator.cc).
ASSUME FieldsAssumption ==
  /\ Fields \subseteq Nat \ {0}
  /\ Oneof \in Seq(Fields)
  /\ \A i, j \in 1..Len(Oneof) : Oneof[i] = Oneof[j] => i = j
  /\ Singular \intersect (Repeated \union OneofMembers) = {}
  /\ Repeated \intersect OneofMembers = {}
  /\ Extensions \intersect Numbered = {}
  /\ SuggestedPivot \in Int /\ Infinity \in Nat
  /\ Extensions # {} => SuggestedPivot > -1
  /\ \A f \in Fields : f < Infinity

ASSUME ValuesAssumption ==
  /\ {Unset, NoExt, Sentinel} \intersect (Vals \union Lists \union Refs) = {}
  /\ Unset # Sentinel /\ NoExt \notin [Fields -> Value]
  /\ Refs \intersect (Vals \union Lists) = {}
  /\ MaxList \in Nat \ {0}

\* Data that arrive are what some serializer left: lists in repeated fields, values in
\* others, and far fewer slots than Number.MAX_VALUE.
Arriving(f) == {Unset} \union IF f \in Repeated THEN Lists ELSE Vals

ASSUME LoadsAssumption ==
  \A l \in Loads :
    /\ l.slots \in Seq(Value \ {Sentinel}) /\ Len(l.slots) + 1 < Infinity
    /\ \A f \in Fields : f <= Len(l.slots) => l.slots[f] \in Arriving(f)
    /\ \/ l.ext = NoExt
       \/ l.ext \in [Fields -> Value] /\ \A f \in Fields : l.ext[f] \in Arriving(f)

EmptyEO == [f \in Fields |-> Unset]

Larger(i, j) == IF i >= j THEN i ELSE j

\* Reading and writing a JavaScript array: past its end it reads undefined, and
\* a write there extends it with holes.
At(a, i) == IF i \in 1..Len(a) THEN a[i] ELSE Unset
Put(a, i, v) == [j \in 1..Larger(Len(a), i) |-> IF j = i THEN v ELSE At(a, j)]

\* What getField finds before it replaces the sentinel.
Slot(o, h, f) ==
  IF f < o.pivot THEN At(o.array, f)
  ELSE IF o.ext = NoExt THEN Unset ELSE h[o.ext][f]

\* The operators below take a message o and the extension objects h and return
\* both; r is the identity of an extension object made on the way.
State(o, h) == [o |-> o, h |-> h]

\* A slip the runs must notice: a new EO is pushed instead of put at the pivot.
PushEmptyExtensionObject(o, h, r) ==
  IF At(o.array, o.pivot) = Unset
    THEN State([o EXCEPT !.array = Append(@, r), !.ext = r], [h EXCEPT ![r] = EmptyEO])
    ELSE State(o, h)

MaybeInitEmptyExtensionObject(o, h, r) ==
  IF At(o.array, o.pivot) = Unset
    THEN State([o EXCEPT !.array = Put(@, o.pivot, r), !.ext = r],
               [h EXCEPT ![r] = EmptyEO])
    ELSE State(o, h)

PutExtension(o, h, f, v, r) ==
  LET s == MaybeInitEmptyExtensionObject(o, h, r)
  IN  State(s.o, [s.h EXCEPT ![s.o.ext][f] = v])

PutField(o, h, f, v, r) ==
  IF f < o.pivot THEN State([o EXCEPT !.array = Put(@, f, v)], h)
                 ELSE PutExtension(o, h, f, v, r)

\* A slip: the pivot ignores the slots the array already has.
LayOutAtSuggestedPivot(a) ==
  LET last == Len(a)
  IN  IF At(a, last) \in Refs THEN [array |-> a, pivot |-> last, ext |-> a[last]]
      ELSE [array |-> a,
            pivot |-> IF SuggestedPivot > -1 THEN SuggestedPivot ELSE Infinity,
            ext |-> NoExt]

\* initPivotAndExtensionObject_
LayOut(a) ==
  LET last == Len(a)
  IN  IF At(a, last) \in Refs THEN [array |-> a, pivot |-> last, ext |-> a[last]]
      ELSE [array |-> a,
            pivot |-> IF SuggestedPivot > -1 THEN Larger(SuggestedPivot, last + 1)
                                             ELSE Infinity,
            ext |-> NoExt]

\* The repeated fields that have no list get the sentinel.
FilledLength(a, S) ==
  CHOOSE n \in {Len(a)} \union S : \A k \in {Len(a)} \union S : k <= n

FillRepeated(o, h, r) ==
  LET low == {f \in Repeated : f < o.pivot}
      high == Repeated \ low
      filled == [o EXCEPT !.array =
        [i \in 1..FilledLength(@, low) |->
           IF i \in low /\ At(o.array, i) = Unset THEN Sentinel ELSE At(o.array, i)]]
      s == MaybeInitEmptyExtensionObject(filled, h, r)
  IN  IF high = {} THEN State(filled, h)
      ELSE State(s.o, [s.h EXCEPT ![s.o.ext] =
             [f \in Fields |-> IF f \in high /\ @[f] = Unset THEN Sentinel ELSE @[f]]])

\* computeOneofCase: the last member with a value keeps it, the others lose theirs.
OneofCase(o, h) ==
  LET set == {i \in 1..Len(Oneof) : Slot(o, h, Oneof[i]) # Unset}
  IN  IF set = {} THEN 0 ELSE Oneof[CHOOSE i \in set : \A j \in set : j <= i]

KeepOneofCase(o, h) ==
  LET lost == OneofMembers \ {OneofCase(o, h)}
  IN  State([o EXCEPT !.array =
              [i \in DOMAIN @ |-> IF i \in lost /\ i < o.pivot THEN Unset ELSE @[i]]],
            IF o.ext = NoExt THEN h
            ELSE [h EXCEPT ![o.ext] =
              [f \in Fields |-> IF f \in lost /\ f >= o.pivot THEN Unset ELSE @[f]]])

\* initialize over the data array a.
InitializeOver(a, h, r) ==
  LET s == FillRepeated(LayOut(a), h, r)
  IN  KeepOneofCase(s.o, s.h)

\* initialize over fresh data l, whose extension object, if it has one, becomes r.
Initialize(l, h, r) ==
  IF l.ext = NoExt THEN InitializeOver(l.slots, h, r)
                   ELSE InitializeOver(Append(l.slots, r), [h EXCEPT ![r] = l.ext], r)

\* clone_ of the data array: extension objects and lists are copied, the sentinel
\* becomes a list of the clone's own.
Copied(v) == IF v = Sentinel THEN sentinel ELSE v

DataOf(o, h) ==
  LET last == Len(o.array)
      hasEO == At(o.array, last) \in Refs
  IN  [slots |-> [i \in 1..(IF hasEO THEN last - 1 ELSE last) |-> Copied(o.array[i])],
       ext |-> IF hasEO THEN [f \in Fields |-> Copied(h[o.array[last]][f])] ELSE NoExt]

Holds(o, r) == o.ext = r \/ \E i \in 1..Len(o.array) : o.array[i] = r
Free == {r \in Refs : \A m \in Msgs : ~Holds(msg[m], r)}

\* m becomes s.o; an extension object nothing holds any longer is collected.
Become(m, s) ==
  /\ msg' = [msg EXCEPT ![m] = s.o]
  /\ eo' = [r \in Refs |-> IF \E n \in Msgs : Holds(msg'[n], r) THEN s.h[r] ELSE EmptyEO]

Init ==
  /\ sentinel = <<>>
  /\ \E l \in [Msgs -> Loads], r \in [Msgs -> Refs], h \in {[e \in Refs |-> EmptyEO]} :
       /\ \A m, n \in Msgs : r[m] = r[n] => m = n
       /\ msg = [m \in Msgs |-> Initialize(l[m], h, r[m]).o]
       /\ eo = [e \in Refs |->
                 IF \E m \in Msgs : r[m] = e
                   THEN Initialize(l[CHOOSE m \in Msgs : r[m] = e], h, e).h[e]
                   ELSE EmptyEO]

\* The constructor over data that just arrived.
Construct(n, l, r) ==
  /\ Become(n, Initialize(l, eo, r))
  /\ UNCHANGED sentinel

SetField(m, f, v, r) ==
  /\ Become(m, PutField(msg[m], eo, f, v, r))
  /\ UNCHANGED sentinel

\* A slip: the default is stored.
SetFieldStoringDefault(m, f, v, r) ==
  /\ Become(m, PutField(msg[m], eo, f, v, r))
  /\ UNCHANGED sentinel

\* setProto3...Field, by way of setFieldIgnoringDefault_.
SetFieldIgnoringDefault(m, f, v, r) ==
  /\ Become(m, PutField(msg[m], eo, f, IF v = Default THEN Unset ELSE v, r))
  /\ UNCHANGED sentinel

\* getField on a repeated field replaces the sentinel by an empty list.
Fetched(o, h, f) == IF Slot(o, h, f) = Sentinel THEN <<>> ELSE Slot(o, h, f)

GetField(m, f, r) ==
  /\ Slot(msg[m], eo, f) = Sentinel
  /\ Become(m, PutField(msg[m], eo, f, <<>>, r))
  /\ UNCHANGED sentinel

\* addToRepeatedField inserts into the very list getRepeatedField returned.
InsertAt(l, i, v) == SubSeq(l, 1, i) \o <<v>> \o SubSeq(l, i + 1, Len(l))

AddToRepeatedField(m, f, v, r) ==
  LET l == Fetched(msg[m], eo, f)
  IN  IF l = Sentinel
        THEN sentinel' = Append(sentinel, v) /\ UNCHANGED <<msg, eo>>
        ELSE /\ Len(l) < MaxList
             /\ \E i \in 0..Len(l) : Become(m, PutField(msg[m], eo, f, InsertAt(l, i, v), r))
             /\ UNCHANGED sentinel

\* A slip: the member that was set before is not cleared.
SetOneofFieldKeepingOthers(m, f, v, undefined, r) ==
  /\ Become(m, PutField(msg[m], eo, f, v, r))
  /\ UNCHANGED sentinel

\* A slip: setting one member to undefined clears the others (value !== undefined is lost).
SetOneofFieldClearingAlways(m, f, v, undefined, r) ==
  LET c == OneofCase(msg[m], eo)
      kept == KeepOneofCase(msg[m], eo)
      cleared == IF c # 0 /\ c # f THEN PutField(kept.o, kept.h, c, Unset, r) ELSE kept
  IN  /\ Become(m, PutField(cleared.o, cleared.h, f, v, r))
      /\ UNCHANGED sentinel

\* Another member that was set is cleared unless the value is undefined: null, stored as
\* Unset too, clears it.
SetOneofField(m, f, v, undefined, r) ==
  LET c == OneofCase(msg[m], eo)
      kept == KeepOneofCase(msg[m], eo)
      cleared == IF c # 0 /\ c # f /\ ~undefined THEN PutField(kept.o, kept.h, c, Unset, r)
                                                 ELSE kept
  IN  /\ Become(m, PutField(cleared.o, cleared.h, f, v, r))
      /\ UNCHANGED sentinel

SetExtension(m, f, v, r) ==
  /\ Become(m, PutExtension(msg[m], eo, f, v, r))
  /\ UNCHANGED sentinel

\* A slip: the clone is laid over the very array of its original.
CloneMessageInPlace(m, n, r) ==
  /\ Become(n, State(msg[m], eo))
  /\ UNCHANGED sentinel

\* n = m.cloneMessage()
CloneMessage(m, n, r) ==
  /\ Become(n, Initialize(DataOf(msg[m], eo), eo, r))
  /\ UNCHANGED sentinel

\* copyInto(m, n): n's array takes the elements of a clone's array and n takes the
\* clone's extension object; n keeps its own pivot.
CopyInto(m, n, r) ==
  LET s == Initialize(DataOf(msg[m], eo), eo, r)
  IN  /\ m # n
      /\ CopyAcrossPivots \/ msg[m].pivot = msg[n].pivot
      /\ Become(n, State([s.o EXCEPT !.pivot = msg[n].pivot], s.h))
      /\ UNCHANGED sentinel

Next == \E m \in Msgs, r \in Free :
  \/ \E l \in Loads : Construct(m, l, r)
  \/ \E f \in Singular, v \in Vals \union {Unset} : SetField(m, f, v, r)
  \/ \E f \in Repeated, l \in {<<>>} \union {<<v>> : v \in Vals} : SetField(m, f, l, r)
  \/ \E f \in Singular, v \in Vals \union {Default} : SetFieldIgnoringDefault(m, f, v, r)
  \/ \E f \in Repeated : GetField(m, f, r)
  \/ \E f \in Repeated, v \in Vals : AddToRepeatedField(m, f, v, r)
  \/ \E f \in OneofMembers, v \in Vals : SetOneofField(m, f, v, FALSE, r)
  \/ \E f \in OneofMembers, undefined \in BOOLEAN : SetOneofField(m, f, Unset, undefined, r)
  \/ \E f \in Extensions, v \in Vals \union {Unset} : SetExtension(m, f, v, r)
  \/ \E n \in Msgs : CloneMessage(m, n, r)
  \/ \E n \in Msgs : CopyInto(m, n, r)

Spec == Init /\ [][Next]_vars
-----------------------------------------------------------------------------
TypeOK ==
  /\ sentinel \in Lists
  /\ DOMAIN msg = Msgs
  /\ \A m \in Msgs :
       /\ \A i \in 1..Len(msg[m].array) : msg[m].array[i] \in Value \union Refs
       /\ msg[m].pivot \in Nat
       /\ msg[m].ext \in Refs \union {NoExt}
  /\ eo \in [Refs -> [Fields -> Value]]

\* The pivot always names the extension object's place: slot pivot holds it, no
\* slot below holds one, and nothing lies beyond (initPivotAndExtensionObject_,
\* message.js:364; maybeInitEmptyExtensionObject_ trusts it, message.js:408).
PivotHoldsEO ==
  \A m \in Msgs :
    /\ At(msg[m].array, msg[m].pivot) = IF msg[m].ext = NoExt THEN Unset ELSE msg[m].ext
    /\ Len(msg[m].array) <= msg[m].pivot
    /\ \A i \in 1..Len(msg[m].array) : i < msg[m].pivot => msg[m].array[i] \notin Refs

\* "share no state" (copyInto, message.js:1730): two messages never hold one
\* extension object, and no message writes into the shared empty list.
NoSharedState ==
  /\ sentinel = <<>>
  /\ \A m, n \in Msgs, r \in Refs : Holds(msg[m], r) /\ Holds(msg[n], r) => m = n

\* What a getter shows.
Shown(v) == IF v = Sentinel THEN sentinel ELSE v
Visible(o, h) ==
  [f \in Fields |-> Shown(IF f \in Extensions
                            THEN IF o.ext = NoExt THEN Unset ELSE h[o.ext][f]
                            ELSE Slot(o, h, f))]

\* A message rebuilt from its own array (cloneMessage, or a trip through JSON) shows
\* the same fields, though it works out its pivot afresh.
ReloadShowsTheSame ==
  \A m \in Msgs : \A r \in Free :
    LET s == Initialize(DataOf(msg[m], eo), eo, r)
    IN  Visible(s.o, s.h) = Visible(msg[m], eo)

\* compareFields on two data arrays: slot by slot, the extension objects apart.
SlotsEqual(a, b) ==
  \A i \in 1..Larger(Len(a), Len(b)) :
    LET x == IF At(a, i) \in Refs THEN Unset ELSE Shown(At(a, i))
        y == IF At(b, i) \in Refs THEN Unset ELSE Shown(At(b, i))
    IN  x = y

PropertiesOf(a, h) == IF At(a, Len(a)) \in Refs THEN h[a[Len(a)]] ELSE EmptyEO

\* A slip: only the slots are compared.
EqualsBySlots(m, n) == SlotsEqual(msg[m].array, msg[n].array)

Equals(m, n) ==
  /\ SlotsEqual(msg[m].array, msg[n].array)
  /\ \A f \in Fields : Shown(PropertiesOf(msg[m].array, eo)[f]) =
                       Shown(PropertiesOf(msg[n].array, eo)[f])

\* equals is equality of the field values ("have the same field values",
\* message.js:1551) for messages laid out alike.
EqualsComparesValues ==
  \A m, n \in Msgs :
    msg[m].pivot = msg[n].pivot =>
      (Equals(m, n) <=> Visible(msg[m], eo) = Visible(msg[n], eo))

\* compareFields on two elements of data arrays.
ElementsEqual(v, w) ==
  IF v \in Refs /\ w \in Refs
    THEN \A f \in Fields : Shown(eo[v][f]) = Shown(eo[w][f])
    ELSE Shown(v) = Shown(w)

\* difference(m, n): an array of the elements of n's that differ from m's, n's very
\* extension object among them, and a message over it.  r is for an object made then.
DifferenceOf(a, b, positions, r) ==
  LET differ == {i \in positions : ~ElementsEqual(At(a, i), At(b, i))}
      last == CHOOSE k \in differ \union {0} : \A i \in differ : i <= k
  IN  InitializeOver([i \in 1..last |-> IF i \in differ THEN At(b, i) ELSE Unset], eo, r)

\* A slip: elements beyond the first array's end are not looked at.
DifferenceUpToFirst(m, n, r) ==
  DifferenceOf(msg[m].array, msg[n].array, 1..Len(msg[m].array), r)

Difference(m, n, r) ==
  DifferenceOf(msg[m].array, msg[n].array,
               1..Larger(Len(msg[m].array), Len(msg[n].array)), r)

\* The difference of two messages laid out alike "will contain the top-level fields of m2
\* that differ from those of m1" (message.js:1505), and the messages stay as they are,
\* though the result is initialized over an extension object it shares with the second.
DifferenceHasWhatDiffers ==
  \A m, n \in Msgs : \A r \in Free :
    msg[m].pivot = msg[n].pivot =>
      LET d == Difference(m, n, r)
          shown == Visible(d.o, d.h)
      IN  /\ \A f \in Fields :
               Visible(msg[m], eo)[f] # Visible(msg[n], eo)[f] => shown[f] = Visible(msg[n], eo)[f]
          /\ \A k \in Msgs : Visible(msg[k], d.h) = Visible(msg[k], eo)

\* "After this the 2 messages will equals in terms of value semantics" (message.js:1729).
CopyIntoCopies ==
  [][\A m, n \in Msgs : \A r \in Refs :
       CopyInto(m, n, r) => Visible(msg'[n], eo') = Visible(msg[m], eo)]_vars

\* What data say, told without a pivot: an extension is a property of the extension
\* object, another field is in its slot if the slots reach that far.
RawData(l, f) ==
  IF f \notin Extensions /\ f <= Len(l.slots) THEN l.slots[f]
  ELSE IF l.ext = NoExt THEN Unset ELSE l.ext[f]

Superseded(l, f) ==
  \E i, j \in 1..Len(Oneof) : i < j /\ Oneof[i] = f /\ RawData(l, Oneof[j]) # Unset

Held(l) ==
  [f \in Fields |-> IF f \in Repeated /\ RawData(l, f) = Unset THEN <<>>
                    ELSE IF Superseded(l, f) THEN Unset
                    ELSE RawData(l, f)]

Content == [m \in Msgs |-> Visible(msg[m], eo)]

Store == INSTANCE FieldStore WITH content <- Content, Loaded <- {Held(l) : l \in Loads}

\* Seen through its accessors a message is a value for each field: each step is one of the
\* calls of FieldStore, and a message just constructed has the fields of its data.
ImplementsFields == Store!Spec

\* Every call does to what the messages show what its caller asked for, named call by
\* call: it changes the field it was given, of the message it was given, to the value it
\* was given (setField, setFieldIgnoringDefault_, setOneofField, addToRepeatedField,
\* ExtensionFieldInfo's setter, cloneMessage, copyInto, initialize), and a getter that
\* replaces the sentinel changes nothing (message.js:764).
CallsDoWhatTheySay ==
  [][\A c \in {Content}, d \in {Content'}, m \in Msgs, r \in Free :
       /\ \A l \in Loads : Construct(m, l, r) => Store!Load(c, d, m, Held(l))
       /\ \A f \in Singular, v \in Vals \union {Unset} :
            SetField(m, f, v, r) => Store!SetScalar(c, d, m, f, v)
       /\ \A f \in Repeated, l \in {<<>>} \union {<<v>> : v \in Vals} :
            SetField(m, f, l, r) => Store!SetList(c, d, m, f, l)
       /\ \A f \in Singular, v \in Vals \union {Default} :
            SetFieldIgnoringDefault(m, f, v, r) =>
              Store!SetScalar(c, d, m, f, IF v = Default THEN Unset ELSE v)
       /\ \A f \in Repeated : GetField(m, f, r) => d = c
       /\ \A f \in Repeated, v \in Vals :
            AddToRepeatedField(m, f, v, r) =>
              \E i \in 0..Len(c[m][f]) : Store!Insert(c, d, m, f, i, v)
       /\ \A f \in OneofMembers, v \in Vals :
            SetOneofField(m, f, v, FALSE, r) => Store!SetOneof(c, d, m, f, v, FALSE)
       /\ \A f \in OneofMembers, undefined \in BOOLEAN :
            SetOneofField(m, f, Unset, undefined, r) =>
              Store!SetOneof(c, d, m, f, Unset, undefined)
       /\ \A f \in Extensions, v \in Vals \union {Unset} :
            SetExtension(m, f, v, r) => Store!SetScalar(c, d, m, f, v)
       /\ \A n \in Msgs : CloneMessage(m, n, r) \/ CopyInto(m, n, r) => Store!Copy(c, d, m, n)
    ]_vars
=============================================================================
