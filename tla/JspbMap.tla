------------------------------- MODULE JspbMap -------------------------------
(***************************************************************************)
(* jspb.Map (src/map.js): a key-value map laid over the array that its     *)
(* message serializes.  Edits go to map_ and only mark the array dirty;    *)
(* toArray() brings the array up to date.  The values of a message-valued  *)
(* map are arrays too, wrapped in message objects on first use; a wrapper  *)
(* has content of its own (nested maps) that reaches its array only when   *)
(* its own toArray() runs.                                                 *)
(*                                                                         *)
(* A value is an object o of Objs: cell[o] is the content of its array,    *)
(* live[o] the content its message object shows, wrapped the objects that  *)
(* have a message object.  In a map of primitive values an object is the   *)
(* value itself: nothing is wrapped and cell never changes.                *)
(***************************************************************************)
EXTENDS Integers, Sequences, FiniteSets

CONSTANTS
  Keys,    \* map keys; < is the order of their string forms
  Objs,    \* value objects
  Vals,    \* contents of a value object
  Absent,  \* no entry
  MaxLoad  \* bound on the length of the array a map is constructed over

ASSUME KeysAssumption == Keys \subseteq Int /\ IsFiniteSet(Keys)
ASSUME ValsAssumption == Absent \notin Vals /\ Absent \notin Objs
ASSUME MaxLoadAssumption == MaxLoad \in Nat

VARIABLES
  valueCtor,  \* is V a message type (valueCtor_, const)
  arr,        \* arr_, shared with the message: a sequence of [key, value] records
  map,        \* map_: the object held by each key's Entry_, or Absent
  arrClean,   \* is arr up to date with map?
  wrapped, live, cell,
  iter,       \* the forEach in progress: the keys its snapshot has left
  out         \* what the last call reported

vars == <<valueCtor, arr, map, arrClean, wrapped, live, cell, iter, out>>

Records == [key : Keys, value : Objs]

Loads == UNION {[1..n -> Records] : n \in 0..MaxLoad}

Present == {k \in Keys : map[k] # Absent}

\* The entry a key gets from loadFromArray_: a later record replaces an earlier one.
IsLast(a, i) == \A j \in i + 1 .. Len(a) : a[j].key # a[i].key

LoadsFrom(a, k, o) ==
  IF \E i \in 1..Len(a) : a[i].key = k
    THEN \E i \in 1..Len(a) : a[i].key = k /\ IsLast(a, i) /\ a[i].value = o
    ELSE o = Absent

\* stringKeys_() followed by sort(): the enumerations of S in key order.
SortedKeys(S) ==
  {s \in [1..Cardinality(S) -> S] :
     /\ \A k \in S : \E i \in 1..Cardinality(S) : s[i] = k
     /\ \A i, j \in 1..Cardinality(S) : i < j => s[i] < s[j]}

\* What a user sees in the map: the content of each entry's wrapper or, while
\* there is none, of its array.
Content(o) == IF o \in wrapped THEN live[o] ELSE cell[o]
Contents == [k \in Keys |-> IF map[k] = Absent THEN Absent ELSE Content(map[k])]

\* What a reader of the array a, with cell contents c, gets for each key.
ReadBack(a, c) ==
  [k \in Keys |->
     IF \E i \in 1..Len(a) : a[i].key = k
       THEN c[a[CHOOSE i \in 1..Len(a) : a[i].key = k /\ IsLast(a, i)].value]
       ELSE Absent]

\* The constructor over an array that holds no wrapped value: the array is taken
\* as it is, duplicates included, and counts as clean.
Init ==
  /\ valueCtor \in BOOLEAN
  /\ arr \in Loads
  /\ map \in [Keys -> Objs \union {Absent}]
  /\ \A k \in Keys : LoadsFrom(arr, k, map[k])
  /\ arrClean = TRUE
  /\ cell \in [Objs -> Vals]
  /\ live = cell
  /\ wrapped = IF valueCtor THEN {o \in Objs : \A i \in 1..Len(arr) : arr[i].value # o}
                            ELSE {}
  /\ iter = <<>>
  /\ out = <<"new">>

\* A user changes a message it holds (one it made, or one the map handed out).
Mutate(o, v) ==
  /\ o \in wrapped
  /\ live' = [live EXCEPT ![o] = v]
  /\ out' = <<"edit">>
  /\ UNCHANGED <<valueCtor, arr, map, arrClean, wrapped, cell, iter>>

\* set: a message value is synced, and its array stored beside it.
Set(k, o) ==
  /\ valueCtor => o \in wrapped
  /\ map' = [map EXCEPT ![k] = o]
  /\ cell' = IF valueCtor THEN [cell EXCEPT ![o] = live[o]] ELSE cell
  /\ arrClean' = FALSE
  /\ out' = <<"set">>
  /\ UNCHANGED <<valueCtor, arr, wrapped, live, iter>>

\* A slip the runs must notice: del() leaves the array marked clean.
DeleteKeepsClean(k) ==
  /\ out' = <<"del", k \in Present>>
  /\ map' = [map EXCEPT ![k] = Absent]
  /\ UNCHANGED <<valueCtor, arr, arrClean, wrapped, live, cell, iter>>

Delete(k) ==
  /\ out' = <<"del", k \in Present>>
  /\ map' = [map EXCEPT ![k] = Absent]
  /\ arrClean' = FALSE
  /\ UNCHANGED <<valueCtor, arr, wrapped, live, cell, iter>>

Clear ==
  /\ map' = [k \in Keys |-> Absent]
  /\ arrClean' = FALSE
  /\ out' = <<"clear">>
  /\ UNCHANGED <<valueCtor, arr, wrapped, live, cell, iter>>

\* A slip: the message object is made over no array.
WrapEntriesOverNothing(S) ==
  LET fresh == {o \in Objs \ wrapped : \E k \in S : map[k] = o}
  IN  IF valueCtor
        THEN /\ wrapped' = wrapped \union fresh
             /\ live' = [o \in Objs |-> IF o \in fresh THEN Absent ELSE live[o]]
        ELSE UNCHANGED <<wrapped, live>>

\* wrapEntry_ on the entries of the keys in S: a message object is made over the
\* array of each value that has none, and shows the array's content.
WrapEntries(S) ==
  LET fresh == {o \in Objs \ wrapped : \E k \in S : map[k] = o}
  IN  IF valueCtor
        THEN /\ wrapped' = wrapped \union fresh
             /\ live' = [o \in Objs |-> IF o \in fresh THEN cell[o] ELSE live[o]]
        ELSE UNCHANGED <<wrapped, live>>

Get(k) ==
  /\ out' = <<"get", Contents[k]>>
  /\ WrapEntries({k} \intersect Present)
  /\ UNCHANGED <<valueCtor, arr, map, arrClean, cell, iter>>

Has(k) ==
  /\ out' = <<"has", k \in Present>>
  /\ UNCHANGED <<valueCtor, arr, map, arrClean, wrapped, live, cell, iter>>

KeysOf ==  \* keys(), getLength()
  /\ out' = <<"keys", Present>>
  /\ UNCHANGED <<valueCtor, arr, map, arrClean, wrapped, live, cell, iter>>

\* A slip: a clean array's values are not synced.
SyncValuesIfDirty ==
  [o \in Objs |-> IF ~arrClean /\ o \in wrapped /\ \E k \in Keys : map[k] = o
                    THEN live[o] ELSE cell[o]]

\* toArray: the values' own wrappers are synced whether the array is clean or
\* not; a dirty array is emptied and refilled in key order.
SyncValues ==
  [o \in Objs |-> IF o \in wrapped /\ \E k \in Keys : map[k] = o THEN live[o] ELSE cell[o]]

Sync ==
  /\ cell' = SyncValues
  /\ IF arrClean
       THEN arr' = arr
       ELSE \E s \in SortedKeys(Present) :
              arr' = [i \in 1..Cardinality(Present) |-> [key |-> s[i], value |-> map[s[i]]]]
  /\ arrClean' = TRUE

ToArray ==
  /\ Sync
  /\ out' = <<"serialize", ReadBack(arr', cell')>>
  /\ UNCHANGED <<valueCtor, map, wrapped, live, iter>>

\* toObject: syncs, then wraps every entry the array names and reports it from map_.
ToObject ==
  /\ Sync
  /\ WrapEntries(Present)
  /\ out' = <<"toObject", [k \in Keys |-> IF \E i \in 1..Len(arr') : arr'[i].key = k
                                            THEN Contents[k] ELSE Absent]>>
  /\ UNCHANGED <<valueCtor, map, iter>>

\* getEntryList hands out Entry_.value: the array of a message value, not the message.
GetEntryList ==
  /\ out' = <<"getEntryList",
              [k \in Keys |-> IF k \in Present THEN cell[map[k]] ELSE Absent]>>
  /\ UNCHANGED <<valueCtor, arr, map, arrClean, wrapped, live, cell, iter>>

\* entries() and values() wrap every entry and hand out a snapshot.
Entries ==
  /\ WrapEntries(Present)
  /\ out' = <<"iterate">>
  /\ UNCHANGED <<valueCtor, arr, map, arrClean, cell, iter>>

\* forEach takes a snapshot of the keys and looks each one up again when its turn
\* comes; the callback may call anything in between, and a key it removed makes
\* wrapEntry_(undefined) throw.
ForEach ==
  /\ iter = <<>>
  /\ \E s \in SortedKeys(Present) : iter' = s
  /\ out' = <<"iterate">>
  /\ UNCHANGED <<valueCtor, arr, map, arrClean, wrapped, live, cell>>

ForEachVisit ==
  /\ iter # <<>>
  /\ LET k == Head(iter)
     IN  IF k \in Present
           THEN /\ out' = <<"visit", k, Contents[k]>>
                /\ WrapEntries({k})
                /\ iter' = Tail(iter)
           ELSE /\ out' = <<"throw">>
                /\ iter' = <<>>
                /\ UNCHANGED <<wrapped, live>>
  /\ UNCHANGED <<valueCtor, arr, map, arrClean, cell>>

Next ==
  \/ \E o \in Objs, v \in Vals : Mutate(o, v)
  \/ \E k \in Keys, o \in Objs : Set(k, o)
  \/ \E k \in Keys : Delete(k) \/ Get(k) \/ Has(k)
  \/ Clear
  \/ KeysOf
  \/ ToArray
  \/ ToObject
  \/ GetEntryList
  \/ Entries
  \/ ForEach
  \/ ForEachVisit

Spec == Init /\ [][Next]_vars
-----------------------------------------------------------------------------
TypeOK ==
  /\ valueCtor \in BOOLEAN
  /\ arr \in Seq(Records)
  /\ map \in [Keys -> Objs \union {Absent}]
  /\ arrClean \in BOOLEAN
  /\ wrapped \in SUBSET Objs
  /\ live \in [Objs -> Vals]
  /\ cell \in [Objs -> Vals]
  /\ iter \in Seq(Keys)

\* arrClean means what its comment says ("Is arr_ updated with respect to map_?",
\* map.js:104): whoever loads a clean array gets the very objects of the map.
ArrayMirrorsMap == arrClean => \A k \in Keys : LoadsFrom(arr, k, map[k])

Store == INSTANCE MapStore WITH store <- Contents

\* Seen through its calls the lazily synced map is the plain store of MapStore.
ImplementsStore == Store!Spec
=============================================================================
