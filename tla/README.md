# Verification of protobuf-javascript

TLA+ modules that model the runtime of protobuf-javascript, TLC configurations
that check them on small instances, and TLAPS proofs of their main invariants for
all instances. Paths below are relative to the repository (`src/` is its root).

## The system

The library is single-threaded JavaScript. What makes it hard is not parallelism
but shared, lazily updated state: a data array with objects laid over it, one
reader or writer handed through nested callbacks, and exceptions that leave such an
object half way.

| Component | State | Operations | Correct if |
|---|---|---|---|
| `jspb.Map` (`map.js`) | `arr_` (serialized form, shared with the message), `map_` (entries with raw value and optional wrapper), `arrClean` | `set get del has clear`, `toArray toObject`, iteration, `forEach`, binary (de)serialization | user sees a plain map; a serialization is never stale |
| `jspb.Message` (`message.js`) | `array`, `pivot_`, `extensionObject_`, `wrappers_`, shared empty list | `initialize`, `getField setField setProto3* setOneofField`, repeated fields, extensions, wrappers, `clone copyInto equals difference` | a field is one value whatever its place; a message rebuilt from its array is the same; messages share nothing |
| `BinaryReader`/`BinaryDecoder` (`binary/reader.js`, `decoder.js`) | bytes, cursor, end, field cursor, current tag; pool of instances | `nextField`, scalar and packed reads, `readMessage readGroup readMessageSetGroup`, skipping, unknown fields, `reset alloc free` | accepts and delivers what the wire format says; no level reads outside its message; ends |
| `BinaryWriter`/`BinaryEncoder` (`binary/writer.js`, `encoder.js`) | list of blocks, total length, encoder buffer | field writes, `writeMessage writeGroup writeMessageSet`, packed fields, raw bytes, `getResultBuffer reset` | bytes parse back to the calls made; lengths right; nothing half written is returned |
| Map entries (`internal_public.js`, `map.js`) | none of their own | entry = embedded message of key 1 and value 2 | as reader and writer |
| Code generator (`generator/js_generator.cc`) | none at run time | emits deserializer and serializer loops, constructor calls with the pivot | emitted loops use the reader as it expects |
| 64-bit arithmetic (`binary/arith.js`, `binary/utils.js`, `experimental/runtime/int64.js`) | two 32-bit halves | split, join, negate, zigzag, decimal conversion, with BigInt and without | every version computes with the same integer |
| UTF-8 (`binary/utf8.js`, kernel's `textencoding.js`) | none | encode, decode, fatal or replacing | text survives; without `TextDecoder` as with it |
| Byte strings (`bytestring.js`, `unsafe_bytestring.js`, `binary/internal_buffer.js`) | `value_`, text or array; which `ArrayBuffer` every array is a view of | conversions, copies and aliases; the decoder's options; pools | a `ByteString` never changes; only who asks for an alias gets one |
| Experimental kernel (`experimental/runtime/kernel`) | buffer, index of fields, decoded-value caches, encoders | typed accessors, `serialize`, `shallowCopy` | cache and buffer agree; copies are independent |
| Checks, debug, extension descriptors, build, conformance harness | none | predicates, formatting | out of scope |

How they interact: generated code calls `BinaryReader.nextField` in a loop and, for an
embedded message, hands the same reader to the embedded message's loop by
`readMessage` or `readGroup`; values go to the message by its setters, map entries by
`Map.set`. Serialization is the mirror image with one `BinaryWriter`.
`Message.toArray` calls `toArray` of every map and wrapped submessage to bring their
arrays up to date.

Under reader and writer, `BinaryDecoder` and `BinaryEncoder` turn values to bytes and back with
the conversions of `binary/utils.js`; bytes and strings leave a reader as copies or as views of the
data it reads, as its options say. The kernel has a decoder, encoder, `Int64` and text codec of its own.

Hard behaviours, each listed with its line under `hazards` in `PROJECT.json`: stale
arrays beside live objects, callbacks that change what is being iterated, data laid
out by another writer, one `end` for all levels of nesting, exceptions in nested
calls, truncated or malformed input, lengths patched in after the fact, arithmetic at the carry
between two halves, several hand-unrolled versions of one conversion, arrays shared by views.

## Modules

### `JspbMap` implements `MapStore`

`MapStore` is what `jspb.Map` promises: a partial function from keys to values, and
what each call reports of it. `JspbMap` has the code's `arr_` (`arr`), `map_` (`map`)
and `arrClean`; a value is an object with an array content (`cell`) and, once wrapped,
a content its message object shows (`live`); the two differ when a nested map was
edited. One action per call; `toArray` syncs every wrapped value and, if the array is
dirty, rebuilds it in key order. `forEach` is a start and a visit, so that any calls
may run between two visits, as they may from its callback. The refinement mapping is
`store <- Contents`. One `forEach` runs at a time; keys are integers, their order
standing for that of their string forms.

### `JspbFields` implements `FieldStore`

A message is an array, a pivot and an extension object; `eo` gives each extension
object's properties and `sentinel` the content of the shared empty list. Field numbers
are array slots (`getIndex_` only shifts by a constant). `LayOut` is
`initPivotAndExtensionObject_`, `PutField` is `setField`, `KeepOneofCase` is what
`computeOneofCase` does to the other members. `Initialize` runs over data of five
kinds: empty; both members of a oneof; an extension object in the usual place; one that
comes early and so holds regular fields; more slots than the class has fields. `copyInto` is
restricted to equal pivots unless `CopyAcrossPivots`. null, undefined and holes are all
`Unset`; `setOneofField`, which clears the other members for a null and not for undefined, is told which it was given.
`equals` and `difference` change nothing and are operators. `FieldStore` is the abstract view: one value per field, the refinement
mapping `content <- Visible`. Its `Load` brings the fields of data and nothing else: `Loaded` is what the arrays of
`Loads` say, worked out without a pivot (`Held`). A step of the store may match several calls;
`CallsDoWhatTheySay` says the same call by call, with the field, message and value each was given, and is proved:
TLC would have to work out every call at every step.

### `JspbWrappers` implements `MessageTree`

The value of a message-valued field is kept twice: as a data array in its slot (`data`)
and, once asked for, as a message object over that array in `wrappers_` (`wrap`). `cell`
is what a data array holds, `obj` the Map of a child object, which is ahead of the array
until `toArray` runs (`Synced` is `syncMapFields_`). One action per getter, setter,
insertion, extension call, `readBinaryExtension`, `toArray`, clone and copy, and the calls
on children: `getMap`, an edit, `toArray`, `copyInto`. A child may be in two fields or
two messages at once, as callers can arrange by passing what a getter gave them. Objects
and arrays nobody holds are collected (`Kept`), so that a few identities do.
`MessageTree` is the abstract view: children in fields and one content per child;
the mapping is `field <- Shown`, `content <- Content`, so making wrappers and syncing
are stutters, and a copy must bring children of its own with the content the getters showed.
Slots and layout are the business of `JspbFields`, which leaves wrappers out; `null` and
`undefined`, alike there, differ here for the one setter that tells them apart.

### `WireFormat` and `BinaryReader`

`WireFormat` defines varints, tags and the reference grammar: `Parses(b, lenient,
keep)` is the set of event sequences a parser may deliver for the bytes `b`, written as
one recursive function over spans of the buffer, independently of the reader's control.
The schema has a packable int32, a message field and a group field of the same (so
recursive) type, and a map. Every message is also a message set: a callback looks for
`isMessageSetGroup()` before it looks at the field number, and an item is a type id and a message
in either order. `BinaryReader` is the reader under the generated loop.
The JavaScript call stack is `stack`, each frame holding the local variables of a
`readMessage`, `readGroup`, `readMessageSetGroup`, `skipGroup` or packed read; `pc` says what runs next;
`log` is what the callbacks received. An exception is `Throw`: every call is left and
the reader keeps its cursor, end and tag, as the code has no `finally`. Reading past the array
gives `undefined`, which counts as a zero byte. Varint values of more than
four bytes are outside the reader's model (no buffer checked holds one; a varint that does not
end within ten bytes is in); `Int32Value` has them for the int32 values in what `BinaryWriter` writes. Assertions are on, as in an uncompiled build (`goog.asserts.ENABLE_ASSERTS`
is `goog.DEBUG`): `nextField` goes back to see that the field before was read
(`PriorFieldWasRead`), for which `readMessageSetGroup` has to forget the tag when it turns back.

### `BinaryWriter`

`blocks`, `totalLength` and `encoder` are the fields of that name. Headers, lengths and values are the bytes
the encoder makes of any legal field number, length and int32 (`Header`, `Varint`, `SignedVarint`). A bookmark is a block
whose last element is the total length at the begin of its message. `open` is the
stack of `writeMessage`, `writeGroup` and `writeMessageSet` calls whose callbacks run. `said` is a history
of the calls made, in the vocabulary of `WireFormat`'s events, so that results are compared
with `Parses`. A callback or a refused value may throw and be caught at any enclosing
level, after which the writer is used on. `getResultBuffer` may run at any time.

### `Kernel` implements `KernelView`

A kernel of the experimental runtime is a message over bytes that never change. `kernel`
is its `fields_`: for a field, the index of its entries in the bytes, a cache, and an encoder if
the cache must be written anew. An index holds the entries themselves, and a kernel's
buffer does without a variable. Arrays in caches and child messages have an identity (`array`,
`child`), since elements are set in place and copies share children; a child is an object with
a content and not a kernel itself. Identities are numbers, as many as it takes, and what no kernel refers to
any more is collected (`Become`). The typed accessors are one action per shape: the
bool, int32, float... variants differ in the wire type they expect and in the bytes of a value, and
strings and bytes are elements that are never packed. `ReadOnly` fields are those asked for with
`getMessage` and `getGroup`, which leave no encoder: their comments say that the calls do not mix with
`getMessageOrNull`, and that a child they return is not to be changed, so `Edit` leaves it.
A getter throws at an entry of another wire type; the field shows `Unreadable` and
`serialize` copies it. `KernelView` is the abstract view: presence and value of every field, and
which places hold one child. Decoding is a stutter; a copy may share children or have its
own (it depends on what was decoded before, and callers that edit a child of a copy can
tell); and parsing what another kernel serializes is a copy with children of its own.

Two comments say otherwise than the code and no run is about them: "This default
instance is guaranteed to be the same instance" (kernel.js:859-860) of `getMessage`, which makes a new
one at each call, and "Merges all index entries" (kernel.js:219) of `readGroup`, which takes the last.

### `Codecs`: what the bytes of a value are

The conversions are pure functions, and most exist in several versions: with BigInt and without,
unrolled for 32 and 64 bits, in the runtime and in the kernel. The modules have each version as an
operator of its own, and `Codecs` puts them side by side: its state is one input that grows step by step
(a word of two halves, values of a field, bytes of varints, fields of a message, raw bytes, a text, bytes of UTF-8),
and its invariants compare what the versions make of it with each other and with the integer, text or fields meant.

| Module | Code |
|---|---|
| `JsInts` | JavaScript's 32-bit operators |
| `Halves` | splits, joins, zigzag, negation and decimal strings of `binary/utils.js`, the classes of `binary/arith.js` |
| `Int64` | the kernel's `Int64` |
| `WireBytes` | varint and fixed-width loops of encoder, decoder, kernel `Writer` and `BufferDecoder` |
| `ValueWriter` | every scalar, repeated and packed write of `BinaryWriter`: what it refuses, when, and what it leaves behind |
| `ValueReader` | every scalar and packed read of `BinaryReader`, with floats put together from their bits |
| `KernelValues` | the value functions of the kernel's `writer.js` and `reader.js` |
| `FieldIndex` | the kernel's index over the bytes of a message (`indexer.js`, `tag.js`, `BufferDecoder`), the count functions of `utils.js` |
| `Utf8` | `encodeUtf8` and `decodeUtf8` of `utf8.js`, the kernel's text codec; `TextDecoder` as the Unicode Standard has it |

A buffer is a sequence of bytes and a cursor a number; an exception is `Fail`. `FieldIndex` has the kernel's checks at
the level CRITICAL, which a build without `goog.DEBUG` has (checks.js:59): `checkState` in
`subBufferDecoder` checks nothing. A value given to a
writer is its JavaScript form, its integer part, and whether a fraction follows.

### `ByteStrings`

`mem` holds the `ArrayBuffer`s; a `Uint8Array` is a view of one, and the caller may write through every
array in `held` unless it froze the buffer, as the `unsafe` functions ask. `string` is the `value_` of each
`ByteString` beside the bytes it was made of; `decoder`, `reader`, the two pools and what live readers were
set up with (`given`) are the machines; `blocks` are the writer's. One action per operation of
`ByteString`, of its unsafe functions, of `alloc` and `free`, of `readBytes`, `readByteString`, `getBuffer`,
and of the writer's calls that take or give whole arrays. Parsing is left out: a read delivers any part of the data.
The empty `ByteString`, one constant without bytes, is left out, as are the `start` and `length` options
and `setBlock` in the middle of a parse. `treatNewDataAsImmutable` matters only at the moment of `init`.

### Proof modules

`JspbMapProofs`, `JspbFieldsProofs`, `JspbWrappersProofs`, `BinaryReaderProofs`, `BinaryWriterProofs`, `KernelProofs`
and `ByteStringsProofs`, each about the module of its name, and `KernelViewProofs`, on top of `KernelProofs`, about
`Kernel` and `KernelView`; see below.

## Runs

| Run | Shows |
|---|---|
| `map` | two keys, two objects that may be shared by both keys, two contents, arrays of up to two records with repeated keys: types, `ArrayMirrorsMap`, and refinement of `MapStore` |
| `fields` | two messages, three extension objects (two in use, one being made): `PivotHoldsEO`, `NoSharedState`, `ReloadShowsTheSame`, `EqualsComparesValues`, `DifferenceHasWhatDiffers`, refinement of `FieldStore` |
| `fields_copy` (violated) | `copyInto` between different layouts does not copy the values (message.js:1740) |
| `wrappers` | two messages, three arrays, two objects per array told apart: `WrappersOverData` (wrapper and slot agree, lists place by place), `OneWrapperPerArray`, `CloneShowsTheSame` (after `toArray` the array holds what the getters show), refinement of `MessageTree` |
| `wrappers_clone` (violated) | a repeated message extension read into a message that has an extension object is in `wrappers_` only (message.js:579): a clone loses it |
| `reader` | every buffer of up to four bytes over twelve values chosen to be tags, lengths and values at once, up to five bytes over the nesting tags, map entries, fixed-width fields, items of a message set with their fields in every order and type ids of 0: `Confined`, `ReadsEveryMessage`, `AcceptsOnlyMessages`, `ParseEnds` (but for a message in front of a type id of 0) |
| `reader_end_group` (violated) | an unmatched END_GROUP is accepted, as conformance/failing_tests.txt records |
| `reader_reset` (violated) | `reset()` after an exception keeps the embedded message's end |
| `kernel` | two kernels with a field of each kind, from buffers with repeated, packed, unreadable and merged entries: `SerializesWhatItShows` (what is parsed from `serialize()` shows the same), refinement of `KernelView` |
| `writer` | up to four calls, values of two and ten bytes, a field whose tag has two, payloads with which an embedded message is 3 or 128 bytes long: `ResultSaysWhatWasSaid`, `LengthsAgree`, `NothingUnsealedIsReturned` |
| `codecs` | `HalvesMeanIntegers`, `WhatIsWrittenIsRead`, `RefusedOrWrittenAsItself`, `VarintReadersAgree`, `IndexIsTheFields`, `IndexStaysInside`, `Utf8MeansText` over all words, values, bytes, messages and texts of the samples |
| `sharing` | three buffers, two `ByteString`s, one reader and two decoders: `ByteStringsNeverChange`, `ArraysAreTheCallersOwn`, `ReadersAreApart` while the caller writes to whatever it holds |

Some disagreements of comment and code are modelled without a run of their own; more are listed below, where the code is known to be off. A callback that deletes a later key
makes `forEach` throw (map.js:400), and `jspb.Map` "closely follows the ES6 Map API" (map.js:76), whose `forEach` goes
on. `difference` of messages that are laid out differently compares an extension object with a slot, and may leave out
a field that differs; its comment (message.js:1505) makes no exception, `DifferenceHasWhatDiffers` is about equal pivots.
`Map.deserializeBinary` neither reads nor skips an unknown field of an entry (map.js:522), so that the
`nextField` after it throws, or, without assertions, takes its bytes for a header; generated deserializers keep or skip it.

Bounds. Two keys and two objects suffice for the map: its operations act on one key, the
interplay is between two keys that hold one object, and a visit and a later key. Two
messages suffice to share state. Four bytes hold an embedded message with a field and
a field after it; five over the nesting tags hold three levels. The items of a message set have up to
three fields, so that either field comes twice, and a message that is skipped, read, cut short or in front of a type id of 0. Four calls hold a message with a
field inside, closed, and one more call. Payloads of 0 and 125 bytes are on both sides of the boundary at two-byte lengths:
a message that holds the latter alone is the shortest past it.

Two children in all messages together suffice for one child in two places, a list of
two, and a copy beside its original; a third array is for a child that comes
while two are there and for copies of a message onto itself. The second message is touched only by
copies and at one field, enough to share a child. Two objects over one array need names only
for `OneWrapperPerArray` to be able to fail.

For the kernel, `MaxSize = 4` admits three values of one field, as a list of two beside its copy's
one, or two values of two fields, as one child in a message field and in a list. More fields at
once add nothing, for a call touches one field and children are all that fields share.

The codecs run at reduced widths that keep the code's proportions. A half has 12 bits and a byte 6, of which a varint
uses 5: a 24-bit word takes 5 bytes with 4 bits in the last (24 = 4*5 + 4), as 64 bits take ten with one in the last
(64 = 9*7 + 1); the cut of a half inside a varint byte, the high half's share of it, and bits past the
word's end all occur. Chunks of 9 : 9 : 6 bits stand for 24 : 24 : 16 and decimal strings are
in base 3 with chunks of 5 and 3 digits. `Safe` is twice the mantissa's range, as 2^53 is to 52 bits. Halves are sampled at all powers of two
and their neighbours, numbers at every boundary of a type; the second value of a packed field is one of `MoreNumbers`.
Four bytes of UTF-8 and three code units, all at the edges of the ranges of the standard's table, hold every form
of an error and what follows it. UTF-8 and the tags have their real width.

For `sharing`, three buffers are a `ByteString`'s, a reader's and a copy of one of them; the constraint `Bounded` limits what is
there at once, and keeps readers and writer, which meet only through arrays and `ByteString`s, from being busy together.

Symmetry is used for value objects and contents (`MCJspbMap`), for messages and
extension objects (`MCJspbFields`), for arrays (`MCJspbWrappers`) and for kernels (`MCKernel`), in runs without liveness.

Fairness. Only `BinaryReader` has a liveness property, `ParseEnds`: weak fairness of `Parse`. A parse is one synchronous
call of single-threaded code, so it runs on until it returns or throws. Reset and reuse
of a reader are the caller's choice and have no fairness.

Deadlock is checked in every run but `codecs`, where an input that has grown to its bound is complete.

## What is proved

With TLAPS, for every value of the constants that satisfies their assumptions:

* `JspbMapProofs`: `TypeCorrect` (`TypeOK`), `MirrorCorrect` (`ArrayMirrorsMap`, inductive
  beside `TypeOK`: only `toArray` sets `arrClean`, and every change of `map` clears it) and
  `MapImplementsStore`: each action maps to the step of `MapStore` of that name or to a stutter.
  Its key step is that `toArray` leaves a wrapped object's cell equal to what it shows,
  so that reading the array back gives `Contents`; for a clean array this rests on
  `ArrayMirrorsMap`.
* `JspbFieldsProofs`, for any class, data and number of messages: `TypeCorrect` (`TypeOK`), `PivotAlwaysHoldsEO`
  (`PivotHoldsEO`), `StateIsNotShared` (`NoSharedState`), `ReloadAlwaysShowsTheSame` (`ReloadShowsTheSame`),
  `EqualsIsFieldEquality` (`EqualsComparesValues`), `DifferenceIsWhatDiffers` (`DifferenceHasWhatDiffers`),
  `CopyIntoCopiesBetweenEqualPivots` (`CopyIntoCopies`), `FieldsImplementStore` (every step is a step of
  `FieldStore` or a stutter) and `EveryCallDoesWhatItSays` (`CallsDoWhatTheySay`). The inductive invariant `FieldsInv` says that every message is `Laid` (the extension object,
  if there is one, is at the pivot and last; otherwise the array ends before the pivot, which is
  where the class suggests, moved behind the array), that its fields keep to their types, that
  no two messages have one extension object, and that the shared empty list is empty. `PivotHoldsEO` alone is not
  inductive: a setter beyond the pivot makes an extension object where `pivot_` says, and
  nothing in `PivotHoldsEO` keeps the array from reaching that far. Each operator on an array is described
  once, by what it leaves of layout (`Laid`), values (`Raw`) and other messages' objects (`Apart`). All assume that no
  `copyInto` crosses pivots (`~CopyAcrossPivots`): with it they are false, as run `fields_copy` shows. `EqualsIsFieldEquality` also assumes
  that messages come without data that are no field's (`NoUnknown`), for `equals` compares those too; the data of run `fields`
  have one such slot, in every message with that pivot the same. What is assumed of the
  constants is named in `JspbFields`: a field is of one kind, extensions need a pivot, a list that arrives is in a
  repeated field, and arrays are shorter than `Number.MAX_VALUE`.
* `JspbWrappersProofs`, for any class and any number of messages, children and arrays: `TypeCorrect` (`TypeOK`),
  `ArraysHaveOneWrapper` (`OneWrapperPerArray`), `WrappersAlwaysLieOverData` (`WrappersOverData`), `ClonesAlwaysShowTheSame`
  (`CloneShowsTheSame`) and `MessagesImplementATree`: every step is a step of `MessageTree` or a stutter. The inductive invariant
  `WrappersInv` adds two things to the properties. An array that waits in a slot to be wrapped has no object over it anywhere and waits in no
  other slot (`BareIsAlone`), which is why wrapping it makes the first object over it, though the getter looks in
  one `wrappers_` only; and what nobody reaches is as new (`Collected`), so that a child in the
  abstract tree begins with the content it brings. For the refinement, `Seems` says of what a call leaves that it is seen as a call of
  the tree or not at all; `SameInside` (a step changes nothing in a held child) carries wrapping, `toArray`,
  and the making of children. The last three assume that no extension is read into a list already there
  (`~ReadsIntoLists`): run `wrappers_clone` shows them false with it. Assumed of the constants: a field is of one kind and
  `undefined` is neither a child nor a list.
* `BinaryWriterProofs`, for any schema and values: `TypeCorrect` (`TypeOK`), `MessageLengthsAreNotNegative`,
  `LengthsAlwaysAgree` (`LengthsAgree`) and `NothingUnsealedIsEverReturned` (`NothingUnsealedIsReturned`). Their invariant `WriterInv` adds where the bookmarks of open calls
  are and that the total each notes is not above what has been written since (`BookmarksIn`), so that the length `endDelimited_`
  works out is not negative; that no two calls have one bookmark and groups have none (`OneBookmarkEach`); and
  that, unless an exception left a bookmark for good, blocks hold nothing but bytes and notes (`BytesIn`). Assumed
  (`WriterAssumption`) is what a schema and the wire format allow: field numbers from 1 to 2^29 - 1, int32 values, and payloads and raw
  bytes that are bytes, of any length. A length is a varint of up to five bytes.
* `BinaryReaderProofs`: `TypeCorrect` (`TypeOK` strengthened by `PcOK`: a field's tag is
  valid and begins no later than the cursor, a finished parse has no call in progress, a packed read is the innermost call) and
  `ConfinedCorrect` (`Confined`, for any depth of nesting) from the assumption that `reset()` is
  called only after a parse that did not throw (`~ResetAfterError`). It is inductive beside `SavedOK`: where
  `readMessageSetGroup` will turn back to is no further than the end it had found. Without it the
  theorem is false, which run `reader_reset` shows. Lemmas say what entering a read call
  (`CallConfined`), leaving one (`ReturnConfined`), a change of its locals (`UpdateConfined`), a read within one (`ReadToConfined`) and an
  exception do to the chain of ends kept in the frames.
* `ByteStringsProofs`, for any number of buffers, objects and readers and pools of any size: `TypeCorrect`
  (`TypeOK`: no view reaches beyond its buffer, whatever chain of subarrays it came by), `ByteStringsKeepTheirBytes`
  (`ByteStringsNeverChange`), `CopiesAreCopies` (`ArraysAreTheCallersOwn`) and `ReadersStayApart`
  (`ReadersAreApart`). The inductive invariant is `TypeOK /\ PoolInv /\ ShareInv`. `PoolInv` says who owns a decoder: a reader its own,
  live or pooled, and each pool holds an object once. `ShareInv` sorts buffers: one is `Writable` when the caller holds
  an array over it or may ask a mutable reader for one, and `Constant` when a `ByteString` or immutable
  reader is over it; no buffer is both unless the caller froze it. Every action that makes an array either takes a fresh buffer, which is
  nobody's, or extends a set the buffer is already in. Assumed are that contents are sequences of bytes
  (`SourcesAssumption`), that `Null` is no object (`NullAssumption`) and that a reader is no decoder (`HandlesAssumption`).

* `KernelProofs`, for any schema, bytes and values and any number of kernels: `TypeCorrect` (`TypeOK`) and `SerializesCorrect`
  (`SerializesWhatItShows`). Neither is inductive: the first needs to know what kind of thing a cache holds, the
  second that a cache beside an index, which `serialize` copies, still shows what is in those bytes. The invariant is
  `TypeOK /\ HeapOK`, and `HeapOK` says four things of the heap. An index has the field's entries and is never empty. A
  cache holds what its field may hold (`Holds`). Where there are both, the bytes can be read and the cache stands for what is decoded
  from them (`FieldFits`); what could break that is a child changed behind the index, which the comment of `getMessage`
  forbids, and an element set in place, which goes together with dropping the index. And no array is in two
  caches (`OwnArrays`), so that setting an element in one kernel leaves the indexes of its copies true. Identities in
  use are finitely many, so that there is a fresh one (`FreshNames`). That parsing shows the same then goes
  by field: the entries of a field in serialized bytes are those its encoder or index gave (`EntriesOfEach`), and
  decoding what an encoder wrote gives what it was given (`DecodedEncoded`). Assumed are that a field is of one kind and fields are numbers
  (`SchemaAssumption`), that buffers are sequences of entries with data of their kind, that `undefined`, `null`
  and the absent encoder are nothing else, and that the model's marks are not either: `NoObj` is no object, and no
  value is `Unset` or `Unreadable` (`ValuesAssumption`).
* `KernelViewProofs`, from the same assumptions: `KernelImplementsView`, every step of the kernels is a call of `KernelView` or shows
  nothing. `Seen(h)` is the refinement mapping as an operator of the heap h, so that what a call makes can be looked
  at before what nobody holds is collected; collecting is not seen (`SeenCollected`), which is why there is no
  garbage in the view. Each call has a lemma that the heap it makes is seen as the view's call (`SetSeen`, `AddSeen`,
  `ElementSeen`, `EditSeen`, `CopySeen`) and each action one that it does that or nothing (`...Told`). `HeapOK` is needed
  in all of them, and its parts for different ones. A get is not seen since what is decoded had no object before and gets new
  ones (`SeenDecoded`). Setting an element changes one field only, by `OwnArrays`: a copy has arrays of its own.
  Editing a child changes exactly the places that hold it, and nothing that shows from bytes, by `FieldFits`. What is
  parsed from `serialize()` is a copy by `SerializesCorrect`'s lemma `ParsedShowsTheSame`.

The library states induction with an operator as parameter, which the provers cannot instantiate. `LeastOf`, in the three
modules that need it, does without: a set of numbers that is not empty has a least element. That suffices where a sequence is put together
piece by piece, as the writer's blocks are joined (`JoinsExist`), the kernel's entries gathered and its fields
written one after the other (`FlattenAppend`), and a oneof's case is looked for.

Only model-checked: `ParseEnds` (liveness), the comparison with the grammar
(`ReadsEveryMessage`, `AcceptsOnlyMessages`, `ResultSaysWhatWasSaid`: `Parses` goes by recursion over spans of
the buffer, in step with every level of the reader's stack), and the properties of `Codecs`, most of which
go by recursion over digits, bytes or fields and compare unrolled loops at fixed widths, where TLC tries all samples.

## Where the code is known to be off

`Codecs` states what holds, with these exceptions, each visible in the operator or property named:

* `Int64.fromNumber` is wrong for negative multiples of 2^32 (`NegateBits`; `KernelInt64` leaves them out).
* The count functions compare tags byte by byte and lose count of one whose rest is 128 (`Countable`: varint fields of number 16, whose
  tag is 128, from the second on), which should be "the number of matching fields in the buffer" (utils.js:667).
* Numbers out of range are refused, where the comments of `writer.js` and `encoder.js` say they "will be truncated"
  (writer.js:440, 452, 474, 487, 509, 521, 533, 544, 557, 594, 607, 632; encoder.js:140 to 299), as writer_test.js:83-154 expects; so is a bigint by `writeSint64`, which its comment allows (writer.js:521). A repeated or packed 64-bit
  bigint out of range is written modulo 2^64; an enum's fraction is cut by `parseInt` (`RefusedOrWrittenAsItself`).
* A scalar write that is refused leaves its header behind in three cases: a float out of range, a fraction
  in an integer field other than int32 and enum, and a bigint for a sint64 (`LeavesHeader`). Whatever is written repeated or
  packed may leave one.
* `readBool` looks at bits past the 64th, which the other readers of varints drop (`VarintReadersAgree`).
* The last varint of an embedded message, or the tag that ends its last group, may come from the bytes that follow
  it (`IndexStaysInside`), and the kernel then copies them with the field; `doReadGroup` takes the end tag to have its shortest form, and
  gives the child what is left of a longer one. That these decoders are no parts of their parent's is asserted in
  debug builds only (buffer_decoder.js:303, checks.js:79), and buffer_decoder_test.js:236 tests it there. The kernel's decoder trusts continuation bytes of UTF-8.
* Without `TextDecoder`, a sequence with no room left for all its bytes is replaced byte by byte (`BytesDecode`).
* `readPackableDoubleInto` and its like ignore a trailing part of a value.
* A message set's message in front of a type id of 0 makes `readMessageSetGroup` read the two for ever (reader.js:764,
  where 0 stands for "not yet read"), against its comment, "we'll simply reread the type id again, but skip doing anything
  because its already been read once" (reader.js:769-770). `ParseEnds` makes just this exception; TLC finds the endless parse without it.
* The array `getResultBuffer` returns remains the writer's block: a caller that changes it changes later results.

## Not modelled

Base64 and Closure's `Long`, hashes of 64-bit values, Blobs, formatting and debugging output, the generator's printing, the build.
Of message fields: the conversions of their getters. `getRepeatedFloatingPointField` and its like convert a list in place
and note that they did (message.js:670); `copyInto` leaves the note, so that a list copied there is not converted. Of message-valued
fields: required ones, whose getter makes a wrapper over no data that never reaches the
array (message.js:1167), and one list object given to two setters, each of which keeps it as its `wrappers_`
(message.js:1278). In the passing run an extension does not arrive for a list that is
already there (`ReadsIntoLists = FALSE`); run `wrappers_clone` shows what happens otherwise.
Of the experimental kernel: the order of fields and the pivot, `MessageSet`,
and the recursion into kernels of children. Of the reader: a caller that frees it twice,
`nextFieldIfTagEqualTo`, which generated code does not call, the `start` and `length` options.

## Plan

1. Done: `JspbMap`, `JspbFields`, `JspbWrappers`, `BinaryReader`, `BinaryWriter`, `Kernel`, `Codecs` and its modules,
   `ByteStrings`.
2. Done: the safety invariants of `JspbMap`, `JspbFields`, `JspbWrappers`, `ByteStrings`, the writer's but
   `ResultSaysWhatWasSaid`, the reader's `TypeOK` and `Confined`; the refinements of `MapStore`,
   `FieldStore` and `MessageTree`.
3. Done: `TypeOK` and `SerializesWhatItShows` of `Kernel`, and the refinement of `KernelView`.
4. Left to TLC: `ParseEnds`, the comparisons with the grammar, and `Codecs`, for the reasons given above.
