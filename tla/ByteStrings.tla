----------------------------- MODULE ByteStrings -----------------------------
(***************************************************************************)
(* Who shares which bytes (src/bytestring.js, src/unsafe_bytestring.js,    *)
(* src/binary/internal_buffer.js and their users in reader, decoder and    *)
(* writer).  A ByteString is immutable, a Uint8Array is not, and the       *)
(* library copies from one to the other only where it must.                *)
(*                                                                         *)
(* mem holds the ArrayBuffers; a Uint8Array is a view of one.  The caller  *)
(* may write to every array it holds, but for those it passed through an   *)
(* unsafe function, which ask it not to.  The empty ByteString, one        *)
(* constant object without bytes, is left out: an operation that would     *)
(* return it changes nothing.                                              *)
(***************************************************************************)
EXTENDS Integers, Sequences, SequencesExt

CONSTANTS Bufs, Strings, Readers, Decoders,   \* objects that may be made
          Bytes, Sources,                     \* values of bytes, contents of new data
          PoolLimit,                          \* of instanceCache_, 100 in the code
          MaxWritten,                         \* bound on the bytes in the writer
          Null

Views == [buf : Bufs, from : Nat, to : Nat]
Setups == [bytes : Views \union {Null}, immutable : BOOLEAN,
           byteString : Strings \union {Null}, aliasBytesFields : BOOLEAN]

ASSUME SourcesAssumption == Sources \subseteq Seq(Bytes)
ASSUME NullAssumption ==
    Null \notin Strings \union Decoders \union Seq(Bytes) \union Views \union Setups
ASSUME HandlesAssumption == Readers \intersect Decoders = {}

VARIABLES
    mem,          \* ArrayBuffers
    held,         \* arrays in the caller's hands, and how they came there
    frozen,       \* buffers the caller promised not to write to
    string,       \* value_ of ByteStrings, and the bytes they were made of
    decoder,      \* BinaryDecoder objects, pooled ones included
    reader,       \* decoder_ of BinaryReader objects
    given,        \* what live readers and decoders were set up with
    readerPool, decoderPool,
    blocks        \* the writer's

strings == <<mem, string>>
caller == <<held, frozen>>
machines == <<decoder, reader, given, readerPool, decoderPool>>
vars == <<strings, caller, machines, blocks>>

View(b, from, to) == [buf |-> b, from |-> from, to |-> to]
Whole(b, bytes) == View(b, 0, Len(bytes))
BytesIn(m, v) == SubSeq(m[v.buf], v.from + 1, v.to)

(* New objects; which they are does not matter. *)
Free == {b \in Bufs : mem[b] = Null}
Fresh == CHOOSE b \in Free : TRUE
AlsoFresh == CHOOSE b \in Free \ {Fresh} : TRUE
Unmade == {s \in Strings : string[s] = Null}
NextString == CHOOSE s \in Unmade : TRUE

Store(bytes) == Free # {} /\ mem' = [mem EXCEPT ![Fresh] = bytes]
Stored(bytes) == Whole(Fresh, bytes)

(* The values of a ByteString: base64 text or an array *)
Text(bytes) == [form |-> "text", bytes |-> bytes]
Array(v) == [form |-> "array", view |-> v]
Content(m, value) == IF value.form = "text" THEN value.bytes ELSE BytesIn(m, value.view)
New(value) == [value |-> value, meant |-> Content(mem', value)]

Holding(v, by) == held \union {[view |-> v, by |-> by]}

----------------------------------------------------------------------------
(* The caller's own arrays *)

NewArray(bytes) ==
    /\ Store(bytes)
    /\ held' = Holding(Stored(bytes), "caller")
    /\ UNCHANGED <<string, frozen, machines, blocks>>

WriteArray(h, i, x) ==
    /\ h.view.buf \notin frozen
    /\ i \in h.view.from + 1 .. h.view.to
    /\ mem' = [mem EXCEPT ![h.view.buf] = [@ EXCEPT ![i] = x]]
    /\ UNCHANGED <<string, caller, machines, blocks>>

----------------------------------------------------------------------------
(* ByteString *)

Make(value) ==
    /\ Unmade # {}
    /\ string' = [string EXCEPT ![NextString] = New(value)]

FromBase64(bytes) ==
    /\ bytes # <<>>
    /\ mem' = mem
    /\ Make(Text(bytes))
    /\ UNCHANGED <<caller, machines, blocks>>

FromUint8Array(h) ==
    LET bytes == BytesIn(mem, h.view)
    IN  /\ bytes # <<>>
        /\ Store(bytes)
        /\ Make(Array(Stored(bytes)))
        /\ UNCHANGED <<caller, machines, blocks>>

(* fromStringUtf8, and fromBlob when its bytes have come *)
FromStringUtf8(bytes) ==
    /\ bytes # <<>>
    /\ Store(bytes)
    /\ Make(Array(Stored(bytes)))
    /\ UNCHANGED <<caller, machines, blocks>>

UnsafeByteStringFromUint8Array(h) ==
    /\ BytesIn(mem, h.view) # <<>>
    /\ mem' = mem
    /\ Make(Array(h.view))
    /\ frozen' = frozen \union {h.view.buf}
    /\ UNCHANGED <<held, machines, blocks>>

AsBase64(s) ==
    /\ string[s] # Null
    /\ string' = [string EXCEPT ![s].value = Text(Content(mem, string[s].value))]
    /\ UNCHANGED <<mem, caller, machines, blocks>>

(* internalBytesUnsafe: base64 is decoded into a new buffer and the array    *)
(* kept in place of the text.                                               *)
IsText(s) == string[s].value.form = "text"

\* A slip: the decoded array keeps the place of the padding.
ViewDecodedPadded(s) ==
    IF IsText(s) THEN View(Fresh, 0, Len(string[s].value.bytes) + 1)
    ELSE string[s].value.view

ViewDecoded(s) ==
    IF IsText(s) THEN Stored(string[s].value.bytes) ELSE string[s].value.view
StringDecoded(s) == [string EXCEPT ![s].value = Array(ViewDecoded(s))]
InternalBytesUnsafe(s) ==
    /\ string[s] # Null
    /\ IF IsText(s) THEN Store(string[s].value.bytes) ELSE mem' = mem
    /\ string' = StringDecoded(s)

(* sizeBytes, unsignedByteAt, asStringUtf8 and asBlob read the bytes.        *)
ReadString(s) ==
    /\ InternalBytesUnsafe(s)
    /\ UNCHANGED <<caller, machines, blocks>>

AsUint8Array(s) ==
    LET bytes == Content(mem, string[s].value)
        copy  == IF IsText(s) THEN AlsoFresh ELSE Fresh
    IN  /\ string[s] # Null
        /\ Free # {} /\ (IsText(s) => Free # {Fresh})
        /\ mem' = IF IsText(s) THEN [mem EXCEPT ![Fresh] = bytes, ![copy] = bytes]
                  ELSE [mem EXCEPT ![copy] = bytes]
        /\ string' = StringDecoded(s)
        /\ held' = Holding(Whole(copy, bytes), "copy")
        /\ UNCHANGED <<frozen, machines, blocks>>

UnsafeUint8ArrayFromByteString(s) ==
    /\ InternalBytesUnsafe(s)
    /\ held' = Holding(ViewDecoded(s), "alias")
    /\ frozen' = frozen \union {ViewDecoded(s).buf}
    /\ UNCHANGED <<machines, blocks>>

(* of a ByteString that is text, the caller gets the text *)
UnsafeUnwrapByteString(s) ==
    /\ string[s] # Null /\ ~IsText(s)
    /\ held' = Holding(string[s].value.view, "alias")
    /\ frozen' = frozen \union {string[s].value.view.buf}
    /\ UNCHANGED <<strings, machines, blocks>>

----------------------------------------------------------------------------
(* BinaryReader and BinaryDecoder.  A handle is a reader, which hands on to  *)
(* its decoder, or a decoder the caller uses itself.                        *)

Handles == Readers \union Decoders
DecoderOf(x) == IF x \in Readers THEN reader[x] ELSE x
Live(x) == given[x] # Null
Setup(x) == decoder[DecoderOf(x)]

Blank == [bytes |-> Null, immutable |-> FALSE, byteString |-> Null,
          aliasBytesFields |-> FALSE]

(* What bufferFromSource makes of the data, by what the data are.  New data  *)
(* are immutable if treatNewDataAsImmutable is set, which init does just     *)
(* before and nothing else looks at.                                        *)
NoBuffer == [bytes |-> Null, immutable |-> FALSE, byteString |-> Null]
BufferOverArray(v) == [NoBuffer EXCEPT !.bytes = v]
BufferOverCopy(v, treat) == [NoBuffer EXCEPT !.bytes = v, !.immutable = treat]
BufferOverString(v, s) == [bytes |-> v, immutable |-> TRUE, byteString |-> s]

(* BinaryDecoder.init: setBlock only if there are data *)
Initialized(old, buffer, alias) ==
    [bytes |-> IF buffer = NoBuffer THEN old.bytes ELSE buffer.bytes,
     immutable |-> IF buffer = NoBuffer THEN old.immutable ELSE buffer.immutable,
     byteString |-> IF buffer = NoBuffer THEN old.byteString ELSE buffer.byteString,
     aliasBytesFields |-> alias]

(* BinaryDecoder.alloc, from its instanceCache_ or with a new object *)
TakeDecoder(d) ==
    \/ /\ decoderPool # <<>>
       /\ d = Last(decoderPool)
       /\ decoderPool' = Front(decoderPool)
    \/ /\ decoderPool = <<>>
       /\ \E e \in Decoders : decoder[e] = Null
       /\ d = CHOOSE e \in Decoders : decoder[e] = Null
       /\ UNCHANGED decoderPool

(* BinaryReader.alloc, and the constructor, which takes a decoder only *)
TakeReader(r, d) ==
    \/ /\ readerPool # <<>>
       /\ r = Last(readerPool) /\ d = reader[r]
       /\ readerPool' = Front(readerPool)
       /\ UNCHANGED <<reader, decoderPool>>
    \/ /\ \E n \in Readers : reader[n] = Null
       /\ r = CHOOSE n \in Readers : reader[n] = Null
       /\ TakeDecoder(d)
       /\ reader' = [reader EXCEPT ![r] = d]
       /\ UNCHANGED readerPool

Alloc(x, d, buffer, alias) ==
    /\ ~Live(x)
    /\ \/ x \in Readers /\ TakeReader(x, d)
       \/ x = d /\ TakeDecoder(d) /\ UNCHANGED <<reader, readerPool>>
    /\ LET old == IF decoder[d] = Null THEN Blank ELSE decoder[d]
       IN  decoder' = [decoder EXCEPT ![d] = Initialized(old, buffer, alias)]
    /\ given' = [given EXCEPT ![x] = Initialized(Blank, buffer, alias)]
    /\ UNCHANGED <<caller, blocks>>

AllocEmpty(x, d, alias) ==
    /\ Alloc(x, d, NoBuffer, alias)
    /\ UNCHANGED strings

AllocOverArray(x, d, alias, h) ==
    /\ Alloc(x, d, BufferOverArray(h.view), alias)
    /\ UNCHANGED strings

(* base64 text or an Array of numbers *)
AllocOverCopy(x, d, alias, treat, bytes) ==
    /\ Store(bytes)
    /\ Alloc(x, d, BufferOverCopy(Stored(bytes), treat), alias)
    /\ UNCHANGED string

AllocOverString(x, d, alias, s) ==
    /\ InternalBytesUnsafe(s)
    /\ Alloc(x, d, BufferOverString(ViewDecoded(s), s), alias)

Push(pool, x) == IF Len(pool) < PoolLimit THEN Append(pool, x) ELSE pool

\* A slip: a reader gives its decoder back as well.
ReleaseWithDecoder(x) ==
    IF x \in Readers
    THEN readerPool' = Push(readerPool, x) /\ decoderPool' = Push(decoderPool, reader[x])
    ELSE decoderPool' = Push(decoderPool, x) /\ UNCHANGED readerPool

(* A reader goes into its pool with its decoder. *)
Release(x) ==
    IF x \in Readers THEN readerPool' = Push(readerPool, x) /\ UNCHANGED decoderPool
    ELSE decoderPool' = Push(decoderPool, x) /\ UNCHANGED readerPool

FreeHandle(x) ==
    /\ Live(x)
    /\ decoder' = [decoder EXCEPT ![DecoderOf(x)] = Blank]
    /\ given' = [given EXCEPT ![x] = Null]
    /\ Release(x)
    /\ UNCHANGED <<strings, caller, reader, blocks>>

----------------------------------------------------------------------------
(* Reading: bytes from to to of the block *)

Block(x, from, to) ==
    /\ Live(x)
    /\ Setup(x).bytes # Null
    /\ from \in 0 .. Setup(x).bytes.to - Setup(x).bytes.from
    /\ to \in from .. Setup(x).bytes.to - Setup(x).bytes.from

Subarray(x, from, to) ==
    LET v == Setup(x).bytes IN View(v.buf, v.from + from, v.from + to)

\* A slip: a view is returned whenever the data are mutable.
MaySubarrayIfMutable(x) == ~Setup(x).immutable
MaySubarray(x) == Setup(x).aliasBytesFields /\ ~Setup(x).immutable

(* The caller knows the array for an alias if it asked for aliases.          *)
ReadBytes(x, from, to) ==
    LET sub   == Subarray(x, from, to)
        bytes == BytesIn(mem, sub)
        by    == IF given[x].aliasBytesFields THEN "alias" ELSE "copy"
    IN  /\ Block(x, from, to)
        /\ \/ /\ MaySubarray(x)
              /\ held' = Holding(sub, by)
              /\ mem' = mem
           \/ /\ ~MaySubarray(x)
              /\ Store(bytes)
              /\ held' = Holding(Stored(bytes), by)
        /\ UNCHANGED <<string, frozen, machines, blocks>>

\* A slip: the view is not held against what it is a view of.
MayAliasIfAsked(x) == Setup(x).aliasBytesFields
MayAlias(x) == Setup(x).aliasBytesFields /\ Setup(x).immutable

ReadByteString(x, from, to) ==
    LET sub   == Subarray(x, from, to)
        bytes == BytesIn(mem, sub)
    IN  /\ Block(x, from, to) /\ from < to
        /\ \/ /\ MayAlias(x)
              /\ mem' = mem
              /\ Make(Array(sub))
           \/ /\ ~MayAlias(x)
              /\ Store(bytes)
              /\ Make(Array(Stored(bytes)))
        /\ UNCHANGED <<caller, machines, blocks>>

GetBuffer(x) ==
    /\ Live(x) /\ Setup(x).bytes # Null
    /\ ~Setup(x).immutable
    /\ held' = Holding(Setup(x).bytes, "alias")
    /\ UNCHANGED <<strings, frozen, machines, blocks>>

(* The ByteString is made on the first call. *)
GetBufferAsByteString(x) ==
    /\ Live(x) /\ Setup(x).bytes # Null
    /\ Setup(x).immutable
    /\ Setup(x).byteString = Null
    /\ BytesIn(mem, Setup(x).bytes) # <<>>
    /\ mem' = mem
    /\ Make(Array(Setup(x).bytes))
    /\ decoder' = [decoder EXCEPT ![DecoderOf(x)].byteString = NextString]
    /\ UNCHANGED <<caller, reader, given, readerPool, decoderPool, blocks>>

----------------------------------------------------------------------------
(* BinaryWriter.  Headers and lengths are left out. *)

Length(v) == v.to - v.from
Flat == FlattenSeq([i \in DOMAIN blocks |-> BytesIn(mem, blocks[i])])

(* pushBlock; Len(Flat) is the totalLength_ *)
PushBlock(v) ==
    /\ Len(Flat) + Length(v) <= MaxWritten
    /\ blocks' = IF Length(v) = 0 THEN blocks ELSE Append(blocks, v)

(* writeBytes and writeSerializedMessage of an array *)
WriteBytes(h) ==
    /\ PushBlock(h.view)
    /\ UNCHANGED <<strings, caller, machines>>

(* writeBytes of text or numbers *)
WriteCopy(bytes) ==
    /\ Store(bytes)
    /\ PushBlock(Stored(bytes))
    /\ UNCHANGED <<string, caller, machines>>

(* writeUnknownFields, and writeBytes of a ByteString *)
WriteByteString(s) ==
    /\ InternalBytesUnsafe(s)
    /\ PushBlock(ViewDecoded(s))
    /\ UNCHANGED <<caller, machines>>

(* flat is a Uint8Array, whose elements are bytes. *)
GetResultBuffer ==
    /\ Flat \in Seq(Bytes)
    /\ Store(Flat)
    /\ blocks' = <<Stored(Flat)>>
    /\ held' = Holding(Stored(Flat), "copy")
    /\ UNCHANGED <<string, frozen, machines>>

GetResultBufferAsByteString ==
    /\ Flat \in Seq(Bytes) /\ Flat # <<>>
    /\ Store(Flat)
    /\ blocks' = <<Stored(Flat)>>
    /\ Make(Array(Stored(Flat)))
    /\ UNCHANGED <<caller, machines>>

Reset ==
    /\ blocks' = <<>>
    /\ UNCHANGED <<strings, caller, machines>>

----------------------------------------------------------------------------
Init ==
    /\ mem = [b \in Bufs |-> Null]
    /\ held = {} /\ frozen = {}
    /\ string = [s \in Strings |-> Null]
    /\ decoder = [d \in Decoders |-> Null]
    /\ reader = [r \in Readers |-> Null]
    /\ given = [x \in Handles |-> Null]
    /\ readerPool = <<>> /\ decoderPool = <<>>
    /\ blocks = <<>>

ArrayNext ==
    \/ \E bytes \in Sources : NewArray(bytes)
    \/ \E h \in held : \E i \in h.view.from + 1 .. h.view.to, x \in Bytes : WriteArray(h, i, x)

StringNext ==
    \/ \E bytes \in Sources : FromBase64(bytes) \/ FromStringUtf8(bytes)
    \/ \E h \in held : FromUint8Array(h) \/ UnsafeByteStringFromUint8Array(h)
    \/ \E s \in Strings :
          \/ AsBase64(s)
          \/ ReadString(s)
          \/ AsUint8Array(s)
          \/ UnsafeUint8ArrayFromByteString(s)
          \/ UnsafeUnwrapByteString(s)

AllocNext ==
    \E x \in Handles, d \in Decoders, alias \in BOOLEAN :
        \/ AllocEmpty(x, d, alias)
        \/ \E h \in held : AllocOverArray(x, d, alias, h)
        \/ \E treat \in BOOLEAN, bytes \in Sources : AllocOverCopy(x, d, alias, treat, bytes)
        \/ \E s \in Strings : AllocOverString(x, d, alias, s)

ReadNext ==
    \E x \in Handles :
        \/ FreeHandle(x)
        \/ GetBuffer(x)
        \/ GetBufferAsByteString(x)
        \/ Live(x) /\ Setup(x).bytes # Null
              /\ \E from, to \in 0 .. Setup(x).bytes.to :
                    ReadBytes(x, from, to) \/ ReadByteString(x, from, to)

WriterNext ==
    \/ Reset
    \/ GetResultBuffer
    \/ GetResultBufferAsByteString
    \/ \E h \in held : WriteBytes(h)
    \/ \E bytes \in Sources : WriteCopy(bytes)
    \/ \E s \in Strings : WriteByteString(s)

Next == ArrayNext \/ StringNext \/ AllocNext \/ ReadNext \/ WriterNext
Spec == Init /\ [][Next]_vars

----------------------------------------------------------------------------
(* No view reaches beyond the bytes it is a view of, whatever chain of       *)
(* arrays, readers, ByteStrings and blocks it came by (subarray, decoder.js). *)
Memories == [Bufs -> Seq(Bytes) \union {Null}]
Texts == [form : {"text"}, bytes : Seq(Bytes)]
Arrays == [form : {"array"}, view : Views]
Made == [value : Texts \union Arrays, meant : Seq(Bytes)]
ViewOK(m, v) == m[v.buf] # Null /\ v.from <= v.to /\ v.to <= Len(m[v.buf])

HeldOK ==
    /\ held \subseteq [view : Views, by : {"caller", "copy", "alias"}]
    /\ \A h \in held : ViewOK(mem, h.view)
StringsOK ==
    /\ string \in [Strings -> Made \union {Null}]
    /\ \A s \in Strings : string[s] # Null /\ ~IsText(s) => ViewOK(mem, string[s].value.view)
DecodersOK ==
    /\ decoder \in [Decoders -> Setups \union {Null}]
    /\ \A d \in Decoders : decoder[d] # Null /\ decoder[d].bytes # Null =>
          ViewOK(mem, decoder[d].bytes)
HandlesOK ==
    /\ reader \in [Readers -> Decoders \union {Null}]
    /\ given \in [Handles -> Setups \union {Null}]
    /\ readerPool \in Seq(Readers) /\ decoderPool \in Seq(Decoders)
BlocksOK == blocks \in Seq(Views) /\ \A i \in DOMAIN blocks : ViewOK(mem, blocks[i])

TypeOK ==
    /\ mem \in Memories /\ frozen \subseteq Bufs
    /\ HeldOK /\ StringsOK /\ DecodersOK /\ HandlesOK /\ BlocksOK

(* A ByteString has the bytes it was made of, whatever the caller writes to *)
(* the arrays it holds, also those the ByteString was made from, read from  *)
(* or copied to (value_ in src/bytestring.js).                              *)
ByteStringsNeverChange ==
    \A s \in Strings : string[s] # Null => Content(mem, string[s].value) = string[s].meant

(* An array the caller did not ask to be an alias is its own: no other such *)
(* array has the same bytes, and no ByteString or immutable reader has them *)
(* unless the caller promised not to write to them.                         *)
Shares(h, v) == v # Null /\ v.buf = h.view.buf
ArraysAreTheCallersOwn ==
    \A h \in held :
        /\ \A other \in held :
              h.by # "alias" /\ other.by # "alias" /\ Shares(h, other.view) => other = h
        /\ h.view.buf \notin frozen =>
              /\ \A s \in Strings :
                    string[s] # Null /\ ~IsText(s) => ~Shares(h, string[s].value.view)
              /\ \A x \in Handles :
                    Live(x) /\ Setup(x).immutable => ~Shares(h, Setup(x).bytes)

(* As long as callers free what they allocated once, live readers and       *)
(* decoders are apart: none has the decoder of another, live or pooled, and *)
(* each reads the data it was given, with the options it was given.         *)
WithoutCache(setup) == [setup EXCEPT !.byteString = Null]
ReadersAreApart ==
    /\ \A x \in Handles : Live(x) =>
          /\ WithoutCache(Setup(x)) = WithoutCache(given[x])
          /\ \A y \in Handles : Live(y) /\ y # x => DecoderOf(y) # DecoderOf(x)
          /\ \A i \in DOMAIN decoderPool : decoderPool[i] # DecoderOf(x)
          /\ \A i \in DOMAIN readerPool : reader[readerPool[i]] # DecoderOf(x)
=============================================================================
