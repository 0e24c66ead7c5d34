-------------------------- MODULE ByteStringsProofs --------------------------
(***************************************************************************)
(* ByteStrings keep their bytes, arrays are shared only where the caller   *)
(* asked for it, and pooled readers stay apart, for any number of objects  *)
(* and any bytes.                                                          *)
(***************************************************************************)
EXTENDS ByteStrings, SequenceTheorems, TLAPS

USE DEF Memories, Made

\* What a new buffer does: the bytes stored are in it, and no view that was
\* good before looks at it or changes.
LEMMA StoreIsFresh ==
  ASSUME mem \in Memories,
         NEW bytes \in Seq(Bytes), Store(bytes)
  PROVE  /\ Fresh \in Bufs /\ mem[Fresh] = Null
         /\ mem' \in Memories
         /\ mem'[Fresh] = bytes
         /\ \A b \in Bufs : b # Fresh => mem'[b] = mem[b]
         /\ Stored(bytes) \in Views
         /\ Stored(bytes).buf = Fresh
         /\ ViewOK(mem', Stored(bytes))
         /\ BytesIn(mem', Stored(bytes)) = bytes
<1>1. Fresh \in Free
  BY DEF Store, Fresh
<1>2. Fresh \in Bufs /\ mem[Fresh] = Null
  BY <1>1 DEF Free
<1>3. /\ mem' \in Memories
      /\ mem'[Fresh] = bytes
      /\ \A b \in Bufs : b # Fresh => mem'[b] = mem[b]
  BY <1>2 DEF Store
<1>4. Len(bytes) \in Nat
  OBVIOUS
<1>5. Stored(bytes) \in Views /\ Stored(bytes).buf = Fresh
  BY <1>2, <1>4 DEF Stored, Whole, View, Views
<1>6. bytes # Null
  BY NullAssumption
<1>7. ViewOK(mem', Stored(bytes))
  BY <1>3, <1>4, <1>6 DEF ViewOK, Stored, Whole, View
<1>8. BytesIn(mem', Stored(bytes)) = bytes
  BY <1>3, <1>4, SubSeqFull DEF BytesIn, Stored, Whole, View
<1>9. QED
  BY <1>2, <1>3, <1>5, <1>7, <1>8

\* A good view shows bytes.
LEMMA BytesInAreBytes ==
  ASSUME mem \in Memories, NEW v \in Views, ViewOK(mem, v)
  PROVE  /\ BytesIn(mem, v) \in Seq(Bytes)
         /\ Len(BytesIn(mem, v)) = v.to - v.from
<1>1. mem[v.buf] \in Seq(Bytes)
  BY DEF Views, ViewOK
<1>2. /\ v.from + 1 \in Int /\ v.to \in Int /\ v.from \in Nat
      /\ v.from <= v.to /\ v.to <= Len(mem[v.buf])
  BY DEF Views, ViewOK
<1>3. \A i \in v.from + 1 .. v.to : mem[v.buf][i] \in Bytes
  BY <1>1, <1>2
<1>4. /\ SubSeq(mem[v.buf], v.from + 1, v.to) \in Seq(Bytes)
      /\ Len(SubSeq(mem[v.buf], v.from + 1, v.to)) =
           IF v.from + 1 <= v.to THEN v.to - (v.from + 1) + 1 ELSE 0
  BY <1>2, <1>3, SubSeqProperties
<1>5. QED
  BY <1>2, <1>4 DEF BytesIn

\* Of a ByteString's value, too.
LEMMA ContentIsBytes ==
  ASSUME TypeOK, NEW s \in Strings, string[s] # Null
  PROVE  Content(mem, string[s].value) \in Seq(Bytes)
<1>1. string[s].value \in Texts \union Arrays
  BY DEF TypeOK, StringsOK
<1>2. CASE string[s].value.form = "text"
  BY <1>1, <1>2 DEF Texts, Arrays, Content
<1>3. CASE string[s].value.form # "text"
  <2>1. string[s].value.view \in Views /\ ViewOK(mem, string[s].value.view)
    BY <1>1, <1>3 DEF TypeOK, StringsOK, Texts, Arrays, IsText
  <2>2. QED
    BY <1>3, <2>1, BytesInAreBytes DEF TypeOK, Content
<1>4. QED
  BY <1>2, <1>3

\* Buffers stay, so views stay good; what becomes of the bytes is another matter.
LEMMA GoodViewsStay ==
  ASSUME mem \in Memories, NEW v \in Views, ViewOK(mem, v),
         \/ mem' = mem
         \/ \E bytes \in Seq(Bytes) : Store(bytes)
  PROVE  /\ ViewOK(mem', v)
         /\ mem'[v.buf] = mem[v.buf]
         /\ BytesIn(mem', v) = BytesIn(mem, v)
<1>1. CASE mem' = mem
  BY <1>1 DEF ViewOK, BytesIn
<1>2. CASE \E bytes \in Seq(Bytes) : Store(bytes)
  <2>1. PICK bytes \in Seq(Bytes) : Store(bytes)
    BY <1>2
  <2>2. v.buf \in Bufs /\ v.buf # Fresh
    BY <2>1, StoreIsFresh DEF Views, ViewOK
  <2>3. mem'[v.buf] = mem[v.buf]
    BY <2>1, <2>2, StoreIsFresh
  <2>4. QED
    BY <2>3 DEF ViewOK, BytesIn
<1>3. QED
  BY <1>1, <1>2

\* A ByteString that is asked for its bytes keeps them; the buffer it then has
\* is its own, or it had it already.
LEMMA DecodedString ==
  ASSUME TypeOK, NEW s \in Strings, InternalBytesUnsafe(s)
  PROVE  /\ string[s] # Null
         /\ string[s].value.form = "text" => string[s].value.bytes \in Seq(Bytes)
         /\ mem' = mem \/ \E bytes \in Seq(Bytes) : Store(bytes)
         /\ mem' \in Memories
         /\ ViewDecoded(s) \in Views
         /\ ViewOK(mem', ViewDecoded(s))
         /\ BytesIn(mem', ViewDecoded(s)) = Content(mem, string[s].value)
         /\ string' \in [Strings -> Made \union {Null}]
         /\ \A t \in Strings : t # s => string'[t] = string[t]
         /\ string'[s].value = Array(ViewDecoded(s)) /\ string'[s].meant = string[s].meant
<1>1. /\ string[s] \in Made
      /\ mem \in Memories
      /\ string[s] # Null
  BY DEF TypeOK, StringsOK, InternalBytesUnsafe
<1>2. CASE string[s].value.form = "text"
  <2>1. /\ string[s].value.bytes \in Seq(Bytes)
        /\ Store(string[s].value.bytes)
        /\ ViewDecoded(s) = Stored(string[s].value.bytes)
    BY <1>1, <1>2 DEF Texts, Arrays, InternalBytesUnsafe, IsText, ViewDecoded
  <2>2. /\ mem' \in Memories
        /\ ViewDecoded(s) \in Views /\ ViewOK(mem', ViewDecoded(s))
        /\ BytesIn(mem', ViewDecoded(s)) = string[s].value.bytes
    BY <1>1, <2>1, StoreIsFresh
  <2>3. Array(ViewDecoded(s)) \in Arrays
    BY <2>2 DEF Array, Arrays
  <2>4. QED
    BY <1>1, <1>2, <2>1, <2>2, <2>3 DEF Content, TypeOK, StringsOK, InternalBytesUnsafe, StringDecoded
<1>3. CASE string[s].value.form # "text"
  <2>1. /\ string[s].value \in Arrays /\ mem' = mem
        /\ ViewDecoded(s) = string[s].value.view
    BY <1>1, <1>3 DEF Texts, Arrays, InternalBytesUnsafe, IsText, ViewDecoded
  <2>2. ViewDecoded(s) \in Views /\ ViewOK(mem, ViewDecoded(s))
    BY <1>1, <1>3, <2>1 DEF TypeOK, StringsOK, Arrays, IsText
  <2>3. ViewOK(mem', ViewDecoded(s))
    BY <2>1, <2>2, GoodViewsStay, <1>1
  <2>4. BytesIn(mem', ViewDecoded(s)) = Content(mem, string[s].value)
    BY <1>3, <2>1 DEF Content
  <2>5. Array(ViewDecoded(s)) \in Arrays
    BY <2>2 DEF Array, Arrays
  <2>6. QED
    BY <1>1, <1>3, <2>1, <2>2, <2>3, <2>4, <2>5 DEF TypeOK, StringsOK, InternalBytesUnsafe, StringDecoded
<1>4. QED
  BY <1>2, <1>3

-----------------------------------------------------------------------------
(* Type correctness.  Every action keeps the views that were good.          *)
ViewsStay == \A v \in Views : ViewOK(mem, v) => ViewOK(mem', v)

\* Steps that only store bytes keep every view good.
LEMMA StoringKeepsViews ==
  ASSUME mem \in Memories, mem' = mem \/ \E bytes \in Seq(Bytes) : Store(bytes)
  PROVE  ViewsStay
BY GoodViewsStay DEF ViewsStay

\* What an action leaves alone stays well-formed.
LEMMA UntouchedStaysOK ==
  ASSUME TypeOK, ViewsStay
  PROVE  /\ held' = held => HeldOK'
         /\ string' = string => StringsOK'
         /\ decoder' = decoder => DecodersOK'
         /\ UNCHANGED <<reader, given, readerPool, decoderPool>> => HandlesOK'
         /\ blocks' = blocks => BlocksOK'
<1>1. held' = held => HeldOK'
  BY DEF TypeOK, HeldOK, ViewsStay
<1>2. string' = string => StringsOK'
  <2>1. SUFFICES ASSUME string' = string, NEW s \in Strings, string[s] # Null, ~IsText(s)
                 PROVE  ViewOK(mem', string[s].value.view)
    BY DEF TypeOK, StringsOK, IsText
  <2>2. string[s].value.view \in Views /\ ViewOK(mem, string[s].value.view)
    BY <2>1 DEF TypeOK, StringsOK, Texts, Arrays, IsText
  <2>3. QED
    BY <2>2 DEF ViewsStay
<1>3. decoder' = decoder => DecodersOK'
  BY DEF TypeOK, DecodersOK, ViewsStay, Setups
<1>4. UNCHANGED <<reader, given, readerPool, decoderPool>> => HandlesOK'
  BY DEF TypeOK, HandlesOK, Handles
<1>5. blocks' = blocks => BlocksOK'
  <2>1. \A i \in DOMAIN blocks : blocks[i] \in Views /\ ViewOK(mem, blocks[i])
    BY DEF TypeOK, BlocksOK
  <2>2. QED
    BY <2>1 DEF TypeOK, BlocksOK, ViewsStay
<1>6. QED
  BY <1>1, <1>2, <1>3, <1>4, <1>5

\* An array handed to the caller is as good as its view.
LEMMA HoldingOK ==
  ASSUME TypeOK, ViewsStay, NEW v \in Views, ViewOK(mem', v),
         NEW by \in {"caller", "copy", "alias"}, held' = Holding(v, by)
  PROVE  HeldOK'
BY DEF TypeOK, HeldOK, ViewsStay, Holding

\* A new ByteString, and what it is.
LEMMA MakeOK ==
  ASSUME TypeOK, ViewsStay, NEW value \in Texts \union Arrays, Make(value),
         Content(mem', value) \in Seq(Bytes),
         value.form = "array" => ViewOK(mem', value.view)
  PROVE  /\ StringsOK'
         /\ NextString \in Strings /\ string[NextString] = Null
         /\ string'[NextString] = New(value)
         /\ \A t \in Strings : t # NextString => string'[t] = string[t]
<1>1. NextString \in Strings /\ string[NextString] = Null
  BY DEF Make, NextString, Unmade
<1>2. New(value) \in Made
  BY DEF New
<1>3. /\ string' \in [Strings -> Made \union {Null}]
      /\ string'[NextString] = New(value)
      /\ \A t \in Strings : t # NextString => string'[t] = string[t]
  BY <1>1, <1>2 DEF Make, TypeOK, StringsOK
<1>4. ASSUME NEW s \in Strings, string'[s] # Null, ~IsText(s)'
      PROVE  ViewOK(mem', string'[s].value.view)
  <2>1. CASE s = NextString
    BY <1>3, <1>4, <2>1 DEF New, IsText, Texts, Arrays
  <2>2. CASE s # NextString
    <3>1. string'[s] = string[s]
      BY <1>3, <2>2
    <3>2. string[s].value.view \in Views /\ ViewOK(mem, string[s].value.view)
      BY <1>4, <3>1 DEF TypeOK, StringsOK, Texts, Arrays, IsText
    <3>3. QED
      BY <3>1, <3>2 DEF ViewsStay
  <2>3. QED
    BY <2>1, <2>2
<1>5. QED
  BY <1>1, <1>3, <1>4 DEF StringsOK

\* A ByteString that is asked for its bytes stays well-formed, and so do the others.
LEMMA DecodedStringOK ==
  ASSUME TypeOK, NEW s \in Strings, InternalBytesUnsafe(s)
  PROVE  StringsOK' /\ ViewsStay
<1>1. ViewsStay
  BY DecodedString, StoringKeepsViews DEF TypeOK
<1>2. ASSUME NEW t \in Strings, string'[t] # Null, ~IsText(t)'
      PROVE  ViewOK(mem', string'[t].value.view)
  <2>1. CASE t = s
    <3>1. /\ string'[s].value = Array(ViewDecoded(s))
          /\ ViewOK(mem', ViewDecoded(s))
      BY DecodedString
    <3>2. QED
      BY <2>1, <3>1 DEF Array
  <2>2. CASE t # s
    <3>1. string'[t] = string[t]
      BY <2>2, DecodedString
    <3>2. string[t].value.view \in Views /\ ViewOK(mem, string[t].value.view)
      BY <1>2, <3>1 DEF TypeOK, StringsOK, Texts, Arrays, IsText
    <3>3. QED
      BY <1>1, <3>1, <3>2 DEF ViewsStay
  <2>3. QED
    BY <2>1, <2>2
<1>3. QED
  BY <1>1, <1>2, DecodedString DEF StringsOK

\* So do the writer's blocks with one more, or with none for an empty array.
LEMMA PushBlockOK ==
  ASSUME TypeOK, ViewsStay, NEW v \in Views, ViewOK(mem', v), PushBlock(v)
  PROVE  BlocksOK'
<1>1. \A i \in DOMAIN blocks : blocks[i] \in Views /\ ViewOK(mem', blocks[i])
  BY DEF TypeOK, BlocksOK, ViewsStay
<1>2. CASE Length(v) = 0
  BY <1>1, <1>2 DEF PushBlock, TypeOK, BlocksOK
<1>3. CASE Length(v) # 0
  <2>1. blocks' = Append(blocks, v) /\ blocks \in Seq(Views)
    BY <1>3 DEF PushBlock, TypeOK, BlocksOK
  <2>2. QED
    BY <1>1, <2>1 DEF BlocksOK
<1>4. QED
  BY <1>2, <1>3

\* What a pool is after its last element is taken, or one more is put in.
LEMMA PoolOps ==
  ASSUME NEW S, NEW pool \in Seq(S)
  PROVE  /\ pool # <<>> =>
              /\ Front(pool) \in Seq(S) /\ Len(Front(pool)) = Len(pool) - 1
              /\ \A i \in 1 .. Len(pool) - 1 : Front(pool)[i] = pool[i]
              /\ Last(pool) = pool[Len(pool)] /\ Len(pool) \in 1 .. Len(pool)
         /\ \A x \in S :
              /\ Push(pool, x) \in Seq(S)
              /\ \A i \in DOMAIN Push(pool, x) :
                   \/ i \in DOMAIN pool /\ Push(pool, x)[i] = pool[i]
                   \/ i = Len(pool) + 1 /\ Push(pool, x)[i] = x
<1>1. ASSUME pool # <<>>
      PROVE  /\ Front(pool) \in Seq(S) /\ Len(Front(pool)) = Len(pool) - 1
             /\ \A i \in 1 .. Len(pool) - 1 : Front(pool)[i] = pool[i]
             /\ Last(pool) = pool[Len(pool)] /\ Len(pool) \in 1 .. Len(pool)
  <2>1. Len(pool) \in Int /\ Len(pool) >= 1
    <3>1. Len(pool) \in Nat \ {0}
      BY <1>1, EmptySeq
    <3> DEFINE n == Len(pool)
    <3> HIDE DEF n
    <3>2. n \in Nat \ {0} => n \in Int /\ n >= 1
      OBVIOUS
    <3>3. QED
      BY <3>1, <3>2 DEF n
  <2>2. \A i \in 1 .. Len(pool) - 1 : pool[i] \in S
    BY <2>1
  <2>3. Front(pool) = SubSeq(pool, 1, Len(pool) - 1) /\ Last(pool) = pool[Len(pool)]
    BY <1>1 DEF Front, Last
  <2>4. /\ SubSeq(pool, 1, Len(pool) - 1) \in Seq(S)
        /\ Len(SubSeq(pool, 1, Len(pool) - 1)) =
             IF 1 <= Len(pool) - 1 THEN Len(pool) - 1 - 1 + 1 ELSE 0
        /\ \A i \in 1 .. Len(pool) - 1 - 1 + 1 :
              SubSeq(pool, 1, Len(pool) - 1)[i] = pool[1 + i - 1]
    BY <2>1, <2>2, SubSeqProperties
  <2>5. /\ Front(pool) \in Seq(S) /\ Len(Front(pool)) = Len(pool) - 1
        /\ Last(pool) = pool[Len(pool)] /\ Len(pool) \in 1 .. Len(pool)
    <3> DEFINE front == SubSeq(pool, 1, Len(pool) - 1)
    <3>1. front \in Seq(S) /\ Len(front) = IF 1 <= Len(pool) - 1 THEN Len(pool) - 1 - 1 + 1 ELSE 0
      BY <2>4
    <3>2. Front(pool) = front
      BY <2>3
    <3> HIDE DEF front
    <3>3. Len(front) = Len(pool) - 1
      <4> DEFINE n == Len(pool)
                 m == Len(front)
      <4>1. n \in Int /\ n >= 1 /\ m = IF 1 <= n - 1 THEN n - 1 - 1 + 1 ELSE 0
        BY <2>1, <3>1
      <4> HIDE DEF n, m
      <4>2. m = n - 1
        BY <4>1
      <4>3. QED
        BY <4>2 DEF n, m
    <3>4. QED
      BY <2>1, <2>3, <3>1, <3>2, <3>3
  <2>6. ASSUME NEW i \in 1 .. Len(pool) - 1 PROVE Front(pool)[i] = pool[i]
    <3>1. i \in 1 .. Len(pool) - 1 - 1 + 1 /\ 1 + i - 1 = i
      BY <2>1
    <3>2. SubSeq(pool, 1, Len(pool) - 1)[i] = pool[1 + i - 1]
      BY <2>4, <3>1
    <3>3. QED
      BY <2>3, <3>1, <3>2
  <2>7. QED
    BY <2>5, <2>6
<1>2. ASSUME NEW x \in S
      PROVE  /\ Push(pool, x) \in Seq(S)
             /\ \A i \in DOMAIN Push(pool, x) :
                   \/ i \in DOMAIN pool /\ Push(pool, x)[i] = pool[i]
                   \/ i = Len(pool) + 1 /\ Push(pool, x)[i] = x
  <2>1. CASE Push(pool, x) = pool
    BY <2>1
  <2>2. CASE Push(pool, x) = Append(pool, x)
    BY <2>2, AppendProperties
  <2>3. QED
    BY <2>1, <2>2 DEF Push
<1>3. QED
  BY <1>1, <1>2

Buffers == [bytes : Views \union {Null}, immutable : BOOLEAN, byteString : Strings \union {Null}]

\* What bufferFromSource makes of each kind of data.
LEMMA BuffersType ==
  /\ NoBuffer \in Buffers /\ NoBuffer.bytes = Null
  /\ \A v \in Views :
       /\ BufferOverArray(v) \in Buffers /\ BufferOverArray(v).bytes = v
       /\ BufferOverArray(v).immutable = FALSE /\ BufferOverArray(v) # NoBuffer
       /\ \A treat \in BOOLEAN :
            /\ BufferOverCopy(v, treat) \in Buffers /\ BufferOverCopy(v, treat).bytes = v
            /\ BufferOverCopy(v, treat).immutable = treat /\ BufferOverCopy(v, treat) # NoBuffer
       /\ \A s \in Strings :
            /\ BufferOverString(v, s) \in Buffers /\ BufferOverString(v, s).bytes = v
            /\ BufferOverString(v, s).immutable = TRUE /\ BufferOverString(v, s) # NoBuffer
BY NullAssumption DEF NoBuffer, Buffers, BufferOverArray, BufferOverCopy, BufferOverString

\* What init leaves in a decoder: the new data, or the old if there are none.
LEMMA InitializedType ==
  ASSUME NEW old \in Setups, NEW buffer \in Buffers, NEW alias \in BOOLEAN
  PROVE  /\ Initialized(old, buffer, alias) \in Setups
         /\ Initialized(old, buffer, alias).aliasBytesFields = alias
         /\ buffer = NoBuffer =>
              /\ Initialized(old, buffer, alias).bytes = old.bytes
              /\ Initialized(old, buffer, alias).immutable = old.immutable
         /\ buffer # NoBuffer =>
              /\ Initialized(old, buffer, alias).bytes = buffer.bytes
              /\ Initialized(old, buffer, alias).immutable = buffer.immutable
BY DEF Initialized, Setups, Buffers

\* A cleared decoder has no data.
LEMMA BlankType == Blank \in Setups /\ Blank.bytes = Null
BY DEF Blank, Setups

\* Allocation of a handle x with the decoder d.
LEMMA AllocOK ==
  ASSUME TypeOK, ViewsStay, NEW x \in Handles, NEW d \in Decoders, NEW alias \in BOOLEAN,
         NEW buffer \in Buffers, Alloc(x, d, buffer, alias),
         buffer.bytes # Null => ViewOK(mem', buffer.bytes)
  PROVE  DecodersOK' /\ HandlesOK'
<1> DEFINE old == IF decoder[d] = Null THEN Blank ELSE decoder[d]
           made == Initialized(old, buffer, alias)
<1>1. old \in Setups
  BY BlankType DEF TypeOK, DecodersOK
<1>2. made \in Setups
  BY <1>1, InitializedType
<1>3. made.bytes = old.bytes \/ made.bytes = buffer.bytes
  BY <1>1, InitializedType
<1>4. decoder' = [decoder EXCEPT ![d] = made]
  BY DEF Alloc
<1>5. made.bytes # Null => ViewOK(mem', made.bytes)
  <2>1. CASE made.bytes = buffer.bytes
    BY <2>1
  <2>2. CASE made.bytes = old.bytes
    <3>1. old.bytes # Null => old.bytes \in Views /\ ViewOK(mem, old.bytes)
      BY <1>1, BlankType DEF TypeOK, DecodersOK, Setups
    <3>2. QED
      BY <2>2, <3>1 DEF ViewsStay
  <2>3. QED
    BY <1>3, <2>1, <2>2
<1>6. DecodersOK'
  <2>1. \A e \in Decoders : decoder[e] # Null /\ decoder[e].bytes # Null =>
          ViewOK(mem', decoder[e].bytes)
    BY DEF TypeOK, DecodersOK, ViewsStay, Setups
  <2>2. QED
    BY <1>2, <1>4, <1>5, <2>1 DEF TypeOK, DecodersOK
<1>7. given' \in [Handles -> Setups \union {Null}]
  <2>1. Initialized(Blank, buffer, alias) \in Setups
    BY BlankType, InitializedType
  <2>2. QED
    BY <2>1 DEF Alloc, TypeOK, HandlesOK
<1>8. /\ reader' \in [Readers -> Decoders \union {Null}]
      /\ readerPool' \in Seq(Readers) /\ decoderPool' \in Seq(Decoders)
  BY PoolOps DEF Alloc, TakeReader, TakeDecoder, TypeOK, HandlesOK
<1>9. QED
  BY <1>6, <1>7, <1>8 DEF HandlesOK

\* A handle given back leaves decoders and pools well-formed.
LEMMA FreeHandleOK ==
  ASSUME TypeOK, NEW x \in Handles, FreeHandle(x), mem' = mem
  PROVE  DecodersOK' /\ HandlesOK'
<1>1. ViewsStay
  BY StoringKeepsViews DEF TypeOK
<1>2. \A d \in Decoders : decoder'[d] = decoder[d] \/ decoder'[d] = Blank
  BY DEF FreeHandle, TypeOK, DecodersOK
<1>3. decoder' \in [Decoders -> Setups \union {Null}]
  BY BlankType DEF FreeHandle, TypeOK, DecodersOK
<1>4. \A d \in Decoders : decoder[d] # Null /\ decoder[d].bytes # Null =>
         ViewOK(mem', decoder[d].bytes)
  BY <1>1 DEF TypeOK, DecodersOK, ViewsStay, Setups
<1>5. DecodersOK'
  BY <1>2, <1>3, <1>4, BlankType DEF DecodersOK
<1>6. given' \in [Handles -> Setups \union {Null}] /\ reader' = reader
  BY DEF FreeHandle, TypeOK, HandlesOK
<1>7. readerPool' \in Seq(Readers) /\ decoderPool' \in Seq(Decoders)
  <2> readerPool \in Seq(Readers) /\ decoderPool \in Seq(Decoders)
    BY DEF TypeOK, HandlesOK
  <2>1. \A r \in Readers : Push(readerPool, r) \in Seq(Readers)
    BY PoolOps
  <2>2. \A d \in Decoders : Push(decoderPool, d) \in Seq(Decoders)
    BY PoolOps
  <2>3. Release(x) /\ (x \in Readers \/ x \in Decoders)
    BY DEF FreeHandle, Handles
  <2>4. QED
    BY <2>1, <2>2, <2>3 DEF Release
<1>8. QED
  BY <1>5, <1>6, <1>7 DEF HandlesOK, TypeOK, Handles

\* A part of the block of a live handle, and its bytes.
LEMMA SubarrayOK ==
  ASSUME TypeOK, NEW x \in Handles, DecoderOf(x) \in Decoders, Setup(x) # Null,
         NEW from, NEW to, Block(x, from, to)
  PROVE  /\ Setup(x) \in Setups /\ Setup(x).bytes \in Views /\ ViewOK(mem, Setup(x).bytes)
         /\ Subarray(x, from, to) \in Views
         /\ Subarray(x, from, to).buf = Setup(x).bytes.buf
         /\ ViewOK(mem, Subarray(x, from, to))
         /\ BytesIn(mem, Subarray(x, from, to)) \in Seq(Bytes)
<1> DEFINE v == Setup(x).bytes
<1>1. Setup(x) \in Setups /\ v \in Views /\ ViewOK(mem, v)
  BY DEF TypeOK, DecodersOK, Setup, Setups, Block
<1>2. /\ v.from \in Nat /\ v.to \in Nat /\ v.from <= v.to /\ v.buf \in Bufs
      /\ from \in 0 .. v.to - v.from /\ to \in from .. v.to - v.from
  BY <1>1 DEF Block, Views, ViewOK
<1>3. Subarray(x, from, to) = View(v.buf, v.from + from, v.from + to)
  BY DEF Subarray
<1>4. Subarray(x, from, to) \in Views /\ Subarray(x, from, to).buf = v.buf
  BY <1>2, <1>3 DEF View, Views
<1>5. v.from + from <= v.from + to /\ v.from + to <= v.to
  BY <1>2
<1>6. mem[v.buf] # Null /\ v.to <= Len(mem[v.buf]) /\ mem[v.buf] \in Seq(Bytes)
  BY <1>1, <1>2 DEF ViewOK, TypeOK
<1>7. ViewOK(mem, Subarray(x, from, to))
  <2>1. v.from + from \in Int /\ v.to \in Int /\ v.from + to \in Int
    BY <1>2
  <2>2. Len(mem[v.buf]) \in Int
    BY <1>6
  <2>3. v.from + to <= Len(mem[v.buf])
    BY <1>5, <1>6, <2>1, <2>2
  <2>4. /\ Subarray(x, from, to).from = v.from + from
        /\ Subarray(x, from, to).to = v.from + to
    BY <1>3 DEF View
  <2>5. QED
    BY <1>4, <1>5, <1>6, <2>3, <2>4 DEF ViewOK
<1>8. QED
  BY <1>1, <1>4, <1>7, BytesInAreBytes DEF TypeOK

-----------------------------------------------------------------------------
(* The invariant behind the pools: what readers own, what live handles may   *)
(* rely on and what waits in the pools.                                     *)
ReadersOwn ==
  \A r \in Readers : reader[r] # Null =>
     /\ decoder[reader[r]] # Null /\ ~Live(reader[r])
     /\ \A q \in Readers : reader[q] = reader[r] => q = r
     /\ ~Live(r) => decoder[reader[r]] = Blank
LiveHandles ==
  \A x \in Handles : Live(x) =>
     /\ DecoderOf(x) # Null /\ decoder[DecoderOf(x)] # Null
     /\ WithoutCache(Setup(x)) = WithoutCache(given[x])
ReaderPoolOK ==
  \A i \in DOMAIN readerPool :
     /\ ~Live(readerPool[i]) /\ reader[readerPool[i]] # Null
     /\ \A j \in DOMAIN readerPool : readerPool[j] = readerPool[i] => j = i
DecoderPoolOK ==
  \A i \in DOMAIN decoderPool :
     /\ ~Live(decoderPool[i]) /\ decoder[decoderPool[i]] = Blank
     /\ \A r \in Readers : reader[r] # decoderPool[i]
     /\ \A j \in DOMAIN decoderPool : decoderPool[j] = decoderPool[i] => j = i
PoolInv == ReadersOwn /\ LiveHandles /\ ReaderPoolOK /\ DecoderPoolOK

\* A live handle has a decoder.
LEMMA LiveHasDecoder ==
  ASSUME TypeOK, PoolInv, NEW x \in Handles, Live(x)
  PROVE  /\ DecoderOf(x) \in Decoders /\ Setup(x) # Null /\ Setup(x) \in Setups
         /\ Setup(x).bytes # Null =>
              Setup(x).bytes \in Views /\ ViewOK(mem, Setup(x).bytes)
<1>1. DecoderOf(x) \in Decoders /\ Setup(x) # Null
  BY DEF PoolInv, LiveHandles, DecoderOf, Setup, Handles, TypeOK, HandlesOK
<1>2. QED
  BY <1>1 DEF TypeOK, DecodersOK, Setup, Setups

\* A step that stores bytes, or none, and touches nothing but what is listed.
LEMMA TypeFromParts ==
  ASSUME TypeOK, ViewsStay, mem' \in Memories, frozen' \subseteq Bufs,
         held' = held \/ HeldOK', string' = string \/ StringsOK',
         decoder' = decoder \/ DecodersOK',
         UNCHANGED <<reader, given, readerPool, decoderPool>> \/ HandlesOK',
         blocks' = blocks \/ BlocksOK'
  PROVE  TypeOK'
BY UntouchedStaysOK DEF TypeOK

\* A ByteString over a new buffer.
LEMMA StoredStringOK ==
  ASSUME TypeOK, NEW bytes \in Seq(Bytes), Store(bytes), Make(Array(Stored(bytes)))
  PROVE  ViewsStay /\ mem' \in Memories /\ StringsOK'
<1>1. ViewsStay /\ mem' \in Memories
  BY StoringKeepsViews, StoreIsFresh DEF TypeOK
<1>2. /\ Array(Stored(bytes)) \in Arrays /\ Array(Stored(bytes)).view = Stored(bytes)
      /\ ViewOK(mem', Stored(bytes))
      /\ Content(mem', Array(Stored(bytes))) = bytes
  BY StoreIsFresh DEF Array, Arrays, Content, TypeOK
<1>3. QED
  BY <1>1, <1>2, MakeOK

\* A ByteString over a buffer that was there.
LEMMA SharedStringOK ==
  ASSUME TypeOK, mem' = mem, NEW v \in Views, ViewOK(mem, v), Make(Array(v))
  PROVE  ViewsStay /\ mem' \in Memories /\ StringsOK'
<1>1. ViewsStay /\ mem' \in Memories
  BY StoringKeepsViews DEF TypeOK
<1>2. /\ Array(v) \in Arrays /\ Array(v).view = v /\ ViewOK(mem', v)
      /\ Content(mem', Array(v)) = BytesIn(mem, v)
  BY <1>1 DEF Array, Arrays, Content, ViewsStay
<1>3. BytesIn(mem, v) \in Seq(Bytes)
  BY BytesInAreBytes DEF TypeOK
<1>4. QED
  BY <1>1, <1>2, <1>3, MakeOK

\* The caller's own arrays.
LEMMA ArrayStepTypes == TypeOK /\ ArrayNext => TypeOK'
<1> SUFFICES ASSUME TypeOK, ArrayNext PROVE TypeOK'
  OBVIOUS
<1>1. ASSUME NEW bytes \in Sources, NewArray(bytes) PROVE TypeOK'
  <2>1. bytes \in Seq(Bytes) /\ Store(bytes)
    BY <1>1, SourcesAssumption DEF NewArray
  <2>2. ViewsStay /\ mem' \in Memories
    BY <2>1, StoringKeepsViews, StoreIsFresh DEF TypeOK
  <2>3. HeldOK'
    BY <1>1, <2>1, <2>2, StoreIsFresh, HoldingOK DEF NewArray, TypeOK
  <2>4. QED
    BY <1>1, <2>2, <2>3, TypeFromParts DEF NewArray, machines, TypeOK
<1>2. ASSUME NEW h \in held, NEW i \in h.view.from + 1 .. h.view.to, NEW y \in Bytes,
             WriteArray(h, i, y)
      PROVE  TypeOK'
  <2>1. h.view \in Views /\ ViewOK(mem, h.view)
    BY DEF HeldOK, TypeOK
  <2>2. mem[h.view.buf] \in Seq(Bytes) /\ h.view.buf \in Bufs
    BY <2>1 DEF ViewOK, Views, TypeOK
  <2>3. i \in 1 .. Len(mem[h.view.buf])
    BY <2>1, <2>2 DEF ViewOK, Views
  <2> DEFINE new == [mem[h.view.buf] EXCEPT ![i] = y]
  <2>4. new \in Seq(Bytes) /\ Len(new) = Len(mem[h.view.buf]) /\ new # Null
    BY <2>2, <2>3, ExceptSeq, NullAssumption
  <2>5. mem' = [mem EXCEPT ![h.view.buf] = new]
    BY <1>2 DEF WriteArray
  <2> HIDE DEF new
  <2>6. mem' \in Memories
    BY <2>4, <2>5 DEF TypeOK
  <2>7. \A b \in Bufs : mem[b] # Null => mem'[b] # Null /\ Len(mem'[b]) = Len(mem[b])
    BY <2>2, <2>4, <2>5 DEF TypeOK
  <2>8. ViewsStay
    BY <2>7 DEF ViewsStay, ViewOK, Views
  <2>9. QED
    BY <1>2, <2>6, <2>8, TypeFromParts DEF WriteArray, caller, machines, TypeOK
<1>3. QED
  BY <1>1, <1>2 DEF ArrayNext

\* Up to two new buffers: the ByteString's own and the caller's copy.
LEMMA AsUint8ArrayOK ==
  ASSUME TypeOK, NEW s \in Strings, AsUint8Array(s)
  PROVE  /\ ViewsStay /\ mem' \in Memories /\ StringsOK' /\ HeldOK'
         /\ \A b \in Bufs : mem[b] # Null => mem'[b] = mem[b]
         /\ \E copy \in Bufs, v \in Views :
              /\ mem[copy] = Null /\ v.buf = copy
              /\ held' = Holding(v, "copy")
              /\ v.buf # ViewDecoded(s).buf
         /\ ViewDecoded(s) \in Views /\ ViewOK(mem', ViewDecoded(s))
         /\ BytesIn(mem', ViewDecoded(s)) = Content(mem, string[s].value)
         /\ mem[ViewDecoded(s).buf] = Null \/ (~IsText(s) /\ ViewDecoded(s) = string[s].value.view)
         /\ \A t \in Strings : t # s => string'[t] = string[t]
         /\ string'[s].value = Array(ViewDecoded(s)) /\ string'[s].meant = string[s].meant
<1> DEFINE bytes == Content(mem, string[s].value)
           copy  == IF IsText(s) THEN AlsoFresh ELSE Fresh
<1>1. string[s] \in Made /\ bytes \in Seq(Bytes) /\ bytes # Null /\ Len(bytes) \in Nat
  <2>1. string[s] # Null /\ string[s] \in Made
    BY DEF AsUint8Array, TypeOK, StringsOK
  <2>2. QED
    BY <2>1, ContentIsBytes, NullAssumption
<1>2. /\ Fresh \in Bufs /\ mem[Fresh] = Null
      /\ copy \in Bufs /\ mem[copy] = Null
      /\ IsText(s) => copy # Fresh
  <2>1. Fresh \in Free
    BY DEF AsUint8Array, Fresh
  <2>2. IsText(s) => AlsoFresh \in Free \ {Fresh}
    <3>1. IsText(s) => Free \ {Fresh} # {}
      BY <2>1 DEF AsUint8Array
    <3>2. QED
      BY <3>1 DEF AlsoFresh
  <2>3. QED
    BY <2>1, <2>2 DEF Free
<1>3. /\ mem' = IF IsText(s) THEN [mem EXCEPT ![Fresh] = bytes, ![copy] = bytes]
                ELSE [mem EXCEPT ![copy] = bytes]
      /\ string' = StringDecoded(s)
      /\ held' = Holding(Whole(copy, bytes), "copy")
  BY DEF AsUint8Array
<1> HIDE DEF bytes, copy
<1>4. /\ mem' \in Memories /\ mem'[copy] = bytes
      /\ IsText(s) => mem'[Fresh] = bytes
      /\ \A b \in Bufs : mem[b] # Null => mem'[b] = mem[b]
  BY <1>1, <1>2, <1>3 DEF TypeOK
<1>5. ViewsStay
  BY <1>4 DEF ViewsStay, ViewOK, Views
<1>6. /\ Whole(copy, bytes) \in Views /\ Whole(copy, bytes).buf = copy
      /\ ViewOK(mem', Whole(copy, bytes))
  BY <1>1, <1>2, <1>4 DEF Whole, View, Views, ViewOK
<1>7. HeldOK'
  BY <1>3, <1>5, <1>6, HoldingOK
<1>8. /\ ViewDecoded(s) \in Views /\ ViewOK(mem', ViewDecoded(s))
      /\ BytesIn(mem', ViewDecoded(s)) = bytes
      /\ \/ mem[ViewDecoded(s).buf] = Null /\ ViewDecoded(s).buf # copy
         \/ /\ ~IsText(s) /\ ViewDecoded(s) = string[s].value.view
            /\ mem[ViewDecoded(s).buf] # Null
  <2>1. CASE IsText(s)
    <3>1. ViewDecoded(s) = Whole(Fresh, bytes)
      BY <2>1 DEF ViewDecoded, Stored, bytes, Content, IsText
    <3>2. ViewDecoded(s) \in Views /\ ViewDecoded(s).buf = Fresh /\ ViewOK(mem', ViewDecoded(s))
      BY <1>1, <1>2, <1>4, <2>1, <3>1 DEF Whole, View, Views, ViewOK
    <3>3. BytesIn(mem', ViewDecoded(s)) = bytes
      BY <1>1, <1>4, <2>1, <3>1, SubSeqFull DEF BytesIn, Whole, View
    <3>4. QED
      BY <1>2, <2>1, <3>2, <3>3
  <2>2. CASE ~IsText(s)
    <3>1. /\ string[s].value \in Arrays /\ ViewDecoded(s) = string[s].value.view
          /\ ViewOK(mem, ViewDecoded(s)) /\ ViewDecoded(s) \in Views
      BY <1>1, <2>2, NullAssumption DEF Texts, Arrays, IsText, ViewDecoded, TypeOK, StringsOK, AsUint8Array
    <3>2. mem[ViewDecoded(s).buf] # Null /\ mem'[ViewDecoded(s).buf] = mem[ViewDecoded(s).buf]
      BY <1>4, <3>1 DEF ViewOK, Views
    <3>3. BytesIn(mem', ViewDecoded(s)) = bytes
      BY <2>2, <3>1, <3>2 DEF BytesIn, bytes, Content, IsText
    <3>4. QED
      BY <1>5, <2>2, <3>1, <3>2, <3>3 DEF ViewsStay
  <2>3. QED
    BY <2>1, <2>2
<1>9. /\ string' \in [Strings -> Made \union {Null}]
      /\ \A t \in Strings : t # s => string'[t] = string[t]
      /\ string'[s].value = Array(ViewDecoded(s)) /\ string'[s].meant = string[s].meant
  <2>1. Array(ViewDecoded(s)) \in Arrays
    BY <1>8 DEF Array, Arrays
  <2>2. QED
    BY <1>1, <1>3, <2>1 DEF StringDecoded, TypeOK, StringsOK
<1>10. StringsOK'
  <2>1. ASSUME NEW t \in Strings, string'[t] # Null, ~IsText(t)'
        PROVE  ViewOK(mem', string'[t].value.view)
    <3>1. CASE t = s
      BY <1>8, <1>9, <3>1 DEF Array
    <3>2. CASE t # s
      <4>1. string[t].value.view \in Views /\ ViewOK(mem, string[t].value.view)
        BY <1>9, <2>1, <3>2 DEF TypeOK, StringsOK, Texts, Arrays, IsText
      <4>2. QED
        BY <1>5, <1>9, <3>2, <4>1 DEF ViewsStay
    <3>3. QED
      BY <3>1, <3>2
  <2>2. QED
    BY <1>9, <2>1 DEF StringsOK
<1>11. QED
  BY <1>2, <1>3, <1>4, <1>5, <1>6, <1>7, <1>8, <1>9, <1>10 DEF bytes

\* The calls of a ByteString.
LEMMA StringStepTypes == TypeOK /\ StringNext => TypeOK'
<1> SUFFICES ASSUME TypeOK, StringNext PROVE TypeOK'
  OBVIOUS
<1>1. ASSUME NEW bytes \in Sources, FromBase64(bytes) PROVE TypeOK'
  <2>1. bytes \in Seq(Bytes) /\ mem' = mem /\ Text(bytes) \in Texts
    BY <1>1, SourcesAssumption DEF FromBase64, Text, Texts
  <2>2. ViewsStay
    BY <2>1, StoringKeepsViews DEF TypeOK
  <2>3. Content(mem', Text(bytes)) = bytes /\ Text(bytes).form # "array"
    BY DEF Content, Text
  <2>4. StringsOK'
    BY <1>1, <2>1, <2>2, <2>3, MakeOK DEF FromBase64
  <2>5. QED
    BY <1>1, <2>1, <2>2, <2>4, TypeFromParts DEF FromBase64, caller, machines, TypeOK
<1>2. ASSUME NEW bytes \in Seq(Bytes), Store(bytes), Make(Array(Stored(bytes))),
             UNCHANGED <<caller, machines, blocks>>
      PROVE  TypeOK'
  <2>1. ViewsStay /\ mem' \in Memories /\ StringsOK'
    BY <1>2, StoredStringOK
  <2>2. QED
    BY <1>2, <2>1, TypeFromParts DEF caller, machines, TypeOK
<1>3. ASSUME NEW bytes \in Sources, FromStringUtf8(bytes) PROVE TypeOK'
  BY <1>2, <1>3, SourcesAssumption DEF FromStringUtf8
<1>4. ASSUME NEW h \in held, FromUint8Array(h) PROVE TypeOK'
  <2>1. BytesIn(mem, h.view) \in Seq(Bytes)
    BY BytesInAreBytes DEF HeldOK, TypeOK
  <2>2. QED
    BY <1>2, <1>4, <2>1 DEF FromUint8Array
<1>5. ASSUME NEW h \in held, UnsafeByteStringFromUint8Array(h) PROVE TypeOK'
  <2>1. h.view \in Views /\ ViewOK(mem, h.view)
    BY DEF HeldOK, TypeOK
  <2>2. ViewsStay /\ mem' \in Memories /\ StringsOK'
    BY <1>5, <2>1, SharedStringOK DEF UnsafeByteStringFromUint8Array
  <2>3. frozen' \subseteq Bufs
    BY <1>5, <2>1 DEF UnsafeByteStringFromUint8Array, TypeOK, Views
  <2>4. QED
    BY <1>5, <2>2, <2>3, TypeFromParts DEF UnsafeByteStringFromUint8Array, machines
<1>6. ASSUME NEW s \in Strings, AsBase64(s) PROVE TypeOK'
  <2>1. string[s] \in Made /\ mem' = mem
    BY <1>6 DEF AsBase64, TypeOK, StringsOK
  <2>2. Content(mem, string[s].value) \in Seq(Bytes)
    BY <1>6, ContentIsBytes DEF AsBase64
  <2> DEFINE text == Text(Content(mem, string[s].value))
  <2>3. text \in Texts /\ text.form = "text"
    BY <2>2 DEF Text, Texts
  <2>4. string' = [string EXCEPT ![s].value = text]
    BY <1>6 DEF AsBase64
  <2> HIDE DEF text
  <2>5. /\ string' \in [Strings -> Made \union {Null}]
        /\ string'[s].value = text /\ \A t \in Strings : t # s => string'[t] = string[t]
    BY <2>1, <2>3, <2>4 DEF TypeOK, StringsOK
  <2>6. \A t \in Strings : string'[t] # Null /\ ~IsText(t)' => ViewOK(mem', string'[t].value.view)
    BY <2>1, <2>3, <2>5 DEF TypeOK, StringsOK, IsText
  <2>7. ViewsStay
    BY <2>1, StoringKeepsViews DEF TypeOK
  <2>8. QED
    BY <1>6, <2>1, <2>5, <2>6, <2>7, TypeFromParts DEF AsBase64, StringsOK, caller, machines, TypeOK
<1>7. ASSUME NEW s \in Strings, ReadString(s) PROVE TypeOK'
  <2>1. StringsOK' /\ ViewsStay /\ mem' \in Memories
    BY <1>7, DecodedString, DecodedStringOK DEF ReadString
  <2>2. QED
    BY <1>7, <2>1, TypeFromParts DEF ReadString, caller, machines, TypeOK
<1>9. ASSUME NEW s \in Strings, UnsafeUint8ArrayFromByteString(s) PROVE TypeOK'
  <2>1. /\ StringsOK' /\ ViewsStay /\ mem' \in Memories
        /\ ViewDecoded(s) \in Views /\ ViewOK(mem', ViewDecoded(s))
    BY <1>9, DecodedString, DecodedStringOK DEF UnsafeUint8ArrayFromByteString
  <2>2. HeldOK'
    BY <1>9, <2>1, HoldingOK DEF UnsafeUint8ArrayFromByteString
  <2>3. frozen' \subseteq Bufs
    BY <1>9, <2>1 DEF UnsafeUint8ArrayFromByteString, TypeOK, Views
  <2>4. QED
    BY <1>9, <2>1, <2>2, <2>3, TypeFromParts DEF UnsafeUint8ArrayFromByteString, machines
<1>10. ASSUME NEW s \in Strings, UnsafeUnwrapByteString(s) PROVE TypeOK'
  <2>1. string[s].value.view \in Views /\ ViewOK(mem, string[s].value.view) /\ mem' = mem
    BY <1>10 DEF UnsafeUnwrapByteString, TypeOK, StringsOK, Texts, Arrays, IsText, strings
  <2>2. ViewsStay
    BY <2>1, StoringKeepsViews DEF TypeOK
  <2>3. HeldOK'
    BY <1>10, <2>1, <2>2, HoldingOK DEF UnsafeUnwrapByteString
  <2>4. frozen' \subseteq Bufs
    BY <1>10, <2>1 DEF UnsafeUnwrapByteString, TypeOK, Views
  <2>5. QED
    BY <1>10, <2>1, <2>2, <2>3, <2>4, TypeFromParts
    DEF UnsafeUnwrapByteString, machines, strings, TypeOK
<1>11. ASSUME NEW s \in Strings, AsUint8Array(s) PROVE TypeOK'
  BY <1>11, AsUint8ArrayOK, TypeFromParts DEF AsUint8Array, machines, TypeOK
<1>12. QED
  BY <1>1, <1>3, <1>4, <1>5, <1>6, <1>7, <1>9, <1>10, <1>11 DEF StringNext

\* Setting readers and decoders up.
LEMMA AllocStepTypes == TypeOK /\ AllocNext => TypeOK'
<1> SUFFICES ASSUME TypeOK, NEW x \in Handles, NEW d \in Decoders, NEW alias \in BOOLEAN,
                    \/ AllocEmpty(x, d, alias)
                    \/ \E h \in held : AllocOverArray(x, d, alias, h)
                    \/ \E treat \in BOOLEAN, bytes \in Sources :
                          AllocOverCopy(x, d, alias, treat, bytes)
                    \/ \E s \in Strings : AllocOverString(x, d, alias, s)
             PROVE  TypeOK'
  BY DEF AllocNext
<1>1. ASSUME NEW buffer \in Buffers, Alloc(x, d, buffer, alias), ViewsStay, mem' \in Memories,
             buffer.bytes # Null => ViewOK(mem', buffer.bytes), string' = string \/ StringsOK'
      PROVE  TypeOK'
  <2>1. DecodersOK' /\ HandlesOK'
    BY <1>1, AllocOK
  <2>2. QED
    BY <1>1, <2>1, TypeFromParts DEF Alloc, caller, TypeOK
<1>2. ASSUME AllocEmpty(x, d, alias) PROVE TypeOK'
  BY <1>1, <1>2, BuffersType, StoringKeepsViews DEF AllocEmpty, strings, TypeOK
<1>3. ASSUME NEW h \in held, AllocOverArray(x, d, alias, h) PROVE TypeOK'
  <2>1. ViewsStay /\ mem' = mem /\ string' = string
    BY <1>3, StoringKeepsViews DEF AllocOverArray, strings, TypeOK
  <2>2. h.view \in Views /\ ViewOK(mem', h.view)
    BY <2>1 DEF HeldOK, TypeOK
  <2>3. QED
    BY <1>1, <1>3, <2>1, <2>2, BuffersType DEF AllocOverArray, TypeOK
<1>4. ASSUME NEW treat \in BOOLEAN, NEW bytes \in Sources, AllocOverCopy(x, d, alias, treat, bytes)
      PROVE  TypeOK'
  <2>1. bytes \in Seq(Bytes) /\ Store(bytes) /\ string' = string
    BY <1>4, SourcesAssumption DEF AllocOverCopy
  <2>2. /\ ViewsStay /\ mem' \in Memories
        /\ Stored(bytes) \in Views /\ ViewOK(mem', Stored(bytes))
    BY <2>1, StoringKeepsViews, StoreIsFresh DEF TypeOK
  <2>3. QED
    BY <1>1, <1>4, <2>1, <2>2, BuffersType DEF AllocOverCopy
<1>5. ASSUME NEW s \in Strings, AllocOverString(x, d, alias, s) PROVE TypeOK'
  <2>1. /\ StringsOK' /\ ViewsStay /\ mem' \in Memories
        /\ ViewDecoded(s) \in Views /\ ViewOK(mem', ViewDecoded(s))
    BY <1>5, DecodedString, DecodedStringOK DEF AllocOverString
  <2>2. QED
    BY <1>1, <1>5, <2>1, BuffersType DEF AllocOverString
<1>6. QED
  BY <1>2, <1>3, <1>4, <1>5

\* Using them.
LEMMA ReadStepTypes == TypeOK /\ PoolInv /\ ReadNext => TypeOK'
<1> SUFFICES ASSUME TypeOK, PoolInv, NEW x \in Handles,
                    \/ FreeHandle(x)
                    \/ GetBuffer(x)
                    \/ GetBufferAsByteString(x)
                    \/ \E from, to : ReadBytes(x, from, to) \/ ReadByteString(x, from, to)
             PROVE  TypeOK'
  BY DEF ReadNext
<1>1. ASSUME FreeHandle(x) PROVE TypeOK'
  <2>1. mem' = mem /\ ViewsStay
    BY <1>1, StoringKeepsViews DEF FreeHandle, strings, TypeOK
  <2>2. DecodersOK' /\ HandlesOK'
    BY <1>1, <2>1, FreeHandleOK
  <2>3. QED
    BY <1>1, <2>1, <2>2, TypeFromParts DEF FreeHandle, strings, caller, TypeOK
<1>2. ASSUME GetBuffer(x) PROVE TypeOK'
  <2>1. mem' = mem /\ ViewsStay
    BY <1>2, StoringKeepsViews DEF GetBuffer, strings, TypeOK
  <2>2. Setup(x).bytes \in Views /\ ViewOK(mem', Setup(x).bytes)
    BY <1>2, <2>1, LiveHasDecoder DEF GetBuffer
  <2>3. HeldOK'
    BY <1>2, <2>1, <2>2, HoldingOK DEF GetBuffer
  <2>4. QED
    BY <1>2, <2>1, <2>3, TypeFromParts DEF GetBuffer, strings, machines, TypeOK
<1>3. ASSUME GetBufferAsByteString(x) PROVE TypeOK'
  <2> DEFINE d == DecoderOf(x)
             setup == [decoder[d] EXCEPT !.byteString = NextString]
  <2>1. /\ d \in Decoders /\ Setup(x) = decoder[d] /\ Setup(x) \in Setups
        /\ Setup(x).bytes \in Views /\ ViewOK(mem, Setup(x).bytes)
    BY <1>3, LiveHasDecoder DEF GetBufferAsByteString, Setup
  <2>2. ViewsStay /\ mem' \in Memories /\ StringsOK'
    BY <1>3, <2>1, SharedStringOK DEF GetBufferAsByteString
  <2>3. NextString \in Strings
    BY <1>3 DEF GetBufferAsByteString, Make, NextString, Unmade
  <2>4. setup \in Setups /\ setup.bytes = decoder[d].bytes
    BY <2>1, <2>3 DEF Setups
  <2>5. decoder' = [decoder EXCEPT ![d] = setup]
    BY <1>3 DEF GetBufferAsByteString
  <2> HIDE DEF setup, d
  <2>6. \A e \in Decoders : decoder[e] # Null /\ decoder[e].bytes # Null =>
           ViewOK(mem', decoder[e].bytes)
    BY <2>2 DEF TypeOK, DecodersOK, ViewsStay, Setups
  <2>7. DecodersOK'
    BY <2>1, <2>4, <2>5, <2>6, NullAssumption DEF TypeOK, DecodersOK
  <2>8. QED
    BY <1>3, <2>2, <2>7, TypeFromParts DEF GetBufferAsByteString, caller, TypeOK
<1>4. ASSUME NEW from, NEW to, ReadBytes(x, from, to) PROVE TypeOK'
  <2> DEFINE sub == Subarray(x, from, to)
             bytes == BytesIn(mem, sub)
             by == IF given[x].aliasBytesFields THEN "alias" ELSE "copy"
  <2>1. sub \in Views /\ ViewOK(mem, sub) /\ bytes \in Seq(Bytes)
    BY <1>4, LiveHasDecoder, SubarrayOK DEF ReadBytes, Block
  <2>2. \/ held' = Holding(sub, by) /\ mem' = mem
        \/ Store(bytes) /\ held' = Holding(Stored(bytes), by)
    BY <1>4 DEF ReadBytes
  <2>3. by \in {"caller", "copy", "alias"}
    OBVIOUS
  <2> HIDE DEF sub, bytes, by
  <2>4. ViewsStay /\ mem' \in Memories
    BY <2>1, <2>2, StoringKeepsViews, StoreIsFresh DEF TypeOK
  <2>5. ASSUME held' = Holding(sub, by), mem' = mem PROVE HeldOK'
    BY <2>1, <2>3, <2>4, <2>5, HoldingOK DEF ViewsStay
  <2>6. ASSUME Store(bytes), held' = Holding(Stored(bytes), by) PROVE HeldOK'
    BY <2>1, <2>3, <2>4, <2>6, HoldingOK, StoreIsFresh DEF TypeOK
  <2>7. HeldOK'
    BY <2>2, <2>5, <2>6
  <2>8. QED
    BY <1>4, <2>4, <2>7, TypeFromParts DEF ReadBytes, machines, TypeOK
<1>5. ASSUME NEW from, NEW to, ReadByteString(x, from, to) PROVE TypeOK'
  <2> DEFINE sub == Subarray(x, from, to)
             bytes == BytesIn(mem, sub)
  <2>1. sub \in Views /\ ViewOK(mem, sub) /\ bytes \in Seq(Bytes)
    BY <1>5, LiveHasDecoder, SubarrayOK DEF ReadByteString, Block
  <2>2. \/ mem' = mem /\ Make(Array(sub))
        \/ Store(bytes) /\ Make(Array(Stored(bytes)))
    BY <1>5 DEF ReadByteString
  <2> HIDE DEF sub, bytes
  <2>3. ViewsStay /\ mem' \in Memories /\ StringsOK'
    BY <2>1, <2>2, SharedStringOK, StoredStringOK
  <2>4. QED
    BY <1>5, <2>3, TypeFromParts DEF ReadByteString, caller, machines, TypeOK
<1>6. QED
  BY <1>1, <1>2, <1>3, <1>4, <1>5

\* The writer.
LEMMA WriterStepTypes == TypeOK /\ WriterNext => TypeOK'
<1> SUFFICES ASSUME TypeOK, WriterNext PROVE TypeOK'
  OBVIOUS
<1>1. ASSUME Reset PROVE TypeOK'
  <2>1. mem' = mem /\ ViewsStay
    BY <1>1, StoringKeepsViews DEF Reset, strings, TypeOK
  <2>2. BlocksOK'
    BY <1>1 DEF Reset, BlocksOK
  <2>3. QED
    BY <1>1, <2>1, <2>2, TypeFromParts DEF Reset, strings, caller, machines, TypeOK
<1>2. ASSUME Flat \in Seq(Bytes), Store(Flat), blocks' = <<Stored(Flat)>>
      PROVE  /\ mem' \in Memories /\ ViewsStay /\ BlocksOK'
             /\ Stored(Flat) \in Views /\ ViewOK(mem', Stored(Flat))
  <2> DEFINE v == Stored(Flat)
  <2>1. /\ mem' \in Memories /\ ViewsStay /\ v \in Views /\ ViewOK(mem', v)
        /\ blocks' = <<v>>
    BY <1>2, StoreIsFresh, StoringKeepsViews DEF TypeOK
  <2> HIDE DEF v
  <2>2. BlocksOK'
    BY <2>1 DEF BlocksOK
  <2>3. QED
    BY <2>1, <2>2 DEF v
<1>3. ASSUME GetResultBuffer PROVE TypeOK'
  <2>1. /\ mem' \in Memories /\ ViewsStay /\ BlocksOK'
        /\ Stored(Flat) \in Views /\ ViewOK(mem', Stored(Flat))
    BY <1>2, <1>3 DEF GetResultBuffer
  <2>2. HeldOK'
    BY <1>3, <2>1, HoldingOK DEF GetResultBuffer
  <2>3. QED
    BY <1>3, <2>1, <2>2, TypeFromParts DEF GetResultBuffer, machines, TypeOK
<1>4. ASSUME GetResultBufferAsByteString PROVE TypeOK'
  <2>1. mem' \in Memories /\ ViewsStay /\ BlocksOK'
    BY <1>2, <1>4 DEF GetResultBufferAsByteString
  <2>2. StringsOK'
    BY <1>4, StoredStringOK DEF GetResultBufferAsByteString
  <2>3. QED
    BY <1>4, <2>1, <2>2, TypeFromParts DEF GetResultBufferAsByteString, caller, machines, TypeOK
<1>5. ASSUME NEW h \in held, WriteBytes(h) PROVE TypeOK'
  <2>1. mem' = mem /\ ViewsStay /\ h.view \in Views
    BY <1>5, StoringKeepsViews DEF WriteBytes, strings, TypeOK, HeldOK
  <2>2. ViewOK(mem', h.view)
    BY <2>1 DEF TypeOK, HeldOK
  <2>3. BlocksOK'
    BY <1>5, <2>1, <2>2, PushBlockOK DEF WriteBytes
  <2>4. QED
    BY <1>5, <2>1, <2>3, TypeFromParts DEF WriteBytes, strings, caller, machines, TypeOK
<1>6. ASSUME NEW bytes \in Sources, WriteCopy(bytes) PROVE TypeOK'
  <2>1. bytes \in Seq(Bytes) /\ Store(bytes) /\ PushBlock(Stored(bytes))
    BY <1>6, SourcesAssumption DEF WriteCopy
  <2>2. /\ ViewsStay /\ mem' \in Memories
        /\ Stored(bytes) \in Views /\ ViewOK(mem', Stored(bytes))
    BY <2>1, StoringKeepsViews, StoreIsFresh DEF TypeOK
  <2>3. BlocksOK'
    BY <2>1, <2>2, PushBlockOK
  <2>4. QED
    BY <1>6, <2>2, <2>3, TypeFromParts DEF WriteCopy, caller, machines, TypeOK
<1>7. ASSUME NEW s \in Strings, WriteByteString(s) PROVE TypeOK'
  <2>1. /\ StringsOK' /\ ViewsStay /\ mem' \in Memories
        /\ ViewDecoded(s) \in Views /\ ViewOK(mem', ViewDecoded(s))
    BY <1>7, DecodedString, DecodedStringOK DEF WriteByteString
  <2>2. BlocksOK'
    BY <1>7, <2>1, PushBlockOK DEF WriteByteString
  <2>3. QED
    BY <1>7, <2>1, <2>2, TypeFromParts DEF WriteByteString, caller, machines, TypeOK
<1>8. QED
  BY <1>1, <1>3, <1>4, <1>5, <1>6, <1>7 DEF WriterNext

\* No step makes a view reach beyond its buffer.
LEMMA TypeStep == TypeOK /\ PoolInv /\ [Next]_vars => TypeOK'
<1> SUFFICES ASSUME TypeOK, PoolInv, [Next]_vars PROVE TypeOK'
  OBVIOUS
<1>1. CASE UNCHANGED vars
  <2>1. ViewsStay
    BY <1>1, StoringKeepsViews DEF vars, strings, TypeOK
  <2>2. QED
    BY <1>1, <2>1, TypeFromParts DEF vars, strings, caller, machines, TypeOK
<1>2. QED
  BY <1>1, ArrayStepTypes, StringStepTypes, AllocStepTypes, ReadStepTypes, WriterStepTypes
  DEF Next

-----------------------------------------------------------------------------
\* Live readers and decoders are apart as long as the pools are as they should be.
LEMMA PoolsKeepApart == TypeOK /\ PoolInv => ReadersAreApart
<1> SUFFICES ASSUME TypeOK, PoolInv PROVE ReadersAreApart
  OBVIOUS
<1>1. ASSUME NEW x \in Handles, Live(x), NEW y \in Handles, Live(y), y # x
      PROVE  DecoderOf(y) # DecoderOf(x)
  BY <1>1, LiveHasDecoder DEF PoolInv, ReadersOwn, LiveHandles, DecoderOf, Handles
<1>2. ASSUME NEW x \in Handles, Live(x), NEW i \in DOMAIN decoderPool
      PROVE  decoderPool[i] # DecoderOf(x)
  BY <1>2 DEF PoolInv, DecoderPoolOK, DecoderOf, Handles
<1>3. ASSUME NEW x \in Handles, Live(x), NEW i \in DOMAIN readerPool
      PROVE  reader[readerPool[i]] # DecoderOf(x)
  <2>1. readerPool[i] \in Readers
    BY DEF TypeOK, HandlesOK
  <2>2. ~Live(readerPool[i]) /\ reader[readerPool[i]] # Null
    BY DEF PoolInv, ReaderPoolOK
  <2>3. QED
    BY <1>3, <2>1, <2>2 DEF PoolInv, ReadersOwn, DecoderOf, Handles
<1>4. QED
  BY <1>1, <1>2, <1>3 DEF ReadersAreApart, PoolInv, LiveHandles

\* A decoder that is taken is nobody's, has nothing in it and leaves the pool.
LEMMA TakenDecoder ==
  ASSUME TypeOK, PoolInv, NEW d \in Decoders, TakeDecoder(d)
  PROVE  /\ ~Live(d) /\ (decoder[d] = Null \/ decoder[d] = Blank)
         /\ \A r \in Readers : reader[r] # d
         /\ \A i \in DOMAIN decoderPool' :
              i \in DOMAIN decoderPool /\ decoderPool'[i] = decoderPool[i] /\ decoderPool'[i] # d
<1> decoderPool \in Seq(Decoders)
  BY DEF TypeOK, HandlesOK
<1>1. CASE decoderPool # <<>>
  <2>1. d = Last(decoderPool) /\ decoderPool' = Front(decoderPool)
    BY <1>1 DEF TakeDecoder
  <2>2. /\ Front(decoderPool) \in Seq(Decoders) /\ Len(Front(decoderPool)) = Len(decoderPool) - 1
        /\ \A i \in 1 .. Len(decoderPool) - 1 : Front(decoderPool)[i] = decoderPool[i]
        /\ d = decoderPool[Len(decoderPool)] /\ Len(decoderPool) \in 1 .. Len(decoderPool)
    BY <1>1, <2>1, PoolOps
  <2>3. /\ DOMAIN decoderPool' = 1 .. Len(decoderPool) - 1
        /\ DOMAIN decoderPool = 1 .. Len(decoderPool)
        /\ Len(decoderPool) \in DOMAIN decoderPool
    BY <2>1, <2>2
  <2>4. \A i \in DOMAIN decoderPool' :
          i \in DOMAIN decoderPool /\ decoderPool'[i] = decoderPool[i] /\ i # Len(decoderPool)
    BY <2>1, <2>2, <2>3
  <2> DEFINE n == Len(decoderPool)
  <2>5. n \in DOMAIN decoderPool /\ d = decoderPool[n]
    BY <2>2, <2>3
  <2> HIDE DEF n
  <2>6. /\ ~Live(d) /\ decoder[d] = Blank
        /\ \A r \in Readers : reader[r] # d
        /\ \A j \in DOMAIN decoderPool : decoderPool[j] = d => j = n
    BY <2>5 DEF PoolInv, DecoderPoolOK
  <2>7. \A i \in DOMAIN decoderPool' :
          i \in DOMAIN decoderPool /\ decoderPool'[i] = decoderPool[i] /\ i # n
    BY <2>4 DEF n
  <2>8. ASSUME NEW i \in DOMAIN decoderPool'
        PROVE  i \in DOMAIN decoderPool /\ decoderPool'[i] = decoderPool[i] /\ decoderPool'[i] # d
    <3>1. i \in DOMAIN decoderPool /\ decoderPool'[i] = decoderPool[i] /\ i # n
      BY <2>7
    <3>2. decoderPool[i] # d
      BY <2>6, <3>1
    <3>3. QED
      BY <3>1, <3>2
  <2>9. QED
    BY <2>6, <2>8
<1>2. CASE decoderPool = <<>>
  <2>1. decoder[d] = Null /\ decoderPool' = <<>>
    BY <1>2 DEF TakeDecoder
  <2>2. ~Live(d) /\ d \in Handles
    <3>1. d \in Handles /\ d \notin Readers
      BY HandlesAssumption DEF Handles
    <3>2. QED
      BY <2>1, <3>1 DEF PoolInv, LiveHandles, DecoderOf
  <2>3. \A r \in Readers : reader[r] # d
    BY <2>1, NullAssumption DEF PoolInv, ReadersOwn
  <2>4. DOMAIN decoderPool' = {}
    BY <2>1
  <2>5. QED
    BY <2>1, <2>2, <2>3, <2>4
<1>3. QED
  BY <1>1, <1>2

\* So is the decoder of a reader that is taken, but for this reader.
LEMMA TakenReader ==
  ASSUME TypeOK, PoolInv, NEW x \in Readers, NEW d \in Decoders, TakeReader(x, d), ~Live(x)
  PROVE  /\ ~Live(d) /\ (decoder[d] = Null \/ decoder[d] = Blank)
         /\ \A r \in Readers : r # x => reader[r] # d /\ reader'[r] = reader[r]
         /\ reader'[x] = d
         /\ \A i \in DOMAIN decoderPool' :
              i \in DOMAIN decoderPool /\ decoderPool'[i] = decoderPool[i] /\ decoderPool'[i] # d
         /\ \A i \in DOMAIN readerPool' :
              i \in DOMAIN readerPool /\ readerPool'[i] = readerPool[i] /\ readerPool'[i] # x
<1> readerPool \in Seq(Readers) /\ reader \in [Readers -> Decoders \union {Null}]
  BY DEF TypeOK, HandlesOK
<1>1. CASE /\ readerPool # <<>>
           /\ x = Last(readerPool) /\ d = reader[x]
           /\ readerPool' = Front(readerPool)
           /\ UNCHANGED <<reader, decoderPool>>
  <2>1. /\ Front(readerPool) \in Seq(Readers) /\ Len(Front(readerPool)) = Len(readerPool) - 1
        /\ \A i \in 1 .. Len(readerPool) - 1 : Front(readerPool)[i] = readerPool[i]
        /\ x = readerPool[Len(readerPool)] /\ Len(readerPool) \in 1 .. Len(readerPool)
    BY <1>1, PoolOps
  <2>2. /\ DOMAIN readerPool' = 1 .. Len(readerPool) - 1
        /\ DOMAIN readerPool = 1 .. Len(readerPool)
        /\ Len(readerPool) \in DOMAIN readerPool
    BY <1>1, <2>1
  <2>3. \A i \in DOMAIN readerPool' :
          i \in DOMAIN readerPool /\ readerPool'[i] = readerPool[i] /\ i # Len(readerPool)
    BY <1>1, <2>1, <2>2
  <2>4. \A i \in DOMAIN readerPool' :
          i \in DOMAIN readerPool /\ readerPool'[i] = readerPool[i] /\ readerPool'[i] # x
    BY <2>1, <2>2, <2>3 DEF PoolInv, ReaderPoolOK
  <2>5. d # Null
    BY <1>1, <2>1, <2>2 DEF PoolInv, ReaderPoolOK
  <2>6. /\ ~Live(d) /\ decoder[d] = Blank
        /\ \A r \in Readers : r # x => reader[r] # d
    BY <1>1, <2>5 DEF PoolInv, ReadersOwn
  <2>7. \A i \in DOMAIN decoderPool : decoderPool[i] # d
    BY <1>1 DEF PoolInv, DecoderPoolOK
  <2>8. QED
    BY <1>1, <2>4, <2>6, <2>7
<1>2. CASE /\ \E n \in Readers : reader[n] = Null
           /\ x = CHOOSE n \in Readers : reader[n] = Null
           /\ TakeDecoder(d)
           /\ reader' = [reader EXCEPT ![x] = d]
           /\ UNCHANGED readerPool
  <2>1. reader[x] = Null
    BY <1>2
  <2>2. \A i \in DOMAIN readerPool : readerPool[i] # x
    BY <2>1 DEF PoolInv, ReaderPoolOK
  <2>3. QED
    BY <1>2, <2>2, TakenDecoder
<1>3. QED
  BY <1>1, <1>2 DEF TakeReader

\* Allocation keeps the pools as they should be.
LEMMA AllocKeepsPools ==
  ASSUME TypeOK, PoolInv, NEW x \in Handles, NEW d \in Decoders, NEW alias \in BOOLEAN,
         NEW buffer \in Buffers, Alloc(x, d, buffer, alias)
  PROVE  PoolInv'
<1> DEFINE setup == Initialized(Blank, buffer, alias)
<1> /\ reader \in [Readers -> Decoders \union {Null}]
    /\ given \in [Handles -> Setups \union {Null}]
    /\ decoder \in [Decoders -> Setups \union {Null}]
    /\ readerPool \in Seq(Readers) /\ decoderPool \in Seq(Decoders)
  BY DEF TypeOK, HandlesOK, DecodersOK
<1>1. /\ ~Live(d) /\ (decoder[d] = Null \/ decoder[d] = Blank)
      /\ \A r \in Readers : r # x => reader[r] # d /\ reader'[r] = reader[r]
      /\ IF x \in Readers THEN reader'[x] = d ELSE x = d
      /\ \A i \in DOMAIN decoderPool' :
           i \in DOMAIN decoderPool /\ decoderPool'[i] = decoderPool[i] /\ decoderPool'[i] # d
      /\ \A i \in DOMAIN readerPool' :
           i \in DOMAIN readerPool /\ readerPool'[i] = readerPool[i] /\ readerPool'[i] # x
  <2>1. CASE x \in Readers /\ TakeReader(x, d)
    BY <2>1, TakenReader DEF Alloc
  <2>2. CASE x = d /\ TakeDecoder(d) /\ UNCHANGED <<reader, readerPool>>
    <3>1. x \notin Readers
      BY <2>2, HandlesAssumption
    <3>2. \A i \in DOMAIN readerPool : readerPool[i] \in Readers
      OBVIOUS
    <3>3. QED
      BY <2>2, <3>1, <3>2, TakenDecoder
  <2>3. QED
    BY <2>1, <2>2 DEF Alloc
<1>2. /\ decoder' = [decoder EXCEPT ![d] = setup]
      /\ given' = [given EXCEPT ![x] = setup]
      /\ setup # Null
  <2>1. decoder[d] = Null \/ decoder[d] = Blank
    BY <1>1
  <2>2. (IF decoder[d] = Null THEN Blank ELSE decoder[d]) = Blank
    BY <2>1
  <2>3. setup \in Setups
    BY BlankType, InitializedType
  <2>4. QED
    BY <2>2, <2>3, NullAssumption DEF Alloc
<1> HIDE DEF setup
<1>3. x \in Readers => x \notin Decoders
  BY HandlesAssumption
<1>4. ReadersOwn'
  <2> SUFFICES ASSUME NEW r \in Readers, reader'[r] # Null
               PROVE  /\ decoder'[reader'[r]] # Null /\ given'[reader'[r]] = Null
                      /\ \A q \in Readers : reader'[q] = reader'[r] => q = r
                      /\ given'[r] = Null => decoder'[reader'[r]] = Blank
    BY DEF ReadersOwn, Live
  <2>1. reader'[r] \in Decoders /\ r \in Handles /\ reader'[r] \in Handles /\ r \notin Decoders
    BY <1>1, <1>3, HandlesAssumption DEF Handles
  <2>2. CASE r = x
    BY <1>1, <1>2, <1>3, <2>1, <2>2 DEF Live
  <2>3. CASE r # x
    <3>1. reader'[r] = reader[r] /\ reader[r] # d
      BY <1>1, <2>3
    <3>2. /\ decoder[reader[r]] # Null /\ ~Live(reader[r])
          /\ \A q \in Readers : reader[q] = reader[r] => q = r
          /\ ~Live(r) => decoder[reader[r]] = Blank
      BY <3>1 DEF PoolInv, ReadersOwn
    <3>3. reader[r] # x
      BY <1>1, <1>3, <2>1, <3>1
    <3>4. QED
      BY <1>1, <1>2, <2>1, <2>3, <3>1, <3>2, <3>3 DEF Live
  <2>4. QED
    BY <2>2, <2>3
<1>5. LiveHandles'
  <2> SUFFICES ASSUME NEW y \in Handles, Live(y)'
               PROVE  /\ DecoderOf(y)' # Null /\ decoder'[DecoderOf(y)'] # Null
                      /\ WithoutCache(Setup(y)') = WithoutCache(given'[y])
    BY DEF LiveHandles, Setup, WithoutCache
  <2>1. CASE y = x
    <3>1. DecoderOf(x)' = d /\ given'[x] = setup /\ decoder'[d] = setup
      BY <1>1, <1>2 DEF DecoderOf
    <3>2. d # Null
      BY NullAssumption
    <3>3. QED
      BY <1>2, <2>1, <3>1, <3>2 DEF Setup
  <2>2. CASE y # x
    <3>1. Live(y) /\ given'[y] = given[y]
      BY <1>2, <2>2 DEF Live
    <3>2. DecoderOf(y)' = DecoderOf(y) /\ DecoderOf(y) # d
      BY <1>1, <2>2, <3>1 DEF DecoderOf
    <3>3. DecoderOf(y) \in Decoders
      BY <3>1, LiveHasDecoder
    <3>4. decoder'[DecoderOf(y)] = decoder[DecoderOf(y)]
      BY <1>2, <3>2, <3>3
    <3>5. QED
      BY <3>1, <3>2, <3>4 DEF PoolInv, LiveHandles, Setup
  <2>3. QED
    BY <2>1, <2>2
<1>6. ReaderPoolOK'
  <2> SUFFICES ASSUME NEW i \in DOMAIN readerPool'
               PROVE  /\ given'[readerPool'[i]] = Null /\ reader'[readerPool'[i]] # Null
                      /\ \A j \in DOMAIN readerPool' : readerPool'[j] = readerPool'[i] => j = i
    BY DEF ReaderPoolOK, Live
  <2>1. /\ i \in DOMAIN readerPool /\ readerPool'[i] = readerPool[i] /\ readerPool[i] # x
        /\ readerPool[i] \in Readers /\ readerPool[i] \in Handles
    BY <1>1 DEF Handles
  <2>2. /\ ~Live(readerPool[i]) /\ reader[readerPool[i]] # Null
        /\ \A j \in DOMAIN readerPool : readerPool[j] = readerPool[i] => j = i
    BY <2>1 DEF PoolInv, ReaderPoolOK
  <2>3. QED
    BY <1>1, <1>2, <2>1, <2>2 DEF Live
<1>7. DecoderPoolOK'
  <2> SUFFICES ASSUME NEW i \in DOMAIN decoderPool'
               PROVE  /\ given'[decoderPool'[i]] = Null /\ decoder'[decoderPool'[i]] = Blank
                      /\ \A r \in Readers : reader'[r] # decoderPool'[i]
                      /\ \A j \in DOMAIN decoderPool' : decoderPool'[j] = decoderPool'[i] => j = i
    BY DEF DecoderPoolOK, Live
  <2>1. /\ i \in DOMAIN decoderPool /\ decoderPool'[i] = decoderPool[i] /\ decoderPool[i] # d
        /\ decoderPool[i] \in Decoders /\ decoderPool[i] \in Handles
    BY <1>1 DEF Handles
  <2>2. /\ ~Live(decoderPool[i]) /\ decoder[decoderPool[i]] = Blank
        /\ \A r \in Readers : reader[r] # decoderPool[i]
        /\ \A j \in DOMAIN decoderPool : decoderPool[j] = decoderPool[i] => j = i
    BY <2>1 DEF PoolInv, DecoderPoolOK
  <2>3. decoderPool[i] # x
    BY <1>1, <1>3, <2>1
  <2>4. \A r \in Readers : reader'[r] # decoderPool[i]
    BY <1>1, <2>1, <2>2
  <2>5. QED
    BY <1>1, <1>2, <2>1, <2>2, <2>3, <2>4 DEF Live
<1>8. QED
  BY <1>4, <1>5, <1>6, <1>7 DEF PoolInv

\* So does giving a handle back.
LEMMA FreeKeepsPools ==
  ASSUME TypeOK, PoolInv, NEW x \in Handles, FreeHandle(x)
  PROVE  PoolInv'
<1> DEFINE d == DecoderOf(x)
<1> /\ reader \in [Readers -> Decoders \union {Null}]
    /\ given \in [Handles -> Setups \union {Null}]
    /\ decoder \in [Decoders -> Setups \union {Null}]
    /\ readerPool \in Seq(Readers) /\ decoderPool \in Seq(Decoders)
  BY DEF TypeOK, HandlesOK, DecodersOK
<1>1. /\ Live(x) /\ d \in Decoders /\ reader' = reader
      /\ decoder' = [decoder EXCEPT ![d] = Blank]
      /\ given' = [given EXCEPT ![x] = Null]
  BY LiveHasDecoder DEF FreeHandle
<1>2. d = IF x \in Readers THEN reader[x] ELSE x
  BY DEF DecoderOf
<1> HIDE DEF d
<1>3. Blank # Null
  BY BlankType, NullAssumption
<1>4. ReadersOwn'
  <2> SUFFICES ASSUME NEW r \in Readers, reader'[r] # Null
               PROVE  /\ decoder'[reader'[r]] # Null /\ given'[reader'[r]] = Null
                      /\ \A q \in Readers : reader'[q] = reader'[r] => q = r
                      /\ given'[r] = Null => decoder'[reader'[r]] = Blank
    BY DEF ReadersOwn, Live
  <2>1. reader[r] \in Decoders /\ reader[r] \in Handles /\ r \in Handles
    BY <1>1 DEF Handles
  <2>2. /\ decoder[reader[r]] # Null /\ ~Live(reader[r])
        /\ \A q \in Readers : reader[q] = reader[r] => q = r
        /\ ~Live(r) => decoder[reader[r]] = Blank
    BY <1>1 DEF PoolInv, ReadersOwn
  <2>3. CASE r = x
    BY <1>1, <1>2, <1>3, <2>1, <2>2, <2>3 DEF Live
  <2>4. CASE r # x
    BY <1>1, <1>3, <2>1, <2>2, <2>4 DEF Live
  <2>5. QED
    BY <2>3, <2>4
<1>5. LiveHandles'
  <2> SUFFICES ASSUME NEW y \in Handles, Live(y)'
               PROVE  /\ DecoderOf(y)' # Null /\ decoder'[DecoderOf(y)'] # Null
                      /\ WithoutCache(Setup(y)') = WithoutCache(given'[y])
    BY DEF LiveHandles, Setup, WithoutCache
  <2>1. y # x /\ Live(y) /\ given'[y] = given[y]
    BY <1>1 DEF Live
  <2>2. DecoderOf(y)' = DecoderOf(y) /\ DecoderOf(y) # d
    BY <1>1, <2>1, PoolsKeepApart DEF ReadersAreApart, DecoderOf, d
  <2>3. DecoderOf(y) \in Decoders
    BY <2>1, LiveHasDecoder
  <2>4. decoder'[DecoderOf(y)] = decoder[DecoderOf(y)]
    BY <1>1, <2>2, <2>3
  <2>5. QED
    BY <2>1, <2>2, <2>4 DEF PoolInv, LiveHandles, Setup
<1>6. ReaderPoolOK'
  <2> SUFFICES ASSUME NEW i \in DOMAIN readerPool'
               PROVE  /\ given'[readerPool'[i]] = Null /\ reader'[readerPool'[i]] # Null
                      /\ \A j \in DOMAIN readerPool' : readerPool'[j] = readerPool'[i] => j = i
    BY DEF ReaderPoolOK, Live
  <2>1. \/ readerPool' = readerPool
        \/ x \in Readers /\ readerPool' = Push(readerPool, x)
    BY DEF FreeHandle, Release
  <2>2. \A j \in DOMAIN readerPool' :
           \/ j \in DOMAIN readerPool /\ readerPool'[j] = readerPool[j]
           \/ j = Len(readerPool) + 1 /\ readerPool'[j] = x /\ x \in Readers
    BY <2>1, PoolOps
  <2>3. \A j \in DOMAIN readerPool :
           /\ readerPool[j] \in Handles /\ readerPool[j] # x
           /\ ~Live(readerPool[j]) /\ reader[readerPool[j]] # Null
           /\ \A k \in DOMAIN readerPool : readerPool[k] = readerPool[j] => k = j
    BY <1>1 DEF PoolInv, ReaderPoolOK, Handles
  <2>4. x \in Readers => reader[x] # Null
    BY <1>1, <1>2, NullAssumption
  <2>5. given'[readerPool'[i]] = Null /\ reader'[readerPool'[i]] # Null
    BY <1>1, <2>2, <2>3, <2>4 DEF Live
  <2>6. ASSUME NEW j \in DOMAIN readerPool', readerPool'[j] = readerPool'[i] PROVE j = i
    BY <2>2, <2>3, <2>6
  <2>7. QED
    BY <2>5, <2>6
<1>7. DecoderPoolOK'
  <2> SUFFICES ASSUME NEW i \in DOMAIN decoderPool'
               PROVE  /\ given'[decoderPool'[i]] = Null /\ decoder'[decoderPool'[i]] = Blank
                      /\ \A r \in Readers : reader'[r] # decoderPool'[i]
                      /\ \A j \in DOMAIN decoderPool' : decoderPool'[j] = decoderPool'[i] => j = i
    BY DEF DecoderPoolOK, Live
  <2>1. \/ decoderPool' = decoderPool
        \/ x \notin Readers /\ x = d /\ decoderPool' = Push(decoderPool, d)
    BY <1>2 DEF FreeHandle, Release
  <2>2. \A j \in DOMAIN decoderPool' :
           \/ j \in DOMAIN decoderPool /\ decoderPool'[j] = decoderPool[j]
           \/ j = Len(decoderPool) + 1 /\ decoderPool'[j] = d /\ x = d /\ x \notin Readers
    <3>1. \A j \in DOMAIN Push(decoderPool, d) :
             \/ j \in DOMAIN decoderPool /\ Push(decoderPool, d)[j] = decoderPool[j]
             \/ j = Len(decoderPool) + 1 /\ Push(decoderPool, d)[j] = d
      BY <1>1, PoolOps, ZenonT(40)
    <3>2. QED
      BY <2>1, <3>1
  <2>3. \A j \in DOMAIN decoderPool :
           /\ decoderPool[j] \in Decoders /\ decoderPool[j] \in Handles /\ decoderPool[j] # x
           /\ ~Live(decoderPool[j]) /\ decoder[decoderPool[j]] = Blank
           /\ \A r \in Readers : reader[r] # decoderPool[j]
           /\ \A k \in DOMAIN decoderPool : decoderPool[k] = decoderPool[j] => k = j
    BY <1>1 DEF PoolInv, DecoderPoolOK, Handles
  <2>4. x = d => \A r \in Readers : reader[r] # d
    BY <1>1, NullAssumption DEF PoolInv, ReadersOwn
  <2>5. /\ given'[decoderPool'[i]] = Null /\ decoder'[decoderPool'[i]] = Blank
        /\ \A r \in Readers : reader'[r] # decoderPool'[i]
    BY <1>1, <2>2, <2>3, <2>4 DEF Live
  <2>6. ASSUME NEW j \in DOMAIN decoderPool', decoderPool'[j] = decoderPool'[i] PROVE j = i
    BY <2>2, <2>3, <2>6
  <2>7. QED
    BY <2>5, <2>6
<1>8. QED
  BY <1>4, <1>5, <1>6, <1>7 DEF PoolInv

\* And remembering the ByteString made of the data.
LEMMA CachingKeepsPools ==
  ASSUME TypeOK, PoolInv, NEW x \in Handles, GetBufferAsByteString(x)
  PROVE  PoolInv'
<1> DEFINE d == DecoderOf(x)
           setup == [decoder[d] EXCEPT !.byteString = NextString]
<1> decoder \in [Decoders -> Setups \union {Null}]
  BY DEF TypeOK, DecodersOK
<1>1. Live(x) /\ d \in Decoders /\ decoder[d] \in Setups
  BY LiveHasDecoder DEF GetBufferAsByteString, Setup
<1>2. /\ decoder' = [decoder EXCEPT ![d] = setup]
      /\ UNCHANGED <<reader, given, readerPool, decoderPool>>
  BY DEF GetBufferAsByteString
<1>3. setup \in Setups /\ WithoutCache(setup) = WithoutCache(decoder[d])
  <2>1. NextString \in Strings
    BY DEF GetBufferAsByteString, Make, NextString, Unmade
  <2>2. QED
    BY <1>1, <2>1 DEF Setups, WithoutCache
<1>4. setup # Null
  BY <1>3, NullAssumption
<1>5. \A r \in Readers : reader[r] = d => r = x
  BY <1>1, NullAssumption DEF PoolInv, ReadersOwn, DecoderOf
<1>6. \A i \in DOMAIN decoderPool : decoderPool[i] # d
  BY <1>1, PoolsKeepApart DEF ReadersAreApart
<1> HIDE DEF d, setup
<1>7. ReadersOwn'
  <2> SUFFICES ASSUME NEW r \in Readers, reader'[r] # Null
               PROVE  /\ decoder'[reader'[r]] # Null /\ given'[reader'[r]] = Null
                      /\ \A q \in Readers : reader'[q] = reader'[r] => q = r
                      /\ given'[r] = Null => decoder'[reader'[r]] = Blank
    BY DEF ReadersOwn, Live
  <2>1. /\ decoder[reader[r]] # Null /\ ~Live(reader[r])
        /\ \A q \in Readers : reader[q] = reader[r] => q = r
        /\ ~Live(r) => decoder[reader[r]] = Blank
    BY <1>2 DEF PoolInv, ReadersOwn
  <2>2. QED
    BY <1>1, <1>2, <1>4, <1>5, <2>1 DEF Live
<1>8. LiveHandles'
  <2> SUFFICES ASSUME NEW y \in Handles, Live(y)'
               PROVE  /\ DecoderOf(y)' # Null /\ decoder'[DecoderOf(y)'] # Null
                      /\ WithoutCache(Setup(y)') = WithoutCache(given'[y])
    BY DEF LiveHandles, Setup, WithoutCache
  <2>1. Live(y) /\ DecoderOf(y)' = DecoderOf(y) /\ given'[y] = given[y]
    BY <1>2 DEF Live, DecoderOf
  <2>2. DecoderOf(y) \in Decoders
    BY <2>1, LiveHasDecoder
  <2>3. /\ DecoderOf(y) # Null /\ decoder[DecoderOf(y)] # Null
        /\ WithoutCache(decoder[DecoderOf(y)]) = WithoutCache(given[y])
    BY <2>1 DEF PoolInv, LiveHandles, Setup
  <2>4. Setup(y)' = decoder'[DecoderOf(y)]
    BY <2>1 DEF Setup
  <2>5. CASE DecoderOf(y) = d
    BY <1>1, <1>2, <1>3, <1>4, <2>1, <2>3, <2>4, <2>5
  <2>6. CASE DecoderOf(y) # d
    BY <1>2, <2>1, <2>2, <2>3, <2>4, <2>6
  <2>7. QED
    BY <2>5, <2>6
<1>9. ReaderPoolOK' /\ DecoderPoolOK'
  <2>1. \A i \in DOMAIN decoderPool : decoderPool[i] \in Decoders
    BY DEF TypeOK, HandlesOK
  <2>2. QED
    BY <1>2, <1>6, <2>1 DEF PoolInv, ReaderPoolOK, DecoderPoolOK, Live
<1>10. QED
  BY <1>7, <1>8, <1>9 DEF PoolInv

\* No other step touches readers, decoders or pools.
LEMMA PoolStep == TypeOK /\ PoolInv /\ [Next]_vars => PoolInv'
<1> SUFFICES ASSUME TypeOK, PoolInv, [Next]_vars PROVE PoolInv'
  OBVIOUS
<1>1. ASSUME UNCHANGED machines PROVE PoolInv'
  BY <1>1 DEF machines, PoolInv, ReadersOwn, LiveHandles, ReaderPoolOK, DecoderPoolOK,
              Live, Setup, DecoderOf, WithoutCache
<1>2. CASE UNCHANGED vars
  BY <1>1, <1>2 DEF vars
<1>3. CASE ArrayNext
  BY <1>1, <1>3 DEF ArrayNext, NewArray, WriteArray
<1>4. CASE StringNext
  BY <1>1, <1>4 DEF StringNext, FromBase64, FromStringUtf8, FromUint8Array,
     UnsafeByteStringFromUint8Array, AsBase64, ReadString, AsUint8Array,
     UnsafeUint8ArrayFromByteString, UnsafeUnwrapByteString
<1>5. CASE WriterNext
  BY <1>1, <1>5 DEF WriterNext, Reset, GetResultBuffer, GetResultBufferAsByteString,
     WriteBytes, WriteCopy, WriteByteString
<1>6. CASE ReadNext
  <2>1. PICK x \in Handles :
          \/ FreeHandle(x) \/ GetBufferAsByteString(x) \/ GetBuffer(x)
          \/ \E from, to : ReadBytes(x, from, to) \/ ReadByteString(x, from, to)
    BY <1>6 DEF ReadNext
  <2>2. QED
    BY <1>1, <2>1, FreeKeepsPools, CachingKeepsPools DEF GetBuffer, ReadBytes, ReadByteString
<1>7. CASE AllocNext
  <2>1. PICK x \in Handles, d \in Decoders, alias \in BOOLEAN :
          \/ AllocEmpty(x, d, alias)
          \/ \E h \in held : AllocOverArray(x, d, alias, h)
          \/ \E treat \in BOOLEAN, bytes \in Sources : AllocOverCopy(x, d, alias, treat, bytes)
          \/ \E s \in Strings : AllocOverString(x, d, alias, s)
    BY <1>7 DEF AllocNext
  <2>2. \E buffer \in Buffers : Alloc(x, d, buffer, alias)
    <3>1. CASE AllocEmpty(x, d, alias)
      BY <3>1, BuffersType DEF AllocEmpty
    <3>2. CASE \E h \in held : AllocOverArray(x, d, alias, h)
      BY <3>2, BuffersType DEF AllocOverArray, TypeOK, HeldOK
    <3>3. ASSUME NEW treat \in BOOLEAN, NEW bytes \in Sources,
                 AllocOverCopy(x, d, alias, treat, bytes)
          PROVE  \E buffer \in Buffers : Alloc(x, d, buffer, alias)
      BY <3>3, SourcesAssumption, StoreIsFresh, BuffersType DEF AllocOverCopy, TypeOK
    <3>4. ASSUME NEW s \in Strings, AllocOverString(x, d, alias, s)
          PROVE  \E buffer \in Buffers : Alloc(x, d, buffer, alias)
      BY <3>4, DecodedString, BuffersType DEF AllocOverString
    <3>5. QED
      BY <2>1, <3>1, <3>2, <3>3, <3>4
  <2>3. QED
    BY <2>2, AllocKeepsPools
<1>8. QED
  BY <1>2, <1>3, <1>4, <1>5, <1>6, <1>7 DEF Next

-----------------------------------------------------------------------------
(* The invariant behind the bytes.  A buffer is Writable if the caller has   *)
(* an array over it or can get one from a decoder with mutable data, and    *)
(* Constant if a ByteString has it or can be made over it by a decoder with *)
(* immutable data.  No buffer is both, but for what the caller froze.       *)
Over(b, d) == decoder[d] # Null /\ decoder[d].bytes # Null /\ decoder[d].bytes.buf = b
Writable(b) ==
  \/ \E h \in held : h.view.buf = b
  \/ \E d \in Decoders : Over(b, d) /\ ~decoder[d].immutable
Constant(b) ==
  \/ \E s \in Strings : string[s] # Null /\ ~IsText(s) /\ string[s].value.view.buf = b
  \/ \E d \in Decoders : Over(b, d) /\ decoder[d].immutable
Apart == \A b \in Bufs : Writable(b) /\ Constant(b) => b \in frozen

\* The arrays the caller did not ask to be aliases are apart from each other.
CopiesApart ==
  \A h, other \in held :
    h.by # "alias" /\ other.by # "alias" /\ h.view.buf = other.view.buf => other = h

ShareInv == Apart /\ CopiesApart /\ ByteStringsNeverChange

\* What an action may do to decoders without a word on buffers.
DecodersKept ==
  \A d \in Decoders, b \in Bufs : Over(b, d)' =>
     Over(b, d) /\ decoder'[d].immutable = decoder[d].immutable

\* A new buffer is neither, and stays out of every view there was.
LEMMA NewBufferIsNobodys ==
  ASSUME TypeOK, NEW b \in Bufs, mem[b] = Null
  PROVE  ~Writable(b) /\ ~Constant(b)
<1>1. \A h \in held : h.view.buf # b
  BY DEF TypeOK, HeldOK, ViewOK
<1>2. \A d \in Decoders : ~Over(b, d)
  BY DEF TypeOK, DecodersOK, ViewOK, Over
<1>3. \A s \in Strings : string[s] # Null /\ ~IsText(s) => string[s].value.view.buf # b
  BY DEF TypeOK, StringsOK, ViewOK
<1>4. QED
  BY <1>1, <1>2, <1>3 DEF Writable, Constant

\* A step keeps Apart if what it makes Writable or Constant already was, or is
\* not the other as well, or is frozen.
LEMMA ApartFromParts ==
  ASSUME Apart, frozen \subseteq frozen',
         \A b \in Bufs : Writable(b)' => Writable(b) \/ b \in frozen' \/ ~Constant(b)',
         \A b \in Bufs : Constant(b)' => Constant(b) \/ b \in frozen' \/ ~Writable(b)'
  PROVE  Apart'
BY DEF Apart

\* ByteStrings keep their bytes where no bytes are overwritten and what changes
\* its value, or is new, has the bytes it should have.
LEMMA ValuesKept ==
  ASSUME TypeOK, ByteStringsNeverChange,
         mem' = mem \/ \E bytes \in Seq(Bytes) : Store(bytes),
         \A s \in Strings : string'[s] # Null =>
            string'[s] = string[s] \/ Content(mem', string'[s].value) = string'[s].meant
  PROVE  ByteStringsNeverChange'
<1> SUFFICES ASSUME NEW s \in Strings, string'[s] # Null
             PROVE  Content(mem', string'[s].value) = string'[s].meant
  BY DEF ByteStringsNeverChange
<1>1. CASE string'[s] = string[s]
  <2>1. /\ string[s].value \in Texts \union Arrays
        /\ Content(mem, string[s].value) = string[s].meant
    BY <1>1 DEF TypeOK, StringsOK, ByteStringsNeverChange
  <2>2. CASE IsText(s)
    BY <1>1, <2>1, <2>2 DEF Content, IsText
  <2>3. CASE ~IsText(s)
    <3>1. string[s].value.view \in Views /\ ViewOK(mem, string[s].value.view)
      BY <1>1, <2>1, <2>3 DEF TypeOK, StringsOK, Texts, Arrays, IsText
    <3>2. BytesIn(mem', string[s].value.view) = BytesIn(mem, string[s].value.view)
      BY <3>1, GoodViewsStay DEF TypeOK
    <3>3. QED
      BY <1>1, <2>1, <2>3, <3>2 DEF Content, IsText
  <2>4. QED
    BY <2>2, <2>3
<1>2. QED
  BY <1>1

\* The caller gets a new array.
LEMMA HoldingNew ==
  ASSUME TypeOK, ShareInv, NEW bytes \in Seq(Bytes), Store(bytes),
         NEW by \in {"caller", "copy", "alias"}, held' = Holding(Stored(bytes), by),
         UNCHANGED <<string, decoder, frozen>>
  PROVE  ShareInv'
<1>1. /\ Fresh \in Bufs /\ Stored(bytes).buf = Fresh
      /\ ~Writable(Fresh) /\ ~Constant(Fresh)
  BY StoreIsFresh, NewBufferIsNobodys DEF TypeOK
<1>2. \A b \in Bufs : Constant(b)' => Constant(b)
  BY DEF Constant, Over, IsText
<1>3. \A b \in Bufs : Writable(b)' => Writable(b) \/ b = Fresh
  BY <1>1 DEF Writable, Over, Holding
<1>4. Apart'
  BY <1>1, <1>2, <1>3, ApartFromParts DEF ShareInv
<1>5. CopiesApart'
  BY <1>1 DEF ShareInv, CopiesApart, Holding, Writable
<1>6. ByteStringsNeverChange'
  BY ValuesKept DEF ShareInv
<1>7. QED
  BY <1>4, <1>5, <1>6 DEF ShareInv

\* The caller gets an alias, of what it could have had or promised not to write to.
LEMMA HoldingAlias ==
  ASSUME TypeOK, ShareInv, mem' = mem, NEW v \in Views, held' = Holding(v, "alias"),
         UNCHANGED <<string, decoder>>, frozen \subseteq frozen',
         Writable(v.buf) \/ v.buf \in frozen'
  PROVE  ShareInv'
<1>1. \A b \in Bufs : Constant(b)' => Constant(b)
  BY DEF Constant, Over, IsText
<1>2. \A b \in Bufs : Writable(b)' => Writable(b) \/ b \in frozen'
  BY DEF Writable, Over, Holding
<1>3. Apart'
  BY <1>1, <1>2, ApartFromParts DEF ShareInv
<1>4. CopiesApart'
  BY DEF ShareInv, CopiesApart, Holding
<1>5. ByteStringsNeverChange'
  BY ValuesKept DEF ShareInv
<1>6. QED
  BY <1>3, <1>4, <1>5 DEF ShareInv

\* A ByteString is made: of bytes of its own, of bytes that others know to be
\* constant, or of bytes the caller promised not to write to.
LEMMA MakingArray ==
  ASSUME TypeOK, ShareInv, NEW v \in Views, Make(Array(v)),
         \/ mem' = mem /\ ViewOK(mem, v) /\ (Constant(v.buf) \/ v.buf \in frozen')
         \/ \E bytes \in Seq(Bytes) : Store(bytes) /\ v = Stored(bytes),
         held' = held, DecodersKept, frozen \subseteq frozen'
  PROVE  ShareInv'
<1>1. mem' = mem \/ \E bytes \in Seq(Bytes) : Store(bytes)
  OBVIOUS
<1>2. Constant(v.buf) \/ v.buf \in frozen' \/ ~Writable(v.buf)
  BY StoreIsFresh, NewBufferIsNobodys DEF TypeOK
<1>3. NextString \in Strings /\ string[NextString] = Null
  BY DEF Make, NextString, Unmade
<1>4. /\ string'[NextString] = New(Array(v))
      /\ \A t \in Strings : t # NextString => string'[t] = string[t]
  BY <1>3 DEF Make, TypeOK, StringsOK
<1>5. New(Array(v)).value = Array(v) /\ New(Array(v)).meant = Content(mem', Array(v))
  BY DEF New
<1>6. \A b \in Bufs : Writable(b)' => Writable(b)
  BY DEF Writable, DecodersKept
<1>7. \A b \in Bufs : Constant(b)' => Constant(b) \/ b = v.buf
  <2> SUFFICES ASSUME NEW b \in Bufs, Constant(b)' PROVE Constant(b) \/ b = v.buf
    OBVIOUS
  <2>1. CASE \E d \in Decoders : Over(b, d)' /\ decoder'[d].immutable
    BY <2>1 DEF Constant, DecodersKept
  <2>2. CASE \E s \in Strings : string'[s] # Null /\ ~IsText(s)' /\ string'[s].value.view.buf = b
    <3>1. PICK s \in Strings : string'[s] # Null /\ ~IsText(s)' /\ string'[s].value.view.buf = b
      BY <2>2
    <3>2. CASE s = NextString
      BY <1>4, <1>5, <3>1, <3>2 DEF Array
    <3>3. CASE s # NextString
      BY <1>4, <3>1, <3>3 DEF Constant, IsText
    <3>4. QED
      BY <3>2, <3>3
  <2>3. QED
    BY <2>1, <2>2 DEF Constant
<1>8. Apart'
  BY <1>2, <1>6, <1>7, ApartFromParts DEF ShareInv
<1>9. CopiesApart'
  BY DEF ShareInv, CopiesApart
<1>10. ByteStringsNeverChange'
  <2>1. \A s \in Strings : string'[s] = string[s] \/ Content(mem', string'[s].value) = string'[s].meant
    BY <1>4, <1>5
  <2>2. QED
    BY <1>1, <2>1, ValuesKept DEF ShareInv
<1>11. QED
  BY <1>8, <1>9, <1>10 DEF ShareInv

\* Nothing is made but bytes nobody sees, and decoders only forget.
LEMMA Quiet ==
  ASSUME TypeOK, ShareInv, UNCHANGED <<string, caller>>, DecodersKept,
         mem' = mem \/ \E bytes \in Seq(Bytes) : Store(bytes)
  PROVE  ShareInv'
<1>1. held' = held /\ frozen' = frozen
  BY DEF caller
<1>2. \A b \in Bufs : (Writable(b)' => Writable(b)) /\ (Constant(b)' => Constant(b))
  BY <1>1 DEF Writable, Constant, DecodersKept, IsText
<1>3. Apart'
  BY <1>1, <1>2, ApartFromParts DEF ShareInv
<1>4. CopiesApart' /\ ByteStringsNeverChange'
  BY <1>1, ValuesKept DEF ShareInv, CopiesApart
<1>5. QED
  BY <1>3, <1>4 DEF ShareInv

\* A decoder that is left alone keeps what it is over.
LEMMA SameDecodersKept == decoder' = decoder => DecodersKept
BY DEF DecodersKept, Over

\* A ByteString that becomes an array has a buffer of its own, or had it before.
LEMMA DecodedShares ==
  ASSUME TypeOK, ShareInv, NEW s \in Strings, InternalBytesUnsafe(s)
  PROVE  /\ ByteStringsNeverChange'
         /\ ViewDecoded(s).buf \in Bufs
         /\ Constant(ViewDecoded(s).buf) \/ ~Writable(ViewDecoded(s).buf)
         /\ \A b \in Bufs : \A t \in Strings :
              string'[t] # Null /\ ~IsText(t)' /\ string'[t].value.view.buf = b =>
                 Constant(b) \/ b = ViewDecoded(s).buf
<1>1. /\ \A t \in Strings : t # s => string'[t] = string[t]
      /\ string'[s].value = Array(ViewDecoded(s)) /\ string'[s].meant = string[s].meant
      /\ string[s] # Null /\ ViewDecoded(s) \in Views
      /\ BytesIn(mem', ViewDecoded(s)) = Content(mem, string[s].value)
      /\ mem' = mem \/ \E bytes \in Seq(Bytes) : Store(bytes)
  BY DecodedString
<1>2. Content(mem', string'[s].value) = string'[s].meant
  BY <1>1 DEF ShareInv, ByteStringsNeverChange, Content, Array
<1>3. ByteStringsNeverChange'
  BY <1>1, <1>2, ValuesKept DEF ShareInv
<1>4. Constant(ViewDecoded(s).buf) \/ ~Writable(ViewDecoded(s).buf)
  <2>1. CASE IsText(s)
    <3>1. /\ string[s].value.bytes \in Seq(Bytes) /\ Store(string[s].value.bytes)
          /\ ViewDecoded(s) = Stored(string[s].value.bytes)
      BY <2>1, DecodedString DEF IsText, InternalBytesUnsafe, ViewDecoded
    <3>2. QED
      BY <3>1, StoreIsFresh, NewBufferIsNobodys DEF TypeOK
  <2>2. CASE ~IsText(s)
    BY <1>1, <2>2 DEF ViewDecoded, Constant
  <2>3. QED
    BY <2>1, <2>2
<1>5. ASSUME NEW b \in Bufs, NEW t \in Strings,
             string'[t] # Null, ~IsText(t)', string'[t].value.view.buf = b
      PROVE  Constant(b) \/ b = ViewDecoded(s).buf
  <2>1. CASE t = s
    BY <1>1, <1>5, <2>1 DEF Array
  <2>2. CASE t # s
    BY <1>1, <1>5, <2>2 DEF Constant, IsText
  <2>3. QED
    BY <2>1, <2>2
<1>6. QED
  BY <1>1, <1>3, <1>4, <1>5 DEF Views

\* So it may be read, given to the writer, or out of hand to be frozen.
LEMMA DecodedStays ==
  ASSUME TypeOK, ShareInv, NEW s \in Strings, InternalBytesUnsafe(s), decoder' = decoder,
         \/ UNCHANGED caller
         \/ /\ held' = Holding(ViewDecoded(s), "alias")
            /\ frozen' = frozen \union {ViewDecoded(s).buf}
  PROVE  ShareInv'
<1> DEFINE v == ViewDecoded(s)
<1>1. /\ ByteStringsNeverChange' /\ v.buf \in Bufs
      /\ Constant(v.buf) \/ ~Writable(v.buf)
      /\ \A b \in Bufs : \A t \in Strings :
           string'[t] # Null /\ ~IsText(t)' /\ string'[t].value.view.buf = b =>
              Constant(b) \/ b = v.buf
  BY DecodedShares
<1>2. \/ held' = held /\ frozen' = frozen
      \/ held' = Holding(v, "alias") /\ frozen' = frozen \union {v.buf}
  BY DEF caller
<1> HIDE DEF v
<1>3. \A b \in Bufs : Constant(b)' => Constant(b) \/ b = v.buf
  BY <1>1 DEF Constant, Over
<1>4. \A b \in Bufs : Writable(b)' => Writable(b) \/ b \in frozen'
  BY <1>2 DEF Writable, Over, Holding
<1>5. Apart'
  BY <1>1, <1>2, <1>3, <1>4 DEF ShareInv, Apart
<1>6. CopiesApart'
  BY <1>2 DEF ShareInv, CopiesApart, Holding
<1>7. QED
  BY <1>1, <1>5, <1>6 DEF ShareInv

\* The copy that asUint8Array makes is apart from the ByteString.
LEMMA CopyOfString ==
  ASSUME TypeOK, ShareInv, NEW s \in Strings, AsUint8Array(s)
  PROVE  ShareInv'
<1> DEFINE u == ViewDecoded(s)
<1>1. /\ \A b \in Bufs : mem[b] # Null => mem'[b] = mem[b]
      /\ u \in Views
      /\ BytesIn(mem', u) = Content(mem, string[s].value)
      /\ mem[u.buf] = Null \/ (~IsText(s) /\ u = string[s].value.view)
      /\ \A t \in Strings : t # s => string'[t] = string[t]
      /\ string'[s].value = Array(u) /\ string'[s].meant = string[s].meant
  BY AsUint8ArrayOK
<1>2. PICK copy \in Bufs, v \in Views :
        mem[copy] = Null /\ v.buf = copy /\ held' = Holding(v, "copy") /\ v.buf # u.buf
  BY AsUint8ArrayOK
<1> HIDE DEF u
<1>3. string[s] # Null /\ frozen' = frozen /\ decoder' = decoder
  BY DEF AsUint8Array, machines
<1>4. ~Writable(copy) /\ ~Constant(copy)
  BY <1>2, NewBufferIsNobodys
<1>5. Constant(u.buf) \/ ~Writable(u.buf)
  <2>1. u.buf \in Bufs
    BY <1>1 DEF Views
  <2>2. CASE mem[u.buf] = Null
    BY <2>1, <2>2, NewBufferIsNobodys
  <2>3. CASE ~IsText(s) /\ u = string[s].value.view
    BY <1>3, <2>3 DEF Constant
  <2>4. QED
    BY <1>1, <2>2, <2>3
<1>6. \A b \in Bufs : Writable(b)' => Writable(b) \/ b = copy
  BY <1>2, <1>3 DEF Writable, Over, Holding
<1>7. ASSUME NEW b \in Bufs, Constant(b)' PROVE Constant(b) \/ b = u.buf
  <2>1. CASE \E d \in Decoders : Over(b, d)' /\ decoder'[d].immutable
    BY <1>3, <2>1 DEF Constant, Over
  <2>2. CASE \E t \in Strings : string'[t] # Null /\ ~IsText(t)' /\ string'[t].value.view.buf = b
    <3>1. PICK t \in Strings : string'[t] # Null /\ ~IsText(t)' /\ string'[t].value.view.buf = b
      BY <2>2
    <3>2. CASE t = s
      BY <1>1, <3>1, <3>2 DEF Array
    <3>3. CASE t # s
      BY <1>1, <3>1, <3>3 DEF Constant, IsText
    <3>4. QED
      BY <3>2, <3>3
  <2>3. QED
    BY <1>7, <2>1, <2>2 DEF Constant
<1>8. Apart'
  BY <1>2, <1>3, <1>4, <1>5, <1>6, <1>7 DEF ShareInv, Apart
<1>9. CopiesApart'
  BY <1>2, <1>4 DEF ShareInv, CopiesApart, Holding, Writable
<1>10. ByteStringsNeverChange'
  <2> SUFFICES ASSUME NEW t \in Strings, string'[t] # Null
               PROVE  Content(mem', string'[t].value) = string'[t].meant
    BY DEF ByteStringsNeverChange
  <2>1. CASE t = s
    BY <1>1, <1>3, <2>1 DEF ShareInv, ByteStringsNeverChange, Content, Array
  <2>2. CASE t # s
    <3>1. /\ string'[t] = string[t] /\ string[t].value \in Texts \union Arrays
          /\ Content(mem, string[t].value) = string[t].meant
      BY <1>1, <2>2 DEF TypeOK, StringsOK, ShareInv, ByteStringsNeverChange
    <3>2. CASE IsText(t)
      BY <3>1, <3>2 DEF Content, IsText
    <3>3. CASE ~IsText(t)
      <4>1. string[t].value.view \in Views /\ ViewOK(mem, string[t].value.view)
        BY <2>2, <3>1, <3>3 DEF TypeOK, StringsOK, Texts, Arrays, IsText
      <4>2. mem'[string[t].value.view.buf] = mem[string[t].value.view.buf]
        BY <1>1, <4>1 DEF ViewOK, Views
      <4>3. QED
        BY <3>1, <3>3, <4>2 DEF Content, IsText, BytesIn
    <3>4. QED
      BY <3>2, <3>3
  <2>3. QED
    BY <2>1, <2>2
<1>11. QED
  BY <1>8, <1>9, <1>10 DEF ShareInv

\* A ByteString that is text has no buffer; one that becomes text lets go of it.
LEMMA TextShares ==
  ASSUME TypeOK, ShareInv, mem' = mem, UNCHANGED <<caller, decoder>>, NEW t \in Strings,
         string'[t].value.form = "text",
         Content(mem', string'[t].value) = string'[t].meant,
         \A s \in Strings : s # t => string'[s] = string[s]
  PROVE  ShareInv'
<1>1. held' = held /\ frozen' = frozen /\ decoder' = decoder
  BY DEF caller
<1>2. \A b \in Bufs : Writable(b)' => Writable(b)
  BY <1>1 DEF Writable, Over
<1>3. \A b \in Bufs : Constant(b)' => Constant(b)
  BY <1>1 DEF Constant, Over, IsText
<1>4. Apart'
  BY <1>1, <1>2, <1>3, ApartFromParts DEF ShareInv
<1>5. CopiesApart'
  BY <1>1 DEF ShareInv, CopiesApart
<1>6. ByteStringsNeverChange'
  BY ValuesKept DEF ShareInv
<1>7. QED
  BY <1>4, <1>5, <1>6 DEF ShareInv

\* A decoder that is set up is over what it was over, or over its new data.
LEMMA AllocOver ==
  ASSUME TypeOK, NEW x \in Handles, NEW d \in Decoders, NEW alias \in BOOLEAN,
         NEW buffer \in Buffers, Alloc(x, d, buffer, alias)
  PROVE  \A e \in Decoders, b \in Bufs : Over(b, e)' =>
           \/ Over(b, e) /\ decoder'[e].immutable = decoder[e].immutable
           \/ /\ buffer # NoBuffer /\ b = buffer.bytes.buf
              /\ decoder'[e].immutable = buffer.immutable
<1> DEFINE old == IF decoder[d] = Null THEN Blank ELSE decoder[d]
           made == Initialized(old, buffer, alias)
<1>1. old \in Setups /\ (decoder[d] = Null => old.bytes = Null)
  BY BlankType DEF TypeOK, DecodersOK
<1>2. /\ buffer = NoBuffer => made.bytes = old.bytes /\ made.immutable = old.immutable
      /\ buffer # NoBuffer => made.bytes = buffer.bytes /\ made.immutable = buffer.immutable
  BY <1>1, InitializedType
<1>3. decoder' = [decoder EXCEPT ![d] = made]
  BY DEF Alloc
<1>4. decoder[d] # Null => old = decoder[d]
  OBVIOUS
<1> HIDE DEF old, made
<1>5. ASSUME NEW e \in Decoders, NEW b \in Bufs, Over(b, e)'
      PROVE  \/ Over(b, e) /\ decoder'[e].immutable = decoder[e].immutable
             \/ /\ buffer # NoBuffer /\ b = buffer.bytes.buf
                /\ decoder'[e].immutable = buffer.immutable
  <2>1. CASE e # d
    BY <1>3, <1>5, <2>1 DEF Over, TypeOK, DecodersOK
  <2>2. CASE e = d
    <3>1. decoder'[e] = made /\ made.bytes # Null /\ made.bytes.buf = b
      BY <1>3, <1>5, <2>2 DEF Over, TypeOK, DecodersOK
    <3>2. QED
      BY <1>1, <1>2, <1>4, <2>2, <3>1 DEF Over
  <2>3. QED
    BY <2>1, <2>2
<1>6. QED
  BY <1>5

\* Setting up shares nothing that was not shared, if the new data are what the
\* caller has, or new, when they are mutable, and a ByteString's when they are not.
LEMMA AllocShares ==
  ASSUME TypeOK, ShareInv, NEW x \in Handles, NEW d \in Decoders, NEW alias \in BOOLEAN,
         NEW buffer \in Buffers, Alloc(x, d, buffer, alias), buffer # NoBuffer,
         buffer.bytes \in Views,
         IF buffer.immutable
         THEN Constant(buffer.bytes.buf) \/ ~Writable(buffer.bytes.buf)
         ELSE Writable(buffer.bytes.buf) \/ ~Constant(buffer.bytes.buf),
         \A b \in Bufs : \A t \in Strings :
            string'[t] # Null /\ ~IsText(t)' /\ string'[t].value.view.buf = b =>
               Constant(b) \/ (buffer.immutable /\ b = buffer.bytes.buf),
         ByteStringsNeverChange'
  PROVE  ShareInv'
<1> DEFINE vb == buffer.bytes.buf
<1>1. \A e \in Decoders, b \in Bufs : Over(b, e)' =>
         \/ Over(b, e) /\ decoder'[e].immutable = decoder[e].immutable
         \/ b = vb /\ decoder'[e].immutable = buffer.immutable
  BY AllocOver
<1>2. held' = held /\ frozen' = frozen
  BY DEF Alloc, caller
<1>3. vb \in Bufs
  BY DEF Views
<1> HIDE DEF vb
<1>4. \A b \in Bufs : Writable(b)' => Writable(b) \/ (b = vb /\ ~buffer.immutable)
  BY <1>1, <1>2 DEF Writable
<1>5. \A b \in Bufs : Constant(b)' => Constant(b) \/ (b = vb /\ buffer.immutable)
  BY <1>1 DEF Constant, vb
<1>6. IF buffer.immutable THEN Constant(vb) \/ ~Writable(vb) ELSE Writable(vb) \/ ~Constant(vb)
  BY DEF vb
<1>7. Apart'
  BY <1>2, <1>3, <1>4, <1>5, <1>6 DEF ShareInv, Apart
<1>8. CopiesApart'
  BY <1>2 DEF ShareInv, CopiesApart
<1>9. QED
  BY <1>7, <1>8 DEF ShareInv

\* Setting readers and decoders up shares nothing that was apart.
LEMMA AllocStepShares == TypeOK /\ ShareInv /\ AllocNext => ShareInv'
<1> SUFFICES ASSUME TypeOK, ShareInv, NEW x \in Handles, NEW d \in Decoders, NEW alias \in BOOLEAN,
                    \/ AllocEmpty(x, d, alias)
                    \/ \E h \in held : AllocOverArray(x, d, alias, h)
                    \/ \E treat \in BOOLEAN, bytes \in Sources :
                          AllocOverCopy(x, d, alias, treat, bytes)
                    \/ \E s \in Strings : AllocOverString(x, d, alias, s)
             PROVE  ShareInv'
  BY DEF AllocNext
<1>1. ASSUME AllocEmpty(x, d, alias) PROVE ShareInv'
  <2>1. Alloc(x, d, NoBuffer, alias) /\ NoBuffer \in Buffers /\ mem' = mem /\ string' = string
    BY <1>1, BuffersType DEF AllocEmpty, strings
  <2>2. DecodersKept
    BY <2>1, AllocOver DEF DecodersKept
  <2>3. QED
    BY <2>1, <2>2, Quiet DEF Alloc
<1>2. ASSUME UNCHANGED string PROVE
        \A b \in Bufs : \A t \in Strings :
          string'[t] # Null /\ ~IsText(t)' /\ string'[t].value.view.buf = b => Constant(b)
  BY <1>2 DEF Constant, IsText
<1>3. ASSUME NEW h \in held, AllocOverArray(x, d, alias, h) PROVE ShareInv'
  <2>1. h.view \in Views
    BY DEF TypeOK, HeldOK
  <2>2. Writable(h.view.buf)
    BY DEF Writable
  <2>3. mem' = mem /\ string' = string /\ Alloc(x, d, BufferOverArray(h.view), alias)
    BY <1>3 DEF AllocOverArray, strings
  <2>4. ByteStringsNeverChange'
    BY <2>3, ValuesKept DEF ShareInv
  <2>5. QED
    BY <1>2, <2>1, <2>2, <2>3, <2>4, BuffersType, AllocShares
<1>4. ASSUME NEW treat \in BOOLEAN, NEW bytes \in Sources, AllocOverCopy(x, d, alias, treat, bytes)
      PROVE  ShareInv'
  <2> DEFINE v == Stored(bytes)
  <2>1. /\ bytes \in Seq(Bytes) /\ Store(bytes) /\ string' = string
        /\ Alloc(x, d, BufferOverCopy(v, treat), alias)
    BY <1>4, SourcesAssumption DEF AllocOverCopy
  <2>2. v \in Views /\ ~Writable(v.buf) /\ ~Constant(v.buf)
    BY <2>1, StoreIsFresh, NewBufferIsNobodys DEF TypeOK
  <2>3. ByteStringsNeverChange'
    BY <2>1, ValuesKept DEF ShareInv
  <2> HIDE DEF v
  <2>4. QED
    BY <1>2, <2>1, <2>2, <2>3, BuffersType, AllocShares
<1>5. ASSUME NEW s \in Strings, AllocOverString(x, d, alias, s) PROVE ShareInv'
  <2> DEFINE v == ViewDecoded(s)
  <2>1. InternalBytesUnsafe(s) /\ Alloc(x, d, BufferOverString(v, s), alias)
    BY <1>5 DEF AllocOverString
  <2>2. v \in Views
    BY <2>1, DecodedString
  <2>3. /\ ByteStringsNeverChange'
        /\ Constant(v.buf) \/ ~Writable(v.buf)
        /\ \A b \in Bufs : \A t \in Strings :
             string'[t] # Null /\ ~IsText(t)' /\ string'[t].value.view.buf = b =>
                Constant(b) \/ b = v.buf
    BY <2>1, DecodedShares
  <2> HIDE DEF v
  <2>4. QED
    BY <2>1, <2>2, <2>3, BuffersType, AllocShares
<1>6. QED
  BY <1>1, <1>3, <1>4, <1>5

\* What the caller writes to, no ByteString has: it is not frozen, so it is not
\* Constant.
LEMMA WritingShares ==
  ASSUME TypeOK, ShareInv, NEW h \in held, NEW i, NEW y, WriteArray(h, i, y)
  PROVE  ShareInv'
<1>1. h.view.buf \in Bufs /\ h.view.buf \notin frozen
  BY DEF WriteArray, TypeOK, HeldOK, Views
<1>2. ~Constant(h.view.buf)
  BY <1>1 DEF ShareInv, Apart, Writable
<1>3. held' = held /\ frozen' = frozen /\ decoder' = decoder /\ string' = string
  BY DEF WriteArray, caller, machines
<1>4. \A b \in Bufs : b # h.view.buf => mem'[b] = mem[b]
  BY DEF WriteArray, TypeOK
<1>5. Apart' /\ CopiesApart'
  BY <1>3 DEF ShareInv, Apart, CopiesApart, Writable, Constant, Over, IsText
<1>6. ByteStringsNeverChange'
  <2> SUFFICES ASSUME NEW s \in Strings, string[s] # Null
               PROVE  Content(mem', string[s].value) = Content(mem, string[s].value)
    BY <1>3 DEF ShareInv, ByteStringsNeverChange
  <2>1. CASE IsText(s)
    BY <2>1 DEF Content, IsText
  <2>2. CASE ~IsText(s)
    <3>1. string[s].value.view \in Views
      BY <2>2 DEF TypeOK, StringsOK, Texts, Arrays, IsText
    <3>2. string[s].value.view.buf # h.view.buf /\ string[s].value.view.buf \in Bufs
      BY <1>2, <2>2, <3>1 DEF Constant, Views
    <3>3. QED
      BY <1>4, <2>2, <3>2 DEF Content, IsText, BytesIn
  <2>3. QED
    BY <2>1, <2>2
<1>7. QED
  BY <1>5, <1>6 DEF ShareInv

\* Nor does what the caller does with its own arrays,
LEMMA ArrayStepShares == TypeOK /\ ShareInv /\ ArrayNext => ShareInv'
<1> SUFFICES ASSUME TypeOK, ShareInv, ArrayNext PROVE ShareInv'
  OBVIOUS
<1>1. ASSUME NEW bytes \in Sources, NewArray(bytes) PROVE ShareInv'
  BY <1>1, SourcesAssumption, HoldingNew DEF NewArray, machines
<1>2. QED
  BY <1>1, WritingShares DEF ArrayNext

\* with ByteStrings,
LEMMA StringStepShares == TypeOK /\ ShareInv /\ StringNext => ShareInv'
<1> SUFFICES ASSUME TypeOK, ShareInv, StringNext PROVE ShareInv'
  OBVIOUS
<1>1. ASSUME NEW bytes \in Sources, FromBase64(bytes) PROVE ShareInv'
  <2>1. NextString \in Strings /\ string[NextString] = Null
    BY <1>1 DEF FromBase64, Make, NextString, Unmade
  <2>2. /\ string'[NextString] = New(Text(bytes))
        /\ \A t \in Strings : t # NextString => string'[t] = string[t]
    BY <1>1, <2>1 DEF FromBase64, Make, TypeOK, StringsOK
  <2>3. /\ string'[NextString].value.form = "text"
        /\ Content(mem', string'[NextString].value) = string'[NextString].meant
    BY <2>2 DEF New, Text
  <2>4. QED
    BY <1>1, <2>1, <2>2, <2>3, TextShares DEF FromBase64, machines
<1>2. ASSUME NEW bytes \in Seq(Bytes), Store(bytes), Make(Array(Stored(bytes))),
             UNCHANGED <<caller, machines>>
      PROVE  ShareInv'
  BY <1>2, StoreIsFresh, MakingArray, SameDecodersKept DEF caller, machines, TypeOK
<1>3. ASSUME NEW bytes \in Sources, FromStringUtf8(bytes) PROVE ShareInv'
  BY <1>2, <1>3, SourcesAssumption DEF FromStringUtf8
<1>4. ASSUME NEW h \in held, FromUint8Array(h) PROVE ShareInv'
  <2>1. BytesIn(mem, h.view) \in Seq(Bytes)
    BY BytesInAreBytes DEF HeldOK, TypeOK
  <2>2. QED
    BY <1>2, <1>4, <2>1 DEF FromUint8Array
<1>5. ASSUME NEW h \in held, UnsafeByteStringFromUint8Array(h) PROVE ShareInv'
  <2>1. h.view \in Views /\ ViewOK(mem, h.view)
    BY DEF HeldOK, TypeOK
  <2>2. QED
    BY <1>5, <2>1, MakingArray, SameDecodersKept DEF UnsafeByteStringFromUint8Array, machines
<1>6. ASSUME NEW s \in Strings, AsBase64(s) PROVE ShareInv'
  <2> DEFINE text == Text(Content(mem, string[s].value))
  <2>1. mem' = mem /\ string[s] \in Made /\ string[s] # Null
    BY <1>6 DEF AsBase64, TypeOK, StringsOK
  <2>2. string' = [string EXCEPT ![s].value = text]
    BY <1>6 DEF AsBase64
  <2>3. text.form = "text" /\ Content(mem, text) = string[s].meant
    BY <2>1 DEF Text, Content, ShareInv, ByteStringsNeverChange
  <2> HIDE DEF text
  <2>4. /\ string'[s].value = text /\ string'[s].meant = string[s].meant
        /\ \A t \in Strings : t # s => string'[t] = string[t]
    BY <2>1, <2>2 DEF TypeOK, StringsOK
  <2>5. QED
    BY <1>6, <2>1, <2>3, <2>4, TextShares DEF AsBase64, machines
<1>7. ASSUME NEW s \in Strings, ReadString(s) PROVE ShareInv'
  BY <1>7, DecodedStays DEF ReadString, machines
<1>8. ASSUME NEW s \in Strings, UnsafeUint8ArrayFromByteString(s) PROVE ShareInv'
  BY <1>8, DecodedStays DEF UnsafeUint8ArrayFromByteString, machines
<1>9. ASSUME NEW s \in Strings, UnsafeUnwrapByteString(s) PROVE ShareInv'
  <2>1. string[s].value.view \in Views
    BY <1>9 DEF UnsafeUnwrapByteString, TypeOK, StringsOK, Texts, Arrays, IsText
  <2>2. QED
    BY <1>9, <2>1, HoldingAlias DEF UnsafeUnwrapByteString, strings, machines
<1>10. QED
  BY <1>1, <1>3, <1>4, <1>5, <1>6, <1>7, <1>8, <1>9, CopyOfString DEF StringNext

\* with readers,
LEMMA ReadStepShares == TypeOK /\ PoolInv /\ ShareInv /\ ReadNext => ShareInv'
<1> SUFFICES ASSUME TypeOK, PoolInv, ShareInv, NEW x \in Handles,
                    \/ FreeHandle(x)
                    \/ GetBuffer(x)
                    \/ GetBufferAsByteString(x)
                    \/ \E from, to : ReadBytes(x, from, to) \/ ReadByteString(x, from, to)
             PROVE  ShareInv'
  BY DEF ReadNext
<1>1. ASSUME FreeHandle(x) PROVE ShareInv'
  <2>1. \A d \in Decoders : decoder'[d] = decoder[d] \/ decoder'[d] = Blank
    BY <1>1 DEF FreeHandle, TypeOK, DecodersOK
  <2>2. DecodersKept
    BY <2>1, BlankType DEF DecodersKept, Over
  <2>3. QED
    BY <1>1, <2>2, Quiet DEF FreeHandle, strings
<1>2. ASSUME Live(x), Setup(x).bytes # Null
      PROVE  /\ Setup(x).bytes \in Views /\ ViewOK(mem, Setup(x).bytes)
             /\ IF Setup(x).immutable THEN Constant(Setup(x).bytes.buf)
                ELSE Writable(Setup(x).bytes.buf)
  <2>1. /\ DecoderOf(x) \in Decoders /\ decoder[DecoderOf(x)] # Null
        /\ Setup(x).bytes \in Views /\ ViewOK(mem, Setup(x).bytes)
    BY <1>2, LiveHasDecoder DEF Setup
  <2>2. Over(Setup(x).bytes.buf, DecoderOf(x))
    BY <1>2, <2>1 DEF Over, Setup
  <2>3. QED
    BY <2>1, <2>2 DEF Constant, Writable, Setup
<1>3. ASSUME GetBuffer(x) PROVE ShareInv'
  BY <1>2, <1>3, HoldingAlias DEF GetBuffer, strings, machines
<1>4. ASSUME GetBufferAsByteString(x) PROVE ShareInv'
  <2>1. /\ Setup(x).bytes \in Views /\ ViewOK(mem, Setup(x).bytes)
        /\ Constant(Setup(x).bytes.buf)
    BY <1>2, <1>4 DEF GetBufferAsByteString
  <2>2. DecoderOf(x) \in Decoders /\ decoder[DecoderOf(x)] \in Setups
    BY <1>4, LiveHasDecoder DEF GetBufferAsByteString, Setup
  <2>3. \A d \in Decoders :
           decoder[d] \in Setups =>
             decoder'[d].bytes = decoder[d].bytes /\ decoder'[d].immutable = decoder[d].immutable
    BY <1>4, <2>2 DEF GetBufferAsByteString, TypeOK, DecodersOK, Setups
  <2>4. \A d \in Decoders : decoder[d] = Null => decoder'[d] = Null
    BY <1>4, <2>2, NullAssumption DEF GetBufferAsByteString, TypeOK, DecodersOK
  <2>5. DecodersKept
    BY <2>3, <2>4 DEF DecodersKept, Over, TypeOK, DecodersOK
  <2>6. QED
    BY <1>4, <2>1, <2>5, MakingArray DEF GetBufferAsByteString, caller
<1>5. ASSUME NEW from, NEW to, ReadBytes(x, from, to) PROVE ShareInv'
  <2> DEFINE sub == Subarray(x, from, to)
             bytes == BytesIn(mem, sub)
             by == IF given[x].aliasBytesFields THEN "alias" ELSE "copy"
  <2>1. /\ sub \in Views /\ sub.buf = Setup(x).bytes.buf /\ bytes \in Seq(Bytes)
        /\ Live(x) /\ Setup(x).bytes # Null
    BY <1>5, LiveHasDecoder, SubarrayOK DEF ReadBytes, Block
  <2>2. \/ MaySubarray(x) /\ held' = Holding(sub, by) /\ mem' = mem
        \/ Store(bytes) /\ held' = Holding(Stored(bytes), by)
    BY <1>5 DEF ReadBytes
  <2>3. UNCHANGED <<string, decoder, frozen>>
    BY <1>5 DEF ReadBytes, machines
  <2>4. by \in {"caller", "copy", "alias"}
    OBVIOUS
  <2>5. MaySubarray(x) => by = "alias" /\ Writable(Setup(x).bytes.buf)
    <3>1. Setup(x) \in Setups /\ given[x] \in Setups
      BY <2>1, LiveHasDecoder DEF TypeOK, HandlesOK, Live
    <3>2. Setup(x).aliasBytesFields = given[x].aliasBytesFields
      BY <2>1, <3>1 DEF PoolInv, LiveHandles, WithoutCache, Setups
    <3>3. QED
      BY <1>2, <2>1, <3>2 DEF MaySubarray
  <2> HIDE DEF sub, bytes, by
  <2>6. CASE MaySubarray(x) /\ held' = Holding(sub, by) /\ mem' = mem
    BY <2>1, <2>3, <2>5, <2>6, HoldingAlias
  <2>7. CASE Store(bytes) /\ held' = Holding(Stored(bytes), by)
    BY <2>1, <2>3, <2>4, <2>7, HoldingNew
  <2>8. QED
    BY <2>2, <2>6, <2>7
<1>6. ASSUME NEW from, NEW to, ReadByteString(x, from, to) PROVE ShareInv'
  <2> DEFINE sub == Subarray(x, from, to)
             bytes == BytesIn(mem, sub)
  <2>1. /\ sub \in Views /\ ViewOK(mem, sub) /\ sub.buf = Setup(x).bytes.buf
        /\ bytes \in Seq(Bytes) /\ Live(x) /\ Setup(x).bytes # Null
    BY <1>6, LiveHasDecoder, SubarrayOK DEF ReadByteString, Block
  <2>2. \/ MayAlias(x) /\ mem' = mem /\ Make(Array(sub))
        \/ Store(bytes) /\ Make(Array(Stored(bytes)))
    BY <1>6 DEF ReadByteString
  <2>3. held' = held /\ frozen' = frozen /\ DecodersKept
    BY <1>6, SameDecodersKept DEF ReadByteString, caller, machines
  <2>4. MayAlias(x) => Constant(sub.buf)
    BY <1>2, <2>1 DEF MayAlias
  <2>5. Store(bytes) => Stored(bytes) \in Views
    BY <2>1, StoreIsFresh DEF TypeOK
  <2> HIDE DEF sub, bytes
  <2>6. QED
    BY <2>1, <2>2, <2>3, <2>4, <2>5, MakingArray
<1>7. QED
  BY <1>1, <1>3, <1>4, <1>5, <1>6

\* or with a writer.
LEMMA WriterStepShares == TypeOK /\ ShareInv /\ WriterNext => ShareInv'
<1> SUFFICES ASSUME TypeOK, ShareInv, WriterNext PROVE ShareInv'
  OBVIOUS
<1>1. ASSUME UNCHANGED <<string, caller, machines>>,
             mem' = mem \/ \E bytes \in Seq(Bytes) : Store(bytes)
      PROVE  ShareInv'
  BY <1>1, Quiet, SameDecodersKept DEF machines
<1>2. CASE Reset \/ \E h \in held : WriteBytes(h)
  BY <1>1, <1>2 DEF Reset, WriteBytes, strings
<1>3. CASE \E bytes \in Sources : WriteCopy(bytes)
  BY <1>1, <1>3, SourcesAssumption DEF WriteCopy
<1>4. CASE \E s \in Strings : WriteByteString(s)
  BY <1>4, DecodedStays DEF WriteByteString, machines
<1>5. CASE GetResultBuffer
  BY <1>5, HoldingNew DEF GetResultBuffer, machines
<1>6. CASE GetResultBufferAsByteString
  <2> DEFINE bytes == Flat
  <2>1. /\ bytes \in Seq(Bytes) /\ Store(bytes) /\ Make(Array(Stored(bytes)))
        /\ held' = held /\ frozen' = frozen /\ decoder' = decoder
    BY <1>6 DEF GetResultBufferAsByteString, caller, machines
  <2> HIDE DEF bytes
  <2>2. Stored(bytes) \in Views
    BY <2>1, StoreIsFresh DEF TypeOK
  <2>3. QED
    BY <2>1, <2>2, MakingArray, SameDecodersKept
<1>7. QED
  BY <1>2, <1>3, <1>4, <1>5, <1>6 DEF WriterNext

\* So no step does.
LEMMA ShareStep == TypeOK /\ PoolInv /\ ShareInv /\ [Next]_vars => ShareInv'
<1> SUFFICES ASSUME TypeOK, PoolInv, ShareInv, [Next]_vars PROVE ShareInv'
  OBVIOUS
<1>1. CASE UNCHANGED vars
  BY <1>1, Quiet, SameDecodersKept DEF vars, strings, machines
<1>2. QED
  BY <1>1, ArrayStepShares, StringStepShares, AllocStepShares, ReadStepShares, WriterStepShares
  DEF Next

-----------------------------------------------------------------------------
IInv == TypeOK /\ PoolInv /\ ShareInv

\* At first there is nothing to share.
LEMMA InitOK == Init => IInv
<1> SUFFICES ASSUME Init PROVE IInv
  OBVIOUS
<1> USE DEF Init
<1>1. TypeOK
  <2>1. BlocksOK /\ HandlesOK
    BY DEF BlocksOK, HandlesOK
  <2>2. HeldOK /\ StringsOK /\ DecodersOK
    BY DEF HeldOK, StringsOK, DecodersOK
  <2>3. QED
    BY <2>1, <2>2 DEF TypeOK
<1>2. PoolInv
  BY DEF PoolInv, ReadersOwn, LiveHandles, ReaderPoolOK, DecoderPoolOK, Live, Handles
<1>3. ShareInv
  BY DEF ShareInv, Apart, CopiesApart, ByteStringsNeverChange, Writable, Constant, Over
<1>4. QED
  BY <1>1, <1>2, <1>3 DEF IInv

\* The three parts rely on each other step by step.
LEMMA Invariance == Spec => []IInv
<1>1. IInv /\ [Next]_vars => IInv'
  BY TypeStep, PoolStep, ShareStep DEF IInv
<1>2. QED
  BY InitOK, <1>1, PTL DEF Spec

\* No view of bytes ever reaches beyond them.
THEOREM TypeCorrect == Spec => []TypeOK
<1>1. IInv => TypeOK
  BY DEF IInv
<1>2. QED
  BY Invariance, <1>1, PTL

\* A ByteString keeps its bytes, whoever it shares them with and whatever the
\* caller writes to.
THEOREM ByteStringsKeepTheirBytes == Spec => []ByteStringsNeverChange
<1>1. IInv => ByteStringsNeverChange
  BY DEF IInv, ShareInv
<1>2. QED
  BY Invariance, <1>1, PTL

\* An array that is not meant to be an alias is none.
THEOREM CopiesAreCopies == Spec => []ArraysAreTheCallersOwn
<1>1. ASSUME IInv PROVE ArraysAreTheCallersOwn
  <2>1. \A h, other \in held :
           h.by # "alias" /\ other.by # "alias" /\ Shares(h, other.view) => other = h
    BY <1>1 DEF IInv, ShareInv, CopiesApart, Shares
  <2>2. ASSUME NEW h \in held, h.view.buf \notin frozen
        PROVE  ~Constant(h.view.buf)
    BY <1>1, <2>2 DEF IInv, ShareInv, Apart, Writable, TypeOK, HeldOK, Views
  <2>3. ASSUME NEW x \in Handles, Live(x), Setup(x).immutable, Setup(x).bytes # Null
        PROVE  Constant(Setup(x).bytes.buf)
    BY <1>1, <2>3, LiveHasDecoder DEF IInv, Constant, Over, Setup
  <2>4. QED
    BY <2>1, <2>2, <2>3 DEF ArraysAreTheCallersOwn, Constant, Shares
<1>2. QED
  BY Invariance, <1>1, PTL

\* Readers and decoders in use are apart, whatever the pools hold.
THEOREM ReadersStayApart == Spec => []ReadersAreApart
<1>1. IInv => ReadersAreApart
  BY PoolsKeepApart DEF IInv
<1>2. QED
  BY Invariance, <1>1, PTL
=============================================================================
