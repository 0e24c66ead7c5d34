---------------------------- MODULE KernelProofs ----------------------------
(***************************************************************************)
(* The experimental kernel, for any schema, any values and any number of   *)
(* kernels: whatever was decoded, set, copied or edited, a field is in its *)
(* bytes or in its cache or agrees in both, and so what is parsed from     *)
(* serialize() shows what the kernel shows.  The calls are described by    *)
(* what they leave of a heap that is HeapOK.                               *)
(***************************************************************************)
EXTENDS Kernel, FiniteSetTheorems, FunctionTheorems, SequenceTheorems, WellFoundedInduction, TLAPS

\* A set of natural numbers with an element has a least one: induction, in a form that
\* needs no operator parameter.
LEMMA LeastOf ==
  ASSUME NEW S \in SUBSET Nat, S # {}
  PROVE  \E n \in S : \A k \in S : n <= k
<1> DEFINE Below == {p \in Nat \X Nat : p[1] < p[2]}
<1>1. OpToRel(<, Nat) = Below
  BY DEF OpToRel
<1> HIDE DEF Below
<1>2. IsWellFoundedOn(Below, Nat)
  BY <1>1, NatLessThanWellFounded, Zenon
<1>3. PICK n \in S : \A k \in S : <<k, n>> \notin Below
  BY <1>2, WFMin
<1>4. ASSUME NEW k \in S PROVE n <= k
  <2>1. n \in Nat /\ k \in Nat /\ <<k, n>> \in Nat \X Nat
    OBVIOUS
  <2>2. ~ (k < n)
    BY <1>3, <2>1 DEF Below
  <2>3. QED
    BY <2>1, <2>2
<1>5. QED
  BY <1>3, <1>4

\* A bounded set of natural numbers with an element has a greatest one.
LEMMA GreatestOf ==
  ASSUME NEW S \in SUBSET Nat, S # {}, NEW bound \in Nat, \A n \in S : n <= bound
  PROVE  \E n \in S : \A k \in S : k <= n
<1> DEFINE T == {bound - n : n \in S}
<1>1. T \in SUBSET Nat /\ T # {}
  <2>1. \A n \in S : bound - n \in Nat
    OBVIOUS
  <2>2. PICK n \in S : TRUE
    OBVIOUS
  <2>3. bound - n \in T
    OBVIOUS
  <2>4. QED
    BY <2>1, <2>3
<1>2. PICK t \in T : \A u \in T : t <= u
  BY <1>1, LeastOf
<1>3. PICK n \in S : t = bound - n
  BY <1>2
<1>4. ASSUME NEW k \in S PROVE k <= n
  <2>1. bound - k \in T /\ k \in Nat /\ n \in Nat
    BY <1>3
  <2>2. bound - n <= bound - k
    BY <1>2, <1>3, <2>1
  <2>3. QED
    BY <2>1, <2>2
<1>5. QED
  BY <1>3, <1>4

-----------------------------------------------------------------------------
(* Induction, with the property as a set.                                  *)

\* A set of numbers with 0 and the successors of its members has them all.
LEMMA AllNumbers ==
  ASSUME NEW S, 0 \in S, \A n \in Nat : n \in S => n + 1 \in S
  PROVE  Nat \subseteq S
<1> DEFINE T == Nat \ S
<1>1. SUFFICES ASSUME T # {} PROVE FALSE
  OBVIOUS
<1>2. PICK n \in T : \A k \in T : n <= k
  BY <1>1, LeastOf
<1>3. n # 0 /\ n - 1 \in Nat /\ n - 1 \notin T
  BY <1>2
<1>4. QED
  BY <1>2, <1>3

\* A set with the empty sequence and what is made of its members by appending has them all.
LEMMA AllSequences ==
  ASSUME NEW V, NEW P, <<>> \in P,
         \A s \in Seq(V) : \A x \in V : s \in P => Append(s, x) \in P
  PROVE  Seq(V) \subseteq P
<1> DEFINE S == {n \in Nat : \A s \in Seq(V) : Len(s) = n => s \in P}
<1>1. 0 \in S
  <2>1. ASSUME NEW s \in Seq(V), Len(s) = 0 PROVE s = <<>>
    BY <2>1
  <2>2. QED
    BY <2>1
<1>2. ASSUME NEW n \in Nat, n \in S PROVE n + 1 \in S
  <2>1. ASSUME NEW s \in Seq(V), Len(s) = n + 1 PROVE s \in P
    <3> DEFINE front == SubSeq(s, 1, n)
    <3>1. front \in Seq(V) /\ Len(front) = n /\ s[n + 1] \in V /\ s = Append(front, s[n + 1])
      BY <2>1
    <3>2. front \in P
      BY <1>2, <3>1
    <3>3. QED
      BY <3>1, <3>2
  <2>2. QED
    BY <2>1
<1> HIDE DEF S
<1>3. Nat \subseteq S
  BY <1>1, <1>2, AllNumbers
<1>4. ASSUME NEW s \in Seq(V) PROVE s \in P
  <2>1. Len(s) \in S
    BY <1>3
  <2>2. QED
    BY <2>1 DEF S
<1>5. QED
  BY <1>4

LEMMA IsSeq ==
  ASSUME NEW S, NEW n \in Nat, NEW s \in [1..n -> S]
  PROVE  s \in Seq(S) /\ Len(s) = n
OBVIOUS

LEMMA SeqIs ==
  ASSUME NEW S, NEW s \in Seq(S)
  PROVE  /\ Len(s) \in Nat /\ DOMAIN s = 1..Len(s) /\ s \in [1..Len(s) -> S]
         /\ \A i \in DOMAIN s : s[i] \in S
OBVIOUS

LEMMA AppendIs ==
  ASSUME NEW S, NEW s \in Seq(S), NEW x \in S, NEW n, n = Len(s)
  PROVE  LET t == Append(s, x) IN
         /\ t \in Seq(S) /\ t = [i \in 1 .. n + 1 |-> t[i]]
         /\ t[n + 1] = x /\ \A i \in 1..n : t[i] = s[i]
<1> DEFINE t == Append(s, x)
<1>1. t \in Seq(S) /\ Len(t) = n + 1
  BY AppendProperties
<1>2. t[n + 1] = x /\ \A i \in 1..n : t[i] = s[i]
  BY AppendProperties
<1> HIDE DEF t
<1>3. t = [i \in 1 .. n + 1 |-> t[i]]
  BY <1>1
<1>4. QED
  BY <1>1, <1>2, <1>3 DEF t

-----------------------------------------------------------------------------
(* Sequences, one after the other. *)

\* f flattens the first i of the sequences ss, for each i.
FlattensUpTo(f, ss) ==
  f = [i \in 1..Len(ss) |-> IF i = 1 THEN ss[i] ELSE f[i - 1] \o ss[i]]

LEMMA FlattensAt ==
  ASSUME NEW f, NEW ss, FlattensUpTo(f, ss), NEW i \in 1..Len(ss)
  PROVE  f[i] = IF i = 1 THEN ss[i] ELSE f[i - 1] \o ss[i]
BY Zenon DEF FlattensUpTo

LEMMA FlattensExist ==
  ASSUME NEW V
  PROVE  \A ss \in Seq(Seq(V)) : \E f : FlattensUpTo(f, ss)
<1> DEFINE P == {ss \in Seq(Seq(V)) : \E f : FlattensUpTo(f, ss)}
<1>1. <<>> \in P
  <2>1. FlattensUpTo([i \in 1..0 |-> <<>>], <<>>)
    BY DEF FlattensUpTo
  <2>2. QED
    BY <2>1
<1>2. ASSUME NEW ss \in Seq(Seq(V)), NEW x \in Seq(V), ss \in P PROVE Append(ss, x) \in P
  <2> DEFINE n == Len(ss)
             cs == Append(ss, x)
  <2>1. PICK f : FlattensUpTo(f, ss)
    BY <1>2
  <2> DEFINE g == [i \in 1 .. n + 1 |->
                     IF i <= n THEN f[i] ELSE IF n = 0 THEN x ELSE f[n] \o x]
  <2>2. /\ n \in Nat /\ Len(cs) = n + 1 /\ cs[n + 1] = x /\ cs \in Seq(Seq(V))
        /\ \A i \in 1..n : cs[i] = ss[i]
    OBVIOUS
  <2> HIDE DEF cs
  <2>3. ASSUME NEW i \in 1 .. n + 1
        PROVE  g[i] = IF i = 1 THEN cs[i] ELSE g[i - 1] \o cs[i]
    <3>1. CASE i <= n
      <4>1. f[i] = IF i = 1 THEN ss[i] ELSE f[i - 1] \o ss[i]
        <5>1. i \in 1..Len(ss)
          BY <2>2, <3>1
        <5>2. QED
          BY <2>1, <5>1, FlattensAt
      <4>2. i # 1 => i - 1 \in 1..n
        BY <2>2, <3>1
      <4>3. g[i] = f[i] /\ cs[i] = ss[i] /\ (i # 1 => g[i - 1] = f[i - 1])
        BY <2>2, <3>1, <4>2
      <4>4. QED
        BY <4>1, <4>3
    <3>2. CASE i > n
      <4>1. i = n + 1 /\ (i # 1 => n \in 1..n)
        BY <2>2, <3>2
      <4>2. QED
        BY <2>2, <4>1
    <3>3. QED
      BY <2>2, <3>1, <3>2
  <2> DEFINE h == [i \in 1 .. n + 1 |-> IF i = 1 THEN cs[i] ELSE g[i - 1] \o cs[i]]
  <2>4. g = h
    BY <2>3
  <2>5. FlattensUpTo(g, cs)
    BY <2>2, <2>4 DEF FlattensUpTo
  <2>6. QED
    BY <2>2, <2>5 DEF cs
<1> HIDE DEF P
<1>3. Seq(Seq(V)) \subseteq P
  BY <1>1, <1>2, AllSequences
<1>4. QED
  BY <1>3 DEF P

\* There is one such function only, so that it says what FlattenSeq is.
LEMMA FlattenIs ==
  ASSUME NEW V, NEW ss \in Seq(Seq(V)), ss # <<>>, NEW f, FlattensUpTo(f, ss)
  PROVE  FlattenSeq(ss) = f[Len(ss)]
<1> DEFINE upTo == CHOOSE g : g = [i \in 1..Len(ss) |-> IF i = 1 THEN ss[i] ELSE g[i - 1] \o ss[i]]
<1>1. FlattensUpTo(upTo, ss)
  BY DEF FlattensUpTo
<1>2. FlattenSeq(ss) = upTo[Len(ss)]
  BY DEF FlattenSeq
<1> HIDE DEF upTo
<1> DEFINE S == {i \in Nat : i \in 1..Len(ss) => upTo[i] = f[i]}
<1>3. 0 \in S
  OBVIOUS
<1>4. ASSUME NEW i \in Nat, i \in S PROVE i + 1 \in S
  <2>1. ASSUME i + 1 \in 1..Len(ss) PROVE upTo[i + 1] = f[i + 1]
    <3>1. /\ upTo[i + 1] = IF i + 1 = 1 THEN ss[i + 1] ELSE upTo[(i + 1) - 1] \o ss[i + 1]
          /\ f[i + 1] = IF i + 1 = 1 THEN ss[i + 1] ELSE f[(i + 1) - 1] \o ss[i + 1]
      BY <1>1, <2>1, FlattensAt
    <3>2. (i + 1) - 1 = i /\ (i + 1 # 1 => i \in 1..Len(ss))
      BY <2>1
    <3>3. QED
      BY <1>4, <3>1, <3>2
  <2>2. QED
    BY <2>1
<1> HIDE DEF S
<1>5. Nat \subseteq S
  BY <1>3, <1>4, AllNumbers
<1>6. Len(ss) \in Nat /\ Len(ss) \in 1..Len(ss)
  OBVIOUS
<1>7. QED
  BY <1>2, <1>5, <1>6 DEF S

LEMMA FlattenNone == FlattenSeq(<<>>) = <<>>
BY DEF FlattenSeq

LEMMA FlattenAppend ==
  ASSUME NEW V, NEW ss \in Seq(Seq(V)), NEW x \in Seq(V)
  PROVE  FlattenSeq(Append(ss, x)) = FlattenSeq(ss) \o x
<1> DEFINE n == Len(ss)
           cs == Append(ss, x)
<1>1. /\ n \in Nat /\ Len(cs) = n + 1 /\ cs[n + 1] = x /\ cs \in Seq(Seq(V)) /\ cs # <<>>
      /\ \A i \in 1..n : cs[i] = ss[i]
  OBVIOUS
<1> HIDE DEF cs
<1>2. PICK f : FlattensUpTo(f, cs)
  BY <1>1, FlattensExist
<1>3. FlattenSeq(cs) = f[n + 1]
  BY <1>1, <1>2, FlattenIs
<1>4. f[n + 1] = IF n + 1 = 1 THEN cs[n + 1] ELSE f[(n + 1) - 1] \o cs[n + 1]
  <2>1. n + 1 \in 1..Len(cs)
    BY <1>1
  <2>2. QED
    BY <1>2, <2>1, FlattensAt
<1>5. CASE n = 0
  <2>1. ss = <<>> /\ <<>> \o x = x
    BY <1>5
  <2>2. QED
    BY <1>1, <1>3, <1>4, <1>5, <2>1, FlattenNone DEF cs
<1>6. CASE n # 0
  <2> DEFINE g == [i \in 1..n |-> f[i]]
             h == [i \in 1..n |-> IF i = 1 THEN ss[i] ELSE g[i - 1] \o ss[i]]
  <2>1. ASSUME NEW i \in 1..n PROVE g[i] = h[i]
    <3>1. i \in 1..Len(cs) /\ (i # 1 => i - 1 \in 1..n)
      BY <1>1
    <3>2. f[i] = IF i = 1 THEN cs[i] ELSE f[i - 1] \o cs[i]
      BY <1>2, <3>1, FlattensAt
    <3>3. QED
      BY <1>1, <3>1, <3>2
  <2>2. g = h
    BY <2>1
  <2>3. FlattensUpTo(g, ss)
    BY <2>2 DEF FlattensUpTo
  <2>4. FlattenSeq(ss) = g[n] /\ n \in 1..n
    <3>1. n \in 1..n /\ ss # <<>>
      BY <1>1, <1>6
    <3>2. QED
      BY <2>3, <3>1, FlattenIs
  <2>5. n + 1 # 1 /\ (n + 1) - 1 = n
    BY <1>1, <1>6
  <2>6. QED
    BY <1>1, <1>3, <1>4, <2>4, <2>5 DEF cs
<1>7. QED
  BY <1>5, <1>6

LEMMA FlattenType ==
  ASSUME NEW V, NEW ss \in Seq(Seq(V))
  PROVE  FlattenSeq(ss) \in Seq(V)
<1> DEFINE P == {s \in Seq(Seq(V)) : FlattenSeq(s) \in Seq(V)}
<1>1. <<>> \in P
  <2>1. <<>> \in Seq(Seq(V)) /\ <<>> \in Seq(V)
    OBVIOUS
  <2>2. QED
    BY <2>1, FlattenNone
<1>2. ASSUME NEW s \in Seq(Seq(V)), NEW x \in Seq(V), s \in P PROVE Append(s, x) \in P
  <2>1. Append(s, x) \in Seq(Seq(V)) /\ FlattenSeq(Append(s, x)) = FlattenSeq(s) \o x
    BY FlattenAppend
  <2>2. FlattenSeq(s) \o x \in Seq(V)
    BY <1>2, ConcatProperties
  <2>3. QED
    BY <2>1, <2>2
<1> HIDE DEF P
<1>3. Seq(Seq(V)) \subseteq P
  BY <1>1, <1>2, AllSequences
<1>4. QED
  BY <1>3 DEF P

\* Sequences of one element each.
LEMMA FlattenSingles ==
  ASSUME NEW V, NEW s \in Seq(V)
  PROVE  FlattenSeq([i \in DOMAIN s |-> <<s[i]>>]) = s
<1> DEFINE Singly(t) == [i \in DOMAIN t |-> <<t[i]>>]
           P == {t \in Seq(V) : FlattenSeq(Singly(t)) = t}
<1>1. <<>> \in P
  <2>1. Singly(<<>>) = <<>>
    OBVIOUS
  <2>2. QED
    BY <2>1, FlattenNone
<1>2. ASSUME NEW t \in Seq(V), NEW x \in V, t \in P PROVE Append(t, x) \in P
  <2> DEFINE n == Len(t)
             c == Append(t, x)
  <2>0. /\ n \in Nat /\ DOMAIN t = 1..n /\ DOMAIN c = 1 .. n + 1 /\ c[n + 1] = x
        /\ \A i \in 1..n : t[i] \in V /\ c[i] = t[i]
    OBVIOUS
  <2>a. <<x>> \in Seq(V) /\ \A i \in 1..n : <<t[i]>> \in Seq(V)
    BY <2>0
  <2> HIDE DEF c
  <2>b. Singly(t) \in [1..n -> Seq(V)]
    BY <2>0, <2>a
  <2>c. Singly(t) \in Seq(Seq(V)) /\ Len(Singly(t)) = n
    BY <2>0, <2>b, IsSeq
  <2> DEFINE one == <<x>>
             more == Append(Singly(t), one)
  <2>d. /\ more = [i \in 1 .. n + 1 |-> more[i]]
        /\ more[n + 1] = one /\ \A i \in 1..n : more[i] = Singly(t)[i]
    <3>1. one \in Seq(V)
      BY <2>a
    <3> HIDE DEF Singly, one
    <3>2. QED
      BY <2>c, <3>1, AppendIs
  <2> HIDE DEF more
  <2>e. Singly(c) = more
    <3>1. ASSUME NEW i \in 1 .. n + 1 PROVE <<c[i]>> = more[i]
      <4>1. CASE i = n + 1
        BY <2>0, <2>d, <4>1
      <4>2. CASE i # n + 1
        <5>1. i \in 1..n
          BY <2>0, <4>2
        <5>2. QED
          BY <2>0, <2>d, <5>1
      <4>3. QED
        BY <4>1, <4>2
    <3>2. Singly(c) = [i \in 1 .. n + 1 |-> <<c[i]>>]
      BY <2>0
    <3>3. QED
      BY <2>d, <3>1, <3>2
  <2>1. Singly(Append(t, x)) = Append(Singly(t), <<x>>) /\ Singly(t) \in Seq(Seq(V))
        /\ <<x>> \in Seq(V)
    BY <2>a, <2>c, <2>e DEF c, more
  <2> HIDE DEF Singly
  <2>2. FlattenSeq(Singly(Append(t, x))) = t \o <<x>>
    BY <1>2, <2>1, FlattenAppend
  <2>3. QED
    BY <2>2
<1> HIDE DEF P
<1>3. Seq(V) \subseteq P
  BY <1>1, <1>2, AllSequences
<1>4. QED
  BY <1>3 DEF P

-----------------------------------------------------------------------------
(* The index. *)

\* The entries of the field f in the bytes b.
EntriesIn(b, f) ==
  FlattenSeq([i \in DOMAIN b |-> IF b[i].field = f THEN <<b[i]>> ELSE <<>>])

FieldEntries(f) == {entry \in Entries : entry.field = f}

LEMMA EntriesType ==
  ASSUME NEW b \in Seq(Entries), NEW f
  PROVE  EntriesIn(b, f) \in Seq(FieldEntries(f))
<1>1. [i \in DOMAIN b |-> IF b[i].field = f THEN <<b[i]>> ELSE <<>>] \in Seq(Seq(FieldEntries(f)))
  <2>1. ASSUME NEW i \in DOMAIN b
        PROVE  (IF b[i].field = f THEN <<b[i]>> ELSE <<>>) \in Seq(FieldEntries(f))
    <3>1. b[i] \in Entries
      BY SeqIs
    <3>2. b[i].field = f => <<b[i]>> \in Seq(FieldEntries(f))
      <4>1. ASSUME NEW x \in FieldEntries(f) PROVE <<x>> \in Seq(FieldEntries(f))
        OBVIOUS
      <4>2. QED
        BY <3>1, <4>1 DEF FieldEntries
    <3>3. QED
      BY <3>2
  <2>2. Len(b) \in Nat /\ DOMAIN b = 1..Len(b)
    BY SeqIs
  <2>3. QED
    BY <2>1, <2>2, IsSeq
<1>2. QED
  BY <1>1, FlattenType DEF EntriesIn

LEMMA EntriesNone ==
  ASSUME NEW f
  PROVE  EntriesIn(<<>>, f) = <<>>
<1>1. [i \in DOMAIN <<>> |-> IF <<>>[i].field = f THEN << <<>>[i] >> ELSE <<>>] = <<>>
  OBVIOUS
<1>2. QED
  BY <1>1, FlattenNone DEF EntriesIn

LEMMA EntriesAppend ==
  ASSUME NEW b \in Seq(Entries), NEW x \in Entries, NEW f
  PROVE  EntriesIn(Append(b, x), f) = EntriesIn(b, f) \o (IF x.field = f THEN <<x>> ELSE <<>>)
<1> DEFINE Parts(c) == [i \in DOMAIN c |-> IF c[i].field = f THEN <<c[i]>> ELSE <<>>]
           last == IF x.field = f THEN <<x>> ELSE <<>>
           n == Len(b)
           c == Append(b, x)
<1>a. /\ n \in Nat /\ DOMAIN b = 1..n /\ DOMAIN c = 1 .. n + 1 /\ c[n + 1] = x
      /\ \A i \in 1..n : b[i] \in Entries /\ c[i] = b[i]
  OBVIOUS
<1> HIDE DEF c
<1>b. ASSUME NEW y \in Entries
      PROVE  (IF y.field = f THEN <<y>> ELSE <<>>) \in Seq(Entries)
  OBVIOUS
<1>c. Parts(b) \in [1..n -> Seq(Entries)] /\ last \in Seq(Entries)
  BY <1>a, <1>b
<1>2. Parts(b) \in Seq(Seq(Entries)) /\ last \in Seq(Entries) /\ Len(Parts(b)) = n
  BY <1>a, <1>c, IsSeq
<1> DEFINE more == Append(Parts(b), last)
<1>d. /\ more = [i \in 1 .. n + 1 |-> more[i]]
      /\ more[n + 1] = last /\ \A i \in 1..n : more[i] = Parts(b)[i]
  <2>1. n = Len(Parts(b))
    BY <1>2
  <2> HIDE DEF Parts, last, n
  <2>2. QED
    BY <1>2, <2>1, AppendIs
<1> HIDE DEF more
<1>1. Parts(Append(b, x)) = Append(Parts(b), last)
  <2> DEFINE part == [i \in 1 .. n + 1 |-> IF c[i].field = f THEN <<c[i]>> ELSE <<>>]
  <2>1. ASSUME NEW i \in 1 .. n + 1 PROVE part[i] = more[i]
    <3>1. CASE i = n + 1
      BY <1>a, <1>d, <3>1
    <3>2. CASE i # n + 1
      <4>1. i \in 1..n
        BY <1>a, <3>2
      <4>2. QED
        BY <1>a, <1>d, <4>1
    <3>3. QED
      BY <3>1, <3>2
  <2>2. Parts(c) = part
    BY <1>a
  <2>3. part = more
    BY <1>d, <2>1
  <2>4. QED
    BY <2>2, <2>3 DEF c, more
<1>3. EntriesIn(b, f) = FlattenSeq(Parts(b))
      /\ EntriesIn(Append(b, x), f) = FlattenSeq(Parts(Append(b, x)))
  BY DEF EntriesIn
<1> HIDE DEF Parts, last
<1>4. FlattenSeq(Append(Parts(b), last)) = FlattenSeq(Parts(b)) \o last
  BY <1>2, FlattenAppend
<1>5. QED
  BY <1>1, <1>3, <1>4 DEF last

LEMMA EntriesJoin ==
  ASSUME NEW b \in Seq(Entries), NEW c \in Seq(Entries), NEW f
  PROVE  EntriesIn(b \o c, f) = EntriesIn(b, f) \o EntriesIn(c, f)
<1> DEFINE P == {t \in Seq(Entries) : EntriesIn(b \o t, f) = EntriesIn(b, f) \o EntriesIn(t, f)}
<1>1. EntriesIn(b, f) \in Seq(Entries)
  <2>1. EntriesIn(b, f) \in Seq(FieldEntries(f)) /\ FieldEntries(f) \subseteq Entries
    BY EntriesType DEF FieldEntries
  <2>2. QED
    BY <2>1
<1>2. <<>> \in P
  <2>1. b \o <<>> = b /\ EntriesIn(b, f) \o <<>> = EntriesIn(b, f) /\ <<>> \in Seq(Entries)
    BY <1>1
  <2>2. QED
    BY <2>1, EntriesNone
<1>3. ASSUME NEW t \in Seq(Entries), NEW x \in Entries, t \in P PROVE Append(t, x) \in P
  <2> DEFINE one == IF x.field = f THEN <<x>> ELSE <<>>
  <2>1. b \o Append(t, x) = Append(b \o t, x) /\ b \o t \in Seq(Entries) /\ one \in Seq(Entries)
        /\ Append(t, x) \in Seq(Entries)
    OBVIOUS
  <2>2. EntriesIn(Append(b \o t, x), f) = EntriesIn(b \o t, f) \o one
        /\ EntriesIn(Append(t, x), f) = EntriesIn(t, f) \o one
    <3> DEFINE u == b \o t
    <3>1. u \in Seq(Entries)
      BY <2>1
    <3> HIDE DEF u
    <3>2. EntriesIn(Append(u, x), f) = EntriesIn(u, f) \o one
      BY <3>1, EntriesAppend
    <3>3. EntriesIn(Append(t, x), f) = EntriesIn(t, f) \o one
      BY EntriesAppend
    <3>4. QED
      BY <3>2, <3>3 DEF u
  <2>3. EntriesIn(t, f) \in Seq(Entries)
    <3>1. EntriesIn(t, f) \in Seq(FieldEntries(f)) /\ FieldEntries(f) \subseteq Entries
      BY EntriesType DEF FieldEntries
    <3>2. QED
      BY <3>1
  <2> HIDE DEF one
  <2>4. (EntriesIn(b, f) \o EntriesIn(t, f)) \o one = EntriesIn(b, f) \o (EntriesIn(t, f) \o one)
    <3> DEFINE p == EntriesIn(b, f)
               q == EntriesIn(t, f)
    <3>1. p \in Seq(Entries) /\ q \in Seq(Entries) /\ one \in Seq(Entries)
      BY <1>1, <2>1, <2>3
    <3> HIDE DEF p, q
    <3>2. (p \o q) \o one = p \o (q \o one)
      BY <3>1, SMTT(30)
    <3>3. QED
      BY <3>2 DEF p, q
  <2>5. QED
    BY <1>3, <2>1, <2>2, <2>4
<1> HIDE DEF P
<1>4. Seq(Entries) \subseteq P
  BY <1>2, <1>3, AllSequences
<1>5. QED
  BY <1>4 DEF P

\* Bytes of one field only.
LEMMA EntriesOfOne ==
  ASSUME NEW g, NEW b \in Seq(FieldEntries(g)), NEW f
  PROVE  EntriesIn(b, f) = IF f = g THEN b ELSE <<>>
<1> DEFINE P == {t \in Seq(FieldEntries(g)) : EntriesIn(t, f) = IF f = g THEN t ELSE <<>>}
<1>1. <<>> \in P
  BY EntriesNone
<1>2. ASSUME NEW t \in Seq(FieldEntries(g)), NEW x \in FieldEntries(g), t \in P
      PROVE  Append(t, x) \in P
  <2>1. t \in Seq(Entries) /\ x \in Entries /\ x.field = g /\ Append(t, x) = t \o <<x>>
        /\ Append(t, x) \in Seq(FieldEntries(g)) /\ <<>> \o <<>> = <<>>
    BY DEF FieldEntries
  <2>2. EntriesIn(Append(t, x), f) = EntriesIn(t, f) \o (IF x.field = f THEN <<x>> ELSE <<>>)
    BY <2>1, EntriesAppend
  <2>3. QED
    BY <1>2, <2>1, <2>2
<1> HIDE DEF P
<1>3. Seq(FieldEntries(g)) \subseteq P
  BY <1>1, <1>2, AllSequences
<1>4. QED
  BY <1>3 DEF P

\* Fields written one after the other: each is found again, and nothing else with it.
LEMMA EntriesOfEach ==
  ASSUME NEW parts \in Seq(Seq(Entries)),
         \A i \in 1..Len(parts) : parts[i] \in Seq(FieldEntries(i)),
         NEW f \in Nat
  PROVE  EntriesIn(FlattenSeq(parts), f) = IF f \in 1..Len(parts) THEN parts[f] ELSE <<>>
<1> DEFINE Ordered(ss) == \A i \in 1..Len(ss) : ss[i] \in Seq(FieldEntries(i))
           Found(ss) == EntriesIn(FlattenSeq(ss), f) = IF f \in 1..Len(ss) THEN ss[f] ELSE <<>>
           P == {ss \in Seq(Seq(Entries)) : Ordered(ss) => Found(ss)}
<1>1. <<>> \in P
  <2>1. EntriesIn(FlattenSeq(<<>>), f) = <<>>
    BY FlattenNone, EntriesNone
  <2>2. QED
    BY <2>1
<1>2. ASSUME NEW ss \in Seq(Seq(Entries)), NEW x \in Seq(Entries), ss \in P
      PROVE  Append(ss, x) \in P
  <2> DEFINE cs == Append(ss, x)
             n == Len(ss)
  <2>1. /\ cs \in Seq(Seq(Entries)) /\ n \in Nat /\ Len(cs) = n + 1 /\ cs[n + 1] = x
        /\ \A i \in 1..n : cs[i] = ss[i]
    OBVIOUS
  <2>2. FlattenSeq(cs) = FlattenSeq(ss) \o x /\ FlattenSeq(ss) \in Seq(Entries)
    BY FlattenAppend, FlattenType
  <2> HIDE DEF cs
  <2>3. ASSUME Ordered(cs) PROVE Found(cs)
    <3>1. Ordered(ss)
      BY <2>1, <2>3
    <3>2. EntriesIn(FlattenSeq(ss), f) = IF f \in 1..n THEN ss[f] ELSE <<>>
      BY <1>2, <3>1
    <3>3. x \in Seq(FieldEntries(n + 1))
      BY <2>1, <2>3
    <3>4. EntriesIn(x, f) = IF f = n + 1 THEN x ELSE <<>>
      BY <3>3, EntriesOfOne
    <3>5. EntriesIn(FlattenSeq(cs), f) = EntriesIn(FlattenSeq(ss), f) \o EntriesIn(x, f)
      BY <2>2, EntriesJoin
    <3>6. CASE f \in 1..n
      <4>1. f # n + 1 /\ f \in 1..Len(cs) /\ ss[f] \o <<>> = ss[f] /\ cs[f] = ss[f]
        BY <2>1, <3>6
      <4>2. QED
        BY <3>2, <3>4, <3>5, <3>6, <4>1
    <3>7. CASE f \notin 1..n
      <4>1. (f = n + 1 <=> f \in 1..Len(cs)) /\ <<>> \o x = x /\ <<>> \o <<>> = <<>>
        BY <2>1, <3>7
      <4>2. QED
        BY <2>1, <3>2, <3>4, <3>5, <3>7, <4>1
    <3>8. QED
      BY <3>6, <3>7
  <2>4. QED
    BY <2>1, <2>3 DEF cs
<1> HIDE DEF P
<1>3. Seq(Seq(Entries)) \subseteq P
  BY <1>1, <1>2, AllSequences
<1>4. QED
  BY <1>3 DEF P

-----------------------------------------------------------------------------
(* Identities. *)

LEMMA FreshNames ==
  ASSUME NEW used, IsFiniteSet(used), NEW S, IsFiniteSet(S)
  PROVE  LET names == Fresh(used, S) IN
         /\ names \in [S -> Nat]
         /\ \A x \in S : names[x] \notin used
         /\ \A x, y \in S : names[x] = names[y] => x = y
<1> DEFINE u == Cardinality(used)
           n == Cardinality(S)
           m == u + n
           T == (1..m) \ used
<1>1. u \in Nat /\ n \in Nat
  BY FS_CardinalityType
<1> HIDE DEF u, n
<1>2. IsFiniteSet(1..m) /\ Cardinality(1..m) = m
  <2>1. m \in Nat /\ m \in Int /\ 1 \in Int
    BY <1>1
  <2> HIDE DEF m
  <2>2. IsFiniteSet(1..m) /\ Cardinality(1..m) = IF 1 > m THEN 0 ELSE m - 1 + 1
    BY <2>1, FS_Interval
  <2>3. QED
    BY <2>1, <2>2
<1>3. IsFiniteSet(T) /\ Cardinality(T) = m - Cardinality((1..m) \cap used)
  BY <1>2, FS_Difference
<1>4. Cardinality((1..m) \cap used) <= u /\ Cardinality((1..m) \cap used) \in Nat
  <2>1. IsFiniteSet((1..m) \cap used)
    BY <1>2, FS_Intersection
  <2>2. QED
    BY <2>1, FS_Intersection, FS_CardinalityType DEF u
<1>5. Cardinality(T) \in Nat /\ n <= Cardinality(T)
  BY <1>1, <1>3, <1>4
<1> HIDE DEF T
<1>6. PICK f \in [S -> 1..n] : \A x, y \in S : f[x] = f[y] => x = y
  <2>1. ExistsBijection(1..n, S)
    BY FS_CardinalityType DEF n
  <2>2. ExistsBijection(S, 1..n)
    BY <2>1, Fun_ExistsBijSymmetric
  <2>3. PICK f : f \in Bijection(S, 1..n)
    BY <2>2 DEF ExistsBijection
  <2>4. f \in [S -> 1..n] /\ \A x, y \in S : f[x] = f[y] => x = y
    BY <2>3, Fun_BijectionProperties
  <2>5. QED
    BY <2>4
<1>7. PICK g \in [1..Cardinality(T) -> T] :
        \A i, j \in 1..Cardinality(T) : g[i] = g[j] => i = j
  <2>1. ExistsBijection(1..Cardinality(T), T)
    BY <1>3, FS_CardinalityType
  <2>2. PICK g : g \in Bijection(1..Cardinality(T), T)
    BY <2>1 DEF ExistsBijection
  <2>3. g \in [1..Cardinality(T) -> T] /\ \A i, j \in 1..Cardinality(T) : g[i] = g[j] => i = j
    BY <2>2, Fun_BijectionProperties
  <2>4. QED
    BY <2>3
<1> DEFINE Good(names) == \A x \in S : names[x] \notin used /\ \A y \in S \ {x} : names[x] # names[y]
           some == [x \in S |-> g[f[x]]]
<1>8. \A x \in S : f[x] \in 1..Cardinality(T)
  BY <1>1, <1>5, <1>6
<1>9. some \in [S -> 1..m] /\ Good(some)
  <2>1. \A x \in S : some[x] \in T
    BY <1>7, <1>8
  <2>2. \A x \in S : \A y \in S \ {x} : some[x] # some[y]
    BY <1>6, <1>7, <1>8
  <2>3. QED
    BY <2>1, <2>2 DEF T
<1> HIDE DEF some
<1>10. Fresh(used, S) \in [S -> 1..m] /\ Good(Fresh(used, S))
  <2>1. Fresh(used, S) = CHOOSE names \in [S -> 1..m] : Good(names)
    BY DEF Fresh, u, n
  <2> HIDE DEF m, Good
  <2>2. QED
    BY <1>9, <2>1
<1>11. QED
  BY <1>1, <1>10

LEMMA ImageFinite ==
  ASSUME NEW S, IsFiniteSet(S), NEW f, S = DOMAIN f
  PROVE  IsFiniteSet({f[x] : x \in S})
<1> DEFINE T == {f[x] : x \in S}
           g == [x \in S |-> f[x]]
<1>1. g \in [S -> T] /\ \A t \in T : \E x \in S : g[x] = t
  OBVIOUS
<1> HIDE DEF T, g
<1>2. g \in Surjection(S, T)
  BY <1>1, Fun_IsSurj
<1>3. IsFiniteSet(T)
  BY <1>2, FS_Surjection
<1>4. QED
  BY <1>3 DEF T

LEMMA ExtendedIs ==
  ASSUME NEW stored, NEW names, NEW new,
         \A x \in DOMAIN names : names[x] \notin DOMAIN stored,
         \A x, y \in DOMAIN names : names[x] = names[y] => x = y,
         NEW more, more = Extended(stored, names, new)
  PROVE  /\ more = [a \in DOMAIN more |-> more[a]]
         /\ \A a : a \in DOMAIN more <=> a \in DOMAIN stored \/ \E x \in DOMAIN names : a = names[x]
         /\ \A a \in DOMAIN stored : more[a] = stored[a]
         /\ \A x \in DOMAIN names : more[names[x]] = new[x]
<1> DEFINE At(a) == CHOOSE x \in DOMAIN names : names[x] = a
           D == DOMAIN stored \union {names[x] : x \in DOMAIN names}
           put == [a \in D |-> IF a \in DOMAIN stored THEN stored[a] ELSE new[At(a)]]
<1>1. more = put
  BY DEF Extended
<1>2. ASSUME NEW x \in DOMAIN names PROVE At(names[x]) = x
  OBVIOUS
<1> HIDE DEF At
<1>3. \A a \in DOMAIN stored : put[a] = stored[a]
  OBVIOUS
<1>4. ASSUME NEW x \in DOMAIN names PROVE put[names[x]] = new[x]
  BY <1>2
<1>5. DOMAIN put = D /\ put = [a \in D |-> put[a]]
  OBVIOUS
<1> HIDE DEF put
<1>6. QED
  BY <1>1, <1>3, <1>4, <1>5

-----------------------------------------------------------------------------
(* The invariant, of a heap. *)

LEMMA Kinds ==
  ASSUME NEW f \in Fields
  PROVE  /\ f \in Nat
         /\ f \in Scalars => f \notin Packables /\ f \notin Singles /\ f \notin RepeatedMessages
         /\ f \in Packables => f \notin Singles /\ f \notin RepeatedMessages
         /\ f \in Singles => f \notin RepeatedMessages
         /\ f \in Messages => f \notin Groups
         /\ f \in Repeated <=> f \in Packables \/ f \in RepeatedMessages
         /\ f \in Singles <=> f \in Messages \/ f \in Groups
         /\ f \in Scalars \/ f \in Packables \/ f \in Singles \/ f \in RepeatedMessages
<1>1. f \in Nat
  BY SchemaAssumption
<1>2. QED
  BY <1>1, SchemaAssumption DEF Fields, Singles, Repeated

LEMMA FieldsFinite == IsFiniteSet(Fields)
<1>1. IsFiniteSet(1..Max(Fields))
  BY SchemaAssumption, FS_Interval
<1>2. QED
  BY <1>1, SchemaAssumption, FS_Subset

LEMMA FieldIs ==
  ASSUME NEW fl \in FieldData
  PROVE  /\ fl # NoField
         /\ fl = [index |-> fl.index, cache |-> fl.cache, encoder |-> fl.encoder]
         /\ fl.index \in Seq(Entries) \union {Null}
         /\ fl.cache \in Vals \union Nat \union {Undefined}
         /\ fl.encoder \in {None, "Each", "Packed"}
BY ValuesAssumption DEF FieldData

\* What the cache of the field f may hold in a heap, and the value it stands for there.
Holds(h, f, c) ==
  IF f \in Scalars THEN c \in Vals
  ELSE IF f \in Singles THEN c \in DOMAIN h.child
  ELSE /\ c \in DOMAIN h.array
       /\ h.array[c] \in Seq(IF f \in Packables THEN Vals ELSE DOMAIN h.child)

ValueOf(h, f, c) ==
  IF f \in Scalars THEN c
  ELSE IF f \in Packables THEN h.array[c]
  ELSE IF f \in Singles THEN h.child[c]
  ELSE [i \in DOMAIN h.array[c] |-> h.child[h.array[c][i]]]

\* A field's data belong in a heap; what is in bytes and cached is the same in both.
FieldFits(h, f, fl) ==
  /\ fl \in FieldData
  /\ FieldOK(f, fl)
  /\ fl.index # Null => fl.index \in Seq(FieldEntries(f)) /\ fl.index # <<>>
  /\ fl.cache # Undefined => Holds(h, f, fl.cache)
  /\ fl.encoder = "Packed" => f \in Packables
  /\ fl.cache # Undefined /\ fl.index # Null =>
       Readable(f, fl.index) /\ ValueOf(h, f, fl.cache) = Decoded(f, fl.index)

\* The array that a repeated field has in its cache.
Has(h, k, f, a) == h.kernel[k][f] # NoField /\ h.kernel[k][f].cache = a

\* No array is in two caches, those of two copies of a kernel included.
OwnArrays(h) ==
  \A k, j \in Kernels : \A f, g \in Repeated : \A a \in DOMAIN h.array :
    Has(h, k, f, a) /\ Has(h, j, g, a) => k = j /\ f = g

HeapOK(h) ==
  /\ h = [kernel |-> h.kernel, array |-> h.array, child |-> h.child]
  /\ h.kernel \in [Kernels -> [Fields -> FieldData \union {NoField}]]
  /\ h.array = [a \in DOMAIN h.array |-> h.array[a]]
  /\ DOMAIN h.array \subseteq Nat /\ IsFiniteSet(DOMAIN h.array)
  /\ h.child \in [DOMAIN h.child -> Contents]
  /\ DOMAIN h.child \subseteq Nat /\ IsFiniteSet(DOMAIN h.child)
  /\ \A k \in Kernels, f \in Fields :
       h.kernel[k][f] # NoField => FieldFits(h, f, h.kernel[k][f])
  /\ OwnArrays(h)

\* All arrays and objects of h are in g, and as they were.
Grows(h, g) ==
  /\ \A a \in DOMAIN h.array : a \in DOMAIN g.array /\ g.array[a] = h.array[a]
  /\ \A o \in DOMAIN h.child : o \in DOMAIN g.child /\ g.child[o] = h.child[o]

LEMMA HoldsMore ==
  ASSUME NEW h, NEW g, Grows(h, g), NEW f \in Fields, NEW c, Holds(h, f, c)
  PROVE  Holds(g, f, c) /\ ValueOf(g, f, c) = ValueOf(h, f, c)
<1>1. CASE f \in Scalars
  BY <1>1 DEF Holds, ValueOf
<1>2. CASE f \in Singles
  BY <1>2, Kinds DEF Holds, ValueOf, Grows
<1>3. CASE f \in Packables
  BY <1>3, Kinds DEF Holds, ValueOf, Grows
<1>4. CASE f \in RepeatedMessages
  <2>1. c \in DOMAIN h.array /\ h.array[c] \in Seq(DOMAIN h.child)
        /\ c \in DOMAIN g.array /\ g.array[c] = h.array[c]
    BY <1>4, Kinds DEF Holds, Grows
  <2>2. \A i \in DOMAIN h.array[c] :
          h.array[c][i] \in DOMAIN h.child /\ g.child[h.array[c][i]] = h.child[h.array[c][i]]
    BY <2>1, SeqIs DEF Grows
  <2>3. DOMAIN h.child \subseteq DOMAIN g.child
    BY DEF Grows
  <2>4. h.array[c] \in Seq(DOMAIN g.child)
    BY <2>1, <2>3
  <2>5. ValueOf(g, f, c) = [i \in DOMAIN h.array[c] |-> g.child[h.array[c][i]]]
        /\ ValueOf(h, f, c) = [i \in DOMAIN h.array[c] |-> h.child[h.array[c][i]]]
    BY <1>4, <2>1, Kinds DEF ValueOf
  <2>6. Holds(g, f, c)
    BY <1>4, <2>1, <2>4, Kinds DEF Holds
  <2>7. QED
    BY <2>2, <2>5, <2>6
<1>5. QED
  BY <1>1, <1>2, <1>3, <1>4, Kinds

LEMMA FitsMore ==
  ASSUME NEW h, NEW g, Grows(h, g), NEW f \in Fields, NEW fl, FieldFits(h, f, fl)
  PROVE  FieldFits(g, f, fl)
BY HoldsMore DEF FieldFits

-----------------------------------------------------------------------------
(* New objects and arrays. *)

Makes(h, cs, made) == made = NewObjs(h, cs)

LEMMA NewObjsOK ==
  ASSUME NEW h, HeapOK(h), NEW cs, IsFiniteSet(DOMAIN cs), \A i \in DOMAIN cs : cs[i] \in Contents,
         NEW made, Makes(h, cs, made)
  PROVE  /\ HeapOK(made.heap) /\ Grows(h, made.heap)
         /\ made.heap.kernel = h.kernel /\ made.heap.array = h.array
         /\ made.held \in [DOMAIN cs -> DOMAIN made.heap.child]
         /\ \A i \in DOMAIN cs :
              made.heap.child[made.held[i]] = cs[i] /\ made.held[i] \notin DOMAIN h.child
         /\ \A i, j \in DOMAIN cs : made.held[i] = made.held[j] => i = j
<1> DEFINE os == Fresh(DOMAIN h.child, DOMAIN cs)
           more == Extended(h.child, os, cs)
           g == [h EXCEPT !.child = more]
<1>1. made = [heap |-> g, held |-> os]
  BY DEF NewObjs, Makes
<1>2. IsFiniteSet(DOMAIN cs) /\ IsFiniteSet(DOMAIN h.child)
  BY DEF HeapOK
<1>3. /\ os \in [DOMAIN cs -> Nat] /\ \A i \in DOMAIN cs : os[i] \notin DOMAIN h.child
      /\ \A i, j \in DOMAIN cs : os[i] = os[j] => i = j
  BY <1>2, FreshNames
<1> HIDE DEF os
<1>4. /\ more = [a \in DOMAIN more |-> more[a]]
      /\ \A a : a \in DOMAIN more <=> a \in DOMAIN h.child \/ \E i \in DOMAIN cs : a = os[i]
      /\ \A a \in DOMAIN h.child : more[a] = h.child[a]
      /\ \A i \in DOMAIN cs : more[os[i]] = cs[i]
  <2>1. DOMAIN os = DOMAIN cs
    BY <1>3
  <2>2. /\ \A i \in DOMAIN os : os[i] \notin DOMAIN h.child
        /\ \A i, j \in DOMAIN os : os[i] = os[j] => i = j
    BY <1>3, <2>1
  <2>3. /\ more = [a \in DOMAIN more |-> more[a]]
        /\ \A a : a \in DOMAIN more <=> a \in DOMAIN h.child \/ \E i \in DOMAIN os : a = os[i]
        /\ \A a \in DOMAIN h.child : more[a] = h.child[a]
        /\ \A i \in DOMAIN os : more[os[i]] = cs[i]
    <3> HIDE DEF more
    <3>1. more = Extended(h.child, os, cs)
      BY DEF more
    <3>2. QED
      BY <2>2, <3>1, ExtendedIs
  <2> HIDE DEF more
  <2>4. QED
    BY <2>1, <2>3
<1> HIDE DEF more
<1>5. g = [kernel |-> h.kernel, array |-> h.array, child |-> more]
  <2>1. h = [kernel |-> h.kernel, array |-> h.array, child |-> h.child]
    BY DEF HeapOK
  <2>2. QED
    BY <2>1
<1>6. IsFiniteSet(DOMAIN more)
  <2> DEFINE New == {os[i] : i \in DOMAIN cs}
  <2>1. DOMAIN cs = DOMAIN os /\ IsFiniteSet(DOMAIN cs)
    BY <1>2, <1>3
  <2>2. IsFiniteSet(New)
    BY <2>1, ImageFinite
  <2>3. \A a : a \in New <=> \E i \in DOMAIN cs : a = os[i]
    OBVIOUS
  <2> HIDE DEF New
  <2>4. DOMAIN more = DOMAIN h.child \union New
    BY <1>4, <2>3, Zenon
  <2>5. QED
    BY <1>2, <2>4, <2>2, FS_Union
<1>7. more \in [DOMAIN more -> Contents] /\ DOMAIN more \subseteq Nat
  <2>1. ASSUME NEW a \in DOMAIN more PROVE more[a] \in Contents
    <3>1. CASE a \in DOMAIN h.child
      <4>1. h.child[a] \in Contents
        BY <3>1 DEF HeapOK
      <4>2. QED
        BY <1>4, <3>1, <4>1
    <3>2. CASE \E i \in DOMAIN cs : a = os[i]
      BY <1>4, <3>2
    <3>3. QED
      BY <1>4, <3>1, <3>2
  <2>2. QED
    BY <1>3, <1>4, <2>1 DEF HeapOK
<1> HIDE DEF g
<1>8. Grows(h, g)
  BY <1>4, <1>5 DEF Grows
<1>9. HeapOK(g)
  <2>1. \A k \in Kernels, f \in Fields :
          g.kernel[k][f] # NoField => FieldFits(g, f, g.kernel[k][f])
    BY <1>5, <1>8, FitsMore DEF HeapOK
  <2>2. OwnArrays(g)
    BY <1>5 DEF HeapOK, OwnArrays, Has
  <2>3. QED
    BY <1>5, <1>6, <1>7, <2>1, <2>2 DEF HeapOK
<1>10. os \in [DOMAIN cs -> DOMAIN g.child] /\ \A i \in DOMAIN cs : g.child[os[i]] = cs[i]
  BY <1>3, <1>4, <1>5
<1>11. QED
  BY <1>1, <1>3, <1>5, <1>8, <1>9, <1>10

LEMMA NewObjOK ==
  ASSUME NEW h, HeapOK(h), NEW v \in Contents, NEW made, made = NewObjs(h, <<v>>)
  PROVE  /\ HeapOK(made.heap) /\ Grows(h, made.heap)
         /\ made.heap.kernel = h.kernel /\ made.heap.array = h.array
         /\ made.held[1] \in DOMAIN made.heap.child /\ made.heap.child[made.held[1]] = v
         /\ made.held[1] \notin DOMAIN h.child
<1> DEFINE cs == <<v>>
<1>1. DOMAIN cs = {1} /\ cs[1] = v
  OBVIOUS
<1>2. Makes(h, cs, made)
  BY DEF Makes
<1> HIDE DEF cs
<1>3. IsFiniteSet(DOMAIN cs) /\ \A i \in DOMAIN cs : cs[i] \in Contents
  BY <1>1, FS_Singleton
<1>4. /\ HeapOK(made.heap) /\ Grows(h, made.heap)
      /\ made.heap.kernel = h.kernel /\ made.heap.array = h.array
      /\ made.held \in [DOMAIN cs -> DOMAIN made.heap.child]
      /\ \A i \in DOMAIN cs :
           made.heap.child[made.held[i]] = cs[i] /\ made.held[i] \notin DOMAIN h.child
  BY <1>2, <1>3, NewObjsOK
<1>5. /\ made.held[1] \in DOMAIN made.heap.child /\ made.heap.child[made.held[1]] = v
      /\ made.held[1] \notin DOMAIN h.child
  BY <1>1, <1>4
<1>6. QED
  BY <1>4, <1>5

LEMMA HeapFields ==
  ASSUME NEW h, NEW K, NEW A, NEW C, h = [kernel |-> K, array |-> A, child |-> C]
  PROVE  /\ h.kernel = K /\ h.array = A /\ h.child = C
         /\ h = [kernel |-> h.kernel, array |-> h.array, child |-> h.child]
OBVIOUS

LEMMA PutAt ==
  ASSUME NEW S, NEW T, NEW V, NEW K \in [S -> [T -> V]], NEW k \in S, NEW f \in T, NEW x \in V,
         NEW L, L = [K EXCEPT ![k] = [K[k] EXCEPT ![f] = x]]
  PROVE  /\ L \in [S -> [T -> V]] /\ L[k][f] = x
         /\ \A j \in S, g \in T : j # k \/ g # f => L[j][g] = K[j][g]
OBVIOUS

\* The heap with other data of one field.
With(h, k, f, fl) == [h EXCEPT !.kernel[k][f] = fl]

LEMMA ReplaceOK ==
  ASSUME NEW h, HeapOK(h), NEW k \in Kernels, NEW f \in Fields, NEW fl \in FieldData \union {NoField},
         fl # NoField => FieldFits(h, f, fl),
         \A j \in Kernels, g \in Repeated :
           f \in Repeated /\ fl # NoField /\ fl.cache \in DOMAIN h.array /\ Has(h, j, g, fl.cache)
             => j = k /\ g = f,
         NEW h2, h2 = With(h, k, f, fl)
  PROVE  /\ HeapOK(h2) /\ h2.array = h.array /\ h2.child = h.child
         /\ h2.kernel[k][f] = fl
         /\ \A j \in Kernels, g \in Fields : j # k \/ g # f => h2.kernel[j][g] = h.kernel[j][g]
         /\ h2.kernel \in [Kernels -> [Fields -> FieldData \union {NoField}]]
<1>1. /\ h.kernel \in [Kernels -> [Fields -> FieldData \union {NoField}]]
      /\ h2 = [kernel |-> [h.kernel EXCEPT ![k] = [h.kernel[k] EXCEPT ![f] = fl]],
               array |-> h.array, child |-> h.child]
  BY DEF HeapOK, With
<1>2. /\ h2.array = h.array /\ h2.child = h.child
      /\ h2.kernel \in [Kernels -> [Fields -> FieldData \union {NoField}]]
      /\ h2.kernel[k][f] = fl
      /\ \A j \in Kernels, g \in Fields : j # k \/ g # f => h2.kernel[j][g] = h.kernel[j][g]
      /\ h2 = [kernel |-> h2.kernel, array |-> h2.array, child |-> h2.child]
  <2>1. /\ h2.kernel = [h.kernel EXCEPT ![k] = [h.kernel[k] EXCEPT ![f] = fl]]
        /\ h2.array = h.array /\ h2.child = h.child
        /\ h2 = [kernel |-> h2.kernel, array |-> h2.array, child |-> h2.child]
    BY <1>1, HeapFields
  <2>2. /\ h2.kernel \in [Kernels -> [Fields -> FieldData \union {NoField}]]
        /\ h2.kernel[k][f] = fl
        /\ \A j \in Kernels, g \in Fields : j # k \/ g # f => h2.kernel[j][g] = h.kernel[j][g]
    BY <1>1, <2>1, PutAt
  <2>3. QED
    BY <2>1, <2>2
<1>3. Grows(h, h2)
  BY <1>2 DEF Grows
<1>4. ASSUME NEW j \in Kernels, NEW g \in Fields, h2.kernel[j][g] # NoField
      PROVE  FieldFits(h2, g, h2.kernel[j][g])
  <2>1. FieldFits(h, g, h2.kernel[j][g])
    <3>1. CASE j = k /\ g = f
      BY <1>2, <1>4, <3>1
    <3>2. CASE j # k \/ g # f
      BY <1>2, <1>4, <3>2 DEF HeapOK
    <3>3. QED
      BY <3>1, <3>2
  <2>2. QED
    BY <1>3, <2>1, FitsMore
<1>5. OwnArrays(h2)
  <2>1. SUFFICES ASSUME NEW i \in Kernels, NEW j \in Kernels, NEW e \in Repeated, NEW g \in Repeated,
                        NEW a \in DOMAIN h2.array, Has(h2, i, e, a), Has(h2, j, g, a)
                 PROVE  i = j /\ e = g
    BY DEF OwnArrays
  <2>2. a \in DOMAIN h.array /\ e \in Fields /\ g \in Fields
    BY <1>2 DEF Fields
  <2>3. CASE i = k /\ e = f
    <3>1. fl # NoField /\ fl.cache = a /\ f \in Repeated
      BY <1>2, <2>1, <2>3 DEF Has
    <3>2. j # k \/ g # f => Has(h, j, g, a)
      BY <1>2, <2>1, <2>2 DEF Has
    <3>3. QED
      BY <2>2, <2>3, <3>1, <3>2
  <2>4. CASE j = k /\ g = f
    <3>1. fl # NoField /\ fl.cache = a /\ f \in Repeated
      BY <1>2, <2>1, <2>4 DEF Has
    <3>2. i # k \/ e # f => Has(h, i, e, a)
      BY <1>2, <2>1, <2>2 DEF Has
    <3>3. QED
      BY <2>2, <2>4, <3>1, <3>2
  <2>5. CASE ~ (i = k /\ e = f) /\ ~ (j = k /\ g = f)
    <3>1. Has(h, i, e, a) /\ Has(h, j, g, a)
      BY <1>2, <2>1, <2>2, <2>5 DEF Has
    <3>2. QED
      BY <2>2, <3>1 DEF HeapOK, OwnArrays
  <2>6. QED
    BY <2>3, <2>4, <2>5
<1>6. HeapOK(h2)
  <2>1. /\ h2.array = [a \in DOMAIN h2.array |-> h2.array[a]]
        /\ DOMAIN h2.array \subseteq Nat /\ IsFiniteSet(DOMAIN h2.array)
        /\ h2.child \in [DOMAIN h2.child -> Contents]
        /\ DOMAIN h2.child \subseteq Nat /\ IsFiniteSet(DOMAIN h2.child)
    BY <1>2 DEF HeapOK
  <2>2. QED
    BY <1>2, <1>4, <1>5, <2>1, Zenon DEF HeapOK
<1>7. QED
  BY <1>2, <1>6

\* What is to be stored in the field f, and the value that is.
HeldFits(h, f, held) ==
  IF f \in Scalars THEN held \in Vals
  ELSE IF f \in Singles THEN held \in DOMAIN h.child
  ELSE held \in Seq(IF f \in Packables THEN Vals ELSE DOMAIN h.child)

HeldValue(h, f, held) ==
  IF f \in Scalars \union Packables THEN held
  ELSE IF f \in Singles THEN h.child[held]
  ELSE [i \in DOMAIN held |-> h.child[held[i]]]

\* What the cache has of it.
CacheHas(h, f, c, held) == IF f \in Repeated THEN h.array[c] = held ELSE c = held

LEMMA InHeapOK ==
  ASSUME NEW h, HeapOK(h), NEW f \in Fields, NEW held, HeldFits(h, f, held),
         NEW stored, stored = InHeap(h, f, held)
  PROVE  /\ HeapOK(stored.heap) /\ Grows(h, stored.heap)
         /\ stored.heap.kernel = h.kernel /\ stored.heap.child = h.child
         /\ Holds(stored.heap, f, stored.cache)
         /\ ValueOf(stored.heap, f, stored.cache) = HeldValue(h, f, held)
         /\ stored.cache \in Vals \union Nat
         /\ f \in Repeated => stored.cache \notin DOMAIN h.array
         /\ CacheHas(stored.heap, f, stored.cache, held)
<1>1. CASE f \in Repeated
  <2> DEFINE at == Fresh(DOMAIN h.array, {f})
             new == [g \in {f} |-> held]
             more == Extended(h.array, at, new)
             g == [h EXCEPT !.array = more]
             c == at[f]
  <2>1. stored = [heap |-> g, cache |-> c]
    BY <1>1 DEF InHeap
  <2>2. IsFiniteSet({f}) /\ IsFiniteSet(DOMAIN h.array)
    BY FS_Singleton DEF HeapOK
  <2>3. at \in [{f} -> Nat] /\ c \notin DOMAIN h.array
    BY <2>2, FreshNames
  <2> HIDE DEF at
  <2>4. /\ more = [a \in DOMAIN more |-> more[a]]
        /\ \A a : a \in DOMAIN more <=> a \in DOMAIN h.array \/ a = c
        /\ \A a \in DOMAIN h.array : more[a] = h.array[a]
        /\ more[c] = held
    <3>1. DOMAIN at = {f}
      BY <2>3
    <3>2. /\ \A x \in DOMAIN at : at[x] \notin DOMAIN h.array
          /\ \A x, y \in DOMAIN at : at[x] = at[y] => x = y
      BY <2>3, <3>1
    <3> HIDE DEF new
    <3>3. /\ more = [a \in DOMAIN more |-> more[a]]
          /\ \A a : a \in DOMAIN more <=> a \in DOMAIN h.array \/ \E x \in DOMAIN at : a = at[x]
          /\ \A a \in DOMAIN h.array : more[a] = h.array[a]
          /\ \A x \in DOMAIN at : more[at[x]] = new[x]
      <4> HIDE DEF more
      <4>1. more = Extended(h.array, at, new)
        BY DEF more
      <4>2. QED
        BY <3>2, <4>1, ExtendedIs
    <3>4. new[f] = held
      BY DEF new
    <3> HIDE DEF more
    <3>5. QED
      BY <3>1, <3>3, <3>4
  <2> HIDE DEF more
  <2>5. g = [kernel |-> h.kernel, array |-> more, child |-> h.child] /\ c \in Nat
    BY <2>3 DEF HeapOK
  <2> HIDE DEF g, c
  <2>6. Grows(h, g)
    BY <2>4, <2>5 DEF Grows
  <2>7. HeapOK(g)
    <3>1. IsFiniteSet(DOMAIN more)
      <4>1. DOMAIN more = DOMAIN h.array \union {c}
        BY <2>4
      <4>2. QED
        BY <2>2, <4>1, FS_AddElement
    <3>2. DOMAIN more \subseteq Nat
      BY <2>4, <2>5 DEF HeapOK
    <3>3. \A k \in Kernels, e \in Fields :
            g.kernel[k][e] # NoField => FieldFits(g, e, g.kernel[k][e])
      BY <2>5, <2>6, FitsMore DEF HeapOK
    <3>4. OwnArrays(g)
      <4>1. SUFFICES ASSUME NEW i \in Kernels, NEW j \in Kernels, NEW e \in Repeated, NEW b \in Repeated,
                            NEW a \in DOMAIN g.array, Has(g, i, e, a), Has(g, j, b, a)
                     PROVE  i = j /\ e = b
        BY DEF OwnArrays
      <4>2. Has(h, i, e, a) /\ Has(h, j, b, a)
        BY <2>5, <4>1 DEF Has
      <4>3. a \in DOMAIN h.array
        <5>1. e \in Fields /\ h.kernel[i][e] # NoField /\ h.kernel[i][e].cache = a
          BY <4>2 DEF Has, Fields
        <5>2. a \in Nat
          BY <2>5, <3>2
        <5>3. a # Undefined
          BY <5>2, ValuesAssumption
        <5>4. Holds(h, e, a)
          BY <5>1, <5>3 DEF HeapOK, FieldFits
        <5>5. QED
          BY <5>1, <5>4, Kinds DEF Holds
      <4>4. QED
        BY <4>2, <4>3 DEF HeapOK, OwnArrays
    <3>5. QED
      BY <2>4, <2>5, <3>1, <3>2, <3>3, <3>4 DEF HeapOK
  <2>8. Holds(g, f, c)
    <3>1. g.array[c] = held /\ c \in DOMAIN g.array /\ g.child = h.child
      BY <2>4, <2>5
    <3>2. QED
      BY <1>1, <3>1, Kinds DEF Holds, HeldFits
  <2>9. ValueOf(g, f, c) = HeldValue(h, f, held)
    <3>1. g.array[c] = held /\ g.child = h.child
      BY <2>4, <2>5
    <3>2. QED
      BY <1>1, <3>1, Kinds DEF ValueOf, HeldValue
  <2>10. CacheHas(g, f, c, held)
    BY <1>1, <2>4, <2>5 DEF CacheHas
  <2>11. QED
    BY <2>1, <2>3, <2>5, <2>6, <2>7, <2>8, <2>9, <2>10 DEF c
<1>2. CASE f \notin Repeated
  <2>1. stored.heap = h /\ stored.cache = held
    BY <1>2 DEF InHeap
  <2>2. f \in Scalars \/ f \in Singles
    BY <1>2, Kinds
  <2>3. Holds(h, f, held) /\ ValueOf(h, f, held) = HeldValue(h, f, held)
    BY <2>2, Kinds DEF Holds, HeldFits, ValueOf, HeldValue
  <2>4. held \in Vals \union Nat
    BY <2>2, Kinds DEF HeldFits, HeapOK
  <2>5. CacheHas(h, f, held, held)
    BY <1>2 DEF CacheHas
  <2>6. QED
    BY <1>2, <2>1, <2>3, <2>4, <2>5 DEF Grows
<1>3. QED
  BY <1>1, <1>2

LEMMA SameValue ==
  ASSUME NEW h, NEW g, g.array = h.array, g.child = h.child, NEW f, NEW c
  PROVE  ValueOf(g, f, c) = ValueOf(h, f, c)
BY Zenon DEF ValueOf

\* A field's data that do not come from its bytes, or stand for the same as these.
MayBeHeld(h, f, held, index, encoder) ==
  /\ HeldFits(h, f, held)
  /\ \/ index = Null /\ encoder \in {"Each", "Packed"} /\ (encoder = "Packed" => f \in Packables)
     \/ /\ index \in Seq(FieldEntries(f)) /\ index # <<>> /\ encoder = None
        /\ f \notin RepeatedMessages
        /\ Readable(f, index) /\ HeldValue(h, f, held) = Decoded(f, index)

Data(index, cache, encoder) == [index |-> index, cache |-> cache, encoder |-> encoder]

LEMMA PutOK ==
  ASSUME NEW h, HeapOK(h), NEW k \in Kernels, NEW f \in Fields,
         NEW held, NEW index, NEW encoder, MayBeHeld(h, f, held, index, encoder),
         NEW stored, stored = InHeap(h, f, held),
         NEW fl, fl = Data(index, stored.cache, encoder),
         NEW g, g = With(stored.heap, k, f, fl)
  PROVE  /\ HeapOK(g) /\ Grows(h, g) /\ g.child = h.child
         /\ g.kernel[k][f] = fl /\ fl \in FieldData /\ fl.cache # Undefined
         /\ \A j \in Kernels, e \in Fields : j # k \/ e # f => g.kernel[j][e] = h.kernel[j][e]
         /\ ValueOf(g, f, fl.cache) = HeldValue(h, f, held)
         /\ CacheHas(g, f, fl.cache, held)
<1> DEFINE m == stored.heap
<1>1. /\ HeapOK(m) /\ Grows(h, m) /\ m.kernel = h.kernel /\ m.child = h.child
      /\ Holds(m, f, stored.cache) /\ ValueOf(m, f, stored.cache) = HeldValue(h, f, held)
      /\ stored.cache \in Vals \union Nat
      /\ f \in Repeated => stored.cache \notin DOMAIN h.array
      /\ CacheHas(m, f, stored.cache, held)
  BY InHeapOK DEF MayBeHeld
<1> HIDE DEF m
<1>2. index \in Seq(Entries) \union {Null} /\ encoder \in {None, "Each", "Packed"}
  <2>1. FieldEntries(f) \subseteq Entries
    BY DEF FieldEntries
  <2>2. index \in Seq(FieldEntries(f)) => index \in Seq(Entries)
    BY <2>1
  <2>3. QED
    BY <2>2 DEF MayBeHeld
<1>3. fl \in FieldData /\ fl.index = index /\ fl.cache = stored.cache /\ fl.encoder = encoder
  BY <1>1, <1>2 DEF FieldData, Data
<1>4. stored.cache # Undefined
  BY <1>1, ValuesAssumption
<1>5. (index = Null) = (encoder # None)
  <2>1. index \in Seq(FieldEntries(f)) => index # Null
    <3>1. FieldEntries(f) \subseteq Entries
      BY DEF FieldEntries
    <3>2. index \in Seq(FieldEntries(f)) => index \in Seq(Entries)
      BY <3>1
    <3>3. QED
      BY <3>2, ValuesAssumption
  <2>2. QED
    BY <2>1, ValuesAssumption DEF MayBeHeld
<1>6. FieldOK(f, fl)
  BY <1>3, <1>4, <1>5 DEF FieldOK, MayBeHeld
<1>7. FieldFits(m, f, fl)
  <2>1. index # Null => index \in Seq(FieldEntries(f)) /\ index # <<>>
    BY DEF MayBeHeld
  <2>2. encoder = "Packed" => f \in Packables
    BY ValuesAssumption DEF MayBeHeld
  <2>3. index # Null => Readable(f, index) /\ HeldValue(h, f, held) = Decoded(f, index)
    BY DEF MayBeHeld
  <2>4. QED
    BY <1>1, <1>3, <1>6, <2>1, <2>2, <2>3 DEF FieldFits
<1>8. ASSUME NEW j \in Kernels, NEW e \in Repeated, f \in Repeated, Has(m, j, e, fl.cache) PROVE FALSE
  <2>1. e \in Fields /\ h.kernel[j][e] # NoField /\ h.kernel[j][e].cache = stored.cache
    BY <1>1, <1>3, <1>8 DEF Has, Fields
  <2>2. Holds(h, e, stored.cache)
    BY <1>4, <2>1 DEF HeapOK, FieldFits
  <2>3. stored.cache \in DOMAIN h.array
    BY <2>1, <2>2, <1>8, Kinds DEF Holds
  <2>4. QED
    BY <1>1, <1>8, <2>3
<1>9. g = With(m, k, f, fl)
  BY DEF m
<1>10. /\ HeapOK(g) /\ g.array = m.array /\ g.child = m.child /\ g.kernel[k][f] = fl
       /\ \A j \in Kernels, e \in Fields : j # k \/ e # f => g.kernel[j][e] = m.kernel[j][e]
  <2>1. \A j \in Kernels, e \in Repeated :
          f \in Repeated /\ fl # NoField /\ fl.cache \in DOMAIN m.array /\ Has(m, j, e, fl.cache)
            => j = k /\ e = f
    BY <1>8
  <2>2. fl \in FieldData \union {NoField} /\ (fl # NoField => FieldFits(m, f, fl))
    BY <1>3, <1>7
  <2>3. HeapOK(m)
    BY <1>1
  <2>4. QED
    BY <1>9, <2>1, <2>2, <2>3, ReplaceOK
<1>11. Grows(h, g)
  BY <1>1, <1>10 DEF Grows
<1>12. ValueOf(g, f, stored.cache) = ValueOf(m, f, stored.cache)
  <2>1. g.array = m.array /\ g.child = m.child
    BY <1>1, <1>10
  <2>2. QED
    BY <2>1, SameValue
<1>13. CacheHas(g, f, stored.cache, held)
  BY <1>1, <1>10 DEF CacheHas
<1>14. QED
  BY <1>1, <1>3, <1>4, <1>10, <1>11, <1>12, <1>13

LEMMA SetFieldOK ==
  ASSUME NEW h, HeapOK(h), NEW k \in Kernels, NEW f \in Fields, NEW held, HeldFits(h, f, held),
         NEW encoder \in {"Each", "Packed"}, encoder = "Packed" => f \in Packables
  PROVE  HeapOK(SetField(h, k, f, held, encoder))
<1>1. MayBeHeld(h, f, held, Null, encoder)
  BY DEF MayBeHeld
<1>2. SetField(h, k, f, held, encoder) =
        With(InHeap(h, f, held).heap, k, f, Data(Null, InHeap(h, f, held).cache, encoder))
  BY DEF SetField, With, Data
<1>3. QED
  BY <1>1, <1>2, PutOK

-----------------------------------------------------------------------------
(* Getters. *)

Values(f) ==
  IF f \in Scalars THEN Vals
  ELSE IF f \in Packables THEN Seq(Vals)
  ELSE IF f \in Singles THEN Contents
  ELSE Seq(Contents)

LEMMA EntryData ==
  ASSUME NEW f \in Fields, NEW e \in FieldEntries(f)
  PROVE  /\ e \in Entries /\ e.field = f /\ e.wire \in WireTypes
         /\ f \in Packables /\ e.wire = "DELIMITED" => e.data \in Seq(Vals)
         /\ f \in Packables /\ e.wire # "DELIMITED" => e.data \in Vals
         /\ f \in Scalars => e.data \in Vals
         /\ f \in Singles \/ f \in RepeatedMessages => e.data \in Contents
<1>1. e \in Entries /\ e.field = f /\ e.wire \in WireTypes /\ e.data \in DataOf(f, e.wire)
  BY DEF FieldEntries, Entries
<1>2. QED
  BY <1>1, Kinds DEF DataOf

LEMMA DecodedType ==
  ASSUME NEW f \in Fields, NEW es \in Seq(FieldEntries(f)), es # <<>>
  PROVE  Decoded(f, es) \in Values(f)
<1>1. /\ Len(es) \in Nat /\ DOMAIN es = 1..Len(es) /\ Len(es) \in 1..Len(es)
      /\ \A i \in 1..Len(es) : es[i] \in FieldEntries(f)
  OBVIOUS
<1>2. Last(es) \in FieldEntries(f)
  BY <1>1 DEF Last
<1>3. CASE f \in Scalars
  BY <1>2, <1>3, EntryData DEF Decoded, Values
<1>4. CASE f \in Groups
  BY <1>2, <1>4, EntryData, Kinds DEF Decoded, Values
<1>5. CASE f \in Messages
  <2> DEFINE set == {i \in DOMAIN es : es[i].data # Empty}
  <2>1. CASE set = {}
    BY <1>5, <2>1, Kinds, ValuesAssumption DEF Decoded, Values, Merged
  <2>2. CASE set # {}
    <3> DEFINE last == CHOOSE i \in set : \A j \in set : j <= i
    <3>1. \E i \in set : \A j \in set : j <= i
      <4>1. set \in SUBSET Nat /\ \A i \in set : i <= Len(es)
        BY <1>1
      <4> HIDE DEF set
      <4>2. QED
        BY <1>1, <2>2, <4>1, GreatestOf
    <3>2. last \in set
      <4> HIDE DEF set
      <4>1. QED
        BY <3>1
    <3>3. last \in 1..Len(es)
      BY <1>1, <3>2
    <3>4. Merged(es) = es[last].data
      BY <2>2 DEF Merged
    <3> HIDE DEF last, set
    <3>5. es[last].data \in Contents
      BY <1>1, <1>5, <3>3, EntryData, Kinds
    <3>6. QED
      BY <1>5, <3>4, <3>5, Kinds DEF Decoded, Values
  <2>3. QED
    BY <2>1, <2>2
<1>6. CASE f \in Packables
  <2> DEFINE part == [i \in DOMAIN es |-> IF es[i].wire = "DELIMITED" THEN es[i].data ELSE <<es[i].data>>]
  <2>1. part \in [1..Len(es) -> Seq(Vals)]
    <3>1. ASSUME NEW i \in 1..Len(es)
          PROVE  (IF es[i].wire = "DELIMITED" THEN es[i].data ELSE <<es[i].data>>) \in Seq(Vals)
      <4>1. es[i] \in FieldEntries(f)
        BY <1>1
      <4>2. CASE es[i].wire = "DELIMITED"
        BY <1>6, <4>1, <4>2, EntryData
      <4>3. CASE es[i].wire # "DELIMITED"
        <5>1. es[i].data \in Vals
          BY <1>6, <4>1, <4>3, EntryData
        <5>2. <<es[i].data>> \in Seq(Vals)
          BY <5>1
        <5>3. QED
          BY <4>3, <5>2
      <4>4. QED
        BY <4>2, <4>3
    <3>2. QED
      BY <1>1, <3>1
  <2>2. FlattenSeq(part) \in Seq(Vals)
    <3>1. part \in Seq(Seq(Vals))
      BY <1>1, <2>1, IsSeq
    <3> HIDE DEF part
    <3>2. QED
      BY <3>1, FlattenType
  <2>3. Decoded(f, es) = FlattenSeq(part)
    BY <1>6, Kinds DEF Decoded
  <2>4. QED
    BY <1>6, <2>2, <2>3, Kinds DEF Values
<1>7. CASE f \in RepeatedMessages
  <2>1. \A i \in 1..Len(es) : es[i].data \in Contents
    BY <1>1, <1>7, EntryData
  <2>2. [i \in 1..Len(es) |-> es[i].data] \in Seq(Contents)
    BY <1>1, <2>1, IsSeq
  <2>3. Decoded(f, es) = [i \in 1..Len(es) |-> es[i].data]
    BY <1>1, <1>7, Kinds DEF Decoded
  <2>4. QED
    BY <1>7, <2>2, <2>3, Kinds DEF Values
<1>8. QED
  BY <1>3, <1>4, <1>5, <1>6, <1>7, Kinds

\* Objects that were not there before, each another one.
NewlyMade(h, f, held) ==
  /\ f \in Singles => held \notin DOMAIN h.child
  /\ f \in RepeatedMessages =>
       /\ \A i \in DOMAIN held : held[i] \notin DOMAIN h.child
       /\ \A i, j \in DOMAIN held : held[i] = held[j] => i = j

LEMMA MadeOK ==
  ASSUME NEW h, HeapOK(h), NEW f \in Fields, NEW v \in Values(f),
         NEW made, made = Made(h, f, v)
  PROVE  /\ HeapOK(made.heap) /\ Grows(h, made.heap)
         /\ made.heap.kernel = h.kernel /\ made.heap.array = h.array
         /\ HeldFits(made.heap, f, made.held)
         /\ HeldValue(made.heap, f, made.held) = v
         /\ NewlyMade(h, f, made.held)
<1>1. CASE f \in RepeatedMessages
  <2>1. Makes(h, v, made)
    BY <1>1 DEF Made, Makes
  <2>2. v \in [1..Len(v) -> Contents] /\ Len(v) \in Nat
    BY <1>1, Kinds DEF Values
  <2>3. /\ HeapOK(made.heap) /\ Grows(h, made.heap)
        /\ made.heap.kernel = h.kernel /\ made.heap.array = h.array
        /\ made.held \in [1..Len(v) -> DOMAIN made.heap.child]
        /\ \A i \in 1..Len(v) :
             made.heap.child[made.held[i]] = v[i] /\ made.held[i] \notin DOMAIN h.child
        /\ \A i, j \in 1..Len(v) : made.held[i] = made.held[j] => i = j
    <3>1. DOMAIN v = 1..Len(v) /\ IsFiniteSet(1..Len(v)) /\ \A i \in DOMAIN v : v[i] \in Contents
      <4>1. IsFiniteSet(1..Len(v))
        BY <2>2, FS_Interval
      <4>2. DOMAIN v = 1..Len(v) /\ \A i \in DOMAIN v : v[i] \in Contents
        BY <2>2
      <4>3. QED
        BY <4>1, <4>2
    <3>2. IsFiniteSet(DOMAIN v)
      BY <3>1
    <3>3. QED
      BY <2>1, <3>1, <3>2, NewObjsOK
  <2>4. HeldFits(made.heap, f, made.held)
    <3>1. made.held \in Seq(DOMAIN made.heap.child)
      BY <2>2, <2>3, IsSeq
    <3>2. QED
      BY <1>1, <3>1, Kinds DEF HeldFits
  <2>5. HeldValue(made.heap, f, made.held) = v
    <3>1. HeldValue(made.heap, f, made.held) = [i \in 1..Len(v) |-> made.heap.child[made.held[i]]]
      BY <1>1, <2>3, Kinds DEF HeldValue
    <3>2. QED
      BY <2>2, <2>3, <3>1
  <2>6. NewlyMade(h, f, made.held)
    BY <1>1, <2>3, Kinds DEF NewlyMade
  <2>7. QED
    BY <2>3, <2>4, <2>5, <2>6
<1>2. CASE f \in Singles
  <2> DEFINE new == NewObjs(h, <<v>>)
  <2>1. made = [new EXCEPT !.held = @[1]]
    BY <1>2, Kinds DEF Made
  <2>2. new = [heap |-> new.heap, held |-> new.held]
    BY DEF NewObjs
  <2>3. new = NewObjs(h, <<v>>) /\ v \in Contents
    BY <1>2, Kinds DEF Values
  <2> HIDE DEF new
  <2>4. /\ HeapOK(new.heap) /\ Grows(h, new.heap)
        /\ new.heap.kernel = h.kernel /\ new.heap.array = h.array
        /\ new.held[1] \in DOMAIN new.heap.child /\ new.heap.child[new.held[1]] = v
        /\ new.held[1] \notin DOMAIN h.child
    BY <2>3, NewObjOK
  <2>5. made.heap = new.heap /\ made.held = new.held[1]
    BY <2>1, <2>2
  <2>6. QED
    BY <1>2, <2>4, <2>5, Kinds DEF HeldFits, HeldValue, NewlyMade
<1>3. CASE f \in Scalars \/ f \in Packables
  <2>1. made.heap = h /\ made.held = v
    BY <1>3, Kinds DEF Made
  <2>2. HeldFits(h, f, v) /\ HeldValue(h, f, v) = v
    BY <1>3, Kinds DEF HeldFits, HeldValue, Values
  <2>3. NewlyMade(h, f, v)
    BY <1>3, Kinds DEF NewlyMade
  <2>4. QED
    BY <2>1, <2>2, <2>3 DEF Grows
<1>4. QED
  BY <1>1, <1>2, <1>3, Kinds

\* A field f of the kernel k, decoded: what was in its bytes is in the cache now.
GotInto(h, k, f, g) ==
  LET fl == h.kernel[k][f]
      gl == g.kernel[k][f]
  IN  /\ fl # NoField /\ fl.cache = Undefined /\ gl # NoField /\ gl.cache # Undefined
      /\ gl.index = IF GetterEncoder(f) = None THEN fl.index ELSE Null
      /\ Readable(f, fl.index) /\ ValueOf(g, f, gl.cache) = Decoded(f, fl.index)
      /\ \E held : NewlyMade(h, f, held) /\ CacheHas(g, f, gl.cache, held)

LEMMA GotOK ==
  ASSUME NEW h, HeapOK(h), NEW k \in Kernels, NEW f \in Fields, CanGet(h.kernel[k], f),
         NEW g, g = Got(h, k, f)
  PROVE  /\ HeapOK(g) /\ Grows(h, g) /\ AtHand(g.kernel[k], f)
         /\ \A j \in Kernels, e \in Fields : j # k \/ e # f => g.kernel[j][e] = h.kernel[j][e]
         /\ ~AtHand(h.kernel[k], f) => GotInto(h, k, f, g)
<1>1. CASE AtHand(h.kernel[k], f)
  BY <1>1 DEF Got, Grows
<1>2. CASE ~AtHand(h.kernel[k], f)
  <2> DEFINE fl == h.kernel[k][f]
             es == fl.index
             v == Decoded(f, es)
             made == Made(h, f, v)
             encoder == GetterEncoder(f)
             index == IF encoder = None THEN es ELSE Null
             stored == InHeap(made.heap, f, made.held)
  <2>1. fl # NoField /\ fl.cache = Undefined /\ Readable(f, es)
    BY <1>2 DEF AtHand, CanGet
  <2>2. FieldFits(h, f, fl)
    BY <2>1 DEF HeapOK
  <2>3. es # Null /\ es \in Seq(FieldEntries(f)) /\ es # <<>>
    BY <2>1, <2>2 DEF FieldFits, FieldOK
  <2>4. v \in Values(f)
    BY <2>3, DecodedType
  <2>5. made.heap.kernel = h.kernel /\ HeapOK(made.heap) /\ Grows(h, made.heap)
        /\ HeldFits(made.heap, f, made.held) /\ HeldValue(made.heap, f, made.held) = v
        /\ NewlyMade(h, f, made.held)
    <3> HIDE DEF v
    <3>1. QED
      BY <2>4, MadeOK
  <2>6. g = SetCache(made.heap, k, f, made.held, encoder)
    BY <1>2 DEF Got
  <2>7. g = With(stored.heap, k, f, Data(index, stored.cache, encoder))
    <3> HIDE DEF made
    <3>1. QED
      BY <2>5, <2>6 DEF SetCache, With, Data
  <2>8. MayBeHeld(made.heap, f, made.held, index, encoder)
    <3>1. CASE f \in Scalars \union Packables \union ReadOnly
      <4>1. encoder = None /\ f \notin RepeatedMessages
        BY <3>1, SchemaAssumption, Kinds DEF GetterEncoder
      <4> HIDE DEF made, encoder, v, fl
      <4>2. QED
        BY <2>1, <2>3, <2>5, <4>1 DEF MayBeHeld, v
    <3>2. CASE f \notin Scalars \union Packables \union ReadOnly
      <4>1. encoder = "Each" /\ encoder # None
        BY <3>2, ValuesAssumption DEF GetterEncoder
      <4> HIDE DEF made, encoder, v, fl
      <4>2. QED
        BY <2>5, <4>1 DEF MayBeHeld
    <3>3. QED
      BY <3>1, <3>2
  <2> HIDE DEF made, stored, index, encoder, v
  <2>9. stored = InHeap(made.heap, f, made.held)
    BY DEF stored
  <2>10. /\ HeapOK(g) /\ Grows(made.heap, g)
         /\ g.kernel[k][f].cache # Undefined
         /\ \A j \in Kernels, e \in Fields : j # k \/ e # f => g.kernel[j][e] = made.heap.kernel[j][e]
         /\ g.kernel[k][f] # NoField /\ g.kernel[k][f].index = index
         /\ ValueOf(g, f, g.kernel[k][f].cache) = HeldValue(made.heap, f, made.held)
         /\ CacheHas(g, f, g.kernel[k][f].cache, made.held)
    <3> DEFINE m == made.heap
               fl2 == Data(index, stored.cache, encoder)
    <3>1. HeapOK(m) /\ MayBeHeld(m, f, made.held, index, encoder) /\ stored = InHeap(m, f, made.held)
          /\ fl2 = Data(index, stored.cache, encoder) /\ g = With(stored.heap, k, f, fl2)
      BY <2>5, <2>7, <2>8, <2>9
    <3> HIDE DEF m, fl2, fl
    <3>2. /\ HeapOK(g) /\ Grows(m, g) /\ g.kernel[k][f] = fl2 /\ fl2.cache # Undefined
          /\ \A j \in Kernels, e \in Fields : j # k \/ e # f => g.kernel[j][e] = m.kernel[j][e]
          /\ fl2 \in FieldData /\ ValueOf(g, f, fl2.cache) = HeldValue(m, f, made.held)
          /\ CacheHas(g, f, fl2.cache, made.held)
      BY <3>1, PutOK
    <3>3. fl2 # NoField /\ fl2.index = index
      BY <3>2, FieldIs DEF fl2, Data
    <3>4. QED
      BY <3>2, <3>3 DEF m
  <2>11. Grows(h, g)
    BY <2>5, <2>10 DEF Grows
  <2>12. GotInto(h, k, f, g)
    BY <2>1, <2>5, <2>10, Zenon DEF GotInto, index, v, encoder
  <2>13. QED
    BY <2>5, <2>10, <2>11, <2>12 DEF AtHand
<1>3. QED
  BY <1>1, <1>2

-----------------------------------------------------------------------------
(* What a call leaves. *)

LEMMA CachedIs ==
  ASSUME NEW h, NEW f, NEW c
  PROVE  c \in CachedIn(h, f) <=> \E k \in Kernels : Has(h, k, f, c)
BY DEF CachedIn, Has

LEMMA CachedAny ==
  ASSUME NEW h, NEW S, NEW c
  PROVE  c \in CachesOf(h, S) <=>
           c # Undefined /\ \E k \in Kernels, f \in S : Has(h, k, f, c)
<1> DEFINE In(f) == CachedIn(h, f)
<1>1. \A f : c \in In(f) <=> \E k \in Kernels : Has(h, k, f, c)
  BY CachedIs
<1> HIDE DEF In
<1>2. c \in UNION {In(f) : f \in S} <=> \E f \in S : c \in In(f)
  OBVIOUS
<1>3. c \in UNION {In(f) : f \in S} <=> \E k \in Kernels, f \in S : Has(h, k, f, c)
  BY <1>1, <1>2
<1>4. QED
  BY <1>3 DEF In, CachesOf

LEMMA CacheFits ==
  ASSUME NEW h, HeapOK(h), NEW k \in Kernels, NEW f \in Fields, NEW c, Has(h, k, f, c), c # Undefined
  PROVE  Holds(h, f, c)
<1>1. FieldFits(h, f, h.kernel[k][f]) /\ h.kernel[k][f].cache = c
  BY DEF HeapOK, Has
<1>2. QED
  BY <1>1 DEF FieldFits

LEMMA LiveIs ==
  ASSUME NEW h, HeapOK(h)
  PROVE  /\ \A a : a \in LiveArrays(h) <=>
              a # Undefined /\ \E k \in Kernels, f \in Repeated : Has(h, k, f, a)
         /\ \A k \in Kernels, f \in Singles : \A o :
              Has(h, k, f, o) /\ o # Undefined => o \in LiveObjs(h)
         /\ \A k \in Kernels, f \in RepeatedMessages : \A a :
              Has(h, k, f, a) /\ a # Undefined => \A i \in DOMAIN h.array[a] : h.array[a][i] \in LiveObjs(h)
         /\ LiveArrays(h) \subseteq DOMAIN h.array
         /\ LiveObjs(h) \subseteq DOMAIN h.child
<1>1. \A a : a \in LiveArrays(h) <=>
        a # Undefined /\ \E k \in Kernels, f \in Repeated : Has(h, k, f, a)
  BY CachedAny DEF LiveArrays
<1>2. \A o : o \in LiveObjs(h) <=>
        \/ o # Undefined /\ \E k \in Kernels, f \in Singles : Has(h, k, f, o)
        \/ \E a : /\ a # Undefined /\ \E k \in Kernels, f \in RepeatedMessages : Has(h, k, f, a)
                  /\ \E i \in DOMAIN h.array[a] : o = h.array[a][i]
  <2>1. \A s, o : o \in ToSet(s) <=> \E i \in DOMAIN s : o = s[i]
    BY DEF ToSet
  <2> DEFINE Of(a) == ToSet(h.array[a])
             Lists == CachesOf(h, RepeatedMessages)
             Held == CachesOf(h, Singles)
  <2>2. \A a : a \in Lists <=> a # Undefined /\ \E k \in Kernels, f \in RepeatedMessages : Has(h, k, f, a)
    BY CachedAny
  <2>3. \A o : o \in Held <=> o # Undefined /\ \E k \in Kernels, f \in Singles : Has(h, k, f, o)
    BY CachedAny
  <2>4. LiveObjs(h) = Held \union UNION {Of(a) : a \in Lists}
    BY DEF LiveObjs
  <2> HIDE DEF Held, Lists, Of
  <2>5. \A o : o \in LiveObjs(h) <=> o \in Held \/ \E a \in Lists : o \in Of(a)
    BY <2>4
  <2>6. \A a, o : o \in Of(a) <=> \E i \in DOMAIN h.array[a] : o = h.array[a][i]
    BY <2>1 DEF Of
  <2>7. QED
    BY <2>2, <2>3, <2>5, <2>6
<1>3. LiveArrays(h) \subseteq DOMAIN h.array
  <2>1. SUFFICES ASSUME NEW a, a # Undefined, NEW k \in Kernels, NEW f \in Repeated, Has(h, k, f, a)
                 PROVE  a \in DOMAIN h.array
    BY <1>1
  <2>2. f \in Fields
    BY DEF Fields
  <2>3. Holds(h, f, a)
    BY <2>1, <2>2, CacheFits
  <2>4. QED
    BY <2>2, <2>3, Kinds DEF Holds
<1>4. LiveObjs(h) \subseteq DOMAIN h.child
  <2>1. ASSUME NEW o, o # Undefined, NEW k \in Kernels, NEW f \in Singles, Has(h, k, f, o)
        PROVE  o \in DOMAIN h.child
    <3>1. f \in Fields
      BY DEF Fields
    <3>2. Holds(h, f, o)
      BY <2>1, <3>1, CacheFits
    <3>3. QED
      BY <3>1, <3>2, Kinds DEF Holds
  <2>2. ASSUME NEW a, a # Undefined, NEW k \in Kernels, NEW f \in RepeatedMessages, Has(h, k, f, a),
               NEW i \in DOMAIN h.array[a]
        PROVE  h.array[a][i] \in DOMAIN h.child
    <3>1. f \in Fields
      BY DEF Fields, Repeated
    <3>2. Holds(h, f, a)
      BY <2>2, <3>1, CacheFits
    <3>3. h.array[a] \in Seq(DOMAIN h.child)
      BY <3>1, <3>2, Kinds DEF Holds
    <3>4. QED
      BY <3>3, SeqIs
  <2>3. QED
    BY <1>2, <2>1, <2>2
<1>5. QED
  BY <1>1, <1>2, <1>3, <1>4

LEMMA CollectedOK ==
  ASSUME NEW h, HeapOK(h), NEW g,
         g = [kernel |-> h.kernel, array |-> [a \in LiveArrays(h) |-> h.array[a]],
              child |-> [o \in LiveObjs(h) |-> h.child[o]]]
  PROVE  /\ HeapOK(g)
         /\ \A a \in DOMAIN g.array : g.array[a] \in Seq(Vals \union DOMAIN g.child)
<1> DEFINE As == LiveArrays(h)
           Os == LiveObjs(h)
<1>1. /\ g.kernel = h.kernel /\ g = [kernel |-> g.kernel, array |-> g.array, child |-> g.child]
      /\ DOMAIN g.array = As /\ g.array = [a \in As |-> g.array[a]] /\ \A a \in As : g.array[a] = h.array[a]
      /\ DOMAIN g.child = Os /\ g.child = [o \in Os |-> g.child[o]] /\ \A o \in Os : g.child[o] = h.child[o]
  OBVIOUS
<1>2. /\ \A a : a \in As <=> a # Undefined /\ \E k \in Kernels, f \in Repeated : Has(h, k, f, a)
      /\ \A k \in Kernels, f \in Singles : \A o : Has(h, k, f, o) /\ o # Undefined => o \in Os
      /\ \A k \in Kernels, f \in RepeatedMessages : \A a :
           Has(h, k, f, a) /\ a # Undefined => \A i \in DOMAIN h.array[a] : h.array[a][i] \in Os
      /\ As \subseteq DOMAIN h.array /\ Os \subseteq DOMAIN h.child
  BY LiveIs
<1> HIDE DEF As, Os
<1>3. ASSUME NEW k \in Kernels, NEW f \in Fields, NEW c, c # Undefined, Has(h, k, f, c)
      PROVE  Holds(g, f, c) /\ ValueOf(g, f, c) = ValueOf(h, f, c)
  <2>1. Holds(h, f, c)
    BY <1>3, CacheFits
  <2>2. CASE f \in Scalars
    BY <2>1, <2>2 DEF Holds, ValueOf
  <2>3. CASE f \in Singles
    <3>1. c \in Os
      BY <1>2, <1>3, <2>3
    <3>2. QED
      BY <1>1, <2>3, <3>1, Kinds DEF Holds, ValueOf
  <2>4. CASE f \in Packables
    <3>1. c \in As
      BY <1>2, <1>3, <2>4, Kinds
    <3>2. h.array[c] \in Seq(Vals) /\ g.array[c] = h.array[c]
      BY <1>1, <2>1, <2>4, <3>1, Kinds DEF Holds
    <3>3. QED
      BY <1>1, <2>4, <3>1, <3>2, Kinds DEF Holds, ValueOf
  <2>5. CASE f \in RepeatedMessages
    <3>1. c \in As /\ \A i \in DOMAIN h.array[c] : h.array[c][i] \in Os
      BY <1>2, <1>3, <2>5, Kinds
    <3>2. h.array[c] \in Seq(DOMAIN h.child) /\ g.array[c] = h.array[c]
      BY <1>1, <2>1, <2>5, <3>1, Kinds DEF Holds
    <3>3. h.array[c] \in Seq(Os)
      <4>1. Len(h.array[c]) \in Nat /\ DOMAIN h.array[c] = 1..Len(h.array[c])
            /\ h.array[c] \in [1..Len(h.array[c]) -> DOMAIN h.child]
        BY <3>2, SeqIs
      <4>2. h.array[c] \in [1..Len(h.array[c]) -> Os]
        BY <3>1, <4>1
      <4>3. QED
        BY <4>1, <4>2, IsSeq
    <3>4. Holds(g, f, c)
      BY <1>1, <2>5, <3>1, <3>2, <3>3, Kinds DEF Holds
    <3>5. ValueOf(g, f, c) = [i \in DOMAIN h.array[c] |-> g.child[h.array[c][i]]]
          /\ ValueOf(h, f, c) = [i \in DOMAIN h.array[c] |-> h.child[h.array[c][i]]]
      <4> DEFINE Of(s, map) == [i \in DOMAIN s |-> map[s[i]]]
      <4>1. f \notin Scalars /\ f \notin Packables /\ f \notin Singles
        BY <2>5, Kinds
      <4>2. ValueOf(g, f, c) = Of(g.array[c], g.child) /\ ValueOf(h, f, c) = Of(h.array[c], h.child)
        BY <4>1, Zenon DEF ValueOf
      <4> HIDE DEF Of
      <4>3. ValueOf(g, f, c) = Of(h.array[c], g.child)
        BY <3>2, <4>2
      <4>4. QED
        BY <4>2, <4>3 DEF Of
    <3>6. QED
      BY <1>1, <3>1, <3>4, <3>5
  <2>6. QED
    BY <2>2, <2>3, <2>4, <2>5, Kinds
<1>4. ASSUME NEW k \in Kernels, NEW f \in Fields, g.kernel[k][f] # NoField
      PROVE  FieldFits(g, f, g.kernel[k][f])
  <2> DEFINE fl == h.kernel[k][f]
  <2>1. FieldFits(h, f, fl) /\ g.kernel[k][f] = fl
    BY <1>1, <1>4 DEF HeapOK
  <2>2. fl.cache # Undefined => Holds(g, f, fl.cache) /\ ValueOf(g, f, fl.cache) = ValueOf(h, f, fl.cache)
    <3>1. Has(h, k, f, fl.cache)
      BY <1>1, <1>4 DEF Has
    <3>2. QED
      BY <1>3, <3>1
  <2> HIDE DEF fl
  <2>3. QED
    BY <2>1, <2>2 DEF FieldFits
<1>5. OwnArrays(g)
  <2>1. \A k, f, a : k \in Kernels => (Has(g, k, f, a) <=> Has(h, k, f, a))
    BY <1>1 DEF Has
  <2>2. DOMAIN g.array \subseteq DOMAIN h.array
    BY <1>1, <1>2
  <2>3. OwnArrays(h)
    BY DEF HeapOK
  <2>4. QED
    BY <2>1, <2>2, <2>3 DEF OwnArrays
<1>6. IsFiniteSet(As) /\ IsFiniteSet(Os) /\ As \subseteq Nat /\ Os \subseteq Nat
  BY <1>2, FS_Subset DEF HeapOK
<1>7. g.child \in [Os -> Contents]
  <2>1. \A o \in Os : h.child[o] \in Contents
    BY <1>2 DEF HeapOK
  <2>2. QED
    BY <1>1, <2>1
<1>8. HeapOK(g)
  <2>1. g.kernel \in [Kernels -> [Fields -> FieldData \union {NoField}]]
    BY <1>1 DEF HeapOK
  <2>2. QED
    BY <1>1, <1>4, <1>5, <1>6, <1>7, <2>1 DEF HeapOK
<1>9. ASSUME NEW a \in As PROVE g.array[a] \in Seq(Vals \union Os)
  <2>1. PICK k \in Kernels, f \in Repeated : a # Undefined /\ Has(h, k, f, a)
    BY <1>2
  <2>2. f \in Fields
    BY DEF Fields
  <2>3. Holds(g, f, a)
    BY <1>3, <2>1, <2>2
  <2>4. g.array[a] \in Seq(Vals) \/ g.array[a] \in Seq(Os)
    BY <1>1, <2>2, <2>3, Kinds DEF Holds
  <2>5. QED
    BY <2>4
<1>10. QED
  BY <1>1, <1>8, <1>9

IInv == HeapOK(heap) /\ TypeOK

LEMMA TypeOKOf ==
  ASSUME HeapOK(heap), \A a \in DOMAIN array : array[a] \in Seq(Vals \union DOMAIN child)
  PROVE  TypeOK
<1>1. heap.kernel = kernel /\ heap.array = array /\ heap.child = child
  BY DEF heap
<1>2. \A k \in Kernels, f \in Fields : FieldOK(f, kernel[k][f])
  <2>1. SUFFICES ASSUME NEW k \in Kernels, NEW f \in Fields, kernel[k][f] # NoField
                 PROVE  FieldOK(f, kernel[k][f])
    BY DEF FieldOK
  <2>2. FieldFits(heap, f, heap.kernel[k][f])
    BY <1>1, <2>1 DEF HeapOK
  <2>3. QED
    BY <1>1, <2>2 DEF FieldFits
<1>3. child \in [DOMAIN child -> Contents]
  BY <1>1 DEF HeapOK
<1>4. QED
  BY <1>2, <1>3 DEF TypeOK

LEMMA BecomeOK ==
  ASSUME NEW h, HeapOK(h), Become(h)
  PROVE  IInv'
<1> DEFINE g == [kernel |-> h.kernel, array |-> [a \in LiveArrays(h) |-> h.array[a]],
                 child |-> [o \in LiveObjs(h) |-> h.child[o]]]
<1>1. heap' = g /\ array' = g.array /\ child' = g.child
  BY DEF Become, heap
<1>2. HeapOK(g) /\ \A a \in DOMAIN g.array : g.array[a] \in Seq(Vals \union DOMAIN g.child)
  <2> DEFINE c == g
  <2>1. c = g
    OBVIOUS
  <2> HIDE DEF c
  <2>2. HeapOK(c) /\ \A a \in DOMAIN c.array : c.array[a] \in Seq(Vals \union DOMAIN c.child)
    BY <2>1, CollectedOK
  <2>3. QED
    BY <2>2 DEF c
<1> HIDE DEF g
<1>3. HeapOK(heap)' /\ (\A a \in DOMAIN array : array[a] \in Seq(Vals \union DOMAIN child))'
  BY <1>1, <1>2
<1>4. TypeOK'
  BY <1>3, TypeOKOf, PTL
<1>5. QED
  BY <1>3, <1>4 DEF IInv

LEMMA GivenOK ==
  ASSUME NEW h, HeapOK(h), NEW f \in Fields, NEW n \in Nat, NEW g \in Given(h, f, n)
  PROVE  /\ HeapOK(g.heap) /\ Grows(h, g.heap)
         /\ g.heap.kernel = h.kernel /\ g.heap.array = h.array
         /\ g.held \in [1..n -> IF f \in Scalars \union Packables THEN Vals ELSE DOMAIN g.heap.child]
<1>1. CASE f \in Scalars \union Packables
  <2>1. PICK vs \in [1..n -> Vals] : g = [heap |-> h, held |-> vs]
    BY <1>1 DEF Given
  <2>2. g.heap = h /\ g.held = vs
    BY <2>1
  <2>3. QED
    BY <1>1, <2>2 DEF Grows
<1>2. CASE f \notin Scalars \union Packables
  <2>1. CASE \E cs \in [1..n -> Contents] : g = NewObjs(h, cs)
    <3>1. PICK cs \in [1..n -> Contents] : g = NewObjs(h, cs)
      BY <2>1
    <3>2. DOMAIN cs = 1..n /\ IsFiniteSet(1..n) /\ \A i \in DOMAIN cs : cs[i] \in Contents
      BY FS_Interval
    <3>3. IsFiniteSet(DOMAIN cs)
      BY <3>2
    <3>4. Makes(h, cs, g)
      BY <3>1 DEF Makes
    <3>5. QED
      BY <1>2, <3>2, <3>3, <3>4, NewObjsOK
  <2>2. CASE \E os \in [1..n -> LiveObjs(h)] : g = [heap |-> h, held |-> os]
    <3>1. PICK os \in [1..n -> LiveObjs(h)] : g = [heap |-> h, held |-> os]
      BY <2>2
    <3>2. g.heap = h /\ g.held = os
      BY <3>1
    <3>3. os \in [1..n -> DOMAIN h.child]
      <4>1. LiveObjs(h) \subseteq DOMAIN h.child
        BY LiveIs
      <4>2. QED
        BY <4>1
    <3>4. QED
      BY <1>2, <3>2, <3>3 DEF Grows
  <2>3. QED
    BY <1>2, <2>1, <2>2 DEF Given
<1>3. QED
  BY <1>1, <1>2

LEMMA ParsedFits ==
  ASSUME NEW h, NEW b \in Seq(Entries), NEW f \in Fields, NEW fl, fl = FromBytes(b)[f], fl # NoField
  PROVE  /\ FieldFits(h, f, fl) /\ fl.cache = Undefined
         /\ fl.index = EntriesIn(b, f) /\ EntriesIn(b, f) # <<>>
<1>1. fl = [index |-> EntriesIn(b, f), cache |-> Undefined, encoder |-> None]
      /\ EntriesIn(b, f) # <<>>
  BY DEF FromBytes, EntriesIn
<1>2. fl.index = EntriesIn(b, f) /\ fl.cache = Undefined /\ fl.encoder = None
  BY <1>1
<1>3. EntriesIn(b, f) \in Seq(FieldEntries(f)) /\ FieldEntries(f) \subseteq Entries
  BY EntriesType DEF FieldEntries
<1>4. EntriesIn(b, f) \in Seq(Entries) /\ EntriesIn(b, f) # Null
  BY <1>3, ValuesAssumption
<1>5. fl \in FieldData
  BY <1>1, <1>4 DEF FieldData
<1>6. FieldOK(f, fl)
  BY <1>2, <1>4, ValuesAssumption DEF FieldOK
<1>7. QED
  BY <1>1, <1>2, <1>3, <1>5, <1>6, ValuesAssumption DEF FieldFits

LEMMA ParsedType ==
  ASSUME NEW b \in Seq(Entries)
  PROVE  /\ FromBytes(b) \in [Fields -> FieldData \union {NoField}]
         /\ \A f \in Fields : FromBytes(b)[f] = NoField <=> EntriesIn(b, f) = <<>>
<1> DEFINE Parsed(f) == IF EntriesIn(b, f) = <<>> THEN NoField
                         ELSE [index |-> EntriesIn(b, f), cache |-> Undefined, encoder |-> None]
<1>1. FromBytes(b) = [f \in Fields |-> Parsed(f)]
  BY DEF FromBytes, EntriesIn
<1>2. ASSUME NEW f \in Fields
      PROVE  /\ FromBytes(b)[f] \in FieldData \union {NoField}
             /\ FromBytes(b)[f] = NoField <=> EntriesIn(b, f) = <<>>
  <2>1. EntriesIn(b, f) \in Seq(FieldEntries(f)) /\ FieldEntries(f) \subseteq Entries
    BY EntriesType DEF FieldEntries
  <2>2. EntriesIn(b, f) \in Seq(Entries)
    BY <2>1
  <2>3. [index |-> EntriesIn(b, f), cache |-> Undefined, encoder |-> None] \in FieldData
    BY <2>2 DEF FieldData
  <2>4. FromBytes(b)[f] = Parsed(f)
    BY <1>1
  <2>5. QED
    BY <2>3, <2>4, ValuesAssumption
<1>3. DOMAIN FromBytes(b) = Fields /\ FromBytes(b) = [f \in Fields |-> FromBytes(b)[f]]
  BY <1>1
<1>4. QED
  BY <1>2, <1>3

LEMMA InitOK == Init => IInv
<1>1. SUFFICES ASSUME Init PROVE IInv
  OBVIOUS
<1>2. heap.kernel = kernel /\ heap.array = array /\ heap.child = child
      /\ heap = [kernel |-> heap.kernel, array |-> heap.array, child |-> heap.child]
      /\ DOMAIN array = {} /\ DOMAIN child = {}
      /\ array = [a \in {} |-> array[a]] /\ child \in [{} -> Contents]
  BY <1>1 DEF heap, Init
<1>3. ASSUME NEW k \in Kernels
      PROVE  \E b \in Seq(Entries) : kernel[k] = FromBytes(b)
  BY <1>1, ValuesAssumption DEF Init
<1>4. kernel \in [Kernels -> [Fields -> FieldData \union {NoField}]]
  <2>1. \A k \in Kernels : kernel[k] \in [Fields -> FieldData \union {NoField}]
    BY <1>3, ParsedType
  <2>2. DOMAIN kernel = Kernels /\ kernel = [k \in Kernels |-> kernel[k]]
    BY <1>1 DEF Init
  <2>3. QED
    BY <2>1, <2>2
<1>5. ASSUME NEW k \in Kernels, NEW f \in Fields, kernel[k][f] # NoField
      PROVE  FieldFits(heap, f, kernel[k][f])
  BY <1>3, <1>5, ParsedFits
<1>6. HeapOK(heap)
  <2>1. IsFiniteSet({}) /\ {} \subseteq Nat
    BY FS_EmptySet
  <2>2. OwnArrays(heap)
    BY <1>2 DEF OwnArrays
  <2>3. QED
    BY <1>2, <1>4, <1>5, <2>1, <2>2 DEF HeapOK
<1>7. TypeOK
  BY <1>2, <1>6, TypeOKOf
<1>8. QED
  BY <1>6, <1>7 DEF IInv

-----------------------------------------------------------------------------
(* The calls. *)

LEMMA FieldAtHand ==
  ASSUME NEW h, HeapOK(h), NEW k \in Kernels, NEW f \in Fields, AtHand(h.kernel[k], f),
         h.kernel[k][f] # NoField
  PROVE  Has(h, k, f, h.kernel[k][f].cache) /\ Holds(h, f, h.kernel[k][f].cache)
<1>1. Has(h, k, f, h.kernel[k][f].cache) /\ h.kernel[k][f].cache # Undefined
  BY DEF Has, AtHand
<1>2. QED
  BY <1>1, CacheFits

LEMMA GetFieldOK ==
  ASSUME HeapOK(heap), NEW k \in Kernels, NEW f \in Fields, GetField(k, f)
  PROVE  IInv'
<1>1. HeapOK(Got(heap, k, f))
  <2>1. heap.kernel = kernel
    BY DEF heap
  <2>2. QED
    BY <2>1, GotOK DEF GetField
<1>2. QED
  BY <1>1, BecomeOK DEF GetField

LEMMA GetMessageAttachOK ==
  ASSUME HeapOK(heap), NEW k \in Kernels, NEW f \in Fields, GetMessageAttach(k, f)
  PROVE  IInv'
<1> DEFINE made == Made(heap, f, Empty)
<1>1. Empty \in Values(f) /\ f \notin Packables
  BY ValuesAssumption, Kinds DEF Values, GetMessageAttach
<1>2. HeapOK(made.heap) /\ HeldFits(made.heap, f, made.held)
  BY <1>1, MadeOK
<1>3. Become(SetField(made.heap, k, f, made.held, "Each"))
  BY DEF GetMessageAttach
<1> HIDE DEF made
<1>4. HeapOK(SetField(made.heap, k, f, made.held, "Each"))
  BY <1>1, <1>2, SetFieldOK
<1>5. QED
  BY <1>3, <1>4, BecomeOK

LEMMA SetSingularOK ==
  ASSUME HeapOK(heap), NEW k \in Kernels, NEW f \in Fields, SetSingular(k, f)
  PROVE  IInv'
<1>1. f \in Scalars \/ f \in Singles
  BY DEF SetSingular
<1>2. PICK g \in Given(heap, f, 1) : Become(SetField(g.heap, k, f, g.held[1], "Each"))
  BY DEF SetSingular
<1>3. HeapOK(g.heap) /\ g.held \in [1..1 -> IF f \in Scalars \union Packables THEN Vals ELSE DOMAIN g.heap.child]
  BY <1>2, GivenOK
<1>4. HeldFits(g.heap, f, g.held[1])
  BY <1>1, <1>3, Kinds DEF HeldFits
<1>5. HeapOK(SetField(g.heap, k, f, g.held[1], "Each"))
  BY <1>3, <1>4, SetFieldOK
<1>6. QED
  BY <1>2, <1>5, BecomeOK

LEMMA EncodersOK ==
  ASSUME NEW f, NEW encoder \in Encoders(f)
  PROVE  encoder \in {"Each", "Packed"} /\ (encoder = "Packed" => f \in Packables)
BY DEF Encoders

\* What is to be in a list.
Members(h, f) == IF f \in Packables THEN Vals ELSE DOMAIN h.child

LEMMA ListFits ==
  ASSUME NEW h, NEW f \in Repeated
  PROVE  \A held : HeldFits(h, f, held) <=> held \in Seq(Members(h, f))
<1>1. f \in Fields
  BY DEF Fields
<1>2. f \notin Scalars /\ f \notin Singles
  BY <1>1, Kinds
<1>3. QED
  BY <1>2 DEF HeldFits, Members

LEMMA GivenToList ==
  ASSUME NEW h, HeapOK(h), NEW f \in Repeated, NEW n \in Nat, NEW g \in Given(h, f, n)
  PROVE  g.held \in [1..n -> Members(g.heap, f)] /\ g.held \in Seq(Members(g.heap, f))
<1>1. f \in Fields
  BY DEF Fields
<1>2. g.held \in [1..n -> Members(g.heap, f)]
  BY <1>1, GivenOK, Kinds DEF Members
<1>3. QED
  BY <1>2, IsSeq

LEMMA SetRepeatedIterableOK ==
  ASSUME HeapOK(heap), NEW k \in Kernels, NEW f \in Fields, SetRepeatedIterable(k, f)
  PROVE  IInv'
<1>1. f \in Repeated
  BY DEF SetRepeatedIterable
<1>2. PICK n \in 0..1, encoder \in Encoders(f) :
        \E g \in Given(heap, f, n) : Become(SetField(g.heap, k, f, g.held, encoder))
  BY DEF SetRepeatedIterable
<1>3. PICK g \in Given(heap, f, n) : Become(SetField(g.heap, k, f, g.held, encoder))
  BY <1>2
<1>4. n \in Nat
  OBVIOUS
<1>5. HeapOK(g.heap) /\ HeldFits(g.heap, f, g.held)
  BY <1>1, <1>4, GivenOK, GivenToList, ListFits
<1>6. HeapOK(SetField(g.heap, k, f, g.held, encoder))
  BY <1>5, EncodersOK, SetFieldOK
<1>7. QED
  BY <1>3, <1>6, BecomeOK

LEMMA MembersMore ==
  ASSUME NEW h, NEW g, Grows(h, g), NEW f, NEW s \in Seq(Members(h, f))
  PROVE  s \in Seq(Members(g, f))
<1>1. Members(h, f) \subseteq Members(g, f)
  BY DEF Members, Grows
<1>2. QED
  BY <1>1

LEMMA ElementsFit ==
  ASSUME NEW h, HeapOK(h), NEW k \in Kernels, NEW f \in Repeated, AtHand(h.kernel[k], f)
  PROVE  Elements(h, k, f) \in Seq(Members(h, f))
<1>1. f \in Fields
  BY DEF Fields
<1>2. CASE h.kernel[k][f] = NoField
  BY <1>2 DEF Elements
<1>3. CASE h.kernel[k][f] # NoField
  <2>1. Holds(h, f, h.kernel[k][f].cache)
    BY <1>1, <1>3, FieldAtHand
  <2>2. h.array[h.kernel[k][f].cache] \in Seq(Members(h, f))
    BY <1>1, <2>1, Kinds DEF Holds, Members
  <2>3. QED
    BY <1>3, <2>2 DEF Elements
<1>4. QED
  BY <1>2, <1>3

LEMMA AddRepeatedIterableOK ==
  ASSUME HeapOK(heap), NEW k \in Kernels, NEW f \in Fields, AddRepeatedIterable(k, f)
  PROVE  IInv'
<1> DEFINE got == Got(heap, k, f)
<1>1. f \in Repeated
  BY DEF AddRepeatedIterable
<1>2. PICK n \in 0..1, encoder \in Encoders(f) :
        \E g \in Given(got, f, n) :
          Become(SetField(g.heap, k, f, Elements(g.heap, k, f) \o g.held, encoder))
  BY DEF AddRepeatedIterable
<1>3. PICK g \in Given(got, f, n) :
        Become(SetField(g.heap, k, f, Elements(g.heap, k, f) \o g.held, encoder))
  BY <1>2
<1>4. HeapOK(got) /\ AtHand(got.kernel[k], f)
  <2>1. heap.kernel = kernel
    BY DEF heap
  <2>2. QED
    BY <2>1, GotOK DEF AddRepeatedIterable
<1> HIDE DEF got
<1>5. n \in Nat
  OBVIOUS
<1>6. HeapOK(g.heap) /\ g.heap.kernel = got.kernel /\ g.held \in Seq(Members(g.heap, f))
  BY <1>1, <1>4, <1>5, GivenOK, GivenToList
<1>7. Elements(g.heap, k, f) \in Seq(Members(g.heap, f))
  BY <1>1, <1>4, <1>6, ElementsFit
<1> DEFINE held == Elements(g.heap, k, f) \o g.held
<1>8. held \in Seq(Members(g.heap, f))
  BY <1>6, <1>7
<1> HIDE DEF held
<1>9. HeldFits(g.heap, f, held)
  BY <1>1, <1>8, ListFits
<1>10. HeapOK(SetField(g.heap, k, f, held, encoder))
  BY <1>6, <1>9, EncodersOK, SetFieldOK
<1>11. QED
  BY <1>3, <1>10, BecomeOK DEF held

LEMMA ClearFieldOK ==
  ASSUME HeapOK(heap), NEW k \in Kernels, NEW f \in Fields, ClearField(k, f)
  PROVE  IInv'
<1>1. HeapOK(With(heap, k, f, NoField))
  BY ReplaceOK
<1>2. QED
  BY <1>1, BecomeOK DEF ClearField, With

\* Arrays other than one, and what they stand for.
AlikeBut(c, h, g) ==
  /\ g.child = h.child /\ DOMAIN g.array = DOMAIN h.array
  /\ \A a \in DOMAIN h.array : a # c => g.array[a] = h.array[a]

LEMMA HoldsOther ==
  ASSUME NEW h, NEW g, NEW c, AlikeBut(c, h, g),
         NEW f \in Fields, NEW d, f \in Repeated => d # c, Holds(h, f, d)
  PROVE  Holds(g, f, d) /\ ValueOf(g, f, d) = ValueOf(h, f, d)
<1>1. CASE f \notin Repeated
  BY <1>1, Kinds DEF Holds, ValueOf, AlikeBut
<1>2. CASE f \in Repeated
  <2>1. f \notin Scalars /\ f \notin Singles /\ g.child = h.child
    BY <1>2, Kinds DEF AlikeBut
  <2>2. d \in DOMAIN h.array /\ g.array[d] = h.array[d] /\ d \in DOMAIN g.array
    BY <1>2, <2>1 DEF Holds, AlikeBut
  <2>3. Holds(g, f, d)
    BY <2>1, <2>2 DEF Holds
  <2>4. ValueOf(g, f, d) = ValueOf(h, f, d)
    BY <2>1, <2>2, Zenon DEF ValueOf
  <2>5. QED
    BY <2>3, <2>4
<1>3. QED
  BY <1>1, <1>2

\* A cached list with other elements, and the field with no index.
Listed(h, k, f, c, list, fl) == [h EXCEPT !.array[c] = list, !.kernel[k][f] = fl]

LEMMA ListedOK ==
  ASSUME NEW h, HeapOK(h), NEW k \in Kernels, NEW f \in Repeated, NEW c, Has(h, k, f, c), c # Undefined,
         NEW list \in Seq(Members(h, f)),
         NEW encoder \in {"Each", "Packed"}, encoder = "Packed" => f \in Packables,
         NEW fl, fl = Data(Null, c, encoder),
         NEW g, g = Listed(h, k, f, c, list, fl)
  PROVE  /\ HeapOK(g)
         /\ g.kernel[k][f] = fl /\ fl # NoField
         /\ \A j \in Kernels, e \in Fields : j # k \/ e # f => g.kernel[j][e] = h.kernel[j][e]
         /\ AlikeBut(c, h, g) /\ g.array[c] = list
<1>1. f \in Fields /\ f \notin Scalars /\ f \notin Singles
  BY Kinds DEF Fields
<1>2. c \in DOMAIN h.array /\ c \in Nat
  <2>1. Holds(h, f, c)
    BY <1>1, CacheFits
  <2>2. QED
    BY <1>1, <2>1 DEF Holds, HeapOK
<1>3. fl \in FieldData /\ fl.index = Null /\ fl.cache = c /\ fl.encoder = encoder /\ fl # NoField
  <2>1. fl.index = Null /\ fl.cache = c /\ fl.encoder = encoder
    BY DEF Data
  <2>2. fl \in FieldData
    BY <1>2 DEF Data, FieldData
  <2>3. QED
    BY <2>1, <2>2, ValuesAssumption
<1>4. /\ h.kernel \in [Kernels -> [Fields -> FieldData \union {NoField}]]
      /\ g = [kernel |-> [h.kernel EXCEPT ![k] = [h.kernel[k] EXCEPT ![f] = fl]],
              array |-> [h.array EXCEPT ![c] = list], child |-> h.child]
  BY DEF HeapOK, Listed
<1>5. /\ g.kernel = [h.kernel EXCEPT ![k] = [h.kernel[k] EXCEPT ![f] = fl]]
      /\ g.array = [h.array EXCEPT ![c] = list] /\ g.child = h.child
      /\ g = [kernel |-> g.kernel, array |-> g.array, child |-> g.child]
  BY <1>4, HeapFields
<1>6. /\ g.kernel \in [Kernels -> [Fields -> FieldData \union {NoField}]]
      /\ g.kernel[k][f] = fl
      /\ \A j \in Kernels, e \in Fields : j # k \/ e # f => g.kernel[j][e] = h.kernel[j][e]
  <2>1. fl \in FieldData \union {NoField}
    BY <1>3
  <2>2. QED
    BY <1>1, <1>4, <1>5, <2>1, PutAt
<1>7. /\ DOMAIN g.array = DOMAIN h.array /\ g.array = [a \in DOMAIN g.array |-> g.array[a]]
      /\ g.array[c] = list /\ \A a \in DOMAIN h.array : a # c => g.array[a] = h.array[a]
  <2>1. h.array = [a \in DOMAIN h.array |-> h.array[a]]
    BY DEF HeapOK
  <2>2. QED
    BY <1>2, <1>5, <2>1
<1>8. ASSUME NEW j \in Kernels, NEW e \in Fields, g.kernel[j][e] # NoField
      PROVE  FieldFits(g, e, g.kernel[j][e])
  <2>1. CASE j = k /\ e = f
    <3>1. Holds(g, f, c)
      BY <1>1, <1>2, <1>5, <1>7 DEF Holds, Members
    <3>2. FieldOK(f, fl)
      BY <1>2, <1>3, ValuesAssumption DEF FieldOK
    <3>3. FieldFits(g, f, fl)
      BY <1>3, <3>1, <3>2 DEF FieldFits
    <3>4. QED
      BY <1>6, <2>1, <3>3
  <2>2. CASE j # k \/ e # f
    <3> DEFINE fe == h.kernel[j][e]
    <3>1. g.kernel[j][e] = fe /\ fe # NoField /\ FieldFits(h, e, fe)
      BY <1>6, <1>8, <2>2 DEF HeapOK
    <3>2. e \in Repeated => fe.cache # c
      BY <1>2, <2>2, <3>1 DEF HeapOK, OwnArrays, Has
    <3> HIDE DEF fe
    <3>3. fe.cache # Undefined =>
            Holds(g, e, fe.cache) /\ ValueOf(g, e, fe.cache) = ValueOf(h, e, fe.cache)
      <4>1. SUFFICES ASSUME fe.cache # Undefined
                     PROVE  Holds(g, e, fe.cache) /\ ValueOf(g, e, fe.cache) = ValueOf(h, e, fe.cache)
        OBVIOUS
      <4>2. Holds(h, e, fe.cache)
        BY <3>1, <4>1 DEF FieldFits
      <4>3. AlikeBut(c, h, g)
        BY <1>5, <1>7 DEF AlikeBut
      <4>4. QED
        BY <3>2, <4>2, <4>3, HoldsOther
    <3>4. QED
      BY <3>1, <3>3 DEF FieldFits
  <2>3. QED
    BY <2>1, <2>2
<1>9. OwnArrays(g)
  <2>1. ASSUME NEW j \in Kernels, NEW e \in Fields, NEW a PROVE Has(g, j, e, a) => Has(h, j, e, a)
    <3>1. CASE j = k /\ e = f
      BY <1>3, <1>6, <3>1 DEF Has
    <3>2. CASE j # k \/ e # f
      BY <1>6, <3>2 DEF Has
    <3>3. QED
      BY <3>1, <3>2
  <2>2. OwnArrays(h) /\ \A e \in Repeated : e \in Fields
    BY DEF HeapOK, Fields
  <2>3. QED
    BY <1>7, <2>1, <2>2 DEF OwnArrays
<1>10. QED
  <2>1. /\ DOMAIN g.array \subseteq Nat /\ IsFiniteSet(DOMAIN g.array)
        /\ g.child \in [DOMAIN g.child -> Contents]
        /\ DOMAIN g.child \subseteq Nat /\ IsFiniteSet(DOMAIN g.child)
    BY <1>5, <1>7 DEF HeapOK
  <2>2. HeapOK(g)
    BY <1>5, <1>6, <1>7, <1>8, <1>9, <2>1, Zenon DEF HeapOK
  <2>3. AlikeBut(c, h, g)
    BY <1>5, <1>7 DEF AlikeBut
  <2>4. QED
    BY <1>3, <1>6, <1>7, <2>2, <2>3

\* The heap h that was got has the new element, x, and a list in the cache c to put it in.
ElementGiven(got, h, k, f, c, i, x, encoder) ==
  /\ HeapOK(h) /\ Grows(got, h) /\ h.kernel = got.kernel
  /\ Has(h, k, f, c) /\ c # Undefined
  /\ h.array[c] \in Seq(Members(h, f)) /\ i \in DOMAIN h.array[c] /\ x \in Members(h, f)
  /\ encoder \in {"Each", "Packed"} /\ (encoder = "Packed" => f \in Packables)

\* It takes the place of the element i.
Replaced(list, i, x) == [list EXCEPT ![i] = x]

ElementPut(h, k, f, c, i, x, encoder) ==
  Listed(h, k, f, c, Replaced(h.array[c], i, x), Data(Null, c, encoder))

\* Setting an element leaves a packed field with the encoder of the call, another with its own.
LEMMA SetRepeatedElementIs ==
  ASSUME HeapOK(heap), NEW k \in Kernels, NEW f \in Fields, SetRepeatedElement(k, f)
  PROVE  \E h, c, i, x, encoder :
           /\ ElementGiven(Got(heap, k, f), h, k, f, c, i, x, encoder)
           /\ Become(ElementPut(h, k, f, c, i, x, encoder))
<1> DEFINE got == Got(heap, k, f)
<1>1. f \in Repeated
  BY DEF SetRepeatedElement
<1>2. HeapOK(got) /\ AtHand(got.kernel[k], f)
  <2>1. heap.kernel = kernel
    BY DEF heap
  <2>2. QED
    BY <2>1, GotOK DEF SetRepeatedElement
<1>3. PICK g \in Given(got, f, 1), i \in DOMAIN Elements(got, k, f), encoder \in Encoders(f) :
        LET field == g.heap.kernel[k][f]
            set == [g.heap EXCEPT !.array[field.cache][i] = g.held[1]]
        IN  Become([set EXCEPT !.kernel[k][f] =
              IF f \in Packables
                THEN [index |-> Null, cache |-> field.cache, encoder |-> encoder]
                ELSE field])
  BY DEF SetRepeatedElement
<1> HIDE DEF got
<1> DEFINE h == g.heap
           field == h.kernel[k][f]
           c == field.cache
           list == [h.array[c] EXCEPT ![i] = g.held[1]]
           fl == IF f \in Packables THEN [index |-> Null, cache |-> c, encoder |-> encoder] ELSE field
           new == [h EXCEPT !.array[c][i] = g.held[1], !.kernel[k][f] = fl]
<1>4. /\ HeapOK(h) /\ Grows(got, h) /\ h.kernel = got.kernel /\ h.array = got.array
      /\ g.held[1] \in Members(h, f)
  <2>1. HeapOK(h) /\ Grows(got, h) /\ h.kernel = got.kernel /\ h.array = got.array
    BY <1>2, GivenOK
  <2>2. g.held \in [1..1 -> Members(h, f)]
    BY <1>1, <1>2, GivenToList
  <2>3. QED
    BY <2>1, <2>2
<1>5. Become([[h EXCEPT !.array[c][i] = g.held[1]] EXCEPT !.kernel[k][f] = fl])
  BY <1>3
<1> HIDE DEF h
<1>6. field # NoField /\ c # Undefined /\ i \in DOMAIN h.array[c]
  <2>1. i \in DOMAIN (IF field = NoField THEN <<>> ELSE h.array[c])
    BY <1>4 DEF Elements
  <2>2. field # NoField /\ i \in DOMAIN h.array[c]
    BY <2>1
  <2>3. QED
    BY <1>2, <1>4, <2>2 DEF AtHand
<1>7. h.array[c] \in Seq(Members(h, f)) /\ c \in DOMAIN h.array /\ FieldFits(h, f, field)
  <2>1. Has(h, k, f, c)
    BY <1>6 DEF Has
  <2>2. Holds(h, f, c)
    BY <1>4, <1>6, <2>1, CacheFits
  <2>3. QED
    BY <1>1, <1>4, <1>6, <2>2, Kinds DEF Holds, Members, HeapOK
<1>9. PICK e \in {"Each", "Packed"} : fl = Data(Null, c, e) /\ (e = "Packed" => f \in Packables)
  <2>1. CASE f \in Packables
    BY <2>1, EncodersOK DEF Data
  <2>2. CASE f \notin Packables
    <3>1. f \in RepeatedMessages
      BY <1>1, <2>2 DEF Repeated
    <3>2. field \in FieldData /\ field.encoder # None /\ field.index = Null
      BY <1>6, <1>7, <3>1 DEF FieldFits, FieldOK
    <3>3. field.encoder \in {"Each", "Packed"} /\ (field.encoder = "Packed" => f \in Packables)
      BY <1>7, <3>2, FieldIs DEF FieldFits
    <3>4. field = [index |-> field.index, cache |-> field.cache, encoder |-> field.encoder]
      BY <3>2, FieldIs
    <3> HIDE DEF field
    <3>5. field = Data(Null, field.cache, field.encoder)
      BY <3>2, <3>4 DEF Data
    <3>6. QED
      BY <2>2, <3>3, <3>5
  <2>3. QED
    BY <2>1, <2>2
<1>10. [[h EXCEPT !.array[c][i] = g.held[1]] EXCEPT !.kernel[k][f] = fl] = Listed(h, k, f, c, list, fl)
  <2>1. h = [kernel |-> h.kernel, array |-> h.array, child |-> h.child]
    BY <1>4 DEF HeapOK
  <2> HIDE DEF fl, field, c
  <2>2. QED
    BY <2>1 DEF Listed
<1>11. Has(h, k, f, c)
  BY <1>6 DEF Has
<1> HIDE DEF fl, c, field
<1>12. ElementGiven(got, h, k, f, c, i, g.held[1], e)
  BY <1>4, <1>6, <1>7, <1>9, <1>11 DEF ElementGiven
<1>13. Become(ElementPut(h, k, f, c, i, g.held[1], e))
  BY <1>5, <1>9, <1>10 DEF ElementPut, Replaced, list
<1>14. QED
  BY <1>12, <1>13 DEF got

LEMMA ElementPutOK ==
  ASSUME NEW k \in Kernels, NEW f \in Repeated, NEW got, NEW h, NEW c, NEW i, NEW x, NEW encoder,
         ElementGiven(got, h, k, f, c, i, x, encoder)
  PROVE  LET g == ElementPut(h, k, f, c, i, x, encoder) IN
         /\ HeapOK(g)
         /\ g.kernel[k][f] = Data(Null, c, encoder) /\ Data(Null, c, encoder) # NoField
         /\ \A j \in Kernels, e \in Fields : j # k \/ e # f => g.kernel[j][e] = h.kernel[j][e]
         /\ AlikeBut(c, h, g) /\ g.array[c] = Replaced(h.array[c], i, x)
<1> DEFINE s == h.array[c]
           list == Replaced(s, i, x)
<1>1. s \in Seq(Members(h, f)) /\ x \in Members(h, f) /\ i \in DOMAIN s
  BY DEF ElementGiven
<1> HIDE DEF s
<1>2. list \in Seq(Members(h, f))
  BY <1>1 DEF Replaced
<1> HIDE DEF list
<1>3. /\ HeapOK(h) /\ Has(h, k, f, c) /\ c # Undefined
      /\ encoder \in {"Each", "Packed"} /\ (encoder = "Packed" => f \in Packables)
  BY DEF ElementGiven
<1>4. ElementPut(h, k, f, c, i, x, encoder) = Listed(h, k, f, c, list, Data(Null, c, encoder))
  BY DEF ElementPut, list, s
<1>5. QED
  BY <1>2, <1>3, <1>4, ListedOK DEF list, s

LEMMA SetRepeatedElementOK ==
  ASSUME HeapOK(heap), NEW k \in Kernels, NEW f \in Fields, SetRepeatedElement(k, f)
  PROVE  IInv'
<1>1. f \in Repeated
  BY DEF SetRepeatedElement
<1>2. PICK h, c, i, x, encoder :
        /\ ElementGiven(Got(heap, k, f), h, k, f, c, i, x, encoder)
        /\ Become(ElementPut(h, k, f, c, i, x, encoder))
  BY SetRepeatedElementIs
<1>3. HeapOK(ElementPut(h, k, f, c, i, x, encoder))
  BY <1>1, <1>2, ElementPutOK
<1>4. QED
  BY <1>2, <1>3, BecomeOK

\* Only in a kernel's cache is an object, and its content may change.
Edited(h, o, g) ==
  /\ HeapOK(g) /\ g.kernel = h.kernel /\ g.array = h.array
  /\ DOMAIN g.child = DOMAIN h.child
  /\ \A p \in DOMAIN h.child : p # o => g.child[p] = h.child[p]

LEMMA EditIs ==
  ASSUME HeapOK(heap), NEW o \in DOMAIN child, Edit(o)
  PROVE  \E g : Edited(heap, o, g) /\ Become(g)
<1>1. PICK c \in Contents : Become([heap EXCEPT !.child[o] = c])
  BY DEF Edit
<1> DEFINE h == heap
           g == [h EXCEPT !.child[o] = c]
<1>2. /\ h.kernel = kernel /\ h.array = array /\ h.child = child
      /\ g = [kernel |-> h.kernel, array |-> h.array, child |-> [h.child EXCEPT ![o] = c]]
  BY DEF heap
<1>3. HeapOK(h)
  OBVIOUS
<1>4. g.kernel = h.kernel /\ g.array = h.array /\ g.child = [h.child EXCEPT ![o] = c]
      /\ g = [kernel |-> g.kernel, array |-> g.array, child |-> g.child]
  BY <1>2, HeapFields
<1>5. \A k \in Kernels, f \in Singles :
        h.kernel[k][f] # NoField => h.kernel[k][f].cache # o \/ h.kernel[k][f].encoder # None
  BY <1>2 DEF Edit
<1> HIDE DEF g, h
<1>6. /\ DOMAIN g.child = DOMAIN h.child /\ g.child \in [DOMAIN g.child -> Contents]
      /\ \A p \in DOMAIN h.child : p # o => g.child[p] = h.child[p]
  <2>1. h.child \in [DOMAIN h.child -> Contents]
    BY <1>3 DEF HeapOK
  <2>2. QED
    BY <1>1, <1>4, <2>1
<1>7. ASSUME NEW k \in Kernels, NEW f \in Fields, h.kernel[k][f] # NoField
      PROVE  FieldFits(g, f, h.kernel[k][f])
  <2> DEFINE fl == h.kernel[k][f]
  <2>1. FieldFits(h, f, fl)
    BY <1>3, <1>7 DEF HeapOK
  <2>2. fl.cache # Undefined => Holds(g, f, fl.cache)
    BY <1>4, <1>6, <2>1 DEF FieldFits, Holds
  <2>3. ASSUME fl.cache # Undefined, fl.index # Null
        PROVE  ValueOf(g, f, fl.cache) = ValueOf(h, f, fl.cache)
    <3>1. f \notin RepeatedMessages /\ fl.encoder = None
      BY <1>7, <2>1, <2>3 DEF FieldFits, FieldOK
    <3>2. CASE f \in Scalars \/ f \in Packables
      BY <1>4, <3>2, Kinds DEF ValueOf
    <3>3. CASE f \in Singles
      <4>1. fl.cache # o /\ fl.cache \in DOMAIN h.child
        BY <1>5, <1>7, <2>1, <2>3, <3>1, <3>3, Kinds DEF FieldFits, Holds
      <4>2. g.child[fl.cache] = h.child[fl.cache]
        BY <1>6, <4>1
      <4>3. QED
        BY <3>3, <4>2, Kinds DEF ValueOf
    <3>4. QED
      BY <3>1, <3>2, <3>3, Kinds
  <2> HIDE DEF fl
  <2>4. QED
    BY <2>1, <2>2, <2>3 DEF FieldFits, fl
<1>8. HeapOK(g)
  <2>1. OwnArrays(g)
    <3>1. OwnArrays(h) /\ g.array = h.array /\ \A k, f, a : Has(g, k, f, a) <=> Has(h, k, f, a)
      BY <1>3, <1>4 DEF HeapOK, Has
    <3>2. QED
      BY <3>1 DEF OwnArrays
  <2>2. /\ g.kernel \in [Kernels -> [Fields -> FieldData \union {NoField}]]
        /\ g.array = [a \in DOMAIN g.array |-> g.array[a]]
        /\ DOMAIN g.array \subseteq Nat /\ IsFiniteSet(DOMAIN g.array)
        /\ DOMAIN g.child \subseteq Nat /\ IsFiniteSet(DOMAIN g.child)
    BY <1>3, <1>4, <1>6 DEF HeapOK
  <2>3. \A k \in Kernels, f \in Fields : g.kernel[k][f] # NoField => FieldFits(g, f, g.kernel[k][f])
    BY <1>4, <1>7
  <2>4. QED
    BY <1>4, <1>6, <2>1, <2>2, <2>3, Zenon DEF HeapOK
<1>9. Become(g)
  BY <1>1 DEF g, h
<1>10. Edited(h, o, g)
  BY <1>4, <1>6, <1>8 DEF Edited
<1>11. QED
  BY <1>9, <1>10 DEF h

LEMMA EditOK ==
  ASSUME HeapOK(heap), NEW o \in DOMAIN child, Edit(o)
  PROVE  IInv'
<1>1. PICK g : Edited(heap, o, g) /\ Become(g)
  BY EditIs
<1>2. QED
  BY <1>1, BecomeOK DEF Edited

-----------------------------------------------------------------------------
(* A kernel made of another one. *)

\* The heap with another kernel j.
Loaded(h, j, L) == [h EXCEPT !.kernel[j] = L]

\* The array a is in the cache of the field f of a kernel L.
HasIn(L, f, a) == L[f] # NoField /\ L[f].cache = a

LEMMA LoadedOK ==
  ASSUME NEW h, HeapOK(h), NEW j \in Kernels, NEW L \in [Fields -> FieldData \union {NoField}],
         \A f \in Fields : L[f] # NoField => FieldFits(h, f, L[f]),
         \A f, e \in Repeated : \A a \in DOMAIN h.array : HasIn(L, f, a) /\ HasIn(L, e, a) => f = e,
         \A f, e \in Repeated : \A a \in DOMAIN h.array : \A k \in Kernels :
           HasIn(L, f, a) /\ Has(h, k, e, a) => k = j,
         NEW g, g = Loaded(h, j, L)
  PROVE  /\ HeapOK(g) /\ g.array = h.array /\ g.child = h.child /\ g.kernel[j] = L
         /\ \A k \in Kernels : k # j => g.kernel[k] = h.kernel[k]
<1>1. /\ h.kernel \in [Kernels -> [Fields -> FieldData \union {NoField}]]
      /\ g = [kernel |-> [h.kernel EXCEPT ![j] = L], array |-> h.array, child |-> h.child]
  BY DEF HeapOK, Loaded
<1>2. /\ g.kernel = [h.kernel EXCEPT ![j] = L] /\ g.array = h.array /\ g.child = h.child
      /\ g = [kernel |-> g.kernel, array |-> g.array, child |-> g.child]
  BY <1>1, HeapFields
<1>3. /\ g.kernel \in [Kernels -> [Fields -> FieldData \union {NoField}]]
      /\ g.kernel[j] = L /\ \A k \in Kernels : k # j => g.kernel[k] = h.kernel[k]
  BY <1>1, <1>2
<1>4. Grows(h, g)
  BY <1>2 DEF Grows
<1>5. ASSUME NEW k \in Kernels, NEW f \in Fields, g.kernel[k][f] # NoField
      PROVE  FieldFits(g, f, g.kernel[k][f])
  <2>1. FieldFits(h, f, g.kernel[k][f])
    BY <1>3, <1>5 DEF HeapOK
  <2>2. QED
    BY <1>4, <2>1, FitsMore
<1>6. OwnArrays(g)
  <2>1. SUFFICES ASSUME NEW i \in Kernels, NEW k \in Kernels, NEW f \in Repeated, NEW e \in Repeated,
                        NEW a \in DOMAIN g.array, Has(g, i, f, a), Has(g, k, e, a)
                 PROVE  i = k /\ f = e
    BY DEF OwnArrays
  <2>2. a \in DOMAIN h.array
    BY <1>2
  <2>3. CASE i = j /\ k = j
    BY <1>3, <2>1, <2>2, <2>3 DEF Has, HasIn
  <2>4. CASE i = j /\ k # j
    BY <1>3, <2>1, <2>2, <2>4 DEF Has, HasIn
  <2>5. CASE i # j /\ k = j
    BY <1>3, <2>1, <2>2, <2>5 DEF Has, HasIn
  <2>6. CASE i # j /\ k # j
    <3>1. Has(h, i, f, a) /\ Has(h, k, e, a)
      BY <1>3, <2>1, <2>6 DEF Has
    <3>2. QED
      BY <2>2, <3>1 DEF HeapOK, OwnArrays
  <2>7. QED
    BY <2>3, <2>4, <2>5, <2>6
<1>7. QED
  <2>1. /\ g.array = [a \in DOMAIN g.array |-> g.array[a]]
        /\ DOMAIN g.array \subseteq Nat /\ IsFiniteSet(DOMAIN g.array)
        /\ g.child \in [DOMAIN g.child -> Contents]
        /\ DOMAIN g.child \subseteq Nat /\ IsFiniteSet(DOMAIN g.child)
    BY <1>2 DEF HeapOK
  <2>2. HeapOK(g)
    BY <1>2, <1>3, <1>5, <1>6, <2>1, Zenon DEF HeapOK
  <2>3. QED
    BY <1>2, <1>3, <2>2

\* New arrays with given elements.
WithArrays(h, S, names, lists) == [h EXCEPT !.array = Extended(h.array, names, lists)]

Adds(h, S, names, lists, g) ==
  names = Fresh(DOMAIN h.array, S) /\ g = WithArrays(h, S, names, lists)

LEMMA NewArraysOK ==
  ASSUME NEW h, HeapOK(h), NEW S, IsFiniteSet(S), NEW names, NEW lists, NEW g,
         Adds(h, S, names, lists, g)
  PROVE  /\ HeapOK(g) /\ Grows(h, g) /\ g.kernel = h.kernel /\ g.child = h.child
         /\ \A x \in S : names[x] \in Nat /\ names[x] \in DOMAIN g.array /\ g.array[names[x]] = lists[x]
                           /\ names[x] \notin DOMAIN h.array
         /\ \A x, y \in S : names[x] = names[y] => x = y
<1> DEFINE more == Extended(h.array, names, lists)
<1>1. IsFiniteSet(DOMAIN h.array)
  BY DEF HeapOK
<1>2. /\ names \in [S -> Nat] /\ \A x \in S : names[x] \notin DOMAIN h.array
      /\ \A x, y \in S : names[x] = names[y] => x = y
  BY <1>1, FreshNames DEF Adds
<1>3. /\ more = [a \in DOMAIN more |-> more[a]]
      /\ \A a : a \in DOMAIN more <=> a \in DOMAIN h.array \/ \E x \in S : a = names[x]
      /\ \A a \in DOMAIN h.array : more[a] = h.array[a]
      /\ \A x \in S : more[names[x]] = lists[x]
  <2>1. DOMAIN names = S
    BY <1>2
  <2>2. /\ \A x \in DOMAIN names : names[x] \notin DOMAIN h.array
        /\ \A x, y \in DOMAIN names : names[x] = names[y] => x = y
    BY <1>2, <2>1
  <2> HIDE DEF more
  <2>3. more = Extended(h.array, names, lists)
    BY DEF more
  <2>4. /\ more = [a \in DOMAIN more |-> more[a]]
        /\ \A a : a \in DOMAIN more <=> a \in DOMAIN h.array \/ \E x \in DOMAIN names : a = names[x]
        /\ \A a \in DOMAIN h.array : more[a] = h.array[a]
        /\ \A x \in DOMAIN names : more[names[x]] = lists[x]
    BY <2>2, <2>3, ExtendedIs
  <2>5. QED
    BY <2>1, <2>4
<1> HIDE DEF more
<1>4. g = [kernel |-> h.kernel, array |-> more, child |-> h.child]
  BY DEF HeapOK, more, WithArrays, Adds
<1>5. g.kernel = h.kernel /\ g.array = more /\ g.child = h.child
      /\ g = [kernel |-> g.kernel, array |-> g.array, child |-> g.child]
  BY <1>4, HeapFields
<1>6. Grows(h, g)
  BY <1>3, <1>5 DEF Grows
<1>7. IsFiniteSet(DOMAIN more) /\ DOMAIN more \subseteq Nat
  <2> DEFINE New == {names[x] : x \in S}
  <2>1. S = DOMAIN names
    BY <1>2
  <2>2. IsFiniteSet(New)
    BY <2>1, ImageFinite
  <2>3. \A a : a \in New <=> \E x \in S : a = names[x]
    OBVIOUS
  <2> HIDE DEF New
  <2>4. DOMAIN more = DOMAIN h.array \union New
    BY <1>3, <2>3, Zenon
  <2>5. IsFiniteSet(DOMAIN more)
    BY <1>1, <2>2, <2>4, FS_Union
  <2>6. DOMAIN h.array \subseteq Nat
    BY DEF HeapOK
  <2>7. QED
    BY <1>2, <1>3, <2>5, <2>6
<1>8. HeapOK(g)
  <2>1. ASSUME NEW k \in Kernels, NEW e \in Fields, g.kernel[k][e] # NoField
        PROVE  FieldFits(g, e, g.kernel[k][e])
    <3>1. FieldFits(h, e, h.kernel[k][e])
      BY <1>5, <2>1 DEF HeapOK
    <3>2. QED
      BY <1>5, <1>6, <3>1, FitsMore
  <2>2. OwnArrays(g)
    <3>1. SUFFICES ASSUME NEW i \in Kernels, NEW j \in Kernels, NEW e \in Repeated, NEW b \in Repeated,
                          NEW a \in DOMAIN g.array, Has(g, i, e, a), Has(g, j, b, a)
                   PROVE  i = j /\ e = b
      BY DEF OwnArrays
    <3>2. Has(h, i, e, a) /\ Has(h, j, b, a)
      BY <1>5, <3>1 DEF Has
    <3>3. a \in DOMAIN h.array
      <4>1. e \in Fields
        BY DEF Fields
      <4>2. a # Undefined
        BY <1>5, <1>7, ValuesAssumption
      <4>3. Holds(h, e, a)
        BY <3>2, <4>1, <4>2, CacheFits
      <4>4. QED
        BY <4>1, <4>3, Kinds DEF Holds
    <3>4. QED
      BY <3>2, <3>3 DEF HeapOK, OwnArrays
  <2>3. /\ g.kernel \in [Kernels -> [Fields -> FieldData \union {NoField}]]
        /\ g.array = [a \in DOMAIN g.array |-> g.array[a]]
        /\ DOMAIN g.array \subseteq Nat /\ IsFiniteSet(DOMAIN g.array)
        /\ g.child \in [DOMAIN g.child -> Contents]
        /\ DOMAIN g.child \subseteq Nat /\ IsFiniteSet(DOMAIN g.child)
    BY <1>3, <1>5, <1>7 DEF HeapOK
  <2>4. QED
    BY <1>5, <2>1, <2>2, <2>3, Zenon DEF HeapOK
<1>9. QED
  BY <1>2, <1>3, <1>5, <1>6, <1>8

\* A repeated field keeps its value, and what holds it, in another array with the same elements.
LEMMA HoldsCopy ==
  ASSUME NEW h, NEW g, Grows(h, g), g.child = h.child, NEW f \in Repeated, NEW c, Holds(h, f, c),
         NEW d, d \in DOMAIN g.array, g.array[d] = h.array[c]
  PROVE  Holds(g, f, d) /\ ValueOf(g, f, d) = ValueOf(h, f, c)
<1>1. f \in Fields /\ f \notin Scalars /\ f \notin Singles
  BY Kinds DEF Fields
<1>2. Holds(g, f, d)
  BY <1>1 DEF Holds
<1>3. ValueOf(g, f, d) = ValueOf(h, f, c)
  BY <1>1, Zenon DEF ValueOf
<1>4. QED
  BY <1>2, <1>3

\* The field f of the kernel k of h has the same bytes as in j of g, and a cache that stands
\* for the same.
AlikeData(h, k, g, j, f) ==
  LET fl == h.kernel[k][f]
      gl == g.kernel[j][f]
  IN  /\ gl = NoField <=> fl = NoField
      /\ fl # NoField => gl.index = fl.index /\ (gl.cache = Undefined <=> fl.cache = Undefined)
      /\ fl # NoField /\ fl.cache # Undefined =>
           /\ ValueOf(g, f, gl.cache) = ValueOf(h, f, fl.cache)
           /\ f \in Repeated => g.array[gl.cache] = h.array[fl.cache]
           /\ f \in Singles => gl.cache = fl.cache

LEMMA CopiedOK ==
  ASSUME NEW h, HeapOK(h), NEW k \in Kernels, NEW j \in Kernels
  PROVE  /\ HeapOK(Copied(h, k, j)) /\ Grows(h, Copied(h, k, j))
         /\ \A i \in Kernels : i # j => Copied(h, k, j).kernel[i] = h.kernel[i]
         /\ \A f \in Fields : AlikeData(h, k, Copied(h, k, j), j, f)
<1> DEFINE K == h.kernel[k]
           S == {f \in Repeated : K[f] # NoField /\ K[f].cache # Undefined}
           copies == Fresh(DOMAIN h.array, S)
           lists == [f \in S |-> h.array[K[f].cache]]
           g == WithArrays(h, S, copies, lists)
           L == [f \in Fields |-> IF f \in S THEN [K[f] EXCEPT !.cache = copies[f]] ELSE K[f]]
<1>1. Copied(h, k, j) = Loaded(g, j, L)
  BY DEF Copied, Loaded, WithArrays, HeapOK
<1>2. IsFiniteSet(S) /\ S \subseteq Fields
  BY FieldsFinite, FS_Subset DEF Fields
<1>3. K \in [Fields -> FieldData \union {NoField}] /\ \A f \in Fields : K[f] # NoField => FieldFits(h, f, K[f])
  BY DEF HeapOK
<1> HIDE DEF S, copies, g
<1>4. Adds(h, S, copies, lists, g)
  BY DEF g, copies, Adds
<1> HIDE DEF K
<1>5. \A f \in S : lists[f] = h.array[K[f].cache]
  OBVIOUS
<1> HIDE DEF lists
<1>6. /\ HeapOK(g) /\ Grows(h, g) /\ g.kernel = h.kernel /\ g.child = h.child
      /\ \A f \in S : copies[f] \in Nat /\ copies[f] \in DOMAIN g.array /\ g.array[copies[f]] = lists[f]
                        /\ copies[f] \notin DOMAIN h.array
      /\ \A f, e \in S : copies[f] = copies[e] => f = e
  BY <1>2, <1>4, NewArraysOK
<1>7. ASSUME NEW f \in S
      PROVE  /\ L[f] = Data(K[f].index, copies[f], K[f].encoder) /\ L[f] \in FieldData
             /\ L[f].cache = copies[f] /\ FieldFits(g, f, L[f])
             /\ K[f] # NoField /\ K[f].cache # Undefined
             /\ ValueOf(g, f, copies[f]) = ValueOf(h, f, K[f].cache)
  <2> DEFINE fl == K[f]
             fc == Data(fl.index, copies[f], fl.encoder)
  <2>1. fl # NoField /\ fl.cache # Undefined /\ f \in Repeated /\ f \in Fields
    BY <1>2 DEF S
  <2>2. FieldFits(h, f, fl) /\ fl \in FieldData
    BY <1>3, <2>1 DEF FieldFits
  <2>3. L[f] = [fl EXCEPT !.cache = copies[f]]
    BY <2>1
  <2> HIDE DEF fl
  <2>4. L[f] = fc
    BY <2>2, <2>3, FieldIs DEF Data
  <2>5. fc.index = fl.index /\ fc.cache = copies[f] /\ fc.encoder = fl.encoder
    BY DEF Data
  <2>6. fc \in FieldData
    BY <1>6, <2>2, FieldIs DEF Data, FieldData
  <2> HIDE DEF fc
  <2>7. Holds(g, f, copies[f]) /\ ValueOf(g, f, copies[f]) = ValueOf(h, f, fl.cache)
    <3>1. Holds(h, f, fl.cache)
      BY <2>1, <2>2 DEF FieldFits
    <3>2. copies[f] \in DOMAIN g.array /\ g.array[copies[f]] = h.array[fl.cache]
      BY <1>5, <1>6 DEF fl
    <3>3. QED
      BY <1>6, <2>1, <3>1, <3>2, HoldsCopy
  <2>8. FieldOK(f, fc)
    <3>1. copies[f] # Undefined
      BY <1>6, ValuesAssumption
    <3>2. QED
      BY <2>1, <2>2, <2>5, <3>1 DEF FieldFits, FieldOK
  <2>9. FieldFits(g, f, fc)
    BY <2>1, <2>2, <2>5, <2>6, <2>7, <2>8 DEF FieldFits
  <2>10. QED
    BY <2>1, <2>4, <2>5, <2>6, <2>7, <2>9 DEF fc, fl
<1>8. ASSUME NEW f \in Fields, f \notin S
      PROVE  L[f] = K[f]
  BY <1>8
<1>9. L = [f \in Fields |-> L[f]]
  OBVIOUS
<1> HIDE DEF L
<1>10. L \in [Fields -> FieldData \union {NoField}]
  <2>1. \A f \in Fields : L[f] \in FieldData \union {NoField}
    BY <1>3, <1>7, <1>8
  <2>2. QED
    BY <1>9, <2>1
<1>11. ASSUME NEW f \in Fields, L[f] # NoField PROVE FieldFits(g, f, L[f])
  <2>1. CASE f \in S
    BY <1>7, <2>1
  <2>2. CASE f \notin S
    BY <1>3, <1>6, <1>8, <1>11, <2>2, FitsMore
  <2>3. QED
    BY <2>1, <2>2
<1>12. ASSUME NEW f \in Repeated, NEW a \in DOMAIN g.array, HasIn(L, f, a)
       PROVE  f \in S /\ a = copies[f]
  <2>1. f \in Fields /\ a # Undefined
    BY <1>6, ValuesAssumption DEF Fields, HeapOK
  <2>2. f \notin S => K[f] # NoField /\ K[f].cache = a
    BY <1>8, <1>12, <2>1 DEF HasIn
  <2>3. f \in S
    BY <2>1, <2>2 DEF S
  <2>4. QED
    BY <1>7, <1>12, <2>3 DEF HasIn
<1>13. ASSUME NEW i \in Kernels, NEW e \in Repeated, NEW f \in S, Has(g, i, e, copies[f])
       PROVE  FALSE
  <2>1. e \in Fields /\ Has(h, i, e, copies[f]) /\ copies[f] # Undefined
    BY <1>6, <1>13, ValuesAssumption DEF Has, Fields
  <2>2. Holds(h, e, copies[f])
    BY <2>1, CacheFits
  <2>3. QED
    BY <1>6, <2>1, <2>2, Kinds DEF Holds
<1> DEFINE c == Loaded(g, j, L)
<1>14. /\ HeapOK(c) /\ c.array = g.array /\ c.child = g.child /\ c.kernel[j] = L
       /\ \A i \in Kernels : i # j => c.kernel[i] = g.kernel[i]
  <2>1. \A f, e \in Repeated : \A a \in DOMAIN g.array : HasIn(L, f, a) /\ HasIn(L, e, a) => f = e
    BY <1>6, <1>12
  <2>2. \A f, e \in Repeated : \A a \in DOMAIN g.array : \A i \in Kernels :
           HasIn(L, f, a) /\ Has(g, i, e, a) => i = j
    BY <1>12, <1>13
  <2>3. QED
    BY <1>6, <1>10, <1>11, <2>1, <2>2, LoadedOK
<1> HIDE DEF c
<1>15. Grows(h, c)
  BY <1>6, <1>14 DEF Grows
<1>16. ASSUME NEW f \in Fields PROVE AlikeData(h, k, c, j, f)
  <2> DEFINE fl == K[f]
             gl == L[f]
  <2>1. CASE f \in S
    <3>1. /\ gl # NoField /\ gl.index = fl.index /\ gl.cache = copies[f]
          /\ fl # NoField /\ fl.cache # Undefined
          /\ ValueOf(g, f, copies[f]) = ValueOf(h, f, fl.cache)
      <4>1. gl = Data(fl.index, copies[f], fl.encoder) /\ gl \in FieldData
        BY <1>7, <2>1
      <4>2. gl # NoField
        BY <4>1, ValuesAssumption
      <4>3. fl # NoField /\ fl.cache # Undefined /\ ValueOf(g, f, copies[f]) = ValueOf(h, f, fl.cache)
        BY <1>7, <2>1
      <4> HIDE DEF fl, gl
      <4>4. gl.index = fl.index /\ gl.cache = copies[f]
        BY <4>1 DEF Data
      <4>5. QED
        BY <4>2, <4>3, <4>4
    <3>2. gl.cache # Undefined /\ c.array[gl.cache] = h.array[fl.cache] /\ f \notin Singles
      <4>1. copies[f] \in Nat /\ g.array[copies[f]] = h.array[fl.cache]
        BY <1>5, <1>6, <2>1
      <4>2. f \in Repeated
        BY <2>1 DEF S
      <4>3. QED
        BY <1>14, <3>1, <4>1, <4>2, ValuesAssumption, Kinds
    <3> HIDE DEF fl, gl
    <3>3. ValueOf(c, f, gl.cache) = ValueOf(h, f, fl.cache)
      BY <1>14, <3>1, SameValue
    <3>4. h.kernel[k][f] = fl /\ c.kernel[j][f] = gl
      BY <1>14 DEF fl, gl, K
    <3>5. QED
      BY <3>1, <3>2, <3>3, <3>4 DEF AlikeData
  <2>2. CASE f \notin S
    <3>1. gl = fl
      BY <1>8, <2>2
    <3>2. fl # NoField /\ fl.cache # Undefined => ValueOf(c, f, fl.cache) = ValueOf(h, f, fl.cache)
      <4>1. SUFFICES ASSUME fl # NoField, fl.cache # Undefined
                     PROVE  ValueOf(c, f, fl.cache) = ValueOf(h, f, fl.cache)
        OBVIOUS
      <4>2. Holds(h, f, fl.cache)
        BY <1>3, <4>1 DEF FieldFits
      <4>3. QED
        BY <1>15, <4>2, HoldsMore
    <3>3. fl # NoField /\ fl.cache # Undefined => f \notin Repeated
      BY <2>2 DEF S
    <3>4. h.kernel[k][f] = fl /\ c.kernel[j][f] = fl
      BY <1>14, <3>1 DEF K
    <3> HIDE DEF fl, gl
    <3>5. QED
      BY <3>2, <3>3, <3>4 DEF AlikeData
  <2>3. QED
    BY <2>1, <2>2
<1>17. \A i \in Kernels : i # j => c.kernel[i] = h.kernel[i]
  BY <1>6, <1>14
<1>18. Copied(h, k, j) = c
  BY <1>1 DEF c
<1>19. QED
  BY <1>14, <1>15, <1>16, <1>17, <1>18

LEMMA ShallowCopyOK ==
  ASSUME HeapOK(heap), NEW k \in Kernels, NEW j \in Kernels, ShallowCopy(k, j)
  PROVE  IInv'
<1>1. HeapOK(Copied(heap, k, j))
  BY CopiedOK
<1>2. QED
  BY <1>1, BecomeOK DEF ShallowCopy

-----------------------------------------------------------------------------
(* Serializing. *)

LEMMA CachedValue ==
  ASSUME NEW h, NEW K, NEW f
  PROVE  Cached(K, f, h) = ValueOf(h, f, K[f].cache)
BY Zenon DEF Cached, ValueOf

LEMMA ValueType ==
  ASSUME NEW h, HeapOK(h), NEW f \in Fields, NEW c, Holds(h, f, c)
  PROVE  ValueOf(h, f, c) \in Values(f)
<1>1. h.child \in [DOMAIN h.child -> Contents]
  BY DEF HeapOK
<1>2. CASE f \notin RepeatedMessages
  BY <1>1, <1>2, Kinds DEF Holds, ValueOf, Values
<1>3. CASE f \in RepeatedMessages
  <2> DEFINE s == h.array[c]
             v == [i \in DOMAIN s |-> h.child[s[i]]]
  <2>1. s \in Seq(DOMAIN h.child)
    BY <1>3, Kinds DEF Holds
  <2>2. Len(s) \in Nat /\ DOMAIN s = 1..Len(s) /\ \A i \in DOMAIN s : s[i] \in DOMAIN h.child
    BY <2>1, SeqIs
  <2>3. v \in [1..Len(s) -> Contents]
    BY <1>1, <2>2
  <2>4. v \in Seq(Contents)
    BY <2>2, <2>3, IsSeq
  <2>5. ValueOf(h, f, c) = v
    BY <1>3, Kinds DEF ValueOf
  <2>6. QED
    BY <1>3, <2>4, <2>5, Kinds DEF Values
<1>4. QED
  BY <1>2, <1>3

Entry(f, wire, v) == [field |-> f, wire |-> wire, data |-> v]

LEMMA EntryOK ==
  ASSUME NEW f \in Fields, NEW wire \in WireTypes, NEW v \in DataOf(f, wire)
  PROVE  /\ Entry(f, wire, v) \in FieldEntries(f)
         /\ Entry(f, wire, v).wire = wire /\ Entry(f, wire, v).data = v
<1>1. v \in Vals \union Contents \union Seq(Vals)
  BY DEF DataOf
<1>2. QED
  BY <1>1 DEF Entry, FieldEntries, Entries

LEMMA WireIs ==
  ASSUME NEW f \in Fields
  PROVE  /\ Wire(f) \in WireTypes /\ "DELIMITED" \in WireTypes
         /\ f \in Scalars \/ f \in Packables => DataOf(f, Wire(f)) = Vals /\ Wire(f) # "DELIMITED"
         /\ f \in Packables => DataOf(f, "DELIMITED") = Seq(Vals)
         /\ f \in Singles \/ f \in RepeatedMessages => DataOf(f, Wire(f)) = Contents
BY Kinds DEF Wire, WireTypes, DataOf

\* The entries of a field that is written from its cache.
LEMMA EncodedIs ==
  ASSUME NEW f \in Fields, NEW v \in Values(f),
         NEW encoder \in {"Each", "Packed"}, encoder = "Packed" => f \in Packables
  PROVE  /\ f \notin Repeated =>
              Encoded(f, encoder, v) = <<Entry(f, Wire(f), v)>> /\ Entry(f, Wire(f), v) \in FieldEntries(f)
         /\ f \in Repeated /\ encoder = "Each" =>
              /\ Encoded(f, encoder, v) = [i \in 1..Len(v) |-> Entry(f, Wire(f), v[i])]
              /\ \A i \in 1..Len(v) : Entry(f, Wire(f), v[i]) \in FieldEntries(f)
         /\ f \in Repeated /\ encoder = "Packed" /\ v # <<>> =>
              Encoded(f, encoder, v) = <<Entry(f, "DELIMITED", v)>> /\ Entry(f, "DELIMITED", v) \in FieldEntries(f)
         /\ f \in Repeated /\ v = <<>> => Encoded(f, encoder, v) = <<>>
         /\ f \in Repeated => v \in Seq(Vals \union Contents) /\ Len(v) \in Nat /\ DOMAIN v = 1..Len(v)
<1>1. f \in Repeated => v \in Seq(Vals \union Contents) /\ Len(v) \in Nat /\ DOMAIN v = 1..Len(v)
  <2>1. f \in Repeated => v \in Seq(Vals) \/ v \in Seq(Contents)
    BY Kinds DEF Values
  <2>2. QED
    BY <2>1
<1>2. f \notin Repeated => Encoded(f, encoder, v) = <<Entry(f, Wire(f), v)>>
  BY DEF Encoded, Entry
<1>3. f \notin Repeated => Entry(f, Wire(f), v) \in FieldEntries(f)
  <2>1. f \notin Repeated => v \in DataOf(f, Wire(f))
    BY WireIs, Kinds DEF Values
  <2>2. QED
    BY <2>1, WireIs, EntryOK
<1>4. f \in Repeated /\ encoder = "Each" =>
        Encoded(f, encoder, v) = [i \in 1..Len(v) |-> Entry(f, Wire(f), v[i])]
  BY <1>1 DEF Encoded, Entry
<1>5. ASSUME f \in Repeated, NEW i \in 1..Len(v) PROVE Entry(f, Wire(f), v[i]) \in FieldEntries(f)
  <2>1. v[i] \in DataOf(f, Wire(f))
    <3>1. f \in Packables => v \in Seq(Vals)
      BY Kinds DEF Values
    <3>2. f \in RepeatedMessages => v \in Seq(Contents)
      BY Kinds DEF Values
    <3>3. QED
      BY <1>5, <3>1, <3>2, WireIs, Kinds
  <2>2. QED
    BY <2>1, WireIs, EntryOK
<1>6. f \in Repeated /\ encoder = "Packed" /\ v # <<>> =>
        Encoded(f, encoder, v) = <<Entry(f, "DELIMITED", v)>>
  BY DEF Encoded, Entry
<1>7. f \in Packables => Entry(f, "DELIMITED", v) \in FieldEntries(f)
  <2>1. f \in Packables => v \in DataOf(f, "DELIMITED")
    BY WireIs, Kinds DEF Values
  <2>2. QED
    BY <2>1, WireIs, EntryOK
<1>8. f \in Repeated /\ v = <<>> => Encoded(f, encoder, v) = <<>>
  BY DEF Encoded
<1>9. QED
  BY <1>1, <1>2, <1>3, <1>4, <1>5, <1>6, <1>7, <1>8

LEMMA EncodedType ==
  ASSUME NEW f \in Fields, NEW v \in Values(f),
         NEW encoder \in {"Each", "Packed"}, encoder = "Packed" => f \in Packables
  PROVE  Encoded(f, encoder, v) \in Seq(FieldEntries(f))
<1>1. \A x \in FieldEntries(f) : <<x>> \in Seq(FieldEntries(f))
  OBVIOUS
<1>2. CASE f \notin Repeated
  BY <1>1, <1>2, EncodedIs
<1>3. CASE f \in Repeated /\ encoder = "Each"
  <2>1. Encoded(f, encoder, v) \in [1..Len(v) -> FieldEntries(f)] /\ Len(v) \in Nat
    BY <1>3, EncodedIs
  <2>2. QED
    BY <2>1, IsSeq
<1>4. CASE f \in Repeated /\ encoder = "Packed"
  <2>1. v # <<>> => Encoded(f, encoder, v) \in Seq(FieldEntries(f))
    <3>1. v # <<>> => Encoded(f, encoder, v) = <<Entry(f, "DELIMITED", v)>>
                      /\ Entry(f, "DELIMITED", v) \in FieldEntries(f)
      BY <1>4, EncodedIs
    <3>2. QED
      BY <1>1, <3>1
  <2>2. v = <<>> => Encoded(f, encoder, v) = <<>>
    BY <1>4, EncodedIs
  <2>3. <<>> \in Seq(FieldEntries(f))
    OBVIOUS
  <2>4. QED
    BY <2>1, <2>2, <2>3
<1>5. QED
  BY <1>2, <1>3, <1>4

\* What is known of a field with an encoder, and of one without.
LEMMA WrittenFromCache ==
  ASSUME NEW h, HeapOK(h), NEW k \in Kernels, NEW f \in Fields, NEW fl, fl = h.kernel[k][f],
         fl # NoField
  PROVE  /\ fl.encoder # None =>
              /\ fl.index = Null /\ fl.cache # Undefined /\ Holds(h, f, fl.cache)
              /\ fl.encoder \in {"Each", "Packed"} /\ (fl.encoder = "Packed" => f \in Packables)
              /\ ValueOf(h, f, fl.cache) \in Values(f)
         /\ fl.encoder = None =>
              /\ fl.index # Null /\ fl.index \in Seq(FieldEntries(f)) /\ fl.index # <<>>
              /\ fl.cache # Undefined =>
                   Readable(f, fl.index) /\ ValueOf(h, f, fl.cache) = Decoded(f, fl.index)
<1>1. FieldFits(h, f, fl)
  BY DEF HeapOK
<1>2. fl.encoder # None => fl.index = Null /\ fl.cache # Undefined /\ Holds(h, f, fl.cache)
  BY <1>1 DEF FieldFits, FieldOK
<1>3. fl.encoder # None => fl.encoder \in {"Each", "Packed"} /\ (fl.encoder = "Packed" => f \in Packables)
  BY <1>1, FieldIs DEF FieldFits
<1>4. fl.encoder # None => ValueOf(h, f, fl.cache) \in Values(f)
  BY <1>2, ValueType
<1>5. fl.encoder = None =>
        /\ fl.index # Null /\ fl.index \in Seq(FieldEntries(f)) /\ fl.index # <<>>
        /\ fl.cache # Undefined =>
             Readable(f, fl.index) /\ ValueOf(h, f, fl.cache) = Decoded(f, fl.index)
  BY <1>1 DEF FieldFits, FieldOK
<1>6. QED
  BY <1>2, <1>3, <1>4, <1>5

LEMMA SerializedType ==
  ASSUME NEW h, HeapOK(h), NEW k \in Kernels, NEW f \in Fields
  PROVE  SerializedField(h.kernel[k], f, h) \in Seq(FieldEntries(f))
<1> DEFINE fl == h.kernel[k][f]
<1>1. CASE fl = NoField
  BY <1>1 DEF SerializedField
<1>2. CASE fl # NoField /\ fl.encoder # None
  <2>1. fl.encoder \in {"Each", "Packed"} /\ (fl.encoder = "Packed" => f \in Packables)
        /\ ValueOf(h, f, fl.cache) \in Values(f)
    BY <1>2, WrittenFromCache
  <2>2. SerializedField(h.kernel[k], f, h) = Encoded(f, fl.encoder, ValueOf(h, f, fl.cache))
    BY <1>2, CachedValue DEF SerializedField
  <2> HIDE DEF fl
  <2>3. QED
    BY <2>1, <2>2, EncodedType
<1>3. CASE fl # NoField /\ fl.encoder = None
  <2>1. SerializedField(h.kernel[k], f, h) = fl.index
    BY <1>3 DEF SerializedField
  <2>2. QED
    BY <1>3, <2>1, WrittenFromCache
<1>4. QED
  BY <1>1, <1>2, <1>3

\* The bytes that a kernel serializes to have, of each field, what was written for it.
LEMMA SerializeHas ==
  ASSUME NEW h, HeapOK(h), NEW k \in Kernels
  PROVE  /\ Serialize(h.kernel[k], h) \in Seq(Entries)
         /\ \A f \in Fields :
              EntriesIn(Serialize(h.kernel[k], h), f) = SerializedField(h.kernel[k], f, h)
<1> DEFINE n == Max(Fields)
           part(f) == IF f \in Fields THEN SerializedField(h.kernel[k], f, h) ELSE <<>>
           parts == [f \in 1..n |-> part(f)]
<1>1. n \in Nat /\ Fields \subseteq 1..n
  BY SchemaAssumption
<1>2. \A f \in 1..n : part(f) \in Seq(FieldEntries(f)) /\ part(f) \in Seq(Entries)
  <2>1. SUFFICES ASSUME NEW f \in 1..n
                 PROVE  part(f) \in Seq(FieldEntries(f)) /\ part(f) \in Seq(Entries)
    OBVIOUS
  <2>2. part(f) \in Seq(FieldEntries(f))
    BY SerializedType
  <2>3. FieldEntries(f) \subseteq Entries
    BY DEF FieldEntries
  <2> HIDE DEF part
  <2>4. QED
    BY <2>2, <2>3
<1>3. Serialize(h.kernel[k], h) = FlattenSeq(parts)
  BY DEF Serialize
<1> HIDE DEF part, n
<1>4. parts \in [1..n -> Seq(Entries)] /\ \A f \in 1..n : parts[f] = part(f)
  BY <1>2
<1> HIDE DEF parts
<1>5. parts \in Seq(Seq(Entries)) /\ Len(parts) = n
  BY <1>1, <1>4, IsSeq
<1>6. FlattenSeq(parts) \in Seq(Entries)
  BY <1>5, FlattenType
<1>7. ASSUME NEW f \in Fields
      PROVE  EntriesIn(FlattenSeq(parts), f) = SerializedField(h.kernel[k], f, h)
  <2>1. f \in Nat /\ f \in 1..Len(parts)
    BY <1>1, <1>5
  <2>2. \A i \in 1..Len(parts) : parts[i] \in Seq(FieldEntries(i))
    BY <1>2, <1>4, <1>5
  <2>3. EntriesIn(FlattenSeq(parts), f) = parts[f]
    BY <1>5, <2>1, <2>2, EntriesOfEach
  <2>4. QED
    BY <1>4, <1>5, <2>1, <2>3 DEF part
<1>8. QED
  BY <1>3, <1>6, <1>7

\* A kernel L that was read has all its fields in its bytes.
Read(h, j, L, g) ==
  /\ HeapOK(g) /\ g.array = h.array /\ g.child = h.child /\ g.kernel[j] = L
  /\ \A i \in Kernels : i # j => g.kernel[i] = h.kernel[i]
  /\ \A f \in Fields : L[f] # NoField => L[f].cache = Undefined

LEMMA ReadOK ==
  ASSUME NEW h, HeapOK(h), NEW k \in Kernels, NEW j \in Kernels
  PROVE  LET L == FromBytes(Serialize(h.kernel[k], h)) IN Read(h, j, L, Loaded(h, j, L))
<1> DEFINE b == Serialize(h.kernel[k], h)
           L == FromBytes(b)
           g == Loaded(h, j, L)
<1>1. b \in Seq(Entries)
  BY SerializeHas
<1> HIDE DEF b
<1>2. L \in [Fields -> FieldData \union {NoField}]
  BY <1>1, ParsedType
<1>3. ASSUME NEW f \in Fields, L[f] # NoField PROVE FieldFits(h, f, L[f]) /\ L[f].cache = Undefined
  BY <1>1, <1>3, ParsedFits
<1>4. ASSUME NEW f \in Repeated, NEW a \in DOMAIN h.array PROVE ~HasIn(L, f, a)
  <2>1. f \in Fields /\ a # Undefined
    BY ValuesAssumption DEF HeapOK, Fields
  <2>2. QED
    BY <1>3, <2>1 DEF HasIn
<1> HIDE DEF L
<1>5. /\ HeapOK(g) /\ g.array = h.array /\ g.child = h.child /\ g.kernel[j] = L
      /\ \A i \in Kernels : i # j => g.kernel[i] = h.kernel[i]
  BY <1>2, <1>3, <1>4, LoadedOK
<1> HIDE DEF g
<1>6. Read(h, j, L, g)
  BY <1>3, <1>5 DEF Read
<1>7. QED
  BY <1>6 DEF g, L, b

LEMMA FromArrayBufferOK ==
  ASSUME HeapOK(heap), NEW k \in Kernels, NEW j \in Kernels, FromArrayBuffer(k, j)
  PROVE  IInv'
<1> DEFINE L == FromBytes(Serialize(heap.kernel[k], heap))
           g == Loaded(heap, j, L)
<1>1. heap.kernel = kernel
  BY DEF heap
<1>2. Become(g)
  BY <1>1 DEF FromArrayBuffer, Loaded
<1>3. HeapOK(g)
  BY ReadOK DEF Read
<1> HIDE DEF g
<1>4. QED
  BY <1>2, <1>3, BecomeOK

LEMMA NextOK == IInv /\ [Next]_vars => IInv'
<1>1. SUFFICES ASSUME IInv, [Next]_vars PROVE IInv'
  OBVIOUS
<1>2. HeapOK(heap)
  BY <1>1 DEF IInv
<1>3. CASE UNCHANGED vars
  BY <1>1, <1>3 DEF IInv, vars, heap, TypeOK
<1>4. ASSUME NEW k \in Kernels, NEW f \in Fields,
             \/ GetField(k, f) \/ GetMessageAttach(k, f) \/ SetSingular(k, f)
             \/ SetRepeatedIterable(k, f) \/ AddRepeatedIterable(k, f)
             \/ SetRepeatedElement(k, f) \/ ClearField(k, f)
      PROVE  IInv'
  BY <1>2, <1>4, GetFieldOK, GetMessageAttachOK, SetSingularOK, SetRepeatedIterableOK,
     AddRepeatedIterableOK, SetRepeatedElementOK, ClearFieldOK
<1>5. ASSUME NEW k \in Kernels, NEW j \in Kernels, ShallowCopy(k, j) \/ FromArrayBuffer(k, j)
      PROVE  IInv'
  BY <1>2, <1>5, ShallowCopyOK, FromArrayBufferOK
<1>6. ASSUME NEW o \in DOMAIN child, Edit(o) PROVE IInv'
  BY <1>2, <1>6, EditOK
<1>7. QED
  BY <1>1, <1>3, <1>4, <1>5, <1>6 DEF Next

\* A field is in its bytes, in its cache or in both; it is in both only as a getter left
\* it, without an encoder, and then not if it has children that are set in place
\* (getFieldWithDefault_, setCache).
THEOREM TypeCorrect == Spec => []TypeOK
<1>1. IInv => TypeOK
  BY DEF IInv
<1>2. QED
  BY <1>1, InitOK, NextOK, PTL DEF Spec

-----------------------------------------------------------------------------
(* What is parsed from what was serialized. *)

LEMMA MergedOne ==
  ASSUME NEW e
  PROVE  Merged(<<e>>) = e.data
<1> DEFINE es == <<e>>
           set == {i \in DOMAIN es : es[i].data # Empty}
           last == CHOOSE i \in set : \A j \in set : j <= i
<1>1. \A i : i \in set <=> i = 1 /\ e.data # Empty
  OBVIOUS
<1>2. Merged(es) = IF set = {} THEN Empty ELSE es[last].data
  BY DEF Merged
<1> HIDE DEF set
<1>3. CASE e.data = Empty
  <2>1. set = {}
    BY <1>1, <1>3
  <2>2. QED
    BY <1>2, <1>3, <2>1
<1>4. CASE e.data # Empty
  <2>1. set = {1}
    BY <1>1, <1>4
  <2>2. \E i \in set : \A j \in set : j <= i
    BY <2>1
  <2>3. last = 1
    BY <2>1, <2>2
  <2>4. QED
    BY <1>2, <2>1, <2>3
<1>5. QED
  BY <1>3, <1>4

LEMMA FlattenOne ==
  ASSUME NEW V, NEW v \in Seq(V)
  PROVE  FlattenSeq(<<v>>) = v
<1>1. <<v>> = Append(<<>>, v) /\ <<>> \in Seq(Seq(V)) /\ <<>> \o v = v
  OBVIOUS
<1>2. QED
  BY <1>1, FlattenAppend, FlattenNone

\* Each entry that is written for a value is readable, and together they mean the value.
LEMMA DecodedEncoded ==
  ASSUME NEW f \in Fields, NEW v \in Values(f),
         NEW encoder \in {"Each", "Packed"}, encoder = "Packed" => f \in Packables,
         NEW es, es = Encoded(f, encoder, v)
  PROVE  /\ es = <<>> <=> f \in Repeated /\ v = <<>>
         /\ es # <<>> => Readable(f, es) /\ Decoded(f, es) = v
<1>1. CASE f \notin Repeated
  <2> DEFINE e == Entry(f, Wire(f), v)
  <2>1. es = <<e>>
    BY <1>1, EncodedIs
  <2>2. e.wire = Wire(f) /\ e.data = v
    BY DEF Entry
  <2> HIDE DEF e
  <2>3. es # <<>> /\ Last(es) = e /\ DOMAIN es = 1..1 /\ es[1] = e
    BY <2>1 DEF Last
  <2>4. Readable(f, es)
    <3>1. f \notin Packables
      BY <1>1, Kinds
    <3>2. QED
      BY <2>2, <2>3, <3>1 DEF Readable
  <2>5. Decoded(f, es) = v
    <3>1. CASE f \in Scalars \/ f \in Groups
      BY <2>2, <2>3, <3>1 DEF Decoded
    <3>2. CASE f \in Messages
      <4>1. Merged(es) = v
        BY <2>1, <2>2, MergedOne
      <4>2. f \notin Scalars /\ f \notin Groups
        BY <3>2, Kinds
      <4>3. QED
        BY <3>2, <4>1, <4>2 DEF Decoded
    <3>3. QED
      BY <1>1, <3>1, <3>2, Kinds
  <2>6. QED
    BY <1>1, <2>3, <2>4, <2>5
<1>2. CASE f \in Repeated /\ encoder = "Each"
  <2> DEFINE e(i) == Entry(f, Wire(f), v[i])
  <2>1. es = [i \in 1..Len(v) |-> e(i)] /\ v \in Seq(Vals \union Contents) /\ Len(v) \in Nat
        /\ DOMAIN v = 1..Len(v)
    BY <1>2, EncodedIs
  <2>2. \A i \in 1..Len(v) : es[i].wire = Wire(f) /\ es[i].data = v[i]
    BY <2>1 DEF Entry
  <2> HIDE DEF e
  <2>3. DOMAIN es = 1..Len(v)
    BY <2>1
  <2>4. es = <<>> <=> v = <<>>
    <3>1. v = <<>> => es = <<>>
      BY <1>2, EncodedIs
    <3>2. v # <<>> => 1 \in DOMAIN es
      BY <2>1, <2>3
    <3>3. QED
      BY <3>1, <3>2
  <2>5. f \notin Scalars /\ f \notin Groups /\ f \notin Messages
    BY <1>2, Kinds
  <2>6. Readable(f, es)
    BY <2>2, <2>3, <2>5 DEF Readable
  <2>7. CASE f \in Packables
    <3> DEFINE part == [i \in 1..Len(v) |-> IF es[i].wire = "DELIMITED" THEN es[i].data ELSE <<es[i].data>>]
               single == [i \in 1..Len(v) |-> <<v[i]>>]
    <3>1. Wire(f) # "DELIMITED"
      BY <2>7, WireIs
    <3>2. \A i \in 1..Len(v) : (IF es[i].wire = "DELIMITED" THEN es[i].data ELSE <<es[i].data>>) = <<v[i]>>
      BY <2>2, <3>1
    <3>3. part = single
      BY <3>2
    <3>4. Decoded(f, es) = FlattenSeq(part)
      BY <2>3, <2>5, <2>7 DEF Decoded
    <3> HIDE DEF part
    <3>5. FlattenSeq(single) = v
      BY <2>1, FlattenSingles
    <3>6. QED
      BY <1>2, <2>4, <2>6, <3>3, <3>4, <3>5
  <2>8. CASE f \notin Packables
    <3>1. Decoded(f, es) = [i \in 1..Len(v) |-> es[i].data]
      BY <2>3, <2>5, <2>8 DEF Decoded
    <3>2. [i \in 1..Len(v) |-> es[i].data] = v
      BY <2>1, <2>2
    <3>3. QED
      BY <1>2, <2>4, <2>6, <3>1, <3>2
  <2>9. QED
    BY <2>7, <2>8
<1>3. CASE f \in Repeated /\ encoder = "Packed"
  <2>1. CASE v = <<>>
    BY <1>3, <2>1, EncodedIs
  <2>2. CASE v # <<>>
    <3> DEFINE e == Entry(f, "DELIMITED", v)
    <3>1. es = <<e>>
      BY <1>3, <2>2, EncodedIs
    <3>2. e.wire = "DELIMITED" /\ e.data = v
      BY DEF Entry
    <3> HIDE DEF e
    <3>3. es # <<>> /\ DOMAIN es = 1..1 /\ es[1] = e
      BY <3>1
    <3>4. f \in Packables /\ f \notin Scalars /\ f \notin Groups /\ f \notin Messages /\ v \in Seq(Vals)
      BY <1>3, Kinds DEF Values
    <3>5. Readable(f, es)
      BY <3>2, <3>3, <3>4 DEF Readable
    <3> DEFINE part == [i \in DOMAIN es |-> IF es[i].wire = "DELIMITED" THEN es[i].data ELSE <<es[i].data>>]
    <3>6. part = <<v>>
      BY <3>2, <3>3
    <3>7. Decoded(f, es) = FlattenSeq(part)
      BY <3>4 DEF Decoded
    <3> HIDE DEF part
    <3>8. Decoded(f, es) = v
      BY <3>4, <3>6, <3>7, FlattenOne
    <3>9. QED
      BY <2>2, <3>3, <3>5, <3>8
  <2>3. QED
    BY <2>1, <2>2
<1>4. QED
  BY <1>1, <1>2, <1>3

\* What a field with nothing in the cache shows.
LEMMA ParsedShows ==
  ASSUME NEW h, NEW b \in Seq(Entries), NEW f \in Fields, NEW es, es = EntriesIn(b, f)
  PROVE  /\ Shown(FromBytes(b), f, h) =
              IF es = <<>> THEN IF f \in Repeated THEN <<>> ELSE Unset
              ELSE IF Readable(f, es) THEN Decoded(f, es) ELSE Unreadable
         /\ HasFieldNumber(FromBytes(b), f, h) = IF es = <<>> THEN FALSE ELSE TRUE
<1> DEFINE L == FromBytes(b)
           fl == L[f]
<1>1. fl = NoField <=> es = <<>>
  BY ParsedType
<1>2. ASSUME fl # NoField PROVE fl.cache = Undefined /\ fl.index = es /\ fl.index # Null
  <2>1. fl.cache = Undefined /\ fl.index = es
    BY <1>2, ParsedFits
  <2>2. es \in Seq(FieldEntries(f)) /\ FieldEntries(f) \subseteq Entries
    BY EntriesType DEF FieldEntries
  <2>3. es # Null
    BY <2>2, ValuesAssumption
  <2>4. QED
    BY <2>1, <2>3
<1> HIDE DEF L
<1>3. Shown(L, f, h) =
        IF es = <<>> THEN IF f \in Repeated THEN <<>> ELSE Unset
        ELSE IF Readable(f, es) THEN Decoded(f, es) ELSE Unreadable
  BY <1>1, <1>2 DEF Shown
<1>4. HasFieldNumber(L, f, h) = IF es = <<>> THEN FALSE ELSE TRUE
  BY <1>1, <1>2 DEF HasFieldNumber
<1>5. QED
  BY <1>3, <1>4 DEF L

\* A field that is in the cache only.
LEMMA EmptyList ==
  ASSUME NEW h, HeapOK(h), NEW f \in Repeated, NEW c, Holds(h, f, c)
  PROVE  h.array[c] = <<>> <=> ValueOf(h, f, c) = <<>>
<1>1. f \in Fields /\ (f \in Packables \/ f \in RepeatedMessages)
  BY Kinds DEF Fields, Repeated
<1>2. CASE f \in Packables
  BY <1>1, <1>2, Kinds DEF ValueOf
<1>3. CASE f \in RepeatedMessages
  <2> DEFINE s == h.array[c]
             v == [i \in DOMAIN s |-> h.child[s[i]]]
  <2>1. ValueOf(h, f, c) = v
    BY <1>1, <1>3, Kinds DEF ValueOf
  <2>2. s \in Seq(DOMAIN h.child)
    BY <1>1, <1>3, Kinds DEF Holds
  <2>3. Len(s) \in Nat /\ DOMAIN s = 1..Len(s) /\ DOMAIN v = 1..Len(s)
    BY <2>2, SeqIs
  <2> HIDE DEF v, s
  <2>4. s = <<>> <=> DOMAIN s = {}
    BY <2>2
  <2>5. v = <<>> => DOMAIN v = {}
    OBVIOUS
  <2>6. s = <<>> => v = <<>>
    BY DEF v
  <2>7. QED
    BY <2>1, <2>3, <2>4, <2>5, <2>6 DEF s
<1>4. QED
  BY <1>1, <1>2, <1>3

LEMMA ParsedShowsTheSame ==
  ASSUME NEW h, HeapOK(h), NEW k \in Kernels, NEW f \in Fields
  PROVE  Shows(FromBytes(Serialize(h.kernel[k], h)), f, h) = Shows(h.kernel[k], f, h)
<1> DEFINE K == h.kernel[k]
           b == Serialize(K, h)
           L == FromBytes(b)
           fl == K[f]
           es == SerializedField(K, f, h)
           v == ValueOf(h, f, fl.cache)
<1>0. SUFFICES Shows(L, f, h) = Shows(K, f, h)
  OBVIOUS
<1>1. b \in Seq(Entries) /\ EntriesIn(b, f) = es
  BY SerializeHas
<1> HIDE DEF b, es
<1>2. /\ Shown(L, f, h) = IF es = <<>> THEN IF f \in Repeated THEN <<>> ELSE Unset
                          ELSE IF Readable(f, es) THEN Decoded(f, es) ELSE Unreadable
      /\ HasFieldNumber(L, f, h) = IF es = <<>> THEN FALSE ELSE TRUE
  BY <1>1, ParsedShows
<1> HIDE DEF L
<1>3. CASE fl = NoField
  <2>1. es = <<>>
    BY <1>3 DEF es, SerializedField
  <2>2. Shown(K, f, h) = (IF f \in Repeated THEN <<>> ELSE Unset) /\ HasFieldNumber(K, f, h) = FALSE
    BY <1>3 DEF Shown, HasFieldNumber
  <2>3. HasFieldNumber(L, f, h) = FALSE
    BY <1>2, <2>1
  <2>4. HasFieldNumber(L, f, h) = HasFieldNumber(K, f, h)
    BY <2>2, <2>3
  <2>5. Shown(L, f, h) = Shown(K, f, h)
    BY <1>2, <2>1, <2>2
  <2> HIDE DEF K
  <2>6. QED
    BY <2>4, <2>5, Zenon DEF Shows
<1>4. CASE fl # NoField /\ fl.encoder = None
  <2>1. /\ fl.index # Null /\ fl.index # <<>>
        /\ fl.cache # Undefined => Readable(f, fl.index) /\ v = Decoded(f, fl.index)
    BY <1>4, WrittenFromCache
  <2>2. es = fl.index
    BY <1>4 DEF es, SerializedField
  <2>3. Shown(K, f, h) = IF fl.cache # Undefined THEN v
                         ELSE IF Readable(f, fl.index) THEN Decoded(f, fl.index) ELSE Unreadable
    BY <1>4, CachedValue DEF Shown
  <2>4. HasFieldNumber(K, f, h) = TRUE
    BY <1>4, <2>1 DEF HasFieldNumber
  <2>5. HasFieldNumber(L, f, h) = TRUE
    BY <1>2, <2>1, <2>2
  <2>6. Shown(L, f, h) = Shown(K, f, h)
    BY <1>2, <2>1, <2>2, <2>3
  <2> HIDE DEF K
  <2>7. HasFieldNumber(L, f, h) = HasFieldNumber(K, f, h)
    BY <2>4, <2>5
  <2>8. QED
    BY <2>6, <2>7, Zenon DEF Shows
<1>5. CASE fl # NoField /\ fl.encoder # None
  <2>1. /\ fl.index = Null /\ fl.cache # Undefined /\ Holds(h, f, fl.cache)
        /\ fl.encoder \in {"Each", "Packed"} /\ (fl.encoder = "Packed" => f \in Packables)
        /\ v \in Values(f)
    BY <1>5, WrittenFromCache
  <2>2. es = Encoded(f, fl.encoder, v)
    BY <1>5, CachedValue DEF es, SerializedField
  <2>3. Shown(K, f, h) = v
    BY <1>5, <2>1, CachedValue DEF Shown
  <2>4. HasFieldNumber(K, f, h) = IF f \in Repeated /\ v = <<>> THEN FALSE ELSE TRUE
    <3>1. f \in Repeated => (h.array[fl.cache] = <<>> <=> v = <<>>)
      BY <2>1, EmptyList
    <3>2. HasFieldNumber(K, f, h) = (f \in Repeated => h.array[fl.cache] # <<>>)
      BY <1>5, <2>1 DEF HasFieldNumber
    <3>3. QED
      BY <3>1, <3>2
  <2> HIDE DEF v, fl, K
  <2>5. (es = <<>> <=> f \in Repeated /\ v = <<>>) /\ (es # <<>> => Readable(f, es) /\ Decoded(f, es) = v)
    BY <2>1, <2>2, DecodedEncoded
  <2>6. HasFieldNumber(L, f, h) = HasFieldNumber(K, f, h)
    <3>1. CASE f \in Repeated /\ v = <<>>
      <4>1. HasFieldNumber(L, f, h) = FALSE /\ HasFieldNumber(K, f, h) = FALSE
        BY <1>2, <2>4, <2>5, <3>1
      <4>2. QED
        BY <4>1
    <3>2. CASE ~ (f \in Repeated /\ v = <<>>)
      <4>1. HasFieldNumber(L, f, h) = TRUE /\ HasFieldNumber(K, f, h) = TRUE
        BY <1>2, <2>4, <2>5, <3>2
      <4>2. QED
        BY <4>1
    <3>3. QED
      BY <3>1, <3>2
  <2>7. Shown(L, f, h) = Shown(K, f, h)
    BY <1>2, <2>3, <2>5
  <2>8. QED
    BY <2>6, <2>7, Zenon DEF Shows
<1>6. QED
  BY <1>3, <1>4, <1>5

\* Whether serialize() copies the old bytes of a field or writes its cache, the kernel that
\* fromArrayBuffer makes of the result has the same fields with the same values, and
\* throws where this one does.
THEOREM SerializesCorrect == Spec => []SerializesWhatItShows
<1>1. IInv => SerializesWhatItShows
  <2>1. heap.kernel = kernel
    BY DEF heap
  <2>2. QED
    BY <2>1, ParsedShowsTheSame DEF IInv, SerializesWhatItShows
<1>2. QED
  BY <1>1, InitOK, NextOK, PTL DEF Spec

=============================================================================
