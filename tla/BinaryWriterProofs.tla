------------------------- MODULE BinaryWriterProofs -------------------------
(***************************************************************************)
(* For every schema, all int32 values, bytes of any length and any number  *)
(* of calls: the writer's state is of its type, its running total is the   *)
(* length of its blocks but for the notes in bookmarks, no message has a   *)
(* negative length, and no result holds a message that is still open or    *)
(* was cut short by an exception.                                          *)
(***************************************************************************)
EXTENDS BinaryWriter, FiniteSetTheorems, SequenceTheorems, WellFoundedInduction, TLAPS

\* A set of natural numbers with an element has a least one: induction, in a form that
\* needs no operator parameter.
LEMMA LeastOf ==
  ASSUME NEW S \in SUBSET Nat, S # {}
  PROVE  \E n \in S : \A k \in S : n <= k
<1> DEFINE Below == {p \in Nat \X Nat : p[1] < p[2]}
<1>1. OpToRel(<, Nat) = Below
  BY DEF OpToRel
<1> HIDE DEF Below
<1>2. IsWellFoundedOn(Below, Nat)
  BY <1>1, NatLessThanWellFounded, Zenon
<1>3. PICK n \in S : \A k \in S : <<k, n>> \notin Below
  BY <1>2, WFMin
<1>4. ASSUME NEW k \in S PROVE n <= k
  <2>1. n \in Nat /\ k \in Nat /\ <<k, n>> \in Nat \X Nat
    OBVIOUS
  <2>2. ~ (k < n)
    BY <1>3, <2>1 DEF Below
  <2>3. QED
    BY <2>1, <2>2
<1>5. QED
  BY <1>3, <1>4

-----------------------------------------------------------------------------
(* The blocks, one after the other. *)

\* f joins the first i of the blocks bs, for each i.
JoinsUpTo(f, bs) ==
  f = [i \in 0..Len(bs) |-> IF i = 0 THEN <<>> ELSE f[i - 1] \o bs[i]]

\* There is such a function: were a list of blocks without one, a shortest such list
\* would lack its last block's only.
LEMMA JoinsExist ==
  ASSUME NEW V
  PROVE  \A bs \in Seq(Seq(V)) : \E f : JoinsUpTo(f, bs)
<1> DEFINE Lacking == {n \in Nat : \E bs \in Seq(Seq(V)) : Len(bs) = n /\ ~ \E f : JoinsUpTo(f, bs)}
<1>1. SUFFICES ASSUME Lacking # {} PROVE FALSE
  <2>1. ASSUME NEW bs \in Seq(Seq(V)) PROVE Len(bs) \in Nat
    OBVIOUS
  <2>2. QED
    BY <2>1
<1>2. PICK n \in Lacking : \A k \in Lacking : n <= k
  BY <1>1, LeastOf
<1>3. PICK bs \in Seq(Seq(V)) : Len(bs) = n /\ ~ \E f : JoinsUpTo(f, bs)
  OBVIOUS
<1>4. n # 0
  <2>1. ASSUME n = 0 PROVE FALSE
    <3> DEFINE f == [i \in 0..0 |-> <<>>]
    <3>1. JoinsUpTo(f, bs)
      BY <1>3, <2>1 DEF JoinsUpTo
    <3>2. QED
      BY <1>3, <3>1
  <2>2. QED
    BY <2>1
<1> DEFINE front == SubSeq(bs, 1, n - 1)
<1>5. /\ front \in Seq(Seq(V)) /\ Len(front) = n - 1 /\ n - 1 \in Nat
      /\ \A i \in 1 .. n - 1 : front[i] = bs[i]
  BY <1>3, <1>4
<1>6. PICK f : JoinsUpTo(f, front)
  <2>1. n - 1 \notin Lacking
    BY <1>2, <1>5
  <2>2. QED
    BY <1>5, <2>1
<1> HIDE DEF front
<1> DEFINE g == [i \in 0..n |-> IF i = n THEN f[n - 1] \o bs[n] ELSE f[i]]
<1>7. ASSUME NEW i \in 0..n PROVE g[i] = IF i = 0 THEN <<>> ELSE g[i - 1] \o bs[i]
  <2>1. CASE i = n
    <3>1. n - 1 \in 0..n /\ n - 1 # n
      BY <1>5
    <3>2. QED
      BY <1>4, <2>1, <3>1
  <2>2. CASE i # n
    <3>1. i \in 0 .. n - 1 /\ n \in Nat
      BY <2>2, <1>5
    <3>2. f[i] = IF i = 0 THEN <<>> ELSE f[i - 1] \o front[i]
      BY <1>6, <1>5, <3>1, Zenon DEF JoinsUpTo
    <3>3. CASE i = 0
      BY <2>2, <3>2, <3>3
    <3>4. CASE i # 0
      <4>1. i - 1 \in 0..n /\ i - 1 # n /\ i \in 1 .. n - 1
        BY <3>1, <3>4
      <4>2. QED
        BY <1>5, <2>2, <3>2, <3>4, <4>1
    <3>5. QED
      BY <3>3, <3>4
  <2>3. QED
    BY <2>1, <2>2
<1>8. JoinsUpTo(g, bs)
  <2> DEFINE h == [i \in 0..n |-> IF i = 0 THEN <<>> ELSE g[i - 1] \o bs[i]]
  <2>1. \A i \in 0..n : g[i] = h[i]
    BY <1>7
  <2>2. DOMAIN g = 0..n /\ DOMAIN h = 0..n
    OBVIOUS
  <2>3. g = h
    BY <2>1, <2>2
  <2>4. QED
    BY <1>3, <2>3 DEF JoinsUpTo
<1>9. QED
  BY <1>3, <1>8

\* There is one such function only, so that it says what Joined is.
LEMMA JoinedIs ==
  ASSUME NEW V, NEW bs \in Seq(Seq(V)), NEW f, JoinsUpTo(f, bs)
  PROVE  Joined(bs) = f[Len(bs)]
<1> DEFINE upTo == CHOOSE u : u = [i \in 0..Len(bs) |-> IF i = 0 THEN <<>> ELSE u[i - 1] \o bs[i]]
<1>1. JoinsUpTo(upTo, bs)
  BY DEF JoinsUpTo
<1>2. Joined(bs) = upTo[Len(bs)]
  BY DEF Joined
<1> HIDE DEF upTo
<1> DEFINE Wrong == {i \in 0..Len(bs) : upTo[i] # f[i]}
<1>3. Len(bs) \in Nat
  OBVIOUS
<1>4. ASSUME Wrong # {} PROVE FALSE
  <2>1. Wrong \in SUBSET Nat
    BY <1>3
  <2>2. PICK i \in Wrong : \A k \in Wrong : i <= k
    BY <1>4, <2>1, LeastOf
  <2>3. /\ upTo[i] = IF i = 0 THEN <<>> ELSE upTo[i - 1] \o bs[i]
        /\ f[i] = IF i = 0 THEN <<>> ELSE f[i - 1] \o bs[i]
    BY <1>1, Zenon DEF JoinsUpTo
  <2>4. i # 0
    BY <2>3
  <2>5. i - 1 \in 0..Len(bs) /\ i - 1 \notin Wrong
    BY <1>3, <2>2, <2>4
  <2>6. QED
    BY <2>3, <2>4, <2>5
<1>5. QED
  BY <1>2, <1>3, <1>4

LEMMA JoinedType ==
  ASSUME NEW V, NEW bs \in Seq(Seq(V))
  PROVE  Joined(bs) \in Seq(V)
<1>1. PICK f : JoinsUpTo(f, bs)
  BY JoinsExist
<1> DEFINE Wrong == {i \in 0..Len(bs) : f[i] \notin Seq(V)}
<1>2. Len(bs) \in Nat
  OBVIOUS
<1>3. ASSUME Wrong # {} PROVE FALSE
  <2>1. Wrong \in SUBSET Nat
    BY <1>2
  <2>2. PICK i \in Wrong : \A k \in Wrong : i <= k
    BY <1>3, <2>1, LeastOf
  <2>3. f[i] = IF i = 0 THEN <<>> ELSE f[i - 1] \o bs[i]
    BY <1>1, Zenon DEF JoinsUpTo
  <2>4. i # 0
    BY <2>3, EmptySeq
  <2>5. i - 1 \in 0..Len(bs) /\ i - 1 \notin Wrong /\ i \in 1..Len(bs)
    BY <1>2, <2>2, <2>4
  <2>6. f[i - 1] \in Seq(V) /\ bs[i] \in Seq(V)
    BY <2>5
  <2>7. f[i - 1] \o bs[i] \in Seq(V)
    BY <2>6
  <2>8. QED
    BY <2>3, <2>4, <2>7
<1>4. QED
  BY <1>1, <1>2, <1>3, JoinedIs

LEMMA JoinedOne ==
  ASSUME NEW V, NEW x \in Seq(V)
  PROVE  Joined(<<x>>) = x
<1> DEFINE bs == <<x>>
<1>1. bs \in Seq(Seq(V)) /\ Len(bs) = 1 /\ bs[1] = x
  OBVIOUS
<1> HIDE DEF bs
<1>2. PICK f : JoinsUpTo(f, bs)
  BY <1>1, JoinsExist
<1>3. f[0] = <<>> /\ f[1] = f[0] \o x
  <2>1. \A i \in 0..1 : f[i] = IF i = 0 THEN <<>> ELSE f[i - 1] \o bs[i]
    BY <1>1, <1>2, Zenon DEF JoinsUpTo
  <2>2. QED
    BY <1>1, <2>1
<1>4. <<>> \o x = x
  OBVIOUS
<1>5. Joined(bs) = x
  BY <1>1, <1>2, <1>3, <1>4, JoinedIs
<1>6. QED
  BY <1>5 DEF bs

LEMMA JoinedNone == Joined(<<>>) = <<>>
<1> DEFINE bs == <<>>
<1>1. bs \in Seq(Seq(Nat)) /\ Len(bs) = 0
  OBVIOUS
<1> HIDE DEF bs
<1>2. PICK f : JoinsUpTo(f, bs)
  BY <1>1, JoinsExist
<1>3. f[0] = <<>>
  BY <1>1, <1>2 DEF JoinsUpTo
<1>4. Joined(bs) = <<>>
  BY <1>1, <1>2, <1>3, JoinedIs
<1>5. QED
  BY <1>4 DEF bs

\* Blocks with other ones in front of or after them, and a block that is replaced: how
\* many bytes there are in all.  The lists before and after are compared block by block.
LEMMA LengthDiffers ==
  ASSUME NEW V, NEW bs \in Seq(Seq(V)), NEW cs \in Seq(Seq(V)),
         NEW from \in 1 .. Len(bs), Len(cs) = Len(bs),
         \A i \in 1..Len(bs) : i # from => cs[i] = bs[i]
  PROVE  Len(Joined(cs)) = Len(Joined(bs)) + Len(cs[from]) - Len(bs[from])
<1>1. PICK f : JoinsUpTo(f, bs)
  BY JoinsExist
<1>2. PICK g : JoinsUpTo(g, cs)
  BY JoinsExist
<1>3. Len(bs) \in Nat /\ bs[from] \in Seq(V) /\ cs[from] \in Seq(V)
      /\ Len(bs[from]) \in Nat /\ Len(cs[from]) \in Nat
  OBVIOUS
<1> DEFINE more == Len(cs[from]) - Len(bs[from])
<1>0. more \in Int
  BY <1>3
<1> HIDE DEF more
<1> DEFINE Right(i) == /\ f[i] \in Seq(V) /\ g[i] \in Seq(V)
                       /\ i < from => Len(g[i]) = Len(f[i])
                       /\ i >= from => Len(g[i]) = Len(f[i]) + more
           Wrong == {i \in 0..Len(bs) : ~Right(i)}
<1> HIDE DEF Right
<1>4. ASSUME Wrong # {} PROVE FALSE
  <2>1. Wrong \in SUBSET Nat
    BY <1>3
  <2>2. PICK i \in Wrong : \A k \in Wrong : i <= k
    BY <1>4, <2>1, LeastOf
  <2>3. /\ f[i] = IF i = 0 THEN <<>> ELSE f[i - 1] \o bs[i]
        /\ g[i] = IF i = 0 THEN <<>> ELSE g[i - 1] \o cs[i]
    BY <1>1, <1>2, Zenon DEF JoinsUpTo
  <2>4. i # 0
    <3>1. 0 < from
      OBVIOUS
    <3>2. f[0] = <<>> /\ g[0] = <<>> => Right(0)
      BY <3>1 DEF Right
    <3>3. QED
      BY <2>3, <3>2
  <2>5. i - 1 \in 0..Len(bs) /\ i - 1 \notin Wrong /\ i \in 1..Len(bs) /\ i \in Nat
    BY <1>3, <2>2, <2>4
  <2>6. Right(i - 1) /\ bs[i] \in Seq(V) /\ cs[i] \in Seq(V)
    BY <2>5
  <2> DEFINE F == f[i - 1]
             G == g[i - 1]
             B == bs[i]
             C == cs[i]
  <2>7. /\ F \in Seq(V) /\ G \in Seq(V) /\ B \in Seq(V) /\ C \in Seq(V)
        /\ f[i] = F \o B /\ g[i] = G \o C
        /\ i - 1 < from => Len(G) = Len(F)
        /\ i - 1 >= from => Len(G) = Len(F) + more
    BY <2>3, <2>4, <2>6 DEF Right
  <2>8. /\ i # from => C = B
        /\ i = from => Len(C) = Len(B) + more
    <3>1. CASE i # from
      BY <2>5, <3>1
    <3>2. CASE i = from
      <4>1. more = Len(C) - Len(B)
        BY <3>2 DEF more
      <4>2. Len(C) \in Nat /\ Len(B) \in Nat
        BY <1>3, <3>2
      <4> HIDE DEF C, B
      <4>3. QED
        BY <3>2, <4>1, <4>2
    <3>3. QED
      BY <3>1, <3>2
  <2> HIDE DEF F, G, B, C
  <2>9. /\ f[i] \in Seq(V) /\ Len(f[i]) = Len(F) + Len(B)
        /\ g[i] \in Seq(V) /\ Len(g[i]) = Len(G) + Len(C)
        /\ Len(F) \in Nat /\ Len(G) \in Nat /\ Len(B) \in Nat /\ Len(C) \in Nat
    BY <2>7, SMTT(30)
  <2>10. Right(i)
    <3> DEFINE lf == Len(F)
               lg == Len(G)
               lb == Len(B)
               lc == Len(C)
    <3>1. lf \in Nat /\ lg \in Nat /\ lb \in Nat /\ lc \in Nat
      BY <2>9
    <3>2. /\ i - 1 < from => lg = lf
          /\ i - 1 >= from => lg = lf + more
          /\ i # from => lc = lb
          /\ i = from => lc = lb + more
      BY <2>7, <2>8
    <3> HIDE DEF lf, lg, lb, lc
    <3>3. from \in Nat
      BY <1>3
    <3>4. /\ i < from => lg + lc = lf + lb
          /\ i >= from => lg + lc = lf + lb + more
      BY <1>0, <2>5, <3>1, <3>2, <3>3, SMTT(30)
    <3>5. /\ i < from => Len(g[i]) = Len(f[i])
          /\ i >= from => Len(g[i]) = Len(f[i]) + more
      BY <2>9, <3>4, Zenon DEF lf, lg, lb, lc
    <3>6. QED
      BY <2>9, <3>5 DEF Right
  <2>11. QED
    BY <2>2, <2>10
<1>5. Right(Len(bs))
  <2>1. Len(bs) \in 0..Len(bs)
    BY <1>3
  <2>2. QED
    BY <1>4, <2>1
<1>6. Joined(bs) = f[Len(bs)] /\ Joined(cs) = g[Len(bs)]
  BY <1>1, <1>2, JoinedIs
<1>7. Len(g[Len(bs)]) = Len(f[Len(bs)]) + more /\ Len(f[Len(bs)]) \in Nat
  BY <1>3, <1>5 DEF Right
<1>8. QED
  BY <1>3, <1>6, <1>7 DEF more

LEMMA JoinedAppend ==
  ASSUME NEW V, NEW bs \in Seq(Seq(V)), NEW x \in Seq(V)
  PROVE  Joined(Append(bs, x)) = Joined(bs) \o x
<1> DEFINE n == Len(bs)
           cs == Append(bs, x)
<1>1. /\ cs \in Seq(Seq(V)) /\ Len(cs) = n + 1 /\ cs[n + 1] = x /\ n \in Nat
      /\ \A i \in 1..n : cs[i] = bs[i]
  OBVIOUS
<1> HIDE DEF cs
<1>2. PICK f : JoinsUpTo(f, cs)
  BY <1>1, JoinsExist
<1> DEFINE g == [i \in 0..n |-> f[i]]
<1>3. ASSUME NEW i \in 0 .. n + 1
      PROVE  f[i] = IF i = 0 THEN <<>> ELSE f[i - 1] \o cs[i]
  BY <1>1, <1>2, Zenon DEF JoinsUpTo
<1>4. JoinsUpTo(g, bs)
  <2> DEFINE h == [i \in 0..n |-> IF i = 0 THEN <<>> ELSE g[i - 1] \o bs[i]]
  <2>1. ASSUME NEW i \in 0..n PROVE g[i] = h[i]
    <3>1. f[i] = IF i = 0 THEN <<>> ELSE f[i - 1] \o cs[i]
      BY <1>1, <1>3
    <3>2. i # 0 => i - 1 \in 0..n /\ cs[i] = bs[i]
      BY <1>1
    <3>3. QED
      BY <3>1, <3>2
  <2>2. DOMAIN g = 0..n /\ DOMAIN h = 0..n
    OBVIOUS
  <2>3. g = h
    BY <2>1, <2>2
  <2>4. QED
    BY <2>3 DEF JoinsUpTo
<1>5. Joined(bs) = g[n]
  BY <1>4, JoinedIs
<1>6. Joined(cs) = f[n + 1]
  BY <1>1, <1>2, JoinedIs
<1>7. f[n + 1] = f[n] \o x
  <2>1. n + 1 \in 0 .. n + 1 /\ n + 1 # 0 /\ (n + 1) - 1 = n
    BY <1>1
  <2>2. QED
    BY <1>1, <1>3, <2>1
<1>8. QED
  BY <1>1, <1>5, <1>6, <1>7 DEF cs

-----------------------------------------------------------------------------
(* The invariant. *)

Octets == 0..255

Frame == [field : {MsgField, GroupField, MESSAGE_SET_GROUP_NUMBER}, bookmark : Nat]

Events ==
  {<<"unknown">>, <<"close">>, <<"throw">>, <<"lost">>}
    \union ({"int", "open", "set"} \X Int) \union ({"entry"} \X Int \X Int)

\* The write calls among op that have a bookmark.
Marked(op) == {i \in 1..Len(op) : op[i].bookmark # 0}

\* Each bookmark is a block, and the length noted in it is not above the total: the
\* length of a message is not negative (the assertion of endDelimited_).
BookmarksIn(op, bs, total) ==
  \A i \in Marked(op) : LET b == op[i].bookmark IN
    b \in 1..Len(bs) /\ bs[b] # <<>> /\ bs[b][Len(bs[b])] <= total

\* No two write calls have one bookmark, and groups have none.
OneBookmarkEach(op) ==
  /\ \A i, j \in Marked(op) : op[i].bookmark = op[j].bookmark => i = j
  /\ \A i \in 1..Len(op) : op[i].bookmark = 0 <=> op[i].field = GroupField

\* All the blocks hold is bytes, but for the notes in the bookmarks.
BytesIn(op, bs) ==
  \A b \in 1..Len(bs) : \A k \in 1..Len(bs[b]) :
    bs[b][k] \in Octets \/ (k = Len(bs[b]) /\ \E i \in Marked(op) : op[i].bookmark = b)

WriterInv ==
  /\ TypeOK
  /\ said \in Seq(Events)
  /\ OneBookmarkEach(open)
  /\ BookmarksIn(open, blocks, totalLength)
  /\ Lost = {} => BytesIn(open, blocks)
  /\ LengthsAgree
  /\ NothingUnsealedIsReturned

-----------------------------------------------------------------------------
(* What the pieces of an action do to it. *)

LEMMA VarintType ==
  ASSUME NEW n \in Nat
  PROVE  Varint(n) \in Seq(Octets) /\ Varint(n) # <<>>
<1> DEFINE Fits(k) == /\ k = 5 \/ n < Weight[k + 1]
                      /\ \A j \in 2..k : n >= Weight[j]
           size == CHOOSE k \in 1..5 : Fits(k)
<1>1. /\ Weight[1] = 1 /\ Weight[2] = 128 /\ Weight[3] = 16384
      /\ Weight[4] = 2097152 /\ Weight[5] = 268435456
  BY DEF Weight
<1>2. \E k \in 1..5 : Fits(k)
  <2>1. n < 128 => Fits(1)
    BY <1>1
  <2>2. n >= 128 /\ n < 16384 => Fits(2)
    BY <1>1
  <2>3. n >= 16384 /\ n < 2097152 => Fits(3)
    <3>1. \A j \in 2..3 : j = 2 \/ j = 3
      OBVIOUS
    <3>2. QED
      BY <1>1, <3>1
  <2>4. n >= 2097152 /\ n < 268435456 => Fits(4)
    <3>1. \A j \in 2..4 : j = 2 \/ j = 3 \/ j = 4
      OBVIOUS
    <3>2. QED
      BY <1>1, <3>1
  <2>5. n >= 268435456 => Fits(5)
    <3>1. \A j \in 2..5 : j = 2 \/ j = 3 \/ j = 4 \/ j = 5
      OBVIOUS
    <3>2. QED
      BY <1>1, <3>1
  <2> HIDE DEF Fits
  <2>6. QED
    BY <2>1, <2>2, <2>3, <2>4, <2>5
<1>3. size \in 1..5
  <2> HIDE DEF Fits
  <2>1. QED
    BY <1>2
<1>4. Varint(n) = [i \in 1..size |-> ((n \div Weight[i]) % 128) + (IF i < size THEN 128 ELSE 0)]
  BY Zenon DEF Varint
<1> HIDE DEF size
<1>5. ASSUME NEW i \in 1..size
      PROVE  ((n \div Weight[i]) % 128) + (IF i < size THEN 128 ELSE 0) \in Octets
  <2>1. i \in 1..5
    BY <1>3
  <2>2. i = 1 \/ i = 2 \/ i = 3 \/ i = 4 \/ i = 5
    BY <2>1
  <2>3. n \div 1 \in Nat /\ n \div 128 \in Nat /\ n \div 16384 \in Nat
        /\ n \div 2097152 \in Nat /\ n \div 268435456 \in Nat
    OBVIOUS
  <2>4. n \div Weight[i] \in Nat
    BY <1>1, <2>2, <2>3
  <2> DEFINE d == n \div Weight[i]
  <2> HIDE DEF d
  <2>5. d % 128 \in 0..127
    BY <2>4 DEF d
  <2>6. QED
    BY <2>5 DEF d, Octets
<1>6. size \in Nat \ {0}
  BY <1>3
<1>7. QED
  BY <1>4, <1>5, <1>6

LEMMA SignedVarintType ==
  ASSUME NEW v \in Int
  PROVE  SignedVarint(v) \in Seq(Octets)
<1>1. CASE v >= 0
  <2>1. SignedVarint(v) = Varint(v) /\ v \in Nat
    BY <1>1 DEF SignedVarint
  <2>2. QED
    BY <2>1, VarintType
<1>2. CASE ~(v >= 0)
  <2> DEFINE byte(i) == IF i = 10 THEN 1
                        ELSE IF i <= 5 THEN 128 + ((v \div Weight[i]) % 128) ELSE 255
  <2>1. ASSUME NEW i \in 1..10 PROVE byte(i) \in Octets
    <3>1. CASE i <= 5
      <4>1. i = 1 \/ i = 2 \/ i = 3 \/ i = 4 \/ i = 5
        BY <3>1
      <4>2. v \div 1 \in Int /\ v \div 128 \in Int /\ v \div 16384 \in Int
            /\ v \div 2097152 \in Int /\ v \div 268435456 \in Int
        OBVIOUS
      <4> DEFINE d == v \div Weight[i]
      <4>3. d \in Int
        BY <4>1, <4>2 DEF Weight
      <4> HIDE DEF d
      <4>4. d % 128 \in 0..127
        BY <4>3
      <4>5. 128 + (d % 128) \in 0..255
        BY <4>4
      <4>6. QED
        BY <3>1, <4>5 DEF d, Octets
    <3>2. CASE ~(i <= 5)
      BY <3>2 DEF Octets
    <3>3. QED
      BY <3>1, <3>2
  <2>2. SignedVarint(v) = [i \in 1..10 |-> byte(i)]
    BY <1>2, Zenon DEF SignedVarint
  <2> HIDE DEF byte
  <2>3. QED
    BY <2>1, <2>2
<1>3. QED
  BY <1>1, <1>2

LEMMA Bytes == \A x \in Octets : x \in Nat
BY DEF Octets

LEMMA BytesAreNumbers ==
  \A s : s \in Seq(Octets) => s \in Seq(Nat) /\ Len(s) \in Nat
                              /\ \A i \in 1..Len(s) : s[i] \in Octets
<1>1. Octets \subseteq Nat
  BY DEF Octets
<1>3. ASSUME NEW s \in Seq(Octets)
      PROVE  s \in Seq(Nat) /\ Len(s) \in Nat /\ \A i \in 1..Len(s) : s[i] \in Octets
  <2>1. ASSUME NEW B, B \subseteq Nat, NEW t \in Seq(B) PROVE t \in Seq(Nat)
    BY <2>1, SeqMonotonic, Zenon
  <2>4. s \in Seq(Nat)
    BY <1>1, <2>1, Zenon
  <2>2. Len(s) \in Nat
    BY LenProperties
  <2>3. QED
    BY <2>2, <2>4, ElementOfSeq
<1>4. QED
  BY <1>3

\* A block is added, and pushBlock.
LEMMA AddedLength ==
  ASSUME NEW bs \in Seq(Seq(Nat)), NEW x \in Seq(Nat)
  PROVE  /\ Len(Joined(Append(bs, x))) = Len(Joined(bs)) + Len(x)
         /\ Len(Joined(Push(bs, x))) = Len(Joined(bs)) + Len(x)
         /\ Len(Joined(bs)) \in Nat /\ Len(x) \in Nat
<1>1. Joined(bs) \in Seq(Nat)
  BY JoinedType
<1>2. Len(Joined(bs)) \in Nat /\ Len(x) \in Nat
  BY <1>1, LenProperties
<1>3. Joined(Append(bs, x)) = Joined(bs) \o x
  BY JoinedAppend
<1>4. Len(Joined(Append(bs, x))) = Len(Joined(bs)) + Len(x)
  BY <1>1, <1>3, ConcatProperties
<1>5. CASE x = <<>>
  <2>1. Len(x) = 0 /\ Push(bs, x) = bs
    BY <1>5 DEF Push
  <2>2. QED
    BY <1>2, <1>4, <2>1
<1>6. CASE x # <<>>
  <2>1. Push(bs, x) = Append(bs, x)
    BY <1>6 DEF Push
  <2>2. QED
    BY <1>2, <1>4, <2>1
<1>7. QED
  BY <1>5, <1>6

\* A block of bytes leaves the bookmarks what they are.
LEMMA AppendBlock ==
  ASSUME NEW op, NEW bs \in Seq(Seq(Nat)), NEW total \in Nat, NEW x \in Seq(Octets),
         BookmarksIn(op, bs, total)
  PROVE  /\ Append(bs, x) \in Seq(Seq(Nat))
         /\ BookmarksIn(op, Append(bs, x), total + Len(x))
         /\ BytesIn(op, bs) => BytesIn(op, Append(bs, x))
<1> DEFINE cs == Append(bs, x)
<1>1. x \in Seq(Nat) /\ Len(x) \in Nat /\ \A k \in 1..Len(x) : x[k] \in Octets
  BY BytesAreNumbers
<1>2. /\ cs \in Seq(Seq(Nat)) /\ Len(cs) = Len(bs) + 1 /\ Len(bs) \in Nat
      /\ cs[Len(bs) + 1] = x /\ \A b \in 1..Len(bs) : cs[b] = bs[b]
  BY <1>1
<1> HIDE DEF cs
<1>3. BookmarksIn(op, cs, total + Len(x))
  <2>1. ASSUME NEW i \in Marked(op), NEW b, b = op[i].bookmark
        PROVE  b \in 1..Len(cs) /\ cs[b] # <<>> /\ cs[b][Len(cs[b])] <= total + Len(x)
    <3>1. b \in 1..Len(bs) /\ bs[b] # <<>> /\ bs[b][Len(bs[b])] <= total
      BY <2>1 DEF BookmarksIn
    <3>2. bs[b] \in Seq(Nat)
      BY <3>1
    <3>3. bs[b][Len(bs[b])] \in Nat
      BY <3>1, <3>2
    <3>4. QED
      BY <1>1, <1>2, <3>1, <3>3, SMTT(30)
  <2>2. QED
    BY <2>1 DEF BookmarksIn
<1>4. ASSUME BytesIn(op, bs) PROVE BytesIn(op, cs)
  <2>1. ASSUME NEW b \in 1..Len(cs), NEW k \in 1..Len(cs[b])
        PROVE  cs[b][k] \in Octets \/ (k = Len(cs[b]) /\ \E i \in Marked(op) : op[i].bookmark = b)
    <3>1. CASE b = Len(bs) + 1
      BY <1>1, <1>2, <3>1
    <3>2. CASE b # Len(bs) + 1
      <4>1. b \in 1..Len(bs) /\ cs[b] = bs[b]
        BY <1>2, <3>2, SMTT(30)
      <4>2. QED
        BY <1>4, <4>1 DEF BytesIn
    <3>3. QED
      BY <3>1, <3>2
  <2>2. QED
    BY <2>1 DEF BytesIn
<1>5. QED
  BY <1>1, <1>2, <1>3, <1>4 DEF cs

LEMMA PushBlock ==
  ASSUME NEW op, NEW bs \in Seq(Seq(Nat)), NEW total \in Nat, NEW x \in Seq(Octets),
         BookmarksIn(op, bs, total)
  PROVE  /\ Push(bs, x) \in Seq(Seq(Nat))
         /\ BookmarksIn(op, Push(bs, x), total + Len(x))
         /\ BytesIn(op, bs) => BytesIn(op, Push(bs, x))
<1>1. CASE x = <<>>
  <2>1. Len(x) = 0 /\ total + Len(x) = total /\ Push(bs, x) = bs
    BY <1>1 DEF Push
  <2>2. QED
    BY <2>1
<1>2. CASE x # <<>>
  <2>1. Push(bs, x) = Append(bs, x)
    BY <1>2 DEF Push
  <2>2. QED
    BY <2>1, AppendBlock
<1>3. QED
  BY <1>1, <1>2

\* What a call says, none of it a bookmark left behind.
LEMMA SaysNothingLost ==
  ASSUME said \in Seq(Events), NEW events \in Seq(Events \ {<<"lost">>}), Says(events)
  PROVE  said' \in Seq(Events) /\ Lost' = Lost /\ out' = None
<1>1. said' = said \o events /\ out' = None
  BY DEF Says
<1>2. events \in Seq(Events)
  BY SeqMonotonic, Zenon
<1>3. /\ said' \in Seq(Events)
      /\ Len(said') = Len(said) + Len(events)
      /\ \A i \in 1 .. Len(said) + Len(events) :
           said'[i] = IF i <= Len(said) THEN said[i] ELSE events[i - Len(said)]
  BY <1>1, <1>2, ConcatProperties
<1>4. Len(said) \in Nat /\ Len(events) \in Nat /\ \A k \in 1..Len(events) : events[k] # <<"lost">>
  <2>1. Len(said) \in Nat /\ Len(events) \in Nat
    BY LenProperties
  <2>2. ASSUME NEW k \in 1..Len(events) PROVE events[k] \in Events \ {<<"lost">>}
    BY ElementOfSeq, Zenon
  <2>3. QED
    BY <2>1, <2>2
<1>5. ASSUME NEW i \in 1..Len(said')
      PROVE  said'[i] = <<"lost">> <=> i \in 1..Len(said) /\ said[i] = <<"lost">>
  <2>1. CASE i <= Len(said)
    BY <1>3, <1>4, <2>1
  <2>2. CASE ~(i <= Len(said))
    <3>1. i - Len(said) \in 1..Len(events) /\ said'[i] = events[i - Len(said)]
      BY <1>3, <1>4, <2>2
    <3>2. said'[i] # <<"lost">> /\ i \notin 1..Len(said)
      BY <1>4, <2>2, <3>1
    <3>3. QED
      BY <3>2
  <2>3. QED
    BY <2>1, <2>2
<1>6. Lost' = Lost
  <2>1. 1..Len(said) \subseteq 1..Len(said')
    BY <1>3, <1>4
  <2>2. QED
    BY <1>5, <2>1, Zenon DEF Lost
<1>7. QED
  BY <1>1, <1>3, <1>6

LEMMA LostIsFinite ==
  ASSUME said \in Seq(Events)
  PROVE  IsFiniteSet(Lost) /\ Cardinality(Lost) \in Nat
<1>1. Len(said) \in Nat
  BY LenProperties
<1>2. IsFiniteSet(1..Len(said))
  BY <1>1, FS_Interval
<1>3. IsFiniteSet(Lost)
  BY <1>2, FS_Subset DEF Lost
<1>4. QED
  BY <1>3, FS_CardinalityType

LEMMA MarkedIsFinite ==
  ASSUME NEW op \in Seq(Frame)
  PROVE  IsFiniteSet(Marked(op)) /\ Cardinality(Marked(op)) \in Nat
<1>1. Len(op) \in Nat
  BY LenProperties
<1>2. IsFiniteSet(1..Len(op))
  BY <1>1, FS_Interval
<1>3. IsFiniteSet(Marked(op))
  BY <1>2, FS_Subset DEF Marked
<1>4. QED
  BY <1>3, FS_CardinalityType

\* A caught exception leaves as many more bookmarks behind as it ends write calls with
\* one, and those its own call left.
LEMMA CaughtIs ==
  ASSUME said \in Seq(Events), open \in Seq(Frame), NEW level \in 0..Len(open), NEW lost \in Nat,
         Caught(level, lost)
  PROVE  /\ said' \in Seq(Events) /\ out' = None
         /\ open' \in Seq(Frame) /\ Len(open') = level
         /\ \A i \in 1..level : open'[i] = open[i]
         /\ Marked(open') \subseteq Marked(open)
         /\ Cardinality(Marked(open')) + Cardinality(Lost')
              = Cardinality(Marked(open)) + Cardinality(Lost) + lost
         /\ Lost' = {} => Lost = {} /\ lost = 0 /\ Marked(open') = Marked(open)
<1> DEFINE ended == {i \in level + 1 .. Len(open) : open[i].bookmark # 0}
           n == lost + Cardinality(ended)
           losts == [i \in 1..n |-> <<"lost">>]
           events == <<<<"throw">>>> \o losts
<1>1. Len(open) \in Nat /\ level \in Nat /\ Len(said) \in Nat
  <2>1. Len(open) \in Nat /\ Len(said) \in Nat
    BY LenProperties
  <2>2. QED
    BY <2>1
<1>2. IsFiniteSet(ended) /\ Cardinality(ended) \in Nat /\ n \in Nat
  <2>1. IsFiniteSet(level + 1 .. Len(open))
    BY <1>1, FS_Interval
  <2>2. IsFiniteSet(ended)
    BY <2>1, FS_Subset
  <2>3. Cardinality(ended) \in Nat
    BY <2>2, FS_CardinalityType
  <2> HIDE DEF ended
  <2>4. QED
    BY <2>2, <2>3
<1>3. open' = SubSeq(open, 1, level) /\ said' = said \o events /\ out' = None
  BY Zenon DEF Caught, Says
<1>4. /\ open' \in Seq(Frame) /\ Len(open') = level
      /\ \A i \in 1..level : open'[i] = open[i]
  BY <1>1, <1>3
<1>5. /\ Marked(open') \subseteq Marked(open)
      /\ Marked(open) = Marked(open') \union ended
      /\ Marked(open') \cap ended = {}
  <2>1. ASSUME NEW i
        PROVE  /\ i \in 1..Len(open) <=> i \in 1..level \/ i \in level + 1 .. Len(open)
               /\ ~(i \in 1..level /\ i \in level + 1 .. Len(open))
    BY <1>1
  <2>2. QED
    BY <1>4, <2>1, Zenon DEF Marked
<1> HIDE DEF ended
<1>6. Cardinality(Marked(open)) = Cardinality(Marked(open')) + Cardinality(ended)
  <2>1. IsFiniteSet(Marked(open')) /\ Cardinality(Marked(open')) \in Nat
    BY <1>4, MarkedIsFinite
  <2>2. Cardinality(Marked(open')) + Cardinality(ended) - Cardinality({})
          = Cardinality(Marked(open))
    BY <1>2, <1>5, <2>1, FS_Union
  <2>3. QED
    BY <1>2, <2>1, <2>2, FS_EmptySet
<1> HIDE DEF n
<1>7. /\ events \in Seq(Events) /\ Len(events) = n + 1
      /\ events[1] = <<"throw">> /\ \A i \in 2 .. n + 1 : events[i] = <<"lost">>
  <2>1. <<"throw">> \in Events /\ <<"lost">> \in Events
    BY DEF Events
  <2>2. losts \in Seq(Events) /\ Len(losts) = n
    BY <1>2, <2>1
  <2>3. <<<<"throw">>>> \in Seq(Events) /\ Len(<<<<"throw">>>>) = 1 /\ <<<<"throw">>>>[1] = <<"throw">>
    BY <2>1
  <2> DEFINE t == <<<<"throw">>>>
  <2> HIDE DEF t, losts
  <2>4. /\ t \o losts \in Seq(Events) /\ Len(t \o losts) = Len(t) + Len(losts)
        /\ \A i \in 1 .. Len(t) + Len(losts) :
             (t \o losts)[i] = IF i <= Len(t) THEN t[i] ELSE losts[i - Len(t)]
    BY <2>2, <2>3, ConcatProperties DEF t
  <2>5. ASSUME NEW i \in 2 .. n + 1 PROVE losts[i - 1] = <<"lost">>
    BY <1>2 DEF losts
  <2>6. QED
    BY <1>2, <2>2, <2>3, <2>4, <2>5 DEF t
<1> HIDE DEF events
<1>8. /\ said' \in Seq(Events)
      /\ Len(said') = Len(said) + n + 1
      /\ \A i \in 1 .. Len(said) + n + 1 :
           said'[i] = IF i <= Len(said) THEN said[i] ELSE events[i - Len(said)]
  <2>1. Len(events) \in Nat /\ Len(said) + Len(events) = Len(said) + n + 1
    BY <1>1, <1>2, <1>7
  <2>2. QED
    BY <1>3, <1>7, <2>1, ConcatProperties, ZenonT(40)
<1> DEFINE added == Len(said) + 2 .. Len(said) + n + 1
<1>9. Lost' = Lost \union added
  <2>1. ASSUME NEW i \in 1 .. Len(said) + n + 1
        PROVE  said'[i] = <<"lost">> <=> i \in Lost \union added
    <3>1. CASE i <= Len(said)
      BY <1>1, <1>8, <3>1 DEF Lost
    <3>2. CASE i = Len(said) + 1
      <4>1. said'[i] = <<"throw">> /\ i \notin added /\ i \notin 1..Len(said)
        BY <1>1, <1>7, <1>8, <3>2
      <4>2. <<"throw">> # <<"lost">>
        OBVIOUS
      <4>3. QED
        BY <4>1, <4>2 DEF Lost
    <3>3. CASE i > Len(said) + 1
      <4>1. i - Len(said) \in 2 .. n + 1 /\ i \in added /\ said'[i] = events[i - Len(said)]
        BY <1>1, <1>2, <1>8, <3>3
      <4>2. QED
        BY <1>7, <4>1
    <3>4. QED
      BY <1>1, <1>2, <3>1, <3>2, <3>3
  <2>2. Lost \union added \subseteq 1 .. Len(said) + n + 1
    BY <1>1, <1>2 DEF Lost
  <2>3. Lost' = {i \in 1 .. Len(said) + n + 1 : said'[i] = <<"lost">>}
    BY <1>8 DEF Lost
  <2> HIDE DEF added
  <2>4. QED
    BY <2>1, <2>2, <2>3, Zenon
<1>10. IsFiniteSet(added) /\ Cardinality(added) = n /\ Lost \cap added = {}
  <2> DEFINE a == Len(said) + 2
             b == Len(said) + n + 1
  <2>1. a \in Int /\ b \in Int /\ (a > b <=> n = 0) /\ (b - a) + 1 = n /\ b - a + 1 = n
    BY <1>1, <1>2
  <2> HIDE DEF a, b
  <2>4. /\ IsFiniteSet(a..b)
        /\ Cardinality(a..b) = IF a > b THEN 0 ELSE b - a + 1
    BY <2>1, FS_Interval
  <2>5. IsFiniteSet(a..b) /\ Cardinality(a..b) = n
    BY <1>2, <2>1, <2>4
  <2>2. IsFiniteSet(added) /\ Cardinality(added) = n
    BY <2>5 DEF a, b
  <2>3. Lost \cap added = {}
    BY <1>1 DEF Lost
  <2>6. QED
    BY <2>2, <2>3
<1> HIDE DEF added
<1>11. Cardinality(Lost') = Cardinality(Lost) + n /\ Cardinality(Lost) \in Nat
  <2>1. Cardinality(Lost) + Cardinality(added) - Cardinality({}) = Cardinality(Lost')
    BY <1>9, <1>10, LostIsFinite, FS_Union
  <2>2. QED
    BY <1>2, <1>10, <2>1, LostIsFinite, FS_EmptySet
<1>12. Cardinality(Marked(open')) \in Nat
  BY <1>4, MarkedIsFinite
<1>13. ASSUME Lost' = {} PROVE Lost = {} /\ lost = 0 /\ Marked(open') = Marked(open)
  <2>1. Lost = {}
    BY <1>9, <1>13
  <2>2. n = 0
    BY <1>2, <1>11, <1>13, <2>1, FS_EmptySet
  <2>3. lost = 0 /\ Cardinality(ended) = 0
    BY <1>2, <2>2 DEF n
  <2>4. ended = {}
    BY <1>2, <2>3, FS_EmptySet
  <2>5. QED
    BY <1>5, <2>1, <2>3, <2>4
<1>14. Cardinality(Marked(open')) + Cardinality(Lost')
         = Cardinality(Marked(open)) + Cardinality(Lost) + lost
  <2> DEFINE m == Cardinality(Marked(open'))
             e == Cardinality(ended)
             l == Cardinality(Lost)
  <2>1. m \in Nat /\ e \in Nat /\ l \in Nat
    BY <1>2, <1>11, <1>12
  <2> HIDE DEF m, e, l
  <2>2. m + (l + (lost + e)) = (m + e) + l + lost
    BY <2>1
  <2>3. QED
    BY <1>6, <1>11, <2>2, Zenon DEF m, e, l, n
<1>15. QED
  BY <1>3, <1>4, <1>5, <1>8, <1>13, <1>14

-----------------------------------------------------------------------------
(* The steps. *)

LEMMA HeaderType ==
  ASSUME NEW field \in Nat, NEW wireType \in 0..7
  PROVE  Header(field, wireType) \in Seq(Octets) /\ Header(field, wireType) # <<>>
<1>1. MakeTag(field, wireType) \in Nat
  BY DEF MakeTag
<1>2. QED
  BY <1>1, VarintType DEF Header

LEMMA FieldsAreNumbers ==
  /\ IntField \in Nat /\ MsgField \in Nat /\ GroupField \in Nat /\ MapField \in Nat
  /\ BytesField \in Nat
  /\ VARINT \in 0..7 /\ DELIMITED \in 0..7 /\ START_GROUP \in 0..7 /\ END_GROUP \in 0..7
<1>1. FieldNumbers \subseteq Nat
  BY DEF FieldNumbers
<1>2. KnownFields \union {BytesField} \subseteq FieldNumbers
  BY WriterAssumption
<1>3. /\ IntField \in Nat /\ MsgField \in Nat /\ GroupField \in Nat /\ MapField \in Nat
      /\ BytesField \in Nat
  BY <1>1, <1>2 DEF KnownFields
<1>4. VARINT \in 0..7 /\ DELIMITED \in 0..7 /\ START_GROUP \in 0..7 /\ END_GROUP \in 0..7
  BY SMT DEF VARINT, DELIMITED, START_GROUP, END_GROUP
<1>5. QED
  BY <1>3, <1>4

LEMMA MessageSetTags ==
  /\ MESSAGE_SET_START_GROUP_TAG \in Octets /\ MESSAGE_SET_TYPE_ID_TAG \in Octets
  /\ MESSAGE_SET_END_TAG \in Octets
BY DEF Octets, MESSAGE_SET_START_GROUP_TAG, MESSAGE_SET_TYPE_ID_TAG, MESSAGE_SET_END_TAG, MakeTag,
       MESSAGE_SET_GROUP_NUMBER, MESSAGE_SET_TYPE_ID_FIELD_NUMBER, VARINT, START_GROUP, END_GROUP

LEMMA InvIs ==
  ASSUME WriterInv
  PROVE  /\ blocks \in Seq(Seq(Nat)) /\ totalLength \in Nat /\ encoder \in Seq(Octets)
         /\ encoder \in Seq(Octets) /\ Len(encoder) \in Nat
         /\ open \in Seq(Frame) /\ Len(open) \in Nat /\ said \in Seq(Events)
         /\ OneBookmarkEach(open) /\ BookmarksIn(open, blocks, totalLength)
         /\ Lost = {} => BytesIn(open, blocks)
         /\ Len(Joined(blocks)) = totalLength + Cardinality(Marked(open)) + Cardinality(Lost)
         /\ Cardinality(Marked(open)) \in Nat /\ Cardinality(Lost) \in Nat
         /\ Marked(open) = Unsealed
<1>1. /\ blocks \in Seq(Seq(Nat)) /\ totalLength \in Nat /\ encoder \in Seq(Octets)
      /\ open \in Seq(Frame) /\ said \in Seq(Events)
      /\ OneBookmarkEach(open) /\ BookmarksIn(open, blocks, totalLength)
      /\ Lost = {} => BytesIn(open, blocks)
  BY DEF WriterInv, TypeOK, Frame, Octets
<1>2. encoder \in Seq(Octets) /\ Len(encoder) \in Nat /\ Len(open) \in Nat
  BY <1>1, BytesAreNumbers
<1>3. Marked(open) = Unsealed
  BY DEF Marked, Unsealed
<1>4. Len(Joined(blocks)) = totalLength + Cardinality(Marked(open)) + Cardinality(Lost)
  BY <1>3 DEF WriterInv, LengthsAgree
<1>5. Cardinality(Marked(open)) \in Nat /\ Cardinality(Lost) \in Nat
  BY <1>1, LostIsFinite, MarkedIsFinite
<1>6. QED
  BY <1>1, <1>2, <1>3, <1>4, <1>5

\* What there is to show of a step that returns nothing.
LEMMA InvHolds ==
  ASSUME blocks' \in Seq(Seq(Nat)), totalLength' \in Nat, encoder' \in Seq(Octets),
         open' \in Seq(Frame), out' = None, said' \in Seq(Events),
         OneBookmarkEach(open'), BookmarksIn(open', blocks', totalLength'),
         Lost' = {} => BytesIn(open', blocks'),
         Len(Joined(blocks')) = totalLength' + Cardinality(Marked(open')) + Cardinality(Lost')
  PROVE  WriterInv'
<1>1. Unsealed' = Marked(open')
  BY DEF Marked, Unsealed
<1>2. out'.ok = FALSE /\ out'.bytes = <<>>
  BY DEF None
<1>3. TypeOK'
  BY <1>2 DEF TypeOK, Frame, Octets
<1>4. LengthsAgree'
  BY <1>1 DEF LengthsAgree
<1>5. NothingUnsealedIsReturned'
  BY <1>2 DEF NothingUnsealedIsReturned
<1>6. QED
  BY <1>3, <1>4, <1>5 DEF WriterInv

\* Of a step that writes to the encoder only.
LEMMA EncoderStep ==
  ASSUME WriterInv, encoder' \in Seq(Octets), UNCHANGED <<blocks, totalLength, open>>,
         said' \in Seq(Events), out' = None, Lost' = Lost
  PROVE  WriterInv'
<1>1. Marked(open') = Marked(open)
  OBVIOUS
<1>2. QED
  BY <1>1, InvIs, InvHolds

LEMMA EventTypes ==
  /\ <<<<"unknown">>>> \in Seq(Events \ {<<"lost">>})
  /\ <<<<"close">>>> \in Seq(Events \ {<<"lost">>})
  /\ \A v \in Int : /\ <<"int", v>> \in Events \ {<<"lost">>}
                    /\ <<<<"int", v>>>> \in Seq(Events \ {<<"lost">>})
                    /\ <<<<"open", v>>>> \in Seq(Events \ {<<"lost">>})
                    /\ <<<<"set", v>>>> \in Seq(Events \ {<<"lost">>})
  /\ \A k, v \in Int : <<<<"entry", k, v>>>> \in Seq(Events \ {<<"lost">>})
<1> DEFINE E == Events \ {<<"lost">>}
<1>1. <<"unknown">> \in E /\ <<"close">> \in E
  BY DEF Events
<1>2. ASSUME NEW v \in Int
      PROVE  <<"int", v>> \in E /\ <<"open", v>> \in E /\ <<"set", v>> \in E
  BY DEF Events
<1>3. ASSUME NEW k \in Int, NEW v \in Int PROVE <<"entry", k, v>> \in E
  BY DEF Events
<1> HIDE DEF E
<1>4. ASSUME NEW e \in E PROVE <<e>> \in Seq(E)
  OBVIOUS
<1>5. QED
  BY <1>1, <1>2, <1>3, <1>4 DEF E

LEMMA IntsAreNumbers == \A v \in Ints : v \in Int /\ SignedVarint(v) \in Seq(Octets)
<1>1. Int32 \subseteq Int
  BY DEF Int32
<1>3. \A v \in Ints : v \in Int
  BY <1>1, WriterAssumption
<1>2. QED
  BY <1>3, SignedVarintType

LEMMA WriteInt32Step ==
  ASSUME WriterInv, NEW v \in Ints, WriteInt32(v)
  PROVE  WriterInv'
<1>1. Says(<<<<"int", v>>>>) /\ encoder' = encoder \o Header(IntField, VARINT) \o SignedVarint(v)
      /\ UNCHANGED <<blocks, totalLength, open>>
  BY DEF WriteInt32
<1>2. Header(IntField, VARINT) \in Seq(Octets) /\ SignedVarint(v) \in Seq(Octets)
  BY FieldsAreNumbers, HeaderType, IntsAreNumbers
<1>3. encoder' \in Seq(Octets)
  BY <1>1, <1>2, InvIs
<1>4. said' \in Seq(Events) /\ Lost' = Lost /\ out' = None
  BY <1>1, IntsAreNumbers, EventTypes, SaysNothingLost, InvIs
<1>5. QED
  BY <1>1, <1>3, <1>4, EncoderStep

LEMMA AppendUint8ArrayStep ==
  ASSUME WriterInv, NEW before \in Seq(Octets), NEW arr \in Seq(Octets),
         AppendUint8Array(before, arr), Says(<<<<"unknown">>>>)
  PROVE  WriterInv'
<1> DEFINE pending == encoder \o before
           bs == Push(blocks, pending)
<1>1. pending \in Seq(Octets) /\ arr \in Seq(Octets)
  BY InvIs
<1>2. /\ blocks' = Push(bs, arr) /\ totalLength' = totalLength + Len(pending) + Len(arr)
      /\ encoder' = <<>> /\ open' = open
  BY DEF AppendUint8Array
<1> HIDE DEF pending
<1>3. /\ bs \in Seq(Seq(Nat)) /\ BookmarksIn(open, bs, totalLength + Len(pending))
      /\ BytesIn(open, blocks) => BytesIn(open, bs)
      /\ Len(Joined(bs)) = Len(Joined(blocks)) + Len(pending)
      /\ Len(pending) \in Nat
  <2>1. blocks \in Seq(Seq(Nat)) /\ totalLength \in Nat /\ BookmarksIn(open, blocks, totalLength)
    BY InvIs
  <2>2. pending \in Seq(Nat)
    BY <1>1, BytesAreNumbers
  <2>3. Len(Joined(bs)) = Len(Joined(blocks)) + Len(pending) /\ Len(pending) \in Nat
    BY <2>1, <2>2, AddedLength
  <2>4. QED
    BY <1>1, <2>1, <2>3, PushBlock, Zenon
<1> HIDE DEF bs
<1> DEFINE T == totalLength + Len(pending)
<1>4. T \in Nat /\ totalLength' = T + Len(arr) /\ BookmarksIn(open, bs, T)
  BY <1>2, <1>3, InvIs, SMTT(30)
<1> HIDE DEF T
<1>5. /\ blocks' \in Seq(Seq(Nat)) /\ BookmarksIn(open, blocks', totalLength')
      /\ BytesIn(open, bs) => BytesIn(open, blocks')
      /\ Len(Joined(blocks')) = Len(Joined(bs)) + Len(arr) /\ Len(arr) \in Nat
  <2>1. /\ Push(bs, arr) \in Seq(Seq(Nat)) /\ BookmarksIn(open, Push(bs, arr), T + Len(arr))
        /\ BytesIn(open, bs) => BytesIn(open, Push(bs, arr))
        /\ Len(Joined(Push(bs, arr))) = Len(Joined(bs)) + Len(arr) /\ Len(arr) \in Nat
    <3>1. arr \in Seq(Nat)
      BY <1>1, BytesAreNumbers
    <3>2. Len(Joined(Push(bs, arr))) = Len(Joined(bs)) + Len(arr) /\ Len(arr) \in Nat
      BY <1>3, <3>1, AddedLength
    <3>3. QED
      BY <1>1, <1>3, <1>4, <3>2, PushBlock, Zenon
  <2>2. QED
    BY <1>2, <1>4, <2>1, Zenon
<1>6. said' \in Seq(Events) /\ Lost' = Lost /\ out' = None
  BY EventTypes, SaysNothingLost, InvIs
<1>7. totalLength' \in Nat
      /\ Len(Joined(blocks')) = totalLength' + Cardinality(Marked(open)) + Cardinality(Lost)
  <2>1. Len(Joined(bs)) = T + Cardinality(Marked(open)) + Cardinality(Lost)
    <3> DEFINE m == Cardinality(Marked(open))
               l == Cardinality(Lost)
               p == Len(pending)
    <3>1. /\ m \in Nat /\ l \in Nat /\ p \in Nat /\ totalLength \in Nat
          /\ Len(Joined(bs)) = (totalLength + m + l) + p
      BY <1>3, InvIs
    <3> HIDE DEF m, l, p
    <3>2. (totalLength + m + l) + p = (totalLength + p) + m + l
      BY <3>1
    <3>3. QED
      BY <3>1, <3>2, Zenon DEF m, l, p, T
  <2>3. Len(Joined(blocks')) = (T + Len(arr)) + Cardinality(Marked(open)) + Cardinality(Lost)
    <3> DEFINE m == Cardinality(Marked(open))
               l == Cardinality(Lost)
               p == Len(arr)
    <3>1. m \in Nat /\ l \in Nat /\ p \in Nat /\ T \in Nat
      BY <1>4, <1>5, InvIs
    <3>2. Len(Joined(blocks')) = (T + m + l) + p
      BY <1>5, <2>1
    <3> HIDE DEF m, l, p
    <3>3. (T + m + l) + p = (T + p) + m + l
      BY <3>1
    <3>4. QED
      BY <3>2, <3>3, Zenon DEF m, l, p
  <2>4. totalLength' \in Nat
    BY <1>4, <1>5
  <2>5. QED
    BY <1>4, <2>3, <2>4, Zenon
<1>8. encoder' \in Seq(Octets)
  BY <1>2
<1>9. QED
  BY <1>2, <1>3, <1>5, <1>6, <1>7, <1>8, InvIs, InvHolds

\* A field that ends at once, or one an exception may cut short: the encoder becomes a
\* block, and what follows goes to the encoder.
LEMMA DelimitedStep ==
  ASSUME WriterInv, NEW field \in {IntField, MapField}, NEW content \in Seq(Octets),
         Delimited(field, content), said' \in Seq(Events), Lost' = Lost, out' = None
  PROVE  WriterInv'
<1> DEFINE header == encoder \o Header(field, DELIMITED)
           length == Varint(Len(content))
           block == header \o length
<1>1. header \in Seq(Octets) /\ length \in Seq(Octets)
  <2>1. Header(field, DELIMITED) \in Seq(Octets)
    BY FieldsAreNumbers, HeaderType
  <2>2. Len(content) \in Nat
    BY LenProperties
  <2>3. QED
    BY <2>1, <2>2, VarintType, InvIs
<1>2. /\ blocks' = Append(blocks, block)
      /\ totalLength' = totalLength + Len(header) + Len(length)
      /\ encoder' = content /\ open' = open
  BY Zenon DEF Delimited
<1> HIDE DEF header, length
<1>3. block \in Seq(Octets) /\ Len(block) = Len(header) + Len(length)
      /\ Len(header) \in Nat /\ Len(length) \in Nat
  BY <1>1, ConcatProperties, LenProperties
<1> HIDE DEF block
<1>4. totalLength' = totalLength + Len(block) /\ totalLength' \in Nat
  <2> DEFINE h == Len(header)
             l == Len(length)
  <2>1. h \in Nat /\ l \in Nat /\ totalLength \in Nat
    BY <1>3, InvIs
  <2> HIDE DEF h, l
  <2>2. totalLength + h + l = totalLength + (h + l) /\ totalLength + h + l \in Nat
    BY <2>1
  <2>3. QED
    BY <1>2, <1>3, <2>2 DEF h, l
<1>5. /\ blocks' \in Seq(Seq(Nat)) /\ BookmarksIn(open, blocks', totalLength')
      /\ BytesIn(open, blocks) => BytesIn(open, blocks')
      /\ Len(Joined(blocks')) = Len(Joined(blocks)) + Len(block) /\ Len(block) \in Nat
  <2> DEFINE bs == Append(blocks, block)
  <2>1. /\ bs \in Seq(Seq(Nat)) /\ BookmarksIn(open, bs, totalLength + Len(block))
        /\ BytesIn(open, blocks) => BytesIn(open, bs)
        /\ Len(Joined(bs)) = Len(Joined(blocks)) + Len(block) /\ Len(block) \in Nat
    <3>1. blocks \in Seq(Seq(Nat)) /\ totalLength \in Nat /\ BookmarksIn(open, blocks, totalLength)
      BY InvIs
    <3>2. block \in Seq(Nat)
      BY <1>3, BytesAreNumbers
    <3>3. Len(Joined(bs)) = Len(Joined(blocks)) + Len(block) /\ Len(block) \in Nat
      BY <3>1, <3>2, AddedLength
    <3>4. QED
      BY <1>3, <3>1, <3>3, AppendBlock, Zenon
  <2>2. QED
    BY <1>2, <1>4, <2>1, Zenon
<1>6. Len(Joined(blocks')) = totalLength' + Cardinality(Marked(open)) + Cardinality(Lost)
  <2>1. /\ totalLength \in Nat /\ Cardinality(Marked(open)) \in Nat /\ Cardinality(Lost) \in Nat
        /\ Len(Joined(blocks)) = totalLength + Cardinality(Marked(open)) + Cardinality(Lost)
    BY InvIs
  <2>2. Len(Joined(blocks')) = (totalLength + Len(block)) + Cardinality(Marked(open)) + Cardinality(Lost)
    <3> DEFINE m == Cardinality(Marked(open))
               l == Cardinality(Lost)
               p == Len(block)
    <3>1. m \in Nat /\ l \in Nat /\ p \in Nat /\ totalLength \in Nat
      BY <1>5, <2>1
    <3>2. Len(Joined(blocks')) = (totalLength + m + l) + p
      BY <1>5, <2>1
    <3> HIDE DEF m, l, p
    <3>3. (totalLength + m + l) + p = (totalLength + p) + m + l
      BY <3>1
    <3>4. QED
      BY <3>2, <3>3, Zenon DEF m, l, p
  <2>3. QED
    BY <1>4, <2>2, Zenon
<1>7. QED
  BY <1>2, <1>4, <1>5, <1>6, InvIs, InvHolds

LEMMA WriteUint8ArrayStep ==
  ASSUME WriterInv, NEW p \in Payloads, WriteUint8Array(p)
  PROVE  WriterInv'
<1>1. p \in Seq(Octets) /\ Len(p) \in Nat
  BY WriterAssumption, LenProperties DEF Octets
<1>2. Header(BytesField, DELIMITED) \in Seq(Octets) /\ Varint(Len(p)) \in Seq(Octets)
  BY <1>1, FieldsAreNumbers, HeaderType, VarintType
<1>3. Header(BytesField, DELIMITED) \o Varint(Len(p)) \in Seq(Octets)
  BY <1>2, ConcatProperties
<1>4. QED
  BY <1>1, <1>3, AppendUint8ArrayStep DEF WriteUint8Array

LEMMA WriteSerializedMessageStep ==
  ASSUME WriterInv, NEW r \in Raw, WriteSerializedMessage(r)
  PROVE  WriterInv'
<1>1. r \in Seq(Octets) /\ <<>> \in Seq(Octets)
  BY WriterAssumption DEF Octets
<1>2. QED
  BY <1>1, AppendUint8ArrayStep DEF WriteSerializedMessage

LEMMA WritePackedInt32Step ==
  ASSUME WriterInv, NEW v \in Ints, NEW w \in Ints, WritePackedInt32(<<v, w>>)
  PROVE  WriterInv'
<1> DEFINE values == <<v, w>>
           encoded == [i \in 1..Len(values) |-> SignedVarint(values[i])]
           events == [i \in 1..Len(values) |-> <<"int", values[i]>>]
<1>1. Says(events) /\ Delimited(IntField, Joined(encoded))
  BY DEF WritePackedInt32
<1>2. Len(values) = 2 /\ \A i \in 1..2 : values[i] \in Ints
  <2>1. values[1] = v /\ values[2] = w
    OBVIOUS
  <2>2. QED
    BY <2>1
<1> HIDE DEF values
<1>6. Joined(encoded) \in Seq(Octets)
  <2>1. \A i \in 1..2 : SignedVarint(values[i]) \in Seq(Octets)
    BY <1>2, IntsAreNumbers
  <2>2. encoded \in Seq(Seq(Octets))
    BY <1>2, <2>1
  <2> HIDE DEF encoded
  <2>3. QED
    BY <2>2, JoinedType
<1> HIDE DEF encoded
<1>3. events \in Seq(Events \ {<<"lost">>})
  <2> DEFINE E == Events \ {<<"lost">>}
  <2>1. \A i \in 1..2 : <<"int", values[i]>> \in E
    BY <1>2, IntsAreNumbers, EventTypes
  <2> HIDE DEF E
  <2>2. events \in Seq(E)
    BY <1>2, <2>1
  <2>3. QED
    BY <2>2 DEF E
<1> HIDE DEF events
<1>4. said' \in Seq(Events) /\ Lost' = Lost /\ out' = None
  BY <1>1, <1>3, SaysNothingLost, InvIs
<1>5. QED
  BY <1>1, <1>4, <1>6, DelimitedStep

LEMMA WriteMapEntryStep ==
  ASSUME WriterInv, NEW k \in Ints, NEW v \in Ints, WriteMapEntry(k, v)
  PROVE  WriterInv'
<1> DEFINE content == Header(1, VARINT) \o SignedVarint(k) \o Header(2, VARINT) \o SignedVarint(v)
<1>1. content \in Seq(Octets)
  <2>1. Header(1, VARINT) \in Seq(Octets) /\ Header(2, VARINT) \in Seq(Octets)
    <3>1. 1 \in Nat /\ 2 \in Nat
      OBVIOUS
    <3>2. QED
      BY <3>1, FieldsAreNumbers, HeaderType
  <2>2. SignedVarint(k) \in Seq(Octets) /\ SignedVarint(v) \in Seq(Octets)
    BY IntsAreNumbers
  <2>3. QED
    BY <2>1, <2>2
<1>2. Says(<<<<"entry", k, v>>>>) /\ Delimited(MapField, content)
  BY DEF WriteMapEntry
<1>3. said' \in Seq(Events) /\ Lost' = Lost /\ out' = None
  BY <1>2, IntsAreNumbers, EventTypes, SaysNothingLost, InvIs
<1> HIDE DEF content
<1>4. QED
  BY <1>1, <1>2, <1>3, DelimitedStep

\* Fewer write calls in progress, with the bookmarks they had.
LEMMA FewerMarks ==
  ASSUME NEW op, NEW op2, NEW bs, NEW total, Marked(op2) \subseteq Marked(op),
         \A i \in Marked(op2) : op2[i].bookmark = op[i].bookmark,
         BookmarksIn(op, bs, total)
  PROVE  BookmarksIn(op2, bs, total)
BY DEF BookmarksIn

LEMMA SameMarks ==
  ASSUME NEW op, NEW op2, NEW bs, Marked(op2) = Marked(op),
         \A i \in Marked(op2) : op2[i].bookmark = op[i].bookmark,
         BytesIn(op, bs)
  PROVE  BytesIn(op2, bs)
<1>1. \A b, i : i \in Marked(op) /\ op[i].bookmark = b => i \in Marked(op2) /\ op2[i].bookmark = b
  OBVIOUS
<1>2. QED
  BY <1>1, Zenon DEF BytesIn

LEMMA OpenedIs ==
  ASSUME open \in Seq(Frame), NEW f \in Frame, open' = Append(open, f)
  PROVE  /\ open' \in Seq(Frame) /\ Len(open') = Len(open) + 1 /\ Len(open) \in Nat
         /\ open'[Len(open) + 1] = f /\ \A i \in 1..Len(open) : open'[i] = open[i]
         /\ Marked(open') = Marked(open) \union (IF f.bookmark = 0 THEN {} ELSE {Len(open) + 1})
         /\ Len(open) + 1 \notin Marked(open)
<1>1. /\ open' \in Seq(Frame) /\ Len(open') = Len(open) + 1 /\ Len(open) \in Nat
      /\ open'[Len(open) + 1] = f /\ \A i \in 1..Len(open) : open'[i] = open[i]
  OBVIOUS
<1>2. \A i : i \in 1..Len(open') <=> i \in 1..Len(open) \/ i = Len(open) + 1
  BY <1>1
<1>3. Len(open) + 1 \notin 1..Len(open)
  BY <1>1
<1>4. QED
  BY <1>1, <1>2, <1>3 DEF Marked

LEMMA ClosedIs ==
  ASSUME open \in Seq(Frame), open # <<>>, Close
  PROVE  /\ open' \in Seq(Frame) /\ Len(open') = Len(open) - 1 /\ Len(open) \in Nat \ {0}
         /\ \A i \in 1 .. Len(open) - 1 : open'[i] = open[i]
         /\ Marked(open') = Marked(open) \ {Len(open)}
<1>1. Len(open) \in Nat \ {0}
  BY EmptySeq
<1>2. /\ open' \in Seq(Frame) /\ Len(open') = Len(open) - 1
      /\ \A i \in 1 .. Len(open) - 1 : open'[i] = open[i]
  <2> DEFINE n == Len(open) - 1
  <2>1. n \in Nat /\ n <= Len(open) /\ 1..n \subseteq 1..Len(open)
    BY <1>1
  <2>2. open' = SubSeq(open, 1, n)
    BY DEF Close
  <2> HIDE DEF n
  <2>3. open' \in Seq(Frame) /\ Len(open') = n /\ \A i \in 1..n : open'[i] = open[i]
    BY <2>1, <2>2
  <2>4. QED
    BY <2>3 DEF n
<1>3. \A i : i \in 1 .. Len(open) - 1 <=> i \in 1..Len(open) /\ i # Len(open)
  BY <1>1
<1>4. QED
  BY <1>1, <1>2, <1>3 DEF Marked

LEMMA WriteGroupBeginsStep ==
  ASSUME WriterInv, WriteGroupBegins
  PROVE  WriterInv'
<1> DEFINE f == [field |-> GroupField, bookmark |-> 0]
<1>1. /\ Says(<<<<"open", GroupField>>>>) /\ encoder' = encoder \o Header(GroupField, START_GROUP)
      /\ open' = Append(open, f) /\ UNCHANGED <<blocks, totalLength>>
  BY DEF WriteGroupBegins
<1>2. f \in Frame /\ f.bookmark = 0 /\ f.field = GroupField
  BY DEF Frame
<1> HIDE DEF f
<1>3. encoder' \in Seq(Octets)
  <2>1. Header(GroupField, START_GROUP) \in Seq(Octets)
    BY FieldsAreNumbers, HeaderType
  <2>2. QED
    BY <1>1, <2>1, InvIs, ConcatProperties
<1>4. said' \in Seq(Events) /\ Lost' = Lost /\ out' = None
  <2>1. GroupField \in Int
    BY FieldsAreNumbers
  <2>2. QED
    BY <1>1, <2>1, EventTypes, SaysNothingLost, InvIs
<1>5. /\ open' \in Seq(Frame) /\ Len(open') = Len(open) + 1 /\ Len(open) \in Nat
      /\ open'[Len(open) + 1] = f /\ \A i \in 1..Len(open) : open'[i] = open[i]
      /\ Marked(open') = Marked(open)
  BY <1>1, <1>2, OpenedIs, InvIs
<1>6. \A i \in Marked(open') : open'[i].bookmark = open[i].bookmark
  BY <1>5 DEF Marked
<1>7. OneBookmarkEach(open')
  <2>1. OneBookmarkEach(open)
    BY InvIs
  <2>2. ASSUME NEW i \in 1..Len(open') PROVE open'[i].bookmark = 0 <=> open'[i].field = GroupField
    <3>1. i \in 1..Len(open) \/ i = Len(open) + 1
      BY <1>5
    <3>2. QED
      BY <1>2, <1>5, <2>1, <3>1 DEF OneBookmarkEach
  <2>3. QED
    BY <1>5, <1>6, <2>1, <2>2 DEF OneBookmarkEach
<1>8. BookmarksIn(open', blocks', totalLength')
  BY <1>1, <1>5, <1>6, FewerMarks, InvIs
<1>9. Lost' = {} => BytesIn(open', blocks')
  BY <1>1, <1>4, <1>5, <1>6, SameMarks, InvIs
<1>10. QED
  BY <1>1, <1>3, <1>4, <1>5, <1>7, <1>8, <1>9, InvIs, InvHolds

LEMMA WriteGroupEndsStep ==
  ASSUME WriterInv, WriteGroupEnds
  PROVE  WriterInv'
<1>1. /\ open # <<>> /\ Innermost.field = GroupField /\ Says(<<<<"close">>>>) /\ Close
      /\ encoder' = encoder \o Header(Innermost.field, END_GROUP)
      /\ UNCHANGED <<blocks, totalLength>>
  BY DEF WriteGroupEnds
<1>2. encoder' \in Seq(Octets)
  <2>1. Header(GroupField, END_GROUP) \in Seq(Octets)
    BY FieldsAreNumbers, HeaderType
  <2>2. QED
    BY <1>1, <2>1, InvIs, ConcatProperties
<1>3. said' \in Seq(Events) /\ Lost' = Lost /\ out' = None
  BY <1>1, EventTypes, SaysNothingLost, InvIs
<1>4. /\ open' \in Seq(Frame) /\ Len(open') = Len(open) - 1 /\ Len(open) \in Nat \ {0}
      /\ \A i \in 1 .. Len(open) - 1 : open'[i] = open[i]
      /\ Marked(open') = Marked(open) \ {Len(open)}
  BY <1>1, ClosedIs, InvIs
<1>5. Len(open) \notin Marked(open) /\ Len(open) \in 1..Len(open)
  <2>1. Len(open) \in 1..Len(open)
    BY <1>4
  <2>2. open[Len(open)].bookmark = 0
    BY <1>1, <2>1, InvIs DEF OneBookmarkEach, Innermost
  <2>3. QED
    BY <2>1, <2>2 DEF Marked
<1>6. Marked(open') = Marked(open)
  BY <1>4, <1>5
<1>7. 1..Len(open') \subseteq 1..Len(open) /\ \A i \in 1..Len(open') : open'[i] = open[i]
  BY <1>4
<1>8. \A i \in Marked(open') : open'[i].bookmark = open[i].bookmark
  BY <1>7 DEF Marked
<1>9. OneBookmarkEach(open')
  BY <1>6, <1>7, <1>8, InvIs DEF OneBookmarkEach
<1>10. BookmarksIn(open', blocks', totalLength')
  BY <1>1, <1>6, <1>8, FewerMarks, InvIs
<1>11. Lost' = {} => BytesIn(open', blocks')
  BY <1>1, <1>3, <1>6, <1>8, SameMarks, InvIs
<1>12. QED
  BY <1>1, <1>2, <1>3, <1>4, <1>6, <1>9, <1>10, <1>11, InvIs, InvHolds

\* A bookmark is added: a header, and in it the total length with it.
LEMMA NotedBlock ==
  ASSUME WriterInv, NEW header \in Seq(Octets),
         totalLength' = totalLength + Len(header),
         blocks' = Append(blocks, Append(header, totalLength'))
  PROVE  /\ totalLength' \in Nat /\ Len(header) \in Nat /\ Len(blocks) \in Nat
         /\ blocks' \in Seq(Seq(Nat)) /\ Len(blocks') = Len(blocks) + 1
         /\ blocks'[Len(blocks) + 1] = Append(header, totalLength')
         /\ \A b \in 1..Len(blocks) : blocks'[b] = blocks[b]
         /\ BookmarksIn(open, blocks', totalLength')
         /\ Len(Joined(blocks')) = Len(Joined(blocks)) + (Len(header) + 1)
<1> DEFINE bs == blocks
           cs == blocks'
           t == totalLength'
           total == totalLength
           op == open
<1>0. /\ bs \in Seq(Seq(Nat)) /\ total \in Nat /\ BookmarksIn(op, bs, total)
      /\ t = total + Len(header) /\ cs = Append(bs, Append(header, t))
  BY InvIs
<1> HIDE DEF bs, cs, t, total, op
<1> DEFINE block == Append(header, t)
<1>1. header \in Seq(Nat) /\ Len(header) \in Nat
  BY BytesAreNumbers
<1>2. t \in Nat
  BY <1>0, <1>1
<1>3. block \in Seq(Nat) /\ Len(block) = Len(header) + 1
  BY <1>1, <1>2
<1> HIDE DEF block
<1>4. /\ cs \in Seq(Seq(Nat)) /\ Len(cs) = Len(bs) + 1 /\ Len(bs) \in Nat
      /\ cs[Len(bs) + 1] = block /\ \A b \in 1..Len(bs) : cs[b] = bs[b]
  BY <1>0, <1>3 DEF block
<1>5. BookmarksIn(op, cs, t)
  <2>1. ASSUME NEW i \in Marked(op), NEW b, b = op[i].bookmark
        PROVE  b \in 1..Len(cs) /\ cs[b] # <<>> /\ cs[b][Len(cs[b])] <= t
    <3>1. b \in 1..Len(bs) /\ bs[b] # <<>> /\ bs[b][Len(bs[b])] <= total
      BY <1>0, <2>1 DEF BookmarksIn
    <3>2. bs[b] \in Seq(Nat)
      BY <1>0, <3>1
    <3>3. bs[b][Len(bs[b])] \in Nat
      BY <3>1, <3>2
    <3>4. b \in 1..Len(cs) /\ cs[b] = bs[b]
      BY <1>4, <3>1
    <3> DEFINE note == bs[b][Len(bs[b])]
    <3> HIDE DEF note
    <3>5. note <= t
      BY <1>0, <1>1, <3>1, <3>3, SMTT(30) DEF note
    <3>6. QED
      BY <3>1, <3>4, <3>5 DEF note
  <2>2. QED
    BY <2>1 DEF BookmarksIn
<1>6. Len(Joined(cs)) = Len(Joined(bs)) + (Len(header) + 1) /\ Len(Joined(bs)) \in Nat
  <2>1. Len(Joined(Append(bs, block))) = Len(Joined(bs)) + Len(block) /\ Len(Joined(bs)) \in Nat
    BY <1>0, <1>3, AddedLength
  <2>2. QED
    BY <1>0, <1>3, <2>1, Zenon DEF block
<1>7. QED
  BY <1>1, <1>2, <1>4, <1>5, <1>6 DEF block, bs, cs, t, op

LEMMA BeginDelimitedStep ==
  ASSUME WriterInv, NEW before \in Seq(Octets), NEW field \in Nat, NEW kind,
         kind \in {MsgField, MESSAGE_SET_GROUP_NUMBER},
         BeginDelimited(before, field),
         open' = Append(open, [field |-> kind, bookmark |-> Len(blocks) + 1]),
         said' \in Seq(Events), Lost' = Lost, out' = None
  PROVE  WriterInv'
<1> DEFINE header == encoder \o before \o Header(field, DELIMITED)
           f == [field |-> kind, bookmark |-> Len(blocks) + 1]
<1>1. header \in Seq(Octets) /\ header # <<>>
  <2> DEFINE bytes == encoder \o before
             tag == Header(field, DELIMITED)
  <2>1. bytes \in Seq(Octets) /\ tag \in Seq(Octets) /\ tag # <<>>
    <3>1. tag \in Seq(Octets) /\ tag # <<>>
      BY FieldsAreNumbers, HeaderType
    <3>2. QED
      BY <3>1, InvIs
  <2> HIDE DEF bytes, tag
  <2>2. bytes \o tag \in Seq(Octets) /\ bytes \o tag # <<>>
    <3>1. Len(tag) \in Nat \ {0} /\ Len(bytes) \in Nat
      BY <2>1, EmptySeq, LenProperties
    <3>2. bytes \o tag \in Seq(Octets) /\ Len(bytes \o tag) = Len(bytes) + Len(tag)
      BY <2>1, ConcatProperties
    <3>3. Len(bytes \o tag) # 0
      BY <3>1, <3>2
    <3>4. QED
      BY <3>2, <3>3, EmptySeq
  <2>3. QED
    BY <2>2 DEF bytes, tag
<1>2. /\ blocks' = Append(blocks, Append(header, totalLength + Len(header)))
      /\ totalLength' = totalLength + Len(header)
      /\ encoder' = <<>>
  BY Zenon DEF BeginDelimited
<1> HIDE DEF header
<1>3. /\ totalLength' \in Nat /\ Len(header) \in Nat /\ Len(blocks) \in Nat
      /\ blocks' \in Seq(Seq(Nat)) /\ Len(blocks') = Len(blocks) + 1
      /\ blocks'[Len(blocks) + 1] = Append(header, totalLength')
      /\ \A b \in 1..Len(blocks) : blocks'[b] = blocks[b]
      /\ BookmarksIn(open, blocks', totalLength')
      /\ Len(Joined(blocks')) = Len(Joined(blocks)) + (Len(header) + 1)
  <2>1. blocks' = Append(blocks, Append(header, totalLength'))
    BY <1>2
  <2>2. QED
    BY <1>1, <1>2, <2>1, NotedBlock
<1>4. f \in Frame /\ f.bookmark = Len(blocks) + 1 /\ f.field = kind /\ f.bookmark # 0
      /\ kind # GroupField
  <2>1. kind # GroupField
    BY SchemaAssumption DEF KnownFields
  <2>2. QED
    BY <1>3, <2>1 DEF Frame
<1> DEFINE new == Len(open) + 1
<1>5. /\ open' \in Seq(Frame) /\ Len(open') = new /\ Len(open) \in Nat
      /\ open'[new] = f /\ \A i \in 1..Len(open) : open'[i] = open[i]
      /\ Marked(open') = Marked(open) \union {new} /\ new \notin Marked(open)
  <2>1. open \in Seq(Frame)
    BY InvIs
  <2>2. QED
    BY <1>4, <2>1, OpenedIs
<1> HIDE DEF f
<1>6. \A i \in Marked(open) : i \in 1..Len(open) /\ open'[i] = open[i]
  BY <1>5 DEF Marked
<1>7. \A i \in Marked(open) : open[i].bookmark \in 1..Len(blocks)
  BY InvIs DEF BookmarksIn
<1>8. OneBookmarkEach(open')
  <2>1. OneBookmarkEach(open)
    BY InvIs
  <2>2. ASSUME NEW i \in 1..Len(open') PROVE open'[i].bookmark = 0 <=> open'[i].field = GroupField
    <3>1. i \in 1..Len(open) \/ i = new
      BY <1>5
    <3>2. QED
      BY <1>4, <1>5, <2>1, <3>1 DEF OneBookmarkEach
  <2>3. ASSUME NEW i \in Marked(open'), NEW j \in Marked(open'), open'[i].bookmark = open'[j].bookmark
        PROVE  i = j
    <3>1. Len(blocks) + 1 \notin 1..Len(blocks)
      BY <1>3
    <3> HIDE DEF new
    <3>2. QED
      BY <1>4, <1>5, <1>6, <1>7, <2>1, <2>3, <3>1 DEF OneBookmarkEach
  <2>4. QED
    BY <2>2, <2>3 DEF OneBookmarkEach
<1>9. BookmarksIn(open', blocks', totalLength')
  <2> DEFINE b == Len(blocks) + 1
             last == Append(header, totalLength')
  <2>1. b \in 1..Len(blocks') /\ last # <<>> /\ last[Len(last)] = totalLength' /\ blocks'[b] = last
    <3>1. b \in 1..Len(blocks') /\ blocks'[b] = last
      BY <1>3
    <3>2. header \in Seq(Nat)
      BY <1>1, BytesAreNumbers
    <3>3. last \in Seq(Nat) /\ Len(last) = Len(header) + 1 /\ last[Len(header) + 1] = totalLength'
      BY <1>3, <3>2
    <3>4. last # <<>>
      <4> HIDE DEF last
      <4>1. Len(last) > 0 /\ Len(<<>>) = 0
        BY <1>3, <3>3
      <4>2. QED
        BY <4>1
    <3>5. QED
      BY <3>1, <3>3, <3>4
  <2>2. last[Len(last)] <= totalLength'
    BY <1>3, <2>1
  <2> HIDE DEF b, last, new
  <2>3. open'[new].bookmark = b
    BY <1>4, <1>5 DEF b
  <2>4. ASSUME NEW i \in Marked(open'), NEW c, c = open'[i].bookmark
        PROVE  c \in 1..Len(blocks') /\ blocks'[c] # <<>>
               /\ blocks'[c][Len(blocks'[c])] <= totalLength'
    <3>1. CASE i = new
      BY <2>1, <2>2, <2>3, <2>4, <3>1
    <3>2. CASE i # new
      <4>1. i \in Marked(open) /\ c = open[i].bookmark
        BY <1>5, <1>6, <2>4, <3>2
      <4>2. QED
        BY <1>3, <4>1 DEF BookmarksIn
    <3>3. QED
      BY <3>1, <3>2
  <2>5. QED
    BY <2>4 DEF BookmarksIn
<1>10. ASSUME Lost' = {} PROVE BytesIn(open', blocks')
  <2>1. BytesIn(open, blocks)
    BY <1>10, InvIs
  <2>2. ASSUME NEW b \in 1..Len(blocks'), NEW k \in 1..Len(blocks'[b])
        PROVE  blocks'[b][k] \in Octets
               \/ (k = Len(blocks'[b]) /\ \E i \in Marked(open') : open'[i].bookmark = b)
    <3>1. CASE b = Len(blocks) + 1
      <4> DEFINE last == Append(header, totalLength')
      <4>1. blocks'[b] = last /\ Len(last) = Len(header) + 1
            /\ \A m \in 1..Len(header) : last[m] = header[m] /\ header[m] \in Octets
        <5>1. header \in Seq(Nat) /\ \A m \in 1..Len(header) : header[m] \in Octets
          BY <1>1, BytesAreNumbers, ElementOfSeq
        <5>2. \A m \in 1..Len(header) : last[m] = header[m]
          BY <1>3, <5>1
        <5>3. Len(last) = Len(header) + 1
          BY <1>3, <5>1
        <5>4. blocks'[b] = last
          BY <1>3, <3>1
        <5>5. QED
          BY <5>1, <5>2, <5>3, <5>4
      <4> HIDE DEF last, new
      <4>2. new \in Marked(open') /\ open'[new].bookmark = b
        BY <1>4, <1>5, <3>1
      <4>3. k = Len(last) \/ k \in 1..Len(header)
        BY <1>3, <4>1, SMTT(30)
      <4>4. QED
        BY <4>1, <4>2, <4>3, Bytes
    <3>2. CASE b # Len(blocks) + 1
      <4>1. b \in 1..Len(blocks) /\ blocks'[b] = blocks[b]
        <5>1. b \in 1 .. Len(blocks) + 1
          BY <1>3
        <5>2. b \in 1..Len(blocks)
          BY <1>3, <3>2, <5>1, SMTT(30)
        <5>3. QED
          BY <1>3, <5>2
      <4> HIDE DEF new
      <4>2. \A i \in Marked(open) : i \in Marked(open') /\ open'[i].bookmark = open[i].bookmark
        BY <1>5, <1>6
      <4>3. QED
        BY <2>1, <4>1, <4>2 DEF BytesIn
    <3>3. QED
      BY <3>1, <3>2
  <2>3. QED
    BY <2>2 DEF BytesIn
<1>11. Cardinality(Marked(open')) = Cardinality(Marked(open)) + 1
  <2>1. IsFiniteSet(Marked(open))
    BY InvIs, MarkedIsFinite
  <2>2. QED
    BY <1>5, <2>1, FS_AddElement
<1>12. Len(Joined(blocks')) = totalLength' + Cardinality(Marked(open')) + Cardinality(Lost')
  <2> DEFINE m == Cardinality(Marked(open))
             l == Cardinality(Lost)
             h == Len(header)
  <2>1. /\ m \in Nat /\ l \in Nat /\ h \in Nat /\ totalLength \in Nat
        /\ Len(Joined(blocks')) = (totalLength + m + l) + (h + 1)
        /\ totalLength' = totalLength + h /\ Cardinality(Marked(open')) = m + 1
    BY <1>2, <1>3, <1>11, InvIs
  <2> HIDE DEF m, l, h
  <2>2. (totalLength + m + l) + (h + 1) = (totalLength + h) + (m + 1) + l
    BY <2>1
  <2>3. QED
    BY <2>1, <2>2, Zenon DEF l
<1>13. encoder' \in Seq(Octets)
  BY <1>2
<1>14. QED
  BY <1>3, <1>5, <1>8, <1>9, <1>10, <1>12, <1>13, InvHolds

LEMMA WriteMessageBeginsStep ==
  ASSUME WriterInv, WriteMessageBegins
  PROVE  WriterInv'
<1>1. MsgField \in Nat /\ MsgField \in Int /\ <<>> \in Seq(Octets)
  BY FieldsAreNumbers
<1>3. said' \in Seq(Events) /\ Lost' = Lost /\ out' = None
  BY <1>1, EventTypes, SaysNothingLost, InvIs DEF WriteMessageBegins
<1>4. QED
  BY <1>1, <1>3, BeginDelimitedStep DEF WriteMessageBegins

LEMMA WriteMessageSetBeginsStep ==
  ASSUME WriterInv, NEW id \in Ints, WriteMessageSetBegins(id)
  PROVE  WriterInv'
<1> DEFINE tags == <<MESSAGE_SET_START_GROUP_TAG, MESSAGE_SET_TYPE_ID_TAG>>
           before == tags \o SignedVarint(id)
<1>1. MESSAGE_SET_MESSAGE_FIELD_NUMBER \in Nat
  BY DEF MESSAGE_SET_MESSAGE_FIELD_NUMBER
<1>2. before \in Seq(Octets)
  <2>1. tags \in Seq(Octets)
    BY MessageSetTags
  <2> HIDE DEF tags
  <2>2. QED
    BY <2>1, IntsAreNumbers, ConcatProperties
<1> HIDE DEF before
<1>3. said' \in Seq(Events) /\ Lost' = Lost /\ out' = None
  <2>1. id \in Int
    BY IntsAreNumbers
  <2>2. QED
    BY <2>1, EventTypes, SaysNothingLost, InvIs DEF WriteMessageSetBegins
<1>4. QED
  BY <1>1, <1>2, <1>3, BeginDelimitedStep DEF WriteMessageSetBegins, before

\* endDelimited_: the length of the message is not negative, and the note makes way
\* for it.
LEMMA EndDelimitedStep ==
  ASSUME WriterInv, open # <<>>, Innermost.field # GroupField, EndDelimited,
         encoder' \in Seq(Octets)
  PROVE  WriterInv'
<1> DEFINE last == Len(open)
           b == open[last].bookmark
           note == blocks[b][Len(blocks[b])]
           n == totalLength + Len(encoder) - note
           length == Varint(n)
           head == SubSeq(blocks[b], 1, Len(blocks[b]) - 1)
           block == head \o length
<1>1. /\ blocks' = [blocks EXCEPT ![b] = block] /\ totalLength' = totalLength + Len(length)
      /\ Close /\ Says(<<<<"close">>>>)
  BY Zenon DEF EndDelimited, Sealed, Innermost
<1>2. /\ open' \in Seq(Frame) /\ Len(open') = last - 1 /\ last \in Nat \ {0}
      /\ \A i \in 1 .. last - 1 : open'[i] = open[i]
      /\ Marked(open') = Marked(open) \ {last}
  BY <1>1, ClosedIs, InvIs
<1>3. last \in Marked(open)
  <2>1. last \in 1..Len(open)
    BY <1>2
  <2>2. b # 0
    BY <2>1, InvIs DEF OneBookmarkEach, Innermost
  <2>3. QED
    BY <2>1, <2>2 DEF Marked
<1>4. said' \in Seq(Events) /\ Lost' = Lost /\ out' = None
  BY <1>1, EventTypes, SaysNothingLost, InvIs
<1>5. \A i \in Marked(open') : /\ i \in Marked(open) /\ i # last /\ open'[i] = open[i]
                               /\ i \in 1..Len(open')
  BY <1>2 DEF Marked
<1>6. b \in 1..Len(blocks) /\ blocks[b] # <<>> /\ note <= totalLength
  BY <1>3, InvIs DEF BookmarksIn
<1> HIDE DEF b
<1> DEFINE size == Len(blocks[b])
<1>7. blocks[b] \in Seq(Nat) /\ size \in Nat \ {0} /\ note \in Nat
  <2>1. blocks[b] \in Seq(Nat)
    BY <1>6, InvIs
  <2>2. size \in Nat \ {0}
    BY <1>6, <2>1, EmptySeq
  <2>3. QED
    BY <2>1, <2>2
<1>8. n \in Nat
  <2> DEFINE e == Len(encoder)
  <2>1. e \in Nat /\ totalLength \in Nat
    BY InvIs
  <2> HIDE DEF note, e
  <2>2. totalLength + e - note \in Nat
    BY <1>6, <1>7, <2>1
  <2>3. QED
    BY <2>2 DEF e
<1> HIDE DEF n
<1>9. length \in Seq(Octets) /\ Len(length) \in Nat /\ length \in Seq(Nat)
      /\ \A k \in 1..Len(length) : length[k] \in Octets
  <2>1. length \in Seq(Octets)
    BY <1>8, VarintType
  <2> HIDE DEF length
  <2>2. QED
    BY <2>1, BytesAreNumbers
<1> HIDE DEF length, note
<1>10. head \in Seq(Nat) /\ Len(head) = size - 1 /\ \A k \in 1 .. size - 1 : head[k] = blocks[b][k]
  <2> DEFINE s == blocks[b]
             m == size - 1
  <2>1. m \in Nat /\ s \in Seq(Nat) /\ m <= Len(s) /\ head = SubSeq(s, 1, m)
    BY <1>7
  <2> HIDE DEF s, m, head
  <2>2. head \in Seq(Nat) /\ Len(head) = m /\ \A k \in 1..m : head[k] = s[k]
    BY <2>1
  <2>3. QED
    BY <2>2 DEF s, m
<1> HIDE DEF head
<1>11. /\ block \in Seq(Nat) /\ Len(block) = Len(head) + Len(length)
       /\ \A k \in 1 .. Len(head) + Len(length) :
            block[k] = IF k <= Len(head) THEN head[k] ELSE length[k - Len(head)]
  BY <1>9, <1>10, ConcatProperties
<1> HIDE DEF block
<1>12. /\ blocks' \in Seq(Seq(Nat)) /\ Len(blocks') = Len(blocks) /\ blocks'[b] = block
       /\ \A c \in 1..Len(blocks) : c # b => blocks'[c] = blocks[c]
       /\ blocks \in Seq(Seq(Nat))
  <2>1. blocks \in Seq(Seq(Nat))
    BY InvIs
  <2>2. QED
    BY <1>1, <1>6, <1>11, <2>1, ExceptSeq
<1>13. totalLength' \in Nat /\ totalLength' >= totalLength
  BY <1>1, <1>9, InvIs
<1>14. \A i \in Marked(open') : open[i].bookmark # b
  BY <1>3, <1>5, InvIs DEF OneBookmarkEach, b
<1>15. OneBookmarkEach(open')
  <2>1. OneBookmarkEach(open)
    BY InvIs
  <2>2. ASSUME NEW i \in 1..Len(open') PROVE open'[i].bookmark = 0 <=> open'[i].field = GroupField
    <3>1. i \in 1 .. last - 1 /\ i \in 1..Len(open)
      BY <1>2
    <3>2. QED
      BY <1>2, <2>1, <3>1 DEF OneBookmarkEach
  <2>3. QED
    BY <1>5, <2>1, <2>2 DEF OneBookmarkEach
<1>16. BookmarksIn(open', blocks', totalLength')
  <2>1. ASSUME NEW i \in Marked(open'), NEW c, c = open'[i].bookmark
        PROVE  c \in 1..Len(blocks') /\ blocks'[c] # <<>>
               /\ blocks'[c][Len(blocks'[c])] <= totalLength'
    <3>1. i \in Marked(open) /\ c = open[i].bookmark /\ c # b
      BY <1>5, <1>14, <2>1
    <3>2. c \in 1..Len(blocks) /\ blocks[c] # <<>> /\ blocks[c][Len(blocks[c])] <= totalLength
      BY <3>1, InvIs DEF BookmarksIn
    <3>3. c \in 1..Len(blocks') /\ blocks'[c] = blocks[c]
      BY <1>12, <3>1, <3>2
    <3>4. blocks[c][Len(blocks[c])] \in Nat
      <4>1. blocks[c] \in Seq(Nat)
        BY <1>12, <3>2
      <4>2. QED
        BY <3>2, <4>1
    <3> DEFINE x == blocks[c][Len(blocks[c])]
    <3> HIDE DEF x
    <3>5. x <= totalLength'
      <4>1. x \in Nat /\ x <= totalLength
        BY <3>2, <3>4 DEF x
      <4>2. totalLength \in Nat
        BY InvIs
      <4>3. QED
        BY <1>13, <4>1, <4>2
    <3>6. QED
      BY <3>2, <3>3, <3>5 DEF x
  <2>2. QED
    BY <2>1 DEF BookmarksIn
<1>17. ASSUME Lost' = {} PROVE BytesIn(open', blocks')
  <2>1. BytesIn(open, blocks)
    BY <1>4, <1>17, InvIs
  <2>2. ASSUME NEW c \in 1..Len(blocks'), NEW k \in 1..Len(blocks'[c])
        PROVE  blocks'[c][k] \in Octets
               \/ (k = Len(blocks'[c]) /\ \E i \in Marked(open') : open'[i].bookmark = c)
    <3>1. CASE c = b
      <4>1. blocks'[c] = block /\ k \in 1..Len(block)
        BY <1>12, <3>1
      <4>2. CASE k <= Len(head)
        <5>1. k \in 1 .. size - 1 /\ k \in 1..size /\ k # size
          <6> DEFINE h == Len(head)
          <6>1. h = size - 1 /\ k <= h /\ k \in Nat /\ k >= 1 /\ size \in Nat
            <7>1. Len(block) \in Nat
              BY <1>11, LenProperties
            <7>2. QED
              BY <1>7, <1>10, <4>1, <4>2, <7>1
          <6> HIDE DEF h, size
          <6>2. QED
            BY <6>1
        <5>2. block[k] = blocks[b][k]
          BY <1>7, <1>9, <1>10, <1>11, <4>1, <4>2, <5>1
        <5>3. blocks[b][k] \in Octets
          BY <1>6, <2>1, <5>1 DEF BytesIn
        <5>4. QED
          BY <4>1, <5>2, <5>3
      <4>3. CASE ~(k <= Len(head))
        <5>1. Len(head) \in Nat
          BY <1>7, <1>10
        <5>2. k - Len(head) \in 1..Len(length) /\ block[k] = length[k - Len(head)]
          BY <1>9, <1>11, <4>1, <4>3, <5>1
        <5>3. QED
          BY <1>9, <4>1, <5>2
      <4>4. QED
        BY <4>2, <4>3
    <3>2. CASE c # b
      <4>1. c \in 1..Len(blocks) /\ blocks'[c] = blocks[c]
        BY <1>12, <3>2
      <4>2. ASSUME NEW i \in Marked(open), open[i].bookmark = c
            PROVE  i \in Marked(open') /\ open'[i].bookmark = c
        <5>1. i # last
          BY <3>2, <4>2 DEF b
        <5>2. QED
          BY <1>2, <1>5, <4>2, <5>1
      <4>3. QED
        BY <2>1, <4>1, <4>2 DEF BytesIn
    <3>3. QED
      BY <3>1, <3>2
  <2>3. QED
    BY <2>2 DEF BytesIn
<1>18. Cardinality(Marked(open')) = Cardinality(Marked(open)) - 1
  <2>1. IsFiniteSet(Marked(open))
    BY InvIs, MarkedIsFinite
  <2>2. QED
    BY <1>2, <1>3, <2>1, FS_RemoveElement
<1>19. Len(Joined(blocks')) = totalLength' + Cardinality(Marked(open')) + Cardinality(Lost')
  <2> DEFINE m == Cardinality(Marked(open))
             l == Cardinality(Lost)
             v == Len(length)
             j == Len(Joined(blocks))
             h == Len(head)
             k == size
  <2>1. Len(Joined(blocks')) = j + Len(block) - k
    BY <1>6, <1>12, LengthDiffers
  <2>2. /\ m \in Nat /\ l \in Nat /\ v \in Nat /\ k \in Nat /\ totalLength \in Nat
        /\ j = totalLength + m + l /\ h = k - 1 /\ Len(block) = h + v
        /\ totalLength' = totalLength + v /\ Cardinality(Marked(open')) = m - 1
    BY <1>1, <1>7, <1>9, <1>10, <1>11, <1>18, InvIs
  <2> HIDE DEF m, l, v, j, k, h, size
  <2>3. (totalLength + m + l) + ((k - 1) + v) - k = (totalLength + v) + (m - 1) + l
    BY <2>2
  <2>4. QED
    BY <1>4, <2>1, <2>2, <2>3, Zenon DEF l
<1>20. QED
  BY <1>2, <1>4, <1>12, <1>13, <1>15, <1>16, <1>17, <1>19, InvHolds

LEMMA WriteMessageEndsStep ==
  ASSUME WriterInv, WriteMessageEnds
  PROVE  WriterInv'
<1>1. Innermost.field # GroupField
  BY SchemaAssumption DEF WriteMessageEnds
<1>2. encoder' \in Seq(Octets)
  BY InvIs DEF WriteMessageEnds
<1>3. QED
  BY <1>1, <1>2, EndDelimitedStep DEF WriteMessageEnds

LEMMA WriteMessageSetEndsStep ==
  ASSUME WriterInv, WriteMessageSetEnds
  PROVE  WriterInv'
<1>1. Innermost.field # GroupField
  BY SchemaAssumption DEF WriteMessageSetEnds, KnownFields
<1>2. encoder' \in Seq(Octets)
  <2>1. encoder' = Append(encoder, MESSAGE_SET_END_TAG)
    BY DEF WriteMessageSetEnds
  <2>2. MESSAGE_SET_END_TAG \in Octets /\ encoder \in Seq(Octets)
    BY MessageSetTags, InvIs
  <2>3. QED
    BY <2>1, <2>2, AppendProperties
<1>3. QED
  BY <1>1, <1>2, EndDelimitedStep DEF WriteMessageSetEnds

\* An exception is caught by code that goes on: the write calls it ended leave their
\* bookmarks behind.
LEMMA CaughtStep ==
  ASSUME WriterInv, NEW level \in 0..Len(open), Caught(level, 0), encoder' \in Seq(Octets),
         UNCHANGED <<blocks, totalLength>>
  PROVE  WriterInv'
<1>1. /\ said' \in Seq(Events) /\ out' = None
      /\ open' \in Seq(Frame) /\ Len(open') = level
      /\ \A i \in 1..level : open'[i] = open[i]
      /\ Marked(open') \subseteq Marked(open)
      /\ Cardinality(Marked(open')) + Cardinality(Lost')
           = Cardinality(Marked(open)) + Cardinality(Lost) + 0
      /\ Lost' = {} => Lost = {} /\ Marked(open') = Marked(open)
  BY CaughtIs, InvIs
<1>2. 1..level \subseteq 1..Len(open) /\ level \in Nat
  BY InvIs
<1>3. \A i \in Marked(open') : open'[i].bookmark = open[i].bookmark
  BY <1>1 DEF Marked
<1>4. OneBookmarkEach(open')
  BY <1>1, <1>2, <1>3, InvIs DEF OneBookmarkEach
<1>5. BookmarksIn(open', blocks', totalLength')
  BY <1>1, <1>3, FewerMarks, InvIs
<1>6. Lost' = {} => BytesIn(open', blocks')
  BY <1>1, <1>3, SameMarks, InvIs
<1>7. Cardinality(Marked(open')) \in Nat /\ Cardinality(Lost') \in Nat
  <2>1. IsFiniteSet(Lost') /\ Cardinality(Lost') \in Nat
    <3>1. Len(said') \in Nat
      BY <1>1, LenProperties
    <3>2. IsFiniteSet(1..Len(said'))
      BY <3>1, FS_Interval
    <3>3. Lost' \subseteq 1..Len(said')
      BY DEF Lost
    <3>4. QED
      BY <3>2, <3>3, FS_Subset, FS_CardinalityType
  <2>2. QED
    BY <1>1, <2>1, MarkedIsFinite
<1>8. Len(Joined(blocks')) = totalLength' + Cardinality(Marked(open')) + Cardinality(Lost')
  <2> DEFINE m == Cardinality(Marked(open))
             l == Cardinality(Lost)
             m2 == Cardinality(Marked(open'))
             l2 == Cardinality(Lost')
  <2>1. /\ m \in Nat /\ l \in Nat /\ m2 \in Nat /\ l2 \in Nat /\ totalLength \in Nat
        /\ m2 + l2 = m + l + 0 /\ Len(Joined(blocks')) = totalLength + m + l
        /\ totalLength' = totalLength
    BY <1>1, <1>7, InvIs
  <2> HIDE DEF m, l, m2, l2
  <2>2. totalLength + m + l = totalLength + m2 + l2
    BY <2>1
  <2>3. QED
    BY <2>1, <2>2, Zenon DEF m2, l2
<1>9. blocks' \in Seq(Seq(Nat)) /\ totalLength' \in Nat
  BY InvIs
<1>10. QED
  BY <1>1, <1>4, <1>5, <1>6, <1>8, <1>9, InvHolds

LEMMA CallbackThrowsStep ==
  ASSUME WriterInv, NEW level \in 0..Len(open), CallbackThrows(level)
  PROVE  WriterInv'
<1>1. encoder' \in Seq(Octets)
  BY InvIs DEF CallbackThrows
<1>2. QED
  BY <1>1, CaughtStep DEF CallbackThrows

LEMMA WriteInt32ThrowsStep ==
  ASSUME WriterInv, NEW level \in 0..Len(open), WriteInt32Throws(level)
  PROVE  WriterInv'
<1>1. encoder' \in Seq(Octets)
  <2>1. encoder' = encoder \o Header(IntField, VARINT)
    BY DEF WriteInt32Throws
  <2>2. Header(IntField, VARINT) \in Seq(Octets) /\ encoder \in Seq(Octets)
    BY FieldsAreNumbers, HeaderType, InvIs
  <2>3. QED
    BY <2>1, <2>2, ConcatProperties
<1>2. QED
  BY <1>1, CaughtStep DEF WriteInt32Throws

\* The packed field's bookmark is left behind too.
LEMMA WritePackedInt32ThrowsStep ==
  ASSUME WriterInv, NEW v \in Ints, NEW level \in 0..Len(open), WritePackedInt32Throws(v, level)
  PROVE  WriterInv'
<1> DEFINE header == encoder \o Header(IntField, DELIMITED)
<1>1. /\ blocks' = Append(blocks, Append(header, totalLength + Len(header)))
      /\ totalLength' = totalLength + Len(header)
      /\ encoder' = SignedVarint(v) /\ Caught(level, 1)
  BY Zenon DEF WritePackedInt32Throws
<1>2. header \in Seq(Octets)
  <2>1. Header(IntField, DELIMITED) \in Seq(Octets)
    BY FieldsAreNumbers, HeaderType
  <2>2. QED
    BY <2>1, InvIs
<1> HIDE DEF header
<1>3. /\ totalLength' \in Nat /\ Len(header) \in Nat
      /\ blocks' \in Seq(Seq(Nat)) /\ BookmarksIn(open, blocks', totalLength')
      /\ Len(Joined(blocks')) = Len(Joined(blocks)) + (Len(header) + 1)
  <2>1. blocks' = Append(blocks, Append(header, totalLength'))
    BY <1>1
  <2>2. QED
    BY <1>1, <1>2, <2>1, NotedBlock
<1>4. /\ said' \in Seq(Events) /\ out' = None
      /\ open' \in Seq(Frame) /\ Len(open') = level
      /\ \A i \in 1..level : open'[i] = open[i]
      /\ Marked(open') \subseteq Marked(open)
      /\ Cardinality(Marked(open')) + Cardinality(Lost')
           = Cardinality(Marked(open)) + Cardinality(Lost) + 1
      /\ Lost' # {}
  <2>1. 1 \in Nat /\ 1 # 0
    OBVIOUS
  <2>2. QED
    BY <1>1, <2>1, CaughtIs, InvIs
<1>5. 1..level \subseteq 1..Len(open) /\ level \in Nat
  BY InvIs
<1>6. \A i \in Marked(open') : open'[i].bookmark = open[i].bookmark
  BY <1>4 DEF Marked
<1>7. OneBookmarkEach(open')
  BY <1>4, <1>5, <1>6, InvIs DEF OneBookmarkEach
<1>8. BookmarksIn(open', blocks', totalLength')
  BY <1>3, <1>4, <1>6, FewerMarks
<1>9. Cardinality(Marked(open')) \in Nat /\ Cardinality(Lost') \in Nat
  <2>1. Len(said') \in Nat
    BY <1>4, LenProperties
  <2>2. IsFiniteSet(1..Len(said'))
    BY <2>1, FS_Interval
  <2>3. Lost' \subseteq 1..Len(said')
    BY DEF Lost
  <2>4. Cardinality(Lost') \in Nat
    BY <2>2, <2>3, FS_Subset, FS_CardinalityType
  <2>5. QED
    BY <1>4, <2>4, MarkedIsFinite
<1>10. Len(Joined(blocks')) = totalLength' + Cardinality(Marked(open')) + Cardinality(Lost')
  <2> DEFINE m == Cardinality(Marked(open))
             l == Cardinality(Lost)
             m2 == Cardinality(Marked(open'))
             l2 == Cardinality(Lost')
             h == Len(header)
  <2>1. /\ m \in Nat /\ l \in Nat /\ m2 \in Nat /\ l2 \in Nat /\ h \in Nat /\ totalLength \in Nat
        /\ m2 + l2 = m + l + 1 /\ Len(Joined(blocks')) = (totalLength + m + l) + (h + 1)
        /\ totalLength' = totalLength + h
    BY <1>1, <1>3, <1>4, <1>9, InvIs
  <2> HIDE DEF m, l, m2, l2, h
  <2>2. (totalLength + m + l) + (h + 1) = (totalLength + h) + m2 + l2
    BY <2>1
  <2>3. QED
    BY <2>1, <2>2, Zenon DEF m2, l2
<1>11. encoder' \in Seq(Octets)
  BY <1>1, IntsAreNumbers
<1>12. QED
  BY <1>3, <1>4, <1>7, <1>8, <1>10, <1>11, InvHolds

\* A result is taken only if the blocks hold as many bytes as the total says: then no
\* bookmark has its note any more.
LEMMA GetResultBufferStep ==
  ASSUME WriterInv, GetResultBuffer
  PROVE  WriterInv'
<1> DEFINE flushed == Push(blocks, encoder)
           bytes == Joined(flushed)
<1>1. /\ encoder' = <<>> /\ totalLength' = totalLength + Len(encoder)
      /\ UNCHANGED <<open, said>>
      /\ IF Len(bytes) = totalLength'
           THEN blocks' = <<bytes>> /\ out' = [ok |-> TRUE, bytes |-> bytes]
           ELSE blocks' = flushed /\ out' = None
  BY Zenon DEF GetResultBuffer
<1>2. Lost' = Lost /\ said' \in Seq(Events) /\ open' \in Seq(Frame) /\ Marked(open') = Marked(open)
  BY <1>1, InvIs DEF Lost
<1>3. /\ flushed \in Seq(Seq(Nat)) /\ BookmarksIn(open, flushed, totalLength')
      /\ BytesIn(open, blocks) => BytesIn(open, flushed)
      /\ Len(bytes) = Len(Joined(blocks)) + Len(encoder)
      /\ Len(encoder) \in Nat
  <2>1. blocks \in Seq(Seq(Nat)) /\ totalLength \in Nat /\ BookmarksIn(open, blocks, totalLength)
        /\ encoder \in Seq(Octets)
    BY InvIs
  <2>2. encoder \in Seq(Nat)
    BY <2>1, BytesAreNumbers
  <2>3. Len(bytes) = Len(Joined(blocks)) + Len(encoder) /\ Len(encoder) \in Nat
    BY <2>1, <2>2, AddedLength
  <2>4. /\ flushed \in Seq(Seq(Nat)) /\ BookmarksIn(open, flushed, totalLength + Len(encoder))
        /\ BytesIn(open, blocks) => BytesIn(open, flushed)
    BY <2>1, PushBlock, Zenon
  <2>5. QED
    BY <1>1, <2>3, <2>4
<1> HIDE DEF flushed
<1>4. totalLength' \in Nat /\ encoder' \in Seq(Octets)
  BY <1>1, <1>3, InvIs, SMTT(30)
<1>5. Len(bytes) = totalLength' + Cardinality(Marked(open)) + Cardinality(Lost)
  <2> DEFINE m == Cardinality(Marked(open))
             l == Cardinality(Lost)
             p == Len(encoder)
  <2>1. /\ m \in Nat /\ l \in Nat /\ p \in Nat /\ totalLength \in Nat
        /\ Len(bytes) = (totalLength + m + l) + p /\ totalLength' = totalLength + p
    BY <1>1, <1>3, InvIs
  <2> HIDE DEF m, l, p, bytes
  <2>2. (totalLength + m + l) + p = (totalLength + p) + m + l
    BY <2>1
  <2>3. QED
    BY <2>1, <2>2, Zenon DEF m, l
<1>6. bytes \in Seq(Nat)
  BY <1>3, JoinedType
<1>7. OneBookmarkEach(open')
  BY <1>1, InvIs
<1> HIDE DEF bytes
<1>8. CASE Len(bytes) # totalLength'
  <2>1. blocks' = flushed /\ out' = None
    BY <1>1, <1>8
  <2>2. Len(Joined(blocks')) = totalLength' + Cardinality(Marked(open')) + Cardinality(Lost')
    BY <1>2, <1>5, <2>1 DEF bytes
  <2>3. Lost' = {} => BytesIn(open', blocks')
    BY <1>1, <1>2, <1>3, <2>1, InvIs
  <2>4. BookmarksIn(open', blocks', totalLength')
    BY <1>1, <1>3, <2>1
  <2>5. blocks' \in Seq(Seq(Nat))
    BY <1>3, <2>1
  <2>6. QED
    BY <1>2, <1>4, <1>7, <2>1, <2>2, <2>3, <2>4, <2>5, InvHolds
<1>9. CASE Len(bytes) = totalLength'
  <2>1. blocks' = <<bytes>> /\ out'.ok = TRUE /\ out'.bytes = bytes
    BY <1>1, <1>9
  <2>2. Cardinality(Marked(open)) = 0 /\ Cardinality(Lost) = 0
    <3> DEFINE m == Cardinality(Marked(open))
               l == Cardinality(Lost)
               t == totalLength'
    <3>1. m \in Nat /\ l \in Nat /\ t \in Nat /\ t = t + m + l
      BY <1>4, <1>5, <1>9, InvIs
    <3> HIDE DEF m, l, t
    <3>2. m = 0 /\ l = 0
      BY <3>1
    <3>3. QED
      BY <3>2 DEF m, l
  <2>3. Marked(open) = {} /\ Lost = {}
    <3>1. IsFiniteSet(Marked(open)) /\ IsFiniteSet(Lost)
      BY InvIs, MarkedIsFinite, LostIsFinite
    <3>2. QED
      BY <2>2, <3>1, FS_EmptySet
  <2>4. bytes \in Seq(Octets)
    <3>1. BytesIn(open, flushed)
      BY <1>3, <2>3, InvIs
    <3>2. ASSUME NEW b \in 1..Len(flushed) PROVE flushed[b] \in Seq(Octets)
      <4>1. flushed[b] \in Seq(Nat)
        BY <1>3
      <4>2. \A k \in 1..Len(flushed[b]) : flushed[b][k] \in Octets
        BY <2>3, <3>1, Zenon DEF BytesIn
      <4> DEFINE s == flushed[b]
      <4> HIDE DEF s
      <4>3. s \in [1..Len(s) -> Octets] /\ Len(s) \in Nat
        BY <4>1, <4>2, LenProperties DEF s
      <4>4. s \in Seq(Octets)
        BY <4>3, SeqDef
      <4>5. QED
        BY <4>4 DEF s
    <3>3. flushed \in [1..Len(flushed) -> Seq(Octets)] /\ Len(flushed) \in Nat
      BY <1>3, <3>2, LenProperties
    <3>4. flushed \in Seq(Seq(Octets))
      BY <3>3, SeqDef
    <3>5. QED
      BY <3>4, JoinedType DEF bytes
  <2>5. blocks' \in Seq(Seq(Nat)) /\ Len(blocks') = 1 /\ blocks'[1] = bytes
    BY <1>6, <2>1
  <2>6. TypeOK'
    BY <1>2, <1>4, <2>1, <2>4, <2>5 DEF TypeOK, Frame, Octets
  <2>7. BookmarksIn(open', blocks', totalLength')
    BY <1>2, <2>3 DEF BookmarksIn
  <2>8. BytesIn(open', blocks')
    <3>1. \A k \in 1..Len(bytes) : bytes[k] \in Octets
      BY <2>4, BytesAreNumbers
    <3>2. QED
      BY <2>5, <3>1 DEF BytesIn
  <2>9. Unsealed' = {} /\ Lost' = {}
    BY <1>2, <2>3 DEF Unsealed, Marked
  <2>10. NothingUnsealedIsReturned'
    BY <2>9 DEF NothingUnsealedIsReturned
  <2>11. LengthsAgree'
    <3>1. Joined(blocks') = bytes
      BY <1>6, <2>1, JoinedOne
    <3>2. Cardinality(Unsealed') = 0 /\ Cardinality(Lost') = 0
      BY <2>9, FS_EmptySet
    <3> DEFINE t == totalLength'
    <3>3. t \in Nat /\ Len(Joined(blocks')) = t
      BY <1>4, <1>9, <3>1
    <3> HIDE DEF t
    <3>4. t = t + 0 + 0
      BY <3>3
    <3>5. Len(Joined(blocks')) = totalLength' + 0 + 0
      BY <3>3, <3>4, Zenon DEF t
    <3>6. QED
      BY <3>2, <3>5, Zenon DEF LengthsAgree
  <2>12. QED
    BY <1>2, <1>7, <2>6, <2>7, <2>8, <2>10, <2>11 DEF WriterInv
<1>10. QED
  BY <1>8, <1>9

LEMMA Nothing ==
  ASSUME blocks' = <<>>, totalLength' = 0, encoder' = <<>>, open' = <<>>, out' = None, said' = <<>>
  PROVE  WriterInv'
<1>1. Marked(open') = {} /\ Lost' = {}
  BY DEF Marked, Lost
<1>2. OneBookmarkEach(open') /\ BookmarksIn(open', blocks', totalLength') /\ BytesIn(open', blocks')
  BY <1>1 DEF OneBookmarkEach, BookmarksIn, BytesIn
<1>3. Len(Joined(blocks')) = 0
  BY JoinedNone
<1>4. Len(Joined(blocks')) = totalLength' + Cardinality(Marked(open')) + Cardinality(Lost')
  BY <1>1, <1>3, FS_EmptySet
<1>5. QED
  BY <1>2, <1>4, InvHolds

LEMMA ResetStep ==
  ASSUME WriterInv, Reset
  PROVE  WriterInv'
BY Nothing DEF Reset

-----------------------------------------------------------------------------
(* The theorems. *)

LEMMA InitInv == Init => WriterInv
<1> SUFFICES ASSUME Init PROVE WriterInv
  OBVIOUS
<1>1. blocks = <<>> /\ totalLength = 0 /\ encoder = <<>> /\ open = <<>> /\ out = None /\ said = <<>>
  BY DEF Init
<1>2. Unsealed = {} /\ Marked(open) = {} /\ Lost = {}
  BY <1>1 DEF Unsealed, Marked, Lost
<1>3. out.ok = FALSE /\ out.bytes = <<>>
  BY <1>1 DEF None
<1>4. TypeOK
  BY <1>1, <1>3 DEF TypeOK
<1>5. said \in Seq(Events)
  BY <1>1
<1>6. OneBookmarkEach(open) /\ BookmarksIn(open, blocks, totalLength) /\ BytesIn(open, blocks)
  BY <1>1, <1>2 DEF OneBookmarkEach, BookmarksIn, BytesIn
<1>7. Len(Joined(blocks)) = 0
  BY <1>1, JoinedNone
<1>8. LengthsAgree
  BY <1>1, <1>2, <1>7, FS_EmptySet DEF LengthsAgree
<1>9. NothingUnsealedIsReturned
  BY <1>3 DEF NothingUnsealedIsReturned
<1>10. QED
  BY <1>4, <1>5, <1>6, <1>8, <1>9 DEF WriterInv

LEMMA StepInv == WriterInv /\ [Next]_vars => WriterInv'
<1> SUFFICES ASSUME WriterInv, [Next]_vars PROVE WriterInv'
  OBVIOUS
<1>1. ASSUME NEW v \in Ints, WriteInt32(v) PROVE WriterInv'
  BY <1>1, WriteInt32Step
<1>2. ASSUME NEW p \in Payloads, WriteUint8Array(p) PROVE WriterInv'
  BY <1>2, WriteUint8ArrayStep
<1>3. ASSUME NEW r \in Raw, WriteSerializedMessage(r) PROVE WriterInv'
  BY <1>3, WriteSerializedMessageStep
<1>4. CASE WriteMessageBegins
  BY <1>4, WriteMessageBeginsStep
<1>5. CASE WriteMessageEnds
  BY <1>5, WriteMessageEndsStep
<1>6. ASSUME NEW id \in Ints, WriteMessageSetBegins(id) PROVE WriterInv'
  BY <1>6, WriteMessageSetBeginsStep
<1>7. CASE WriteMessageSetEnds
  BY <1>7, WriteMessageSetEndsStep
<1>8. CASE WriteGroupBegins
  BY <1>8, WriteGroupBeginsStep
<1>9. CASE WriteGroupEnds
  BY <1>9, WriteGroupEndsStep
<1>10. ASSUME NEW v \in Ints, NEW w \in Ints, WritePackedInt32(<<v, w>>) PROVE WriterInv'
  BY <1>10, WritePackedInt32Step
<1>11. ASSUME NEW k \in Ints, NEW v \in Ints, WriteMapEntry(k, v) PROVE WriterInv'
  BY <1>11, WriteMapEntryStep
<1>12. ASSUME NEW level \in 0..Len(open), CallbackThrows(level) PROVE WriterInv'
  BY <1>12, CallbackThrowsStep
<1>13. ASSUME NEW level \in 0..Len(open), WriteInt32Throws(level) PROVE WriterInv'
  BY <1>13, WriteInt32ThrowsStep
<1>14. ASSUME NEW level \in 0..Len(open), NEW v \in Ints, WritePackedInt32Throws(v, level)
       PROVE WriterInv'
  BY <1>14, WritePackedInt32ThrowsStep
<1>15. CASE GetResultBuffer
  BY <1>15, GetResultBufferStep
<1>16. CASE Reset
  BY <1>16, ResetStep
<1>17. CASE UNCHANGED vars
  <2>1. UNCHANGED <<blocks, totalLength, encoder, open, out, said>>
    BY <1>17 DEF vars
  <2>2. TypeOK' /\ LengthsAgree' /\ NothingUnsealedIsReturned' /\ Lost' = Lost
    BY <2>1 DEF WriterInv, TypeOK, LengthsAgree, NothingUnsealedIsReturned, Unsealed, Lost
  <2>3. QED
    BY <2>1, <2>2 DEF WriterInv
<1>18. QED
  BY <1>1, <1>2, <1>3, <1>4, <1>5, <1>6, <1>7, <1>8, <1>9, <1>10, <1>11, <1>12, <1>13, <1>14,
     <1>15, <1>16, <1>17 DEF Next

LEMMA Invariance == Spec => []WriterInv
BY InitInv, StepInv, PTL DEF Spec

\* The encoder holds bytes and the blocks numbers; a result is bytes, so that the note of
\* no bookmark is ever in one, whatever the field numbers, the values and the lengths.
THEOREM TypeCorrect == Spec => []TypeOK
<1>1. WriterInv => TypeOK
  BY DEF WriterInv
<1>2. QED
  BY <1>1, Invariance, PTL

\* The total noted in a bookmark is never above the present one, so that no message ends
\* with a negative length (the assertion in endDelimited_, writer.js:131).
THEOREM MessageLengthsAreNotNegative == Spec => []BookmarksIn(open, blocks, totalLength)
<1>1. WriterInv => BookmarksIn(open, blocks, totalLength)
  BY DEF WriterInv
<1>2. QED
  BY <1>1, Invariance, PTL

\* totalLength_ is the length of the blocks, but for one note in every bookmark whose
\* message has not ended, or was left by an exception.
THEOREM LengthsAlwaysAgree == Spec => []LengthsAgree
<1>1. WriterInv => LengthsAgree
  BY DEF WriterInv
<1>2. QED
  BY <1>1, Invariance, PTL

\* getResultBuffer returns nothing while a message is open, nor after an exception cut a
\* message or a packed field short.
THEOREM NothingUnsealedIsEverReturned == Spec => []NothingUnsealedIsReturned
<1>1. WriterInv => NothingUnsealedIsReturned
  BY DEF WriterInv
<1>2. QED
  BY <1>1, Invariance, PTL
=============================================================================
