------------------------------- MODULE PipeProofs ------------------------------
(***************************************************************************)
(* What holds of a stream's body for any number of readers, any sizes of   *)
(* reads, writes and chunks, and any interleaving of Read, Write, Close,   *)
(* Break and Done.                                                         *)
(***************************************************************************)
EXTENDS Pipe, SequenceTheorems, FiniteSetTheorems, WellFoundedInduction, TLAPS

(* Induction on the natural numbers, for a set.                            *)
LEMMA SetInduction ==
    ASSUME NEW S, 0 \in S, \A n \in Nat : n \in S => n + 1 \in S
    PROVE  Nat \subseteq S
<1> SUFFICES ASSUME NEW m \in Nat, m \notin S PROVE FALSE
  OBVIOUS
<1> DEFINE R == StrictSubsetOrdering(0 .. m)
           F == FiniteSubsetsOf(0 .. m)
           T == {0 .. k : k \in {j \in 0 .. m : j \notin S}}
<1>1. IsWellFoundedOn(R, F)
  BY FS_StrictSubsetOrderingWellFounded
<1>2. T \subseteq F /\ T # {}
  <2>1. \A k \in 0 .. m : 0 .. k \in SUBSET (0 .. m) /\ IsFiniteSet(0 .. k)
    BY FS_Interval
  <2> QED BY <2>1 DEF FiniteSubsetsOf
<1>3. PICK x \in T : \A y \in T : <<y, x>> \notin R
  <2> HIDE DEF R, F, T
  <2> QED BY <1>1, <1>2, WFMin
<1>4. PICK k \in 0 .. m : k \notin S /\ x = 0 .. k
  OBVIOUS
<1>5. k - 1 \in 0 .. m /\ k - 1 \notin S
  <2>1. k # 0
    BY <1>4
  <2>2. k - 1 \in Nat /\ (k - 1) + 1 = k
    BY <2>1
  <2> QED BY <1>4, <2>2
<1>6. 0 .. (k - 1) \in T
  BY <1>5
<1>7. <<0 .. (k - 1), x>> \in R
  <2>1. /\ 0 .. (k - 1) \subseteq 0 .. k /\ 0 .. (k - 1) # 0 .. k
        /\ 0 .. (k - 1) \subseteq 0 .. m /\ 0 .. k \subseteq 0 .. m
    BY <1>4, <1>5
  <2> QED BY <1>4, <2>1 DEF StrictSubsetOrdering
<1> QED BY <1>3, <1>6, <1>7

(* Concatenation is associative.                                           *)
Cat(x, y) == x \o y

LEMMA CatAssociates ==
    \A T : \A x, y, z \in Seq(T) : Cat(Cat(x, y), z) = Cat(x, Cat(y, z))
BY ConcatAssociative DEF Cat

(* F[i] is the concatenation of the first i sequences of s.                *)
Joins(F, s, n) ==
    \A i \in 1 .. n : F[i] = IF i = 1 THEN s[i] ELSE F[i - 1] \o s[i]

LEMMA JoinsExist ==
    ASSUME NEW T, NEW s \in Seq(Seq(T))
    PROVE  \E F \in [1 .. Len(s) -> Seq(T)] : Joins(F, s, Len(s))
<1> DEFINE S == {n \in Nat : n <= Len(s) => \E F \in [1 .. n -> Seq(T)] : Joins(F, s, n)}
<1>1. 0 \in S
  <2>1. PICK F : F = [i \in 1 .. 0 |-> <<>>]
    OBVIOUS
  <2>2. F \in [1 .. 0 -> Seq(T)] /\ Joins(F, s, 0)
    BY <2>1 DEF Joins
  <2> QED BY <2>2
<1>2. ASSUME NEW n \in Nat, n \in S PROVE n + 1 \in S
  <2> SUFFICES ASSUME n + 1 <= Len(s)
               PROVE  \E F \in [1 .. n + 1 -> Seq(T)] : Joins(F, s, n + 1)
    OBVIOUS
  <2>1. PICK F \in [1 .. n -> Seq(T)] : Joins(F, s, n)
    BY <1>2
  <2>2. s[n + 1] \in Seq(T) /\ n + 1 \in 1 .. n + 1
    OBVIOUS
  <2>3. PICK e \in Seq(T) : e = IF n = 0 THEN s[n + 1] ELSE F[n] \o s[n + 1]
    <3>1. n # 0 => F[n] \o s[n + 1] \in Seq(T)
      BY <2>2
    <3> QED BY <2>2, <3>1
  <2>4. PICK G : G = [i \in 1 .. n + 1 |-> IF i = n + 1 THEN e ELSE F[i]]
    OBVIOUS
  <2>5. G \in [1 .. n + 1 -> Seq(T)]
    BY <2>4
  <2>6. \A i \in 1 .. n : G[i] = F[i]
    BY <2>4
  <2>7. G[n + 1] = e
    BY <2>2, <2>4
  <2>8. ASSUME NEW i \in 1 .. n + 1
        PROVE  G[i] = IF i = 1 THEN s[i] ELSE G[i - 1] \o s[i]
    <3>1. CASE i = n + 1
      BY <2>3, <2>6, <2>7, <3>1
    <3>2. CASE i # n + 1
      <4>1. i \in 1 .. n /\ (i # 1 => i - 1 \in 1 .. n)
        BY <3>2
      <4> QED BY <2>1, <2>6, <4>1 DEF Joins
    <3> QED BY <3>1, <3>2
  <2> QED BY <2>5, <2>8 DEF Joins
<1>3. Len(s) \in S
  <2> HIDE DEF S
  <2>1. Nat \subseteq S
    BY <1>1, <1>2, SetInduction
  <2> QED BY <2>1
<1> QED BY <1>3

LEMMA JoinsUnique ==
    ASSUME NEW F, NEW G, NEW s, NEW t, NEW k \in Nat,
           Joins(F, s, k), Joins(G, t, k), \A i \in 1 .. k : s[i] = t[i]
    PROVE  \A i \in 1 .. k : F[i] = G[i]
<1> DEFINE S == {i \in Nat : i \in 1 .. k => F[i] = G[i]}
<1>1. 0 \in S
  OBVIOUS
<1>2. ASSUME NEW i \in Nat, i \in S PROVE i + 1 \in S
  <2> SUFFICES ASSUME i + 1 \in 1 .. k PROVE F[i + 1] = G[i + 1]
    OBVIOUS
  <2>1. (i + 1) - 1 = i
    OBVIOUS
  <2>2. /\ F[i + 1] = IF i + 1 = 1 THEN s[i + 1] ELSE F[i] \o s[i + 1]
        /\ G[i + 1] = IF i + 1 = 1 THEN t[i + 1] ELSE G[i] \o t[i + 1]
    BY <2>1 DEF Joins
  <2>3. i + 1 # 1 => F[i] = G[i]
    BY <1>2
  <2> QED BY <2>2, <2>3
<1>3. Nat \subseteq S
  <2> HIDE DEF S
  <2> QED BY <1>1, <1>2, SetInduction
<1> QED BY <1>3

LEMMA FlattenJoins ==
    ASSUME NEW T, NEW s \in Seq(Seq(T)), s # <<>>
    PROVE  \E F \in [1 .. Len(s) -> Seq(T)] : Joins(F, s, Len(s)) /\ FlattenSeq(s) = F[Len(s)]
<1> DEFINE Body(F) == [i \in 1 .. Len(s) |-> IF i = 1 THEN s[i] ELSE F[i - 1] \o s[i]]
           C == CHOOSE F : F = Body(F)
<1>1. PICK F \in [1 .. Len(s) -> Seq(T)] : Joins(F, s, Len(s))
  BY JoinsExist
<1>2. F = Body(F)
  BY <1>1 DEF Joins
<1>3. C = Body(C)
  BY <1>2
<1>4. FlattenSeq(s) = C[Len(s)]
  BY DEF FlattenSeq
<1>5. Joins(C, s, Len(s))
  <2> HIDE DEF C
  <2> QED BY <1>3 DEF Joins
<1>6. Len(s) \in Nat /\ Len(s) \in 1 .. Len(s)
  OBVIOUS
<1>7. C[Len(s)] = F[Len(s)]
  <2> HIDE DEF C
  <2>1. PICK n \in Nat : n = Len(s)
    BY <1>6
  <2>2. \A i \in 1 .. n : s[i] = s[i]
    OBVIOUS
  <2>3. Joins(C, s, n) /\ Joins(F, s, n)
    BY <1>1, <1>5, <2>1, Zenon
  <2>4. \A i \in 1 .. n : C[i] = F[i]
    BY <2>2, <2>3, JoinsUnique
  <2> QED BY <1>6, <2>1, <2>4, Zenon
<1> QED BY <1>1, <1>4, <1>7

LEMMA FlattenEmpty ==
    FlattenSeq(<<>>) = <<>>
BY DEF FlattenSeq

LEMMA FlattenTyped ==
    ASSUME NEW T, NEW s \in Seq(Seq(T))
    PROVE  FlattenSeq(s) \in Seq(T) /\ FlattenSeq(<<>>) = <<>>
<1>1. FlattenSeq(<<>>) = <<>>
  BY DEF FlattenSeq
<1>2. CASE s = <<>>
  <2>1. <<>> \in Seq(T)
    OBVIOUS
  <2> QED BY <1>1, <1>2, <2>1, Zenon
<1>3. CASE s # <<>>
  <2>1. PICK F \in [1 .. Len(s) -> Seq(T)] : FlattenSeq(s) = F[Len(s)]
    BY <1>3, FlattenJoins
  <2>2. F[Len(s)] \in Seq(T)
    <3>1. Len(s) \in 1 .. Len(s)
      BY <1>3
    <3> QED BY <3>1
  <2> QED BY <1>1, <2>1, <2>2, Zenon
<1> QED BY <1>2, <1>3

LEMMA FlattenAppend ==
    ASSUME NEW T, NEW s \in Seq(Seq(T)), NEW c \in Seq(T)
    PROVE  FlattenSeq(Append(s, c)) = FlattenSeq(s) \o c
<1>1. PICK t : t = Append(s, c)
  OBVIOUS
<1>2. /\ t \in Seq(Seq(T)) /\ t # <<>> /\ Len(t) = Len(s) + 1 /\ Len(s) \in Nat
      /\ t[Len(s) + 1] = c /\ \A i \in 1 .. Len(s) : s[i] = t[i]
  BY <1>1
<1>3. PICK G \in [1 .. Len(t) -> Seq(T)] : Joins(G, t, Len(t)) /\ FlattenSeq(t) = G[Len(t)]
  BY <1>2, FlattenJoins
<1>4. Len(t) \in 1 .. Len(t) /\ Len(t) \in Nat
  BY <1>2
<1>5. G[Len(t)] = IF Len(t) = 1 THEN t[Len(t)] ELSE G[Len(t) - 1] \o t[Len(t)]
  BY <1>3, <1>4 DEF Joins
<1>6. CASE s = <<>>
  <2>1. FlattenSeq(s) = <<>> /\ FlattenSeq(t) = c
    BY <1>2, <1>3, <1>5, <1>6, FlattenTyped
  <2> QED BY <1>1, <2>1
<1>7. CASE s # <<>>
  <2>1. PICK F \in [1 .. Len(s) -> Seq(T)] : Joins(F, s, Len(s)) /\ FlattenSeq(s) = F[Len(s)]
    BY <1>7, FlattenJoins
  <2>2. Len(s) \in 1 .. Len(s) /\ Len(s) <= Len(t) /\ Len(s) <= Len(s)
    BY <1>2, <1>7
  <2>3. F[Len(s)] = G[Len(s)]
    <3>1. PICK m, n \in Nat : m = Len(s) /\ n = Len(t)
      BY <1>2, <1>4
    <3>2. m \in 1 .. m /\ \A i \in 1 .. m : i \in 1 .. n
      BY <2>2, <3>1
    <3>3. Joins(F, s, m) /\ Joins(G, t, n) /\ \A i \in 1 .. m : s[i] = t[i]
      BY <1>2, <1>3, <2>1, <3>1, Zenon
    <3>5. Joins(G, t, m)
      BY <3>2, <3>3, Zenon DEF Joins
    <3>4. \A i \in 1 .. m : F[i] = G[i]
      BY <3>3, <3>5, JoinsUnique
    <3> QED BY <3>1, <3>2, <3>4, Zenon
  <2>4. Len(t) # 1 /\ Len(t) - 1 = Len(s)
    BY <1>2, <2>2
  <2> QED BY <1>1, <1>2, <1>3, <1>5, <2>1, <2>3, <2>4
<1> QED BY <1>6, <1>7

LEMMA FlattenHead ==
    ASSUME NEW T, NEW s \in Seq(Seq(T)), s # <<>>
    PROVE  FlattenSeq(s) = Head(s) \o FlattenSeq(Tail(s))
<1>1. PICK t : t = Tail(s)
  OBVIOUS
<1>2. /\ t \in Seq(Seq(T)) /\ Len(t) = Len(s) - 1 /\ Len(s) \in Nat /\ Len(t) \in Nat
      /\ \A i \in 1 .. Len(t) : t[i] = s[i + 1]
      /\ Head(s) = s[1] /\ Head(s) \in Seq(T)
  BY <1>1
<1>3. PICK F \in [1 .. Len(s) -> Seq(T)] : Joins(F, s, Len(s)) /\ FlattenSeq(s) = F[Len(s)]
  BY FlattenJoins
<1>4. F[1] = s[1]
  <2>1. 1 \in 1 .. Len(s)
    BY <1>2
  <2> QED BY <1>3, <2>1, Zenon DEF Joins
<1>5. CASE t = <<>>
  <2>1. Len(s) = 1
    BY <1>2, <1>5
  <2>2. FlattenSeq(s) = Head(s)
    BY <1>2, <1>3, <1>4, <2>1, Zenon
  <2>3. FlattenSeq(Tail(s)) = <<>>
    BY <1>1, <1>5, FlattenTyped, Zenon
  <2>4. Head(s) \o <<>> = Head(s)
    BY <1>2, ConcatEmptySeq, Zenon
  <2> QED BY <2>2, <2>3, <2>4, Zenon
<1>6. CASE t # <<>>
  <2>1. PICK G \in [1 .. Len(t) -> Seq(T)] : Joins(G, t, Len(t)) /\ FlattenSeq(t) = G[Len(t)]
    BY <1>2, <1>6, FlattenJoins
  <2> DEFINE S == {i \in Nat : i \in 1 .. Len(t) => F[i + 1] = Head(s) \o G[i]}
  <2>2. 0 \in S
    OBVIOUS
  <2>3. ASSUME NEW i \in Nat, i \in S PROVE i + 1 \in S
    <3> SUFFICES ASSUME i + 1 \in 1 .. Len(t) PROVE F[i + 2] = Head(s) \o G[i + 1]
      <4>1. i + 1 \in Nat /\ (i + 1) + 1 = i + 2
        OBVIOUS
      <4> QED BY <4>1, Zenon
    <3>1. i + 2 \in 1 .. Len(s) /\ (i + 2) - 1 = i + 1 /\ (i + 1) - 1 = i /\ i + 2 # 1
      BY <1>2
    <3>2. F[i + 2] = F[i + 1] \o s[i + 2]
      BY <1>3, <3>1 DEF Joins
    <3>3. G[i + 1] = IF i + 1 = 1 THEN t[i + 1] ELSE G[i] \o t[i + 1]
      BY <2>1, <3>1 DEF Joins
    <3>4. t[i + 1] = s[i + 2] /\ t[i + 1] \in Seq(T)
      <4>1. (i + 1) + 1 = i + 2
        OBVIOUS
      <4>2. t[i + 1] = s[i + 2]
        BY <1>2, <4>1, Zenon
      <4>3. t[i + 1] \in Seq(T)
        BY <1>2
      <4> QED BY <4>2, <4>3
    <3>5. CASE i = 0
      <4>1. i + 1 = 1
        BY <3>5
      <4> QED BY <1>2, <1>4, <3>2, <3>3, <3>4, <4>1, Zenon
    <3>6. CASE i # 0
      <4>1. i \in 1 .. Len(t) /\ G[i] \in Seq(T)
        BY <2>1, <3>6
      <4>2. F[i + 1] = Head(s) \o G[i]
        BY <2>3, <4>1
      <4>3. (Head(s) \o G[i]) \o t[i + 1] = Head(s) \o (G[i] \o t[i + 1])
        <5>1. PICK x, y, z \in Seq(T) : x = Head(s) /\ y = G[i] /\ z = t[i + 1]
          BY <1>2, <3>4, <4>1
        <5>2. (x \o y) \o z = x \o (y \o z)
          <6>1. Cat(Cat(x, y), z) = Cat(x, Cat(y, z))
            BY CatAssociates
          <6> QED BY <6>1, Zenon DEF Cat
        <5> QED BY <5>1, <5>2
      <4>4. i + 1 # 1
        BY <3>6
      <4> QED BY <3>2, <3>3, <3>4, <4>2, <4>3, <4>4, Zenon
    <3> QED BY <3>5, <3>6
  <2>4. Nat \subseteq S
    <3> HIDE DEF S
    <3> QED BY <2>2, <2>3, SetInduction
  <2>5. Len(t) \in 1 .. Len(t) /\ Len(t) + 1 = Len(s)
    BY <1>2, <1>6
  <2>6. F[Len(t) + 1] = Head(s) \o G[Len(t)]
    BY <1>2, <2>4, <2>5
  <2> QED BY <1>1, <1>3, <2>1, <2>5, <2>6
<1> QED BY <1>5, <1>6

-------------------------------------------------------------------------------
(* dataBuffer.                                                             *)
LEMMA SpanIs ==
    ASSUME NEW T, NEW F \in Seq(T), NEW r \in Nat, NEW e \in Nat, r <= e, e <= Len(F)
    PROVE  /\ SubSeq(F, r + 1, e) \in Seq(T) /\ Len(SubSeq(F, r + 1, e)) = e - r
           /\ \A j \in 1 .. e - r : SubSeq(F, r + 1, e)[j] = F[r + j]
<1>1. \A i \in r + 1 .. e : F[i] \in T
  OBVIOUS
<1>2. r + 1 \in Int /\ e \in Int /\ e - (r + 1) + 1 = e - r
  OBVIOUS
<1>3. /\ SubSeq(F, r + 1, e) \in Seq(T)
      /\ Len(SubSeq(F, r + 1, e)) = IF r + 1 <= e THEN e - (r + 1) + 1 ELSE 0
      /\ \A i \in 1 .. e - (r + 1) + 1 : SubSeq(F, r + 1, e)[i] = F[r + 1 + i - 1]
  BY <1>1, <1>2, SubSeqProperties
<1>4. \A j \in 1 .. e - r : r + 1 + j - 1 = r + j
  OBVIOUS
<1> QED BY <1>2, <1>3, <1>4

LEMMA LastChunk ==
    ASSUME NEW T, NEW c \in Seq(Seq(T)), c # <<>>
    PROVE  /\ Front(c) \in Seq(Seq(T)) /\ Len(Front(c)) = Len(c) - 1
           /\ \A i \in 1 .. Len(c) - 1 : Front(c)[i] = c[i]
           /\ Last(c) \in Seq(T) /\ c = Append(Front(c), Last(c))
           /\ FlattenSeq(c) = FlattenSeq(Front(c)) \o Last(c)
           /\ FlattenSeq(Front(c)) \in Seq(T)
<1>1. Len(c) \in Nat /\ Len(c) - 1 \in Nat /\ Len(c) \in 1 .. Len(c)
  OBVIOUS
<1>2. PICK S : S = Seq(T)
  OBVIOUS
<1>3. c \in Seq(S)
  BY <1>2
<1>4. PICK f : f = Front(c)
  OBVIOUS
<1>5. f \in Seq(S) /\ Len(f) = Len(c) - 1 /\ \A i \in 1 .. Len(c) - 1 : f[i] = c[i]
  <2>1. f = SubSeq(c, 0 + 1, Len(c) - 1)
    BY <1>4 DEF Front
  <2>2. PICK n \in Nat : n = Len(c) - 1
    BY <1>1
  <2>3. 0 <= n /\ n <= Len(c) /\ n - 0 = n /\ \A j \in 1 .. n : 0 + j = j
    BY <1>1, <2>2
  <2>4. /\ SubSeq(c, 0 + 1, n) \in Seq(S) /\ Len(SubSeq(c, 0 + 1, n)) = n - 0
        /\ \A j \in 1 .. n - 0 : SubSeq(c, 0 + 1, n)[j] = c[0 + j]
    BY <1>3, <2>3, SpanIs
  <2> QED BY <2>1, <2>2, <2>3, <2>4
<1>6. PICK l : l = Last(c)
  OBVIOUS
<1>7. l \in S /\ l = c[Len(c)]
  BY <1>1, <1>3, <1>6 DEF Last
<1>8. c = Append(f, l)
  <2>1. PICK a : a = Append(f, l)
    OBVIOUS
  <2>2. a \in Seq(S) /\ Len(a) = Len(c) /\ \A i \in 1 .. Len(c) : a[i] = c[i]
    BY <1>1, <1>5, <1>7, <2>1
  <2>3. c = a
    BY <1>3, <2>2, SeqEqual
  <2> QED BY <2>1, <2>3
<1>9. FlattenSeq(c) = FlattenSeq(f) \o l
  BY <1>2, <1>5, <1>7, <1>8, FlattenAppend
<1>10. FlattenSeq(f) \in Seq(T)
  BY <1>2, <1>5, FlattenTyped
<1> QED BY <1>2, <1>4, <1>5, <1>6, <1>7, <1>8, <1>9, <1>10

Bytes == 0 .. MaxBytes

(* The read position is in the first chunk and before its end, the write   *)
(* position is in the last, and size is what lies between them.            *)
Sound(x) ==
    /\ x \in [chunks : Seq(Seq(Bytes)), r : Nat, w : Nat, size : Nat]
    /\ \A i \in 1 .. Len(x.chunks) : Len(x.chunks[i]) \in 1 .. Last(SizeClasses)
    /\ x.chunks = <<>> => x.r = 0 /\ x.size = 0
    /\ x.chunks # <<>> =>
         /\ x.r < Len(Head(x.chunks)) /\ x.w <= Len(Last(x.chunks))
         /\ x.size + x.r = Len(FlattenSeq(Front(x.chunks))) + x.w

LEMMA ContentsAre ==
    ASSUME NEW x, Sound(x)
    PROVE  /\ Contents(x) \in Seq(Bytes) /\ Len(Contents(x)) = x.size
           /\ \A j \in 1 .. x.size : Contents(x)[j] = FlattenSeq(x.chunks)[x.r + j]
<1>1. PICK c, r, w, size : c = x.chunks /\ r = x.r /\ w = x.w /\ size = x.size
  OBVIOUS
<1>2. c \in Seq(Seq(Bytes)) /\ r \in Nat /\ w \in Nat /\ size \in Nat
  BY <1>1 DEF Sound
<1>3. CASE c = <<>>
  <2>1. Contents(x) = <<>> /\ size = 0
    BY <1>1, <1>3 DEF Contents, Sound
  <2> QED BY <1>1, <2>1
<1>4. CASE c # <<>>
  <2>1. PICK P, L \in Seq(Bytes) : P = FlattenSeq(Front(c)) /\ L = Last(c)
    BY <1>2, <1>4, LastChunk
  <2>2. PICK F : F = FlattenSeq(c)
    OBVIOUS
  <2>3. F = P \o L
    BY <1>2, <1>4, <2>1, <2>2, LastChunk
  <2>4. F \in Seq(Bytes) /\ Len(F) = Len(P) + Len(L) /\ Len(P) \in Nat /\ Len(L) \in Nat
    BY <2>3
  <2>5. w <= Len(L) /\ size + r = Len(P) + w
    BY <1>1, <1>4, <2>1 DEF Sound
  <2>6. PICK e \in Nat : e = Len(P) + w
    BY <1>2, <2>4
  <2>7. r <= e /\ e <= Len(F) /\ e - r = size /\ Len(F) - Len(L) + w = e
    BY <1>2, <2>4, <2>5, <2>6
  <2>8. Contents(x) = SubSeq(F, r + 1, e)
    BY <1>1, <1>4, <2>1, <2>2, <2>7 DEF Contents
  <2>9. /\ SubSeq(F, r + 1, e) \in Seq(Bytes) /\ Len(SubSeq(F, r + 1, e)) = e - r
        /\ \A j \in 1 .. e - r : SubSeq(F, r + 1, e)[j] = F[r + j]
    <3>1. r \in Nat /\ F \in Seq(Bytes)
      BY <1>2, <2>4
    <3> QED BY <2>7, <3>1, SpanIs
  <2> QED BY <1>1, <2>2, <2>7, <2>8, <2>9
<1> QED BY <1>3, <1>4

(* Two buffers with the same bytes after their read positions.             *)
LEMMA SameContents ==
    ASSUME NEW x, NEW y, Sound(x), Sound(y), x.size = y.size,
           \A j \in 1 .. x.size : FlattenSeq(x.chunks)[x.r + j] = FlattenSeq(y.chunks)[y.r + j]
    PROVE  Contents(x) = Contents(y)
<1>1. PICK s, t, n : s = Contents(x) /\ t = Contents(y) /\ n = x.size
  OBVIOUS
<1>2. s \in Seq(Bytes) /\ Len(s) = n /\ \A j \in 1 .. n : s[j] = FlattenSeq(x.chunks)[x.r + j]
  BY <1>1, ContentsAre
<1>3. t \in Seq(Bytes) /\ Len(t) = n /\ \A j \in 1 .. n : t[j] = FlattenSeq(y.chunks)[y.r + j]
  BY <1>1, ContentsAre
<1>4. \A j \in 1 .. n : s[j] = t[j]
  BY <1>1, <1>2, <1>3, Zenon
<1>5. s = t
  BY <1>2, <1>3, <1>4, SeqEqual
<1> QED BY <1>1, <1>5

(* A set of natural numbers has a least element.                           *)
LEMMA LeastExists ==
    ASSUME NEW S, S \subseteq Nat, S # {}
    PROVE  \E m \in S : \A n \in S : m <= n
<1> SUFFICES ASSUME \A m \in S : \E n \in S : ~(m <= n) PROVE FALSE
  OBVIOUS
<1> DEFINE N == {k \in Nat : \A n \in S : k < n}
<1>1. 0 \in N
  <2>1. 0 \notin S
    OBVIOUS
  <2> QED BY <2>1
<1>2. ASSUME NEW k \in Nat, k \in N PROVE k + 1 \in N
  <2>1. k + 1 \notin S
    BY <1>2
  <2> QED BY <1>2, <2>1
<1>3. Nat \subseteq N
  <2> HIDE DEF N
  <2> QED BY <1>1, <1>2, SetInduction
<1>4. PICK n \in S : n \in Nat
  OBVIOUS
<1> QED BY <1>3, <1>4

(* getDataBufferChunk allocates at least a byte and at most the largest    *)
(* class.                                                                  *)
LEMMA ChunkFits ==
    ASSUME NEW n \in Nat
    PROVE  /\ getDataBufferChunk(n) \in Seq(Bytes)
           /\ Len(getDataBufferChunk(n)) \in 1 .. Last(SizeClasses)
           /\ Last(SizeClasses) \in Nat
<1>1. PICK N \in Nat : N = Len(SizeClasses) /\ N >= 1 /\ DOMAIN SizeClasses = 1 .. N
  BY SizeClassesAssumption
<1>2. PICK fits : fits = {c \in DOMAIN SizeClasses : n <= SizeClasses[c]}
  OBVIOUS
<1>3. PICK class : class = CHOOSE c \in fits \union {N} : \A d \in fits : c <= d
  OBVIOUS
<1>4. class \in 1 .. N
  <2>1. \E c \in fits \union {N} : \A d \in fits : c <= d
    <3>1. CASE fits = {}
      BY <3>1
    <3>2. CASE fits # {}
      <4>1. fits \subseteq Nat
        BY <1>1, <1>2
      <4> QED BY <3>2, <4>1, LeastExists
    <3> QED BY <3>1, <3>2
  <2>2. class \in fits \union {N}
    BY <1>3, <2>1
  <2> QED BY <1>1, <1>2, <2>2
<1>5. SizeClasses[class] \in 1 .. SizeClasses[N] /\ SizeClasses[N] \in Nat
  BY <1>1, <1>4, SizeClassesAssumption
<1>6. PICK s \in Nat : s = SizeClasses[class]
  BY <1>5
<1>7. getDataBufferChunk(n) = [i \in 1 .. s |-> Junk]
  BY <1>1, <1>2, <1>3, <1>6 DEF getDataBufferChunk
<1>8. [i \in 1 .. s |-> Junk] \in Seq(Bytes) /\ Len([i \in 1 .. s |-> Junk]) = s
  <2>1. Junk \in Bytes
    BY PipeAssumption DEF Junk, Bytes
  <2> QED BY <2>1
<1> QED BY <1>1, <1>5, <1>6, <1>7, <1>8 DEF Last

(* The chunks of a buffer with one more at its end.                        *)
LEMMA OneMore ==
    ASSUME NEW T, NEW c \in Seq(Seq(T)), NEW k \in Seq(T)
    PROVE  /\ Append(c, k) \in Seq(Seq(T)) /\ Append(c, k) # <<>>
           /\ Front(Append(c, k)) = c /\ Last(Append(c, k)) = k
           /\ Head(Append(c, k)) = IF c = <<>> THEN k ELSE Head(c)
           /\ Len(Append(c, k)) = Len(c) + 1
           /\ \A i \in 1 .. Len(c) + 1 : Append(c, k)[i] = IF i = Len(c) + 1 THEN k ELSE c[i]
<1>1. PICK S : S = Seq(T)
  OBVIOUS
<1>2. c \in Seq(S) /\ k \in S /\ Len(c) \in Nat
  BY <1>1
<1>3. PICK a : a = Append(c, k)
  OBVIOUS
<1>4. /\ a \in Seq(S) /\ a # <<>> /\ Len(a) = Len(c) + 1 /\ a[Len(c) + 1] = k
      /\ \A i \in 1 .. Len(c) : a[i] = c[i]
      /\ a[1] = IF c = <<>> THEN k ELSE c[1]
  BY <1>2, <1>3
<1>5. PICK f : f = Front(a)
  OBVIOUS
<1>6. f \in Seq(S) /\ Len(f) = Len(a) - 1 /\ \A i \in 1 .. Len(a) - 1 : f[i] = a[i]
  <2>1. a \in Seq(Seq(T))
    BY <1>1, <1>4
  <2> QED BY <1>1, <1>4, <1>5, <2>1, LastChunk
<1>7. f = c
  <2>1. Len(a) - 1 = Len(c)
    BY <1>2, <1>4
  <2>2. Len(f) = Len(c) /\ \A i \in 1 .. Len(f) : f[i] = c[i]
    BY <1>4, <1>6, <2>1, Zenon
  <2> QED BY <1>2, <1>6, <2>2, SeqEqual
<1>8. Last(a) = k /\ Head(a) = IF c = <<>> THEN k ELSE Head(c)
  BY <1>2, <1>4 DEF Last
<1> QED BY <1>1, <1>2, <1>3, <1>4, <1>5, <1>7, <1>8


(* What Sound says when there is a last chunk: f are the chunks before it. *)
Split(x, f, l) ==
    /\ f \in Seq(Seq(Bytes)) /\ l \in Seq(Bytes) /\ x.chunks = Append(f, l)
    /\ x.r \in Nat /\ x.w \in Nat /\ x.size \in Nat
    /\ x = [chunks |-> x.chunks, r |-> x.r, w |-> x.w, size |-> x.size]
    /\ \A i \in 1 .. Len(f) : Len(f[i]) \in 1 .. Last(SizeClasses)
    /\ Len(l) \in 1 .. Last(SizeClasses)
    /\ x.r < Len(IF f = <<>> THEN l ELSE Head(f)) /\ x.w <= Len(l)
    /\ x.size + x.r = Len(FlattenSeq(f)) + x.w

LEMMA SoundSplits ==
    ASSUME NEW x, Sound(x), x.chunks # <<>>
    PROVE  Split(x, Front(x.chunks), Last(x.chunks))
<1>1. PICK c : c = x.chunks
  OBVIOUS
<1>2. PICK f, l : f = Front(c) /\ l = Last(c)
  OBVIOUS
<1>3. c \in Seq(Seq(Bytes)) /\ c # <<>>
  BY <1>1 DEF Sound
<1>4. f \in Seq(Seq(Bytes)) /\ l \in Seq(Bytes) /\ c = Append(f, l) /\ Len(f) = Len(c) - 1
  BY <1>2, <1>3, LastChunk
<1>5. Head(c) = IF f = <<>> THEN l ELSE Head(f)
  BY <1>4, OneMore
<1>6. /\ \A i \in 1 .. Len(f) : Len(f[i]) \in 1 .. Last(SizeClasses)
      /\ Len(l) \in 1 .. Last(SizeClasses)
  <2>1. \A i \in 1 .. Len(c) : Len(c[i]) \in 1 .. Last(SizeClasses)
    BY <1>1 DEF Sound
  <2>2. Len(c) = Len(f) + 1 /\ Len(f) \in Nat
        /\ \A i \in 1 .. Len(f) + 1 : c[i] = IF i = Len(f) + 1 THEN l ELSE f[i]
    BY <1>4, OneMore
  <2>3. \A i \in 1 .. Len(f) : i \in 1 .. Len(c) /\ i \in 1 .. Len(f) + 1 /\ i # Len(f) + 1
    BY <2>2
  <2>4. Len(f) + 1 \in 1 .. Len(c) /\ Len(f) + 1 \in 1 .. Len(f) + 1
    BY <2>2
  <2> QED BY <2>1, <2>2, <2>3, <2>4, Zenon
<1>7. /\ x.r \in Nat /\ x.w \in Nat /\ x.size \in Nat
      /\ x = [chunks |-> x.chunks, r |-> x.r, w |-> x.w, size |-> x.size]
  BY DEF Sound
<1>8. x.r < Len(Head(c)) /\ x.w <= Len(l) /\ x.size + x.r = Len(FlattenSeq(f)) + x.w
  BY <1>1, <1>2, <1>3 DEF Sound
<1>9. Split(x, f, l)
  BY <1>1, <1>4, <1>5, <1>6, <1>7, <1>8, Zenon DEF Split
<1> QED BY <1>1, <1>2, <1>9

LEMMA SplitIsSound ==
    ASSUME NEW x, NEW f, NEW l, Split(x, f, l)
    PROVE  /\ Sound(x) /\ x.chunks # <<>> /\ Last(x.chunks) = l /\ Front(x.chunks) = f
           /\ FlattenSeq(x.chunks) = FlattenSeq(f) \o l
<1>1. PICK c : c = x.chunks
  OBVIOUS
<1>2. f \in Seq(Seq(Bytes)) /\ l \in Seq(Bytes) /\ c = Append(f, l)
  BY <1>1, Zenon DEF Split
<1>3. /\ c \in Seq(Seq(Bytes)) /\ c # <<>> /\ Front(c) = f /\ Last(c) = l
      /\ Head(c) = (IF f = <<>> THEN l ELSE Head(f)) /\ Len(c) = Len(f) + 1
      /\ \A i \in 1 .. Len(f) + 1 : c[i] = IF i = Len(f) + 1 THEN l ELSE f[i]
  BY <1>2, OneMore
<1>4. FlattenSeq(c) = FlattenSeq(f) \o l
  BY <1>2, FlattenAppend
<1>5. \A i \in 1 .. Len(c) : Len(c[i]) \in 1 .. Last(SizeClasses)
  <2>1. /\ \A i \in 1 .. Len(f) : Len(f[i]) \in 1 .. Last(SizeClasses)
        /\ Len(l) \in 1 .. Last(SizeClasses)
    BY Zenon DEF Split
  <2>2. Len(f) \in Nat
    BY <1>2
  <2>3. \A i \in 1 .. Len(f) + 1 : i # Len(f) + 1 => i \in 1 .. Len(f)
    BY <2>2
  <2> QED BY <1>3, <2>1, <2>3, Zenon
<1>6. x \in [chunks : Seq(Seq(Bytes)), r : Nat, w : Nat, size : Nat]
  <2>1. /\ x.r \in Nat /\ x.w \in Nat /\ x.size \in Nat
        /\ x = [chunks |-> c, r |-> x.r, w |-> x.w, size |-> x.size]
    BY <1>1, Zenon DEF Split
  <2>2. PICK S : S = Seq(Seq(Bytes))
    OBVIOUS
  <2>3. x \in [chunks : S, r : Nat, w : Nat, size : Nat]
    BY <1>3, <2>1, <2>2
  <2> QED BY <2>2, <2>3
<1>7. /\ x.r < Len(Head(c)) /\ x.w <= Len(l)
      /\ x.size + x.r = Len(FlattenSeq(f)) + x.w
  BY <1>3, Zenon DEF Split
<1>8. Sound(x)
  BY <1>1, <1>3, <1>5, <1>6, <1>7, Zenon DEF Sound
<1> QED BY <1>1, <1>3, <1>4, <1>8

(* lastChunkOrAlloc leaves the bytes alone and makes room for one more.    *)
LEMMA AllocKeeps ==
    ASSUME NEW x, Sound(x), NEW n \in Nat, NEW a, a = lastChunkOrAlloc(x, n)
    PROVE  /\ \E f, l : Split(a, f, l) /\ a.w < Len(l) /\ Last(a.chunks) = l /\ Front(a.chunks) = f
           /\ a.size = x.size /\ a.r = x.r /\ Contents(a) = Contents(x)
<1>1. CASE x.chunks # <<>> /\ x.w < Len(Last(x.chunks))
  BY <1>1, SoundSplits DEF lastChunkOrAlloc
<1>2. CASE ~(x.chunks # <<>> /\ x.w < Len(Last(x.chunks)))
  <2>1. PICK c, k : c = x.chunks /\ k = getDataBufferChunk(n)
    OBVIOUS
  <2>2. /\ c \in Seq(Seq(Bytes)) /\ x.r \in Nat /\ x.w \in Nat /\ x.size \in Nat
        /\ x = [chunks |-> c, r |-> x.r, w |-> x.w, size |-> x.size]
    BY <2>1 DEF Sound
  <2>3. k \in Seq(Bytes) /\ Len(k) \in 1 .. Last(SizeClasses) /\ Last(SizeClasses) \in Nat
    BY <2>1, ChunkFits
  <2>4. a = [chunks |-> Append(c, k), r |-> x.r, w |-> 0, size |-> x.size]
    BY <1>2, <2>1, <2>2 DEF lastChunkOrAlloc
  <2>5. a.chunks = Append(c, k) /\ a.r = x.r /\ a.w = 0 /\ a.size = x.size
    BY <2>4
  <2>6. FlattenSeq(c) \in Seq(Bytes) /\ FlattenSeq(<<>>) = <<>>
    BY <2>2, FlattenTyped
  <2>7. PICK F \in Seq(Bytes) : F = FlattenSeq(c)
    BY <2>6
  <2>8. x.size + x.r = Len(F)
    <3>1. CASE c = <<>>
      <4>1. F = <<>> /\ x.size = 0 /\ x.r = 0
        BY <2>1, <2>6, <2>7, <3>1, Zenon DEF Sound
      <4>2. Len(<<>>) = 0 /\ 0 + 0 = 0
        OBVIOUS
      <4> QED BY <4>1, <4>2, Zenon
    <3>2. CASE c # <<>>
      <4>1. PICK P, L \in Seq(Bytes) : P = FlattenSeq(Front(c)) /\ L = Last(c)
        BY <2>2, <3>2, LastChunk
      <4>2. F = P \o L
        BY <2>2, <2>7, <3>2, <4>1, LastChunk
      <4>3. Len(F) = Len(P) + Len(L) /\ Len(P) \in Nat /\ Len(L) \in Nat
        BY <4>2
      <4>4. x.w <= Len(L) /\ ~(x.w < Len(L)) /\ x.size + x.r = Len(P) + x.w
        BY <1>2, <2>1, <3>2, <4>1, Zenon DEF Sound
      <4>5. PICK v, m \in Nat : v = x.w /\ m = Len(L)
        BY <2>2, <4>3
      <4>6. v = m
        BY <4>4, <4>5
      <4> QED BY <4>3, <4>4, <4>5, <4>6, Zenon
    <3> QED BY <3>1, <3>2
  <2>9. x.r < Len(IF c = <<>> THEN k ELSE Head(c))
    <3>1. CASE c = <<>>
      <4>1. x.r = 0
        BY <2>1, <3>1, Zenon DEF Sound
      <4> QED BY <2>3, <3>1, <4>1
    <3>2. CASE c # <<>>
      BY <2>1, <3>2, Zenon DEF Sound
    <3> QED BY <3>1, <3>2
  <2>10. Split(a, c, k)
    <3>1. \A i \in 1 .. Len(c) : Len(c[i]) \in 1 .. Last(SizeClasses)
      BY <2>1, Zenon DEF Sound
    <3>2. a.size + a.r = Len(FlattenSeq(c)) + a.w
      BY <2>2, <2>5, <2>7, <2>8
    <3>3. a = [chunks |-> a.chunks, r |-> a.r, w |-> a.w, size |-> a.size]
      BY <2>4, <2>5, Zenon
    <3>4. a.w <= Len(k) /\ a.w \in Nat
      BY <2>3, <2>5
    <3> QED BY <2>2, <2>3, <2>5, <2>9, <3>1, <3>2, <3>3, <3>4, Zenon DEF Split
  <2>11. /\ Sound(a) /\ FlattenSeq(a.chunks) = FlattenSeq(c) \o k
         /\ Last(a.chunks) = k /\ Front(a.chunks) = c
    BY <2>10, SplitIsSound
  <2>12. ASSUME NEW j \in 1 .. a.size
         PROVE  FlattenSeq(a.chunks)[a.r + j] = FlattenSeq(x.chunks)[x.r + j]
    <3>1. PICK G : G = FlattenSeq(a.chunks)
      OBVIOUS
    <3>2. G = F \o k
      BY <2>7, <2>11, <3>1
    <3>3. PICK i \in 1 .. Len(F) : i = x.r + j
      BY <2>2, <2>5, <2>8
    <3>4. G[i] = F[i]
      BY <2>3, <3>2
    <3> QED BY <2>1, <2>5, <2>7, <3>1, <3>3, <3>4
  <2>13. Contents(a) = Contents(x)
    BY <2>5, <2>11, <2>12, SameContents
  <2>14. a.w < Len(k)
    BY <2>3, <2>5
  <2> QED BY <2>5, <2>10, <2>11, <2>13, <2>14
<1> QED BY <1>1, <1>2


(* The elements of a concatenation.                                        *)
LEMMA Joined ==
    ASSUME NEW T, NEW x \in Seq(T), NEW y \in Seq(T)
    PROVE  /\ x \o y \in Seq(T) /\ Len(x \o y) = Len(x) + Len(y)
           /\ \A i \in 1 .. Len(x) : (x \o y)[i] = x[i]
           /\ \A i \in 1 .. Len(y) : (x \o y)[Len(x) + i] = y[i]
OBVIOUS

(* One iteration of dataBuffer.Write appends at least one byte.            *)
LEMMA WriteKeeps ==
    ASSUME NEW x, Sound(x), NEW p \in Seq(Bytes), p # <<>>
    PROVE  /\ Room(x, p) \in 1 .. Len(p) /\ Sound(WriteChunk(x, p))
           /\ Contents(WriteChunk(x, p)) = Contents(x) \o SubSeq(p, 1, Room(x, p))
<1>1. Len(p) \in Nat /\ Len(p) >= 1
  OBVIOUS
<1>2. PICK a : a = lastChunkOrAlloc(x, Len(p))
  OBVIOUS
<1>3. PICK f, l : Split(a, f, l) /\ a.w < Len(l) /\ Last(a.chunks) = l /\ Front(a.chunks) = f
  BY <1>1, <1>2, AllocKeeps
<1>4. a.size = x.size /\ a.r = x.r /\ Contents(a) = Contents(x)
  BY <1>1, <1>2, AllocKeeps
<1>5. /\ f \in Seq(Seq(Bytes)) /\ l \in Seq(Bytes)
      /\ a.r \in Nat /\ a.w \in Nat /\ a.size \in Nat
  BY <1>3, Zenon DEF Split
<1>6. PICK n : n = Room(x, p)
  OBVIOUS
<1>7. n = IF Len(l) - a.w < Len(p) THEN Len(l) - a.w ELSE Len(p)
  BY <1>2, <1>3, <1>6, Zenon DEF Room, Least
<1>8. n \in 1 .. Len(p) /\ a.w + n <= Len(l) /\ n \in Nat /\ Len(l) \in Nat
  <2>1. PICK v, m, k \in Nat : v = a.w /\ m = Len(l) /\ k = Len(p)
    BY <1>1, <1>5
  <2>2. v < m /\ k >= 1 /\ n = IF m - v < k THEN m - v ELSE k
    BY <1>1, <1>3, <1>7, <2>1, Zenon
  <2>3. n \in 1 .. k /\ v + n <= m /\ n \in Nat
    BY <2>2
  <2> QED BY <2>1, <2>3, Zenon
<1>9. PICK g : g = [i \in DOMAIN l |-> IF i \in a.w + 1 .. a.w + n THEN p[i - a.w] ELSE l[i]]
  OBVIOUS
<1>10. PICK v \in Nat : v = a.w
  BY <1>5
<1>11. v + n <= Len(l) /\ g = [i \in 1 .. Len(l) |-> IF i \in v + 1 .. v + n THEN p[i - v] ELSE l[i]]
  BY <1>5, <1>8, <1>9, <1>10
<1>12. /\ g \in Seq(Bytes) /\ Len(g) = Len(l)
       /\ \A i \in 1 .. v : g[i] = l[i]
       /\ \A i \in 1 .. n : g[v + i] = p[i]
  <2>1. \A i \in 1 .. Len(l) : g[i] = IF i \in v + 1 .. v + n THEN p[i - v] ELSE l[i]
    BY <1>11, Zenon
  <2>2. \A i \in 1 .. Len(l) : g[i] \in Bytes
    <3>1. \A i \in 1 .. Len(l) : l[i] \in Bytes
      BY <1>5
    <3>2. \A i \in v + 1 .. v + n : i - v \in 1 .. Len(p)
      BY <1>1, <1>8
    <3>3. \A i \in 1 .. Len(p) : p[i] \in Bytes
      OBVIOUS
    <3> QED BY <2>1, <3>1, <3>2, <3>3, Zenon
  <2>3. g \in [1 .. Len(l) -> Bytes]
    BY <1>11, <2>2
  <2>4. g \in Seq(Bytes) /\ Len(g) = Len(l)
    BY <1>8, <2>3
  <2>5. \A i \in 1 .. v : i \in 1 .. Len(l) /\ i \notin v + 1 .. v + n
    BY <1>8, <1>11
  <2>6. \A i \in 1 .. n : v + i \in 1 .. Len(l) /\ v + i \in v + 1 .. v + n /\ (v + i) - v = i
    BY <1>8, <1>11
  <2> QED BY <2>1, <2>4, <2>5, <2>6, Zenon
<1>13. PICK y : y = WriteChunk(x, p)
  OBVIOUS
<1>14. y = [chunks |-> Append(f, g), r |-> a.r, w |-> v + n, size |-> a.size + n]
  <2>1. a = [chunks |-> a.chunks, r |-> a.r, w |-> a.w, size |-> a.size]
    BY <1>3, Zenon DEF Split
  <2>2. y = [a EXCEPT !.chunks = Append(Front(@), g), !.w = @ + n, !.size = @ + n]
    BY <1>2, <1>3, <1>6, <1>9, <1>13, Zenon DEF WriteChunk
  <2> QED BY <1>3, <1>10, <2>1, <2>2
<1>15. y.chunks = Append(f, g) /\ y.r = a.r /\ y.w = v + n /\ y.size = a.size + n
  BY <1>14
<1>16. PICK P \in Seq(Bytes) : P = FlattenSeq(f)
  BY <1>5, FlattenTyped
<1>17. a.size + a.r = Len(P) + v /\ Len(P) \in Nat
  BY <1>3, <1>10, <1>16 DEF Split
<1>18. Split(y, f, g)
  <2>1. y.r \in Nat /\ y.w \in Nat /\ y.size \in Nat /\ y.w <= Len(g)
    BY <1>5, <1>8, <1>11, <1>12, <1>15
  <2>2. y.size + y.r = Len(P) + y.w
    <3>1. PICK A, R \in Nat : A = a.size /\ R = a.r
      BY <1>5
    <3>2. A + R = Len(P) + v /\ Len(P) \in Nat /\ n \in Nat
      BY <1>8, <1>17, <3>1
    <3>3. (A + n) + R = Len(P) + (v + n)
      BY <3>2
    <3> QED BY <1>15, <3>1, <3>3, Zenon
  <2>3. y = [chunks |-> y.chunks, r |-> y.r, w |-> y.w, size |-> y.size]
    BY <1>14, <1>15, Zenon
  <2>4. /\ \A i \in 1 .. Len(f) : Len(f[i]) \in 1 .. Last(SizeClasses)
        /\ Len(g) \in 1 .. Last(SizeClasses)
    BY <1>3, <1>12, Zenon DEF Split
  <2>5. y.r < Len(IF f = <<>> THEN g ELSE Head(f))
    <3>1. a.r < Len(IF f = <<>> THEN l ELSE Head(f))
      BY <1>3, Zenon DEF Split
    <3> QED BY <1>12, <1>15, <3>1, Zenon
  <2> QED BY <1>5, <1>12, <1>15, <1>16, <2>1, <2>2, <2>3, <2>4, <2>5, Zenon DEF Split
<1>19. Sound(y) /\ FlattenSeq(y.chunks) = P \o g
  BY <1>16, <1>18, SplitIsSound, Zenon
<1>20. Sound(a) /\ FlattenSeq(a.chunks) = P \o l
  BY <1>3, <1>16, SplitIsSound, Zenon
<1>21. PICK s, t, q : s = Contents(a) /\ t = Contents(y) /\ q = SubSeq(p, 1, n)
  OBVIOUS
<1>22. /\ s \in Seq(Bytes) /\ Len(s) = a.size
       /\ \A j \in 1 .. a.size : s[j] = (P \o l)[a.r + j]
  BY <1>20, <1>21, ContentsAre
<1>23. /\ t \in Seq(Bytes) /\ Len(t) = a.size + n
       /\ \A j \in 1 .. a.size + n : t[j] = (P \o g)[a.r + j]
  BY <1>15, <1>19, <1>21, ContentsAre
<1>24. q \in Seq(Bytes) /\ Len(q) = n /\ \A j \in 1 .. n : q[j] = p[j]
  BY <1>8, <1>21
<1>25. PICK A, R \in Nat : A = a.size /\ R = a.r
  BY <1>5
<1>26. A + R = Len(P) + v
  BY <1>17, <1>25
<1>27. \A j \in 1 .. A : t[j] = s[j]
  <2> SUFFICES ASSUME NEW j \in 1 .. A PROVE t[j] = s[j]
    OBVIOUS
  <2>1. PICK i \in 1 .. Len(P) + v : i = R + j
    BY <1>17, <1>26
  <2>2. (P \o l)[i] = (P \o g)[i]
    <3>1. CASE i <= Len(P)
      <4>1. i \in 1 .. Len(P)
        BY <1>17, <3>1
      <4>2. \A d \in 1 .. Len(P) : (P \o l)[d] = P[d] /\ (P \o g)[d] = P[d]
        BY <1>5, <1>12, Joined
      <4> QED BY <4>1, <4>2
    <3>2. CASE i > Len(P)
      <4>1. i - Len(P) \in 1 .. v /\ Len(P) + (i - Len(P)) = i
        BY <1>17, <3>2
      <4>2. \A d \in 1 .. v : d \in 1 .. Len(l) /\ d \in 1 .. Len(g)
        BY <1>8, <1>11, <1>12
      <4>3. /\ \A d \in 1 .. Len(l) : (P \o l)[Len(P) + d] = l[d]
            /\ \A d \in 1 .. Len(g) : (P \o g)[Len(P) + d] = g[d]
        BY <1>5, <1>12, Joined
      <4> QED BY <1>12, <4>1, <4>2, <4>3, Zenon
    <3>3. i <= Len(P) \/ i > Len(P)
      BY <1>17
    <3> QED BY <3>1, <3>2, <3>3, Zenon
  <2>3. j \in 1 .. A + n
    BY <1>8
  <2> QED BY <1>22, <1>23, <1>25, <2>1, <2>2, <2>3, Zenon
<1>28. \A j \in 1 .. n : t[A + j] = q[j]
  <2> SUFFICES ASSUME NEW j \in 1 .. n PROVE t[A + j] = q[j]
    OBVIOUS
  <2>1. A + j \in 1 .. A + n /\ R + (A + j) = Len(P) + (v + j) /\ v + j \in 1 .. Len(g)
    <3>1. PICK m, k \in Nat : m = Len(P) /\ k = Len(g)
      BY <1>8, <1>12, <1>17
    <3>2. A + R = m + v /\ v + n <= k /\ n \in Nat
      BY <1>8, <1>11, <1>12, <1>26, <3>1
    <3>3. A + j \in 1 .. A + n /\ R + (A + j) = m + (v + j) /\ v + j \in 1 .. k
      BY <3>2
    <3> QED BY <3>1, <3>3, Zenon
  <2>2. t[A + j] = (P \o g)[Len(P) + (v + j)]
    BY <1>23, <1>25, <2>1, Zenon
  <2>3. (P \o g)[Len(P) + (v + j)] = g[v + j]
    <3>1. PICK i \in 1 .. Len(g) : i = v + j
      BY <2>1
    <3>2. (P \o g)[Len(P) + i] = g[i]
      BY <1>12, <1>17
    <3> QED BY <3>1, <3>2
  <2> QED BY <1>12, <1>24, <2>2, <2>3, Zenon
<1>29. t = s \o q
  <2>1. PICK u : u = s \o q
    OBVIOUS
  <2>2. Len(s) = A /\ Len(q) = n /\ Len(t) = A + n
    BY <1>22, <1>23, <1>24, <1>25
  <2>3. /\ u \in Seq(Bytes) /\ Len(u) = A + n
        /\ \A i \in 1 .. A : u[i] = s[i]
        /\ \A i \in 1 .. n : u[A + i] = q[i]
    <3>1. s \in Seq(Bytes) /\ q \in Seq(Bytes)
      BY <1>22, <1>24
    <3>2. /\ s \o q \in Seq(Bytes) /\ Len(s \o q) = Len(s) + Len(q)
          /\ \A i \in 1 .. Len(s) : (s \o q)[i] = s[i]
          /\ \A i \in 1 .. Len(q) : (s \o q)[Len(s) + i] = q[i]
      BY <3>1, Joined
    <3> QED BY <2>1, <2>2, <3>2, Zenon
  <2>4. \A i \in 1 .. A + n : u[i] = t[i]
    <3> SUFFICES ASSUME NEW i \in 1 .. A + n PROVE u[i] = t[i]
      OBVIOUS
    <3>1. CASE i <= A
      <4>1. i \in 1 .. A
        BY <3>1
      <4> QED BY <1>27, <2>3, <3>1, <4>1, Zenon
    <3>2. CASE ~(i <= A)
      <4>1. i - A \in 1 .. n /\ A + (i - A) = i
        BY <1>8, <3>2
      <4> QED BY <1>28, <2>3, <3>2, <4>1, Zenon
    <3> QED BY <3>1, <3>2
  <2>5. t = u
    BY <1>23, <2>2, <2>3, <2>4, SeqEqual
  <2> QED BY <2>1, <2>5
<1> QED BY <1>4, <1>6, <1>8, <1>13, <1>19, <1>21, <1>29, Zenon


(* The first chunk of a buffer with something to read.                     *)
LEMMA FirstChunk ==
    ASSUME NEW x, Sound(x), x.size > 0
    PROVE  /\ x.chunks # <<>> /\ bytesFromFirstChunk(x) \in Seq(Bytes)
           /\ Len(bytesFromFirstChunk(x)) \in 1 .. x.size
           /\ x.r + Len(bytesFromFirstChunk(x)) <= Len(Head(x.chunks))
           /\ \A j \in 1 .. Len(bytesFromFirstChunk(x)) : bytesFromFirstChunk(x)[j] = Contents(x)[j]
           /\ Len(x.chunks) = 1 => Len(bytesFromFirstChunk(x)) = x.size
<1>1. PICK c, r, w, size : c = x.chunks /\ r = x.r /\ w = x.w /\ size = x.size
  OBVIOUS
<1>2. c # <<>> /\ r \in Nat /\ w \in Nat /\ size \in Nat /\ size > 0
  <2>1. r \in Nat /\ w \in Nat /\ size \in Nat
    BY <1>1 DEF Sound
  <2>2. c = <<>> => size = 0
    BY <1>1, Zenon DEF Sound
  <2>3. size # 0 /\ size > 0
    BY <1>1, <2>1
  <2> QED BY <2>1, <2>2, <2>3, Zenon
<1>3. PICK f, l : f = Front(c) /\ l = Last(c)
  OBVIOUS
<1>4. Split(x, f, l)
  BY <1>1, <1>2, <1>3, SoundSplits
<1>5. f \in Seq(Seq(Bytes)) /\ l \in Seq(Bytes) /\ c = Append(f, l)
  BY <1>1, <1>4, Zenon DEF Split
<1>6. PICK h, e : h = Head(c) /\ e = IF Len(c) = 1 THEN w ELSE Len(h)
  OBVIOUS
<1>7. h = (IF f = <<>> THEN l ELSE Head(f)) /\ Len(c) = Len(f) + 1
  BY <1>5, <1>6, OneMore
<1>8. h \in Seq(Bytes) /\ Len(h) \in Nat /\ (Len(c) = 1 <=> f = <<>>)
  BY <1>5, <1>7
<1>9. PICK P \in Seq(Bytes) : P = FlattenSeq(f)
  BY <1>5, FlattenTyped
<1>10. size + r = Len(P) + w /\ w <= Len(l) /\ r < Len(h) /\ Len(P) \in Nat
  BY <1>1, <1>4, <1>7, <1>9 DEF Split
<1>11. e \in Nat /\ e <= Len(h) /\ r <= e /\ e - r \in 1 .. size /\ (Len(c) = 1 => e - r = size)
  <2>1. CASE f = <<>>
    <3>1. Len(P) = 0
      <4>1. P = <<>>
        BY <1>9, <2>1, FlattenEmpty, Zenon
      <4> QED BY <4>1
    <3>2. e = w /\ h = l
      BY <1>6, <1>7, <1>8, <2>1, Zenon
    <3>3. size + r = w /\ w <= Len(h)
      BY <1>2, <1>10, <3>1, <3>2
    <3> QED BY <1>2, <1>8, <3>2, <3>3
  <2>2. CASE f # <<>>
    <3>1. e = Len(h) /\ Len(c) # 1 /\ h = Head(f)
      BY <1>6, <1>7, <1>8, <2>2, Zenon
    <3>2. FlattenSeq(Tail(f)) \in Seq(Bytes)
      <4>1. Tail(f) \in Seq(Seq(Bytes))
        BY <1>5, <2>2
      <4> QED BY <4>1, FlattenTyped
    <3>3. PICK Q \in Seq(Bytes) : Q = FlattenSeq(Tail(f))
      BY <3>2
    <3>4. P = h \o Q
      BY <1>5, <1>9, <2>2, <3>1, <3>3, FlattenHead
    <3>5. Len(P) = Len(h) + Len(Q) /\ Len(Q) \in Nat
      BY <1>8, <3>4, Joined
    <3>6. PICK m, k \in Nat : m = Len(h) /\ k = Len(Q)
      BY <1>8, <3>5
    <3>7. size + r = (m + k) + w /\ r < m
      BY <1>10, <3>5, <3>6, Zenon
    <3>8. m \in Nat /\ m <= m /\ r <= m /\ m - r \in 1 .. size
      BY <1>2, <3>7
    <3> QED BY <3>1, <3>6, <3>8, Zenon
  <2> QED BY <2>1, <2>2
<1>12. PICK B : B = bytesFromFirstChunk(x)
  OBVIOUS
<1>13. B = SubSeq(h, r + 1, e)
  BY <1>1, <1>6, <1>12, Zenon DEF bytesFromFirstChunk
<1>14. B \in Seq(Bytes) /\ Len(B) = e - r /\ \A j \in 1 .. e - r : B[j] = h[r + j]
  <2>1. r \in Nat /\ e \in Nat /\ r <= e /\ e <= Len(h) /\ h \in Seq(Bytes)
    BY <1>2, <1>8, <1>11
  <2> QED BY <1>13, <2>1, SpanIs
<1>15. r + Len(B) <= Len(h)
  BY <1>2, <1>8, <1>11, <1>14
<1>16. ASSUME NEW j \in 1 .. Len(B) PROVE B[j] = Contents(x)[j]
  <2>1. j \in 1 .. e - r /\ j \in 1 .. size
    BY <1>2, <1>11, <1>14
  <2>2. Contents(x)[j] = FlattenSeq(c)[r + j]
    BY <1>1, <2>1, ContentsAre
  <2>3. FlattenSeq(c)[r + j] = h[r + j]
    <3>1. Tail(c) \in Seq(Seq(Bytes)) /\ c \in Seq(Seq(Bytes))
      BY <1>2, <1>5
    <3>2. PICK Q \in Seq(Bytes) : Q = FlattenSeq(Tail(c))
      BY <3>1, FlattenTyped
    <3>3. FlattenSeq(c) = h \o Q
      BY <1>2, <1>6, <3>1, <3>2, FlattenHead
    <3>4. PICK i \in 1 .. Len(h) : i = r + j
      BY <1>2, <1>8, <1>11, <2>1
    <3>5. (h \o Q)[i] = h[i]
      BY <1>8, Joined
    <3> QED BY <3>3, <3>4, <3>5, Zenon
  <2> QED BY <1>14, <2>1, <2>2, <2>3, Zenon
<1>17. Len(B) \in 1 .. size /\ (Len(c) = 1 => Len(B) = size)
  BY <1>11, <1>14, Zenon
<1> QED BY <1>1, <1>2, <1>6, <1>12, <1>14, <1>15, <1>16, <1>17, Zenon

(* The bytes that one iteration of dataBuffer.Read copies.                 *)
LEMMA ReadTakes ==
    ASSUME NEW x, Sound(x), x.size > 0, NEW n \in Nat, n > 0
    PROVE  Len(SubSeq(bytesFromFirstChunk(x), 1, Readable(x, n))) = Readable(x, n)
<1>1. PICK B \in Seq(Bytes) : B = bytesFromFirstChunk(x)
  BY FirstChunk
<1>2. Len(B) \in Nat
  OBVIOUS
<1>3. PICK k : k = Readable(x, n)
  OBVIOUS
<1>4. k = IF n < Len(B) THEN n ELSE Len(B)
  BY <1>1, <1>3, Zenon DEF Readable, Least
<1>5. k \in Nat /\ k <= Len(B)
  BY <1>2, <1>4
<1>6. Len(SubSeq(B, 1, k)) = k
  BY <1>5
<1> QED BY <1>1, <1>3, <1>6

(* One iteration of dataBuffer.Read takes the first bytes, at least one.   *)
LEMMA ReadKeeps ==
    ASSUME NEW x, Sound(x), x.size > 0, NEW n \in Nat, n > 0
    PROVE  /\ Readable(x, n) \in 1 .. n /\ Readable(x, n) <= x.size
           /\ Sound(ReadChunk(x, n)) /\ ReadChunk(x, n).size = x.size - Readable(x, n)
           /\ SubSeq(bytesFromFirstChunk(x), 1, Readable(x, n)) \in Seq(Bytes)
           /\ Contents(x) = SubSeq(bytesFromFirstChunk(x), 1, Readable(x, n))
                              \o Contents(ReadChunk(x, n))
<1>1. PICK c, r, w, size : c = x.chunks /\ r = x.r /\ w = x.w /\ size = x.size
  OBVIOUS
<1>2. PICK h, B : h = Head(c) /\ B = bytesFromFirstChunk(x)
  OBVIOUS
<1>3. /\ c # <<>> /\ B \in Seq(Bytes) /\ Len(B) \in 1 .. size /\ r + Len(B) <= Len(h)
      /\ \A j \in 1 .. Len(B) : B[j] = Contents(x)[j]
      /\ Len(c) = 1 => Len(B) = size
  BY <1>1, <1>2, FirstChunk, Zenon
<1>4. PICK f, l : f = Front(c) /\ l = Last(c)
  OBVIOUS
<1>5. Split(x, f, l)
  BY <1>1, <1>3, <1>4, SoundSplits
<1>6. /\ f \in Seq(Seq(Bytes)) /\ l \in Seq(Bytes) /\ c = Append(f, l)
      /\ r \in Nat /\ w \in Nat /\ size \in Nat
      /\ x = [chunks |-> c, r |-> r, w |-> w, size |-> size]
  BY <1>1, <1>5, Zenon DEF Split
<1>7. h = (IF f = <<>> THEN l ELSE Head(f)) /\ Len(c) = Len(f) + 1 /\ c \in Seq(Seq(Bytes))
  BY <1>2, <1>6, OneMore
<1>8. h \in Seq(Bytes) /\ Len(h) \in Nat /\ (Len(c) = 1 <=> f = <<>>)
  BY <1>6, <1>7
<1>9. PICK P \in Seq(Bytes) : P = FlattenSeq(f)
  BY <1>6, FlattenTyped
<1>10. /\ size + r = Len(P) + w /\ w <= Len(l) /\ r < Len(h) /\ Len(P) \in Nat
       /\ \A i \in 1 .. Len(f) : Len(f[i]) \in 1 .. Last(SizeClasses)
       /\ Len(l) \in 1 .. Last(SizeClasses)
  BY <1>1, <1>5, <1>7, <1>9 DEF Split
<1>11. PICK k : k = Readable(x, n)
  OBVIOUS
<1>12. k \in 1 .. n /\ k \in 1 .. Len(B) /\ k <= size /\ r + k <= Len(h) /\ k \in Nat
  <2>1. k = IF n < Len(B) THEN n ELSE Len(B)
    BY <1>2, <1>11, Zenon DEF Readable, Least
  <2>2. Len(B) \in Nat /\ Len(B) >= 1 /\ Len(B) <= size
    BY <1>3, <1>6
  <2> QED BY <1>3, <1>6, <1>8, <2>1, <2>2
<1>13. PICK y : y = ReadChunk(x, n)
  OBVIOUS
<1>14. PICK F : F = FlattenSeq(c)
  OBVIOUS
<1>15. /\ Sound(y) /\ y.size = size - k
       /\ \A i \in 1 .. size - k : FlattenSeq(y.chunks)[y.r + i] = F[r + (k + i)]
  <2>1. CASE r + k # Len(h)
    <3>1. y = [chunks |-> c, r |-> r + k, w |-> w, size |-> size - k]
      BY <1>1, <1>2, <1>6, <1>11, <1>13, <2>1 DEF ReadChunk, release
    <3>2. y.chunks = c /\ y.r = r + k /\ y.w = w /\ y.size = size - k
      BY <3>1
    <3>3. Split(y, f, l)
      <4>1. y = [chunks |-> y.chunks, r |-> y.r, w |-> y.w, size |-> y.size]
        BY <3>1, <3>2, Zenon
      <4>2. y.r \in Nat /\ y.size \in Nat /\ y.r < Len(h)
        BY <1>6, <1>8, <1>12, <2>1, <3>2
      <4>3. y.size + y.r = Len(P) + w
        <5>1. (size - k) + (r + k) = size + r
          BY <1>6, <1>12
        <5> QED BY <1>10, <3>2, <5>1, Zenon
      <4> QED BY <1>6, <1>7, <1>9, <1>10, <3>2, <4>1, <4>2, <4>3, Zenon DEF Split
    <3>4. \A i \in 1 .. size - k : (r + k) + i = r + (k + i)
      BY <1>6, <1>12
    <3>5. Sound(y)
      BY <3>3, SplitIsSound
    <3> QED BY <1>14, <3>2, <3>4, <3>5, Zenon
  <2>2. CASE r + k = Len(h)
    <3>1. y = [chunks |-> Tail(c), r |-> 0, w |-> w, size |-> size - k]
      BY <1>1, <1>2, <1>6, <1>11, <1>13, <2>2 DEF ReadChunk, release
    <3>2. y.chunks = Tail(c) /\ y.r = 0 /\ y.w = w /\ y.size = size - k
      BY <3>1
    <3>3. Tail(c) \in Seq(Seq(Bytes))
      BY <1>3, <1>7
    <3>4. PICK Q \in Seq(Bytes) : Q = FlattenSeq(Tail(c))
      BY <3>3, FlattenTyped
    <3>5. F = h \o Q
      BY <1>2, <1>3, <1>7, <1>14, <3>4, FlattenHead
    <3>6. Sound(y)
      <4>1. CASE f = <<>>
        <5>1. Len(c) = 1 /\ h = l
          BY <1>7, <1>8, <4>1
        <5>2. size - k = 0
          <6>1. Len(B) = size
            BY <1>3, <5>1
          <6>2. size <= k
            BY <1>3, <1>6, <1>8, <1>12, <2>2, <6>1
          <6> QED BY <1>6, <1>12, <6>2
        <5>3. Tail(c) = <<>>
          <6>1. PICK S : S = Seq(Bytes)
            OBVIOUS
          <6>2. c \in Seq(S)
            BY <1>7, <6>1
          <6>3. Tail(c) \in Seq(S) /\ Len(Tail(c)) = 0
            BY <1>3, <5>1, <6>2
          <6>4. PICK t \in Seq(S) : t = Tail(c)
            BY <6>3
          <6>5. Len(t) = 0
            BY <6>3, <6>4, Zenon
          <6>6. t = <<>>
            BY <6>5, EmptySeq
          <6> QED BY <6>4, <6>6
        <5>4. y = [chunks |-> <<>>, r |-> 0, w |-> w, size |-> 0]
          BY <3>1, <5>2, <5>3, Zenon
        <5>5. y \in [chunks : Seq(Seq(Bytes)), r : Nat, w : Nat, size : Nat] /\ y.chunks = <<>>
              /\ y.r = 0 /\ y.size = 0
          BY <1>6, <5>4
        <5>6. \A i \in 1 .. Len(<<>>) : FALSE
          OBVIOUS
        <5> QED BY <5>5, <5>6, Zenon DEF Sound
      <4>2. CASE f # <<>>
        <5>1. PICK g : g = Tail(f)
          OBVIOUS
        <5>2. /\ g \in Seq(Seq(Bytes)) /\ Len(g) = Len(f) - 1 /\ Len(f) \in Nat
              /\ \A i \in 1 .. Len(g) : g[i] = f[i + 1]
          BY <1>6, <4>2, <5>1
        <5>3. Tail(c) = Append(g, l)
          <6>1. PICK S : S = Seq(Bytes)
            OBVIOUS
          <6>2. f \in Seq(S) /\ l \in S
            BY <1>6, <6>1
          <6>3. Tail(Append(f, l)) = Append(Tail(f), l)
            BY <4>2, <6>2
          <6> QED BY <1>6, <5>1, <6>3, Zenon
        <5>4. PICK R \in Seq(Bytes) : R = FlattenSeq(g)
          BY <5>2, FlattenTyped
        <5>5. P = h \o R
          BY <1>6, <1>7, <1>9, <4>2, <5>1, <5>4, FlattenHead
        <5>6. Len(P) = Len(h) + Len(R) /\ Len(R) \in Nat
          BY <1>8, <5>5, Joined
        <5>7. (size - k) + 0 = Len(R) + w /\ size - k \in Nat
          <6>1. PICK m, q \in Nat : m = Len(h) /\ q = Len(R)
            BY <1>8, <5>6
          <6>2. size + r = (m + q) + w /\ r + k = m /\ k <= size
            BY <1>10, <1>12, <2>2, <5>6, <6>1, Zenon
          <6>3. (size - k) + 0 = q + w /\ size - k \in Nat
            BY <1>6, <1>12, <6>2
          <6> QED BY <6>1, <6>3, Zenon
        <5>8. \A i \in 1 .. Len(g) : Len(g[i]) \in 1 .. Last(SizeClasses)
          <6>1. \A i \in 1 .. Len(g) : i + 1 \in 1 .. Len(f)
            BY <5>2
          <6> QED BY <1>10, <5>2, <6>1, Zenon
        <5>9. 0 < Len(IF g = <<>> THEN l ELSE Head(g))
          <6>1. CASE g = <<>>
            BY <1>10, <6>1
          <6>2. CASE g # <<>>
            <7>1. 1 \in 1 .. Len(g) /\ Head(g) = g[1]
              BY <5>2, <6>2
            <7>2. Len(g[1]) \in 1 .. Last(SizeClasses)
              BY <5>8, <7>1
            <7>3. 0 < Len(g[1])
              BY <7>2
            <7> QED BY <6>2, <7>1, <7>3, Zenon
          <6> QED BY <6>1, <6>2
        <5>10. Split(y, g, l)
          <6>1. y = [chunks |-> y.chunks, r |-> y.r, w |-> y.w, size |-> y.size]
            BY <3>1, <3>2, Zenon
          <6>2. 0 \in Nat
            OBVIOUS
          <6> QED BY <1>6, <1>10, <3>2, <5>2, <5>3, <5>4, <5>7, <5>8, <5>9, <6>1, <6>2, Zenon
                  DEF Split
        <5> QED BY <5>10, SplitIsSound
      <4> QED BY <4>1, <4>2
    <3>7. ASSUME NEW i \in 1 .. size - k PROVE Q[0 + i] = F[r + (k + i)]
      <4>1. Sound(y) /\ y.chunks = Tail(c)
        BY <3>2, <3>6
      <4>2. i \in 1 .. Len(Q)
        <5>1. Len(F) = Len(h) + Len(Q) /\ Len(Q) \in Nat
          BY <1>8, <3>5, Joined
        <5>2. F = P \o l
          BY <1>6, <1>9, <1>14, FlattenAppend
        <5>3. Len(F) = Len(P) + Len(l) /\ Len(l) \in Nat
          BY <1>6, <5>2, Joined
        <5>4. PICK m, q, p, d \in Nat : m = Len(h) /\ q = Len(Q) /\ p = Len(P) /\ d = Len(l)
          BY <1>8, <1>10, <5>1, <5>3
        <5>5. m + q = p + d /\ size + r = p + w /\ w <= d /\ r + k = m
          BY <1>10, <2>2, <5>1, <5>3, <5>4, Zenon
        <5>6. i \in 1 .. q
          BY <1>6, <1>12, <5>5
        <5> QED BY <5>4, <5>6
      <4>3. (h \o Q)[Len(h) + i] = Q[i]
        BY <1>8, <4>2, Joined
      <4>4. Len(h) + i = r + (k + i) /\ 0 + i = i
        <5>1. r + (k + i) = (r + k) + i /\ 0 + i = i
          BY <1>6, <1>12
        <5> QED BY <2>2, <5>1, Zenon
      <4> QED BY <3>5, <4>3, <4>4, Zenon
    <3> QED BY <3>2, <3>4, <3>6, <3>7, Zenon
  <2> QED BY <2>1, <2>2
<1>16. PICK s, t, q : s = Contents(x) /\ t = Contents(y) /\ q = SubSeq(B, 1, k)
  OBVIOUS
<1>17. s \in Seq(Bytes) /\ Len(s) = size /\ \A j \in 1 .. size : s[j] = F[r + j]
  BY <1>1, <1>14, <1>16, ContentsAre
<1>18. /\ t \in Seq(Bytes) /\ Len(t) = size - k
       /\ \A j \in 1 .. size - k : t[j] = FlattenSeq(y.chunks)[y.r + j]
  BY <1>15, <1>16, ContentsAre
<1>19. q \in Seq(Bytes) /\ Len(q) = k /\ \A j \in 1 .. k : q[j] = B[j]
  BY <1>3, <1>12, <1>16
<1>20. s = q \o t
  <2>1. PICK u : u = q \o t
    OBVIOUS
  <2>2. /\ u \in Seq(Bytes) /\ Len(u) = k + (size - k)
        /\ \A i \in 1 .. k : u[i] = q[i]
        /\ \A i \in 1 .. size - k : u[k + i] = t[i]
    <3>1. /\ q \o t \in Seq(Bytes) /\ Len(q \o t) = Len(q) + Len(t)
          /\ \A i \in 1 .. Len(q) : (q \o t)[i] = q[i]
          /\ \A i \in 1 .. Len(t) : (q \o t)[Len(q) + i] = t[i]
      BY <1>18, <1>19, Joined
    <3> QED BY <1>18, <1>19, <2>1, <3>1, Zenon
  <2>3. Len(u) = size
    BY <1>6, <1>12, <2>2
  <2>4. ASSUME NEW i \in 1 .. size PROVE u[i] = s[i]
    <3>1. CASE i <= k
      <4>1. i \in 1 .. k /\ i \in 1 .. Len(B)
        BY <1>3, <1>12, <3>1
      <4> QED BY <1>3, <1>16, <1>19, <2>2, <4>1, Zenon
    <3>2. CASE ~(i <= k)
      <4>1. i - k \in 1 .. size - k /\ k + (i - k) = i
        BY <1>6, <1>12, <3>2
      <4>2. u[i] = t[i - k]
        BY <2>2, <4>1, Zenon
      <4>3. t[i - k] = F[r + (k + (i - k))]
        BY <1>15, <1>18, <4>1, Zenon
      <4> QED BY <1>17, <4>1, <4>2, <4>3, Zenon
    <3> QED BY <3>1, <3>2
  <2>5. s = u
    BY <1>17, <2>2, <2>3, <2>4, SeqEqual
  <2> QED BY <2>1, <2>5
<1> QED BY <1>1, <1>2, <1>11, <1>12, <1>13, <1>15, <1>16, <1>19, <1>20, Zenon


-------------------------------------------------------------------------------
(* The mutex and the condition variable.                                   *)
ReaderStates == [at : Stages, room : Nat, got : Seq(Bytes), err : BOOLEAN]

Typed ==
    /\ bNil \in BOOLEAN /\ err \in BOOLEAN /\ breakErr \in BOOLEAN
    /\ donec \in {"nil", "open", "closed"}
    /\ mu \in {"free", "serve", "reader"}
    /\ rd \in [Readers -> ReaderStates]
    /\ todo \in Seq(1 .. MaxBytes) /\ written \in 0 .. MaxBytes

(* The goroutines in Wait are those that the condition variable knows.     *)
Waiting ==
    /\ waiters \in Seq(Readers)
    /\ \A r \in Readers : rd[r].at = "wait" => \E i \in 1 .. Len(waiters) : waiters[i] = r
    /\ \A i \in 1 .. Len(waiters) : rd[waiters[i]].at = "wait"
    /\ \A i, j \in 1 .. Len(waiters) : waiters[i] = waiters[j] => i = j

(* A reader that was signalled goes for the mutex; the others stay.        *)
Woken(r) == rd'[r] = rd[r] \/ (rd[r].at = "wait" /\ rd'[r] = [rd[r] EXCEPT !.at = "lock"])

LEMMA SignalWakes ==
    ASSUME rd \in [Readers -> ReaderStates], Waiting, Signal
    PROVE  /\ rd' \in [Readers -> ReaderStates] /\ Waiting'
           /\ \A r \in Readers : Woken(r)
           /\ Readers # {} => \E r \in Readers : rd'[r].at # "wait"
<1>1. CASE waiters = <<>>
  <2>1. rd' = rd /\ waiters' = waiters
    BY <1>1 DEF Signal
  <2>2. \A r \in Readers : rd[r].at # "wait"
    BY <1>1 DEF Waiting
  <2> QED BY <2>1, <2>2 DEF Waiting, Woken
<1>2. CASE waiters # <<>>
  <2>1. Head(waiters) \in Readers /\ Tail(waiters) \in Seq(Readers)
        /\ Len(Tail(waiters)) = Len(waiters) - 1 /\ Len(waiters) \in Nat
        /\ \A i \in 1 .. Len(Tail(waiters)) : Tail(waiters)[i] = waiters[i + 1]
        /\ Head(waiters) = waiters[1] /\ 1 \in 1 .. Len(waiters)
    BY <1>2 DEF Waiting
  <2>2. PICK h \in Readers : h = Head(waiters)
    BY <2>1
  <2>3. rd' = [rd EXCEPT ![h] = [rd[h] EXCEPT !.at = "lock"]] /\ waiters' = Tail(waiters)
    BY <1>2, <2>2 DEF Signal
  <2>4. /\ rd' \in [Readers -> ReaderStates]
        /\ rd'[h] = [rd[h] EXCEPT !.at = "lock"] /\ rd'[h].at = "lock"
        /\ \A r \in Readers : r # h => rd'[r] = rd[r]
    BY <2>3 DEF ReaderStates, Stages
  <2>5. rd[h].at = "wait"
    BY <2>1, <2>2 DEF Waiting
  <2>6. \A i \in 1 .. Len(waiters') : i + 1 \in 1 .. Len(waiters) /\ waiters'[i] = waiters[i + 1]
                                      /\ i + 1 # 1
    BY <2>1, <2>3
  <2>7. ASSUME NEW r \in Readers, rd'[r].at = "wait"
        PROVE  \E i \in 1 .. Len(waiters') : waiters'[i] = r
    <3>1. r # h /\ rd[r].at = "wait"
      BY <2>4, <2>7
    <3>2. PICK i \in 1 .. Len(waiters) : waiters[i] = r
      BY <3>1 DEF Waiting
    <3>3. i # 1 /\ i - 1 \in 1 .. Len(Tail(waiters)) /\ (i - 1) + 1 = i
      BY <2>1, <2>2, <3>1, <3>2
    <3> QED BY <2>1, <2>3, <3>2, <3>3
  <2>8. ASSUME NEW i \in 1 .. Len(waiters') PROVE rd'[waiters'[i]].at = "wait"
    <3>1. waiters[i + 1] # h /\ waiters[i + 1] \in Readers /\ rd[waiters[i + 1]].at = "wait"
      BY <2>1, <2>2, <2>6 DEF Waiting
    <3> QED BY <2>4, <2>6, <3>1
  <2>9. ASSUME NEW i \in 1 .. Len(waiters'), NEW j \in 1 .. Len(waiters'),
               waiters'[i] = waiters'[j]
        PROVE  i = j
    <3>1. i + 1 = j + 1
      BY <2>6, <2>9 DEF Waiting
    <3> QED BY <3>1
  <2>10. Waiting'
    BY <2>1, <2>3, <2>7, <2>8, <2>9 DEF Waiting
  <2>11. \A r \in Readers : Woken(r)
    BY <2>4, <2>5 DEF Woken
  <2> QED BY <2>4, <2>10, <2>11
<1> QED BY <1>1, <1>2


(* The bytes and the error of a Read: nothing before the copy, which one   *)
(* reader does at a time, with the mutex, and which copies something.      *)
Reads ==
    \A r \in Readers :
      /\ rd[r].at # "idle" => ~rd[r].err
      /\ rd[r].at \in {"lock", "wait"} => rd[r].got = <<>> /\ rd[r].room > 0
      /\ rd[r].at = "copy" => mu = "reader" /\ ~breakErr
                              /\ (rd[r].got # <<>> \/ (b.size > 0 /\ rd[r].room > 0))
      /\ \A s \in Readers : rd[r].at = "copy" /\ rd[s].at = "copy" => r = s

(* The buffer goes when the pipe ends, and a Write ends before that.       *)
Holding ==
    /\ todo # <<>> => mu = "serve"
    /\ mu = "serve" => ~err /\ ~breakErr
    /\ bNil => b = Empty /\ (err \/ breakErr)
    /\ breakErr => b = Empty

Inv == Typed /\ Waiting /\ Reads /\ Holding /\ Sound(b) /\ DoneTells


LEMMA EmptyIsSound ==
    Sound(Empty) /\ Contents(Empty) = <<>>
<1>1. Empty \in [chunks : Seq(Seq(Bytes)), r : Nat, w : Nat, size : Nat]
  BY DEF Empty
<1>2. Empty.chunks = <<>> /\ Empty.r = 0 /\ Empty.size = 0
  BY DEF Empty
<1>3. \A i \in 1 .. Len(<<>>) : FALSE
  OBVIOUS
<1> QED BY <1>1, <1>2, <1>3, Zenon DEF Sound, Contents

(* Reader r, which does not wait, goes to state q, which is not Wait.      *)
LEMMA OneReader ==
    ASSUME rd \in [Readers -> ReaderStates], Waiting, NEW r \in Readers, NEW q \in ReaderStates,
           rd' = [rd EXCEPT ![r] = q], waiters' = waiters, rd[r].at # "wait", q.at # "wait"
    PROVE  /\ rd' \in [Readers -> ReaderStates] /\ rd'[r] = q
           /\ \A s \in Readers : s # r => rd'[s] = rd[s]
           /\ Waiting'
<1>1. /\ rd' \in [Readers -> ReaderStates] /\ rd'[r] = q
      /\ \A s \in Readers : s # r => rd'[s] = rd[s]
  OBVIOUS
<1>2. Waiting'
  <2>1. \A i \in 1 .. Len(waiters) : waiters[i] \in Readers
    BY DEF Waiting
  <2> QED BY <1>1, <2>1, Zenon DEF Waiting
<1> QED BY <1>1, <1>2

(* A step of a reader that has the mutex free or holds it.                 *)
LEMMA ReadersKeep ==
    ASSUME Inv, NEW r \in Readers, Read(r) \/ ReaderStep(r)
    PROVE  Inv'
<1> USE DEF Inv
<1>0. rd \in [Readers -> ReaderStates] /\ Waiting
  BY DEF Typed
<1>1. PICK q0 \in ReaderStates : q0 = rd[r]
  BY <1>0
<1>2. PICK ats : ats = q0.at /\ ats \in Stages
  BY DEF ReaderStates
<1>3. CASE Read(r)
  <2>1. PICK n \in ReadSizes :
          rd' = [rd EXCEPT ![r] = [at |-> "lock", room |-> n, got |-> <<>>, err |-> FALSE]]
    BY <1>3 DEF Read
  <2>2. PICK q : q = [at |-> "lock", room |-> n, got |-> <<>>, err |-> FALSE]
    OBVIOUS
  <2>3. n \in Nat /\ n > 0
    BY PipeAssumption
  <2>4. /\ q \in ReaderStates /\ q.at = "lock" /\ ~q.err /\ q.got = <<>> /\ q.room > 0
        /\ q.at # "wait"
    BY <2>2, <2>3 DEF ReaderStates, Stages
  <2>5. rd' = [rd EXCEPT ![r] = q] /\ waiters' = waiters /\ rd[r].at # "wait"
    BY <1>3, <2>1, <2>2 DEF Read
  <2>6. /\ rd' \in [Readers -> ReaderStates] /\ rd'[r] = q
        /\ \A s \in Readers : s # r => rd'[s] = rd[s]
        /\ Waiting'
    BY <1>0, <2>4, <2>5, OneReader
  <2>7. UNCHANGED <<b, bNil, err, breakErr, donec, mu, todo, written>>
    BY <1>3 DEF Read
  <2>8. Typed' /\ DoneTells' /\ Sound(b)' /\ Holding'
    BY <2>6, <2>7 DEF Typed, DoneTells, Holding
  <2>9. Reads'
    BY <2>4, <2>6, <2>7 DEF Reads
  <2> QED BY <2>6, <2>8, <2>9
<1>4. CASE ReadBroken(r) \/ ReadEnd(r)
  <2>1. /\ rd' = [rd EXCEPT ![r].at = "idle", ![r].err = TRUE] /\ waiters' = waiters
        /\ rd[r].at = "lock" /\ mu = "free"
        /\ UNCHANGED <<err, breakErr, donec, mu, todo, written>>
    BY <1>4 DEF ReadBroken, ReadEnd, Looks
  <2>2. (b' = b /\ bNil' = bNil) \/ (b' = Empty /\ bNil' = TRUE /\ err)
    BY <1>4 DEF ReadBroken, ReadEnd
  <2>3. PICK q : q = [rd[r] EXCEPT !.at = "idle", !.err = TRUE]
    OBVIOUS
  <2>4. q \in ReaderStates /\ q.at = "idle"
    BY <1>0, <2>3 DEF ReaderStates, Stages
  <2>5. rd' = [rd EXCEPT ![r] = q]
    BY <1>0, <2>1, <2>3 DEF ReaderStates
  <2>6. /\ rd' \in [Readers -> ReaderStates] /\ rd'[r] = q
        /\ \A s \in Readers : s # r => rd'[s] = rd[s]
        /\ Waiting'
    BY <1>0, <2>1, <2>4, <2>5, OneReader
  <2>7. Sound(b)'
    BY <2>2, EmptyIsSound
  <2>8. Typed' /\ DoneTells' /\ Holding'
    <3>1. Typed'
      BY <2>1, <2>2, <2>6 DEF Typed
    <3>2. DoneTells'
      BY <2>1 DEF DoneTells
    <3>3. Holding'
      <4>1. mu' = mu /\ err' = err /\ breakErr' = breakErr /\ todo' = todo
        BY <2>1
      <4>2. CASE b' = b /\ bNil' = bNil
        BY <4>1, <4>2, Zenon DEF Holding
      <4>3. CASE b' = Empty /\ bNil' = TRUE /\ err
        BY <4>1, <4>3, Zenon DEF Holding
      <4> QED BY <2>2, <4>2, <4>3
    <3> QED BY <3>1, <3>2, <3>3
  <2>9. Reads'
    <3>1. \A s \in Readers : rd[s].at # "copy"
      BY <2>1 DEF Reads
    <3> QED BY <2>1, <2>4, <2>6, <3>1 DEF Reads
  <2> QED BY <2>6, <2>7, <2>8, <2>9
<1>5. CASE ReadData(r)
  <2>1. /\ rd' = [rd EXCEPT ![r].at = "copy"] /\ waiters' = waiters /\ mu' = "reader"
        /\ rd[r].at = "lock" /\ mu = "free" /\ ~breakErr /\ b.size > 0
        /\ UNCHANGED <<b, bNil, err, breakErr, donec, todo, written>>
    BY <1>5 DEF ReadData, Looks, HasData
  <2>3. PICK q : q = [rd[r] EXCEPT !.at = "copy"]
    OBVIOUS
  <2>4. /\ q \in ReaderStates /\ q.at = "copy" /\ q.room = rd[r].room /\ q.err = rd[r].err
    BY <1>0, <2>3 DEF ReaderStates, Stages
  <2>5. rd' = [rd EXCEPT ![r] = q]
    BY <1>0, <2>1, <2>3 DEF ReaderStates
  <2>6. /\ rd' \in [Readers -> ReaderStates] /\ rd'[r] = q
        /\ \A s \in Readers : s # r => rd'[s] = rd[s]
        /\ Waiting'
    BY <1>0, <2>1, <2>4, <2>5, OneReader
  <2>7. Typed' /\ DoneTells' /\ Holding' /\ Sound(b)'
    BY <2>1, <2>6 DEF Typed, DoneTells, Holding
  <2>8. Reads'
    <3>1. \A s \in Readers : rd[s].at # "copy"
      BY <2>1 DEF Reads
    <3> QED BY <2>1, <2>4, <2>6, <3>1 DEF Reads
  <2> QED BY <2>6, <2>7, <2>8
<1>6. CASE ReadWait(r)
  <2>1. /\ rd' = [rd EXCEPT ![r].at = "wait"] /\ waiters' = Append(waiters, r)
        /\ rd[r].at = "lock" /\ mu = "free"
        /\ UNCHANGED <<b, bNil, err, breakErr, donec, mu, todo, written>>
    BY <1>6 DEF ReadWait, Looks
  <2>3. PICK q : q = [rd[r] EXCEPT !.at = "wait"]
    OBVIOUS
  <2>4. /\ q \in ReaderStates /\ q.at = "wait" /\ q.room = rd[r].room /\ q.err = rd[r].err
        /\ q.got = rd[r].got
    BY <1>0, <2>3 DEF ReaderStates, Stages
  <2>6. /\ rd' \in [Readers -> ReaderStates] /\ rd'[r] = q
        /\ \A s \in Readers : s # r => rd'[s] = rd[s]
    BY <1>0, <2>1, <2>3, <2>4 DEF ReaderStates
  <2>7. Waiting'
    <3>1. /\ waiters' \in Seq(Readers) /\ Len(waiters') = Len(waiters) + 1 /\ Len(waiters) \in Nat
          /\ \A i \in 1 .. Len(waiters) : waiters'[i] = waiters[i] /\ waiters[i] \in Readers
          /\ waiters'[Len(waiters) + 1] = r
      BY <2>1 DEF Waiting
    <3>2. \A i \in 1 .. Len(waiters) : waiters[i] # r
      BY <2>1 DEF Waiting
    <3>3. /\ \A i \in 1 .. Len(waiters) : i \in 1 .. Len(waiters')
          /\ \A i \in 1 .. Len(waiters') : i \in 1 .. Len(waiters) \/ i = Len(waiters) + 1
          /\ Len(waiters) + 1 \in 1 .. Len(waiters')
      BY <3>1
    <3>4. \A s \in Readers : rd'[s].at = "wait" => \E i \in 1 .. Len(waiters') : waiters'[i] = s
      BY <2>6, <3>1, <3>3, Zenon DEF Waiting
    <3>5. \A i \in 1 .. Len(waiters') : rd'[waiters'[i]].at = "wait"
      <4> SUFFICES ASSUME NEW i \in 1 .. Len(waiters') PROVE rd'[waiters'[i]].at = "wait"
        OBVIOUS
      <4>1. CASE i = Len(waiters) + 1
        BY <2>4, <2>6, <3>1, <4>1
      <4>2. CASE i \in 1 .. Len(waiters)
        <5>1. /\ waiters'[i] = waiters[i] /\ waiters[i] \in Readers /\ waiters[i] # r
              /\ rd[waiters[i]].at = "wait"
          BY <3>1, <3>2, <4>2, Zenon DEF Waiting
        <5> QED BY <2>6, <5>1, Zenon
      <4> QED BY <3>3, <4>1, <4>2, Zenon
    <3>6. \A i, j \in 1 .. Len(waiters') : waiters'[i] = waiters'[j] => i = j
      <4> SUFFICES ASSUME NEW i \in 1 .. Len(waiters'), NEW j \in 1 .. Len(waiters'),
                          waiters'[i] = waiters'[j]
                   PROVE  i = j
        OBVIOUS
      <4>1. CASE i \in 1 .. Len(waiters) /\ j \in 1 .. Len(waiters)
        BY <3>1, <4>1, Zenon DEF Waiting
      <4>2. CASE i = Len(waiters) + 1 /\ j \in 1 .. Len(waiters)
        BY <3>1, <3>2, <4>2, Zenon
      <4>3. CASE i \in 1 .. Len(waiters) /\ j = Len(waiters) + 1
        BY <3>1, <3>2, <4>3, Zenon
      <4> QED BY <3>3, <4>1, <4>2, <4>3, Zenon
    <3> QED BY <3>1, <3>4, <3>5, <3>6, Zenon DEF Waiting
  <2>8. Typed' /\ DoneTells' /\ Holding' /\ Sound(b)'
    BY <2>1, <2>6 DEF Typed, DoneTells, Holding
  <2>9. Reads'
    BY <2>1, <2>4, <2>6 DEF Reads
  <2> QED BY <2>7, <2>8, <2>9
<1>7. CASE ReadCopy(r)
  <2>1. rd[r].at = "copy" /\ rd[r].room > 0 /\ b.size > 0
    BY <1>7 DEF ReadCopy
  <2>2. PICK n \in Nat : n = rd[r].room /\ n > 0
    BY <1>0, <2>1 DEF ReaderStates
  <2>3. PICK k, d : k = Readable(b, n) /\ d = SubSeq(bytesFromFirstChunk(b), 1, k)
    OBVIOUS
  <2>4. k \in 1 .. n /\ Sound(ReadChunk(b, n)) /\ d \in Seq(Bytes) /\ d # <<>>
        /\ ReadChunk(b, n).size = b.size - k
    <3>1. /\ k \in 1 .. n /\ Sound(ReadChunk(b, n)) /\ d \in Seq(Bytes)
          /\ ReadChunk(b, n).size = b.size - k
      BY <2>1, <2>2, <2>3, ReadKeeps
    <3>2. Len(d) = k
      BY <2>1, <2>2, <2>3, ReadTakes
    <3>3. d # <<>>
      BY <3>1, <3>2
    <3> QED BY <3>1, <3>3
  <2>5. /\ rd' = [rd EXCEPT ![r].room = @ - k, ![r].got = @ \o d] /\ waiters' = waiters
        /\ b' = ReadChunk(b, n)
        /\ UNCHANGED <<bNil, err, breakErr, donec, mu, todo, written>>
    BY <1>7, <2>2, <2>3 DEF ReadCopy
  <2>6. PICK q : q = [rd[r] EXCEPT !.room = @ - k, !.got = @ \o d]
    OBVIOUS
  <2>7. rd[r].got \in Seq(Bytes) /\ rd[r].got \o d \in Seq(Bytes) /\ rd[r].got \o d # <<>>
    <3>1. PICK g \in Seq(Bytes) : g = rd[r].got
      BY <1>0 DEF ReaderStates
    <3>2. g \o d \in Seq(Bytes) /\ g \o d # <<>>
      BY <2>4
    <3> QED BY <3>1, <3>2
  <2>8. n - k \in Nat
    BY <2>4
  <2>9. /\ q = [at |-> "copy", room |-> n - k, got |-> rd[r].got \o d, err |-> rd[r].err]
        /\ rd[r].err \in BOOLEAN
    BY <1>0, <2>1, <2>2, <2>6 DEF ReaderStates
  <2>10. PICK g \in Seq(Bytes) : g = rd[r].got \o d /\ g # <<>>
    BY <2>7
  <2>11. /\ q \in ReaderStates /\ q.at = "copy" /\ q.got # <<>> /\ q.err = rd[r].err
    BY <2>8, <2>9, <2>10 DEF ReaderStates, Stages
  <2>12. rd' = [rd EXCEPT ![r] = q]
    BY <1>0, <2>5, <2>6 DEF ReaderStates
  <2>13. /\ rd' \in [Readers -> ReaderStates] /\ rd'[r] = q
         /\ \A s \in Readers : s # r => rd'[s] = rd[s]
         /\ Waiting'
    BY <1>0, <2>1, <2>5, <2>11, <2>12, OneReader
  <2>14. Typed' /\ DoneTells' /\ Sound(b)'
    BY <2>4, <2>5, <2>13 DEF Typed, DoneTells
  <2>15. mu = "reader" /\ ~breakErr /\ ~bNil
    <3>1. mu = "reader" /\ ~breakErr
      BY <2>1 DEF Reads
    <3>2. b # Empty
      BY <2>1 DEF Empty
    <3> QED BY <3>1, <3>2 DEF Holding
  <2>16. Holding'
    BY <2>5, <2>15 DEF Holding
  <2>17. Reads'
    BY <2>1, <2>5, <2>11, <2>13, <2>15 DEF Reads
  <2> QED BY <2>13, <2>14, <2>16, <2>17
<1>8. CASE ReadReturn(r)
  <2>1. /\ rd' = [rd EXCEPT ![r].at = "idle"] /\ waiters' = waiters /\ mu' = "free"
        /\ rd[r].at = "copy"
        /\ UNCHANGED <<b, bNil, err, breakErr, donec, todo, written>>
    BY <1>8 DEF ReadReturn
  <2>2. mu = "reader" /\ \A s \in Readers : rd[s].at = "copy" => s = r
    BY <2>1 DEF Reads
  <2>3. PICK q : q = [rd[r] EXCEPT !.at = "idle"]
    OBVIOUS
  <2>4. q \in ReaderStates /\ q.at = "idle"
    BY <1>0, <2>3 DEF ReaderStates, Stages
  <2>5. rd' = [rd EXCEPT ![r] = q]
    BY <1>0, <2>1, <2>3 DEF ReaderStates
  <2>6. /\ rd' \in [Readers -> ReaderStates] /\ rd'[r] = q
        /\ \A s \in Readers : s # r => rd'[s] = rd[s]
        /\ Waiting'
    BY <1>0, <2>1, <2>4, <2>5, OneReader
  <2>7. Typed' /\ DoneTells' /\ Holding' /\ Sound(b)'
    BY <2>1, <2>2, <2>6 DEF Typed, DoneTells, Holding
  <2>8. Reads'
    BY <2>1, <2>2, <2>4, <2>6 DEF Reads
  <2> QED BY <2>6, <2>7, <2>8
<1> QED BY <1>3, <1>4, <1>5, <1>6, <1>7, <1>8 DEF ReaderStep


(* Typed, Waiting and Reads after a Signal.                                *)
LEMMA SignalKeeps ==
    ASSUME Inv, Signal, mu = "free" \/ mu = "serve"
    PROVE  /\ rd' \in [Readers -> ReaderStates] /\ Waiting' /\ Reads'
           /\ \A r \in Readers : Woken(r)
           /\ Readers # {} => \E r \in Readers : rd'[r].at # "wait"
<1>1. rd \in [Readers -> ReaderStates] /\ Waiting /\ Reads
  BY DEF Inv, Typed
<1>2. /\ rd' \in [Readers -> ReaderStates] /\ Waiting'
      /\ \A r \in Readers : Woken(r)
      /\ Readers # {} => \E r \in Readers : rd'[r].at # "wait"
  BY <1>1, SignalWakes
<1>3. ASSUME NEW r \in Readers
      PROVE  /\ rd'[r].at # "copy"
             /\ rd'[r].at # "idle" => ~rd'[r].err
             /\ rd'[r].at \in {"lock", "wait"} => rd'[r].got = <<>> /\ rd'[r].room > 0
  <2>1. rd[r] \in ReaderStates /\ rd[r].at # "copy"
    BY <1>1 DEF Reads
  <2>2. CASE rd'[r] = rd[r]
    BY <1>1, <2>1, <2>2, Zenon DEF Reads
  <2>3. CASE rd[r].at = "wait" /\ rd'[r] = [rd[r] EXCEPT !.at = "lock"]
    <3>1. /\ rd'[r].at = "lock" /\ rd'[r].err = rd[r].err /\ rd'[r].got = rd[r].got
          /\ rd'[r].room = rd[r].room
      BY <2>1, <2>3 DEF ReaderStates
    <3>2. ~rd[r].err /\ rd[r].got = <<>> /\ rd[r].room > 0
      BY <1>1, <2>3 DEF Reads
    <3>3. "lock" # "copy"
      OBVIOUS
    <3> QED BY <3>1, <3>2, <3>3, Zenon
  <2> QED BY <1>2, <2>2, <2>3 DEF Woken
<1>4. Reads'
  BY <1>3, Zenon DEF Reads
<1> QED BY <1>2, <1>4

(* A step of serve, or of a call of Done.                                  *)
LEMMA ServeKeeps ==
    ASSUME Inv, NEW n, WriteRefused \/ (n \in WriteSizes /\ Write(n)) \/ WriteCopy \/ WriteReturn
                       \/ CloseWithError \/ BreakWithError \/ Done
    PROVE  Inv'
<1> USE DEF Inv
<1>1. CASE WriteRefused \/ WriteReturn
  <2>1. /\ Signal /\ UNCHANGED <<b, bNil, err, breakErr, donec, todo, written>>
        /\ mu' = "free" /\ (mu = "free" \/ (mu = "serve" /\ todo = <<>>))
    BY <1>1 DEF WriteRefused, WriteReturn
  <2>2. rd' \in [Readers -> ReaderStates] /\ Waiting' /\ Reads'
    BY <2>1, SignalKeeps
  <2>3. Typed' /\ Holding' /\ Sound(b)' /\ DoneTells'
    BY <2>1, <2>2 DEF Typed, Holding, DoneTells
  <2> QED BY <2>2, <2>3
<1>2. CASE n \in WriteSizes /\ Write(n)
  <2>1. /\ mu = "free" /\ ~err /\ ~breakErr /\ written + n <= MaxBytes
        /\ todo' = [i \in 1 .. n |-> written + i] /\ written' = written + n /\ mu' = "serve"
        /\ UNCHANGED <<b, bNil, err, breakErr, donec, waiters, rd>>
    BY <1>2 DEF Write
  <2>2. n \in Nat /\ n > 0 /\ written \in Nat /\ MaxBytes \in Nat
    BY <1>2, PipeAssumption DEF Typed
  <2>3. written' \in 0 .. MaxBytes
    BY <2>1, <2>2
  <2>4. todo' \in Seq(1 .. MaxBytes)
    <3>1. \A i \in 1 .. n : written + i \in 1 .. MaxBytes
      BY <2>1, <2>2
    <3> QED BY <2>1, <2>2, <3>1
  <2>5. Typed'
    BY <2>1, <2>3, <2>4 DEF Typed
  <2>6. Waiting' /\ Sound(b)' /\ Holding' /\ DoneTells'
    BY <2>1 DEF Waiting, Holding, DoneTells
  <2>7. Reads'
    BY <2>1 DEF Reads
  <2> QED BY <2>5, <2>6, <2>7
<1>3. CASE WriteCopy
  <2>1. /\ mu = "serve" /\ todo # <<>> /\ b' = WriteChunk(b, todo)
        /\ todo' = SubSeq(todo, Room(b, todo) + 1, Len(todo))
        /\ UNCHANGED <<bNil, err, breakErr, donec, mu, waiters, rd, written>>
    BY <1>3 DEF WriteCopy
  <2>2. todo \in Seq(1 .. MaxBytes) /\ todo \in Seq(Bytes)
    <3>1. todo \in Seq(1 .. MaxBytes)
      BY DEF Typed
    <3>2. 1 .. MaxBytes \subseteq Bytes
      BY PipeAssumption DEF Bytes
    <3>3. PICK T : T = 1 .. MaxBytes
      OBVIOUS
    <3>4. todo \in Seq(Bytes)
      <4>1. todo \in Seq(T) /\ T \subseteq Bytes
        BY <3>1, <3>2, <3>3, Zenon
      <4> QED BY <4>1
    <3> QED BY <3>1, <3>4
  <2>3. Sound(b)' /\ Room(b, todo) \in 1 .. Len(todo)
    BY <2>1, <2>2, WriteKeeps
  <2>4. todo' \in Seq(1 .. MaxBytes)
    <3>1. PICK k \in 1 .. Len(todo) : k = Room(b, todo)
      BY <2>3
    <3>2. PICK T : T = 1 .. MaxBytes
      OBVIOUS
    <3>3. todo \in Seq(T) /\ k \in Nat /\ Len(todo) \in Nat /\ k <= Len(todo)
      BY <2>2, <3>2
    <3>4. SubSeq(todo, k + 1, Len(todo)) \in Seq(T)
      BY <3>3, SpanIs
    <3> QED BY <2>1, <3>1, <3>2, <3>4, Zenon
  <2>5. Typed'
    BY <2>1, <2>4 DEF Typed
  <2>6. Waiting' /\ Holding' /\ DoneTells'
    BY <2>1 DEF Waiting, Holding, DoneTells
  <2>7. Reads'
    BY <2>1 DEF Reads
  <2> QED BY <2>3, <2>5, <2>6, <2>7
<1>4. CASE CloseWithError
  <2>1. /\ mu = "free" /\ Signal /\ err' = TRUE
        /\ donec' = (IF err THEN donec ELSE IF donec = "nil" THEN donec ELSE "closed")
        /\ UNCHANGED <<b, bNil, breakErr, mu, todo, written>>
    BY <1>4 DEF CloseWithError, ClosedDone
  <2>2. rd' \in [Readers -> ReaderStates] /\ Waiting' /\ Reads'
    BY <2>1, SignalKeeps
  <2>3. Typed'
    BY <2>1, <2>2 DEF Typed
  <2>4. Holding' /\ Sound(b)'
    BY <2>1 DEF Holding
  <2>5. DoneTells'
    BY <2>1 DEF DoneTells, Typed
  <2> QED BY <2>2, <2>3, <2>4, <2>5
<1>5. CASE BreakWithError
  <2>1. /\ mu = "free" /\ Signal /\ breakErr' = TRUE
        /\ \/ breakErr /\ UNCHANGED <<b, bNil, donec>>
           \/ ~breakErr /\ bNil' = TRUE /\ b' = Empty
              /\ donec' = IF donec = "nil" THEN donec ELSE "closed"
        /\ UNCHANGED <<err, mu, todo, written>>
    BY <1>5 DEF BreakWithError, ClosedDone
  <2>2. rd' \in [Readers -> ReaderStates] /\ Waiting' /\ Reads'
    <3>1. rd' \in [Readers -> ReaderStates] /\ Waiting' /\ Reads'
      BY <2>1, SignalKeeps
    <3> QED BY <3>1
  <2>3. Typed'
    BY <2>1, <2>2 DEF Typed
  <2>4. Holding'
    <3>1. b' = Empty
      BY <2>1 DEF Holding
    <3> QED BY <2>1, <3>1 DEF Holding
  <2>5. Sound(b)'
    BY <2>1, EmptyIsSound
  <2>6. DoneTells'
    BY <2>1 DEF DoneTells, Typed
  <2> QED BY <2>2, <2>3, <2>4, <2>5, <2>6
<1>6. CASE Done
  <2>1. /\ mu = "free" /\ donec' = IF err \/ breakErr THEN "closed" ELSE "open"
        /\ UNCHANGED <<b, bNil, err, breakErr, mu, waiters, rd, todo, written>>
    BY <1>6 DEF Done, FirstDone
  <2>2. Typed' /\ Sound(b)' /\ DoneTells'
    BY <2>1 DEF Typed, DoneTells
  <2>3. Waiting' /\ Holding' /\ Reads'
    BY <2>1 DEF Waiting, Holding, Reads
  <2> QED BY <2>2, <2>3
<1> QED BY <1>1, <1>2, <1>3, <1>4, <1>5, <1>6

(* The invariant that the theorems of this module come from: types, the    *)
(* waiters, what a Read has, and where the buffer's positions are.         *)
THEOREM InvHolds == Spec => []Inv
<1>1. Init => Inv
  <2> SUFFICES ASSUME Init PROVE Inv
    OBVIOUS
  <2>1. /\ b = Empty /\ bNil = FALSE /\ err = FALSE /\ breakErr = FALSE /\ donec = "nil"
        /\ mu = "free" /\ waiters = <<>> /\ todo = <<>> /\ written = 0
        /\ rd = [r \in Readers |-> [at |-> "idle", room |-> 0, got |-> <<>>, err |-> FALSE]]
    BY DEF Init
  <2>2. rd \in [Readers -> ReaderStates] /\ \A r \in Readers : rd[r].at = "idle"
    BY <2>1 DEF ReaderStates, Stages
  <2>3. Typed
    <3>1. todo \in Seq(1 .. MaxBytes)
      BY <2>1
    <3>2. written \in 0 .. MaxBytes
      BY <2>1, PipeAssumption
    <3> QED BY <2>1, <2>2, <3>1, <3>2, Zenon DEF Typed
  <2>4. Waiting /\ Reads /\ Holding /\ DoneTells
    BY <2>1, <2>2 DEF Waiting, Reads, Holding, DoneTells
  <2> QED BY <2>1, <2>3, <2>4, EmptyIsSound DEF Inv
<1>2. Inv /\ [Next]_vars => Inv'
  <2> SUFFICES ASSUME Inv, [Next]_vars PROVE Inv'
    OBVIOUS
  <2>1. CASE UNCHANGED vars
    BY <2>1 DEF vars, Inv, Typed, Waiting, Reads, Holding, DoneTells
  <2>2. ASSUME NEW r \in Readers, Read(r) \/ ReaderStep(r) PROVE Inv'
    BY <2>2, ReadersKeep
  <2>3. ASSUME WriteRefused \/ (\E n \in WriteSizes : Write(n)) \/ WriteCopy \/ WriteReturn
               \/ CloseWithError \/ BreakWithError \/ Done
        PROVE  Inv'
    BY <2>3, ServeKeeps
  <2> QED BY <2>1, <2>2, <2>3 DEF Next
<1> QED BY <1>1, <1>2, PTL DEF Spec


-------------------------------------------------------------------------------
(* The types of pipe.go's fields, of the buffer's chunks and positions,    *)
(* and of what the readers hold.                                           *)
THEOREM TypeCorrect == Spec => []TypeOK
<1>1. Inv => TypeOK
  <2> SUFFICES ASSUME Inv PROVE TypeOK
    OBVIOUS
  <2>1. b \in [chunks : Seq(Seq(0 .. MaxBytes)), r : Nat, w : Nat, size : Nat]
    BY DEF Inv, Sound, Bytes
  <2>2. waiters \in Seq(Readers)
    BY DEF Inv, Waiting
  <2>3. rd \in [Readers -> [at : Stages, room : Nat, got : Seq(0 .. MaxBytes), err : BOOLEAN]]
    BY DEF Inv, Typed, ReaderStates, Bytes
  <2> QED BY <2>1, <2>2, <2>3 DEF Inv, Typed, TypeOK
<1> QED BY <1>1, InvHolds, PTL

(* dataBuffer.size, by which pipe.Read decides whether there is data, is   *)
(* the number of unread bytes, and a pipe that has given up its buffer     *)
(* refuses to be written: for every sequence of chunk sizes.               *)
THEOREM SizeIsExact == Spec => []BufferAccount
<1>1. Inv => BufferAccount
  <2> SUFFICES ASSUME Inv PROVE BufferAccount
    OBVIOUS
  <2>1. b.size = Len(Contents(b))
    BY ContentsAre DEF Inv
  <2>2. bNil => err \/ breakErr
    BY DEF Inv, Holding
  <2> QED BY <2>1, <2>2 DEF BufferAccount
<1> QED BY <1>1, InvHolds, PTL

(* What dataBuffer's comment says of the memory it wastes: what is read    *)
(* of the first chunk and free in the last is at most two chunks.          *)
THEOREM WasteIsBounded == Spec => []WasteBound
<1>1. Inv => WasteBound
  <2> SUFFICES ASSUME Inv PROVE WasteBound
    OBVIOUS
  <2>1. Sound(b)
    BY DEF Inv
  <2>2. PICK m \in Nat : m = Last(SizeClasses)
    <3>1. Last(SizeClasses) \in Nat
      BY ChunkFits
    <3> QED BY <3>1
  <2>3. CASE b.chunks = <<>>
    <3>1. Capacity(b) = 0
      <4>1. FlattenSeq(b.chunks) = <<>>
        BY <2>3, FlattenEmpty, Zenon
      <4> QED BY <4>1 DEF Capacity
    <3>2. b.size = 0
      BY <2>1, <2>3, Zenon DEF Sound
    <3> QED BY <2>2, <3>1, <3>2 DEF WasteBound
  <2>4. CASE b.chunks # <<>>
    <3>1. PICK f, l : f = Front(b.chunks) /\ l = Last(b.chunks)
      OBVIOUS
    <3>2. Split(b, f, l)
      BY <2>1, <2>4, <3>1, SoundSplits
    <3>3. /\ f \in Seq(Seq(Bytes)) /\ l \in Seq(Bytes)
          /\ b.r \in Nat /\ b.w \in Nat /\ b.size \in Nat
          /\ \A i \in 1 .. Len(f) : Len(f[i]) \in 1 .. m
          /\ Len(l) \in 1 .. m /\ b.w <= Len(l)
          /\ b.r < Len(IF f = <<>> THEN l ELSE Head(f))
      BY <2>2, <3>2, Zenon DEF Split
    <3>4. PICK P \in Seq(Bytes) : P = FlattenSeq(f)
      BY <3>3, FlattenTyped
    <3>5. FlattenSeq(b.chunks) = P \o l
      BY <3>2, <3>4, SplitIsSound, Zenon
    <3>6. Capacity(b) = Len(P) + Len(l) /\ Len(P) \in Nat
      BY <3>3, <3>5, Joined DEF Capacity
    <3>7. b.size + b.r = Len(P) + b.w
      BY <3>2, <3>4, Zenon DEF Split
    <3>8. b.r < m
      <4>1. CASE f = <<>>
        BY <3>3, <4>1
      <4>2. CASE f # <<>>
        <5>1. 1 \in 1 .. Len(f) /\ Head(f) = f[1]
          BY <3>3, <4>2
        <5>2. Len(Head(f)) \in 1 .. m /\ b.r < Len(Head(f))
          BY <3>3, <4>2, <5>1, Zenon
        <5>3. PICK d \in 1 .. m : d = Len(Head(f))
          BY <5>2
        <5>4. b.r \in Nat /\ b.r < d
          BY <3>3, <5>2, <5>3
        <5> QED BY <5>4
      <4> QED BY <4>1, <4>2
    <3>9. PICK r, w, size, p, d \in Nat :
            r = b.r /\ w = b.w /\ size = b.size /\ p = Len(P) /\ d = Len(l)
      BY <3>3, <3>6
    <3>10. size + r = p + w /\ w <= d /\ d <= m /\ r < m /\ Capacity(b) = p + d
      BY <3>3, <3>6, <3>7, <3>8, <3>9
    <3>11. (p + d) - size <= 2 * m
      BY <3>10
    <3> QED BY <2>2, <3>9, <3>10, <3>11, Zenon DEF WasteBound
  <2> QED BY <2>3, <2>4
<1> QED BY <1>1, InvHolds, PTL

(* p.c.Signal wakes one of the waiters and nobody waits while there is     *)
(* something to return with: for any number of goroutines in Read, they    *)
(* do not all sleep beside data, an error or the end.                      *)
THEOREM SignalIsNotLost == Spec => []NotAllAsleep
<1>1. Init => NotAllAsleep
  BY DEF Init, NotAllAsleep
<1>2. Inv /\ NotAllAsleep /\ [Next]_vars => NotAllAsleep'
  <2> SUFFICES ASSUME Inv, NotAllAsleep, [Next]_vars,
                      mu' = "free", Returnable', Readers # {}
               PROVE  \E r \in Readers : rd'[r].at # "wait"
    BY DEF NotAllAsleep
  <2>0. rd \in [Readers -> ReaderStates]
    BY DEF Inv, Typed
  <2>1. CASE UNCHANGED vars
    BY <2>1 DEF vars, NotAllAsleep, Returnable, HasData
  <2>2. ASSUME NEW r \in Readers, Read(r) \/ ReadBroken(r) \/ ReadData(r) \/ ReadEnd(r)
                                  \/ ReadReturn(r)
        PROVE  rd'[r].at # "wait"
    BY <2>0, <2>2 DEF Read, ReadBroken, ReadData, ReadEnd, ReadReturn, ReaderStates
  <2>3. ASSUME NEW r \in Readers, ReadWait(r) PROVE FALSE
    BY <2>3 DEF ReadWait, Looks, Returnable, HasData
  <2>4. ASSUME NEW r \in Readers, ReadCopy(r) PROVE FALSE
    BY <2>4 DEF ReadCopy, Inv, Reads
  <2>5. CASE WriteRefused \/ WriteReturn \/ CloseWithError \/ BreakWithError
    <3>1. Signal /\ (mu = "free" \/ mu = "serve")
      BY <2>5 DEF WriteRefused, WriteReturn, CloseWithError, BreakWithError
    <3> QED BY <3>1, SignalKeeps
  <2>6. CASE (\E n \in WriteSizes : Write(n)) \/ WriteCopy
    BY <2>6 DEF Write, WriteCopy
  <2>7. CASE Done
    BY <2>7 DEF Done, NotAllAsleep, Returnable, HasData
  <2> QED BY <2>1, <2>2, <2>3, <2>4, <2>5, <2>6, <2>7 DEF Next, ReaderStep
<1> QED BY <1>1, <1>2, InvHolds, PTL DEF Spec

(* The channel of pipe.Done is closed exactly when the pipe has ended,     *)
(* whether Done or the end came first.                                     *)
THEOREM DoneIsTold == Spec => []DoneTells
<1>1. Inv => DoneTells
  BY DEF Inv
<1> QED BY <1>1, InvHolds, PTL


-------------------------------------------------------------------------------
(* The refinement: what ByteStream's variables are.                        *)
Unread == InFlight \o Contents(b) \o todo
LastRead(q) == IF q.at = "idle" THEN [busy |-> FALSE, bytes |-> q.got, err |-> q.err]
               ELSE [busy |-> TRUE, bytes |-> <<>>, err |-> FALSE]
LastReads == [r \in Readers |-> LastRead(rd[r])]

(* InFlight is what the reader that copies has copied, if there is one.    *)
LEMMA InFlightIs ==
    ASSUME Reads
    PROVE  /\ (\A r \in Readers : rd[r].at # "copy") => InFlight = <<>>
           /\ \A r \in Readers : rd[r].at = "copy" => InFlight = rd[r].got
<1>1. PICK C : C = {r \in Readers : rd[r].at = "copy"}
  OBVIOUS
<1>2. InFlight = IF C = {} THEN <<>> ELSE rd[CHOOSE r \in C : TRUE].got
  BY <1>1 DEF InFlight
<1>3. ASSUME NEW r \in Readers, rd[r].at = "copy" PROVE InFlight = rd[r].got
  <2>1. r \in C /\ \A s \in C : s = r
    BY <1>1, <1>3 DEF Reads
  <2>2. (CHOOSE s \in C : TRUE) \in C
    BY <2>1
  <2>3. (CHOOSE s \in C : TRUE) = r
    BY <2>1, <2>2
  <2> QED BY <1>2, <2>1, <2>3, Zenon
<1>4. (\A r \in Readers : rd[r].at # "copy") => InFlight = <<>>
  BY <1>1, <1>2
<1> QED BY <1>3, <1>4

(* The unread bytes while nobody holds the mutex are those in the buffer.  *)
LEMMA UnreadIs ==
    ASSUME Inv
    PROVE  /\ Contents(b) \in Seq(Bytes) /\ todo \in Seq(Bytes) /\ InFlight \in Seq(Bytes)
           /\ mu # "reader" => InFlight = <<>> /\ Unread = Contents(b) \o todo
           /\ mu = "free" => todo = <<>> /\ Unread = Contents(b)
<1>1. Contents(b) \in Seq(Bytes)
  BY ContentsAre DEF Inv
<1>2. todo \in Seq(Bytes)
  <2>1. todo \in Seq(1 .. MaxBytes)
    BY DEF Inv, Typed
  <2>2. PICK T : T = 1 .. MaxBytes
    OBVIOUS
  <2>3. T \subseteq Bytes
    BY <2>2, PipeAssumption DEF Bytes
  <2>4. todo \in Seq(T)
    BY <2>1, <2>2, Zenon
  <2> QED BY <2>3, <2>4
<1>3. InFlight \in Seq(Bytes)
  <2>1. CASE \A r \in Readers : rd[r].at # "copy"
    <3>1. InFlight = <<>>
      BY <2>1, InFlightIs DEF Inv
    <3> QED BY <3>1
  <2>2. CASE \E r \in Readers : rd[r].at = "copy"
    <3>1. PICK r \in Readers : rd[r].at = "copy"
      BY <2>2
    <3>2. InFlight = rd[r].got
      BY <3>1, InFlightIs DEF Inv
    <3>3. rd[r].got \in Seq(Bytes)
      BY DEF Inv, Typed, ReaderStates
    <3> QED BY <3>2, <3>3, Zenon
  <2> QED BY <2>1, <2>2
<1>4. ASSUME mu # "reader" PROVE InFlight = <<>> /\ Unread = Contents(b) \o todo
  <2>1. InFlight = <<>>
    BY <1>4, InFlightIs DEF Inv, Reads
  <2>2. PICK c \in Seq(Bytes) : c = Contents(b)
    BY <1>1
  <2>3. <<>> \o c = c
    OBVIOUS
  <2> QED BY <2>1, <2>2, <2>3, Zenon DEF Unread
<1>5. ASSUME mu = "free" PROVE todo = <<>> /\ Unread = Contents(b)
  <2>1. todo = <<>> /\ mu # "reader"
    BY <1>5 DEF Inv, Holding
  <2>2. PICK c \in Seq(Bytes) : c = Contents(b)
    BY <1>1
  <2>3. c \o <<>> = c
    OBVIOUS
  <2> QED BY <1>4, <2>1, <2>2, <2>3, Zenon
<1> QED BY <1>1, <1>2, <1>3, <1>4, <1>5

(* A step after which everybody who is in Read still is, and who is not    *)
(* still has what its last Read returned.                                  *)
LEMMA SameReads ==
    ASSUME \A r \in Readers : LastRead(rd'[r]) = LastRead(rd[r])
    PROVE  LastReads' = LastReads
BY DEF LastReads

LEMMA OtherReads ==
    ASSUME NEW r \in Readers, \A s \in Readers : s # r => rd'[s] = rd[s]
    PROVE  LastReads' = [LastReads EXCEPT ![r] = LastRead(rd'[r])]
BY DEF LastReads

LEMMA WokenReads ==
    ASSUME rd \in [Readers -> ReaderStates], \A r \in Readers : Woken(r)
    PROVE  LastReads' = LastReads
<1>1. ASSUME NEW r \in Readers PROVE LastRead(rd'[r]) = LastRead(rd[r])
  <2>1. CASE rd'[r] = rd[r]
    BY <2>1
  <2>2. CASE rd[r].at = "wait" /\ rd'[r] = [rd[r] EXCEPT !.at = "lock"]
    <3>1. rd'[r].at = "lock"
      BY <2>2 DEF ReaderStates
    <3> QED BY <2>2, <3>1 DEF LastRead
  <2> QED BY <2>1, <2>2 DEF Woken
<1> QED BY <1>1, SameReads


(* ByteStream's actions in these terms.                                    *)
LEMMA Stutters ==
    ASSUME Unread' = Unread, err' = err, breakErr' = breakErr, LastReads' = LastReads
    PROVE  UNCHANGED Stream!vars
BY DEF Stream!vars, Unread, LastReads, LastRead

LEMMA IsWrite ==
    ASSUME ~err, ~breakErr, Len(Unread') > Len(Unread),
           SubSeq(Unread', 1, Len(Unread)) = Unread,
           err' = err, breakErr' = breakErr, LastReads' = LastReads
    PROVE  Stream!Write
BY Zenon DEF Stream!Write, Unread, LastReads, LastRead

LEMMA IsClose ==
    ASSUME err' = TRUE, Unread' = Unread, breakErr' = breakErr, LastReads' = LastReads
    PROVE  Stream!CloseWithError
BY Zenon DEF Stream!CloseWithError, Unread, LastReads, LastRead

LEMMA IsBreak ==
    ASSUME breakErr' = TRUE, Unread' = <<>>, err' = err, LastReads' = LastReads
    PROVE  Stream!BreakWithError
BY Zenon DEF Stream!BreakWithError, Unread, LastReads, LastRead

LEMMA IsRead ==
    ASSUME NEW r \in Readers, ~LastReads[r].busy,
           LastReads' = [LastReads EXCEPT ![r] = [busy |-> TRUE, bytes |-> <<>>, err |-> FALSE]],
           Unread' = Unread, err' = err, breakErr' = breakErr
    PROVE  Stream!Read(r)
BY Zenon DEF Stream!Read, Stream!InRead, Unread, LastReads, LastRead

LEMMA IsReadBytes ==
    ASSUME NEW r \in Readers, LastReads[r].busy, ~breakErr, NEW n \in 1 .. Len(Unread),
           LastReads' = [LastReads EXCEPT ![r] = [busy |-> FALSE, bytes |-> SubSeq(Unread, 1, n),
                                                  err |-> FALSE]],
           Unread' = SubSeq(Unread, n + 1, Len(Unread)), err' = err, breakErr' = breakErr
    PROVE  Stream!ReadBytes(r)
BY Zenon DEF Stream!ReadBytes, Stream!Returned, Unread, LastReads, LastRead

LEMMA IsReadError ==
    ASSUME NEW r \in Readers, LastReads[r].busy, breakErr \/ (err /\ Unread = <<>>),
           LastReads' = [LastReads EXCEPT ![r] = [busy |-> FALSE, bytes |-> <<>>, err |-> TRUE]],
           Unread' = Unread, err' = err, breakErr' = breakErr
    PROVE  Stream!ReadError(r)
BY Zenon DEF Stream!ReadError, Stream!Returned, Unread, LastReads, LastRead


(* Both, before and after a step.                                          *)
UnreadFacts ==
    /\ (\A r \in Readers : rd[r].at # "copy") => InFlight = <<>>
    /\ \A r \in Readers : rd[r].at = "copy" => InFlight = rd[r].got
    /\ Contents(b) \in Seq(Bytes) /\ todo \in Seq(Bytes) /\ InFlight \in Seq(Bytes)
    /\ mu # "reader" => InFlight = <<>> /\ Unread = Contents(b) \o todo
    /\ mu = "free" => todo = <<>> /\ Unread = Contents(b)

LEMMA UnreadNow == Inv => UnreadFacts
BY InFlightIs, UnreadIs DEF Inv, UnreadFacts

LEMMA UnreadAfter == Inv' => UnreadFacts'
BY UnreadNow, PTL


LEMMA SubSeqOfConcatFirst ==
    ASSUME NEW T, NEW g \in Seq(T), NEW e \in Seq(T)
    PROVE  SubSeq(g \o e, 1, Len(g)) = g
<1>1. PICK u \in Seq(T) : u = g \o e
  BY Joined
<1>2. Len(u) = Len(g) + Len(e) /\ Len(g) \in Nat /\ Len(e) \in Nat
      /\ \A i \in 1 .. Len(g) : u[i] = g[i]
  BY <1>1, Joined
<1>3. PICK v : v = SubSeq(u, 1, Len(g))
  OBVIOUS
<1>4. v \in Seq(T) /\ Len(v) = Len(g) /\ \A i \in 1 .. Len(g) : v[i] = u[i]
  BY <1>2, <1>3
<1>5. v = g
  BY <1>2, <1>4, SeqEqual
<1> QED BY <1>1, <1>3, <1>5

LEMMA SubSeqOfConcatSecond ==
    ASSUME NEW T, NEW g \in Seq(T), NEW e \in Seq(T)
    PROVE  SubSeq(g \o e, Len(g) + 1, Len(g \o e)) = e
<1>1. PICK u \in Seq(T) : u = g \o e
  BY Joined
<1>2. Len(u) = Len(g) + Len(e) /\ Len(g) \in Nat /\ Len(e) \in Nat
      /\ \A i \in 1 .. Len(e) : u[Len(g) + i] = e[i]
  BY <1>1, Joined
<1>3. PICK v : v = SubSeq(u, Len(g) + 1, Len(u))
  OBVIOUS
<1>4. Len(g) <= Len(u) /\ Len(u) <= Len(u) /\ Len(u) \in Nat /\ Len(u) - Len(g) = Len(e)
  BY <1>2
<1>5. /\ v \in Seq(T) /\ Len(v) = Len(u) - Len(g)
      /\ \A j \in 1 .. Len(u) - Len(g) : v[j] = u[Len(g) + j]
  BY <1>2, <1>3, <1>4, SpanIs
<1>6. Len(v) = Len(e) /\ \A i \in 1 .. Len(v) : v[i] = e[i]
  BY <1>2, <1>4, <1>5, Zenon
<1>7. v = e
  BY <1>5, <1>6, SeqEqual
<1> QED BY <1>1, <1>3, <1>7

LEMMA SameUnread ==
    ASSUME Inv, Inv', b' = b, todo' = todo,
           \A s \in Readers : /\ rd'[s].at = "copy" <=> rd[s].at = "copy"
                              /\ rd[s].at = "copy" => rd'[s].got = rd[s].got
    PROVE  Unread' = Unread
<1>1. UnreadFacts /\ UnreadFacts'
  BY UnreadNow, UnreadAfter
<1>2. InFlight' = InFlight
  <2>1. CASE \A s \in Readers : rd[s].at # "copy"
    BY <1>1, <2>1 DEF UnreadFacts
  <2>2. CASE \E s \in Readers : rd[s].at = "copy"
    <3>1. PICK s \in Readers : rd[s].at = "copy" /\ rd'[s].at = "copy" /\ rd'[s].got = rd[s].got
      BY <2>2
    <3> QED BY <1>1, <3>1 DEF UnreadFacts
  <2> QED BY <2>1, <2>2
<1> QED BY <1>2 DEF Unread

(* What a reader does, step by step, is Read, ReadBytes or ReadError of    *)
(* the abstract stream, or nothing: Read's copying is not seen.            *)
LEMMA ReadersRefine ==
    ASSUME Inv, Inv', NEW r \in Readers, Read(r) \/ ReaderStep(r)
    PROVE  Stream!Read(r) \/ Stream!ReadBytes(r) \/ Stream!ReadError(r) \/ UNCHANGED Stream!vars
<1>0. rd \in [Readers -> ReaderStates] /\ Reads /\ Holding /\ Sound(b)
  BY DEF Inv, Typed
<1>1. UnreadFacts /\ UnreadFacts'
  BY UnreadNow, UnreadAfter
<1>2. PICK q : q = rd[r]
  OBVIOUS
<1>3. q \in ReaderStates /\ q = [at |-> q.at, room |-> q.room, got |-> q.got, err |-> q.err]
  BY <1>0, <1>2 DEF ReaderStates
<1>4. LastReads[r] = LastRead(q)
  BY <1>2 DEF LastReads
<1>5. CASE Read(r)
  <2>1. PICK n \in ReadSizes :
          rd' = [rd EXCEPT ![r] = [at |-> "lock", room |-> n, got |-> <<>>, err |-> FALSE]]
    BY <1>5 DEF Read
  <2>2. rd'[r].at = "lock" /\ \A s \in Readers : s # r => rd'[s] = rd[s]
    BY <1>0, <2>1
  <2>3. q.at = "idle" /\ b' = b /\ todo' = todo /\ err' = err /\ breakErr' = breakErr
    BY <1>2, <1>5 DEF Read
  <2>4. Unread' = Unread
    <3>1. \A s \in Readers : /\ rd'[s].at = "copy" <=> rd[s].at = "copy"
                             /\ rd[s].at = "copy" => rd'[s].got = rd[s].got
      BY <1>2, <2>2, <2>3
    <3> QED BY <2>3, <3>1, SameUnread
  <2>5. LastRead(rd'[r]) = [busy |-> TRUE, bytes |-> <<>>, err |-> FALSE]
    BY <2>2 DEF LastRead
  <2>6. LastReads' = [LastReads EXCEPT ![r] = [busy |-> TRUE, bytes |-> <<>>, err |-> FALSE]]
    BY <2>2, <2>5, OtherReads
  <2>7. ~LastReads[r].busy
    BY <1>4, <2>3 DEF LastRead
  <2> QED BY <2>3, <2>4, <2>6, <2>7, IsRead
<1>6. CASE ReadBroken(r) \/ ReadEnd(r)
  <2>1. /\ rd' = [rd EXCEPT ![r].at = "idle", ![r].err = TRUE]
        /\ q.at = "lock" /\ mu = "free" /\ mu' = "free"
        /\ err' = err /\ breakErr' = breakErr
    BY <1>2, <1>6 DEF ReadBroken, ReadEnd, Looks
  <2>2. rd'[r] = [at |-> "idle", room |-> q.room, got |-> q.got, err |-> TRUE]
        /\ \A s \in Readers : s # r => rd'[s] = rd[s]
    BY <1>0, <1>2, <1>3, <2>1
  <2>3. q.got = <<>>
    BY <1>0, <1>2, <2>1 DEF Reads
  <2>4. LastRead(rd'[r]) = [busy |-> FALSE, bytes |-> <<>>, err |-> TRUE]
    BY <2>2, <2>3 DEF LastRead
  <2>5. LastReads' = [LastReads EXCEPT ![r] = [busy |-> FALSE, bytes |-> <<>>, err |-> TRUE]]
    BY <2>2, <2>4, OtherReads
  <2>6. LastReads[r].busy
    BY <1>4, <2>1 DEF LastRead
  <2>7. Unread = Contents(b) /\ Unread' = Contents(b)'
    BY <1>1, <2>1 DEF UnreadFacts
  <2>8. Unread' = Unread /\ (breakErr \/ (err /\ Unread = <<>>))
    <3>1. CASE ReadBroken(r)
      BY <2>7, <3>1 DEF ReadBroken
    <3>2. CASE ReadEnd(r)
      <4>1. err /\ b' = Empty /\ (bNil \/ ~(b.size > 0))
        BY <3>2 DEF ReadEnd, HasData
      <4>2. Contents(b) = <<>>
        <5>1. CASE bNil
          BY <1>0, <5>1, EmptyIsSound DEF Holding
        <5>2. CASE ~(b.size > 0)
          <6>1. PICK c \in Seq(Bytes) : c = Contents(b) /\ Len(c) = b.size /\ b.size \in Nat
            BY <1>0, ContentsAre DEF Sound
          <6>2. Len(c) = 0
            BY <5>2, <6>1
          <6>3. c = <<>>
            BY <6>2, EmptySeq
          <6> QED BY <6>1, <6>3
        <5> QED BY <4>1, <5>1, <5>2
      <4>3. Contents(b)' = <<>>
        BY <4>1, EmptyIsSound
      <4> QED BY <2>7, <4>1, <4>2, <4>3
    <3> QED BY <1>6, <3>1, <3>2
  <2> QED BY <2>1, <2>5, <2>6, <2>8, IsReadError
<1>7. CASE ReadData(r) \/ ReadWait(r)
  <2>1. PICK x \in {"copy", "wait"} : rd' = [rd EXCEPT ![r].at = x]
    BY <1>7 DEF ReadData, ReadWait
  <2>2. /\ q.at = "lock" /\ mu = "free" /\ b' = b /\ todo' = todo
        /\ err' = err /\ breakErr' = breakErr
    BY <1>2, <1>7 DEF ReadData, ReadWait, Looks
  <2>3. rd'[r] = [at |-> x, room |-> q.room, got |-> q.got, err |-> q.err]
        /\ \A s \in Readers : s # r => rd'[s] = rd[s]
    BY <1>0, <1>2, <1>3, <2>1
  <2>4. q.got = <<>>
    BY <1>0, <1>2, <2>2 DEF Reads
  <2>5. LastRead(rd'[r]) = LastRead(q)
    BY <2>2, <2>3 DEF LastRead
  <2>6. LastReads' = LastReads
    <3>1. \A s \in Readers : LastRead(rd'[s]) = LastRead(rd[s])
      BY <1>2, <2>3, <2>5
    <3> QED BY <3>1, SameReads
  <2>7. Unread' = Unread
    <3>1. \A s \in Readers : rd[s].at # "copy"
      BY <1>0, <2>2 DEF Reads
    <3>2. InFlight = <<>>
      BY <1>1, <3>1 DEF UnreadFacts
    <3>3. CASE x = "wait"
      <4>1. \A s \in Readers : rd'[s].at # "copy"
        BY <2>3, <3>1, <3>3
      <4>2. InFlight' = <<>>
        BY <1>1, <4>1 DEF UnreadFacts
      <4> QED BY <2>2, <3>2, <4>2 DEF Unread
    <3>4. CASE x = "copy"
      <4>1. rd'[r].at = "copy" /\ rd'[r].got = <<>>
        BY <2>3, <2>4, <3>4
      <4>2. InFlight' = <<>>
        BY <1>1, <4>1 DEF UnreadFacts
      <4> QED BY <2>2, <3>2, <4>2 DEF Unread
    <3> QED BY <3>3, <3>4
  <2> QED BY <2>2, <2>6, <2>7, Stutters
<1>8. CASE ReadCopy(r)
  <2>1. q.at = "copy" /\ q.room > 0 /\ b.size > 0
    BY <1>2, <1>8 DEF ReadCopy
  <2>2. PICK n \in Nat : n = q.room /\ n > 0
    BY <1>3, <2>1 DEF ReaderStates
  <2>3. PICK k, d : k = Readable(b, n) /\ d = SubSeq(bytesFromFirstChunk(b), 1, k)
    OBVIOUS
  <2>4. d \in Seq(Bytes) /\ Contents(b) = d \o Contents(ReadChunk(b, n))
    BY <1>0, <2>1, <2>2, <2>3, ReadKeeps
  <2>5. /\ rd' = [rd EXCEPT ![r].room = @ - k, ![r].got = @ \o d]
        /\ b' = ReadChunk(b, n) /\ todo' = todo /\ err' = err /\ breakErr' = breakErr
    BY <1>2, <1>8, <2>2, <2>3 DEF ReadCopy
  <2>6. rd'[r] = [at |-> q.at, room |-> q.room - k, got |-> q.got \o d, err |-> q.err]
        /\ \A s \in Readers : s # r => rd'[s] = rd[s]
    BY <1>0, <1>2, <1>3, <2>5
  <2>7. rd'[r].at = "copy" /\ rd'[r].got = q.got \o d
    BY <2>1, <2>6
  <2>8. LastReads' = LastReads
    <3>1. LastRead(rd'[r]) = LastRead(rd[r])
      BY <1>2, <2>1, <2>7 DEF LastRead
    <3>2. \A s \in Readers : LastRead(rd'[s]) = LastRead(rd[s])
      BY <2>6, <3>1, Zenon
    <3> QED BY <3>2, SameReads
  <2>9. InFlight = q.got /\ InFlight' = q.got \o d
    BY <1>1, <1>2, <2>1, <2>7 DEF UnreadFacts
  <2>10. PICK g, e \in Seq(Bytes) : g = q.got /\ e = Contents(b)'
    BY <1>1, <1>3 DEF UnreadFacts, ReaderStates
  <2>11. (g \o d) \o e = g \o (d \o e)
    <3>1. Cat(Cat(g, d), e) = Cat(g, Cat(d, e))
      BY <2>4, CatAssociates
    <3> QED BY <3>1, Zenon DEF Cat
  <2>12. Contents(b) = d \o e
    BY <2>4, <2>5, <2>10, Zenon
  <2>13. Unread' = Unread
    BY <2>5, <2>9, <2>10, <2>11, <2>12, Zenon DEF Unread
  <2> QED BY <2>5, <2>8, <2>13, Stutters
<1>9. CASE ReadReturn(r)
  <2>1. /\ rd' = [rd EXCEPT ![r].at = "idle"] /\ mu' = "free" /\ q.at = "copy"
        /\ b' = b /\ todo' = todo /\ err' = err /\ breakErr' = breakErr
        /\ (q.room = 0 \/ b.size = 0)
    BY <1>2, <1>9 DEF ReadReturn
  <2>2. rd'[r] = [at |-> "idle", room |-> q.room, got |-> q.got, err |-> q.err]
        /\ \A s \in Readers : s # r => rd'[s] = rd[s]
    BY <1>0, <1>2, <1>3, <2>1
  <2>3. ~q.err /\ ~breakErr /\ q.got # <<>> /\ mu = "reader" /\ q.err \in BOOLEAN
    <3>1. /\ ~q.err /\ ~breakErr /\ mu = "reader"
          /\ q.got # <<>> \/ (b.size > 0 /\ q.room > 0)
      BY <1>0, <1>2, <2>1 DEF Reads
    <3>2. q.room \in Nat /\ b.size \in Nat /\ q.err \in BOOLEAN
      BY <1>0, <1>3 DEF Sound, ReaderStates
    <3>3. ~(b.size > 0 /\ q.room > 0)
      BY <2>1, <3>2
    <3> QED BY <3>1, <3>2, <3>3, Zenon
  <2>4. PICK g, e \in Seq(Bytes) : g = q.got /\ e = Contents(b)
    BY <1>1, <1>3 DEF UnreadFacts, ReaderStates
  <2>5. todo = <<>>
    BY <1>0, <2>3 DEF Holding
  <2>6. InFlight = g
    BY <1>1, <1>2, <2>1, <2>4 DEF UnreadFacts
  <2>7. Unread = g \o e
    <3>1. (g \o e) \o <<>> = g \o e
      <4>1. PICK u \in Seq(Bytes) : u = g \o e
        BY Joined
      <4> QED BY <4>1
    <3> QED BY <2>4, <2>5, <2>6, <3>1, Zenon DEF Unread
  <2>8. Unread' = e
    <3>1. Unread' = Contents(b)'
      BY <1>1, <2>1 DEF UnreadFacts
    <3> QED BY <2>1, <2>4, <3>1
  <2>9. PICK n : n = Len(g)
    OBVIOUS
  <2>10. /\ n \in 1 .. Len(Unread) /\ SubSeq(Unread, 1, n) = g
         /\ SubSeq(Unread, n + 1, Len(Unread)) = e
    <3>1. n \in Nat /\ n >= 1
      BY <2>3, <2>4, <2>9
    <3>2. Len(g \o e) = n + Len(e) /\ Len(e) \in Nat
      BY <2>9, Joined
    <3>3. SubSeq(g \o e, 1, Len(g)) = g
      BY SubSeqOfConcatFirst
    <3>4. SubSeq(g \o e, Len(g) + 1, Len(g \o e)) = e
      BY SubSeqOfConcatSecond
    <3> QED BY <2>7, <2>9, <3>1, <3>2, <3>3, <3>4
  <2>11. LastRead(rd'[r]) = [busy |-> FALSE, bytes |-> SubSeq(Unread, 1, n), err |-> FALSE]
    <3>1. q.err = FALSE
      BY <2>3
    <3>2. rd'[r].at = "idle" /\ rd'[r].got = q.got /\ rd'[r].err = q.err
      BY <2>2
    <3>3. LastRead(rd'[r]) = [busy |-> FALSE, bytes |-> rd'[r].got, err |-> rd'[r].err]
      BY <3>2, Zenon DEF LastRead
    <3> QED BY <2>4, <2>10, <3>1, <3>2, <3>3, Zenon
  <2>12. LastReads' = [LastReads EXCEPT ![r] = [busy |-> FALSE, bytes |-> SubSeq(Unread, 1, n),
                                                err |-> FALSE]]
    BY <2>2, <2>11, OtherReads
  <2>13. LastReads[r].busy
    BY <1>4, <2>1 DEF LastRead
  <2>14. Unread' = SubSeq(Unread, n + 1, Len(Unread))
    BY <2>8, <2>10
  <2> QED BY <2>1, <2>3, <2>10, <2>12, <2>13, <2>14, IsReadBytes
<1> QED BY <1>5, <1>6, <1>7, <1>8, <1>9 DEF ReaderStep


LEMMA CutJoins ==
    ASSUME NEW T, NEW t \in Seq(T), NEW k \in 1 .. Len(t)
    PROVE  SubSeq(t, 1, k) \o SubSeq(t, k + 1, Len(t)) = t
<1>1. PICK x, y : x = SubSeq(t, 1, k) /\ y = SubSeq(t, k + 1, Len(t))
  OBVIOUS
<1>2. x \in Seq(T) /\ Len(x) = k /\ \A i \in 1 .. k : x[i] = t[i]
  BY <1>1
<1>3. PICK n \in Nat : n = Len(t) /\ k \in Nat /\ k <= n
  OBVIOUS
<1>4. y \in Seq(T) /\ Len(y) = n - k /\ \A j \in 1 .. n - k : y[j] = t[k + j]
  <2>1. k <= n /\ n <= Len(t) /\ k \in Nat /\ n \in Nat
    BY <1>3
  <2> QED BY <1>1, <1>3, <2>1, SpanIs
<1>5. PICK u : u = x \o y
  OBVIOUS
<1>6. /\ u \in Seq(T) /\ Len(u) = n /\ \A i \in 1 .. k : u[i] = x[i]
      /\ \A i \in 1 .. n - k : u[k + i] = y[i]
  <2>1. /\ u \in Seq(T) /\ Len(u) = Len(x) + Len(y) /\ \A i \in 1 .. Len(x) : u[i] = x[i]
        /\ \A i \in 1 .. Len(y) : u[Len(x) + i] = y[i]
    <3>1. x \in Seq(T) /\ y \in Seq(T)
      BY <1>2, <1>4
    <3>2. /\ x \o y \in Seq(T) /\ Len(x \o y) = Len(x) + Len(y)
          /\ \A i \in 1 .. Len(x) : (x \o y)[i] = x[i]
          /\ \A i \in 1 .. Len(y) : (x \o y)[Len(x) + i] = y[i]
      BY <3>1, Joined
    <3> QED BY <1>5, <3>2, Zenon
  <2>2. k + (n - k) = n
    BY <1>3
  <2> QED BY <1>2, <1>4, <2>1, <2>2, Zenon
<1>7. ASSUME NEW i \in 1 .. n PROVE u[i] = t[i]
  <2>1. CASE i <= k
    <3>1. i \in 1 .. k
      BY <1>3, <2>1
    <3> QED BY <1>2, <1>6, <3>1, Zenon
  <2>2. CASE ~(i <= k)
    <3>1. i - k \in 1 .. n - k /\ k + (i - k) = i
      BY <1>3, <2>2
    <3> QED BY <1>4, <1>6, <3>1, Zenon
  <2> QED BY <2>1, <2>2
<1>8. u = t
  BY <1>3, <1>6, <1>7, SeqEqual
<1> QED BY <1>1, <1>5, <1>8

(* What serve and Done do is Write, CloseWithError or BreakWithError of    *)
(* the abstract stream, or nothing: Write is seen when it begins.          *)
LEMMA ServeRefines ==
    ASSUME Inv, Inv', NEW n, WriteRefused \/ (n \in WriteSizes /\ Write(n)) \/ WriteCopy
                             \/ WriteReturn \/ CloseWithError \/ BreakWithError \/ Done
    PROVE  Stream!Write \/ Stream!CloseWithError \/ Stream!BreakWithError
           \/ UNCHANGED Stream!vars
<1>0. rd \in [Readers -> ReaderStates] /\ Reads /\ Holding /\ Sound(b) /\ todo \in Seq(1 .. MaxBytes)
  BY DEF Inv, Typed
<1>1. UnreadFacts /\ UnreadFacts'
  BY UnreadNow, UnreadAfter
<1>2. ASSUME Signal, mu = "free" \/ mu = "serve" PROVE LastReads' = LastReads
  <2>1. \A r \in Readers : Woken(r)
    BY <1>2, SignalKeeps
  <2> QED BY <1>0, <2>1, WokenReads
<1>3. CASE WriteRefused \/ WriteReturn
  <2>1. /\ Signal /\ (mu = "free" \/ (mu = "serve" /\ todo = <<>>)) /\ mu' = "free"
        /\ b' = b /\ todo' = todo /\ err' = err /\ breakErr' = breakErr
    BY <1>3 DEF WriteRefused, WriteReturn
  <2>2. LastReads' = LastReads
    BY <1>2, <2>1
  <2>3. Unread' = Unread
    <3>1. InFlight = <<>> /\ InFlight' = <<>>
      BY <1>1, <2>1 DEF UnreadFacts
    <3> QED BY <2>1, <3>1 DEF Unread
  <2> QED BY <2>1, <2>2, <2>3, Stutters
<1>4. CASE n \in WriteSizes /\ Write(n)
  <2>1. /\ mu = "free" /\ mu' = "serve" /\ ~err /\ ~breakErr
        /\ todo' = [i \in 1 .. n |-> written + i]
        /\ b' = b /\ err' = err /\ breakErr' = breakErr /\ rd' = rd
    BY <1>4 DEF Write
  <2>2. n \in Nat /\ n > 0
    BY <1>4, PipeAssumption
  <2>3. LastReads' = LastReads
    BY <2>1 DEF LastReads
  <2>4. PICK e, t \in Seq(Bytes) : e = Contents(b) /\ t = todo'
    BY <1>1 DEF UnreadFacts
  <2>5. Unread = e /\ Unread' = e \o t
    BY <1>1, <2>1, <2>4 DEF UnreadFacts
  <2>6. Len(t) = n
    <3>1. Len([i \in 1 .. n |-> written + i]) = n
      BY <2>2
    <3> QED BY <2>1, <2>4, <3>1, Zenon
  <2>7. Len(e \o t) > Len(e)
    <3>1. Len(e \o t) = Len(e) + Len(t) /\ Len(e) \in Nat
      BY Joined
    <3> QED BY <2>2, <2>6, <3>1
  <2>8. SubSeq(e \o t, 1, Len(e)) = e
    BY SubSeqOfConcatFirst
  <2> QED BY <2>1, <2>3, <2>5, <2>7, <2>8, IsWrite
<1>5. CASE WriteCopy
  <2>1. /\ mu = "serve" /\ mu' = "serve" /\ todo # <<>> /\ b' = WriteChunk(b, todo)
        /\ todo' = SubSeq(todo, Room(b, todo) + 1, Len(todo))
        /\ err' = err /\ breakErr' = breakErr /\ rd' = rd
    BY <1>5 DEF WriteCopy
  <2>2. PICK c, t \in Seq(Bytes) : c = Contents(b) /\ t = todo
    BY <1>1 DEF UnreadFacts
  <2>3. PICK k : k = Room(b, t)
    OBVIOUS
  <2>4. k \in 1 .. Len(t) /\ Contents(b)' = c \o SubSeq(t, 1, k)
    BY <1>0, <2>1, <2>2, <2>3, WriteKeeps
  <2>5. Unread = c \o t /\ Unread' = (c \o SubSeq(t, 1, k)) \o SubSeq(t, k + 1, Len(t))
    BY <1>1, <2>1, <2>2, <2>3, <2>4 DEF UnreadFacts
  <2>6. PICK x, y \in Seq(Bytes) : x = SubSeq(t, 1, k) /\ y = SubSeq(t, k + 1, Len(t))
    <3>1. k \in Nat /\ Len(t) \in Nat /\ 0 \in Nat /\ k <= Len(t) /\ 0 <= k /\ Len(t) <= Len(t) /\ 0 + 1 = 1
      BY <2>4
    <3>2. SubSeq(t, 0 + 1, k) \in Seq(Bytes)
      BY <3>1, SpanIs
    <3>3. SubSeq(t, k + 1, Len(t)) \in Seq(Bytes)
      BY <3>1, SpanIs
    <3> QED BY <3>1, <3>2, <3>3
  <2>7. x \o y = t
    BY <2>4, <2>6, CutJoins
  <2>8. (c \o x) \o y = c \o (x \o y)
    <3>1. Cat(Cat(c, x), y) = Cat(c, Cat(x, y))
      BY CatAssociates
    <3> QED BY <3>1, Zenon DEF Cat
  <2>9. Unread' = Unread
    BY <2>5, <2>6, <2>7, <2>8, Zenon
  <2>10. LastReads' = LastReads
    BY <2>1 DEF LastReads
  <2> QED BY <2>1, <2>9, <2>10, Stutters
<1>6. CASE CloseWithError
  <2>1. /\ Signal /\ mu = "free" /\ mu' = "free" /\ err' = TRUE
        /\ b' = b /\ todo' = todo /\ breakErr' = breakErr
    BY <1>6 DEF CloseWithError
  <2>2. LastReads' = LastReads
    BY <1>2, <2>1
  <2>3. Unread' = Unread
    BY <1>1, <2>1 DEF UnreadFacts
  <2> QED BY <2>1, <2>2, <2>3, IsClose
<1>7. CASE BreakWithError
  <2>1. Signal /\ mu = "free" /\ mu' = "free" /\ breakErr' = TRUE /\ err' = err
    BY <1>7 DEF BreakWithError
  <2>2. b' = Empty
    BY <1>0, <1>7 DEF BreakWithError, Holding
  <2>3. LastReads' = LastReads
    BY <1>2, <2>1
  <2>4. Contents(b)' = <<>>
    BY <2>2, EmptyIsSound
  <2>5. Unread' = <<>>
    BY <1>1, <2>1, <2>4 DEF UnreadFacts
  <2> QED BY <2>1, <2>3, <2>5, IsBreak
<1>8. CASE Done
  <2>1. b' = b /\ todo' = todo /\ err' = err /\ breakErr' = breakErr /\ rd' = rd
    BY <1>8 DEF Done
  <2>2. LastReads' = LastReads
    BY <2>1 DEF LastReads
  <2>3. Unread' = Unread
    BY <2>1, SameUnread
  <2> QED BY <2>1, <2>2, <2>3, Stutters
<1> QED BY <1>3, <1>4, <1>5, <1>6, <1>7, <1>8

(* pipe.go and databuffer.go together are a stream of bytes: through       *)
(* chunks, locks and waits, with any readers and any sizes, every byte     *)
(* written is read once and in order, and the error comes after the last   *)
(* byte of a closed pipe and at once from a broken one.                    *)
THEOREM PipeIsByteStream == Spec => Implements
<1>1. Init => Stream!Init
  <2> SUFFICES ASSUME Init PROVE Stream!Init
    OBVIOUS
  <2>1. /\ b = Empty /\ todo = <<>> /\ err = FALSE /\ breakErr = FALSE
        /\ rd = [r \in Readers |-> [at |-> "idle", room |-> 0, got |-> <<>>, err |-> FALSE]]
    BY DEF Init
  <2>2. InFlight = <<>>
    <3>1. {r \in Readers : rd[r].at = "copy"} = {}
      BY <2>1
    <3> QED BY <3>1, Zenon DEF InFlight
  <2>3. Contents(b) = <<>>
    BY <2>1, EmptyIsSound
  <2>4. InFlight \o Contents(b) \o todo = <<>>
    <3>1. (<<>> \o <<>>) \o <<>> = <<>>
      OBVIOUS
    <3> QED BY <2>1, <2>2, <2>3, <3>1, Zenon
  <2>5. \A r \in Readers : LastRead(rd[r]) = [busy |-> FALSE, bytes |-> <<>>, err |-> FALSE]
    BY <2>1 DEF LastRead
  <2>6. LastReads = [r \in Readers |-> [busy |-> FALSE, bytes |-> <<>>, err |-> FALSE]]
    BY <2>5 DEF LastReads
  <2> QED BY <2>1, <2>4, <2>6, Zenon DEF Stream!Init, Stream!Returned, LastReads, LastRead
<1>2. Inv /\ Inv' /\ [Next]_vars => [Stream!Next]_(Stream!vars)
  <2> SUFFICES ASSUME Inv, Inv', [Next]_vars PROVE Stream!Next \/ UNCHANGED Stream!vars
    OBVIOUS
  <2>1. CASE UNCHANGED vars
    <3>1. b' = b /\ todo' = todo /\ err' = err /\ breakErr' = breakErr /\ rd' = rd
      BY <2>1 DEF vars
    <3>2. Unread' = Unread
      BY <3>1, SameUnread
    <3>3. LastReads' = LastReads
      BY <3>1 DEF LastReads
    <3> QED BY <3>1, <3>2, <3>3, Stutters
  <2>2. ASSUME NEW r \in Readers, Read(r) \/ ReaderStep(r)
        PROVE  Stream!Next \/ UNCHANGED Stream!vars
    <3>1. Stream!Read(r) \/ Stream!ReadBytes(r) \/ Stream!ReadError(r) \/ UNCHANGED Stream!vars
      BY <2>2, ReadersRefine
    <3> QED BY <3>1 DEF Stream!Next
  <2>3. ASSUME WriteRefused \/ (\E n \in WriteSizes : Write(n)) \/ WriteCopy \/ WriteReturn
               \/ CloseWithError \/ BreakWithError \/ Done
        PROVE  Stream!Next \/ UNCHANGED Stream!vars
    <3>1. Stream!Write \/ Stream!CloseWithError \/ Stream!BreakWithError \/ UNCHANGED Stream!vars
      BY <2>3, ServeRefines
    <3> QED BY <3>1 DEF Stream!Next
  <2> QED BY <2>1, <2>2, <2>3 DEF Next
<1> QED BY <1>1, <1>2, InvHolds, PTL DEF Spec, Implements, Stream!Spec

===============================================================================
