--------------------------- MODULE ReportsProofs ----------------------------
(***************************************************************************)
(* What decodeDockerLogs and logs compute, for every text.  The recursive  *)
(* functions of DockerLogs are known by their steps once some function     *)
(* takes those steps; two that do are equal, or there would be a first     *)
(* place where they differ.                                                *)
(***************************************************************************)
EXTENDS Reports, SequenceTheorems, FiniteSetTheorems, TLAPS

\* A nonempty set of naturals has a least element.
LEMMA LeastNat ==
    ASSUME NEW S \in SUBSET Nat, S # {}
    PROVE  \E x \in S : \A y \in S : x <= y
<1> DEFINE R == {ss \in Nat \X Nat : ss[1] < ss[2]}
<1>1. IsWellFoundedOn(R, Nat)
  BY NatLessThanWellFounded DEF OpToRel
<1>2. PICK x \in S : \A y \in S : <<y, x>> \notin R
  <2> HIDE DEF R
  <2> QED BY <1>1, WFMin
<1>3. ASSUME NEW y \in S PROVE x <= y
  <2>1. x \in Nat /\ y \in Nat /\ <<y, x>> \notin R
    BY <1>2
  <2> QED BY <2>1
<1> QED BY <1>3

----------------------------------------------------------------------------
(* FlattenSeq, one sequence after the other. *)

LEMMA AppendConcat ==
    ASSUME NEW S, NEW s \in Seq(S), NEW t \in Seq(S), NEW e \in S
    PROVE  s \o Append(t, e) = Append(s \o t, e)
<1>1. <<e>> \in Seq(S) /\ s \o t \in Seq(S)
  BY ConcatProperties
<1>2. Append(t, e) = t \o <<e>> /\ Append(s \o t, e) = (s \o t) \o <<e>>
  BY <1>1, AppendIsConcat
<1>3. (s \o t) \o <<e>> = s \o (t \o <<e>>)
  BY <1>1, ConcatAssociative
<1> QED BY <1>2, <1>3

\* f[i] is the first i sequences of ss in one.
Flattens(f, ss, S) ==
    /\ f \in [0..Len(ss) -> Seq(S)]
    /\ f[0] = <<>>
    /\ \A i \in 1..Len(ss) : f[i] = f[i - 1] \o ss[i]

LEMMA FlattenIs ==
    ASSUME NEW S, NEW ss \in Seq(Seq(S)), NEW f, Flattens(f, ss, S)
    PROVE  FlattenSeq(ss) = f[Len(ss)]
<1> DEFINE N == Len(ss)
           F(g) == [i \in 1..N |-> IF i = 1 THEN ss[i] ELSE g[i - 1] \o ss[i]]
           K == CHOOSE g : g = F(g)
           w == [i \in 1..N |-> f[i]]
<1>1. N \in Nat /\ \A i \in 1..N : ss[i] \in Seq(S)
  OBVIOUS
<1>2. /\ f \in [0..N -> Seq(S)] /\ f[0] = <<>>
      /\ \A i \in 1..N : f[i] = f[i - 1] \o ss[i]
  BY DEF Flattens
<1>3. CASE N = 0
  BY <1>2, <1>3, EmptySeq DEF FlattenSeq
<1>4. CASE N # 0
  <2>1. FlattenSeq(ss) = K[N]
    BY <1>1, <1>4 DEF FlattenSeq
  <2>2. w = F(w)
    <3> SUFFICES ASSUME NEW i \in 1..N PROVE f[i] = F(w)[i]
      OBVIOUS
    <3>1. CASE i = 1
      <4>1. i - 1 = 0 /\ f[i] = f[i - 1] \o ss[i]
        <5>1. f[i] = f[i - 1] \o ss[i]
          BY <1>2
        <5>2. i - 1 = 0
          BY <3>1
        <5> QED BY <5>1, <5>2
      <4>3. F(w)[i] = ss[i]
        BY <3>1
      <4>2. <<>> \o ss[i] = ss[i]
        BY <1>1, ConcatEmptySeq
      <4> QED BY <1>2, <4>1, <4>2, <4>3
    <3>2. CASE i # 1
      <4>1. i - 1 \in 1..N
        BY <1>1, <3>2
      <4> QED BY <1>2, <3>2, <4>1
    <3> QED BY <3>1, <3>2
  <2>3. K = F(K)
    <3> HIDE DEF w, F
    <3> QED BY <2>2
  <2> HIDE DEF K
  <2>4. \A i \in 1..N : K[i] = w[i]
    <3> DEFINE B == {i \in 1..N : K[i] # w[i]}
    <3>1. SUFFICES ASSUME B # {} PROVE FALSE
      OBVIOUS
    <3>2. PICK i \in B : \A j \in B : i <= j
      <4>1. B \in SUBSET Nat
        BY <1>1
      <4> HIDE DEF B
      <4> QED BY <3>1, <4>1, LeastNat
    <3>3. CASE i = 1
      BY <2>2, <2>3, <3>3
    <3>4. CASE i # 1
      <4>1. i - 1 \in 1..N /\ i - 1 < i
        BY <1>1, <3>4
      <4>2. K[i - 1] = w[i - 1]
        <5> HIDE DEF w
        <5> QED BY <3>2, <4>1
      <4>3. \A g : F(g)[i] = g[i - 1] \o ss[i]
        BY <3>4
      <4>4. K[i] = K[i - 1] \o ss[i] /\ w[i] = w[i - 1] \o ss[i]
        <5> HIDE DEF w, F
        <5> QED BY <2>2, <2>3, <4>3
      <4> QED BY <4>2, <4>4
    <3> QED BY <3>3, <3>4
  <2> QED BY <1>1, <1>4, <2>1, <2>4
<1> QED BY <1>3, <1>4

LEMMA FlattenExists ==
    ASSUME NEW S, NEW ss \in Seq(Seq(S))
    PROVE  \E f : Flattens(f, ss, S)
<1> DEFINE N == Len(ss)
           Upto(f, n) == /\ f \in [0..n -> Seq(S)] /\ f[0] = <<>>
                         /\ \A i \in 1..n : f[i] = f[i - 1] \o ss[i]
           B == {n \in 0..N : ~\E f : Upto(f, n)}
<1>1. N \in Nat /\ \A i \in 1..N : ss[i] \in Seq(S)
  OBVIOUS
<1>2. SUFFICES B = {}
  <2>1. N \in 0..N
    BY <1>1
  <2>2. PICK f : Upto(f, N)
    BY <1>2, <2>1
  <2> QED BY <2>2 DEF Flattens
<1>3. SUFFICES ASSUME B # {} PROVE FALSE
  OBVIOUS
<1>4. PICK n \in B : \A m \in B : n <= m
  <2>1. B \in SUBSET Nat
    <3> HIDE DEF Upto
    <3> QED BY <1>1
  <2> HIDE DEF B
  <2> QED BY <1>3, <2>1, LeastNat
<1>5. CASE n = 0
  <2>1. Upto([i \in 0..0 |-> <<>>], 0)
    BY EmptySeq
  <2> QED BY <1>5, <2>1
<1>6. CASE n # 0
  <2>1. n - 1 \in 0..N /\ n \in 1..N /\ n - 1 \notin B
    <3>1. n \in 1..N /\ n - 1 \in 0..N /\ n - 1 < n
      <4> HIDE DEF Upto
      <4> QED BY <1>1, <1>6
    <3> HIDE DEF B
    <3> QED BY <1>4, <3>1
  <2>2. PICK f : Upto(f, n - 1)
    BY <2>1
  <2> DEFINE g == [i \in 0..n |-> IF i = n THEN f[n - 1] \o ss[n] ELSE f[i]]
  <2>3. f[n - 1] \o ss[n] \in Seq(S)
    BY <1>1, <2>1, <2>2, ConcatProperties
  <2>4. Upto(g, n)
    <3>1. g \in [0..n -> Seq(S)]
      BY <2>1, <2>2, <2>3
    <3>2. g[0] = <<>>
      BY <2>1, <2>2
    <3>3. ASSUME NEW i \in 1..n PROVE g[i] = g[i - 1] \o ss[i]
      <4>1. i - 1 \in 0..n /\ i - 1 # n /\ i \in 0..n
        BY <2>1
      <4>2. g[i - 1] = f[i - 1] /\ g[i] = IF i = n THEN f[n - 1] \o ss[n] ELSE f[i]
        BY <4>1
      <4>3. CASE i = n
        BY <4>2, <4>3
      <4>4. CASE i # n
        <5>1. i \in 1..(n - 1)
          BY <2>1, <4>4
        <5> QED BY <2>2, <4>2, <4>4, <5>1
      <4> QED BY <4>3, <4>4
    <3> HIDE DEF g
    <3> QED BY <3>1, <3>2, <3>3
  <2> HIDE DEF g
  <2> QED BY <2>4
<1> QED BY <1>5, <1>6

LEMMA FlattenType ==
    ASSUME NEW S, NEW ss \in Seq(Seq(S))
    PROVE  FlattenSeq(ss) \in Seq(S)
<1>1. PICK f : Flattens(f, ss, S)
  BY FlattenExists
<1>2. Len(ss) \in Nat /\ FlattenSeq(ss) = f[Len(ss)]
  BY <1>1, FlattenIs
<1> QED BY <1>1, <1>2 DEF Flattens

LEMMA FlattenAppend ==
    ASSUME NEW S, NEW ss \in Seq(Seq(S)), NEW s \in Seq(S)
    PROVE  FlattenSeq(Append(ss, s)) = FlattenSeq(ss) \o s
<1> DEFINE N == Len(ss)
           tt == Append(ss, s)
<1>1. PICK f : Flattens(f, ss, S)
  BY FlattenExists
<1>2. /\ N \in Nat /\ tt \in Seq(Seq(S)) /\ Len(tt) = N + 1
      /\ tt[N + 1] = s /\ \A i \in 1..N : tt[i] = ss[i]
  BY AppendProperties
<1> HIDE DEF tt
<1> DEFINE g == [i \in 0..(N + 1) |-> IF i = N + 1 THEN f[N] \o s ELSE f[i]]
<1>3. f[N] \o s \in Seq(S)
  <2>1. f \in [0..N -> Seq(S)] /\ N \in 0..N
    BY <1>1, <1>2 DEF Flattens
  <2>2. f[N] \in Seq(S)
    BY <2>1
  <2> QED BY <2>2, ConcatProperties
<1>4. Flattens(g, tt, S)
  <2>1. g \in [0..Len(tt) -> Seq(S)]
    BY <1>1, <1>2, <1>3 DEF Flattens
  <2>2. g[0] = <<>>
    BY <1>1, <1>2 DEF Flattens
  <2>3. ASSUME NEW i \in 1..Len(tt) PROVE g[i] = g[i - 1] \o tt[i]
    <3>1. /\ i \in 1..(N + 1) /\ i \in 0..(N + 1) /\ i - 1 \in 0..(N + 1)
          /\ i - 1 # N + 1 /\ N + 1 - 1 = N
      BY <1>2
    <3>2. g[i - 1] = f[i - 1] /\ g[i] = IF i = N + 1 THEN f[N] \o s ELSE f[i]
      BY <3>1
    <3>3. CASE i = N + 1
      <4>1. i - 1 = N /\ tt[i] = s
        BY <1>2, <3>3
      <4> HIDE DEF g
      <4> QED BY <3>2, <3>3, <4>1
    <3>4. CASE i # N + 1
      <4>1. i \in 1..N
        BY <1>2, <3>1, <3>4
      <4> HIDE DEF g
      <4> QED BY <1>1, <1>2, <3>2, <3>4, <4>1 DEF Flattens
    <3> QED BY <3>3, <3>4
  <2> HIDE DEF g
  <2> QED BY <2>1, <2>2, <2>3 DEF Flattens
<1>5. FlattenSeq(tt) = g[N + 1]
  <2> HIDE DEF g
  <2> QED BY <1>2, <1>4, FlattenIs
<1>6. FlattenSeq(ss) = f[N]
  BY <1>1, FlattenIs
<1> QED BY <1>2, <1>5, <1>6 DEF tt

LEMMA FlattenOne ==
    ASSUME NEW S, NEW s \in Seq(S)
    PROVE  FlattenSeq(<<s>>) = s
<1> DEFINE ss == <<s>>
           f == [i \in 0..1 |-> IF i = 0 THEN <<>> ELSE s]
<1>1. ss \in Seq(Seq(S)) /\ Len(ss) = 1 /\ ss[1] = s
  OBVIOUS
<1> HIDE DEF ss
<1>2. Flattens(f, ss, S)
  <2>1. <<>> \o s = s
    BY ConcatEmptySeq
  <2> QED BY <1>1, <2>1, EmptySeq DEF Flattens
<1>3. FlattenSeq(ss) = f[1]
  <2> HIDE DEF f
  <2> QED BY <1>1, <1>2, FlattenIs
<1> QED BY <1>3 DEF ss

----------------------------------------------------------------------------
(* Decode, one frame after the other. *)

Slices == [src : Seq(Byte), out : Seq(Byte)]

\* w[i] is what decodeDockerLogs has in src and out after i turns of its loop.
Rounds(w, src) ==
    /\ w \in [0..Len(src) -> Slices]
    /\ w[0] = [src |-> src, out |-> <<>>]
    /\ \A i \in 1..Len(src) : w[i] = Unframe(w[i - 1])

LEMMA RoundType ==
    ASSUME NEW r \in Slices
    PROVE  Unframe(r) \in Slices
<1>1. r.src \in Seq(Byte) /\ r.out \in Seq(Byte) /\ Len(r.src) \in Nat
  BY DEF Slices
<1>2. CASE Framed(r.src)
  <2> DEFINE n == Size(r.src)
             a == SubSeq(r.src, 9 + n, Len(r.src))
             b == SubSeq(r.src, 9, 8 + n)
  <2>1. n \in Nat /\ n <= Len(r.src) - 8
    <3>1. n <= Len(r.src) - 8 /\ Len(r.src) >= 8
      BY <1>2 DEF Framed
    <3>2. r.src[5] \in Nat /\ r.src[6] \in Nat /\ r.src[7] \in Nat /\ r.src[8] \in Nat
      <4>1. Byte \subseteq Nat /\ {5, 6, 7, 8} \subseteq 1..Len(r.src)
        BY <1>1, <3>1 DEF Byte
      <4> HIDE DEF n
      <4> QED BY <1>1, <4>1, ElementOfSeq
    <3>3. n \in Nat
      BY <3>2, SMT DEF Size
    <3> QED BY <3>1, <3>3
  <2> HIDE DEF n
  <2>2. a \in Seq(Byte)
    <3>1. 9 + n \in Int /\ \A i \in (9 + n)..Len(r.src) : r.src[i] \in Byte
      BY <1>1, <2>1, ElementOfSeq
    <3> QED BY <1>1, <3>1, SubSeqProperties
  <2>3. b \in Seq(Byte)
    <3>1. 8 + n \in Int /\ \A i \in 9..(8 + n) : r.src[i] \in Byte
      BY <1>1, <2>1, ElementOfSeq
    <3> QED BY <1>1, <3>1, SubSeqProperties
  <2>4. r.out \o b \in Seq(Byte)
    BY <1>1, <2>3, ConcatProperties
  <2>5. Unframe(r) = [src |-> a, out |-> r.out \o b]
    BY <1>2 DEF Unframe, n
  <2> HIDE DEF a, b
  <2> QED BY <2>2, <2>4, <2>5 DEF Slices
<1>3. CASE ~Framed(r.src)
  BY <1>3 DEF Unframe
<1> QED BY <1>2, <1>3

LEMMA RoundsExist ==
    ASSUME NEW src \in Seq(Byte)
    PROVE  \E w : Rounds(w, src)
<1> DEFINE N == Len(src)
           Upto(w, n) == /\ w \in [0..n -> Slices] /\ w[0] = [src |-> src, out |-> <<>>]
                         /\ \A i \in 1..n : w[i] = Unframe(w[i - 1])
           B == {n \in 0..N : ~\E w : Upto(w, n)}
<1>1. N \in Nat
  OBVIOUS
<1>2. SUFFICES B = {}
  <2>1. N \in 0..N
    BY <1>1
  <2>2. PICK w : Upto(w, N)
    BY <1>2, <2>1
  <2> QED BY <2>2 DEF Rounds
<1>3. SUFFICES ASSUME B # {} PROVE FALSE
  OBVIOUS
<1>4. PICK n \in B : \A m \in B : n <= m
  <2>1. B \in SUBSET Nat
    <3> HIDE DEF Upto
    <3> QED BY <1>1
  <2> HIDE DEF B
  <2> QED BY <1>3, <2>1, LeastNat
<1>5. CASE n = 0
  <2> DEFINE w == [i \in 0..0 |-> [src |-> src, out |-> <<>>]]
  <2>1. [src |-> src, out |-> <<>>] \in Slices
    BY EmptySeq DEF Slices
  <2>2. w \in [0..0 -> Slices] /\ w[0] = [src |-> src, out |-> <<>>]
    BY <2>1
  <2> HIDE DEF w
  <2>3. Upto(w, 0)
    BY <2>2
  <2> QED BY <1>5, <2>3
<1>6. CASE n # 0
  <2>1. n \in 1..N /\ n - 1 \in 0..N /\ n - 1 < n
    <3> HIDE DEF Upto
    <3> QED BY <1>1, <1>6
  <2>2. n - 1 \notin B
    <3> HIDE DEF B
    <3> QED BY <1>4, <2>1
  <2>3. PICK f : Upto(f, n - 1)
    BY <2>1, <2>2
  <2> DEFINE e == Unframe(f[n - 1])
             g == [i \in 0..n |-> IF i = n THEN e ELSE f[i]]
  <2>4. e \in Slices
    <3>1. f[n - 1] \in Slices
      BY <2>1, <2>3
    <3> QED BY <3>1, RoundType
  <2>5. Upto(g, n)
    <3>1. \A i \in 0..n : i # n => i \in 0..(n - 1)
      BY <2>1
    <3>2. g \in [0..n -> Slices]
      <4> HIDE DEF e
      <4> QED BY <2>3, <2>4, <3>1
    <3>3. g[0] = [src |-> src, out |-> <<>>]
      BY <2>1, <2>3
    <3>4. ASSUME NEW i \in 1..n PROVE g[i] = Unframe(g[i - 1])
      <4>1. i - 1 \in 0..n /\ i - 1 # n /\ i \in 0..n
        BY <2>1
      <4>2. g[i - 1] = f[i - 1] /\ g[i] = IF i = n THEN e ELSE f[i]
        BY <4>1
      <4> HIDE DEF g
      <4>3. CASE i = n
        BY <4>2, <4>3
      <4>4. CASE i # n
        <5>1. i \in 1..(n - 1)
          BY <2>1, <4>4
        <5> QED BY <2>3, <4>2, <4>4, <5>1
      <4> QED BY <4>3, <4>4
    <3> HIDE DEF g
    <3> QED BY <3>2, <3>3, <3>4
  <2> HIDE DEF g
  <2> QED BY <2>1, <2>5
<1> QED BY <1>5, <1>6

\* Unframed goes through these turns.
LEMMA UnframedRounds ==
    ASSUME NEW src \in Seq(Byte), NEW w, Rounds(w, src)
    PROVE  Unframed(src) = LET end == w[Len(src)]
                         IN IF end.out = <<>> \/ end.src # <<>> THEN end.src ELSE end.out
<1> DEFINE N == Len(src)
           F(g) == [i \in 0..N |-> IF i = 0 THEN [src |-> src, out |-> <<>>] ELSE Unframe(g[i - 1])]
           K == CHOOSE g : g = F(g)
<1>1. N \in Nat
  OBVIOUS
<1>2. Unframed(src) = LET end == K[N]
                    IN IF end.out = <<>> \/ end.src # <<>> THEN end.src ELSE end.out
  BY DEF Unframed
<1>3. w = F(w)
  <2>1. \A i \in 0..N : w[i] = F(w)[i]
    <3> SUFFICES ASSUME NEW i \in 0..N PROVE w[i] = F(w)[i]
      OBVIOUS
    <3>1. CASE i = 0
      BY <3>1 DEF Rounds
    <3>2. CASE i # 0
      <4>1. i \in 1..N
        BY <1>1, <3>2
      <4> QED BY <3>2, <4>1 DEF Rounds
    <3> QED BY <3>1, <3>2
  <2>2. w \in [0..N -> Slices]
    BY DEF Rounds
  <2> QED BY <2>1, <2>2
<1>4. K = F(K)
  <2> HIDE DEF F
  <2> QED BY <1>3
<1> HIDE DEF K
<1>5. \A i \in 0..N : K[i] = w[i]
  <2> DEFINE B == {i \in 0..N : K[i] # w[i]}
  <2>1. SUFFICES ASSUME B # {} PROVE FALSE
    OBVIOUS
  <2>2. PICK i \in B : \A j \in B : i <= j
    <3>1. B \in SUBSET Nat
      BY <1>1
    <3> HIDE DEF B
    <3> QED BY <2>1, <3>1, LeastNat
  <2>3. CASE i = 0
    <3>1. \A g : F(g)[i] = [src |-> src, out |-> <<>>]
      BY <2>3
    <3> HIDE DEF F
    <3> QED BY <1>3, <1>4, <2>2, <3>1
  <2>4. CASE i # 0
    <3>1. i - 1 \in 0..N /\ i - 1 < i
      BY <1>1, <2>4
    <3>2. K[i - 1] = w[i - 1]
      <4> HIDE DEF F
      <4> QED BY <2>2, <3>1
    <3>3. \A g : F(g)[i] = Unframe(g[i - 1])
      BY <2>4
    <3> HIDE DEF F
    <3> QED BY <1>3, <1>4, <2>2, <3>2, <3>3
  <2> QED BY <2>3, <2>4
<1>6. K[N] = w[N]
  BY <1>1, <1>5
<1> QED BY <1>2, <1>6

LEMMA UnframedType ==
    ASSUME NEW src \in Seq(Byte)
    PROVE  Unframed(src) \in Seq(Byte)
<1>1. PICK w : Rounds(w, src)
  BY RoundsExist
<1>2. w[Len(src)] \in Slices
  BY <1>1 DEF Rounds
<1> QED BY <1>1, <1>2, UnframedRounds DEF Slices

\* A length that fits in four bytes is what these bytes say.
InBytes(n) ==
    /\ n \div 16777216 \in Byte /\ (n \div 65536) % 256 \in Byte
    /\ (n \div 256) % 256 \in Byte /\ n % 256 \in Byte
    /\ n = (n \div 16777216) * 16777216 + ((n \div 65536) % 256) * 65536
           + ((n \div 256) % 256) * 256 + (n % 256)

LEMMA FourBytes ==
    ASSUME NEW n \in Nat, n \div 16777216 \in Byte
    PROVE  InBytes(n)
<1> DEFINE a == n \div 256
           b == n \div 65536
           c == n \div 16777216
<1>1. a \in Nat /\ b \in Nat /\ c \in Nat
  BY SMT
<1>2. n = a * 256 + (n % 256) /\ n % 256 \in 0..255
  BY SMT
<1>3. a = b * 256 + (a % 256) /\ a % 256 \in 0..255
  BY SMT
<1>4. b = c * 256 + (b % 256) /\ b % 256 \in 0..255
  BY SMT
<1>5. n = c * 16777216 + (b % 256) * 65536 + (a % 256) * 256 + (n % 256)
  <2>1. a % 256 \in Nat /\ b % 256 \in Nat /\ n % 256 \in Nat
    BY <1>2, <1>3, <1>4
  <2> HIDE DEF a, b, c
  <2> QED BY <1>1, <1>2, <1>3, <1>4, <2>1, SMT
<1> QED BY <1>2, <1>3, <1>4, <1>5, SMT DEF Byte, InBytes

LEMMA FrameIs ==
    ASSUME NEW st \in {1, 2}, NEW t \in Seq(Byte), Fits(t)
    PROVE  LET f == Frame(st, t)
           IN /\ f \in Seq(Byte) /\ Len(f) = Len(t) + 8 /\ f[1] = st
              /\ Size(f) = Len(t)
              /\ \A i \in 1..Len(t) : f[8 + i] = t[i]
<1> DEFINE n == Len(t)
           h == <<st, 0, 0, 0, n \div 16777216, (n \div 65536) % 256, (n \div 256) % 256, n % 256>>
           f == h \o t
<1>1. n \in Nat /\ f = Frame(st, t)
  BY SMT DEF Frame
<1>2. /\ h[5] \in Byte /\ h[6] \in Byte /\ h[7] \in Byte /\ h[8] \in Byte
      /\ Size(h) = n
  <2>1. n \div 16777216 \in Byte
    BY SMT DEF Fits
  <2>2. /\ h[5] = n \div 16777216 /\ h[6] = (n \div 65536) % 256
        /\ h[7] = (n \div 256) % 256 /\ h[8] = n % 256
    BY SMT
  <2> HIDE DEF n, h
  <2>3. InBytes(n)
    BY <1>1, <2>1, FourBytes, SMT
  <2> QED BY <2>2, <2>3, SMT DEF Size, InBytes
<1>3. h[1] = st /\ st \in Byte /\ h[2] = 0 /\ h[3] = 0 /\ h[4] = 0 /\ 0 \in Byte
  BY SMT DEF Byte
<1>4. h \in Seq(Byte) /\ Len(h) = 8
  <2> HIDE DEF n
  <2> QED BY <1>2, <1>3, SMT
<1> HIDE DEF h
<1>5. /\ f \in Seq(Byte) /\ Len(f) = 8 + n
      /\ \A i \in 1..(8 + n) : f[i] = IF i <= 8 THEN h[i] ELSE t[i - 8]
  <2>1. /\ h \o t \in Seq(Byte) /\ Len(h \o t) = Len(h) + Len(t)
        /\ \A i \in 1..(Len(h) + Len(t)) : (h \o t)[i] = IF i <= Len(h) THEN h[i] ELSE t[i - Len(h)]
    BY <1>4, ConcatProperties
  <2> QED BY <1>4, <2>1
<1> HIDE DEF f
<1>6. f[1] = h[1] /\ f[5] = h[5] /\ f[6] = h[6] /\ f[7] = h[7] /\ f[8] = h[8]
  <2> HIDE DEF n
  <2> QED BY <1>1, <1>5, SMT
<1>8. Size(f) = Size(h)
  BY <1>6, SMT DEF Size
<1>7. ASSUME NEW i \in 1..n PROVE f[8 + i] = t[i]
  <2>1. 8 + i \in 1..(8 + n) /\ ~(8 + i <= 8) /\ 8 + i - 8 = i
    BY <1>1
  <2> QED BY <1>5, <2>1
<1> QED BY <1>1, <1>2, <1>3, <1>5, <1>6, <1>7, <1>8, SMT

\* What starts with a frame loses this frame.
LEMMA TakeFrame ==
    ASSUME NEW r \in Slices, NEW st \in {1, 2},
           NEW t \in Seq(Byte), Fits(t),
           Len(t) + 8 <= Len(r.src),
           \A i \in 1..(Len(t) + 8) : r.src[i] = Frame(st, t)[i]
    PROVE  Unframe(r) = [src |-> SubSeq(r.src, 9 + Len(t), Len(r.src)), out |-> r.out \o t]
<1> DEFINE n == Len(t)
           f == Frame(st, t)
<1>1. /\ Len(f) = n + 8 /\ f[1] = st
      /\ Size(f) = n
      /\ \A i \in 1..n : f[8 + i] = t[i]
  BY FrameIs
<1>2. n \in Nat /\ r.src \in Seq(Byte) /\ Len(r.src) \in Nat
  BY DEF Slices
<1>3. n + 8 <= Len(r.src) /\ \A i \in 1..(n + 8) : r.src[i] = f[i]
  OBVIOUS
<1> HIDE DEF f, n
<1>4. /\ r.src[1] = f[1] /\ r.src[5] = f[5] /\ r.src[6] = f[6]
      /\ r.src[7] = f[7] /\ r.src[8] = f[8]
  BY <1>2, <1>3, SMT
<1>5. Size(r.src) = n
  <2>1. Size(r.src) = Size(f)
    BY <1>4, SMT DEF Size
  <2> QED BY <1>1, <2>1
<1>6. Framed(r.src)
  BY <1>1, <1>2, <1>3, <1>4, <1>5, SMT DEF Framed
<1>7. SubSeq(r.src, 9, 8 + n) = t
  <2> DEFINE s == SubSeq(r.src, 9, 8 + n)
  <2>1. \A i \in 9..(8 + n) : r.src[i] \in Byte
    BY <1>2, <1>3, ElementOfSeq
  <2>2. /\ s \in Seq(Byte) /\ Len(s) = IF 9 <= 8 + n THEN 8 + n - 9 + 1 ELSE 0
        /\ \A i \in 1..(8 + n - 9 + 1) : s[i] = r.src[9 + i - 1]
    BY <1>2, <2>1, SubSeqProperties
  <2> HIDE DEF s
  <2>3. Len(s) = n
    BY <1>2, <2>2
  <2>4. ASSUME NEW i \in 1..n PROVE s[i] = t[i]
    <3>1. i \in 1..(8 + n - 9 + 1) /\ 9 + i - 1 = 8 + i /\ 8 + i \in 1..(n + 8)
      BY <1>2
    <3> QED BY <1>1, <1>3, <2>2, <3>1, SMTT(30)
  <2>5. s = t
    BY <2>2, <2>3, <2>4, SeqEqual DEF n
  <2> QED BY <2>5 DEF s
<1> QED BY <1>5, <1>6, <1>7 DEF Unframe, n

WriteSet == [stream : {1, 2}, text : Text]

LEMMA FramesType ==
    ASSUME NEW ws \in Seq(WriteSet)
    PROVE  /\ Frames(ws) \in Seq(Seq(Byte)) /\ Len(Frames(ws)) = Len(ws)
           /\ Texts(ws) \in Seq(Seq(Byte)) /\ Len(Texts(ws)) = Len(ws)
           /\ \A i \in 1..Len(ws) :
                 /\ ws[i].stream \in {1, 2} /\ ws[i].text \in Seq(Byte) /\ Fits(ws[i].text)
                 /\ Frames(ws)[i] = Frame(ws[i].stream, ws[i].text)
                 /\ Len(Frames(ws)[i]) = Len(ws[i].text) + 8
                 /\ Texts(ws)[i] = ws[i].text
<1>1. Len(ws) \in Nat /\ \A i \in 1..Len(ws) : ws[i] \in WriteSet
  OBVIOUS
<1>2. ASSUME NEW w \in WriteSet
      PROVE  /\ w.stream \in {1, 2} /\ w.text \in Seq(Byte) /\ Fits(w.text)
             /\ Frame(w.stream, w.text) \in Seq(Byte)
             /\ Len(Frame(w.stream, w.text)) = Len(w.text) + 8
  <2>1. w.stream \in {1, 2} /\ w.text \in Text
    BY DEF WriteSet
  <2>2. w.text \in Seq(Byte) /\ Fits(w.text)
    BY <2>1, ReportAssumption
  <2> QED BY <2>1, <2>2, FrameIs
<1>3. \A i \in 1..Len(ws) :
         /\ ws[i].stream \in {1, 2} /\ ws[i].text \in Seq(Byte) /\ Fits(ws[i].text)
         /\ Frame(ws[i].stream, ws[i].text) \in Seq(Byte)
         /\ Len(Frame(ws[i].stream, ws[i].text)) = Len(ws[i].text) + 8
  BY <1>1, <1>2
<1>4. Frames(ws) \in Seq(Seq(Byte)) /\ Len(Frames(ws)) = Len(ws)
  BY <1>1, <1>3 DEF Frames
<1>5. Texts(ws) \in Seq(Seq(Byte)) /\ Len(Texts(ws)) = Len(ws)
  BY <1>1, <1>3 DEF Texts
<1>6. \A i \in 1..Len(ws) : /\ Frames(ws)[i] = Frame(ws[i].stream, ws[i].text)
                            /\ Texts(ws)[i] = ws[i].text
  BY DEF Frames, Texts
<1> QED BY <1>3, <1>4, <1>5, <1>6

LEMMA ConcatPrefix ==
    ASSUME NEW S, NEW a \in Seq(S), NEW b \in Seq(S)
    PROVE  /\ Len(a) \in Nat /\ Len(b) \in Nat /\ a \o b \in Seq(S)
           /\ Len(a \o b) = Len(a) + Len(b)
           /\ \A p \in 1..Len(a) : (a \o b)[p] = a[p]
<1>1. /\ a \o b \in Seq(S) /\ Len(a \o b) = Len(a) + Len(b)
      /\ \A p \in 1..(Len(a) + Len(b)) : (a \o b)[p] = IF p <= Len(a) THEN a[p] ELSE b[p - Len(a)]
  BY ConcatProperties
<1>2. Len(a) \in Nat /\ Len(b) \in Nat
  OBVIOUS
<1> QED BY <1>1, <1>2

\* The first i sequences come first in the whole, which is no shorter than they are
\* many if none is empty.
LEMMA FlattenPrefix ==
    ASSUME NEW S, NEW ss \in Seq(Seq(S)), NEW f, Flattens(f, ss, S),
           \A i \in 1..Len(ss) : Len(ss[i]) # 0
    PROVE  \A i \in 0..Len(ss) :
              /\ Len(f[i]) \in Nat /\ Len(f[i]) >= i
              /\ Len(f[i]) <= Len(f[Len(ss)])
              /\ \A p \in 1..Len(f[i]) : f[Len(ss)][p] = f[i][p]
<1> DEFINE N == Len(ss)
           Long(i) == Len(f[i]) >= i
           First(i) == /\ Len(f[i]) <= Len(f[N])
                       /\ \A p \in 1..Len(f[i]) : f[N][p] = f[i][p]
<1>1. /\ N \in Nat /\ f[0] = <<>>
      /\ \A i \in 0..N : f[i] \in Seq(S)
      /\ \A i \in 1..N : f[i] = f[i - 1] \o ss[i] /\ ss[i] \in Seq(S) /\ Len(ss[i]) # 0
  <2>1. N \in Nat /\ \A i \in 1..N : ss[i] \in Seq(S)
    OBVIOUS
  <2>2. f[0] = <<>> /\ \A i \in 1..N : f[i] = f[i - 1] \o ss[i]
    BY DEF Flattens
  <2>3. \A i \in 0..N : f[i] \in Seq(S)
    BY DEF Flattens
  <2>4. \A i \in 1..N : Len(ss[i]) # 0
    OBVIOUS
  <2> HIDE DEF N
  <2> QED BY <2>1, <2>2, <2>3, <2>4
<1> HIDE DEF N
<1>2. ASSUME NEW i \in 1..N
      PROVE  /\ i - 1 \in 0..N /\ i \in 0..N
             /\ Len(f[i - 1]) \in Nat /\ Len(f[i]) \in Nat /\ Len(f[i]) > Len(f[i - 1])
             /\ \A p \in 1..Len(f[i - 1]) : f[i][p] = f[i - 1][p]
  <2>1. i - 1 \in 0..N /\ i \in 0..N
    BY <1>1
  <2>2. f[i] = f[i - 1] \o ss[i]
    BY <1>1
  <2>3. ss[i] \in Seq(S) /\ Len(ss[i]) # 0 /\ f[i - 1] \in Seq(S)
    BY <1>1, <2>1
  <2> DEFINE a == f[i - 1]
             b == ss[i]
  <2>4. /\ Len(a) \in Nat /\ Len(b) \in Nat
        /\ Len(a \o b) = Len(a) + Len(b)
        /\ \A p \in 1..Len(a) : (a \o b)[p] = a[p]
    <3> HIDE DEF a, b
    <3> QED BY <2>3, ConcatPrefix DEF a, b
  <2>5. f[i] = a \o b /\ Len(b) # 0
    BY <2>2, <2>3
  <2>6. Len(f[i]) = Len(a) + Len(b) /\ \A p \in 1..Len(a) : f[i][p] = a[p]
    <3> HIDE DEF a, b
    <3> QED BY <2>4, <2>5
  <2>7. Len(f[i]) \in Nat /\ Len(f[i]) > Len(a)
    <3> HIDE DEF a, b
    <3> QED BY <2>4, <2>5, <2>6
  <2> QED BY <2>1, <2>4, <2>6, <2>7
<1>3. \A i \in 0..N : Long(i)
  <2> DEFINE B == {i \in 0..N : ~Long(i)}
  <2>1. SUFFICES ASSUME B # {} PROVE FALSE
    OBVIOUS
  <2>2. PICK i \in B : \A j \in B : i <= j
    <3>1. B \in SUBSET Nat
      BY <1>1
    <3> HIDE DEF B
    <3> QED BY <2>1, <3>1, LeastNat
  <2>3. CASE i = 0
    BY <1>1, <2>2, <2>3, EmptySeq
  <2>4. CASE i # 0
    <3>1. i \in 1..N /\ i - 1 \in 0..N /\ i - 1 < i
      BY <1>1, <2>4
    <3>2. Long(i - 1)
      <4> HIDE DEF Long
      <4> QED BY <2>2, <3>1
    <3> QED BY <1>2, <2>2, <3>1, <3>2
  <2> QED BY <2>3, <2>4
<1>4. \A i \in 0..N : First(i)
  <2> DEFINE B == {j \in 0..N : ~First(N - j)}
  <2>1. SUFFICES ASSUME B # {} PROVE FALSE
    <3>1. ASSUME NEW i \in 0..N, B = {} PROVE First(i)
      <4>1. N - i \in 0..N /\ N - (N - i) = i
        BY <1>1
      <4> HIDE DEF First
      <4> QED BY <3>1, <4>1
    <3> HIDE DEF B, First
    <3> QED BY <3>1
  <2>2. PICK j \in B : \A k \in B : j <= k
    <3>1. B \in SUBSET Nat
      BY <1>1
    <3> HIDE DEF B
    <3> QED BY <2>1, <3>1, LeastNat
  <2>3. CASE j = 0
    <3>1. First(N)
      BY <1>1
    <3>2. N - j = N /\ ~First(N - j)
      <4> HIDE DEF First
      <4> QED BY <1>1, <2>2, <2>3
    <3> QED BY <3>1, <3>2
  <2>4. CASE j # 0
    <3>1. j - 1 \in 0..N /\ j - 1 < j /\ N - (j - 1) \in 1..N /\ N - j = N - (j - 1) - 1
      BY <1>1, <2>4
    <3> DEFINE i == N - (j - 1)
    <3>2. First(i)
      <4> HIDE DEF First
      <4> QED BY <2>2, <3>1
    <3>3. i \in 1..N /\ N - j = i - 1
      BY <3>1
    <3> HIDE DEF i
    <3>4. First(i - 1)
      <4>1. N \in 0..N /\ Len(f[N]) \in Nat
        BY <1>1
      <4>2. /\ Len(f[i - 1]) \in Nat /\ Len(f[i]) \in Nat /\ Len(f[i]) > Len(f[i - 1])
            /\ \A p \in 1..Len(f[i - 1]) : f[i][p] = f[i - 1][p]
        BY <1>2, <3>3
      <4>3. Len(f[i]) <= Len(f[N]) /\ \A p \in 1..Len(f[i]) : f[N][p] = f[i][p]
        BY <3>2
      <4>4. Len(f[i - 1]) <= Len(f[N])
        BY <4>1, <4>2, <4>3
      <4>5. ASSUME NEW p \in 1..Len(f[i - 1]) PROVE f[N][p] = f[i - 1][p]
        <5>1. p \in 1..Len(f[i])
          BY <4>2
        <5> QED BY <4>2, <4>3, <5>1
      <4> QED BY <4>4, <4>5
    <3>5. ~First(i - 1)
      <4> HIDE DEF First
      <4> QED BY <2>2, <3>3
    <3> QED BY <3>4, <3>5
  <2> QED BY <2>3, <2>4
<1>5. \A i \in 0..N : Len(f[i]) \in Nat
  BY <1>1
<1> QED BY <1>3, <1>4, <1>5 DEF N

\* What is left of s after a elements.
Rest(s, a) == SubSeq(s, a + 1, Len(s))

LEMMA RestIs ==
    ASSUME NEW S, NEW s \in Seq(S), NEW a \in Nat, a <= Len(s)
    PROVE  /\ Rest(s, a) \in Seq(S) /\ Len(Rest(s, a)) = Len(s) - a
           /\ \A i \in 1..(Len(s) - a) : Rest(s, a)[i] = s[a + i]
<1> DEFINE n == Len(s)
           q == SubSeq(s, a + 1, n)
<1>1. n \in Nat /\ a + 1 \in Int /\ a <= n
  OBVIOUS
<1>2. \A i \in (a + 1)..n : s[i] \in S
  BY <1>1, ElementOfSeq
<1> HIDE DEF n
<1>3. /\ q \in Seq(S) /\ Len(q) = IF a + 1 <= n THEN n - (a + 1) + 1 ELSE 0
      /\ \A i \in 1..(n - (a + 1) + 1) : q[i] = s[a + 1 + i - 1]
  BY <1>1, <1>2, SubSeqProperties
<1> HIDE DEF q
<1>4. Len(q) = n - a
  BY <1>1, <1>3
<1>5. ASSUME NEW i \in 1..(n - a) PROVE q[i] = s[a + i]
  <2>1. i \in 1..(n - (a + 1) + 1) /\ a + 1 + i - 1 = a + i
    BY <1>1
  <2> QED BY <1>3, <2>1
<1> QED BY <1>3, <1>4, <1>5 DEF q, n, Rest

LEMMA RestOfRest ==
    ASSUME NEW S, NEW s \in Seq(S), NEW a \in Nat, NEW b \in Nat, a + b <= Len(s)
    PROVE  Rest(Rest(s, a), b) = Rest(s, a + b)
<1> DEFINE n == Len(s)
           q == Rest(s, a)
           u == Rest(q, b)
           v == Rest(s, a + b)
<1>1. n \in Nat /\ a <= n /\ b <= n - a /\ a + b \in Nat /\ a + b <= n
  OBVIOUS
<1>2. q \in Seq(S) /\ Len(q) = n - a /\ \A i \in 1..(n - a) : q[i] = s[a + i]
  BY <1>1, RestIs
<1>3. v \in Seq(S) /\ Len(v) = n - (a + b) /\ \A i \in 1..(n - (a + b)) : v[i] = s[a + b + i]
  BY <1>1, RestIs
<1> HIDE DEF q, n
<1>4. u \in Seq(S) /\ Len(u) = (n - a) - b /\ \A i \in 1..((n - a) - b) : u[i] = q[b + i]
  <2>1. b <= Len(q) /\ Len(q) = n - a
    BY <1>1, <1>2
  <2>2. /\ Rest(q, b) \in Seq(S) /\ Len(Rest(q, b)) = Len(q) - b
        /\ \A i \in 1..(Len(q) - b) : Rest(q, b)[i] = q[b + i]
    <3>1. q \in Seq(S) /\ b \in Nat /\ b <= Len(q)
      BY <1>2, <2>1
    <3> QED BY <3>1, RestIs
  <2> QED BY <2>1, <2>2
<1> HIDE DEF u, v
<1>5. Len(u) = Len(v) /\ Len(u) = n - (a + b)
  BY <1>1, <1>3, <1>4
<1>6. ASSUME NEW i \in 1..(n - (a + b)) PROVE u[i] = v[i]
  <2>1. i \in 1..((n - a) - b) /\ b + i \in 1..(n - a) /\ a + (b + i) = a + b + i
    BY <1>1
  <2> QED BY <1>2, <1>3, <1>4, <2>1
<1>7. u = v
  BY <1>3, <1>4, <1>5, <1>6, SeqEqual
<1> QED BY <1>7 DEF u, v, q

\* Writes in frames decode to the text of the writes.
LEMMA UnframedFrames ==
    ASSUME NEW ws \in Seq(WriteSet)
    PROVE  Unframed(FlattenSeq(Frames(ws))) = FlattenSeq(Texts(ws))
<1> DEFINE N == Len(ws)
           fr == Frames(ws)
           tx == Texts(ws)
<1>1. N \in Nat
  OBVIOUS
<1>2. /\ fr \in Seq(Seq(Byte)) /\ Len(fr) = N
      /\ tx \in Seq(Seq(Byte)) /\ Len(tx) = N
      /\ \A i \in 1..N :
            /\ ws[i].stream \in {1, 2} /\ ws[i].text \in Seq(Byte) /\ Fits(ws[i].text)
            /\ fr[i] = Frame(ws[i].stream, ws[i].text)
            /\ Len(fr[i]) = Len(ws[i].text) + 8
            /\ tx[i] = ws[i].text
  BY FramesType
<1> HIDE DEF N, fr, tx
<1>3. PICK f : Flattens(f, fr, Byte)
  BY <1>2, FlattenExists
<1>4. PICK g : Flattens(g, tx, Byte)
  BY <1>2, FlattenExists
<1> DEFINE whole == f[N]
           L == Len(whole)
<1>5. FlattenSeq(fr) = whole /\ FlattenSeq(tx) = g[N]
  BY <1>2, <1>3, <1>4, FlattenIs
<1>6. /\ \A i \in 0..N : f[i] \in Seq(Byte) /\ g[i] \in Seq(Byte)
      /\ f[0] = <<>> /\ g[0] = <<>>
      /\ \A i \in 1..N : f[i] = f[i - 1] \o fr[i] /\ g[i] = g[i - 1] \o tx[i]
  BY <1>2, <1>3, <1>4 DEF Flattens
<1>7. \A i \in 1..N : /\ Len(ws[i].text) \in Nat /\ fr[i] \in Seq(Byte) /\ Len(fr[i]) # 0
  <2> SUFFICES ASSUME NEW i \in 1..N
               PROVE  Len(ws[i].text) \in Nat /\ fr[i] \in Seq(Byte) /\ Len(fr[i]) # 0
    OBVIOUS
  <2>1. ws[i].text \in Seq(Byte) /\ Len(fr[i]) = Len(ws[i].text) + 8 /\ i \in 1..Len(fr)
    BY <1>2
  <2>2. Len(ws[i].text) \in Nat
    BY <2>1
  <2>3. fr[i] \in Seq(Byte)
    BY <1>2, <2>1, ElementOfSeq
  <2> QED BY <2>1, <2>2, <2>3
<1>8. \A i \in 0..N : /\ Len(f[i]) \in Nat /\ Len(f[i]) >= i /\ Len(f[i]) <= L
                      /\ \A p \in 1..Len(f[i]) : whole[p] = f[i][p]
  <2>1. \A i \in 1..Len(fr) : Len(fr[i]) # 0
    BY <1>2, <1>7
  <2>2. \A i \in 0..Len(fr) : /\ Len(f[i]) \in Nat /\ Len(f[i]) >= i
                               /\ Len(f[i]) <= Len(f[Len(fr)])
                               /\ \A p \in 1..Len(f[i]) : f[Len(fr)][p] = f[i][p]
    <3>1. fr \in Seq(Seq(Byte))
      BY <1>2
    <3> QED BY <1>3, <2>1, <3>1, FlattenPrefix
  <2> QED BY <1>2, <2>2
<1>9. whole \in Seq(Byte) /\ L \in Nat /\ N <= L
  BY <1>1, <1>6, <1>8
<1> HIDE DEF whole, L
<1>10. PICK w : Rounds(w, whole)
  BY <1>9, RoundsExist
<1> DEFINE Done(i) == w[i] = [src |-> Rest(whole, Len(f[i])), out |-> g[i]]
<1>11. \A i \in 1..L : w[i] = Unframe(w[i - 1])
  BY <1>10 DEF Rounds, L
<1>12. Done(0)
  <2>1. Len(f[0]) = 0 /\ Rest(whole, 0) = whole
    BY <1>6, <1>9, SubSeqFull, EmptySeq DEF Rest
  <2> QED BY <1>6, <1>10, <2>1 DEF Rounds
<1>13. ASSUME NEW i \in 1..N, Done(i - 1) PROVE Done(i)
  <2> DEFINE a == Len(f[i - 1])
             t == ws[i].text
             st == ws[i].stream
             r == w[i - 1]
  <2>1. i - 1 \in 0..N /\ i \in 0..N /\ i \in 1..L
    BY <1>1, <1>9
  <2>2. /\ t \in Seq(Byte) /\ st \in {1, 2} /\ Fits(t) /\ Len(t) \in Nat
        /\ fr[i] = Frame(st, t) /\ Len(fr[i]) = Len(t) + 8 /\ fr[i] \in Seq(Byte) /\ tx[i] = t
    BY <1>2, <1>7
  <2>3. f[i] = f[i - 1] \o fr[i] /\ g[i] = g[i - 1] \o t /\ g[i - 1] \in Seq(Byte) /\ f[i - 1] \in Seq(Byte)
    BY <1>6, <2>1, <2>2
  <2>4. a \in Nat /\ a <= L /\ Len(f[i]) <= L
    BY <1>8, <2>1
  <2>5. /\ Len(f[i]) = a + (Len(t) + 8)
        /\ \A p \in 1..(a + (Len(t) + 8)) : f[i][p] = IF p <= a THEN f[i - 1][p] ELSE fr[i][p - a]
    <3> DEFINE u == f[i - 1]
               v == fr[i]
    <3>1. /\ Len(u \o v) = Len(u) + Len(v)
          /\ \A p \in 1..(Len(u) + Len(v)) : (u \o v)[p] = IF p <= Len(u) THEN u[p] ELSE v[p - Len(u)]
      <4>1. u \in Seq(Byte) /\ v \in Seq(Byte)
        BY <2>2, <2>3
      <4> HIDE DEF u, v
      <4> QED BY <4>1, ConcatProperties
    <3>2. f[i] = u \o v /\ Len(v) = Len(t) + 8 /\ Len(u) = a
      BY <2>2, <2>3
    <3> HIDE DEF a, t
    <3> QED BY <3>1, <3>2
  <2>6. r.src = Rest(whole, a) /\ r.out = g[i - 1]
    BY <1>13
  <2>7. /\ Rest(whole, a) \in Seq(Byte) /\ Len(Rest(whole, a)) = L - a
        /\ \A p \in 1..(L - a) : Rest(whole, a)[p] = whole[a + p]
    BY <1>9, <2>4, RestIs DEF L
  <2> HIDE DEF a, t, st
  <2>8. Len(t) + 8 <= L - a /\ a + (Len(t) + 8) <= L
    BY <1>9, <2>2, <2>4, <2>5
  <2>9. ASSUME NEW p \in 1..(Len(t) + 8) PROVE r.src[p] = Frame(st, t)[p]
    <3>1. p \in 1..(L - a) /\ a + p \in 1..(a + (Len(t) + 8)) /\ ~(a + p <= a) /\ a + p - a = p
      BY <1>9, <2>2, <2>4, <2>8
    <3>2. r.src[p] = whole[a + p]
      BY <2>6, <2>7, <3>1
    <3>3. whole[a + p] = f[i][a + p]
      BY <1>8, <2>1, <2>5, <3>1
    <3>4. f[i][a + p] = fr[i][p]
      <4> DEFINE k == a + p
      <4>1. k \in 1..(a + (Len(t) + 8)) /\ ~(k <= a) /\ k - a = p
        BY <1>9, <2>2, <2>4, <3>1
      <4> HIDE DEF k
      <4>2. f[i][k] = fr[i][k - a]
        BY <2>5, <4>1
      <4>3. f[i][k] = fr[i][p]
        BY <4>1, <4>2
      <4> QED BY <4>3 DEF k
    <3> QED BY <2>2, <3>2, <3>3, <3>4
  <2>10. r \in Slices
    BY <1>10, <1>9, <2>1 DEF Rounds, L
  <2> HIDE DEF r
  <2>11. Unframe(r) = [src |-> SubSeq(r.src, 9 + Len(t), Len(r.src)), out |-> r.out \o t]
    <3>1. t \in Seq(Byte) /\ st \in {1, 2} /\ Fits(t) /\ Len(t) + 8 <= Len(r.src)
      BY <2>2, <2>6, <2>7, <2>8
    <3> QED BY <2>9, <2>10, <3>1, TakeFrame
  <2>12. SubSeq(r.src, 9 + Len(t), Len(r.src)) = Rest(whole, Len(f[i]))
    <3>1. SubSeq(r.src, 9 + Len(t), Len(r.src)) = Rest(Rest(whole, a), Len(t) + 8)
      <4>1. 9 + Len(t) = Len(t) + 8 + 1
        BY <2>2
      <4> QED BY <2>6, <4>1 DEF Rest
    <3>2. Rest(Rest(whole, a), Len(t) + 8) = Rest(whole, a + (Len(t) + 8))
      <4>1. Len(t) + 8 \in Nat
        BY <2>2
      <4> QED BY <1>9, <2>4, <2>8, <4>1, RestOfRest DEF L
    <3> QED BY <2>5, <3>1, <3>2
  <2> QED BY <1>11, <2>1, <2>3, <2>6, <2>11, <2>12 DEF r
<1>14. \A i \in 0..N : Done(i)
  <2> DEFINE B == {i \in 0..N : ~Done(i)}
  <2>1. SUFFICES ASSUME B # {} PROVE FALSE
    OBVIOUS
  <2>2. PICK i \in B : \A j \in B : i <= j
    <3>1. B \in SUBSET Nat
      <4> HIDE DEF Done
      <4> QED BY <1>1
    <3> HIDE DEF B
    <3> QED BY <2>1, <3>1, LeastNat
  <2> HIDE DEF Done
  <2>3. i \in 0..N /\ ~Done(i) /\ i # 0
    BY <1>12, <2>2
  <2>4. i \in 1..N /\ i - 1 \in 0..N /\ i - 1 < i
    BY <1>1, <2>3
  <2>5. Done(i - 1)
    BY <2>2, <2>4
  <2> QED BY <1>13, <2>3, <2>4, <2>5
<1> DEFINE end == [src |-> <<>>, out |-> g[N]]
<1>15. w[N] = end
  <2>1. N \in 0..N /\ Len(f[N]) = L
    BY <1>1 DEF whole, L
  <2>2. Rest(whole, L) = <<>>
    <3>1. L < L + 1 /\ L \in Int /\ L + 1 \in Int
      BY <1>9
    <3> QED BY <3>1, SubSeqEmpty DEF Rest, L
  <2> QED BY <1>14, <2>1, <2>2
<1>16. Unframe(end) = end
  <2>1. end.src = <<>> /\ ~(Len(<<>>) >= 8)
    BY EmptySeq
  <2>2. ~Framed(end.src)
    <3> HIDE DEF end
    <3> QED BY <2>1 DEF Framed
  <2> HIDE DEF end
  <2> QED BY <2>2 DEF Unframe
<1> HIDE DEF end, Done
<1>17. \A i \in N..L : w[i] = end
  <2> DEFINE B == {i \in N..L : w[i] # end}
  <2>1. SUFFICES ASSUME B # {} PROVE FALSE
    OBVIOUS
  <2>2. PICK i \in B : \A j \in B : i <= j
    <3>1. B \in SUBSET Nat
      BY <1>1, <1>9
    <3> HIDE DEF B
    <3> QED BY <2>1, <3>1, LeastNat
  <2>3. i \in N..L /\ w[i] # end /\ i # N
    BY <1>15, <2>2
  <2>4. i \in 1..L /\ i - 1 \in N..L /\ i - 1 < i
    BY <1>1, <1>9, <2>3
  <2>5. w[i - 1] = end
    BY <2>2, <2>4
  <2> QED BY <1>11, <1>16, <2>3, <2>4, <2>5
<1>18. w[L] = end
  BY <1>1, <1>9, <1>17
<1>19. Unframed(whole) = g[N]
  <2>1. Unframed(whole) = IF w[L].out = <<>> \/ w[L].src # <<>> THEN w[L].src ELSE w[L].out
    BY <1>9, <1>10, UnframedRounds DEF L
  <2>2. w[L].src = <<>> /\ w[L].out = g[N]
    BY <1>18 DEF end
  <2> QED BY <2>1, <2>2
<1> QED BY <1>5, <1>19 DEF fr, tx

----------------------------------------------------------------------------
(* The lines of a text. *)

Lines == Seq(Seq(Byte))

LEMMA AddByteType ==
    ASSUME NEW ls \in Lines, ls # <<>>, NEW b \in Byte
    PROVE  /\ AddByte(ls, b) \in Lines /\ AddByte(ls, b) # <<>>
           /\ Len(ls) \in Nat
           /\ b = NewLine => Len(AddByte(ls, b)) = Len(ls) + 1
           /\ b # NewLine => Len(AddByte(ls, b)) = Len(ls)
<1> DEFINE n == Len(ls)
           front == SubSeq(ls, 1, n - 1)
           last == Append(ls[n], b)
<1>1. n \in Nat /\ n # 0
  BY EmptySeq DEF Lines
<1>2. <<>> \in Seq(Byte)
  BY EmptySeq
<1>3. /\ Append(ls, <<>>) \in Lines /\ Append(ls, <<>>) # <<>>
      /\ Len(Append(ls, <<>>)) = n + 1
  BY <1>2, AppendProperties DEF Lines
<1>4. ls[n] \in Seq(Byte)
  <2>1. n \in 1..Len(ls)
    BY <1>1
  <2> QED BY <2>1, ElementOfSeq DEF Lines
<1>5. last \in Seq(Byte)
  BY <1>4, AppendProperties
<1>6. front \in Lines /\ Len(front) = n - 1
  <2>1. 1 \in Int /\ n - 1 \in Int
    BY <1>1
  <2>2. \A i \in 1..(n - 1) : ls[i] \in Seq(Byte)
    BY <1>1, ElementOfSeq DEF Lines
  <2>3. /\ front \in Seq(Seq(Byte))
        /\ Len(front) = IF 1 <= n - 1 THEN n - 1 - 1 + 1 ELSE 0
    BY <2>1, <2>2, SubSeqProperties
  <2> HIDE DEF front, n
  <2> QED BY <1>1, <2>3 DEF Lines
<1>7. AddByte(ls, b) = IF b = NewLine THEN Append(ls, <<>>) ELSE Append(front, last)
  BY DEF AddByte, Front, Last
<1> HIDE DEF front, last
<1>8. /\ Append(front, last) \in Lines /\ Append(front, last) # <<>>
      /\ Len(Append(front, last)) = n - 1 + 1
  <2>1. front \in Seq(Seq(Byte))
    BY <1>6 DEF Lines
  <2>2. /\ Append(front, last) \in Seq(Seq(Byte)) /\ Append(front, last) # <<>>
        /\ Len(Append(front, last)) = Len(front) + 1
    BY <1>5, <2>1, AppendProperties
  <2> QED BY <1>6, <2>2 DEF Lines
<1> QED BY <1>1, <1>3, <1>7, <1>8

LEMMA AddByteAt ==
    ASSUME NEW ls \in Lines, ls # <<>>, NEW b \in Byte
    PROVE  \A i \in 1..Len(AddByte(ls, b)) :
              AddByte(ls, b)[i] = IF b = NewLine THEN (IF i = Len(ls) + 1 THEN <<>> ELSE ls[i])
                                  ELSE IF i = Len(ls) THEN Append(ls[Len(ls)], b) ELSE ls[i]
<1> DEFINE n == Len(ls)
           front == SubSeq(ls, 1, n - 1)
           last == Append(ls[n], b)
           e == <<>>
<1>1. n \in Nat /\ n # 0
  BY EmptySeq DEF Lines
<1>2. CASE b = NewLine
  <2>1. e \in Seq(Byte)
    BY EmptySeq
  <2> HIDE DEF e
  <2>2. /\ Len(Append(ls, e)) = n + 1 /\ Append(ls, e)[n + 1] = e
        /\ \A i \in 1..n : Append(ls, e)[i] = ls[i]
    BY <2>1, AppendProperties DEF Lines
  <2>3. AddByte(ls, b) = Append(ls, e)
    BY <1>2 DEF AddByte, e
  <2> HIDE DEF n
  <2>4. \A i \in 1..(n + 1) : Append(ls, e)[i] = IF i = n + 1 THEN e ELSE ls[i]
    BY <1>1, <2>2
  <2> QED BY <1>2, <2>2, <2>3, <2>4 DEF n, e
<1>3. CASE b # NewLine
  <2>1. ls[n] \in Seq(Byte)
    <3>1. n \in 1..Len(ls)
      BY <1>1
    <3> QED BY <3>1, ElementOfSeq DEF Lines
  <2>2. last \in Seq(Byte)
    BY <2>1, AppendProperties
  <2>3. 1 \in Int /\ n - 1 \in Int /\ \A i \in 1..(n - 1) : ls[i] \in Seq(Byte)
    BY <1>1, ElementOfSeq DEF Lines
  <2>4. /\ front \in Seq(Seq(Byte)) /\ Len(front) = IF 1 <= n - 1 THEN n - 1 - 1 + 1 ELSE 0
        /\ \A i \in 1..(n - 1 - 1 + 1) : front[i] = ls[1 + i - 1]
    BY <2>3, SubSeqProperties
  <2>5. AddByte(ls, b) = Append(front, last)
    BY <1>3 DEF AddByte, Front, Last
  <2> HIDE DEF n, front, last
  <2>6. Len(front) = n - 1
    BY <1>1, <2>4
  <2>7. ASSUME NEW i \in 1..(n - 1) PROVE front[i] = ls[i]
    <3>1. i \in 1..(n - 1 - 1 + 1) /\ 1 + i - 1 = i
      BY <1>1
    <3> QED BY <2>4, <3>1
  <2>8. /\ Len(Append(front, last)) = n - 1 + 1 /\ Append(front, last)[n - 1 + 1] = last
        /\ \A i \in 1..(n - 1) : Append(front, last)[i] = front[i]
    BY <2>2, <2>4, <2>6, AppendProperties
  <2>9. n - 1 + 1 = n
    BY <1>1
  <2>10. \A i \in 1..n : Append(front, last)[i] = IF i = n THEN last ELSE ls[i]
    BY <1>1, <2>7, <2>8, <2>9
  <2> QED BY <1>3, <2>5, <2>8, <2>9, <2>10 DEF n, last
<1> QED BY <1>2, <1>3

\* w[i] is the lines of the first i bytes.
Splits(w, text) ==
    /\ w \in [0..Len(text) -> Lines \ {<<>>}]
    /\ w[0] = << <<>> >>
    /\ \A i \in 1..Len(text) : w[i] = AddByte(w[i - 1], text[i])

LEMMA SplitsExist ==
    ASSUME NEW text \in Seq(Byte)
    PROVE  \E w : Splits(w, text)
<1> DEFINE N == Len(text)
           Some == Lines \ {<<>>}
           Upto(w, n) == /\ w \in [0..n -> Some] /\ w[0] = << <<>> >>
                         /\ \A i \in 1..n : w[i] = AddByte(w[i - 1], text[i])
           B == {n \in 0..N : ~\E w : Upto(w, n)}
<1>1. N \in Nat
  OBVIOUS
<1>2. SUFFICES B = {}
  <2>1. N \in 0..N
    BY <1>1
  <2>2. PICK w : Upto(w, N)
    BY <1>2, <2>1
  <2> QED BY <2>2 DEF Splits
<1>3. SUFFICES ASSUME B # {} PROVE FALSE
  OBVIOUS
<1>4. PICK n \in B : \A m \in B : n <= m
  <2>1. B \in SUBSET Nat
    <3> HIDE DEF Upto
    <3> QED BY <1>1
  <2> HIDE DEF B
  <2> QED BY <1>3, <2>1, LeastNat
<1>5. CASE n = 0
  <2> DEFINE w == [i \in 0..0 |-> << <<>> >>]
  <2>1. << <<>> >> \in Some
    BY EmptySeq DEF Lines
  <2>2. w \in [0..0 -> Some] /\ w[0] = << <<>> >>
    BY <2>1
  <2> HIDE DEF w
  <2>3. Upto(w, 0)
    BY <2>2
  <2> QED BY <1>5, <2>3
<1>6. CASE n # 0
  <2>1. n \in 1..N /\ n - 1 \in 0..N /\ n - 1 < n
    <3> HIDE DEF Upto
    <3> QED BY <1>1, <1>6
  <2>2. n - 1 \notin B
    <3> HIDE DEF B
    <3> QED BY <1>4, <2>1
  <2>3. PICK f : Upto(f, n - 1)
    BY <2>1, <2>2
  <2> DEFINE e == AddByte(f[n - 1], text[n])
             g == [i \in 0..n |-> IF i = n THEN e ELSE f[i]]
  <2>4. e \in Some
    <3>1. f[n - 1] \in Lines /\ f[n - 1] # <<>> /\ text[n] \in Byte
      BY <2>1, <2>3, ElementOfSeq
    <3> QED BY <3>1, AddByteType
  <2>5. Upto(g, n)
    <3>1. \A i \in 0..n : i # n => i \in 0..(n - 1)
      BY <2>1
    <3>2. g \in [0..n -> Some]
      <4> HIDE DEF e, Some
      <4> QED BY <2>3, <2>4, <3>1
    <3>3. g[0] = << <<>> >>
      BY <2>1, <2>3
    <3>4. ASSUME NEW i \in 1..n PROVE g[i] = AddByte(g[i - 1], text[i])
      <4>1. i - 1 \in 0..n /\ i - 1 # n /\ i \in 0..n
        BY <2>1
      <4>2. g[i - 1] = f[i - 1] /\ g[i] = IF i = n THEN e ELSE f[i]
        BY <4>1
      <4> HIDE DEF g
      <4>3. CASE i = n
        BY <4>2, <4>3
      <4>4. CASE i # n
        <5>1. i \in 1..(n - 1)
          BY <2>1, <4>4
        <5> QED BY <2>3, <4>2, <4>4, <5>1
      <4> QED BY <4>3, <4>4
    <3> HIDE DEF g
    <3> QED BY <3>2, <3>3, <3>4
  <2> HIDE DEF g
  <2> QED BY <2>1, <2>5
<1> QED BY <1>5, <1>6

LEMMA SplitLinesIs ==
    ASSUME NEW text \in Seq(Byte), NEW w, Splits(w, text)
    PROVE  SplitLines(text) = w[Len(text)]
<1> DEFINE N == Len(text)
           F(g) == [i \in 0..N |-> IF i = 0 THEN << <<>> >> ELSE AddByte(g[i - 1], text[i])]
           K == CHOOSE g : g = F(g)
<1>1. N \in Nat
  OBVIOUS
<1>2. SplitLines(text) = K[N]
  BY DEF SplitLines
<1>3. w = F(w)
  <2>1. \A i \in 0..N : w[i] = F(w)[i]
    <3> SUFFICES ASSUME NEW i \in 0..N PROVE w[i] = F(w)[i]
      OBVIOUS
    <3>1. CASE i = 0
      BY <3>1 DEF Splits
    <3>2. CASE i # 0
      <4>1. i \in 1..N
        BY <1>1, <3>2
      <4> QED BY <3>2, <4>1 DEF Splits
    <3> QED BY <3>1, <3>2
  <2>2. w \in [0..N -> Lines \ {<<>>}]
    BY DEF Splits
  <2> QED BY <2>1, <2>2
<1>4. K = F(K)
  <2> HIDE DEF F
  <2> QED BY <1>3
<1> HIDE DEF K
<1>5. \A i \in 0..N : K[i] = w[i]
  <2> DEFINE B == {i \in 0..N : K[i] # w[i]}
  <2>1. SUFFICES ASSUME B # {} PROVE FALSE
    OBVIOUS
  <2>2. PICK i \in B : \A j \in B : i <= j
    <3>1. B \in SUBSET Nat
      BY <1>1
    <3> HIDE DEF B
    <3> QED BY <2>1, <3>1, LeastNat
  <2>3. CASE i = 0
    <3>1. \A g : F(g)[i] = << <<>> >>
      BY <2>3
    <3> HIDE DEF F
    <3> QED BY <1>3, <1>4, <2>2, <3>1
  <2>4. CASE i # 0
    <3>1. i - 1 \in 0..N /\ i - 1 < i
      BY <1>1, <2>4
    <3>2. K[i - 1] = w[i - 1]
      <4> HIDE DEF F
      <4> QED BY <2>2, <3>1
    <3>3. \A g : F(g)[i] = AddByte(g[i - 1], text[i])
      BY <2>4
    <3> HIDE DEF F
    <3> QED BY <1>3, <1>4, <2>2, <3>2, <3>3
  <2> QED BY <2>3, <2>4
<1> QED BY <1>1, <1>2, <1>5

\* JoinLines(ls) is FlattenSeq of this.
Marked(ls) == [i \in 1..Len(ls) |-> IF i = 1 THEN ls[1] ELSE <<NewLine>> \o ls[i]]

LEMMA MarkedType ==
    ASSUME NEW ls \in Lines
    PROVE  Marked(ls) \in Seq(Seq(Byte)) /\ Len(Marked(ls)) = Len(ls) /\ Len(ls) \in Nat
<1>1. Len(ls) \in Nat
  BY DEF Lines
<1>2. \A i \in 1..Len(ls) : ls[i] \in Seq(Byte)
  BY ElementOfSeq DEF Lines
<1>3. <<NewLine>> \in Seq(Byte)
  BY DEF NewLine, Byte
<1>4. \A i \in 1..Len(ls) : <<NewLine>> \o ls[i] \in Seq(Byte)
  <2> HIDE DEF NewLine
  <2> QED BY <1>2, <1>3, ConcatProperties
<1>5. \A i \in 1..Len(ls) : (IF i = 1 THEN ls[1] ELSE <<NewLine>> \o ls[i]) \in Seq(Byte)
  BY <1>2, <1>4
<1> QED BY <1>1, <1>5 DEF Marked

LEMMA JoinType ==
    ASSUME NEW ls \in Lines
    PROVE  JoinLines(ls) \in Seq(Byte) /\ JoinLines(ls) = FlattenSeq(Marked(ls))
<1>1. JoinLines(ls) = FlattenSeq(Marked(ls))
  BY DEF JoinLines, Marked
<1> QED BY <1>1, MarkedType, FlattenType

LEMMA JoinOne ==
    ASSUME NEW l \in Seq(Byte)
    PROVE  JoinLines(<<l>>) = l
<1> DEFINE ls == <<l>>
<1>1. ls \in Lines /\ Len(ls) = 1 /\ ls[1] = l
  BY DEF Lines
<1> HIDE DEF ls
<1>2. Marked(ls) \in Seq(Seq(Byte)) /\ Len(Marked(ls)) = 1 /\ Marked(ls)[1] = l
  BY <1>1, MarkedType DEF Marked
<1>3. Marked(ls) = <<l>>
  <2> DEFINE m == Marked(ls)
             o == <<l>>
  <2>1. o \in Seq(Seq(Byte)) /\ Len(o) = 1 /\ o[1] = l
    OBVIOUS
  <2> HIDE DEF m, o
  <2>2. m \in Seq(Seq(Byte)) /\ Len(m) = 1 /\ m[1] = l
    BY <1>2 DEF m
  <2>3. m = o
    BY <2>1, <2>2, SeqEqual
  <2> QED BY <2>3 DEF m, o
<1> QED BY <1>1, <1>3, JoinType, FlattenOne DEF ls

\* A line more: the first line as it is, another after a newline.
LEMMA MarkedAppend ==
    ASSUME NEW ls \in Lines, NEW l \in Seq(Byte)
    PROVE  Marked(Append(ls, l))
             = Append(Marked(ls), IF ls = <<>> THEN l ELSE <<NewLine>> \o l)
<1> DEFINE n == Len(ls)
           a == Append(ls, l)
           m == IF ls = <<>> THEN l ELSE <<NewLine>> \o l
           p == Marked(a)
           q == Append(Marked(ls), m)
<1>1. n \in Nat /\ Marked(ls) \in Seq(Seq(Byte)) /\ Len(Marked(ls)) = n
  BY MarkedType
<1>2. n = 0 <=> ls = <<>>
  BY EmptySeq DEF Lines
<1>3. /\ a \in Lines /\ Len(a) = n + 1 /\ a[n + 1] = l
      /\ \A i \in 1..n : a[i] = ls[i]
  BY AppendProperties DEF Lines
<1>4. m \in Seq(Byte)
  <2>1. <<NewLine>> \in Seq(Byte)
    BY DEF NewLine, Byte
  <2> HIDE DEF NewLine
  <2> QED BY <2>1, ConcatProperties
<1>5. /\ q \in Seq(Seq(Byte)) /\ Len(q) = n + 1 /\ q[n + 1] = m
      /\ \A i \in 1..n : q[i] = Marked(ls)[i]
  BY <1>1, <1>4, AppendProperties
<1> HIDE DEF a, q, n
<1>6. p \in Seq(Seq(Byte)) /\ Len(p) = n + 1
  BY <1>3, MarkedType
<1>7. ASSUME NEW i \in 1..(n + 1) PROVE p[i] = q[i]
  <2>1. p[i] = IF i = 1 THEN a[1] ELSE <<NewLine>> \o a[i]
    BY <1>3 DEF Marked
  <2>2. CASE i = n + 1
    <3>1. CASE n = 0
      BY <1>1, <1>2, <1>3, <1>5, <2>1, <2>2, <3>1
    <3>2. CASE n # 0
      <4>1. i # 1 /\ ls # <<>>
        BY <1>1, <1>2, <2>2, <3>2
      <4> QED BY <1>3, <1>5, <2>1, <2>2, <4>1
    <3> QED BY <3>1, <3>2
  <2>3. CASE i # n + 1
    <3>1. i \in 1..n /\ 1 \in 1..n
      BY <1>1, <2>3
    <3>2. Marked(ls)[i] = IF i = 1 THEN ls[1] ELSE <<NewLine>> \o ls[i]
      BY <3>1 DEF Marked, n
    <3>3. a[i] = ls[i] /\ a[1] = ls[1] /\ q[i] = Marked(ls)[i]
      BY <1>3, <1>5, <3>1
    <3> QED BY <2>1, <3>2, <3>3
  <2> QED BY <2>2, <2>3
<1> HIDE DEF p
<1>8. p = q
  BY <1>5, <1>6, <1>7, SeqEqual
<1> QED BY <1>8 DEF p, q, a

LEMMA JoinAppend ==
    ASSUME NEW ls \in Lines, NEW l \in Seq(Byte)
    PROVE  JoinLines(Append(ls, l))
             = FlattenSeq(Marked(ls)) \o (IF ls = <<>> THEN l ELSE <<NewLine>> \o l)
<1> DEFINE m == IF ls = <<>> THEN l ELSE <<NewLine>> \o l
<1>1. Append(ls, l) \in Lines
  BY AppendProperties DEF Lines
<1>2. m \in Seq(Byte)
  <2>1. <<NewLine>> \in Seq(Byte)
    BY DEF NewLine, Byte
  <2> HIDE DEF NewLine
  <2> QED BY <2>1, ConcatProperties
<1>3. Marked(Append(ls, l)) = Append(Marked(ls), m)
  BY MarkedAppend
<1>4. JoinLines(Append(ls, l)) = FlattenSeq(Append(Marked(ls), m))
  BY <1>1, <1>3, JoinType
<1> HIDE DEF m
<1>5. FlattenSeq(Append(Marked(ls), m)) = FlattenSeq(Marked(ls)) \o m
  BY <1>2, MarkedType, FlattenAppend
<1> QED BY <1>4, <1>5 DEF m

\* Joined, the lines of a byte more are the joined lines and this byte.
LEMMA JoinAddByte ==
    ASSUME NEW ls \in Lines, ls # <<>>, NEW b \in Byte
    PROVE  JoinLines(AddByte(ls, b)) = Append(JoinLines(ls), b)
<1>1. JoinLines(ls) \in Seq(Byte) /\ JoinLines(ls) = FlattenSeq(Marked(ls))
  BY JoinType
<1>2. CASE b = NewLine
  <2>1. <<>> \in Seq(Byte) /\ <<NewLine>> \in Seq(Byte)
    BY <1>2, EmptySeq
  <2>2. JoinLines(Append(ls, <<>>)) = JoinLines(ls) \o (<<NewLine>> \o <<>>)
    BY <1>1, <2>1, JoinAppend
  <2>3. <<NewLine>> \o <<>> = <<b>>
    BY <1>2, <2>1, ConcatEmptySeq
  <2>4. JoinLines(ls) \o <<b>> = Append(JoinLines(ls), b)
    BY <1>1, AppendIsConcat
  <2> QED BY <1>2, <2>2, <2>3, <2>4 DEF AddByte
<1>3. CASE b # NewLine
  <2> DEFINE n == Len(ls)
             front == SubSeq(ls, 1, n - 1)
             l == ls[n]
             A == FlattenSeq(Marked(front))
  <2>1. n \in Nat /\ n # 0 /\ n \in 1..n
    BY EmptySeq DEF Lines
  <2>2. l \in Seq(Byte)
    BY <2>1, ElementOfSeq DEF Lines
  <2>3. front \in Lines
    <3>1. 1 \in Int /\ n - 1 \in Int
      BY <2>1
    <3>2. \A i \in 1..(n - 1) : ls[i] \in Seq(Byte)
      BY <2>1, ElementOfSeq DEF Lines
    <3> QED BY <3>1, <3>2, SubSeqProperties DEF Lines
  <2>4. ls = Append(front, l)
    <3>1. SubSeq(ls, 1, n) = SubSeq(ls, 1, n - 1) \o <<ls[n]>>
      <4>1. ls \in Seq(Seq(Byte)) /\ 1 \in 1..Len(ls) /\ n \in 1..Len(ls)
        BY <2>1 DEF Lines
      <4> QED BY <4>1, SubSeqRecursiveSecond
    <3>2. SubSeq(ls, 1, n) = ls
      BY SubSeqFull DEF Lines
    <3>3. front \o <<l>> = Append(front, l)
      <4>1. front \in Seq(Seq(Byte))
        BY <2>3 DEF Lines
      <4> HIDE DEF front, l
      <4> QED BY <2>2, <4>1, AppendIsConcat
    <3>4. ls = front \o <<l>>
      BY <3>1, <3>2, Zenon
    <3> HIDE DEF front, l
    <3> QED BY <3>3, <3>4
  <2>5. AddByte(ls, b) = Append(front, Append(l, b))
    BY <1>3 DEF AddByte, Front, Last
  <2> HIDE DEF front, l
  <2>6. Append(l, b) \in Seq(Byte) /\ A \in Seq(Byte)
    BY <2>2, <2>3, AppendProperties, MarkedType, FlattenType
  <2> HIDE DEF A
  <2>7. CASE front = <<>>
    <3>1. JoinLines(ls) = A \o l /\ JoinLines(AddByte(ls, b)) = A \o Append(l, b)
      <4>1. JoinLines(Append(front, l)) = A \o l
        BY <2>2, <2>3, <2>7, JoinAppend DEF A
      <4>2. JoinLines(Append(front, Append(l, b))) = A \o Append(l, b)
        BY <2>3, <2>6, <2>7, JoinAppend DEF A
      <4> QED BY <2>4, <2>5, <4>1, <4>2
    <3> QED BY <2>2, <2>6, <3>1, AppendConcat
  <2>8. CASE front # <<>>
    <3> DEFINE m == <<NewLine>> \o l
    <3>1. <<NewLine>> \in Seq(Byte)
      BY DEF NewLine, Byte
    <3>2. m \in Seq(Byte)
      <4> HIDE DEF NewLine
      <4> QED BY <2>2, <3>1, ConcatProperties
    <3>3. <<NewLine>> \o Append(l, b) = Append(m, b)
      <4> HIDE DEF NewLine
      <4> QED BY <2>2, <3>1, AppendConcat
    <3>4. JoinLines(ls) = A \o m
      <4>1. JoinLines(Append(front, l)) = A \o m
        BY <2>2, <2>3, <2>8, JoinAppend DEF A
      <4> QED BY <2>4, <4>1
    <3>5. JoinLines(AddByte(ls, b)) = A \o Append(m, b)
      <4>1. JoinLines(Append(front, Append(l, b))) = A \o (<<NewLine>> \o Append(l, b))
        BY <2>3, <2>6, <2>8, JoinAppend DEF A
      <4> QED BY <2>5, <3>3, <4>1
    <3> HIDE DEF m
    <3> QED BY <2>6, <3>2, <3>4, <3>5, AppendConcat
  <2> QED BY <2>7, <2>8
<1> QED BY <1>2, <1>3

\* The lines from the k-th on of a byte more.
LEMMA LinesFrom ==
    ASSUME NEW ls \in Lines, NEW b \in Byte, NEW k \in 1..Len(ls)
    PROVE  LET more == AddByte(ls, b)
           IN /\ Rest(ls, k - 1) \in Lines /\ Rest(ls, k - 1) # <<>>
              /\ Rest(more, k - 1) = AddByte(Rest(ls, k - 1), b)
<1> DEFINE n == Len(ls)
           a == k - 1
           r == Rest(ls, a)
           more == AddByte(ls, b)
           p == Rest(more, a)
           q == AddByte(r, b)
<1>1. n \in Nat /\ a \in Nat /\ a < n /\ n # 0 /\ ls # <<>>
  BY EmptySeq DEF Lines
<1>2. r \in Lines /\ Len(r) = n - a /\ \A i \in 1..(n - a) : r[i] = ls[a + i]
  <2>1. a \in Nat /\ a <= Len(ls) /\ ls \in Seq(Seq(Byte))
    BY <1>1 DEF Lines
  <2> HIDE DEF a
  <2> QED BY <2>1, RestIs DEF Lines
<1>3. r # <<>>
  <2>1. n - a # 0
    BY <1>1
  <2> HIDE DEF r, n, a
  <2> QED BY <1>2, <2>1, EmptySeq
<1>4. more \in Lines /\ Len(more) = IF b = NewLine THEN n + 1 ELSE n
  BY <1>1, AddByteType
<1>5. \A i \in 1..Len(more) : more[i] = IF b = NewLine THEN (IF i = n + 1 THEN <<>> ELSE ls[i])
                                        ELSE IF i = n THEN Append(ls[n], b) ELSE ls[i]
  BY <1>1, AddByteAt
<1>6. q \in Lines /\ Len(q) = IF b = NewLine THEN (n - a) + 1 ELSE n - a
  <2> HIDE DEF r
  <2> QED BY <1>2, <1>3, AddByteType
<1>7. \A i \in 1..Len(q) : q[i] = IF b = NewLine THEN (IF i = (n - a) + 1 THEN <<>> ELSE r[i])
                                  ELSE IF i = n - a THEN Append(r[n - a], b) ELSE r[i]
  <2> HIDE DEF r
  <2>1. \A i \in 1..Len(q) : q[i] = IF b = NewLine THEN (IF i = Len(r) + 1 THEN <<>> ELSE r[i])
                                    ELSE IF i = Len(r) THEN Append(r[Len(r)], b) ELSE r[i]
    BY <1>2, <1>3, AddByteAt
  <2> QED BY <1>2, <2>1
<1> HIDE DEF more, q
<1>8. /\ p \in Lines /\ Len(p) = Len(more) - a
      /\ \A i \in 1..(Len(more) - a) : p[i] = more[a + i]
  <2>1. a <= Len(more) /\ more \in Seq(Seq(Byte))
    BY <1>1, <1>4 DEF Lines
  <2> HIDE DEF a
  <2> QED BY <1>1, <2>1, RestIs DEF Lines
<1> HIDE DEF p, r, n, a
<1>9. Len(p) = Len(q) /\ Len(q) \in Nat
  BY <1>1, <1>4, <1>6, <1>8
<1>10. ASSUME NEW i \in 1..Len(q) PROVE p[i] = q[i]
  <2>1. p[i] = more[a + i] /\ a + i \in 1..Len(more)
    BY <1>1, <1>4, <1>8, <1>9
  <2>2. CASE b = NewLine
    <3>1. CASE i = (n - a) + 1
      <4>1. a + i = n + 1
        BY <1>1, <3>1
      <4> QED BY <1>5, <1>7, <2>1, <2>2, <3>1, <4>1
    <3>2. CASE i # (n - a) + 1
      <4>1. a + i # n + 1 /\ i \in 1..(n - a)
        BY <1>1, <1>6, <2>2, <3>2
      <4>2. r[i] = ls[a + i]
        BY <1>2, <4>1
      <4> QED BY <1>5, <1>7, <2>1, <2>2, <3>2, <4>1, <4>2
    <3> QED BY <3>1, <3>2
  <2>3. CASE b # NewLine
    <3>0. i \in 1..(n - a)
      BY <1>1, <1>6, <2>3
    <3>1. CASE i = n - a
      <4>1. a + i = n /\ r[n - a] = ls[n]
        <5>1. a + i = n /\ n - a \in 1..(n - a) /\ a + (n - a) = n
          BY <1>1, <3>0, <3>1
        <5> QED BY <1>2, <5>1
      <4> QED BY <1>5, <1>7, <2>1, <2>3, <3>1, <4>1
    <3>2. CASE i # n - a
      <4>1. a + i # n
        BY <1>1, <3>0, <3>2
      <4>2. r[i] = ls[a + i]
        BY <1>2, <3>0
      <4> QED BY <1>5, <1>7, <2>1, <2>3, <3>2, <4>1, <4>2
    <3> QED BY <3>1, <3>2
  <2> QED BY <2>2, <2>3
<1>11. p = q
  BY <1>6, <1>8, <1>9, <1>10, SeqEqual DEF Lines
<1> QED BY <1>2, <1>3, <1>11 DEF p, q, r, more, a

\* Where the newlines are between p and i, counted from p.
Breaks(text, p, i) == {j \in 1..(i - p + 1) : text[p + j - 1] = NewLine}

LEMMA BreaksGrow ==
    ASSUME NEW text \in Seq(Byte), NEW p \in Nat, NEW i \in Nat, p <= i,
           IsFiniteSet(Breaks(text, p, i - 1))
    PROVE  /\ IsFiniteSet(Breaks(text, p, i))
           /\ Cardinality(Breaks(text, p, i))
                = Cardinality(Breaks(text, p, i - 1)) + (IF text[i] = NewLine THEN 1 ELSE 0)
<1> DEFINE A == Breaks(text, p, i - 1)
           x == i - p + 1
<1>1. x \notin A /\ Cardinality(A) \in Nat
  <2>1. A \subseteq 1..(i - 1 - p + 1) /\ x \notin 1..(i - 1 - p + 1)
    BY DEF Breaks
  <2>2. Cardinality(A) \in Nat
    BY FS_CardinalityType
  <2> HIDE DEF A, x
  <2> QED BY <2>1, <2>2
<1>2. p + x - 1 = i /\ x \in 1..(i - p + 1) /\ x \in Nat
  OBVIOUS
<1>3. \A j : j \in 1..(i - p + 1) <=> j \in 1..(i - 1 - p + 1) \/ j = x
  OBVIOUS
<1>4. CASE text[i] = NewLine
  <2>1. Breaks(text, p, i) = A \cup {x}
    BY <1>2, <1>3, <1>4 DEF Breaks
  <2> HIDE DEF A, x
  <2>2. IsFiniteSet(A \cup {x}) /\ Cardinality(A \cup {x}) = Cardinality(A) + 1
    BY <1>1, FS_AddElement DEF A
  <2> QED BY <1>4, <2>1, <2>2 DEF A
<1>5. CASE text[i] # NewLine
  <2>1. Breaks(text, p, i) = A
    BY <1>2, <1>3, <1>5 DEF Breaks
  <2> HIDE DEF A, x
  <2> QED BY <1>1, <1>5, <2>1 DEF A
<1> QED BY <1>4, <1>5

LEMMA SplitsFacts ==
    ASSUME NEW text \in Seq(Byte), NEW w, Splits(w, text)
    PROVE  /\ Len(text) \in Nat
           /\ w[0] = << <<>> >> /\ Len(w[0]) = 1
           /\ \A i \in 0..Len(text) : w[i] \in Lines /\ w[i] # <<>> /\ Len(w[i]) \in Nat \ {0}
           /\ \A i \in 1..Len(text) :
                 /\ i - 1 \in 0..Len(text) /\ i \in 0..Len(text) /\ text[i] \in Byte
                 /\ w[i] = AddByte(w[i - 1], text[i])
                 /\ Len(w[i]) = IF text[i] = NewLine THEN Len(w[i - 1]) + 1 ELSE Len(w[i - 1])
<1> DEFINE N == Len(text)
<1>1. N \in Nat /\ \A i \in 1..N : text[i] \in Byte
  BY ElementOfSeq
<1>2. /\ w \in [0..N -> Lines \ {<<>>}] /\ w[0] = << <<>> >>
      /\ \A i \in 1..N : w[i] = AddByte(w[i - 1], text[i])
  BY DEF Splits
<1> HIDE DEF N
<1>3. \A i \in 0..N : w[i] \in Lines /\ w[i] # <<>>
  BY <1>2
<1>4. \A ls \in Lines : ls # <<>> => Len(ls) \in Nat \ {0}
  BY EmptySeq DEF Lines
<1>5. \A i \in 0..N : Len(w[i]) \in Nat \ {0}
  BY <1>3, <1>4
<1>6. ASSUME NEW i \in 1..N
      PROVE  /\ i - 1 \in 0..N /\ i \in 0..N
             /\ Len(w[i]) = IF text[i] = NewLine THEN Len(w[i - 1]) + 1 ELSE Len(w[i - 1])
  <2>1. i - 1 \in 0..N /\ i \in 0..N
    BY <1>1
  <2>2. w[i - 1] \in Lines /\ w[i - 1] # <<>> /\ text[i] \in Byte /\ w[i] = AddByte(w[i - 1], text[i])
    BY <1>1, <1>2, <1>3, <2>1
  <2> DEFINE ls == w[i - 1]
             b == text[i]
  <2>3. ls \in Lines /\ ls # <<>> /\ b \in Byte /\ w[i] = AddByte(ls, b)
    BY <2>2
  <2> HIDE DEF ls, b
  <2>4. /\ b = NewLine => Len(AddByte(ls, b)) = Len(ls) + 1
        /\ b # NewLine => Len(AddByte(ls, b)) = Len(ls)
    BY <2>3, AddByteType
  <2>5. Len(w[i]) = IF b = NewLine THEN Len(ls) + 1 ELSE Len(ls)
    BY <2>3, <2>4
  <2> QED BY <2>1, <2>5 DEF ls, b
<1>7. Len(<< <<>> >>) = 1
  OBVIOUS
<1> QED BY <1>1, <1>2, <1>3, <1>5, <1>6, <1>7 DEF N

\* The lines that begin at p or later are the text from p on.
LEMMA LinesAfter ==
    ASSUME NEW text \in Seq(Byte), NEW w, Splits(w, text),
           NEW p \in 1..(Len(text) + 1), p = 1 \/ text[p - 1] = NewLine
    PROVE  LET k == Len(w[p - 1])
           IN \A i \in (p - 1)..Len(text) :
                 /\ k \in 1..Len(w[i])
                 /\ JoinLines(Rest(w[i], k - 1)) = SubSeq(text, p, i)
                 /\ IsFiniteSet(Breaks(text, p, i))
                 /\ Cardinality(Breaks(text, p, i)) = Len(w[i]) - k
<1> DEFINE N == Len(text)
           k == Len(w[p - 1])
           Good(i) == /\ k \in 1..Len(w[i])
                      /\ JoinLines(Rest(w[i], k - 1)) = SubSeq(text, p, i)
                      /\ IsFiniteSet(Breaks(text, p, i))
                      /\ Cardinality(Breaks(text, p, i)) = Len(w[i]) - k
<1>1. /\ N \in Nat /\ w[0] = << <<>> >> /\ Len(w[0]) = 1
      /\ \A i \in 0..N : w[i] \in Lines /\ w[i] # <<>> /\ Len(w[i]) \in Nat \ {0}
      /\ \A i \in 1..N : /\ i - 1 \in 0..N /\ i \in 0..N /\ text[i] \in Byte
                         /\ w[i] = AddByte(w[i - 1], text[i])
                         /\ Len(w[i]) = IF text[i] = NewLine THEN Len(w[i - 1]) + 1 ELSE Len(w[i - 1])
  BY SplitsFacts
<1>2. p \in Nat /\ p >= 1 /\ p - 1 \in 0..N /\ p - 1 \in Nat
  BY <1>1
<1>3. k \in Nat \ {0} /\ w[p - 1] \in Lines
  BY <1>1, <1>2
<1>4. w[p - 1][k] = <<>>
  <2>1. CASE p = 1
    BY <1>1, <2>1
  <2>2. CASE p # 1
    <3>1. p - 1 \in 1..N /\ text[p - 1] = NewLine
      BY <1>1, <1>2, <2>2
    <3> DEFINE i == p - 1
    <3> HIDE DEF i
    <3>2. i \in 1..N /\ text[i] = NewLine
      BY <3>1 DEF i
    <3>3. /\ w[i] = AddByte(w[i - 1], text[i]) /\ Len(w[i]) = Len(w[i - 1]) + 1
          /\ w[i - 1] \in Lines /\ w[i - 1] # <<>> /\ text[i] \in Byte
          /\ Len(w[i]) \in Nat \ {0} /\ Len(w[i - 1]) \in Nat
      BY <1>1, <3>2
    <3>4. \A j \in 1..Len(w[i]) : w[i][j] = IF text[i] = NewLine
             THEN (IF j = Len(w[i - 1]) + 1 THEN <<>> ELSE w[i - 1][j])
             ELSE IF j = Len(w[i - 1]) THEN Append(w[i - 1][Len(w[i - 1])], text[i]) ELSE w[i - 1][j]
      BY <3>3, AddByteAt, SMTT(30)
    <3>5. w[i][Len(w[i])] = <<>>
      <4> DEFINE n == Len(w[i])
      <4>1. n \in 1..Len(w[i]) /\ n = Len(w[i - 1]) + 1
        BY <3>3
      <4> HIDE DEF n
      <4>2. w[i][n] = <<>>
        BY <3>2, <3>4, <4>1
      <4> QED BY <4>2 DEF n
    <3> QED BY <3>5 DEF i
  <2> QED BY <2>1, <2>2
<1> HIDE DEF k, N
<1>5. Good(p - 1)
  <2> DEFINE r == Rest(w[p - 1], k - 1)
             o == << <<>> >>
  <2>1. o \in Seq(Seq(Byte)) /\ Len(o) = 1 /\ o[1] = <<>> /\ <<>> \in Seq(Byte)
    BY EmptySeq
  <2>2. r = o
    <3>1. w[p - 1] \in Seq(Seq(Byte)) /\ k - 1 \in Nat /\ k - 1 <= Len(w[p - 1]) /\ Len(w[p - 1]) = k
      BY <1>3 DEF Lines, k
    <3>2. /\ r \in Seq(Seq(Byte)) /\ Len(r) = k - (k - 1)
          /\ \A i \in 1..(k - (k - 1)) : r[i] = w[p - 1][k - 1 + i]
      <4> DEFINE v == w[p - 1]
                 a == k - 1
      <4>1. v \in Seq(Seq(Byte)) /\ a \in Nat /\ a <= Len(v) /\ Len(v) = k
        BY <3>1
      <4> HIDE DEF v, a
      <4>2. /\ Rest(v, a) \in Seq(Seq(Byte)) /\ Len(Rest(v, a)) = Len(v) - a
            /\ \A i \in 1..(Len(v) - a) : Rest(v, a)[i] = v[a + i]
        BY <4>1, RestIs
      <4> QED BY <4>1, <4>2 DEF v, a
    <3> HIDE DEF r, o
    <3>3. Len(r) = 1 /\ r[1] = <<>>
      <4>1. k - (k - 1) = 1 /\ k - 1 + 1 = k /\ 1 \in 1..1
        BY <1>3
      <4> QED BY <1>4, <3>2, <4>1
    <3> QED BY <2>1, <3>2, <3>3, SeqEqual
  <2>3. JoinLines(r) = <<>>
    BY <2>1, <2>2, JoinOne
  <2>4. SubSeq(text, p, p - 1) = <<>>
    BY <1>2, SubSeqEmpty
  <2>5. Breaks(text, p, p - 1) = {}
    <3>1. p - 1 - p + 1 = 0
      BY <1>2
    <3> QED BY <3>1 DEF Breaks
  <2>6. k \in 1..Len(w[p - 1]) /\ Len(w[p - 1]) - k = 0
    BY <1>3 DEF k
  <2> QED BY <2>3, <2>4, <2>5, <2>6, FS_EmptySet
<1>6. ASSUME NEW i \in p..N, Good(i - 1) PROVE Good(i)
  <2>1. i \in 1..N /\ i \in Nat /\ p <= i /\ i - 1 \in 0..N
    BY <1>1, <1>2
  <2>2. /\ w[i] = AddByte(w[i - 1], text[i]) /\ text[i] \in Byte
        /\ w[i - 1] \in Lines /\ w[i - 1] # <<>>
        /\ Len(w[i - 1]) \in Nat /\ Len(w[i]) \in Nat
        /\ Len(w[i]) = IF text[i] = NewLine THEN Len(w[i - 1]) + 1 ELSE Len(w[i - 1])
    BY <1>1, <2>1
  <2>3. k \in 1..Len(w[i - 1])
    BY <1>6
  <2>4. k \in 1..Len(w[i])
    BY <1>3, <2>2, <2>3
  <2>5. /\ Rest(w[i - 1], k - 1) \in Lines /\ Rest(w[i - 1], k - 1) # <<>>
        /\ Rest(w[i], k - 1) = AddByte(Rest(w[i - 1], k - 1), text[i])
    BY <2>2, <2>3, LinesFrom
  <2>6. JoinLines(Rest(w[i], k - 1)) = Append(JoinLines(Rest(w[i - 1], k - 1)), text[i])
    BY <2>2, <2>5, JoinAddByte
  <2>7. Append(SubSeq(text, p, i - 1), text[i]) = SubSeq(text, p, i)
    <3>1. p \in 1..Len(text) /\ i \in p..Len(text)
      BY <1>1, <1>2, <2>1 DEF N
    <3>2. SubSeq(text, p, i) = SubSeq(text, p, i - 1) \o <<text[i]>>
      BY <3>1, SubSeqRecursiveSecond
    <3>3. SubSeq(text, p, i - 1) \in Seq(Byte)
      <4>1. p \in Int /\ i - 1 \in Int /\ \A j \in p..(i - 1) : text[j] \in Byte
        BY <1>1, <1>2, <2>1
      <4> QED BY <4>1, SubSeqProperties
    <3> QED BY <2>2, <3>2, <3>3, AppendIsConcat
  <2>8. /\ IsFiniteSet(Breaks(text, p, i))
        /\ Cardinality(Breaks(text, p, i))
             = Cardinality(Breaks(text, p, i - 1)) + (IF text[i] = NewLine THEN 1 ELSE 0)
    BY <1>2, <1>6, <2>1, BreaksGrow
  <2>9. Cardinality(Breaks(text, p, i - 1)) = Len(w[i - 1]) - k
    BY <1>6
  <2>10. Cardinality(Breaks(text, p, i)) = Len(w[i]) - k
    BY <1>3, <2>2, <2>8, <2>9
  <2>11. JoinLines(Rest(w[i], k - 1)) = SubSeq(text, p, i)
    BY <1>6, <2>6, <2>7
  <2> QED BY <2>4, <2>8, <2>10, <2>11
<1>7. \A i \in (p - 1)..N : Good(i)
  <2> DEFINE B == {i \in (p - 1)..N : ~Good(i)}
  <2> HIDE DEF Good
  <2>1. SUFFICES ASSUME B # {} PROVE FALSE
    OBVIOUS
  <2>2. PICK i \in B : \A j \in B : i <= j
    <3>1. B \in SUBSET Nat
      BY <1>1, <1>2
    <3> HIDE DEF B
    <3> QED BY <2>1, <3>1, LeastNat
  <2>3. i \in (p - 1)..N /\ ~Good(i) /\ i # p - 1
    BY <1>5, <2>2
  <2>4. i \in p..N /\ i - 1 \in (p - 1)..N /\ i - 1 < i
    BY <1>1, <1>2, <2>3
  <2>5. Good(i - 1)
    BY <2>2, <2>4
  <2> QED BY <1>6, <2>3, <2>4, <2>5
<1> QED BY <1>7 DEF k, N

\* What logs shows of any text, for any limit.
LEMMA TailShown ==
    ASSUME NEW text \in Seq(Byte), NEW limit \in Nat \ {0}
    PROVE  TailOf(text, limit)
<1> DEFINE N == Len(text)
           Ends == {SubSeq(text, i, N) : i \in Starts(text)}
<1>1. PICK w : Splits(w, text)
  BY SplitsExist
<1>2. /\ N \in Nat /\ w[0] = << <<>> >> /\ Len(w[0]) = 1
      /\ \A i \in 0..N : w[i] \in Lines /\ w[i] # <<>> /\ Len(w[i]) \in Nat \ {0}
      /\ \A i \in 1..N : /\ i - 1 \in 0..N /\ i \in 0..N /\ text[i] \in Byte
                         /\ w[i] = AddByte(w[i - 1], text[i])
                         /\ Len(w[i]) = IF text[i] = NewLine THEN Len(w[i - 1]) + 1 ELSE Len(w[i - 1])
  BY <1>1, SplitsFacts
<1> DEFINE all == w[N]
           n == Len(all)
           K == IF n > limit THEN n - limit + 1 ELSE 1
<1>3. all \in Lines /\ all # <<>> /\ n \in Nat \ {0}
  <2>1. N \in 0..N
    BY <1>2
  <2> QED BY <1>2, <2>1
<1>4. K \in 1..n /\ K \in Nat /\ (K # 1 => K = n - limit + 1) /\ n - K < limit
  <2> HIDE DEF n
  <2> QED BY <1>3
<1> HIDE DEF K, N
\* The first place where there are K lines.
<1>5. PICK m \in 0..N : Len(w[m]) >= K /\ \A i \in 0..N : Len(w[i]) >= K => m <= i
  <2> DEFINE M == {i \in 0..N : Len(w[i]) >= K}
  <2>1. M # {} /\ M \in SUBSET Nat
    <3>1. N \in 0..N /\ Len(w[N]) >= K
      <4>1. n \in Nat /\ n >= K
        <5> HIDE DEF n
        <5> QED BY <1>3, <1>4
      <4> QED BY <1>2, <4>1
    <3>2. M \in SUBSET Nat
      BY <1>2
    <3> QED BY <3>1, <3>2
  <2>2. PICK m \in M : \A i \in M : m <= i
    <3> HIDE DEF M
    <3> QED BY <2>1, LeastNat
  <2> QED BY <2>2
<1> DEFINE p == m + 1
<1>6. Len(w[m]) = K /\ (m = 0 \/ text[m] = NewLine)
  <2>1. CASE m = 0
    <3>1. Len(w[m]) = 1 /\ K >= 1 /\ K \in Nat
      <4>1. Len(w[m]) = 1
        BY <1>2, <2>1
      <4>2. K >= 1 /\ K \in Nat
        <5> HIDE DEF n
        <5> QED BY <1>3, <1>4
      <4> QED BY <4>1, <4>2
    <3> QED BY <1>5, <2>1, <3>1
  <2>2. CASE m # 0
    <3>1. m \in 1..N /\ m - 1 \in 0..N /\ ~(m <= m - 1)
      BY <1>2, <2>2
    <3>2. ~(Len(w[m - 1]) >= K)
      BY <1>5, <3>1
    <3>3. /\ Len(w[m]) = IF text[m] = NewLine THEN Len(w[m - 1]) + 1 ELSE Len(w[m - 1])
          /\ Len(w[m]) \in Nat /\ Len(w[m - 1]) \in Nat
      BY <1>2, <3>1
    <3>4. K \in Nat
      BY <1>3, <1>4
    <3> QED BY <1>5, <3>2, <3>3, <3>4
  <2> QED BY <2>1, <2>2
<1>7. p \in 1..(N + 1) /\ p - 1 = m /\ p - 1 \in Nat /\ p \in Starts(text) /\ N \in (p - 1)..N
  <2>1. p \in 1..(N + 1) /\ p - 1 = m /\ p - 1 \in Nat /\ N \in (p - 1)..N
    BY <1>2
  <2>2. CASE m = 0
    <3>1. p = 1
      BY <2>2
    <3> HIDE DEF p
    <3> QED BY <2>1, <3>1 DEF Starts
  <2>3. CASE m # 0
    <3>1. m \in 1..Len(text) /\ text[m] = NewLine
      BY <1>2, <1>6, <2>3 DEF N
    <3>2. m \in {i \in 1..Len(text) : text[i] = NewLine}
      BY <3>1
    <3>3. p \in {i + 1 : i \in {i \in 1..Len(text) : text[i] = NewLine}}
      BY <3>2
    <3> QED BY <2>1, <3>3 DEF Starts
  <2> QED BY <2>1, <2>2, <2>3
<1> DEFINE s == SubSeq(text, p, N)
<1>8. /\ JoinLines(Rest(all, K - 1)) = s
      /\ Cardinality(Breaks(text, p, N)) = n - K
  <2>1. p \in 1..(Len(text) + 1) /\ (p = 1 \/ text[p - 1] = NewLine)
    BY <1>6, <1>7 DEF N
  <2>2. Len(w[p - 1]) = K /\ N \in (p - 1)..Len(text)
    BY <1>6, <1>7 DEF N
  <2> HIDE DEF p
  <2>3. LET k == Len(w[p - 1])
        IN \A i \in (p - 1)..Len(text) :
              /\ k \in 1..Len(w[i])
              /\ JoinLines(Rest(w[i], k - 1)) = SubSeq(text, p, i)
              /\ IsFiniteSet(Breaks(text, p, i))
              /\ Cardinality(Breaks(text, p, i)) = Len(w[i]) - k
    BY <1>1, <2>1, LinesAfter
  <2> QED BY <2>2, <2>3
<1>9. Logs(<<text>>, limit) = s \o <<NewLine>>
  <2>1. SplitLines(FlattenSeq(<<text>>)) = all
    BY <1>1, FlattenOne, SplitLinesIs DEF N
  <2>2. LastLines(all, limit) = Rest(all, K - 1)
    <3>1. K - 1 + 1 = K
      BY <1>3, <1>4
    <3>2. CASE n > limit
      BY <3>1, <3>2 DEF LastLines, Rest, K
    <3>3. CASE ~(n > limit)
      <4>1. SubSeq(all, 1, Len(all)) = all
        BY <1>3, SubSeqFull DEF Lines
      <4> QED BY <3>1, <3>3, <4>1 DEF LastLines, Rest, K
    <3> QED BY <3>2, <3>3
  <2> QED BY <1>8, <2>1, <2>2 DEF Logs
<1>10. ASSUME NEW q \in Starts(text)
       PROVE  LET r == SubSeq(text, q, N)
              IN /\ q \in 1..(N + 1) /\ Len(r) = N - q + 1
                 /\ NewLines(r) = n - Len(w[q - 1])
                 /\ Len(w[q - 1]) \in Nat /\ q - 1 \in 0..N
  <2> DEFINE r == SubSeq(text, q, N)
  <2>1. q \in 1..(N + 1) /\ (q = 1 \/ text[q - 1] = NewLine)
    <3>1. CASE q = 1
      BY <1>2, <3>1
    <3>2. CASE q # 1
      <4>1. PICK i \in 1..N : text[i] = NewLine /\ q = i + 1
        BY <3>2 DEF Starts, N
      <4>2. q - 1 = i
        BY <4>1
      <4> QED BY <1>2, <4>1, <4>2
    <3> QED BY <3>1, <3>2
  <2>2. q - 1 \in 0..N /\ N \in (q - 1)..N /\ q \in Nat
    BY <1>2, <2>1
  <2>3. Cardinality(Breaks(text, q, N)) = n - Len(w[q - 1])
    <3>1. LET k == Len(w[q - 1])
          IN \A i \in (q - 1)..Len(text) :
                /\ k \in 1..Len(w[i])
                /\ JoinLines(Rest(w[i], k - 1)) = SubSeq(text, q, i)
                /\ IsFiniteSet(Breaks(text, q, i))
                /\ Cardinality(Breaks(text, q, i)) = Len(w[i]) - k
      BY <1>1, <2>1, LinesAfter DEF N
    <3> QED BY <2>2, <3>1 DEF N
  <2>4. Len(r) = N - q + 1 /\ \A i \in 1..(N - q + 1) : r[i] = text[q + i - 1]
    <3>1. q \in Int /\ N \in Int /\ \A i \in q..N : text[i] \in Byte
      BY <1>2, <2>1
    <3>2. /\ Len(r) = IF q <= N THEN N - q + 1 ELSE 0
          /\ \A i \in 1..(N - q + 1) : r[i] = text[q + i - 1]
      BY <3>1, SubSeqProperties
    <3> HIDE DEF r
    <3> QED BY <1>2, <2>1, <3>2
  <2> HIDE DEF r
  <2>5. {i \in 1..Len(r) : r[i] = NewLine} = Breaks(text, q, N)
    BY <2>4 DEF Breaks
  <2>6. NewLines(r) = n - Len(w[q - 1])
    BY <2>3, <2>5 DEF NewLines
  <2> QED BY <1>2, <2>1, <2>2, <2>4, <2>6 DEF r
<1> HIDE DEF all, n, p
<1>11. NewLines(s) < limit /\ Len(s) = N - p + 1
  <2>1. NewLines(s) = n - Len(w[p - 1]) /\ Len(s) = N - p + 1
    BY <1>7, <1>10
  <2> HIDE DEF s
  <2> QED BY <1>4, <1>6, <1>7, <2>1
<1>12. ASSUME NEW r \in Ends, NewLines(r) < limit PROVE Len(r) <= Len(s)
  <2>1. PICK q \in Starts(text) : r = SubSeq(text, q, N)
    OBVIOUS
  <2>2. /\ q \in 1..(N + 1) /\ Len(r) = N - q + 1
        /\ NewLines(r) = n - Len(w[q - 1])
        /\ Len(w[q - 1]) \in Nat /\ q - 1 \in 0..N
    BY <1>10, <2>1
  <2> HIDE DEF Ends, s
  <2>3. Len(w[q - 1]) >= K
    <3>1. n - Len(w[q - 1]) < limit /\ Len(w[q - 1]) # 0
      BY <1>2, <1>12, <2>2
    <3>2. n \in Nat
      BY <1>3
    <3> DEFINE l == Len(w[q - 1])
    <3>3. l \in Nat /\ n - l < limit /\ l # 0
      BY <2>2, <3>1
    <3>4. K \in Nat /\ (K # 1 => K = n - limit + 1)
      BY <1>4
    <3> HIDE DEF l
    <3>5. l >= K
      BY <3>2, <3>3, <3>4
    <3> QED BY <3>5 DEF l
  <2>4. m <= q - 1
    BY <1>5, <2>2, <2>3
  <2> QED BY <1>2, <1>7, <1>11, <2>2, <2>4
<1>13. s \in Ends
  BY <1>7
<1> HIDE DEF s
<1>14. TailOf(text, limit) <=> \E x \in Ends : /\ Logs(<<text>>, limit) = x \o <<NewLine>>
                                               /\ NewLines(x) < limit
                                               /\ \A r \in Ends : NewLines(r) < limit => Len(r) <= Len(x)
  BY DEF TailOf, N
<1> HIDE DEF Ends
<1> QED BY <1>9, <1>11, <1>12, <1>13, <1>14

----------------------------------------------------------------------------
(* UTF-8. *)

\* Each byte belongs to a rune.
ValidText(s) == Runes(s) = 1..Len(s)

\* A rune of n bytes starts at i.
IsRune(s, i, n) ==
    /\ n = RuneLen(s[i])
    /\ i + n - 1 <= Len(s)
    /\ n > 1 => s[i + 1] \in Second(s[i])
    /\ \A k \in (i + 2)..(i + n - 1) : s[k] \in 128..191

\* How a rune starts, no rune goes on.
LEMMA RuneBytes ==
    ASSUME NEW b \in Byte
    PROVE  /\ RuneLen(b) \in 0..4
           /\ RuneLen(b) > 0 => b \notin 128..191
           /\ Second(b) \subseteq 128..191
<1>1. RuneLen(b) \in 0..4 /\ (RuneLen(b) > 0 => b \notin 128..191)
  BY DEF RuneLen, Byte
<1>2. Second(b) \subseteq 128..191
  BY DEF Second
<1> QED BY <1>1, <1>2

LEMMA RunesAre ==
    ASSUME NEW s \in Seq(Byte)
    PROVE  \A p : p \in Runes(s) <=> \E i \in 1..Len(s), n \in 1..4 : IsRune(s, i, n) /\ p \in i..(i + n - 1)
<1>1. ASSUME NEW i \in 1..Len(s)
      PROVE  /\ RuneLen(s[i]) \in 0..4
             /\ RuneAt(s, i) = IF IsRune(s, i, RuneLen(s[i])) THEN i..(i + RuneLen(s[i]) - 1) ELSE {}
  <2>1. s[i] \in Byte
    BY ElementOfSeq
  <2> QED BY <2>1, RuneBytes DEF RuneAt, IsRune
<1>2. ASSUME NEW p, p \in Runes(s)
      PROVE  \E i \in 1..Len(s), n \in 1..4 : IsRune(s, i, n) /\ p \in i..(i + n - 1)
  <2>1. PICK i \in 1..Len(s) : p \in RuneAt(s, i)
    BY <1>2 DEF Runes
  <2> DEFINE n == RuneLen(s[i])
  <2>2. n \in 0..4 /\ IsRune(s, i, n) /\ p \in i..(i + n - 1)
    BY <1>1, <2>1
  <2> HIDE DEF n
  <2>3. n \in 1..4
    BY <2>2
  <2> QED BY <2>2, <2>3
<1>3. ASSUME NEW p, NEW i \in 1..Len(s), NEW n \in 1..4, IsRune(s, i, n), p \in i..(i + n - 1)
      PROVE  p \in Runes(s)
  <2>1. n = RuneLen(s[i])
    BY <1>3 DEF IsRune
  <2>2. p \in RuneAt(s, i)
    BY <1>1, <1>3, <2>1
  <2> QED BY <2>2 DEF Runes
<1> QED BY <1>2, <1>3

LEMMA RunesWithin ==
    ASSUME NEW s \in Seq(Byte)
    PROVE  /\ Runes(s) \subseteq 1..Len(s)
           /\ (\A p \in 1..Len(s) : \E i \in 1..Len(s), n \in 1..4 : IsRune(s, i, n) /\ p \in i..(i + n - 1))
                <=> ValidText(s)
<1>1. Len(s) \in Nat
  BY LenProperties
<1>2. ASSUME NEW p \in Runes(s) PROVE p \in 1..Len(s)
  <2>1. PICK i \in 1..Len(s), n \in 1..4 : IsRune(s, i, n) /\ p \in i..(i + n - 1)
    BY RunesAre
  <2>2. i + n - 1 <= Len(s)
    BY <2>1 DEF IsRune
  <2> QED BY <1>1, <2>1, <2>2
<1> QED BY <1>2, RunesAre DEF ValidText

\* Two valid texts make one.
LEMMA ValidConcat ==
    ASSUME NEW a \in Seq(Byte), NEW b \in Seq(Byte), ValidText(a), ValidText(b)
    PROVE  ValidText(a \o b)
<1> DEFINE c == a \o b
<1>1. /\ c \in Seq(Byte) /\ Len(a) \in Nat /\ Len(b) \in Nat /\ Len(c) = Len(a) + Len(b)
      /\ \A i \in 1..(Len(a) + Len(b)) : c[i] = IF i <= Len(a) THEN a[i] ELSE b[i - Len(a)]
  BY ConcatProperties, LenProperties
<1> HIDE DEF c
<1>2. ASSUME NEW i \in 1..Len(a), NEW n \in 1..4, IsRune(a, i, n) PROVE IsRune(c, i, n)
  <2>1. n = RuneLen(a[i]) /\ i + n - 1 <= Len(a)
    BY <1>2 DEF IsRune
  <2>2. \A k \in i..(i + n - 1) : c[k] = a[k]
    BY <1>1, <2>1
  <2>3. c[i] = a[i] /\ i + n - 1 <= Len(c)
    BY <1>1, <2>1, <2>2
  <2>4. n > 1 => c[i + 1] = a[i + 1]
    BY <2>2
  <2>5. \A k \in (i + 2)..(i + n - 1) : c[k] = a[k]
    BY <2>2
  <2> QED BY <1>2, <2>1, <2>3, <2>4, <2>5 DEF IsRune
<1>3. ASSUME NEW i \in 1..Len(b), NEW n \in 1..4, IsRune(b, i, n) PROVE IsRune(c, i + Len(a), n)
  <2> DEFINE m == i + Len(a)
  <2>1. n = RuneLen(b[i]) /\ i + n - 1 <= Len(b)
    BY <1>3 DEF IsRune
  <2>2. m \in Nat /\ m + n - 1 <= Len(c) /\ m - Len(a) = i /\ m > Len(a)
    BY <1>1, <2>1
  <2> HIDE DEF m
  <2>3. \A k \in m..(m + n - 1) : c[k] = b[k - Len(a)]
    BY <1>1, <2>2
  <2>4. c[m] = b[i]
    <3>1. m \in m..(m + n - 1)
      BY <2>2
    <3> QED BY <2>2, <2>3, <3>1
  <2>5. n > 1 => c[m + 1] = b[i + 1]
    <3>1. n > 1 => m + 1 \in m..(m + n - 1)
      BY <2>2
    <3>2. (m + 1) - Len(a) = i + 1
      BY <1>1, <2>2
    <3>3. n > 1 => c[m + 1] = b[(m + 1) - Len(a)]
      BY <2>3, <3>1
    <3> QED BY <3>2, <3>3
  <2>6. ASSUME NEW k \in (m + 2)..(m + n - 1) PROVE c[k] \in 128..191
    <3>1. k \in m..(m + n - 1) /\ k - Len(a) \in (i + 2)..(i + n - 1)
      <4>1. k \in Int /\ m + 2 <= k /\ k <= m + n - 1 /\ Len(a) \in Nat
        BY <1>1, <2>2
      <4> QED BY <2>2, <4>1
    <3>2. c[k] = b[k - Len(a)]
      BY <2>3, <3>1
    <3>3. b[k - Len(a)] \in 128..191
      BY <1>3, <3>1 DEF IsRune
    <3> QED BY <3>2, <3>3
  <2>7. IsRune(c, m, n)
    BY <1>3, <2>1, <2>2, <2>4, <2>5, <2>6 DEF IsRune
  <2> QED BY <2>7 DEF m
<1>4. ASSUME NEW p \in 1..Len(c)
      PROVE  \E i \in 1..Len(c), n \in 1..4 : IsRune(c, i, n) /\ p \in i..(i + n - 1)
  <2>1. CASE p <= Len(a)
    <3>0. \A q \in 1..Len(a) : \E i \in 1..Len(a), n \in 1..4 : IsRune(a, i, n) /\ q \in i..(i + n - 1)
      BY RunesWithin
    <3>4. p \in 1..Len(a)
      BY <1>1, <2>1
    <3>1. PICK i \in 1..Len(a), n \in 1..4 : IsRune(a, i, n) /\ p \in i..(i + n - 1)
      BY <3>0, <3>4
    <3>2. i \in 1..Len(c)
      BY <1>1
    <3> QED BY <1>2, <3>1, <3>2
  <2>2. CASE p > Len(a)
    <3>0. p - Len(a) \in 1..Len(b)
      BY <1>1, <2>2
    <3>4. \A q \in 1..Len(b) : \E i \in 1..Len(b), n \in 1..4 : IsRune(b, i, n) /\ q \in i..(i + n - 1)
      BY RunesWithin
    <3>1. PICK i \in 1..Len(b), n \in 1..4 : IsRune(b, i, n) /\ p - Len(a) \in i..(i + n - 1)
      BY <3>0, <3>4
    <3>2. i + Len(a) \in 1..Len(c) /\ p \in (i + Len(a))..(i + Len(a) + n - 1)
      BY <1>1, <3>1
    <3> QED BY <1>3, <3>1, <3>2
  <2> QED BY <1>1, <2>1, <2>2
<1>5. ValidText(c)
  BY <1>1, <1>4, RunesWithin
<1> QED BY <1>5 DEF c

LEMMA EmptyValid == ValidText(<<>>)
<1>1. <<>> \in Seq(Byte) /\ 1..Len(<<>>) = {}
  BY EmptySeq
<1>2. Runes(<<>>) \subseteq {}
  BY <1>1, RunesWithin
<1> QED BY <1>1, <1>2 DEF ValidText

LEMMA ReplacementValid == Replacement \in Seq(Byte) /\ ValidText(Replacement) /\ Storable(Replacement)
<1>1. /\ Replacement \in Seq(Byte) /\ Len(Replacement) = 3
      /\ Replacement[1] = 239 /\ Replacement[2] = 191 /\ Replacement[3] = 189
  BY DEF Replacement, Byte
<1>2. IsRune(Replacement, 1, 3)
  <2>1. RuneLen(239) = 3
    BY DEF RuneLen
  <2>2. 191 \in Second(239)
    BY DEF Second
  <2>3. \A k \in (1 + 2)..(1 + 3 - 1) : k = 3
    OBVIOUS
  <2> QED BY <1>1, <2>1, <2>2, <2>3 DEF IsRune
<1>3. ValidText(Replacement)
  <2>1. \A p \in 1..Len(Replacement) : p \in 1..(1 + 3 - 1)
    BY <1>1
  <2>2. 1 \in 1..Len(Replacement) /\ 3 \in 1..4
    BY <1>1
  <2>3. \A p \in 1..Len(Replacement) : \E i \in 1..Len(Replacement), n \in 1..4 :
            IsRune(Replacement, i, n) /\ p \in i..(i + n - 1)
    <3> HIDE DEF IsRune, Replacement
    <3> QED BY <1>2, <2>1, <2>2
  <2>4. Replacement \in Seq(Byte)
    BY <1>1
  <2> HIDE DEF IsRune, Replacement
  <2> QED BY <2>3, <2>4, RunesWithin
<1>4. Storable(Replacement)
  BY <1>1 DEF Storable, NUL
<1> QED BY <1>1, <1>3, <1>4

Pieces(s) == [i \in 1..Len(s) |-> Piece(s, Runes(s), i)]

LEMMA PiecesType ==
    ASSUME NEW s \in Seq(Byte)
    PROVE  /\ Pieces(s) \in Seq(Seq(Byte)) /\ Len(Pieces(s)) = Len(s)
           /\ \A i \in 1..Len(s) : Pieces(s)[i] = Piece(s, Runes(s), i)
           /\ ToValid(s) = FlattenSeq(Pieces(s))
<1>1. Len(s) \in Nat
  BY LenProperties
<1>2. ASSUME NEW i \in 1..Len(s) PROVE Piece(s, Runes(s), i) \in Seq(Byte)
  <2>1. s[i] \in Byte
    BY ElementOfSeq
  <2>2. <<s[i]>> \in Seq(Byte) /\ <<>> \in Seq(Byte)
    BY <2>1, EmptySeq
  <2> QED BY <2>2, ReplacementValid DEF Piece
<1>3. Pieces(s) \in Seq(Seq(Byte)) /\ Len(Pieces(s)) = Len(s)
  BY <1>1, <1>2 DEF Pieces
<1>4. \A i \in 1..Len(s) : Pieces(s)[i] = Piece(s, Runes(s), i)
  BY DEF Pieces
<1> QED BY <1>3, <1>4 DEF ToValid, Pieces

LEMMA ToValidType ==
    ASSUME NEW s \in Seq(Byte)
    PROVE  ToValid(s) \in Seq(Byte)
BY PiecesType, FlattenType

LEMMA DecodeType ==
    ASSUME NEW src \in Seq(Byte)
    PROVE  Decode(src) \in Seq(Byte)
BY UnframedType, ToValidType DEF Decode

\* A valid text stays as it is.
LEMMA ValidKept ==
    ASSUME NEW s \in Seq(Byte), ValidText(s)
    PROVE  ToValid(s) = s
<1> DEFINE N == Len(s)
           f == [i \in 0..N |-> SubSeq(s, 1, i)]
<1>1. N \in Nat /\ \A i \in 1..N : s[i] \in Byte
  BY LenProperties, ElementOfSeq
<1>2. \A i \in 1..N : Pieces(s)[i] = <<s[i]>>
  BY PiecesType DEF Piece, ValidText
<1>3. Flattens(f, Pieces(s), Byte)
  <2>1. \A i \in 0..N : SubSeq(s, 1, i) \in Seq(Byte)
    BY <1>1
  <2>2. SubSeq(s, 1, 0) = <<>>
    OBVIOUS
  <2>3. ASSUME NEW i \in 1..N PROVE SubSeq(s, 1, i) = SubSeq(s, 1, i - 1) \o <<s[i]>>
    BY <1>1
  <2>4. f \in [0..N -> Seq(Byte)]
    BY <2>1
  <2>5. f[0] = <<>>
    BY <1>1, <2>2
  <2>6. ASSUME NEW i \in 1..N PROVE f[i] = f[i - 1] \o Pieces(s)[i]
    <3>1. i \in 0..N /\ i - 1 \in 0..N
      BY <1>1
    <3> QED BY <1>2, <2>3, <3>1
  <2>7. Len(Pieces(s)) = N
    BY PiecesType
  <2> HIDE DEF f, N
  <2> QED BY <2>4, <2>5, <2>6, <2>7 DEF Flattens
<1>4. FlattenSeq(Pieces(s)) = f[N]
  <2>1. Pieces(s) \in Seq(Seq(Byte)) /\ Len(Pieces(s)) = N
    BY PiecesType
  <2> HIDE DEF f, N
  <2> QED BY <1>3, <2>1, FlattenIs
<1>5. f[N] = s
  BY <1>1
<1> QED BY <1>4, <1>5, PiecesType

\* The bytes of a rune after its first.
LEMMA RuneInside ==
    ASSUME NEW s \in Seq(Byte), NEW i \in 1..Len(s), NEW n \in 1..4, IsRune(s, i, n),
           NEW k \in (i + 1)..(i + n - 1)
    PROVE  s[k] \in 128..191
<1>1. Len(s) \in Nat /\ i + n - 1 <= Len(s)
  BY LenProperties DEF IsRune
<1>2. CASE k = i + 1
  <2>1. n > 1 /\ s[i] \in Byte
    BY <1>1, <1>2, ElementOfSeq
  <2>2. s[i + 1] \in Second(s[i])
    BY <2>1 DEF IsRune
  <2> QED BY <1>2, <2>1, <2>2, RuneBytes
<1>3. CASE k # i + 1
  <2>1. k \in (i + 2)..(i + n - 1)
    BY <1>3
  <2> QED BY <2>1 DEF IsRune
<1> QED BY <1>2, <1>3

\* A rune by itself is a valid text.
LEMMA RuneText ==
    ASSUME NEW s \in Seq(Byte), NEW i \in 1..Len(s), NEW n \in 1..4, IsRune(s, i, n)
    PROVE  SubSeq(s, i, i + n - 1) \in Seq(Byte) /\ ValidText(SubSeq(s, i, i + n - 1))
<1> DEFINE r == SubSeq(s, i, i + n - 1)
<1>1. Len(s) \in Nat /\ i + n - 1 <= Len(s) /\ n = RuneLen(s[i])
  BY LenProperties DEF IsRune
<1>2. r \in Seq(Byte) /\ Len(r) = n /\ \A k \in 1..n : r[k] = s[i + k - 1]
  BY <1>1
<1> HIDE DEF r
<1>3. IsRune(r, 1, n)
  <2>1. r[1] = s[i]
    BY <1>2
  <2>2. n > 1 => r[2] = s[i + 1]
    BY <1>2
  <2>3. ASSUME NEW k \in (1 + 2)..(1 + n - 1) PROVE r[k] \in 128..191
    <3>1. k \in 1..n /\ i + k - 1 \in (i + 1)..(i + n - 1)
      OBVIOUS
    <3>2. s[i + k - 1] \in 128..191
      BY <3>1, RuneInside
    <3> QED BY <1>2, <3>1, <3>2
  <2>4. n > 1 => s[i + 1] \in Second(s[i])
    BY DEF IsRune
  <2>5. n > 1 => r[1 + 1] \in Second(r[1])
    BY <2>1, <2>2, <2>4
  <2>6. 1 + n - 1 <= Len(r) /\ n = RuneLen(r[1])
    BY <1>1, <1>2, <2>1
  <2> QED BY <2>3, <2>5, <2>6 DEF IsRune
<1>4. \A p \in 1..Len(r) : \E j \in 1..Len(r), m \in 1..4 : IsRune(r, j, m) /\ p \in j..(j + m - 1)
  <2>1. 1 \in 1..Len(r) /\ \A p \in 1..Len(r) : p \in 1..(1 + n - 1)
    BY <1>2
  <2> HIDE DEF IsRune
  <2> QED BY <1>3, <2>1
<1>5. ValidText(r)
  BY <1>2, <1>4, RunesWithin
<1> QED BY <1>2, <1>5 DEF r

\* The bytes of a rune come through together.
LEMMA RunePieces ==
    ASSUME NEW s \in Seq(Byte), NEW i \in 1..Len(s), NEW n \in 1..4, IsRune(s, i, n),
           NEW f, Flattens(f, Pieces(s), Byte)
    PROVE  f[i + n - 1] = f[i - 1] \o SubSeq(s, i, i + n - 1)
<1> DEFINE N == Len(s)
           D(m) == f[i - 1 + m] = f[i - 1] \o SubSeq(s, i, i - 1 + m)
<1>1. N \in Nat /\ i + n - 1 <= N
  BY LenProperties DEF IsRune
<1>2. /\ \A k \in 0..N : f[k] \in Seq(Byte)
      /\ \A k \in 1..N : f[k] = f[k - 1] \o Piece(s, Runes(s), k)
  BY PiecesType DEF Flattens
<1>3. ASSUME NEW k \in i..(i + n - 1) PROVE k \in 1..N /\ Piece(s, Runes(s), k) = <<s[k]>> /\ s[k] \in Byte
  <2>1. k \in 1..N
    BY <1>1
  <2>2. k \in Runes(s)
    BY RunesAre
  <2> QED BY <2>1, <2>2, ElementOfSeq DEF Piece
<1>4. D(0)
  <2>1. i - 1 \in 0..N /\ i - 1 + 0 = i - 1
    BY <1>1
  <2>2. SubSeq(s, i, i - 1) = <<>>
    BY <1>1
  <2>3. f[i - 1] \in Seq(Byte)
    BY <1>2, <2>1
  <2>4. f[i - 1] \o <<>> = f[i - 1]
    BY <2>3, ConcatEmptySeq
  <2> QED BY <2>1, <2>2, <2>4
<1>5. ASSUME NEW m \in 0..3, m < n, D(m) PROVE D(m + 1)
  <2> DEFINE k == i + m
  <2>1. k \in i..(i + n - 1) /\ k \in Int /\ k - 1 = i - 1 + m /\ k = i - 1 + (m + 1) /\ i - 1 \in 0..N
    BY <1>1, <1>5
  <2> HIDE DEF k
  <2>2. k \in 1..N /\ Piece(s, Runes(s), k) = <<s[k]>> /\ s[k] \in Byte
    BY <1>3, <2>1
  <2>3. f[k] = f[k - 1] \o <<s[k]>>
    BY <1>2, <2>2
  <2>4. f[k - 1] = f[i - 1] \o SubSeq(s, i, k - 1)
    BY <1>5, <2>1
  <2>5. /\ SubSeq(s, i, k - 1) \in Seq(Byte) /\ SubSeq(s, i, k) \in Seq(Byte)
        /\ SubSeq(s, i, k) = Append(SubSeq(s, i, k - 1), s[k])
    BY <1>1, <2>1, <2>2
  <2>6. f[i - 1] \in Seq(Byte)
    BY <1>2, <2>1
  <2>7. f[k] = Append(f[i - 1] \o SubSeq(s, i, k - 1), s[k])
    <3>1. f[i - 1] \o SubSeq(s, i, k - 1) \in Seq(Byte)
      BY <2>5, <2>6, ConcatProperties
    <3> QED BY <2>2, <2>3, <2>4, <3>1, AppendIsConcat
  <2>8. f[k] = f[i - 1] \o SubSeq(s, i, k)
    <3> DEFINE u == f[i - 1]
               t == SubSeq(s, i, k - 1)
    <3>1. u \in Seq(Byte) /\ t \in Seq(Byte) /\ s[k] \in Byte
      BY <2>2, <2>5, <2>6
    <3> HIDE DEF u, t
    <3>2. u \o Append(t, s[k]) = Append(u \o t, s[k])
      BY <3>1, AppendConcat
    <3> QED BY <2>5, <2>7, <3>2 DEF u, t
  <2> QED BY <2>1, <2>8
<1>6. D(n)
  <2> HIDE DEF D
  <2>1. D(1)
    BY <1>4, <1>5
  <2>2. n > 1 => D(2)
    BY <1>5, <2>1
  <2>3. n > 2 => D(3)
    BY <1>5, <2>2
  <2>4. n > 3 => D(4)
    BY <1>5, <2>3
  <2> QED BY <2>1, <2>2, <2>3, <2>4
<1>7. i - 1 + n = i + n - 1
  OBVIOUS
<1> QED BY <1>6, <1>7

\* ToValid makes every text valid: up to any place inside of no rune, it is valid.
LEMMA NowValid ==
    ASSUME NEW s \in Seq(Byte)
    PROVE  ValidText(ToValid(s))
<1> DEFINE N == Len(s)
           Between(i) == \A j \in 1..N, n \in 1..4 : IsRune(s, j, n) => ~(j <= i /\ i < j + n - 1)
<1>1. PICK f : Flattens(f, Pieces(s), Byte)
  BY PiecesType, FlattenExists
<1>2. /\ N \in Nat /\ f[0] = <<>> /\ ToValid(s) = f[N]
      /\ \A k \in 0..N : f[k] \in Seq(Byte)
      /\ \A k \in 1..N : f[k] = f[k - 1] \o Piece(s, Runes(s), k)
  <2>1. Pieces(s) \in Seq(Seq(Byte)) /\ Len(Pieces(s)) = N /\ ToValid(s) = FlattenSeq(Pieces(s))
    BY PiecesType
  <2>2. FlattenSeq(Pieces(s)) = f[N]
    BY <1>1, <2>1, FlattenIs
  <2> QED BY <1>1, <2>1, <2>2, PiecesType, LenProperties DEF Flattens
<1>3. ASSUME NEW j \in 1..N, NEW n \in 1..4, IsRune(s, j, n) PROVE Between(j - 1)
  <2> SUFFICES ASSUME NEW k \in 1..N, NEW m \in 1..4, IsRune(s, k, m), k <= j - 1, j - 1 < k + m - 1
               PROVE FALSE
    OBVIOUS
  <2>1. j \in (k + 1)..(k + m - 1)
    OBVIOUS
  <2>2. s[j] \in 128..191
    BY <2>1, RuneInside
  <2>3. s[j] \in Byte /\ RuneLen(s[j]) = n
    BY <1>3, ElementOfSeq DEF IsRune
  <2> QED BY <2>2, <2>3, RuneBytes
<1>4. ASSUME NEW i \in 1..N, i \notin Runes(s) PROVE Between(i - 1)
  <2> SUFFICES ASSUME NEW k \in 1..N, NEW m \in 1..4, IsRune(s, k, m), k <= i - 1, i - 1 < k + m - 1
               PROVE FALSE
    OBVIOUS
  <2>1. i \in k..(k + m - 1)
    OBVIOUS
  <2> QED BY <1>4, <2>1, RunesAre
<1>5. Between(N)
  BY <1>2 DEF IsRune
<1> DEFINE B == {i \in 0..N : Between(i) /\ ~ValidText(f[i])}
<1>6. B = {}
  <2>1. SUFFICES ASSUME B # {} PROVE FALSE
    OBVIOUS
  <2>2. PICK i \in B : \A j \in B : i <= j
    <3>1. B \in SUBSET Nat
      <4> HIDE DEF Between
      <4> QED BY <1>2
    <3> HIDE DEF B
    <3> QED BY <2>1, <3>1, LeastNat
  <2>3. i \in 0..N /\ Between(i) /\ ~ValidText(f[i])
    <3> HIDE DEF Between
    <3> QED BY <2>2
  <2>4. ASSUME NEW j \in 0..N, j < i, Between(j) PROVE ValidText(f[j])
    <3>1. j \notin B
      <4> HIDE DEF B
      <4> QED BY <1>2, <2>2, <2>3, <2>4
    <3> HIDE DEF Between
    <3> QED BY <2>4, <3>1
  <2>5. i # 0
    BY <1>2, <2>3, EmptyValid
  <2> HIDE DEF B, Between
  <2>6. CASE i \notin Runes(s)
    <3>1. i \in 1..N /\ i - 1 \in 0..N /\ i - 1 < i
      BY <1>2, <2>3, <2>5
    <3>2. ValidText(f[i - 1]) /\ f[i - 1] \in Seq(Byte)
      BY <1>2, <1>4, <2>4, <2>6, <3>1
    <3>3. Piece(s, Runes(s), i) \in {Replacement, <<>>}
      BY <2>6 DEF Piece
    <3>4. ValidText(Piece(s, Runes(s), i)) /\ Piece(s, Runes(s), i) \in Seq(Byte)
      <4>1. <<>> \in Seq(Byte)
        BY EmptySeq
      <4> QED BY <3>3, <4>1, EmptyValid, ReplacementValid
    <3>5. ValidText(f[i - 1] \o Piece(s, Runes(s), i))
      BY <3>2, <3>4, ValidConcat
    <3> QED BY <1>2, <2>3, <3>1, <3>5
  <2>7. CASE i \in Runes(s)
    <3>1. PICK j \in 1..N, n \in 1..4 : IsRune(s, j, n) /\ i \in j..(j + n - 1)
      BY <2>7, RunesAre
    <3>2. i = j + n - 1
      <4>1. ~(j <= i /\ i < j + n - 1)
        BY <2>3, <3>1 DEF Between
      <4>2. i \in Int /\ j <= i /\ i <= j + n - 1
        BY <3>1
      <4> QED BY <4>1, <4>2
    <3>3. j - 1 \in 0..N /\ j - 1 < i
      BY <1>2, <3>1
    <3>4. ValidText(f[j - 1]) /\ f[j - 1] \in Seq(Byte)
      BY <1>2, <1>3, <2>4, <3>1, <3>3
    <3>5. SubSeq(s, j, i) \in Seq(Byte) /\ ValidText(SubSeq(s, j, i))
      BY <3>1, <3>2, RuneText
    <3>6. f[i] = f[j - 1] \o SubSeq(s, j, i)
      BY <1>1, <3>1, <3>2, RunePieces
    <3> QED BY <2>3, <3>4, <3>5, <3>6, ValidConcat
  <2> QED BY <2>6, <2>7
<1>7. N \in 0..N
  BY <1>2
<1>8. N \notin B
  <2> HIDE DEF B
  <2> QED BY <1>6
<1> HIDE DEF Between
<1> QED BY <1>2, <1>5, <1>7, <1>8

----------------------------------------------------------------------------
(* The reports. *)

ReportTypeOK ==
    /\ output \in Seq(WriteSet)
    /\ logs \in Seq(Byte)
    /\ stored \in Seq(Byte)

LEMMA AskedType ==
    ASSUME ReportTypeOK
    PROVE  Asked \in Seq(WriteSet)
<1> DEFINE n == Len(output)
           a == n - AgentTail + 1
<1>1. output \in Seq(WriteSet) /\ n \in Nat /\ AgentTail \in Nat \ {0}
  BY ReportAssumption DEF ReportTypeOK
<1>2. CASE n > AgentTail
  <2>1. a \in Int /\ n \in Int /\ a >= 1
    BY <1>1, <1>2
  <2>2. \A i \in a..n : output[i] \in WriteSet
    BY <1>1, <2>1, ElementOfSeq
  <2>3. SubSeq(output, a, n) \in Seq(WriteSet)
    BY <2>1, <2>2, SubSeqProperties
  <2> QED BY <1>2, <2>3 DEF Asked
<1>3. CASE ~(n > AgentTail)
  BY <1>1, <1>3 DEF Asked
<1> QED BY <1>2, <1>3

LEMMA AnswerType ==
    ASSUME ReportTypeOK
    PROVE  Answer \in Seq(Byte)
BY AskedType, FramesType, FlattenType DEF Answer

LEMMA AnswerPart ==
    ASSUME ReportTypeOK, NEW n \in 0..Len(Answer)
    PROVE  SubSeq(Answer, 1, n) \in Seq(Byte)
<1>1. Answer \in Seq(Byte) /\ Len(Answer) \in Nat
  BY AnswerType
<1>2. 1 \in Int /\ n \in Int /\ \A i \in 1..n : Answer[i] \in Byte
  BY <1>1, ElementOfSeq
<1> QED BY <1>2, SubSeqProperties

\* Texts are sequences of bytes on their whole way, whatever is cut off of them.
THEOREM ReportTypeCorrect == ReportSpec => []ReportTypeOK
<1>1. ReportInit => ReportTypeOK
  <2>1. <<>> \in Seq(WriteSet) /\ <<>> \in Seq(Byte)
    BY EmptySeq
  <2> QED BY <2>1 DEF ReportInit, ReportTypeOK
<1>2. ReportTypeOK /\ [ReportNext]_reportVars => ReportTypeOK'
  <2> SUFFICES ASSUME ReportTypeOK, [ReportNext]_reportVars PROVE ReportTypeOK'
    OBVIOUS
  <2>1. output \in Seq(WriteSet) /\ logs \in Seq(Byte) /\ stored \in Seq(Byte)
    BY DEF ReportTypeOK
  <2>2. CASE Write
    <3>1. PICK s \in {1, 2}, t \in Text : output' = Append(output, [stream |-> s, text |-> t])
      BY <2>2 DEF Write
    <3>2. [stream |-> s, text |-> t] \in WriteSet
      BY DEF WriteSet
    <3>3. output' \in Seq(WriteSet)
      BY <2>1, <3>1, <3>2, AppendProperties
    <3> QED BY <2>1, <2>2, <3>3 DEF Write, ReportTypeOK
  <2>3. CASE Refresh
    <3>1. PICK n \in 0..Len(Answer) : logs' = Decode(SubSeq(Answer, 1, n))
      BY <2>3 DEF Refresh
    <3>4. SubSeq(Answer, 1, n) \in Seq(Byte)
      BY AnswerPart
    <3>5. logs' \in Seq(Byte)
      BY <3>1, <3>4, DecodeType
    <3> QED BY <2>1, <2>3, <3>5 DEF Refresh, ReportTypeOK
  <2>4. CASE Heartbeat
    BY <2>1, <2>4 DEF Heartbeat, ReportTypeOK
  <2>5. CASE UNCHANGED reportVars
    BY <2>1, <2>5 DEF reportVars, ReportTypeOK
  <2> QED BY <2>2, <2>3, <2>4, <2>5 DEF ReportNext
<1> QED BY <1>1, <1>2, PTL DEF ReportSpec

\* What the agent reports is valid UTF-8, whatever a container writes and wherever an
\* answer was cut off: PostgreSQL refuses no report for that (strings.ToValidUTF8,
\* main.go:243-251).
ReportValid == ValidText(logs) /\ ValidText(stored)

THEOREM ReportValidCorrect == ReportSpec => []ReportValid
<1>1. ReportInit => ReportValid
  BY EmptyValid DEF ReportInit, ReportValid
<1>2. ReportTypeOK /\ ReportValid /\ [ReportNext]_reportVars => ReportValid'
  <2> SUFFICES ASSUME ReportTypeOK, ReportValid, [ReportNext]_reportVars PROVE ReportValid'
    OBVIOUS
  <2>1. CASE Write
    BY <2>1 DEF Write, ReportValid
  <2>2. CASE Refresh
    <3>1. PICK n \in 0..Len(Answer) : logs' = Decode(SubSeq(Answer, 1, n))
      BY <2>2 DEF Refresh
    <3>2. SubSeq(Answer, 1, n) \in Seq(Byte)
      BY AnswerPart
    <3>3. ValidText(logs')
      BY <3>1, <3>2, UnframedType, NowValid DEF Decode
    <3> QED BY <2>2, <3>3 DEF Refresh, ReportValid
  <2>3. CASE Heartbeat
    BY <2>3 DEF Heartbeat, ReportValid
  <2>4. CASE UNCHANGED reportVars
    BY <2>4 DEF reportVars, ReportValid
  <2> QED BY <2>1, <2>2, <2>3, <2>4 DEF ReportNext
<1> QED BY <1>1, <1>2, ReportTypeCorrect, PTL DEF ReportSpec

\* Whatever a container writes, an answer that was read whole decodes to it
\* (decodeDockerLogs).
THEOREM DecodeExactCorrect == ReportSpec => []DecodeExact
<1>1. ReportTypeOK => DecodeExact
  BY AskedType, UnframedFrames DEF DecodeExact, Decode, Answer
<1> QED BY <1>1, ReportTypeCorrect, PTL

\* Of what is stored, logs shows the lines it is asked for (server.go, logs).
THEOREM LogsTailCorrect == ReportSpec => []LogsTail
<1>1. ReportTypeOK => LogsTail
  <2>1. \A n \in 0..(MaxTail + 1) : Limit(n) \in Nat \ {0}
    BY ReportAssumption DEF Limit
  <2> QED BY <2>1, TailShown DEF LogsTail, ReportTypeOK
<1> QED BY <1>1, ReportTypeCorrect, PTL

\* Only answers that were cut off keep the heartbeat from being stored for their NULs:
\* if containers write none, there are none in an answer that was read whole. And what
\* is valid UTF-8 as they wrote it comes through unchanged.
Written == FlattenSeq(Texts(Asked))
WholeIsText ==
    /\ (\A t \in Text : Storable(t)) => Storable(Decode(Answer))
    /\ ValidText(Written) => Decode(Answer) = Written

LEMMA StorableConcat ==
    ASSUME NEW a \in Seq(Byte), NEW b \in Seq(Byte), Storable(a), Storable(b)
    PROVE  Storable(a \o b)
<1>1. /\ Len(a) \in Nat /\ Len(b) \in Nat /\ Len(a \o b) = Len(a) + Len(b)
      /\ \A i \in 1..(Len(a) + Len(b)) : (a \o b)[i] = IF i <= Len(a) THEN a[i] ELSE b[i - Len(a)]
  BY ConcatProperties
<1> DEFINE c == a \o b
<1> HIDE DEF c
<1>2. ASSUME NEW i \in 1..Len(c) PROVE c[i] # NUL
  <2>1. CASE i <= Len(a)
    BY <1>1, <2>1 DEF Storable, c
  <2>2. CASE ~(i <= Len(a))
    <3>1. i - Len(a) \in 1..Len(b) /\ c[i] = b[i - Len(a)]
      BY <1>1, <2>2 DEF c
    <3> QED BY <3>1 DEF Storable
  <2> QED BY <2>1, <2>2
<1> QED BY <1>2 DEF Storable, c

LEMMA FlattenStorable ==
    ASSUME NEW ss \in Seq(Seq(Byte)), \A i \in 1..Len(ss) : Storable(ss[i])
    PROVE  Storable(FlattenSeq(ss))
<1> DEFINE N == Len(ss)
<1>1. PICK f : Flattens(f, ss, Byte)
  BY FlattenExists
<1>2. FlattenSeq(ss) = f[N]
  BY <1>1, FlattenIs
<1>3. N \in Nat /\ \A i \in 1..N : ss[i] \in Seq(Byte) /\ Storable(ss[i])
  OBVIOUS
<1>4. /\ f[0] = <<>> /\ \A i \in 1..N : f[i] = f[i - 1] \o ss[i]
      /\ \A i \in 0..N : f[i] \in Seq(Byte)
  BY <1>1 DEF Flattens
<1> HIDE DEF N
<1> DEFINE B == {i \in 0..N : ~Storable(f[i])}
<1>5. B = {}
  <2>1. SUFFICES ASSUME B # {} PROVE FALSE
    OBVIOUS
  <2>2. PICK i \in B : \A j \in B : i <= j
    <3>1. B \in SUBSET Nat
      BY <1>3
    <3> HIDE DEF B
    <3> QED BY <2>1, <3>1, LeastNat
  <2>3. CASE i = 0
    <3>1. ~Storable(<<>>) /\ Len(<<>>) = 0
      BY <1>4, <2>2, <2>3, EmptySeq
    <3> QED BY <3>1 DEF Storable
  <2>4. CASE i # 0
    <3>1. i \in 1..N /\ i - 1 \in 0..N /\ i - 1 < i
      BY <1>3, <2>4
    <3>2. Storable(f[i - 1]) /\ Storable(ss[i]) /\ f[i] = f[i - 1] \o ss[i]
      <4>1. i - 1 \notin B
        <5> HIDE DEF B
        <5> QED BY <2>2, <3>1
      <4> QED BY <1>3, <1>4, <3>1, <4>1
    <3>3. f[i - 1] \in Seq(Byte) /\ ss[i] \in Seq(Byte)
      BY <1>3, <1>4, <3>1
    <3>4. Storable(f[i - 1] \o ss[i])
      BY <3>2, <3>3, StorableConcat
    <3> QED BY <2>2, <3>2, <3>4
  <2> QED BY <2>3, <2>4
<1> QED BY <1>2, <1>3, <1>5

\* Making a text valid adds no NUL.
LEMMA ToValidStorable ==
    ASSUME NEW s \in Seq(Byte), Storable(s)
    PROVE  Storable(ToValid(s))
<1>1. ASSUME NEW i \in 1..Len(s) PROVE Storable(Piece(s, Runes(s), i))
  <2>1. s[i] # NUL /\ s[i] \in Byte
    BY ElementOfSeq DEF Storable
  <2>2. Storable(<<s[i]>>) /\ Storable(<<>>)
    BY <2>1 DEF Storable
  <2> QED BY <2>2, ReplacementValid DEF Piece
<1> QED BY <1>1, PiecesType, FlattenStorable

\* The only NULs that can come from containers without any are those of frames that
\* were cut off ("the framing contains NUL bytes", main.go:235-237).
THEOREM WholeIsTextCorrect == ReportSpec => []WholeIsText
<1>1. ReportTypeOK => WholeIsText
  <2> SUFFICES ASSUME ReportTypeOK PROVE WholeIsText
    OBVIOUS
  <2>1. Asked \in Seq(WriteSet)
    BY AskedType
  <2>2. Decode(Answer) = ToValid(Written)
    BY <2>1, UnframedFrames DEF Decode, Answer, Written
  <2>3. Texts(Asked) \in Seq(Seq(Byte)) /\ Len(Texts(Asked)) = Len(Asked)
    BY <2>1, FramesType
  <2>4. ASSUME \A t \in Text : Storable(t), NEW i \in 1..Len(Asked) PROVE Storable(Texts(Asked)[i])
    <3>1. Texts(Asked)[i] = Asked[i].text
      BY <2>1, FramesType
    <3>2. Asked[i] \in WriteSet
      BY <2>1, ElementOfSeq
    <3> QED BY <2>4, <3>1, <3>2 DEF WriteSet
  <2>5. Written \in Seq(Byte)
    BY <2>3, FlattenType DEF Written
  <2>6. (\A t \in Text : Storable(t)) => Storable(Written)
    BY <2>3, <2>4, FlattenStorable DEF Written
  <2> QED BY <2>2, <2>5, <2>6, ToValidStorable, ValidKept DEF WholeIsText
<1> QED BY <1>1, ReportTypeCorrect, PTL

=============================================================================
