------------------------------ MODULE SequenceLemmas ------------------------------
(* What the proofs use of sequences, whatever they are of: stacks without        *)
(* duplicates and finite sets that change by one element (the pools), and        *)
(* sequences that are joined, of equal length or not (the translations).         *)
EXTENDS Integers, Sequences, SequencesExt, SequenceTheorems, FiniteSetTheorems,
        WellFoundedInduction, TLAPS

\* A stack without its k oldest entries.
LEMMA SuffixFacts ==
    ASSUME NEW T, NEW s \in Seq(T), IsInjective(s), NEW k \in 0 .. Len(s)
    PROVE  LET r == SubSeq(s, k + 1, Len(s))
           IN  /\ r \in Seq(T) /\ Len(r) = Len(s) - k
               /\ IsInjective(r) /\ Range(r) \subseteq Range(s)
<1> DEFINE r == SubSeq(s, k + 1, Len(s))
<1>1. /\ Len(s) \in Nat /\ DOMAIN s = 1 .. Len(s)
      /\ \A i \in 1 .. Len(s) : s[i] \in T
  BY LenProperties, ElementOfSeq
<1>2. \A i \in k + 1 .. Len(s) : s[i] \in T
  BY <1>1
<1>3. /\ r \in Seq(T) /\ Len(r) = Len(s) - k
      /\ \A i \in 1 .. Len(s) - k : r[i] = s[k + i]
  <2>1. /\ r \in Seq(T)
        /\ Len(r) = IF k + 1 <= Len(s) THEN Len(s) - (k + 1) + 1 ELSE 0
        /\ \A i \in 1 .. Len(s) - (k + 1) + 1 : r[i] = s[(k + 1) + i - 1]
    BY <1>1, <1>2, SubSeqProperties
  <2>2. k \in Nat /\ Len(s) \in Nat /\ k <= Len(s)
    BY <1>1
  <2> HIDE DEF r
  <2>3. Len(r) = Len(s) - k
    BY <2>1, <2>2
  <2>4. ASSUME NEW i \in 1 .. Len(s) - k PROVE r[i] = s[k + i]
    <3>1. (k + 1) + i - 1 = k + i
      BY <2>2
    <3>2. i \in 1 .. Len(s) - (k + 1) + 1
      BY <2>2
    <3> QED BY <2>1, <3>1, <3>2
  <2> QED BY <2>1, <2>3, <2>4
<1> HIDE DEF r
<1>4. DOMAIN r = 1 .. Len(s) - k
  BY <1>3, LenProperties
<1>5. IsInjective(r)
  <2>1. ASSUME NEW i \in 1 .. Len(s) - k, NEW j \in 1 .. Len(s) - k, r[i] = r[j]
        PROVE  i = j
    <3>1. k + i \in DOMAIN s /\ k + j \in DOMAIN s /\ s[k + i] = s[k + j]
      BY <1>1, <1>3, <2>1
    <3>2. k + i = k + j
      BY <3>1 DEF IsInjective
    <3> QED BY <1>1, <3>2
  <2> QED BY <1>4, <2>1 DEF IsInjective
<1>6. Range(r) \subseteq Range(s)
  <2>1. ASSUME NEW i \in 1 .. Len(s) - k PROVE k + i \in 1 .. Len(s)
    BY <1>1
  <2>2. ASSUME NEW i \in 1 .. Len(s) - k PROVE r[i] \in Range(s)
    BY <1>1, <1>3, <2>1 DEF Range
  <2> QED BY <1>4, <2>2 DEF Range
<1> QED BY <1>3, <1>5, <1>6 DEF r

\* Popping the last entry leaves the others.
LEMMA FrontFacts ==
    ASSUME NEW T, NEW s \in Seq(T), IsInjective(s), s # <<>>
    PROVE  /\ Front(s) \in Seq(T) /\ Len(Front(s)) = Len(s) - 1
           /\ IsInjective(Front(s)) /\ Range(Front(s)) \subseteq Range(s) \ {Last(s)}
           /\ Last(s) \in Range(s) /\ Last(s) \in T
<1>1. /\ Len(s) \in Nat \ {0} /\ DOMAIN s = 1 .. Len(s)
      /\ \A i \in 1 .. Len(s) : s[i] \in T
  BY LenProperties, ElementOfSeq, EmptySeq
<1>2. /\ Front(s) \in Seq(T) /\ Len(Front(s)) = Len(s) - 1
      /\ \A i \in 1 .. Len(s) - 1 : Front(s)[i] = s[i]
  <2>1. /\ SubSeq(s, 1, Len(s) - 1) \in Seq(T)
        /\ Len(SubSeq(s, 1, Len(s) - 1)) = IF 1 <= Len(s) - 1 THEN Len(s) - 1 - 1 + 1 ELSE 0
        /\ \A i \in 1 .. Len(s) - 1 - 1 + 1 : SubSeq(s, 1, Len(s) - 1)[i] = s[1 + i - 1]
    BY <1>1, SubSeqProperties
  <2> QED BY <1>1, <2>1 DEF Front
<1>3. DOMAIN Front(s) = 1 .. Len(s) - 1
  BY <1>2, LenProperties
<1>4. Last(s) = s[Len(s)]
  BY DEF Last
<1>5. IsInjective(Front(s))
  BY <1>1, <1>2, <1>3 DEF IsInjective
<1>6. Range(Front(s)) \subseteq Range(s) \ {Last(s)}
  BY <1>1, <1>2, <1>3, <1>4 DEF IsInjective, Range
<1>7. Last(s) \in Range(s) /\ Last(s) \in T
  BY <1>1, <1>4 DEF Range
<1> QED BY <1>2, <1>5, <1>6, <1>7

\* Pushing a new entry adds it.
LEMMA PushedFacts ==
    ASSUME NEW T, NEW s \in Seq(T), IsInjective(s), NEW x \in T, x \notin Range(s)
    PROVE  /\ Append(s, x) \in Seq(T) /\ Len(Append(s, x)) = Len(s) + 1
           /\ IsInjective(Append(s, x)) /\ Range(Append(s, x)) = Range(s) \union {x}
<1>1. /\ Len(s) \in Nat /\ DOMAIN s = 1 .. Len(s)
  BY LenProperties
<1>2. /\ Append(s, x) \in Seq(T) /\ Len(Append(s, x)) = Len(s) + 1
      /\ \A i \in 1 .. Len(s) : Append(s, x)[i] = s[i]
      /\ Append(s, x)[Len(s) + 1] = x
  BY AppendProperties
<1>3. DOMAIN Append(s, x) = 1 .. Len(s) + 1
  BY <1>2, LenProperties
<1>4. IsInjective(Append(s, x))
  BY <1>1, <1>2, <1>3 DEF IsInjective, Range
<1>5. Range(Append(s, x)) = Range(s) \union {x}
  <2>1. \A y \in Range(Append(s, x)) : y \in Range(s) \union {x}
    BY <1>1, <1>2, <1>3 DEF Range
  <2>2. \A y \in Range(s) \union {x} : y \in Range(Append(s, x))
    BY <1>1, <1>2, <1>3 DEF Range
  <2> QED BY <2>1, <2>2
<1> QED BY <1>2, <1>4, <1>5

\* Taking the first entry leaves the others.
LEMMA TailFacts ==
    ASSUME NEW T, NEW s \in Seq(T), IsInjective(s), s # <<>>
    PROVE  /\ Tail(s) \in Seq(T) /\ IsInjective(Tail(s))
           /\ Range(Tail(s)) = Range(s) \ {Head(s)} /\ Head(s) \in Range(s)
<1>1. /\ Len(s) \in Nat \ {0} /\ DOMAIN s = 1 .. Len(s) /\ Head(s) = s[1]
      /\ Tail(s) \in Seq(T) /\ Len(Tail(s)) = Len(s) - 1
      /\ \A i \in 1 .. Len(s) - 1 : Tail(s)[i] = s[i + 1]
  BY LenProperties, EmptySeq, HeadTailProperties
<1>2. DOMAIN Tail(s) = 1 .. Len(s) - 1
  BY <1>1, LenProperties
<1>3. IsInjective(Tail(s))
  BY <1>1, <1>2 DEF IsInjective
<1>4. ASSUME NEW y \in Range(Tail(s)) PROVE y \in Range(s) \ {Head(s)}
  <2>1. PICK i \in 1 .. Len(s) - 1 : y = s[i + 1]
    BY <1>1, <1>2 DEF Range
  <2> QED BY <1>1, <2>1 DEF IsInjective, Range
<1>5. ASSUME NEW y \in Range(s) \ {Head(s)} PROVE y \in Range(Tail(s))
  <2>1. PICK i \in 1 .. Len(s) : y = s[i]
    BY <1>1 DEF Range
  <2>2. i - 1 \in 1 .. Len(s) - 1 /\ (i - 1) + 1 = i
    BY <1>1, <2>1
  <2>3. Tail(s)[i - 1] = y
    BY <1>1, <2>1, <2>2
  <2> QED BY <1>2, <2>2, <2>3 DEF Range
<1> QED BY <1>1, <1>3, <1>4, <1>5 DEF Range

\* The empty stack.
LEMMA EmptyFacts ==
    ASSUME NEW T
    PROVE  /\ <<>> \in Seq(T) /\ Len(<<>>) = 0
           /\ IsInjective(<<>>) /\ Range(<<>>) = {}
<1>1. <<>> \in Seq(T) /\ Len(<<>>) = 0
  BY EmptySeq
<1>2. DOMAIN <<>> = {}
  OBVIOUS
<1> QED BY <1>1, <1>2 DEF IsInjective, Range

\* A stack has at most as many connections as entries.
LEMMA RangeBound ==
    ASSUME NEW T, NEW s \in Seq(T)
    PROVE  /\ IsFiniteSet(Range(s)) /\ Cardinality(Range(s)) \in Nat
           /\ Cardinality(Range(s)) <= Len(s)
<1>1. Len(s) \in Nat /\ DOMAIN s = 1 .. Len(s)
  BY LenProperties
<1>2. IsFiniteSet(1 .. Len(s)) /\ Cardinality(1 .. Len(s)) = Len(s)
  BY SMTT(30), <1>1, FS_Interval
<1> DEFINE f == [i \in 1 .. Len(s) |-> s[i]]
<1>3. \A y \in Range(s) : \E i \in 1 .. Len(s) : f[i] = y
  BY <1>1 DEF Range
<1>4. f \in [1 .. Len(s) -> Range(s)]
  BY <1>1 DEF Range
<1>5. f \in Surjection(1 .. Len(s), Range(s))
  BY <1>3, <1>4 DEF Surjection
<1> QED BY <1>2, <1>5, FS_Surjection, FS_CardinalityType

\* A set that gains or loses one element.
LEMMA OneMoves ==
    ASSUME NEW S, NEW T, NEW c, IsFiniteSet(S), IsFiniteSet(T), S \ {c} = T \ {c}
    PROVE  /\ Cardinality(S) \in Nat /\ Cardinality(T) \in Nat
           /\ Cardinality(T) = Cardinality(S) + (IF c \in T THEN 1 ELSE 0)
                                              - (IF c \in S THEN 1 ELSE 0)
<1>1. /\ Cardinality(S) \in Nat /\ Cardinality(T) \in Nat
  BY FS_CardinalityType
<1>2. Cardinality(S \ {c}) = IF c \in S THEN Cardinality(S) - 1 ELSE Cardinality(S)
  BY FS_RemoveElement
<1>3. Cardinality(T \ {c}) = IF c \in T THEN Cardinality(T) - 1 ELSE Cardinality(T)
  BY FS_RemoveElement
<1> QED BY <1>1, <1>2, <1>3

\* Two sets together have no more elements than both.
LEMMA UnionBound ==
    ASSUME NEW S, NEW T, IsFiniteSet(S), IsFiniteSet(T)
    PROVE  /\ IsFiniteSet(S \union T) /\ Cardinality(S \union T) \in Nat
           /\ Cardinality(S \union T) <= Cardinality(S) + Cardinality(T)
<1>1. /\ IsFiniteSet(S \union T)
      /\ Cardinality(S \union T) = Cardinality(S) + Cardinality(T) - Cardinality(S \intersect T)
  BY FS_Union
<1>2. /\ Cardinality(S) \in Nat /\ Cardinality(T) \in Nat
      /\ Cardinality(S \union T) \in Nat /\ Cardinality(S \intersect T) \in Nat
  BY <1>1, FS_Intersection, FS_CardinalityType
<1> QED BY <1>1, <1>2

-----------------------------------------------------------------------------
(* Induction over the numbers of a set: the theorems that take a predicate as    *)
(* an operator are of no use to the provers, a set serves as well.               *)

\* A set of numbers has a least one: < is well-founded.
LEMMA Least ==
    ASSUME NEW T, T \subseteq Nat, T # {}
    PROVE  \E x \in T : \A y \in T : x <= y
<1>1. PICK x \in T : \A y \in T : ~ (<<y, x>> \in OpToRel(<, Nat))
  BY NatLessThanWellFounded, WFMin
<1>2. \A y \in T : ~ (y < x)
  BY <1>1 DEF OpToRel
<1> QED BY <1>2

\* A set that has 0 and with every number the next has them all.
LEMMA SetInduction ==
    ASSUME NEW S, 0 \in S, \A n \in Nat : n \in S => n + 1 \in S
    PROVE  Nat \subseteq S
<1> SUFFICES ASSUME Nat \ S # {} PROVE FALSE
  OBVIOUS
<1>1. PICK x \in Nat \ S : \A y \in Nat \ S : x <= y
  BY Least
<1>2. x - 1 \in Nat /\ x - 1 \in S
  BY <1>1
<1> QED BY <1>1, <1>2

-----------------------------------------------------------------------------
(* Numbers: rows of w entries.                                                    *)

\* One row more.
LEMMA Product ==
    ASSUME NEW n \in Nat, NEW w \in Nat
    PROVE  n * w \in Nat /\ (n + 1) * w = n * w + w
OBVIOUS

\* A place among rows, by row and column.
LEMMA DivMod ==
    ASSUME NEW n \in Nat, NEW w \in Nat, w # 0
    PROVE  \E q, r \in Nat : q = n \div w /\ r = n % w /\ r < w /\ n = w * q + r
<1>1. w \in Int /\ w > 0 /\ n \in Int
  OBVIOUS
<1>2. n % w \in Nat /\ n % w < w
  BY <1>1
<1>3. n \div w \in Int
  BY <1>1
<1>4. n % w = n - w * (n \div w)
  BY <1>1
<1>5. PICK q \in Int, r \in Nat : q = n \div w /\ r = n % w /\ r < w
  BY <1>2, <1>3
<1>6. w * q \in Int /\ n = w * q + r
  <2>1. w * q \in Int
    OBVIOUS
  <2>2. r = n - w * q
    BY <1>4, <1>5
  <2> QED BY <2>1, <2>2
<1>7. ASSUME ~ (q >= 0) PROVE FALSE
  <2>1. PICK p \in Nat : q = -p - 1
    <3>1. -q - 1 \in Nat /\ q = -(-q - 1) - 1
      BY <1>5, <1>7
    <3> QED BY <3>1
  <2>2. PICK v \in Nat : v = p * w
    BY Product
  <2>3. w * (-p - 1) = -(p * w) - w
    OBVIOUS
  <2>4. w * q = -v - w
    BY <2>1, <2>2, <2>3
  <2> QED BY <1>5, <1>6, <2>4
<1>8. q \in Nat
  BY <1>5, <1>7
<1> QED BY <1>5, <1>6, <1>8

\* More rows have no fewer entries.
LEMMA ProductMono ==
    ASSUME NEW n \in Nat, NEW m \in Nat, n <= m, NEW w \in Nat
    PROVE  n * w <= m * w
<1>1. PICK d \in Nat : m = n + d
  <2>1. m - n \in Nat /\ m = n + (m - n)
    OBVIOUS
  <2> QED BY <2>1
<1>2. m * w = n * w + d * w /\ d * w \in Nat /\ n * w \in Nat
  BY <1>1, Product
<1> QED BY <1>2

\* So many rows of w entries are so many rows.
LEMMA ProductDiv ==
    ASSUME NEW k \in Nat, NEW w \in Nat, w # 0
    PROVE  (k * w) \div w = k
<1>0. k * w \in Nat
  BY Product
<1>1. PICK q \in Nat, r \in Nat : q = (k * w) \div w /\ r < w /\ k * w = w * q + r
  BY <1>0, DivMod
<1>2. w * q = q * w
  OBVIOUS
<1>3. ASSUME q + 1 <= k PROVE FALSE
  <2>1. (q + 1) * w <= k * w
    BY <1>3, ProductMono
  <2>2. (q + 1) * w = q * w + w /\ q * w \in Nat
    BY Product
  <2> QED BY <1>1, <1>2, <2>1, <2>2, <1>0
<1>4. ASSUME k + 1 <= q PROVE FALSE
  <2>1. (k + 1) * w <= q * w
    BY <1>4, ProductMono
  <2>2. (k + 1) * w = k * w + w /\ q * w \in Nat
    BY Product
  <2> QED BY <1>1, <1>2, <2>1, <2>2, <1>0
<1> QED BY <1>1, <1>3, <1>4

-----------------------------------------------------------------------------
(* FlattenSeq, which the community modules define by recursion.                  *)

\* F[n] is the first n sequences of s joined.
Joins(F, s, n) ==
    F[0] = <<>> /\ \A i \in 1 .. n : F[i] = F[i - 1] \o s[i]

\* They can be joined one after the other.
LEMMA JoinsExist ==
    ASSUME NEW S, NEW s \in Seq(Seq(S))
    PROVE  \A n \in 0 .. Len(s) : \E F \in [0 .. n -> Seq(S)] : Joins(F, s, n)
<1> DEFINE Good == {n \in Nat : n <= Len(s) => \E F \in [0 .. n -> Seq(S)] : Joins(F, s, n)}
<1>1. 0 \in Good
  <2> DEFINE F == [i \in 0 .. 0 |-> <<>>]
  <2>1. F \in [0 .. 0 -> Seq(S)] /\ Joins(F, s, 0)
    BY DEF Joins
  <2> QED BY <2>1
<1>2. ASSUME NEW n \in Nat, n \in Good PROVE n + 1 \in Good
  <2> SUFFICES ASSUME n + 1 <= Len(s) PROVE \E G \in [0 .. n + 1 -> Seq(S)] : Joins(G, s, n + 1)
    OBVIOUS
  <2>1. n <= Len(s) /\ n + 1 \in 1 .. Len(s) /\ s[n + 1] \in Seq(S)
    OBVIOUS
  <2>2. PICK F \in [0 .. n -> Seq(S)] : Joins(F, s, n)
    BY <1>2, <2>1
  <2> DEFINE G == [i \in 0 .. n + 1 |-> IF i = n + 1 THEN F[n] \o s[n + 1] ELSE F[i]]
  <2>3. F[n] \o s[n + 1] \in Seq(S)
    BY <2>1, <2>2, ConcatProperties
  <2>4. G \in [0 .. n + 1 -> Seq(S)]
    BY <2>3
  <2>5. Joins(G, s, n + 1)
    <3>1. G[0] = <<>>
      BY <2>2 DEF Joins
    <3>2. ASSUME NEW i \in 1 .. n + 1 PROVE G[i] = G[i - 1] \o s[i]
      <4>1. i - 1 \in 0 .. n /\ G[i - 1] = F[i - 1]
        OBVIOUS
      <4>2. CASE i = n + 1
        <5>1. G[i] = F[n] \o s[n + 1] /\ i - 1 = n
          BY <4>2
        <5> QED BY <4>1, <4>2, <5>1
      <4>3. CASE i # n + 1
        <5>1. i \in 1 .. n /\ G[i] = F[i]
          BY <4>3
        <5>2. F[i] = F[i - 1] \o s[i]
          BY <2>2, <5>1 DEF Joins
        <5> QED BY <4>1, <5>1, <5>2
      <4> QED BY <4>2, <4>3
    <3> HIDE DEF G
    <3> QED BY <3>1, <3>2 DEF Joins
  <2> QED BY <2>4, <2>5
<1>3. Nat \subseteq Good
  <2> HIDE DEF Good
  <2> QED BY <1>1, <1>2, SetInduction
<1> QED BY <1>3

\* FlattenSeq is the last of these.
LEMMA FlattenJoins ==
    ASSUME NEW S, NEW s \in Seq(Seq(S))
    PROVE  \E F \in [0 .. Len(s) -> Seq(S)] : Joins(F, s, Len(s)) /\ FlattenSeq(s) = F[Len(s)]
<1>0. Len(s) \in Nat /\ DOMAIN s = 1 .. Len(s) /\ \A i \in 1 .. Len(s) : s[i] \in Seq(S)
  OBVIOUS
<1>1. PICK F \in [0 .. Len(s) -> Seq(S)] : Joins(F, s, Len(s))
  BY JoinsExist
<1>2. CASE Len(s) = 0
  BY <1>1, <1>2 DEF Joins, FlattenSeq
<1>3. CASE Len(s) # 0
  <2> DEFINE Def(f) == [i \in 1 .. Len(s) |-> IF i = 1 THEN s[i] ELSE f[i - 1] \o s[i]]
             flatten == CHOOSE f : f = Def(f)
             g == [i \in 1 .. Len(s) |-> F[i]]
  <2>1. FlattenSeq(s) = flatten[Len(s)]
    BY <1>3 DEF FlattenSeq
  <2>2. F[1] = s[1]
    <3>0. 1 \in 1 .. Len(s)
      BY <1>0, <1>3
    <3>1. F[1] = F[1 - 1] \o s[1] /\ F[0] = <<>>
      BY <1>1, <3>0 DEF Joins
    <3>2. 1 - 1 = 0
      OBVIOUS
    <3>3. F[1 - 1] = <<>>
      BY <3>1, <3>2, Zenon
    <3>4. F[1] = <<>> \o s[1]
      BY <3>1, <3>3, Zenon
    <3> QED BY <1>0, <3>0, <3>4, ConcatEmptySeq
  <2>3. g = Def(g)
    <3>1. \A i \in 1 .. Len(s) : g[i] = Def(g)[i]
      <4> TAKE i \in 1 .. Len(s)
      <4>1. CASE i = 1
        BY <4>1, <2>2
      <4>2. CASE i # 1
        BY <4>2, <1>0, <1>1 DEF Joins
      <4> QED BY <4>1, <4>2
    <3> QED BY <3>1
  <2>4. flatten = Def(flatten)
    <3> HIDE DEF g, Def
    <3> QED BY <2>3
  <2> HIDE DEF flatten
  <2> DEFINE Same == {n \in Nat : n \in 1 .. Len(s) => flatten[n] = F[n]}
  <2>5. 0 \in Same
    OBVIOUS
  <2>6. ASSUME NEW n \in Nat, n \in Same PROVE n + 1 \in Same
    <3> SUFFICES ASSUME n + 1 \in 1 .. Len(s) PROVE flatten[n + 1] = F[n + 1]
      OBVIOUS
    <3>1. flatten[n + 1] = Def(flatten)[n + 1]
      BY <2>4
    <3>2. CASE n = 0
      BY <3>1, <3>2, <2>2
    <3>3. CASE n # 0
      <4>1. n \in 1 .. Len(s) /\ n + 1 # 1 /\ (n + 1) - 1 = n
        BY <3>3, <1>0
      <4>2. flatten[n + 1] = flatten[n] \o s[n + 1]
        BY <3>1, <4>1
      <4>3. flatten[n] = F[n]
        BY <2>6, <4>1
      <4>4. F[n + 1] = F[(n + 1) - 1] \o s[n + 1]
        BY <1>1 DEF Joins
      <4> QED BY <4>1, <4>2, <4>3, <4>4
    <3> QED BY <3>2, <3>3
  <2>7. Nat \subseteq Same
    <3> HIDE DEF Same
    <3> QED BY <2>5, <2>6, SetInduction
  <2> QED BY <1>0, <1>1, <1>3, <2>1, <2>7
<1> QED BY <1>2, <1>3

\* Two sequences joined: the entries of the first, then those of the second.
LEMMA Joined ==
    ASSUME NEW S, NEW f \in Seq(S), NEW t \in Seq(S)
    PROVE  /\ Len(f \o t) = Len(f) + Len(t)
           /\ \A i \in 1 .. Len(f) : (f \o t)[i] = f[i]
           /\ \A c \in 1 .. Len(t) : (f \o t)[Len(f) + c] = t[c]
OBVIOUS

\* s without its entries x.
Without(s, x) ==
    FlattenSeq([i \in DOMAIN s |-> IF s[i] = x THEN <<>> ELSE <<s[i]>>])

\* k has the entries of s other than x, in their order.
Keeps(k, s, x) ==
    /\ Len(k) <= Len(s)
    /\ \A j \in 1 .. Len(k) : k[j] # x /\ \E i \in 1 .. Len(s) : k[j] = s[i]
    /\ \A i \in 1 .. Len(s) : s[i] # x => \E j \in 1 .. Len(k) : k[j] = s[i]
    /\ Len(k) = Len(s) => k = s
    /\ (\A i \in 1 .. Len(s) : s[i] # x) => Len(k) = Len(s)
    /\ Len(s) > 0 /\ s[1] # x =>
          /\ Len(k) > 0 /\ k[1] = s[1]
          /\ \A j \in 2 .. Len(k) : \E i \in 2 .. Len(s) : k[j] = s[i]
    /\ IsInjective(s) => IsInjective(k)
    /\ Range(k) = Range(s) \ {x}

\* What is left when one value is taken out of a sequence.
LEMMA WithoutFacts ==
    ASSUME NEW T, NEW s \in Seq(T), NEW x
    PROVE  Without(s, x) \in Seq(T) /\ Keeps(Without(s, x), s, x)
<1>0. Len(s) \in Nat /\ DOMAIN s = 1 .. Len(s) /\ \A i \in 1 .. Len(s) : s[i] \in T
  OBVIOUS
<1> DEFINE t == [i \in 1 .. Len(s) |-> IF s[i] = x THEN <<>> ELSE <<s[i]>>]
<1>1. t \in Seq(Seq(T)) /\ Len(t) = Len(s)
  <2>1. \A i \in 1 .. Len(s) : t[i] \in Seq(T)
    BY <1>0
  <2> QED BY <1>0, <2>1
<1>2. \A i \in 1 .. Len(s) : t[i] = IF s[i] = x THEN <<>> ELSE <<s[i]>>
  OBVIOUS
<1>3. Without(s, x) = FlattenSeq(t)
  BY <1>0 DEF Without
<1> HIDE DEF t
<1>4. PICK F \in [0 .. Len(s) -> Seq(T)] : Joins(F, t, Len(s)) /\ Without(s, x) = F[Len(s)]
  BY <1>1, <1>3, FlattenJoins
<1> DEFINE
      Kept(k, n) ==
        /\ Len(k) <= n
        /\ \A j \in 1 .. Len(k) : k[j] # x /\ \E i \in 1 .. n : k[j] = s[i]
        /\ \A i \in 1 .. n : s[i] # x => \E j \in 1 .. Len(k) : k[j] = s[i]
        /\ Len(k) = n => \A i \in 1 .. n : k[i] = s[i]
        /\ (\A i \in 1 .. n : s[i] # x) => Len(k) = n
        /\ n > 0 /\ s[1] # x =>
              /\ Len(k) > 0 /\ k[1] = s[1]
              /\ \A j \in 2 .. Len(k) : \E i \in 2 .. n : k[j] = s[i]
        /\ IsInjective(s) => \A i, j \in 1 .. Len(k) : k[i] = k[j] => i = j
      Good == {n \in Nat : n <= Len(s) => Kept(F[n], n)}
<1>5. 0 \in Good
  <2>1. F[0] = <<>> /\ Len(<<>>) = 0
    BY <1>4 DEF Joins
  <2>2. Kept(<<>>, 0)
    BY <2>1
  <2> HIDE DEF Kept
  <2> QED BY <2>1, <2>2
<1>6. ASSUME NEW n \in Nat, n \in Good PROVE n + 1 \in Good
  <2> HIDE DEF Kept
  <2> SUFFICES ASSUME n + 1 <= Len(s) PROVE Kept(F[n + 1], n + 1)
    OBVIOUS
  <2> USE DEF Kept
  <2>1. n \in 0 .. Len(s) /\ n + 1 \in 1 .. Len(s) /\ (n + 1) - 1 = n
    BY <1>0
  <2>2. PICK k \in Seq(T) : k = F[n] /\ Kept(k, n)
    <3>1. n <= Len(s) /\ F[n] \in Seq(T)
      BY <2>1
    <3> HIDE DEF Kept
    <3> QED BY <1>6, <3>1
  <2>3. F[n + 1] = k \o t[n + 1]
    <3>1. F[n + 1] = F[(n + 1) - 1] \o t[n + 1]
      BY <1>4, <2>1 DEF Joins
    <3> QED BY <2>1, <2>2, <3>1, Zenon
  <2>4. CASE s[n + 1] = x
    <3>1. F[n + 1] = k
      <4>1. t[n + 1] = <<>>
        BY <1>2, <2>1, <2>4
      <4> QED BY <2>3, <4>1, ConcatEmptySeq
    <3>2. Kept(k, n + 1)
      <4>1. \A i \in 1 .. n + 1 : i \in 1 .. n \/ i = n + 1
        OBVIOUS
      <4>2. 1 .. n \subseteq 1 .. n + 1 /\ 2 .. n \subseteq 2 .. n + 1 /\ Len(k) \in Nat
        BY <2>2
      <4>3. n + 1 > 0 /\ s[1] # x => n > 0
        BY <2>4
      <4>4. Len(k) # n + 1
        BY <2>2
      <4>5. n + 1 \in 1 .. n + 1
        OBVIOUS
      <4>6. \A i \in 1 .. n + 1 : s[i] # x => i \in 1 .. n
        BY <2>4, <4>1
      <4>7. /\ Len(k) <= n + 1
            /\ \A j \in 1 .. Len(k) : k[j] # x /\ \E i \in 1 .. n + 1 : k[j] = s[i]
        BY <2>2, <4>2
      <4>8. \A i \in 1 .. n + 1 : s[i] # x => \E j \in 1 .. Len(k) : k[j] = s[i]
        BY <2>2, <4>6
      <4>9. /\ Len(k) = n + 1 => \A i \in 1 .. n + 1 : k[i] = s[i]
            /\ (\A i \in 1 .. n + 1 : s[i] # x) => Len(k) = n + 1
        BY <2>4, <4>4, <4>5
      <4>10. n + 1 > 0 /\ s[1] # x =>
               /\ Len(k) > 0 /\ k[1] = s[1]
               /\ \A j \in 2 .. Len(k) : \E i \in 2 .. n + 1 : k[j] = s[i]
        BY <2>2, <4>2, <4>3
      <4>11. IsInjective(s) => \A i, j \in 1 .. Len(k) : k[i] = k[j] => i = j
        BY <2>2
      <4> QED BY <4>7, <4>8, <4>9, <4>10, <4>11
    <3> HIDE DEF Kept
    <3> QED BY <3>1, <3>2
  <2>5. CASE s[n + 1] # x
    <3>1. PICK y \in T : y = s[n + 1]
      BY <1>0, <2>1
    <3>2. F[n + 1] = Append(k, y)
      <4>1. t[n + 1] = <<y>>
        BY <1>2, <2>1, <2>5, <3>1
      <4>2. k \o <<y>> = Append(k, y)
        OBVIOUS
      <4> QED BY <2>3, <4>1, <4>2
    <3>3. PICK m : m = Append(k, y)
      OBVIOUS
    <3>4. /\ Len(k) \in Nat /\ Len(m) = Len(k) + 1 /\ m[Len(k) + 1] = y
          /\ \A i \in 1 .. Len(k) : m[i] = k[i]
      BY <3>3
    <3>5. PICK c \in Nat : c = Len(k)
      BY <3>4
    <3>6. Len(m) <= n + 1
      BY <2>2, <3>4
    <3>7. \A j \in 1 .. Len(m) : m[j] # x /\ \E i \in 1 .. n + 1 : m[j] = s[i]
      <4> TAKE j \in 1 .. Len(m)
      <4>1. CASE j \in 1 .. c
        <5>1. PICK i \in 1 .. n : k[j] = s[i]
          BY <2>2, <3>5, <4>1
        <5>2. k[j] # x /\ m[j] = k[j]
          BY <2>2, <3>4, <3>5, <4>1
        <5>3. i \in 1 .. n + 1
          OBVIOUS
        <5> QED BY <5>1, <5>2, <5>3
      <4>2. CASE j = c + 1
        BY <2>5, <3>1, <3>4, <3>5, <4>2
      <4> QED BY <3>4, <3>5, <4>1, <4>2
    <3>8. \A i \in 1 .. n + 1 : s[i] # x => \E j \in 1 .. Len(m) : m[j] = s[i]
      <4> SUFFICES ASSUME NEW i \in 1 .. n + 1, s[i] # x
                   PROVE  \E j \in 1 .. c + 1 : m[j] = s[i]
        BY <3>4, <3>5
      <4>1. CASE i = n + 1
        BY <3>1, <3>4, <3>5, <4>1
      <4>2. CASE i \in 1 .. n
        <5>1. PICK j \in 1 .. c : k[j] = s[i]
          BY <2>2, <3>5, <4>2
        <5> QED BY <3>4, <3>5, <5>1
      <4> QED BY <4>1, <4>2
    <3>9. Len(m) = n + 1 => \A i \in 1 .. n + 1 : m[i] = s[i]
      <4> SUFFICES ASSUME Len(m) = n + 1, NEW i \in 1 .. n + 1 PROVE m[i] = s[i]
        OBVIOUS
      <4>1. c = n
        BY <3>4, <3>5
      <4>2. CASE i = n + 1
        BY <3>1, <3>4, <3>5, <4>1, <4>2
      <4>3. CASE i \in 1 .. n
        <5>1. k[i] = s[i]
          BY <2>2, <3>5, <4>1, <4>3
        <5>2. m[i] = k[i]
          BY <3>4, <3>5, <4>1, <4>3
        <5> QED BY <5>1, <5>2
      <4> QED BY <4>2, <4>3
    <3>10. (\A i \in 1 .. n + 1 : s[i] # x) => Len(m) = n + 1
      <4>1. \A i \in 1 .. n : i \in 1 .. n + 1
        OBVIOUS
      <4> QED BY <2>2, <3>4, <4>1
    <3>11. s[1] # x =>
              /\ Len(m) > 0 /\ m[1] = s[1]
              /\ \A j \in 2 .. Len(m) : \E i \in 2 .. n + 1 : m[j] = s[i]
      <4> SUFFICES ASSUME s[1] # x
                   PROVE  /\ m[1] = s[1]
                          /\ \A j \in 2 .. c + 1 : \E i \in 2 .. n + 1 : m[j] = s[i]
        BY <3>4, <3>5
      <4>1. CASE n = 0
        <5>1. c = 0
          BY <2>2, <3>5, <4>1
        <5> QED BY <3>1, <3>4, <3>5, <4>1, <5>1
      <4>2. CASE n # 0
        <5>1. /\ c > 0 /\ k[1] = s[1]
              /\ \A j \in 2 .. c : \E i \in 2 .. n : k[j] = s[i]
          BY <2>2, <3>5, <4>2
        <5>2. m[1] = s[1]
          BY <3>4, <3>5, <5>1
        <5>3. ASSUME NEW j \in 2 .. c + 1 PROVE \E i \in 2 .. n + 1 : m[j] = s[i]
          <6>1. CASE j = c + 1
            BY <3>1, <3>4, <3>5, <4>2, <6>1
          <6>2. CASE j \in 2 .. c
            <7>1. PICK i \in 2 .. n : k[j] = s[i]
              BY <5>1, <6>2
            <7>2. i \in 2 .. n + 1 /\ j \in 1 .. c
              BY <6>2
            <7> QED BY <3>4, <3>5, <7>1, <7>2
          <6> QED BY <6>1, <6>2
        <5> QED BY <5>2, <5>3
      <4> QED BY <4>1, <4>2
    <3>12. IsInjective(s) => \A i, j \in 1 .. Len(m) : m[i] = m[j] => i = j
      <4> SUFFICES ASSUME IsInjective(s), NEW i \in 1 .. c + 1, NEW j \in 1 .. c + 1, m[i] = m[j]
                   PROVE  i = j
        BY <3>4, <3>5
      <4>1. \A l \in 1 .. c : k[l] # y
        <5> SUFFICES ASSUME NEW l \in 1 .. c, k[l] = y PROVE FALSE
          OBVIOUS
        <5>1. PICK o \in 1 .. n : k[l] = s[o]
          BY <2>2, <3>5
        <5>2. o \in DOMAIN s /\ n + 1 \in DOMAIN s /\ s[o] = s[n + 1] /\ o # n + 1
          BY <1>0, <2>1, <3>1, <5>1
        <5> QED BY <5>2 DEF IsInjective
      <4>2. CASE i \in 1 .. c /\ j \in 1 .. c
        BY <2>2, <3>4, <3>5, <4>2
      <4>3. CASE i \in 1 .. c /\ j = c + 1
        BY <3>4, <3>5, <4>1, <4>3
      <4>4. CASE i = c + 1 /\ j \in 1 .. c
        BY <3>4, <3>5, <4>1, <4>4
      <4> QED BY <4>2, <4>3, <4>4
    <3>13. Kept(m, n + 1)
      BY <3>6, <3>7, <3>8, <3>9, <3>10, <3>11, <3>12
    <3> HIDE DEF Kept
    <3> QED BY <3>2, <3>3, <3>13
  <2> HIDE DEF Kept
  <2> QED BY <2>4, <2>5
<1>7. Nat \subseteq Good
  <2> HIDE DEF Good
  <2> QED BY <1>5, <1>6, SetInduction
<1>8. Kept(F[Len(s)], Len(s))
  <2>1. Len(s) \in Good
    <3> HIDE DEF Good
    <3> QED BY <1>0, <1>7
  <2> HIDE DEF Kept
  <2> QED BY <1>0, <2>1
<1>9. PICK k \in Seq(T) : k = Without(s, x) /\ Kept(k, Len(s))
  <2>1. F[Len(s)] \in Seq(T)
    BY <1>0
  <2> HIDE DEF Kept
  <2> QED BY <1>4, <1>8, <2>1
<1>10. Len(k) = Len(s) => k = s
  BY <1>0, <1>9
<1>11. Len(k) \in Nat /\ DOMAIN k = 1 .. Len(k)
  BY <1>9
<1>12. IsInjective(s) => IsInjective(k)
  BY <1>9, <1>11 DEF IsInjective
<1>13. Range(k) = Range(s) \ {x}
  <2>1. ASSUME NEW y \in Range(k) PROVE y \in Range(s) \ {x}
    <3>1. PICK j \in 1 .. Len(k) : y = k[j]
      BY <1>11 DEF Range
    <3>2. k[j] # x /\ \E i \in 1 .. Len(s) : k[j] = s[i]
      BY <1>9
    <3> QED BY <1>0, <3>1, <3>2 DEF Range
  <2>2. ASSUME NEW y \in Range(s) \ {x} PROVE y \in Range(k)
    <3>1. PICK i \in 1 .. Len(s) : y = s[i] /\ s[i] # x
      BY <1>0 DEF Range
    <3>2. \E j \in 1 .. Len(k) : k[j] = s[i]
      BY <1>9, <3>1
    <3> QED BY <1>11, <3>1, <3>2 DEF Range
  <2> QED BY <2>1, <2>2
<1>14. Keeps(k, s, x)
  BY <1>9, <1>10, <1>12, <1>13 DEF Keeps
<1> QED BY <1>9, <1>14

\* v is the rows of s, of w entries each, one after the other.
RowByRow(v, s, w) ==
    /\ Len(v) = Len(s) * w
    /\ \A r \in 1 .. Len(s), c \in 1 .. w : v[(r - 1) * w + c] = s[r][c]

\* Joined sequences of equal length: the entries by row and column.
LEMMA FlattenRows ==
    ASSUME NEW S, NEW s \in Seq(Seq(S)), NEW w \in Nat,
           \A i \in 1 .. Len(s) : Len(s[i]) = w
    PROVE  FlattenSeq(s) \in Seq(S) /\ RowByRow(FlattenSeq(s), s, w)
<1>0. Len(s) \in Nat /\ \A i \in 1 .. Len(s) : s[i] \in Seq(S)
  OBVIOUS
<1>1. PICK F \in [0 .. Len(s) -> Seq(S)] : Joins(F, s, Len(s)) /\ FlattenSeq(s) = F[Len(s)]
  BY FlattenJoins
<1> DEFINE Laid(n) == /\ Len(F[n]) = n * w
                      /\ \A r \in 1 .. n, c \in 1 .. w : F[n][(r - 1) * w + c] = s[r][c]
           Good == {n \in Nat : n <= Len(s) => Laid(n)}
<1>2. 0 \in Good
  <2>1. F[0] = <<>> /\ 0 * w = 0
    BY <1>1 DEF Joins
  <2> QED BY <2>1
<1>3. ASSUME NEW n \in Nat, n \in Good PROVE n + 1 \in Good
  <2> SUFFICES ASSUME n + 1 <= Len(s) PROVE Laid(n + 1)
    OBVIOUS
  <2>1. n \in 0 .. Len(s) /\ n + 1 \in 1 .. Len(s) /\ (n + 1) - 1 = n
    BY <1>0
  <2>2. F[n] \in Seq(S) /\ s[n + 1] \in Seq(S) /\ Len(s[n + 1]) = w
    BY <1>0, <2>1
  <2>3. F[n + 1] = F[n] \o s[n + 1]
    <3>1. F[n + 1] = F[(n + 1) - 1] \o s[n + 1]
      BY <1>1, <2>1 DEF Joins
    <3> QED BY <2>1, <3>1, Zenon
  <2>4. Laid(n)
    BY <1>0, <1>3, <2>1
  <2>5. n * w \in Nat /\ (n + 1) * w = n * w + w
    BY Product
  <2>6. PICK f : f = F[n]
    OBVIOUS
  <2>7. PICK t : t = s[n + 1]
    OBVIOUS
  <2>8. PICK k : k = n * w
    OBVIOUS
  <2>9. f \in Seq(S) /\ t \in Seq(S) /\ Len(f) = k /\ Len(t) = w /\ k \in Nat
    BY <2>2, <2>4, <2>5, <2>6, <2>7, <2>8
  <2>10. Len(f \o t) = k + w
    BY <2>9, Joined
  <2>11. \A c \in 1 .. w : (f \o t)[k + c] = t[c]
    BY <2>9, Joined
  <2>12. \A i \in 1 .. k : (f \o t)[i] = f[i]
    BY <2>9, Joined
  <2>13. ASSUME NEW r \in 1 .. n + 1, NEW c \in 1 .. w
         PROVE  F[n + 1][(r - 1) * w + c] = s[r][c]
    <3>1. CASE r = n + 1
      <4>1. (r - 1) * w + c = k + c
        BY <2>8, <3>1
      <4> QED BY <2>3, <2>6, <2>7, <2>11, <3>1, <4>1
    <3>2. CASE r # n + 1
      <4>1. r \in 1 .. n
        BY <3>2
      <4>2. (r - 1) * w + c \in 1 .. k
        <5>1. PICK d : d = n - r
          OBVIOUS
        <5>2. d \in Nat /\ n = r + d
          BY <4>1, <5>1
        <5>3. r - 1 \in Nat
          BY <4>1
        <5>4. (r - 1) * w \in Nat /\ r * w = (r - 1) * w + w /\ d * w \in Nat
          BY <5>2, <5>3, Product
        <5>5. n * w = r * w + d * w
          BY <4>1, <5>2
        <5> QED BY <2>8, <2>9, <5>4, <5>5
      <4>3. F[n][(r - 1) * w + c] = s[r][c]
        BY <2>4, <4>1
      <4> QED BY <2>3, <2>6, <2>7, <2>12, <4>2, <4>3
    <3> QED BY <3>1, <3>2
  <2>14. Len(F[n + 1]) = (n + 1) * w
    BY <2>3, <2>5, <2>6, <2>7, <2>8, <2>10
  <2> HIDE DEF Joins
  <2> QED BY <2>13, <2>14
<1>4. Nat \subseteq Good
  <2> HIDE DEF Good
  <2> QED BY <1>2, <1>3, SetInduction
<1>5. Laid(Len(s))
  <2>1. Len(s) \in Good
    <3> HIDE DEF Good
    <3> QED BY <1>0, <1>4
  <2> HIDE DEF Laid
  <2> QED BY <1>0, <2>1
<1>6. F[Len(s)] \in Seq(S)
  BY <1>0
<1> QED BY <1>1, <1>5, <1>6 DEF RowByRow
================================================================================
