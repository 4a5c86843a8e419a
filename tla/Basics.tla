------------------------------ MODULE Basics -------------------------------
(***************************************************************************)
(* What the proofs use of natural numbers: least and greatest elements,    *)
(* induction and division; and of sequences that are folded.               *)
(***************************************************************************)
EXTENDS Naturals, Filtering, WellFoundedInduction, FiniteSetTheorems, TLAPS

\* A set of numbers that is not empty has a least one.
LEMMA LeastExists ==
    ASSUME NEW S, S \subseteq Nat, S # {}
    PROVE  \E m \in S : \A g \in S : m <= g
<1> DEFINE R == OpToRel(<, Nat)
<1>1. IsWellFoundedOn(R, Nat)
  BY NatLessThanWellFounded
<1> HIDE DEF R
<1>2. \E m \in S : \A g \in S : ~(<<g, m>> \in R)
  BY <1>1, WFMin
<1>3. ASSUME NEW g \in Nat, NEW m \in Nat PROVE <<g, m>> \in R <=> g < m
  BY DEF R, OpToRel
<1>4. PICK m \in S : \A g \in S : ~(<<g, m>> \in R)
  BY <1>2
<1>5. ASSUME NEW g \in S PROVE m <= g
  <2>1. g \in Nat /\ m \in Nat
    OBVIOUS
  <2>2. ~(g < m)
    BY <1>3, <1>4, <2>1
  <2> QED
    BY <2>1, <2>2
<1> QED
  BY <1>4, <1>5

\* A finite set of numbers that is not empty has a greatest one: the one
\* with the fewest above it.
LEMMA GreatestExists ==
    ASSUME NEW S, S \subseteq Nat, S # {}, IsFiniteSet(S)
    PROVE  \E m \in S : \A g \in S : g <= m
<1> DEFINE Above(m) == {g \in S : g > m}
           Sizes == {Cardinality(Above(m)) : m \in S}
<1>1. ASSUME NEW m \in S PROVE IsFiniteSet(Above(m)) /\ Cardinality(Above(m)) \in Nat
  BY FS_Subset, FS_CardinalityType
<1>2. PICK m \in S : \A g \in S : Cardinality(Above(m)) <= Cardinality(Above(g))
  <2>1. Sizes \subseteq Nat /\ Sizes # {}
    BY <1>1
  <2>2. \E n \in Sizes : \A k \in Sizes : n <= k
    <3> HIDE DEF Sizes
    <3> QED
      BY <2>1, LeastExists
  <2> QED
    BY <2>2
<1>3. ASSUME NEW g \in S, g > m PROVE FALSE
  <2>1. m \in Nat /\ S \subseteq Nat
    OBVIOUS
  <2>2. g \in Above(m) /\ g \notin Above(g)
    BY <1>3, <2>1
  <2>3. Above(g) \in SUBSET Above(m)
    <3>1. ASSUME NEW h \in S, h > g PROVE h > m
      BY <1>3, <2>1, <3>1
    <3> QED
      BY <3>1
  <2> HIDE DEF Above
  <2>4. Cardinality(Above(g)) # Cardinality(Above(m))
    BY <1>1, <2>2, <2>3, FS_Subset
  <2>5. Cardinality(Above(g)) <= Cardinality(Above(m))
    BY <1>1, <2>3, FS_Subset
  <2> QED
    BY <1>1, <1>2, <2>4, <2>5
<1>4. \A g \in S : g <= m
  BY <1>3
<1> QED
  BY <1>4

\* Induction, over a set instead of a predicate.
LEMMA Counting ==
    ASSUME NEW S, 0 \in S, \A n \in Nat : n \in S => n + 1 \in S
    PROVE  Nat \subseteq S
<1> DEFINE Rest == Nat \ S
<1>1. SUFFICES ASSUME Rest # {} PROVE FALSE
  OBVIOUS
<1>2. PICK m \in Rest : \A g \in Rest : m <= g
  <2>1. Rest \subseteq Nat
    OBVIOUS
  <2> HIDE DEF Rest
  <2> QED
    BY <1>1, <2>1, LeastExists
<1>3. m \in Nat /\ m # 0
  OBVIOUS
<1>4. m - 1 \in Nat /\ m - 1 \in S /\ (m - 1) + 1 = m
  BY <1>2, <1>3
<1> QED
  BY <1>4
----------------------------------------------------------------------------
(* Multiplication and division *)

LEMMA QuotientBounds ==
    ASSUME NEW a \in Nat, NEW l \in Nat \ {0}
    PROVE  a \div l \in Nat /\ (a \div l) * l <= a /\ a < (a \div l) * l + l
OBVIOUS

LEMMA ProductNat ==
    ASSUME NEW a \in Nat, NEW l \in Nat
    PROVE  a * l \in Nat
OBVIOUS

LEMMA NextMultiple ==
    ASSUME NEW q \in Nat, NEW l \in Nat
    PROVE  (q + 1) * l = q * l + l
OBVIOUS

LEMMA MultiplesApart ==
    ASSUME NEW q \in Nat, NEW d \in Nat, NEW l \in Nat, q < d
    PROVE  q * l + l <= d * l
<1>1. PICK e \in Nat : d = q + 1 + e
  <2>1. d - q - 1 \in Nat /\ d = q + 1 + (d - q - 1)
    OBVIOUS
  <2> QED
    BY <2>1
<1>2. d * l = q * l + l + e * l
  BY <1>1
<1>3. e * l \in Nat /\ q * l \in Nat /\ d * l \in Nat
  OBVIOUS
<1> QED
  BY <1>2, <1>3

\* The quotient is the only number with its bounds.
LEMMA QuotientIs ==
    ASSUME NEW a \in Nat, NEW l \in Nat \ {0}, NEW q \in Nat, q * l <= a, a < q * l + l
    PROVE  a \div l = q
<1> DEFINE d == a \div l
<1>1. d \in Nat /\ d * l <= a /\ a < d * l + l
  BY QuotientBounds
<1>2. d * l \in Nat /\ q * l \in Nat
  BY <1>1, ProductNat
<1> HIDE DEF d
<1>3. ASSUME q < d PROVE FALSE
  BY <1>1, <1>2, <1>3, MultiplesApart
<1>4. ASSUME d < q PROVE FALSE
  BY <1>1, <1>2, <1>4, MultiplesApart
<1>5. d = q
  BY <1>1, <1>3, <1>4
<1> QED
  BY <1>5 DEF d

LEMMA NoRemainder ==
    ASSUME NEW a \in Nat, NEW l \in Nat \ {0}, a % l = 0
    PROVE  a = (a \div l) * l
OBVIOUS
----------------------------------------------------------------------------
(* Folds.  FoldLeft recurses on the sets of positions that are not folded   *)
(* yet, of which it takes the last.                                         *)

\* the recursive function of a fold, with an operation that is a function
IsIter(F, base, seq, g) ==
    g = [s \in SUBSET DOMAIN seq |-> IF s = {} THEN base ELSE F[g[s \ {Max(s)}], seq[Max(s)]]]

LEMMA MaxOfRange ==
    ASSUME NEW n \in Nat, NEW s \in SUBSET (1..n + 1), n + 1 \in s
    PROVE  Max(s) = n + 1
<1>1. n + 1 \in s /\ \A y \in s : n + 1 >= y
  OBVIOUS
<1>2. ASSUME NEW x \in s, \A y \in s : x >= y PROVE x = n + 1
  BY <1>1, <1>2
<1> QED
  BY <1>1, <1>2 DEF Max

LEMMA MaxOfRest ==
    ASSUME NEW n \in Nat, NEW s \in SUBSET (1..n), s # {}
    PROVE  Max(s) \in s
<1>1. s \subseteq Nat /\ IsFiniteSet(s)
  <2> DEFINE T == 1..n
  <2>1. IsFiniteSet(T)
    BY FS_Interval
  <2>2. s \in SUBSET T /\ s \subseteq Nat
    OBVIOUS
  <2> HIDE DEF T
  <2> QED
    BY <2>1, <2>2, FS_Subset
<1>2. PICK m \in s : \A g \in s : g <= m
  BY <1>1, GreatestExists
<1>3. \A g \in s : m >= g
  BY <1>1, <1>2
<1> QED
  BY <1>3 DEF Max

LEMMA IterExists ==
    ASSUME NEW A, NEW E, NEW F \in [A \X E -> A], NEW base \in A, NEW seq \in Seq(E)
    PROVE  \E g \in [SUBSET DOMAIN seq -> A] : IsIter(F, base, seq, g)
<1> DEFINE Upto(n, g) ==
              g = [s \in SUBSET (1..n) |-> IF s = {} THEN base ELSE F[g[s \ {Max(s)}], seq[Max(s)]]]
           Some(n) == \E g \in [SUBSET (1..n) -> A] : Upto(n, g)
           S == {n \in Nat : n <= Len(seq) => Some(n)}
<1>1. 0 \in S
  <2> DEFINE g == [s \in SUBSET (1..0) |-> base]
  <2>1. \A s \in SUBSET (1..0) : s = {}
    OBVIOUS
  <2>2. g \in [SUBSET (1..0) -> A] /\ Upto(0, g)
    BY <2>1
  <2> QED
    BY <2>2
<1>2. ASSUME NEW n \in Nat, n \in S PROVE n + 1 \in S
  <2>1. SUFFICES ASSUME n + 1 <= Len(seq), Some(n) PROVE Some(n + 1)
    <3> HIDE DEF Some
    <3> QED
      BY <1>2
  <2>2. PICK g \in [SUBSET (1..n) -> A] : Upto(n, g)
    BY <2>1
  <2> DEFINE h == [s \in SUBSET (1..n + 1) |->
                      IF n + 1 \in s THEN F[g[s \ {n + 1}], seq[n + 1]] ELSE g[s]]
  <2>3. ASSUME NEW s \in SUBSET (1..n + 1), n + 1 \in s
        PROVE  /\ s # {} /\ h[s] \in A
               /\ h[s] = F[h[s \ {Max(s)}], seq[Max(s)]]
    <3>1. Max(s) = n + 1
      BY <2>3, MaxOfRange
    <3>2. s \ {n + 1} \in SUBSET (1..n) /\ n + 1 \notin s \ {n + 1}
      BY <2>3
    <3>3. h[s \ {n + 1}] = g[s \ {n + 1}] /\ g[s \ {n + 1}] \in A
      BY <3>2
    <3>4. seq[n + 1] \in E
      <4>1. n + 1 \in 1..Len(seq)
        <5> HIDE DEF Some
        <5> QED
          BY <2>1
      <4> QED
        BY <4>1
    <3>5. h[s] = F[g[s \ {n + 1}], seq[n + 1]]
      BY <2>3
    <3>6. h[s] \in A
      BY <3>3, <3>4, <3>5
    <3> HIDE DEF h
    <3> QED
      BY <2>3, <3>1, <3>3, <3>5, <3>6
  <2>4. ASSUME NEW s \in SUBSET (1..n + 1), n + 1 \notin s
        PROVE  /\ h[s] \in A
               /\ h[s] = IF s = {} THEN base ELSE F[h[s \ {Max(s)}], seq[Max(s)]]
    <3>1. s \in SUBSET (1..n)
      BY <2>4
    <3>2. h[s] = g[s] /\ h[s \ {Max(s)}] = g[s \ {Max(s)}]
      BY <2>4, <3>1
    <3>3. g[s] = IF s = {} THEN base ELSE F[g[s \ {Max(s)}], seq[Max(s)]]
      BY <2>2, <3>1
    <3> HIDE DEF h
    <3> QED
      BY <2>2, <3>1, <3>2, <3>3
  <2>5. h = [s \in SUBSET (1..n + 1) |-> h[s]]
    OBVIOUS
  <2> HIDE DEF h
  <2>6. h \in [SUBSET (1..n + 1) -> A]
    BY <2>3, <2>4, <2>5
  <2>7. Upto(n + 1, h)
    BY <2>3, <2>4, <2>5
  <2> QED
    BY <2>6, <2>7
<1>3. Nat \subseteq S
  <2> HIDE DEF S
  <2> QED
    BY <1>1, <1>2, Counting
<1>4. Some(Len(seq)) /\ DOMAIN seq = 1..Len(seq)
  <2> HIDE DEF Some
  <2> QED
    BY <1>3
<1> QED
  BY <1>4 DEF IsIter

\* The last of the first positions, and those before it
LEMMA LastOfFirst ==
    ASSUME NEW n \in Nat
    PROVE  1..n + 1 # {} /\ Max(1..n + 1) = n + 1 /\ (1..n + 1) \ {n + 1} = 1..n
BY MaxOfRange
\* What a fold keeps in A at every step ends in A.
LEMMA FoldInduction ==
    ASSUME NEW A, NEW E, NEW seq \in Seq(E), NEW g, g[{}] \in A,
           \A n \in Nat : n < Len(seq) /\ g[1..n] \in A => g[1..n + 1] \in A
    PROVE  g[DOMAIN seq] \in A
<1> DEFINE T == {n \in Nat : n <= Len(seq) => g[1..n] \in A}
<1>1. 0 \in T
  <2>1. 1..0 = {}
    OBVIOUS
  <2> QED
    BY <2>1
<1>2. ASSUME NEW n \in Nat, n \in T PROVE n + 1 \in T
  BY <1>2
<1>3. Nat \subseteq T
  <2> HIDE DEF T
  <2> QED
    BY <1>1, <1>2, Counting
<1>4. Len(seq) \in Nat /\ DOMAIN seq = 1..Len(seq)
  OBVIOUS
<1> QED
  BY <1>3, <1>4
----------------------------------------------------------------------------
(* The elements of sequences *)

LEMMA AppendSet ==
    ASSUME NEW E, NEW a \in Seq(E), NEW e \in E
    PROVE  ToSet(Append(a, e)) = ToSet(a) \cup {e}
<1> DEFINE b == Append(a, e)
<1>1. /\ DOMAIN a = 1..Len(a) /\ DOMAIN b = 1..Len(a) + 1 /\ Len(a) \in Nat
      /\ b[Len(a) + 1] = e /\ \A i \in 1..Len(a) : b[i] = a[i]
  OBVIOUS
<1> HIDE DEF b
<1>2. \A i \in 1..Len(a) + 1 : i \in 1..Len(a) \/ i = Len(a) + 1
  BY <1>1
<1>3. \A i \in 1..Len(a) : i \in 1..Len(a) + 1
  BY <1>1
<1>4. Len(a) + 1 \in 1..Len(a) + 1
  BY <1>1
<1>5. ToSet(b) = ToSet(a) \cup {e}
  BY <1>1, <1>2, <1>3, <1>4 DEF ToSet
<1> QED
  BY <1>5 DEF b

LEMMA StaysInjective ==
    ASSUME NEW E, NEW a \in Seq(E), NEW e \in E, IsInjective(a), e \notin ToSet(a)
    PROVE  IsInjective(Append(a, e))
<1> DEFINE b == Append(a, e)
           n == Len(a)
<1>1. /\ DOMAIN a = 1..n /\ DOMAIN b = 1..n + 1 /\ n \in Nat
      /\ b[n + 1] = e /\ \A i \in 1..n : b[i] = a[i]
  OBVIOUS
<1>2. \A i \in 1..n : a[i] # e
  BY <1>1 DEF ToSet
<1> HIDE DEF b, n
<1>3. ASSUME NEW i \in 1..n + 1, NEW j \in 1..n + 1, b[i] = b[j] PROVE i = j
  <2>1. (i \in 1..n \/ i = n + 1) /\ (j \in 1..n \/ j = n + 1)
    BY <1>1
  <2>2. CASE i \in 1..n /\ j \in 1..n
    BY <1>1, <1>3, <2>2 DEF IsInjective
  <2>3. CASE i = n + 1 /\ j \in 1..n
    BY <1>1, <1>2, <1>3, <2>3
  <2>4. CASE i \in 1..n /\ j = n + 1
    BY <1>1, <1>2, <1>3, <2>4
  <2> QED
    BY <2>1, <2>2, <2>3, <2>4
<1>4. IsInjective(b)
  BY <1>1, <1>3 DEF IsInjective
<1> QED
  BY <1>4 DEF b

LEMMA SeqOfSet ==
    ASSUME NEW E, NEW a \in Seq(E), NEW F, ToSet(a) \subseteq F
    PROVE  a \in Seq(F)
<1>1. Len(a) \in Nat /\ a = [i \in 1..Len(a) |-> a[i]] /\ \A i \in 1..Len(a) : a[i] \in F
  BY DEF ToSet
<1> QED
  BY <1>1

LEMMA TailSet ==
    ASSUME NEW E, NEW a \in Seq(E), a # <<>>
    PROVE  Tail(a) \in Seq(E) /\ Head(a) \in E /\ ToSet(a) = {Head(a)} \cup ToSet(Tail(a))
<1> DEFINE n == Len(a)
           t == Tail(a)
<1>1. /\ n \in Nat \ {0} /\ DOMAIN a = 1..n /\ DOMAIN t = 1..n - 1 /\ Head(a) = a[1]
      /\ t \in Seq(E) /\ a[1] \in E /\ \A i \in 1..n - 1 : t[i] = a[i + 1]
  OBVIOUS
<1> HIDE DEF n, t
<1>2. \A i \in 1..n : i = 1 \/ (i - 1 \in 1..n - 1 /\ (i - 1) + 1 = i)
  BY <1>1
<1>3. 1 \in 1..n /\ \A i \in 1..n - 1 : i + 1 \in 1..n
  BY <1>1
<1>4. ToSet(a) \subseteq {a[1]} \cup ToSet(t)
  <2>1. ASSUME NEW i \in 1..n, i # 1 PROVE a[i] \in ToSet(t)
    <3>1. i - 1 \in 1..n - 1 /\ t[i - 1] = a[i]
      BY <1>1, <1>2, <2>1
    <3> QED
      BY <1>1, <3>1 DEF ToSet
  <2> QED
    BY <1>1, <2>1 DEF ToSet
<1>5. {a[1]} \cup ToSet(t) \subseteq ToSet(a)
  BY <1>1, <1>3 DEF ToSet
<1> QED
  BY <1>1, <1>4, <1>5 DEF t

LEMMA JoinSet ==
    ASSUME NEW E, NEW a \in Seq(E), NEW b \in Seq(E)
    PROVE  ToSet(a \o b) = ToSet(a) \cup ToSet(b)
<1> DEFINE c == a \o b
           n == Len(a)
           l == Len(b)
<1>1. /\ n \in Nat /\ l \in Nat /\ DOMAIN a = 1..n /\ DOMAIN b = 1..l /\ DOMAIN c = 1..n + l
      /\ \A i \in 1..n + l : c[i] = IF i <= n THEN a[i] ELSE b[i - n]
  OBVIOUS
<1> HIDE DEF c, n, l
<1>2. ASSUME NEW i \in 1..n + l PROVE c[i] \in ToSet(a) \cup ToSet(b)
  <2>1. CASE i <= n
    <3>1. i \in 1..n
      BY <1>1, <2>1
    <3>2. c[i] = a[i]
      BY <1>1, <2>1
    <3>3. a[i] \in ToSet(a)
      BY <1>1, <3>1 DEF ToSet
    <3> QED
      BY <3>2, <3>3
  <2>2. CASE ~(i <= n)
    <3>1. i - n \in 1..l
      BY <1>1, <2>2
    <3>2. c[i] = b[i - n]
      BY <1>1, <2>2
    <3>3. b[i - n] \in ToSet(b)
      BY <1>1, <3>1 DEF ToSet
    <3> QED
      BY <3>2, <3>3
  <2> QED
    BY <2>1, <2>2
<1>3. ASSUME NEW i \in 1..n PROVE a[i] \in ToSet(c)
  <2>1. i \in 1..n + l /\ i <= n
    BY <1>1
  <2> QED
    BY <1>1, <2>1 DEF ToSet
<1>4. ASSUME NEW i \in 1..l PROVE b[i] \in ToSet(c)
  <2>1. n + i \in 1..n + l /\ ~(n + i <= n) /\ (n + i) - n = i
    BY <1>1
  <2>2. c[n + i] = b[i]
    BY <1>1, <2>1
  <2> QED
    BY <1>1, <2>1, <2>2 DEF ToSet
<1>5. ToSet(c) = ToSet(a) \cup ToSet(b)
  <2>1. ToSet(c) \subseteq ToSet(a) \cup ToSet(b)
    BY <1>1, <1>2 DEF ToSet
  <2>2. ToSet(a) \subseteq ToSet(c) /\ ToSet(b) \subseteq ToSet(c)
    BY <1>1, <1>3, <1>4 DEF ToSet
  <2> QED
    BY <2>1, <2>2
<1> QED
  BY <1>5 DEF c

\* the recursive function of FlattenSeq
IsFlat(seqs, g) == g = [i \in 1..Len(seqs) |-> IF i = 1 THEN seqs[i] ELSE g[i-1] \o seqs[i]]

LEMMA FlatExists ==
    ASSUME NEW E, NEW seqs \in Seq(Seq(E))
    PROVE  \E g \in [1..Len(seqs) -> Seq(E)] : IsFlat(seqs, g)
<1> DEFINE Upto(n, g) == g = [i \in 1..n |-> IF i = 1 THEN seqs[i] ELSE g[i-1] \o seqs[i]]
           Some(n) == \E g \in [1..n -> Seq(E)] : Upto(n, g)
           S == {n \in Nat : n <= Len(seqs) => Some(n)}
<1>1. 0 \in S
  <2> DEFINE g == [i \in 1..0 |-> <<>>]
  <2>1. g \in [1..0 -> Seq(E)] /\ Upto(0, g)
    OBVIOUS
  <2> QED
    BY <2>1
<1>2. ASSUME NEW n \in Nat, n \in S PROVE n + 1 \in S
  <2>1. SUFFICES ASSUME n + 1 <= Len(seqs), Some(n) PROVE Some(n + 1)
    <3> HIDE DEF Some
    <3> QED
      BY <1>2
  <2>2. PICK g \in [1..n -> Seq(E)] : Upto(n, g)
    BY <2>1
  <2>3. n + 1 \in 1..Len(seqs)
    <3> HIDE DEF Some
    <3> QED
      BY <2>1
  <2>4. seqs[n + 1] \in Seq(E)
    BY <2>3
  <2> DEFINE h == [i \in 1..n + 1 |-> IF i \in 1..n THEN g[i]
                                      ELSE IF i = 1 THEN seqs[i] ELSE g[i-1] \o seqs[i]]
  <2>5. ASSUME NEW i \in 1..n
        PROVE  h[i] \in Seq(E) /\ h[i] = IF i = 1 THEN seqs[i] ELSE h[i-1] \o seqs[i]
    <3>1. h[i] = g[i] /\ g[i] \in Seq(E)
      OBVIOUS
    <3>2. g[i] = IF i = 1 THEN seqs[i] ELSE g[i-1] \o seqs[i]
      BY <2>2
    <3>3. i # 1 => h[i-1] = g[i-1]
      OBVIOUS
    <3> HIDE DEF h
    <3> QED
      BY <3>1, <3>2, <3>3
  <2>6. /\ h[n + 1] \in Seq(E)
        /\ h[n + 1] = IF n + 1 = 1 THEN seqs[n + 1] ELSE h[(n + 1) - 1] \o seqs[n + 1]
    <3>1. h[n + 1] = IF n + 1 = 1 THEN seqs[n + 1] ELSE g[(n + 1) - 1] \o seqs[n + 1]
      OBVIOUS
    <3>2. n + 1 # 1 => (n + 1) - 1 \in 1..n /\ h[(n + 1) - 1] = g[(n + 1) - 1] /\ g[(n + 1) - 1] \in Seq(E)
      OBVIOUS
    <3> HIDE DEF h
    <3> QED
      BY <2>4, <3>1, <3>2
  <2>7. h = [i \in 1..n + 1 |-> h[i]] /\ \A i \in 1..n + 1 : i \in 1..n \/ i = n + 1
    OBVIOUS
  <2> HIDE DEF h
  <2>8. h \in [1..n + 1 -> Seq(E)]
    BY <2>5, <2>6, <2>7
  <2>9. Upto(n + 1, h)
    BY <2>5, <2>6, <2>7
  <2> QED
    BY <2>8, <2>9
<1>3. Nat \subseteq S
  <2> HIDE DEF S
  <2> QED
    BY <1>1, <1>2, Counting
<1>4. Some(Len(seqs))
  <2> HIDE DEF Some
  <2> QED
    BY <1>3
<1> QED
  BY <1>4 DEF IsFlat

\* The elements of sequences that are joined
LEMMA JoinedSet ==
    ASSUME NEW E, NEW seqs \in Seq(Seq(E))
    PROVE  /\ FlattenSeq(seqs) \in Seq(E)
           /\ ToSet(FlattenSeq(seqs)) = UNION {ToSet(seqs[i]) : i \in DOMAIN seqs}
<1> DEFINE g == CHOOSE g : IsFlat(seqs, g)
<1>1. FlattenSeq(seqs) = IF Len(seqs) = 0 THEN seqs ELSE g[Len(seqs)]
  BY Zenon DEF FlattenSeq, IsFlat
<1>2. IsFlat(seqs, g)
  BY FlatExists
<1> HIDE DEF g
<1> DEFINE All(n) == UNION {ToSet(seqs[i]) : i \in 1..n}
           T == {n \in Nat : n # 0 /\ n <= Len(seqs) => g[n] \in Seq(E) /\ ToSet(g[n]) = All(n)}
<1>3. ASSUME NEW n \in Nat, n \in T PROVE n + 1 \in T
  <2>1. SUFFICES ASSUME n + 1 <= Len(seqs) PROVE g[n + 1] \in Seq(E) /\ ToSet(g[n + 1]) = All(n + 1)
    OBVIOUS
  <2>2. n + 1 \in 1..Len(seqs)
    BY <2>1
  <2>3. seqs[n + 1] \in Seq(E)
    BY <2>2
  <2>4. All(n + 1) = All(n) \cup ToSet(seqs[n + 1])
    <3>1. 1..n + 1 = (1..n) \cup {n + 1}
      OBVIOUS
    <3> QED
      BY <3>1
  <2>5. CASE n = 0
    <3>1. n + 1 = 1 /\ All(n) = {}
      BY <2>5
    <3>2. g[n + 1] = seqs[n + 1]
      BY <1>2, <2>2, <3>1 DEF IsFlat
    <3> HIDE DEF All
    <3> QED
      BY <2>3, <2>4, <3>1, <3>2
  <2>6. CASE n # 0
    <3>1. g[n + 1] = g[n] \o seqs[n + 1]
      <4>1. n + 1 # 1 /\ (n + 1) - 1 = n
        BY <2>6
      <4> QED
        BY <1>2, <2>2, <4>1 DEF IsFlat
    <3>2. g[n] \in Seq(E) /\ ToSet(g[n]) = All(n)
      BY <1>3, <2>1, <2>6
    <3> HIDE DEF All
    <3>3. g[n] \o seqs[n + 1] \in Seq(E)
      BY <2>3, <3>2
    <3>4. ToSet(g[n] \o seqs[n + 1]) = ToSet(g[n]) \cup ToSet(seqs[n + 1])
      BY <2>3, <3>2, JoinSet
    <3> QED
      BY <2>4, <3>1, <3>2, <3>3, <3>4
  <2> HIDE DEF All
  <2> QED
    BY <2>5, <2>6
<1>4. Nat \subseteq T
  <2>1. 0 \in T
    OBVIOUS
  <2> HIDE DEF T
  <2> QED
    BY <1>3, <2>1, Counting
<1>5. DOMAIN seqs = 1..Len(seqs) /\ Len(seqs) \in Nat
  OBVIOUS
<1>6. Len(seqs) # 0 => g[Len(seqs)] \in Seq(E) /\ ToSet(g[Len(seqs)]) = All(Len(seqs))
  <2> HIDE DEF All
  <2> QED
    BY <1>4, <1>5
<1>7. Len(seqs) = 0 => seqs \in Seq(E) /\ ToSet(seqs) = {} /\ All(Len(seqs)) = {}
  BY <1>5 DEF ToSet
<1>8. All(Len(seqs)) = UNION {ToSet(seqs[i]) : i \in DOMAIN seqs}
  BY <1>5
<1> HIDE DEF All
<1> QED
  BY <1>1, <1>6, <1>7, <1>8

LEMMA JoinedOne ==
    ASSUME NEW E, NEW seq \in Seq(E)
    PROVE  FlattenSeq(<<seq>>) = seq
<1> DEFINE seqs == <<seq>>
           g == CHOOSE g : IsFlat(seqs, g)
<1>1. FlattenSeq(seqs) = IF Len(seqs) = 0 THEN seqs ELSE g[Len(seqs)]
  BY Zenon DEF FlattenSeq, IsFlat
<1>2. seqs \in Seq(Seq(E)) /\ Len(seqs) = 1 /\ seqs[1] = seq
  <2> DEFINE S == Seq(E)
  <2>1. seq \in S
    OBVIOUS
  <2> HIDE DEF S
  <2>2. seqs \in Seq(S) /\ Len(seqs) = 1 /\ seqs[1] = seq
    BY <2>1
  <2> QED
    BY <2>2 DEF S
<1> HIDE DEF seqs
<1>3. IsFlat(seqs, g)
  BY <1>2, FlatExists
<1> HIDE DEF g
<1>4. g[1] = seq
  BY <1>2, <1>3 DEF IsFlat
<1> QED
  BY <1>1, <1>2, <1>4 DEF seqs

LEMMA JoinSingle ==
    ASSUME NEW E, NEW a \in Seq(E), NEW t \in Seq(E)
    PROVE  /\ a \o t \in Seq(E)
           /\ \A i \in 1..Len(a) : (a \o t)[i] = a[i]
           /\ Len(t) = 1 => Len(a \o t) = Len(a) + 1 /\ (a \o t)[Len(a) + 1] = t[1]
<1> DEFINE c == a \o t
           n == Len(a)
           l == Len(t)
<1>1. /\ n \in Nat /\ l \in Nat /\ DOMAIN c = 1..n + l
      /\ \A i \in 1..n + l : c[i] = IF i <= n THEN a[i] ELSE t[i - n]
  OBVIOUS
<1>2. c \in Seq(E)
  OBVIOUS
<1> HIDE DEF c, n, l
<1>3. \A i \in 1..n : c[i] = a[i]
  BY <1>1
<1>4. ASSUME l = 1 PROVE Len(c) = n + 1 /\ c[n + 1] = t[1]
  <2>1. Len(c) = n + l
    BY <1>1, <1>2
  <2>2. n + 1 \in 1..n + l /\ ~(n + 1 <= n) /\ (n + 1) - n = 1
    BY <1>1, <1>4
  <2> QED
    BY <1>1, <1>4, <2>1, <2>2
<1> QED
  BY <1>2, <1>3, <1>4 DEF c, n, l

\* One element each: the sequence of the elements
LEMMA JoinedSingles ==
    ASSUME NEW E, NEW seqs \in Seq(Seq(E)), \A i \in DOMAIN seqs : Len(seqs[i]) = 1
    PROVE  /\ FlattenSeq(seqs) \in Seq(E) /\ Len(FlattenSeq(seqs)) = Len(seqs)
           /\ \A i \in DOMAIN seqs : FlattenSeq(seqs)[i] = seqs[i][1] /\ seqs[i] = <<seqs[i][1]>>
<1> DEFINE g == CHOOSE g : IsFlat(seqs, g)
<1>1. FlattenSeq(seqs) = IF Len(seqs) = 0 THEN seqs ELSE g[Len(seqs)]
  BY Zenon DEF FlattenSeq, IsFlat
<1>2. IsFlat(seqs, g)
  BY FlatExists
<1> HIDE DEF g
<1> DEFINE Singles(n, h) == h \in Seq(E) /\ Len(h) = n /\ \A i \in 1..n : h[i] = seqs[i][1]
           T == {n \in Nat : n # 0 /\ n <= Len(seqs) => Singles(n, g[n])}
<1>3. ASSUME NEW n \in Nat, n \in T PROVE n + 1 \in T
  <2>1. SUFFICES ASSUME n + 1 <= Len(seqs) PROVE Singles(n + 1, g[n + 1])
    OBVIOUS
  <2>2. n + 1 \in 1..Len(seqs) /\ n + 1 \in DOMAIN seqs
    BY <2>1
  <2> DEFINE t == seqs[n + 1]
  <2>3. t \in Seq(E) /\ Len(t) = 1
    BY <2>2
  <2>4. CASE n = 0
    <3>1. g[n + 1] = t /\ n + 1 = 1
      BY <1>2, <2>2, <2>4 DEF IsFlat
    <3>2. \A i \in 1..n + 1 : i = 1
      BY <3>1
    <3> HIDE DEF t
    <3>3. \A i \in 1..n + 1 : g[n + 1][i] = seqs[i][1]
      BY <3>1, <3>2 DEF t
    <3> QED
      BY <2>3, <3>1, <3>3
  <2>5. CASE n # 0
    <3>1. n + 1 # 1 /\ (n + 1) - 1 = n
      BY <2>5
    <3>2. g[n + 1] = g[n] \o t
      BY <1>2, <2>2, <3>1 DEF IsFlat
    <3>3. Singles(n, g[n])
      BY <1>3, <2>1, <2>5
    <3> DEFINE h == g[n]
    <3>4. h \in Seq(E) /\ Len(h) = n
      BY <3>3
    <3>5. \A i \in 1..n : h[i] = seqs[i][1]
      BY <3>3
    <3> HIDE DEF h, t
    <3>6. /\ h \o t \in Seq(E) /\ Len(h \o t) = n + 1
          /\ \A i \in 1..n : (h \o t)[i] = h[i]
          /\ (h \o t)[n + 1] = t[1]
      <4> HIDE DEF Singles, T
      <4> QED
        BY <2>3, <3>4, JoinSingle
    <3>8. ASSUME NEW i \in 1..n + 1 PROVE (h \o t)[i] = seqs[i][1]
      <4>1. CASE i \in 1..n
        BY <3>5, <3>6, <4>1
      <4>2. CASE i = n + 1
        BY <3>6, <4>2 DEF t
      <4> HIDE DEF Singles, T
      <4>3. i \in 1..n \/ i = n + 1
        OBVIOUS
      <4> QED
        BY <4>1, <4>2, <4>3
    <3>9. g[n + 1] = h \o t
      BY <3>2 DEF h
    <3> QED
      BY <3>6, <3>8, <3>9
  <2> QED
    BY <2>4, <2>5
<1>4. Nat \subseteq T
  <2>1. 0 \in T
    OBVIOUS
  <2> HIDE DEF T
  <2> QED
    BY <1>3, <2>1, Counting
<1>5. CASE Len(seqs) = 0
  BY <1>1, <1>5
<1>6. CASE Len(seqs) # 0
  <2>1. Len(seqs) \in T /\ DOMAIN seqs = 1..Len(seqs)
    BY <1>4
  <2>2. Singles(Len(seqs), g[Len(seqs)])
    BY <1>6, <2>1
  <2>3. ASSUME NEW i \in DOMAIN seqs PROVE seqs[i] = <<seqs[i][1]>>
    <3> DEFINE t == seqs[i]
    <3>1. t \in Seq(E) /\ Len(t) = 1
      OBVIOUS
    <3> HIDE DEF t
    <3>2. t = <<t[1]>>
      BY <3>1
    <3> QED
      BY <3>2 DEF t
  <2> QED
    BY <1>1, <1>6, <2>1, <2>2, <2>3
<1> QED
  BY <1>5, <1>6

\* A function of the first numbers is a sequence, and so are its beginnings.
LEMMA Beginning ==
    ASSUME NEW m \in Nat, NEW t, t = [i \in 1..m |-> t[i]], NEW E, \A i \in 1..m : t[i] \in E, NEW n \in 0..m
    PROVE  /\ t \in Seq(E) /\ Len(t) = m
           /\ SubSeq(t, 1, n) \in Seq(E) /\ Len(SubSeq(t, 1, n)) = n
           /\ \A i \in 1..n : SubSeq(t, 1, n)[i] = t[i]
<1>1. t \in Seq(E) /\ Len(t) = m
  <2>1. [i \in 1..m |-> t[i]] \in Seq(E) /\ Len([i \in 1..m |-> t[i]]) = m
    OBVIOUS
  <2> QED
    BY <2>1
<1>2. n \in Nat /\ n <= Len(t)
  BY <1>1
<1> QED
  BY <1>1, <1>2

\* A sequence that is followed by the beginning of another
LEMMA JoinBeginning ==
    ASSUME NEW C, NEW cs \in Seq(C), NEW m \in Nat, NEW t, t = [i \in 1..m |-> t[i]], NEW n \in 0..m
    PROVE  LET list == cs \o SubSeq(t, 1, n)
               l == Len(cs)
           IN  /\ l \in Nat /\ DOMAIN cs = 1..l /\ DOMAIN list = 1..l + n
               /\ \A i \in 1..l : list[i] = cs[i]
               /\ \A i \in 1..n : list[l + i] = t[i]
               /\ ToSet(list) = ToSet(cs) \cup {t[i] : i \in 1..n}
               /\ list \in Seq(ToSet(list))
<1> DEFINE T == C \cup ToSet(t)
           sub == SubSeq(t, 1, n)
           list == cs \o sub
           l == Len(cs)
<1>1. DOMAIN t = 1..m
  OBVIOUS
<1>2. \A i \in 1..m : t[i] \in T
  BY <1>1 DEF ToSet
<1>3. sub \in Seq(T) /\ Len(sub) = n /\ \A i \in 1..n : sub[i] = t[i]
  <2> HIDE DEF T
  <2> QED
    BY <1>2, Beginning
<1>4. cs \in Seq(T)
  OBVIOUS
<1>5. l \in Nat /\ DOMAIN cs = 1..l
  OBVIOUS
<1> HIDE DEF T, sub
<1>6. /\ DOMAIN list = 1..l + n /\ list \in Seq(T)
      /\ \A i \in 1..l : list[i] = cs[i]
  BY <1>3, <1>4
<1>7. \A i \in 1..n : list[l + i] = sub[i]
  BY <1>3, <1>4
<1>8. ToSet(list) = ToSet(cs) \cup ToSet(sub)
  BY <1>4, <1>3, JoinSet
<1>9. ToSet(sub) = {t[i] : i \in 1..n}
  <2>1. DOMAIN sub = 1..n
    BY <1>3
  <2> QED
    BY <1>3, <2>1 DEF ToSet
<1> HIDE DEF list, l
<1>10. list \in Seq(ToSet(list))
  <2> DEFINE S == ToSet(list)
  <2>1. ToSet(list) \subseteq S
    OBVIOUS
  <2> HIDE DEF S
  <2>2. list \in Seq(S)
    BY <1>6, <2>1, SeqOfSet
  <2> QED
    BY <2>2 DEF S
<1> QED
  BY <1>3, <1>5, <1>6, <1>7, <1>8, <1>9, <1>10 DEF list, sub, l

\* The beginning of a sequence whose next element was changed
Extends(cs, u, t, m, n, s) ==
    /\ cs \in Seq(ToSet(cs)) /\ m \in Nat /\ n \in 0..m - 1
    /\ t = [i \in 1..m |-> t[i]] /\ u = [i \in 1..m |-> IF i = n + 1 THEN s ELSE t[i]]

Extended(cs, u, t, n, s) == cs \o SubSeq(u, 1, n + 1) = Append(cs \o SubSeq(t, 1, n), s)

LEMMA ExtendedBeginning ==
    ASSUME NEW cs, NEW m, NEW n, NEW s, NEW t, NEW u, Extends(cs, u, t, m, n, s)
    PROVE  Extended(cs, u, t, n, s)
<1> DEFINE T == ToSet(cs) \cup ToSet(t) \cup ToSet(u)
           x == SubSeq(t, 1, n)
           y == SubSeq(u, 1, n + 1)
<1>0. /\ cs \in Seq(ToSet(cs)) /\ m \in Nat /\ n \in 0..m - 1
      /\ t = [i \in 1..m |-> t[i]] /\ u = [i \in 1..m |-> IF i = n + 1 THEN s ELSE t[i]]
  BY DEF Extends
<1>1. DOMAIN t = 1..m /\ DOMAIN u = 1..m /\ n \in Nat /\ n + 1 \in 1..m /\ m \in Nat
  BY <1>0
<1>2. u = [i \in 1..m |-> u[i]] /\ u[n + 1] = s /\ \A i \in 1..n : u[i] = t[i]
  <2>1. \A i \in 1..n : i \in 1..m /\ i # n + 1
    BY <1>0
  <2> QED
    BY <1>0, <1>1, <2>1
<1>3. (\A i \in 1..m : t[i] \in T) /\ (\A i \in 1..m : u[i] \in T) /\ s \in T
  BY <1>1, <1>2 DEF ToSet
<1> HIDE DEF T
<1>4. x \in Seq(T) /\ Len(x) = n /\ \A i \in 1..n : x[i] = t[i]
  <2>1. n \in 0..m
    BY <1>0
  <2> QED
    BY <1>0, <1>3, <2>1, Beginning
<1>5. y \in Seq(T) /\ Len(y) = n + 1 /\ \A i \in 1..n + 1 : y[i] = u[i]
  <2>1. n + 1 \in 0..m
    BY <1>0
  <2> QED
    BY <1>1, <1>2, <1>3, <2>1, Beginning
<1>6. cs \in Seq(T)
  <2>1. ToSet(cs) \subseteq T
    BY DEF T
  <2> QED
    BY <1>0, <2>1
<1> HIDE DEF x, y
<1>7. y = Append(x, s)
  <2> DEFINE z == Append(x, s)
  <2>1. /\ z \in Seq(T) /\ Len(z) = n + 1 /\ z[n + 1] = s
        /\ \A i \in 1..n : z[i] = x[i]
    BY <1>3, <1>4
  <2> HIDE DEF z
  <2>2. \A i \in 1..n + 1 : y[i] = z[i]
    <3>1. \A i \in 1..n + 1 : i \in 1..n \/ i = n + 1
      BY <1>1
    <3> QED
      BY <1>2, <1>4, <1>5, <2>1, <3>1
  <2>3. y = z
    BY <1>1, <1>5, <2>1, <2>2
  <2> QED
    BY <2>3 DEF z
<1>8. cs \o Append(x, s) = Append(cs \o x, s)
  BY <1>3, <1>4, <1>6
<1> QED
  BY <1>7, <1>8 DEF x, y, Extended
----------------------------------------------------------------------------
(* Keep *)

\* the recursive function of its fold
IsKeep(seq, S, g) ==
    g = [s \in SUBSET DOMAIN seq |->
            IF s = {} THEN <<>>
            ELSE IF seq[Max(s)] \in S THEN Append(g[s \ {Max(s)}], seq[Max(s)]) ELSE g[s \ {Max(s)}]]

LEMMA KeepExists ==
    ASSUME NEW E, NEW seq \in Seq(E), NEW S
    PROVE  \E g \in [SUBSET DOMAIN seq -> Seq(E)] : IsKeep(seq, S, g)
<1> DEFINE F == [p \in Seq(E) \X E |-> IF p[2] \in S THEN Append(p[1], p[2]) ELSE p[1]]
<1>1. F \in [Seq(E) \X E -> Seq(E)]
  OBVIOUS
<1>2. ASSUME NEW a \in Seq(E), NEW e \in E
      PROVE  F[a, e] = IF e \in S THEN Append(a, e) ELSE a
  OBVIOUS
<1> HIDE DEF F
<1>3. PICK g \in [SUBSET DOMAIN seq -> Seq(E)] : IsIter(F, <<>>, seq, g)
  <2> DEFINE A == Seq(E)
  <2>1. <<>> \in A
    OBVIOUS
  <2> HIDE DEF A
  <2>2. F \in [A \X E -> A]
    BY <1>1 DEF A
  <2>3. \E g \in [SUBSET DOMAIN seq -> A] : IsIter(F, <<>>, seq, g)
    BY <2>1, <2>2, IterExists
  <2> QED
    BY <2>3 DEF A
<1>4. ASSUME NEW s \in SUBSET DOMAIN seq, s # {}
      PROVE  F[g[s \ {Max(s)}], seq[Max(s)]] =
                IF seq[Max(s)] \in S THEN Append(g[s \ {Max(s)}], seq[Max(s)]) ELSE g[s \ {Max(s)}]
  <2>1. Max(s) \in s
    <3>1. Len(seq) \in Nat /\ s \in SUBSET (1..Len(seq))
      OBVIOUS
    <3> QED
      BY <1>4, <3>1, MaxOfRest
  <2>2. g[s \ {Max(s)}] \in Seq(E) /\ seq[Max(s)] \in E
    BY <2>1
  <2> QED
    BY <1>2, <2>2
<1> QED
  BY <1>3, <1>4 DEF IsKeep, IsIter

\* what is kept of the first n elements
IsKept(seq, S, r) ==
    /\ r[0] = <<>> /\ Keep(seq, S) = r[Len(seq)]
    /\ \A n \in Nat : n < Len(seq) =>
          r[n + 1] = IF seq[n + 1] \in S THEN Append(r[n], seq[n + 1]) ELSE r[n]

LEMMA KeepSteps ==
    ASSUME NEW E, NEW seq \in Seq(E), NEW S
    PROVE  \E r \in [0..Len(seq) -> Seq(E)] : IsKept(seq, S, r)
<1> DEFINE g == CHOOSE g : IsKeep(seq, S, g)
           r == [n \in 0..Len(seq) |-> g[1..n]]
<1>1. Keep(seq, S) = g[DOMAIN seq]
  BY Zenon DEF Keep, FoldLeft, MapThenFoldSet, IsKeep
<1>2. IsKeep(seq, S, g)
  BY KeepExists
<1> HIDE DEF g
<1>3. DOMAIN seq = 1..Len(seq) /\ r[0] = <<>>
  <2>1. 1..0 = {} /\ 1..0 \in SUBSET DOMAIN seq
    OBVIOUS
  <2> QED
    BY <1>2, <2>1 DEF IsKeep
<1>4. ASSUME NEW n \in Nat, n < Len(seq)
      PROVE  r[n + 1] = IF seq[n + 1] \in S THEN Append(r[n], seq[n + 1]) ELSE r[n]
  <2> DEFINE s == 1..n + 1
  <2>1. s \in SUBSET DOMAIN seq /\ n + 1 \in 0..Len(seq) /\ n \in 0..Len(seq)
    BY <1>3, <1>4
  <2>2. s # {} /\ Max(s) = n + 1 /\ s \ {n + 1} = 1..n
    BY LastOfFirst
  <2>3. r[n + 1] = g[s] /\ r[n] = g[1..n]
    BY <2>1
  <2> HIDE DEF s, r
  <2>4. g[s] = IF seq[Max(s)] \in S THEN Append(g[s \ {Max(s)}], seq[Max(s)]) ELSE g[s \ {Max(s)}]
    BY <1>2, <2>1, <2>2 DEF IsKeep
  <2> QED
    BY <2>2, <2>3, <2>4
<1>5. r \in [0..Len(seq) -> Seq(E)]
  <2> DEFINE T == {n \in Nat : n <= Len(seq) => r[n] \in Seq(E)}
  <2> HIDE DEF r
  <2>1. 0 \in T
    <3>1. <<>> \in Seq(E)
      OBVIOUS
    <3> QED
      BY <1>3, <3>1
  <2>2. ASSUME NEW n \in Nat, n \in T PROVE n + 1 \in T
    <3>1. SUFFICES ASSUME n + 1 <= Len(seq) PROVE r[n + 1] \in Seq(E)
      OBVIOUS
    <3>2. n < Len(seq) /\ r[n] \in Seq(E)
      BY <2>2, <3>1
    <3>3. n + 1 \in 1..Len(seq)
      BY <3>1
    <3>4. seq[n + 1] \in E
      BY <3>3
    <3>5. Append(r[n], seq[n + 1]) \in Seq(E)
      BY <3>2, <3>4
    <3> QED
      BY <1>4, <3>2, <3>5
  <2>3. Nat \subseteq T
    <3> HIDE DEF T
    <3> QED
      BY <2>1, <2>2, Counting
  <2>4. \A n \in 0..Len(seq) : r[n] \in Seq(E)
    BY <2>3
  <2> QED
    BY <2>4 DEF r
<1>6. Keep(seq, S) = r[Len(seq)]
  BY <1>1, <1>3
<1> HIDE DEF r
<1>7. IsKept(seq, S, r)
  BY <1>3, <1>4, <1>6 DEF IsKept
<1> QED
  BY <1>5, <1>7

LEMMA KeepSet ==
    ASSUME NEW E, NEW seq \in Seq(E), NEW S
    PROVE  Keep(seq, S) \in Seq(E) /\ ToSet(Keep(seq, S)) = ToSet(seq) \cap S
<1> USE DEF IsKept
<1>1. PICK r \in [0..Len(seq) -> Seq(E)] : IsKept(seq, S, r)
  <2> HIDE DEF IsKept
  <2> QED
    BY KeepSteps
<1> DEFINE First(n) == {seq[i] : i \in 1..n}
           T == {n \in Nat : n <= Len(seq) => ToSet(r[n]) = First(n) \cap S}
<1>2. 0 \in T
  BY <1>1 DEF ToSet
<1>3. ASSUME NEW n \in Nat, n \in T PROVE n + 1 \in T
  <2>1. SUFFICES ASSUME n + 1 <= Len(seq) PROVE ToSet(r[n + 1]) = First(n + 1) \cap S
    OBVIOUS
  <2>2. n < Len(seq) /\ r[n] \in Seq(E) /\ ToSet(r[n]) = First(n) \cap S
    BY <1>3, <2>1
  <2>3. n + 1 \in 1..Len(seq)
    BY <2>1
  <2>4. seq[n + 1] \in E
    BY <2>3
  <2>5. First(n + 1) = First(n) \cup {seq[n + 1]}
    OBVIOUS
  <2>6. ToSet(Append(r[n], seq[n + 1])) = ToSet(r[n]) \cup {seq[n + 1]}
    BY <2>2, <2>4, AppendSet
  <2> HIDE DEF First
  <2> QED
    BY <1>1, <2>2, <2>5, <2>6
<1>4. Nat \subseteq T
  <2> HIDE DEF T
  <2> QED
    BY <1>2, <1>3, Counting
<1>5. Len(seq) \in Nat /\ ToSet(r[Len(seq)]) = First(Len(seq)) \cap S
  <2> HIDE DEF First
  <2> QED
    BY <1>4
<1>6. First(Len(seq)) = ToSet(seq) /\ r[Len(seq)] \in Seq(E)
  BY DEF ToSet
<1> QED
  BY <1>1, <1>5, <1>6

\* What is kept begins with the first element to keep.
LEMMA KeepFirst ==
    ASSUME NEW E, NEW seq \in Seq(E), NEW S,
           NEW m \in DOMAIN seq, seq[m] \in S, \A i \in 1..m - 1 : seq[i] \notin S
    PROVE  Keep(seq, S) # <<>> /\ Keep(seq, S)[1] = seq[m]
<1> USE DEF IsKept
<1>1. PICK r \in [0..Len(seq) -> Seq(E)] : IsKept(seq, S, r)
  <2> HIDE DEF IsKept
  <2> QED
    BY KeepSteps
<1>2. m \in Nat /\ 0 < m /\ m <= Len(seq) /\ Len(seq) \in Nat
  OBVIOUS
<1> DEFINE T == {n \in Nat : n <= Len(seq) => IF n < m THEN r[n] = <<>> ELSE r[n] # <<>> /\ r[n][1] = seq[m]}
<1>3. 0 \in T
  BY <1>1, <1>2
<1>4. ASSUME NEW n \in Nat, n \in T PROVE n + 1 \in T
  <2>1. SUFFICES ASSUME n + 1 <= Len(seq)
                 PROVE  IF n + 1 < m THEN r[n + 1] = <<>> ELSE r[n + 1] # <<>> /\ r[n + 1][1] = seq[m]
    OBVIOUS
  <2>2. n < Len(seq) /\ r[n] \in Seq(E)
    BY <2>1
  <2>3. n + 1 \in 1..Len(seq)
    BY <2>1
  <2>4. seq[n + 1] \in E
    BY <2>3
  <2>5. r[n + 1] = IF seq[n + 1] \in S THEN Append(r[n], seq[n + 1]) ELSE r[n]
    BY <1>1, <2>2
  <2>6. CASE n + 1 < m
    BY <1>2, <1>4, <2>2, <2>5, <2>6
  <2>7. CASE n + 1 = m
    <3>1. r[n] = <<>> /\ r[n + 1] = Append(r[n], seq[m])
      BY <1>2, <1>4, <2>2, <2>5, <2>7
    <3> QED
      BY <1>2, <2>4, <2>7, <3>1
  <2>8. CASE m < n + 1
    <3>1. r[n] # <<>> /\ r[n][1] = seq[m]
      BY <1>2, <1>4, <2>2, <2>8
    <3>2. Append(r[n], seq[n + 1]) # <<>> /\ Append(r[n], seq[n + 1])[1] = r[n][1]
      <4>1. \A a \in Seq(E), e \in E : a # <<>> => Append(a, e) # <<>> /\ Append(a, e)[1] = a[1]
        OBVIOUS
      <4> QED
        BY <2>2, <2>4, <3>1, <4>1
    <3> QED
      BY <1>2, <2>5, <2>8, <3>1, <3>2
  <2> QED
    BY <1>2, <2>6, <2>7, <2>8
<1>5. Nat \subseteq T
  <2> HIDE DEF T
  <2> QED
    BY <1>3, <1>4, Counting
<1> QED
  BY <1>1, <1>2, <1>5

\* Where every element is kept nothing changes.
LEMMA KeepAll ==
    ASSUME NEW E, NEW seq \in Seq(E)
    PROVE  Keep(seq, E) = seq
<1> USE DEF IsKept
<1>1. PICK r \in [0..Len(seq) -> Seq(E)] : IsKept(seq, E, r)
  <2> HIDE DEF IsKept
  <2> QED
    BY KeepSteps
<1> DEFINE T == {n \in Nat : n <= Len(seq) => Len(r[n]) = n /\ \A i \in 1..n : r[n][i] = seq[i]}
<1>2. 0 \in T
  BY <1>1
<1>3. ASSUME NEW n \in Nat, n \in T PROVE n + 1 \in T
  <2>1. SUFFICES ASSUME n + 1 <= Len(seq)
                 PROVE  Len(r[n + 1]) = n + 1 /\ \A i \in 1..n + 1 : r[n + 1][i] = seq[i]
    OBVIOUS
  <2>2. n < Len(seq) /\ r[n] \in Seq(E) /\ Len(r[n]) = n /\ \A i \in 1..n : r[n][i] = seq[i]
    BY <1>3, <2>1
  <2>3. n + 1 \in 1..Len(seq)
    BY <2>1
  <2>4. seq[n + 1] \in E
    BY <2>3
  <2>5. r[n + 1] = Append(r[n], seq[n + 1])
    BY <1>1, <2>2, <2>4
  <2>6. /\ Len(r[n + 1]) = n + 1 /\ r[n + 1][n + 1] = seq[n + 1]
        /\ \A i \in 1..n : r[n + 1][i] = r[n][i]
    BY <2>2, <2>4, <2>5
  <2>7. \A i \in 1..n + 1 : i \in 1..n \/ i = n + 1
    OBVIOUS
  <2> QED
    BY <2>2, <2>6, <2>7
<1>4. Nat \subseteq T
  <2> HIDE DEF T
  <2> QED
    BY <1>2, <1>3, Counting
<1>5. /\ r[Len(seq)] \in Seq(E) /\ Len(r[Len(seq)]) = Len(seq)
      /\ \A i \in 1..Len(seq) : r[Len(seq)][i] = seq[i]
  BY <1>4
<1> QED
  BY <1>1, <1>5
============================================================================
