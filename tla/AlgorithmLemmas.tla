--------------------------- MODULE AlgorithmLemmas ---------------------------
(***************************************************************************)
(* Facts about numbers, recursive functions, folds and sorted sets that    *)
(* the proofs about the algorithms rest on.  What elsewhere is a predicate *)
(* or an operator is a set or a function here.                             *)
(***************************************************************************)
EXTENDS Orders, SequencesExt, FiniteSetTheorems, SequenceTheorems, NaturalsInduction,
        WellFoundedInduction, TLAPS

\* A set of numbers that is not empty has a least one.
LEMMA LeastNumber ==
  ASSUME NEW T \in SUBSET Nat, T # {}
  PROVE  \E n \in T : \A k \in T : n <= k
<1>1. IsWellFoundedOn(OpToRel(<, Nat), Nat)
      BY NatLessThanWellFounded
<1>2. PICK n \in T : \A k \in T : ~(<<k, n>> \in OpToRel(<, Nat))
      BY <1>1, WFMin
<1>3. ASSUME NEW k \in T PROVE n <= k
  <2>1. k \in Nat /\ n \in Nat
        BY <1>2
  <2>2. <<k, n>> \in OpToRel(<, Nat) <=> k < n
        BY <2>1, Zenon DEF OpToRel
  <2>3. ~(k < n)
        BY <1>2, <2>2, Zenon
  <2>4. QED BY <2>1, <2>3
<1>4. QED BY <1>3

\* The least of a set of numbers.
LEMMA MinIsLeast ==
  ASSUME NEW T \in SUBSET Nat, T # {}
  PROVE  Min(T) \in T /\ \A k \in T : Min(T) <= k
BY LeastNumber DEF Min

\* The place that SelectInSeq finds, of the places I where a sequence of length n passes.
LEMMA FirstPlace ==
  ASSUME NEW n \in Nat, NEW I \in SUBSET (1..n), NEW i, i = IF I # {} THEN Min(I) ELSE 0
  PROVE  /\ i = 0 <=> I = {}
         /\ i # 0 => i \in I /\ i \in 1..n /\ \A k \in I : i <= k
<1>1. I \in SUBSET Nat
      OBVIOUS
<1>2. I # {} => Min(I) \in I /\ \A k \in I : Min(I) <= k
      BY <1>1, MinIsLeast
<1>3. CASE I = {}
      BY <1>3
<1>4. CASE I # {}
  <2>1. i = Min(I)
        BY <1>4
  <2>2. i \in I /\ i \in 1..n /\ i # 0
    <3>1. i \in I
          BY <1>2, <1>4, <2>1, Zenon
    <3>2. \A k \in I : k \in 1..n /\ k # 0
          OBVIOUS
    <3>3. QED BY <3>1, <3>2, Zenon
  <2>3. QED BY <1>2, <1>4, <2>1, <2>2
<1>5. QED BY <1>3, <1>4

\* Induction up to a number.
LEMMA Upward ==
  ASSUME NEW N \in Nat, NEW T, 0 \in T, \A n \in 0..N - 1 : n \in T => n + 1 \in T
  PROVE  0..N \subseteq T
<1> DEFINE U == {n \in 0..N : n \notin T}
<1>1. SUFFICES ASSUME U # {} PROVE FALSE
      OBVIOUS
<1>2. PICK m \in U : \A k \in U : m <= k
  <2>1. U \in SUBSET Nat
        OBVIOUS
  <2> HIDE DEF U
  <2>2. QED BY <1>1, <2>1, LeastNumber
<1>3. m \in 1..N /\ m - 1 \in 0..N - 1 /\ m - 1 \notin U
      BY <1>2
<1>4. m - 1 \in T
      BY <1>3
<1>5. QED BY <1>2, <1>3, <1>4

\* Induction down from a number.
LEMMA Downward ==
  ASSUME NEW N \in Nat, NEW T, N \in T, \A n \in 0..N - 1 : n + 1 \in T => n \in T
  PROVE  0..N \subseteq T
<1> DEFINE U == {n \in 0..N : N - n \in T}
<1>1. \A n \in 0..N - 1 : n \in U => n + 1 \in U
  <2>1. ASSUME NEW n \in 0..N - 1, n \in U PROVE n + 1 \in U
    <3>1. N - (n + 1) \in 0..N - 1 /\ (N - (n + 1)) + 1 = N - n
          OBVIOUS
    <3>2. QED BY <2>1, <3>1
  <2>2. QED BY <2>1
<1>2. 0 \in U
      OBVIOUS
<1>3. 0..N \subseteq U
  <2> HIDE DEF U
  <2>1. QED BY <1>1, <1>2, Upward
<1>4. ASSUME NEW n \in 0..N PROVE n \in T
  <2>1. N - n \in U /\ N - (N - n) = n
        BY <1>3
  <2>2. QED BY <2>1
<1>5. QED BY <1>4

\* The greatest of a bounded set of numbers.
LEMMA MaxIsGreatest ==
  ASSUME NEW N \in Nat, NEW T \in SUBSET (0..N), T # {}
  PROVE  Max(T) \in T /\ \A k \in T : k <= Max(T)
<1> DEFINE U == {n \in 0..N : N - n \in T}
<1>1. PICK x \in T : TRUE
      OBVIOUS
<1>2. N - x \in U
      OBVIOUS
<1>3. PICK m \in U : \A k \in U : m <= k
  <2>1. U \in SUBSET Nat
        OBVIOUS
  <2>2. U # {}
        BY <1>2, Zenon
  <2> HIDE DEF U
  <2>3. QED BY <2>1, <2>2, LeastNumber
<1>4. ASSUME NEW k \in T PROVE k <= N - m
  <2>1. N - k \in U /\ k \in 0..N
        OBVIOUS
  <2>2. m <= N - k
        BY <1>3, <2>1
  <2>3. QED BY <2>1, <2>2
<1>5. \E n \in T : \A k \in T : n >= k
      BY <1>3, <1>4
<1>6. QED BY <1>5 DEF Max

\* g has the value s0 at 0, and step F makes each value up to N out of the one before.
Recursive(g, F, s0, N) == g[0] = s0 /\ \A n \in 1..N : g[n] = F[<<n, g[n - 1]>>]

\* A function that is defined by its value at 0 and a step exists.
LEMMA Recursion ==
  ASSUME NEW S, NEW s0 \in S, NEW N \in Nat, NEW F \in [(1..N) \X S -> S]
  PROVE  \E g \in [0..N -> S] : Recursive(g, F, s0, N)
<1> DEFINE Up(g, m) == g[0] = s0 /\ \A n \in 1..m : g[n] = F[<<n, g[n - 1]>>]
           T == {m \in 0..N : \E g \in [0..m -> S] : Up(g, m)}
<1>1. 0 \in T
  <2>1. [n \in 0..0 |-> s0] \in [0..0 -> S] /\ Up([n \in 0..0 |-> s0], 0)
        OBVIOUS
  <2>2. \E g \in [0..0 -> S] : Up(g, 0)
        BY <2>1
  <2>3. QED BY <2>2
<1>2. ASSUME NEW m \in 0..N - 1, m \in T PROVE m + 1 \in T
  <2>1. PICK g \in [0..m -> S] : Up(g, m)
        BY <1>2
  <2> DEFINE h == [n \in 0..m + 1 |-> IF n = m + 1 THEN F[<<m + 1, g[m]>>] ELSE g[n]]
  <2>2. g[m] \in S /\ <<m + 1, g[m]>> \in (1..N) \X S
        OBVIOUS
  <2>3. F[<<m + 1, g[m]>>] \in S
        BY <2>2
  <2>4. h \in [0..m + 1 -> S]
        BY <2>3
  <2>5. h[0] = s0
        BY <2>1
  <2>6. ASSUME NEW n \in 1..m + 1 PROVE h[n] = F[<<n, h[n - 1]>>]
    <3>1. CASE n = m + 1
      <4>1. h[m] = g[m] /\ n - 1 = m
            BY <3>1
      <4>2. h[m + 1] = F[<<m + 1, g[m]>>]
            OBVIOUS
      <4> HIDE DEF h
      <4>3. h[n] = F[<<m + 1, g[m]>>] /\ h[n - 1] = g[m]
            BY <3>1, <4>1, <4>2
      <4>4. QED BY <3>1, <4>3
    <3>2. CASE n \in 1..m
      <4>1. h[n] = g[n] /\ h[n - 1] = g[n - 1]
            BY <3>2
      <4>2. QED BY <2>1, <3>2, <4>1
    <3>3. QED BY <3>1, <3>2
  <2> HIDE DEF h
  <2>7. Up(h, m + 1)
        BY <2>5, <2>6
  <2>8. QED BY <2>4, <2>7
<1>3. N \in T
  <2> HIDE DEF T
  <2>1. QED BY <1>1, <1>2, Upward
<1>4. PICK g \in [0..N -> S] : Up(g, N)
      BY <1>3
<1>5. QED BY <1>4 DEF Recursive

\* The greatest number up to n is n.
LEMMA MaxOfInterval ==
  ASSUME NEW n \in Nat \ {0}
  PROVE  Max(1..n) = n /\ (1..n) \ {n} = 1..n - 1
<1>1. 1..n \in SUBSET (0..n) /\ n \in 1..n
      OBVIOUS
<1>2. Max(1..n) \in 1..n /\ \A k \in 1..n : k <= Max(1..n)
      BY <1>1, MaxIsGreatest
<1>3. Max(1..n) = n
      BY <1>1, <1>2
<1>4. QED BY <1>3

\* g is what FoldLeft with step F makes of the elements of seq at each set of places.
Folds(g, F, s0, seq) ==
  /\ g[{}] = s0
  /\ \A s \in SUBSET DOMAIN seq : s # {} => g[s] = F[<<g[s \ {Max(s)}], seq[Max(s)]>>]

\* Such a function exists.
LEMMA Folding ==
  ASSUME NEW S, NEW A, NEW s0 \in S, NEW F \in [S \X A -> S], NEW seq \in Seq(A)
  PROVE  \E g \in [SUBSET DOMAIN seq -> S] : Folds(g, F, s0, seq)
<1> DEFINE N == Len(seq)
           Up(g, m) == /\ g[{}] = s0
                       /\ \A s \in SUBSET (1..m) :
                            s # {} => g[s] = F[<<g[s \ {Max(s)}], seq[Max(s)]>>]
           T == {m \in 0..N : \E g \in [SUBSET (1..m) -> S] : Up(g, m)}
<1>1. N \in Nat /\ DOMAIN seq = 1..N /\ \A n \in 1..N : seq[n] \in A
      OBVIOUS
<1>2. 0 \in T
  <2> DEFINE g == [s \in SUBSET (1..0) |-> s0]
  <2>1. g \in [SUBSET (1..0) -> S] /\ g[{}] = s0 /\ \A s \in SUBSET (1..0) : s = {}
        OBVIOUS
  <2>2. Up(g, 0)
        BY <2>1
  <2>3. \E x \in [SUBSET (1..0) -> S] : Up(x, 0)
        BY <2>1, <2>2
  <2>4. 0 \in 0..N
        BY <1>1
  <2>5. QED BY <2>3, <2>4
<1>3. ASSUME NEW m \in 0..N - 1, m \in T PROVE m + 1 \in T
  <2>1. PICK g \in [SUBSET (1..m) -> S] : Up(g, m)
        BY <1>3
  <2> DEFINE h == [s \in SUBSET (1..m + 1) |->
                     IF m + 1 \in s THEN F[<<g[s \ {m + 1}], seq[m + 1]>>] ELSE g[s]]
  <2>2. ASSUME NEW s \in SUBSET (1..m + 1), m + 1 \in s
        PROVE  /\ Max(s) = m + 1 /\ s \ {m + 1} \in SUBSET (1..m)
               /\ F[<<g[s \ {m + 1}], seq[m + 1]>>] \in S
    <3>1. s \in SUBSET (0..m + 1) /\ s # {} /\ m + 1 \in Nat
          BY <2>2
    <3>2. Max(s) \in s /\ \A k \in s : k <= Max(s)
          BY <3>1, MaxIsGreatest
    <3>3. Max(s) \in 1..m + 1 /\ m + 1 <= Max(s)
          BY <2>2, <3>2
    <3>4. Max(s) = m + 1
          BY <3>3
    <3>5. s \ {m + 1} \in SUBSET (1..m)
      <4>1. (1..m + 1) \ {m + 1} = 1..m
            OBVIOUS
      <4>2. QED BY <4>1
    <3>6. g[s \ {m + 1}] \in S /\ seq[m + 1] \in A
          BY <1>1, <3>5
    <3>7. F[<<g[s \ {m + 1}], seq[m + 1]>>] \in S
          BY <3>6
    <3>8. QED BY <3>4, <3>5, <3>7
  <2>3. ASSUME NEW s \in SUBSET (1..m + 1), m + 1 \notin s PROVE s \in SUBSET (1..m)
    <3>1. (1..m + 1) = (1..m) \cup {m + 1}
          OBVIOUS
    <3>2. QED BY <2>3, <3>1
  <2>4. h \in [SUBSET (1..m + 1) -> S]
    <3>1. ASSUME NEW s \in SUBSET (1..m + 1) PROVE h[s] \in S
      <4>1. CASE m + 1 \in s
            BY <2>2, <4>1
      <4>2. CASE m + 1 \notin s
            BY <2>3, <4>2
      <4>3. QED BY <4>1, <4>2
    <3>2. QED BY <3>1
  <2>5. h[{}] = s0
        BY <2>1
  <2>6. ASSUME NEW s \in SUBSET (1..m + 1), s # {}
        PROVE  h[s] = F[<<h[s \ {Max(s)}], seq[Max(s)]>>]
    <3>1. CASE m + 1 \in s
      <4>1. s \ {m + 1} \in SUBSET (1..m + 1) /\ m + 1 \notin s \ {m + 1}
            BY <2>2, <3>1
      <4>2. h[s \ {m + 1}] = g[s \ {m + 1}]
            BY <4>1
      <4>3. h[s] = F[<<g[s \ {m + 1}], seq[m + 1]>>]
            BY <3>1
      <4>4. Max(s) = m + 1
            BY <2>2, <3>1
      <4> HIDE DEF h
      <4>5. QED BY <4>2, <4>3, <4>4
    <3>2. CASE m + 1 \notin s
      <4>1. s \in SUBSET (1..m)
            BY <2>3, <3>2
      <4>2. g[s] = F[<<g[s \ {Max(s)}], seq[Max(s)]>>]
            BY <2>1, <2>6, <4>1
      <4>3. h[s] = g[s]
            BY <3>2
      <4>4. s \ {Max(s)} \in SUBSET (1..m + 1) /\ m + 1 \notin s \ {Max(s)}
            BY <3>2
      <4>5. h[s \ {Max(s)}] = g[s \ {Max(s)}]
            BY <4>4
      <4> HIDE DEF h
      <4>6. QED BY <4>2, <4>3, <4>5
    <3>3. QED BY <3>1, <3>2
  <2> HIDE DEF h
  <2>7. Up(h, m + 1)
        BY <2>5, <2>6
  <2>8. \E x \in [SUBSET (1..m + 1) -> S] : Up(x, m + 1)
        BY <2>4, <2>7
  <2>9. m + 1 \in 0..N
        BY <1>1
  <2>10. QED BY <2>8, <2>9
<1>4. N \in T
  <2> HIDE DEF T, N
  <2>1. 0..N \subseteq T
        BY <1>1, <1>2, <1>3, Upward
  <2>2. QED BY <1>1, <2>1
<1>5. PICK g \in [SUBSET (1..N) -> S] : Up(g, N)
      BY <1>4
<1>6. QED BY <1>1, <1>5 DEF Folds

\* f is what a fold with step F makes of the first elements of seq, and end of all.
Runs(f, F, s0, seq, end) ==
  /\ f[0] = s0 /\ f[Len(seq)] = end
  /\ \A n \in 1..Len(seq) : f[n] = F[<<f[n - 1], seq[n]>>]

\* g follows F as far as it is known to be in S.
FoldsWithin(S, g, F, s0, seq) ==
  /\ g[{}] = s0
  /\ \A s \in SUBSET DOMAIN seq : s # {} /\ g[s \ {Max(s)}] \in S =>
       g[s] = F[<<g[s \ {Max(s)}], seq[Max(s)]>>]

\* A fold is a run over the sequence; g is the function FoldLeft chooses.
LEMMA FoldIsRun ==
  ASSUME NEW S, NEW A, NEW s0 \in S, NEW F \in [S \X A -> S], NEW seq \in Seq(A),
         NEW g, FoldsWithin(S, g, F, s0, seq)
  PROVE  \E f \in [0..Len(seq) -> S] : Runs(f, F, s0, seq, g[DOMAIN seq])
<1> USE DEF FoldsWithin
<1> DEFINE N == Len(seq)
           T == {n \in 0..N : /\ g[1..n] \in S
                              /\ n # 0 => g[1..n] = F[<<g[1..n - 1], seq[n]>>]}
<1>1. N \in Nat /\ DOMAIN seq = 1..N /\ \A n \in 1..N : seq[n] \in A
      OBVIOUS
<1>2. 0 \in T
  <2>1. 1..0 = {} /\ 0 \in 0..N
        BY <1>1
  <2>2. QED BY <2>1
<1>3. ASSUME NEW n \in 0..N - 1, n \in T PROVE n + 1 \in T
  <2>1. n + 1 \in Nat \ {0} /\ (n + 1) - 1 = n /\ n + 1 \in 1..N
        BY <1>1
  <2>2. Max(1..n + 1) = n + 1 /\ (1..n + 1) \ {n + 1} = 1..n
        BY <2>1, MaxOfInterval
  <2>3. 1..n + 1 \in SUBSET DOMAIN seq /\ 1..n + 1 # {}
    <3>1. n + 1 \in 1..n + 1
          BY <2>1
    <3>2. \A k \in 1..n + 1 : k \in 1..N
          BY <1>1, <2>1
    <3>3. QED BY <1>1, <3>1, <3>2
  <2>4. g[1..n] \in S
        BY <1>3
  <2>5. g[1..n + 1] = F[<<g[1..n], seq[n + 1]>>]
        BY <2>2, <2>3, <2>4
  <2>6. g[1..n + 1] \in S
        BY <1>1, <2>1, <2>4, <2>5
  <2>7. QED BY <2>1, <2>5, <2>6
<1>4. 0..N \subseteq T
  <2> HIDE DEF T, N
  <2>1. QED BY <1>1, <1>2, <1>3, Upward
<1> DEFINE f == [n \in 0..N |-> g[1..n]]
<1>5. f \in [0..N -> S]
      BY <1>4
<1>6. f[0] = s0
  <2>1. 1..0 = {} /\ 0 \in 0..N
        BY <1>1
  <2>2. QED BY <2>1
<1>7. ASSUME NEW n \in 1..N PROVE f[n] = F[<<f[n - 1], seq[n]>>]
  <2>1. n \in T /\ n # 0 /\ n \in 0..N /\ n - 1 \in 0..N
        BY <1>1, <1>4
  <2>2. g[1..n] = F[<<g[1..n - 1], seq[n]>>]
        BY <2>1
  <2>3. QED BY <2>1, <2>2
<1>8. g[DOMAIN seq] = f[N]
      BY <1>1
<1> HIDE DEF f
<1>9. QED BY <1>5, <1>6, <1>7, <1>8 DEF Runs

\* The elements of a sequence are finitely many.
LEMMA SetOfSequence ==
  ASSUME NEW A, NEW s \in Seq(A)
  PROVE  IsFiniteSet(ToSet(s))
<1>1. Len(s) \in Nat /\ DOMAIN s = 1..Len(s)
      OBVIOUS
<1>2. s \in Surjection(1..Len(s), ToSet(s))
      BY <1>1 DEF Surjection, ToSet
<1>3. QED BY <1>1, <1>2, FS_Surjection, FS_Interval

\* A sequence without repetitions has as many elements as places.
LEMMA DistinctCount ==
  ASSUME NEW A, NEW s \in Seq(A), \A i, j \in 1..Len(s) : s[i] = s[j] => i = j
  PROVE  IsFiniteSet(ToSet(s)) /\ Cardinality(ToSet(s)) = Len(s)
<1>1. Len(s) \in Nat /\ DOMAIN s = 1..Len(s)
      OBVIOUS
<1>2. s \in [1..Len(s) -> ToSet(s)]
      BY <1>1 DEF ToSet
<1>3. s \in Bijection(1..Len(s), ToSet(s))
      BY <1>1, <1>2 DEF Bijection, Injection, Surjection, IsInjective, ToSet
<1>4. ExistsBijection(1..Len(s), ToSet(s))
      BY <1>3 DEF ExistsBijection
<1>5. QED BY <1>1, <1>4, FS_CountingElements, FS_NatBijection

\* There are N numbers from 0 on below N.
LEMMA IntervalSize ==
  ASSUME NEW N \in Nat
  PROVE  IsFiniteSet(0..N - 1) /\ Cardinality(0..N - 1) = N
<1>1. IsFiniteSet(0..N - 1) /\ Cardinality(0..N - 1) = IF 0 > N - 1 THEN 0 ELSE (N - 1) - 0 + 1
      BY FS_Interval
<1>2. QED BY <1>1

\* R is a strict total order of S.
StrictOrder(R, S) ==
  /\ R \in SUBSET (S \X S)
  /\ \A x \in S : <<x, x>> \notin R
  /\ \A x, y, z \in S : <<x, y>> \in R /\ <<y, z>> \in R => <<x, z>> \in R
  /\ \A x, y \in S : x # y => <<x, y>> \in R \/ <<y, x>> \in R

\* The number of elements of S before x.
Rank(R, S, x) == Cardinality({y \in S : <<y, x>> \in R})

\* s has the elements of S, each at the place its rank gives.
ByRank(s, R, S) ==
  /\ s \in [1..Cardinality(S) -> S]
  /\ \A x \in S : Rank(R, S, x) + 1 \in 1..Cardinality(S) /\ s[Rank(R, S, x) + 1] = x
  /\ \A i, j \in 1..Cardinality(S) : i < j => <<s[i], s[j]>> \in R

\* A finite set in a strict total order: each of its elements is somewhere, and those that
\* are before others in the order are before them in the sequence.
LEMMA OrderedSequence ==
  ASSUME NEW S, IsFiniteSet(S), NEW R, StrictOrder(R, S),
         NEW s, s = [k \in 1..Cardinality(S) |-> CHOOSE x \in S : Rank(R, S, x) = k - 1]
  PROVE  ByRank(s, R, S)
<1> DEFINE N == Cardinality(S)
           below(x) == {y \in S : <<y, x>> \in R}
           rank == [x \in S |-> Cardinality(below(x))]
<1> USE DEF StrictOrder
<1>1. N \in Nat
      BY FS_CardinalityType
<1>2. ASSUME NEW x \in S PROVE IsFiniteSet(below(x)) /\ rank[x] \in 0..N - 1
  <2>1. below(x) \in SUBSET S /\ below(x) # S
        OBVIOUS
  <2> HIDE DEF below
  <2>2. IsFiniteSet(below(x)) /\ Cardinality(below(x)) <= N /\ Cardinality(below(x)) # N
        BY <2>1, FS_Subset
  <2>3. Cardinality(below(x)) \in Nat
        BY <2>2, FS_CardinalityType
  <2>4. QED BY <1>1, <2>2, <2>3
<1>3. ASSUME NEW x \in S, NEW y \in S, <<x, y>> \in R PROVE rank[x] < rank[y]
  <2>1. below(x) \in SUBSET below(y) /\ x \in below(y) /\ x \notin below(x)
        BY <1>3
  <2>2. below(x) # below(y)
        BY <2>1
  <2> HIDE DEF below
  <2>3. IsFiniteSet(below(y))
        BY <1>2
  <2>4. Cardinality(below(x)) <= Cardinality(below(y))
        BY <2>1, <2>3, FS_Subset
  <2>5. Cardinality(below(x)) # Cardinality(below(y))
        BY <2>1, <2>2, <2>3, FS_Subset
  <2>6. Cardinality(below(x)) \in Nat /\ Cardinality(below(y)) \in Nat
        BY <1>2, FS_CardinalityType
  <2>7. QED BY <2>4, <2>5, <2>6
<1>4. \A x \in S : rank[x] = Rank(R, S, x)
      BY DEF Rank
<1> HIDE DEF rank, below
<1>5. rank \in [S -> 0..N - 1]
  <2>1. rank = [x \in S |-> rank[x]]
        BY DEF rank
  <2>2. QED BY <1>2, <2>1
<1>6. ASSUME NEW x \in S, NEW y \in S, rank[x] = rank[y] PROVE x = y
  <2>1. rank[x] \in Int /\ ~(rank[x] < rank[y]) /\ ~(rank[y] < rank[x])
        BY <1>5, <1>6
  <2>2. <<x, y>> \notin R /\ <<y, x>> \notin R
        BY <1>3, <2>1
  <2>3. QED BY <2>2
<1>7. \A n \in 0..N - 1 : \E x \in S : rank[x] = n
  <2>1. rank \in Injection(S, 0..N - 1)
        BY <1>5, <1>6 DEF Injection, IsInjective
  <2>2. IsFiniteSet(0..N - 1) /\ Cardinality(0..N - 1) = N
        BY <1>1, IntervalSize
  <2>3. rank \in Surjection(S, 0..N - 1)
        BY <2>1, <2>2, FS_Injection
  <2>4. QED BY <2>3 DEF Surjection
<1>8. ASSUME NEW k \in 1..N PROVE s[k] \in S /\ rank[s[k]] = k - 1
  <2>1. k - 1 \in 0..N - 1
        BY <1>1
  <2>2. s[k] = CHOOSE x \in S : Rank(R, S, x) = k - 1
        OBVIOUS
  <2>3. \E x \in S : Rank(R, S, x) = k - 1
        BY <1>4, <1>7, <2>1
  <2>4. s[k] \in S /\ Rank(R, S, s[k]) = k - 1
        BY <2>2, <2>3
  <2>5. QED BY <1>4, <2>4
<1>9. s \in [1..N -> S]
      BY <1>8
<1>10. ASSUME NEW x \in S PROVE Rank(R, S, x) + 1 \in 1..N /\ s[Rank(R, S, x) + 1] = x
  <2>1. rank[x] \in 0..N - 1 /\ rank[x] = Rank(R, S, x)
        BY <1>4, <1>5
  <2>2. rank[x] + 1 \in 1..N /\ (rank[x] + 1) - 1 = rank[x]
        BY <1>1, <2>1
  <2>3. s[rank[x] + 1] = x
        BY <1>6, <1>8, <2>2
  <2>4. QED BY <2>1, <2>2, <2>3
<1>11. ASSUME NEW i \in 1..N, NEW j \in 1..N, i < j PROVE <<s[i], s[j]>> \in R
  <2> HIDE DEF N
  <2>1. rank[s[i]] = i - 1 /\ rank[s[j]] = j - 1 /\ i \in Int /\ j \in Int
    <3>1. rank[s[i]] = i - 1 /\ rank[s[j]] = j - 1
          BY <1>8, Zenon
    <3>2. i \in Int /\ j \in Int
          BY <1>1
    <3>3. QED BY <3>1, <3>2
  <2>2. s[i] \in S /\ s[j] \in S /\ s[i] # s[j]
    <3>1. s[i] \in S /\ s[j] \in S
          BY <1>8
    <3>2. i - 1 # j - 1
          BY <1>11, <2>1
    <3>3. QED BY <2>1, <3>1, <3>2
  <2>3. ~(rank[s[j]] < rank[s[i]])
        BY <1>11, <2>1
  <2>4. <<s[j], s[i]>> \notin R
        BY <1>3, <2>2, <2>3
  <2>5. QED BY <2>2, <2>4
<1>12. QED BY <1>9, <1>10, <1>11 DEF ByRank

\* s has the elements of S, each at its place by Before.
Sorts(s, key, S) ==
  /\ s \in [1..Cardinality(S) -> S]
  /\ \A x \in S : /\ Cardinality({y \in S : Before(key, y, x)}) + 1 \in 1..Cardinality(S)
                  /\ s[Cardinality({y \in S : Before(key, y, x)}) + 1] = x
  /\ \A i, j \in 1..Cardinality(S) : i < j => Before(key, s[i], s[j])

LEMMA SortedBySorts ==
  ASSUME NEW S \in SUBSET Nat, IsFiniteSet(S), NEW key \in [S -> Int]
  PROVE  Sorts(SortedBy(key, S), key, S)
<1> DEFINE R == {p \in S \X S : Before(key, p[1], p[2])}
           s == SortedBy(key, S)
<1>1. StrictOrder(R, S)
  <2>1. \A x \in S : key[x] \in Int /\ x \in Int
        OBVIOUS
  <2>2. /\ \A x \in S : ~Before(key, x, x)
        /\ \A x, y, z \in S : Before(key, x, y) /\ Before(key, y, z) => Before(key, x, z)
        /\ \A x, y \in S : x # y => Before(key, x, y) \/ Before(key, y, x)
        BY <2>1 DEF Before
  <2>3. QED BY <2>2 DEF StrictOrder
<1>2. ASSUME NEW x \in S PROVE Rank(R, S, x) = Cardinality({y \in S : Before(key, y, x)})
  <2>1. {y \in S : <<y, x>> \in R} = {y \in S : Before(key, y, x)}
        OBVIOUS
  <2>2. QED BY <2>1 DEF Rank
<1> HIDE DEF R
<1>3. ASSUME NEW k \in Int
      PROVE  (CHOOSE x \in S : Cardinality({y \in S : Before(key, y, x)}) = k - 1)
               = CHOOSE x \in S : Rank(R, S, x) = k - 1
      BY <1>2
<1>4. s = [k \in 1..Cardinality(S) |-> CHOOSE x \in S : Rank(R, S, x) = k - 1]
  <2> DEFINE a(k) == CHOOSE x \in S : Cardinality({y \in S : Before(key, y, x)}) = k - 1
             b(k) == CHOOSE x \in S : Rank(R, S, x) = k - 1
  <2>1. \A k \in 1..Cardinality(S) : a(k) = b(k)
    <3>1. \A k \in 1..Cardinality(S) : k \in Int
          BY FS_CardinalityType
    <3>2. \A k \in Int : a(k) = b(k)
          BY <1>3
    <3> HIDE DEF a, b
    <3>3. QED BY <3>1, <3>2
  <2>2. s = [k \in 1..Cardinality(S) |-> a(k)]
        BY DEF SortedBy
  <2> HIDE DEF a, b
  <2>3. s = [k \in 1..Cardinality(S) |-> b(k)]
        BY <2>1, <2>2
  <2>4. QED BY <2>3 DEF b
<1> HIDE DEF s
<1>5. ByRank(s, R, S)
      BY <1>1, <1>4, OrderedSequence
<1>6. \A x \in S : /\ Cardinality({y \in S : Before(key, y, x)}) + 1 \in 1..Cardinality(S)
                   /\ s[Cardinality({y \in S : Before(key, y, x)}) + 1] = x
      BY <1>2, <1>5 DEF ByRank
<1>7. \A i, j \in 1..Cardinality(S) : i < j => Before(key, s[i], s[j])
      BY <1>5 DEF ByRank, R
<1>8. Sorts(s, key, S)
      BY <1>5, <1>6, <1>7 DEF ByRank, Sorts
<1>9. QED BY <1>8 DEF s

\* s has the numbers of S, the least one first.
Ascends(s, S) ==
  /\ s \in [1..Cardinality(S) -> S]
  /\ \A x \in S : /\ Cardinality({y \in S : y < x}) + 1 \in 1..Cardinality(S)
                  /\ s[Cardinality({y \in S : y < x}) + 1] = x
  /\ \A i, j \in 1..Cardinality(S) : i < j => s[i] < s[j]

LEMMA AscendingAscends ==
  ASSUME NEW S \in SUBSET Nat, IsFiniteSet(S)
  PROVE  Ascends(Ascending(S), S)
<1> DEFINE key == [n \in S |-> n]
           s == Ascending(S)
<1>1. key \in [S -> Int]
      OBVIOUS
<1>2. \A x, y \in S : Before(key, x, y) <=> x < y
      BY DEF Before
<1> HIDE DEF key
<1>3. Sorts(s, key, S)
      BY <1>1, SortedBySorts DEF Ascending, key
<1>4. ASSUME NEW x \in S PROVE {y \in S : Before(key, y, x)} = {y \in S : y < x}
      BY <1>2
<1> HIDE DEF s
<1>5. \A x \in S : /\ Cardinality({y \in S : y < x}) + 1 \in 1..Cardinality(S)
                   /\ s[Cardinality({y \in S : y < x}) + 1] = x
      BY <1>3, <1>4 DEF Sorts
<1>6. \A i, j \in 1..Cardinality(S) : i < j => s[i] < s[j]
      BY <1>2, <1>3 DEF Sorts
<1>7. s \in [1..Cardinality(S) -> S]
      BY <1>3 DEF Sorts
<1>8. Ascends(s, S)
      BY <1>5, <1>6, <1>7 DEF Ascends
<1>9. QED BY <1>8 DEF s

\* A number greater than all of a set comes last.
LEMMA AscendingAppend ==
  ASSUME NEW T \in SUBSET Nat, IsFiniteSet(T), NEW n \in Nat, \A x \in T : x < n
  PROVE  /\ Ascending(T) \in Seq(T) /\ Len(Ascending(T)) = Cardinality(T)
         /\ Ascending(T \cup {n}) = Append(Ascending(T), n)
<1> DEFINE N == Cardinality(T)
           U == T \cup {n}
           a == Ascending(T)
           b == Ascending(U)
<1>1. N \in Nat /\ n \notin T
  <2>1. n \notin T
        OBVIOUS
  <2>2. QED BY <2>1, FS_CardinalityType
<1>2. IsFiniteSet(U) /\ Cardinality(U) = N + 1 /\ U \in SUBSET Nat
      BY <1>1, FS_AddElement
<1>3. Ascends(a, T) /\ Ascends(b, U)
      BY <1>2, AscendingAscends
<1> HIDE DEF a, b
<1>4. a \in [1..N -> T] /\ \A i, j \in 1..N : i < j => a[i] < a[j]
      BY <1>3 DEF Ascends
<1>5. b \in [1..N + 1 -> U] /\ \A x \in U : b[Cardinality({y \in U : y < x}) + 1] = x
      BY <1>2, <1>3 DEF Ascends
<1>6. b[N + 1] = n
  <2>1. {y \in U : y < n} = T
    <3>1. \A y \in U : y < n <=> y \in T
          OBVIOUS
    <3>2. QED BY <3>1
  <2>2. QED BY <1>5, <2>1
<1>7. ASSUME NEW i \in 1..N PROVE b[i] = a[i]
  <2> DEFINE x == a[i]
             below == Cardinality({y \in T : y < x})
  <2>1. x \in T
        BY <1>4
  <2>2. {y \in U : y < x} = {y \in T : y < x}
    <3>1. x \in Nat /\ x < n
          BY <2>1
    <3> HIDE DEF x
    <3>2. ~(n < x)
          BY <3>1
    <3>3. \A y \in U : y < x => y \in T
          BY <3>2
    <3>4. QED BY <3>3
  <2>3. below + 1 \in 1..N /\ a[below + 1] = x
        BY <1>3, <2>1 DEF Ascends
  <2>4. b[below + 1] = x
        BY <1>5, <2>1, <2>2
  <2> DEFINE k == below + 1
  <2> HIDE DEF below
  <2>5. k = i
    <3>1. k \in 1..N /\ a[k] = a[i] /\ k \in Int /\ i \in Int
          BY <1>1, <2>3
    <3>2. a[i] \in Nat /\ a[k] \in Nat
          BY <1>4, <3>1
    <3> HIDE DEF k
    <3>3. ~(k < i) /\ ~(i < k)
          BY <1>4, <3>1, <3>2
    <3>4. QED BY <3>1, <3>3
  <2>6. QED BY <2>4, <2>5
<1>8. a \in Seq(T) /\ Len(a) = N
      BY <1>1, <1>4
<1>9. b = Append(a, n)
  <2>1. a \in Seq(U) /\ b \in Seq(U) /\ Len(b) = N + 1
        BY <1>1, <1>4, <1>5
  <2>2. /\ Append(a, n) \in Seq(U) /\ Len(Append(a, n)) = N + 1
        /\ \A i \in 1..N : Append(a, n)[i] = a[i]
        /\ Append(a, n)[N + 1] = n
        BY <1>8, <2>1, AppendProperties
  <2>3. ASSUME NEW i \in 1..N + 1 PROVE b[i] = Append(a, n)[i]
    <3>1. i \in 1..N \/ i = N + 1
          BY <1>1
    <3>2. QED BY <1>6, <1>7, <2>2, <3>1
  <2> HIDE DEF U
  <2>4. QED BY <2>1, <2>2, <2>3, SeqEqual
<1>10. QED BY <1>8, <1>9 DEF a, b

\* One more place.
LEMMA AtAppend ==
  ASSUME NEW A, NEW s \in Seq(A), NEW a \in Seq(DOMAIN s), NEW m \in DOMAIN s
  PROVE  At(s, a) \in Seq(A) /\ At(s, Append(a, m)) = Append(At(s, a), s[m])
<1> DEFINE N == Len(a)
           b == Append(a, m)
           p == At(s, a)
           q == At(s, b)
           r == Append(p, s[m])
<1>1. N \in Nat /\ DOMAIN a = 1..N /\ \A k \in 1..N : a[k] \in DOMAIN s /\ s[a[k]] \in A
      OBVIOUS
<1>2. /\ Len(b) = N + 1 /\ DOMAIN b = 1..N + 1 /\ b[N + 1] = m
      /\ \A k \in 1..N : b[k] = a[k]
  <2>1. b \in Seq(DOMAIN s) /\ Len(b) = N + 1 /\ b[N + 1] = m /\ \A k \in 1..N : b[k] = a[k]
        BY AppendProperties
  <2> HIDE DEF b
  <2>2. QED BY <1>1, <2>1
<1>3. p = [k \in 1..N |-> s[a[k]]] /\ q = [k \in 1..N + 1 |-> s[b[k]]]
      BY <1>1, <1>2 DEF At
<1> HIDE DEF b, p, q, N
<1>4. p \in Seq(A) /\ Len(p) = N /\ \A k \in 1..N : p[k] = s[a[k]]
  <2>1. p \in [1..N -> A]
        BY <1>1, <1>3
  <2>2. QED BY <1>1, <1>3, <2>1
<1>5. \A k \in 1..N + 1 : k = N + 1 \/ k \in 1..N
      BY <1>1
<1>6. q \in Seq(A) /\ Len(q) = N + 1 /\ \A k \in 1..N + 1 : q[k] = s[b[k]]
  <2>1. ASSUME NEW k \in 1..N + 1 PROVE s[b[k]] \in A
    <3>1. CASE k = N + 1
          BY <1>2, <3>1
    <3>2. CASE k \in 1..N
          BY <1>1, <1>2, <3>2
    <3>3. QED BY <1>5, <3>1, <3>2
  <2>2. q \in [1..N + 1 -> A]
        BY <1>3, <2>1
  <2>3. QED BY <1>1, <1>3, <2>2
<1>7. s[m] \in A
      OBVIOUS
<1>8. /\ r \in Seq(A) /\ Len(r) = N + 1 /\ r[N + 1] = s[m]
      /\ \A k \in 1..N : r[k] = p[k]
      BY <1>4, <1>7, AppendProperties
<1> HIDE DEF r
<1>9. \A k \in 1..N + 1 : q[k] = r[k]
  <2>1. ASSUME NEW k \in 1..N PROVE q[k] = r[k]
    <3>1. k \in 1..N + 1
          BY <1>1
    <3>2. q[k] = s[b[k]] /\ b[k] = a[k]
          BY <1>2, <1>6, <3>1
    <3>3. r[k] = p[k] /\ p[k] = s[a[k]]
          BY <1>4, <1>8
    <3>4. QED BY <3>2, <3>3
  <2>2. q[N + 1] = r[N + 1]
    <3>1. N + 1 \in 1..N + 1
          BY <1>1
    <3>2. QED BY <1>2, <1>6, <1>8, <3>1
  <2>3. QED BY <1>5, <2>1, <2>2
<1>10. q = r
       BY <1>6, <1>8, <1>9, SeqEqual
<1>11. QED BY <1>4, <1>10 DEF p, q, r, b

\* Nothing is picked at no places.
LEMMA NothingPicked == \A s : At(s, Ascending({})) = <<>>
<1>1. Ascending({}) \in [1..0 -> {}]
  <2>1. {} \in SUBSET Nat /\ IsFiniteSet({}) /\ Cardinality({}) = 0
        BY FS_EmptySet
  <2>2. QED BY <2>1, AscendingAscends DEF Ascends
<1>2. \A s : At(s, Ascending({})) = [k \in 1..0 |-> s[Ascending({})[k]]]
      BY <1>1 DEF At
<1>3. \A f : [k \in 1..0 |-> f[k]] = <<>>
      OBVIOUS
<1>4. QED BY <1>2, <1>3

\* Some of the first n elements are picked in their order, and then the next one too.
LEMMA OneMorePicked ==
  ASSUME NEW A, NEW s \in Seq(A), NEW n \in 0..Len(s) - 1, NEW T \in SUBSET (1..n)
  PROVE  /\ At(s, Ascending(T)) \in Seq(A)
         /\ At(s, Ascending(T \cup {n + 1})) = Append(At(s, Ascending(T)), s[n + 1])
<1> DEFINE a == Ascending(T)
           D == DOMAIN s
           m == n + 1
<1>1. n \in Nat /\ D = 1..Len(s) /\ m \in D /\ m \in Nat /\ 1..n \in SUBSET D
      OBVIOUS
<1>2. T \in SUBSET D /\ IsFiniteSet(T) /\ T \in SUBSET Nat /\ \A x \in T : x < m
  <2>1. IsFiniteSet(1..n)
        BY <1>1, FS_Interval
  <2>2. IsFiniteSet(T)
        BY <2>1, FS_Subset
  <2>3. QED BY <1>1, <2>2
<1>3. a \in Seq(T) /\ Ascending(T \cup {m}) = Append(a, m)
  <2> HIDE DEF m
  <2>1. QED BY <1>1, <1>2, AscendingAppend
<1>4. a \in Seq(D)
  <2> HIDE DEF a, D
  <2>1. QED BY <1>2, <1>3, SeqMonotonic
<1> HIDE DEF a, m
<1>5. At(s, a) \in Seq(A) /\ At(s, Append(a, m)) = Append(At(s, a), s[m])
      BY <1>1, <1>4, AtAppend DEF D
<1>6. QED BY <1>3, <1>5 DEF a, m

\* f has the concatenations of the first sequences of ss.
Flats(f, ss) == f[0] = <<>> /\ \A i \in 1..Len(ss) : f[i] = f[i - 1] \o ss[i]

LEMMA Flattening ==
  ASSUME NEW A, NEW ss \in Seq(Seq(A))
  PROVE  \E f \in [0..Len(ss) -> Seq(A)] : Flats(f, ss) /\ FlattenSeq(ss) = f[Len(ss)]
<1> DEFINE S == Seq(A)
           N == Len(ss)
           F == [p \in (1..N) \X S |-> p[2] \o ss[p[1]]]
<1>1. N \in Nat /\ <<>> \in S /\ \A i \in 1..N : ss[i] \in S
      OBVIOUS
<1>2. \A s, t \in S : s \o t \in S /\ <<>> \o s = s
      BY ConcatProperties, ConcatEmptySeq
<1> HIDE DEF S
<1>3. F \in [(1..N) \X S -> S] /\ \A i \in 1..N, s \in S : F[<<i, s>>] = s \o ss[i]
      BY <1>1, <1>2
<1> HIDE DEF F
<1>4. PICK g \in [0..N -> S] : Recursive(g, F, <<>>, N)
      BY <1>1, <1>3, Recursion
<1>5. g[0] = <<>> /\ \A i \in 1..N : g[i] = g[i - 1] \o ss[i]
  <2>1. ASSUME NEW i \in 1..N PROVE g[i - 1] \in S
        BY <1>1
  <2>2. QED BY <1>3, <1>4, <2>1 DEF Recursive
<1>6. FlattenSeq(ss) = g[N]
  <2>1. CASE N = 0
    <3>1. ss = <<>>
          BY <2>1
    <3>2. QED BY <1>5, <2>1, <3>1 DEF FlattenSeq
  <2>2. CASE N # 0
    <3> DEFINE step(h, i) == IF i = 1 THEN ss[i] ELSE h[i - 1] \o ss[i]
               h == [i \in 1..N |-> g[i]]
    <3>1. g[1] = ss[1]
      <4>1. 1 \in 1..N /\ 1 - 1 = 0
            BY <1>1, <2>2
      <4>2. g[1] = <<>> \o ss[1]
            BY <1>5, <4>1
      <4>3. QED BY <1>1, <1>2, <4>1, <4>2
    <3>2. ASSUME NEW i \in 1..N PROVE h[i] = step(h, i)
      <4>1. CASE i = 1
            BY <3>1, <4>1
      <4>2. CASE i # 1
        <5>1. i - 1 \in 1..N
              BY <1>1, <4>2
        <5>2. h[i - 1] = g[i - 1] /\ h[i] = g[i]
              BY <5>1
        <5> HIDE DEF h
        <5>3. QED BY <1>5, <4>2, <5>2
      <4>3. QED BY <4>1, <4>2
    <3>3. h = [i \in 1..N |-> step(h, i)]
      <4>1. h = [i \in 1..N |-> h[i]]
            OBVIOUS
      <4> HIDE DEF h, step
      <4>2. QED BY <3>2, <4>1
    <3> DEFINE flatten == CHOOSE flatten : flatten = [i \in 1..N |-> step(flatten, i)]
    <3>4. flatten = [i \in 1..N |-> step(flatten, i)]
      <4> HIDE DEF h
      <4>1. QED BY <3>3
    <3>5. FlattenSeq(ss) = flatten[N]
          BY <1>1, <2>2 DEF FlattenSeq
    <3> HIDE DEF flatten, h
    <3> DEFINE T == {i \in 0..N : i = 0 \/ flatten[i] = g[i]}
    <3>6. 0..N \subseteq T
      <4>1. 0 \in T
            BY <1>1
      <4>2. ASSUME NEW i \in 0..N - 1, i \in T PROVE i + 1 \in T
        <5>1. i + 1 \in 1..N /\ (i + 1) - 1 = i /\ i + 1 \in 0..N
              BY <1>1
        <5>2. CASE i = 0
              BY <3>1, <3>4, <5>1, <5>2
        <5>3. CASE i # 0
          <6>1. flatten[i] = g[i]
                BY <4>2, <5>3
          <6>2. flatten[i + 1] = flatten[i] \o ss[i + 1]
            <7>1. i + 1 # 1
                  BY <5>3
            <7>2. flatten[i + 1] = step(flatten, i + 1)
                  BY <3>4, <5>1
            <7>3. QED BY <5>1, <7>1, <7>2
          <6>3. g[i + 1] = g[i] \o ss[i + 1]
                BY <1>5, <5>1
          <6>4. QED BY <5>1, <6>1, <6>2, <6>3
        <5>4. QED BY <5>2, <5>3
      <4> HIDE DEF T
      <4>3. QED BY <1>1, <4>1, <4>2, Upward
    <3>7. QED BY <1>1, <2>2, <3>5, <3>6
  <2>3. QED BY <2>1, <2>2
<1>7. QED BY <1>5, <1>6 DEF Flats, S

\* One more sequence comes last.
LEMMA FlattenAppend ==
  ASSUME NEW A, NEW ss \in Seq(Seq(A)), NEW s \in Seq(A)
  PROVE  FlattenSeq(ss) \in Seq(A) /\ FlattenSeq(Append(ss, s)) = FlattenSeq(ss) \o s
<1> DEFINE N == Len(ss)
           tt == Append(ss, s)
<1>1. /\ tt \in Seq(Seq(A)) /\ N \in Nat /\ Len(tt) = N + 1 /\ tt[N + 1] = s
      /\ \A i \in 1..N : tt[i] = ss[i]
      BY AppendProperties
<1> HIDE DEF tt
<1>2. PICK f \in [0..N -> Seq(A)] : Flats(f, ss) /\ FlattenSeq(ss) = f[N]
      BY Flattening
<1>3. PICK g \in [0..Len(tt) -> Seq(A)] : Flats(g, tt) /\ FlattenSeq(tt) = g[Len(tt)]
      BY <1>1, Flattening
<1> DEFINE T == {i \in 0..N : f[i] = g[i]}
<1>4. 0..N \subseteq T
  <2>1. 0 \in T
        BY <1>1, <1>2, <1>3 DEF Flats
  <2>2. ASSUME NEW i \in 0..N - 1, i \in T PROVE i + 1 \in T
    <3>1. i + 1 \in 1..N /\ (i + 1) - 1 = i /\ i + 1 \in 0..N /\ i + 1 \in 1..N + 1
          BY <1>1
    <3>2. f[i + 1] = f[i] \o ss[i + 1] /\ g[i + 1] = g[i] \o tt[i + 1]
          BY <1>1, <1>2, <1>3, <3>1 DEF Flats
    <3>3. QED BY <1>1, <2>2, <3>1, <3>2
  <2> HIDE DEF T
  <2>3. QED BY <1>1, <2>1, <2>2, Upward
<1>5. f[N] = g[N] /\ f[N] \in Seq(A)
  <2>1. N \in 0..N
        BY <1>1
  <2> HIDE DEF N
  <2>2. N \in T
        BY <1>4, <2>1
  <2>3. QED BY <2>1, <2>2
<1>6. g[N + 1] = g[N] \o s
  <2>1. N + 1 \in 1..Len(tt) /\ (N + 1) - 1 = N
        BY <1>1
  <2>2. QED BY <1>1, <1>3, <2>1 DEF Flats
<1>7. QED BY <1>1, <1>2, <1>3, <1>5, <1>6 DEF tt
=============================================================================
