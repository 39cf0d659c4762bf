-------------------------- MODULE FindingsTheorems --------------------------
(* What the operators on lists of findings do, for lists of every length.   *)
EXTENDS Findings, FiniteSetTheorems, SequenceTheorems, WellFoundedInduction, TLAPS

(***************************************************************************)
(* Induction.  A set of naturals has a least element; of those that are    *)
(* bounded it has a greatest one.                                          *)
(***************************************************************************)
LEMMA LeastNat ==
  ASSUME NEW T, T \subseteq Nat, T # {}
  PROVE  \E n \in T : \A m \in T : n <= m
<1>1. IsWellFoundedOn(OpToRel(<, Nat), Nat)
  BY NatLessThanWellFounded
<1>2. PICK n \in T : \A m \in T : <<m, n>> \notin OpToRel(<, Nat)
  BY <1>1, WFMin
<1>3. \A m \in T : ~(m < n)
  BY <1>2 DEF OpToRel
<1> QED
  BY <1>3

\* A set that has the first naturals and, with a number, the next one has all
\* up to its bound.
LEMMA UpTo ==
  ASSUME NEW n \in Nat, NEW T, 0 \in T,
         \A k \in 0..n : k \in T /\ k < n => k + 1 \in T
  PROVE  0..n \subseteq T
<1> DEFINE D == (0..n) \ T
<1> SUFFICES ASSUME D # {} PROVE FALSE
  OBVIOUS
<1>1. PICK k \in D : \A m \in D : k <= m
  <2>1. D \subseteq Nat
    OBVIOUS
  <2> HIDE DEF D
  <2> QED
    BY <2>1, LeastNat
<1>2. k - 1 \in 0..n /\ k - 1 \in T /\ k - 1 < n
  BY <1>1
<1> QED
  BY <1>1, <1>2

\* The maximum of a set of positions is in it and is an upper bound.
LEMMA MaxOf ==
  ASSUME NEW n \in Nat, NEW s \in SUBSET (1..n), s # {}
  PROVE  Max(s) \in s /\ \A i \in s : i <= Max(s)
<1> DEFINE D == {m \in Nat : \A i \in s : i <= m}
<1>1. PICK x \in D : \A m \in D : x <= m
  <2>1. D \subseteq Nat /\ n \in D
    OBVIOUS
  <2> HIDE DEF D
  <2> QED
    BY <2>1, LeastNat
<1>2. x \in s
  <2> SUFFICES ASSUME x \notin s PROVE FALSE
    OBVIOUS
  <2>1. \A i \in s : i \in Nat /\ i <= x /\ i # x
    BY <1>1
  <2>2. x \in Nat /\ x # 0
    <3>1. PICK i \in s : TRUE
      OBVIOUS
    <3> QED
      BY <1>1, <2>1, <3>1
  <2>3. x - 1 \in D
    BY <2>1, <2>2
  <2> QED
    BY <1>1, <2>2, <2>3
<1>3. \A i \in s : i \in Nat /\ x >= i
  BY <1>1
<1> QED
  BY <1>2, <1>3 DEF Max

\* The last of the first indices.
LEMMA LastIndex ==
  ASSUME NEW n \in Nat, NEW k \in 0..n, k < n
  PROVE  LET s == 1..(k + 1)
         IN s \in SUBSET (1..n) /\ s # {} /\ s \ {Max(s)} = 1..k /\ Max(s) = k + 1
<1> DEFINE s == 1..(k + 1)
<1>1. s \in SUBSET (1..n) /\ s # {} /\ k + 1 \in s /\ \A i \in s : i <= k + 1
  OBVIOUS
<1>2. s \ {k + 1} = 1..k
  OBVIOUS
<1> HIDE DEF s
<1>3. Max(s) = k + 1
  <2>1. Max(s) \in s /\ \A i \in s : i <= Max(s)
    BY <1>1, MaxOf
  <2>2. Max(s) \in 1..n /\ k + 1 \in 1..n
    BY <1>1, <2>1
  <2>3. Max(s) <= k + 1 /\ k + 1 <= Max(s)
    BY <1>1, <2>1
  <2> QED
    BY <2>2, <2>3
<1> QED
  BY <1>1, <1>2, <1>3 DEF s

\* The minimum of a set of naturals is in it.
LEMMA MinOf ==
  ASSUME NEW s \in SUBSET Nat, s # {}
  PROVE  Min(s) \in s
<1>1. PICK x \in s : \A i \in s : x <= i
  BY LeastNat
<1> QED
  BY <1>1 DEF Min

\* A set that has the empty sequence and each sequence that extends one of
\* its own by an element has them all.
LEMMA AllSequences ==
  ASSUME NEW S, NEW T, <<>> \in T,
         \A s \in Seq(S), e \in S : s \in T => Append(s, e) \in T
  PROVE  Seq(S) \subseteq T
<1> DEFINE D == {n \in Nat : \E s \in Seq(S) : s \notin T /\ Len(s) = n}
<1> SUFFICES ASSUME NEW bad \in Seq(S), bad \notin T PROVE FALSE
  OBVIOUS
<1>1. PICK n \in D : \A m \in D : n <= m
  <2>1. D \subseteq Nat /\ Len(bad) \in D
    OBVIOUS
  <2> HIDE DEF D
  <2> QED
    BY <2>1, LeastNat
<1>2. PICK s \in Seq(S) : s \notin T /\ Len(s) = n
  BY <1>1
<1>3. s # <<>>
  BY <1>2
<1>4. PICK t \in Seq(S), e \in S : s = Append(t, e)
  BY <1>3, SequenceEmptyOrAppend
<1>5. t \notin T
  BY <1>2, <1>4
<1>6. Len(t) \in Nat /\ Len(t) < n
  BY <1>2, <1>4
<1> QED
  BY <1>1, <1>5, <1>6

-----------------------------------------------------------------------------
(***************************************************************************)
(* Folds in general: the accumulators are in A, and F says what becomes of *)
(* one at an index.                                                        *)
(***************************************************************************)
Folds(g, A, base, F, k) ==
  /\ g \in [SUBSET (1..k) -> A]
  /\ \A s \in SUBSET (1..k) :
       g[s] = IF s = {} THEN base ELSE F[<<g[s \ {Max(s)}], Max(s)>>]

\* A fold has a value for each set of indices.
LEMMA FoldExists ==
  ASSUME NEW A, NEW base \in A, NEW n \in Nat, NEW F \in [A \X (1..n) -> A]
  PROVE  \E g : Folds(g, A, base, F, n)
<1> DEFINE T == {k \in 0..n : \E g : Folds(g, A, base, F, k)}
<1>1. 0 \in T
  <2> DEFINE g == [s \in SUBSET (1..0) |-> base]
  <2>1. \A s \in SUBSET (1..0) : s = {}
    OBVIOUS
  <2>2. Folds(g, A, base, F, 0)
    BY <2>1 DEF Folds
  <2> QED
    BY <2>2
<1>2. ASSUME NEW k \in 0..n, k \in T, k < n
      PROVE  k + 1 \in T
  <2>1. PICK g : Folds(g, A, base, F, k)
    BY <1>2
  <2>2. k + 1 \in 1..n /\ k + 1 \notin 1..k /\ k \in Nat
    BY <1>2
  <2> DEFINE h == [s \in SUBSET (1..(k + 1)) |->
                    IF k + 1 \in s THEN F[<<g[s \ {k + 1}], k + 1>>] ELSE g[s]]
  <2>3. \A s \in SUBSET (1..(k + 1)) : s \ {k + 1} \in SUBSET (1..k)
    OBVIOUS
  <2>4. \A s \in SUBSET (1..(k + 1)) : k + 1 \notin s => s \in SUBSET (1..k)
    OBVIOUS
  <2>5. h \in [SUBSET (1..(k + 1)) -> A]
    <3> SUFFICES ASSUME NEW s \in SUBSET (1..(k + 1)) PROVE h[s] \in A
      OBVIOUS
    <3>1. CASE k + 1 \in s
      <4>1. g[s \ {k + 1}] \in A
        BY <2>1, <2>3 DEF Folds
      <4> QED
        BY <2>2, <3>1, <4>1
    <3>2. CASE k + 1 \notin s
      <4>1. g[s] \in A
        BY <2>1, <2>4, <3>2 DEF Folds
      <4> QED
        BY <3>2, <4>1
    <3> QED
      BY <3>1, <3>2
  <2>6. ASSUME NEW s \in SUBSET (1..(k + 1))
        PROVE  h[s] = IF s = {} THEN base ELSE F[<<h[s \ {Max(s)}], Max(s)>>]
    <3>1. CASE k + 1 \in s
      <4>1. Max(s) = k + 1
        <5>1. k + 1 \in Nat /\ s # {}
          BY <3>1
        <5>2. Max(s) \in s /\ \A i \in s : i <= Max(s)
          BY <5>1, MaxOf
        <5>3. Max(s) \in 1..(k + 1)
          BY <5>2
        <5> QED
          BY <5>2, <5>3, <3>1
      <4>2. s \ {k + 1} \in SUBSET (1..(k + 1)) /\ k + 1 \notin s \ {k + 1}
        OBVIOUS
      <4>3. h[s \ {k + 1}] = g[s \ {k + 1}]
        BY <4>2
      <4> QED
        BY <3>1, <4>1, <4>3
    <3>2. CASE k + 1 \notin s
      <4>1. s \in SUBSET (1..k)
        BY <3>2, <2>4
      <4>2. g[s] = IF s = {} THEN base ELSE F[<<g[s \ {Max(s)}], Max(s)>>]
        BY <2>1, <4>1 DEF Folds
      <4>3. s \ {Max(s)} \in SUBSET (1..(k + 1)) /\ k + 1 \notin s \ {Max(s)}
        BY <3>2
      <4>4. h[s \ {Max(s)}] = g[s \ {Max(s)}] /\ h[s] = g[s]
        BY <3>2, <4>3
      <4> QED
        BY <4>2, <4>4
    <3> QED
      BY <3>1, <3>2
  <2> HIDE DEF h
  <2>7. Folds(h, A, base, F, k + 1)
    BY <2>5, <2>6 DEF Folds
  <2> QED
    BY <2>2, <2>7
<1> HIDE DEF T
<1>3. 0..n \subseteq T
  BY <1>1, <1>2, UpTo
<1> QED
  BY <1>3 DEF T

\* It goes from one index to the next.
LEMMA FoldSteps ==
  ASSUME NEW A, NEW base, NEW n \in Nat, NEW F, NEW g, Folds(g, A, base, F, n)
  PROVE  /\ g[1..0] = base
         /\ \A k \in 0..n : g[1..k] \in A
         /\ \A k \in 0..n : k < n => g[1..(k + 1)] = F[<<g[1..k], k + 1>>]
<1>1. g[1..0] = base
  <2>1. 1..0 = {} /\ {} \in SUBSET (1..n)
    OBVIOUS
  <2> QED
    BY <2>1 DEF Folds
<1>2. ASSUME NEW k \in 0..n PROVE g[1..k] \in A
  <2>1. 1..k \in SUBSET (1..n)
    OBVIOUS
  <2> QED
    BY <2>1 DEF Folds
<1>3. ASSUME NEW k \in 0..n, k < n
      PROVE  g[1..(k + 1)] = F[<<g[1..k], k + 1>>]
  <2> DEFINE s == 1..(k + 1)
  <2>1. s \in SUBSET (1..n) /\ s # {} /\ s \ {Max(s)} = 1..k /\ Max(s) = k + 1
    BY <1>3, LastIndex
  <2> HIDE DEF s
  <2>2. g[s] = F[<<g[s \ {Max(s)}], Max(s)>>]
    BY <2>1 DEF Folds
  <2> QED
    BY <2>1, <2>2 DEF s
<1> QED
  BY <1>1, <1>2, <1>3

-----------------------------------------------------------------------------
(***************************************************************************)
(* merge_novel_findings as a fold over the indices of the additions.       *)
(***************************************************************************)
Add(merged, f) == IF Known(merged, f) THEN merged ELSE Append(merged, f)

\* g has, for each set of the first k additions, their merge with the base.
Merges(g, base, a, k) ==
  g = [s \in SUBSET (1..k) |->
        IF s = {} THEN base ELSE Add(g[s \ {Max(s)}], a[Max(s)])]

\* The value of the merge's fold for each set of the first n positions exists.
LEMMA MergesExist ==
  ASSUME NEW base, NEW a, NEW n \in Nat
  PROVE  \E g : Merges(g, base, a, n)
<1> DEFINE T == {k \in 0..n : \E g : Merges(g, base, a, k)}
<1>1. 0 \in T
  <2> DEFINE g == [s \in SUBSET (1..0) |-> base]
  <2>1. \A s \in SUBSET (1..0) : s = {}
    OBVIOUS
  <2>2. Merges(g, base, a, 0)
    BY <2>1 DEF Merges
  <2> QED
    BY <2>2
<1>2. ASSUME NEW k \in 0..n, k \in T, k < n
      PROVE  k + 1 \in T
  <2>1. PICK g : Merges(g, base, a, k)
    BY <1>2
  <2> DEFINE h == [s \in SUBSET (1..(k + 1)) |->
                    IF k + 1 \in s THEN Add(g[s \ {k + 1}], a[k + 1]) ELSE g[s]]
  <2>2. ASSUME NEW s \in SUBSET (1..(k + 1))
        PROVE  h[s] = IF s = {} THEN base ELSE Add(h[s \ {Max(s)}], a[Max(s)])
    <3>1. CASE k + 1 \in s
      <4>1. Max(s) = k + 1
        <5>1. k + 1 \in Nat /\ s # {}
          BY <3>1
        <5>2. Max(s) \in s /\ \A i \in s : i <= Max(s)
          BY <5>1, MaxOf
        <5>3. Max(s) \in 1..(k + 1)
          BY <5>2
        <5> QED
          BY <5>2, <5>3, <3>1
      <4>2. s \ {k + 1} \in SUBSET (1..(k + 1)) /\ k + 1 \notin s \ {k + 1}
        OBVIOUS
      <4>3. h[s \ {k + 1}] = g[s \ {k + 1}]
        BY <4>2
      <4> QED
        BY <3>1, <4>1, <4>3
    <3>2. CASE k + 1 \notin s
      <4>1. s \in SUBSET (1..k)
        BY <3>2
      <4>2. g[s] = IF s = {} THEN base ELSE Add(g[s \ {Max(s)}], a[Max(s)])
        BY <2>1, <4>1 DEF Merges
      <4>3. s \ {Max(s)} \in SUBSET (1..(k + 1)) /\ k + 1 \notin s \ {Max(s)}
        BY <3>2
      <4>4. h[s \ {Max(s)}] = g[s \ {Max(s)}] /\ h[s] = g[s]
        BY <3>2, <4>3
      <4> QED
        BY <4>2, <4>4
    <3> QED
      BY <3>1, <3>2
  <2>3. Merges(h, base, a, k + 1)
    <3> HIDE DEF h
    <3>1. h = [s \in SUBSET (1..(k + 1)) |-> h[s]]
      BY DEF h
    <3> QED
      BY <2>2, <3>1 DEF Merges
  <2> QED
    BY <1>2, <2>3
<1> HIDE DEF T
<1>3. 0..n \subseteq T
  BY <1>1, <1>2, UpTo
<1> QED
  BY <1>3 DEF T

\* It is the same for two lists that agree so far.
LEMMA MergesAgree ==
  ASSUME NEW base, NEW a, NEW b, NEW g, NEW h, NEW k \in Nat, NEW n \in Nat, k <= n,
         Merges(g, base, a, k), Merges(h, base, b, n), \A i \in 1..k : a[i] = b[i]
  PROVE  \A s \in SUBSET (1..k) : g[s] = h[s]
<1> DEFINE T == {j \in 0..k : \A s \in SUBSET (1..j) : g[s] = h[s]}
<1>1. \A s \in SUBSET (1..k) :
        /\ g[s] = IF s = {} THEN base ELSE Add(g[s \ {Max(s)}], a[Max(s)])
        /\ h[s] = IF s = {} THEN base ELSE Add(h[s \ {Max(s)}], b[Max(s)])
  <2>1. \A s \in SUBSET (1..k) : s \in SUBSET (1..n)
    OBVIOUS
  <2> QED
    BY <2>1 DEF Merges
<1>2. 0 \in T
  <2>1. \A s \in SUBSET (1..0) : s = {} /\ s \in SUBSET (1..k)
    OBVIOUS
  <2>2. \A s \in SUBSET (1..0) : g[s] = h[s]
    BY <1>1, <2>1
  <2> QED
    BY <2>2
<1>3. ASSUME NEW j \in 0..k, j \in T, j < k
      PROVE  j + 1 \in T
  <2> SUFFICES ASSUME NEW s \in SUBSET (1..(j + 1)) PROVE g[s] = h[s]
    BY <1>3
  <2>1. s \in SUBSET (1..k)
    BY <1>3
  <2>2. CASE s = {}
    BY <1>1, <2>1, <2>2
  <2>3. CASE s # {}
    <3>1. Max(s) \in s /\ \A i \in s : i <= Max(s)
      BY <2>1, <2>3, MaxOf
    <3>2. s \ {Max(s)} \in SUBSET (1..j)
      <4>1. \A i \in s : i \in 1..(j + 1) /\ i <= Max(s)
        BY <3>1
      <4>2. Max(s) \in 1..(j + 1)
        BY <3>1
      <4>3. \A i \in s \ {Max(s)} : i \in 1..j
        BY <4>1, <4>2
      <4> QED
        BY <4>3
    <3>3. g[s \ {Max(s)}] = h[s \ {Max(s)}]
      BY <3>2, <1>3
    <3>4. a[Max(s)] = b[Max(s)]
      BY <3>1, <2>1
    <3> QED
      BY <1>1, <2>1, <2>3, <3>3, <3>4
  <2> QED
    BY <2>2, <2>3
<1> HIDE DEF T
<1>4. 0..k \subseteq T
  BY <1>2, <1>3, UpTo
<1> QED
  BY <1>4 DEF T

\* A merge is the last of the merges of its first additions.
LEMMA MergeNovelMerges ==
  ASSUME NEW base, NEW S, NEW a \in Seq(S)
  PROVE  \E g : Merges(g, base, a, Len(a)) /\ MergeNovel(base, a) = g[1..Len(a)]
<1> DEFINE g == CHOOSE g : Merges(g, base, a, Len(a))
<1>1. Merges(g, base, a, Len(a))
  <2>1. Len(a) \in Nat
    OBVIOUS
  <2> QED
    BY <2>1, MergesExist
<1>2. DOMAIN a = 1..Len(a)
  OBVIOUS
<1>3. MergeNovel(base, a) = g[DOMAIN a]
  BY <1>2, Zenon DEF MergeNovel, FoldLeft, MapThenFoldSet, Merges, Add
<1> QED
  BY <1>1, <1>2, <1>3

\* An addition is merged after all others.
LEMMA MergeAppend ==
  ASSUME NEW base, NEW S, NEW a \in Seq(S), NEW f \in S
  PROVE  MergeNovel(base, Append(a, f)) = Add(MergeNovel(base, a), f)
<1> DEFINE b == Append(a, f)
           n == Len(a)
<1>1. b \in Seq(S) /\ Len(b) = n + 1 /\ b[n + 1] = f /\ \A i \in 1..n : b[i] = a[i]
  OBVIOUS
<1>2. n \in Nat
  OBVIOUS
<1> HIDE DEF b, n
<1>3. PICK g : Merges(g, base, a, n) /\ MergeNovel(base, a) = g[1..n]
  BY MergeNovelMerges DEF n
<1>4. PICK h : Merges(h, base, b, n + 1) /\ MergeNovel(base, b) = h[1..(n + 1)]
  BY <1>1, MergeNovelMerges
<1>5. h[1..(n + 1)] = Add(h[1..n], f)
  <2>1. Max(1..(n + 1)) = n + 1
    <3>1. n + 1 \in Nat /\ 1..(n + 1) \in SUBSET (1..(n + 1)) /\ n + 1 \in 1..(n + 1)
      BY <1>2
    <3>2. Max(1..(n + 1)) \in 1..(n + 1) /\ \A i \in 1..(n + 1) : i <= Max(1..(n + 1))
      BY <3>1, MaxOf
    <3> QED
      BY <3>1, <3>2
  <2>2. 1..(n + 1) # {} /\ (1..(n + 1)) \ {n + 1} = 1..n
    BY <1>2
  <2> QED
    BY ZenonT(40), <1>1, <1>4, <2>1, <2>2 DEF Merges
<1>6. g[1..n] = h[1..n]
  <2>1. \A s \in SUBSET (1..n) : g[s] = h[s]
    BY <1>1, <1>2, <1>3, <1>4, MergesAgree
  <2> QED
    BY <2>1
<1> QED
  BY <1>3, <1>4, <1>5, <1>6 DEF b

\* Nothing is merged from an empty list.
LEMMA MergeEmpty ==
  ASSUME NEW base
  PROVE  MergeNovel(base, <<>>) = base
<1>1. <<>> \in Seq({}) /\ Len(<<>>) = 0
  OBVIOUS
<1>2. PICK g : Merges(g, base, <<>>, 0) /\ MergeNovel(base, <<>>) = g[1..0]
  BY <1>1, MergeNovelMerges
<1>3. 1..0 = {} /\ {} \in SUBSET (1..0)
  OBVIOUS
<1> QED
  BY <1>2, <1>3 DEF Merges

\* What a merge is: it goes on where the base ends, with additions only; it has
\* something like each addition that is like itself, and nothing that is like
\* what stands before it.
IsMerge(m, base, a) ==
  /\ Len(base) <= Len(m)
  /\ \A i \in 1..Len(base) : m[i] = base[i]
  /\ \A j \in (Len(base) + 1)..Len(m) :
       /\ \E i \in DOMAIN a : m[j] = a[i]
       /\ \A i \in 1..(j - 1) : ~SameIdentity(m[i], m[j])
  /\ \A i \in DOMAIN a : SameIdentity(a[i], a[i]) => Known(m, a[i])

\* What MergeNovel computes is a merge.
LEMMA MergeIsMerge ==
  ASSUME NEW S, NEW base \in Seq(S), NEW a \in Seq(S)
  PROVE  MergeNovel(base, a) \in Seq(S) /\ IsMerge(MergeNovel(base, a), base, a)
<1> DEFINE T == {b \in Seq(S) : /\ MergeNovel(base, b) \in Seq(S)
                               /\ IsMerge(MergeNovel(base, b), base, b)}
<1>1. <<>> \in T
  BY MergeEmpty DEF IsMerge
<1>2. ASSUME NEW b \in Seq(S), NEW f \in S, b \in T
      PROVE  Append(b, f) \in T
  <2> DEFINE m == MergeNovel(base, b)
             c == Append(b, f)
  <2>1. m \in Seq(S) /\ IsMerge(m, base, b)
    BY <1>2
  <2>2. MergeNovel(base, c) = Add(m, f)
    BY MergeAppend
  <2>3. /\ c \in Seq(S) /\ Len(c) = Len(b) + 1 /\ DOMAIN c = 1..(Len(b) + 1)
        /\ DOMAIN b = 1..Len(b) /\ Len(b) \in Nat
        /\ c[Len(b) + 1] = f /\ \A i \in DOMAIN b : c[i] = b[i]
    OBVIOUS
  <2> HIDE DEF m, c
  <2>4. Add(m, f) \in Seq(S) /\ IsMerge(Add(m, f), base, c)
    <3>1. CASE Known(m, f)
      <4>1. Add(m, f) = m
        BY <3>1 DEF Add
      <4>2. \A i \in DOMAIN b : \E j \in DOMAIN c : c[j] = b[i]
        BY <2>3
      <4>3. \A i \in DOMAIN c : SameIdentity(c[i], c[i]) => Known(m, c[i])
        BY <2>1, <2>3, <3>1 DEF IsMerge
      <4> QED
        BY <2>1, <4>1, <4>2, <4>3 DEF IsMerge
    <3>2. CASE ~Known(m, f)
      <4> DEFINE r == Append(m, f)
      <4>1. Add(m, f) = r
        BY <3>2 DEF Add
      <4>2. /\ r \in Seq(S) /\ Len(r) = Len(m) + 1 /\ DOMAIN r = 1..(Len(m) + 1)
            /\ DOMAIN m = 1..Len(m) /\ Len(m) \in Nat /\ Len(base) \in Nat
            /\ r[Len(m) + 1] = f /\ \A i \in DOMAIN m : r[i] = m[i]
        BY <2>1
      <4> HIDE DEF r
      <4>3. Len(base) <= Len(r) /\ \A i \in 1..Len(base) : r[i] = base[i]
        BY <2>1, <4>2 DEF IsMerge
      <4>4. ASSUME NEW j \in (Len(base) + 1)..Len(r)
            PROVE  /\ \E i \in DOMAIN c : r[j] = c[i]
                   /\ \A i \in 1..(j - 1) : ~SameIdentity(r[i], r[j])
        <5>1. CASE j = Len(m) + 1
          <6>1. r[j] = f /\ c[Len(b) + 1] = f /\ Len(b) + 1 \in DOMAIN c
            BY <2>3, <4>2, <5>1
          <6>2. \A i \in 1..(j - 1) : i \in DOMAIN m /\ r[i] = m[i]
            BY SMTT(30), <4>2, <5>1
          <6>3. \A i \in DOMAIN m : ~SameIdentity(m[i], f)
            BY <3>2 DEF Known
          <6> QED
            BY <6>1, <6>2, <6>3
        <5>2. CASE j # Len(m) + 1
          <6>1. j \in (Len(base) + 1)..Len(m) /\ j \in DOMAIN m
            BY <4>2, <5>2
          <6>2. r[j] = m[j] /\ \A i \in 1..(j - 1) : r[i] = m[i]
            BY <4>2, <6>1
          <6>3. /\ \E i \in DOMAIN b : m[j] = b[i]
                /\ \A i \in 1..(j - 1) : ~SameIdentity(m[i], m[j])
            BY <2>1, <6>1 DEF IsMerge
          <6>4. \A i \in DOMAIN b : i \in DOMAIN c /\ c[i] = b[i]
            BY <2>3
          <6> QED
            BY <6>2, <6>3, <6>4
        <5> QED
          BY <5>1, <5>2
      <4>5. ASSUME NEW i \in DOMAIN c, SameIdentity(c[i], c[i])
            PROVE  Known(r, c[i])
        <5>1. CASE i = Len(b) + 1
          BY <2>3, <4>2, <4>5, <5>1 DEF Known
        <5>2. CASE i # Len(b) + 1
          <6>1. i \in DOMAIN b /\ c[i] = b[i]
            BY <2>3, <5>2
          <6>2. Known(m, b[i])
            BY <2>1, <4>5, <6>1 DEF IsMerge
          <6> QED
            BY <4>2, <6>1, <6>2 DEF Known
        <5> QED
          BY <5>1, <5>2
      <4> QED
        BY <4>1, <4>2, <4>3, <4>4, <4>5 DEF IsMerge
    <3> QED
      BY <3>1, <3>2
  <2> QED
    BY <2>2, <2>3, <2>4 DEF c
<1> HIDE DEF T
<1>3. Seq(S) \subseteq T
  BY <1>1, <1>2, AllSequences
<1> QED
  BY <1>3 DEF T

\* Additions may be merged in two parts.
LEMMA MergeConcat ==
  ASSUME NEW base, NEW S, NEW a \in Seq(S), NEW b \in Seq(S)
  PROVE  MergeNovel(base, a \o b) = MergeNovel(MergeNovel(base, a), b)
<1> DEFINE T == {c \in Seq(S) : MergeNovel(base, a \o c) = MergeNovel(MergeNovel(base, a), c)}
<1>1. <<>> \in T
  <2>1. a \o <<>> = a
    OBVIOUS
  <2> QED
    BY <2>1, MergeEmpty
<1>2. ASSUME NEW c \in Seq(S), NEW f \in S, c \in T
      PROVE  Append(c, f) \in T
  <2> DEFINE d == a \o c
  <2>1. d \in Seq(S) /\ a \o Append(c, f) = Append(d, f)
    OBVIOUS
  <2> HIDE DEF d
  <2>2. MergeNovel(base, a \o Append(c, f)) = Add(MergeNovel(base, d), f)
    BY <2>1, MergeAppend
  <2>3. MergeNovel(MergeNovel(base, a), Append(c, f)) = Add(MergeNovel(MergeNovel(base, a), c), f)
    BY MergeAppend
  <2> QED
    BY <1>2, <2>2, <2>3 DEF d
<1> HIDE DEF T
<1>3. Seq(S) \subseteq T
  BY <1>1, <1>2, AllSequences
<1> QED
  BY <1>3 DEF T

-----------------------------------------------------------------------------
(***************************************************************************)
(* Lists made of others.                                                   *)
(***************************************************************************)
\* <<>> \o s, which Each writes to have TLC compute s, is s.
LEMMA Listed ==
  ASSUME NEW n \in Nat, NEW S, NEW s, s = [i \in 1..n |-> s[i]], \A i \in 1..n : s[i] \in S
  PROVE  <<>> \o s = s /\ s \in Seq(S) /\ Len(s) = n /\ DOMAIN s = 1..n
<1>1. s \in [1..n -> S]
  OBVIOUS
<1>2. s \in Seq(S) /\ Len(s) = n
  BY <1>1
<1> QED
  BY <1>2

\* p has the number of those up to each in I, itself included, by an order.
Ranking(I, upTo, p) ==
  /\ IsFiniteSet(I) /\ upTo \in [I -> SUBSET I] /\ p \in [I -> Nat]
  /\ \A i \in I : i \in upTo[i] /\ p[i] = Cardinality(upTo[i])
  /\ \A i, j \in I : i # j => \/ upTo[i] \subseteq upTo[j] /\ j \notin upTo[i]
                              \/ upTo[j] \subseteq upTo[i] /\ i \notin upTo[j]

\* They are numbered from one to their number, in this order.
LEMMA Ranks ==
  ASSUME NEW I, NEW upTo, NEW p, Ranking(I, upTo, p)
  PROVE  /\ Cardinality(I) \in Nat
         /\ \A i \in I : p[i] \in 1..Cardinality(I)
         /\ \A i, j \in I : p[i] = p[j] => i = j
         /\ p \in Surjection(I, 1..Cardinality(I))
         /\ \A i, j \in I : p[i] < p[j] => upTo[i] \subseteq upTo[j]
<1> USE DEF Ranking
<1> DEFINE m == Cardinality(I)
<1>1. m \in Nat
  BY FS_CardinalityType
<1>2. ASSUME NEW i \in I PROVE IsFiniteSet(upTo[i]) /\ p[i] \in 1..m
  <2>1. upTo[i] \in SUBSET I /\ i \in upTo[i]
    OBVIOUS
  <2>2. IsFiniteSet(upTo[i]) /\ p[i] <= m
    BY <2>1, FS_Subset
  <2>3. p[i] \in Nat /\ p[i] # 0
    BY <2>1, <2>2, FS_CardinalityType, FS_EmptySet
  <2> QED
    BY <1>1, <2>2, <2>3
<1>3. ASSUME NEW i \in I, NEW j \in I, upTo[i] \subseteq upTo[j], j \notin upTo[i]
      PROVE  p[i] < p[j]
  <2>1. IsFiniteSet(upTo[j]) /\ upTo[i] \in SUBSET upTo[j]
    BY <1>2, <1>3
  <2>2. upTo[i] # upTo[j]
    BY <1>3
  <2>3. Cardinality(upTo[i]) <= Cardinality(upTo[j]) /\ Cardinality(upTo[i]) # Cardinality(upTo[j])
    BY <2>1, <2>2, FS_Subset
  <2> QED
    BY <2>3
<1>4. \A i, j \in I : p[i] = p[j] => i = j
  BY <1>3
<1>5. \A i, j \in I : p[i] < p[j] => upTo[i] \subseteq upTo[j]
  BY <1>3
<1>6. p \in Injection(I, 1..m)
  <2> HIDE DEF m
  <2>1. p \in [I -> 1..m]
    BY <1>2
  <2> QED
    BY <1>4, <2>1 DEF Injection, IsInjective
<1>7. p \in Surjection(I, 1..m)
  <2>1. IsFiniteSet(1..m) /\ Cardinality(1..m) = m
    BY <1>1, FS_Interval
  <2> QED
    BY <1>1, <1>6, <2>1, FS_Injection
<1> QED
  BY <1>1, <1>2, <1>4, <1>5, <1>7

\* The same of numbers, by their order.
LEMMA Places ==
  ASSUME NEW I \in SUBSET Nat, IsFiniteSet(I)
  PROVE  LET place(i) == Cardinality({k \in I : k <= i})
         IN /\ Cardinality(I) \in Nat
            /\ \A i \in I : place(i) \in 1..Cardinality(I)
            /\ \A i, j \in I : place(i) = place(j) => i = j
            /\ \A p \in 1..Cardinality(I) : \E i \in I : place(i) = p
<1> DEFINE upTo == [i \in I |-> {k \in I : k <= i}]
           p == [i \in I |-> Cardinality({k \in I : k <= i})]
<1>1. upTo \in [I -> SUBSET I] /\ \A i \in I : i \in upTo[i] /\ p[i] = Cardinality(upTo[i])
  OBVIOUS
<1>2. \A i, j \in I : i # j => \/ upTo[i] \subseteq upTo[j] /\ j \notin upTo[i]
                               \/ upTo[j] \subseteq upTo[i] /\ i \notin upTo[j]
  <2>1. \A i \in I : i \in Nat /\ upTo[i] = {k \in I : k <= i}
    OBVIOUS
  <2> HIDE DEF upTo
  <2>2. ASSUME NEW i \in I, NEW j \in I, i < j
        PROVE  upTo[i] \subseteq upTo[j] /\ j \notin upTo[i]
    BY <2>1, <2>2
  <2>3. \A i, j \in I : i < j \/ j < i \/ i = j
    <3>1. \A i \in I : i \in Nat
      OBVIOUS
    <3> HIDE DEF p
    <3> QED
      BY <3>1
  <2> QED
    BY <2>2, <2>3
<1>3. p \in [I -> Nat]
  <2>1. \A i \in I : IsFiniteSet(upTo[i])
    BY FS_Subset
  <2> QED
    BY <2>1, FS_CardinalityType
<1>4. \A i \in I : p[i] = Cardinality({k \in I : k <= i})
  OBVIOUS
<1> HIDE DEF upTo, p
<1>5. Ranking(I, upTo, p)
  BY <1>1, <1>2, <1>3 DEF Ranking
<1>6. Cardinality(I) \in Nat /\ \A i \in I : p[i] \in 1..Cardinality(I)
  BY <1>5, Ranks
<1>7. \A i, j \in I : p[i] = p[j] => i = j
  BY <1>5, Ranks
<1>8. \A q \in 1..Cardinality(I) : \E i \in I : p[i] = q
  <2>1. p \in Surjection(I, 1..Cardinality(I))
    BY <1>5, Ranks
  <2> QED
    BY <2>1 DEF Surjection
<1> QED
  BY <1>4, <1>6, <1>7, <1>8

\* Subsequence has the elements at its indices, and no others.
LEMMA SubsequenceElements ==
  ASSUME NEW s, NEW I \in SUBSET Nat, IsFiniteSet(I)
  PROVE  /\ Subsequence(s, I) \in Seq({s[i] : i \in I})
         /\ ToSet(Subsequence(s, I)) = {s[i] : i \in I}
         /\ (\A i, j \in I : s[i] = s[j] => i = j) =>
              LET r == Subsequence(s, I) IN \A i, j \in DOMAIN r : r[i] = r[j] => i = j
<1> DEFINE place(i) == Cardinality({k \in I : k <= i})
           m == Cardinality(I)
           at(j) == CHOOSE i \in I : place(i) = j
           r == [j \in 1..m |-> s[at(j)]]
<1>1. /\ m \in Nat
      /\ \A i \in I : place(i) \in 1..m
      /\ \A i, j \in I : place(i) = place(j) => i = j
      /\ \A p \in 1..m : \E i \in I : place(i) = p
  BY Places
<1>2. Subsequence(s, I) = r
  BY DEF Subsequence
<1> HIDE DEF place, m
<1>3. \A j \in 1..m : at(j) \in I /\ place(at(j)) = j
  BY <1>1
<1>4. \A i \in I : at(place(i)) = i
  BY <1>1, <1>3
<1> HIDE DEF at
<1>5. r \in Seq({s[i] : i \in I}) /\ DOMAIN r = 1..m
  <2>1. \A j \in 1..m : r[j] \in {s[i] : i \in I}
    BY <1>3
  <2> HIDE DEF r
  <2>2. r = [j \in 1..m |-> r[j]]
    BY DEF r
  <2> QED
    BY <1>1, <2>1, <2>2, Listed
<1>6. \A i \in I : place(i) \in DOMAIN r /\ r[place(i)] = s[i]
  BY <1>1, <1>4
<1>7. \A j \in DOMAIN r : \E i \in I : r[j] = s[i]
  BY <1>3
<1>8. ASSUME \A i, j \in I : s[i] = s[j] => i = j, NEW i \in DOMAIN r, NEW j \in DOMAIN r, r[i] = r[j]
      PROVE  i = j
  <2>1. \A k \in DOMAIN r : r[k] = s[at(k)] /\ at(k) \in I /\ place(at(k)) = k
    BY <1>3
  <2> HIDE DEF r
  <2>2. at(i) = at(j)
    BY <1>8, <2>1
  <2> QED
    BY <2>1, <2>2
<1> HIDE DEF r
<1> QED
  BY <1>2, <1>5, <1>6, <1>7, <1>8 DEF ToSet

\* Indices of a list are a finite set of numbers.
LEMMA Indices ==
  ASSUME NEW S, NEW s \in Seq(S), NEW I \in SUBSET DOMAIN s
  PROVE  I \in SUBSET Nat /\ IsFiniteSet(I)
<1>1. Len(s) \in Nat /\ DOMAIN s = 1..Len(s)
  OBVIOUS
<1>2. IsFiniteSet(1..Len(s))
  BY <1>1, FS_Interval
<1> QED
  BY <1>1, <1>2, FS_Subset

\* A list is over whatever set has its elements.
LEMMA ListIn ==
  ASSUME NEW S, NEW s \in Seq(S), NEW T, \A i \in DOMAIN s : s[i] \in T
  PROVE  s \in Seq(T)
<1>1. Len(s) \in Nat /\ s = [i \in 1..Len(s) |-> s[i]] /\ DOMAIN s = 1..Len(s)
  OBVIOUS
<1>2. \A i \in 1..Len(s) : s[i] \in T
  BY <1>1
<1> QED
  BY <1>1, <1>2, Listed

\* A list with each finding replaced, in the three ways it is used.
LEMMA SanitizedAllList ==
  ASSUME NEW S, NEW s \in Seq(S)
  PROVE  /\ SanitizedAll(s) \in Seq({Sanitized(s[i]) : i \in DOMAIN s})
         /\ DOMAIN SanitizedAll(s) = DOMAIN s
         /\ \A i \in DOMAIN s : SanitizedAll(s)[i] = Sanitized(s[i])
<1> DEFINE r == [i \in DOMAIN s |-> Sanitized(s[i])]
           T == {Sanitized(s[i]) : i \in DOMAIN s}
<1>1. Len(s) \in Nat /\ DOMAIN s = 1..Len(s)
  OBVIOUS
<1>2. r = [i \in 1..Len(s) |-> r[i]] /\ \A i \in 1..Len(s) : r[i] \in T
  BY <1>1
<1>3. \A i \in DOMAIN s : r[i] = Sanitized(s[i])
  OBVIOUS
<1>4. SanitizedAll(s) = <<>> \o r
  BY DEF SanitizedAll, Each
<1> HIDE DEF r, T
<1>5. <<>> \o r = r /\ r \in Seq(T) /\ DOMAIN r = 1..Len(s)
  BY <1>1, <1>2, Listed
<1> QED
  BY <1>1, <1>3, <1>4, <1>5 DEF T

\* Concerns become as many findings, in their order.
LEMMA FallbackFindingsList ==
  ASSUME NEW S, NEW s \in Seq(S)
  PROVE  /\ FallbackFindings(s) \in Seq({Sanitized(FallbackFinding(s[i])) : i \in DOMAIN s})
         /\ DOMAIN FallbackFindings(s) = DOMAIN s
         /\ \A i \in DOMAIN s : FallbackFindings(s)[i] = Sanitized(FallbackFinding(s[i]))
<1> DEFINE r == [i \in DOMAIN s |-> FallbackFinding(s[i])]
           T == {FallbackFinding(s[i]) : i \in DOMAIN s}
<1>1. Len(s) \in Nat /\ DOMAIN s = 1..Len(s)
  OBVIOUS
<1>2. r = [i \in 1..Len(s) |-> r[i]] /\ \A i \in 1..Len(s) : r[i] \in T
  BY <1>1
<1>3. \A i \in DOMAIN s : r[i] = FallbackFinding(s[i])
  OBVIOUS
<1>4. FallbackFindings(s) = SanitizedAll(<<>> \o r)
  BY DEF FallbackFindings, Each
<1> HIDE DEF r
<1>5. <<>> \o r = r /\ r \in Seq(T) /\ DOMAIN r = DOMAIN s
  <2> HIDE DEF T
  <2> QED
    BY <1>1, <1>2, Listed
<1>6. /\ SanitizedAll(r) \in Seq({Sanitized(r[i]) : i \in DOMAIN r})
      /\ DOMAIN SanitizedAll(r) = DOMAIN r
      /\ \A i \in DOMAIN r : SanitizedAll(r)[i] = Sanitized(r[i])
  BY <1>5, SanitizedAllList
<1>7. {Sanitized(r[i]) : i \in DOMAIN r} = {Sanitized(FallbackFinding(s[i])) : i \in DOMAIN s}
  BY <1>3, <1>5
<1> QED
  BY <1>3, <1>4, <1>5, <1>6, <1>7

\* Upstream fixes become findings after the others.
LEMMA UpstreamFixesList ==
  ASSUME NEW S, NEW s \in Seq(S), NEW T, NEW shas \in Seq(T)
  PROVE  /\ WithUpstreamFixes(s, shas) \in Seq(S \cup {UpstreamFixFinding(shas[i]) : i \in DOMAIN shas})
<1> DEFINE r == [i \in DOMAIN shas |-> UpstreamFixFinding(shas[i])]
           U == {UpstreamFixFinding(shas[i]) : i \in DOMAIN shas}
<1>1. Len(shas) \in Nat /\ DOMAIN shas = 1..Len(shas)
  OBVIOUS
<1>2. r = [i \in 1..Len(shas) |-> r[i]] /\ \A i \in 1..Len(shas) : r[i] \in U
  BY <1>1
<1>3. WithUpstreamFixes(s, shas) = s \o (<<>> \o r)
  BY DEF WithUpstreamFixes, Each
<1> HIDE DEF r, U
<1>4. <<>> \o r = r /\ r \in Seq(U)
  BY <1>1, <1>2, Listed
<1>5. s \in Seq(S \cup U) /\ r \in Seq(S \cup U)
  BY <1>4, ListIn
<1>6. s \o r \in Seq(S \cup U)
  BY <1>5
<1> QED
  BY <1>3, <1>4, <1>6 DEF U

\* Anchoring changes each finding and loses none.
LEMMA WithAnchorsList ==
  ASSUME NEW S, NEW s \in Seq(S)
  PROVE  /\ WithAnchors(s) \in Seq({Anchored(s[i], Anchors) : i \in DOMAIN s})
         /\ ToSet(WithAnchors(s)) = {Anchored(s[i], Anchors) : i \in DOMAIN s}
<1> DEFINE r == [i \in DOMAIN s |-> Anchored(s[i], Anchors)]
           T == {Anchored(s[i], Anchors) : i \in DOMAIN s}
<1>1. Len(s) \in Nat /\ DOMAIN s = 1..Len(s)
  OBVIOUS
<1>2. r = [i \in 1..Len(s) |-> r[i]] /\ \A i \in 1..Len(s) : r[i] \in T
  BY <1>1
<1>3. \A i \in DOMAIN s : r[i] = Anchored(s[i], Anchors)
  OBVIOUS
<1>4. WithAnchors(s) = <<>> \o r
  BY DEF WithAnchors, Each
<1> HIDE DEF r
<1>5. <<>> \o r = r /\ r \in Seq(T) /\ DOMAIN r = DOMAIN s
  <2> HIDE DEF T
  <2> QED
    BY <1>1, <1>2, Listed
<1> QED
  BY <1>3, <1>4, <1>5 DEF ToSet

\* Reattribution keeps the findings that can be attributed.
LEMMA ReattributedList ==
  ASSUME NEW S, NEW s \in Seq(S)
  PROVE  LET T == {Moved(s[i]) : i \in {k \in DOMAIN s : Attributable(s[k])}}
         IN Reattributed(s) \in Seq(T) /\ ToSet(Reattributed(s)) = T
<1> DEFINE I == {k \in DOMAIN s : Attributable(s[k])}
           T == {Moved(s[i]) : i \in I}
           U == {s[i] : i \in I}
           kept == Subsequence(s, I)
           r == [i \in DOMAIN kept |-> Moved(kept[i])]
<1>1. kept \in Seq(U) /\ ToSet(kept) = U
  <2>1. I \in SUBSET (DOMAIN s)
    OBVIOUS
  <2> HIDE DEF I
  <2> QED
    BY <2>1, Indices, SubsequenceElements
<1>2. Reattributed(s) = <<>> \o r
  BY DEF Reattributed, Each
<1> HIDE DEF kept, U, I
<1>3. Len(kept) \in Nat /\ DOMAIN kept = 1..Len(kept)
  BY <1>1
<1>4. \A i \in DOMAIN kept : kept[i] \in U
  BY <1>1
<1>5. \A i \in DOMAIN kept : r[i] \in T
  BY <1>4 DEF U
<1>6. r = [i \in 1..Len(kept) |-> r[i]] /\ \A i \in 1..Len(kept) : r[i] \in T
  BY <1>3, <1>5
<1>7. <<>> \o r = r /\ r \in Seq(T) /\ DOMAIN r = DOMAIN kept
  <2> HIDE DEF T, r
  <2> QED
    BY <1>3, <1>6, Listed
<1>8. \A f \in T : \E i \in DOMAIN r : r[i] = f
  <2> SUFFICES ASSUME NEW k \in I PROVE \E i \in DOMAIN r : r[i] = Moved(s[k])
    OBVIOUS
  <2>1. PICK i \in DOMAIN kept : kept[i] = s[k]
    BY <1>1 DEF U, ToSet
  <2> QED
    BY <2>1, <1>7
<1>9. ToSet(r) = T
  BY ZenonT(40), <1>5, <1>7, <1>8 DEF ToSet
<1> HIDE DEF r
<1> QED
  BY <1>2, <1>7, <1>9 DEF I

\* Dropping the location outside the changed files loses no finding.
LEMMA ChangedFilesList ==
  ASSUME NEW S, NEW s \in Seq(S)
  PROVE  /\ Each(s, WithChangedFile) \in Seq({WithChangedFile(s[i]) : i \in DOMAIN s})
         /\ ToSet(Each(s, WithChangedFile)) = {WithChangedFile(s[i]) : i \in DOMAIN s}
<1> DEFINE r == [i \in DOMAIN s |-> WithChangedFile(s[i])]
           T == {WithChangedFile(s[i]) : i \in DOMAIN s}
<1>1. Len(s) \in Nat /\ DOMAIN s = 1..Len(s)
  OBVIOUS
<1>2. r = [i \in 1..Len(s) |-> r[i]] /\ \A i \in 1..Len(s) : r[i] \in T
  BY <1>1
<1>3. \A i \in DOMAIN s : r[i] = WithChangedFile(s[i])
  OBVIOUS
<1>4. Each(s, WithChangedFile) = <<>> \o r
  BY DEF Each
<1> HIDE DEF r
<1>5. <<>> \o r = r /\ r \in Seq(T) /\ DOMAIN r = DOMAIN s
  <2> HIDE DEF T
  <2> QED
    BY <1>1, <1>2, Listed
<1> QED
  BY <1>3, <1>4, <1>5 DEF ToSet

\* What the repair of anchors leaves of a finding.
Checked(f) == Anchored(WithChangedFile(f), Anchors)

Left(f) == IF Attributable(Checked(f)) THEN {Anchored(Moved(Checked(f)), Anchors)} ELSE {}

\* It leaves of a list what it leaves of each finding in it.
LEMMA CleanedElements ==
  ASSUME NEW S, NEW s \in Seq(S)
  PROVE  ToSet(Cleaned(s)) = UNION {Left(s[i]) : i \in DOMAIN s}
<1> DEFINE a == Each(s, WithChangedFile)
           A == {WithChangedFile(s[i]) : i \in DOMAIN s}
           b == WithAnchors(a)
           B == {Checked(s[i]) : i \in DOMAIN s}
           c == Reattributed(b)
           C == {Moved(f) : f \in {g \in B : Attributable(g)}}
<1>1. a \in Seq(A) /\ ToSet(a) = A
  BY ChangedFilesList
<1>2. ToSet(b) = B /\ b \in Seq(B)
  <2> HIDE DEF a
  <2>1. b \in Seq({Anchored(a[i], Anchors) : i \in DOMAIN a}) /\ ToSet(b) = {Anchored(a[i], Anchors) : i \in DOMAIN a}
    BY <1>1, WithAnchorsList
  <2>2. {Anchored(a[i], Anchors) : i \in DOMAIN a} = {Anchored(f, Anchors) : f \in A}
    BY <1>1 DEF ToSet
  <2>3. {Anchored(f, Anchors) : f \in A} = B
    BY DEF Checked
  <2> QED
    BY <2>1, <2>2, <2>3
<1>3. ToSet(c) = C /\ c \in Seq(C)
  <2> HIDE DEF b, B
  <2> DEFINE T == {Moved(b[i]) : i \in {k \in DOMAIN b : Attributable(b[k])}}
  <2>1. c \in Seq(T) /\ ToSet(c) = T
    BY <1>2, ReattributedList
  <2>2. T = C
    BY <1>2 DEF ToSet
  <2> QED
    BY <2>1, <2>2
<1>4. ToSet(WithAnchors(c)) = {Anchored(f, Anchors) : f \in C}
  <2> HIDE DEF c, C
  <2>1. ToSet(WithAnchors(c)) = {Anchored(c[i], Anchors) : i \in DOMAIN c}
    BY <1>3, WithAnchorsList
  <2>2. {Anchored(c[i], Anchors) : i \in DOMAIN c} = {Anchored(f, Anchors) : f \in C}
    BY <1>3 DEF ToSet
  <2> QED
    BY <2>1, <2>2
<1>5. Cleaned(s) = WithAnchors(c)
  BY DEF Cleaned
<1>6. {Anchored(f, Anchors) : f \in C} = UNION {Left(s[i]) : i \in DOMAIN s}
  BY DEF Left
<1> QED
  BY <1>4, <1>5, <1>6

\* What is left of a finding that is cleaned alone is left of it in its list.
LEMMA CleanedEach ==
  ASSUME NEW S, NEW s \in Seq(S), NEW i \in DOMAIN s
  PROVE  ToSet(Cleaned(<<s[i]>>)) \subseteq ToSet(Cleaned(s))
<1> DEFINE f == s[i]
           one == <<f>>
<1>1. f \in S
  OBVIOUS
<1> HIDE DEF f
<1>2. one \in Seq(S) /\ DOMAIN one = {1} /\ one[1] = f
  BY <1>1
<1> HIDE DEF one
<1>3. ToSet(Cleaned(one)) = UNION {Left(one[k]) : k \in DOMAIN one}
  BY <1>2, CleanedElements
<1>4. ToSet(Cleaned(one)) = Left(f)
  BY <1>2, <1>3
<1>5. ToSet(Cleaned(s)) = UNION {Left(s[k]) : k \in DOMAIN s}
  BY CleanedElements
<1>6. Left(f) \subseteq UNION {Left(s[k]) : k \in DOMAIN s}
  BY DEF f
<1> QED
  BY <1>4, <1>5, <1>6 DEF one, f

\* What is cleaned is a list.
LEMMA CleanedIsList ==
  ASSUME NEW S, NEW s \in Seq(S)
  PROVE  \E T : Cleaned(s) \in Seq(T)
<1> DEFINE a == Each(s, WithChangedFile)
           b == WithAnchors(a)
           c == Reattributed(b)
<1>1. \E T : a \in Seq(T)
  BY ChangedFilesList
<1>2. \E T : b \in Seq(T)
  <2>1. PICK T : a \in Seq(T)
    BY <1>1
  <2> HIDE DEF a
  <2> QED
    BY <2>1, WithAnchorsList
<1>3. \E T : c \in Seq(T)
  <2>1. PICK T : b \in Seq(T)
    BY <1>2
  <2> HIDE DEF b
  <2> QED
    BY <2>1, ReattributedList
<1>4. PICK T : c \in Seq(T)
  BY <1>3
<1> HIDE DEF c
<1>5. WithAnchors(c) \in Seq({Anchored(c[i], Anchors) : i \in DOMAIN c})
  BY <1>4, WithAnchorsList
<1> QED
  BY <1>5 DEF Cleaned, a, b, c

-----------------------------------------------------------------------------
(***************************************************************************)
(* Merges, in the terms of the properties.                                 *)
(***************************************************************************)
LEMMA PrefixItself ==
  ASSUME NEW S, NEW s \in Seq(S)
  PROVE  IsPrefix(s, s)
BY DEF IsPrefix

\* A merge begins with the list that is merged into.
LEMMA MergePrefix ==
  ASSUME NEW S, NEW base \in Seq(S), NEW a \in Seq(S)
  PROVE  IsPrefix(base, MergeNovel(base, a))
<1> DEFINE m == MergeNovel(base, a)
<1>1. m \in Seq(S) /\ Len(base) <= Len(m) /\ \A i \in 1..Len(base) : m[i] = base[i]
  BY MergeIsMerge DEF IsMerge
<1> HIDE DEF m
<1>2. SubSeq(m, 1, Len(base)) = SubSeq(base, 1, Len(base))
  BY <1>1
<1> QED
  BY <1>1, <1>2 DEF IsPrefix, m

\* What is merged of more additions begins with what is merged of the first.
LEMMA MergeGrows ==
  ASSUME NEW S, NEW base \in Seq(S), NEW a \in Seq(S), NEW b \in Seq(S)
  PROVE  IsPrefix(MergeNovel(base, a), MergeNovel(base, a \o b))
<1> DEFINE m == MergeNovel(base, a)
<1>1. m \in Seq(S)
  BY MergeIsMerge
<1>2. MergeNovel(base, a \o b) = MergeNovel(m, b)
  BY MergeConcat
<1> HIDE DEF m
<1>3. IsPrefix(m, MergeNovel(m, b))
  BY <1>1, MergePrefix
<1> QED
  BY <1>2, <1>3 DEF m

\* What is merged is of the base or an addition.
LEMMA MergeElements ==
  ASSUME NEW S, NEW base \in Seq(S), NEW a \in Seq(S)
  PROVE  LET m == MergeNovel(base, a)
         IN \A j \in DOMAIN m : (\E i \in DOMAIN base : m[j] = base[i]) \/ \E i \in DOMAIN a : m[j] = a[i]
<1> DEFINE m == MergeNovel(base, a)
<1>1. m \in Seq(S) /\ IsMerge(m, base, a)
  BY MergeIsMerge
<1> HIDE DEF m
<1>2. DOMAIN m = 1..Len(m) /\ DOMAIN base = 1..Len(base) /\ Len(m) \in Nat /\ Len(base) \in Nat
  BY <1>1
<1>3. ASSUME NEW j \in DOMAIN m
      PROVE  (\E i \in DOMAIN base : m[j] = base[i]) \/ \E i \in DOMAIN a : m[j] = a[i]
  <2>1. j \in 1..Len(base) \/ j \in (Len(base) + 1)..Len(m)
    BY <1>2
  <2> QED
    BY <1>1, <1>2, <2>1 DEF IsMerge
<1> QED
  BY <1>3 DEF m

\* The same of any two lists: a merge has all of the base.
LEMMA MergeKeepsBase ==
  ASSUME NEW S, NEW base \in Seq(S), NEW T, NEW a \in Seq(T)
  PROVE  ToSet(base) \subseteq ToSet(MergeNovel(base, a))
<1> DEFINE m == MergeNovel(base, a)
<1>1. base \in Seq(S \cup T) /\ a \in Seq(S \cup T)
  BY ListIn
<1>2. m \in Seq(S \cup T) /\ IsMerge(m, base, a)
  BY <1>1, MergeIsMerge
<1> HIDE DEF m
<1>3. /\ DOMAIN base = 1..Len(base) /\ DOMAIN m = 1..Len(m)
      /\ Len(base) \in Nat /\ Len(m) \in Nat /\ Len(base) <= Len(m)
  BY <1>2 DEF IsMerge
<1>4. ASSUME NEW i \in DOMAIN base PROVE i \in DOMAIN m /\ m[i] = base[i]
  BY <1>2, <1>3 DEF IsMerge
<1> QED
  BY <1>4 DEF ToSet, m

\* Nothing that is added repeats what stands before it.
LEMMA MergeRepeatsNothing ==
  ASSUME NEW S, NEW base \in Seq(S), NEW a \in Seq(S)
  PROVE  LET m == MergeNovel(base, a)
         IN \A j \in (Len(base) + 1)..Len(m) : ~Known(SubSeq(m, 1, j - 1), m[j])
<1> DEFINE m == MergeNovel(base, a)
<1>1. m \in Seq(S) /\ IsMerge(m, base, a)
  BY MergeIsMerge
<1> HIDE DEF m
<1>2. ASSUME NEW j \in (Len(base) + 1)..Len(m)
      PROVE  ~Known(SubSeq(m, 1, j - 1), m[j])
  <2> DEFINE t == SubSeq(m, 1, j - 1)
  <2>1. j - 1 \in Nat /\ j - 1 <= Len(m)
    BY <1>1
  <2>2. DOMAIN t = 1..(j - 1) /\ \A i \in 1..(j - 1) : t[i] = m[i]
    BY <1>1, <2>1
  <2>3. \A i \in 1..(j - 1) : ~SameIdentity(m[i], m[j])
    BY <1>1 DEF IsMerge
  <2> HIDE DEF t
  <2>4. ~Known(t, m[j])
    BY <2>2, <2>3 DEF Known
  <2> QED
    BY <2>4 DEF t
<1> QED
  BY <1>2 DEF m
=============================================================================
