--------------------------- MODULE PerfLog_proofs ---------------------------
(***************************************************************************)
(* Theorems about PerfLog for any bucket starts, record lengths and limits *)
(* and any number of records and faults.                                   *)
(***************************************************************************)
EXTENDS PerfLog, FiniteSetTheorems, SequenceTheorems, WellFoundedInduction, TLAPS

-----------------------------------------------------------------------------
(* Sums.  The fold of the library is a recursive function on the subsets of  *)
(* a set: it exists, by the number of elements, and a sum does not depend on *)
(* the order in which its terms are taken.                                   *)

LEMMA LeastExists ==
  ASSUME NEW S \in SUBSET Nat, S # {}
  PROVE  \E i \in S : \A k \in S : i <= k
<1> DEFINE R == OpToRel(<, Nat)
<1>1. PICK i \in S : \A k \in S : <<k, i>> \notin R
  BY NatLessThanWellFounded, WFMin, Zenon DEF R
<1>2. ASSUME NEW k \in S PROVE i <= k
  <2>1. ~(k < i) BY <1>1, Zenon DEF R, OpToRel
  <2> QED BY <2>1, SMT
<1> QED BY <1>2

\* Induction, on a set of numbers.
LEMMA AllNumbers ==
  ASSUME NEW S, 0 \in S, \A n \in Nat : n \in S => n + 1 \in S
  PROVE  Nat \subseteq S
<1> SUFFICES ASSUME Nat \ S # {} PROVE FALSE OBVIOUS
<1> DEFINE T == Nat \ S
<1>1. PICK i \in T : \A k \in T : i <= k BY LeastExists
<1>2. i \in Nat /\ i # 0 BY <1>1
<1>3. i - 1 \in Nat /\ i = (i - 1) + 1 /\ ~(i <= i - 1) BY <1>2, SMT
<1>4. i - 1 \in S BY <1>1, <1>3
<1> QED BY <1>1, <1>3, <1>4

Some(s) == CHOOSE x \in s : TRUE
Added(f, g, s) == IF s = {} THEN 0 ELSE f[Some(s)] + g[s \ {Some(s)}]
Adding(f, S) == CHOOSE g : g = [s \in SUBSET S |-> Added(f, g, s)]

LEMMA SumIsAdding == \A f, S : SumFunctionOnSet(f, S) = Adding(f, S)[S]
BY DEF SumFunctionOnSet, FoldFunctionOnSet, MapThenFoldSet, Adding, Added, Some

LEMMA Smaller ==
  ASSUME NEW s, IsFiniteSet(s), s # {}, NEW n \in Nat, Cardinality(s) <= n + 1
  PROVE  /\ Some(s) \in s /\ IsFiniteSet(s \ {Some(s)}) /\ Cardinality(s \ {Some(s)}) <= n
<1>1. Some(s) \in s BY DEF Some
<1>2. Cardinality(s) \in Nat BY FS_CardinalityType
<1>3. IsFiniteSet(s \ {Some(s)}) /\ Cardinality(s \ {Some(s)}) = Cardinality(s) - 1
  BY <1>1, FS_RemoveElement
<1> QED BY <1>1, <1>2, <1>3, SMT

LEMMA AddingExists ==
  ASSUME NEW f, NEW S, IsFiniteSet(S)
  PROVE  Adding(f, S) = [s \in SUBSET S |-> Added(f, Adding(f, S), s)]
<1> DEFINE Upto(n) == {s \in SUBSET S : Cardinality(s) <= n}
           Good == {n \in Nat : \E g : \A s \in Upto(n) : g[s] = Added(f, g, s)}
<1>0. \A s \in SUBSET S : IsFiniteSet(s) /\ Cardinality(s) \in Nat
  BY FS_Subset, FS_CardinalityType
<1>1. 0 \in Good
  <2> DEFINE g == [s \in SUBSET S |-> 0]
  <2>1. ASSUME NEW s \in Upto(0) PROVE g[s] = Added(f, g, s)
    <3>1. Cardinality(s) = 0 BY <1>0, <2>1, SMT
    <3>2. s = {} BY <1>0, <2>1, <3>1, FS_EmptySet
    <3> QED BY <3>2 DEF Added
  <2> HIDE DEF g
  <2> QED BY <2>1
<1>2. ASSUME NEW n \in Nat, n \in Good PROVE n + 1 \in Good
  <2>1. PICK g : \A s \in Upto(n) : g[s] = Added(f, g, s) BY <1>2
  <2> DEFINE h == [s \in SUBSET S |-> Added(f, g, s)]
  <2>2. \A s \in Upto(n) : h[s] = g[s] BY <2>1
  <2>3. ASSUME NEW s \in Upto(n + 1) PROVE h[s] = Added(f, h, s)
    <3>1. CASE s = {} BY <3>1 DEF Added
    <3>2. CASE s # {}
      <4>1. IsFiniteSet(s) /\ Cardinality(s) <= n + 1 /\ s \in SUBSET S BY <1>0, <2>3
      <4>2. Cardinality(s \ {Some(s)}) <= n BY <3>2, <4>1, Smaller
      <4>3. s \ {Some(s)} \in Upto(n) BY <4>1, <4>2
      <4>4. h[s \ {Some(s)}] = g[s \ {Some(s)}] BY <2>2, <4>3
      <4>5. h[s] = Added(f, g, s) BY <4>1
      <4> HIDE DEF h
      <4> QED BY <3>2, <4>4, <4>5 DEF Added
    <3> QED BY <3>1, <3>2
  <2> HIDE DEF h
  <2> QED BY <2>3
<1>3. Nat \subseteq Good
  <2> HIDE DEF Good
  <2> QED BY <1>1, <1>2, AllNumbers
<1>4. Cardinality(S) \in Nat BY FS_CardinalityType
<1>5. \A s \in SUBSET S : s \in Upto(Cardinality(S)) BY FS_Subset
<1>6. PICK g : \A s \in SUBSET S : g[s] = Added(f, g, s)
  <2>1. Cardinality(S) \in Good BY <1>3, <1>4
  <2> QED BY <1>5, <2>1
<1> DEFINE h == [s \in SUBSET S |-> g[s]]
<1>7. ASSUME NEW s \in SUBSET S PROVE h[s] = Added(f, h, s)
  <2>1. h[s] = g[s] /\ h[s \ {Some(s)}] = g[s \ {Some(s)}] OBVIOUS
  <2>2. g[s] = Added(f, g, s) BY <1>6
  <2> HIDE DEF h
  <2> QED BY <2>1, <2>2 DEF Added
<1>8. h = [s \in SUBSET S |-> Added(f, h, s)]
  <2>1. h = [s \in SUBSET S |-> h[s]] OBVIOUS
  <2> HIDE DEF h
  <2> QED BY <1>7, <2>1
<1> HIDE DEF h
<1> QED BY <1>8 DEF Adding

LEMMA SumEmpty == \A f : SumFunctionOnSet(f, {}) = 0
<1> SUFFICES ASSUME NEW f PROVE SumFunctionOnSet(f, {}) = 0 OBVIOUS
<1> DEFINE E == {}
           g == Adding(f, E)
<1>1. IsFiniteSet(E) /\ E \in SUBSET E BY FS_EmptySet
<1>2. SumFunctionOnSet(f, E) = g[E] BY SumIsAdding
<1> HIDE DEF E
<1>3. g = [s \in SUBSET E |-> Added(f, g, s)] BY <1>1, AddingExists, ZenonT(30)
<1> HIDE DEF g
<1>4. g[E] = Added(f, g, E) BY <1>1, <1>3, Zenon
<1> QED BY <1>2, <1>4 DEF Added, E

\* A sum is that of all terms but one, and that one.
LEMMA SumSome ==
  ASSUME NEW f, NEW S, IsFiniteSet(S), S # {}
  PROVE  SumFunctionOnSet(f, S) = f[Some(S)] + SumFunctionOnSet(f, S \ {Some(S)})
<1> DEFINE T == S \ {Some(S)}
           g == Adding(f, S)
           h == Adding(f, T)
<1>1. IsFiniteSet(T) /\ T \in SUBSET S BY FS_Subset
<1>2. \A s \in SUBSET S : g[s] = Added(f, g, s)
  <2>1. g = [s \in SUBSET S |-> Added(f, g, s)] BY AddingExists, ZenonT(30)
  <2> HIDE DEF g
  <2> QED BY <2>1, Zenon
<1>3. \A s \in SUBSET T : h[s] = Added(f, h, s)
  <2>1. h = [s \in SUBSET T |-> Added(f, h, s)] BY <1>1, AddingExists, ZenonT(30)
  <2> HIDE DEF h, T
  <2> QED BY <2>1, Zenon
<1>4. SumFunctionOnSet(f, S) = g[S] /\ SumFunctionOnSet(f, T) = h[T] BY SumIsAdding
<1>5. g[S] = f[Some(S)] + g[T]
  <2>1. g[S] = Added(f, g, S) BY <1>2
  <2> HIDE DEF g
  <2> QED BY <2>1 DEF Added
<1> HIDE DEF g, h, T
<1> DEFINE Good == {n \in Nat : \A s \in SUBSET T : Cardinality(s) <= n => g[s] = h[s]}
<1>6. \A s \in SUBSET T : IsFiniteSet(s) /\ Cardinality(s) \in Nat /\ s \in SUBSET S
  BY <1>1, FS_Subset, FS_CardinalityType
<1>7. 0 \in Good
  <2>1. ASSUME NEW s \in SUBSET T, Cardinality(s) <= 0 PROVE g[s] = h[s]
    <3>1. Cardinality(s) = 0 BY <1>6, <2>1, SMT
    <3>2. s = {} BY <1>6, <3>1, FS_EmptySet
    <3> QED BY <1>2, <1>3, <1>6, <3>2 DEF Added
  <2> QED BY <2>1
<1>8. ASSUME NEW n \in Nat, n \in Good PROVE n + 1 \in Good
  <2>1. ASSUME NEW s \in SUBSET T, Cardinality(s) <= n + 1 PROVE g[s] = h[s]
    <3>1. CASE s = {} BY <1>2, <1>3, <1>6, <3>1 DEF Added
    <3>2. CASE s # {}
      <4>1. IsFiniteSet(s) BY <1>6
      <4>2. Cardinality(s \ {Some(s)}) <= n BY <2>1, <3>2, <4>1, Smaller
      <4>3. g[s \ {Some(s)}] = h[s \ {Some(s)}] BY <1>8, <4>2
      <4> QED BY <1>2, <1>3, <1>6, <3>2, <4>3 DEF Added
    <3> QED BY <3>1, <3>2
  <2> QED BY <2>1
<1>9. Nat \subseteq Good
  <2> HIDE DEF Good
  <2> QED BY <1>7, <1>8, AllNumbers
<1>10. g[T] = h[T]
  <2>1. Cardinality(T) \in Nat BY <1>1, FS_CardinalityType
  <2>2. Cardinality(T) \in Good BY <1>9, <2>1
  <2> QED BY <2>1, <2>2, SMT
<1> QED BY <1>4, <1>5, <1>10 DEF T

Terms(f, S) == \A x \in S : f[x] \in Nat

LEMMA SumNat ==
  ASSUME NEW f, NEW S, IsFiniteSet(S), Terms(f, S)
  PROVE  SumFunctionOnSet(f, S) \in Nat
<1> DEFINE Good == {n \in Nat : \A s \in SUBSET S : Cardinality(s) <= n => SumFunctionOnSet(f, s) \in Nat}
<1>0. \A s \in SUBSET S : IsFiniteSet(s) /\ Cardinality(s) \in Nat
  BY FS_Subset, FS_CardinalityType
<1>1. 0 \in Good
  <2>1. ASSUME NEW s \in SUBSET S, Cardinality(s) <= 0 PROVE SumFunctionOnSet(f, s) \in Nat
    <3>1. Cardinality(s) = 0 BY <1>0, <2>1, SMT
    <3>2. s = {} BY <1>0, <3>1, FS_EmptySet
    <3> QED BY <3>2, SumEmpty
  <2> QED BY <2>1
<1>2. ASSUME NEW n \in Nat, n \in Good PROVE n + 1 \in Good
  <2>1. ASSUME NEW s \in SUBSET S, Cardinality(s) <= n + 1 PROVE SumFunctionOnSet(f, s) \in Nat
    <3>1. CASE s = {} BY <3>1, SumEmpty
    <3>2. CASE s # {}
      <4>1. IsFiniteSet(s) BY <1>0
      <4>2. Cardinality(s \ {Some(s)}) <= n /\ Some(s) \in s BY <2>1, <3>2, <4>1, Smaller
      <4>3. SumFunctionOnSet(f, s \ {Some(s)}) \in Nat BY <1>2, <4>2
      <4>4. f[Some(s)] \in Nat BY <4>2 DEF Terms
      <4>5. SumFunctionOnSet(f, s) = f[Some(s)] + SumFunctionOnSet(f, s \ {Some(s)})
        BY <3>2, <4>1, SumSome
      <4> QED BY <4>3, <4>4, <4>5, SMT
    <3> QED BY <3>1, <3>2
  <2> QED BY <2>1
<1>3. Nat \subseteq Good
  <2> HIDE DEF Good
  <2> QED BY <1>1, <1>2, AllNumbers
<1>4. Cardinality(S) \in Nat BY FS_CardinalityType
<1>5. Cardinality(S) \in Good BY <1>3, <1>4
<1> QED BY <1>4, <1>5, SMT

\* Any term can be taken first.
LEMMA SumRemove ==
  ASSUME NEW f, NEW S, IsFiniteSet(S), Terms(f, S), NEW x \in S
  PROVE  SumFunctionOnSet(f, S) = f[x] + SumFunctionOnSet(f, S \ {x})
<1> DEFINE Good == {n \in Nat : \A s \in SUBSET S : Cardinality(s) <= n =>
                      \A y \in s : SumFunctionOnSet(f, s) = f[y] + SumFunctionOnSet(f, s \ {y})}
<1>0. \A s \in SUBSET S : IsFiniteSet(s) /\ Cardinality(s) \in Nat
  BY FS_Subset, FS_CardinalityType
<1>S. ASSUME NEW s \in SUBSET S PROVE SumFunctionOnSet(f, s) \in Nat
  <2>1. Terms(f, s) BY DEF Terms
  <2> QED BY <1>0, <2>1, SumNat
<1>1. 0 \in Good
  <2>1. ASSUME NEW s \in SUBSET S, Cardinality(s) <= 0 PROVE s = {}
    <3>1. Cardinality(s) = 0 BY <1>0, <2>1, SMT
    <3> QED BY <1>0, <3>1, FS_EmptySet
  <2> QED BY <2>1
<1>2. ASSUME NEW n \in Nat, n \in Good PROVE n + 1 \in Good
  <2>1. ASSUME NEW s \in SUBSET S, Cardinality(s) <= n + 1, NEW y \in s
        PROVE  SumFunctionOnSet(f, s) = f[y] + SumFunctionOnSet(f, s \ {y})
    <3> DEFINE c == Some(s)
    <3>1. IsFiniteSet(s) BY <1>0
    <3>2. Cardinality(s \ {c}) <= n /\ c \in s BY <2>1, <3>1, Smaller
    <3>3. SumFunctionOnSet(f, s) = f[c] + SumFunctionOnSet(f, s \ {c}) BY <3>1, SumSome
    <3> HIDE DEF c
    <3>4. CASE c = y BY <3>3, <3>4
    <3>5. CASE c # y
      <4>1. SumFunctionOnSet(f, s \ {c}) = f[y] + SumFunctionOnSet(f, (s \ {c}) \ {y})
        BY <1>2, <3>2, <3>5
      <4>2. Cardinality(s \ {y}) <= n
        <5>1. Cardinality(s) \in Nat /\ Cardinality(s \ {y}) = Cardinality(s) - 1
          BY <1>0, <3>1, FS_RemoveElement
        <5> QED BY <2>1, <5>1, SMT
      <4>3. SumFunctionOnSet(f, s \ {y}) = f[c] + SumFunctionOnSet(f, (s \ {y}) \ {c})
        BY <1>2, <3>2, <3>5, <4>2
      <4>4. (s \ {c}) \ {y} = (s \ {y}) \ {c} OBVIOUS
      <4>5. SumFunctionOnSet(f, (s \ {y}) \ {c}) \in Nat BY <1>S
      <4>6. f[c] \in Nat /\ f[y] \in Nat BY <3>2 DEF Terms
      <4> DEFINE rest == SumFunctionOnSet(f, (s \ {y}) \ {c})
      <4>7. /\ SumFunctionOnSet(f, s) = f[c] + (f[y] + rest)
            /\ SumFunctionOnSet(f, s \ {y}) = f[c] + rest /\ rest \in Nat
        BY <3>3, <4>1, <4>3, <4>4, <4>5
      <4> HIDE DEF rest
      <4> QED BY <4>6, <4>7, SMT
    <3> QED BY <3>4, <3>5
  <2> QED BY <2>1
<1>3. Nat \subseteq Good
  <2> HIDE DEF Good
  <2> QED BY <1>1, <1>2, AllNumbers
<1>4. Cardinality(S) \in Nat BY FS_CardinalityType
<1>5. Cardinality(S) \in Good BY <1>3, <1>4
<1> QED BY <1>4, <1>5, SMT

\* A sum of fewer and smaller terms is smaller.
LEMMA SumLess ==
  ASSUME NEW f, NEW g, NEW S, IsFiniteSet(S), Terms(f, S), NEW T \in SUBSET S, Terms(g, T),
         \A x \in T : g[x] <= f[x]
  PROVE  SumFunctionOnSet(g, T) <= SumFunctionOnSet(f, S)
<1> DEFINE Good == {n \in Nat : \A s \in SUBSET S : Cardinality(s) <= n =>
                      SumFunctionOnSet(g, s \cap T) <= SumFunctionOnSet(f, s)}
<1>0. \A s \in SUBSET S : IsFiniteSet(s) /\ Cardinality(s) \in Nat
  BY FS_Subset, FS_CardinalityType
<1>F. ASSUME NEW s \in SUBSET S PROVE SumFunctionOnSet(f, s) \in Nat
  <2>1. Terms(f, s) BY DEF Terms
  <2> QED BY <1>0, <2>1, SumNat
<1>G. ASSUME NEW s \in SUBSET T
      PROVE  IsFiniteSet(s) /\ Terms(g, s) /\ SumFunctionOnSet(g, s) \in Nat
  <2>1. Terms(g, s) BY DEF Terms
  <2> QED BY <1>0, <2>1, SumNat
<1>1. 0 \in Good
  <2>1. ASSUME NEW s \in SUBSET S, Cardinality(s) <= 0
        PROVE  SumFunctionOnSet(g, s \cap T) <= SumFunctionOnSet(f, s)
    <3>1. Cardinality(s) = 0 BY <1>0, <2>1, SMT
    <3>2. s = {} /\ s \cap T = {} BY <1>0, <3>1, FS_EmptySet
    <3>3. SumFunctionOnSet(g, s \cap T) = 0 /\ SumFunctionOnSet(f, s) = 0
      BY <3>2, SumEmpty, Zenon
    <3> QED BY <3>3, SMT
  <2> QED BY <2>1
<1>2. ASSUME NEW n \in Nat, n \in Good PROVE n + 1 \in Good
  <2>1. ASSUME NEW s \in SUBSET S, Cardinality(s) <= n + 1
        PROVE  SumFunctionOnSet(g, s \cap T) <= SumFunctionOnSet(f, s)
    <3>1. CASE s = {}
      <4>1. s \cap T = {} BY <3>1
      <4>2. SumFunctionOnSet(g, s \cap T) = 0 /\ SumFunctionOnSet(f, s) = 0
        BY <3>1, <4>1, SumEmpty, Zenon
      <4> QED BY <4>2, SMT
    <3>2. CASE s # {}
      <4> DEFINE c == Some(s)
                 less == s \ {c}
      <4>1. IsFiniteSet(s) BY <1>0
      <4>2. Cardinality(less) <= n /\ c \in s BY <2>1, <3>2, <4>1, Smaller
      <4>3. SumFunctionOnSet(f, s) = f[c] + SumFunctionOnSet(f, less) BY <3>2, <4>1, SumSome
      <4>4. SumFunctionOnSet(g, less \cap T) <= SumFunctionOnSet(f, less) BY <1>2, <4>2
      <4>5. SumFunctionOnSet(f, less) \in Nat /\ SumFunctionOnSet(g, less \cap T) \in Nat
        BY <1>F, <1>G
      <4>6. f[c] \in Nat BY <4>2 DEF Terms
      <4>7. CASE c \notin T
        <5>1. s \cap T = less \cap T BY <4>7
        <5>2. SumFunctionOnSet(g, s \cap T) = SumFunctionOnSet(g, less \cap T) BY <5>1, Zenon
        <5> HIDE DEF less, c
        <5> QED BY <4>3, <4>4, <4>5, <4>6, <5>2, SMT
      <4>8. CASE c \in T
        <5>1. /\ c \in s \cap T /\ (s \cap T) \ {c} = less \cap T BY <4>2, <4>8
        <5>2. SumFunctionOnSet(g, s \cap T) = g[c] + SumFunctionOnSet(g, (s \cap T) \ {c})
          <6>1. IsFiniteSet(s \cap T) /\ Terms(g, s \cap T) BY <1>G
          <6> HIDE DEF c
          <6> QED BY <5>1, <6>1, SumRemove
        <5>3. g[c] <= f[c] /\ g[c] \in Nat BY <4>8 DEF Terms
        <5>4. SumFunctionOnSet(g, s \cap T) = g[c] + SumFunctionOnSet(g, less \cap T)
          BY <5>1, <5>2
        <5> HIDE DEF less, c
        <5> QED BY <4>3, <4>4, <4>5, <4>6, <5>3, <5>4, SMT
      <4> QED BY <4>7, <4>8
    <3> QED BY <3>1, <3>2
  <2> QED BY <2>1
<1>3. Nat \subseteq Good
  <2> HIDE DEF Good
  <2> QED BY <1>1, <1>2, AllNumbers
<1>4. Cardinality(S) \in Nat BY FS_CardinalityType
<1>5. Cardinality(S) \in Good BY <1>3, <1>4
<1>6. SumFunctionOnSet(g, S \cap T) <= SumFunctionOnSet(f, S) BY <1>4, <1>5, SMT
<1>7. S \cap T = T OBVIOUS
<1> QED BY <1>6, <1>7

-----------------------------------------------------------------------------
(* The stores *)

Buckets == [start : Starts, id : 1..MaxRecords]
Byte == Nat \X Nat \X Nat

IsStore(st) ==
  /\ st = [sizes |-> st.sizes, files |-> st.files]
  /\ IsFiniteSet(In(st)) /\ In(st) \subseteq Buckets
  /\ st.sizes \in [In(st) -> Nat] /\ st.files \in [In(st) -> Seq(Byte)]

OneEach(st) == \A b, c \in In(st) : b.start = c.start => b = c
\* A file is no longer than its size in memory.
Full(st) == \A b \in In(st) : Len(st.files[b]) <= st.sizes[b]
Small(st) == Cardinality(In(st)) <= MaxBuckets /\ CurrentSize(st) <= MaxSize
Sound(st) == IsStore(st) /\ OneEach(st) /\ Full(st) /\ Small(st)

\* after has no bucket that st has not, and none in another state.
Less(after, st) ==
  /\ In(after) \subseteq In(st)
  /\ \A b \in In(after) : after.sizes[b] = st.sizes[b] /\ after.files[b] = st.files[b]

LEMMA StoreSum ==
  ASSUME NEW st, IsStore(st)
  PROVE  /\ Terms(st.sizes, In(st)) /\ CurrentSize(st) \in Nat
         /\ CurrentSize(st) = SumFunctionOnSet(st.sizes, In(st))
         /\ Cardinality(In(st)) \in Nat
<1>1. Terms(st.sizes, In(st)) BY DEF IsStore, Terms
<1>2. IsFiniteSet(In(st)) BY DEF IsStore
<1>3. CurrentSize(st) = SumFunctionOnSet(st.sizes, In(st))
  BY DEF CurrentSize, SumFunction, In
<1>4. SumFunctionOnSet(st.sizes, In(st)) \in Nat BY <1>1, <1>2, SumNat
<1> QED BY <1>1, <1>2, <1>3, <1>4, FS_CardinalityType

LEMMA FileType ==
  ASSUME NEW st, IsStore(st), NEW b \in In(st)
  PROVE  /\ st.sizes[b] \in Nat /\ st.files[b] \in Seq(Byte) /\ Len(st.files[b]) \in Nat
         /\ b \in Buckets /\ b.start \in Starts /\ b.id \in 1..MaxRecords
         /\ DOMAIN st.files = In(st)
<1>1. st.sizes[b] \in Nat /\ st.files[b] \in Seq(Byte) /\ b \in Buckets /\ DOMAIN st.files = In(st)
  BY DEF IsStore
<1>2. Len(st.files[b]) \in Nat BY <1>1, LenProperties
<1> QED BY <1>1, <1>2 DEF Buckets

\* No bucket changes or comes, and the limits are kept.
LEMMA LessSound ==
  ASSUME NEW st, Sound(st), NEW after, IsStore(after), Less(after, st), StoreAssumption
  PROVE  Sound(after) /\ CurrentSize(after) <= CurrentSize(st)
<1>1. OneEach(after) BY DEF Less, Sound, OneEach
<1>2. Full(after) BY DEF Less, Sound, Full
<1>3. IsStore(st) BY DEF Sound
<1>4. CurrentSize(after) <= CurrentSize(st)
  <2>1. /\ Terms(st.sizes, In(st)) /\ CurrentSize(st) = SumFunctionOnSet(st.sizes, In(st))
    BY <1>3, StoreSum
  <2>2. /\ Terms(after.sizes, In(after))
        /\ CurrentSize(after) = SumFunctionOnSet(after.sizes, In(after))
    BY StoreSum
  <2>3. IsFiniteSet(In(st)) /\ In(after) \in SUBSET In(st) BY <1>3 DEF IsStore, Less
  <2>4. \A b \in In(after) : after.sizes[b] <= st.sizes[b]
    <3>1. \A b \in In(after) : after.sizes[b] = st.sizes[b] /\ st.sizes[b] \in Nat
      BY <2>3, <2>1 DEF Less, Terms
    <3> QED BY <3>1, SMT
  <2>5. SumFunctionOnSet(after.sizes, In(after)) <= SumFunctionOnSet(st.sizes, In(st))
    BY <2>1, <2>2, <2>3, <2>4, SumLess
  <2> QED BY <2>1, <2>2, <2>5
<1>5. Cardinality(In(after)) <= Cardinality(In(st))
  <2>1. IsFiniteSet(In(st)) /\ In(after) \in SUBSET In(st) BY <1>3 DEF IsStore, Less
  <2> QED BY <2>1, FS_Subset
<1>6. Small(after)
  <2>1. /\ CurrentSize(after) \in Nat /\ CurrentSize(st) \in Nat
        /\ Cardinality(In(after)) \in Nat /\ Cardinality(In(st)) \in Nat
    BY <1>3, StoreSum
  <2>2. Cardinality(In(st)) <= MaxBuckets /\ CurrentSize(st) <= MaxSize BY DEF Sound, Small
  <2>3. MaxBuckets \in Nat /\ MaxSize \in Nat BY DEF StoreAssumption
  <2> QED BY <1>4, <1>5, <2>1, <2>2, <2>3, SMT DEF Small
<1> QED BY <1>1, <1>2, <1>4, <1>6 DEF Sound

LEMMA DeleteStore ==
  ASSUME NEW st, IsStore(st), NEW B
  PROVE  /\ IsStore(Delete(st, B)) /\ In(Delete(st, B)) = In(st) \ B
         /\ Less(Delete(st, B), st)
<1> DEFINE after == Delete(st, B)
           sizes == Restrict(st.sizes, In(st) \ B)
           files == Restrict(st.files, In(st) \ B)
<1>1. after.sizes = sizes /\ after.files = files /\ after = [sizes |-> sizes, files |-> files]
  <2>1. DOMAIN st.files = In(st) BY DEF IsStore
  <2> QED BY <2>1 DEF Delete
<1>2. /\ sizes = [b \in In(st) \ B |-> st.sizes[b]]
      /\ files = [b \in In(st) \ B |-> st.files[b]]
  BY DEF Restrict
<1>3. In(after) = In(st) \ B BY <1>1, <1>2 DEF In
<1> HIDE DEF after, sizes, files
<1>4. \A b \in In(st) \ B : sizes[b] = st.sizes[b] /\ files[b] = st.files[b] BY <1>2
<1>5. sizes \in [In(st) \ B -> Nat] /\ files \in [In(st) \ B -> Seq(Byte)]
  BY <1>2 DEF IsStore
<1>6. IsFiniteSet(In(st) \ B)
  <2>1. IsFiniteSet(In(st)) /\ In(st) \ B \in SUBSET In(st) BY DEF IsStore
  <2> QED BY <2>1, FS_Subset
<1>7. In(st) \ B \subseteq Buckets BY DEF IsStore
<1>8. IsStore(after) BY <1>1, <1>3, <1>5, <1>6, <1>7 DEF IsStore
<1>9. Less(after, st) BY <1>1, <1>3, <1>4 DEF Less
<1> QED BY <1>3, <1>8, <1>9 DEF after

LEMMA DeleteSound ==
  ASSUME NEW st, Sound(st), NEW B, StoreAssumption
  PROVE  Sound(Delete(st, B)) /\ CurrentSize(Delete(st, B)) <= CurrentSize(st)
<1>1. IsStore(st) BY DEF Sound
<1>2. IsStore(Delete(st, B)) /\ Less(Delete(st, B), st) BY <1>1, DeleteStore
<1> QED BY <1>2, LessSound

\* Of some buckets, the one that starts first.
LEMMA FirstBucket ==
  ASSUME NEW st, IsStore(st), OneEach(st), NEW K, K \subseteq In(st), K # {}, LogAssumption
  PROVE  \E m \in K : K \subseteq In(st) \ Earlier(st, m)
<1> DEFINE T == {b.start : b \in K}
<1>1. T \subseteq Nat /\ T # {} BY DEF IsStore, Buckets, LogAssumption
<1>2. PICK t \in T : \A k \in T : t <= k BY <1>1, LeastExists
<1>3. PICK m \in K : m.start = t BY <1>2
<1>4. ASSUME NEW c \in K, c \in Earlier(st, m) PROVE FALSE
  <2>1. c.start < m.start \/ (c.start = m.start /\ c.id < m.id)
    BY <1>4 DEF Earlier, Before
  <2>2. m.start <= c.start BY <1>2, <1>3
  <2>3. c.start \in Nat /\ m.start \in Nat /\ c.id \in Nat /\ m.id \in Nat
    BY SMTT(20) DEF IsStore, Buckets, LogAssumption
  <2>4. c.start = m.start /\ c.id < m.id BY <2>1, <2>2, <2>3, SMT
  <2>5. c = m BY <2>4 DEF OneEach
  <2> QED BY <2>3, <2>4, <2>5, SMT
<1> QED BY <1>4


\* What goes to make room is the oldest of the store, and what is left of it
\* has the room.
OldestOf(st, B) ==
  B \subseteq In(st) /\ \A b \in B, c \in In(st) \ B : b.start < c.start

LEMMA EarlierLess ==
  ASSUME NEW st, IsStore(st), OneEach(st), NEW b \in In(st), NEW c \in In(st), LogAssumption
  PROVE  \/ b = c
         \/ b.start < c.start /\ b \in Earlier(st, c)
              /\ In(st) \ Earlier(st, c) \subseteq In(st) \ Earlier(st, b)
         \/ c.start < b.start /\ c \in Earlier(st, b)
              /\ In(st) \ Earlier(st, b) \subseteq In(st) \ Earlier(st, c)
<1>1. \A d \in In(st) : d.start \in Nat BY DEF IsStore, Buckets, LogAssumption
<1>2. b.start < c.start \/ c.start < b.start \/ b.start = c.start BY <1>1, SMT
<1>3. ASSUME NEW d \in In(st), NEW e \in In(st), d.start < e.start
      PROVE  d \in Earlier(st, e) /\ In(st) \ Earlier(st, e) \subseteq In(st) \ Earlier(st, d)
  <2>1. d \in Earlier(st, e) BY <1>3 DEF Earlier, Before
  <2>2. ASSUME NEW x \in Earlier(st, d) PROVE x \in Earlier(st, e)
    <3>1. x \in In(st) /\ (x.start < d.start \/ x.start = d.start)
      BY <2>2 DEF Earlier, Before
    <3>2. x.start < e.start BY <1>1, <1>3, <3>1, SMT
    <3> QED BY <3>1, <3>2 DEF Earlier, Before
  <2> QED BY <2>1, <2>2
<1> QED BY <1>2, <1>3 DEF OneEach

LEMMA HeavyOldest ==
  ASSUME NEW st, IsStore(st), OneEach(st), NEW n \in Nat, LogAssumption, StoreAssumption
  PROVE  OldestOf(st, Heavy(st, n))
<1> DEFINE After(b) == In(st) \ Earlier(st, b)
           Sum(b) == SumFunctionOnSet(st.sizes, After(b))
<1>1. IsFiniteSet(In(st)) /\ Terms(st.sizes, In(st)) BY StoreSum DEF IsStore
<1>2. ASSUME NEW b \in In(st)
      PROVE  IsFiniteSet(After(b)) /\ Terms(st.sizes, After(b)) /\ Sum(b) \in Nat
  <2>1. IsFiniteSet(After(b)) BY <1>1, FS_Subset
  <2>2. Terms(st.sizes, After(b)) BY <1>1 DEF Terms
  <2> QED BY <2>1, <2>2, SumNat
<1>3. ASSUME NEW b \in Heavy(st, n), NEW c \in In(st) \ Heavy(st, n) PROVE b.start < c.start
  <2>1. b \in In(st) /\ Sum(b) > MaxSize - n /\ ~(Sum(c) > MaxSize - n) BY DEF Heavy
  <2>2. CASE In(st) \ Earlier(st, b) \subseteq In(st) \ Earlier(st, c)
    <3>1. After(b) \in SUBSET After(c) BY <2>2
    <3>2. \A x \in After(b) : st.sizes[x] <= st.sizes[x]
      <4>1. \A x \in After(b) : st.sizes[x] \in Nat BY <1>1 DEF Terms
      <4> QED BY <4>1, SMT
    <3>3. IsFiniteSet(After(c)) /\ Terms(st.sizes, After(c)) /\ Terms(st.sizes, After(b))
      BY <1>2, <2>1
    <3> HIDE DEF After
    <3>4. Sum(b) <= Sum(c) BY <3>1, <3>2, <3>3, SumLess
    <3>5. Sum(b) \in Nat /\ Sum(c) \in Nat BY <1>2, <2>1
    <3>6. MaxSize \in Nat BY DEF StoreAssumption
    <3> HIDE DEF Sum
    <3> QED BY <2>1, <3>4, <3>5, <3>6, SMT
  <2> QED BY <2>1, <2>2, EarlierLess
<1> QED BY <1>3 DEF OldestOf, Heavy

LEMMA SurplusOldest ==
  ASSUME NEW st, IsStore(st), OneEach(st), LogAssumption, StoreAssumption
  PROVE  OldestOf(st, Surplus(st))
<1> DEFINE After(b) == In(st) \ Earlier(st, b)
<1>1. IsFiniteSet(In(st)) BY DEF IsStore
<1>2. \A b \in In(st) : IsFiniteSet(After(b)) /\ Cardinality(After(b)) \in Nat
  BY <1>1, FS_Subset, FS_CardinalityType
<1>3. ASSUME NEW b \in Surplus(st), NEW c \in In(st) \ Surplus(st) PROVE b.start < c.start
  <2>1. /\ b \in In(st) /\ Cardinality(After(b)) > MaxBuckets - 1
        /\ ~(Cardinality(After(c)) > MaxBuckets - 1)
    BY DEF Surplus
  <2>2. CASE In(st) \ Earlier(st, b) \subseteq In(st) \ Earlier(st, c)
    <3>1. After(b) \in SUBSET After(c) /\ IsFiniteSet(After(c)) BY <1>2, <2>2
    <3> HIDE DEF After
    <3>2. Cardinality(After(b)) <= Cardinality(After(c)) BY <3>1, FS_Subset
    <3>3. Cardinality(After(b)) \in Nat /\ Cardinality(After(c)) \in Nat BY <1>2, <2>1
    <3>4. MaxBuckets \in Nat BY DEF StoreAssumption
    <3> QED BY <2>1, <3>2, <3>3, <3>4, SMT
  <2> QED BY <2>1, <2>2, EarlierLess
<1> QED BY <1>3 DEF OldestOf, Surplus

\* Nor does a deletion that stops midway take another.
LEMMA PartOldest ==
  ASSUME NEW st, IsStore(st), OneEach(st), NEW B, OldestOf(st, B), NEW d \in In(st), LogAssumption
  PROVE  OldestOf(st, B \cap Earlier(st, d))
<1>1. ASSUME NEW b \in B \cap Earlier(st, d), NEW c \in In(st) \ (B \cap Earlier(st, d))
      PROVE  b.start < c.start
  <2>1. CASE c \notin B BY <2>1 DEF OldestOf
  <2>2. CASE c \notin Earlier(st, d)
    <3>1. b \in In(st) /\ c \in In(st) BY DEF OldestOf
    <3>2. b # c BY <2>2
    <3>3. CASE c \in Earlier(st, b)
      <4>1. \A x \in In(st) : x.start \in Nat /\ x.id \in Nat
        BY SMT DEF IsStore, Buckets, LogAssumption
      <4>2. Before(c, b) /\ Before(b, d) BY <3>3 DEF Earlier
      <4>3. Before(c, d) BY <3>1, <4>1, <4>2, SMT DEF Before
      <4> QED BY <2>2, <3>1, <4>3 DEF Earlier
    <3> QED BY <3>1, <3>2, <3>3, EarlierLess
  <2> QED BY <2>1, <2>2
<1> QED BY <1>1 DEF OldestOf

LEMMA RoomMade ==
  ASSUME NEW st, Sound(st), NEW n \in Nat, n <= MaxSize, LogAssumption, StoreAssumption
  PROVE  /\ Sound(MakeRoom(st, n)) /\ Less(MakeRoom(st, n), st)
         /\ In(MakeRoom(st, n)) = In(st) \ Heavy(st, n)
         /\ CurrentSize(MakeRoom(st, n)) + n <= MaxSize
<1> DEFINE after == MakeRoom(st, n)
           kept == In(st) \ Heavy(st, n)
<1>1. IsStore(st) /\ OneEach(st) BY DEF Sound
<1>2. IsStore(after) /\ In(after) = kept /\ Less(after, st) BY <1>1, DeleteStore DEF MakeRoom
<1>3. Sound(after) BY <1>2, LessSound
<1>4. /\ CurrentSize(after) = SumFunctionOnSet(after.sizes, kept)
      /\ CurrentSize(after) \in Nat /\ Terms(after.sizes, kept)
  BY <1>2, StoreSum
<1>5. MaxSize \in Nat BY DEF StoreAssumption
<1>6. CASE kept = {}
  <2>1. SumFunctionOnSet(after.sizes, kept) = 0 BY <1>6, SumEmpty, Zenon
  <2>2. CurrentSize(after) = 0 BY <1>4, <2>1
  <2> HIDE DEF after, kept
  <2>3. CurrentSize(after) + n <= MaxSize BY <1>5, <2>2, SMT
  <2> QED BY <1>2, <1>3, <2>3 DEF after, kept
<1>7. CASE kept # {}
  <2>0. kept \subseteq In(st) OBVIOUS
  <2>1. PICK m \in kept : kept \subseteq In(st) \ Earlier(st, m)
    <3> HIDE DEF kept
    <3> QED BY <1>1, <1>7, <2>0, FirstBucket, LogAssumption
  <2> DEFINE T == In(st) \ Earlier(st, m)
  <2>2. SumFunctionOnSet(st.sizes, T) <= MaxSize - n
    <3>1. IsFiniteSet(T) /\ Terms(st.sizes, T)
      <4>1. IsFiniteSet(In(st)) /\ Terms(st.sizes, In(st)) BY <1>1, StoreSum DEF IsStore
      <4>2. IsFiniteSet(T) BY <4>1, FS_Subset
      <4> QED BY <4>1, <4>2 DEF Terms
    <3>2. SumFunctionOnSet(st.sizes, T) \in Nat BY <3>1, SumNat
    <3>3. ~(SumFunctionOnSet(st.sizes, T) > MaxSize - n) BY DEF Heavy
    <3> HIDE DEF T
    <3> QED BY <1>5, <3>2, <3>3, SMT
  <2>3. SumFunctionOnSet(after.sizes, kept) <= SumFunctionOnSet(st.sizes, T)
    <3>1. IsFiniteSet(T) /\ Terms(st.sizes, T)
      <4>1. IsFiniteSet(In(st)) /\ Terms(st.sizes, In(st)) BY <1>1, StoreSum DEF IsStore
      <4>2. IsFiniteSet(T) BY <4>1, FS_Subset
      <4> QED BY <4>1, <4>2 DEF Terms
    <3>2. \A x \in kept : after.sizes[x] <= st.sizes[x]
      <4>1. \A x \in kept : after.sizes[x] = st.sizes[x] BY <1>2 DEF Less
      <4>2. \A x \in kept : st.sizes[x] \in Nat BY <1>1, StoreSum DEF Terms
      <4> HIDE DEF after, kept
      <4> QED BY <4>1, <4>2, SMT
    <3>3. kept \in SUBSET T BY <2>1
    <3> HIDE DEF T, kept, after
    <3> QED BY <1>4, <3>1, <3>2, <3>3, SumLess
  <2>4. CurrentSize(after) + n <= MaxSize
    <3>1. CurrentSize(after) <= SumFunctionOnSet(st.sizes, T) BY <1>4, <2>3
    <3>2. SumFunctionOnSet(st.sizes, T) \in Nat
      <4>1. IsFiniteSet(In(st)) /\ Terms(st.sizes, In(st)) BY <1>1, StoreSum DEF IsStore
      <4>2. IsFiniteSet(T) BY <4>1, FS_Subset
      <4>3. Terms(st.sizes, T) BY <4>1 DEF Terms
      <4> QED BY <4>2, <4>3, SumNat
    <3> HIDE DEF T, kept, after
    <3> QED BY <1>4, <1>5, <2>2, <3>1, <3>2, SMT
  <2> QED BY <1>2, <1>3, <2>4
<1> QED BY <1>6, <1>7


\* A new bucket is empty, and there is room for it.
Added1(st, after, b) ==
  /\ In(after) = In(st) \cup {b}
  /\ after.sizes[b] = 0 /\ after.files[b] = <<>>
  /\ \A c \in In(st) : c # b => after.sizes[c] = st.sizes[c] /\ after.files[c] = st.files[c]

LEMMA RoomForBucket ==
  ASSUME NEW st, Sound(st), LogAssumption, StoreAssumption
  PROVE  Cardinality(In(st) \ Surplus(st)) <= MaxBuckets - 1
<1> DEFINE kept == In(st) \ Surplus(st)
<1>1. IsStore(st) /\ OneEach(st) BY DEF Sound
<1>2. MaxBuckets \in Nat \ {0, 1} BY DEF StoreAssumption
<1>3. CASE kept = {}
  <2>1. Cardinality(kept) = 0 BY <1>3, FS_EmptySet, Zenon
  <2> HIDE DEF kept
  <2>2. Cardinality(kept) <= MaxBuckets - 1 BY <1>2, <2>1, SMT
  <2> QED BY <2>2 DEF kept
<1>4. CASE kept # {}
  <2>0. kept \subseteq In(st) OBVIOUS
  <2>1. PICK m \in kept : kept \subseteq In(st) \ Earlier(st, m)
    <3> HIDE DEF kept
    <3> QED BY <1>1, <1>4, <2>0, FirstBucket, LogAssumption
  <2> DEFINE T == In(st) \ Earlier(st, m)
  <2>2. ~(Cardinality(T) > MaxBuckets - 1) BY DEF Surplus
  <2>3. IsFiniteSet(T) /\ T \in SUBSET In(st)
    <3>1. IsFiniteSet(In(st)) BY <1>1 DEF IsStore
    <3> QED BY <3>1, FS_Subset
  <2>4. kept \in SUBSET T BY <2>1
  <2> HIDE DEF T, kept
  <2>5. /\ Cardinality(kept) <= Cardinality(T) /\ Cardinality(T) \in Nat
        /\ Cardinality(kept) \in Nat
    BY <2>3, <2>4, FS_Subset, FS_CardinalityType
  <2>6. Cardinality(kept) <= MaxBuckets - 1 BY <1>2, <2>2, <2>5, SMT
  <2> QED BY <2>6 DEF kept
<1> QED BY <1>3, <1>4

LEMMA CreateStore ==
  ASSUME NEW st, Sound(st), NEW b \in Buckets, At(st, b.start) = {},
         LogAssumption, StoreAssumption
  PROVE  /\ Sound(Create(st, b)) /\ Added1(Delete(st, Surplus(st)), Create(st, b), b)
         /\ CurrentSize(Create(st, b)) <= CurrentSize(st)
<1> DEFINE old == Delete(st, Surplus(st))
           after == Create(st, b)
           sizes == [c \in In(old) \cup {b} |-> IF c = b THEN 0 ELSE old.sizes[c]]
           files == [c \in In(old) \cup {b} |-> IF c = b THEN <<>> ELSE old.files[c]]
<1>1. IsStore(st) BY DEF Sound
<1>2. IsStore(old) /\ In(old) = In(st) \ Surplus(st) BY <1>1, DeleteStore
<1>3. Sound(old) /\ CurrentSize(old) <= CurrentSize(st) BY DeleteSound
<1>4. after = [sizes |-> sizes, files |-> files]
  <2>1. DOMAIN old.files = In(old) BY <1>2 DEF IsStore
  <2> QED BY <2>1 DEF Create
<1>5. b \notin In(old) /\ \A c \in In(old) : c.start # b.start
  BY <1>2 DEF At
<1>6. Cardinality(In(old)) <= MaxBuckets - 1 BY <1>2, RoomForBucket
<1>7. after.sizes = sizes /\ after.files = files /\ In(after) = In(old) \cup {b}
  BY <1>4 DEF In
<1> HIDE DEF old, after
<1>8. Added1(old, after, b)
  <2>1. sizes[b] = 0 /\ files[b] = <<>> OBVIOUS
  <2>2. \A c \in In(old) : c # b => sizes[c] = old.sizes[c] /\ files[c] = old.files[c]
    OBVIOUS
  <2> HIDE DEF sizes, files
  <2> QED BY <1>7, <2>1, <2>2 DEF Added1
<1>9. IsStore(after)
  <2>1. 0 \in Nat /\ <<>> \in Seq(Byte) BY EmptySeq, SMT
  <2>2. sizes \in [In(old) \cup {b} -> Nat] /\ files \in [In(old) \cup {b} -> Seq(Byte)]
    BY <1>2, <2>1 DEF IsStore
  <2>3. IsFiniteSet(In(old) \cup {b}) BY <1>2, FS_AddElement DEF IsStore
  <2>4. In(old) \cup {b} \subseteq Buckets BY <1>2 DEF IsStore
  <2> HIDE DEF sizes, files
  <2> QED BY <1>4, <1>7, <2>2, <2>3, <2>4 DEF IsStore
<1>10. OneEach(after)
  <2>1. OneEach(old) BY <1>3 DEF Sound
  <2> QED BY <1>5, <1>7, <2>1 DEF OneEach
<1>11. Full(after)
  <2>1. Full(old) BY <1>3 DEF Sound
  <2>2. Len(<<>>) = 0 BY EmptySeq
  <2>3. ASSUME NEW c \in In(after) PROVE Len(after.files[c]) <= after.sizes[c]
    <3>1. CASE c = b
      <4>1. Len(after.files[c]) = 0 /\ after.sizes[c] = 0 BY <1>8, <2>2, <3>1 DEF Added1
      <4> QED BY <4>1, SMT
    <3>2. CASE c # b BY <1>7, <1>8, <2>1, <3>2 DEF Added1, Full
    <3> QED BY <3>1, <3>2
  <2> QED BY <2>3 DEF Full
<1>12. CurrentSize(after) <= CurrentSize(old)
  <2>1. /\ Terms(after.sizes, In(after)) /\ CurrentSize(after) = SumFunctionOnSet(after.sizes, In(after))
    BY <1>9, StoreSum
  <2>2. /\ Terms(old.sizes, In(old)) /\ CurrentSize(old) = SumFunctionOnSet(old.sizes, In(old))
        /\ CurrentSize(old) \in Nat
    BY <1>2, StoreSum
  <2>3. b \in In(after) /\ IsFiniteSet(In(after)) /\ In(after) \ {b} = In(old)
    BY <1>5, <1>7, <1>9 DEF IsStore
  <2>4. SumFunctionOnSet(after.sizes, In(after))
          = after.sizes[b] + SumFunctionOnSet(after.sizes, In(after) \ {b})
    BY <2>1, <2>3, SumRemove
  <2>5. SumFunctionOnSet(after.sizes, In(old)) <= SumFunctionOnSet(old.sizes, In(old))
    <3>1. IsFiniteSet(In(old)) /\ In(old) \in SUBSET In(old) BY <1>2 DEF IsStore
    <3>2. Terms(after.sizes, In(old)) BY <1>7, <2>1 DEF Terms
    <3>3. \A c \in In(old) : after.sizes[c] <= old.sizes[c]
      <4>1. \A c \in In(old) : after.sizes[c] = old.sizes[c] BY <1>5, <1>8 DEF Added1
      <4>2. \A c \in In(old) : old.sizes[c] \in Nat BY <2>2 DEF Terms
      <4> QED BY <4>1, <4>2, SMT
    <3> QED BY <2>2, <3>1, <3>2, <3>3, SumLess
  <2>6. after.sizes[b] = 0 BY <1>8 DEF Added1
  <2>7. SumFunctionOnSet(after.sizes, In(after) \ {b}) = SumFunctionOnSet(after.sizes, In(old))
    BY <2>3, Zenon
  <2>8. SumFunctionOnSet(after.sizes, In(old)) \in Nat
    <3>1. IsFiniteSet(In(old)) BY <1>2 DEF IsStore
    <3>2. Terms(after.sizes, In(old)) BY <1>7, <2>1 DEF Terms
    <3> QED BY <3>1, <3>2, SumNat
  <2> QED BY <2>1, <2>2, <2>4, <2>5, <2>6, <2>7, <2>8, SMT
<1>13. CurrentSize(after) \in Nat /\ CurrentSize(old) \in Nat /\ CurrentSize(st) \in Nat
  BY <1>1, <1>2, <1>9, StoreSum
<1>14. Small(after)
  <2>1. Cardinality(In(old)) \in Nat /\ Cardinality(In(after)) = Cardinality(In(old)) + 1
    <3>1. IsFiniteSet(In(old)) BY <1>2 DEF IsStore
    <3> QED BY <1>5, <1>7, <3>1, FS_AddElement, FS_CardinalityType
  <2>2. MaxBuckets \in Nat /\ MaxSize \in Nat BY DEF StoreAssumption
  <2>3. CurrentSize(old) <= MaxSize BY <1>3 DEF Sound, Small
  <2> QED BY <1>6, <1>12, <1>13, <2>1, <2>2, <2>3, SMT DEF Small
<1>15. CurrentSize(after) <= CurrentSize(st) BY <1>3, <1>12, <1>13, SMT
<1> QED BY <1>8, <1>9, <1>10, <1>11, <1>14, <1>15 DEF Sound, old, after


-----------------------------------------------------------------------------
(* Writing to a bucket *)

\* longer has all of file, and more.
Extends(longer, file) ==
  Len(file) <= Len(longer) /\ \A i \in 1..Len(file) : longer[i] = file[i]

\* data is in the file after the size that was known of it, and what lay
\* between its end and that size are holes.
Wrote(st, after, b, data) ==
  /\ In(after) = In(st) /\ after.sizes = st.sizes
  /\ \A c \in In(st) : c # b => after.files[c] = st.files[c]
  /\ Extends(after.files[b], st.files[b])
  /\ data = <<>> => after.files[b] = st.files[b]
  /\ data # <<>> => Len(after.files[b]) = st.sizes[b] + Len(data)
  /\ \A i \in 1..Len(data) : after.files[b][st.sizes[b] + i] = data[i]
  /\ \A i \in (Len(st.files[b]) + 1)..st.sizes[b] :
       i <= Len(after.files[b]) => after.files[b][i] = Hole

LEMMA FileSeq ==
  ASSUME NEW S, NEW n \in Nat, NEW f, f = [i \in 1..n |-> f[i]], \A i \in 1..n : f[i] \in S
  PROVE  f \in Seq(S) /\ Len(f) = n
<1>1. f \in [1..n -> S] BY Zenon
<1>2. f \in Seq(S) BY <1>1, SeqDef
<1>3. Len(f) \in Nat /\ DOMAIN f = 1..Len(f) BY <1>2, LenProperties
<1>4. DOMAIN f = 1..n BY <1>1
<1>5. n \in 1..n \/ n = 0 BY SMT
<1>6. Len(f) \in 1..Len(f) \/ Len(f) = 0 BY <1>3, SMT
<1> QED BY <1>2, <1>3, <1>4, <1>5, <1>6, SMT

LEMMA WriteStore ==
  ASSUME NEW st, IsStore(st), Full(st), NEW b \in In(st), NEW data \in Seq(Byte)
  PROVE  IsStore(Write(st, b, data)) /\ Wrote(st, Write(st, b, data), b, data)
<1> DEFINE at == st.sizes[b]
           file == st.files[b]
           after == Write(st, b, data)
<1>1. at \in Nat /\ file \in Seq(Byte) /\ Len(file) \in Nat /\ Len(file) <= at
  BY FileType DEF Full
<1>2. \A i \in 1..Len(file) : file[i] \in Byte BY <1>1, ElementOfSeq
<1>3. \A i \in 1..Len(data) : data[i] \in Byte BY ElementOfSeq
<1>4. Len(data) \in Nat BY LenProperties
<1>5. CASE data = <<>>
  <2>1. after = st BY <1>5 DEF Write
  <2>2. Len(data) = 0 BY <1>5
  <2>3. Extends(file, file)
    <3> HIDE DEF file
    <3> QED BY <1>1, SMT DEF Extends
  <2>4. \A i \in 1..Len(data) : file[at + i] = data[i] BY <2>2, SMT
  <2>5. \A i \in (Len(file) + 1)..at : i <= Len(file) => file[i] = Hole BY <1>1, SMT
  <2> QED BY <1>5, <2>1, <2>3, <2>4, <2>5 DEF Wrote
<1>6. CASE data # <<>>
  <2> DEFINE last == at + Len(data)
             new == [i \in 1..last |-> IF i \in (at + 1)..last THEN data[i - at]
                                       ELSE IF i <= Len(file) THEN file[i] ELSE Hole]
             files == [st.files EXCEPT ![b] = new]
  <2>1. last \in Nat /\ ~(Len(file) > last) BY <1>1, <1>4, SMT
  <2>2. after = [sizes |-> st.sizes, files |-> files]
    <3>1. after = [st EXCEPT !.files[b] = new] BY <1>6, <2>1 DEF Write
    <3>2. st = [sizes |-> st.sizes, files |-> st.files] BY DEF IsStore
    <3> HIDE DEF new
    <3> QED BY <3>1, <3>2
  <2>3. Hole \in Byte BY DEF Hole, Byte
  <2>4. \A i \in 1..last : new[i] \in Byte
    <3>1. ASSUME NEW i \in 1..last, i \in (at + 1)..last PROVE i - at \in 1..Len(data)
      <4> HIDE DEF at
      <4> QED BY <1>1, <1>4, <3>1, SMT
    <3>2. ASSUME NEW i \in 1..last, i <= Len(file) PROVE i \in 1..Len(file)
      <4> HIDE DEF file, last
      <4> QED BY <1>1, <2>1, <3>2, SMT
    <3> HIDE DEF last, at, file
    <3> QED BY <1>2, <1>3, <2>3, <3>1, <3>2
  <2>5. new \in Seq(Byte) /\ Len(new) = last
    <3>1. new = [i \in 1..last |-> new[i]] OBVIOUS
    <3> HIDE DEF new, last
    <3> QED BY <2>1, <2>4, <3>1, FileSeq
  <2>6. DOMAIN st.files = In(st) BY DEF IsStore
  <2>7. files \in [In(st) -> Seq(Byte)]
    <3> HIDE DEF new
    <3> QED BY <2>5 DEF IsStore
  <2>8. files[b] = new /\ \A c \in In(st) : c # b => files[c] = st.files[c]
    <3> HIDE DEF new
    <3> QED BY <2>6
  <2>9. after.sizes = st.sizes /\ after.files = files /\ In(after) = In(st)
    BY <2>2 DEF In
  <2>10. IsStore(after)
    <3> HIDE DEF after, files
    <3> QED BY <2>2, <2>7, <2>9 DEF IsStore
  <2>11. Extends(new, file)
    <3>1. ASSUME NEW i \in 1..Len(file) PROVE new[i] = file[i]
      <4>1. i \in 1..last /\ ~(i \in (at + 1)..last) /\ i <= Len(file)
        <5> HIDE DEF at, file
        <5> QED BY <1>1, <1>4, SMT
      <4> HIDE DEF at, file, last
      <4> QED BY <4>1
    <3> HIDE DEF new, file, last
    <3> QED BY <2>1, <2>5, <1>1, <3>1, SMT DEF Extends
  <2>12. ASSUME NEW i \in 1..Len(data) PROVE new[at + i] = data[i]
    <3>1. at + i \in 1..last /\ at + i \in (at + 1)..last /\ (at + i) - at = i
      <4> HIDE DEF at
      <4> QED BY <1>1, <1>4, SMT
    <3> DEFINE k == at + i
    <3>2. k \in 1..last /\ k \in (at + 1)..last /\ k - at = i BY <3>1
    <3> HIDE DEF at, last, k
    <3>3. new[k] = data[k - at] BY <3>2
    <3> QED BY <3>2, <3>3 DEF k
  <2>13. ASSUME NEW i \in (Len(file) + 1)..at PROVE new[i] = Hole
    <3>1. i \in 1..last /\ ~(i \in (at + 1)..last) /\ ~(i <= Len(file))
      <4> HIDE DEF at, file
      <4> QED BY <1>1, <1>4, SMT
    <3> HIDE DEF at, file, last
    <3> QED BY <3>1
  <2>14. after.files[b] = new BY <2>8, <2>9
  <2>15. Len(after.files[b]) = st.sizes[b] + Len(data) BY <2>5, <2>14
  <2> HIDE DEF new, after, files
  <2>16. Wrote(st, after, b, data)
    BY <1>6, <2>8, <2>9, <2>11, <2>12, <2>13, <2>14, <2>15 DEF Wrote
  <2> QED BY <2>10, <2>16 DEF after
<1> QED BY <1>5, <1>6

\* The size in memory is what was written of the bucket, or should have been.
Counted(st, after, b, n) ==
  /\ In(after) = In(st) /\ after.files = st.files /\ after.sizes[b] = st.sizes[b] + n
  /\ \A c \in In(st) : c # b => after.sizes[c] = st.sizes[c]

LEMMA CountStore ==
  ASSUME NEW st, IsStore(st), NEW b \in In(st), NEW n \in Nat
  PROVE  /\ IsStore(Count(st, b, n)) /\ Counted(st, Count(st, b, n), b, n)
         /\ CurrentSize(Count(st, b, n)) = CurrentSize(st) + n
<1> DEFINE after == Count(st, b, n)
           sizes == [st.sizes EXCEPT ![b] = @ + n]
<1>1. st = [sizes |-> st.sizes, files |-> st.files] /\ DOMAIN st.sizes = In(st)
  BY DEF IsStore, In
<1>2. after = [sizes |-> sizes, files |-> st.files] BY <1>1 DEF Count
<1>3. sizes \in [In(st) -> Nat] BY SMT DEF IsStore
<1>4. sizes[b] = st.sizes[b] + n /\ \A c \in In(st) : c # b => sizes[c] = st.sizes[c]
  BY <1>1
<1>5. after.sizes = sizes /\ after.files = st.files /\ In(after) = In(st)
  BY <1>2, <1>3 DEF In
<1>6. Counted(st, after, b, n)
  <2> HIDE DEF sizes, after
  <2> QED BY <1>4, <1>5 DEF Counted
<1>7. IsStore(after)
  <2> HIDE DEF sizes, after
  <2> QED BY <1>2, <1>3, <1>5 DEF IsStore
<1> HIDE DEF sizes, after
<1> DEFINE rest == In(st) \ {b}
<1>8. /\ CurrentSize(after) = SumFunctionOnSet(after.sizes, In(st))
      /\ CurrentSize(st) = SumFunctionOnSet(st.sizes, In(st))
      /\ Terms(after.sizes, In(st)) /\ Terms(st.sizes, In(st)) /\ IsFiniteSet(In(st))
  <2>1. CurrentSize(after) = SumFunctionOnSet(after.sizes, In(after)) /\ Terms(after.sizes, In(after))
    BY <1>7, StoreSum
  <2>2. CurrentSize(st) = SumFunctionOnSet(st.sizes, In(st)) /\ Terms(st.sizes, In(st))
    BY StoreSum
  <2>3. SumFunctionOnSet(after.sizes, In(after)) = SumFunctionOnSet(after.sizes, In(st))
    BY <1>5, Zenon
  <2>4. IsFiniteSet(In(st)) BY DEF IsStore
  <2> QED BY <1>5, <2>1, <2>2, <2>3, <2>4
<1>9. IsFiniteSet(rest) /\ Terms(after.sizes, rest) /\ Terms(st.sizes, rest)
  BY <1>8, FS_Subset DEF Terms
<1>10. SumFunctionOnSet(after.sizes, rest) = SumFunctionOnSet(st.sizes, rest)
  <2>1. \A c \in rest : after.sizes[c] = st.sizes[c] BY <1>6 DEF Counted
  <2>2. \A c \in rest : after.sizes[c] <= st.sizes[c] /\ st.sizes[c] <= after.sizes[c]
    BY <1>9, <2>1, SMT DEF Terms
  <2>3. rest \in SUBSET rest OBVIOUS
  <2> HIDE DEF rest
  <2>4. SumFunctionOnSet(after.sizes, rest) <= SumFunctionOnSet(st.sizes, rest)
    BY <1>9, <2>2, <2>3, SumLess
  <2>5. SumFunctionOnSet(st.sizes, rest) <= SumFunctionOnSet(after.sizes, rest)
    BY <1>9, <2>2, <2>3, SumLess
  <2>6. SumFunctionOnSet(after.sizes, rest) \in Nat /\ SumFunctionOnSet(st.sizes, rest) \in Nat
    BY <1>9, SumNat
  <2> QED BY <2>4, <2>5, <2>6, SMT
<1>11. SumFunctionOnSet(after.sizes, In(st)) = after.sizes[b] + SumFunctionOnSet(after.sizes, rest)
  BY <1>8, SumRemove
<1>12. SumFunctionOnSet(st.sizes, In(st)) = st.sizes[b] + SumFunctionOnSet(st.sizes, rest)
  BY <1>8, SumRemove
<1>13. after.sizes[b] = st.sizes[b] + n BY <1>6 DEF Counted
<1>14. st.sizes[b] \in Nat /\ SumFunctionOnSet(st.sizes, rest) \in Nat
  BY <1>8, <1>9, SumNat DEF Terms
<1> HIDE DEF rest
<1>15. CurrentSize(after) = CurrentSize(st) + n
  BY <1>8, <1>10, <1>11, <1>12, <1>13, <1>14, SMT
<1> QED BY <1>6, <1>7, <1>15 DEF after

LEMMA AppendSound ==
  ASSUME NEW st, Sound(st), NEW b \in In(st), NEW data \in Seq(Byte), NEW n \in Nat,
         Len(data) <= n, CurrentSize(st) + n <= MaxSize
  PROVE  LET written == Write(st, b, data)
             after == Count(written, b, n)
         IN /\ Sound(after) /\ Wrote(st, written, b, data) /\ Counted(written, after, b, n)
            /\ IsStore(written)
<1> DEFINE written == Write(st, b, data)
           after == Count(written, b, n)
<1>1. IsStore(written) /\ Wrote(st, written, b, data) BY WriteStore DEF Sound
<1>2. In(written) = In(st) /\ written.sizes = st.sizes BY <1>1 DEF Wrote
<1>3. IsStore(st) BY DEF Sound
<1>4. CurrentSize(written) = CurrentSize(st)
  BY <1>2 DEF CurrentSize
<1> HIDE DEF written
<1>5. /\ IsStore(after) /\ Counted(written, after, b, n)
      /\ CurrentSize(after) = CurrentSize(st) + n
  BY <1>1, <1>2, <1>4, CountStore
<1> HIDE DEF after
<1>6. In(after) = In(st) BY <1>2, <1>5 DEF Counted
<1>7. OneEach(after) BY <1>6 DEF Sound, OneEach
<1>8. Small(after) BY <1>5, <1>6 DEF Sound, Small
<1>9. ASSUME NEW c \in In(after) PROVE Len(after.files[c]) <= after.sizes[c]
  <2>1. CASE c # b
    <3>1. after.files[c] = st.files[c] /\ after.sizes[c] = st.sizes[c]
      BY <1>1, <1>2, <1>5, <1>6, <2>1 DEF Wrote, Counted
    <3> QED BY <1>6, <3>1 DEF Sound, Full
  <2>2. CASE c = b
    <3>1. after.files[b] = written.files[b] /\ after.sizes[b] = st.sizes[b] + n
      BY <1>2, <1>5 DEF Counted
    <3>2. st.sizes[b] \in Nat /\ Len(st.files[b]) \in Nat /\ Len(st.files[b]) <= st.sizes[b]
      BY <1>3, FileType DEF Sound, Full
    <3>3. Len(data) \in Nat BY LenProperties
    <3>4. \/ Len(written.files[b]) = Len(st.files[b])
          \/ Len(written.files[b]) = st.sizes[b] + Len(data)
      BY <1>1 DEF Wrote
    <3>5. Len(after.files[b]) <= after.sizes[b] BY <3>1, <3>2, <3>3, <3>4, SMT
    <3> QED BY <2>2, <3>5
  <2> QED BY <2>1, <2>2
<1>10. Sound(after) BY <1>5, <1>7, <1>8, <1>9 DEF Sound, Full
<1> QED BY <1>1, <1>5, <1>10 DEF written, after

\* Opening the directory again forgets what a file should have had.
LEMMA OpenSound ==
  ASSUME NEW st, Sound(st), StoreAssumption
  PROVE  /\ Sound(Open(st.files)) /\ In(Open(st.files)) = In(st)
         /\ Open(st.files).files = st.files
         /\ \A b \in In(st) : Open(st.files).sizes[b] = Len(st.files[b])
<1> DEFINE after == Open(st.files)
           sizes == [b \in In(st) |-> Len(st.files[b])]
<1>1. IsStore(st) BY DEF Sound
<1>2. DOMAIN st.files = In(st) BY <1>1 DEF IsStore
<1>3. after = [sizes |-> sizes, files |-> st.files] BY <1>2 DEF Open
<1>4. after.sizes = sizes /\ after.files = st.files /\ In(after) = In(st) BY <1>3 DEF In
<1>5. \A b \in In(st) : /\ Len(st.files[b]) \in Nat /\ st.sizes[b] \in Nat
                        /\ Len(st.files[b]) <= st.sizes[b]
  BY <1>1, FileType DEF Sound, Full
<1>6. sizes \in [In(st) -> Nat] BY <1>5
<1>7. \A b \in In(st) : sizes[b] = Len(st.files[b]) OBVIOUS
<1> HIDE DEF after, sizes
<1>8. IsStore(after) BY <1>1, <1>3, <1>4, <1>6 DEF IsStore
<1>9. OneEach(after) BY <1>4 DEF Sound, OneEach
<1>10. Full(after)
  <2>1. \A b \in In(st) : Len(after.files[b]) <= after.sizes[b]
    BY <1>4, <1>5, <1>7, SMT
  <2> QED BY <1>4, <2>1 DEF Full
<1>11. CurrentSize(after) <= CurrentSize(st)
  <2>1. /\ Terms(st.sizes, In(st)) /\ CurrentSize(st) = SumFunctionOnSet(st.sizes, In(st))
    BY <1>1, StoreSum
  <2>2. /\ Terms(after.sizes, In(after))
        /\ CurrentSize(after) = SumFunctionOnSet(after.sizes, In(after))
    BY <1>8, StoreSum
  <2>3. IsFiniteSet(In(st)) /\ In(after) \in SUBSET In(st) BY <1>1, <1>4 DEF IsStore
  <2>4. \A b \in In(after) : after.sizes[b] <= st.sizes[b] BY <1>4, <1>5, <1>7
  <2>5. SumFunctionOnSet(after.sizes, In(after)) <= SumFunctionOnSet(st.sizes, In(st))
    BY <2>1, <2>2, <2>3, <2>4, SumLess
  <2> QED BY <2>1, <2>2, <2>5
<1>12. Small(after)
  <2>1. CurrentSize(after) \in Nat /\ CurrentSize(st) \in Nat /\ MaxSize \in Nat
    BY <1>1, <1>8, StoreSum DEF StoreAssumption
  <2>2. CurrentSize(st) <= MaxSize /\ Cardinality(In(st)) <= MaxBuckets BY DEF Sound, Small
  <2>3. CurrentSize(after) <= MaxSize BY <1>11, <2>1, <2>2, SMT
  <2> QED BY <1>4, <2>2, <2>3 DEF Small
<1>13. Sound(after) BY <1>8, <1>9, <1>10, <1>12 DEF Sound
<1> QED BY <1>4, <1>7, <1>13 DEF after

LEMMA NoStoreSound == StoreAssumption => Sound(NoStore)
<1> SUFFICES ASSUME StoreAssumption PROVE Sound(NoStore) OBVIOUS
<1> DEFINE E == {}
           none == [b \in E |-> 0]
<1>1. <<>> = none OBVIOUS
<1>2. NoStore = [sizes |-> none, files |-> none] /\ NoStore.sizes = none /\ NoStore.files = none
  BY <1>1 DEF NoStore
<1>3. In(NoStore) = E BY <1>2 DEF In
<1>4. none \in [E -> Nat] /\ none \in [E -> Seq(Byte)] /\ E \subseteq Buckets OBVIOUS
<1>5. IsFiniteSet(E) /\ Cardinality(E) = 0 BY FS_EmptySet
<1>6. \A b \in E : FALSE OBVIOUS
<1> HIDE DEF none, E
<1>7. IsStore(NoStore) BY <1>2, <1>3, <1>4, <1>5 DEF IsStore
<1>8. OneEach(NoStore) /\ Full(NoStore) BY <1>3, <1>6 DEF OneEach, Full
<1>9. CurrentSize(NoStore) = 0
  <2>1. CurrentSize(NoStore) = SumFunctionOnSet(NoStore.sizes, In(NoStore))
    BY <1>7, StoreSum
  <2>2. In(NoStore) = {} BY <1>3 DEF E
  <2>3. SumFunctionOnSet(NoStore.sizes, In(NoStore)) = 0 BY <2>2, SumEmpty, Zenon
  <2> QED BY <2>1, <2>3
<1>10. Small(NoStore)
  <2>1. MaxBuckets \in Nat /\ MaxSize \in Nat BY DEF StoreAssumption
  <2>2. Cardinality(In(NoStore)) = 0 BY <1>3, <1>5
  <2>3. Cardinality(In(NoStore)) <= MaxBuckets /\ CurrentSize(NoStore) <= MaxSize
    BY <1>9, <2>1, <2>2, SMT
  <2> QED BY <2>3 DEF Small
<1> QED BY <1>7, <1>8, <1>10 DEF Sound

-----------------------------------------------------------------------------
(* Room in the source *)

\* A store without its oldest buckets.
Trimmed(after, st) == Sound(after) /\ Less(after, st) /\ OldestOf(st, In(st) \ In(after))

LEMMA DeleteTrims ==
  ASSUME NEW st, Sound(st), NEW B, OldestOf(st, B), StoreAssumption
  PROVE  Trimmed(Delete(st, B), st)
<1>1. IsStore(st) BY DEF Sound
<1>2. In(Delete(st, B)) = In(st) \ B /\ Less(Delete(st, B), st) BY <1>1, DeleteStore
<1>3. Sound(Delete(st, B)) BY DeleteSound
<1>4. In(st) \ (In(st) \ B) = B BY DEF OldestOf
<1> QED BY <1>2, <1>3, <1>4 DEF Trimmed

LEMMA DeletingTrims ==
  ASSUME NEW st, Sound(st), NEW B, OldestOf(st, B), NEW after \in Deleting(st, B),
         StoreAssumption, LogAssumption
  PROVE  Trimmed(after, st)
<1>1. PICK d \in B : after = Delete(st, B \cap Earlier(st, d)) BY DEF Deleting
<1>2. IsStore(st) /\ OneEach(st) BY DEF Sound
<1>3. d \in In(st) BY DEF OldestOf
<1>4. OldestOf(st, B \cap Earlier(st, d)) BY <1>2, <1>3, PartOldest
<1> QED BY <1>1, <1>4, DeleteTrims

LEMMA TrimmedTwice ==
  ASSUME NEW st, NEW mid, NEW after, Trimmed(mid, st), Trimmed(after, mid)
  PROVE  Trimmed(after, st)
<1>1. In(after) \subseteq In(mid) /\ In(mid) \subseteq In(st) BY DEF Trimmed, Less
<1>2. Less(after, st) BY DEF Trimmed, Less
<1>3. ASSUME NEW b \in In(st) \ In(after), NEW c \in In(st) \ (In(st) \ In(after))
      PROVE  b.start < c.start
  <2>1. c \in In(after) /\ c \in In(mid) BY <1>1
  <2>2. CASE b \in In(mid) BY <2>1, <2>2 DEF Trimmed, OldestOf
  <2>3. CASE b \notin In(mid) BY <2>1, <2>3 DEF Trimmed, OldestOf
  <2> QED BY <2>2, <2>3
<1> QED BY <1>2, <1>3 DEF Trimmed, OldestOf

LEMMA RoomTrims ==
  ASSUME NEW st, Sound(st), NEW n \in Nat, n <= MaxSize, StoreAssumption, LogAssumption
  PROVE  /\ Trimmed(MakeRoom(st, n), st) /\ CurrentSize(MakeRoom(st, n)) + n <= MaxSize
         /\ \A after \in Deleting(st, Heavy(st, n)) : Trimmed(after, st)
<1>1. OldestOf(st, Heavy(st, n)) BY HeavyOldest DEF Sound
<1>2. Trimmed(MakeRoom(st, n), st) BY <1>1, DeleteTrims DEF MakeRoom
<1>3. CurrentSize(MakeRoom(st, n)) + n <= MaxSize BY RoomMade
<1> QED BY <1>1, <1>2, <1>3, DeletingTrims

\* A store with b in it, and without its oldest buckets if b is new.
Ready(after, st, b) ==
  /\ Sound(after) /\ b \in In(after)
  /\ \A c \in In(st) \ In(after), d \in In(st) \cap In(after) : c.start < d.start
  /\ \A c \in In(after) :
       \/ c \in In(st) /\ after.sizes[c] = st.sizes[c] /\ after.files[c] = st.files[c]
       \/ c \notin In(st) /\ c = b /\ after.sizes[c] = 0 /\ after.files[c] = <<>>

LEMMA CreateReady ==
  ASSUME NEW st, Sound(st), NEW b \in Buckets, At(st, b.start) = {},
         StoreAssumption, LogAssumption
  PROVE  /\ Ready(Create(st, b), st, b) /\ CurrentSize(Create(st, b)) <= CurrentSize(st)
         /\ \A after \in Creating(st, b) : Trimmed(after, st)
<1> DEFINE old == Delete(st, Surplus(st))
           after == Create(st, b)
<1>1. Sound(after) /\ Added1(old, after, b) /\ CurrentSize(after) <= CurrentSize(st)
  BY CreateStore
<1>2. OldestOf(st, Surplus(st)) BY SurplusOldest DEF Sound
<1>3. Trimmed(old, st) BY <1>2, DeleteTrims
<1>4. \A x \in Creating(st, b) : Trimmed(x, st) BY <1>2, <1>3, DeletingTrims DEF Creating
<1>5. b \notin In(st) BY DEF At
<1> HIDE DEF old, after
<1>6. In(after) = In(old) \cup {b} /\ In(old) \subseteq In(st) BY <1>1, <1>3 DEF Added1, Trimmed, Less
<1>7. ASSUME NEW c \in In(st) \ In(after), NEW d \in In(st) \cap In(after) PROVE c.start < d.start
  BY <1>3, <1>5, <1>6 DEF Trimmed, OldestOf
<1>8. ASSUME NEW c \in In(after)
      PROVE  \/ c \in In(st) /\ after.sizes[c] = st.sizes[c] /\ after.files[c] = st.files[c]
             \/ c \notin In(st) /\ c = b /\ after.sizes[c] = 0 /\ after.files[c] = <<>>
  BY <1>1, <1>3, <1>5, <1>6 DEF Added1, Trimmed, Less
<1>9. Ready(after, st, b) BY <1>1, <1>6, <1>7, <1>8 DEF Ready
<1> QED BY <1>1, <1>4, <1>9 DEF after

LEMMA TrimmedReady ==
  ASSUME NEW st, NEW mid, NEW after, NEW b, Trimmed(mid, st), Ready(after, mid, b),
         b \in In(mid) \/ b \notin In(st)
  PROVE  Ready(after, st, b)
<1>1. In(mid) \subseteq In(st) BY DEF Trimmed, Less
<1>2. \A c \in In(after) : c \in In(mid) \/ c = b BY DEF Ready
<1>3. ASSUME NEW c \in In(st) \ In(after), NEW d \in In(st) \cap In(after) PROVE c.start < d.start
  <2>1. d \in In(mid) BY <1>2
  <2>2. CASE c \in In(mid) BY <2>1, <2>2 DEF Ready
  <2>3. CASE c \notin In(mid) BY <1>1, <2>1, <2>3 DEF Trimmed, OldestOf
  <2> QED BY <2>2, <2>3
<1>4. ASSUME NEW c \in In(after)
      PROVE  \/ c \in In(st) /\ after.sizes[c] = st.sizes[c] /\ after.files[c] = st.files[c]
             \/ c \notin In(st) /\ c = b /\ after.sizes[c] = 0 /\ after.files[c] = <<>>
  <2>1. CASE c \in In(mid) BY <2>1, <1>1 DEF Ready, Trimmed, Less
  <2>2. CASE c \notin In(mid) BY <2>2, <1>1, <1>2 DEF Ready
  <2> QED BY <2>1, <2>2
<1> QED BY <1>3, <1>4 DEF Ready

LEMMA PresentReady ==
  ASSUME NEW st, Sound(st), NEW b \in In(st)
  PROVE  Ready(st, st, b)
BY DEF Ready

\* No bucket of the store has a number that was not used yet.
Known(st) == \A b \in In(st) : b.id <= calls

\* The store to append n bytes to, and its bucket that starts at s.
LEMMA PreparedReady ==
  ASSUME Sound(source), Known(source), calls \in Nat, NEW s \in Starts, NEW n \in Nat,
         calls < MaxRecords, n < MaxSize, StoreAssumption, LogAssumption
  PROVE  LET st == Prepared(s, n)
             b == Bucket(st, s)
         IN /\ Ready(st, source, b) /\ CurrentSize(st) + n <= MaxSize
            /\ b \in Buckets /\ b.start = s /\ b.id <= calls + 1
            /\ b \notin In(source) => b.id = calls + 1
            /\ \A after \in Preparing(s, n) : Trimmed(after, source)
<1> DEFINE mid == MakeRoom(source, n)
           st == Prepared(s, n)
           b == Bucket(st, s)
           new == [start |-> s, id |-> calls + 1]
<1>1. n <= MaxSize /\ MaxSize \in Nat /\ MaxRecords \in Nat BY SMT DEF StoreAssumption, LogAssumption
<1>2. /\ Trimmed(mid, source) /\ CurrentSize(mid) + n <= MaxSize
      /\ \A after \in Deleting(source, Heavy(source, n)) : Trimmed(after, source)
  BY <1>1, RoomTrims
<1>3. Sound(mid) /\ In(mid) \subseteq In(source) BY <1>2 DEF Trimmed, Less
<1>4. IsStore(mid) /\ IsStore(source) BY <1>3 DEF Sound
<1>5. CASE At(mid, s) # {}
  <2>1. st = mid BY <1>5 DEF Prepared
  <2>2. b \in At(mid, s) BY <1>5, <2>1 DEF Bucket
  <2>3. b \in In(mid) /\ b.start = s BY <2>2 DEF At
  <2>4. b \in Buckets BY <1>4, <2>3, FileType
  <2>5. Ready(st, mid, b) BY <1>3, <2>1, <2>3, PresentReady
  <2>6. b.id <= calls /\ b.id \in Nat BY <1>3, <2>3, <2>4 DEF Known, Buckets
  <2>7. b.id <= calls + 1 BY <2>6, SMT
  <2>8. Preparing(s, n) = Deleting(source, Heavy(source, n)) \cup {mid}
    BY <1>5 DEF Preparing
  <2>9. \A after \in Preparing(s, n) : Trimmed(after, source) BY <1>2, <2>8
  <2> HIDE DEF st, b, mid
  <2>10. Ready(st, source, b) BY <1>2, <2>3, <2>5, TrimmedReady
  <2>11. CurrentSize(st) + n <= MaxSize BY <1>2, <2>1
  <2> QED BY <1>3, <2>3, <2>4, <2>7, <2>9, <2>10, <2>11 DEF st, b
<1>6. CASE At(mid, s) = {}
  <2>1. Bucket(mid, s) = new BY <1>6 DEF Bucket
  <2>2. st = Create(mid, new) BY <1>6, <2>1 DEF Prepared
  <2>3. new \in Buckets /\ new.start = s /\ new.id = calls + 1 BY <1>1, SMT DEF Buckets
  <2>4. new \notin In(source)
    <3>1. \A c \in In(source) : c.id <= calls BY DEF Known
    <3>2. ~(calls + 1 <= calls) BY SMT
    <3> QED BY <2>3, <3>1, <3>2
  <2>5. Preparing(s, n) = Deleting(source, Heavy(source, n)) \cup {mid} \cup Creating(mid, new)
    BY <1>6, <2>1 DEF Preparing
  <2> HIDE DEF new, mid
  <2>6. /\ Ready(st, mid, new) /\ CurrentSize(st) <= CurrentSize(mid)
        /\ \A after \in Creating(mid, new) : Trimmed(after, mid)
    BY <1>3, <1>6, <2>2, <2>3, CreateReady
  <2> HIDE DEF st
  <2>7. Ready(st, source, new) BY <1>2, <2>4, <2>6, TrimmedReady
  <2>8. \A after \in Preparing(s, n) : Trimmed(after, source)
    BY <1>2, <2>5, <2>6, TrimmedTwice
  <2>9. IsStore(st) /\ OneEach(st) /\ new \in In(st) BY <2>7 DEF Ready, Sound
  <2>10. At(st, s) = {new} BY <2>3, <2>9 DEF At, OneEach
  <2>11. b = new BY <2>10 DEF Bucket
  <2>12. CurrentSize(st) + n <= MaxSize
    <3>1. CurrentSize(st) \in Nat /\ CurrentSize(mid) \in Nat BY <1>4, <2>9, StoreSum
    <3> QED BY <1>1, <1>2, <2>6, <3>1, SMT
  <2>13. calls + 1 <= calls + 1 BY SMT
  <2>14. Ready(st, source, b) /\ b \in Buckets /\ b.start = s /\ b.id = calls + 1
    BY <2>3, <2>7, <2>11
  <2> HIDE DEF b
  <2> QED BY <2>8, <2>12, <2>13, <2>14 DEF st, b
<1> QED BY <1>5, <1>6

-----------------------------------------------------------------------------
(* What a call of record does to the source *)

LEMMA BytesSeq ==
  ASSUME NEW k \in Nat, NEW n \in Nat
  PROVE  /\ Bytes(k, n) \in Seq(Byte) /\ Len(Bytes(k, n)) = n
         /\ \A i \in 1..n : Bytes(k, n)[i] = <<k, i, n>>
<1> DEFINE data == Bytes(k, n)
<1>1. data = [i \in 1..n |-> data[i]] /\ \A i \in 1..n : data[i] = <<k, i, n>> BY DEF Bytes
<1>2. \A i \in 1..n : <<k, i, n>> \in Byte BY SMT DEF Byte
<1>3. \A i \in 1..n : data[i] \in Byte BY <1>1, <1>2
<1> HIDE DEF data
<1>4. data \in Seq(Byte) /\ Len(data) = n BY <1>1, <1>3, FileSeq
<1> QED BY <1>1, <1>4 DEF data

LEMMA StartOf ==
  ASSUME NEW S, NEW s \in Seq(S), NEW k \in 0..Len(s)
  PROVE  /\ SubSeq(s, 1, k) \in Seq(S) /\ Len(SubSeq(s, 1, k)) = k
         /\ \A i \in 1..k : SubSeq(s, 1, k)[i] = s[i]
<1>1. Len(s) \in Nat BY LenProperties
<1>2. k \in Nat /\ 1 \in Int /\ k \in Int BY SMT
<1>3. \A i \in 1..k : s[i] \in S
  <2>1. ASSUME NEW i \in 1..k PROVE i \in 1..Len(s) BY <1>1, SMT
  <2> QED BY <2>1, ElementOfSeq
<1>4. /\ SubSeq(s, 1, k) \in Seq(S)
      /\ Len(SubSeq(s, 1, k)) = IF 1 <= k THEN k - 1 + 1 ELSE 0
      /\ \A i \in 1 .. k - 1 + 1 : SubSeq(s, 1, k)[i] = s[1 + i - 1]
  BY <1>2, <1>3, SubSeqProperties
<1>5. (IF 1 <= k THEN k - 1 + 1 ELSE 0) = k /\ k - 1 + 1 = k BY <1>2, SMT
<1>6. ASSUME NEW i \in 1..k PROVE SubSeq(s, 1, k)[i] = s[i]
  <2>1. 1 + i - 1 = i BY SMT
  <2> QED BY <1>4, <1>5, <2>1
<1> QED BY <1>4, <1>5, <1>6

\* A store that follows the source: only the oldest buckets have gone, only a
\* bucket of this call has come, and the others have lost nothing.
Grows(after) ==
  /\ Sound(after)
  /\ \A c \in In(source) \ In(after), d \in In(source) \cap In(after) : c.start < d.start
  /\ \A c \in In(after) : \/ c \in In(source) /\ Extends(after.files[c], source.files[c])
                          \/ c \notin In(source) /\ c.id = calls + 1

LEMMA ExtendsSame == ASSUME NEW file \in Seq(Byte) PROVE Extends(file, file)
<1>1. Len(file) \in Nat BY LenProperties
<1> QED BY <1>1, SMT DEF Extends

LEMMA ExtendsTwice ==
  ASSUME NEW f \in Seq(Byte), NEW g \in Seq(Byte), NEW h \in Seq(Byte),
         Extends(g, f), Extends(h, g)
  PROVE  Extends(h, f)
<1>1. Len(f) \in Nat /\ Len(g) \in Nat /\ Len(h) \in Nat BY LenProperties
<1>2. Len(f) <= Len(g) /\ Len(g) <= Len(h) BY DEF Extends
<1>3. ASSUME NEW i \in 1..Len(f) PROVE h[i] = f[i]
  <2>1. i \in 1..Len(g) BY <1>1, <1>2, SMT
  <2> QED BY <2>1 DEF Extends
<1>4. Len(f) <= Len(h) BY <1>1, <1>2, SMT
<1> QED BY <1>3, <1>4 DEF Extends

LEMMA TrimmedGrows ==
  ASSUME Sound(source), NEW after, Trimmed(after, source) PROVE Grows(after)
<1>1. IsStore(source) BY DEF Sound
<1>2. ASSUME NEW c \in In(after)
      PROVE  c \in In(source) /\ Extends(after.files[c], source.files[c])
  <2>1. c \in In(source) /\ after.files[c] = source.files[c] BY DEF Trimmed, Less
  <2>2. source.files[c] \in Seq(Byte) BY <1>1, <2>1, FileType
  <2> QED BY <2>1, <2>2, ExtendsSame
<1>3. ASSUME NEW c \in In(source) \ In(after), NEW d \in In(source) \cap In(after)
      PROVE  c.start < d.start
  BY DEF Trimmed, OldestOf
<1> QED BY <1>2, <1>3 DEF Trimmed, Grows

LEMMA ReadyGrows ==
  ASSUME Sound(source), NEW after, NEW b, Ready(after, source, b),
         b \notin In(source) => b.id = calls + 1
  PROVE  Grows(after)
<1>1. IsStore(source) BY DEF Sound
<1>2. ASSUME NEW c \in In(after), c \in In(source)
      PROVE  Extends(after.files[c], source.files[c])
  <2>1. after.files[c] = source.files[c] BY <1>2 DEF Ready
  <2>2. source.files[c] \in Seq(Byte) BY <1>1, <1>2, FileType
  <2> QED BY <2>1, <2>2, ExtendsSame
<1>3. ASSUME NEW c \in In(after), c \notin In(source) PROVE c.id = calls + 1
  BY <1>3 DEF Ready
<1> QED BY <1>2, <1>3 DEF Ready, Grows

LEMMA WrittenGrows ==
  ASSUME NEW st, Grows(st), NEW b \in In(st), NEW data \in Seq(Byte), NEW n \in Nat,
         Len(data) <= n, CurrentSize(st) + n <= MaxSize, Sound(source)
  PROVE  Grows(Count(Write(st, b, data), b, n))
<1> DEFINE written == Write(st, b, data)
           after == Count(written, b, n)
<1>0. Sound(st) BY DEF Grows
<1>1. /\ Sound(after) /\ Wrote(st, written, b, data) /\ Counted(written, after, b, n)
      /\ IsStore(written)
  BY <1>0, AppendSound
<1> HIDE DEF written, after
<1>2. In(after) = In(st) /\ after.files = written.files /\ In(written) = In(st)
  BY <1>1 DEF Wrote, Counted
<1>3. ASSUME NEW c \in In(after), c \in In(source)
      PROVE  Extends(after.files[c], source.files[c])
  <2>0. IsStore(source) /\ IsStore(st) BY <1>0 DEF Sound
  <2>1. /\ source.files[c] \in Seq(Byte) /\ st.files[c] \in Seq(Byte)
        /\ written.files[c] \in Seq(Byte)
    BY <1>1, <1>2, <1>3, <2>0, FileType
  <2>2. Extends(st.files[c], source.files[c]) BY <1>2, <1>3 DEF Grows
  <2>3. Extends(written.files[c], st.files[c])
    <3>1. CASE c = b BY <1>1, <3>1 DEF Wrote
    <3>2. CASE c # b
      <4>1. written.files[c] = st.files[c] BY <1>1, <1>2, <3>2 DEF Wrote
      <4> QED BY <2>1, <4>1, ExtendsSame
    <3> QED BY <3>1, <3>2
  <2> QED BY <1>2, <2>1, <2>2, <2>3, ExtendsTwice
<1>4. Grows(after) BY <1>1, <1>2, <1>3 DEF Grows
<1> QED BY <1>4 DEF after, written

LEMMA OpenGrows ==
  ASSUME NEW st, Grows(st), StoreAssumption PROVE Grows(Open(st.files))
<1>1. /\ Sound(Open(st.files)) /\ In(Open(st.files)) = In(st)
      /\ Open(st.files).files = st.files
  BY OpenSound DEF Grows
<1> QED BY <1>1 DEF Grows

LEMMA PartSeq ==
  ASSUME calls \in Nat, NEW n \in Nat, NEW k \in 0..n
  PROVE  /\ Part(n, k) \in Seq(Byte) /\ Len(Part(n, k)) = k /\ k \in Nat /\ k <= n
         /\ \A i \in 1..k : Part(n, k)[i] = <<calls + 1, i, n>>
<1> DEFINE data == Bytes(calls + 1, n)
<1>1. calls + 1 \in Nat /\ k \in Nat /\ k <= n BY SMT
<1>2. data \in Seq(Byte) /\ Len(data) = n /\ \A i \in 1..n : data[i] = <<calls + 1, i, n>>
  BY <1>1, BytesSeq
<1> HIDE DEF data
<1>3. /\ SubSeq(data, 1, k) \in Seq(Byte) /\ Len(SubSeq(data, 1, k)) = k
      /\ \A i \in 1..k : SubSeq(data, 1, k)[i] = data[i]
  BY <1>2, StartOf
<1>4. \A i \in 1..k : i \in 1..n BY <1>1, SMT
<1> QED BY <1>1, <1>2, <1>3, <1>4 DEF Part, data

\* A call of record by what becomes of it: nothing is written, and the log may
\* be opened again, or k bytes are, which are taken for n or found to be k.
LEMMA CallSteps ==
  ASSUME calls \in Nat, NEW s \in Starts, NEW n \in Lengths, Calling(s, n), LogAssumption
  PROVE  LET st == Prepared(s, n)
             b == Bucket(st, s)
         IN /\ n \in Nat /\ n # 0 /\ calls < MaxRecords /\ n < MaxSize /\ calls' = calls + 1
            /\ writer' = NoWriter \/ writer' = writer \/ writer' = b
            /\ \/ /\ writes' = writes
                  /\ \E after \in Preparing(s, n) \cup {st} :
                       source' = after \/ source' = Open(after.files)
               \/ \E k \in 1..n :
                    /\ Takes(b, n, k)
                    /\ \/ source' = Count(Write(st, b, Part(n, k)), b, n)
                       \/ source' = Open(Write(st, b, Part(n, k)).files)
<1> DEFINE st == Prepared(s, n)
           b == Bucket(st, s)
<1>1. Call(s, n) BY DEF Calling, Record, RecordFails, RecordShort, SourceDies
<1>2. n \in Nat /\ n # 0 /\ calls < MaxRecords /\ n < MaxSize /\ calls' = calls + 1
  BY <1>1 DEF Call, LogAssumption
<1>3. CASE Record(s, n)
  <2>1. n \in 1..n /\ calls + 1 \in Nat BY <1>2, SMT
  <2> DEFINE data == Bytes(calls + 1, n)
  <2>2. data \in Seq(Byte) /\ Len(data) = n BY <1>2, <2>1, BytesSeq
  <2> HIDE DEF data
  <2>3. SubSeq(data, 1, n) = data BY <2>2, SubSeqFull
  <2>4. Part(n, n) = data BY <2>3 DEF Part, data
  <2>5. WriterOf(b) = b BY DEF WriterOf
  <2>6. source' = Count(Write(st, WriterOf(b), data), b, n) /\ writer' = WriterOf(b) /\ Takes(b, n, n)
    BY <1>3 DEF Record, data
  <2> HIDE DEF st, b
  <2>7. source' = Count(Write(st, b, Part(n, n)), b, n) /\ writer' = b BY <2>4, <2>5, <2>6
  <2> QED BY <1>2, <2>1, <2>6, <2>7 DEF st, b
<1>4. CASE RecordFails(s, n)
  <2>1. /\ writes' = writes /\ (writer' = NoWriter \/ writer' = writer \/ writer' = b)
        /\ source' \in Preparing(s, n) \cup {st}
    BY <1>4 DEF RecordFails
  <2>2. \E after \in Preparing(s, n) \cup {st} : source' = after \/ source' = Open(after.files)
    BY <2>1
  <2> HIDE DEF st, b
  <2> QED BY <1>2, <2>1, <2>2 DEF st, b
<1>5. CASE RecordShort(s, n)
  <2>1. /\ \E k \in 1..(n - 1) :
             source' = Count(Write(st, b, Part(n, k)), b, n) /\ Takes(b, n, k)
        /\ writer' = b
    BY <1>5 DEF RecordShort
  <2>2. \A k \in 1..(n - 1) : k \in 1..n BY <1>2, SMT
  <2> HIDE DEF st, b
  <2> QED BY <1>2, <2>1, <2>2 DEF st, b
<1>6. CASE SourceDies(s, n)
  <2>1. /\ \/ /\ \E died \in Preparing(s, n) \cup {st} : source' = Open(died.files)
              /\ writes' = writes
           \/ \E k \in 1..n : source' = Open(Write(st, b, Part(n, k)).files) /\ Takes(b, n, k)
        /\ writer' = NoWriter
    BY <1>6 DEF SourceDies
  <2> HIDE DEF st, b
  <2> QED BY <1>2, <2>1 DEF st, b
<1> QED BY <1>3, <1>4, <1>5, <1>6 DEF Calling

\* What is in the source then, and that there was room for what was written.
LEMMA CallStores ==
  ASSUME Sound(source), Known(source), calls \in Nat, NEW s \in Starts, NEW n \in Lengths,
         StoreAssumption, LogAssumption, Calling(s, n)
  PROVE  LET st == Prepared(s, n)
             b == Bucket(st, s)
         IN /\ Ready(st, source, b) /\ b \in Buckets /\ b.start = s /\ b.id <= calls + 1
            /\ b \notin In(source) => b.id = calls + 1
            /\ \E after \in Preparing(s, n) \cup {st} :
                 /\ Sound(after) /\ In(source') = In(after)
                 /\ after # st => Trimmed(after, source)
                 /\ \/ writes' = writes /\ (source' = after \/ source' = Open(after.files))
                    \/ /\ after = st
                       /\ \E k \in 1..n :
                            LET w == Write(st, b, Part(n, k))
                                counted == Count(w, b, n)
                            IN /\ Takes(b, n, k)
                               /\ source' = counted \/ source' = Open(counted.files)
                               /\ Sound(counted) /\ Wrote(st, w, b, Part(n, k))
                               /\ Counted(w, counted, b, n)
<1> DEFINE st == Prepared(s, n)
           b == Bucket(st, s)
<1>1. /\ n \in Nat /\ n # 0 /\ calls < MaxRecords /\ n < MaxSize /\ calls' = calls + 1
      /\ \/ /\ writes' = writes
            /\ \E after \in Preparing(s, n) \cup {st} :
                 source' = after \/ source' = Open(after.files)
         \/ \E k \in 1..n :
              /\ Takes(b, n, k)
              /\ \/ source' = Count(Write(st, b, Part(n, k)), b, n)
                 \/ source' = Open(Write(st, b, Part(n, k)).files)
  BY CallSteps
<1>2. /\ Ready(st, source, b) /\ CurrentSize(st) + n <= MaxSize
      /\ b \in Buckets /\ b.start = s /\ b.id <= calls + 1
      /\ b \notin In(source) => b.id = calls + 1
      /\ \A after \in Preparing(s, n) : Trimmed(after, source)
  BY <1>1, PreparedReady
<1>3. Sound(st) /\ b \in In(st) BY <1>2 DEF Ready
<1> HIDE DEF st, b
<1>4. ASSUME writes' = writes, NEW after \in Preparing(s, n) \cup {st},
             source' = after \/ source' = Open(after.files)
      PROVE  /\ Sound(after) /\ In(source') = In(after)
             /\ after # st => Trimmed(after, source)
  <2>1. Sound(after) /\ (after # st => Trimmed(after, source)) BY <1>2, <1>3, <1>4 DEF Trimmed
  <2>2. In(Open(after.files)) = In(after) BY <2>1, OpenSound
  <2> QED BY <1>4, <2>1, <2>2
<1>5. ASSUME NEW k \in 1..n,
             \/ source' = Count(Write(st, b, Part(n, k)), b, n)
             \/ source' = Open(Write(st, b, Part(n, k)).files)
      PROVE  LET w == Write(st, b, Part(n, k))
                 counted == Count(w, b, n)
             IN /\ In(source') = In(st)
                /\ source' = counted \/ source' = Open(counted.files)
                /\ Sound(counted) /\ Wrote(st, w, b, Part(n, k)) /\ Counted(w, counted, b, n)
  <2> DEFINE part == Part(n, k)
             w == Write(st, b, part)
             counted == Count(w, b, n)
  <2>1. k \in 0..n BY <1>1, SMT
  <2>2. part \in Seq(Byte) /\ Len(part) <= n BY <1>1, <2>1, PartSeq
  <2> HIDE DEF part
  <2>3. Sound(counted) /\ Wrote(st, w, b, part) /\ Counted(w, counted, b, n)
    BY <1>1, <1>2, <1>3, <2>2, AppendSound
  <2>4. source' = counted \/ source' = Open(w.files) BY <1>5 DEF part
  <2> HIDE DEF w, counted
  <2>5. counted.files = w.files /\ In(counted) = In(st) BY <2>3 DEF Wrote, Counted
  <2>6. In(Open(counted.files)) = In(counted) BY <2>3, OpenSound
  <2> QED BY <2>3, <2>4, <2>5, <2>6 DEF counted, w, part
<1>6. CASE /\ writes' = writes
           /\ \E after \in Preparing(s, n) \cup {st} : source' = after \/ source' = Open(after.files)
  <2>1. PICK after \in Preparing(s, n) \cup {st} : source' = after \/ source' = Open(after.files)
    BY <1>6
  <2> QED BY <1>2, <1>4, <1>6, <2>1 DEF st, b
<1>7. CASE \E k \in 1..n : /\ Takes(b, n, k)
                           /\ \/ source' = Count(Write(st, b, Part(n, k)), b, n)
                              \/ source' = Open(Write(st, b, Part(n, k)).files)
  <2>1. PICK k \in 1..n : /\ Takes(b, n, k)
                          /\ \/ source' = Count(Write(st, b, Part(n, k)), b, n)
                             \/ source' = Open(Write(st, b, Part(n, k)).files)
    BY <1>7
  <2>2. /\ In(source') = In(st) /\ st \in Preparing(s, n) \cup {st}
        /\ LET w == Write(st, b, Part(n, k))
               counted == Count(w, b, n)
           IN /\ source' = counted \/ source' = Open(counted.files)
              /\ Sound(counted) /\ Wrote(st, w, b, Part(n, k)) /\ Counted(w, counted, b, n)
    BY <1>5, <2>1
  <2> QED BY <1>2, <1>3, <2>1, <2>2 DEF st, b
<1> QED BY <1>1, <1>6, <1>7

\* The call of record, whatever becomes of it.
LEMMA RecordingGrows ==
  ASSUME Sound(source), Known(source), calls \in Nat, NEW s \in Starts, NEW n \in Lengths,
         StoreAssumption, LogAssumption, Calling(s, n)
  PROVE  /\ Grows(source') /\ calls' = calls + 1 /\ calls < MaxRecords
         /\ writer' = NoWriter \/ writer' = writer \/ writer'.start \in Starts
<1> DEFINE st == Prepared(s, n)
           b == Bucket(st, s)
<1>1. /\ n \in Nat /\ calls < MaxRecords /\ n < MaxSize /\ calls' = calls + 1
      /\ writer' = NoWriter \/ writer' = writer \/ writer' = b
  BY CallSteps
<1>2. /\ Ready(st, source, b) /\ CurrentSize(st) + n <= MaxSize /\ b.start = s
      /\ b \notin In(source) => b.id = calls + 1
      /\ \A after \in Preparing(s, n) : Trimmed(after, source)
  BY <1>1, PreparedReady
<1>3. b \in In(st) /\ Grows(st) BY <1>2, ReadyGrows DEF Ready
<1>4. \A after \in Preparing(s, n) : Grows(after) BY <1>2, TrimmedGrows
<1>5. \/ \E after \in Preparing(s, n) \cup {st} : source' = after \/ source' = Open(after.files)
      \/ \E k \in 1..n : LET counted == Count(Write(st, b, Part(n, k)), b, n)
                         IN source' = counted \/ source' = Open(counted.files)
  BY CallStores
<1> HIDE DEF st, b
<1>6. ASSUME NEW k \in 1..n PROVE Grows(Count(Write(st, b, Part(n, k)), b, n))
  <2>1. k \in 0..n BY <1>1, SMT
  <2>2. Part(n, k) \in Seq(Byte) /\ Len(Part(n, k)) <= n BY <1>1, <2>1, PartSeq
  <2> QED BY <1>1, <1>2, <1>3, <2>2, WrittenGrows
<1>7. Grows(source') BY <1>3, <1>4, <1>5, <1>6, OpenGrows
<1> QED BY <1>1, <1>2, <1>7

-----------------------------------------------------------------------------
(* What a sync takes of the source *)

Items == [bucket : Buckets, position : Nat, data : Seq(Byte)]

\* The data of an item are bytes of the bucket's file.
Copies(item, file) ==
  item.data # <<>> =>
    /\ item.position + Len(item.data) <= Len(file)
    /\ \A i \in 1..Len(item.data) : item.data[i] = file[item.position + i]

LEMMA ItemType ==
  ASSUME NEW item \in Items
  PROVE  item.bucket \in Buckets /\ item.position \in Nat /\ item.data \in Seq(Byte)
BY DEF Items

LEMMA UnreadOf ==
  ASSUME Sound(source), NEW seen, seen \in [DOMAIN seen -> Nat], NEW b \in In(source)
  PROVE  /\ Position(seen, b) \in Nat /\ Position(seen, b) <= source.sizes[b]
         /\ Unread(seen, b) \in Nat
         /\ Unread(seen, b) # 0 => Position(seen, b) + Unread(seen, b) <= Len(source.files[b])
         /\ Position(seen, b) + Unread(seen, b) <= source.sizes[b]
<1>1. source.sizes[b] \in Nat /\ Len(source.files[b]) \in Nat
  BY FileType DEF Sound
<1>2. b \in DOMAIN seen => seen[b] \in Nat OBVIOUS
<1>3. Position(seen, b) \in Nat /\ Position(seen, b) <= source.sizes[b]
  BY <1>1, <1>2, SMT DEF Position
<1> DEFINE from == Position(seen, b)
           length == Len(source.files[b])
           size == source.sizes[b]
<1>4. Unread(seen, b) = LET end == IF length < size THEN length ELSE size
                        IN IF end > from THEN end - from ELSE 0
  BY DEF Unread
<1> HIDE DEF from, length, size
<1>5. from \in Nat /\ length \in Nat /\ size \in Nat /\ from <= size
  BY <1>1, <1>3 DEF from, length, size
<1>6. /\ Unread(seen, b) \in Nat
      /\ Unread(seen, b) # 0 => from + Unread(seen, b) <= length
      /\ from + Unread(seen, b) <= size
  BY <1>4, <1>5, SMT
<1> QED BY <1>3, <1>6 DEF from, length, size

\* The numbers of a set that holds the smaller ones of each.
LEMMA Initial ==
  ASSUME NEW m \in Nat, NEW K \in SUBSET (1..m), \A i \in K, j \in 1..m : j <= i => j \in K
  PROVE  \E k \in 0..m : K = 1..k
<1>1. CASE K = 1..m
  <2>1. m \in 0..m BY SMT
  <2> QED BY <1>1, <2>1
<1>2. CASE K # 1..m
  <2> DEFINE T == (1..m) \ K
  <2>0. 1..m \subseteq Nat BY SMT
  <2>1. T \in SUBSET Nat /\ T # {} BY <1>2, <2>0
  <2>2. PICK i \in T : \A j \in T : i <= j BY <2>1, LeastExists
  <2>3. i \in 1..m /\ i \notin K BY <2>2
  <2>4. i - 1 \in 0..m BY <2>3, SMT
  <2>5. ASSUME NEW j \in K PROVE j \in 1..(i - 1)
    <3>1. j \in 1..m BY <2>5
    <3>2. ~(i <= j) BY <2>3, <2>5
    <3> QED BY <2>3, <3>1, <3>2, SMT
  <2>6. ASSUME NEW j \in 1..(i - 1) PROVE j \in K
    <3>1. j \in 1..m /\ ~(i <= j) BY <2>3, SMT
    <3> QED BY <2>2, <3>1
  <2>7. K = 1..(i - 1) BY <2>5, <2>6
  <2> QED BY <2>4, <2>7
<1> QED BY <1>1, <1>2

LEMMA ReadOf ==
  ASSUME NEW file \in Seq(Byte), NEW from \in Nat, NEW n \in Nat,
         n # 0 => from + n <= Len(file)
  PROVE  /\ Read(file, from, n) \in Seq(Byte) /\ Len(Read(file, from, n)) = n
         /\ \A i \in 1..n : Read(file, from, n)[i] = file[from + i]
<1> DEFINE lo == from + 1
           hi == from + n
<1>1. Len(file) \in Nat BY LenProperties
<1>2. lo \in Int /\ hi \in Int /\ hi - lo + 1 = n /\ (IF lo <= hi THEN hi - lo + 1 ELSE 0) = n
  BY SMT
<1>3. \A i \in lo..hi : file[i] \in Byte
  <2>1. ASSUME NEW i \in lo..hi PROVE i \in 1..Len(file) BY <1>1, SMT
  <2> HIDE DEF lo, hi
  <2> QED BY <2>1, ElementOfSeq
<1>4. \A i \in 1..n : lo + i - 1 = from + i BY SMT
<1>5. Read(file, from, n) = SubSeq(file, lo, hi) BY DEF Read
<1> HIDE DEF lo, hi
<1>6. /\ SubSeq(file, lo, hi) \in Seq(Byte)
      /\ Len(SubSeq(file, lo, hi)) = IF lo <= hi THEN hi - lo + 1 ELSE 0
      /\ \A i \in 1..(hi - lo + 1) : SubSeq(file, lo, hi)[i] = file[lo + i - 1]
  BY <1>2, <1>3, SubSeqProperties
<1> QED BY <1>2, <1>4, <1>5, <1>6

LEMMA BatchItems ==
  ASSUME Sound(source), NEW seen, seen \in [DOMAIN seen -> Nat], NEW order \in Seq(In(source)),
         LogAssumption
  PROVE  LET items == Batch(seen, order)
         IN /\ items \in Seq(Items) /\ Len(items) <= Len(order)
            /\ \A i \in 1..Len(items) :
                 /\ items[i].bucket = order[i] /\ items[i].position = Position(seen, order[i])
                 /\ Copies(items[i], source.files[order[i]])
                 /\ items[i].position + Len(items[i].data) <= source.sizes[order[i]]
<1> DEFINE m == Len(order)
           unread == [i \in DOMAIN order |-> Unread(seen, order[i])]
           before(i) == SumFunctionOnSet(unread, 1..(i - 1))
           items == {i \in DOMAIN order : before(i) < MaxBytes}
           length(i) == IF before(i) + unread[i] > MaxBytes THEN MaxBytes - before(i)
                        ELSE unread[i]
           from(i) == Position(seen, order[i])
           data(i) == Read(source.files[order[i]], from(i), length(i))
           batch == [i \in items |-> [bucket |-> order[i], position |-> from(i), data |-> data(i)]]
<1>1. m \in Nat /\ DOMAIN order = 1..m BY LenProperties
<1>2. ASSUME NEW i \in 1..m PROVE order[i] \in In(source) BY ElementOfSeq
<1>3. Batch(seen, order) = batch BY DEF Batch
<1>4. ASSUME NEW i \in 1..m
      PROVE  /\ unread[i] \in Nat /\ from(i) \in Nat
             /\ unread[i] # 0 => from(i) + unread[i] <= Len(source.files[order[i]])
             /\ from(i) + unread[i] <= source.sizes[order[i]]
  <2>1. unread[i] = Unread(seen, order[i]) BY <1>1
  <2> HIDE DEF unread
  <2> QED BY <1>2, <2>1, UnreadOf
<1>5. MaxBytes \in Nat \ {0} BY DEF LogAssumption
<1>6. ASSUME NEW i \in 1..m
      PROVE  IsFiniteSet(1..(i - 1)) /\ Terms(unread, 1..(i - 1)) /\ before(i) \in Nat
  <2>1. 1..(i - 1) \subseteq 1..m BY <1>1, SMT
  <2>2. 1 \in Int /\ i - 1 \in Int BY SMT
  <2>3. IsFiniteSet(1..(i - 1)) BY <2>2, FS_Interval
  <2> HIDE DEF unread
  <2>4. Terms(unread, 1..(i - 1)) BY <1>4, <2>1 DEF Terms
  <2> QED BY <2>3, <2>4, SumNat
<1>7. PICK k \in 0..m : items = 1..k
  <2>1. items \in SUBSET (1..m) BY <1>1
  <2>2. ASSUME NEW i \in items, NEW j \in 1..m, j <= i PROVE j \in items
    <3>1. i \in 1..m /\ before(i) < MaxBytes BY <1>1
    <3>2. before(j) <= before(i)
      <4>1. 1..(j - 1) \in SUBSET (1..(i - 1)) BY <1>1, <2>2, <3>1, SMT
      <4>2. \A x \in 1..(j - 1) : unread[x] <= unread[x]
        <5>1. Terms(unread, 1..(j - 1)) BY <1>6
        <5> HIDE DEF unread
        <5> QED BY <5>1, SMT DEF Terms
      <4>3. IsFiniteSet(1..(i - 1)) /\ Terms(unread, 1..(i - 1)) /\ Terms(unread, 1..(j - 1))
        BY <1>6, <3>1
      <4> HIDE DEF unread
      <4> QED BY <4>1, <4>2, <4>3, SumLess
    <3>3. before(i) \in Nat /\ before(j) \in Nat BY <1>6, <3>1
    <3> HIDE DEF before
    <3>4. before(j) < MaxBytes BY <1>5, <3>1, <3>2, <3>3, SMT
    <3> QED BY <1>1, <3>4
  <2> HIDE DEF items
  <2> QED BY <1>1, <2>1, <2>2, Initial
<1>8. k \in Nat /\ \A i \in 1..k : i \in 1..m BY <1>1, <1>7, SMT
<1>9. ASSUME NEW i \in 1..k
      PROVE  /\ from(i) \in Nat /\ data(i) \in Seq(Byte)
             /\ data(i) # <<>> => /\ from(i) + Len(data(i)) <= Len(source.files[order[i]])
                                  /\ \A x \in 1..Len(data(i)) :
                                       data(i)[x] = source.files[order[i]][from(i) + x]
             /\ from(i) + Len(data(i)) <= source.sizes[order[i]]
  <2>1. i \in 1..m /\ i \in items BY <1>7, <1>8
  <2>2. before(i) < MaxBytes BY <2>1
  <2>3. before(i) \in Nat /\ unread[i] \in Nat /\ from(i) \in Nat BY <1>4, <1>6, <2>1
  <2>4. length(i) \in Nat /\ length(i) <= unread[i]
    <3> HIDE DEF before, unread
    <3> QED BY <1>5, <2>2, <2>3, SMT
  <2>5. /\ source.files[order[i]] \in Seq(Byte) /\ Len(source.files[order[i]]) \in Nat
        /\ source.sizes[order[i]] \in Nat
    BY <1>2, <2>1, FileType DEF Sound
  <2>6. /\ unread[i] # 0 => from(i) + unread[i] <= Len(source.files[order[i]])
        /\ from(i) + unread[i] <= source.sizes[order[i]]
    BY <1>4, <2>1
  <2> HIDE DEF length, unread, from
  <2>7. ASSUME length(i) # 0
        PROVE  from(i) + length(i) <= Len(source.files[order[i]])
    <3>1. unread[i] # 0 BY <2>3, <2>4, <2>7, SMT
    <3>2. from(i) + unread[i] <= Len(source.files[order[i]]) BY <2>6, <3>1
    <3> DEFINE end == Len(source.files[order[i]])
    <3>3. end \in Nat /\ from(i) + unread[i] <= end BY <2>5, <3>2
    <3> HIDE DEF end
    <3>4. from(i) + length(i) <= end BY <2>3, <2>4, <3>3, SMT
    <3> QED BY <3>4 DEF end
  <2>8. from(i) + length(i) <= source.sizes[order[i]] BY <2>3, <2>4, <2>5, <2>6, SMTT(20)
  <2>9. /\ data(i) \in Seq(Byte) /\ Len(data(i)) = length(i)
        /\ \A x \in 1..length(i) : data(i)[x] = source.files[order[i]][from(i) + x]
    BY <2>3, <2>4, <2>5, <2>7, ReadOf, ZenonT(30)
  <2>10. data(i) # <<>> => length(i) # 0
    <3> HIDE DEF data
    <3> QED BY <2>9, EmptySeq
  <2> HIDE DEF data
  <2> QED BY <2>3, <2>7, <2>8, <2>9, <2>10
<1>10. /\ DOMAIN batch = 1..k
       /\ \A i \in 1..k : batch[i] = [bucket |-> order[i], position |-> from(i), data |-> data(i)]
  <2> HIDE DEF data, from, items
  <2> QED BY <1>7
<1> HIDE DEF data, from, items
<1>11. ASSUME NEW i \in 1..k PROVE batch[i] \in Items
  <2>1. order[i] \in Buckets BY <1>2, <1>8, FileType DEF Sound
  <2> HIDE DEF batch
  <2> QED BY <1>9, <1>10, <2>1 DEF Items
<1>12. batch \in Seq(Items) /\ Len(batch) = k
  <2>1. batch = [i \in 1..k |-> batch[i]] BY <1>7
  <2> HIDE DEF batch
  <2> QED BY <1>8, <1>11, <2>1, FileSeq
<1> HIDE DEF batch
<1>13. k <= m BY <1>1, <1>7, SMT
<1>14. ASSUME NEW i \in 1..k
       PROVE  /\ batch[i].bucket = order[i] /\ batch[i].position = from(i)
              /\ Copies(batch[i], source.files[order[i]])
              /\ batch[i].position + Len(batch[i].data) <= source.sizes[order[i]]
  <2>1. /\ batch[i].bucket = order[i] /\ batch[i].position = from(i) /\ batch[i].data = data(i)
    BY <1>10
  <2> QED BY <1>9, <2>1 DEF Copies
<1> QED BY <1>3, <1>12, <1>13, <1>14 DEF from

Distinct(s) == \A i, j \in 1..Len(s) : i # j => s[i] # s[j]

\* An order of a set has each element once.
LEMMA OrderOf ==
  ASSUME NEW S, IsFiniteSet(S), NEW f \in SetToSeqs(S)
  PROVE  f \in Seq(S) /\ Distinct(f) /\ \A x \in S : \E i \in 1..Len(f) : f[i] = x
<1> DEFINE n == Cardinality(S)
           D == 1..n
<1>1. n \in Nat BY FS_CardinalityType
<1>2. f \in [D -> S] /\ \A i, j \in D : i # j => f[i] # f[j] BY DEF SetToSeqs
<1>3. f \in Seq(S) /\ Len(f) = n
  <2>1. f = [i \in D |-> f[i]] /\ \A i \in D : f[i] \in S BY <1>2
  <2> HIDE DEF n
  <2> QED BY <1>1, <2>1, FileSeq
<1>4. IsFiniteSet(D) /\ Cardinality(D) = n
  <2>1. 1 \in Int /\ n \in Int /\ (IF 1 > n THEN 0 ELSE n - 1 + 1) = n BY <1>1, SMT
  <2> HIDE DEF n
  <2>2. IsFiniteSet(1..n) /\ Cardinality(1..n) = IF 1 > n THEN 0 ELSE n - 1 + 1
    BY <2>1, FS_Interval
  <2> QED BY <2>1, <2>2
<1>5. \A x \in S : \E i \in D : f[i] = x
  <2>1. f \in Injection(D, S) BY <1>2 DEF Injection, IsInjective
  <2>2. f \in Surjection(D, S)
    <3> HIDE DEF D
    <3> QED BY <1>4, <2>1, FS_Injection
  <2> QED BY <2>2 DEF Surjection
<1> QED BY <1>2, <1>3, <1>5 DEF Distinct

\* What the items say of the source as it is.
Carries(items) ==
  \A i \in 1..Len(items) :
    /\ items[i].bucket.id <= calls
    /\ items[i].bucket \in In(source) => Copies(items[i], source.files[items[i].bucket])

\* The items bring a store st to what src was when they were taken: first go the
\* buckets that src has not, and nothing will be longer than it is in src.
Ordered(items, src) ==
  \A i, j \in 1..Len(items) : i < j =>
    /\ items[i].bucket # items[j].bucket
    /\ items[j].bucket \notin In(src) => items[i].bucket \notin In(src)
Removes(item, st, src) ==
  item.bucket \notin In(src) => item.bucket \in In(st) /\ item.position = 0 /\ item.data = <<>>
Adds(item, st, src) ==
  item.bucket \in In(src) =>
    /\ item.position + Len(item.data) <= src.sizes[item.bucket]
    /\ \/ item.position = 0
       \/ item.bucket \in In(st) /\ st.sizes[item.bucket] = item.position
Below(st, src) == \A c \in In(st) : c \in In(src) => st.sizes[c] <= src.sizes[c]
Covers(items, st, src) ==
  \A c \in In(st) : c \notin In(src) => \E i \in 1..Len(items) : items[i].bucket = c
Fits(items, st, src) ==
  /\ Ordered(items, src) /\ Below(st, src) /\ Covers(items, st, src)
  /\ \A i \in 1..Len(items) : Removes(items[i], st, src) /\ Adds(items[i], st, src)

LEMMA UnseenItems ==
  ASSUME Sound(source), Sound(mirror), Known(source), Known(mirror), LogAssumption,
         NEW gone \in SetToSeqs(Gone(mirror.sizes)), NEW bad,
         NEW grown \in SetToSeqs(Grown(mirror.sizes) \ bad),
         NEW new \in SetToSeqs(New(mirror.sizes) \ bad)
  PROVE  LET items == Deletions(gone) \o Batch(mirror.sizes, grown \o new)
         IN /\ items \in Seq(Items) /\ Carries(items)
            /\ Below(mirror, source) => Fits(items, mirror, source)
<1> DEFINE seen == mirror.sizes
           order == grown \o new
           batch == Batch(seen, order)
           first == Deletions(gone)
           items == first \o batch
<1>1. IsStore(source) /\ IsStore(mirror) BY DEF Sound
<1>2. IsFiniteSet(In(source)) /\ IsFiniteSet(In(mirror)) /\ DOMAIN seen = In(mirror)
  BY <1>1 DEF IsStore, In
<1>3. /\ Gone(seen) \subseteq In(mirror) \ In(source)
      /\ In(mirror) \ In(source) \subseteq Gone(seen)
      /\ Grown(seen) \subseteq In(source) \cap In(mirror)
      /\ New(seen) \subseteq In(source) \ In(mirror)
  BY <1>2 DEF Gone, Grown, New
<1>4. IsFiniteSet(Gone(seen)) /\ IsFiniteSet(Grown(seen) \ bad) /\ IsFiniteSet(New(seen) \ bad)
  BY <1>2, <1>3, FS_Subset
<1>5. /\ gone \in Seq(Gone(seen)) /\ Distinct(gone)
      /\ \A x \in Gone(seen) : \E i \in 1..Len(gone) : gone[i] = x
  BY <1>4, OrderOf
<1>6. grown \in Seq(Grown(seen) \ bad) /\ Distinct(grown) BY <1>4, OrderOf
<1>7. new \in Seq(New(seen) \ bad) /\ Distinct(new) BY <1>4, OrderOf
<1>8. grown \in Seq(In(source)) /\ new \in Seq(In(source))
  BY <1>3, <1>6, <1>7, SeqMonotonic
<1>9. /\ Len(gone) \in Nat /\ Len(grown) \in Nat /\ Len(new) \in Nat /\ DOMAIN gone = 1..Len(gone)
  BY <1>5, <1>6, <1>7, LenProperties
<1>10. /\ order \in Seq(In(source)) /\ Len(order) = Len(grown) + Len(new)
       /\ \A i \in 1..Len(grown) + Len(new) :
            order[i] = IF i <= Len(grown) THEN grown[i] ELSE new[i - Len(grown)]
  BY <1>8, ConcatProperties
<1>11. \A i \in 1..Len(gone) : gone[i] \in Gone(seen) BY <1>5, ElementOfSeq
<1>12. \A i \in 1..Len(grown) : grown[i] \in Grown(seen) BY <1>6, ElementOfSeq
<1>13. \A i \in 1..Len(new) : new[i] \in New(seen) BY <1>7, ElementOfSeq
<1> HIDE DEF order
<1>14. Distinct(order)
  <2>1. ASSUME NEW i \in 1..Len(order), NEW j \in 1..Len(order), i < j
        PROVE  order[i] # order[j]
    <3>1. CASE j <= Len(grown)
      <4>1. i \in 1..Len(grown) /\ j \in 1..Len(grown) /\ i # j /\ i <= Len(grown)
        BY <1>9, <1>10, <2>1, <3>1, SMT
      <4>2. order[i] = grown[i] /\ order[j] = grown[j] BY <1>10, <3>1, <4>1
      <4> QED BY <1>6, <4>1, <4>2 DEF Distinct
    <3>2. CASE ~(j <= Len(grown)) /\ i <= Len(grown)
      <4>1. i \in 1..Len(grown) /\ j - Len(grown) \in 1..Len(new)
        BY <1>9, <1>10, <2>1, <3>2, SMT
      <4>2. order[i] = grown[i] /\ order[j] = new[j - Len(grown)] BY <1>10, <3>2
      <4>3. order[i] \in In(mirror) /\ order[j] \notin In(mirror)
        BY <1>3, <1>12, <1>13, <4>1, <4>2
      <4> QED BY <4>3
    <3>3. CASE ~(i <= Len(grown))
      <4>1. /\ ~(j <= Len(grown)) /\ i - Len(grown) # j - Len(grown)
            /\ i - Len(grown) \in 1..Len(new) /\ j - Len(grown) \in 1..Len(new)
        BY <1>9, <1>10, <2>1, <3>3, SMT
      <4>2. order[i] = new[i - Len(grown)] /\ order[j] = new[j - Len(grown)]
        BY <1>10, <3>3, <4>1
      <4> QED BY <1>7, <4>1, <4>2 DEF Distinct
    <3> QED BY <3>1, <3>2, <3>3
  <2>2. ASSUME NEW i \in 1..Len(order), NEW j \in 1..Len(order), i # j
        PROVE  order[i] # order[j]
    <3>1. i < j \/ j < i BY <1>9, <1>10, <2>2, SMT
    <3> QED BY <2>1, <3>1
  <2> QED BY <2>2 DEF Distinct
<1>15. seen \in [DOMAIN seen -> Nat] BY <1>1, <1>2 DEF IsStore
<1>16. /\ batch \in Seq(Items) /\ Len(batch) <= Len(order)
       /\ \A i \in 1..Len(batch) :
            /\ batch[i].bucket = order[i] /\ batch[i].position = Position(seen, order[i])
            /\ Copies(batch[i], source.files[order[i]])
            /\ batch[i].position + Len(batch[i].data) <= source.sizes[order[i]]
  BY <1>10, <1>15, BatchItems
<1>17. /\ first \in Seq(Items) /\ Len(first) = Len(gone)
       /\ \A i \in 1..Len(gone) :
            first[i].bucket = gone[i] /\ first[i].position = 0 /\ first[i].data = <<>>
  <2> DEFINE none == <<>>
  <2>1. /\ first = [i \in 1..Len(gone) |-> first[i]]
        /\ \A i \in 1..Len(gone) :
             first[i] = [bucket |-> gone[i], position |-> 0, data |-> none]
    BY <1>9 DEF Deletions
  <2>2. 0 \in Nat /\ none \in Seq(Byte) BY EmptySeq, SMT
  <2> HIDE DEF none, first
  <2>3. ASSUME NEW i \in 1..Len(gone)
        PROVE  /\ first[i] \in Items /\ first[i].bucket = gone[i]
               /\ first[i].position = 0 /\ first[i].data = none
    <3>1. gone[i] \in Buckets BY <1>1, <1>3, <1>11, FileType
    <3> QED BY <2>1, <2>2, <3>1 DEF Items
  <2>4. first \in Seq(Items) /\ Len(first) = Len(gone)
    BY <1>9, <2>1, <2>3, FileSeq
  <2> QED BY <2>3, <2>4 DEF none
<1> HIDE DEF batch, first
<1>18. /\ items \in Seq(Items) /\ Len(items) = Len(first) + Len(batch)
       /\ \A i \in 1..Len(first) + Len(batch) :
            items[i] = IF i <= Len(first) THEN first[i] ELSE batch[i - Len(first)]
  <2>1. first \in Seq(Items) /\ batch \in Seq(Items) BY <1>16, <1>17
  <2> QED BY <2>1, ConcatProperties, Zenon
<1> HIDE DEF items
<1> DEFINE n == Len(gone)
<1>19. Len(batch) \in Nat /\ Len(order) \in Nat BY <1>10, <1>16, LenProperties
\* The items by their two kinds.
<1>20. ASSUME NEW i \in 1..Len(items)
       PROVE  \/ /\ i <= n /\ i \in 1..n
                 /\ items[i].bucket = gone[i]
                 /\ items[i].position = 0 /\ items[i].data = <<>>
              \/ /\ ~(i <= n) /\ i - n \in 1..Len(batch) /\ i - n \in 1..Len(order)
                 /\ items[i] = batch[i - n]
  <2>1. i \in 1..Len(first) + Len(batch) BY <1>18
  <2>2. CASE i <= n
    <3>1. i \in 1..n BY <1>9, <1>19, <2>2, SMT
    <3>2. items[i] = first[i] BY <1>17, <1>18, <2>1, <2>2
    <3> QED BY <1>17, <2>2, <3>1, <3>2
  <2>3. CASE ~(i <= n)
    <3>1. i - n \in 1..Len(batch) /\ i - n \in 1..Len(order)
      <4> HIDE DEF n
      <4>1. n \in Nat /\ Len(first) = n BY <1>9, <1>17 DEF n
      <4> QED BY <1>16, <1>19, <2>1, <2>3, <4>1, SMT
    <3>2. items[i] = batch[i - n] BY <1>17, <1>18, <2>1, <2>3
    <3> QED BY <2>3, <3>1, <3>2
  <2> QED BY <2>2, <2>3
<1>21. ASSUME NEW i \in 1..n
       PROVE  /\ i \in 1..Len(items)
              /\ items[i].bucket = gone[i]
              /\ items[i].position = 0 /\ items[i].data = <<>>
              /\ gone[i] \in In(mirror) /\ gone[i] \notin In(source)
  <2>1. n \in Nat /\ Len(items) = n + Len(batch) BY <1>9, <1>17, <1>18
  <2>2. i \in 1..Len(items) /\ i <= n
    <3> HIDE DEF n
    <3> QED BY <1>19, <2>1, SMT
  <2>3. ~(~(i <= n)) BY <2>2
  <2>4. gone[i] \in Gone(seen) BY <1>11
  <2> QED BY <1>3, <1>20, <2>2, <2>3, <2>4
<1>22. ASSUME NEW i \in 1..Len(batch)
       PROVE  /\ batch[i].bucket = order[i] /\ order[i] \in In(source)
              /\ batch[i].position = Position(seen, order[i])
              /\ Copies(batch[i], source.files[order[i]])
              /\ batch[i].position + Len(batch[i].data) <= source.sizes[order[i]]
  <2>1. i \in 1..Len(order) BY <1>16, <1>19, SMT
  <2>2. order[i] \in In(source) BY <1>10, <2>1, ElementOfSeq
  <2> QED BY <1>16, <2>2
<1> HIDE DEF n
<1>23. Carries(items)
  <2>1. ASSUME NEW i \in 1..Len(items)
        PROVE  /\ items[i].bucket.id <= calls
               /\ items[i].bucket \in In(source) =>
                    Copies(items[i], source.files[items[i].bucket])
    <3>1. CASE i \in 1..n BY <1>21, <3>1 DEF Known
    <3>2. CASE i - n \in 1..Len(batch) /\ items[i] = batch[i - n]
      BY <1>22, <3>2 DEF Known
    <3> QED BY <1>20, <3>1, <3>2
  <2> QED BY <2>1 DEF Carries
<1>24. ASSUME Below(mirror, source) PROVE Fits(items, mirror, source)
  <2>1. Covers(items, mirror, source)
    <3>1. ASSUME NEW c \in In(mirror), c \notin In(source)
          PROVE  \E i \in 1..Len(items) : items[i].bucket = c
      <4>1. PICK i \in 1..n : gone[i] = c BY <1>3, <1>5, <3>1 DEF n
      <4> QED BY <1>21, <4>1
    <3> QED BY <3>1 DEF Covers
  <2>2. Ordered(items, source)
    <3>1. ASSUME NEW i \in 1..Len(items), NEW j \in 1..Len(items), i < j
          PROVE  /\ items[i].bucket # items[j].bucket
                 /\ items[j].bucket \notin In(source) => items[i].bucket \notin In(source)
      <4>0. n \in Nat /\ Len(items) \in Nat BY <1>9, <1>18, LenProperties DEF n
      <4>1. CASE j \in 1..n
        <5>1. i \in 1..n /\ i # j BY <3>1, <4>0, <4>1, SMT
        <5>2. gone[i] # gone[j] BY <1>5, <4>1, <5>1 DEF Distinct, n
        <5> QED BY <1>21, <4>1, <5>1, <5>2
      <4>2. CASE j - n \in 1..Len(batch) /\ items[j] = batch[j - n]
        <5>1. items[j].bucket = order[j - n] /\ order[j - n] \in In(source) BY <1>22, <4>2
        <5>2. CASE i \in 1..n BY <1>21, <5>1, <5>2
        <5>3. CASE i - n \in 1..Len(batch) /\ items[i] = batch[i - n]
          <6>1. items[i].bucket = order[i - n] BY <1>22, <5>3
          <6>2. i - n # j - n BY <3>1, <4>0, SMT
          <6>3. i - n \in 1..Len(order) /\ j - n \in 1..Len(order)
            BY <1>16, <1>19, <4>2, <5>3, SMT
          <6>4. order[i - n] # order[j - n] BY <1>14, <6>2, <6>3 DEF Distinct
          <6> QED BY <5>1, <6>1, <6>4
        <5> QED BY <1>20, <5>2, <5>3
      <4> QED BY <1>20, <4>1, <4>2
    <3> QED BY <3>1 DEF Ordered
  <2>3. ASSUME NEW i \in 1..Len(items)
        PROVE  Removes(items[i], mirror, source) /\ Adds(items[i], mirror, source)
    <3>1. CASE i \in 1..n BY <1>21, <3>1 DEF Removes, Adds
    <3>2. CASE i - n \in 1..Len(batch) /\ items[i] = batch[i - n]
      <4> DEFINE b == order[i - n]
      <4>1. /\ items[i].bucket = b /\ b \in In(source) /\ items[i].position = Position(seen, b)
            /\ items[i].position + Len(items[i].data) <= source.sizes[b]
        BY <1>22, <3>2
      <4> HIDE DEF b
      <4>2. items[i].position = 0 \/ (b \in In(mirror) /\ mirror.sizes[b] = items[i].position)
        BY <1>2, <4>1 DEF Position
      <4> QED BY <4>1, <4>2 DEF Removes, Adds
    <3> QED BY <1>20, <3>1, <3>2
  <2> QED BY <1>24, <2>1, <2>2, <2>3 DEF Fits
<1> QED BY <1>18, <1>23, <1>24 DEF items, batch, first, order

-----------------------------------------------------------------------------
(* What the mirror does with an item *)

\* A store with nothing that st has not, but b, which may be empty now.
Reduced(after, st, b) ==
  \A c \in In(after) :
    \/ c \in In(st) /\ after.sizes[c] = st.sizes[c] /\ after.files[c] = st.files[c]
    \/ c = b /\ after.sizes[c] = 0 /\ after.files[c] = <<>>

LEMMA ReducedTwice ==
  ASSUME NEW st, NEW mid, NEW after, NEW b, Reduced(mid, st, b), Reduced(after, mid, b)
  PROVE  Reduced(after, st, b)
BY DEF Reduced

LEMMA LessReduced ==
  ASSUME NEW st, NEW after, NEW b, Less(after, st) PROVE Reduced(after, st, b)
BY DEF Less, Reduced

LEMMA NoSurplus ==
  ASSUME NEW st, IsStore(st), Cardinality(In(st)) <= MaxBuckets - 1, StoreAssumption
  PROVE  Surplus(st) = {}
<1>1. IsFiniteSet(In(st)) /\ Cardinality(In(st)) \in Nat /\ MaxBuckets \in Nat
  BY FS_CardinalityType DEF IsStore, StoreAssumption
<1>2. ASSUME NEW c \in In(st) PROVE ~(Cardinality(In(st) \ Earlier(st, c)) > MaxBuckets - 1)
  <2>1. In(st) \ Earlier(st, c) \in SUBSET In(st) OBVIOUS
  <2>2. Cardinality(In(st) \ Earlier(st, c)) <= Cardinality(In(st))
    BY <1>1, <2>1, FS_Subset
  <2>3. IsFiniteSet(In(st) \ Earlier(st, c)) BY <1>1, <2>1, FS_Subset
  <2>4. Cardinality(In(st) \ Earlier(st, c)) \in Nat BY <2>3, FS_CardinalityType
  <2> QED BY <1>1, <2>2, <2>4, SMT
<1> QED BY <1>2 DEF Surplus

LEMMA ExistsStore ==
  ASSUME NEW st, Sound(st), NEW b \in Buckets, At(st, b.start) \subseteq {b},
         StoreAssumption, LogAssumption
  PROVE  LET after == Exists(st, b)
         IN /\ Sound(after) /\ Reduced(after, st, b) /\ b \in In(after)
            /\ At(after, b.start) = {b} /\ In(after) \subseteq In(st) \cup {b}
            /\ b \in In(st) => after = st
            /\ b \notin In(st) => after.sizes[b] = 0 /\ after.files[b] = <<>>
            /\ Cardinality(In(st)) <= MaxBuckets - 1 => In(st) \subseteq In(after)
<1> DEFINE after == Exists(st, b)
<1>1. b \in In(st) <=> At(st, b.start) # {} BY DEF At
<1>2. ASSUME NEW x, Sound(x), b \in In(x) PROVE At(x, b.start) = {b}
  BY <1>2 DEF At, Sound, OneEach
<1>3. CASE b \in In(st)
  <2>1. after = st BY <1>1, <1>3 DEF Exists
  <2>2. Reduced(st, st, b) BY DEF Reduced
  <2> HIDE DEF after
  <2> QED BY <1>2, <1>3, <2>1, <2>2 DEF after
<1>4. CASE b \notin In(st)
  <2>1. after = Create(st, b) BY <1>1, <1>4 DEF Exists
  <2>2. At(st, b.start) = {} BY <1>1, <1>4
  <2>3. Ready(Create(st, b), st, b) /\ Added1(Delete(st, Surplus(st)), Create(st, b), b)
    BY <2>2, CreateReady, CreateStore
  <2> HIDE DEF after
  <2>4. Ready(after, st, b) /\ Added1(Delete(st, Surplus(st)), after, b) BY <2>1, <2>3
  <2>5. Sound(after) /\ b \in In(after) /\ Reduced(after, st, b) BY <2>4 DEF Ready, Reduced
  <2>6. In(after) \subseteq In(st) \cup {b} BY <2>4 DEF Ready
  <2>7. after.sizes[b] = 0 /\ after.files[b] = <<>> BY <1>4, <2>4, <2>5 DEF Ready
  <2>8. ASSUME Cardinality(In(st)) <= MaxBuckets - 1 PROVE In(st) \subseteq In(after)
    <3>1. IsStore(st) BY DEF Sound
    <3>2. Surplus(st) = {} BY <2>8, <3>1, NoSurplus
    <3>3. In(Delete(st, Surplus(st))) = In(st) BY <3>1, <3>2, DeleteStore
    <3> QED BY <2>4, <3>3 DEF Added1
  <2> QED BY <1>2, <1>4, <2>5, <2>6, <2>7, <2>8 DEF after
<1> QED BY <1>3, <1>4

\* What of the stores on the way to the item's write a step leaves.
LEMMA ItemStores ==
  ASSUME Sound(mirror), NEW item \in Items, StoreAssumption, LogAssumption
  PROVE  LET b == item.bucket
             C == Cleared(item)
             W == Writable(item)
         IN /\ Sound(C) /\ Reduced(C, mirror, b)
            /\ Sound(W) /\ Reduced(W, mirror, b) /\ Reduced(W, C, b) /\ In(C) \subseteq In(W)
            /\ In(W) \subseteq In(C) \cup {b}
            /\ item.data # <<>> => b \in In(W)
            /\ item.data = <<>> => W = C
            /\ item.position = 0 => b \notin In(C)
            /\ item.position # 0 /\ b \in In(mirror) => 
                 b \in In(W) /\ W.sizes[b] = mirror.sizes[b] /\ W.files[b] = mirror.files[b]
            /\ item.position = 0 /\ item.data # <<>> => W.sizes[b] = 0 /\ W.files[b] = <<>>
            /\ \A after \in Applying(item) : Sound(after) /\ Reduced(after, mirror, b)
<1> DEFINE b == item.bucket
           R == Replaced(item)
           X == Exists(R, b)
           C == Cleared(item)
           W == Writable(item)
<1>1. b \in Buckets /\ item.position \in Nat BY ItemType
<1>2. IsStore(mirror) BY DEF Sound
<1>3. /\ Sound(R) /\ Less(R, mirror) /\ In(R) = In(mirror) \ Foreign(mirror, b)
  BY <1>2, DeleteSound, DeleteStore DEF Replaced
<1>4. At(R, b.start) \subseteq {b} BY <1>3 DEF At, Foreign
<1> HIDE DEF b, R
<1>5. /\ Sound(X) /\ Reduced(X, R, b) /\ b \in In(X) /\ At(X, b.start) = {b}
      /\ b \in In(R) => X = R
  BY <1>1, <1>3, <1>4, ExistsStore
<1>6. b \in In(mirror) => b \in In(R) BY <1>3 DEF Foreign
<1>7. C = IF item.position = 0 THEN Delete(X, {b}) ELSE X BY DEF Cleared, b, R
<1>8. W = IF item.data = <<>> THEN C ELSE Exists(C, b) BY DEF Writable, b
<1> HIDE DEF X, C, W
<1>9. Reduced(X, mirror, b) BY <1>3, <1>5, LessReduced, ReducedTwice
<1>10. /\ Sound(C) /\ Reduced(C, X, b) /\ At(C, b.start) \subseteq {b}
       /\ item.position = 0 => In(C) = In(X) \ {b}
       /\ item.position # 0 => C = X
  <2>1. CASE item.position = 0
    <3>1. IsStore(X) BY <1>5 DEF Sound
    <3>2. Sound(C) /\ Less(C, X) /\ In(C) = In(X) \ {b}
      BY <1>5, <1>7, <2>1, <3>1, DeleteSound, DeleteStore
    <3>3. At(C, b.start) \subseteq {b} BY <1>5, <3>2 DEF At
    <3> QED BY <2>1, <3>2, <3>3, LessReduced
  <2>2. CASE item.position # 0
    <3>1. C = X BY <1>7, <2>2
    <3>2. Reduced(C, C, b) BY DEF Reduced
    <3> QED BY <1>5, <2>2, <3>1, <3>2
  <2> QED BY <2>1, <2>2
<1>11. Reduced(C, mirror, b) BY <1>9, <1>10, ReducedTwice
<1>12. ASSUME item.data # <<>>
       PROVE  /\ Sound(W) /\ Reduced(W, C, b) /\ b \in In(W)
              /\ In(W) \subseteq In(C) \cup {b} /\ In(C) \subseteq In(W)
              /\ b \in In(C) => W = C
              /\ b \notin In(C) => W.sizes[b] = 0 /\ W.files[b] = <<>>
  <2>1. W = Exists(C, b) BY <1>8, <1>12
  <2>2. /\ Sound(W) /\ Reduced(W, C, b) /\ b \in In(W) /\ In(W) \subseteq In(C) \cup {b}
        /\ b \in In(C) => W = C
        /\ b \notin In(C) => W.sizes[b] = 0 /\ W.files[b] = <<>>
        /\ Cardinality(In(C)) <= MaxBuckets - 1 => In(C) \subseteq In(W)
    BY <1>1, <1>10, <2>1, ExistsStore
  <2>3. In(C) \subseteq In(W)
    <3>1. CASE item.position = 0
      <4>1. IsFiniteSet(In(X)) /\ In(C) = In(X) \ {b} BY <1>5, <1>10, <3>1 DEF Sound, IsStore
      <4>2. Cardinality(In(X)) \in Nat /\ Cardinality(In(X)) <= MaxBuckets
        BY <1>5, <4>1, FS_CardinalityType DEF Sound, Small
      <4>3. Cardinality(In(C)) = Cardinality(In(X)) - 1 BY <1>5, <4>1, FS_RemoveElement
      <4>4. MaxBuckets \in Nat BY DEF StoreAssumption
      <4>5. Cardinality(In(C)) <= MaxBuckets - 1 BY <4>2, <4>3, <4>4, SMT
      <4> QED BY <2>2, <4>5
    <3>2. CASE item.position # 0
      <4>1. C = X BY <1>10, <3>2
      <4> QED BY <1>5, <2>2, <4>1
    <3> QED BY <3>1, <3>2
  <2> QED BY <2>2, <2>3
<1>13. item.data = <<>> => W = C BY <1>8
<1>14. /\ Sound(W) /\ Reduced(W, C, b) /\ In(C) \subseteq In(W) /\ In(W) \subseteq In(C) \cup {b}
  <2>1. Reduced(C, C, b) BY DEF Reduced
  <2> QED BY <1>10, <1>12, <1>13, <2>1
<1>15. Reduced(W, mirror, b) BY <1>11, <1>14, ReducedTwice
<1>16. item.position = 0 => b \notin In(C) BY <1>10
<1>17. ASSUME item.position # 0, b \in In(mirror)
       PROVE  b \in In(W) /\ W.sizes[b] = mirror.sizes[b] /\ W.files[b] = mirror.files[b]
  <2>1. X = R /\ b \in In(R) BY <1>5, <1>6, <1>17
  <2>2. C = R BY <1>10, <1>17, <2>1
  <2>3. W = R BY <1>12, <1>13, <2>1, <2>2
  <2> QED BY <1>3, <2>1, <2>3 DEF Less
<1>18. item.position = 0 /\ item.data # <<>> => W.sizes[b] = 0 /\ W.files[b] = <<>>
  BY <1>12, <1>16
<1>19. ASSUME NEW after \in Applying(item) PROVE Sound(after) /\ Reduced(after, mirror, b)
  <2>1. \/ after = mirror \/ after = R \/ after = X \/ after = C \/ after = W
        \/ At(R, b.start) = {} /\ after \in Creating(R, b)
    BY DEF Applying, b, R, X, C, W
  <2>2. Reduced(mirror, mirror, b) BY DEF Reduced
  <2>3. ASSUME At(R, b.start) = {}, after \in Creating(R, b)
        PROVE  Sound(after) /\ Reduced(after, mirror, b)
    <3>1. Trimmed(after, R) BY <1>1, <1>3, <2>3, CreateReady
    <3>2. Reduced(after, R, b) /\ Reduced(R, mirror, b)
      BY <1>3, <3>1, LessReduced DEF Trimmed
    <3> QED BY <3>1, <3>2, ReducedTwice DEF Trimmed
  <2>4. Reduced(R, mirror, b) BY <1>3, LessReduced
  <2> QED BY <1>3, <1>5, <1>9, <1>10, <1>11, <1>14, <1>15, <2>1, <2>2, <2>3, <2>4
<1> QED BY <1>10, <1>11, <1>12, <1>13, <1>14, <1>15, <1>16, <1>17, <1>18, <1>19 DEF b, C, W

\* A store that mirrors the source: no bucket is longer than the source's, and
\* one that is not in loose is as long as it is in memory, and a prefix of the
\* source's.
Mirrors(st, loose) ==
  \A b \in In(st) :
    /\ b \in In(source) => st.sizes[b] <= Len(source.files[b])
    /\ b \notin loose => st.sizes[b] = Len(st.files[b])
    /\ b \notin loose /\ b \in In(source) => Extends(source.files[b], st.files[b])

LEMMA ReducedMirrors ==
  ASSUME Sound(source), NEW st, NEW after, NEW b, NEW loose, NEW less,
         Mirrors(st, loose), Reduced(after, st, b),
         \A c \in In(after) : c \in loose => c \in less \/ (c = b /\ after.files[c] = <<>>
                                                                /\ after.sizes[c] = 0)
  PROVE  Mirrors(after, less)
<1>1. ASSUME NEW c \in In(after)
      PROVE  /\ c \in In(source) => after.sizes[c] <= Len(source.files[c])
             /\ c \notin less => after.sizes[c] = Len(after.files[c])
             /\ c \notin less /\ c \in In(source) => Extends(source.files[c], after.files[c])
  <2>1. CASE after.sizes[c] = 0 /\ after.files[c] = <<>>
    <3>1. Len(<<>>) = 0 BY EmptySeq
    <3>2. Len(after.files[c]) = 0 BY <2>1, <3>1
    <3>3. c \in In(source) => Len(source.files[c]) \in Nat BY FileType DEF Sound
    <3>4. c \in In(source) => after.sizes[c] <= Len(source.files[c]) BY <2>1, <3>3, SMT
    <3>5. c \in In(source) => Extends(source.files[c], after.files[c])
      BY <3>2, <3>3, SMT DEF Extends
    <3> QED BY <2>1, <3>2, <3>4, <3>5
  <2>2. CASE /\ c \in In(st) /\ after.sizes[c] = st.sizes[c] /\ after.files[c] = st.files[c]
             /\ ~(after.sizes[c] = 0 /\ after.files[c] = <<>>)
    <3>1. c \notin less => c \notin loose BY <2>2
    <3> QED BY <2>2, <3>1 DEF Mirrors
  <2> QED BY <2>1, <2>2 DEF Reduced
<1> QED BY <1>1 DEF Mirrors

LEMMA OpenMirrors ==
  ASSUME Sound(source), NEW st, Sound(st), NEW loose, Mirrors(st, loose), StoreAssumption
  PROVE  Mirrors(Open(st.files), loose)
<1> DEFINE after == Open(st.files)
<1>1. /\ In(after) = In(st) /\ after.files = st.files
      /\ \A b \in In(st) : after.sizes[b] = Len(st.files[b])
  BY OpenSound
<1> HIDE DEF after
<1>2. ASSUME NEW b \in In(after), b \in In(source) PROVE after.sizes[b] <= Len(source.files[b])
  <2>1. Len(st.files[b]) \in Nat /\ st.sizes[b] \in Nat /\ Len(st.files[b]) <= st.sizes[b]
    BY <1>1, FileType DEF Sound, Full
  <2>2. Len(source.files[b]) \in Nat BY <1>2, FileType DEF Sound
  <2>3. st.sizes[b] <= Len(source.files[b]) BY <1>1, <1>2 DEF Mirrors
  <2>4. after.sizes[b] = Len(st.files[b]) BY <1>1
  <2> QED BY <2>1, <2>2, <2>3, <2>4, SMT
<1>3. Mirrors(after, loose) BY <1>1, <1>2 DEF Mirrors
<1> QED BY <1>3 DEF after

\* A write of the item's data, or of the first bytes of it.
Written(st, item, k) == Write(st, item.bucket, SubSeq(item.data, 1, k))
Appended(st, item, k) == Count(Written(st, item, k), item.bucket, Len(item.data))

\* What becomes of a store in which k bytes of an item are written, whether the
\* bucket is counted then or the store opened again.
Taken(st, item, k, loose) ==
  LET written == Written(st, item, k)
      after == Appended(st, item, k)
      b == item.bucket
  IN /\ Sound(after) /\ In(after) = In(st)
     /\ \A c \in In(st) : c # b => after.sizes[c] = st.sizes[c]
     /\ after.sizes[b] = item.position + Len(item.data)
     /\ Mirrors(after, loose \cup {b})
     /\ k = Len(item.data) => Mirrors(after, loose)
     /\ Sound(Open(written.files)) /\ In(Open(written.files)) = In(st)
     /\ Mirrors(Open(written.files), loose)

LEMMA ItemWritten ==
  ASSUME Sound(source), NEW st, Sound(st), NEW loose, Mirrors(st, loose),
         NEW item \in Items, item.data # <<>>, item.bucket \in In(st),
         item.bucket \in In(source) => Copies(item, source.files[item.bucket]),
         st.sizes[item.bucket] = item.position, CurrentSize(st) + Len(item.data) <= MaxSize,
         NEW k \in 0..Len(item.data), StoreAssumption
  PROVE  Taken(st, item, k, loose)
<1> DEFINE b == item.bucket
           n == Len(item.data)
           part == SubSeq(item.data, 1, k)
           written == Write(st, b, part)
           after == Count(written, b, n)
           opened == Open(written.files)
<1>1. item.position \in Nat /\ item.data \in Seq(Byte) /\ n \in Nat
  BY ItemType, LenProperties
<1>2. part \in Seq(Byte) /\ Len(part) = k /\ \A i \in 1..k : part[i] = item.data[i]
  BY <1>1, StartOf
<1>3. k \in Nat /\ k <= n BY <1>1, SMT
<1> HIDE DEF part
<1>4. /\ Sound(after) /\ Wrote(st, written, b, part) /\ Counted(written, after, b, n)
      /\ IsStore(written)
  BY <1>1, <1>2, <1>3, AppendSound
<1> HIDE DEF written, after
<1>5. /\ In(written) = In(st) /\ In(after) = In(st) /\ after.files = written.files
      /\ \A c \in In(st) : c # b => /\ written.files[c] = st.files[c]
                                    /\ after.sizes[c] = st.sizes[c]
      /\ after.sizes[b] = item.position + n
  BY <1>4 DEF Wrote, Counted
<1>6. opened = Open(after.files) BY <1>5
<1>7. /\ Sound(opened) /\ In(opened) = In(st) /\ opened.files = written.files
      /\ \A c \in In(st) : opened.sizes[c] = Len(written.files[c])
  BY <1>4, <1>5, <1>6, OpenSound
<1> HIDE DEF opened, n
<1>8. /\ st.files[b] \in Seq(Byte) /\ Len(st.files[b]) \in Nat /\ st.sizes[b] \in Nat
      /\ Len(st.files[b]) <= st.sizes[b] /\ written.files[b] \in Seq(Byte)
      /\ Len(written.files[b]) \in Nat
  BY <1>4, <1>5, FileType DEF Sound, Full
<1>9. Len(written.files[b]) <= item.position + n
      /\ (b \notin loose => Len(written.files[b]) = item.position + k)
  <2>1. CASE part = <<>>
    <3>1. k = 0 /\ written.files[b] = st.files[b]
      BY <1>2, <1>4, <2>1, EmptySeq DEF Wrote
    <3>2. b \notin loose => st.sizes[b] = Len(st.files[b]) BY DEF Mirrors
    <3> QED BY <1>1, <1>8, <3>1, <3>2, SMT
  <2>2. CASE part # <<>>
    <3>1. Len(written.files[b]) = item.position + k BY <1>2, <1>4, <2>2 DEF Wrote
    <3> QED BY <1>1, <1>3, <3>1, SMT
  <2> QED BY <2>1, <2>2
<1>10. ASSUME b \in In(source)
       PROVE  /\ item.position + n <= Len(source.files[b]) /\ Len(source.files[b]) \in Nat
              /\ Len(written.files[b]) <= Len(source.files[b])
              /\ b \notin loose => Extends(source.files[b], written.files[b])
  <2>1. /\ item.position + n <= Len(source.files[b])
        /\ \A i \in 1..n : item.data[i] = source.files[b][item.position + i]
    BY <1>10 DEF Copies, n
  <2>2. Len(source.files[b]) \in Nat BY <1>10, FileType DEF Sound
  <2>3. Len(written.files[b]) <= Len(source.files[b]) BY <1>1, <1>8, <1>9, <2>1, <2>2, SMTT(20)
  <2>4. ASSUME b \notin loose, NEW i \in 1..Len(written.files[b])
        PROVE  source.files[b][i] = written.files[b][i]
    <3>1. st.sizes[b] = Len(st.files[b]) /\ Extends(source.files[b], st.files[b])
      BY <1>10, <2>4 DEF Mirrors
    <3>2. CASE i <= item.position
      <4>1. i \in 1..Len(st.files[b]) BY <1>1, <1>8, <2>4, <3>1, <3>2, SMT
      <4>2. written.files[b][i] = st.files[b][i] BY <1>4, <4>1 DEF Wrote, Extends
      <4>3. source.files[b][i] = st.files[b][i] BY <3>1, <4>1 DEF Extends
      <4> QED BY <4>2, <4>3
    <3>3. CASE ~(i <= item.position)
      <4> DEFINE j == i - item.position
      <4>1. Len(written.files[b]) = item.position + k BY <1>9, <2>4
      <4>2. j \in 1..k /\ j \in 1..n /\ item.position + j = i
        BY <1>1, <1>3, <4>1, <3>3, SMT
      <4> HIDE DEF j
      <4>3. written.files[b][st.sizes[b] + j] = part[j] BY <1>2, <1>4, <4>2 DEF Wrote
      <4>4. part[j] = source.files[b][item.position + j] BY <1>2, <2>1, <4>2
      <4> QED BY <4>2, <4>3, <4>4
    <3> QED BY <3>2, <3>3
  <2>5. b \notin loose => Extends(source.files[b], written.files[b])
    BY <2>3, <2>4 DEF Extends
  <2> QED BY <2>1, <2>2, <2>3, <2>5
<1>11. ASSUME NEW more, \A c \in In(st) : c # b /\ c \notin more => c \notin loose,
              b \notin more => k = n /\ b \notin loose
       PROVE  Mirrors(after, more)
  <2>1. ASSUME NEW c \in In(after)
        PROVE  /\ c \in In(source) => after.sizes[c] <= Len(source.files[c])
               /\ c \notin more => after.sizes[c] = Len(after.files[c])
               /\ c \notin more /\ c \in In(source) =>
                    Extends(source.files[c], after.files[c])
    <3>1. CASE c # b
      <4>1. after.sizes[c] = st.sizes[c] /\ after.files[c] = st.files[c] /\ c \in In(st)
        BY <1>5, <3>1
      <4> QED BY <1>11, <3>1, <4>1 DEF Mirrors
    <3>2. CASE c = b BY <1>5, <1>9, <1>10, <1>11, <3>2
    <3> QED BY <3>1, <3>2
  <2> QED BY <2>1 DEF Mirrors
<1>12. Mirrors(after, loose \cup {b}) BY <1>11
<1>13. k = n => Mirrors(after, loose)
  <2>1. CASE b \notin loose BY <1>11, <2>1
  <2>2. CASE b \in loose
    <3>1. loose \cup {b} = loose BY <2>2
    <3> QED BY <1>12, <3>1
  <2> QED BY <2>1, <2>2
<1>14. Mirrors(opened, loose)
  <2>1. ASSUME NEW c \in In(opened)
        PROVE  /\ c \in In(source) => opened.sizes[c] <= Len(source.files[c])
               /\ c \notin loose => opened.sizes[c] = Len(opened.files[c])
               /\ c \notin loose /\ c \in In(source) =>
                    Extends(source.files[c], opened.files[c])
    <3>0. opened.sizes[c] = Len(written.files[c]) /\ opened.files[c] = written.files[c]
          /\ c \in In(st)
      BY <1>7
    <3>1. CASE c # b
      <4>1. written.files[c] = st.files[c] BY <1>5, <3>0, <3>1
      <4>2. c \in In(source) => st.sizes[c] <= Len(source.files[c]) BY <3>0 DEF Mirrors
      <4>3. /\ Len(st.files[c]) \in Nat /\ st.sizes[c] \in Nat /\ Len(st.files[c]) <= st.sizes[c]
            /\ c \in In(source) => Len(source.files[c]) \in Nat
        BY <3>0, FileType DEF Sound, Full
      <4>4. c \in In(source) => Len(st.files[c]) <= Len(source.files[c]) BY <4>2, <4>3, SMT
      <4> QED BY <3>0, <4>1, <4>4 DEF Mirrors
    <3>2. CASE c = b BY <1>10, <3>0, <3>2
    <3> QED BY <3>1, <3>2
  <2> QED BY <2>1 DEF Mirrors
<1>15. written = Written(st, item, k) /\ after = Appended(st, item, k)
  BY DEF written, after, n, part, Written, Appended
<1> QED BY <1>4, <1>5, <1>7, <1>12, <1>13, <1>14, <1>15 DEF opened, n, Taken

\* An item that needs no bucket deleted but its own leaves the others.
LEMMA OthersStay ==
  ASSUME Sound(mirror), NEW item \in Items, Foreign(mirror, item.bucket) = {},
         item.bucket \in In(mirror) \/ Cardinality(In(mirror)) <= MaxBuckets - 1,
         StoreAssumption, LogAssumption
  PROVE  In(mirror) \ {item.bucket} \subseteq In(Cleared(item))
<1> DEFINE b == item.bucket
           R == Replaced(item)
           X == Exists(R, b)
           C == Cleared(item)
<1>1. b \in Buckets BY ItemType
<1>2. IsStore(mirror) BY DEF Sound
<1>3. Sound(R) /\ In(R) = In(mirror) BY <1>2, DeleteSound, DeleteStore DEF Replaced
<1>4. At(R, b.start) \subseteq {b} BY <1>3 DEF At, Foreign
<1>5. C = IF item.position = 0 THEN Delete(X, {b}) ELSE X BY DEF Cleared
<1> HIDE DEF b, R, C
<1>6. /\ Sound(X)
      /\ b \in In(R) => X = R
      /\ Cardinality(In(R)) <= MaxBuckets - 1 => In(R) \subseteq In(X)
  BY <1>1, <1>3, <1>4, ExistsStore
<1> HIDE DEF X
<1>7. In(mirror) \subseteq In(X)
  <2>1. b \in In(mirror) \/ Cardinality(In(mirror)) <= MaxBuckets - 1 BY DEF b
  <2>2. CASE b \in In(mirror) BY <1>3, <1>6, <2>2
  <2>3. CASE Cardinality(In(mirror)) <= MaxBuckets - 1
    <3>1. Cardinality(In(R)) <= MaxBuckets - 1 BY <1>3, <2>3, Zenon
    <3> QED BY <1>3, <1>6, <3>1
  <2> QED BY <2>1, <2>2, <2>3
<1>8. In(Delete(X, {b})) = In(X) \ {b} BY <1>6, DeleteStore DEF Sound
<1> QED BY <1>5, <1>7, <1>8 DEF b, C

\* The source's limits hold for the mirror too.
LEMMA NoLarger ==
  ASSUME NEW st, IsStore(st), NEW src, Sound(src), In(st) \subseteq In(src), Below(st, src),
         StoreAssumption
  PROVE  CurrentSize(st) <= MaxSize
<1>1. IsStore(src) /\ CurrentSize(src) <= MaxSize /\ MaxSize \in Nat
  BY DEF Sound, Small, StoreAssumption
<1>2. /\ Terms(st.sizes, In(st)) /\ CurrentSize(st) = SumFunctionOnSet(st.sizes, In(st))
      /\ CurrentSize(st) \in Nat
  BY StoreSum
<1>3. /\ Terms(src.sizes, In(src)) /\ CurrentSize(src) = SumFunctionOnSet(src.sizes, In(src))
      /\ CurrentSize(src) \in Nat
  BY <1>1, StoreSum
<1>4. IsFiniteSet(In(src)) /\ In(st) \in SUBSET In(src) BY <1>1 DEF IsStore
<1>5. \A c \in In(st) : st.sizes[c] <= src.sizes[c] BY DEF Below
<1>6. SumFunctionOnSet(st.sizes, In(st)) <= SumFunctionOnSet(src.sizes, In(src))
  BY <1>2, <1>3, <1>4, <1>5, SumLess
<1> QED BY <1>1, <1>2, <1>3, <1>6, SMT

\* What a store is after the whole of an item was applied to the mirror.
Applied(after, item) ==
  /\ In(after) = In(Writable(item))
  /\ \A c \in In(after) : c # item.bucket => after.sizes[c] = Writable(item).sizes[c]
  /\ item.data # <<>> => after.sizes[item.bucket] = item.position + Len(item.data)
  /\ item.data = <<>> => after.sizes = Writable(item).sizes

LEMMA FirstFits ==
  ASSUME Sound(mirror), NEW src, Sound(src), NEW items \in Seq(Items), items # <<>>,
         Fits(items, mirror, src), StoreAssumption, LogAssumption
  PROVE  /\ Accepted(Head(items))
         /\ \A after : Applied(after, Head(items)) => Fits(Tail(items), after, src)
<1> DEFINE item == Head(items)
           rest == Tail(items)
           b == item.bucket
           W == Writable(item)
           C == Cleared(item)
<1>1. /\ item \in Items /\ item = items[1] /\ Len(items) \in Nat \ {0} /\ rest \in Seq(Items)
      /\ Len(rest) = Len(items) - 1 /\ \A i \in 1..Len(rest) : rest[i] = items[i + 1]
  <2>1. Len(items) \in Nat \ {0} BY EmptySeq
  <2>2. item = items[1] BY <2>1
  <2> QED BY <2>1, <2>2, HeadTailProperties
<1> HIDE DEF item, rest
<1>2. b \in Buckets /\ item.position \in Nat /\ item.data \in Seq(Byte) /\ Len(item.data) \in Nat
  BY <1>1, ItemType, LenProperties
<1>3. 1 \in 1..Len(items) BY <1>1, SMT
<1>4. ASSUME NEW i \in 1..Len(rest)
      PROVE  i + 1 \in 1..Len(items) /\ rest[i] = items[i + 1] /\ 1 < i + 1
  BY <1>1, SMT
<1>5. /\ Removes(item, mirror, src) /\ Adds(item, mirror, src) BY <1>1, <1>3 DEF Fits
<1>6. ASSUME NEW i \in 1..Len(rest)
      PROVE  /\ rest[i].bucket # b
             /\ rest[i].bucket \notin In(src) => b \notin In(src)
             /\ Removes(rest[i], mirror, src) /\ Adds(rest[i], mirror, src)
  BY <1>1, <1>3, <1>4 DEF Fits, Ordered
<1>7. Ordered(rest, src)
  <2>1. ASSUME NEW i \in 1..Len(rest), NEW j \in 1..Len(rest), i < j
        PROVE  /\ rest[i].bucket # rest[j].bucket
               /\ rest[j].bucket \notin In(src) => rest[i].bucket \notin In(src)
    <3> DEFINE k == i + 1
               l == j + 1
    <3>1. k < l BY <2>1, SMT
    <3>2. /\ k \in 1..Len(items) /\ l \in 1..Len(items)
          /\ rest[i] = items[k] /\ rest[j] = items[l]
      BY <1>4
    <3> HIDE DEF k, l
    <3> QED BY <3>1, <3>2 DEF Fits, Ordered
  <2> QED BY <2>1 DEF Ordered
<1>8. /\ Sound(C) /\ Reduced(C, mirror, b)
      /\ Sound(W) /\ Reduced(W, mirror, b) /\ Reduced(W, C, b) /\ In(C) \subseteq In(W)
      /\ In(W) \subseteq In(C) \cup {b}
      /\ item.data # <<>> => b \in In(W)
      /\ item.data = <<>> => W = C
      /\ item.position = 0 => b \notin In(C)
      /\ item.position # 0 /\ b \in In(mirror) => b \in In(W) /\ W.sizes[b] = mirror.sizes[b]
      /\ item.position = 0 /\ item.data # <<>> => W.sizes[b] = 0
  BY <1>1, ItemStores
<1> HIDE DEF W, C
\* The mirror has no other bucket that starts when b does, and room for b.
<1>9. Foreign(mirror, b) = {} /\ (b \in In(mirror) \/ Cardinality(In(mirror)) <= MaxBuckets - 1)
  <2>1. CASE b \in In(mirror)
    <3>1. Foreign(mirror, b) = {} BY <2>1 DEF Foreign, At, Sound, OneEach
    <3> QED BY <2>1, <3>1
  <2>2. CASE b \notin In(mirror)
    <3>1. b \in In(src) BY <1>5, <2>2 DEF Removes
    <3>2. In(mirror) \subseteq In(src) \ {b}
      <4>1. ASSUME NEW c \in In(mirror) PROVE c \in In(src)
        <5>1. SUFFICES ASSUME c \notin In(src) PROVE FALSE OBVIOUS
        <5>2. PICK i \in 1..Len(items) : items[i].bucket = c BY <5>1 DEF Fits, Covers
        <5>3. i # 1 BY <1>1, <3>1, <5>1, <5>2
        <5>4. 1 < i BY <5>3, SMT
        <5> QED BY <1>1, <1>3, <3>1, <5>1, <5>2, <5>4 DEF Fits, Ordered
      <4> QED BY <2>2, <4>1
    <3>3. Foreign(mirror, b) = {} BY <3>1, <3>2 DEF Foreign, At, Sound, OneEach
    <3>4. /\ IsFiniteSet(In(src)) /\ Cardinality(In(src)) \in Nat
          /\ Cardinality(In(src)) <= MaxBuckets /\ MaxBuckets \in Nat
      BY FS_CardinalityType DEF Sound, IsStore, Small, StoreAssumption
    <3>5. /\ IsFiniteSet(In(src) \ {b})
          /\ Cardinality(In(src) \ {b}) = Cardinality(In(src)) - 1
      BY <3>1, <3>4, FS_RemoveElement
    <3>6. Cardinality(In(mirror)) <= Cardinality(In(src) \ {b}) /\ IsFiniteSet(In(mirror))
      BY <3>2, <3>5, FS_Subset
    <3>7. Cardinality(In(mirror)) \in Nat BY <3>6, FS_CardinalityType
    <3>8. Cardinality(In(mirror)) <= MaxBuckets - 1 BY <3>4, <3>5, <3>6, <3>7, SMT
    <3> QED BY <3>3, <3>8
  <2> QED BY <2>1, <2>2
<1>10. In(mirror) \ {b} \subseteq In(C) BY <1>1, <1>9, OthersStay DEF b, C
<1>11. ASSUME NEW c, c # b
       PROVE  /\ c \in In(W) <=> c \in In(mirror)
              /\ c \in In(W) => W.sizes[c] = mirror.sizes[c]
  BY <1>8, <1>10, <1>11 DEF Reduced
<1>12. ASSUME item.data # <<>>
       PROVE  /\ b \in In(W) /\ W.sizes[b] = item.position /\ b \in In(src)
              /\ item.position + Len(item.data) <= src.sizes[b]
  <2>1. b \in In(src) BY <1>5, <1>12 DEF Removes
  <2> QED BY <1>5, <1>8, <1>12, <2>1 DEF Adds, b
<1>13. b \in In(src) => In(mirror) \subseteq In(src)
  <2> SUFFICES ASSUME b \in In(src), NEW c \in In(mirror), c \notin In(src) PROVE FALSE
    OBVIOUS
  <2>1. PICK i \in 1..Len(items) : items[i].bucket = c BY DEF Fits, Covers
  <2>2. i # 1 BY <1>1, <2>1 DEF b
  <2>3. 1 < i BY <2>2, SMT
  <2> QED BY <1>1, <1>3, <2>1, <2>3 DEF Fits, Ordered, b
<1>14. ASSUME NEW after, In(after) = In(W),
              \A c \in In(after) : c # b => after.sizes[c] = W.sizes[c],
              item.data # <<>> => after.sizes[b] = item.position + Len(item.data),
              item.data = <<>> => after.sizes = W.sizes
       PROVE  Fits(rest, after, src) /\ Below(after, src)
  <2>1. Below(after, src)
    <3>1. ASSUME NEW c \in In(after), c \in In(src) PROVE after.sizes[c] <= src.sizes[c]
      <4>1. CASE c # b BY <1>11, <1>14, <3>1, <4>1 DEF Fits, Below
      <4>2. CASE c = b /\ item.data # <<>> BY <1>12, <1>14, <4>2
      <4>3. CASE c = b /\ item.data = <<>>
        <5>1. item.position # 0 BY <1>8, <1>14, <4>3
        <5>2. b \in In(mirror) BY <1>5, <3>1, <4>3, <5>1 DEF Adds, b
        <5>3. after.sizes[b] = mirror.sizes[b] BY <1>8, <1>14, <4>3, <5>1, <5>2
        <5> QED BY <3>1, <4>3, <5>2, <5>3 DEF Fits, Below
      <4> QED BY <4>1, <4>2, <4>3
    <3> QED BY <3>1 DEF Below
  <2>2. Covers(rest, after, src)
    <3>1. ASSUME NEW c \in In(after), c \notin In(src)
          PROVE  \E i \in 1..Len(rest) : rest[i].bucket = c
      <4>1. c # b
        <5>1. SUFFICES ASSUME c = b PROVE FALSE OBVIOUS
        <5>2. item.position = 0 /\ item.data = <<>> BY <1>5, <3>1, <5>1 DEF Removes, b
        <5> QED BY <1>8, <1>14, <3>1, <5>1, <5>2
      <4>2. c \in In(mirror) BY <1>11, <1>14, <3>1, <4>1
      <4>3. PICK i \in 1..Len(items) : items[i].bucket = c BY <3>1, <4>2 DEF Fits, Covers
      <4>4. i # 1 BY <1>1, <4>1, <4>3 DEF b
      <4>5. i - 1 \in 1..Len(rest) /\ i = (i - 1) + 1 BY <1>1, <4>4, SMT
      <4> QED BY <1>4, <4>3, <4>5
    <3> QED BY <3>1 DEF Covers
  <2>3. ASSUME NEW i \in 1..Len(rest)
        PROVE  Removes(rest[i], after, src) /\ Adds(rest[i], after, src)
    <3>1. rest[i].bucket # b BY <1>6
    <3>2. rest[i].bucket \in In(mirror) =>
            /\ rest[i].bucket \in In(after)
            /\ after.sizes[rest[i].bucket] = mirror.sizes[rest[i].bucket]
      BY <1>11, <1>14, <3>1
    <3> QED BY <1>6, <3>2 DEF Removes, Adds
  <2> QED BY <1>7, <2>1, <2>2, <2>3 DEF Fits
<1>15. ASSUME item.data # <<>>
       PROVE  b \in In(W) /\ W.sizes[b] = item.position /\ Room(W) >= Len(item.data)
  <2> DEFINE n == Len(item.data)
             after == Count(W, b, n)
  <2>1. IsStore(W) /\ b \in In(W) /\ W.sizes[b] = item.position BY <1>8, <1>12, <1>15 DEF Sound
  <2>2. /\ IsStore(after) /\ Counted(W, after, b, n) /\ CurrentSize(after) = CurrentSize(W) + n
    BY <1>2, <2>1, CountStore
  <2> HIDE DEF after
  <2>3. Below(after, src) BY <1>14, <1>15, <2>1, <2>2 DEF Counted
  <2>4. In(after) \subseteq In(src) BY <1>11, <1>12, <1>13, <1>15, <2>2 DEF Counted
  <2>5. CurrentSize(after) <= MaxSize BY <2>2, <2>3, <2>4, NoLarger
  <2>6. CurrentSize(W) \in Nat /\ MaxSize \in Nat BY <2>1, StoreSum DEF StoreAssumption
  <2>7. Room(W) >= n
    <3> HIDE DEF n
    <3> QED BY <1>2, <2>2, <2>5, <2>6, SMT DEF Room, n
  <2> QED BY <2>1, <2>7
<1>16. Accepted(item) BY <1>15 DEF Accepted, W, b
<1>17. \A after : Applied(after, item) => Fits(rest, after, src)
  BY <1>14 DEF Applied, W, b
<1> QED BY <1>16, <1>17 DEF item, rest

-----------------------------------------------------------------------------
(* The invariant *)

Numbers ==
  /\ calls \in 0..MaxRecords /\ faults \in 0..MaxFaults
  /\ writer = NoWriter \/ writer.start \in Starts

\* Both stores are within their limits and nothing of them is from later calls.
StoresInv == /\ Sound(source) /\ Known(source) /\ Sound(mirror) /\ Known(mirror)
             /\ torn \subseteq In(mirror)

\* What a sync has under way is what the mirror has, or copies of the source.
SyncInv ==
  \/ sync = NoSync
  \/ sync = [at |-> "seen", sizes |-> mirror.sizes]
  \/ /\ sync = [at |-> "batch", items |-> sync.items]
     /\ sync.items \in Seq(Items) /\ sync.items # <<>> /\ Carries(sync.items)

\* The items bring the mirror to a store that is within the limits.
BatchInv ==
  sync.at = "batch" => \E src : Sound(src) /\ Fits(sync.items, mirror, src)

Inv == Numbers /\ StoresInv /\ SyncInv /\ Mirrors(mirror, torn) /\ BatchInv

LEMMA SyncKinds ==
  /\ NoSync.at = "none"
  /\ sync = [at |-> "seen", sizes |-> mirror.sizes] =>
       sync.at = "seen" /\ sync.sizes = mirror.sizes
  /\ \A items : [at |-> "batch", items |-> items].at = "batch"
                  /\ [at |-> "batch", items |-> items].items = items
BY DEF NoSync

LEMMA BatchFacts ==
  ASSUME Inv, sync.at = "batch"
  PROVE  /\ sync.items \in Seq(Items) /\ sync.items # <<>> /\ Carries(sync.items)
         /\ sync = [at |-> "batch", items |-> sync.items]
         /\ Item \in Items /\ Item = sync.items[1] /\ 1 \in 1..Len(sync.items)
         /\ Len(sync.items) \in Nat
         /\ Item.bucket \in Buckets /\ Item.bucket.id <= calls
         /\ Item.bucket \in In(source) => Copies(Item, source.files[Item.bucket])
<1>1. /\ sync.items \in Seq(Items) /\ sync.items # <<>> /\ Carries(sync.items)
      /\ sync = [at |-> "batch", items |-> sync.items]
  BY SyncKinds DEF Inv, SyncInv
<1>2. Len(sync.items) \in Nat \ {0} /\ Item = sync.items[1] /\ Item \in Items
  BY <1>1, EmptySeq, HeadTailProperties DEF Item
<1>3. 1 \in 1..Len(sync.items) BY <1>2, SMT
<1> QED BY <1>1, <1>2, <1>3, ItemType DEF Carries

LEMMA Initially ==
  ASSUME Init, StoreAssumption, LogAssumption PROVE Inv
<1> USE DEF Init
<1>1. In(NoStore) = {} BY DEF In, NoStore
<1>2. Sound(NoStore) BY NoStoreSound
<1>3. Numbers BY SMT DEF Numbers, LogAssumption
<1>4. StoresInv BY <1>1, <1>2 DEF StoresInv, Known
<1>5. Mirrors(mirror, torn) BY <1>1 DEF Mirrors
<1>6. SyncInv /\ BatchInv BY SyncKinds DEF SyncInv, BatchInv
<1> QED BY <1>3, <1>4, <1>5, <1>6 DEF Inv

\* A call of record appends to the source: what was copied of it still is there.
LEMMA RecordingStep ==
  ASSUME Inv, Recording, StoreAssumption, LogAssumption
  PROVE  Inv' /\ Grows(source') /\ calls' = calls + 1
<1>1. PICK s \in Starts, n \in Lengths : Calling(s, n) BY DEF Recording
<1>2. calls \in Nat /\ calls \in 0..MaxRecords /\ MaxRecords \in Nat
  BY DEF Inv, Numbers, LogAssumption
<1>3. /\ Grows(source') /\ calls' = calls + 1 /\ calls < MaxRecords
      /\ writer' = NoWriter \/ writer' = writer \/ writer'.start \in Starts
  BY <1>1, <1>2, RecordingGrows DEF Inv, StoresInv
<1>4. UNCHANGED <<mirror, sync, torn>> /\ (faults' = faults \/ Fault)
  BY <1>1 DEF Calling, Record, RecordFails, RecordShort, SourceDies
<1>5. Numbers'
  <2>1. faults' \in 0..MaxFaults
    <3>1. faults \in 0..MaxFaults /\ MaxFaults \in Nat BY DEF Inv, Numbers, LogAssumption
    <3> QED BY <1>4, <3>1, SMT DEF Fault
  <2>2. calls' \in 0..MaxRecords BY <1>2, <1>3, SMT
  <2>3. writer' = NoWriter \/ writer'.start \in Starts BY <1>3 DEF Inv, Numbers
  <2> QED BY <2>1, <2>2, <2>3 DEF Numbers
<1>6. \A b \in In(mirror) \cup In(source) : b.id <= calls /\ b.id \in Nat
  <2>1. \A b \in In(mirror) \cup In(source) : b \in Buckets /\ b.id <= calls
    BY FileType DEF Inv, StoresInv, Sound, Known
  <2> QED BY <2>1, SMT DEF Buckets
<1>7. ASSUME NEW b, b.id \in Nat, b.id <= calls PROVE b.id <= calls' /\ b.id # calls + 1
  BY <1>2, <1>3, <1>7, SMT
\* What a bucket that is not new still has.
<1>8. ASSUME NEW b \in In(source'), b.id \in Nat, b.id <= calls
      PROVE  b \in In(source) /\ Extends(source'.files[b], source.files[b])
  BY <1>3, <1>7, <1>8 DEF Grows
<1>9. StoresInv'
  <2>1. ASSUME NEW b \in In(source') PROVE b.id <= calls'
    <3>1. CASE b \in In(source) BY <1>6, <1>7, <3>1
    <3>2. CASE b.id = calls + 1
      <4>1. calls' <= calls' BY <1>2, <1>3, SMT
      <4> QED BY <1>3, <3>2, <4>1
    <3> QED BY <1>3, <3>1, <3>2 DEF Grows
  <2>2. \A b \in In(mirror) : b.id <= calls' BY <1>6, <1>7
  <2>3. Known(source)' BY <2>1 DEF Known
  <2>4. Known(mirror)' BY <1>4, <2>2 DEF Known
  <2>5. Sound(source') BY <1>3 DEF Grows
  <2> QED BY <1>4, <2>3, <2>4, <2>5 DEF StoresInv, Inv
<1>10. Mirrors(mirror, torn)'
  <2>1. ASSUME NEW b \in In(mirror), b \in In(source')
        PROVE  /\ mirror.sizes[b] <= Len(source'.files[b])
               /\ b \notin torn => Extends(source'.files[b], mirror.files[b])
    <3>1. b \in In(source) /\ Extends(source'.files[b], source.files[b])
      BY <1>6, <1>8, <2>1
    <3>2. /\ mirror.sizes[b] <= Len(source.files[b])
          /\ b \notin torn => Extends(source.files[b], mirror.files[b])
      BY <3>1 DEF Inv, Mirrors
    <3>3. /\ source.files[b] \in Seq(Byte) /\ mirror.files[b] \in Seq(Byte)
          /\ mirror.sizes[b] \in Nat /\ Len(source.files[b]) \in Nat
      BY <3>1, FileType DEF Inv, StoresInv, Sound
    <3>4. source'.files[b] \in Seq(Byte) /\ Len(source'.files[b]) \in Nat
      BY <1>9, <2>1, FileType DEF StoresInv, Sound
    <3>5. Len(source.files[b]) <= Len(source'.files[b]) BY <3>1 DEF Extends
    <3>6. mirror.sizes[b] <= Len(source'.files[b]) BY <3>2, <3>3, <3>4, <3>5, SMT
    <3> QED BY <3>1, <3>2, <3>3, <3>4, <3>6, ExtendsTwice
  <2>2. \A b \in In(mirror) : b \notin torn => mirror.sizes[b] = Len(mirror.files[b])
    BY DEF Inv, Mirrors
  <2> QED BY <1>4, <2>1, <2>2 DEF Mirrors
<1>11. SyncInv'
  <2>1. CASE sync = NoSync BY <1>4, <2>1 DEF SyncInv
  <2>2. CASE sync = [at |-> "seen", sizes |-> mirror.sizes] BY <1>4, <2>2 DEF SyncInv
  <2>3. CASE /\ sync = [at |-> "batch", items |-> sync.items]
             /\ sync.items \in Seq(Items) /\ sync.items # <<>> /\ Carries(sync.items)
    <3>1. ASSUME NEW i \in 1..Len(sync.items)
          PROVE  /\ sync.items[i].bucket.id <= calls'
                 /\ sync.items[i].bucket \in In(source') =>
                      Copies(sync.items[i], source'.files[sync.items[i].bucket])
      <4> DEFINE item == sync.items[i]
                 b == item.bucket
      <4>1. item \in Items BY <2>3, ElementOfSeq
      <4>2. b \in Buckets /\ item.position \in Nat /\ item.data \in Seq(Byte) /\ b.id \in Nat
        BY <4>1, ItemType, SMT DEF Buckets
      <4>3. b.id <= calls /\ (b \in In(source) => Copies(item, source.files[b]))
        BY <2>3 DEF Carries
      <4> HIDE DEF item
      <4>4. ASSUME b \in In(source') PROVE Copies(item, source'.files[b])
        <5>1. b \in In(source) /\ Extends(source'.files[b], source.files[b])
          BY <1>8, <4>2, <4>3, <4>4
        <5>2. Copies(item, source.files[b]) BY <4>3, <5>1
        <5>3. Len(source.files[b]) \in Nat /\ Len(source'.files[b]) \in Nat
          BY <1>9, <4>4, <5>1, FileType DEF Inv, StoresInv, Sound
        <5>4. Len(item.data) \in Nat BY <4>2, LenProperties
        <5> DEFINE old == source.files[b]
                   now == source'.files[b]
                   from == item.position
                   data == item.data
        <5>5. /\ Len(old) \in Nat /\ Len(now) \in Nat /\ Len(data) \in Nat /\ from \in Nat
              /\ Extends(now, old)
          BY <4>2, <5>1, <5>3, <5>4
        <5>6. data # <<>> => /\ from + Len(data) <= Len(old)
                             /\ \A x \in 1..Len(data) : data[x] = old[from + x]
          BY <5>2 DEF Copies
        <5> HIDE DEF old, now, from, data
        <5>7. ASSUME data # <<>>
              PROVE  /\ from + Len(data) <= Len(now)
                     /\ \A x \in 1..Len(data) : data[x] = now[from + x]
          <6>1. from + Len(data) <= Len(now) BY <5>5, <5>6, <5>7, SMT DEF Extends
          <6>2. ASSUME NEW x \in 1..Len(data) PROVE data[x] = now[from + x]
            <7>1. from + x \in 1..Len(old) BY <5>5, <5>6, <5>7, SMT
            <7> QED BY <5>5, <5>6, <5>7, <7>1 DEF Extends
          <6> QED BY <6>1, <6>2
        <5> QED BY <5>7 DEF Copies, now, from, data
      <4> QED BY <1>7, <4>2, <4>3, <4>4 DEF item
    <3>2. Carries(sync.items)' BY <1>4, <3>1 DEF Carries
    <3> QED BY <1>4, <2>3, <3>2 DEF SyncInv
  <2> QED BY <2>1, <2>2, <2>3 DEF Inv, SyncInv
<1>12. BatchInv' BY <1>4 DEF Inv, BatchInv
<1> QED BY <1>3, <1>5, <1>9, <1>10, <1>11, <1>12 DEF Inv

\* A step of a sync that leaves both stores as they are.
LEMMA SyncStep ==
  ASSUME Inv, GetSeen \/ GetSomeUnseenData \/ SyncLost, StoreAssumption, LogAssumption
  PROVE  Inv' /\ UNCHANGED <<source, calls, writes>> /\ (faults' = faults \/ Fault)
<1>1. /\ UNCHANGED <<source, writer, calls, writes, mirror, torn>>
      /\ faults' = faults \/ Fault
  BY DEF GetSeen, GetSomeUnseenData, SyncLost, logVars
<1>2. Numbers'
  <2>1. faults' \in 0..MaxFaults
    <3>1. faults \in 0..MaxFaults /\ MaxFaults \in Nat BY DEF Inv, Numbers, LogAssumption
    <3> QED BY <1>1, <3>1, SMT DEF Fault
  <2> QED BY <1>1, <2>1 DEF Inv, Numbers
<1>3. StoresInv' /\ Mirrors(mirror, torn)' BY <1>1 DEF Inv, StoresInv, Mirrors, Known
<1>4. CASE GetSeen
  <2>1. sync' = [at |-> "seen", sizes |-> mirror.sizes] BY <1>4 DEF GetSeen
  <2>2. SyncInv' BY <1>1, <2>1 DEF SyncInv
  <2>3. BatchInv' BY <2>1 DEF BatchInv
  <2> QED BY <1>1, <1>2, <1>3, <2>2, <2>3 DEF Inv
<1>5. CASE SyncLost
  <2>1. sync' = NoSync BY <1>5 DEF SyncLost
  <2>2. SyncInv' BY <2>1 DEF SyncInv
  <2>3. BatchInv' BY <2>1 DEF BatchInv, NoSync
  <2> QED BY <1>1, <1>2, <1>3, <2>2, <2>3 DEF Inv
<1>6. CASE GetSomeUnseenData
  <2>1. sync.at = "seen" BY <1>6 DEF GetSomeUnseenData
  <2>2. sync.sizes = mirror.sizes
    <3>1. sync # NoSync BY <2>1 DEF NoSync
    <3>2. ~(sync = [at |-> "batch", items |-> sync.items]) BY <2>1, SyncKinds
    <3>3. sync = [at |-> "seen", sizes |-> mirror.sizes] BY <3>1, <3>2 DEF Inv, SyncInv
    <3> QED BY <3>3
  <2>9. PICK bad \in SUBSET (Grown(mirror.sizes) \cup New(mirror.sizes)) :
          \E gone \in SetToSeqs(Gone(mirror.sizes)), grown \in SetToSeqs(Grown(mirror.sizes) \ bad),
             new \in SetToSeqs(New(mirror.sizes) \ bad) :
            LET items == Deletions(gone) \o Batch(mirror.sizes, grown \o new)
            IN sync' = IF items = <<>> THEN NoSync ELSE [at |-> "batch", items |-> items]
    BY <1>6, <2>2 DEF GetSomeUnseenData
  <2>3. PICK gone \in SetToSeqs(Gone(mirror.sizes)), grown \in SetToSeqs(Grown(mirror.sizes) \ bad),
             new \in SetToSeqs(New(mirror.sizes) \ bad) :
          LET items == Deletions(gone) \o Batch(mirror.sizes, grown \o new)
          IN sync' = IF items = <<>> THEN NoSync ELSE [at |-> "batch", items |-> items]
    BY <2>9
  <2> DEFINE items == Deletions(gone) \o Batch(mirror.sizes, grown \o new)
  <2>4. sync' = IF items = <<>> THEN NoSync ELSE [at |-> "batch", items |-> items]
    BY <2>3
  <2>5. /\ items \in Seq(Items) /\ Carries(items)
        /\ Below(mirror, source) => Fits(items, mirror, source)
    BY UnseenItems DEF Inv, StoresInv
  <2> HIDE DEF items
  <2>6. Below(mirror, source)
    <3>1. ASSUME NEW c \in In(mirror), c \in In(source) PROVE mirror.sizes[c] <= source.sizes[c]
      <4>1. mirror.sizes[c] <= Len(source.files[c]) BY <3>1 DEF Inv, Mirrors
      <4>2. /\ Len(source.files[c]) <= source.sizes[c] /\ Len(source.files[c]) \in Nat
            /\ source.sizes[c] \in Nat /\ mirror.sizes[c] \in Nat
        BY <3>1, FileType DEF Inv, StoresInv, Sound, Full
      <4> QED BY <4>1, <4>2, SMT
    <3> QED BY <3>1 DEF Below
  <2>7. CASE items = <<>>
    <3>1. sync' = NoSync BY <2>4, <2>7
    <3>2. SyncInv' BY <3>1 DEF SyncInv
    <3>3. BatchInv' BY <3>1 DEF BatchInv, NoSync
    <3> QED BY <1>1, <1>2, <1>3, <3>2, <3>3 DEF Inv
  <2>8. CASE items # <<>>
    <3>1. sync' = [at |-> "batch", items |-> items] BY <2>4, <2>8
    <3>2. sync'.items = items BY <3>1
    <3>4. Carries(sync.items)' BY <1>1, <2>5, <3>2 DEF Carries
    <3>5. SyncInv' BY <2>5, <2>8, <3>1, <3>2, <3>4 DEF SyncInv
    <3>6. BatchInv'
      <4>1. Sound(source) /\ Fits(items, mirror, source) BY <2>5, <2>6 DEF Inv, StoresInv
      <4> QED BY <1>1, <3>2, <4>1 DEF BatchInv
    <3> QED BY <1>1, <1>2, <1>3, <3>5, <3>6 DEF Inv
  <2> QED BY <2>7, <2>8
<1> QED BY <1>1, <1>4, <1>5, <1>6

\* An item of a batch is accepted, and the rest still fits.
LEMMA ItemAccepted ==
  ASSUME Inv, sync.at = "batch", StoreAssumption, LogAssumption
  PROVE  /\ Accepted(Item)
         /\ \A after : Applied(after, Item) =>
              \E src : Sound(src) /\ Fits(Tail(sync.items), after, src)
<1>1. sync.items \in Seq(Items) /\ sync.items # <<>> BY BatchFacts
<1>2. PICK src : Sound(src) /\ Fits(sync.items, mirror, src) BY DEF Inv, BatchInv
<1>3. /\ Accepted(Item)
      /\ \A after : Applied(after, Item) => Fits(Tail(sync.items), after, src)
  BY <1>1, <1>2, FirstFits DEF Inv, StoresInv, Item
<1> QED BY <1>2, <1>3

\* A step that leaves the mirror with the item's bucket or without it.
LEMMA MirrorStep ==
  ASSUME Inv, NEW b, b.id <= calls, UNCHANGED logVars, faults' = faults \/ Fault,
         Sound(mirror'), In(mirror') \subseteq In(mirror) \cup {b}, torn' \subseteq In(mirror'),
         LogAssumption
  PROVE  Numbers' /\ StoresInv'
<1>1. faults' \in 0..MaxFaults
  <2>1. faults \in 0..MaxFaults /\ MaxFaults \in Nat BY DEF Inv, Numbers, LogAssumption
  <2> QED BY <2>1, SMT DEF Fault
<1>2. Numbers' BY <1>1 DEF Inv, Numbers, logVars
<1>3. \A c \in In(mirror') : c.id <= calls BY DEF Inv, StoresInv, Known
<1>4. StoresInv' BY <1>3 DEF Inv, StoresInv, Known, logVars
<1> QED BY <1>2, <1>4

LEMMA MirrorsKept ==
  ASSUME UNCHANGED source, NEW st, NEW loose, Mirrors(st, loose), mirror' = st, torn' = loose
  PROVE  Mirrors(mirror, torn)'
BY DEF Mirrors

\* The rest of the batch.
LEMMA NextItemStep ==
  ASSUME Inv, sync.at = "batch", NextItem, UNCHANGED logVars, Applied(mirror', Item),
         StoreAssumption, LogAssumption
  PROVE  SyncInv' /\ BatchInv'
<1> DEFINE items == sync.items
           rest == Tail(items)
<1>1. /\ items \in Seq(Items) /\ items # <<>> /\ Carries(items)
      /\ sync = [at |-> "batch", items |-> items] /\ Len(items) \in Nat
  BY BatchFacts
<1>2. /\ rest \in Seq(Items) /\ Len(rest) = Len(items) - 1
      /\ \A i \in 1..Len(rest) : rest[i] = items[i + 1]
  BY <1>1, HeadTailProperties
<1>3. PICK src : Sound(src) /\ Fits(rest, mirror', src) BY ItemAccepted
<1>4. sync' = IF Len(items) = 1 THEN NoSync ELSE [sync EXCEPT !.items = rest]
  BY DEF NextItem
<1>5. CASE Len(items) = 1
  <2>1. sync' = NoSync BY <1>4, <1>5
  <2> QED BY <2>1 DEF SyncInv, BatchInv, NoSync
<1>6. CASE Len(items) # 1
  <2> HIDE DEF rest
  <2>1. [sync EXCEPT !.items = rest] = [at |-> "batch", items |-> rest]
    <3> HIDE DEF items
    <3>1. [[at |-> "batch", items |-> items] EXCEPT !.items = rest]
            = [at |-> "batch", items |-> rest]
      OBVIOUS
    <3> QED BY <1>1, <3>1
  <2>2. sync' = [at |-> "batch", items |-> rest] BY <1>4, <1>6, <2>1
  <2>3. sync'.items = rest BY <2>2
  <2>4. rest # <<>>
    <3>1. Len(items) # 0 BY <1>1, EmptySeq
    <3>2. Len(rest) # 0 BY <1>1, <1>2, <1>6, <3>1, SMT
    <3> QED BY <3>2, EmptySeq
  <2>5. ASSUME NEW i \in 1..Len(rest)
        PROVE  /\ rest[i].bucket.id <= calls
               /\ rest[i].bucket \in In(source) =>
                    Copies(rest[i], source.files[rest[i].bucket])
    <3> DEFINE j == i + 1
    <3>1. j \in 1..Len(items) /\ rest[i] = items[j] BY <1>1, <1>2, SMT
    <3> HIDE DEF j
    <3> QED BY <1>1, <3>1 DEF Carries
  <2>6. Carries(sync.items)' BY <2>3, <2>5 DEF Carries, logVars
  <2>7. SyncInv' BY <1>2, <2>2, <2>3, <2>4, <2>6 DEF SyncInv
  <2>8. BatchInv' BY <1>3, <2>3 DEF BatchInv
  <2> QED BY <2>7, <2>8
<1> QED BY <1>5, <1>6

\* The stores that the item's write makes of the one it was prepared in.
LEMMA ItemWrites ==
  ASSUME Inv, sync.at = "batch", StoreAssumption, LogAssumption
  PROVE  LET b == Item.bucket
             W == Writable(Item)
             less == torn \cap In(Cleared(Item))
         IN /\ Sound(W) /\ Mirrors(W, less) /\ In(W) \subseteq In(mirror) \cup {b}
            /\ less \subseteq In(W)
            /\ Item.data # <<>> =>
                 /\ b \in In(W) /\ W.sizes[b] = Item.position
                 /\ CurrentSize(W) + Len(Item.data) <= MaxSize
            /\ \A after \in Applying(Item) :
                 /\ Sound(after) /\ In(after) \subseteq In(mirror) \cup {b}
                 /\ Mirrors(after, torn \cap In(after))
<1> DEFINE b == Item.bucket
           W == Writable(Item)
           C == Cleared(Item)
           less == torn \cap In(C)
<1>1. Item \in Items BY BatchFacts
<1>2. Sound(source) /\ Sound(mirror) /\ Mirrors(mirror, torn) BY DEF Inv, StoresInv
<1>3. /\ Sound(W) /\ Reduced(W, mirror, b) /\ Reduced(W, C, b) /\ In(C) \subseteq In(W)
      /\ In(W) \subseteq In(C) \cup {b} /\ Reduced(C, mirror, b)
      /\ \A after \in Applying(Item) : Sound(after) /\ Reduced(after, mirror, b)
  BY <1>1, <1>2, ItemStores
<1>4. Accepted(Item) BY ItemAccepted
<1> HIDE DEF b, W, C
<1>5. Item.data # <<>> => /\ b \in In(W) /\ W.sizes[b] = Item.position
                          /\ Room(W) >= Len(Item.data)
  BY <1>4 DEF Accepted, b, W
<1>6. CurrentSize(W) \in Nat /\ MaxSize \in Nat /\ Len(Item.data) \in Nat
  BY <1>1, <1>3, StoreSum, ItemType, LenProperties DEF Sound, StoreAssumption
<1>7. Item.data # <<>> => CurrentSize(W) + Len(Item.data) <= MaxSize
  <2> DEFINE n == Len(Item.data)
  <2>1. n \in Nat /\ (Item.data # <<>> => Room(W) >= n) BY <1>5, <1>6
  <2> HIDE DEF n
  <2>2. Item.data # <<>> => CurrentSize(W) + n <= MaxSize BY <1>6, <2>1, SMT DEF Room
  <2> QED BY <2>2 DEF n
<1>8. ASSUME NEW c \in In(W), c \in torn
      PROVE  c \in less \/ (c = b /\ W.files[c] = <<>> /\ W.sizes[c] = 0)
  BY <1>3, <1>8 DEF Reduced
<1>9. Mirrors(W, less) BY <1>2, <1>3, <1>8, ReducedMirrors
<1>10. ASSUME NEW after \in Applying(Item)
       PROVE  Mirrors(after, torn \cap In(after)) /\ In(after) \subseteq In(mirror) \cup {b}
  <2>1. Reduced(after, mirror, b) BY <1>3
  <2>2. In(after) \subseteq In(mirror) \cup {b} BY <2>1 DEF Reduced
  <2> DEFINE now == torn \cap In(after)
  <2>3. \A c \in In(after) : c \in torn => c \in now OBVIOUS
  <2> HIDE DEF now
  <2>4. Mirrors(after, now) BY <1>2, <2>1, <2>3, ReducedMirrors
  <2> QED BY <2>2, <2>4 DEF now
<1>11. In(W) \subseteq In(mirror) \cup {b} BY <1>3 DEF Reduced
<1> QED BY <1>3, <1>5, <1>7, <1>9, <1>10, <1>11 DEF b, W, C

LEMMA WriteStep ==
  ASSUME Inv, WriteUnseenData, StoreAssumption, LogAssumption
  PROVE  Inv' /\ UNCHANGED <<logVars, faults>>
<1> DEFINE b == Item.bucket
           W == Writable(Item)
           less == torn \cap In(Cleared(Item))
           n == Len(Item.data)
<1>1. sync.at = "batch" /\ UNCHANGED <<logVars, faults>> /\ torn' = less
  BY DEF WriteUnseenData
<1>2. /\ mirror' = (IF Item.data = <<>> THEN W ELSE Append_(W, b, Item.data))
      /\ NextItem
  <2>1. Accepted(Item) BY <1>1, ItemAccepted
  <2> QED BY <2>1 DEF WriteUnseenData
<1>3. /\ Item \in Items /\ b.id <= calls
      /\ b \in In(source) => Copies(Item, source.files[b])
  BY <1>1, BatchFacts
<1>4. /\ Sound(W) /\ Mirrors(W, less) /\ In(W) \subseteq In(mirror) \cup {b}
      /\ less \subseteq In(W)
      /\ Item.data # <<>> => /\ b \in In(W) /\ W.sizes[b] = Item.position
                             /\ CurrentSize(W) + n <= MaxSize
  BY <1>1, ItemWrites
<1>5. /\ Sound(mirror') /\ In(mirror') = In(W) /\ Mirrors(mirror', less)
      /\ Applied(mirror', Item)
  <2>1. CASE Item.data = <<>>
    <3>1. mirror' = W BY <1>2, <2>1
    <3>2. Applied(W, Item) BY <2>1 DEF Applied
    <3> QED BY <1>4, <3>1, <3>2
  <2>2. CASE Item.data # <<>>
    <3>1. Item.data \in Seq(Byte) /\ n \in Nat BY <1>3, ItemType, LenProperties
    <3>2. SubSeq(Item.data, 1, n) = Item.data BY <3>1, SubSeqFull
    <3> DEFINE after == Appended(W, Item, n)
    <3>3. mirror' = after BY <1>2, <2>2, <3>2 DEF Append_, Appended, Written
    <3>4. n \in 0..n BY <3>1, SMT
    <3>5. /\ Sound(after) /\ In(after) = In(W)
          /\ \A c \in In(W) : c # b => after.sizes[c] = W.sizes[c]
          /\ after.sizes[b] = Item.position + n
          /\ Mirrors(after, less)
      <4>1. Sound(source) BY DEF Inv, StoresInv
      <4> HIDE DEF W, less
      <4>2. Taken(W, Item, n, less) BY <1>3, <1>4, <2>2, <3>4, <4>1, ItemWritten
      <4> QED BY <4>2 DEF Taken
    <3> HIDE DEF after
    <3>6. Applied(after, Item) BY <2>2, <3>5 DEF Applied
    <3> QED BY <3>3, <3>5, <3>6
  <2> QED BY <2>1, <2>2
<1> HIDE DEF W, less
<1>6. Numbers' /\ StoresInv'
  BY <1>1, <1>3, <1>4, <1>5, MirrorStep
<1>7. SyncInv' /\ BatchInv' BY <1>1, <1>2, <1>5, NextItemStep
<1>8. Mirrors(mirror, torn)' BY <1>1, <1>5 DEF Mirrors, logVars
<1> QED BY <1>1, <1>6, <1>7, <1>8 DEF Inv

LEMMA NoSyncStep ==
  ASSUME sync' = NoSync PROVE SyncInv' /\ BatchInv'
BY DEF SyncInv, BatchInv, NoSync

LEMMA WriteFailsStep ==
  ASSUME Inv, WriteFails, StoreAssumption, LogAssumption
  PROVE  Inv' /\ UNCHANGED logVars /\ Fault
<1>1. /\ sync.at = "batch" /\ Fault /\ sync' = NoSync /\ torn' = torn \cap In(mirror')
      /\ UNCHANGED logVars /\ mirror' \in Applying(Item)
  BY DEF WriteFails, Untorn
<1>2. Item.bucket.id <= calls BY <1>1, BatchFacts
<1>3. /\ Sound(mirror') /\ In(mirror') \subseteq In(mirror) \cup {Item.bucket}
      /\ Mirrors(mirror', torn \cap In(mirror'))
  BY <1>1, ItemWrites
<1>4. faults' = faults \/ Fault BY <1>1
<1>5. torn' \subseteq In(mirror') BY <1>1
<1>6. Numbers' /\ StoresInv' BY <1>1, <1>2, <1>3, <1>4, <1>5, MirrorStep
<1>7. Mirrors(mirror, torn)' BY <1>1, <1>3 DEF Mirrors, logVars
<1> QED BY <1>1, <1>6, <1>7, NoSyncStep DEF Inv

LEMMA WriteShortStep ==
  ASSUME Inv, WriteShort, StoreAssumption, LogAssumption
  PROVE  Inv' /\ UNCHANGED logVars /\ Fault
<1> DEFINE b == Item.bucket
           W == Writable(Item)
           less == torn \cap In(Cleared(Item))
           n == Len(Item.data)
<1>1. /\ sync.at = "batch" /\ Fault /\ UNCHANGED logVars /\ torn' = less \cup {b}
      /\ NextItem
  BY DEF WriteShort
<1>2. PICK k \in 1..(n - 1) : mirror' = Appended(W, Item, k)
  BY DEF WriteShort, Appended, Written
<1>3. /\ Item \in Items /\ b.id <= calls
      /\ b \in In(source) => Copies(Item, source.files[b])
  BY <1>1, BatchFacts
<1>4. Item.data \in Seq(Byte) /\ n \in Nat BY <1>3, ItemType, LenProperties
<1>5. k \in 0..n /\ n # 0 BY <1>4, SMT
<1>6. Item.data # <<>> BY <1>5, EmptySeq
<1>7. /\ Sound(W) /\ Mirrors(W, less) /\ In(W) \subseteq In(mirror) \cup {b}
      /\ less \subseteq In(W) /\ b \in In(W) /\ W.sizes[b] = Item.position
      /\ CurrentSize(W) + n <= MaxSize
  BY <1>1, <1>6, ItemWrites
<1>8. /\ Sound(mirror') /\ In(mirror') = In(W)
      /\ \A c \in In(W) : c # b => mirror'.sizes[c] = W.sizes[c]
      /\ mirror'.sizes[b] = Item.position + n
      /\ Mirrors(mirror', less \cup {b})
  <2>1. Sound(source) BY DEF Inv, StoresInv
  <2> DEFINE after == Appended(W, Item, k)
  <2> HIDE DEF W, less
  <2>2. /\ Sound(after) /\ In(after) = In(W)
        /\ \A c \in In(W) : c # b => after.sizes[c] = W.sizes[c]
        /\ after.sizes[b] = Item.position + n
        /\ Mirrors(after, less \cup {b})
    <3>1. Taken(W, Item, k, less) BY <1>3, <1>5, <1>6, <1>7, <2>1, ItemWritten
    <3> QED BY <3>1 DEF Taken
  <2>3. mirror' = after BY <1>2
  <2> HIDE DEF after
  <2> QED BY <2>2, <2>3
<1>9. Applied(mirror', Item) BY <1>6, <1>8 DEF Applied
<1> HIDE DEF W, less
<1>10. faults' = faults \/ Fault BY <1>1
<1>11. torn' \subseteq In(mirror') BY <1>1, <1>7, <1>8
<1>12. Numbers' /\ StoresInv' BY <1>1, <1>3, <1>7, <1>8, <1>10, <1>11, MirrorStep
<1>13. SyncInv' /\ BatchInv' BY <1>1, <1>9, NextItemStep
<1>14. Mirrors(mirror, torn)' BY <1>1, <1>8 DEF Mirrors, logVars
<1> QED BY <1>1, <1>12, <1>13, <1>14 DEF Inv

LEMMA MirrorDiesStep ==
  ASSUME Inv, MirrorDies, StoreAssumption, LogAssumption
  PROVE  Inv' /\ UNCHANGED logVars /\ Fault
<1>1. /\ Fault /\ UNCHANGED logVars /\ sync' = NoSync /\ torn' = torn \cap In(mirror')
  BY DEF MirrorDies, Untorn
<1>2. PICK died \in IF sync.at # "batch" THEN {mirror}
                    ELSE Applying(Item) \cup
                         (IF ~Accepted(Item) THEN {} ELSE
                          {Write(Writable(Item), Item.bucket, SubSeq(Item.data, 1, k)) :
                             k \in 0..Len(Item.data)}) :
        mirror' = Open(died.files)
  BY DEF MirrorDies
<1>3. faults' = faults \/ Fault BY <1>1
<1>4. torn' \subseteq In(mirror') BY <1>1
<1>5. Sound(source) BY DEF Inv, StoresInv
<1>6. ASSUME NEW st, Sound(st), Mirrors(st, torn \cap In(st)), mirror' = Open(st.files)
      PROVE  /\ Sound(mirror') /\ In(mirror') = In(st)
             /\ Mirrors(mirror', torn \cap In(mirror'))
  <2>1. Sound(Open(st.files)) /\ In(Open(st.files)) = In(st) BY <1>6, OpenSound
  <2>2. Mirrors(Open(st.files), torn \cap In(st)) BY <1>5, <1>6, OpenMirrors
  <2> QED BY <1>6, <2>1, <2>2
<1>7. ASSUME NEW b, b.id <= calls, Sound(mirror'), In(mirror') \subseteq In(mirror) \cup {b},
             Mirrors(mirror', torn \cap In(mirror'))
      PROVE  Inv'
  <2>1. Numbers' /\ StoresInv' BY <1>1, <1>3, <1>4, <1>7, MirrorStep
  <2>2. Mirrors(mirror, torn)' BY <1>1, <1>7 DEF Mirrors, logVars
  <2> QED BY <1>1, <2>1, <2>2, NoSyncStep DEF Inv
<1>8. CASE sync.at # "batch"
  <2>1. mirror' = Open(mirror.files) BY <1>2, <1>8
  <2>2. Sound(mirror) /\ Mirrors(mirror, torn \cap In(mirror))
    BY DEF Inv, StoresInv, Mirrors
  <2>3. /\ Sound(mirror') /\ In(mirror') = In(mirror) /\ Mirrors(mirror', torn \cap In(mirror'))
    BY <1>6, <2>1, <2>2
  <2> DEFINE b == [start |-> 0, id |-> calls]
  <2>4. b.id <= calls BY SMT DEF Inv, Numbers
  <2>5. In(mirror') \subseteq In(mirror) \cup {b} BY <2>3
  <2> HIDE DEF b
  <2> QED BY <1>1, <1>7, <2>3, <2>4, <2>5
<1>9. CASE sync.at = "batch" /\ died \in Applying(Item)
  <2>1. Item.bucket.id <= calls BY <1>9, BatchFacts
  <2>2. /\ Sound(died) /\ In(died) \subseteq In(mirror) \cup {Item.bucket}
        /\ Mirrors(died, torn \cap In(died))
    BY <1>9, ItemWrites
  <2>3. /\ Sound(mirror') /\ In(mirror') = In(died) /\ Mirrors(mirror', torn \cap In(mirror'))
    BY <1>2, <1>6, <2>2
  <2> QED BY <1>1, <1>7, <2>1, <2>2, <2>3
<1>10. CASE sync.at = "batch" /\ died \notin Applying(Item)
  <2> DEFINE b == Item.bucket
             W == Writable(Item)
             less == torn \cap In(Cleared(Item))
             n == Len(Item.data)
  <2>1. PICK k \in 0..n : died = Written(W, Item, k) BY <1>2, <1>10 DEF Written
  <2>2. /\ Item \in Items /\ b.id <= calls
        /\ b \in In(source) => Copies(Item, source.files[b])
    BY <1>10, BatchFacts
  <2>3. Item.data \in Seq(Byte) /\ n \in Nat BY <2>2, ItemType, LenProperties
  <2>4. Item.data # <<>>
    <3>1. SUFFICES ASSUME Item.data = <<>> PROVE FALSE OBVIOUS
    <3>2. k = 0 /\ SubSeq(Item.data, 1, 0) = <<>> BY <3>1, SMT
    <3>3. died = W BY <2>1, <3>2 DEF Write, Written
    <3>4. W \in Applying(Item) BY DEF Applying
    <3> QED BY <1>10, <3>3, <3>4
  <2>5. /\ Sound(W) /\ Mirrors(W, less) /\ In(W) \subseteq In(mirror) \cup {b}
        /\ less \subseteq In(W) /\ b \in In(W) /\ W.sizes[b] = Item.position
        /\ CurrentSize(W) + n <= MaxSize
    BY <1>10, <2>4, ItemWrites
  <2>6. Sound(Open(died.files)) /\ In(Open(died.files)) = In(W) /\ Mirrors(Open(died.files), less)
    <3> HIDE DEF W, less
    <3>1. Taken(W, Item, k, less) BY <1>5, <2>2, <2>4, <2>5, ItemWritten
    <3> QED BY <2>1, <3>1 DEF Taken
  <2>7. Sound(mirror') /\ In(mirror') = In(W) /\ Mirrors(mirror', less) BY <1>2, <2>6
  <2> HIDE DEF W
  <2>8. less \subseteq torn \cap In(mirror') BY <2>5, <2>7
  <2>9. Mirrors(mirror', torn \cap In(mirror'))
    <3> HIDE DEF less
    <3> QED BY <2>7, <2>8 DEF Mirrors
  <2> HIDE DEF less
  <2> QED BY <1>1, <1>7, <2>2, <2>5, <2>7, <2>9
<1> QED BY <1>1, <1>8, <1>9, <1>10

LEMMA InvStep ==
  ASSUME Inv, [Next]_vars, StoreAssumption, LogAssumption
  PROVE  /\ Inv'
         /\ \/ Recording /\ Grows(source') /\ calls' = calls + 1
            \/ UNCHANGED <<source, calls, writes>> /\ (faults' = faults \/ Fault)
<1>1. CASE Recording BY <1>1, RecordingStep
<1>2. CASE GetSeen \/ GetSomeUnseenData \/ SyncLost BY <1>2, SyncStep
<1>3. CASE WriteUnseenData BY <1>3, WriteStep DEF logVars
<1>4. CASE WriteFails BY <1>4, WriteFailsStep DEF logVars
<1>5. CASE WriteShort BY <1>5, WriteShortStep DEF logVars
<1>6. CASE MirrorDies BY <1>6, MirrorDiesStep DEF logVars
<1>7. CASE UNCHANGED vars
  <2>1. UNCHANGED <<source, writer, calls, writes, mirror, sync, torn, faults>>
    BY <1>7 DEF vars, logVars
  <2> QED BY <2>1 DEF Inv, Numbers, StoresInv, SyncInv, BatchInv, Mirrors, Known, Carries
<1> QED BY <1>1, <1>2, <1>3, <1>4, <1>5, <1>6, <1>7 DEF Next, Sync

\* What the log and its mirror are at any time: both stores sound, the mirror a
\* prefix of the log, and a batch under way one that fits the limits.
LEMMA InvHolds == Spec => []Inv
<1>1. Init => Inv BY Initially, StoreAssumption, LogAssumption
<1>2. Inv /\ [Next]_vars => Inv' BY InvStep, StoreAssumption, LogAssumption
<1> QED BY <1>1, <1>2, PTL DEF Spec

-----------------------------------------------------------------------------
(* The properties *)

\* A log and its mirror keep their types and have one bucket for each start,
\* whatever fails or dies (TStore.create_bucket and the directory it leaves).
THEOREM Types == Spec => []TypeOK
<1>1. Inv => TypeOK
  <2> SUFFICES ASSUME Inv PROVE TypeOK OBVIOUS
  <2>1. ASSUME NEW st \in Stores
        PROVE  /\ In(st) = DOMAIN st.files
               /\ \A b \in In(st) : b.start \in Starts /\ b.id \in 1..MaxRecords
               /\ \A b, c \in In(st) : b.start = c.start => b = c
               /\ \A b \in In(st) : st.sizes[b] \in Nat
    <3>1. IsStore(st) /\ OneEach(st) BY DEF Stores, Inv, StoresInv, Sound
    <3>2. In(st) = DOMAIN st.files BY <3>1 DEF IsStore
    <3>3. \A b \in In(st) :
            b.start \in Starts /\ b.id \in 1..MaxRecords /\ st.sizes[b] \in Nat
      BY <3>1, FileType
    <3> QED BY <3>1, <3>2, <3>3 DEF OneEach
  <2>2. sync.at \in {"none", "seen", "batch"}
    <3>1. sync = [at |-> "batch", items |-> sync.items] => sync.at = "batch" BY SyncKinds
    <3> QED BY <3>1 DEF Inv, SyncInv, NoSync
  <2> QED BY <2>1, <2>2 DEF TypeOK, Inv, Numbers, StoresInv
<1> QED BY <1>1, InvHolds, PTL

\* Neither the log nor its mirror is ever above max_buckets or max_size, in
\* memory or on the disk: __trim_bytes and __trim_buckets go before what they
\* make room for, and write_unseen_data has room for all it is given.
THEOREM Limits == Spec => []WithinLimits
<1>1. Inv => WithinLimits
  <2> SUFFICES ASSUME Inv, NEW st \in Stores
               PROVE  /\ Cardinality(DOMAIN st.files) <= MaxBuckets /\ CurrentSize(st) <= MaxSize
                      /\ CurrentSize(Open(st.files)) <= MaxSize
    BY DEF WithinLimits
  <2>1. Sound(st) BY DEF Stores, Inv, StoresInv
  <2>2. Sound(Open(st.files)) BY <2>1, OpenSound, StoreAssumption
  <2>3. In(st) = DOMAIN st.files BY <2>1 DEF Sound, IsStore
  <2> QED BY <2>1, <2>2, <2>3 DEF Sound, Small
<1> QED BY <1>1, InvHolds, PTL

LEMMA ExtendsPrefix ==
  ASSUME NEW file \in Seq(Byte), NEW longer \in Seq(Byte), Extends(longer, file)
  PROVE  IsPrefix(file, longer)
<1> DEFINE n == Len(file)
<1>1. n \in Nat /\ Len(longer) \in Nat /\ n <= Len(longer) BY LenProperties DEF Extends
<1>2. n \in 0..Len(longer) /\ n \in 0..n BY <1>1, SMT
<1>3. SubSeq(file, 1, n) = file BY SubSeqFull
<1> HIDE DEF n
<1>4. /\ SubSeq(longer, 1, n) \in Seq(Byte) /\ Len(SubSeq(longer, 1, n)) = n
      /\ \A i \in 1..n : SubSeq(longer, 1, n)[i] = longer[i]
  BY <1>2, StartOf
<1>5. \A i \in 1..n : longer[i] = file[i] BY DEF Extends, n
<1> DEFINE part == SubSeq(longer, 1, n)
<1>6. part \in Seq(Byte) /\ Len(file) = Len(part) /\ \A i \in 1..Len(file) : file[i] = part[i]
  BY <1>4, <1>5 DEF n
<1> HIDE DEF part
<1>7. file = part BY <1>6, SeqEqual
<1> QED BY <1>1, <1>3, <1>7 DEF IsPrefix, part, n

\* The mirror of a bucket is a prefix of it, whatever was lost, failed or died
\* in a sync or in record, except where a write of the mirror was cut short and
\* taken for a whole one (FileWriter's write returns how much it wrote).
THEOREM PrefixMirrored == Spec => []MirrorIsPrefix
<1>1. Inv => MirrorIsPrefix
  <2> SUFFICES ASSUME Inv, NEW b \in (In(mirror) \cap In(source)) \ torn
               PROVE  IsPrefix(mirror.files[b], source.files[b])
    BY DEF MirrorIsPrefix
  <2>1. Extends(source.files[b], mirror.files[b]) BY DEF Inv, Mirrors
  <2>2. mirror.files[b] \in Seq(Byte) /\ source.files[b] \in Seq(Byte)
    BY FileType DEF Inv, StoresInv, Sound
  <2> QED BY <2>1, <2>2, ExtendsPrefix
<1> QED BY <1>1, InvHolds, PTL

\* No assertion of write_unseen_data fails, in whatever state of the mirror the
\* answer of get_some_unseen_data arrives and however the log went on meanwhile.
THEOREM BatchAccepted == Spec => []AllAccepted
<1>1. Inv => AllAccepted BY ItemAccepted, StoreAssumption, LogAssumption DEF AllAccepted
<1> QED BY <1>1, InvHolds, PTL

-----------------------------------------------------------------------------
(* What record deletes *)

Since(b) == {c \in In(source) : b.start <= c.start}

LEMMA SinceNumbers ==
  ASSUME Sound(source), NEW b
  PROVE  /\ IsFiniteSet(Since(b)) /\ Terms(source.sizes, Since(b))
         /\ SumFunctionOnSet(source.sizes, Since(b)) \in Nat /\ Cardinality(Since(b)) \in Nat
<1>1. IsFiniteSet(In(source)) /\ Terms(source.sizes, In(source)) BY StoreSum DEF Sound, IsStore
<1>2. Since(b) \in SUBSET In(source) BY DEF Since
<1>3. IsFiniteSet(Since(b)) BY <1>1, <1>2, FS_Subset
<1>4. Terms(source.sizes, Since(b)) BY <1>1, <1>2 DEF Terms
<1> QED BY <1>3, <1>4, SumNat, FS_CardinalityType

\* The buckets of a part of the source that do not come before b.
LEMMA AfterSince ==
  ASSUME Sound(source), NEW st, In(st) \subseteq In(source), NEW b \in In(st), LogAssumption
  PROVE  In(st) \ Earlier(st, b) \in SUBSET Since(b)
<1> SUFFICES ASSUME NEW c \in In(st) \ Earlier(st, b) PROVE b.start <= c.start
  BY DEF Since
<1>1. b.start \in Nat /\ c.start \in Nat BY DEF Sound, IsStore, Buckets, LogAssumption
<1>2. ~(c.start < b.start) BY DEF Earlier, Before
<1> QED BY <1>1, <1>2, SMT

LEMMA HeavyNeeds ==
  ASSUME Sound(source), NEW n \in Nat, NEW b \in Heavy(source, n), StoreAssumption, LogAssumption
  PROVE  SumFunctionOnSet(source.sizes, Since(b)) + n > MaxSize
<1> DEFINE T == In(source) \ Earlier(source, b)
<1>1. b \in In(source) /\ SumFunctionOnSet(source.sizes, T) > MaxSize - n BY DEF Heavy
<1>2. T \in SUBSET Since(b) BY <1>1, AfterSince
<1>3. /\ IsFiniteSet(Since(b)) /\ Terms(source.sizes, Since(b))
      /\ SumFunctionOnSet(source.sizes, Since(b)) \in Nat
  BY SinceNumbers
<1> HIDE DEF T
<1>4. IsFiniteSet(T) /\ Terms(source.sizes, T) BY <1>2, <1>3, FS_Subset DEF Terms
<1>5. \A x \in T : source.sizes[x] <= source.sizes[x]
  <2>1. \A x \in T : source.sizes[x] \in Nat BY <1>4 DEF Terms
  <2> QED BY <2>1, SMT
<1>6. SumFunctionOnSet(source.sizes, T) <= SumFunctionOnSet(source.sizes, Since(b))
  BY <1>2, <1>3, <1>4, <1>5, SumLess
<1>7. SumFunctionOnSet(source.sizes, T) \in Nat BY <1>4, SumNat
<1>8. MaxSize \in Nat BY DEF StoreAssumption
<1> QED BY <1>1, <1>3, <1>6, <1>7, <1>8, SMT

LEMMA SurplusNeeds ==
  ASSUME Sound(source), NEW st, In(st) \subseteq In(source), NEW b \in Surplus(st),
         StoreAssumption, LogAssumption
  PROVE  Cardinality(Since(b)) >= MaxBuckets
<1> DEFINE T == In(st) \ Earlier(st, b)
<1>1. b \in In(st) /\ Cardinality(T) > MaxBuckets - 1 BY DEF Surplus
<1>2. T \in SUBSET Since(b) BY <1>1, AfterSince
<1>3. IsFiniteSet(Since(b)) /\ Cardinality(Since(b)) \in Nat BY SinceNumbers
<1> HIDE DEF T
<1>4. IsFiniteSet(T) /\ Cardinality(T) <= Cardinality(Since(b)) BY <1>2, <1>3, FS_Subset
<1>5. Cardinality(T) \in Nat BY <1>4, FS_CardinalityType
<1>6. MaxBuckets \in Nat BY DEF StoreAssumption
<1> QED BY <1>1, <1>3, <1>4, <1>5, <1>6, SMT

\* A bucket goes only when the call needs its bytes or its place.
LEMMA CallNeeds ==
  ASSUME Sound(source), Known(source), calls \in Nat, NEW s \in Starts, NEW n \in Lengths,
         StoreAssumption, LogAssumption, Calling(s, n), NEW b \in In(source) \ In(source')
  PROVE  Needs(source', b, s, n)
<1> DEFINE mid == MakeRoom(source, n)
           st == Prepared(s, n)
           new == [start |-> s, id |-> calls + 1]
           old == Delete(mid, Surplus(mid))
<1>1. n \in Nat /\ calls < MaxRecords /\ n < MaxSize BY CallSteps
<1>2. n <= MaxSize /\ MaxRecords \in Nat /\ calls + 1 \in 1..MaxRecords
  BY <1>1, SMT DEF StoreAssumption, LogAssumption
<1>3. /\ Sound(mid) /\ In(mid) = In(source) \ Heavy(source, n)
  BY <1>1, <1>2, RoomMade
<1>4. IsStore(source) /\ IsStore(mid) BY <1>3 DEF Sound
<1>5. PICK after \in Preparing(s, n) \cup {st} : In(source') = In(after) BY CallStores
<1>6. CASE b \in Heavy(source, n)
  <2>1. SumFunctionOnSet(source.sizes, Since(b)) + n > MaxSize BY <1>1, <1>6, HeavyNeeds
  <2> QED BY <2>1 DEF Needs, Since
<1>7. CASE b \notin Heavy(source, n)
  <2>1. b \in In(mid) /\ b \notin In(after) BY <1>3, <1>5, <1>7
  <2>2. after \notin Deleting(source, Heavy(source, n))
    <3> SUFFICES ASSUME NEW d \in Heavy(source, n),
                        after = Delete(source, Heavy(source, n) \cap Earlier(source, d))
                 PROVE  FALSE
      BY DEF Deleting
    <3>1. In(after) = In(source) \ (Heavy(source, n) \cap Earlier(source, d))
      BY <1>4, DeleteStore
    <3> QED BY <1>7, <2>1, <3>1
  <2>3. after # mid BY <2>1
  <2>4. At(mid, s) = {} /\ Bucket(mid, s) = new /\ after \in Creating(mid, new) \cup {Create(mid, new)}
    <3>1. CASE At(mid, s) # {}
      <4>1. st = mid /\ Preparing(s, n) = Deleting(source, Heavy(source, n)) \cup {mid}
        BY <3>1 DEF Prepared, Preparing
      <4> QED BY <1>5, <2>2, <2>3, <4>1
    <3>2. CASE At(mid, s) = {}
      <4>1. Bucket(mid, s) = new BY <3>2 DEF Bucket
      <4>2. /\ st = Create(mid, new)
            /\ Preparing(s, n) = Deleting(source, Heavy(source, n)) \cup {mid} \cup Creating(mid, new)
        BY <3>2, <4>1 DEF Prepared, Preparing
      <4> QED BY <1>5, <2>2, <2>3, <3>2, <4>1, <4>2
    <3> QED BY <3>1, <3>2
  <2>5. new \in Buckets /\ new.start = s /\ new.id = calls + 1 BY <1>2 DEF Buckets
  <2>6. new \notin In(source)
    <3>1. \A c \in In(source) : c.id <= calls BY DEF Known
    <3>2. ~(calls + 1 <= calls) BY SMT
    <3> QED BY <2>5, <3>1, <3>2
  <2> HIDE DEF new
  <2>7. In(old) = In(mid) \ Surplus(mid) BY <1>4, DeleteStore
  <2>8. In(Create(mid, new)) = In(old) \cup {new}
    BY <1>3, <2>4, <2>5, CreateStore DEF Added1
  <2> HIDE DEF mid, old
  <2>9. b \in Surplus(mid) /\ In(after) \subseteq In(mid) \cup {new}
    <3>1. CASE after = Create(mid, new) BY <2>1, <2>7, <2>8, <3>1
    <3>2. CASE after \in Creating(mid, new)
      <4>1. PICK B \in SUBSET Surplus(mid) : after = Delete(mid, B)
        BY <3>2 DEF Creating, Deleting
      <4>2. In(after) = In(mid) \ B BY <1>4, <4>1, DeleteStore
      <4> QED BY <2>1, <4>1, <4>2
    <3> QED BY <2>4, <3>1, <3>2
  <2>10. Cardinality(Since(b)) >= MaxBuckets BY <1>3, <2>9, SurplusNeeds
  <2>11. At(source, s) \cap In(source') = {}
    <3> SUFFICES ASSUME NEW c \in At(source, s), c \in In(source') PROVE FALSE OBVIOUS
    <3>1. c \in In(source) /\ c.start = s BY DEF At
    <3>2. c \in In(mid) BY <1>5, <2>6, <2>9, <3>1
    <3> QED BY <2>4, <3>1, <3>2 DEF At
  <2> QED BY <2>10, <2>11 DEF Needs, Since
<1> QED BY <1>6, <1>7

\* A call of record, whatever becomes of it, deletes the oldest buckets
\* (__trim_bytes and __trim_buckets delete in order of start), and just enough of
\* them: an append that fits deletes none.
THEOREM OldestGoFirst == Spec => OldestGo
<1> DEFINE Oldest == \A b \in In(source) \ In(source)' :
                       /\ \A c \in In(source) \cap In(source)' : b.start < c.start
                       /\ \E s \in Starts, n \in Lengths :
                            Calling(s, n) /\ Needs(source', b, s, n)
<1>1. Inv /\ [Next]_vars => [Oldest]_vars
  <2> SUFFICES ASSUME Inv, [Next]_vars PROVE Oldest OBVIOUS
  <2>1. CASE Recording /\ Grows(source')
    <3>1. PICK s \in Starts, n \in Lengths : Calling(s, n) BY <2>1 DEF Recording
    <3>2. Sound(source) /\ Known(source) /\ calls \in Nat
      BY SMT DEF Inv, StoresInv, Numbers, LogAssumption
    <3>3. \A b \in In(source) \ In(source') : Needs(source', b, s, n)
      BY <3>1, <3>2, CallNeeds, StoreAssumption, LogAssumption
    <3> QED BY <2>1, <3>1, <3>3 DEF Grows
  <2>2. CASE UNCHANGED source BY <2>2
  <2> QED BY <2>1, <2>2, InvStep, StoreAssumption, LogAssumption
<1>2. OldestGo <=> [][Oldest]_vars BY DEF OldestGo
<1> QED BY <1>1, <1>2, InvHolds, PTL DEF Spec

-----------------------------------------------------------------------------
(* The records *)

\* data is in the file, from p on; a line begins there.
Holds(file, data, p) ==
  /\ p \in Nat /\ p + Len(data) <= Len(file)
  /\ \A i \in 1..Len(data) : file[p + i] = data[i]
Begins(file, p) == p = 0 \/ (p \in 1..Len(file) /\ file[p][2] = file[p][3])
Shown(file, data) == \E p \in Nat : Holds(file, data, p) /\ Begins(file, p)

LEMMA HoldsSubSeq ==
  ASSUME NEW file \in Seq(Byte), NEW data \in Seq(Byte), NEW p, Holds(file, data, p)
  PROVE  /\ p \in 0..(Len(file) - Len(data))
         /\ SubSeq(file, p + 1, p + Len(data)) = data
<1> DEFINE n == Len(data)
           q == p + n
           m == p + 1
           part == SubSeq(file, m, q)
<1>1. n \in Nat /\ Len(file) \in Nat /\ p \in Nat /\ q <= Len(file) BY LenProperties DEF Holds
<1> HIDE DEF n
<1>2. p \in 0..(Len(file) - n) /\ m \in Int /\ q \in Int BY <1>1, SMT
<1>3. \A i \in m..q : file[i] \in Byte
  <2>1. ASSUME NEW i \in m..q PROVE i \in 1..Len(file) BY <1>1, SMT
  <2> QED BY <2>1, ElementOfSeq
<1>4. (IF m <= q THEN q - m + 1 ELSE 0) = n /\ q - m + 1 = n BY <1>1, SMT
<1>5. \A i \in 1..n : m + i - 1 = p + i BY <1>1, SMT
<1> HIDE DEF m, q
<1>6. /\ part \in Seq(Byte) /\ Len(part) = IF m <= q THEN q - m + 1 ELSE 0
      /\ \A i \in 1..(q - m + 1) : part[i] = file[m + i - 1]
  BY <1>2, <1>3, SubSeqProperties
<1> HIDE DEF part
<1>7. Len(part) = n /\ \A i \in 1..n : part[i] = file[p + i] BY <1>4, <1>5, <1>6
<1>8. \A i \in 1..n : file[p + i] = data[i] BY DEF Holds, n
<1>9. Len(part) = Len(data) /\ \A i \in 1..Len(part) : part[i] = data[i]
  BY <1>7, <1>8 DEF n
<1>10. part = data BY <1>6, <1>9, SeqEqual
<1> QED BY <1>2, <1>10 DEF part, m, q, n

LEMMA HoldsLonger ==
  ASSUME NEW file \in Seq(Byte), NEW longer \in Seq(Byte), Extends(longer, file),
         NEW data \in Seq(Byte), NEW p, Holds(file, data, p)
  PROVE  Holds(longer, data, p) /\ (Begins(file, p) => Begins(longer, p))
<1> DEFINE n == Len(data)
           old == Len(file)
           now == Len(longer)
<1>1. n \in Nat /\ old \in Nat /\ now \in Nat /\ p \in Nat BY LenProperties DEF Holds
<1>2. p + n <= old /\ old <= now BY DEF Holds, Extends
<1>3. \A i \in 1..old : longer[i] = file[i] BY DEF Extends
<1>4. \A i \in 1..n : file[p + i] = data[i] BY DEF Holds
<1> HIDE DEF n, old, now
<1>5. p + n <= now BY <1>1, <1>2, SMT
<1>6. ASSUME NEW i \in 1..n PROVE longer[p + i] = data[i]
  <2>1. p + i \in 1..old BY <1>1, <1>2, SMT
  <2> QED BY <1>3, <1>4, <2>1
<1>7. Holds(longer, data, p) BY <1>1, <1>5, <1>6 DEF Holds, n, now
<1>8. ASSUME p \in 1..old PROVE p \in 1..now BY <1>1, <1>2, <1>8, SMT
<1>9. Begins(file, p) => Begins(longer, p) BY <1>3, <1>8 DEF Begins, old, now
<1> QED BY <1>7, <1>9

\* A record that begins a line is fetched, whatever the lines around it are.
LEMMA ShownFetched ==
  ASSUME NEW file \in Seq(Byte), NEW k \in Nat, NEW n \in Nat \ {0}, Shown(file, Bytes(k, n))
  PROVE  Bytes(k, n) \in Fetched(file)
<1> DEFINE data == Bytes(k, n)
<1>1. /\ data \in Seq(Byte) /\ Len(data) = n /\ n \in Nat
      /\ \A i \in 1..n : data[i] = <<k, i, n>>
  BY BytesSeq
<1>2. PICK p \in Nat : Holds(file, data, p) /\ Begins(file, p) BY DEF Shown
<1>3. n \in 1..n /\ 1 \in 1..n BY <1>1, SMT
<1> DEFINE q == p + n
<1>4. Len(file) \in Nat /\ DOMAIN file = 1..Len(file) BY LenProperties
<1>5. q <= Len(file) /\ file[q] = data[n] BY <1>1, <1>2, <1>3 DEF Holds
<1>6. q \in 1..Len(file) BY <1>4, <1>5, SMT
<1> HIDE DEF q
<1>7. q \in Ends(file) BY <1>1, <1>3, <1>4, <1>5, <1>6 DEF Ends
<1>8. p \in Ends(file) \cup {0} BY <1>2, <1>4 DEF Begins, Ends
<1>9. SubSeq(file, p + 1, q) = data BY <1>1, <1>2, HoldsSubSeq DEF q
<1>10. data # <<>>
  <2>1. CASE data = <<>>
    <3>1. Len(data) = 0 BY <2>1
    <3> HIDE DEF data
    <3> QED BY <1>1, <3>1
  <2> QED BY <2>1
<1>11. DOMAIN data = 1..n BY <1>1, LenProperties
<1>12. Ends(data) = {n}
  <2>1. \A i \in 1..n : data[i][2] = i /\ data[i][3] = n BY <1>1
  <2> HIDE DEF data
  <2> QED BY <1>3, <1>11, <2>1 DEF Ends
<1>13. data[1][1] = k BY <1>1, <1>3
<1> HIDE DEF data
<1>14. data \in Lines(file) BY <1>7, <1>8, <1>9, <1>10 DEF Lines
<1>15. data = Bytes(data[1][1], Len(data)) BY <1>1, <1>13 DEF data
<1>16. data \in Fetched(file) BY <1>1, <1>12, <1>14, <1>15 DEF Fetched
<1> QED BY <1>16 DEF data

\* What a call of record does to a bucket it does not write to: it is new, or
\* nothing of it has changed but the size that is known of it.
Untouched(c) ==
  IF c \in In(source)
  THEN /\ source'.files[c] = source.files[c]
       /\ source'.sizes[c] = source.sizes[c] \/ source'.sizes[c] = Len(source.files[c])
  ELSE source'.files[c] = <<>> /\ source'.sizes[c] = 0

\* And to the one it writes k bytes of n to.
Puts(b, n, k) ==
  /\ k \in 1..n /\ Takes(b, n, k) /\ b \in In(source') /\ b \in Buckets /\ b.id <= calls + 1
  /\ \E p \in Nat :
       /\ Holds(source'.files[b], Part(n, k), p) /\ Len(source'.files[b]) = p + k
       /\ k = n => source'.sizes[b] = p + n
       /\ IF b \in In(source) THEN p = source.sizes[b] ELSE p = 0

LEMMA CallWrites ==
  ASSUME Sound(source), Known(source), calls \in Nat, NEW s \in Starts, NEW n \in Lengths,
         StoreAssumption, LogAssumption, Calling(s, n)
  PROVE  \/ writes' = writes /\ \A c \in In(source') : Untouched(c)
         \/ \E b, k : Puts(b, n, k) /\ \A c \in In(source') : c # b => Untouched(c)
<1> DEFINE st == Prepared(s, n)
           b == Bucket(st, s)
<1>1. n \in Nat BY CallSteps
<1>2. /\ Ready(st, source, b) /\ b \in Buckets /\ b.id <= calls + 1
      /\ \E after \in Preparing(s, n) \cup {st} :
           /\ Sound(after) /\ In(source') = In(after)
           /\ after # st => Trimmed(after, source)
           /\ \/ writes' = writes /\ (source' = after \/ source' = Open(after.files))
              \/ /\ after = st
                 /\ \E k \in 1..n :
                      LET w == Write(st, b, Part(n, k))
                          counted == Count(w, b, n)
                      IN /\ Takes(b, n, k)
                         /\ source' = counted \/ source' = Open(counted.files)
                         /\ Sound(counted) /\ Wrote(st, w, b, Part(n, k))
                         /\ Counted(w, counted, b, n)
  BY CallStores
<1> HIDE DEF st, b
<1>3. PICK after \in Preparing(s, n) \cup {st} :
        /\ Sound(after) /\ In(source') = In(after)
        /\ after # st => Trimmed(after, source)
        /\ \/ writes' = writes /\ (source' = after \/ source' = Open(after.files))
           \/ /\ after = st
              /\ \E k \in 1..n :
                   LET w == Write(st, b, Part(n, k))
                       counted == Count(w, b, n)
                   IN /\ Takes(b, n, k)
                      /\ source' = counted \/ source' = Open(counted.files)
                      /\ Sound(counted) /\ Wrote(st, w, b, Part(n, k))
                      /\ Counted(w, counted, b, n)
  BY <1>2
\* A bucket before anything is written to it.
<1>4. ASSUME NEW c \in In(after)
      PROVE  IF c \in In(source)
             THEN after.files[c] = source.files[c] /\ after.sizes[c] = source.sizes[c]
             ELSE after.files[c] = <<>> /\ after.sizes[c] = 0
  <2>1. CASE after = st BY <1>2, <2>1 DEF Ready
  <2>2. CASE after # st BY <1>3, <2>2 DEF Trimmed, Less
  <2> QED BY <2>1, <2>2
<1>5. CASE writes' = writes /\ (source' = after \/ source' = Open(after.files))
  <2>1. ASSUME NEW c \in In(source') PROVE Untouched(c)
    <3>1. c \in In(after) BY <1>3
    <3>2. CASE source' = after BY <1>4, <3>1, <3>2 DEF Untouched
    <3>3. CASE source' = Open(after.files)
      <4>1. source'.files = after.files /\ source'.sizes[c] = Len(after.files[c])
        BY <1>3, <3>1, <3>3, OpenSound
      <4> DEFINE empty == <<>>
      <4>2. Len(empty) = 0 OBVIOUS
      <4> QED BY <1>4, <3>1, <4>1, <4>2 DEF Untouched
    <3> QED BY <1>5, <3>2, <3>3
  <2> QED BY <1>5, <2>1
<1>6. CASE /\ after = st
           /\ \E k \in 1..n :
                LET w == Write(st, b, Part(n, k))
                    counted == Count(w, b, n)
                IN /\ Takes(b, n, k)
                   /\ source' = counted \/ source' = Open(counted.files)
                   /\ Sound(counted) /\ Wrote(st, w, b, Part(n, k))
                   /\ Counted(w, counted, b, n)
  <2>1. PICK k \in 1..n :
          LET w == Write(st, b, Part(n, k))
              counted == Count(w, b, n)
          IN /\ Takes(b, n, k)
             /\ source' = counted \/ source' = Open(counted.files)
             /\ Sound(counted) /\ Wrote(st, w, b, Part(n, k))
             /\ Counted(w, counted, b, n)
    BY <1>6
  <2> DEFINE part == Part(n, k)
             w == Write(st, b, part)
             counted == Count(w, b, n)
             p == st.sizes[b]
  <2>2. /\ Takes(b, n, k) /\ (source' = counted \/ source' = Open(counted.files))
        /\ Sound(counted) /\ Wrote(st, w, b, part) /\ Counted(w, counted, b, n)
    BY <2>1
  <2>3. k \in 0..n /\ k \in Nat /\ k # 0 BY <1>1, SMT
  <2>4. part \in Seq(Byte) /\ Len(part) = k BY <1>1, <2>3, PartSeq
  <2>5. part # <<>>
    <3>1. CASE part = <<>>
      <4>1. Len(part) = 0 BY <3>1
      <4> HIDE DEF part
      <4> QED BY <2>3, <2>4, <4>1
    <3> QED BY <3>1
  <2> HIDE DEF part, w, counted
  <2>6. /\ counted.files = w.files /\ In(counted) = In(st) /\ In(w) = In(st) /\ w.sizes = st.sizes
    BY <2>2 DEF Wrote, Counted
  <2>7. b \in In(st) /\ Sound(st) /\ In(source') = In(st) BY <1>2, <1>3, <1>6 DEF Ready
  \* The store, whether it was opened again or not.
  <2>8. /\ source'.files = w.files
        /\ \A c \in In(st) : \/ source'.sizes[c] = counted.sizes[c]
                             \/ source'.sizes[c] = Len(w.files[c])
    <3>1. CASE source' = counted BY <2>6, <3>1
    <3>2. CASE source' = Open(counted.files) BY <2>2, <2>6, <3>2, OpenSound
    <3> QED BY <2>2, <3>1, <3>2
  <2>9. ASSUME NEW c \in In(source'), c # b PROVE Untouched(c)
    <3>1. w.files[c] = st.files[c] /\ counted.sizes[c] = st.sizes[c] /\ c \in In(st)
      BY <2>2, <2>6, <2>7, <2>9 DEF Wrote, Counted
    <3>2. source'.files[c] = st.files[c]
          /\ (source'.sizes[c] = st.sizes[c] \/ source'.sizes[c] = Len(st.files[c]))
      BY <2>8, <3>1
    <3> DEFINE empty == <<>>
    <3>3. Len(empty) = 0 OBVIOUS
    <3> QED BY <1>4, <1>6, <3>1, <3>2, <3>3 DEF Untouched
  <2>10. p \in Nat BY <2>7, FileType DEF Sound
  <2>11. /\ Len(w.files[b]) = p + k /\ counted.sizes[b] = p + n
         /\ \A i \in 1..k : w.files[b][p + i] = part[i]
    BY <2>2, <2>4, <2>5, <2>6 DEF Wrote, Counted
  <2>12. IF b \in In(source) THEN p = source.sizes[b] ELSE p = 0 BY <1>4, <1>6, <2>7
  <2>13. k = n => source'.sizes[b] = p + n BY <2>7, <2>8, <2>11
  <2> HIDE DEF p
  <2>14. p + k <= p + k BY <2>3, <2>10, SMT
  <2>15. Holds(source'.files[b], part, p) BY <2>4, <2>8, <2>10, <2>11, <2>14 DEF Holds
  <2>16. Puts(b, n, k)
    BY <1>2, <2>2, <2>7, <2>8, <2>10, <2>11, <2>12, <2>13, <2>15 DEF Puts, part
  <2> QED BY <2>9, <2>16
<1> QED BY <1>3, <1>5, <1>6

\* What was written is what its calls had to write, or the first of it, and is
\* where it was written.
WriteInv(w) ==
  /\ w.bucket \in Buckets /\ w.bucket.id <= calls /\ w.call \in Nat /\ w.call <= calls
  /\ w.length \in Nat \ {0} /\ w.data \in Seq(Byte)
  /\ CutShort(w) \/ w.data = Bytes(w.call, w.length)
  /\ w.bucket \in In(source) => \E p : Holds(source.files[w.bucket], w.data, p)
WritesInv == \A w \in writes : WriteInv(w)

\* A bucket that was written to is no new one, and has lost nothing.
LEMMA WritesGrow ==
  ASSUME Inv, WritesInv, Inv', Grows(source'), LogAssumption,
         NEW w \in writes, w.bucket \in In(source')
  PROVE  /\ w.bucket \in In(source) /\ Extends(source'.files[w.bucket], source.files[w.bucket])
         /\ source.files[w.bucket] \in Seq(Byte) /\ source'.files[w.bucket] \in Seq(Byte)
<1> DEFINE b == w.bucket
<1>1. b \in Buckets /\ b.id <= calls BY DEF WritesInv, WriteInv
<1>2. b.id \in Nat /\ calls \in Nat
  <2>1. b.id \in 1..MaxRecords /\ calls \in 0..MaxRecords /\ MaxRecords \in Nat
    BY <1>1 DEF Buckets, Inv, Numbers, LogAssumption
  <2> HIDE DEF b
  <2> QED BY <2>1, SMT
<1>3. b.id # calls + 1
  <2> HIDE DEF b
  <2> QED BY <1>1, <1>2, SMT
<1>4. b \in In(source) /\ Extends(source'.files[b], source.files[b]) BY <1>3 DEF Grows
<1>5. Sound(source) BY DEF Inv, StoresInv
<1>6. source.files[b] \in Seq(Byte) BY <1>4, <1>5, FileType DEF Sound
<1>7. Sound(source') BY DEF Grows
<1>8. source'.files[b] \in Seq(Byte) BY <1>7, FileType DEF Sound
<1> QED BY <1>4, <1>6, <1>8

\* The write of a call that writes.
LEMMA NewWrite ==
  ASSUME calls \in Nat, calls' = calls + 1, NEW n \in Nat \ {0}, NEW b, NEW k, Puts(b, n, k)
  PROVE  \E new : /\ writes' = writes \cup {new} /\ WriteInv(new)'
                  /\ new.bucket = b /\ new.call = calls + 1 /\ new.data = Part(n, k)
                  /\ CutShort(new) <=> k # n
<1>0. PICK part, new : /\ part = Part(n, k)
                       /\ new = [bucket |-> b, call |-> calls + 1, length |-> n, data |-> part]
  OBVIOUS
<1>1. /\ k \in 1..n /\ writes' = writes \cup {new} /\ b \in Buckets /\ b.id <= calls'
      /\ b \in In(source') => \E p : Holds(source'.files[b], part, p)
  BY <1>0 DEF Puts, Takes
<1>2. k \in 0..n /\ calls + 1 \in Nat /\ calls + 1 <= calls' BY <1>1, SMT
<1>3. /\ part \in Seq(Byte) /\ Len(part) = k /\ k \in Nat /\ k <= n
      /\ \A i \in 1..k : part[i] = <<calls + 1, i, n>>
  BY <1>0, <1>2, PartSeq
<1>4. /\ new.bucket = b /\ new.call = calls + 1 /\ new.length = n /\ new.data = part
  BY <1>0
<1>5. CutShort(new) <=> k # n BY <1>3, <1>4, SMT DEF CutShort
<1>6. ASSUME k = n PROVE part = Bytes(calls + 1, n)
  <2> DEFINE data == Bytes(calls + 1, n)
  <2>1. data \in Seq(Byte) /\ Len(data) = n /\ \A i \in 1..n : data[i] = <<calls + 1, i, n>>
    BY <1>2, BytesSeq
  <2> HIDE DEF data
  <2>2. Len(part) = Len(data) /\ \A i \in 1..Len(part) : part[i] = data[i] BY <1>3, <1>6, <2>1
  <2>3. part = data BY <1>3, <2>1, <2>2, SeqEqual
  <2> QED BY <2>3 DEF data
<1>7. CutShort(new) \/ new.data = Bytes(new.call, new.length) BY <1>4, <1>5, <1>6
<1>8. WriteInv(new)' BY <1>1, <1>2, <1>3, <1>4, <1>7 DEF WriteInv
<1> QED BY <1>0, <1>1, <1>4, <1>5, <1>8

LEMMA WritesStep ==
  ASSUME Inv, WritesInv, [Next]_vars, StoreAssumption, LogAssumption
  PROVE  WritesInv'
<1>1. /\ Inv'
      /\ \/ Recording /\ Grows(source') /\ calls' = calls + 1
         \/ UNCHANGED <<source, calls, writes>>
  BY InvStep
<1>2. CASE UNCHANGED <<source, calls, writes>> BY <1>2 DEF WritesInv, WriteInv
<1>3. CASE Recording /\ Grows(source') /\ calls' = calls + 1
  <2>0. calls \in Nat /\ calls \in 0..MaxRecords /\ MaxRecords \in Nat
    BY SMT DEF Inv, Numbers, LogAssumption
  \* What holds of the writes there were.
  <2>1. ASSUME NEW w \in writes PROVE WriteInv(w)'
    <3>1. WriteInv(w) BY DEF WritesInv
    <3>2. w.bucket.id <= calls' /\ w.call <= calls'
      <4> DEFINE x == w.bucket.id
                 y == w.call
      <4>1. x \in 1..MaxRecords /\ x <= calls /\ y \in Nat /\ y <= calls
        BY <3>1 DEF WriteInv, Buckets
      <4> HIDE DEF x, y
      <4>2. x <= calls + 1 /\ y <= calls + 1 BY <2>0, <4>1, SMT
      <4> QED BY <1>3, <4>2 DEF x, y
    <3>3. ASSUME w.bucket \in In(source')
          PROVE  \E p : Holds(source'.files[w.bucket], w.data, p)
      <4>1. /\ w.bucket \in In(source)
            /\ Extends(source'.files[w.bucket], source.files[w.bucket])
            /\ source.files[w.bucket] \in Seq(Byte) /\ source'.files[w.bucket] \in Seq(Byte)
        BY <1>1, <1>3, <3>3, WritesGrow
      <4>2. PICK p : Holds(source.files[w.bucket], w.data, p) BY <3>1, <4>1 DEF WriteInv
      <4>3. w.data \in Seq(Byte) BY <3>1 DEF WriteInv
      <4>4. Holds(source'.files[w.bucket], w.data, p) BY <4>1, <4>2, <4>3, HoldsLonger
      <4> QED BY <4>4
    <3> QED BY <3>1, <3>2, <3>3 DEF WriteInv
  <2>2. PICK s \in Starts, n \in Lengths : Calling(s, n) BY <1>3 DEF Recording
  <2>3. n \in Nat \ {0} BY DEF LogAssumption
  <2>4. \/ writes' = writes
        \/ \E b, k : Puts(b, n, k)
    BY <2>0, <2>2, CallWrites DEF Inv, StoresInv
  <2>5. CASE writes' = writes BY <2>1, <2>5 DEF WritesInv
  <2>6. CASE \E b, k : Puts(b, n, k)
    <3>1. PICK b, k : Puts(b, n, k) BY <2>6
    <3>2. PICK new : writes' = writes \cup {new} /\ WriteInv(new)'
      BY <1>3, <2>0, <2>3, <3>1, NewWrite
    <3> QED BY <2>1, <3>2 DEF WritesInv
  <2> QED BY <2>4, <2>5, <2>6
<1> QED BY <1>1, <1>2, <1>3

LEMMA WritesHold == Spec => []WritesInv
<1>1. Init => WritesInv BY DEF Init, WritesInv
<1>2. Inv /\ WritesInv /\ [Next]_vars => WritesInv'
  BY WritesStep, StoreAssumption, LogAssumption
<1> QED BY <1>1, <1>2, InvHolds, PTL DEF Spec

\* What a write took of a record stays in its bucket's file, whatever is written
\* to it, until the bucket is evicted (the writer's seek_to and write); what it
\* did not take is lost (append does not look at what write returns).
THEOREM RecordsKept == Spec => []Kept
<1>1. Inv /\ WritesInv => Kept
  <2> SUFFICES ASSUME Inv, WritesInv, NEW w \in writes, w.bucket \in In(source)
               PROVE  \E p \in 0..(Len(source.files[w.bucket]) - Len(w.data)) :
                        SubSeq(source.files[w.bucket], p + 1, p + Len(w.data)) = w.data
    BY DEF Kept
  <2>1. PICK p : Holds(source.files[w.bucket], w.data, p) BY DEF WritesInv, WriteInv
  <2>2. source.files[w.bucket] \in Seq(Byte) /\ w.data \in Seq(Byte)
    BY FileType DEF Inv, StoresInv, Sound, WritesInv, WriteInv
  <2> QED BY <2>1, <2>2, HoldsSubSeq
<1> QED BY <1>1, InvHolds, WritesHold, PTL

-----------------------------------------------------------------------------
(* The records that are fetched *)

\* The next record begins a line where the file ends.
Tidy(st, b) == st.sizes[b] = Len(st.files[b]) /\ Begins(st.files[b], st.sizes[b])

\* The last write to b was cut short.
LastCut(b) ==
  \E c \in writes : /\ c.bucket = b /\ CutShort(c)
                    /\ \A q \in writes : q.bucket = b => q.call <= c.call

\* A bucket is untidy only after a write that was cut short, and only the record
\* that is appended to it then is hidden: the bucket is tidy after it.
BucketInv(b) ==
  /\ Tidy(source, b) \/ LastCut(b)
  /\ \A w \in writes : w.bucket = b =>
       CutShort(w) \/ Hidden(w) \/ Shown(source.files[b], w.data)
ShownInv == \A b \in In(source) : BucketInv(b)

LEMMA ShownLonger ==
  ASSUME NEW file \in Seq(Byte), NEW longer \in Seq(Byte), Extends(longer, file),
         NEW data \in Seq(Byte), Shown(file, data)
  PROVE  Shown(longer, data)
BY HoldsLonger DEF Shown

\* A bucket that is not written to.
LEMMA UntouchedShown ==
  ASSUME Inv, WritesInv, ShownInv, Inv', Grows(source'), LogAssumption,
         NEW c \in In(source'), Untouched(c),
         \A w \in writes' : w.bucket = c => w \in writes,
         \A w \in writes : w \in writes',
         \A w \in writes : Hidden(w) => Hidden(w)'
  PROVE  BucketInv(c)'
<1>1. CASE c \in In(source)
  <2>1. BucketInv(c) /\ source'.files[c] = source.files[c]
        /\ (source'.sizes[c] = source.sizes[c] \/ source'.sizes[c] = Len(source.files[c]))
    BY <1>1 DEF ShownInv, Untouched
  <2>2. Tidy(source, c) => Tidy(source', c) BY <2>1 DEF Tidy
  <2>3. LastCut(c) => LastCut(c)'
    <3> SUFFICES ASSUME NEW w \in writes, w.bucket = c, CutShort(w),
                        \A q \in writes : q.bucket = c => q.call <= w.call
                 PROVE  LastCut(c)'
      BY DEF LastCut
    <3> QED BY DEF LastCut
  <2>4. \A w \in writes' : w.bucket = c =>
          CutShort(w) \/ Hidden(w)' \/ Shown(source'.files[c], w.data)
    BY <2>1 DEF BucketInv
  <2> QED BY <2>1, <2>2, <2>3, <2>4 DEF BucketInv
<1>2. CASE c \notin In(source)
  <2> DEFINE empty == <<>>
  <2>1. source'.files[c] = empty /\ source'.sizes[c] = 0 /\ Len(empty) = 0
    BY <1>2 DEF Untouched
  <2>2. Tidy(source', c) BY <2>1 DEF Tidy, Begins
  <2>3. \A w \in writes' : w.bucket # c BY <1>2, WritesGrow
  <2> QED BY <2>2, <2>3 DEF BucketInv
<1> QED BY <1>1, <1>2

\* The bucket that is written to: the record is shown unless the bucket was
\* untidy, and the bucket is tidy then unless the write was cut short.
LEMMA PutShown ==
  ASSUME Inv, WritesInv, ShownInv, Inv', Grows(source'), LogAssumption,
         calls \in Nat, calls' = calls + 1, NEW n \in Nat \ {0}, NEW b, NEW k, Puts(b, n, k),
         NEW new, writes' = writes \cup {new},
         new.bucket = b, new.call = calls + 1, new.data = Part(n, k), CutShort(new) <=> k # n,
         \A w \in writes : Hidden(w) => Hidden(w)'
  PROVE  BucketInv(b)'
<1> DEFINE part == Part(n, k)
           now == source'.files[b]
           old == source.files[b]
<1>1. k \in 1..n /\ k \in 0..n /\ k \in Nat /\ b \in In(source') BY SMT DEF Puts
<1>2. /\ part \in Seq(Byte) /\ Len(part) = k
      /\ \A i \in 1..k : part[i] = <<calls + 1, i, n>>
  BY <1>1, PartSeq
<1>3. PICK p \in Nat :
        /\ Holds(now, part, p) /\ Len(now) = p + k
        /\ k = n => source'.sizes[b] = p + n
        /\ IF b \in In(source) THEN p = source.sizes[b] ELSE p = 0
  BY DEF Puts
<1>4. now \in Seq(Byte)
  <2>1. Sound(source') BY DEF Grows
  <2> QED BY <1>1, <2>1, FileType DEF Sound
<1> HIDE DEF part
<1>5. \A w \in writes : w.call \in Nat /\ w.call <= calls BY DEF WritesInv, WriteInv
<1>6. Tidy(source', b) \/ LastCut(b)'
  <2>1. CASE k = n
    <3> DEFINE q == p + n
    <3>1. n \in 1..k /\ q \in 1..q BY <1>1, <2>1, SMT
    <3>2. now[q] = part[n] /\ part[n] = <<calls + 1, n, n>> BY <1>2, <1>3, <3>1 DEF Holds
    <3>3. part[n][2] = part[n][3] BY <3>2
    <3>4. Len(now) = q /\ source'.sizes[b] = q BY <1>3, <2>1
    <3> HIDE DEF q, now
    <3>5. Begins(now, q) BY <3>1, <3>2, <3>3, <3>4 DEF Begins
    <3> QED BY <3>4, <3>5 DEF Tidy, now
  <2>2. CASE k # n
    <3>1. ASSUME NEW w \in writes' PROVE w.call <= new.call
      <4>1. CASE w \in writes BY <1>5, <4>1, SMT
      <4>2. CASE w = new BY <4>2, SMT
      <4> QED BY <4>1, <4>2
    <3> QED BY <2>2, <3>1 DEF LastCut
  <2> QED BY <2>1, <2>2
<1>7. ASSUME NEW w \in writes, w.bucket = b
      PROVE  CutShort(w) \/ Hidden(w)' \/ Shown(now, w.data)
  <2>1. w.bucket \in In(source') BY <1>1, <1>7
  <2>2. /\ w.bucket \in In(source)
        /\ Extends(source'.files[w.bucket], source.files[w.bucket])
        /\ source.files[w.bucket] \in Seq(Byte)
    BY <2>1, WritesGrow
  <2>3. b \in In(source) /\ Extends(now, old) /\ old \in Seq(Byte) BY <1>7, <2>2
  <2>4. CutShort(w) \/ Hidden(w) \/ Shown(old, w.data) BY <1>7, <2>3 DEF ShownInv, BucketInv
  <2>5. w.data \in Seq(Byte) BY DEF WritesInv, WriteInv
  <2> QED BY <1>4, <2>3, <2>4, <2>5, ShownLonger
<1>8. CutShort(new) \/ Hidden(new)' \/ Shown(now, new.data)
  <2>1. CASE b \notin In(source)
    <3>1. p = 0 BY <1>3, <2>1
    <3> QED BY <1>3, <3>1 DEF Shown, Begins, part
  <2>2. CASE b \in In(source) /\ Tidy(source, b)
    <3>1. old \in Seq(Byte) /\ p = Len(old) /\ Begins(old, p)
      <4>1. Sound(source) BY DEF Inv, StoresInv
      <4> QED BY <1>3, <2>2, <4>1, FileType DEF Sound, Tidy
    <3>2. Begins(now, p)
      <4>1. Extends(now, old)
        <5>1. calls + 1 # b.id \/ b \in In(source) BY <2>2
        <5> QED BY <1>1, <2>2 DEF Grows
      <4>2. \A i \in 1..Len(old) : now[i] = old[i] BY <4>1 DEF Extends
      <4>3. p \in Nat /\ Len(now) = p + k BY <1>3
      <4> HIDE DEF now, old
      <4>4. p \in 1..Len(old) => p \in 1..Len(now) BY <1>1, <3>1, <4>3, SMT
      <4> QED BY <3>1, <4>2, <4>4 DEF Begins
    <3> QED BY <1>3, <3>2 DEF Shown, part
  <2>3. CASE b \in In(source) /\ ~Tidy(source, b)
    <3>1. PICK c \in writes : /\ c.bucket = b /\ CutShort(c)
                              /\ \A q \in writes : q.bucket = b => q.call <= c.call
      BY <2>3 DEF ShownInv, BucketInv, LastCut
    <3>2. c \in writes' /\ c.call < new.call BY <1>5, SMT
    <3>3. ASSUME NEW q \in writes', q.bucket = b, c.call < q.call, q.call < new.call
          PROVE  FALSE
      <4>1. CASE q \in writes
        <5>1. q.call <= c.call /\ q.call \in Nat /\ c.call \in Nat BY <1>5, <3>1, <3>3, <4>1
        <5> QED BY <3>3, <5>1, SMT
      <4>2. CASE q = new BY <3>3, <4>2, SMT
      <4> QED BY <4>1, <4>2
    <3> QED BY <3>1, <3>2, <3>3 DEF Hidden
  <2> QED BY <2>1, <2>2, <2>3
<1> QED BY <1>6, <1>7, <1>8 DEF BucketInv

LEMMA ShownStep ==
  ASSUME Inv, WritesInv, ShownInv, [Next]_vars, StoreAssumption, LogAssumption
  PROVE  ShownInv'
<1>1. /\ Inv'
      /\ \/ Recording /\ Grows(source') /\ calls' = calls + 1
         \/ UNCHANGED <<source, calls, writes>>
  BY InvStep
<1>2. CASE UNCHANGED <<source, calls, writes>>
  BY <1>2 DEF ShownInv, BucketInv, LastCut, Hidden, Tidy
<1>3. CASE Recording /\ Grows(source') /\ calls' = calls + 1
  <2>1. PICK s \in Starts, n \in Lengths : Calling(s, n) BY <1>3 DEF Recording
  <2>2. calls \in Nat /\ n \in Nat \ {0} BY SMT DEF Inv, Numbers, LogAssumption
  <2>3. \/ writes' = writes /\ \A c \in In(source') : Untouched(c)
        \/ \E b, k : Puts(b, n, k) /\ \A c \in In(source') : c # b => Untouched(c)
    BY <2>1, <2>2, CallWrites DEF Inv, StoresInv
  <2>4. CASE writes' = writes /\ \A c \in In(source') : Untouched(c)
    <3>1. \A w \in writes : Hidden(w) => Hidden(w)' BY <2>4 DEF Hidden
    <3>2. \A c \in In(source') : BucketInv(c)' BY <1>1, <1>3, <2>4, <3>1, UntouchedShown
    <3> QED BY <3>2 DEF ShownInv
  <2>5. CASE \E b, k : Puts(b, n, k) /\ \A c \in In(source') : c # b => Untouched(c)
    <3>1. PICK b, k : Puts(b, n, k) /\ \A c \in In(source') : c # b => Untouched(c) BY <2>5
    <3>2. PICK new : /\ writes' = writes \cup {new}
                     /\ new.bucket = b /\ new.call = calls + 1 /\ new.data = Part(n, k)
                     /\ CutShort(new) <=> k # n
      BY <1>3, <2>2, <3>1, NewWrite
    <3>3. ASSUME NEW w \in writes, Hidden(w) PROVE Hidden(w)'
      <4>1. PICK c \in writes :
              /\ c.bucket = w.bucket /\ c.call < w.call /\ CutShort(c)
              /\ \A q \in writes : q.bucket = w.bucket => ~(c.call < q.call /\ q.call < w.call)
        BY <3>3 DEF Hidden
      <4>2. ~(new.call < w.call)
        <5>1. w.call \in Nat /\ w.call <= calls BY DEF WritesInv, WriteInv
        <5> QED BY <2>2, <3>2, <5>1, SMT
      <4> QED BY <3>2, <4>1, <4>2 DEF Hidden
    <3>4. BucketInv(b)' BY <1>1, <1>3, <2>2, <3>1, <3>2, <3>3, PutShown
    <3>5. \A c \in In(source') : c # b => BucketInv(c)'
      BY <1>1, <1>3, <3>1, <3>2, <3>3, UntouchedShown
    <3> QED BY <3>4, <3>5 DEF ShownInv
  <2> QED BY <2>3, <2>4, <2>5
<1> QED BY <1>1, <1>2, <1>3

\* However many writes were cut short, only what they cut and the record that
\* follows each on its line are lost: that record ends the line, so the next
\* begins one and is fetched.
THEOREM FewHidden == Spec => []FetchedOrHidden
<1>1. Init => ShownInv BY DEF Init, ShownInv, In, NoStore
<1>2. Inv /\ WritesInv /\ ShownInv /\ [Next]_vars => ShownInv'
  BY ShownStep, StoreAssumption, LogAssumption
<1>3. Inv /\ WritesInv /\ ShownInv => FetchedOrHidden
  <2> SUFFICES ASSUME Inv, WritesInv, ShownInv, NEW w \in writes, w.bucket \in In(source),
                      ~CutShort(w), ~Hidden(w)
               PROVE  w.data \in Fetched(source.files[w.bucket])
    BY DEF FetchedOrHidden
  <2>1. source.files[w.bucket] \in Seq(Byte) BY FileType DEF Inv, StoresInv, Sound
  <2>2. w.data = Bytes(w.call, w.length) /\ w.call \in Nat /\ w.length \in Nat \ {0}
    BY DEF WritesInv, WriteInv
  <2>3. Shown(source.files[w.bucket], w.data) BY DEF ShownInv, BucketInv
  <2> QED BY <2>1, <2>2, <2>3, ShownFetched
<1> QED BY <1>1, <1>2, <1>3, InvHolds, WritesHold, PTL DEF Spec

=============================================================================
