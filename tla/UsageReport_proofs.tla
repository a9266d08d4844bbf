-------------------------- MODULE UsageReport_proofs --------------------------
(***************************************************************************)
(* Theorems about the operators of UsageReport, for any rows and limits.   *)
(***************************************************************************)
EXTENDS UsageReport, FiniteSetTheorems, SequenceTheorems, WellFoundedInduction, TLAPS

(***************************************************************************)
(* Induction over the subsets of a finite set, in the form the provers can *)
(* use: of any sets of them one is minimal.                                *)
(***************************************************************************)
LEMMA MinimalSubset ==
  ASSUME NEW S, IsFiniteSet(S), NEW Bad \in SUBSET (SUBSET S), Bad # {}
  PROVE  \E s \in Bad : \A t \in Bad : ~(t \subseteq s /\ t # s)
<1>1. IsWellFoundedOn(StrictSubsetOrdering(S), FiniteSubsetsOf(S))
  BY FS_StrictSubsetOrderingWellFounded
<1>2. Bad \subseteq FiniteSubsetsOf(S)
  BY FS_Subset DEF FiniteSubsetsOf
<1>3. \E s \in Bad : \A t \in Bad : ~(<<t, s>> \in StrictSubsetOrdering(S))
  BY <1>1, <1>2, WFMin
<1> QED
  BY <1>3 DEF StrictSubsetOrdering

\* What a function makes of a finite set is finite, and as large if nothing meets.
LEMMA ImageSize ==
  ASSUME NEW S, IsFiniteSet(S), NEW f
  PROVE  LET T == {f[x] : x \in S}
         IN  /\ IsFiniteSet(T)
             /\ (\A x, y \in S : f[x] = f[y] => x = y) => Cardinality(T) = Cardinality(S)
<1> DEFINE T == {f[x] : x \in S}
           g == [x \in S |-> f[x]]
<1>1. g \in Surjection(S, T)
  BY DEF Surjection
<1>2. (\A x, y \in S : f[x] = f[y] => x = y) => g \in Injection(S, T)
  BY DEF Injection, IsInjective
<1> HIDE DEF T, g
<1>3. /\ IsFiniteSet(T)
      /\ Cardinality(T) = Cardinality(S) <=> g \in Injection(S, T)
  BY <1>1, FS_Surjection
<1> QED
  BY <1>2, <1>3 DEF T

(***************************************************************************)
(* A sum over a finite set, in the order the fold takes its elements.      *)
(***************************************************************************)
Some(s) == CHOOSE x \in s : TRUE
Folded(f, S, h) ==
  h = [s \in SUBSET S |-> IF s = {} THEN 0 ELSE f[Some(s)] + h[s \ {Some(s)}]]
All(G, s) == UNION {G[x] : x \in s}

LEMMA FoldedSum ==
  ASSUME NEW S, NEW f, NEW g, Folded(f, S, g), \A h : Folded(f, S, h) => h = g
  PROVE  SumFunctionOnSet(f, S) = g[S]
BY DEF SumFunctionOnSet, FoldFunctionOnSet, MapThenFoldSet, Folded, Some

\* The fold takes each subset apart in one way, so that its equation has one solution.
LEMMA FoldedOnce ==
  ASSUME NEW S, IsFiniteSet(S), NEW f, NEW g, NEW h, Folded(f, S, g), Folded(f, S, h)
  PROVE  g = h
<1> DEFINE Bad == {s \in SUBSET S : g[s] # h[s]}
<1>1. Bad = {}
  <2> SUFFICES ASSUME Bad # {} PROVE FALSE
    OBVIOUS
  <2>1. PICK s \in Bad : \A t \in Bad : ~(t \subseteq s /\ t # s)
    <3>1. Bad \in SUBSET (SUBSET S)
      OBVIOUS
    <3> HIDE DEF Bad
    <3> QED
      BY <3>1, MinimalSubset
  <2>2. s \in SUBSET S /\ g[s] # h[s]
    OBVIOUS
  <2>3. s # {}
    BY <2>2 DEF Folded
  <2>4. Some(s) \in s
    BY <2>3 DEF Some
  <2> DEFINE rest == s \ {Some(s)}
  <2>5. rest \in SUBSET S /\ rest \subseteq s /\ rest # s
    BY <2>2, <2>4
  <2>6. g[rest] = h[rest]
    BY <2>1, <2>5
  <2>7. g[s] = f[Some(s)] + g[rest] /\ h[s] = f[Some(s)] + h[rest]
    BY <2>2, <2>3 DEF Folded
  <2> QED
    BY <2>2, <2>6, <2>7
<1>2. g = [s \in SUBSET S |-> g[s]] /\ h = [s \in SUBSET S |-> h[s]]
  BY DEF Folded
<1> QED
  BY <1>1, <1>2

(***************************************************************************)
(* A sum of the sizes of disjoint sets is the size of what they are        *)
(* together.                                                               *)
(***************************************************************************)
LEMMA SumOfSizes ==
  ASSUME NEW S, IsFiniteSet(S), NEW G, \A x \in S : IsFiniteSet(G[x]),
         \A x, y \in S : x # y => G[x] \cap G[y] = {},
         NEW f, \A x \in S : f[x] = Cardinality(G[x])
  PROVE  SumFunctionOnSet(f, S) = Cardinality(All(G, S))
<1> DEFINE size == [s \in SUBSET S |-> Cardinality(All(G, s))]
<1>1. \A s \in SUBSET S : IsFiniteSet(All(G, s))
  <2> TAKE s \in SUBSET S
  <2>1. IsFiniteSet(s)
    BY FS_Subset
  <2> DEFINE parts == {G[x] : x \in s}
  <2>2. IsFiniteSet(parts)
    BY <2>1, ImageSize
  <2>3. \A T \in parts : IsFiniteSet(T)
    OBVIOUS
  <2>4. All(G, s) = UNION parts
    BY DEF All
  <2> HIDE DEF parts
  <2> QED
    BY <2>2, <2>3, <2>4, FS_UNION
<1>2. Folded(f, S, size)
  <2>1. ASSUME NEW s \in SUBSET S
        PROVE  size[s] = IF s = {} THEN 0 ELSE f[Some(s)] + size[s \ {Some(s)}]
    <3>1. CASE s = {}
      <4>1. All(G, s) = {}
        BY <3>1 DEF All
      <4>2. Cardinality(All(G, s)) = 0
        BY <4>1, FS_EmptySet
      <4> QED
        BY <3>1, <4>2
    <3>2. CASE s # {}
      <4>1. PICK x \in s : x = Some(s)
        BY <3>2 DEF Some
      <4>2. All(G, s) = G[x] \cup All(G, s \ {x}) /\ G[x] \cap All(G, s \ {x}) = {}
        BY <4>1 DEF All
      <4>3. IsFiniteSet(G[x]) /\ IsFiniteSet(All(G, s \ {x})) /\ s \ {x} \in SUBSET S
        BY <1>1
      <4>4. Cardinality(G[x]) \in Nat /\ Cardinality(All(G, s \ {x})) \in Nat
        BY <4>3, FS_CardinalityType
      <4>5. Cardinality(G[x] \cup All(G, s \ {x})) =
              Cardinality(G[x]) + Cardinality(All(G, s \ {x}))
              - Cardinality(G[x] \cap All(G, s \ {x}))
        BY <4>3, FS_Union
      <4>6. Cardinality(G[x] \cap All(G, s \ {x})) = 0
        BY <4>2, FS_EmptySet
      <4>7. Cardinality(All(G, s)) = Cardinality(G[x]) + Cardinality(All(G, s \ {x}))
        BY <4>2, <4>4, <4>5, <4>6
      <4> QED
        BY <3>2, <4>1, <4>3, <4>7
    <3> QED
      BY <3>1, <3>2
  <2> HIDE DEF size
  <2>2. size = [s \in SUBSET S |-> size[s]]
    BY DEF size
  <2> QED
    BY <2>1, <2>2 DEF Folded
<1> HIDE DEF size
<1>3. SumFunctionOnSet(f, S) = size[S]
  BY <1>2, FoldedOnce, FoldedSum
<1> QED
  BY <1>3 DEF size

-------------------------------------------------------------------------------
(***************************************************************************)
(* Of finitely many elements one ranks highest.                            *)
(***************************************************************************)
LEMMA Highest ==
  ASSUME NEW S, IsFiniteSet(S), S # {}, NEW rank, \A x \in S : rank[x] \in Int
  PROVE  \E x \in S : \A y \in S : rank[y] <= rank[x]
<1> DEFINE above == [x \in S |-> {y \in S : rank[y] > rank[x]}]
           sets == {above[x] : x \in S}
<1>1. sets \in SUBSET (SUBSET S) /\ sets # {}
  OBVIOUS
<1>2. \E s \in sets : \A t \in sets : ~(t \subseteq s /\ t # s)
  <2> HIDE DEF sets
  <2> QED
    BY <1>1, MinimalSubset
<1>3. PICK x \in S : \A y \in S : ~(above[y] \subseteq above[x] /\ above[y] # above[x])
  <2> HIDE DEF above
  <2> QED
    BY <1>2
<1>4. ASSUME NEW y \in S, rank[y] > rank[x]
      PROVE  FALSE
  <2>1. above[y] \subseteq above[x]
    BY <1>4
  <2>2. y \in above[x] /\ y \notin above[y]
    BY <1>4
  <2> QED
    BY <1>3, <2>1, <2>2
<1> QED
  BY <1>3, <1>4

\* A sequence of a finite set has each element once.
LEMMA Enumeration ==
  ASSUME NEW S, IsFiniteSet(S), NEW seq \in SetToSeqs(S)
  PROVE  /\ seq \in [1..Cardinality(S) -> S] /\ Len(seq) = Cardinality(S)
         /\ DOMAIN seq = 1..Cardinality(S) /\ Cardinality(S) \in Nat
         /\ \A i, j \in DOMAIN seq : seq[i] = seq[j] => i = j
         /\ \A x \in S : \E i \in DOMAIN seq : seq[i] = x
<1> DEFINE n == Cardinality(S)
<1>1. n \in Nat
  BY FS_CardinalityType
<1>2. seq \in [1..n -> S] /\ \A i, j \in 1..n : i # j => seq[i] # seq[j]
  BY DEF SetToSeqs
<1> HIDE DEF n
<1>3. IsFiniteSet(1..n) /\ Cardinality(1..n) = n
  BY <1>1, FS_Interval
<1>4. seq \in Injection(1..n, S)
  BY <1>2 DEF Injection, IsInjective
<1>5. seq \in Surjection(1..n, S)
  BY <1>3, <1>4, FS_Injection DEF n
<1>6. Len(seq) = n
  BY <1>1, <1>2
<1> QED
  BY <1>1, <1>2, <1>5, <1>6 DEF n, Surjection

(***************************************************************************)
(* A finite set can be sorted by any rank, also where ranks are equal: a   *)
(* set without a highest element can be, and that goes to the end.         *)
(***************************************************************************)
Ascending(seq, rank) == \A i, j \in DOMAIN seq : i < j => rank[seq[i]] <= rank[seq[j]]

LEMMA Sortable ==
  ASSUME NEW S, IsFiniteSet(S), NEW rank, \A x \in S : rank[x] \in Int
  PROVE  \E seq \in SetToSeqs(S) : Ascending(seq, rank)
<1> DEFINE Bad == {T \in SUBSET S : ~\E seq \in SetToSeqs(T) : Ascending(seq, rank)}
<1> SUFFICES ASSUME Bad # {} PROVE FALSE
  OBVIOUS
<1>1. PICK T \in Bad : \A U \in Bad : ~(U \subseteq T /\ U # T)
  <2>1. Bad \in SUBSET (SUBSET S)
    OBVIOUS
  <2> HIDE DEF Bad
  <2> QED
    BY <2>1, MinimalSubset
<1>2. T \in SUBSET S /\ IsFiniteSet(T) /\ ~\E seq \in SetToSeqs(T) : Ascending(seq, rank)
  BY FS_Subset
<1>3. T # {}
  <2> SUFFICES ASSUME T = {} PROVE FALSE
    OBVIOUS
  <2>1. Cardinality(T) = 0
    BY FS_EmptySet
  <2>2. <<>> \in SetToSeqs(T) /\ Ascending(<<>>, rank)
    BY <2>1 DEF SetToSeqs, Ascending
  <2> QED
    BY <1>2, <2>2
<1>4. PICK x \in T : \A y \in T : rank[y] <= rank[x]
  BY <1>2, <1>3, Highest
<1> DEFINE U == T \ {x}
           n == Cardinality(U)
<1>5. IsFiniteSet(U) /\ Cardinality(T) = n + 1 /\ n \in Nat
  <2>1. IsFiniteSet(T \ {x}) /\ Cardinality(T \ {x}) = Cardinality(T) - 1
    BY <1>2, FS_RemoveElement
  <2>2. Cardinality(T) \in Nat /\ Cardinality(T \ {x}) \in Nat
    BY <1>2, <2>1, FS_CardinalityType
  <2> QED
    BY <2>1, <2>2
<1>6. PICK seq \in SetToSeqs(U) : Ascending(seq, rank)
  BY <1>1, <1>2
<1> HIDE DEF n
<1>7. seq \in [1..n -> U] /\ DOMAIN seq = 1..n /\ \A i, j \in 1..n : seq[i] = seq[j] => i = j
  <2> HIDE DEF U
  <2>1. /\ seq \in [1..Cardinality(U) -> U] /\ DOMAIN seq = 1..Cardinality(U)
        /\ \A i, j \in DOMAIN seq : seq[i] = seq[j] => i = j
    BY <1>5, <1>6, Enumeration
  <2> QED
    BY <2>1 DEF n
<1> DEFINE longer == [i \in 1..(n + 1) |-> IF i = n + 1 THEN x ELSE seq[i]]
<1>8. \A i \in 1..(n + 1) : i # n + 1 => i \in 1..n /\ longer[i] = seq[i] /\ longer[i] \in U
  BY <1>5, <1>7
<1>9. longer[n + 1] = x /\ DOMAIN longer = 1..(n + 1)
  BY <1>5
<1> HIDE DEF longer
<1>10. longer \in [1..(n + 1) -> T] /\ \A i, j \in 1..(n + 1) : i # j => longer[i] # longer[j]
  <2>1. \A i \in 1..(n + 1) : longer[i] \in T
    BY <1>8, <1>9
  <2>2. longer = [i \in 1..(n + 1) |-> longer[i]]
    BY DEF longer
  <2>3. ASSUME NEW i \in 1..(n + 1), NEW j \in 1..(n + 1), i # j
        PROVE  longer[i] # longer[j]
    BY <2>3, <1>7, <1>8, <1>9
  <2> QED
    BY <2>1, <2>2, <2>3
<1>11. longer \in SetToSeqs(T)
  BY <1>5, <1>10 DEF SetToSeqs
<1>12. Ascending(longer, rank)
  <2> SUFFICES ASSUME NEW i \in 1..(n + 1), NEW j \in 1..(n + 1), i < j
               PROVE  rank[longer[i]] <= rank[longer[j]]
    BY <1>9 DEF Ascending
  <2>1. i # n + 1 /\ i \in 1..n /\ longer[i] = seq[i] /\ longer[i] \in T
    BY <1>5, <1>8
  <2>2. CASE j = n + 1
    BY <2>1, <2>2, <1>4, <1>9
  <2>3. CASE j # n + 1
    BY <2>1, <2>3, <1>6, <1>7, <1>8 DEF Ascending
  <2> QED
    BY <2>2, <2>3
<1> QED
  BY <1>2, <1>11, <1>12

LEMMA SortedIs ==
  ASSUME NEW S, IsFiniteSet(S), NEW rank, \A x \in S : rank[x] \in Int
  PROVE  Sorted(S, rank) \in SetToSeqs(S) /\ Ascending(Sorted(S, rank), rank)
BY Sortable DEF Sorted, Ascending

-------------------------------------------------------------------------------
(***************************************************************************)
(* GROUP BY makes one row of each value there is.                          *)
(***************************************************************************)
Of(key, name) == {r \in DOMAIN key : key[r] = name}

LEMMA GroupsAre ==
  ASSUME NEW key, IsFiniteSet(DOMAIN key)
  PROVE  /\ IsFiniteSet(Groups(key)) /\ Cardinality(Groups(key)) = Cardinality(Range(key))
         /\ \A g \in Groups(key) :
              /\ g.name \in Range(key) /\ g.n \in Nat \ {0}
              /\ g.n = Cardinality(Of(key, g.name)) /\ g.errors = Errors(Of(key, g.name))
         /\ \A g, h \in Groups(key) : g.name = h.name => g = h
         /\ \A name \in Range(key) : \E g \in Groups(key) : g.name = name
<1> DEFINE group == [name \in Range(key) |->
                       [name |-> name, n |-> Cardinality(Of(key, name)),
                        errors |-> Errors(Of(key, name))]]
<1>1. Groups(key) = {group[name] : name \in Range(key)}
  BY DEF Groups, Of
<1>2. \A name \in Range(key) : /\ group[name].name = name
                               /\ group[name].n = Cardinality(Of(key, name))
                               /\ group[name].errors = Errors(Of(key, name))
  OBVIOUS
<1>3. IsFiniteSet(Range(key))
  BY ImageSize DEF Range
<1> HIDE DEF group
<1>4. \A name \in Range(key) : Cardinality(Of(key, name)) \in Nat \ {0}
  <2> TAKE name \in Range(key)
  <2>1. Of(key, name) \in SUBSET (DOMAIN key) /\ Of(key, name) # {}
    BY DEF Of, Range
  <2>2. IsFiniteSet(Of(key, name))
    BY <2>1, FS_Subset
  <2> QED
    BY <2>1, <2>2, FS_CardinalityType, FS_EmptySet
<1>5. \A name, other \in Range(key) : group[name] = group[other] => name = other
  BY <1>2
<1>6. IsFiniteSet(Groups(key)) /\ Cardinality(Groups(key)) = Cardinality(Range(key))
  BY <1>1, <1>3, <1>5, ImageSize
<1> QED
  BY <1>1, <1>2, <1>4, <1>6

\* The rows that have one of the names.
Having(key, I, name) == {r \in DOMAIN key : \E i \in I : key[r] = name[i]}

\* Groups of different names add up to the rows of all these names.
LEMMA GroupsAddUp ==
  ASSUME NEW key, IsFiniteSet(DOMAIN key), NEW I, IsFiniteSet(I), NEW name,
         \A i, j \in I : name[i] = name[j] => i = j,
         NEW f, \A i \in I : f[i] = Cardinality(Of(key, name[i]))
  PROVE  SumFunctionOnSet(f, I) = Cardinality(Having(key, I, name))
<1> DEFINE G == [i \in I |-> Of(key, name[i])]
<1>1. \A i \in I : G[i] \in SUBSET (DOMAIN key) /\ f[i] = Cardinality(G[i])
  BY DEF Of
<1>2. \A i \in I : IsFiniteSet(G[i])
  BY <1>1, FS_Subset
<1>3. \A i, j \in I : i # j => G[i] \cap G[j] = {}
  BY DEF Of
<1>4. All(G, I) = Having(key, I, name)
  BY DEF All, Of, Having
<1> HIDE DEF G
<1>5. SumFunctionOnSet(f, I) = Cardinality(All(G, I))
  BY <1>1, <1>2, <1>3, SumOfSizes
<1> QED
  BY <1>4, <1>5

(***************************************************************************)
(* The first k groups of a list have all rows exactly if they are all      *)
(* groups.                                                                 *)
(***************************************************************************)
LEMMA FirstGroups ==
  ASSUME NEW key, IsFiniteSet(DOMAIN key), NEW seq \in SetToSeqs(Groups(key)),
         NEW k \in 0..Len(seq), NEW f, DOMAIN f = 1..k, \A i \in 1..k : f[i] = seq[i].n
  PROVE  /\ SumFunction(f) <= Cardinality(DOMAIN key)
         /\ SumFunction(f) = Cardinality(DOMAIN key) <=> k = Len(seq)
<1> DEFINE name == [i \in 1..Len(seq) |-> seq[i].name]
           shown == {r \in DOMAIN key : \E i \in 1..k : key[r] = name[i]}
<1>1. IsFiniteSet(Groups(key))
  BY GroupsAre
<1>2. /\ Len(seq) \in Nat /\ \A i \in 1..Len(seq) : seq[i] \in Groups(key)
      /\ \A i, j \in 1..Len(seq) : seq[i] = seq[j] => i = j
      /\ \A g \in Groups(key) : \E i \in 1..Len(seq) : seq[i] = g
  BY <1>1, Enumeration
<1>3. \A i, j \in 1..Len(seq) : name[i] = name[j] => i = j
  BY <1>2, GroupsAre
<1>4. \A i \in 1..k : i \in 1..Len(seq) /\ f[i] = Cardinality(Of(key, name[i]))
  BY <1>2, GroupsAre
<1>5. IsFiniteSet(1..k)
  BY FS_Interval
<1>6. \A r \in DOMAIN key : \E i \in 1..Len(seq) : key[r] = name[i]
  <2> TAKE r \in DOMAIN key
  <2>1. key[r] \in Range(key)
    BY DEF Range
  <2>2. PICK g \in Groups(key) : g.name = key[r]
    BY <2>1, GroupsAre
  <2> QED
    BY <2>2, <1>2
<1>7. \A i \in 1..Len(seq) : \E r \in DOMAIN key : key[r] = name[i]
  <2> TAKE i \in 1..Len(seq)
  <2>1. seq[i].name \in Range(key)
    BY <1>2, GroupsAre
  <2> QED
    BY <2>1 DEF Range
<1> HIDE DEF name
<1>8. SumFunction(f) = Cardinality(shown)
  <2>1. SumFunction(f) = SumFunctionOnSet(f, 1..k)
    BY DEF SumFunction
  <2>2. \A i, j \in 1..k : name[i] = name[j] => i = j
    BY <1>3, <1>4
  <2>3. \A i \in 1..k : f[i] = Cardinality(Of(key, name[i]))
    BY <1>4
  <2> HIDE DEF shown
  <2>4. SumFunctionOnSet(f, 1..k) = Cardinality(Having(key, 1..k, name))
    BY <2>2, <2>3, <1>5, GroupsAddUp
  <2> QED
    BY <2>1, <2>4 DEF shown, Having
<1>9. shown \in SUBSET (DOMAIN key)
  OBVIOUS
<1>10. shown = DOMAIN key <=> k = Len(seq)
  <2>1. CASE k = Len(seq)
    BY <2>1, <1>6
  <2>2. CASE k # Len(seq)
    <3>1. Len(seq) \in 1..Len(seq) /\ Len(seq) \notin 1..k
      BY <2>2, <1>2
    <3>2. PICK r \in DOMAIN key : key[r] = name[Len(seq)]
      BY <3>1, <1>7
    <3>3. r \notin shown
      BY <3>1, <3>2, <1>3, <1>4
    <3> QED
      BY <2>2, <3>3
  <2> QED
    BY <2>1, <2>2
<1> HIDE DEF shown
<1>11. /\ Cardinality(shown) <= Cardinality(DOMAIN key)
       /\ Cardinality(DOMAIN key) = Cardinality(shown) => shown = DOMAIN key
  BY <1>9, FS_Subset
<1> QED
  BY <1>8, <1>10, <1>11

\* The cells of a heatmap that covers all names have all rows.
LEMMA AllCells ==
  ASSUME NEW key, IsFiniteSet(DOMAIN key), NEW seq \in SetToSeqs(Groups(key)),
         \A r \in DOMAIN key : key[r] \in (1..7) \X (0..23)
  PROVE  LET cells == {seq[i].name : i \in DOMAIN seq} \cap DOMAIN Heatmap(seq)
         IN SumFunction([cell \in cells |-> Heatmap(seq)[cell].n]) = Cardinality(DOMAIN key)
<1> DEFINE names == {seq[i].name : i \in DOMAIN seq}
           cells == names \cap DOMAIN Heatmap(seq)
           f == [cell \in cells |-> Heatmap(seq)[cell].n]
<1>1. IsFiniteSet(Groups(key))
  BY GroupsAre
<1>2. /\ \A i \in DOMAIN seq : seq[i] \in Groups(key)
      /\ \A i, j \in DOMAIN seq : seq[i] = seq[j] => i = j
      /\ \A g \in Groups(key) : \E i \in DOMAIN seq : seq[i] = g
  BY <1>1, Enumeration
<1>3. names = Range(key)
  <2>1. ASSUME NEW name \in Range(key) PROVE name \in names
    <3>1. PICK g \in Groups(key) : g.name = name
      BY GroupsAre
    <3> QED
      BY <3>1, <1>2
  <2>2. \A i \in DOMAIN seq : seq[i].name \in Range(key)
    BY <1>2, GroupsAre
  <2> QED
    BY <2>1, <2>2
<1>4. DOMAIN Heatmap(seq) = (1..7) \X (0..23)
  BY DEF Heatmap
<1>5. cells = Range(key)
  <2>1. Range(key) \subseteq (1..7) \X (0..23)
    BY DEF Range
  <2> HIDE DEF names
  <2> QED
    BY <1>3, <1>4, <2>1
<1>6. ASSUME NEW cell \in Range(key)
      PROVE  Heatmap(seq)[cell].n = Cardinality(Of(key, cell))
  <2> DEFINE at == {i \in DOMAIN seq : seq[i].name = cell}
  <2>1. cell \in (1..7) \X (0..23)
    BY DEF Range
  <2>2. at # {}
    BY <1>3
  <2>3. Heatmap(seq)[cell].n = seq[CHOOSE i \in at : TRUE].n
    BY <2>1, <2>2 DEF Heatmap
  <2>4. PICK i \in at : i = CHOOSE k \in at : TRUE
    BY <2>2
  <2>5. seq[i] \in Groups(key) /\ seq[i].name = cell
    BY <1>2
  <2>6. seq[i].n = Cardinality(Of(key, cell))
    BY <2>5, GroupsAre
  <2> QED
    BY <2>3, <2>4, <2>6
<1>7. IsFiniteSet(Range(key))
  BY ImageSize DEF Range
<1> DEFINE itself == [cell \in Range(key) |-> cell]
<1>8. SumFunctionOnSet(f, Range(key)) =
        Cardinality(Having(key, Range(key), itself))
  <2>1. \A cell \in Range(key) : f[cell] = Cardinality(Of(key, itself[cell]))
    BY <1>5, <1>6
  <2>2. \A cell, other \in Range(key) : itself[cell] = itself[other] => cell = other
    OBVIOUS
  <2> HIDE DEF f, itself
  <2> QED
    BY <2>1, <2>2, <1>7, GroupsAddUp
<1>9. Having(key, Range(key), itself) = DOMAIN key
  BY DEF Range, Having
<1> QED
  BY <1>5, <1>8, <1>9 DEF SumFunction
-------------------------------------------------------------------------------
(***************************************************************************)
(* What a report draws, for any numbers.                                   *)
(***************************************************************************)
LEMMA Division ==
  ASSUME NEW a \in Nat, NEW b \in Nat \ {0}
  PROVE  /\ a \div b \in Nat /\ a % b \in Nat /\ a % b < b
         /\ a = b * (a \div b) + (a % b)
OBVIOUS

\* A part of the scale is no longer than the scale.
LEMMA Scaled ==
  ASSUME NEW scale \in Nat, NEW part \in Nat, NEW whole \in Nat \ {0}, part <= whole
  PROVE  Round(scale * part, whole) \in 0..scale
<1> DEFINE down == (scale * part) \div whole
           rest == (scale * part) % whole
<1>1. /\ down \in Nat /\ rest \in Nat /\ rest < whole
      /\ scale * part = whole * down + rest
  <2>1. scale * part \in Nat
    OBVIOUS
  <2> QED
    BY <2>1, Division
<1>2. Round(scale * part, whole) =
        IF 2 * rest > whole \/ (2 * rest = whole /\ down % 2 = 1) THEN down + 1 ELSE down
  BY DEF Round
<1> HIDE DEF down, rest
<1>3. whole * down + rest <= scale * whole
  <2>1. scale * part <= scale * whole
    OBVIOUS
  <2> QED
    BY <1>1, <2>1
<1>4. down <= scale
  <2> SUFFICES ASSUME down >= scale + 1 PROVE FALSE
    BY <1>1
  <2>1. whole * down >= whole * (scale + 1)
    BY <1>1
  <2>2. whole * (scale + 1) = scale * whole + whole
    OBVIOUS
  <2> QED
    BY <1>1, <1>3, <2>1, <2>2
<1>5. down = scale => rest = 0
  BY <1>1, <1>3
<1>6. rest = 0 => Round(scale * part, whole) = down
  BY <1>1, <1>2
<1> QED
  BY <1>1, <1>2, <1>4, <1>5, <1>6

(***************************************************************************)
(* Nothing is drawn past its track: bars of text are 28 characters at      *)
(* most, and one at least for a part that has requests; shares are 100% at *)
(* most, and the columns of the timeline fit the height of the chart       *)
(* (usage_report.py:99-107, 167-208).                                      *)
(***************************************************************************)
THEOREM PartsFitTheirTrack ==
  ASSUME NEW part \in Nat, NEW whole \in Nat \ {0}, part <= whole
  PROVE  /\ Bar(part, whole) \in 0..28 /\ (part > 0 => Bar(part, whole) > 0)
         /\ Pct(part, whole) \in 0..1000
         /\ Round(ChartHeight * part, whole) \in 0..ChartHeight
<1>1. Round(28 * part, whole) \in 0..28
  BY Scaled
<1>2. Bar(part, whole) \in 0..28 /\ (part > 0 => Bar(part, whole) > 0)
  BY <1>1 DEF Bar
<1>3. Pct(part, whole) \in 0..1000
  <2>1. Round(1000 * part, whole) \in 0..1000
    BY Scaled
  <2> QED
    BY <2>1 DEF Pct
<1>4. Round(ChartHeight * part, whole) \in 0..ChartHeight
  BY Scaled DEF ChartHeight
<1> QED
  BY <1>2, <1>3, <1>4

(***************************************************************************)
(* Whatever window is asked for with --since, a report in minutes or hours *)
(* has room for two points of each of its buckets (sql.py:49-66).          *)
(***************************************************************************)
THEOREM BucketsHaveRoom ==
  ASSUME NEW amount \in Nat, NEW unit \in {"s", "m", "h", "d", "w"}
  PROVE  LET since == Ago(amount, unit)
             bucket == ChooseBucket("report", since, "auto")
         IN bucket # "day" =>
              2 * ((Seconds(since) \div BucketSeconds[bucket]) + 1) <= ChartWidth
<1> DEFINE since == Ago(amount, unit)
           seconds == Seconds(since)
           bucket == ChooseBucket("report", since, "auto")
<1>1. since.form = "ago" /\ since.amount = amount /\ since.unit = unit /\ since # Nothing
  BY DEF Ago, Nothing
<1>2. UnitSeconds[unit] \in Nat
  BY DEF UnitSeconds
<1>3. seconds \in Nat
  BY <1>1, <1>2 DEF Seconds
<1>4. bucket = IF seconds <= 6 * 3600 THEN "minute"
               ELSE IF seconds <= 7 * 86400 THEN "hour" ELSE "day"
  <2>1. Seconds(since) \in Nat /\ since.form = "ago" /\ since # Nothing
    BY <1>1, <1>3
  <2> HIDE DEF since
  <2>2. CASE Seconds(since) <= 6 * 3600
    BY <2>1, <2>2 DEF ChooseBucket
  <2>3. CASE ~(Seconds(since) <= 6 * 3600) /\ Seconds(since) <= 7 * 86400
    BY <2>1, <2>3 DEF ChooseBucket
  <2>4. CASE ~(Seconds(since) <= 6 * 3600) /\ ~(Seconds(since) <= 7 * 86400)
    BY <2>1, <2>4 DEF ChooseBucket
  <2> QED
    BY <2>2, <2>3, <2>4
<1>5. BucketSeconds["minute"] = 60 /\ BucketSeconds["hour"] = 3600
  BY DEF BucketSeconds
<1> HIDE DEF seconds, bucket
<1>6. ASSUME bucket # "day"
      PROVE  2 * ((seconds \div BucketSeconds[bucket]) + 1) <= ChartWidth
  <2>1. CASE seconds <= 21600
    <3>1. seconds \div 60 <= 360
      BY <2>1, <1>3
    <3> QED
      BY <2>1, <3>1, <1>3, <1>4, <1>5 DEF ChartWidth
  <2>2. CASE seconds > 21600
    <3>1. bucket = "hour" /\ seconds <= 604800
      BY <2>2, <1>3, <1>4, <1>6
    <3>2. seconds \div 3600 <= 168
      BY <3>1, <1>3
    <3> QED
      BY <3>1, <3>2, <1>3, <1>5 DEF ChartWidth
  <2> QED
    BY <2>1, <2>2, <1>3
<1> QED
  BY <1>6 DEF seconds, bucket

-------------------------------------------------------------------------------
(***************************************************************************)
(* The lists of a report and what is drawn of them.                        *)
(***************************************************************************)
Least(a, b) == IF a < b THEN a ELSE b

LEMMA LimitedIs ==
  ASSUME NEW S, NEW seq \in Seq(S), NEW limit \in Nat
  PROVE  LET k == Least(Len(seq), limit)
         IN  /\ k \in Nat /\ k <= Len(seq)
             /\ Limited(seq, limit) \in Seq(S) /\ Len(Limited(seq, limit)) = k
             /\ \A i \in 1..k : Limited(seq, limit)[i] = seq[i]
<1> DEFINE k == Least(Len(seq), limit)
<1>1. k \in Nat /\ k <= Len(seq) /\ Len(seq) \in Nat
  BY DEF Least
<1>2. Limited(seq, limit) = SubSeq(seq, 1, k)
  BY DEF Limited, Least
<1> HIDE DEF k
<1>3. \A i \in 1..k : seq[i] \in S
  BY <1>1
<1>4. /\ SubSeq(seq, 1, k) \in Seq(S)
      /\ Len(SubSeq(seq, 1, k)) = IF 1 <= k THEN k - 1 + 1 ELSE 0
      /\ \A i \in 1..(k - 1 + 1) : SubSeq(seq, 1, k)[i] = seq[1 + i - 1]
  BY <1>1, <1>3, SubSeqProperties
<1>5. /\ Len(SubSeq(seq, 1, k)) = k
      /\ \A i \in 1..k : SubSeq(seq, 1, k)[i] = seq[i]
  BY <1>1, <1>4
<1> QED
  BY <1>1, <1>2, <1>4, <1>5 DEF k

\* Bars are drawn to a number that no row exceeds.
LEMMA LargestIs ==
  ASSUME NEW n \in Nat, NEW rows, DOMAIN rows = 1..n, rows = <<>> <=> n = 0,
         \A i \in 1..n : rows[i].n \in Nat \ {0}
  PROVE  Largest(rows) \in Nat \ {0} /\ \A i \in 1..n : rows[i].n <= Largest(rows)
<1>1. CASE n = 0
  BY <1>1 DEF Largest
<1>2. CASE n # 0
  <2> DEFINE size == [i \in 1..n |-> rows[i].n]
  <2>1. PICK top \in 1..n : \A i \in 1..n : rows[i].n <= rows[top].n
    <3>1. IsFiniteSet(1..n) /\ 1..n # {}
      <4>1. IsFiniteSet(1..n)
        BY FS_Interval
      <4> QED
        BY <1>2, <4>1
    <3>2. \A i \in 1..n : size[i] \in Int /\ size[i] = rows[i].n
      OBVIOUS
    <3> HIDE DEF size
    <3>3. \E top \in 1..n : \A i \in 1..n : size[i] <= size[top]
      BY <3>1, <3>2, Highest
    <3> QED
      BY <3>2, <3>3
  <2>2. Largest(rows) = CHOOSE m \in {rows[i].n : i \in 1..n} : \A i \in 1..n : rows[i].n <= m
    BY <1>2 DEF Largest
  <2>3. \E m \in {rows[i].n : i \in 1..n} : \A i \in 1..n : rows[i].n <= m
    BY <2>1
  <2>4. Largest(rows) \in {rows[i].n : i \in 1..n} /\ \A i \in 1..n : rows[i].n <= Largest(rows)
    BY <2>2, <2>3
  <2> QED
    BY <2>4
<1> QED
  BY <1>1, <1>2

\* The rows of a text have bars that fit.
LEMMA Rendered ==
  ASSUME NEW S, NEW seq \in Seq(S), \A g \in S : g.n \in Nat \ {0}, NEW limit \in Nat
  PROVE  LET k == Least(Len(seq), limit)
             parts == RenderRows(seq, limit)
         IN  /\ k \in 0..Len(seq) /\ DOMAIN parts = 1..k /\ Len(parts) = k
             /\ \A i \in 1..k : parts[i].n = seq[i].n /\ parts[i].bar \in 1..28
<1> DEFINE k == Least(Len(seq), limit)
           parts == RenderRows(seq, limit)
<1>1. k \in Nat /\ k <= Len(seq) /\ Len(Limited(seq, limit)) = k
  BY LimitedIs
<1>2. \A i \in 1..Len(seq) : seq[i].n \in Nat \ {0}
  OBVIOUS
<1>3. Len(seq) \in Nat /\ DOMAIN seq = 1..Len(seq) /\ (seq = <<>> <=> Len(seq) = 0)
  OBVIOUS
<1>4. Largest(seq) \in Nat \ {0} /\ \A i \in 1..Len(seq) : seq[i].n <= Largest(seq)
  BY <1>2, <1>3, LargestIs
<1> HIDE DEF k
<1>5. parts = [i \in 1..k |-> [name |-> seq[i].name, n |-> seq[i].n,
                               bar |-> Bar(seq[i].n, Largest(seq))]]
  BY <1>1 DEF RenderRows
<1> HIDE DEF parts
<1>6. DOMAIN parts = 1..k
  BY <1>5
<1>7. Len(parts) = k
  BY <1>1, <1>6
<1>8. ASSUME NEW i \in 1..k
      PROVE  parts[i].n = seq[i].n /\ parts[i].bar \in 1..28
  <2>1. parts[i].n = seq[i].n /\ parts[i].bar = Bar(seq[i].n, Largest(seq))
    BY <1>5
  <2>2. i \in 1..Len(seq)
    BY <1>1
  <2>3. /\ seq[i].n \in Nat /\ seq[i].n > 0 /\ seq[i].n <= Largest(seq)
        /\ Largest(seq) \in Nat \ {0}
    BY <2>2, <1>2, <1>4
  <2>4. Bar(seq[i].n, Largest(seq)) \in 0..28 /\ Bar(seq[i].n, Largest(seq)) > 0
    BY <2>3, PartsFitTheirTrack
  <2> QED
    BY <2>1, <2>4
<1> QED
  BY <1>1, <1>6, <1>7, <1>8 DEF k, parts

\* The rows of a list on the page.
LEMMA Listed ==
  ASSUME NEW S, NEW seq \in Seq(S)
  PROVE  LET k == Least(Len(seq), 12)
             parts == HtmlBars(seq)
         IN  /\ k \in 0..Len(seq) /\ DOMAIN parts = 1..k /\ Len(parts) = k
             /\ \A i \in 1..k : parts[i].n = seq[i].n
<1> DEFINE k == Least(Len(seq), 12)
           parts == HtmlBars(seq)
<1>1. k \in Nat /\ k <= Len(seq) /\ Len(Limited(seq, 12)) = k
  <2>1. PICK limit \in Nat : limit = 12
    OBVIOUS
  <2>2. LET least == Least(Len(seq), limit)
        IN  least \in Nat /\ least <= Len(seq) /\ Len(Limited(seq, limit)) = least
    BY LimitedIs
  <2> QED
    BY <2>1, <2>2
<1> HIDE DEF k
<1>2. parts = [i \in 1..k |-> [name |-> seq[i].name, n |-> seq[i].n,
                               width |-> Pct(seq[i].n, Largest(seq))]]
  BY <1>1 DEF HtmlBars
<1> HIDE DEF parts
<1>3. DOMAIN parts = 1..k /\ \A i \in 1..k : parts[i].n = seq[i].n
  BY <1>2
<1>4. Len(parts) = k
  BY <1>1, <1>3
<1> QED
  BY <1>1, <1>3, <1>4 DEF k, parts

(***************************************************************************)
(* The orders of sql.py list every group once.                             *)
(***************************************************************************)
LEMMA ListIs ==
  ASSUME NEW key, IsFiniteSet(DOMAIN key), NEW seq \in SetToSeqs(Groups(key))
  PROVE  /\ seq \in Seq(Groups(key)) /\ Len(seq) = Cardinality(Range(key))
         /\ \A g \in Groups(key) : g.n \in Nat \ {0}
         /\ \A g \in Groups(key) : \E i \in DOMAIN seq : seq[i] = g
<1>1. IsFiniteSet(Groups(key)) /\ Cardinality(Groups(key)) = Cardinality(Range(key))
  BY GroupsAre
<1>2. \A g \in Groups(key) : g.n \in Nat \ {0}
  BY GroupsAre
<1>3. /\ seq \in [1..Cardinality(Groups(key)) -> Groups(key)]
      /\ Len(seq) = Cardinality(Groups(key)) /\ Cardinality(Groups(key)) \in Nat
      /\ \A g \in Groups(key) : \E i \in DOMAIN seq : seq[i] = g
  BY <1>1, Enumeration
<1>4. seq \in Seq(Groups(key))
  BY <1>3
<1> QED
  BY <1>1, <1>2, <1>3, <1>4

LEMMA BySizeIs ==
  ASSUME NEW key, IsFiniteSet(DOMAIN key)
  PROVE  BySize(Groups(key)) \in SetToSeqs(Groups(key))
<1> DEFINE groups == Groups(key)
           rank == [g \in groups |-> -g.n]
<1>1. IsFiniteSet(groups) /\ \A g \in groups : g.n \in Nat
  BY GroupsAre
<1> HIDE DEF groups
<1>2. \A g \in groups : rank[g] \in Int
  BY <1>1
<1> HIDE DEF rank
<1>3. Sorted(groups, rank) \in SetToSeqs(groups)
  BY <1>1, <1>2, SortedIs
<1> QED
  BY <1>3 DEF BySize, groups, rank

LEMMA ByNameIs ==
  ASSUME NEW key, IsFiniteSet(DOMAIN key), \A r \in DOMAIN key : key[r] \in Int
  PROVE  ByName(Groups(key)) \in SetToSeqs(Groups(key))
<1> DEFINE groups == Groups(key)
           rank == [g \in groups |-> g.name]
<1>1. IsFiniteSet(groups) /\ \A g \in groups : g.name \in Range(key)
  BY GroupsAre
<1>2. \A name \in Range(key) : name \in Int
  BY DEF Range
<1> HIDE DEF groups
<1>3. \A g \in groups : rank[g] \in Int
  BY <1>1, <1>2
<1> HIDE DEF rank
<1>4. Sorted(groups, rank) \in SetToSeqs(groups)
  BY <1>1, <1>3, SortedIs
<1> QED
  BY <1>4 DEF ByName, groups, rank

LEMMA ByHourIs ==
  ASSUME NEW key, IsFiniteSet(DOMAIN key), \A r \in DOMAIN key : key[r] \in (1..7) \X (0..23)
  PROVE  ByHour(Groups(key)) \in SetToSeqs(Groups(key))
<1> DEFINE groups == Groups(key)
           rank == [g \in groups |-> 24 * g.name[1] + g.name[2]]
<1>1. IsFiniteSet(groups) /\ \A g \in groups : g.name \in Range(key)
  BY GroupsAre
<1>2. \A name \in Range(key) : name[1] \in Int /\ name[2] \in Int
  BY DEF Range
<1> HIDE DEF groups
<1>3. \A g \in groups : rank[g] \in Int
  BY <1>1, <1>2
<1> HIDE DEF rank
<1>4. Sorted(groups, rank) \in SetToSeqs(groups)
  BY <1>1, <1>3, SortedIs
<1> QED
  BY <1>4 DEF ByHour, groups, rank

\* Some request failed exactly if one of some group did.
LEMMA ErrorShows ==
  ASSUME NEW key, IsFiniteSet(DOMAIN key), NEW seq \in SetToSeqs(Groups(key))
  PROVE  Errors(DOMAIN key) > 0 <=> \E i \in DOMAIN seq : seq[i].errors > 0
<1> DEFINE failed(rows) == {r \in rows : r.status_code >= 400}
<1>1. ASSUME NEW rows \in SUBSET (DOMAIN key)
      PROVE  Errors(rows) > 0 <=> \E r \in rows : r.status_code >= 400
  <2>1. Errors(rows) = Cardinality(failed(rows)) /\ IsFiniteSet(failed(rows))
    <3>1. failed(rows) \in SUBSET (DOMAIN key)
      OBVIOUS
    <3> QED
      BY <3>1, FS_Subset DEF Errors
  <2>2. Cardinality(failed(rows)) \in Nat /\ (Cardinality(failed(rows)) = 0 <=> failed(rows) = {})
    BY <2>1, FS_CardinalityType, FS_EmptySet
  <2> QED
    BY <2>1, <2>2
<1>2. /\ \A i \in DOMAIN seq : seq[i] \in Groups(key)
      /\ \A g \in Groups(key) : \E i \in DOMAIN seq : seq[i] = g
  <2>1. IsFiniteSet(Groups(key))
    BY GroupsAre
  <2> QED
    BY <2>1, Enumeration
<1>3. ASSUME NEW r \in DOMAIN key, r.status_code >= 400
      PROVE  \E i \in DOMAIN seq : seq[i].errors > 0
  <2>1. key[r] \in Range(key)
    BY DEF Range
  <2>2. PICK g \in Groups(key) : g.name = key[r] /\ g.errors = Errors(Of(key, g.name))
    BY <2>1, GroupsAre
  <2>3. Errors(Of(key, g.name)) > 0
    <3>1. Of(key, g.name) \in SUBSET (DOMAIN key) /\ r \in Of(key, g.name)
      BY <2>2 DEF Of
    <3> QED
      BY <3>1, <1>1, <1>3
  <2> QED
    BY <2>2, <2>3, <1>2
<1>4. ASSUME NEW i \in DOMAIN seq, seq[i].errors > 0
      PROVE  \E r \in DOMAIN key : r.status_code >= 400
  <2>1. seq[i].errors = Errors(Of(key, seq[i].name))
    BY <1>2, GroupsAre
  <2>2. Of(key, seq[i].name) \in SUBSET (DOMAIN key)
    BY DEF Of
  <2> QED
    BY <2>1, <2>2, <1>1, <1>4
<1> QED
  BY <1>1, <1>3, <1>4

\* A moment has a bucket, a weekday and an hour.
LEMMA Calendar ==
  ASSUME NEW row, row.timestamp \in Int, NEW bucket \in DOMAIN BucketSeconds
  PROVE  Trunc(bucket, row) \in Int /\ IsoDow(row) \in 1..7 /\ Hour(row) \in 0..23
<1>1. LocalTime(row) \in Int
  BY ReportAssumption DEF LocalTime
<1>2. BucketSeconds[bucket] \in Nat \ {0}
  BY DEF BucketSeconds
<1>3. Trunc(bucket, row) \in Int
  BY <1>1, <1>2 DEF Trunc
<1>4. IsoDow(row) \in 1..7
  <2>1. LocalTime(row) \div 86400 \in Int
    BY <1>1
  <2> QED
    BY <2>1 DEF IsoDow
<1>5. Hour(row) \in 0..23
  BY <1>1 DEF Hour
<1> QED
  BY <1>3, <1>4, <1>5

-------------------------------------------------------------------------------
(***************************************************************************)
(* What a report makes of the rows of its window.                          *)
(***************************************************************************)
Window(base) ==
  /\ IsFiniteSet(base)
  /\ \A row \in base : row.timestamp \in Int /\ row.status_code \in Int

\* A list of all groups, of which some first ones are shown.
LEMMA FirstShow ==
  ASSUME NEW key, IsFiniteSet(DOMAIN key), NEW seq \in SetToSeqs(Groups(key)),
         NEW k \in 0..Len(seq), NEW parts, DOMAIN parts = 1..k, Len(parts) = k,
         \A i \in 1..k : parts[i].n = seq[i].n
  PROVE  Shows(parts, Len(seq), Cardinality(DOMAIN key))
<1> DEFINE f == [i \in DOMAIN parts |-> parts[i].n]
<1>1. DOMAIN f = 1..k /\ \A i \in 1..k : f[i] = seq[i].n
  OBVIOUS
<1> HIDE DEF f
<1>2. /\ SumFunction(f) <= Cardinality(DOMAIN key)
      /\ SumFunction(f) = Cardinality(DOMAIN key) <=> k = Len(seq)
  BY <1>1, FirstGroups
<1> QED
  BY <1>2 DEF Shows, Sum, f

LEMMA ListShows ==
  ASSUME NEW key, IsFiniteSet(DOMAIN key), NEW seq \in SetToSeqs(Groups(key))
  PROVE  /\ Sum(TimelineSvg(seq)) = Cardinality(DOMAIN key)
         /\ DOMAIN TimelineSvg(seq) = DOMAIN seq
         /\ \A i \in DOMAIN seq : TimelineSvg(seq)[i].red = (seq[i].errors > 0)
         /\ Shows(HtmlBars(seq), Len(seq), Cardinality(DOMAIN key))
         /\ \A limit \in Nat :
              /\ Shows(RenderRows(seq, limit), Len(seq), Cardinality(DOMAIN key))
              /\ \A i \in DOMAIN RenderRows(seq, limit) : RenderRows(seq, limit)[i].bar \in 1..28
<1>1. seq \in Seq(Groups(key)) /\ \A g \in Groups(key) : g.n \in Nat \ {0}
  BY ListIs
<1>2. Len(seq) \in 0..Len(seq) /\ DOMAIN seq = 1..Len(seq)
  BY <1>1
<1>3. /\ DOMAIN TimelineSvg(seq) = 1..Len(seq)
      /\ \A i \in 1..Len(seq) : /\ TimelineSvg(seq)[i].n = seq[i].n
                                /\ TimelineSvg(seq)[i].red = (seq[i].errors > 0)
  BY <1>2 DEF TimelineSvg
<1>4. Len(TimelineSvg(seq)) = Len(seq)
  BY <1>2, <1>3
<1>5. Shows(TimelineSvg(seq), Len(seq), Cardinality(DOMAIN key))
  BY <1>2, <1>3, <1>4, FirstShow
<1>6. Sum(TimelineSvg(seq)) = Cardinality(DOMAIN key)
  BY <1>4, <1>5 DEF Shows
<1>7. Shows(HtmlBars(seq), Len(seq), Cardinality(DOMAIN key))
  <2>1. PICK k \in 0..Len(seq) :
          /\ DOMAIN HtmlBars(seq) = 1..k /\ Len(HtmlBars(seq)) = k
          /\ \A i \in 1..k : HtmlBars(seq)[i].n = seq[i].n
    BY <1>1, Listed
  <2> QED
    BY <2>1, FirstShow
<1>8. ASSUME NEW limit \in Nat
      PROVE  /\ Shows(RenderRows(seq, limit), Len(seq), Cardinality(DOMAIN key))
             /\ \A i \in DOMAIN RenderRows(seq, limit) : RenderRows(seq, limit)[i].bar \in 1..28
  <2>1. PICK k \in 0..Len(seq) :
          /\ DOMAIN RenderRows(seq, limit) = 1..k /\ Len(RenderRows(seq, limit)) = k
          /\ \A i \in 1..k : /\ RenderRows(seq, limit)[i].n = seq[i].n
                             /\ RenderRows(seq, limit)[i].bar \in 1..28
    BY <1>1, Rendered
  <2>2. Shows(RenderRows(seq, limit), Len(seq), Cardinality(DOMAIN key))
    BY <2>1, FirstShow
  <2> QED
    BY <2>1, <2>2
<1> QED
  BY <1>2, <1>3, <1>6, <1>7, <1>8

\* The same for a list that the query cut.
LEMMA CutListShows ==
  ASSUME NEW key, IsFiniteSet(DOMAIN key), NEW all \in SetToSeqs(Groups(key)), NEW most \in Nat
  PROVE  LET seq == Limited(all, most)
         IN /\ Shows(HtmlBars(seq), Len(all), Cardinality(DOMAIN key))
            /\ \A limit \in Nat :
                 /\ Shows(RenderRows(seq, limit), Len(all), Cardinality(DOMAIN key))
                 /\ \A i \in DOMAIN RenderRows(seq, limit) :
                      RenderRows(seq, limit)[i].bar \in 1..28
<1> DEFINE seq == Limited(all, most)
<1>1. all \in Seq(Groups(key)) /\ \A g \in Groups(key) : g.n \in Nat \ {0}
  BY ListIs
<1>2. /\ seq \in Seq(Groups(key)) /\ Len(seq) \in 0..Len(all)
      /\ \A i \in 1..Len(seq) : seq[i] = all[i]
  <2>1. LET k == Least(Len(all), most)
        IN  /\ k \in Nat /\ k <= Len(all)
            /\ Limited(all, most) \in Seq(Groups(key)) /\ Len(Limited(all, most)) = k
            /\ \A i \in 1..k : Limited(all, most)[i] = all[i]
    BY <1>1, LimitedIs
  <2> QED
    BY <2>1
<1> HIDE DEF seq
<1>3. Shows(HtmlBars(seq), Len(all), Cardinality(DOMAIN key))
  <2>1. PICK k \in 0..Len(seq) :
          /\ DOMAIN HtmlBars(seq) = 1..k /\ Len(HtmlBars(seq)) = k
          /\ \A i \in 1..k : HtmlBars(seq)[i].n = seq[i].n
    BY <1>2, Listed
  <2>2. k \in 0..Len(all) /\ \A i \in 1..k : HtmlBars(seq)[i].n = all[i].n
    BY <2>1, <1>2
  <2> QED
    BY <2>1, <2>2, FirstShow
<1>4. ASSUME NEW limit \in Nat
      PROVE  /\ Shows(RenderRows(seq, limit), Len(all), Cardinality(DOMAIN key))
             /\ \A i \in DOMAIN RenderRows(seq, limit) : RenderRows(seq, limit)[i].bar \in 1..28
  <2>1. PICK k \in 0..Len(seq) :
          /\ DOMAIN RenderRows(seq, limit) = 1..k /\ Len(RenderRows(seq, limit)) = k
          /\ \A i \in 1..k : /\ RenderRows(seq, limit)[i].n = seq[i].n
                             /\ RenderRows(seq, limit)[i].bar \in 1..28
    BY <1>1, <1>2, Rendered
  <2>2. k \in 0..Len(all) /\ \A i \in 1..k : RenderRows(seq, limit)[i].n = all[i].n
    BY <2>1, <1>2
  <2>3. Shows(RenderRows(seq, limit), Len(all), Cardinality(DOMAIN key))
    BY <2>1, <2>2, FirstShow
  <2> QED
    BY <2>1, <2>3
<1> QED
  BY <1>3, <1>4 DEF seq

\* Every list of a query is a list of the groups of its window.
LEMMA QueryIs ==
  ASSUME NEW base, Window(base), NEW bucket \in DOMAIN BucketSeconds
  PROVE  /\ BySize(Groups([r \in base |-> r.endpoint_type]))
              \in SetToSeqs(Groups([r \in base |-> r.endpoint_type]))
         /\ BySize(Groups([r \in base |-> r.username]))
              \in SetToSeqs(Groups([r \in base |-> r.username]))
         /\ ByName(Groups([r \in base |-> r.status_code]))
              \in SetToSeqs(Groups([r \in base |-> r.status_code]))
         /\ ByName(Groups([r \in base |-> Trunc(bucket, r)]))
              \in SetToSeqs(Groups([r \in base |-> Trunc(bucket, r)]))
         /\ ByHour(Groups([r \in base |-> <<IsoDow(r), Hour(r)>>]))
              \in SetToSeqs(Groups([r \in base |-> <<IsoDow(r), Hour(r)>>]))
         /\ \A r \in base : <<IsoDow(r), Hour(r)>> \in (1..7) \X (0..23)
<1>1. IsFiniteSet(base)
  BY DEF Window
<1>2. \A r \in base : /\ r.status_code \in Int /\ Trunc(bucket, r) \in Int
                      /\ <<IsoDow(r), Hour(r)>> \in (1..7) \X (0..23)
  BY Calendar DEF Window
<1>3. ASSUME NEW key, DOMAIN key = base
      PROVE  BySize(Groups(key)) \in SetToSeqs(Groups(key))
  BY <1>1, <1>3, BySizeIs
<1>4. ASSUME NEW key, DOMAIN key = base, \A r \in base : key[r] \in Int
      PROVE  ByName(Groups(key)) \in SetToSeqs(Groups(key))
  BY <1>1, <1>4, ByNameIs
<1>5. ASSUME NEW key, DOMAIN key = base, \A r \in base : key[r] \in (1..7) \X (0..23)
      PROVE  ByHour(Groups(key)) \in SetToSeqs(Groups(key))
  BY <1>1, <1>5, ByHourIs
<1>6. PICK byType, byUser, byStatus, byBucket, byHour :
        /\ byType = [r \in base |-> r.endpoint_type] /\ byUser = [r \in base |-> r.username]
        /\ byStatus = [r \in base |-> r.status_code]
        /\ byBucket = [r \in base |-> Trunc(bucket, r)]
        /\ byHour = [r \in base |-> <<IsoDow(r), Hour(r)>>]
  OBVIOUS
<1>7. /\ DOMAIN byType = base /\ DOMAIN byUser = base /\ DOMAIN byStatus = base
      /\ DOMAIN byBucket = base /\ DOMAIN byHour = base
      /\ \A r \in base : /\ byStatus[r] \in Int /\ byBucket[r] \in Int
                         /\ byHour[r] \in (1..7) \X (0..23)
  BY <1>2, <1>6
<1>8. /\ BySize(Groups(byType)) \in SetToSeqs(Groups(byType))
      /\ BySize(Groups(byUser)) \in SetToSeqs(Groups(byUser))
      /\ ByName(Groups(byStatus)) \in SetToSeqs(Groups(byStatus))
      /\ ByName(Groups(byBucket)) \in SetToSeqs(Groups(byBucket))
      /\ ByHour(Groups(byHour)) \in SetToSeqs(Groups(byHour))
  BY <1>3, <1>4, <1>5, <1>7
<1> QED
  BY <1>2, <1>6, <1>8

(***************************************************************************)
(* Whatever rows there are and whatever is asked for, a report adds up:    *)
(* timeline and heatmap have every request of the window; a list that is   *)
(* cut, by the query or on the page, has less than the total and one that  *)
(* is not has all; an error shows as a red column; and every row of a text *)
(* has a bar that fits (sql.py, usage_report.py).                          *)
(***************************************************************************)
THEOREM ReportAddsUp ==
  ASSUME NEW rows, Window(rows), NEW mode, NEW since, NEW until, NEW now
  PROVE  PageAddsUp(Report(rows, mode, since, until, now))
         /\ TextAddsUp(Report(rows, mode, since, until, now))
<1> DEFINE report == Report(rows, mode, since, until, now)
           bucket == ChooseBucket(mode, Since(mode, since), "auto")
           base == Base(rows, Since(mode, since), until, now)
           total == Cardinality(base)
<1>1. bucket \in DOMAIN BucketSeconds
  BY DEF ChooseBucket, BucketSeconds
<1>2. Window(base) /\ IsFiniteSet(base)
  <2>1. base \in SUBSET rows
    BY DEF Base
  <2> HIDE DEF base
  <2> QED
    BY <2>1, FS_Subset DEF Window
<1>3. PICK byType, byUser, byStatus, byBucket, byHour :
        /\ byType = [r \in base |-> r.endpoint_type] /\ byUser = [r \in base |-> r.username]
        /\ byStatus = [r \in base |-> r.status_code]
        /\ byBucket = [r \in base |-> Trunc(bucket, r)]
        /\ byHour = [r \in base |-> <<IsoDow(r), Hour(r)>>]
  OBVIOUS
<1>4. /\ report.total = total /\ report.error_count = Errors(base)
      /\ report.unique_users = Cardinality({r.username : r \in base})
      /\ report.endpoint_counts = BySize(Groups(byType))
      /\ report.status_counts = ByName(Groups(byStatus))
      /\ report.user_counts = Limited(BySize(Groups(byUser)), TopLimit)
      /\ report.time_buckets = ByName(Groups(byBucket))
      /\ report.hour_heatmap = ByHour(Groups(byHour))
  <2> HIDE DEF base, bucket
  <2> QED
    BY <1>3 DEF Report, BuildSql, base, bucket
<1> HIDE DEF report, bucket, base
<1>5. PICK types, users, statuses, buckets, hours :
        /\ types = BySize(Groups(byType)) /\ users = BySize(Groups(byUser))
        /\ statuses = ByName(Groups(byStatus)) /\ buckets = ByName(Groups(byBucket))
        /\ hours = ByHour(Groups(byHour))
  OBVIOUS
<1>6. /\ types \in SetToSeqs(Groups(byType)) /\ users \in SetToSeqs(Groups(byUser))
      /\ statuses \in SetToSeqs(Groups(byStatus)) /\ buckets \in SetToSeqs(Groups(byBucket))
      /\ hours \in SetToSeqs(Groups(byHour))
  BY <1>1, <1>2, <1>3, <1>5, QueryIs
<1>7. /\ DOMAIN byType = base /\ DOMAIN byUser = base /\ DOMAIN byStatus = base
      /\ DOMAIN byBucket = base /\ DOMAIN byHour = base
  BY <1>3
<1>8. \A r \in base : byHour[r] \in (1..7) \X (0..23)
  BY <1>1, <1>2, <1>3, QueryIs
<1>9. report.unique_users = Len(users)
  <2>1. Range(byUser) = {r.username : r \in base}
    BY <1>3 DEF Range
  <2> QED
    BY <2>1, <1>2, <1>4, <1>6, <1>7, ListIs
<1>10. PageAddsUp(report)
  <2> DEFINE page == RenderHtml(report)
             cells == {hours[i].name : i \in DOMAIN hours} \cap DOMAIN Heatmap(hours)
  <2>1. /\ page.timeline = TimelineSvg(buckets) /\ page.endpoints = HtmlBars(types)
        /\ page.statuses = HtmlBars(statuses) /\ page.heatmap = Heatmap(hours)
        /\ page.top_users = HtmlBars(Limited(users, TopLimit))
    BY <1>4, <1>5 DEF RenderHtml
  <2>2. Sum(TimelineSvg(buckets)) = total
    BY <1>2, <1>6, <1>7, ListShows
  <2>3. SumFunction([cell \in cells |-> Heatmap(hours)[cell].n]) = total
    <3>1. LET drawn == {hours[i].name : i \in DOMAIN hours} \cap DOMAIN Heatmap(hours)
          IN SumFunction([cell \in drawn |-> Heatmap(hours)[cell].n]) = Cardinality(DOMAIN byHour)
      BY <1>2, <1>6, <1>7, <1>8, AllCells
    <3> QED
      BY <3>1, <1>7
  <2>4. Shows(HtmlBars(types), Len(types), total) /\ Shows(HtmlBars(statuses), Len(statuses), total)
    BY <1>2, <1>6, <1>7, ListShows
  <2>5. Shows(HtmlBars(Limited(users, TopLimit)), Len(users), total)
    BY <1>2, <1>6, <1>7, CutListShows, ReportAssumption
  <2>6. Errors(base) > 0 <=> \E i \in DOMAIN TimelineSvg(buckets) : TimelineSvg(buckets)[i].red
    <3>1. Errors(base) > 0 <=> \E i \in DOMAIN buckets : buckets[i].errors > 0
      BY <1>2, <1>6, <1>7, ErrorShows
    <3>2. /\ DOMAIN TimelineSvg(buckets) = DOMAIN buckets
          /\ \A i \in DOMAIN buckets : TimelineSvg(buckets)[i].red = (buckets[i].errors > 0)
      BY <1>2, <1>6, <1>7, ListShows
    <3> QED
      BY <3>1, <3>2
  <2> HIDE DEF page
  <2> QED
    BY <2>1, <2>2, <2>3, <2>4, <2>5, <2>6, <1>4, <1>5, <1>9 DEF PageAddsUp, page
<1>11. TextAddsUp(report)
  <2> DEFINE text == RenderSummary(report)
  <2>1. /\ text.endpoints = RenderRows(types, 10) /\ text.statuses = RenderRows(statuses, 10)
        /\ text.top_users = RenderRows(Limited(users, TopLimit), 10)
        /\ text.activity = RenderRows(buckets, 12)
    BY <1>4, <1>5 DEF RenderSummary
  <2>2. PICK ten \in Nat, twelve \in Nat : ten = 10 /\ twelve = 12
    OBVIOUS
  <2>3. /\ Shows(RenderRows(types, ten), Len(types), total) /\ Fits(RenderRows(types, ten))
        /\ Shows(RenderRows(statuses, ten), Len(statuses), total)
        /\ Fits(RenderRows(statuses, ten))
        /\ Shows(RenderRows(buckets, twelve), Len(buckets), total)
        /\ Fits(RenderRows(buckets, twelve))
    BY <1>2, <1>6, <1>7, ListShows DEF Fits
  <2>4. /\ Shows(RenderRows(Limited(users, TopLimit), ten), Len(users), total)
        /\ Fits(RenderRows(Limited(users, TopLimit), ten))
    BY <1>2, <1>6, <1>7, CutListShows, ReportAssumption DEF Fits
  <2> HIDE DEF text, total
  <2> QED
    BY <2>1, <2>2, <2>3, <2>4, <1>4, <1>5, <1>9 DEF TextAddsUp, text, total
<1> QED
  BY <1>10, <1>11 DEF report
===============================================================================
