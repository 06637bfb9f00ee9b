------------------------ MODULE PolicyEngineProofs ------------------------
(***************************************************************************)
(* What the policy engine promises of every statement: of a WHERE of any   *)
(* depth, of select lists of any length, under any policy.  The argument:  *)
(* the conditions that a tree combines by AND are its Leaves, found by     *)
(* recursion on the tree, so Filters is one filter for every leaf, and     *)
(* what plan does not refuse (Planned) has the fields that _validate_plan  *)
(* looks for, except for what the policy grants in vain (PlanSupported).   *)
(* Whatever is in the history then has the one outcome that the policy     *)
(* allows it (EngineInv).                                                  *)
(***************************************************************************)
EXTENDS PolicyEngine, QueryReleaseProofs, FiniteSetTheorems, SequenceTheorems,
        NaturalsInduction, WellFoundedInduction, TLAPS

-----------------------------------------------------------------------------
(* Recursion on finite trees.                                              *)

(* A set of numbers has a least one.                                       *)
LEMMA LeastNatural ==
  ASSUME NEW T \in SUBSET Nat, T # {}
  PROVE  \E m \in T : \A k \in T : ~(k < m)
<1>1. IsWellFoundedOn(OpToRel(<, Nat), Nat)
  BY NatLessThanWellFounded, Zenon
<1>2. PICK m \in T : \A k \in T : ~(<<k, m>> \in OpToRel(<, Nat))
  BY <1>1, WFMin, Zenon
<1>3. \A k \in T : k < m => <<k, m>> \in OpToRel(<, Nat)
  BY Zenon DEF OpToRel
<1> QED
  BY <1>2, <1>3, Zenon

(* A set that has 0 and the successor of each of its numbers has them all.*)
LEMMA SetInduction ==
  ASSUME NEW T \in SUBSET Nat, 0 \in T, \A n \in T : n + 1 \in T
  PROVE  T = Nat
<1> SUFFICES ASSUME NEW n \in Nat \ T PROVE FALSE
  OBVIOUS
<1>1. PICK m \in Nat \ T : \A k \in Nat \ T : ~(k < m)
  BY LeastNatural
<1>2. m - 1 \in Nat /\ m - 1 \in T
  BY <1>1
<1> QED
  BY <1>1, <1>2

\* A recursion on S: inner nodes have two smaller ones, whose values G combines
\* in V, and the others have a value of their own.
Descends(S, size, V, inner, l, r, G, leaf) ==
  /\ size \in [S -> Nat] /\ inner \in SUBSET S
  /\ l \in [inner -> S] /\ r \in [inner -> S]
  /\ \A w \in inner : size[l[w]] < size[w] /\ size[r[w]] < size[w]
  /\ G \in [S -> [V -> [V -> V]]] /\ leaf \in [S -> V]

Recurses(f, S, V, inner, l, r, G, leaf) ==
  f \in [S -> V] /\ \A w \in S :
    f[w] = IF w \in inner THEN G[w][f[l[w]]][f[r[w]]] ELSE leaf[w]

(* Such a recursion defines a function.                                    *)
LEMMA Recursion ==
  ASSUME NEW S, NEW size, NEW V, NEW inner, NEW l, NEW r, NEW G, NEW leaf,
         Descends(S, size, V, inner, l, r, G, leaf)
  PROVE  \E f : Recurses(f, S, V, inner, l, r, G, leaf)
<1> SUFFICES ASSUME size \in [S -> Nat], inner \in SUBSET S,
                    l \in [inner -> S], r \in [inner -> S],
                    \A w \in inner : size[l[w]] < size[w] /\ size[r[w]] < size[w],
                    G \in [S -> [V -> [V -> V]]], leaf \in [S -> V]
             PROVE  \E f : Recurses(f, S, V, inner, l, r, G, leaf)
  BY DEF Descends
<1> DEFINE Value(f, w) == IF w \in inner THEN G[w][f[l[w]]][f[r[w]]] ELSE leaf[w]
           Good(f, n) == f \in [S -> V] /\ \A w \in S : size[w] < n => f[w] = Value(f, w)
           Agree(f, g, n) == \A w \in S : size[w] < n => f[w] = g[w]
<1>1. \A f \in [S -> V], w \in S : Value(f, w) \in V
  OBVIOUS
<1>2. ASSUME NEW f, NEW g, NEW n \in Nat, NEW w \in S, size[w] < n + 1, Agree(f, g, n)
      PROVE  Value(f, w) = Value(g, w)
  <2>1. w \in inner => /\ l[w] \in S /\ size[l[w]] \in Nat /\ size[l[w]] < n
                       /\ r[w] \in S /\ size[r[w]] \in Nat /\ size[r[w]] < n
    BY <1>2
  <2>2. w \in inner => f[l[w]] = g[l[w]] /\ f[r[w]] = g[r[w]]
    BY <1>2, <2>1
  <2> QED
    BY <2>2
<1>3. \A n \in Nat : \E f : Good(f, n)
  <2> DEFINE T == {n \in Nat : \E f : Good(f, n)}
  <2>1. Good(leaf, 0)
    BY SMT
  <2>2. ASSUME NEW n \in Nat, NEW f, Good(f, n) PROVE \E g : Good(g, n + 1)
    <3> DEFINE g == [w \in S |-> Value(f, w)]
    <3>1. Agree(g, f, n)
      BY <2>2
    <3>2. g \in [S -> V]
      BY <1>1, <2>2
    <3>3. \A w \in S : size[w] < n + 1 => g[w] = Value(g, w)
      <4> SUFFICES ASSUME NEW w \in S, size[w] < n + 1 PROVE g[w] = Value(g, w)
        OBVIOUS
      <4>1. g[w] = Value(f, w)
        OBVIOUS
      <4> HIDE DEF g, Value, Agree
      <4>2. Value(f, w) = Value(g, w)
        BY <1>2, <3>1
      <4> QED
        BY <4>1, <4>2
    <3> HIDE DEF g, Value
    <3>4. Good(g, n + 1)
      BY <3>2, <3>3
    <3> HIDE DEF Good
    <3> QED
      BY <3>4
  <2> HIDE DEF Good
  <2>3. 0 \in T
    BY <2>1
  <2>4. \A n \in T : n + 1 \in T
    BY <2>2
  <2>5. T \in SUBSET Nat
    OBVIOUS
  <2> HIDE DEF T
  <2>6. T = Nat
    BY <2>3, <2>4, <2>5, SetInduction
  <2> QED
    BY <2>6 DEF T
<1>4. \A n \in Nat : \A f, g : Good(f, n) /\ Good(g, n) => Agree(f, g, n)
  <2> DEFINE T == {n \in Nat : \A f, g : Good(f, n) /\ Good(g, n) => Agree(f, g, n)}
  <2>1. \A f, g : Agree(f, g, 0)
    BY SMT
  <2>2. ASSUME NEW n \in Nat, \A f, g : Good(f, n) /\ Good(g, n) => Agree(f, g, n),
               NEW f, NEW g, Good(f, n + 1), Good(g, n + 1)
        PROVE  Agree(f, g, n + 1)
    <3> SUFFICES ASSUME NEW w \in S, size[w] < n + 1 PROVE f[w] = g[w]
      OBVIOUS
    <3>1. \A v \in S : size[v] \in Nat /\ (size[v] < n => size[v] < n + 1)
      BY <2>2
    <3> HIDE DEF Value
    <3>2. Good(f, n) /\ Good(g, n)
      BY <2>2, <3>1
    <3>3. f[w] = Value(f, w) /\ g[w] = Value(g, w)
      BY <2>2
    <3> HIDE DEF Agree, Good
    <3>4. Agree(f, g, n)
      BY <2>2, <3>2
    <3> QED
      BY <1>2, <3>3, <3>4
  <2> HIDE DEF Good, Agree
  <2>3. 0 \in T
    BY <2>1
  <2>4. ASSUME NEW n \in T PROVE n + 1 \in T
    <3>1. n \in Nat /\ \A f, g : Good(f, n) /\ Good(g, n) => Agree(f, g, n)
      OBVIOUS
    <3> HIDE DEF T
    <3>2. \A f, g : Good(f, n + 1) /\ Good(g, n + 1) => Agree(f, g, n + 1)
      BY <2>2, <3>1
    <3> QED
      BY <3>1, <3>2 DEF T
  <2>5. T \in SUBSET Nat
    OBVIOUS
  <2> HIDE DEF T
  <2>6. T = Nat
    BY <2>3, <2>4, <2>5, SetInduction
  <2> QED
    BY <2>6 DEF T
<1> DEFINE approx == [n \in Nat |-> CHOOSE f : Good(f, n)]
           F == [w \in S |-> approx[size[w] + 1][w]]
<1>5. \A n \in Nat : approx[n] \in [S -> V] /\ Good(approx[n], n)
  <2> SUFFICES ASSUME NEW n \in Nat PROVE Good(approx[n], n)
    OBVIOUS
  <2>1. \E f : Good(f, n)
    BY <1>3
  <2>2. approx[n] = CHOOSE f : Good(f, n)
    OBVIOUS
  <2> HIDE DEF Good, approx
  <2> QED
    BY <2>1, <2>2, Zenon
<1>6. ASSUME NEW n \in Nat, NEW w \in S, size[w] < n PROVE approx[n][w] = F[w]
  <2> HIDE DEF approx
  <2>1. size[w] + 1 \in Nat /\ size[w] \in Nat /\ size[w] < size[w] + 1
    OBVIOUS
  <2>2. Good(approx[n], n) /\ Good(approx[size[w] + 1], size[w] + 1)
    BY <1>5, <2>1
  <2> HIDE DEF Value
  <2>3. Good(approx[n], size[w] + 1)
    <3>1. \A v \in S : size[v] < size[w] + 1 => size[v] < n
      BY <1>6, <2>1
    <3> QED
      BY <2>2, <3>1
  <2>4. F[w] = approx[size[w] + 1][w]
    OBVIOUS
  <2> HIDE DEF Good, F
  <2>5. Agree(approx[n], approx[size[w] + 1], size[w] + 1)
    BY <1>4, <2>1, <2>2, <2>3
  <2> QED
    BY <2>1, <2>4, <2>5
<1>7. F \in [S -> V]
  <2> SUFFICES ASSUME NEW w \in S PROVE approx[size[w] + 1][w] \in V
    OBVIOUS
  <2> HIDE DEF approx, Value
  <2>1. size[w] + 1 \in Nat
    OBVIOUS
  <2>2. approx[size[w] + 1] \in [S -> V]
    BY <1>5, <2>1
  <2> QED
    BY <2>2
<1>8. ASSUME NEW w \in S PROVE F[w] = Value(F, w)
  <2>1. size[w] + 1 \in Nat /\ size[w] \in Nat /\ size[w] < size[w] + 1
    OBVIOUS
  <2>2. F[w] = approx[size[w] + 1][w]
    OBVIOUS
  <2> HIDE DEF approx, F, Value
  <2>3. approx[size[w] + 1][w] = Value(approx[size[w] + 1], w)
    BY <1>5, <2>1
  <2>4. Agree(approx[size[w] + 1], F, size[w])
    <3>1. \A v \in S : size[v] < size[w] => size[v] < size[w] + 1
      BY <2>1
    <3> QED
      BY <1>6, <2>1, <3>1
  <2> HIDE DEF Agree, Value
  <2>5. Value(approx[size[w] + 1], w) = Value(F, w)
    BY <1>2, <2>1, <2>4
  <2> QED
    BY <2>2, <2>3, <2>5
<1> HIDE DEF F
<1>9. Recurses(F, S, V, inner, l, r, G, leaf)
  BY <1>7, <1>8 DEF Recurses
<1> QED
  BY <1>9

-----------------------------------------------------------------------------
(* Positions in a select list, and the first code that fails.              *)

(* Nth numbers a finite set of positions, each once.                       *)
LEMMA NthIsBijection ==
  ASSUME NEW S \in SUBSET Nat, IsFiniteSet(S)
  PROVE  /\ Cardinality(S) \in Nat
         /\ \A n \in 1..Cardinality(S) : Nth(S, n) \in S
         /\ \A m, n \in 1..Cardinality(S) : Nth(S, m) = Nth(S, n) => m = n
         /\ \A i \in S : \E n \in 1..Cardinality(S) : Nth(S, n) = i
<1> DEFINE N == Cardinality(S)
           Below(i) == {j \in S : j < i}
           rank == [i \in S |-> Cardinality(Below(i)) + 1]
<1>1. N \in Nat
  BY FS_CardinalityType
<1>2. \A i \in S : IsFiniteSet(Below(i)) /\ Cardinality(Below(i)) \in Nat
  <2> SUFFICES ASSUME NEW i \in S PROVE IsFiniteSet(Below(i)) /\ Cardinality(Below(i)) \in Nat
    OBVIOUS
  <2>1. Below(i) \in SUBSET S
    OBVIOUS
  <2> HIDE DEF Below
  <2> QED
    BY <2>1, FS_Subset, FS_CardinalityType
<1>3. ASSUME NEW i \in S PROVE Cardinality(Below(i)) + 1 \in 1..N
  <2>1. Below(i) \in SUBSET (S \ {i})
    OBVIOUS
  <2>2. IsFiniteSet(S \ {i}) /\ Cardinality(S \ {i}) = N - 1
    BY FS_RemoveElement
  <2> HIDE DEF Below
  <2>3. Cardinality(Below(i)) <= N - 1
    BY <2>1, <2>2, FS_Subset
  <2>4. Cardinality(Below(i)) \in Nat
    BY <1>2
  <2> HIDE DEF N
  <2> QED
    BY <1>1, <2>3, <2>4
<1>4. ASSUME NEW i \in S, NEW k \in S, i < k
      PROVE  Cardinality(Below(i)) < Cardinality(Below(k))
  <2>1. Below(i) \in SUBSET Below(k) /\ i \in Below(k) /\ i \notin Below(i)
    <3>1. i \in Nat /\ k \in Nat /\ \A j \in S : j \in Nat
      OBVIOUS
    <3>2. ~(i < i) /\ \A j \in S : j < i => j < k
      BY <1>4, <3>1
    <3> QED
      BY <1>4, <3>2
  <2> HIDE DEF Below
  <2>2. Cardinality(Below(i)) <= Cardinality(Below(k))
    BY <1>2, <2>1, FS_Subset
  <2>3. Cardinality(Below(i)) # Cardinality(Below(k))
    BY <1>2, <2>1, FS_Subset
  <2> QED
    BY <1>2, <2>2, <2>3
<1>5. rank \in Injection(S, 1..N)
  <2> HIDE DEF Below, N
  <2>1. rank \in [S -> 1..N]
    BY <1>3
  <2>2. ASSUME NEW i \in S, NEW k \in S, rank[i] = rank[k] PROVE i = k
    <3>1. Cardinality(Below(i)) = Cardinality(Below(k))
      BY <1>2, <2>2
    <3>2. ~(i < k) /\ ~(k < i)
      BY <1>2, <1>4, <3>1
    <3> QED
      BY <3>2
  <2> HIDE DEF rank
  <2> QED
    BY <2>1, <2>2 DEF Injection, IsInjective
<1>6. rank \in Surjection(S, 1..N)
  <2>1. IsFiniteSet(1..N) /\ Cardinality(1..N) = N
    BY <1>1, FS_Interval
  <2> HIDE DEF rank
  <2> QED
    BY <1>5, <2>1, FS_Injection
<1>7. ASSUME NEW n \in 1..N PROVE Nth(S, n) \in S /\ rank[Nth(S, n)] = n
  <2>1. PICK i \in S : rank[i] = n
    BY <1>6 DEF Surjection
  <2>2. n \in Nat
    BY <1>1
  <2>3. Cardinality(Below(i)) = n - 1
    BY <1>2, <2>1, <2>2
  <2>4. Nth(S, n) = CHOOSE j \in S : Cardinality(Below(j)) = n - 1
    BY DEF Nth
  <2> HIDE DEF Below
  <2>5. Nth(S, n) \in S /\ Cardinality(Below(Nth(S, n))) = n - 1
    BY <2>3, <2>4
  <2> QED
    BY <2>2, <2>5
<1>8. \A i \in S : rank[i] \in 1..N
  BY <1>5 DEF Injection
<1>9. \A i, k \in S : rank[i] = rank[k] => i = k
  BY <1>5 DEF Injection, IsInjective
<1> HIDE DEF rank, N, Below
<1>10. \A m, n \in 1..N : Nth(S, m) = Nth(S, n) => m = n
  BY <1>7
<1>11. \A i \in S : \E n \in 1..N : Nth(S, n) = i
  BY <1>7, <1>8, <1>9
<1> QED
  BY <1>1, <1>7, <1>10, <1>11 DEF N

(* First finds nothing exactly if no check fails.                          *)
LEMMA FirstOk ==
  ASSUME NEW codes, DOMAIN codes \in SUBSET Nat
  PROVE  First(codes) = Ok <=> \A i \in DOMAIN codes : codes[i] = Ok
<1> DEFINE failed == {i \in DOMAIN codes : codes[i] # Ok}
<1>1. CASE failed = {}
  BY <1>1 DEF First
<1>2. CASE failed # {}
  <2>1. failed \in SUBSET Nat
    OBVIOUS
  <2>2. PICK m \in failed : \A k \in failed : ~(k < m)
    BY <1>2, <2>1, LeastNatural
  <2>3. \A k \in failed : m <= k
    BY <2>1, <2>2
  <2>4. First(codes) = codes[CHOOSE i \in failed : \A j \in failed : i <= j]
    BY <1>2 DEF First
  <2>5. (CHOOSE i \in failed : \A j \in failed : i <= j) \in failed
    <3> HIDE DEF failed
    <3> QED
      BY <2>2, <2>3
  <2> QED
    BY <2>4, <2>5
<1> QED
  BY <1>1, <1>2

LEMMA FirstOfTwo ==
  \A a, b : First(<<a, b>>) = Ok <=> a = Ok /\ b = Ok
<1> TAKE a, b
<1> DEFINE codes == <<a, b>>
<1>1. DOMAIN codes = {1, 2} /\ codes[1] = a /\ codes[2] = b
  OBVIOUS
<1> HIDE DEF codes
<1>2. First(codes) = Ok <=> a = Ok /\ b = Ok
  BY <1>1, FirstOk
<1> QED
  BY <1>2 DEF codes

LEMMA FirstOfThree ==
  \A a, b, c : First(<<a, b, c>>) = Ok <=> a = Ok /\ b = Ok /\ c = Ok
<1> TAKE a, b, c
<1> DEFINE codes == <<a, b, c>>
<1>1. DOMAIN codes = {1, 2, 3} /\ codes[1] = a /\ codes[2] = b /\ codes[3] = c
  OBVIOUS
<1> HIDE DEF codes
<1>2. First(codes) = Ok <=> a = Ok /\ b = Ok /\ c = Ok
  BY <1>1, FirstOk
<1> QED
  BY <1>2 DEF codes

LEMMA FirstOfFour ==
  \A a, b, c, d : First(<<a, b, c, d>>) = Ok <=> a = Ok /\ b = Ok /\ c = Ok /\ d = Ok
<1> TAKE a, b, c, d
<1> DEFINE codes == <<a, b, c, d>>
<1>1. /\ DOMAIN codes = {1, 2, 3, 4}
      /\ codes[1] = a /\ codes[2] = b /\ codes[3] = c /\ codes[4] = d
  OBVIOUS
<1> HIDE DEF codes
<1>2. First(codes) = Ok <=> a = Ok /\ b = Ok /\ c = Ok /\ d = Ok
  BY <1>1, FirstOk
<1> QED
  BY <1>2 DEF codes

LEMMA FirstOfSix ==
  \A a, b, c, d, e, f : First(<<a, b, c, d, e, f>>) = Ok <=>
    a = Ok /\ b = Ok /\ c = Ok /\ d = Ok /\ e = Ok /\ f = Ok
<1> TAKE a, b, c, d, e, f
<1> DEFINE codes == <<a, b, c, d, e, f>>
<1>1. /\ DOMAIN codes = {1, 2, 3, 4, 5, 6}
      /\ codes[1] = a /\ codes[2] = b /\ codes[3] = c
      /\ codes[4] = d /\ codes[5] = e /\ codes[6] = f
  OBVIOUS
<1> HIDE DEF codes
<1>2. First(codes) = Ok <=> a = Ok /\ b = Ok /\ c = Ok /\ d = Ok /\ e = Ok /\ f = Ok
  BY <1>1, FirstOk
<1> QED
  BY <1>2 DEF codes

(* First returns one of the codes.                                         *)
LEMMA FirstIn ==
  ASSUME NEW codes, DOMAIN codes \in SUBSET Nat, NEW C, Ok \in C,
         \A i \in DOMAIN codes : codes[i] \in C
  PROVE  First(codes) \in C
<1> DEFINE failed == {i \in DOMAIN codes : codes[i] # Ok}
<1>1. CASE failed = {}
  BY <1>1 DEF First
<1>2. CASE failed # {}
  <2>1. failed \in SUBSET Nat
    OBVIOUS
  <2>2. PICK m \in failed : \A k \in failed : ~(k < m)
    BY <1>2, <2>1, LeastNatural
  <2>3. \A k \in failed : m <= k
    BY <2>1, <2>2
  <2>4. First(codes) = codes[CHOOSE i \in failed : \A j \in failed : i <= j]
    BY <1>2 DEF First
  <2>5. (CHOOSE i \in failed : \A j \in failed : i <= j) \in failed
    <3> HIDE DEF failed
    <3> QED
      BY <2>2, <2>3
  <2> QED
    BY <2>4, <2>5
<1> QED
  BY <1>1, <1>2

-----------------------------------------------------------------------------
(* The conditions of a WHERE.                                              *)

(* Induction on the conditions of the statements.                          *)
LEMMA TreeInduction ==
  ASSUME NEW T \in SUBSET Trees,
         \A w \in Trees : (\A v \in Trees : Size[v] < Size[w] => v \in T) => w \in T
  PROVE  T = Trees
<1> SUFFICES ASSUME NEW u \in Trees \ T PROVE FALSE
  OBVIOUS
<1> DEFINE sizes == {Size[w] : w \in Trees \ T}
<1>1. sizes \in SUBSET Nat /\ sizes # {}
  BY StatementAssumption
<1>2. PICK m \in sizes : \A k \in sizes : ~(k < m)
  BY <1>1, LeastNatural
<1>3. PICK w \in Trees \ T : m = Size[w]
  BY <1>2
<1>4. \A v \in Trees : Size[v] < Size[w] => v \in T
  BY <1>2, <1>3
<1> QED
  BY <1>3, <1>4

(* The conditions of a tree are defined by recursion on it.                *)
LEMMA ConjunctsDefined ==
  /\ Conjuncts \in [Trees -> Seq(Trees)]
  /\ \A w \in Trees :
       Conjuncts[w] = IF w.kind = "none" THEN <<>>
                      ELSE IF w.kind = "paren" THEN Conjuncts[w.this]
                      ELSE IF w.kind = "and" THEN Conjuncts[w.left] \o Conjuncts[w.right]
                      ELSE <<w>>
<1> DEFINE V == Seq(Trees)
           inner == {w \in Trees : w.kind \in {"paren", "and"}}
           l == [w \in inner |-> IF w.kind = "paren" THEN w.this ELSE w.left]
           r == [w \in inner |-> IF w.kind = "paren" THEN w.this ELSE w.right]
           G == [w \in Trees |-> [u \in V |-> [v \in V |->
                   IF w.kind = "paren" THEN u ELSE u \o v]]]
           leaf == [w \in Trees |-> IF w.kind = "none" THEN <<>> ELSE <<w>>]
<1>1. inner \in SUBSET Trees
  OBVIOUS
<1>2. l \in [inner -> Trees] /\ r \in [inner -> Trees]
  BY StatementAssumption DEF Parsed
<1>3. \A w \in inner : Size[l[w]] < Size[w] /\ Size[r[w]] < Size[w]
  BY StatementAssumption DEF Parsed
<1>4. \A u, v \in V : u \o v \in V
  BY ConcatProperties
<1>5. G \in [Trees -> [V -> [V -> V]]]
  <2> HIDE DEF V
  <2> QED
    BY <1>4
<1>6. leaf \in [Trees -> V]
  OBVIOUS
<1>7. PICK f : Recurses(f, Trees, V, inner, l, r, G, leaf)
  <2>1. Size \in [Trees -> Nat]
    BY StatementAssumption
  <2> HIDE DEF V, inner, l, r, G, leaf
  <2>2. Descends(Trees, Size, V, inner, l, r, G, leaf)
    BY <1>1, <1>2, <1>3, <1>5, <1>6, <2>1 DEF Descends
  <2> QED
    BY <2>2, Recursion
<1>8. /\ f \in [Trees -> V]
      /\ \A w \in Trees : f[w] = IF w \in inner THEN G[w][f[l[w]]][f[r[w]]] ELSE leaf[w]
  <2> HIDE DEF V, inner, l, r, G, leaf
  <2> QED
    BY <1>7 DEF Recurses
<1> DEFINE Body(g, w) == IF w.kind = "none" THEN <<>>
                         ELSE IF w.kind = "paren" THEN g[w.this]
                         ELSE IF w.kind = "and" THEN g[w.left] \o g[w.right]
                         ELSE <<w>>
<1>9. ASSUME NEW w \in Trees PROVE f[w] = Body(f, w)
  <2>1. CASE w.kind = "paren"
    <3>1. w \in inner /\ l[w] = w.this /\ r[w] = w.this /\ w.this \in Trees
      BY <2>1, StatementAssumption DEF Parsed
    <3>2. \A u, v \in V : G[w][u][v] = u
      BY <2>1
    <3> HIDE DEF inner, l, r, G, leaf, V
    <3>3. f[w] = G[w][f[w.this]][f[w.this]] /\ f[w.this] \in V
      BY <1>8, <3>1
    <3>4. f[w] = f[w.this]
      BY <3>2, <3>3
    <3> QED
      BY <2>1, <3>4
  <2>2. CASE w.kind = "and"
    <3>1. w \in inner /\ l[w] = w.left /\ r[w] = w.right /\ w.left \in Trees /\ w.right \in Trees
      BY <2>2, StatementAssumption DEF Parsed
    <3>2. \A u, v \in V : G[w][u][v] = u \o v
      BY <2>2
    <3> HIDE DEF inner, l, r, G, leaf, V
    <3>3. f[w] = G[w][f[w.left]][f[w.right]] /\ f[w.left] \in V /\ f[w.right] \in V
      BY <1>8, <3>1
    <3>4. f[w] = f[w.left] \o f[w.right]
      BY <3>2, <3>3
    <3> QED
      BY <2>2, <3>4
  <2>3. CASE w.kind \notin {"paren", "and"}
    <3>1. w \notin inner
      BY <2>3
    <3>2. f[w] = leaf[w]
      BY <1>8, <3>1
    <3> QED
      BY <2>3, <3>2
  <2> QED
    BY <2>1, <2>2, <2>3
<1>10. f = [w \in Trees |-> Body(f, w)]
  <2> HIDE DEF Body, V
  <2> QED
    BY <1>8, <1>9
<1>11. \E g : g = [w \in Trees |-> Body(g, w)]
  BY <1>10
<1>12. Conjuncts = CHOOSE g : g = [w \in Trees |-> Body(g, w)]
  BY DEF Conjuncts
<1>13. Conjuncts = [w \in Trees |-> Body(Conjuncts, w)]
  <2> HIDE DEF Body
  <2> QED
    BY <1>11, <1>12
<1> DEFINE C == Conjuncts
<1>14. Conjuncts \in [Trees -> V]
  <2> DEFINE T == {w \in Trees : Conjuncts[w] \in V}
  <2>1. ASSUME NEW w \in Trees, \A v \in Trees : Size[v] < Size[w] => v \in T PROVE w \in T
    <3>1. Conjuncts[w] = Body(Conjuncts, w)
      BY <1>13
    <3>2. w.kind = "paren" => Conjuncts[w.this] \in V
      BY <2>1, StatementAssumption DEF Parsed
    <3>3. w.kind = "and" => Conjuncts[w.left] \in V /\ Conjuncts[w.right] \in V
      BY <2>1, StatementAssumption DEF Parsed
    <3>4. <<>> \in V /\ <<w>> \in V
      OBVIOUS
    <3> HIDE DEF V
    <3> QED
      BY <1>4, <3>1, <3>2, <3>3, <3>4
  <2>2. T \in SUBSET Trees
    OBVIOUS
  <2> HIDE DEF T
  <2>3. T = Trees
    BY <2>1, <2>2, TreeInduction
  <2>4. \A w \in Trees : Conjuncts[w] \in V
    BY <2>3 DEF T
  <2>5. Conjuncts = [w \in Trees |-> Conjuncts[w]]
    BY <1>13
  <2> HIDE DEF V
  <2> QED
    BY <2>4, <2>5
<1>15. \A w \in Trees : Conjuncts[w] = Body(Conjuncts, w)
  <2> HIDE DEF Body
  <2> QED
    BY <1>13
<1> QED
  BY <1>14, <1>15

(* So are the rows of which it holds.                                      *)
LEMMA RowsWhereDefined ==
  \A w \in Trees :
    RowsWhere[w] = IF w.kind = "none" THEN UNION Tables
                   ELSE IF w.kind = "paren" THEN RowsWhere[w.this]
                   ELSE IF w.kind = "and" THEN RowsWhere[w.left] \cap RowsWhere[w.right]
                   ELSE IF w.kind = "or" THEN RowsWhere[w.left] \cup RowsWhere[w.right]
                   ELSE {row \in UNION Tables : Compares(row, w)}
<1> DEFINE V == SUBSET UNION Tables
           inner == {w \in Trees : w.kind \in {"paren", "and", "or"}}
           l == [w \in inner |-> IF w.kind = "paren" THEN w.this ELSE w.left]
           r == [w \in inner |-> IF w.kind = "paren" THEN w.this ELSE w.right]
           G == [w \in Trees |-> [u \in V |-> [v \in V |->
                   IF w.kind = "paren" THEN u
                   ELSE IF w.kind = "and" THEN u \cap v ELSE u \cup v]]]
           leaf == [w \in Trees |-> IF w.kind = "none" THEN UNION Tables
                                ELSE {row \in UNION Tables : Compares(row, w)}]
<1>1. inner \in SUBSET Trees
  OBVIOUS
<1>2. l \in [inner -> Trees] /\ r \in [inner -> Trees]
  BY StatementAssumption DEF Parsed
<1>3. \A w \in inner : Size[l[w]] < Size[w] /\ Size[r[w]] < Size[w]
  BY StatementAssumption DEF Parsed
<1>4. \A u, v \in V : u \cap v \in V /\ u \cup v \in V
  OBVIOUS
<1>5. G \in [Trees -> [V -> [V -> V]]]
  <2> HIDE DEF V
  <2> QED
    BY <1>4
<1>6. leaf \in [Trees -> V]
  OBVIOUS
<1>7. PICK f : Recurses(f, Trees, V, inner, l, r, G, leaf)
  <2>1. Size \in [Trees -> Nat]
    BY StatementAssumption
  <2> HIDE DEF V, inner, l, r, G, leaf
  <2>2. Descends(Trees, Size, V, inner, l, r, G, leaf)
    BY <1>1, <1>2, <1>3, <1>5, <1>6, <2>1 DEF Descends
  <2> QED
    BY <2>2, Recursion
<1>8. /\ f \in [Trees -> V]
      /\ \A w \in Trees : f[w] = IF w \in inner THEN G[w][f[l[w]]][f[r[w]]] ELSE leaf[w]
  <2> HIDE DEF V, inner, l, r, G, leaf
  <2> QED
    BY <1>7 DEF Recurses
<1> DEFINE Body(g, w) == IF w.kind = "none" THEN UNION Tables
                         ELSE IF w.kind = "paren" THEN g[w.this]
                         ELSE IF w.kind = "and" THEN g[w.left] \cap g[w.right]
                         ELSE IF w.kind = "or" THEN g[w.left] \cup g[w.right]
                         ELSE {row \in UNION Tables : Compares(row, w)}
<1>9. ASSUME NEW w \in Trees PROVE f[w] = Body(f, w)
  <2>1. CASE w.kind = "paren"
    <3>1. w \in inner /\ l[w] = w.this /\ r[w] = w.this /\ w.this \in Trees
      BY <2>1, StatementAssumption DEF Parsed
    <3>2. \A u, v \in V : G[w][u][v] = u
      BY <2>1
    <3> HIDE DEF inner, l, r, G, leaf, V
    <3>3. f[w] = G[w][f[w.this]][f[w.this]] /\ f[w.this] \in V
      BY <1>8, <3>1
    <3>4. f[w] = f[w.this]
      BY <3>2, <3>3
    <3> QED
      BY <2>1, <3>4
  <2>2. CASE w.kind = "and"
    <3>1. w \in inner /\ l[w] = w.left /\ r[w] = w.right /\ w.left \in Trees /\ w.right \in Trees
      BY <2>2, StatementAssumption DEF Parsed
    <3>2. \A u, v \in V : G[w][u][v] = u \cap v
      BY <2>2
    <3> HIDE DEF inner, l, r, G, leaf, V
    <3>3. f[w] = G[w][f[w.left]][f[w.right]] /\ f[w.left] \in V /\ f[w.right] \in V
      BY <1>8, <3>1
    <3>4. f[w] = f[w.left] \cap f[w.right]
      BY <3>2, <3>3
    <3> QED
      BY <2>2, <3>4
  <2>3. CASE w.kind = "or"
    <3>1. w \in inner /\ l[w] = w.left /\ r[w] = w.right /\ w.left \in Trees /\ w.right \in Trees
      BY <2>3, StatementAssumption DEF Parsed
    <3>2. \A u, v \in V : G[w][u][v] = u \cup v
      BY <2>3
    <3> HIDE DEF inner, l, r, G, leaf, V
    <3>3. f[w] = G[w][f[w.left]][f[w.right]] /\ f[w.left] \in V /\ f[w.right] \in V
      BY <1>8, <3>1
    <3>4. f[w] = f[w.left] \cup f[w.right]
      BY <3>2, <3>3
    <3> QED
      BY <2>3, <3>4
  <2>4. CASE w.kind \notin {"paren", "and", "or"}
    <3>1. w \notin inner
      BY <2>4
    <3>2. f[w] = leaf[w]
      BY <1>8, <3>1
    <3> QED
      BY <2>4, <3>2
  <2> QED
    BY <2>1, <2>2, <2>3, <2>4
<1>10. f = [w \in Trees |-> Body(f, w)]
  <2> HIDE DEF Body, V
  <2> QED
    BY <1>8, <1>9
<1>11. \E g : g = [w \in Trees |-> Body(g, w)]
  BY <1>10
<1>12. RowsWhere = CHOOSE g : g = [w \in Trees |-> Body(g, w)]
  BY DEF RowsWhere
<1>13. RowsWhere = [w \in Trees |-> Body(RowsWhere, w)]
  <2> HIDE DEF Body
  <2> QED
    BY <1>11, <1>12
<1>14. \A w \in Trees : RowsWhere[w] = Body(RowsWhere, w)
  <2> HIDE DEF Body
  <2> QED
    BY <1>13
<1> QED
  BY <1>14

\* The conditions that a tree combines.
Leaves(w) == {Conjuncts[w][i] : i \in DOMAIN Conjuncts[w]}

(* They are those of its parts.                                            *)
LEMMA LeavesOfTree ==
  \A w \in Trees :
    /\ Leaves(w) \subseteq Trees
    /\ w.kind = "none" => Leaves(w) = {}
    /\ w.kind = "paren" => Leaves(w) = Leaves(w.this)
    /\ w.kind = "and" => Leaves(w) = Leaves(w.left) \cup Leaves(w.right)
    /\ w.kind \notin {"none", "paren", "and"} => Leaves(w) = {w}
<1> SUFFICES ASSUME NEW w \in Trees
             PROVE  /\ Leaves(w) \subseteq Trees
                    /\ w.kind = "none" => Leaves(w) = {}
                    /\ w.kind = "paren" => Leaves(w) = Leaves(w.this)
                    /\ w.kind = "and" => Leaves(w) = Leaves(w.left) \cup Leaves(w.right)
                    /\ w.kind \notin {"none", "paren", "and"} => Leaves(w) = {w}
  OBVIOUS
<1>1. \A v \in Trees : Conjuncts[v] \in Seq(Trees)
  BY ConjunctsDefined
<1>2. Leaves(w) \subseteq Trees
  BY <1>1 DEF Leaves
<1>3. w.kind = "none" => Leaves(w) = {}
  <2>1. w.kind = "none" => Conjuncts[w] = <<>>
    BY ConjunctsDefined
  <2> QED
    BY <2>1 DEF Leaves
<1>4. w.kind = "paren" => Leaves(w) = Leaves(w.this)
  <2>1. w.kind = "paren" => Conjuncts[w] = Conjuncts[w.this]
    BY ConjunctsDefined
  <2> QED
    BY <2>1 DEF Leaves
<1>5. ASSUME w.kind = "and" PROVE Leaves(w) = Leaves(w.left) \cup Leaves(w.right)
  <2>1. w.left \in Trees /\ w.right \in Trees
    BY <1>5, StatementAssumption DEF Parsed
  <2> DEFINE s == Conjuncts[w.left]
             t == Conjuncts[w.right]
  <2>2. s \in Seq(Trees) /\ t \in Seq(Trees)
    BY <1>1, <2>1
  <2>3. Conjuncts[w] = s \o t
    BY <1>5, ConjunctsDefined
  <2>4. Leaves(w) = {(s \o t)[i] : i \in DOMAIN (s \o t)}
    BY <2>3 DEF Leaves
  <2>5. Leaves(w.left) = {s[i] : i \in DOMAIN s} /\ Leaves(w.right) = {t[i] : i \in DOMAIN t}
    BY DEF Leaves
  <2> HIDE DEF s, t
  <2>6. /\ Len(s) \in Nat /\ DOMAIN s = 1..Len(s)
        /\ Len(t) \in Nat /\ DOMAIN t = 1..Len(t)
        /\ s \o t \in Seq(Trees) /\ DOMAIN (s \o t) = 1..(Len(s) + Len(t))
    BY <2>2
  <2>7. \A i \in 1..(Len(s) + Len(t)) :
          (s \o t)[i] = IF i <= Len(s) THEN s[i] ELSE t[i - Len(s)]
    BY <2>2, ConcatProperties
  <2>8. \A i \in DOMAIN (s \o t) : \/ \E j \in DOMAIN s : (s \o t)[i] = s[j]
                                  \/ \E j \in DOMAIN t : (s \o t)[i] = t[j]
    <3> SUFFICES ASSUME NEW i \in 1..(Len(s) + Len(t))
                 PROVE  \/ \E j \in DOMAIN s : (s \o t)[i] = s[j]
                        \/ \E j \in DOMAIN t : (s \o t)[i] = t[j]
      BY <2>6
    <3>1. CASE i <= Len(s)
      BY <2>6, <2>7, <3>1
    <3>2. CASE ~(i <= Len(s))
      <4>1. i - Len(s) \in 1..Len(t)
        BY <2>6, <3>2
      <4> QED
        BY <2>6, <2>7, <3>2, <4>1
    <3> QED
      BY <3>1, <3>2
  <2>9. \A j \in DOMAIN s : \E i \in DOMAIN (s \o t) : (s \o t)[i] = s[j]
    BY <2>6, <2>7
  <2>10. \A j \in DOMAIN t : \E i \in DOMAIN (s \o t) : (s \o t)[i] = t[j]
    <3> SUFFICES ASSUME NEW j \in 1..Len(t)
                 PROVE  \E i \in DOMAIN (s \o t) : (s \o t)[i] = t[j]
      BY <2>6
    <3>1. Len(s) + j \in 1..(Len(s) + Len(t)) /\ ~(Len(s) + j <= Len(s))
          /\ (Len(s) + j) - Len(s) = j
      BY <2>6
    <3>2. (s \o t)[Len(s) + j] = t[j]
      BY <2>7, <3>1
    <3> QED
      BY <2>6, <3>1, <3>2
  <2> QED
    BY <2>4, <2>5, <2>8, <2>9, <2>10
<1>6. w.kind \notin {"none", "paren", "and"} => Leaves(w) = {w}
  <2>1. w.kind \notin {"none", "paren", "and"} => Conjuncts[w] = <<w>>
    BY ConjunctsDefined
  <2>2. {<<w>>[i] : i \in DOMAIN <<w>>} = {w}
    OBVIOUS
  <2> QED
    BY <2>1, <2>2 DEF Leaves
<1> QED
  BY <1>2, <1>3, <1>4, <1>5, <1>6

(* A WHERE of the kinds of conditions that _filters allows holds of the    *)
(* rows of which all of them hold.                                         *)
LEMMA RowsWhereLeaves ==
  \A w \in Trees :
    (\A v \in Leaves(w) : v.kind \in {"eq", "neq", "in"}) =>
      RowsWhere[w] = {row \in UNION Tables : \A v \in Leaves(w) : Compares(row, v)}
<1> DEFINE Claim(w) ==
      (\A v \in Leaves(w) : v.kind \in {"eq", "neq", "in"}) =>
        RowsWhere[w] = {row \in UNION Tables : \A v \in Leaves(w) : Compares(row, v)}
    T == {w \in Trees : Claim(w)}
<1>1. ASSUME NEW w \in Trees, \A v \in Trees : Size[v] < Size[w] => Claim(v)
      PROVE  Claim(w)
  <2>1. CASE w.kind = "none"
    <3>1. Leaves(w) = {} /\ RowsWhere[w] = UNION Tables
      BY <2>1, LeavesOfTree, RowsWhereDefined
    <3> QED
      BY <3>1
  <2>2. CASE w.kind = "paren"
    <3>1. w.this \in Trees /\ Size[w.this] < Size[w]
      BY <2>2, StatementAssumption DEF Parsed
    <3>2. Leaves(w) = Leaves(w.this) /\ RowsWhere[w] = RowsWhere[w.this]
      BY <2>2, LeavesOfTree, RowsWhereDefined
    <3> QED
      BY <1>1, <3>1, <3>2
  <2>3. CASE w.kind = "and"
    <3>1. /\ w.left \in Trees /\ Size[w.left] < Size[w]
          /\ w.right \in Trees /\ Size[w.right] < Size[w]
      BY <2>3, StatementAssumption DEF Parsed
    <3>2. /\ Leaves(w) = Leaves(w.left) \cup Leaves(w.right)
          /\ RowsWhere[w] = RowsWhere[w.left] \cap RowsWhere[w.right]
      BY <2>3, LeavesOfTree, RowsWhereDefined
    <3>3. Claim(w.left) /\ Claim(w.right)
      BY <1>1, <3>1
    <3> QED
      BY <3>2, <3>3
  <2>4. CASE w.kind \notin {"none", "paren", "and"}
    <3>1. Leaves(w) = {w}
      BY <2>4, LeavesOfTree
    <3>2. w.kind \in {"eq", "neq", "in"} =>
            RowsWhere[w] = {row \in UNION Tables : Compares(row, w)}
      BY <2>4, RowsWhereDefined
    <3> QED
      BY <3>1, <3>2
  <2> QED
    BY <2>1, <2>2, <2>3, <2>4
<1>2. T \in SUBSET Trees
  OBVIOUS
<1>3. \A w \in Trees : (\A v \in Trees : Size[v] < Size[w] => v \in T) => w \in T
  <2> HIDE DEF Claim
  <2> QED
    BY <1>1
<1> HIDE DEF T
<1>4. T = Trees
  BY <1>2, <1>3, TreeInduction
<1> QED
  BY <1>4 DEF T

-----------------------------------------------------------------------------
(* What _filters lets pass.                                                *)

(* A condition that _filters lets pass.                                    *)
LEMMA ConditionAllowed ==
  ASSUME NEW w \in Trees, ConditionObjection(w) = Ok
  PROVE  \/ /\ w.kind \in {"eq", "neq"}
            /\ Name(w.left) \in FilterColumns \ ForbiddenColumns
            /\ Scalar(w.right) \in Literals
         \/ /\ w.kind = "in"
            /\ Name(w.this) \in FilterColumns \ ForbiddenColumns
            /\ DOMAIN w.expressions = 1..Len(w.expressions) /\ Len(w.expressions) \in 1..20
            /\ \A i \in DOMAIN w.expressions : Scalar(w.expressions[i]) \in Literals
<1>1. \A e : FilterColumnObjection(e) = Ok => Name(e) \in FilterColumns \ ForbiddenColumns
  BY FirstOfThree DEF FilterColumnObjection, Unless, Ok
<1>2. \A e : LiteralObjection(e) = Ok /\ Literal(e) => Scalar(e) \in Literals
  <2> TAKE e
  <2>1. LiteralObjection(e) = Ok => e.kind = "literal" /\ e.finite
    BY FirstOfTwo DEF LiteralObjection, Unless, Ok
  <2> QED
    BY <2>1 DEF Literal
<1>3. CASE w.kind \in {"eq", "neq"}
  <2>1. ConditionObjection(w) = First(<<FilterColumnObjection(w.left), LiteralObjection(w.right)>>)
    BY <1>3 DEF ConditionObjection
  <2>2. FilterColumnObjection(w.left) = Ok /\ LiteralObjection(w.right) = Ok
    BY <2>1, FirstOfTwo
  <2>3. Scalar(w.right) \in Literals
    <3>1. Literal(w.right)
      BY <1>3, StatementAssumption DEF Parsed
    <3> QED
      BY <1>2, <2>2, <3>1
  <2> QED
    BY <1>1, <1>3, <2>2, <2>3
<1>4. CASE w.kind = "in"
  <2> DEFINE each == First([i \in DOMAIN w.expressions |-> LiteralObjection(w.expressions[i])])
             few == Unless(Len(w.expressions) \in 1..20, "INVALID_IN_LIST")
             flat == Unless(~w.query, "SUBQUERY_FORBIDDEN")
  <2>1. ConditionObjection(w) = First(<<FilterColumnObjection(w.this), flat, each, few>>)
    BY <1>4 DEF ConditionObjection
  <2> HIDE DEF each, few, flat
  <2>2. FilterColumnObjection(w.this) = Ok /\ each = Ok /\ few = Ok
    BY <2>1, FirstOfFour
  <2>3. Len(w.expressions) \in 1..20
    BY <2>2 DEF few, Unless, Ok
  <2>4. Ordered(w.expressions) /\ \A i \in DOMAIN w.expressions : Literal(w.expressions[i])
    BY <1>4, StatementAssumption DEF Parsed
  <2>5. DOMAIN w.expressions = 1..Len(w.expressions)
    BY <2>4, LenProperties DEF Ordered
  <2>6. \A i \in DOMAIN w.expressions : LiteralObjection(w.expressions[i]) = Ok
    <3> DEFINE codes == [i \in DOMAIN w.expressions |-> LiteralObjection(w.expressions[i])]
    <3>1. DOMAIN codes \in SUBSET Nat
      BY <2>3, <2>5
    <3>2. First(codes) = Ok
      BY <2>2 DEF each
    <3>3. \A i \in DOMAIN w.expressions : codes[i] = LiteralObjection(w.expressions[i])
      OBVIOUS
    <3>4. DOMAIN codes = DOMAIN w.expressions
      OBVIOUS
    <3> HIDE DEF codes
    <3> QED
      BY <3>1, <3>2, <3>3, <3>4, FirstOk
  <2>7. \A i \in DOMAIN w.expressions : Scalar(w.expressions[i]) \in Literals
    BY <1>2, <2>4, <2>6
  <2> QED
    BY <1>1, <1>4, <2>2, <2>3, <2>5, <2>7
<1>5. w.kind \in {"eq", "neq", "in"}
  BY DEF ConditionObjection, Ok
<1> QED
  BY <1>3, <1>4, <1>5

(* The filter of an IN.                                                    *)
LEMMA FilterOfList ==
  ASSUME NEW w, w.kind = "in", DOMAIN w.expressions = 1..Len(w.expressions),
         Len(w.expressions) \in Nat
  PROVE  /\ FilterOf(w).column = Name(w.this)
         /\ FilterOf(w).operator = IF Len(w.expressions) = 1 THEN "eq" ELSE "in"
         /\ FilterOf(w).values = [i \in DOMAIN w.expressions |-> Scalar(w.expressions[i])]
         /\ Len(FilterOf(w).values) = Len(w.expressions)
<1>1. FilterOf(w) = FilterOfIn(w)
  BY DEF FilterOf
<1>2. FilterOfIn(w) =
        [column |-> Name(w.this), operator |-> IF Len(w.expressions) = 1 THEN "eq" ELSE "in",
         values |-> [i \in DOMAIN w.expressions |-> Scalar(w.expressions[i])]]
  BY DEF FilterOfIn, InFilter
<1>3. Len([i \in 1..Len(w.expressions) |-> Scalar(w.expressions[i])]) = Len(w.expressions)
  OBVIOUS
<1> QED
  BY <1>1, <1>2, <1>3

(* The filter of a comparison.                                             *)
LEMMA FilterOfComparison ==
  ASSUME NEW w, w.kind \in {"eq", "neq"}
  PROVE  FilterOf(w) = [column |-> Name(w.left), operator |-> w.kind, values |-> <<Scalar(w.right)>>]
  BY DEF FilterOf

(* It is a filter that _validate_plan lets pass, ...                       *)
LEMMA FilterWellFormed ==
  ASSUME NEW w \in Trees, ConditionObjection(w) = Ok
  PROVE  WellFormed(FilterOf(w))
<1>1. CASE w.kind \in {"eq", "neq"}
  <2>1. FilterOf(w) = [column |-> Name(w.left), operator |-> w.kind, values |-> <<Scalar(w.right)>>]
    BY <1>1, FilterOfComparison
  <2>2. Name(w.left) \in FilterColumns \ ForbiddenColumns
    BY <1>1, ConditionAllowed
  <2> DEFINE f == FilterOf(w)
  <2>3. f.column = Name(w.left) /\ f.operator = w.kind /\ Len(f.values) = 1
    BY <2>1
  <2> HIDE DEF f
  <2>4. WellFormed(f)
    BY <1>1, <2>2, <2>3 DEF WellFormed
  <2> QED
    BY <2>4 DEF f
<1>2. CASE w.kind = "in"
  <2>1. /\ Name(w.this) \in FilterColumns \ ForbiddenColumns
        /\ DOMAIN w.expressions = 1..Len(w.expressions) /\ Len(w.expressions) \in 1..20
    BY <1>2, ConditionAllowed
  <2> DEFINE f == FilterOf(w)
  <2>2. /\ f.column = Name(w.this)
        /\ f.operator = IF Len(w.expressions) = 1 THEN "eq" ELSE "in"
        /\ Len(f.values) = Len(w.expressions)
    <3>1. Len(w.expressions) \in Nat
      BY <2>1
    <3> QED
      BY <1>2, <2>1, <3>1, FilterOfList
  <2> HIDE DEF f
  <2>3. Len(f.values) \in 1..20 /\ (f.operator = "in" \/ Len(f.values) = 1)
    BY <2>1, <2>2
  <2>4. f.operator \in {"eq", "in"} /\ f.column \in FilterColumns \ ForbiddenColumns
    BY <2>1, <2>2
  <2>5. WellFormed(f)
    BY <2>3, <2>4 DEF WellFormed
  <2> QED
    BY <2>5 DEF f
<1> QED
  BY <1>1, <1>2, ConditionAllowed

(* ... and compile makes a comparison of it that means the same if float() *)
(* kept the literals.                                                      *)
LEMMA FilterMeans ==
  ASSUME NEW w \in Trees, ConditionObjection(w) = Ok, KeptIn(w), NEW row
  PROVE  Satisfies(row, FilterOf(w)) <=> Compares(row, w)
<1>1. CASE w.kind \in {"eq", "neq"}
  <2>1. FilterOf(w) = [column |-> Name(w.left), operator |-> w.kind, values |-> <<Scalar(w.right)>>]
    BY <1>1, FilterOfComparison
  <2> DEFINE f == FilterOf(w)
  <2>2. /\ f.column = Name(w.left) /\ f.operator = w.kind
        /\ f.values[1].value = Means(Name(w.left), w.right)
    <3>1. Scalar(w.right).value = Means(Name(w.left), w.right)
      BY <1>1 DEF KeptIn, Kept
    <3> QED
      BY <2>1, <3>1
  <2> HIDE DEF f
  <2>3. Satisfies(row, f) <=> Compares(row, w)
    BY <1>1, <2>2 DEF Satisfies, Compares
  <2> QED
    BY <2>3 DEF f
<1>2. CASE w.kind = "in"
  <2>1. DOMAIN w.expressions = 1..Len(w.expressions) /\ Len(w.expressions) \in 1..20
    BY <1>2, ConditionAllowed
  <2> DEFINE f == FilterOf(w)
  <2>2. /\ f.column = Name(w.this)
        /\ f.operator = IF Len(w.expressions) = 1 THEN "eq" ELSE "in"
        /\ f.values = [i \in DOMAIN w.expressions |-> Scalar(w.expressions[i])]
    <3>1. Len(w.expressions) \in Nat
      BY <2>1
    <3> QED
      BY <1>2, <2>1, <3>1, FilterOfList
  <2> HIDE DEF f
  <2>3. DOMAIN f.values = DOMAIN w.expressions
    BY <2>2
  <2>4. \A i \in DOMAIN w.expressions :
          f.values[i].value = Means(Name(w.this), w.expressions[i])
    <3>1. \A i \in DOMAIN w.expressions :
            Scalar(w.expressions[i]).value = Means(Name(w.this), w.expressions[i])
      BY <1>2 DEF KeptIn, Kept
    <3> QED
      BY <2>2, <3>1
  <2>5. Compares(row, w) <=> \E i \in DOMAIN w.expressions : row[f.column] = f.values[i].value
    BY <1>2, <2>2, <2>4 DEF Compares
  <2>6. CASE Len(w.expressions) = 1
    <3>1. DOMAIN w.expressions = {1} /\ f.operator = "eq"
      BY <2>1, <2>2, <2>6
    <3> QED
      BY <2>5, <3>1 DEF Satisfies, f
  <2>7. CASE Len(w.expressions) # 1
    <3>1. f.operator = "in"
      BY <2>2, <2>7
    <3> QED
      BY <2>3, <2>5, <3>1 DEF Satisfies, f
  <2> QED
    BY <2>6, <2>7
<1> QED
  BY <1>1, <1>2, ConditionAllowed

-----------------------------------------------------------------------------
(* What _projection and plan let pass.                                     *)

\* The positions of the columns and of the aggregates of the select list.
Columnar(s) == {i \in DOMAIN s.projections : ~IsMetric(s.projections[i])}
Aggregated(s) == {i \in DOMAIN s.projections : IsMetric(s.projections[i])}

(* The dimensions and the metrics are those of the select list, each once. *)
LEMMA SelectListKept ==
  ASSUME NEW s, Ordered(s.projections)
  PROVE  /\ \E pos : /\ pos \in Bijection(1..Cardinality(Columnar(s)), Columnar(s))
                     /\ Cardinality(Columnar(s)) \in Nat
                     /\ DimensionsOf(s) = [n \in 1..Cardinality(Columnar(s)) |->
                                             Name(s.projections[pos[n]].expression)]
         /\ \E pos : /\ pos \in Bijection(1..Cardinality(Aggregated(s)), Aggregated(s))
                     /\ Cardinality(Aggregated(s)) \in Nat
                     /\ MetricsOf(s) = [n \in 1..Cardinality(Aggregated(s)) |->
                                          MetricOf(s.projections[pos[n]])]
<1>1. DOMAIN s.projections = 1..Len(s.projections) /\ Len(s.projections) \in Nat
  BY LenProperties DEF Ordered
<1>2. ASSUME NEW S \in SUBSET DOMAIN s.projections
      PROVE  /\ Cardinality(S) \in Nat
             /\ [n \in 1..Cardinality(S) |-> Nth(S, n)] \in Bijection(1..Cardinality(S), S)
  <2>1. S \in SUBSET Nat /\ IsFiniteSet(S)
    <3>1. IsFiniteSet(1..Len(s.projections))
      BY <1>1, FS_Interval
    <3> QED
      BY <1>1, <3>1, FS_Subset
  <2> DEFINE N == Cardinality(S)
             pos == [n \in 1..N |-> Nth(S, n)]
  <2>2. /\ N \in Nat
        /\ \A n \in 1..N : Nth(S, n) \in S
        /\ \A m, n \in 1..N : Nth(S, m) = Nth(S, n) => m = n
        /\ \A i \in S : \E n \in 1..N : Nth(S, n) = i
    BY <2>1, NthIsBijection
  <2> HIDE DEF N
  <2>3. pos \in [1..N -> S] /\ \A n \in 1..N : pos[n] = Nth(S, n)
    BY <2>2
  <2> HIDE DEF pos
  <2>4. pos \in Injection(1..N, S)
    BY <2>2, <2>3 DEF Injection, IsInjective
  <2>5. pos \in Surjection(1..N, S)
    BY <2>2, <2>3 DEF Surjection
  <2>6. pos \in Bijection(1..N, S)
    BY <2>4, <2>5 DEF Bijection
  <2> QED
    BY <2>2, <2>6 DEF pos, N
<1>3. /\ Cardinality(Columnar(s)) \in Nat
      /\ [n \in 1..Cardinality(Columnar(s)) |-> Nth(Columnar(s), n)]
           \in Bijection(1..Cardinality(Columnar(s)), Columnar(s))
  <2>1. Columnar(s) \in SUBSET DOMAIN s.projections
    BY DEF Columnar
  <2> QED
    BY <1>2, <2>1
<1>4. /\ Cardinality(Aggregated(s)) \in Nat
      /\ [n \in 1..Cardinality(Aggregated(s)) |-> Nth(Aggregated(s), n)]
           \in Bijection(1..Cardinality(Aggregated(s)), Aggregated(s))
  <2>1. Aggregated(s) \in SUBSET DOMAIN s.projections
    BY DEF Aggregated
  <2> QED
    BY <1>2, <2>1
<1>5. DimensionsOf(s) = [n \in 1..Cardinality(Columnar(s)) |->
                           Name(s.projections[Nth(Columnar(s), n)].expression)]
  BY DEF DimensionsOf, Columnar
<1>6. MetricsOf(s) = [n \in 1..Cardinality(Aggregated(s)) |->
                        MetricOf(s.projections[Nth(Aggregated(s), n)])]
  BY DEF MetricsOf, Aggregated
<1>7. \E pos : /\ pos \in Bijection(1..Cardinality(Columnar(s)), Columnar(s))
               /\ Cardinality(Columnar(s)) \in Nat
               /\ DimensionsOf(s) = [n \in 1..Cardinality(Columnar(s)) |->
                                       Name(s.projections[pos[n]].expression)]
  <2> WITNESS [n \in 1..Cardinality(Columnar(s)) |-> Nth(Columnar(s), n)]
  <2> QED
    BY <1>3, <1>5
<1>8. \E pos : /\ pos \in Bijection(1..Cardinality(Aggregated(s)), Aggregated(s))
               /\ Cardinality(Aggregated(s)) \in Nat
               /\ MetricsOf(s) = [n \in 1..Cardinality(Aggregated(s)) |->
                                    MetricOf(s.projections[pos[n]])]
  <2> WITNESS [n \in 1..Cardinality(Aggregated(s)) |-> Nth(Aggregated(s), n)]
  <2> QED
    BY <1>4, <1>6
<1> QED
  BY <1>7, <1>8

(* A projection that _projection lets pass.                                *)
LEMMA ProjectionAllowed ==
  ASSUME NEW p, ProjectionObjection(p) = Ok
  PROVE  /\ p.alias \notin ReservedAliases
         /\ \/ /\ p.expression.kind = "column" /\ p.alias = NoAlias
               /\ Name(p.expression) \in Dimensions \ ForbiddenColumns
            \/ p.expression.kind = "avg" /\ Granted("avg", Name(p.expression.this))
            \/ p.expression.kind = "count" /\ Granted("count", "rows")
<1> DEFINE code == CASE p.expression.kind = "column" -> DimensionObjection(p)
                     [] p.expression.kind = "avg" -> AverageObjection(p.expression)
                     [] p.expression.kind = "count" -> CountObjection(p.expression)
                     [] OTHER -> "EXPRESSION_NOT_ALLOWED"
<1>1. ProjectionObjection(p) = First(<<Unless(p.alias \notin ReservedAliases, "INVALID_ALIAS"), code>>)
  BY DEF ProjectionObjection
<1>2. code = Ok /\ Unless(p.alias \notin ReservedAliases, "INVALID_ALIAS") = Ok
  <2> HIDE DEF code
  <2> QED
    BY <1>1, FirstOfTwo
<1>3. p.alias \notin ReservedAliases
  BY <1>2 DEF Unless, Ok
<1>4. CASE p.expression.kind = "column"
  <2>1. DimensionObjection(p) = Ok
    BY <1>2, <1>4
  <2>2. /\ Unless(p.alias = NoAlias, "DIMENSION_ALIAS_FORBIDDEN") = Ok
        /\ Unless(Name(p.expression) \notin ForbiddenColumns, "DIRECT_IDENTIFIER") = Ok
        /\ Unless(Name(p.expression) \in Dimensions, "RAW_SENSITIVE_COLUMN") = Ok
    BY <2>1, FirstOfFour DEF DimensionObjection
  <2> QED
    BY <1>3, <1>4, <2>2 DEF Unless, Ok
<1>5. CASE p.expression.kind = "avg"
  <2>1. AverageObjection(p.expression) = Ok
    BY <1>2, <1>5
  <2>2. Unless(Granted("avg", Name(p.expression.this)), "METRIC_NOT_ALLOWED") = Ok
    BY <2>1, FirstOfTwo DEF AverageObjection
  <2> QED
    BY <1>3, <1>5, <2>2 DEF Unless, Ok
<1>6. CASE p.expression.kind = "count"
  <2>1. CountObjection(p.expression) = Ok
    BY <1>2, <1>6
  <2>2. Unless(Granted("count", "rows"), "METRIC_NOT_ALLOWED") = Ok
    BY <2>1, FirstOfTwo DEF CountObjection
  <2> QED
    BY <1>3, <1>6, <2>2 DEF Unless, Ok
<1>7. p.expression.kind \in {"column", "avg", "count"}
  BY <1>2 DEF Ok
<1> QED
  BY <1>4, <1>5, <1>6, <1>7

\* What is known of a statement that plan does not refuse.
Planned(s) ==
  /\ s.where \in Trees
  /\ Ordered(s.projections) /\ Ordered(s.group)
  /\ \A i \in DOMAIN s.projections : ProjectionObjection(s.projections[i]) = Ok
  /\ \A i, j \in DOMAIN s.projections :
       i # j => OutputName(s.projections[i]) # OutputName(s.projections[j])
  /\ MetricsOf(s) # <<>>
  /\ \A i, j \in DOMAIN MetricsOf(s) :
       i # j => MetricIdentity(MetricsOf(s)[i]) # MetricIdentity(MetricsOf(s)[j])
  /\ {Name(s.group[i]) : i \in DOMAIN s.group} = {DimensionsOf(s)[i] : i \in DOMAIN DimensionsOf(s)}
  /\ \A i \in DOMAIN s.group : s.group[i].kind = "column"
  /\ \A w \in Leaves(s.where) : ConditionObjection(w) = Ok
  /\ Leaves(s.where) \subseteq Trees
  /\ Len(Filters(s.where)) <= MaxFilters

(* A statement that plan does not refuse passed every check.               *)
LEMMA PlannedStatement ==
  ASSUME NEW s \in Statements, Objection("analyst", s) = Ok
  PROVE  Planned(s)
<1>1. s.form = "select" /\ SelectObjection(s) = Ok
  <2>1. s.form \in {"unparsable", "other", "select"}
    BY StatementAssumption
  <2>2. s.form = "select"
    BY <2>1 DEF Objection, Ok
  <2> QED
    BY <2>2 DEF Objection
<1>2. s.where \in Trees /\ Ordered(s.projections) /\ Ordered(s.group)
  BY <1>1, StatementAssumption
<1>3. /\ DOMAIN s.projections = 1..Len(s.projections) /\ Len(s.projections) \in Nat
      /\ DOMAIN s.group = 1..Len(s.group) /\ Len(s.group) \in Nat
      /\ Conjuncts[s.where] \in Seq(Trees)
  BY <1>2, ConjunctsDefined, LenProperties DEF Ordered
<1> DEFINE clauses == First(<<ShapeObjection(s), TableObjection(s), SelectListObjection(s),
                              OutputObjection(s), GroupObjection(s), WhereObjection(s.where)>>)
<1>4. clauses = Ok /\ Len(Filters(s.where)) <= MaxFilters
  BY <1>1 DEF SelectObjection, Unless, Ok
<1>5. /\ SelectListObjection(s) = Ok /\ OutputObjection(s) = Ok
      /\ GroupObjection(s) = Ok /\ WhereObjection(s.where) = Ok
  BY <1>4, FirstOfSix
<1>6. \A i \in DOMAIN s.projections :
        /\ ProjectionObjection(s.projections[i]) = Ok
        /\ \A j \in 1..(i - 1) : OutputName(s.projections[j]) # OutputName(s.projections[i])
  <2> DEFINE once(i) == Unless(\A j \in 1..(i - 1) :
                                 OutputName(s.projections[j]) # OutputName(s.projections[i]),
                               "DUPLICATE_OUTPUT")
             code(i) == First(<<ProjectionObjection(s.projections[i]), once(i)>>)
             codes == [i \in DOMAIN s.projections |-> code(i)]
  <2>1. First(codes) = Ok
    BY <1>5 DEF SelectListObjection
  <2>2. DOMAIN codes = DOMAIN s.projections /\ \A i \in DOMAIN s.projections : codes[i] = code(i)
    OBVIOUS
  <2>3. DOMAIN codes \in SUBSET Nat
    BY <1>3
  <2> HIDE DEF codes
  <2>4. \A i \in DOMAIN s.projections : code(i) = Ok
    <3> HIDE DEF code
    <3> QED
      BY <2>1, <2>2, <2>3, FirstOk
  <2> SUFFICES ASSUME NEW i \in DOMAIN s.projections
               PROVE  /\ ProjectionObjection(s.projections[i]) = Ok
                      /\ \A j \in 1..(i - 1) : OutputName(s.projections[j]) # OutputName(s.projections[i])
    OBVIOUS
  <2>5. ProjectionObjection(s.projections[i]) = Ok /\ once(i) = Ok
    <3> HIDE DEF once
    <3> QED
      BY <2>4, FirstOfTwo
  <2> QED
    BY <2>5 DEF Unless, Ok
<1>7. \A i, j \in DOMAIN s.projections :
        i # j => OutputName(s.projections[i]) # OutputName(s.projections[j])
  <2> SUFFICES ASSUME NEW i \in DOMAIN s.projections, NEW j \in DOMAIN s.projections, i # j
               PROVE  OutputName(s.projections[i]) # OutputName(s.projections[j])
    OBVIOUS
  <2>1. i \in 1..(j - 1) \/ j \in 1..(i - 1)
    BY <1>3
  <2> QED
    BY <1>6, <2>1
<1>8. /\ MetricsOf(s) # <<>>
      /\ \A i, j \in DOMAIN MetricsOf(s) :
           i # j => MetricIdentity(MetricsOf(s)[i]) # MetricIdentity(MetricsOf(s)[j])
  <2> DEFINE some == Unless(MetricsOf(s) # <<>>, "AGGREGATE_REQUIRED")
             once == Unless(\A i, j \in DOMAIN MetricsOf(s) :
                              i # j => MetricIdentity(MetricsOf(s)[i]) # MetricIdentity(MetricsOf(s)[j]),
                            "DUPLICATE_METRIC")
  <2>1. First(<<some, once>>) = Ok
    BY <1>5 DEF OutputObjection
  <2> HIDE DEF some, once
  <2>2. some = Ok /\ once = Ok
    BY <2>1, FirstOfTwo
  <2> QED
    BY <2>2 DEF some, once, Unless, Ok
<1>9. /\ {Name(s.group[i]) : i \in DOMAIN s.group} = {DimensionsOf(s)[i] : i \in DOMAIN DimensionsOf(s)}
      /\ First([i \in DOMAIN s.group |-> ColumnObjection(s.group[i])]) = Ok
  <2> DEFINE columns == First([i \in DOMAIN s.group |-> ColumnObjection(s.group[i])])
             grouped == Unless(/\ {Name(s.group[i]) : i \in DOMAIN s.group} =
                                     {DimensionsOf(s)[i] : i \in DOMAIN DimensionsOf(s)}
                               /\ Len(s.group) = Len(DimensionsOf(s)), "INVALID_GROUPING")
  <2>1. First(<<columns, grouped>>) = Ok
    BY <1>5 DEF GroupObjection
  <2> HIDE DEF columns, grouped
  <2>2. columns = Ok /\ grouped = Ok
    BY <2>1, FirstOfTwo
  <2> QED
    BY <2>2 DEF columns, grouped, Unless, Ok
<1>10. \A i \in DOMAIN s.group : s.group[i].kind = "column"
  <2> DEFINE codes == [i \in DOMAIN s.group |-> ColumnObjection(s.group[i])]
  <2>1. DOMAIN codes = DOMAIN s.group /\ \A i \in DOMAIN s.group : codes[i] = ColumnObjection(s.group[i])
    OBVIOUS
  <2>2. DOMAIN codes \in SUBSET Nat /\ First(codes) = Ok
    BY <1>3, <1>9
  <2> HIDE DEF codes
  <2>3. \A i \in DOMAIN s.group : ColumnObjection(s.group[i]) = Ok
    BY <2>1, <2>2, FirstOk
  <2>4. \A e : ColumnObjection(e) = Ok => e.kind = "column"
    BY FirstOfTwo DEF ColumnObjection, Unless, Ok
  <2> QED
    BY <2>3, <2>4
<1>11. \A w \in Leaves(s.where) : ConditionObjection(w) = Ok
  <2> DEFINE codes == [i \in DOMAIN Conjuncts[s.where] |-> ConditionObjection(Conjuncts[s.where][i])]
  <2>1. /\ DOMAIN codes = DOMAIN Conjuncts[s.where]
        /\ \A i \in DOMAIN Conjuncts[s.where] : codes[i] = ConditionObjection(Conjuncts[s.where][i])
    OBVIOUS
  <2>2. DOMAIN codes \in SUBSET Nat
    BY <1>3
  <2>3. First(codes) = Ok
    BY <1>5 DEF WhereObjection
  <2> HIDE DEF codes
  <2> QED
    BY <2>1, <2>2, <2>3, FirstOk DEF Leaves
<1>12. Leaves(s.where) \subseteq Trees
  BY <1>2, LeavesOfTree
<1> QED
  BY <1>2, <1>4, <1>6, <1>7, <1>8, <1>9, <1>10, <1>11, <1>12 DEF Planned

(* The metrics of a plan are the aggregates of the select list.            *)
LEMMA MetricsKept ==
  ASSUME NEW s, Ordered(s.projections)
  PROVE  /\ \A n \in DOMAIN MetricsOf(s) : \E i \in Aggregated(s) :
              MetricsOf(s)[n] = MetricOf(s.projections[i])
         /\ \A i \in Aggregated(s) : \E n \in DOMAIN MetricsOf(s) :
              MetricsOf(s)[n] = MetricOf(s.projections[i])
         /\ (\A i, j \in Aggregated(s) : i # j =>
               MetricOf(s.projections[i]).alias # MetricOf(s.projections[j]).alias) =>
            \A m, n \in DOMAIN MetricsOf(s) : m # n =>
               MetricsOf(s)[m].alias # MetricsOf(s)[n].alias
<1>1. PICK pos : /\ pos \in Bijection(1..Cardinality(Aggregated(s)), Aggregated(s))
                 /\ Cardinality(Aggregated(s)) \in Nat
                 /\ MetricsOf(s) = [n \in 1..Cardinality(Aggregated(s)) |->
                                      MetricOf(s.projections[pos[n]])]
  BY SelectListKept
<1> DEFINE N == Cardinality(Aggregated(s))
<1>2. DOMAIN MetricsOf(s) = 1..N /\ \A n \in 1..N : MetricsOf(s)[n] = MetricOf(s.projections[pos[n]])
  BY <1>1
<1>3. /\ \A n \in 1..N : pos[n] \in Aggregated(s)
      /\ \A m, n \in 1..N : pos[m] = pos[n] => m = n
      /\ \A i \in Aggregated(s) : \E n \in 1..N : pos[n] = i
  BY <1>1 DEF Bijection, Injection, Surjection, IsInjective
<1> HIDE DEF N
<1> QED
  BY <1>2, <1>3

(* Its dimensions are the columns, as many as there are names.             *)
LEMMA DimensionsKept ==
  ASSUME NEW s, Ordered(s.projections),
         \A i, j \in Columnar(s) : i # j =>
           Name(s.projections[i].expression) # Name(s.projections[j].expression)
  PROVE  /\ {DimensionsOf(s)[n] : n \in DOMAIN DimensionsOf(s)} =
              {Name(s.projections[i].expression) : i \in Columnar(s)}
         /\ Cardinality({DimensionsOf(s)[n] : n \in DOMAIN DimensionsOf(s)}) = Len(DimensionsOf(s))
<1>1. PICK pos : /\ pos \in Bijection(1..Cardinality(Columnar(s)), Columnar(s))
                 /\ Cardinality(Columnar(s)) \in Nat
                 /\ DimensionsOf(s) = [n \in 1..Cardinality(Columnar(s)) |->
                                         Name(s.projections[pos[n]].expression)]
  BY SelectListKept
<1> DEFINE N == Cardinality(Columnar(s))
           d == DimensionsOf(s)
           D == {d[n] : n \in DOMAIN d}
<1>2. DOMAIN d = 1..N /\ \A n \in 1..N : d[n] = Name(s.projections[pos[n]].expression)
  BY <1>1
<1>3. /\ \A n \in 1..N : pos[n] \in Columnar(s)
      /\ \A m, n \in 1..N : pos[m] = pos[n] => m = n
      /\ \A i \in Columnar(s) : \E n \in 1..N : pos[n] = i
  BY <1>1 DEF Bijection, Injection, Surjection, IsInjective
<1>4. N \in Nat /\ Len(d) = N
  BY <1>1
<1>5. d = [n \in 1..N |-> d[n]]
  BY <1>1
<1> HIDE DEF N, d
<1>6. D = {Name(s.projections[i].expression) : i \in Columnar(s)}
  BY <1>2, <1>3
<1>7. d \in Bijection(1..N, D)
  <2>1. d \in [1..N -> D]
    BY <1>2, <1>5
  <2>2. \A m, n \in 1..N : d[m] = d[n] => m = n
    BY <1>2, <1>3
  <2>3. \A e \in D : \E n \in 1..N : d[n] = e
    BY <1>2
  <2> HIDE DEF D
  <2> QED
    BY <2>1, <2>2, <2>3 DEF Bijection, Injection, Surjection, IsInjective
<1>8. Cardinality(D) = N
  <2> HIDE DEF D
  <2>1. ExistsBijection(1..N, D)
    BY <1>7 DEF ExistsBijection
  <2> QED
    BY <1>4, <2>1, FS_CountingElements
<1> QED
  BY <1>4, <1>6, <1>8 DEF d

(* A metric of a statement that is not refused.                            *)
LEMMA MetricPlanned ==
  ASSUME NEW p, ProjectionObjection(p) = Ok, IsMetric(p)
  PROVE  /\ Allowed(MetricOf(p))
         /\ MetricOf(p).alias # NoAlias
         /\ MetricOf(p).function = p.expression.kind
         /\ p.alias # NoAlias => MetricOf(p).alias = p.alias
         /\ MetricOf(p).function = "avg" => MetricOf(p).column \in DOMAIN Metrics
         /\ MetricOf(p).alias \in ReservedAliases =>
              MetricOf(p).alias \in {"row_count"} \cup {"avg_" \o name : name \in DOMAIN Metrics}
<1> DEFINE m == MetricOf(p)
           e == p.expression
<1>1. p.alias \notin ReservedAliases
  BY ProjectionAllowed
<1>2. CASE e.kind = "avg"
  <2>1. Granted("avg", Name(e.this))
    BY <1>2, ProjectionAllowed
  <2>2. Name(e.this) \in DOMAIN Metrics /\ Name(e.this) # "star"
    BY <2>1, NameAssumption DEF Granted
  <2>3. /\ m.function = "avg" /\ m.column = Name(e.this)
        /\ p.alias # NoAlias => m.alias = p.alias
        /\ p.alias = NoAlias => m.alias = "avg_" \o Name(e.this)
    <3> DEFINE default == "avg_" \o Name(e.this)
    <3>1. m = [function |-> e.kind, column |-> Name(e.this),
               alias |-> IF p.alias = NoAlias THEN default ELSE p.alias]
      BY <1>2 DEF MetricOf
    <3> HIDE DEF m, default
    <3>2. /\ m.function = "avg" /\ m.column = Name(e.this)
          /\ p.alias # NoAlias => m.alias = p.alias
          /\ p.alias = NoAlias => m.alias = default
      BY <1>2, <3>1
    <3> QED
      BY <3>2 DEF default
  <2> HIDE DEF m
  <2>4. Allowed(m)
    BY <2>1, <2>2, <2>3 DEF Allowed
  <2>5. m.alias # NoAlias
    BY <2>2, <2>3, NameAssumption
  <2> DEFINE defaults == {"avg_" \o name : name \in DOMAIN Metrics}
  <2>6. p.alias = NoAlias => m.alias \in defaults
    BY <2>2, <2>3
  <2> HIDE DEF defaults
  <2>7. m.alias \in ReservedAliases => m.alias \in {"row_count"} \cup defaults
    BY <1>1, <2>3, <2>6
  <2> QED
    BY <1>1, <1>2, <2>2, <2>3, <2>4, <2>5, <2>7 DEF m, defaults
<1>3. CASE e.kind = "count"
  <2>1. Granted("count", "rows")
    BY <1>3, ProjectionAllowed
  <2>2. /\ m.function = "count" /\ m.column = "star"
        /\ p.alias # NoAlias => m.alias = p.alias
        /\ p.alias = NoAlias => m.alias = "row_count"
    BY <1>3 DEF MetricOf
  <2> HIDE DEF m
  <2>3. Allowed(m)
    BY <2>1, <2>2 DEF Allowed
  <2>4. m.alias # NoAlias
    BY <2>2, NameAssumption
  <2> QED
    BY <1>1, <1>3, <2>2, <2>3, <2>4 DEF m
<1> QED
  BY <1>2, <1>3 DEF IsMetric

(* The plan in words of the statement.                                     *)
LEMMA PlanFields ==
  ASSUME NEW s
  PROVE  /\ PlanFor(1, s).dataset_version = 1
         /\ PlanFor(1, s).dimensions = DimensionsOf(s)
         /\ PlanFor(1, s).metrics = MetricsOf(s)
         /\ PlanFor(1, s).filters = Filters(s.where)
         /\ DimensionSet(PlanFor(1, s)) = {DimensionsOf(s)[n] : n \in DOMAIN DimensionsOf(s)}
BY DEF PlanFor, DimensionSet

(* The plan of a statement that is not refused is one that _validate_plan, *)
(* _quote and the authorizer let pass, except for what the policy grants   *)
(* in vain.                                                                *)
LEMMA PlanSupported ==
  ASSUME NEW s, Planned(s), dataset_version = 1
  PROVE  Accepted(PlanFor(1, s)) <=> ~Unsupported(PlanFor(1, s))
<1> DEFINE plan == PlanFor(1, s)
<1>1. /\ plan.dataset_version = 1 /\ plan.dimensions = DimensionsOf(s)
      /\ plan.metrics = MetricsOf(s) /\ plan.filters = Filters(s.where)
      /\ DimensionSet(plan) = {DimensionsOf(s)[n] : n \in DOMAIN DimensionsOf(s)}
  BY PlanFields
<1> HIDE DEF plan
<1>2. Ordered(s.projections)
  BY DEF Planned
<1>3. /\ \A i \in DOMAIN s.projections : ProjectionObjection(s.projections[i]) = Ok
      /\ \A i, j \in DOMAIN s.projections :
           i # j => OutputName(s.projections[i]) # OutputName(s.projections[j])
  BY DEF Planned
<1>4. /\ \A i \in Columnar(s) : OutputName(s.projections[i]) = Name(s.projections[i].expression)
      /\ \A i \in Aggregated(s) : OutputName(s.projections[i]) = MetricOf(s.projections[i]).alias
      /\ Columnar(s) \subseteq DOMAIN s.projections /\ Aggregated(s) \subseteq DOMAIN s.projections
      /\ Columnar(s) \cap Aggregated(s) = {}
  BY DEF OutputName, Columnar, Aggregated
<1>5. /\ DimensionSet(plan) = {Name(s.projections[i].expression) : i \in Columnar(s)}
      /\ Cardinality(DimensionSet(plan)) = Len(plan.dimensions)
  <2>1. \A i, j \in Columnar(s) : i # j =>
          Name(s.projections[i].expression) # Name(s.projections[j].expression)
    BY <1>3, <1>4
  <2> QED
    BY <1>1, <1>2, <2>1, DimensionsKept
<1>6. DimensionSet(plan) \subseteq Dimensions \ ForbiddenColumns
  <2>1. \A i \in Columnar(s) : Name(s.projections[i].expression) \in Dimensions \ ForbiddenColumns
    <3> TAKE i \in Columnar(s)
    <3>1. ProjectionObjection(s.projections[i]) = Ok /\ ~IsMetric(s.projections[i])
      BY <1>3 DEF Columnar
    <3> QED
      BY <3>1, ProjectionAllowed DEF IsMetric
  <2> QED
    BY <1>5, <2>1
<1>7. \A n \in DOMAIN plan.metrics : \E i \in Aggregated(s) :
        plan.metrics[n] = MetricOf(s.projections[i])
  BY <1>1, <1>2, MetricsKept
<1>8. Unrepeated(plan.metrics)
  <2>1. \A i, j \in Aggregated(s) : i # j =>
          MetricOf(s.projections[i]).alias # MetricOf(s.projections[j]).alias
    BY <1>3, <1>4
  <2>2. \A m, n \in DOMAIN plan.metrics : m # n => plan.metrics[m].alias # plan.metrics[n].alias
    BY <1>1, <1>2, <2>1, MetricsKept
  <2>3. \A m, n \in DOMAIN plan.metrics :
          m # n => MetricIdentity(plan.metrics[m]) # MetricIdentity(plan.metrics[n])
    BY <1>1 DEF Planned
  <2> QED
    BY <2>2, <2>3 DEF Unrepeated
<1>9. \A n \in DOMAIN plan.metrics :
        /\ Allowed(plan.metrics[n])
        /\ plan.metrics[n].alias \notin DimensionSet(plan)
        /\ plan.metrics[n].function = "avg" => plan.metrics[n].column \in DOMAIN Metrics
        /\ plan.metrics[n].alias \in ReservedAliases => plan.metrics[n].alias \in
             {"row_count"} \cup {"avg_" \o name : name \in DOMAIN Metrics}
  <2> SUFFICES ASSUME NEW n \in DOMAIN plan.metrics, NEW i \in Aggregated(s),
                      plan.metrics[n] = MetricOf(s.projections[i])
               PROVE  /\ Allowed(plan.metrics[n])
                      /\ plan.metrics[n].alias \notin DimensionSet(plan)
                      /\ plan.metrics[n].function = "avg" => plan.metrics[n].column \in DOMAIN Metrics
                      /\ plan.metrics[n].alias \in ReservedAliases => plan.metrics[n].alias \in
                           {"row_count"} \cup {"avg_" \o name : name \in DOMAIN Metrics}
    BY <1>7
  <2>1. ProjectionObjection(s.projections[i]) = Ok /\ IsMetric(s.projections[i])
    BY <1>3 DEF Aggregated
  <2>2. MetricOf(s.projections[i]).alias \notin DimensionSet(plan)
    BY <1>3, <1>4, <1>5
  <2> QED
    BY <2>1, <2>2, MetricPlanned
<1>10. Len(plan.filters) <= MaxFilters
  BY <1>1 DEF Planned
<1>11. \A i \in DOMAIN plan.filters : WellFormed(plan.filters[i])
  <2> TAKE i \in DOMAIN plan.filters
  <2>1. i \in DOMAIN Conjuncts[s.where] /\ plan.filters[i] = FilterOf(Conjuncts[s.where][i])
    BY <1>1 DEF Filters
  <2>2. /\ Conjuncts[s.where][i] \in Trees
        /\ ConditionObjection(Conjuncts[s.where][i]) = Ok
    BY <2>1 DEF Planned, Leaves
  <2> QED
    BY <2>1, <2>2, FilterWellFormed
<1>12. Valid(plan) <=> \A n \in DOMAIN plan.metrics : plan.metrics[n].alias \notin ReservedAliases
  <2>1. plan.metrics # <<>> /\ plan.dataset_version = dataset_version
    BY <1>1 DEF Planned
  <2> QED
    BY <1>5, <1>6, <1>8, <1>9, <1>10, <1>11, <2>1 DEF Valid
<1>13. Quotable(plan) /\ Authorized(plan) <=>
         /\ Table = "employees"
         /\ \A n \in DOMAIN plan.dimensions : plan.dimensions[n] \notin Unquotable
         /\ \A n \in DOMAIN plan.filters : Known(plan.filters[n].column)
         /\ \A n \in DOMAIN plan.metrics :
              plan.metrics[n].function = "avg" => Known(plan.metrics[n].column)
  <2>1. Table = "employees" => Table \notin Unquotable
    BY ReleaseAssumption
  <2>2. Quotable(plan) <=>
          /\ Table \notin Unquotable
          /\ \A n \in DOMAIN plan.dimensions : plan.dimensions[n] \notin Unquotable
          /\ \A n \in DOMAIN plan.filters : plan.filters[n].column \notin Unquotable
          /\ \A n \in DOMAIN plan.metrics :
               plan.metrics[n].function = "avg" => plan.metrics[n].column \notin Unquotable
    BY DEF Quotable, DimensionSet, Averaged, Filtered
  <2>3. Authorized(plan) <=>
          /\ Table = "employees"
          /\ \A n \in DOMAIN plan.filters : plan.filters[n].column \in Readable
          /\ \A n \in DOMAIN plan.metrics :
               plan.metrics[n].function = "avg" => plan.metrics[n].column \in Readable
    <3>1. DimensionSet(plan) \subseteq Readable
      BY <1>6 DEF Readable
    <3> QED
      BY <3>1 DEF Authorized, Averaged, Filtered
  <2> QED
    BY <2>1, <2>2, <2>3 DEF Known
<1>14. \A n \in DOMAIN plan.filters : plan.filters[n].column \in FilterColumns
  BY <1>11 DEF WellFormed
<1>15. Unsupported(plan) <=>
         \/ Table # "employees"
         \/ \E n \in DOMAIN plan.dimensions : plan.dimensions[n] \in Unquotable
         \/ \E n \in DOMAIN plan.filters : ~Known(plan.filters[n].column)
         \/ \E n \in DOMAIN plan.metrics :
              plan.metrics[n].function = "avg" /\ ~Known(plan.metrics[n].column)
         \/ \E n \in DOMAIN plan.metrics : plan.metrics[n].alias \in ReservedAliases
  <2>1. \A n \in DOMAIN plan.dimensions : plan.dimensions[n] \in Dimensions
    BY <1>6 DEF DimensionSet
  <2>2. ASSUME NEW n \in DOMAIN plan.metrics
        PROVE  /\ plan.metrics[n].function = "avg" => plan.metrics[n].column \in DOMAIN Metrics
               /\ (plan.metrics[n].alias \in ReservedAliases \cap
                     ({"row_count"} \cup {"avg_" \o name : name \in DOMAIN Metrics}) <=>
                   plan.metrics[n].alias \in ReservedAliases)
    BY <1>9
  <2> QED
    BY <1>14, <2>1, <2>2 DEF Unsupported
<1>16. Accepted(plan) <=> ~Unsupported(plan)
  BY <1>12, <1>13, <1>15 DEF Accepted
<1> QED
  BY <1>16 DEF plan

-----------------------------------------------------------------------------
(* Reason codes.                                                           *)

\* The outcomes of a statement that has a plan.
Outcomes == {"RELEASED", "DATASET_EXECUTION_FAILED", "RAISED"}

(* No reason code is one of these.                                         *)
LEMMA FirstNotOutcome ==
  ASSUME NEW codes, DOMAIN codes \in SUBSET Nat,
         \A i \in DOMAIN codes : codes[i] \notin Outcomes
  PROVE  First(codes) \notin Outcomes
<1> DEFINE C == {codes[i] : i \in DOMAIN codes} \cup {Ok}
<1>1. Ok \notin Outcomes
  BY DEF Ok, Outcomes
<1>2. First(codes) \in C
  <2>1. Ok \in C /\ \A i \in DOMAIN codes : codes[i] \in C
    OBVIOUS
  <2> HIDE DEF C
  <2> QED
    BY <2>1, FirstIn
<1> QED
  BY <1>1, <1>2

(* Nor is what First makes of several of them.                             *)
LEMMA TwoNotOutcome ==
  \A a, b : a \notin Outcomes /\ b \notin Outcomes => First(<<a, b>>) \notin Outcomes
<1> TAKE a, b
<1> DEFINE codes == <<a, b>>
<1>1. DOMAIN codes = {1, 2} /\ codes[1] = a /\ codes[2] = b
  OBVIOUS
<1> HIDE DEF codes
<1>2. a \notin Outcomes /\ b \notin Outcomes => First(codes) \notin Outcomes
  BY <1>1, FirstNotOutcome
<1> QED
  BY <1>2 DEF codes

LEMMA ThreeNotOutcome ==
  \A a, b, c : a \notin Outcomes /\ b \notin Outcomes /\ c \notin Outcomes =>
    First(<<a, b, c>>) \notin Outcomes
<1> TAKE a, b, c
<1> DEFINE codes == <<a, b, c>>
<1>1. DOMAIN codes = {1, 2, 3} /\ codes[1] = a /\ codes[2] = b /\ codes[3] = c
  OBVIOUS
<1> HIDE DEF codes
<1>2. a \notin Outcomes /\ b \notin Outcomes /\ c \notin Outcomes => First(codes) \notin Outcomes
  BY <1>1, FirstNotOutcome
<1> QED
  BY <1>2 DEF codes

LEMMA FourNotOutcome ==
  \A a, b, c, d : a \notin Outcomes /\ b \notin Outcomes /\ c \notin Outcomes /\ d \notin Outcomes =>
    First(<<a, b, c, d>>) \notin Outcomes
<1> TAKE a, b, c, d
<1> DEFINE codes == <<a, b, c, d>>
<1>1. /\ DOMAIN codes = {1, 2, 3, 4}
      /\ codes[1] = a /\ codes[2] = b /\ codes[3] = c /\ codes[4] = d
  OBVIOUS
<1> HIDE DEF codes
<1>2. a \notin Outcomes /\ b \notin Outcomes /\ c \notin Outcomes /\ d \notin Outcomes =>
        First(codes) \notin Outcomes
  BY <1>1, FirstNotOutcome
<1> QED
  BY <1>2 DEF codes

LEMMA FiveNotOutcome ==
  \A a, b, c, d, e : {a, b, c, d, e} \cap Outcomes = {} => First(<<a, b, c, d, e>>) \notin Outcomes
<1> TAKE a, b, c, d, e
<1> DEFINE codes == <<a, b, c, d, e>>
<1>1. /\ DOMAIN codes = {1, 2, 3, 4, 5}
      /\ codes[1] = a /\ codes[2] = b /\ codes[3] = c
      /\ codes[4] = d /\ codes[5] = e
  OBVIOUS
<1> HIDE DEF codes
<1>2. {a, b, c, d, e} \cap Outcomes = {} => First(codes) \notin Outcomes
  BY <1>1, FirstNotOutcome
<1> QED
  BY <1>2 DEF codes

LEMMA SixNotOutcome ==
  \A a, b, c, d, e, f :
    {a, b, c, d, e, f} \cap Outcomes = {} => First(<<a, b, c, d, e, f>>) \notin Outcomes
<1> TAKE a, b, c, d, e, f
<1> DEFINE codes == <<a, b, c, d, e, f>>
<1>1. /\ DOMAIN codes = {1, 2, 3, 4, 5, 6}
      /\ codes[1] = a /\ codes[2] = b /\ codes[3] = c
      /\ codes[4] = d /\ codes[5] = e /\ codes[6] = f
  OBVIOUS
<1> HIDE DEF codes
<1>2. {a, b, c, d, e, f} \cap Outcomes = {} => First(codes) \notin Outcomes
  BY <1>1, FirstNotOutcome
<1> QED
  BY <1>2 DEF codes

(* The codes of a list of parts.                                           *)
LEMMA EachNotOutcome ==
  ASSUME NEW S \in SUBSET Nat, NEW codes, DOMAIN codes = S, \A i \in S : codes[i] \notin Outcomes
  PROVE  First(codes) \notin Outcomes
BY FirstNotOutcome

(* The codes of columns and literals.                                      *)
LEMMA PartCodes ==
  /\ \A e : ColumnObjection(e) \notin Outcomes
  /\ \A e : LiteralObjection(e) \notin Outcomes
  /\ \A e : FilterColumnObjection(e) \notin Outcomes
<1>1. \A e : ColumnObjection(e) \notin Outcomes
  BY TwoNotOutcome DEF ColumnObjection, Unless, Ok, Outcomes
<1>2. \A e : LiteralObjection(e) \notin Outcomes
  BY TwoNotOutcome DEF LiteralObjection, Unless, Ok, Outcomes
<1>3. ASSUME NEW e PROVE FilterColumnObjection(e) \notin Outcomes
  <2> DEFINE a == Unless(Name(e) \notin ForbiddenColumns, "DIRECT_IDENTIFIER")
             b == Unless(Name(e) \in FilterColumns, "FILTER_COLUMN_NOT_ALLOWED")
  <2>1. a \notin Outcomes /\ b \notin Outcomes
    BY DEF Unless, Ok, Outcomes
  <2>2. FilterColumnObjection(e) = First(<<ColumnObjection(e), a, b>>)
    BY DEF FilterColumnObjection
  <2> HIDE DEF a, b
  <2> QED
    BY <1>1, <2>1, <2>2, ThreeNotOutcome
<1> QED
  BY <1>1, <1>2, <1>3

(* The codes of a condition.                                               *)
LEMMA ConditionCode ==
  ASSUME NEW w \in Trees
  PROVE  ConditionObjection(w) \notin Outcomes
<1>1. CASE w.kind \in {"eq", "neq"}
  <2>1. ConditionObjection(w) = First(<<FilterColumnObjection(w.left), LiteralObjection(w.right)>>)
    BY <1>1 DEF ConditionObjection
  <2> QED
    BY <2>1, PartCodes, TwoNotOutcome
<1>2. CASE w.kind = "in"
  <2> DEFINE codes == [i \in DOMAIN w.expressions |-> LiteralObjection(w.expressions[i])]
             each == First(codes)
             few == Unless(Len(w.expressions) \in 1..20, "INVALID_IN_LIST")
             flat == Unless(~w.query, "SUBQUERY_FORBIDDEN")
  <2>1. ConditionObjection(w) = First(<<FilterColumnObjection(w.this), flat, each, few>>)
    BY <1>2 DEF ConditionObjection
  <2>2. few \notin Outcomes /\ flat \notin Outcomes
    BY DEF Unless, Ok, Outcomes
  <2>3. Ordered(w.expressions)
    BY <1>2, StatementAssumption DEF Parsed
  <2>4. DOMAIN w.expressions \in SUBSET Nat
    BY <2>3, LenProperties DEF Ordered
  <2>5. DOMAIN codes = DOMAIN w.expressions /\ \A i \in DOMAIN w.expressions : codes[i] \notin Outcomes
    BY PartCodes
  <2>6. each \notin Outcomes
    <3> HIDE DEF codes
    <3> QED
      BY <2>4, <2>5, EachNotOutcome
  <2> HIDE DEF few, flat, each
  <2> QED
    BY <2>1, <2>2, <2>6, PartCodes, FourNotOutcome
<1>3. CASE w.kind \notin {"eq", "neq", "in"}
  BY <1>3 DEF ConditionObjection, Outcomes
<1> QED
  BY <1>1, <1>2, <1>3

(* The codes of a projection.                                              *)
LEMMA ProjectionCode ==
  \A p : ProjectionObjection(p) \notin Outcomes
<1> TAKE p
<1>1. DimensionObjection(p) \notin Outcomes
  <2> DEFINE a == Unless(p.alias = NoAlias, "DIMENSION_ALIAS_FORBIDDEN")
             b == Unless(Name(p.expression) \notin ForbiddenColumns, "DIRECT_IDENTIFIER")
             c == Unless(Name(p.expression) \in Dimensions, "RAW_SENSITIVE_COLUMN")
  <2>1. a \notin Outcomes /\ b \notin Outcomes /\ c \notin Outcomes
    BY DEF Unless, Ok, Outcomes
  <2>2. DimensionObjection(p) = First(<<a, ColumnObjection(p.expression), b, c>>)
    BY DEF DimensionObjection
  <2> HIDE DEF a, b, c
  <2> QED
    BY <2>1, <2>2, PartCodes, FourNotOutcome
<1>2. AverageObjection(p.expression) \notin Outcomes
  <2> DEFINE a == Unless(Granted("avg", Name(p.expression.this)), "METRIC_NOT_ALLOWED")
  <2>1. a \notin Outcomes
    BY DEF Unless, Ok, Outcomes
  <2>2. AverageObjection(p.expression) = First(<<ColumnObjection(p.expression.this), a>>)
    BY DEF AverageObjection
  <2> HIDE DEF a
  <2> QED
    BY <2>1, <2>2, PartCodes, TwoNotOutcome
<1>3. CountObjection(p.expression) \notin Outcomes
  <2> DEFINE a == Unless(p.expression.this.kind = "star", "COUNT_ONLY_ROWS")
             b == Unless(Granted("count", "rows"), "METRIC_NOT_ALLOWED")
  <2>1. a \notin Outcomes /\ b \notin Outcomes
    BY DEF Unless, Ok, Outcomes
  <2>2. CountObjection(p.expression) = First(<<a, b>>)
    BY DEF CountObjection
  <2> HIDE DEF a, b
  <2> QED
    BY <2>1, <2>2, TwoNotOutcome
<1> DEFINE a == Unless(p.alias \notin ReservedAliases, "INVALID_ALIAS")
           b == CASE p.expression.kind = "column" -> DimensionObjection(p)
                  [] p.expression.kind = "avg" -> AverageObjection(p.expression)
                  [] p.expression.kind = "count" -> CountObjection(p.expression)
                  [] OTHER -> "EXPRESSION_NOT_ALLOWED"
<1>4. a \notin Outcomes
  BY DEF Unless, Ok, Outcomes
<1>5. b \notin Outcomes
  <2>1. "EXPRESSION_NOT_ALLOWED" \notin Outcomes
    BY DEF Outcomes
  <2> QED
    BY <1>1, <1>2, <1>3, <2>1
<1>6. ProjectionObjection(p) = First(<<a, b>>)
  BY DEF ProjectionObjection
<1> HIDE DEF a, b
<1> QED
  BY <1>4, <1>5, <1>6, TwoNotOutcome

(* The codes of the clauses that are looked at as a whole.                 *)
LEMMA ClauseCodes ==
  ASSUME NEW s
  PROVE  ShapeObjection(s) \notin Outcomes /\ TableObjection(s) \notin Outcomes
         /\ OutputObjection(s) \notin Outcomes
<1>1. ShapeObjection(s) \notin Outcomes
  <2> DEFINE a == Unless(s.clauses = {} /\ s.nodes = {}, "UNSUPPORTED_QUERY_SHAPE")
             b == Unless(\A i \in DOMAIN s.projections : s.projections[i].expression.kind # "star",
                         "WILDCARD_FORBIDDEN")
             c == Unless(~s.group_modified, "UNSUPPORTED_QUERY_SHAPE")
  <2>1. a \notin Outcomes /\ b \notin Outcomes /\ c \notin Outcomes
    BY DEF Unless, Ok, Outcomes
  <2>2. ShapeObjection(s) = First(<<a, b, c>>)
    BY DEF ShapeObjection
  <2> HIDE DEF a, b, c
  <2> QED
    BY <2>1, <2>2, ThreeNotOutcome
<1>2. TableObjection(s) \notin Outcomes
  <2> DEFINE t == s.tables[1]
             one == Len(s.tables) = 1
             a == Unless(one, "DATASET_NOT_ALLOWED")
             b == Unless(one => LowerCase[t.name] = LowerCase[Table], "DATASET_NOT_ALLOWED")
             c == Unless(one => ~t.qualified, "QUALIFIED_TABLE_FORBIDDEN")
             d == Unless(one => ~t.aliased, "TABLE_ALIAS_FORBIDDEN")
             e == Unless(one => ~t.modified, "UNSUPPORTED_QUERY_SHAPE")
  <2>1. {a, b, c, d, e} \cap Outcomes = {}
    BY DEF Unless, Ok, Outcomes
  <2>2. TableObjection(s) = First(<<a, b, c, d, e>>)
    BY DEF TableObjection
  <2> HIDE DEF a, b, c, d, e
  <2> QED
    BY <2>1, <2>2, FiveNotOutcome
<1>3. OutputObjection(s) \notin Outcomes
  <2> DEFINE a == Unless(MetricsOf(s) # <<>>, "AGGREGATE_REQUIRED")
             b == Unless(\A i, j \in DOMAIN MetricsOf(s) :
                           i # j => MetricIdentity(MetricsOf(s)[i]) # MetricIdentity(MetricsOf(s)[j]),
                         "DUPLICATE_METRIC")
  <2>1. a \notin Outcomes /\ b \notin Outcomes
    BY DEF Unless, Ok, Outcomes
  <2>2. OutputObjection(s) = First(<<a, b>>)
    BY DEF OutputObjection
  <2> HIDE DEF a, b
  <2> QED
    BY <2>1, <2>2, TwoNotOutcome
<1> QED
  BY <1>1, <1>2, <1>3

(* The codes of the clauses that are lists.                                *)
LEMMA ListCodes ==
  ASSUME NEW s, s.where \in Trees, Ordered(s.projections), Ordered(s.group)
  PROVE  SelectListObjection(s) \notin Outcomes /\ GroupObjection(s) \notin Outcomes
         /\ WhereObjection(s.where) \notin Outcomes
<1>1. /\ DOMAIN s.projections \in SUBSET Nat /\ DOMAIN s.group \in SUBSET Nat
      /\ DOMAIN Conjuncts[s.where] \in SUBSET Nat
      /\ \A i \in DOMAIN Conjuncts[s.where] : Conjuncts[s.where][i] \in Trees
  <2>1. Conjuncts[s.where] \in Seq(Trees)
    BY ConjunctsDefined
  <2> QED
    BY <2>1, LenProperties, ElementOfSeq DEF Ordered
<1>2. SelectListObjection(s) \notin Outcomes
  <2> DEFINE once(i) == Unless(\A j \in 1..(i - 1) :
                                 OutputName(s.projections[j]) # OutputName(s.projections[i]),
                               "DUPLICATE_OUTPUT")
             code(i) == First(<<ProjectionObjection(s.projections[i]), once(i)>>)
             codes == [i \in DOMAIN s.projections |-> code(i)]
  <2>1. \A i \in DOMAIN s.projections : once(i) \notin Outcomes
    BY DEF Unless, Ok, Outcomes
  <2>2. \A i \in DOMAIN s.projections : code(i) \notin Outcomes
    <3> HIDE DEF once
    <3> QED
      BY <2>1, ProjectionCode, TwoNotOutcome
  <2>3. SelectListObjection(s) = First(codes)
    BY DEF SelectListObjection
  <2> HIDE DEF code
  <2>4. DOMAIN codes = DOMAIN s.projections /\ \A i \in DOMAIN s.projections : codes[i] \notin Outcomes
    BY <2>2
  <2> HIDE DEF codes
  <2> QED
    BY <1>1, <2>3, <2>4, EachNotOutcome
<1>3. GroupObjection(s) \notin Outcomes
  <2> DEFINE codes == [i \in DOMAIN s.group |-> ColumnObjection(s.group[i])]
             columns == First(codes)
             grouped == Unless(/\ {Name(s.group[i]) : i \in DOMAIN s.group} =
                                     {DimensionsOf(s)[i] : i \in DOMAIN DimensionsOf(s)}
                               /\ Len(s.group) = Len(DimensionsOf(s)), "INVALID_GROUPING")
  <2>1. DOMAIN codes = DOMAIN s.group /\ \A i \in DOMAIN s.group : codes[i] \notin Outcomes
    BY PartCodes
  <2>2. columns \notin Outcomes
    <3> HIDE DEF codes
    <3> QED
      BY <1>1, <2>1, EachNotOutcome
  <2>3. grouped \notin Outcomes
    BY DEF Unless, Ok, Outcomes
  <2>4. GroupObjection(s) = First(<<columns, grouped>>)
    BY DEF GroupObjection
  <2> HIDE DEF columns, grouped
  <2> QED
    BY <2>2, <2>3, <2>4, TwoNotOutcome
<1>4. WhereObjection(s.where) \notin Outcomes
  <2> DEFINE codes == [i \in DOMAIN Conjuncts[s.where] |-> ConditionObjection(Conjuncts[s.where][i])]
  <2>1. /\ DOMAIN codes = DOMAIN Conjuncts[s.where]
        /\ \A i \in DOMAIN Conjuncts[s.where] : codes[i] \notin Outcomes
    BY <1>1, ConditionCode
  <2>2. WhereObjection(s.where) = First(codes)
    BY DEF WhereObjection
  <2> HIDE DEF codes
  <2> QED
    BY <1>1, <2>1, <2>2, EachNotOutcome
<1> QED
  BY <1>2, <1>3, <1>4

(* A refusal is never taken for an answer, nor for a failure of the        *)
(* executor.                                                               *)
LEMMA ObjectionCode ==
  ASSUME NEW role, NEW s \in Statements
  PROVE  Objection(role, s) \notin Outcomes
<1>1. CASE s.form = "select"
  <2>1. s.where \in Trees /\ Ordered(s.projections) /\ Ordered(s.group)
    BY <1>1, StatementAssumption
  <2> DEFINE clauses == First(<<ShapeObjection(s), TableObjection(s), SelectListObjection(s),
                                OutputObjection(s), GroupObjection(s), WhereObjection(s.where)>>)
  <2>2. clauses \notin Outcomes
    BY <2>1, ClauseCodes, ListCodes, SixNotOutcome
  <2>3. SelectObjection(s) =
          IF clauses # Ok THEN clauses
          ELSE Unless(Len(Filters(s.where)) <= MaxFilters, "TOO_MANY_FILTERS")
    BY DEF SelectObjection
  <2> HIDE DEF clauses
  <2>4. SelectObjection(s) \notin Outcomes
    BY <2>2, <2>3 DEF Unless, Ok, Outcomes
  <2>5. Objection(role, s) = IF role # "analyst" THEN "ROLE_CANNOT_QUERY_DATA" ELSE SelectObjection(s)
    BY <1>1 DEF Objection
  <2> QED
    BY <2>4, <2>5 DEF Outcomes
<1>2. CASE s.form # "select"
  BY <1>2, StatementAssumption DEF Objection, Outcomes
<1> QED
  BY <1>1, <1>2

-----------------------------------------------------------------------------
(* Statements and fingerprints.                                            *)

\* An IN whose literals are all the same.
Repeats(w) ==
  w.kind = "in" /\ Len(w.expressions) > 1 /\ Cardinality(Condition(w).values) = 1

\* What the semantic payload tells of a filter.
FilterValues(f) == {ValueOf(f.values[i]) : i \in DOMAIN f.values}

(* A filter tells what its condition compares, if float() kept it; its     *)
(* operator tells a list from one literal, unless the list repeats one.    *)
LEMMA ConditionOfFilter ==
  ASSUME NEW w \in Trees, ConditionObjection(w) = Ok, KeptIn(w)
  PROVE  /\ Condition(w).column = FilterOf(w).column
         /\ (Condition(w).negated <=> FilterOf(w).operator = "neq")
         /\ Condition(w).values = FilterValues(FilterOf(w))
         /\ ~Repeats(w) =>
              (FilterOf(w).operator = "in" <=> Cardinality(Condition(w).values) # 1)
         /\ FilterOf(w).operator \in {"eq", "neq", "in"}
         /\ Condition(w) = [column |-> Condition(w).column, negated |-> Condition(w).negated,
                            values |-> Condition(w).values]
         /\ Condition(w).negated \in BOOLEAN
<1> DEFINE f == FilterOf(w)
           c == Condition(w)
<1>1. CASE w.kind \in {"eq", "neq"}
  <2>1. /\ Name(w.left) \in FilterColumns \ ForbiddenColumns
        /\ Scalar(w.right) \in Literals
    BY <1>1, ConditionAllowed
  <2>2. f = [column |-> Name(w.left), operator |-> w.kind, values |-> <<Scalar(w.right)>>]
    BY <1>1, FilterOfComparison
  <2> DEFINE negated == w.kind = "neq"
             values == {<<w.right.type = "string", Means(Name(w.left), w.right)>>}
  <2>3. c = [column |-> Name(w.left), negated |-> negated, values |-> values]
    BY <1>1 DEF Condition
  <2>4. f.column = Name(w.left) /\ f.operator = w.kind /\ f.values = <<Scalar(w.right)>>
    BY <2>2
  <2> HIDE DEF f, c, negated, values
  <2>5. /\ c.column = Name(w.left) /\ c.values = values /\ c.negated = negated
        /\ c = [column |-> c.column, negated |-> c.negated, values |-> c.values]
    BY <2>3
  <2>6. ValueOf(Scalar(w.right)) = <<w.right.type = "string", Means(Name(w.left), w.right)>>
    <3>1. Scalar(w.right).value = Means(Name(w.left), w.right)
      BY <1>1 DEF KeptIn, Kept
    <3>2. Scalar(w.right).type = w.right.type
      BY DEF Scalar
    <3> QED
      BY <3>1, <3>2 DEF ValueOf
  <2>7. FilterValues(f) = {ValueOf(Scalar(w.right))}
    <3>1. DOMAIN f.values = {1} /\ f.values[1] = Scalar(w.right)
      BY <2>4
    <3> QED
      BY <3>1 DEF FilterValues
  <2>8. Cardinality(c.values) = 1
    BY <2>5, FS_Singleton DEF values
  <2>9. c.negated \in BOOLEAN /\ (c.negated <=> f.operator = "neq")
    BY <2>4, <2>5 DEF negated
  <2>10. c.values = FilterValues(f)
    BY <2>5, <2>6, <2>7 DEF values
  <2> QED
    BY <1>1, <2>4, <2>5, <2>8, <2>9, <2>10 DEF f, c, Repeats
<1>2. CASE w.kind = "in"
  <2> DEFINE n == Len(w.expressions)
  <2>1. /\ Name(w.this) \in FilterColumns \ ForbiddenColumns
        /\ DOMAIN w.expressions = 1..n /\ n \in 1..20
        /\ \A i \in DOMAIN w.expressions : Scalar(w.expressions[i]) \in Literals
    BY <1>2, ConditionAllowed
  <2>2. /\ f.column = Name(w.this)
        /\ f.operator = IF n = 1 THEN "eq" ELSE "in"
        /\ f.values = [i \in DOMAIN w.expressions |-> Scalar(w.expressions[i])]
    <3>1. n \in Nat
      BY <2>1
    <3> QED
      BY <1>2, <2>1, <3>1, FilterOfList
  <2>3. c = [column |-> Name(w.this), negated |-> FALSE,
             values |-> {<<w.expressions[i].type = "string",
                           Means(Name(w.this), w.expressions[i])>> : i \in DOMAIN w.expressions}]
    BY <1>2 DEF Condition
  <2>4. /\ c.column = Name(w.this) /\ ~c.negated
        /\ c.values = {<<w.expressions[i].type = "string",
                         Means(Name(w.this), w.expressions[i])>> : i \in DOMAIN w.expressions}
        /\ c = [column |-> c.column, negated |-> c.negated, values |-> c.values]
        /\ c.negated \in BOOLEAN
    BY <2>3
  <2> HIDE DEF f, c
  <2>6. \A i \in DOMAIN w.expressions :
          ValueOf(f.values[i]) =
            <<w.expressions[i].type = "string", Means(Name(w.this), w.expressions[i])>>
    <3> TAKE i \in DOMAIN w.expressions
    <3>1. f.values[i] = Scalar(w.expressions[i])
      BY <2>2
    <3>2. Scalar(w.expressions[i]).value = Means(Name(w.this), w.expressions[i])
      BY <1>2 DEF KeptIn, Kept
    <3>3. Scalar(w.expressions[i]).type = w.expressions[i].type
      BY DEF Scalar
    <3> QED
      BY <3>1, <3>2, <3>3 DEF ValueOf
  <2>7. c.values = FilterValues(f)
    <3>1. DOMAIN f.values = DOMAIN w.expressions
      BY <2>2
    <3> DEFINE e(i) == <<w.expressions[i].type = "string",
                         Means(Name(w.this), w.expressions[i])>>
    <3>2. c.values = {e(i) : i \in DOMAIN w.expressions}
      BY <2>4
    <3>3. \A i \in DOMAIN w.expressions : ValueOf(f.values[i]) = e(i)
      BY <2>6
    <3> HIDE DEF e
    <3> QED
      BY <3>1, <3>2, <3>3 DEF FilterValues
  <2>8. n = 1 => Cardinality(c.values) = 1
    <3> SUFFICES ASSUME n = 1 PROVE Cardinality(c.values) = 1
      OBVIOUS
    <3>1. DOMAIN f.values = {1}
      BY <2>1, <2>2
    <3>2. c.values = {ValueOf(f.values[1])}
      BY <2>7, <3>1 DEF FilterValues
    <3> QED
      BY <3>2, FS_Singleton
  <2>9. ~Repeats(w) => (f.operator = "in" <=> Cardinality(c.values) # 1)
    <3>1. CASE n = 1
      BY <2>2, <2>8, <3>1
    <3>2. CASE n # 1
      <4>1. n > 1 /\ f.operator = "in"
        <5>1. n \in 1..20
          BY <2>1
        <5>2. f.operator = IF n = 1 THEN "eq" ELSE "in"
          BY <2>2
        <5> HIDE DEF n
        <5> QED
          BY <3>2, <5>1, <5>2
      <4>2. Repeats(w) <=> w.kind = "in" /\ n > 1 /\ Cardinality(c.values) = 1
        BY DEF Repeats, c
      <4> HIDE DEF n
      <4> QED
        BY <1>2, <4>1, <4>2
    <3> QED
      BY <3>1, <3>2
  <2> QED
    BY <2>2, <2>4, <2>7, <2>9 DEF f, c
<1> QED
  BY <1>1, <1>2, ConditionAllowed

(* Filters share a payload only if the conditions are the same, and if     *)
(* they are, unless one repeats its literal.                               *)
LEMMA PayloadsByCondition ==
  ASSUME NEW v \in Trees, ConditionObjection(v) = Ok, FilterOf(v) \in Predicates, KeptIn(v),
         NEW w \in Trees, ConditionObjection(w) = Ok, FilterOf(w) \in Predicates, KeptIn(w)
  PROVE  /\ SemanticPayload(FilterOf(v)) = SemanticPayload(FilterOf(w)) =>
              Condition(v) = Condition(w)
         /\ Condition(v) = Condition(w) /\ ~Repeats(v) /\ ~Repeats(w) =>
              SemanticPayload(FilterOf(v)) = SemanticPayload(FilterOf(w))
<1> DEFINE f == FilterOf(v)
           g == FilterOf(w)
           c == Condition(v)
           d == Condition(w)
<1>1. SemanticPayload(f) = SemanticPayload(g) <=> SameFilter(f, g)
  BY PayloadsBySameFilter
<1>2. SameFilter(f, g) <=>
        f.column = g.column /\ f.operator = g.operator /\ FilterValues(f) = FilterValues(g)
  BY DEF SameFilter, SameValues, FilterValues, ValueOf
<1>3. /\ c.column = f.column /\ (c.negated <=> f.operator = "neq") /\ c.values = FilterValues(f)
      /\ ~Repeats(v) => (f.operator = "in" <=> Cardinality(c.values) # 1)
      /\ f.operator \in {"eq", "neq", "in"}
      /\ c = [column |-> c.column, negated |-> c.negated, values |-> c.values]
      /\ c.negated \in BOOLEAN
  BY ConditionOfFilter
<1>4. /\ d.column = g.column /\ (d.negated <=> g.operator = "neq") /\ d.values = FilterValues(g)
      /\ ~Repeats(w) => (g.operator = "in" <=> Cardinality(d.values) # 1)
      /\ g.operator \in {"eq", "neq", "in"}
      /\ d = [column |-> d.column, negated |-> d.negated, values |-> d.values]
      /\ d.negated \in BOOLEAN
  BY ConditionOfFilter
<1> HIDE DEF f, g, c, d
<1>5. SameFilter(f, g) => c = d
  <2> SUFFICES ASSUME SameFilter(f, g) PROVE c = d
    OBVIOUS
  <2>1. c.column = d.column /\ c.values = d.values
    BY <1>2, <1>3, <1>4
  <2>2. f.operator = g.operator
    BY <1>2
  <2>3. c.negated = d.negated
    BY ONLY <1>3, <1>4, <2>2
  <2> QED
    BY <1>3, <1>4, <2>1, <2>3
<1>6. c = d /\ ~Repeats(v) /\ ~Repeats(w) => SameFilter(f, g)
  <2> SUFFICES ASSUME c = d, ~Repeats(v), ~Repeats(w) PROVE SameFilter(f, g)
    OBVIOUS
  <2>1. f.operator = "neq" <=> g.operator = "neq"
    BY <1>3, <1>4
  <2>2. f.operator = "in" <=> g.operator = "in"
    BY <1>3, <1>4
  <2>3. f.operator = g.operator
    BY <1>3, <1>4, <2>1, <2>2
  <2> QED
    BY <1>2, <1>3, <1>4, <2>3
<1> QED
  BY <1>1, <1>5, <1>6 DEF f, g, c, d

(* The parts of the fingerprint, in words of the statement.                *)
LEMMA FingerprintOfStatement ==
  ASSUME NEW s, Planned(s), PlanFor(1, s) \in QueryPlans
  PROVE  /\ MetricIdentities(PlanFor(1, s)) = Aggregates(s)
         /\ DimensionSet(PlanFor(1, s)) = {LowerCase[s.group[i].name] : i \in DOMAIN s.group}
         /\ SemanticFilters(PlanFor(1, s)) =
              {SemanticPayload(FilterOf(w)) : w \in Leaves(s.where)}
         /\ Conditions(s.where) = {Condition(w) : w \in Leaves(s.where)}
         /\ (RepeatsLiteral(s.where) <=> \E w \in Leaves(s.where) : Repeats(w))
         /\ \A w \in Leaves(s.where) :
              w \in Trees /\ ConditionObjection(w) = Ok /\ FilterOf(w) \in Predicates
<1> DEFINE plan == PlanFor(1, s)
<1>1. /\ plan.metrics = MetricsOf(s) /\ plan.filters = Filters(s.where)
      /\ DimensionSet(plan) = {DimensionsOf(s)[n] : n \in DOMAIN DimensionsOf(s)}
  BY PlanFields
<1> HIDE DEF plan
<1>2. MetricIdentities(plan) = Aggregates(s)
  <2>1. /\ \A n \in DOMAIN plan.metrics : \E i \in Aggregated(s) :
             plan.metrics[n] = MetricOf(s.projections[i])
        /\ \A i \in Aggregated(s) : \E n \in DOMAIN plan.metrics :
             plan.metrics[n] = MetricOf(s.projections[i])
    BY <1>1, MetricsKept DEF Planned
  <2>2. \A i \in Aggregated(s) :
          <<s.projections[i].expression.kind, MetricOf(s.projections[i]).column>> =
            MetricIdentity(MetricOf(s.projections[i]))
    BY DEF MetricIdentity, MetricOf
  <2>3. Aggregates(s) = {MetricIdentity(MetricOf(s.projections[i])) : i \in Aggregated(s)}
    BY <2>2 DEF Aggregates, Aggregated
  <2> QED
    BY <2>1, <2>3 DEF MetricIdentities
<1>3. DimensionSet(plan) = {LowerCase[s.group[i].name] : i \in DOMAIN s.group}
  <2>1. DimensionSet(plan) = {Name(s.group[i]) : i \in DOMAIN s.group}
    BY <1>1 DEF Planned
  <2>2. \A i \in DOMAIN s.group : Name(s.group[i]) = LowerCase[s.group[i].name]
    BY DEF Planned, Name
  <2> QED
    BY <2>1, <2>2
<1>4. /\ DOMAIN plan.filters = DOMAIN Conjuncts[s.where]
      /\ \A i \in DOMAIN plan.filters : plan.filters[i] = FilterOf(Conjuncts[s.where][i])
  BY <1>1 DEF Filters
<1>5. SemanticFilters(plan) = {SemanticPayload(FilterOf(w)) : w \in Leaves(s.where)}
  BY <1>4 DEF SemanticFilters, Leaves
<1>6. Conditions(s.where) = {Condition(w) : w \in Leaves(s.where)}
  BY DEF Conditions, Leaves
<1>7. RepeatsLiteral(s.where) <=> \E w \in Leaves(s.where) : Repeats(w)
  BY DEF RepeatsLiteral, Repeats, Leaves
<1>8. ASSUME NEW w \in Leaves(s.where)
      PROVE  w \in Trees /\ ConditionObjection(w) = Ok /\ FilterOf(w) \in Predicates
  <2>1. w \in Trees /\ ConditionObjection(w) = Ok
    BY DEF Planned
  <2>2. PICK i \in DOMAIN plan.filters : plan.filters[i] = FilterOf(w)
    BY <1>4 DEF Leaves
  <2> DEFINE S == [column : STRING, operator : STRING, values : Seq(Literals)]
  <2>3. plan.filters \in Seq(S)
    <3>1. plan \in QueryPlans
      BY DEF plan
    <3> QED
      BY <3>1 DEF QueryPlans
  <2>4. FilterOf(w) \in S
    <3> HIDE DEF S
    <3>1. i \in 1..Len(plan.filters)
      BY <2>3, LenProperties
    <3> QED
      BY <2>2, <2>3, <3>1, ElementOfSeq
  <2>5. WellFormed(FilterOf(w))
    BY <2>1, FilterWellFormed
  <2> QED
    BY <2>1, <2>4, <2>5 DEF Predicates
<1> QED
  BY <1>2, <1>3, <1>5, <1>6, <1>7, <1>8 DEF plan

(* Two statements whose literals float() keeps share a fingerprint only if *)
(* they ask the same, and if they do, unless one repeats a literal.        *)
LEMMA QuestionsByFingerprint ==
  ASSUME NEW s, Planned(s), PlanFor(1, s) \in QueryPlans, Faithful(s.where),
         NEW t, Planned(t), PlanFor(1, t) \in QueryPlans, Faithful(t.where)
  PROVE  /\ Fingerprint(PlanFor(1, s)) = Fingerprint(PlanFor(1, t)) => SameQuestion(s, t)
         /\ SameQuestion(s, t) /\ ~RepeatsLiteral(s.where) /\ ~RepeatsLiteral(t.where) =>
              Fingerprint(PlanFor(1, s)) = Fingerprint(PlanFor(1, t))
<1> DEFINE p == PlanFor(1, s)
           q == PlanFor(1, t)
           L == Leaves(s.where)
           M == Leaves(t.where)
<1>1. /\ MetricIdentities(p) = Aggregates(s)
      /\ DimensionSet(p) = {LowerCase[s.group[i].name] : i \in DOMAIN s.group}
      /\ SemanticFilters(p) = {SemanticPayload(FilterOf(w)) : w \in L}
      /\ Conditions(s.where) = {Condition(w) : w \in L}
      /\ (RepeatsLiteral(s.where) <=> \E w \in L : Repeats(w))
      /\ \A w \in L : w \in Trees /\ ConditionObjection(w) = Ok /\ FilterOf(w) \in Predicates
  BY FingerprintOfStatement
<1>2. /\ MetricIdentities(q) = Aggregates(t)
      /\ DimensionSet(q) = {LowerCase[t.group[i].name] : i \in DOMAIN t.group}
      /\ SemanticFilters(q) = {SemanticPayload(FilterOf(w)) : w \in M}
      /\ Conditions(t.where) = {Condition(w) : w \in M}
      /\ (RepeatsLiteral(t.where) <=> \E w \in M : Repeats(w))
      /\ \A w \in M : w \in Trees /\ ConditionObjection(w) = Ok /\ FilterOf(w) \in Predicates
  BY FingerprintOfStatement
<1>3. p.dataset_version = q.dataset_version
  BY PlanFields
<1>4. Fingerprint(p) = Fingerprint(q) <=>
        /\ DimensionSet(p) = DimensionSet(q) /\ MetricIdentities(p) = MetricIdentities(q)
        /\ SemanticFilters(p) = SemanticFilters(q)
  BY <1>3 DEF Fingerprint
<1>5. SameQuestion(s, t) <=>
        /\ DimensionSet(p) = DimensionSet(q) /\ MetricIdentities(p) = MetricIdentities(q)
        /\ Conditions(s.where) = Conditions(t.where)
  BY <1>1, <1>2 DEF SameQuestion
<1>5a. (\A w \in L : KeptIn(w)) /\ (\A w \in M : KeptIn(w))
  BY DEF Faithful, Leaves
<1> HIDE DEF p, q, L, M
<1>6. ASSUME NEW v \in L, NEW w \in M
      PROVE  /\ SemanticPayload(FilterOf(v)) = SemanticPayload(FilterOf(w)) =>
                  Condition(v) = Condition(w)
             /\ Condition(v) = Condition(w) /\ ~Repeats(v) /\ ~Repeats(w) =>
                  SemanticPayload(FilterOf(v)) = SemanticPayload(FilterOf(w))
  BY <1>1, <1>2, <1>5a, PayloadsByCondition
<1> DEFINE PL == {SemanticPayload(FilterOf(w)) : w \in L}
           PM == {SemanticPayload(FilterOf(w)) : w \in M}
           CL == {Condition(w) : w \in L}
           CM == {Condition(w) : w \in M}
<1>7. PL = PM => CL = CM
  <2> SUFFICES ASSUME PL = PM PROVE CL = CM
    OBVIOUS
  <2>1. \A v \in L : \E w \in M : SemanticPayload(FilterOf(v)) = SemanticPayload(FilterOf(w))
    OBVIOUS
  <2>2. \A w \in M : \E v \in L : SemanticPayload(FilterOf(v)) = SemanticPayload(FilterOf(w))
    OBVIOUS
  <2>3. \A v \in L : \E w \in M : Condition(v) = Condition(w)
    BY <1>6, <2>1
  <2>4. \A w \in M : \E v \in L : Condition(v) = Condition(w)
    BY <1>6, <2>2
  <2> QED
    BY <2>3, <2>4
<1>8. ASSUME CL = CM, \A v \in L : ~Repeats(v), \A w \in M : ~Repeats(w)
      PROVE  PL = PM
  <2>1. \A v \in L : \E w \in M : Condition(v) = Condition(w)
    BY <1>8
  <2>2. \A w \in M : \E v \in L : Condition(v) = Condition(w)
    BY <1>8
  <2>3. \A v \in L : \E w \in M : SemanticPayload(FilterOf(v)) = SemanticPayload(FilterOf(w))
    BY <1>6, <1>8, <2>1
  <2>4. \A w \in M : \E v \in L : SemanticPayload(FilterOf(v)) = SemanticPayload(FilterOf(w))
    BY <1>6, <1>8, <2>2
  <2> QED
    BY <2>3, <2>4
<1> HIDE DEF PL, PM, CL, CM
<1>9. /\ SemanticFilters(p) = PL /\ SemanticFilters(q) = PM
      /\ Conditions(s.where) = CL /\ Conditions(t.where) = CM
  BY <1>1, <1>2 DEF PL, PM, CL, CM
<1>10. /\ ~RepeatsLiteral(s.where) => \A v \in L : ~Repeats(v)
       /\ ~RepeatsLiteral(t.where) => \A w \in M : ~Repeats(w)
  BY <1>1, <1>2
<1> QED
  BY <1>4, <1>5, <1>7, <1>8, <1>9, <1>10 DEF p, q

-----------------------------------------------------------------------------
(* What the compiled query asks.                                           *)

(* The filters select the rows of which the WHERE holds, if float() keeps  *)
(* its literals.                                                           *)
LEMMA RowsOfStatement ==
  ASSUME NEW s, Planned(s), Faithful(s.where), NEW rows \in Tables
  PROVE  Selected(rows, PlanFor(1, s)) = rows \cap RowsWhere[s.where]
<1> DEFINE plan == PlanFor(1, s)
           filters == plan.filters
<1>1. /\ DOMAIN filters = DOMAIN Conjuncts[s.where]
      /\ \A i \in DOMAIN filters : filters[i] = FilterOf(Conjuncts[s.where][i])
  <2>1. filters = Filters(s.where)
    BY PlanFields
  <2> HIDE DEF filters
  <2> QED
    BY <2>1 DEF Filters
<1>2. \A w \in Leaves(s.where) : w \in Trees /\ ConditionObjection(w) = Ok /\ KeptIn(w)
  BY DEF Planned, Faithful, Leaves
<1>3. \A w \in Leaves(s.where) : w.kind \in {"eq", "neq", "in"}
  BY <1>2, ConditionAllowed
<1>4. RowsWhere[s.where] = {row \in UNION Tables : \A w \in Leaves(s.where) : Compares(row, w)}
  <2>1. s.where \in Trees
    BY DEF Planned
  <2> QED
    BY <1>3, <2>1, RowsWhereLeaves
<1>5. ASSUME NEW row
      PROVE  (\A i \in DOMAIN filters : Satisfies(row, filters[i])) <=>
             (\A w \in Leaves(s.where) : Compares(row, w))
  <2>1. \A w \in Leaves(s.where) : Satisfies(row, FilterOf(w)) <=> Compares(row, w)
    BY <1>2, FilterMeans
  <2> HIDE DEF filters
  <2>2. (\A i \in DOMAIN filters : Satisfies(row, filters[i])) <=>
        (\A w \in Leaves(s.where) : Satisfies(row, FilterOf(w)))
    BY <1>1 DEF Leaves
  <2> QED
    BY <2>1, <2>2
<1>6. Selected(rows, plan) = {row \in rows : \A w \in Leaves(s.where) : Compares(row, w)}
  BY <1>5 DEF Selected
<1> HIDE DEF plan
<1>7. rows \subseteq UNION Tables
  OBVIOUS
<1> QED
  BY <1>4, <1>6, <1>7 DEF plan

(* An aggregate keeps its alias.                                           *)
LEMMA NamesOfStatement ==
  ASSUME NEW s, Planned(s), NEW i \in DOMAIN s.projections, s.projections[i].alias # NoAlias
  PROVE  \E j \in DOMAIN PlanFor(1, s).metrics :
           /\ PlanFor(1, s).metrics[j].alias = s.projections[i].alias
           /\ PlanFor(1, s).metrics[j].function = s.projections[i].expression.kind
<1>1. ProjectionObjection(s.projections[i]) = Ok
  BY DEF Planned
<1>2. IsMetric(s.projections[i])
  BY <1>1, ProjectionAllowed DEF IsMetric
<1>3. i \in Aggregated(s)
  BY <1>2 DEF Aggregated
<1>4. PICK n \in DOMAIN MetricsOf(s) : MetricsOf(s)[n] = MetricOf(s.projections[i])
  BY <1>3, MetricsKept DEF Planned
<1>5. /\ MetricsOf(s)[n].alias = s.projections[i].alias
      /\ MetricsOf(s)[n].function = s.projections[i].expression.kind
  BY <1>1, <1>2, <1>4, MetricPlanned
<1> QED
  BY <1>5, PlanFields

-----------------------------------------------------------------------------
\* What is known of an entry of the history.
Recorded(q) ==
  /\ q.statement \in Statements /\ q.role \in Roles
  /\ \/ q.plan = {} /\ q.outcome \notin Outcomes
     \/ /\ q.role = "analyst" /\ Planned(q.statement)
        /\ q.plan = {PlanFor(1, q.statement)} /\ PlanFor(1, q.statement) \in Plans
        /\ \/ q.outcome \in {"RELEASED", "RAISED"} /\ ~Unsupported(PlanFor(1, q.statement))
           \/ q.outcome = "DATASET_EXECUTION_FAILED" /\ Unsupported(PlanFor(1, q.statement))

\* The inductive invariant: the dataset stays, every entry of the history has
\* the one outcome that the policy allows it, and every answer has an entry.
EngineInv ==
  /\ dataset_version = 1 /\ table \in Tables
  /\ \A q \in submitted : Recorded(q)
  /\ \A a \in released : \E q \in submitted : q.outcome = "RELEASED" /\ a.plan \in q.plan

(* An entry is added to the history.                                       *)
LEMMA RecordAdds ==
  ASSUME NEW s, NEW role, NEW plan, NEW outcome, Record(role, s, plan, outcome),
         \A q \in submitted : Recorded(q),
         Recorded([statement |-> s, role |-> role, plan |-> plan, outcome |-> outcome])
  PROVE  \A q \in submitted' : Recorded(q)
BY DEF Record

(* A statement of which the engine returns a plan.                         *)
LEMMA PlanReturned ==
  ASSUME NEW role, NEW s \in Statements, Objection(role, s) = Ok
  PROVE  role = "analyst" /\ Planned(s) /\ PlanFor(1, s) \in Plans
<1>1. role = "analyst"
  BY DEF Objection, Ok
<1> QED
  BY <1>1, PlannedStatement, PlanAssumption

(* It holds of every entry, however many statements are submitted.         *)
LEMMA EngineInvInvariant == EngineSpec => []EngineInv
<1>1. EngineInit => EngineInv
  BY DEF EngineInit, Init, EngineInv
<1>2. EngineInv /\ [EngineNext]_engineVars => EngineInv'
  <2> SUFFICES ASSUME EngineInv, [EngineNext]_engineVars PROVE EngineInv'
    OBVIOUS
  <2> USE DEF EngineInv
  <2>1. ASSUME NEW role \in Roles, NEW s \in Statements, RefuseStatement(role, s)
        PROVE  EngineInv'
    <3>1. /\ dataset_version' = dataset_version /\ table' = table /\ released' = released
          /\ Record(role, s, {}, Objection(role, s))
      BY <2>1 DEF RefuseStatement, vars
    <3>2. Recorded([statement |-> s, role |-> role, plan |-> {}, outcome |-> Objection(role, s)])
      BY ObjectionCode DEF Recorded
    <3>3. \A q \in submitted' : Recorded(q)
      BY <3>1, <3>2, RecordAdds
    <3>4. submitted \subseteq submitted'
      BY <3>1 DEF Record
    <3> QED
      BY <3>1, <3>3, <3>4
  <2>2. ASSUME NEW role \in Roles, NEW s \in Statements, NEW epsilon \in Epsilons,
               ReleaseStatement(role, s, epsilon)
        PROVE  EngineInv'
    <3> DEFINE plan == PlanFor(1, s)
               q0 == [statement |-> s, role |-> role, plan |-> {plan}, outcome |-> "RELEASED"]
    <3>1. Objection(role, s) = Ok /\ PlanOf(s) = plan
      BY <2>2 DEF ReleaseStatement, PlanOf
    <3>2. role = "analyst" /\ Planned(s) /\ plan \in Plans
      BY <3>1, PlanReturned
    <3>3. /\ Accepted(plan)
          /\ dataset_version' = dataset_version /\ table' = table
          /\ \A a \in released' : a \in released \/ a.plan = plan
          /\ Record(role, s, {plan}, "RELEASED")
      BY <2>2, <3>1 DEF ReleaseStatement, Release
    <3>4. ~Unsupported(plan)
      BY <3>2, <3>3, PlanSupported
    <3>5. Recorded(q0)
      BY <3>2, <3>4 DEF Recorded
    <3>6. \A q \in submitted' : Recorded(q)
      BY <3>3, <3>5, RecordAdds
    <3>7. submitted' = submitted \cup {q0}
      BY <3>3 DEF Record
    <3>8. q0.outcome = "RELEASED" /\ plan \in q0.plan
      OBVIOUS
    <3> HIDE DEF q0, plan
    <3>9. \A a \in released' : \E q \in submitted' : q.outcome = "RELEASED" /\ a.plan \in q.plan
      BY <3>3, <3>7, <3>8
    <3> QED
      BY <3>3, <3>6, <3>9
  <2>3. ASSUME NEW role \in Roles, NEW s \in Statements, RejectStatement(role, s)
        PROVE  EngineInv'
    <3> DEFINE plan == PlanFor(1, s)
    <3>1. Objection(role, s) = Ok /\ PlanOf(s) = plan
      BY <2>3 DEF RejectStatement, PlanOf
    <3>2. role = "analyst" /\ Planned(s) /\ plan \in Plans
      BY <3>1, PlanReturned
    <3>3. /\ ~Accepted(plan)
          /\ dataset_version' = dataset_version /\ table' = table /\ released' = released
          /\ Record(role, s, {plan}, "DATASET_EXECUTION_FAILED")
      BY <2>3, <3>1 DEF RejectStatement, vars
    <3>4. Unsupported(plan)
      BY <3>2, <3>3, PlanSupported
    <3>5. Recorded([statement |-> s, role |-> role, plan |-> {plan},
                    outcome |-> "DATASET_EXECUTION_FAILED"])
      BY <3>2, <3>4 DEF Recorded
    <3>6. \A q \in submitted' : Recorded(q)
      BY <3>3, <3>5, RecordAdds
    <3>7. submitted \subseteq submitted'
      BY <3>3 DEF Record
    <3> QED
      BY <3>3, <3>6, <3>7
  <2>4. ASSUME NEW role \in Roles, NEW s \in Statements, RaiseStatement(role, s)
        PROVE  EngineInv'
    <3> DEFINE plan == PlanFor(1, s)
    <3>1. Objection(role, s) = Ok /\ PlanOf(s) = plan
      BY <2>4 DEF RaiseStatement, PlanOf
    <3>2. role = "analyst" /\ Planned(s) /\ plan \in Plans
      BY <3>1, PlanReturned
    <3>3. /\ Accepted(plan)
          /\ dataset_version' = dataset_version /\ table' = table /\ released' = released
          /\ Record(role, s, {plan}, "RAISED")
      BY <2>4, <3>1 DEF RaiseStatement, vars
    <3>4. ~Unsupported(plan)
      BY <3>2, <3>3, PlanSupported
    <3>5. Recorded([statement |-> s, role |-> role, plan |-> {plan}, outcome |-> "RAISED"])
      BY <3>2, <3>4 DEF Recorded
    <3>6. \A q \in submitted' : Recorded(q)
      BY <3>3, <3>5, RecordAdds
    <3>7. submitted \subseteq submitted'
      BY <3>3 DEF Record
    <3> QED
      BY <3>3, <3>6, <3>7
  <2>5. CASE UNCHANGED engineVars
    BY <2>5 DEF engineVars
  <2> QED
    BY <2>1, <2>2, <2>3, <2>4, <2>5 DEF EngineNext
<1> QED
  BY <1>1, <1>2, PTL DEF EngineSpec

(* Only statements of analysts get a plan, and every answer is one to a    *)
(* statement (PolicyEngine.plan).                                          *)
THEOREM EngineTypeCorrect == EngineSpec => []EngineTypeOK
<1>1. EngineInv => EngineTypeOK
  <2> SUFFICES ASSUME EngineInv PROVE EngineTypeOK
    OBVIOUS
  <2>1. ASSUME NEW q \in submitted
        PROVE  /\ q.statement \in Statements /\ q.role \in Roles
               /\ Cardinality(q.plan) =
                    (IF q.role = "analyst" /\ q.outcome \in PlannedOutcomes THEN 1 ELSE 0)
               /\ \A plan \in q.plan : \A i \in DOMAIN plan.metrics : plan.metrics[i].alias # NoAlias
    <3>1. Recorded(q)
      BY DEF EngineInv
    <3>2. CASE q.plan = {} /\ q.outcome \notin Outcomes
      BY <3>1, <3>2, FS_EmptySet DEF Recorded, Outcomes, PlannedOutcomes
    <3>3. CASE ~(q.plan = {} /\ q.outcome \notin Outcomes)
      <4>1. /\ q.role = "analyst" /\ Planned(q.statement)
            /\ q.plan = {PlanFor(1, q.statement)}
            /\ q.outcome \in PlannedOutcomes
        BY <3>1, <3>3 DEF Recorded, PlannedOutcomes
      <4>2. Cardinality(q.plan) = 1
        BY <4>1, FS_Singleton
      <4>3. ASSUME NEW i \in DOMAIN MetricsOf(q.statement)
            PROVE  MetricsOf(q.statement)[i].alias # NoAlias
        <5>1. PICK j \in Aggregated(q.statement) :
                MetricsOf(q.statement)[i] = MetricOf(q.statement.projections[j])
          BY <4>1, MetricsKept DEF Planned
        <5>2. /\ ProjectionObjection(q.statement.projections[j]) = Ok
              /\ IsMetric(q.statement.projections[j])
          BY <4>1, <5>1 DEF Planned, Aggregated
        <5> QED
          BY <5>1, <5>2, MetricPlanned
      <4> QED
        BY <3>1, <4>1, <4>2, <4>3, PlanFields DEF Recorded
    <3> QED
      BY <3>2, <3>3
  <2>2. \A a \in released : \E q \in ReleasedStatements : a.plan \in q.plan
    BY DEF EngineInv, ReleasedStatements
  <2> QED
    BY <2>1, <2>2 DEF EngineTypeOK
<1> QED
  BY <1>1, EngineInvInvariant, PTL

(* The validations agree: whatever the policy, what was planned and        *)
(* charged is rejected by the executor exactly if the policy grants what   *)
(* it does not support: a table or a name that is spelled otherwise than   *)
(* the authorizer and _quote want it, columns that it may not read, a      *)
(* default alias that is none (plan, compile, _execute_compiled; the file  *)
(* and the limits of an execution aside).                                  *)
THEOREM RejectionsComeFromPolicy == EngineSpec => []RejectedOnlyByPolicy
<1>1. EngineInv => RejectedOnlyByPolicy
  <2> SUFFICES ASSUME EngineInv, NEW q \in submitted, NEW plan \in q.plan
               PROVE  q.outcome = "DATASET_EXECUTION_FAILED" <=> Unsupported(plan)
    BY DEF RejectedOnlyByPolicy
  <2>1. Recorded(q)
    BY DEF EngineInv
  <2>2. /\ plan = PlanFor(1, q.statement)
        /\ \/ q.outcome \in {"RELEASED", "RAISED"} /\ ~Unsupported(PlanFor(1, q.statement))
           \/ q.outcome = "DATASET_EXECUTION_FAILED" /\ Unsupported(PlanFor(1, q.statement))
    BY <2>1 DEF Recorded
  <2> QED
    BY <2>2
<1> QED
  BY <1>1, EngineInvInvariant, PTL

(* What was released is the plan of its statement.                         *)
LEMMA ReleasedPlan ==
  ASSUME EngineInv, NEW q \in ReleasedStatements
  PROVE  /\ Planned(q.statement) /\ ThePlan(q) = PlanFor(1, q.statement)
         /\ PlanFor(1, q.statement) \in QueryPlans
<1>1. q \in submitted /\ q.outcome = "RELEASED"
  BY DEF ReleasedStatements
<1>2. Recorded(q)
  BY <1>1 DEF EngineInv
<1>3. /\ Planned(q.statement) /\ q.plan = {PlanFor(1, q.statement)}
      /\ PlanFor(1, q.statement) \in Plans
  BY <1>1, <1>2 DEF Recorded, Outcomes
<1> QED
  BY <1>3, ReleaseAssumption DEF ThePlan

(* The query that is compiled from the plan asks what the statement asked, *)
(* whatever the tree of its WHERE, if float() keeps the literals in it     *)
(* (_filters, _literal, _projection, compile).                             *)
THEOREM PlansAnswerStatements == EngineSpec => []AnswersTheStatement
<1>1. EngineInv => AnswersTheStatement
  <2> SUFFICES ASSUME EngineInv, NEW q \in ReleasedStatements
               PROVE  LET plan == ThePlan(q) s == q.statement IN
                      /\ Faithful(s.where) => Selected(table, plan) = table \cap RowsWhere[s.where]
                      /\ DimensionSet(plan) = {LowerCase[s.group[i].name] : i \in DOMAIN s.group}
                      /\ \A i \in DOMAIN s.projections :
                           s.projections[i].alias # NoAlias =>
                             \E j \in DOMAIN plan.metrics :
                               /\ plan.metrics[j].alias = s.projections[i].alias
                               /\ plan.metrics[j].function = s.projections[i].expression.kind
    BY DEF AnswersTheStatement
  <2>1. /\ Planned(q.statement) /\ ThePlan(q) = PlanFor(1, q.statement)
        /\ PlanFor(1, q.statement) \in QueryPlans
    BY ReleasedPlan
  <2>2. table \in Tables
    BY DEF EngineInv
  <2>3. Faithful(q.statement.where) =>
          Selected(table, PlanFor(1, q.statement)) = table \cap RowsWhere[q.statement.where]
    BY <2>1, <2>2, RowsOfStatement
  <2>4. DimensionSet(PlanFor(1, q.statement)) =
          {LowerCase[q.statement.group[i].name] : i \in DOMAIN q.statement.group}
    BY <2>1, FingerprintOfStatement
  <2>5. \A i \in DOMAIN q.statement.projections :
          q.statement.projections[i].alias # NoAlias =>
            \E j \in DOMAIN PlanFor(1, q.statement).metrics :
              /\ PlanFor(1, q.statement).metrics[j].alias = q.statement.projections[i].alias
              /\ PlanFor(1, q.statement).metrics[j].function =
                   q.statement.projections[i].expression.kind
    BY <2>1, NamesOfStatement
  <2> QED
    BY <2>1, <2>3, <2>4, <2>5
<1> QED
  BY <1>1, EngineInvInvariant, PTL

(* However a question is worded it is charged as one release, and two      *)
(* questions never are, for statements of any length.  Two exceptions: of  *)
(* literals that float() changes nothing is said (it merges some of them,  *)
(* and with them two questions), and an IN that repeats one literal may be *)
(* a release of its own (_literal, _filters, fingerprint).                 *)
THEOREM WordingIsNoRelease == EngineSpec => []RewordedStatementsShareRelease
<1>1. EngineInv => RewordedStatementsShareRelease
  <2> SUFFICES ASSUME EngineInv, NEW q \in ReleasedStatements, NEW r \in ReleasedStatements,
                      Faithful(q.statement.where), Faithful(r.statement.where)
               PROVE  LET same == Fingerprint(ThePlan(q)) = Fingerprint(ThePlan(r)) IN
                      /\ same => SameQuestion(q.statement, r.statement)
                      /\ SameQuestion(q.statement, r.statement) =>
                           \/ same
                           \/ RepeatsLiteral(q.statement.where) \/ RepeatsLiteral(r.statement.where)
    BY DEF RewordedStatementsShareRelease
  <2>1. /\ Planned(q.statement) /\ ThePlan(q) = PlanFor(1, q.statement)
        /\ PlanFor(1, q.statement) \in QueryPlans
    BY ReleasedPlan
  <2>2. /\ Planned(r.statement) /\ ThePlan(r) = PlanFor(1, r.statement)
        /\ PlanFor(1, r.statement) \in QueryPlans
    BY ReleasedPlan
  <2> QED
    BY <2>1, <2>2, QuestionsByFingerprint
<1> QED
  BY <1>1, EngineInvInvariant, PTL

(* What the statements cause is a behaviour of QueryRelease: the engine    *)
(* only ever submits plans of its own, and refusals change nothing.        *)
THEOREM StatementsAreReleases == EngineSpec => Spec
<1>1. EngineInit => Init
  BY DEF EngineInit
<1>2. EngineInv /\ [EngineNext]_engineVars => [Next]_vars
  <2> SUFFICES ASSUME EngineInv, [EngineNext]_engineVars PROVE [Next]_vars
    OBVIOUS
  <2>1. ASSUME NEW role \in Roles, NEW s \in Statements, RefuseStatement(role, s)
        PROVE  UNCHANGED vars
    BY <2>1 DEF RefuseStatement
  <2>2. ASSUME NEW role \in Roles, NEW s \in Statements, NEW epsilon \in Epsilons,
               ReleaseStatement(role, s, epsilon)
        PROVE  Next
    <3>1. Objection(role, s) = Ok /\ Release(PlanOf(s), epsilon)
      BY <2>2 DEF ReleaseStatement
    <3>2. PlanOf(s) = PlanFor(1, s)
      BY DEF PlanOf, EngineInv
    <3>3. PlanOf(s) \in Plans
      BY <3>1, <3>2, PlanReturned
    <3> QED
      BY <3>1, <3>3 DEF Next
  <2>3. ASSUME NEW role \in Roles, NEW s \in Statements, RejectStatement(role, s)
        PROVE  UNCHANGED vars
    BY <2>3 DEF RejectStatement
  <2>4. ASSUME NEW role \in Roles, NEW s \in Statements, RaiseStatement(role, s)
        PROVE  UNCHANGED vars
    BY <2>4 DEF RaiseStatement
  <2>5. CASE UNCHANGED engineVars
    BY <2>5 DEF engineVars, vars
  <2> QED
    BY <2>1, <2>2, <2>3, <2>4, <2>5 DEF EngineNext
<1> QED
  BY <1>1, <1>2, EngineInvInvariant, PTL DEF EngineSpec, Spec

(* So what is proved of the answers holds of the answers to statements,    *)
(* with the same exceptions: over unchanged data the noise of an answer is *)
(* on no other number, what is charged once is one answer but for the      *)
(* groups that LIMIT keeps, both but for aliases that differ by case, and  *)
(* the guard counts what the ledger charges.  (init-demo, which replaces   *)
(* the data under the same version and so the number under the noise, is   *)
(* no step here.)                                                          *)
THEOREM AnswersToStatements ==
  EngineSpec => [](NoiseNeverReused /\ SameReleaseSameAnswer /\ VariantsAreFingerprints)
BY StatementsAreReleases, NoiseIsNeverReused, SameReleaseIsSameAnswer, GuardAgreesWithLedger, PTL

=============================================================================
