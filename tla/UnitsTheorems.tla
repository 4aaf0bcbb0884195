--------------------------- MODULE UnitsTheorems ---------------------------
(***************************************************************************)
(* The laws of Total: finite sums of amounts, derived from the theorems on *)
(* the cardinality of finite sets.                                         *)
(***************************************************************************)
EXTENDS Units, FiniteSetTheorems, TLAPS

\* The units of a map of amounts are the pairs of a holder and a number up to
\* the amount it holds.
LEMMA UnitsElement ==
    ASSUME NEW S, NEW f \in [S -> Nat]
    PROVE  /\ \A u : u \in UnitsOf(f) <=> \E x \in S : \E i \in 1..f[x] : u = <<x, i>>
           /\ \A x, i : <<x, i>> \in UnitsOf(f) <=> x \in S /\ i \in 1..f[x]
<1>1. ASSUME NEW u PROVE u \in UnitsOf(f) <=> \E x \in S : \E i \in 1..f[x] : u = <<x, i>>
  <2>1. u \in UnitsOf(f) <=> \E x \in S : u \in {x} \X (1..f[x])
    BY DEF UnitsOf
  <2>2. \A x \in S : u \in {x} \X (1..f[x]) <=> \E i \in 1..f[x] : u = <<x, i>>
    OBVIOUS
  <2> QED BY <2>1, <2>2
<1>2. ASSUME NEW x, NEW i PROVE <<x, i>> \in UnitsOf(f) <=> x \in S /\ i \in 1..f[x]
  <2>1. <<x, i>> \in UnitsOf(f) <=> \E y \in S : <<x, i>> \in {y} \X (1..f[y])
    BY DEF UnitsOf
  <2> QED BY <2>1
<1> QED BY <1>1, <1>2

\* The units of one holder are as many as the amount says.
LEMMA UnitsOfOne ==
    ASSUME NEW a, NEW n \in Nat
    PROVE  IsFiniteSet({a} \X (1..n)) /\ Cardinality({a} \X (1..n)) = n
<1>1. IsFiniteSet(1..n) /\ Cardinality(1..n) = n
  BY FS_Interval
<1>2. IsFiniteSet({a}) /\ Cardinality({a}) = 1
  BY FS_Singleton
<1> DEFINE A == {a}
           N == 1..n
<1>3. IsFiniteSet(A \X N) /\ Cardinality(A \X N) = Cardinality(A) * Cardinality(N)
  <2> HIDE DEF A, N
  <2>1. IsFiniteSet(A) /\ IsFiniteSet(N)
    BY <1>1, <1>2 DEF A, N
  <2> QED BY <2>1, FS_Product, Zenon
<1>4. Cardinality(A) * Cardinality(N) = n
  BY <1>1, <1>2
<1> QED BY <1>3, <1>4

\* A map of amounts over finitely many holders has finitely many units.
LEMMA UnitsFinite ==
    ASSUME NEW S, IsFiniteSet(S), NEW f \in [S -> Nat]
    PROVE  IsFiniteSet(UnitsOf(f)) /\ Total(f) \in Nat
<1> DEFINE U == {{x} \X (1..f[x]) : x \in S}
           g == [x \in S |-> {x} \X (1..f[x])]
<1>1. g \in Surjection(S, U)
  BY DEF Surjection
<1>2. IsFiniteSet(U)
  <2> HIDE DEF g, U
  <2> QED BY <1>1, FS_Surjection
<1>3. \A T \in U : IsFiniteSet(T)
  <2> SUFFICES ASSUME NEW x \in S PROVE IsFiniteSet({x} \X (1..f[x]))
    OBVIOUS
  <2> QED BY UnitsOfOne
<1>4. IsFiniteSet(UNION U)
  <2> HIDE DEF U
  <2> QED BY <1>2, <1>3, FS_UNION
<1>5. UnitsOf(f) = UNION U
  BY DEF UnitsOf
<1> QED BY <1>4, <1>5, FS_CardinalityType DEF Total

\* A map of zero amounts has the sum zero.
LEMMA TotalZero ==
    ASSUME NEW S, NEW f \in [S -> Nat], \A x \in S : f[x] = 0
    PROVE  Total(f) = 0
<1>1. UnitsOf(f) = {}
  BY UnitsElement
<1> QED BY <1>1, FS_EmptySet DEF Total

\* The sum is one amount plus the sum of the others.
LEMMA TotalSplit ==
    ASSUME NEW S, IsFiniteSet(S), NEW f \in [S -> Nat], NEW a \in S
    PROVE  Total(f) = f[a] + Total([x \in S \ {a} |-> f[x]])
<1> DEFINE r == [x \in S \ {a} |-> f[x]]
           A == {a} \X (1..f[a])
<1>1. r \in [S \ {a} -> Nat] /\ IsFiniteSet(S \ {a})
  BY FS_RemoveElement
<1>2. IsFiniteSet(UnitsOf(r)) /\ IsFiniteSet(A) /\ Cardinality(A) = f[a]
  BY <1>1, UnitsFinite, UnitsOfOne
<1>3. UnitsOf(f) = UnitsOf(r) \cup A /\ UnitsOf(r) \cap A = {}
  <2>1. \A u : u \in UnitsOf(r) <=> \E x \in S \ {a} : \E i \in 1..r[x] : u = <<x, i>>
    <3> HIDE DEF r
    <3> QED BY <1>1, UnitsElement
  <2>2. \A u : u \in UnitsOf(f) <=> \E x \in S : \E i \in 1..f[x] : u = <<x, i>>
    BY UnitsElement
  <2>3. \A u : u \in A <=> \E i \in 1..f[a] : u = <<a, i>>
    OBVIOUS
  <2>4. \A x \in S \ {a} : r[x] = f[x]
    OBVIOUS
  <2> HIDE DEF r, A
  <2> QED BY <2>1, <2>2, <2>3, <2>4
<1>4. Cardinality(UnitsOf(f)) = Cardinality(UnitsOf(r)) + f[a] - 0
  <2> DEFINE R == UnitsOf(r)
  <2>1. IsFiniteSet(R) /\ IsFiniteSet(A)
    BY <1>2
  <2> HIDE DEF R, A
  <2>2. Cardinality(R \cup A) = Cardinality(R) + Cardinality(A) - Cardinality(R \cap A)
    BY <2>1, FS_Union, Zenon
  <2>3. Cardinality(R \cap A) = 0
    BY <1>3, FS_EmptySet DEF R
  <2> QED BY <2>2, <2>3, <1>2, <1>3 DEF R
<1>5. Cardinality(UnitsOf(r)) \in Nat
  BY <1>2, FS_CardinalityType
<1> QED BY <1>4, <1>5 DEF Total

\* An amount is at most the sum.
LEMMA TotalAtLeast ==
    ASSUME NEW S, IsFiniteSet(S), NEW f \in [S -> Nat], NEW a \in S
    PROVE  f[a] <= Total(f)
<1>1. Total([x \in S \ {a} |-> f[x]]) \in Nat
  BY UnitsFinite, FS_RemoveElement
<1>2. f[a] \in Nat /\ Total(f) = f[a] + Total([x \in S \ {a} |-> f[x]])
  BY TotalSplit
<1> QED BY <1>1, <1>2

\* Changing one amount changes the sum by the difference.
LEMMA TotalUpdate ==
    ASSUME NEW S, IsFiniteSet(S), NEW f \in [S -> Nat], NEW a \in S, NEW v \in Nat
    PROVE  /\ Total([f EXCEPT ![a] = v]) = Total(f) - f[a] + v
           /\ Total(f) >= f[a]
<1> DEFINE g == [f EXCEPT ![a] = v]
           r == [x \in S \ {a} |-> f[x]]
<1>1. g \in [S -> Nat] /\ g[a] = v
  OBVIOUS
<1>2. [x \in S \ {a} |-> g[x]] = r
  OBVIOUS
<1>3. Total(g) = v + Total(r)
  <2>1. Total(g) = g[a] + Total([x \in S \ {a} |-> g[x]])
    BY <1>1, TotalSplit
  <2> QED BY <2>1, <1>1, <1>2
<1>4. Total(f) = f[a] + Total(r)
  BY TotalSplit
<1>5. Total(r) \in Nat /\ f[a] \in Nat
  BY UnitsFinite, FS_RemoveElement
<1> QED BY <1>3, <1>4, <1>5

\* The same for two maps that agree on all but one holder.
LEMMA TotalPut ==
    ASSUME NEW S, IsFiniteSet(S), NEW f \in [S -> Nat], NEW g \in [S -> Nat],
           NEW a \in S, \A x \in S : x # a => g[x] = f[x]
    PROVE  Total(g) = Total(f) - f[a] + g[a]
<1>1. g = [f EXCEPT ![a] = g[a]] /\ g[a] \in Nat
  OBVIOUS
<1>2. Total([f EXCEPT ![a] = g[a]]) = Total(f) - f[a] + g[a]
  <2> DEFINE v == g[a]
  <2>1. v \in Nat
    OBVIOUS
  <2> HIDE DEF v
  <2>2. Total([f EXCEPT ![a] = v]) = Total(f) - f[a] + v
    BY <2>1, TotalUpdate
  <2> QED BY <2>2 DEF v
<1> QED BY <1>1, <1>2

\* The sum over a set is the sum over a part of it plus the sum over the rest.
LEMMA TotalPartition ==
    ASSUME NEW S, IsFiniteSet(S), NEW f \in [S -> Nat], NEW T \in SUBSET S
    PROVE  Total(f) = Total([x \in T |-> f[x]]) + Total([x \in S \ T |-> f[x]])
<1> DEFINE p == [x \in T |-> f[x]]
           q == [x \in S \ T |-> f[x]]
           P == UnitsOf(p)
           Q == UnitsOf(q)
<1>1. p \in [T -> Nat] /\ q \in [S \ T -> Nat]
  OBVIOUS
<1>2. IsFiniteSet(T) /\ IsFiniteSet(S \ T)
  BY FS_Subset, FS_Difference
<1>3. IsFiniteSet(P) /\ IsFiniteSet(Q) /\ Total(p) \in Nat /\ Total(q) \in Nat
  BY <1>1, <1>2, UnitsFinite
<1>4. UnitsOf(f) = P \cup Q /\ P \cap Q = {}
  <2>1. \A u : u \in P <=> \E x \in T : \E i \in 1..p[x] : u = <<x, i>>
    <3> HIDE DEF p
    <3> QED BY <1>1, UnitsElement
  <2>2. \A u : u \in Q <=> \E x \in S \ T : \E i \in 1..q[x] : u = <<x, i>>
    <3> HIDE DEF q
    <3> QED BY <1>1, UnitsElement
  <2>3. \A u : u \in UnitsOf(f) <=> \E x \in S : \E i \in 1..f[x] : u = <<x, i>>
    BY UnitsElement
  <2>4. (\A x \in T : p[x] = f[x]) /\ (\A x \in S \ T : q[x] = f[x])
    OBVIOUS
  <2> HIDE DEF p, q, P, Q
  <2> QED BY <2>1, <2>2, <2>3, <2>4
<1>5. Cardinality(UnitsOf(f)) = Cardinality(P) + Cardinality(Q)
  <2> HIDE DEF P, Q
  <2>1. Cardinality(P \cup Q) = Cardinality(P) + Cardinality(Q) - Cardinality(P \cap Q)
    BY <1>3, FS_Union, Zenon
  <2>2. Cardinality(P \cap Q) = 0 /\ Cardinality(P) \in Nat /\ Cardinality(Q) \in Nat
    BY <1>3, <1>4, FS_EmptySet, FS_CardinalityType
  <2> QED BY <1>4, <2>1, <2>2
<1> QED BY <1>5 DEF Total

\* The sum of a pointwise sum is the sum of the two sums.
LEMMA TotalSum ==
    ASSUME NEW S, IsFiniteSet(S), NEW f \in [S -> Nat], NEW h \in [S -> Nat]
    PROVE  Total([x \in S |-> f[x] + h[x]]) = Total(f) + Total(h)
<1> DEFINE g == [x \in S |-> f[x] + h[x]]
           G == UnitsOf(g)
           F == UnitsOf(f)
           H == UnitsOf(h)
           X == G \ F
           shift == [u \in H |-> <<u[1], f[u[1]] + u[2]>>]
<1>1. g \in [S -> Nat] /\ \A x \in S : g[x] = f[x] + h[x] /\ f[x] \in Nat /\ h[x] \in Nat
  OBVIOUS
<1>2. IsFiniteSet(G) /\ IsFiniteSet(F) /\ IsFiniteSet(H)
  BY <1>1, UnitsFinite
<1>3. /\ \A u : u \in G <=> \E x \in S : \E i \in 1..g[x] : u = <<x, i>>
      /\ \A x, i : <<x, i>> \in G <=> x \in S /\ i \in 1..g[x]
  <2> HIDE DEF g
  <2> QED BY <1>1, UnitsElement
<1>4. /\ \A u : u \in F <=> \E x \in S : \E i \in 1..f[x] : u = <<x, i>>
      /\ \A x, i : <<x, i>> \in F <=> x \in S /\ i \in 1..f[x]
  BY UnitsElement
<1>5. /\ \A u : u \in H <=> \E x \in S : \E i \in 1..h[x] : u = <<x, i>>
      /\ \A x, i : <<x, i>> \in H <=> x \in S /\ i \in 1..h[x]
  BY UnitsElement
<1>6. F \subseteq G
  <2> HIDE DEF g, G, F
  <2> SUFFICES ASSUME NEW x \in S, NEW i \in 1..f[x] PROVE <<x, i>> \in G
    BY <1>4
  <2> QED BY <1>1, <1>3
<1>7. shift \in Bijection(H, X)
  <2> HIDE DEF g, G, F, H
  <2>1. ASSUME NEW u \in H PROVE shift[u] \in X
    <3>1. PICK x \in S, i \in Int : i \in 1..h[x] /\ u = <<x, i>>
      BY <1>5
    <3>2. shift[u] = <<x, f[x] + i>>
      BY <3>1
    <3>3. f[x] + i \in 1..g[x] /\ f[x] + i \notin 1..f[x]
      BY <1>1, <3>1
    <3> QED BY <3>2, <3>3, <1>3, <1>4
  <2>2. ASSUME NEW u \in H, NEW v \in H, shift[u] = shift[v] PROVE u = v
    <3>1. PICK x \in S, i \in Int : i \in 1..h[x] /\ u = <<x, i>>
      BY <1>5
    <3>2. PICK y \in S, j \in Int : j \in 1..h[y] /\ v = <<y, j>>
      BY <1>5
    <3>3. <<x, f[x] + i>> = <<y, f[y] + j>>
      BY <2>2, <3>1, <3>2
    <3>4. x = y /\ f[x] + i = f[x] + j
      BY <3>3
    <3>5. i = j
      BY <1>1, <3>4
    <3> QED BY <3>1, <3>2, <3>4, <3>5
  <2>3. ASSUME NEW v \in X PROVE \E u \in H : shift[u] = v
    <3>1. PICK x \in S, i \in Int : i \in 1..g[x] /\ v = <<x, i>>
      BY <1>3
    <3>2. i \notin 1..f[x]
      BY <1>4, <3>1
    <3>3. i - f[x] \in 1..h[x] /\ f[x] + (i - f[x]) = i
      BY <1>1, <3>1, <3>2
    <3>4. <<x, i - f[x]>> \in H
      BY <1>5, <3>3
    <3>5. shift[<<x, i - f[x]>>] = <<x, i>>
      BY <3>3, <3>4
    <3> QED BY <3>1, <3>4, <3>5
  <2>4. shift \in [H -> X]
    BY <2>1
  <2>5. IsInjective(shift)
    <3>1. DOMAIN shift = H
      OBVIOUS
    <3> HIDE DEF shift
    <3> QED BY <2>2, <3>1 DEF IsInjective
  <2> HIDE DEF shift
  <2> QED BY <2>3, <2>4, <2>5 DEF Bijection, Injection, Surjection
<1>8. Cardinality(X) = Cardinality(H)
  <2> HIDE DEF shift, X, H, G, F
  <2> QED BY <1>2, <1>7, FS_Bijection DEF ExistsBijection
<1>9. Cardinality(G) = Cardinality(F) + Cardinality(X)
  <2> HIDE DEF G, F
  <2>1. G \cap F = F
    BY <1>6
  <2>2. Cardinality(X) = Cardinality(G) - Cardinality(F)
    BY <1>2, <2>1, FS_Difference
  <2>3. Cardinality(G) \in Nat /\ Cardinality(F) \in Nat
    BY <1>2, FS_CardinalityType
  <2> QED BY <2>2, <2>3
<1> QED BY <1>8, <1>9 DEF Total

\* Sums grouped by a key add up to the sum of everything.
LEMMA TotalGroups ==
    ASSUME NEW S, IsFiniteSet(S), NEW T, IsFiniteSet(T),
           NEW w \in [T -> Nat], NEW k \in [T -> S]
    PROVE  Total([a \in S |-> Total([t \in {t \in T : k[t] = a} |-> w[t]])]) = Total(w)
<1> DEFINE D(a) == {t \in T : k[t] = a}
           p(a) == [t \in D(a) |-> w[t]]
           h == [a \in S |-> Total(p(a))]
           W == UnitsOf(w)
           H == UnitsOf(h)
           One(a) == {a} \X (1..h[a])
           b == [a \in S |-> CHOOSE c : c \in Bijection(UnitsOf(p(a)), One(a))]
           F == [u \in W |-> b[k[u[1]]][u]]
<1>1. ASSUME NEW a \in S
      PROVE  /\ p(a) \in [D(a) -> Nat] /\ IsFiniteSet(D(a))
             /\ IsFiniteSet(UnitsOf(p(a))) /\ h[a] \in Nat
             /\ h[a] = Cardinality(UnitsOf(p(a)))
  <2>1. p(a) \in [D(a) -> Nat]
    OBVIOUS
  <2>2. IsFiniteSet(D(a))
    BY FS_Subset
  <2>3. h[a] = Total(p(a))
    OBVIOUS
  <2>4. IsFiniteSet(UnitsOf(p(a))) /\ Total(p(a)) \in Nat
    <3> HIDE DEF p, D
    <3> QED BY <2>1, <2>2, UnitsFinite
  <2> HIDE DEF p, D, h
  <2> QED BY <2>1, <2>2, <2>3, <2>4 DEF Total
<1>2. h \in [S -> Nat] /\ IsFiniteSet(W)
  BY <1>1, UnitsFinite
<1>3. ASSUME NEW a \in S PROVE b[a] \in Bijection(UnitsOf(p(a)), One(a))
  <2>1. IsFiniteSet(One(a)) /\ Cardinality(One(a)) = h[a]
    <3> HIDE DEF h
    <3> QED BY <1>1, UnitsOfOne
  <2>2. \E c : c \in Bijection(UnitsOf(p(a)), One(a))
    <3> DEFINE U == UnitsOf(p(a))
               V == One(a)
    <3>1. IsFiniteSet(U) /\ IsFiniteSet(V) /\ Cardinality(U) = Cardinality(V)
      BY <1>1, <2>1
    <3> HIDE DEF U, V
    <3>2. ExistsBijection(U, V)
      BY <3>1, FS_SameCardinalityBij
    <3>3. \E c : c \in Bijection(U, V)
      BY <3>2 DEF ExistsBijection
    <3> QED BY <3>3 DEF U, V
  <2>3. b[a] = CHOOSE c : c \in Bijection(UnitsOf(p(a)), One(a))
    OBVIOUS
  <2> HIDE DEF b, p, One
  <2> QED BY <2>2, <2>3
<1>4. /\ \A u : u \in W <=> \E t \in T : \E i \in 1..w[t] : u = <<t, i>>
      /\ \A t, i : <<t, i>> \in W <=> t \in T /\ i \in 1..w[t]
  BY UnitsElement
<1>5. /\ \A u : u \in H <=> \E a \in S : \E i \in 1..h[a] : u = <<a, i>>
      /\ \A a, i : <<a, i>> \in H <=> a \in S /\ i \in 1..h[a]
  <2> HIDE DEF h
  <2> QED BY <1>2, UnitsElement
<1>6. ASSUME NEW a \in S
      PROVE  \A u : u \in UnitsOf(p(a)) <=> u \in W /\ k[u[1]] = a
  <2>1. \A u : u \in UnitsOf(p(a)) <=> \E t \in D(a) : \E i \in 1..p(a)[t] : u = <<t, i>>
    <3>1. p(a) \in [D(a) -> Nat]
      BY <1>1
    <3> HIDE DEF p, D
    <3> QED BY <3>1, UnitsElement
  <2>2. \A t \in D(a) : p(a)[t] = w[t]
    OBVIOUS
  <2>3. ASSUME NEW u \in UnitsOf(p(a)) PROVE u \in W /\ k[u[1]] = a
    <3>1. PICK t \in D(a), i \in Int : i \in 1..w[t] /\ u = <<t, i>>
      BY <2>1, <2>2
    <3>2. u[1] = t /\ t \in T /\ k[t] = a
      BY <3>1
    <3> QED BY <3>1, <3>2, <1>4
  <2>4. ASSUME NEW u \in W, k[u[1]] = a PROVE u \in UnitsOf(p(a))
    <3>1. PICK t \in T, i \in Int : i \in 1..w[t] /\ u = <<t, i>>
      BY <1>4
    <3>2. t \in D(a)
      BY <2>4, <3>1
    <3> HIDE DEF p, D
    <3> QED BY <2>1, <2>2, <3>1, <3>2
  <2> QED BY <2>3, <2>4
<1>7. ASSUME NEW u \in W
      PROVE  /\ k[u[1]] \in S /\ u \in UnitsOf(p(k[u[1]]))
             /\ F[u] = b[k[u[1]]][u] /\ F[u] \in One(k[u[1]])
  <2>1. PICK t \in T, i \in Int : i \in 1..w[t] /\ u = <<t, i>>
    BY <1>4
  <2>2. k[u[1]] \in S
    BY <2>1
  <2>3. u \in UnitsOf(p(k[u[1]]))
    BY <1>6, <2>2
  <2>4. F[u] = b[k[u[1]]][u]
    OBVIOUS
  <2>5. b[k[u[1]]] \in [UnitsOf(p(k[u[1]])) -> One(k[u[1]])]
    <3> HIDE DEF b, p, One
    <3> QED BY <1>3, <2>2 DEF Bijection, Injection
  <2> HIDE DEF b, p, One, F
  <2> QED BY <2>2, <2>3, <2>4, <2>5
<1>8. F \in Bijection(W, H)
  <2>1. ASSUME NEW a \in S, NEW v \in One(a) PROVE v \in H /\ v[1] = a
    <3>1. PICK i \in Int : i \in 1..h[a] /\ v = <<a, i>>
      OBVIOUS
    <3> HIDE DEF H, h
    <3> QED BY <1>5, <3>1
  <2>2. ASSUME NEW v \in H PROVE v[1] \in S /\ v \in One(v[1])
    <3> HIDE DEF h, H
    <3>1. PICK a \in S, i \in Int : i \in 1..h[a] /\ v = <<a, i>>
      BY <1>5
    <3> QED BY <3>1
  <2>3. F \in [W -> H]
    <3>1. \A u \in W : F[u] \in H
      <4> HIDE DEF F, One, b, p, H
      <4> QED BY <1>7, <2>1
    <3> HIDE DEF W, H, b
    <3> QED BY <3>1
  <2>4. ASSUME NEW u \in W, NEW v \in W, F[u] = F[v] PROVE u = v
    <3> HIDE DEF F, b, p, One, H
    <3>1. k[u[1]] = k[v[1]]
      BY <1>7, <2>1, <2>4
    <3>2. IsInjective(b[k[u[1]]]) /\ DOMAIN b[k[u[1]]] = UnitsOf(p(k[u[1]]))
      BY <1>3, <1>7 DEF Bijection, Injection
    <3> QED BY <1>7, <2>4, <3>1, <3>2 DEF IsInjective
  <2>5. ASSUME NEW v \in H PROVE \E u \in W : F[u] = v
    <3> HIDE DEF F, b, p, One, H
    <3>1. PICK u \in UnitsOf(p(v[1])) : b[v[1]][u] = v
      BY <1>3, <2>2 DEF Bijection, Surjection
    <3>2. u \in W /\ k[u[1]] = v[1]
      BY <1>6, <2>2, <3>1
    <3> QED BY <1>7, <3>1, <3>2
  <2>6. DOMAIN F = W
    OBVIOUS
  <2> HIDE DEF F, W, H
  <2> QED BY <2>3, <2>4, <2>5, <2>6 DEF Bijection, Injection, Surjection, IsInjective
<1>9. Cardinality(H) = Cardinality(W)
  <2> HIDE DEF F, W, H
  <2> QED BY <1>2, <1>8, FS_Bijection DEF ExistsBijection
<1> QED BY <1>9 DEF Total
=============================================================================
