-------------------------- MODULE StatsNumbers_proofs --------------------------
(***************************************************************************)
(* Proofs about the writer's numbers, for any number of posts, days,       *)
(* domains and events, and any caps and batches.                           *)
(*                                                                         *)
(* The figures are sums over finite sets, of which the library has no      *)
(* theorems; the first sections make them, by induction over the subsets   *)
(* of a finite set: a sum does not depend on the order it is made in, adds *)
(* up kind by kind, and grows with what it is of.                          *)
(***************************************************************************)
EXTENDS StatsNumbers, FiniteSetTheorems, WellFoundedInduction, TLAPS

-----------------------------------------------------------------------------
(* Numbers.                                                                 *)

(* Induction over the naturals, for a set, and what comes of it.            *)
LEMMA NatsCounted ==
  ASSUME NEW S, 0 \in S, \A n \in Nat : n \in S => n + 1 \in S PROVE Nat \subseteq S
<1> SUFFICES ASSUME NEW k \in Nat, k \notin S PROVE FALSE
  OBVIOUS
<1>1. PICK out : out = Nat \ S
  OBVIOUS
<1>2. out # {} /\ out \subseteq Nat
  BY <1>1
<1>3. PICK n \in out : \A m \in out : ~ (<<m, n>> \in OpToRel(<, Nat))
  <2>1. PICK R : R = OpToRel(<, Nat)
    OBVIOUS
  <2>2. IsWellFoundedOn(R, Nat)
    BY <2>1, NatLessThanWellFounded
  <2>3. \E n \in out : \A m \in out : ~ (<<m, n>> \in R)
    BY <1>2, <2>2, WFMin
  <2> QED BY <2>1, <2>3
<1>4. \A m \in out : ~(m < n)
  BY <1>2, <1>3 DEF OpToRel
<1>5. n \in Nat /\ n # 0 /\ n - 1 \in Nat /\ n - 1 < n
  BY <1>1
<1> QED BY <1>1, <1>4, <1>5

(* A set of numbers has a least one, and one below a bound has a greatest.  *)
LEMMA LeastOne ==
  ASSUME NEW S \in SUBSET Nat, S # {} PROVE \E m \in S : \A n \in S : m <= n
<1> SUFFICES ASSUME \A m \in S : \E n \in S : n < m PROVE FALSE
  OBVIOUS
<1>1. PICK low : low = {k \in Nat : \A n \in S : k < n}
  OBVIOUS
<1>2. 0 \in low
  BY <1>1
<1>3. ASSUME NEW k \in Nat, k \in low PROVE k + 1 \in low
  <2> SUFFICES ASSUME NEW n \in S PROVE k + 1 < n
    BY <1>1
  <2>1. PICK m \in S : m < n
    OBVIOUS
  <2>2. k < m /\ m \in Nat /\ n \in Nat
    BY <1>1, <1>3
  <2> QED BY <2>1, <2>2
<1>4. Nat \subseteq low
  BY <1>2, <1>3, NatsCounted
<1>5. PICK n \in S : TRUE
  OBVIOUS
<1> QED BY <1>1, <1>4, <1>5

LEMMA GreatestOne ==
  ASSUME NEW N \in Nat, NEW S \in SUBSET (0..N), S # {} PROVE \E m \in S : \A n \in S : n <= m
<1>1. PICK T : T = {N - n : n \in S}
  OBVIOUS
<1>6. \A n \in S : n \in Nat /\ n <= N /\ N - n \in Nat
  OBVIOUS
<1>2. T \in SUBSET Nat /\ T # {}
  BY <1>1, <1>6
<1>3. PICK t \in T : \A u \in T : t <= u
  BY <1>2, LeastOne
<1>4. PICK m \in S : t = N - m
  BY <1>1, <1>3
<1>5. \A n \in S : N - n \in T
  BY <1>1
<1> QED BY <1>3, <1>4, <1>5, <1>6

-----------------------------------------------------------------------------
(* Sums over finite sets.                                                   *)

(* Induction over the subsets of a finite set.                              *)
LEMMA BySubsets ==
  ASSUME NEW S, IsFiniteSet(S), NEW ok, {} \in ok,
         \A T \in SUBSET S : \A x \in S \ T : T \in ok => T \cup {x} \in ok
  PROVE  \A T \in SUBSET S : T \in ok
<1>1. PICK sizes : sizes = {n \in Nat : \A T \in SUBSET S : Cardinality(T) = n => T \in ok}
  OBVIOUS
<1>2. \A T \in SUBSET S : IsFiniteSet(T) /\ Cardinality(T) \in Nat
  BY FS_Subset, FS_CardinalityType
<1>3. 0 \in sizes
  BY <1>1, <1>2, FS_EmptySet
<1>4. ASSUME NEW n \in Nat, n \in sizes PROVE n + 1 \in sizes
  <2> SUFFICES ASSUME NEW T \in SUBSET S, Cardinality(T) = n + 1 PROVE T \in ok
    BY <1>1
  <2>1. T # {}
    <3>1. Cardinality(T) # 0
      OBVIOUS
    <3> QED BY <3>1, FS_EmptySet
  <2>2. PICK x \in T : TRUE
    BY <2>1
  <2>3. PICK U \in SUBSET S : U = T \ {x}
    OBVIOUS
  <2>4. Cardinality(U) = n
    <3>1. Cardinality(U) = Cardinality(T) - 1
      BY <1>2, <2>3, FS_RemoveElement
    <3> QED BY <3>1
  <2>5. U \in ok /\ x \in S \ U /\ T = U \cup {x}
    BY <1>1, <1>4, <2>3, <2>4
  <2> QED BY <2>5
<1>5. Nat \subseteq sizes
  BY <1>3, <1>4, NatsCounted
<1> QED BY <1>1, <1>2, <1>5

(* A sum, element by element, in the order the definition picks them.       *)
Picks(c, S) == \A s \in SUBSET S : s # {} => c[s] \in s
Sums(g, c, w, S) == \A s \in SUBSET S : g[s] = IF s = {} THEN 0 ELSE w[c[s]] + g[s \ {c[s]}]

LEMMA SumFound ==
  ASSUME NEW S, IsFiniteSet(S), NEW c, Picks(c, S), NEW w
  PROVE  \E R : \E g \in [SUBSET S -> R] : Sums(g, c, w, S)
<1> USE DEF Picks
<1>1. PICK low : low = [n \in Nat |-> {s \in SUBSET S : Cardinality(s) <= n}]
  OBVIOUS
<1>2. PICK ok : ok = {n \in Nat : \E g : /\ g = [s \in low[n] |-> g[s]]
                              /\ \A s \in low[n] : g[s] = IF s = {} THEN 0 ELSE w[c[s]] + g[s \ {c[s]}]}
  OBVIOUS
<1>3. \A s \in SUBSET S : IsFiniteSet(s) /\ Cardinality(s) \in Nat
  BY FS_Subset, FS_CardinalityType
<1>4. \A s \in SUBSET S : s # {} => s \ {c[s]} \in SUBSET S /\ Cardinality(s \ {c[s]}) = Cardinality(s) - 1
  BY <1>3, FS_RemoveElement
<1>5. \A s \in SUBSET S : s # {} => Cardinality(s) # 0
  BY <1>3, FS_EmptySet
<1>6. 0 \in ok
  <2>1. low[0] = {{}}
    BY <1>1, <1>3, <1>5, FS_EmptySet
  <2>2. PICK g : g = [s \in low[0] |-> 0]
    OBVIOUS
  <2>3. g = [s \in low[0] |-> g[s]] /\ \A s \in low[0] : g[s] = IF s = {} THEN 0 ELSE w[c[s]] + g[s \ {c[s]}]
    BY <2>1, <2>2
  <2> QED BY <1>2, <2>3
<1>7. ASSUME NEW n \in Nat, n \in ok PROVE n + 1 \in ok
  <2>1. PICK g : \A s \in low[n] : g[s] = IF s = {} THEN 0 ELSE w[c[s]] + g[s \ {c[s]}]
    BY <1>2, <1>7
  <2>2. PICK h : h = [s \in low[n + 1] |-> IF s = {} THEN 0 ELSE w[c[s]] + g[s \ {c[s]}]]
    OBVIOUS
  <2>3. \A s \in low[n] : s \in low[n + 1]
    BY <1>1, <1>3
  <2>4. \A s \in low[n] : h[s] = g[s]
    BY <2>1, <2>2, <2>3
  <2>5. \A s \in low[n + 1] : s # {} => s \ {c[s]} \in low[n]
    <3> SUFFICES ASSUME NEW s \in low[n + 1], s # {} PROVE s \ {c[s]} \in low[n]
      OBVIOUS
    <3>1. s \in SUBSET S /\ Cardinality(s) <= n + 1
      BY <1>1
    <3>2. Cardinality(s) \in Nat /\ Cardinality(s \ {c[s]}) = Cardinality(s) - 1 /\ s \ {c[s]} \in SUBSET S
      BY <1>3, <1>4, <3>1
    <3>3. Cardinality(s \ {c[s]}) <= n
      BY <3>1, <3>2
    <3> QED BY <1>1, <3>2, <3>3
  <2>6. \A s \in low[n + 1] : h[s] = IF s = {} THEN 0 ELSE w[c[s]] + h[s \ {c[s]}]
    BY <2>2, <2>4, <2>5
  <2>7. h = [s \in low[n + 1] |-> h[s]]
    BY <2>2
  <2>8. n + 1 \in Nat
    OBVIOUS
  <2> QED BY <1>2, <2>6, <2>7, <2>8
<1>8. PICK n \in Nat : n = Cardinality(S)
  BY FS_CardinalityType
<1>9. n \in ok
  BY <1>6, <1>7, NatsCounted
<1>10. low[n] = SUBSET S
  <2>1. \A s \in SUBSET S : Cardinality(s) <= n
    BY <1>8, FS_Subset
  <2> QED BY <1>1, <2>1
<1>11. PICK g : g = [s \in SUBSET S |-> g[s]] /\ \A s \in SUBSET S : g[s] = IF s = {} THEN 0 ELSE w[c[s]] + g[s \ {c[s]}]
  BY <1>2, <1>9, <1>10
<1>12. PICK R : R = {g[s] : s \in SUBSET S}
  OBVIOUS
<1>13. g \in [SUBSET S -> R]
  BY <1>11, <1>12
<1>14. Sums(g, c, w, S)
  BY <1>11 DEF Sums
<1> QED BY <1>13, <1>14

(* Two ways of summing agree where they pick alike.                         *)
LEMMA SumsAgree ==
  ASSUME NEW S, IsFiniteSet(S), NEW c, Picks(c, S), NEW w, NEW g, Sums(g, c, w, S),
         NEW T \in SUBSET S, NEW h, Sums(h, c, w, T)
  PROVE  \A s \in SUBSET T : g[s] = h[s]
<1> USE DEF Picks
<1>1. PICK ok : ok = {s \in SUBSET T : g[s] = h[s]}
  OBVIOUS
<1>2. PICK sizes : sizes = {n \in Nat : \A s \in SUBSET T : Cardinality(s) = n => s \in ok}
  OBVIOUS
<1>3. \A s \in SUBSET T : IsFiniteSet(s) /\ Cardinality(s) \in Nat /\ s \in SUBSET S
  BY FS_Subset, FS_CardinalityType
<1>4. 0 \in sizes
  <2> SUFFICES ASSUME NEW s \in SUBSET T, Cardinality(s) = 0 PROVE s \in ok
    BY <1>2
  <2>1. s = {}
    BY <1>3, FS_EmptySet
  <2> QED BY <1>1, <2>1 DEF Sums
<1>5. ASSUME NEW n \in Nat, n \in sizes PROVE n + 1 \in sizes
  <2> SUFFICES ASSUME NEW s \in SUBSET T, Cardinality(s) = n + 1 PROVE s \in ok
    BY <1>2
  <2>1. s # {}
    <3>1. Cardinality(s) # 0
      OBVIOUS
    <3> QED BY <3>1, FS_EmptySet
  <2>2. PICK x \in s : x = c[s]
    BY <1>3, <2>1
  <2>3. PICK t \in SUBSET T : t = s \ {x}
    OBVIOUS
  <2>4. Cardinality(t) = n
    <3>1. Cardinality(t) = Cardinality(s) - 1
      BY <1>3, <2>3, FS_RemoveElement
    <3> QED BY <3>1
  <2>5. g[t] = h[t]
    BY <1>1, <1>2, <1>5, <2>4
  <2>6. g[s] = w[x] + g[t]
    BY <1>3, <2>1, <2>2, <2>3 DEF Sums
  <2>7. h[s] = w[x] + h[t]
    BY <2>1, <2>2, <2>3 DEF Sums
  <2> QED BY <1>1, <2>5, <2>6, <2>7
<1>6. Nat \subseteq sizes
  BY <1>4, <1>5, NatsCounted
<1> QED BY <1>1, <1>2, <1>3, <1>6

(* Every element may go first.                                              *)
LEMMA AnyFirst ==
  ASSUME NEW S, IsFiniteSet(S), NEW c, Picks(c, S), NEW w, \A x \in S : w[x] \in Nat, NEW g, Sums(g, c, w, S)
  PROVE  \A s \in SUBSET S : g[s] \in Nat /\ \A x \in s : g[s] = w[x] + g[s \ {x}]
<1> USE DEF Picks
<1>1. PICK ok : ok = {s \in SUBSET S : g[s] \in Nat /\ \A x \in s : g[s] = w[x] + g[s \ {x}]}
  OBVIOUS
<1>2. PICK sizes : sizes = {n \in Nat : \A s \in SUBSET S : Cardinality(s) <= n => s \in ok}
  OBVIOUS
<1>3. \A s \in SUBSET S : IsFiniteSet(s) /\ Cardinality(s) \in Nat
  BY FS_Subset, FS_CardinalityType
<1>4. 0 \in sizes
  <2> SUFFICES ASSUME NEW s \in SUBSET S, Cardinality(s) <= 0 PROVE s \in ok
    BY <1>2
  <2>1. Cardinality(s) = 0
    BY <1>3
  <2>2. s = {}
    BY <1>3, <2>1, FS_EmptySet
  <2>3. g[s] = 0
    BY <2>2 DEF Sums
  <2> QED BY <1>1, <2>2, <2>3
<1>5. ASSUME NEW n \in Nat, n \in sizes PROVE n + 1 \in sizes
  <2> SUFFICES ASSUME NEW s \in SUBSET S, Cardinality(s) <= n + 1, s # {} PROVE s \in ok
    <3>1. \A s \in SUBSET S : s = {} => s \in ok
      <4>1. g[{}] = 0
        BY DEF Sums
      <4> QED BY <1>1, <4>1
    <3> QED BY <1>2, <3>1
  <2>1. ASSUME NEW x \in s PROVE s \ {x} \in ok
    <3>1. Cardinality(s \ {x}) = Cardinality(s) - 1 /\ s \ {x} \in SUBSET S
      BY <1>3, FS_RemoveElement
    <3>2. PICK k \in Nat : k = Cardinality(s)
      BY <1>3
    <3>3. Cardinality(s \ {x}) <= n
      BY <3>1, <3>2
    <3> QED BY <1>2, <1>5, <3>1, <3>3
  <2>2. PICK y \in s : y = c[s]
    OBVIOUS
  <2>3. g[s] = w[y] + g[s \ {y}]
    BY <2>2 DEF Sums
  <2>4. g[s \ {y}] \in Nat /\ w[y] \in Nat
    BY <1>1, <2>1
  <2>5. g[s] \in Nat
    BY <2>3, <2>4
  <2>6. ASSUME NEW x \in s, x # y PROVE g[s] = w[x] + g[s \ {x}]
    <3>1. PICK t : t = (s \ {y}) \ {x}
      OBVIOUS
    <3>2. t = (s \ {x}) \ {y} /\ t \in SUBSET S
      BY <3>1
    <3>3. g[s \ {y}] = w[x] + g[t]
      <4>1. x \in s \ {y}
        BY <2>6
      <4> QED BY <1>1, <2>1, <3>1, <4>1
    <3>4. g[s \ {x}] = w[y] + g[t]
      <4>1. y \in s \ {x} /\ s \ {x} \in ok
        BY <2>1, <2>6
      <4> QED BY <1>1, <3>2, <4>1
    <3>5. w[x] \in Nat /\ w[y] \in Nat /\ g[s \ {y}] \in Nat /\ g[s \ {x}] \in Nat
      BY <1>1, <2>1
    <3>6. g[t] \in Nat
      <4>1. PICK u \in SUBSET S : u = s \ {x} /\ y \in u
        BY <2>6
      <4>2. t = u \ {y} /\ Cardinality(u) <= n
        <5>1. Cardinality(u) = Cardinality(s) - 1
          BY <1>3, <4>1, FS_RemoveElement
        <5>2. PICK k \in Nat : k = Cardinality(s)
          BY <1>3
        <5> QED BY <3>2, <4>1, <5>1, <5>2
      <4>3. Cardinality(t) = Cardinality(u) - 1 /\ t \in SUBSET S
        BY <1>3, <4>1, <4>2, FS_RemoveElement
      <4>4. PICK k \in Nat : k = Cardinality(u)
        BY <1>3
      <4>5. Cardinality(t) <= n
        BY <4>2, <4>3, <4>4
      <4> QED BY <1>1, <1>2, <1>5, <4>3, <4>5
    <3> QED BY <2>3, <3>3, <3>4, <3>5, <3>6
  <2> QED BY <1>1, <2>3, <2>5, <2>6
<1>6. Nat \subseteq sizes
  BY <1>4, <1>5, NatsCounted
<1>7. ASSUME NEW s \in SUBSET S PROVE s \in ok
  <2>1. PICK k \in Nat : k = Cardinality(s)
    BY <1>3
  <2>2. k <= k
    OBVIOUS
  <2> QED BY <1>2, <1>6, <2>1, <2>2
<1> QED BY <1>1, <1>7

(* What the modules' Sum is: nothing of nothing, and each element adds its  *)
(* own.                                                                     *)
Adding(w, S) ==
  /\ Sum(w, {}) = 0
  /\ \A T \in SUBSET S : Sum(w, T) \in Nat /\ \A x \in S \ T : Sum(w, T \cup {x}) = w[x] + Sum(w, T)

LEMMA SumAdds ==
  ASSUME NEW S, IsFiniteSet(S), NEW w, \A x \in S : w[x] \in Nat
  PROVE  Adding(w, S)
<1>2. PICK c : c = [s \in SUBSET S |-> CHOOSE x \in s : TRUE]
  OBVIOUS
<1>3. \A s \in SUBSET S : s # {} => c[s] \in s /\ c[s] = CHOOSE x \in s : TRUE
  BY <1>2
<1>4. Picks(c, S)
  BY <1>3 DEF Picks
<1>5. PICK R : \E g \in [SUBSET S -> R] : Sums(g, c, w, S)
  BY <1>4, SumFound
<1>6. PICK g \in [SUBSET S -> R] : Sums(g, c, w, S)
  BY <1>5
<1>7. ASSUME NEW T \in SUBSET S PROVE Sum(w, T) = g[T]
  <2> DEFINE Adds(f) == f = [s \in SUBSET T |-> IF s = {} THEN 0
             ELSE LET x == CHOOSE x \in s : TRUE IN w[x] + f[s \ {x}]]
  <2>1. PICK h : h = [s \in SUBSET T |-> g[s]]
    OBVIOUS
  <2>2. Adds(h)
    <3>1. \A s \in SUBSET T : g[s] = IF s = {} THEN 0
             ELSE LET x == CHOOSE x \in s : TRUE IN w[x] + h[s \ {x}]
      <4> SUFFICES ASSUME NEW s \in SUBSET T
                   PROVE  g[s] = IF s = {} THEN 0
                            ELSE LET x == CHOOSE x \in s : TRUE IN w[x] + h[s \ {x}]
        OBVIOUS
      <4>1. CASE s = {}
        BY <1>6, <4>1 DEF Sums
      <4>2. CASE s # {}
        <5>1. PICK x : x = CHOOSE y \in s : TRUE
          OBVIOUS
        <5>2. c[s] = x /\ s \ {x} \in SUBSET T
          BY <1>3, <4>2, <5>1
        <5>3. g[s] = w[x] + g[s \ {x}]
          BY <1>6, <4>2, <5>2 DEF Sums
        <5>4. h[s \ {x}] = g[s \ {x}]
          BY <2>1, <5>2
        <5> QED BY <4>2, <5>1, <5>3, <5>4
      <4> QED BY <4>1, <4>2
    <3> QED BY <2>1, <3>1
  <2>3. PICK it : it = CHOOSE f : Adds(f)
    OBVIOUS
  <2>4. it = [s \in SUBSET T |-> IF s = {} THEN 0
             ELSE LET x == CHOOSE x \in s : TRUE IN w[x] + it[s \ {x}]]
    <3>1. Adds(it)
      <4> HIDE DEF Adds
      <4> QED BY <2>2, <2>3
    <3> QED BY <3>1
  <2>5. \A s \in SUBSET T : it[s] = IF s = {} THEN 0 ELSE w[c[s]] + it[s \ {c[s]}]
    <3> SUFFICES ASSUME NEW s \in SUBSET T
                 PROVE  it[s] = IF s = {} THEN 0 ELSE w[c[s]] + it[s \ {c[s]}]
      OBVIOUS
    <3>1. it[s] = IF s = {} THEN 0 ELSE LET x == CHOOSE x \in s : TRUE IN w[x] + it[s \ {x}]
      BY <2>4
    <3>2. CASE s = {}
      BY <3>1, <3>2
    <3>3. CASE s # {}
      <4>1. PICK x : x = CHOOSE y \in s : TRUE
        OBVIOUS
      <4>2. c[s] = x
        BY <1>3, <3>3, <4>1
      <4>3. it[s] = w[x] + it[s \ {x}]
        BY <3>1, <3>3, <4>1
      <4> QED BY <3>3, <4>2, <4>3
    <3> QED BY <3>2, <3>3
  <2>6. Sums(it, c, w, T)
    BY <2>5 DEF Sums
  <2>7. g[T] = it[T]
    <3>1. \A s \in SUBSET T : g[s] = it[s]
      BY <1>4, <1>6, <2>6, SumsAgree
    <3> QED BY <3>1
  <2>8. Sum(w, T) = it[T]
    BY <2>3 DEF Sum, MapThenSumSet, MapThenFoldSet
  <2> QED BY <2>7, <2>8
<1>8. \A s \in SUBSET S : g[s] \in Nat /\ \A x \in s : g[s] = w[x] + g[s \ {x}]
  BY <1>4, <1>6, AnyFirst
<1>9. ASSUME NEW T \in SUBSET S, NEW x \in S \ T PROVE Sum(w, T \cup {x}) = w[x] + Sum(w, T)
  <2>1. PICK U \in SUBSET S : U = T \cup {x}
    OBVIOUS
  <2>2. x \in U /\ U \ {x} = T
    BY <2>1
  <2>3. g[U] = w[x] + g[T]
    BY <1>8, <2>2
  <2> QED BY <1>7, <2>1, <2>3
<1>10. Sum(w, {}) = 0
  <2>1. g[{}] = 0
    BY <1>6 DEF Sums
  <2> QED BY <1>7, <2>1
<1> QED BY <1>7, <1>8, <1>9, <1>10 DEF Adding

(* Two that count alike on a set sum alike on it, and the one that counts   *)
(* less sums to less.                                                       *)
LEMMA SumBelow ==
  ASSUME NEW S, IsFiniteSet(S), NEW w, \A x \in S : w[x] \in Nat, NEW u, \A x \in S : u[x] \in Nat,
         \A x \in S : w[x] <= u[x]
  PROVE  Sum(w, S) <= Sum(u, S)
<1>1. Adding(w, S) /\ Adding(u, S)
  BY SumAdds
<1>2. PICK ok : ok = {T \in SUBSET S : Sum(w, T) <= Sum(u, T)}
  OBVIOUS
<1>3. {} \in ok
  BY <1>1, <1>2 DEF Adding
<1>4. ASSUME NEW T \in SUBSET S, NEW x \in S \ T, T \in ok PROVE T \cup {x} \in ok
  <2>1. Sum(w, T \cup {x}) = w[x] + Sum(w, T) /\ Sum(u, T \cup {x}) = u[x] + Sum(u, T)
    BY <1>1 DEF Adding
  <2>2. Sum(w, T) \in Nat /\ Sum(u, T) \in Nat /\ Sum(w, T) <= Sum(u, T)
    BY <1>1, <1>2, <1>4 DEF Adding
  <2>3. w[x] \in Nat /\ u[x] \in Nat /\ w[x] <= u[x]
    OBVIOUS
  <2>4. Sum(w, T \cup {x}) <= Sum(u, T \cup {x})
    BY <2>1, <2>2, <2>3
  <2> QED BY <1>2, <2>4
<1>5. \A T \in SUBSET S : T \in ok
  BY <1>3, <1>4, BySubsets
<1> QED BY <1>2, <1>5

LEMMA SumSame ==
  ASSUME NEW S, IsFiniteSet(S), NEW w, \A x \in S : w[x] \in Nat, NEW u, \A x \in S : u[x] = w[x]
  PROVE  Sum(u, S) = Sum(w, S)
<1>1. \A x \in S : u[x] \in Nat /\ w[x] <= u[x] /\ u[x] <= w[x]
  OBVIOUS
<1>2. Sum(w, S) <= Sum(u, S) /\ Sum(u, S) <= Sum(w, S)
  BY <1>1, SumBelow
<1>3. Sum(w, S) \in Nat /\ Sum(u, S) \in Nat
  <2>1. Adding(w, S) /\ Adding(u, S)
    BY <1>1, SumAdds
  <2> QED BY <2>1 DEF Adding
<1> QED BY <1>2, <1>3

(* The sum of two sets apart.                                               *)
LEMMA SumApart ==
  ASSUME NEW S, IsFiniteSet(S), NEW w, \A x \in S : w[x] \in Nat,
         NEW A \in SUBSET S, NEW B \in SUBSET S, A \cap B = {}
  PROVE  Sum(w, A \cup B) = Sum(w, A) + Sum(w, B)
<1>1. Adding(w, S)
  BY SumAdds
<1>2. PICK ok : ok = {T \in SUBSET B : Sum(w, A \cup T) = Sum(w, A) + Sum(w, T)}
  OBVIOUS
<1>3. {} \in ok
  <2>1. A \cup {} = A /\ Sum(w, A) \in Nat /\ Sum(w, {}) = 0
    BY <1>1 DEF Adding
  <2>2. Sum(w, A) = Sum(w, A) + Sum(w, {})
    BY <2>1
  <2> QED BY <1>2, <2>1, <2>2
<1>4. ASSUME NEW T \in SUBSET B, NEW x \in B \ T, T \in ok PROVE T \cup {x} \in ok
  <2>1. PICK U \in SUBSET S : U = A \cup T
    OBVIOUS
  <2>2. x \in S \ U /\ x \in S \ T /\ T \in SUBSET S /\ A \cup (T \cup {x}) = U \cup {x}
    BY <2>1
  <2>3. Sum(w, U \cup {x}) = w[x] + Sum(w, U) /\ Sum(w, T \cup {x}) = w[x] + Sum(w, T)
    BY <1>1, <2>2 DEF Adding
  <2>4. Sum(w, U) = Sum(w, A) + Sum(w, T)
    BY <1>2, <1>4, <2>1
  <2>5. Sum(w, A) \in Nat /\ Sum(w, T) \in Nat /\ w[x] \in Nat
    BY <1>1, <2>2 DEF Adding
  <2>6. Sum(w, U \cup {x}) = Sum(w, A) + Sum(w, T \cup {x})
    BY <2>3, <2>4, <2>5
  <2>7. Sum(w, A \cup (T \cup {x})) = Sum(w, A) + Sum(w, T \cup {x})
    BY <2>2, <2>6
  <2> QED BY <1>2, <2>7
<1>5. IsFiniteSet(B)
  BY FS_Subset
<1>6. \A T \in SUBSET B : T \in ok
  BY <1>3, <1>4, <1>5, BySubsets
<1> QED BY <1>2, <1>6

LEMMA SumWithin ==
  ASSUME NEW S, IsFiniteSet(S), NEW w, \A x \in S : w[x] \in Nat, NEW A \in SUBSET S
  PROVE  Sum(w, A) <= Sum(w, S)
<1>1. PICK B \in SUBSET S : B = S \ A
  OBVIOUS
<1>2. A \cap B = {} /\ A \cup B = S
  BY <1>1
<1>3. Sum(w, A \cup B) = Sum(w, A) + Sum(w, B)
  BY <1>2, SumApart
<1>4. Sum(w, A) \in Nat /\ Sum(w, B) \in Nat
  BY SumAdds DEF Adding
<1>5. Sum(w, S) = Sum(w, A) + Sum(w, B)
  BY <1>2, <1>3
<1> QED BY <1>4, <1>5

(* There is something where something counts.                               *)
LEMMA SumPositive ==
  ASSUME NEW S, IsFiniteSet(S), NEW w, \A x \in S : w[x] \in Nat \ {0}
  PROVE  Sum(w, S) \in Nat /\ (Sum(w, S) > 0 <=> S # {})
<1>1. Adding(w, S)
  BY SumAdds
<1>2. Sum(w, S) \in Nat /\ Sum(w, {}) = 0
  BY <1>1 DEF Adding
<1>3. ASSUME NEW x \in S PROVE Sum(w, S) > 0
  <2>1. PICK T \in SUBSET S : T = S \ {x}
    OBVIOUS
  <2>2. Sum(w, T \cup {x}) = w[x] + Sum(w, T) /\ Sum(w, T) \in Nat /\ w[x] \in Nat \ {0}
    BY <1>1, <2>1 DEF Adding
  <2>3. T \cup {x} = S
    BY <2>1
  <2>4. Sum(w, S) = w[x] + Sum(w, T)
    BY <2>2, <2>3
  <2> QED BY <2>2, <2>4
<1> QED BY <1>2, <1>3

(* What is summed kind by kind is summed.                                   *)
ByKind(t, K, w, S, f) == \A k \in K : t[k] = Sum(w, {x \in S : f[x] = k})

LEMMA SumByKind ==
  ASSUME NEW S, IsFiniteSet(S), NEW w, \A x \in S : w[x] \in Nat, NEW K, IsFiniteSet(K),
         NEW f, \A x \in S : f[x] \in K, NEW t, ByKind(t, K, w, S, f)
  PROVE  Sum(t, K) = Sum(w, S)
<1>1. Adding(w, S)
  BY SumAdds
<1>2. \A k \in K : t[k] \in Nat
  BY <1>1 DEF Adding, ByKind
<1>3. Adding(t, K)
  BY <1>2, SumAdds
<1>4. PICK of : of = [L \in SUBSET K |-> {x \in S : f[x] \in L}]
  OBVIOUS
<1>5. PICK ok : ok = {L \in SUBSET K : Sum(t, L) = Sum(w, of[L])}
  OBVIOUS
<1>6. {} \in ok
  <2>1. of[{}] = {}
    BY <1>4
  <2> QED BY <1>1, <1>3, <1>5, <2>1 DEF Adding
<1>7. ASSUME NEW L \in SUBSET K, NEW k \in K \ L, L \in ok PROVE L \cup {k} \in ok
  <2>1. PICK A \in SUBSET S : A = of[L]
    BY <1>4
  <2>2. PICK B \in SUBSET S : B = {x \in S : f[x] = k}
    OBVIOUS
  <2>3. A \cap B = {} /\ of[L \cup {k}] = A \cup B
    BY <1>4, <2>1, <2>2
  <2>4. Sum(w, A \cup B) = Sum(w, A) + Sum(w, B)
    BY <2>3, SumApart
  <2>5. Sum(t, L \cup {k}) = t[k] + Sum(t, L)
    BY <1>3 DEF Adding
  <2>6. t[k] = Sum(w, B) /\ Sum(t, L) = Sum(w, A)
    BY <1>5, <1>7, <2>1, <2>2 DEF ByKind
  <2>7. Sum(w, A) \in Nat /\ Sum(w, B) \in Nat
    BY <1>1 DEF Adding
  <2>8. Sum(t, L \cup {k}) = Sum(w, A \cup B)
    BY <2>4, <2>5, <2>6, <2>7
  <2> QED BY <1>5, <2>3, <2>8
<1>8. \A L \in SUBSET K : L \in ok
  BY <1>6, <1>7, BySubsets
<1>9. of[K] = S
  BY <1>4
<1> QED BY <1>5, <1>8, <1>9

(* One that counts more by so much at one place sums to as much more.       *)
LEMMA SumMore ==
  ASSUME NEW S, IsFiniteSet(S), NEW w, \A x \in S : w[x] \in Nat, NEW y \in S, NEW n \in Nat,
         NEW u, \A x \in S : u[x] = w[x] + IF x = y THEN n ELSE 0
  PROVE  Sum(u, S) = Sum(w, S) + n
<1>1. \A x \in S : u[x] \in Nat /\ (x # y => u[x] = w[x])
  OBVIOUS
<1>2. PICK T \in SUBSET S : T = S \ {y}
  OBVIOUS
<1>3. T \cup {y} = S /\ y \in S \ T /\ IsFiniteSet(T) /\ \A x \in T : u[x] = w[x] /\ w[x] \in Nat
  BY <1>1, <1>2, FS_Subset
<1>4. Sum(u, T) = Sum(w, T)
  BY <1>3, SumSame
<1>5. Adding(w, S) /\ Adding(u, S)
  BY <1>1, SumAdds
<1>6. Sum(w, S) = w[y] + Sum(w, T) /\ Sum(u, S) = u[y] + Sum(u, T) /\ Sum(w, T) \in Nat
  BY <1>3, <1>5 DEF Adding
<1>7. u[y] = w[y] + n /\ w[y] \in Nat
  OBVIOUS
<1> QED BY <1>4, <1>6, <1>7

-----------------------------------------------------------------------------
(* Sorted rows.                                                             *)

Orders(B, S) ==
  /\ \A p \in S : <<p, p>> \notin B
  /\ \A p, q \in S : p # q => <<p, q>> \in B \/ <<q, p>> \in B
  /\ \A p, q, r \in S : <<p, q>> \in B /\ <<q, r>> \in B => <<p, r>> \in B

InOrder(rows, c, B) == \A m, n \in 1..c : m < n => <<rows[m], rows[n]>> \in B

LEMMA Between == ASSUME NEW a \in Int, NEW b \in Int
                 PROVE  IsFiniteSet(a..b) /\ Cardinality(a..b) = IF a > b THEN 0 ELSE b - a + 1
<1>1. IsFiniteSet(a..b)
  BY FS_Interval
<1>2. PICK n : n = Cardinality(a..b)
  OBVIOUS
<1>3. n = IF a > b THEN 0 ELSE b - a + 1
  BY <1>2, FS_Interval
<1> QED BY <1>1, <1>2, <1>3

LEMMA UpTo == ASSUME NEW c \in Nat PROVE IsFiniteSet(1..c) /\ Cardinality(1..c) = c
<1>1. IsFiniteSet(1..c)
  BY FS_Interval
<1>2. PICK n : n = Cardinality(1..c)
  OBVIOUS
<1>3. n = IF 1 > c THEN 0 ELSE c - 1 + 1
  BY <1>2, FS_Interval
<1>4. n = c
  BY <1>3
<1> QED BY <1>1, <1>2, <1>4

(* Whatever is ordered can be put in order.                                 *)
LEMMA Sortable ==
  ASSUME NEW S, IsFiniteSet(S), NEW c, c = Cardinality(S), NEW B, Orders(B, S)
  PROVE  \E rows \in [1..c -> S] : InOrder(rows, c, B)
<1>1. c \in Nat /\ \A T \in SUBSET S : IsFiniteSet(T) /\ Cardinality(T) \in Nat /\ Cardinality(T) <= c
  BY FS_Subset, FS_CardinalityType
<1>2. PICK to : to = [p \in S |-> {q \in S : <<q, p>> \in B \/ q = p}]
  OBVIOUS
<1>3. PICK r : r = [p \in S |-> Cardinality(to[p])]
  OBVIOUS
<1>4. \A p \in S : to[p] \in SUBSET S /\ p \in to[p]
  BY <1>2
<1>5. ASSUME NEW p \in S PROVE r[p] \in 1..c
  <2>1. r[p] = Cardinality(to[p]) /\ IsFiniteSet(to[p]) /\ r[p] \in Nat /\ r[p] <= c
    BY <1>1, <1>3, <1>4
  <2>2. r[p] # 0
    BY <1>4, <2>1, FS_EmptySet
  <2> QED BY <1>1, <2>1, <2>2
<1>6. ASSUME NEW p \in S, NEW q \in S, <<p, q>> \in B PROVE r[p] < r[q]
  <2>1. to[p] = {k \in S : <<k, p>> \in B \/ k = p} /\ to[q] = {k \in S : <<k, q>> \in B \/ k = q}
    BY <1>2
  <2>2. \A k \in S : <<k, p>> \in B => <<k, q>> \in B
    BY <1>6 DEF Orders
  <2>3. to[p] \subseteq to[q] /\ q \in to[q]
    BY <1>6, <2>1, <2>2
  <2>4. q \notin to[p]
    <3>1. ~(<<q, p>> \in B)
      BY <1>6 DEF Orders
    <3>2. q # p
      BY <1>6 DEF Orders
    <3> QED BY <2>1, <3>1, <3>2
  <2>5. Cardinality(to[p] \cup {q}) = Cardinality(to[p]) + 1
    BY <1>1, <1>4, <2>4, FS_AddElement
  <2>6. IsFiniteSet(to[q]) /\ to[p] \cup {q} \in SUBSET to[q]
    BY <1>1, <1>4, <2>3
  <2>7. Cardinality(to[p] \cup {q}) <= Cardinality(to[q])
    BY <2>6, FS_Subset
  <2>8. r[p] = Cardinality(to[p]) /\ r[q] = Cardinality(to[q]) /\ r[p] \in Nat /\ r[q] \in Nat
    BY <1>1, <1>3, <1>4
  <2> QED BY <2>5, <2>7, <2>8
<1>7. \A p, q \in S : p # q => r[p] # r[q]
  <2> SUFFICES ASSUME NEW p \in S, NEW q \in S, p # q PROVE r[p] # r[q]
    OBVIOUS
  <2>1. <<p, q>> \in B \/ <<q, p>> \in B
    BY DEF Orders
  <2>2. r[p] < r[q] \/ r[q] < r[p]
    BY <1>6, <2>1
  <2>3. r[p] \in 1..c /\ r[q] \in 1..c
    BY <1>5
  <2> QED BY <1>1, <2>2, <2>3
<1>8. \A n \in 1..c : \E p \in S : r[p] = n
  <2>1. r \in [S -> 1..c]
    BY <1>3, <1>5
  <2>2. r \in Injection(S, 1..c)
    BY <1>7, <2>1 DEF Injection, IsInjective
  <2>3. IsFiniteSet(1..c) /\ Cardinality(1..c) = c
    BY <1>1, UpTo
  <2>4. r \in Surjection(S, 1..c)
    BY <2>2, <2>3, FS_Injection
  <2> QED BY <2>4 DEF Surjection
<1>9. PICK rows : rows = [n \in 1..c |-> CHOOSE p \in S : r[p] = n]
  OBVIOUS
<1>10. \A n \in 1..c : rows[n] \in S /\ r[rows[n]] = n
  BY <1>8, <1>9
<1>11. rows \in [1..c -> S]
  BY <1>9, <1>10
<1>12. ASSUME NEW m \in 1..c, NEW n \in 1..c, m < n PROVE <<rows[m], rows[n]>> \in B
  <2>1. PICK p \in S, q \in S : p = rows[m] /\ q = rows[n] /\ r[p] = m /\ r[q] = n
    BY <1>10
  <2>2. m \in Nat /\ n \in Nat
    BY <1>1
  <2>3. p # q
    BY <1>12, <2>1, <2>2
  <2>4. ~(<<q, p>> \in B)
    <3>1. ~(r[q] < r[p])
      BY <1>12, <2>1, <2>2
    <3> QED BY <1>6, <3>1
  <2>5. <<p, q>> \in B
    BY <2>3, <2>4 DEF Orders
  <2> QED BY <2>1, <2>5
<1> QED BY <1>11, <1>12 DEF InOrder

(* Rows in order have everyone.                                             *)
LEMMA AllInRows ==
  ASSUME NEW S, IsFiniteSet(S), NEW c, c = Cardinality(S), NEW B, Orders(B, S),
         NEW rows \in [1..c -> S], InOrder(rows, c, B)
  PROVE  \A p \in S : \E n \in 1..c : rows[n] = p
<1>1. c \in Nat
  BY FS_CardinalityType
<1>2. IsFiniteSet(1..c) /\ Cardinality(1..c) = c
  BY <1>1, UpTo
<1>3. ASSUME NEW m \in 1..c, NEW n \in 1..c, m < n PROVE rows[m] # rows[n]
  <2>1. <<rows[m], rows[n]>> \in B /\ rows[m] \in S
    BY <1>3 DEF InOrder
  <2> QED BY <2>1 DEF Orders
<1>4. ASSUME NEW m \in 1..c, NEW n \in 1..c, m # n PROVE rows[m] # rows[n]
  <2>1. m < n \/ n < m
    BY <1>1, <1>4
  <2> QED BY <1>3, <2>1
<1>5. rows \in Injection(1..c, S)
  BY <1>4 DEF Injection, IsInjective
<1>6. rows \in Surjection(1..c, S)
  BY <1>2, <1>5, FS_Injection
<1> QED BY <1>6 DEF Surjection

-----------------------------------------------------------------------------
(* Views, and the rows they are told in.                                    *)

Counted(b) ==
  /\ IsFiniteSet(DOMAIN b) /\ DOMAIN b \subseteq Day \X Domain \X Path
  /\ \A v \in DOMAIN b : b[v] \in Nat \ {0}

Of(b, days, domains, paths) == {v \in DOMAIN b : v[1] \in days /\ v[2] \in domains /\ v[3] \in paths}

LEMMA NumBounds ==
  /\ FinalDay \in Nat /\ LastStatPost \in Nat /\ RangeDays \in Nat \ {0} /\ DayRowCap \in Nat /\ RowCap \in Nat
  /\ PostBatch \in Nat \ {0} /\ BatchBudget \in Nat \ {0} /\ EnoughViews \in Nat /\ MaxHappened \in Nat
  /\ Day \subseteq Nat /\ Day = 0..FinalDay /\ IsFiniteSet(Day)
  /\ StatPost \subseteq Nat /\ IsFiniteSet(StatPost) /\ StatPost = 1..LastStatPost
<1>1. /\ FinalDay \in Nat /\ LastStatPost \in Nat /\ RangeDays \in Nat \ {0} /\ DayRowCap \in Nat /\ RowCap \in Nat
      /\ PostBatch \in Nat \ {0} /\ BatchBudget \in Nat \ {0} /\ EnoughViews \in Nat /\ MaxHappened \in Nat
  BY NumbersAssumption
<1>2. Day \subseteq Nat /\ Day = 0..FinalDay /\ StatPost \subseteq Nat /\ StatPost = 1..LastStatPost
  BY <1>1 DEF Day, StatPost
<1>3. IsFiniteSet(Day) /\ IsFiniteSet(StatPost)
  BY <1>1, <1>2, Between
<1> QED BY <1>1, <1>2, <1>3

LEMMA ViewsAre ==
  ASSUME NEW b, Counted(b), NEW days, NEW domains, NEW paths
  PROVE  /\ ViewsIn(b, days, domains, paths) = Sum(b, Of(b, days, domains, paths))
         /\ IsFiniteSet(Of(b, days, domains, paths)) /\ \A v \in Of(b, days, domains, paths) : b[v] \in Nat \ {0}
         /\ ViewsIn(b, days, domains, paths) \in Nat
         /\ ViewsIn(b, days, domains, paths) > 0 <=> Of(b, days, domains, paths) # {}
<1>1. PICK S : S = Of(b, days, domains, paths)
  OBVIOUS
<1>2. S \in SUBSET DOMAIN b
  BY <1>1 DEF Of
<1>3. IsFiniteSet(S) /\ \A v \in S : b[v] \in Nat \ {0}
  BY <1>2, FS_Subset DEF Counted
<1>4. ViewsIn(b, days, domains, paths) = Sum(b, S)
  BY <1>1 DEF ViewsIn, Of
<1>5. Sum(b, S) \in Nat /\ (Sum(b, S) > 0 <=> S # {})
  BY <1>3, SumPositive
<1> QED BY <1>1, <1>3, <1>4, <1>5

(* Views that are the same ones are as many.                                *)
LEMMA SameViews ==
  ASSUME NEW b, NEW days, NEW domains, NEW paths, NEW days2, NEW domains2, NEW paths2,
         Of(b, days, domains, paths) = Of(b, days2, domains2, paths2)
  PROVE  ViewsIn(b, days, domains, paths) = ViewsIn(b, days2, domains2, paths2)
BY DEF ViewsIn, Of

LEMMA MoreViews ==
  ASSUME NEW b, Counted(b), NEW days, NEW domains, NEW paths, NEW days2, NEW domains2, NEW paths2,
         Of(b, days, domains, paths) \subseteq Of(b, days2, domains2, paths2)
  PROVE  ViewsIn(b, days, domains, paths) <= ViewsIn(b, days2, domains2, paths2)
<1>1. PICK A, S : A = Of(b, days, domains, paths) /\ S = Of(b, days2, domains2, paths2)
  OBVIOUS
<1>2. IsFiniteSet(S) /\ (\A v \in S : b[v] \in Nat) /\ A \in SUBSET S
  BY <1>1, ViewsAre
<1>3. Sum(b, A) <= Sum(b, S)
  BY <1>2, SumWithin
<1> QED BY <1>1, <1>3, ViewsAre

(* The views of days, or of domains, are those of each.                     *)
DayByDay(t, b, K, domains, paths) == \A k \in K : t[k] = ViewsIn(b, {k}, domains, paths)
SiteBySite(t, b, days, K, paths) == \A k \in K : t[k] = ViewsIn(b, days, {k}, paths)

LEMMA ViewsByDay ==
  ASSUME NEW b, Counted(b), NEW K, IsFiniteSet(K), NEW domains, NEW paths,
         NEW t, DayByDay(t, b, K, domains, paths)
  PROVE  Sum(t, K) = ViewsIn(b, K, domains, paths)
<1>1. PICK S : S = Of(b, K, domains, paths)
  OBVIOUS
<1>2. IsFiniteSet(S) /\ (\A v \in S : b[v] \in Nat) /\ ViewsIn(b, K, domains, paths) = Sum(b, S)
  BY <1>1, ViewsAre
<1>3. PICK f : f = [v \in S |-> v[1]]
  OBVIOUS
<1>4. \A v \in S : f[v] \in K
  BY <1>1, <1>3 DEF Of
<1>5. ASSUME NEW k \in K PROVE t[k] = Sum(b, {v \in S : f[v] = k})
  <2>1. PICK A : A = {v \in S : f[v] = k}
    OBVIOUS
  <2>2. A = Of(b, {k}, domains, paths)
    BY <1>1, <1>3, <2>1 DEF Of
  <2>3. t[k] = Sum(b, A)
    BY <2>2, ViewsAre DEF DayByDay
  <2> QED BY <2>1, <2>3
<1>6. Sum(t, K) = Sum(b, S)
  BY <1>2, <1>4, <1>5, SumByKind DEF ByKind
<1> QED BY <1>2, <1>6

LEMMA ViewsByDomain ==
  ASSUME NEW b, Counted(b), NEW K, IsFiniteSet(K), NEW days, NEW paths,
         NEW t, SiteBySite(t, b, days, K, paths)
  PROVE  Sum(t, K) = ViewsIn(b, days, K, paths)
<1>1. PICK S : S = Of(b, days, K, paths)
  OBVIOUS
<1>2. IsFiniteSet(S) /\ (\A v \in S : b[v] \in Nat) /\ ViewsIn(b, days, K, paths) = Sum(b, S)
  BY <1>1, ViewsAre
<1>3. PICK f : f = [v \in S |-> v[2]]
  OBVIOUS
<1>4. \A v \in S : f[v] \in K
  BY <1>1, <1>3 DEF Of
<1>5. ASSUME NEW k \in K PROVE t[k] = Sum(b, {v \in S : f[v] = k})
  <2>1. PICK A : A = {v \in S : f[v] = k}
    OBVIOUS
  <2>2. A = Of(b, days, {k}, paths)
    BY <1>1, <1>3, <2>1 DEF Of
  <2>3. t[k] = Sum(b, A)
    BY <2>2, ViewsAre DEF SiteBySite
  <2> QED BY <2>1, <2>3
<1>6. Sum(t, K) = Sum(b, S)
  BY <1>2, <1>4, <1>5, SumByKind DEF ByKind
<1> QED BY <1>2, <1>6

(* The days of an inquiry with a view, and the rows of them.                *)
Busy(b, floor) == {d \in Day : d >= floor /\ ViewsIn(b, {d}, Domain, Path) > 0}

LEMMA RowsAre ==
  ASSUME NEW b, Counted(b), NEW floor
  PROVE  /\ DOMAIN DayRows(b, floor) \subseteq Busy(b, floor) /\ IsFiniteSet(DOMAIN DayRows(b, floor))
         /\ \A d \in DOMAIN DayRows(b, floor) : DayRows(b, floor)[d] = ViewsIn(b, {d}, Domain, Path)
         /\ Cardinality(Busy(b, floor)) <= DayRowCap => DOMAIN DayRows(b, floor) = Busy(b, floor)
<1>1. PICK busy : busy = Busy(b, floor)
  OBVIOUS
<1>2. DayRows(b, floor) = [d \in {d \in busy : Cardinality({e \in busy : e <= d}) <= DayRowCap}
                                  |-> ViewsIn(b, {d}, Domain, Path)]
  BY <1>1 DEF DayRows, Busy
<1>3. IsFiniteSet(busy)
  <2>1. busy \in SUBSET Day
    BY <1>1 DEF Busy
  <2> QED BY <2>1, NumBounds, FS_Subset
<1>4. PICK D : D = {d \in busy : Cardinality({e \in busy : e <= d}) <= DayRowCap}
  OBVIOUS
<1>5. DOMAIN DayRows(b, floor) = D /\ D \in SUBSET busy
  BY <1>2, <1>4
<1>6. \A d \in D : DayRows(b, floor)[d] = ViewsIn(b, {d}, Domain, Path)
  BY <1>2, <1>4
<1>7. ASSUME Cardinality(busy) <= DayRowCap PROVE D = busy
  <2>1. ASSUME NEW d \in busy PROVE Cardinality({e \in busy : e <= d}) <= DayRowCap
    <3>1. PICK T \in SUBSET busy : T = {e \in busy : e <= d}
      OBVIOUS
    <3>2. Cardinality(T) <= Cardinality(busy) /\ Cardinality(T) \in Nat /\ Cardinality(busy) \in Nat
      BY <1>3, FS_Subset, FS_CardinalityType
    <3>3. Cardinality(T) <= DayRowCap
      BY <1>7, <3>2, NumBounds
    <3> QED BY <3>1, <3>3
  <2> QED BY <1>4, <2>1
<1> QED BY <1>1, <1>3, <1>5, <1>6, <1>7, FS_Subset

(* Rows that were not cut add up to the views of the days.                  *)
LEMMA DaysTile ==
  ASSUME NEW b, Counted(b), NEW floor \in Int, Cardinality(Busy(b, floor)) <= DayRowCap,
         NEW days, \A d \in Day : d \in days => d >= floor
  PROVE  SumOf(DayRows(b, floor), days) = ViewsIn(b, days, Domain, Path)
<1>1. PICK rows, K : rows = DayRows(b, floor) /\ K = DOMAIN rows \cap days
  OBVIOUS
<1>2. DOMAIN rows = Busy(b, floor) /\ IsFiniteSet(DOMAIN rows)
  BY <1>1, RowsAre
<1>3. K \in SUBSET DOMAIN rows
  BY <1>1
<1>4. IsFiniteSet(K)
  BY <1>2, <1>3, FS_Subset
<1>5. \A k \in K : rows[k] = ViewsIn(b, {k}, Domain, Path)
  BY <1>1, <1>3, RowsAre
<1>6. Sum(rows, K) = ViewsIn(b, K, Domain, Path)
  <2>1. DayByDay(rows, b, K, Domain, Path)
    BY <1>5 DEF DayByDay
  <2> QED BY <1>4, <2>1, ViewsByDay
<1>7. ASSUME NEW v \in Of(b, days, Domain, Path) PROVE v \in Of(b, K, Domain, Path)
  <2>1. v \in DOMAIN b /\ v[1] \in days /\ v[2] \in Domain /\ v[3] \in Path
    BY DEF Of
  <2>2. v[1] \in Day
    BY <2>1 DEF Counted
  <2>3. PICK d \in Day : d = v[1]
    BY <2>2
  <2>4. d >= floor
    BY <2>1, <2>3
  <2>5. v \in Of(b, {d}, Domain, Path)
    BY <2>1, <2>3 DEF Of
  <2>6. ViewsIn(b, {d}, Domain, Path) > 0
    BY <2>5, ViewsAre
  <2>7. d \in Busy(b, floor)
    BY <2>4, <2>6 DEF Busy
  <2>8. d \in K
    BY <1>1, <1>2, <2>1, <2>3, <2>7
  <2> QED BY <2>1, <2>3, <2>8 DEF Of
<1>8. Of(b, K, Domain, Path) \subseteq Of(b, days, Domain, Path)
  BY <1>1 DEF Of
<1>9. Of(b, K, Domain, Path) = Of(b, days, Domain, Path)
  BY <1>7, <1>8
<1>10. ViewsIn(b, K, Domain, Path) = ViewsIn(b, days, Domain, Path)
  BY <1>9, SameViews
<1>11. SumOf(rows, days) = Sum(rows, K)
  BY <1>1 DEF SumOf
<1> QED BY <1>1, <1>6, <1>10, <1>11

-----------------------------------------------------------------------------
(* Totals.                                                                  *)

(* What an inquiry is, whatever has happened since.                         *)
Asked(i) ==
  /\ i.range \in RangeKind /\ i.day \in Day /\ Counted(i.counted)
  /\ Counted(viewed) /\ i.counted \sqsubseteq viewed

LEMMA Windows ==
  ASSUME NEW i, i.range \in RangeKind, i.day \in Day
  PROVE  \E lo, floor \in Int :
           /\ WindowOf(i).days = lo..i.day /\ QueryFloor(i.range, i.day) = floor /\ floor <= lo
           /\ i.range = "fixed" => floor + 1 <= lo - 1 /\ WindowOf(i).previous = floor + 1..lo - 1
           /\ i.range = "all" => WindowOf(i).previous = {}
<1>1. PICK day \in Nat, R \in Nat \ {0} : day = i.day /\ R = RangeDays
  BY NumBounds
<1>2. CASE i.range = "all"
  <2>1. WindowOf(i) = [days |-> 0..day, previous |-> {}] /\ QueryFloor(i.range, i.day) = 0
    BY <1>1, <1>2 DEF WindowOf, RangeWindow, QueryFloor
  <2>2. i.range # "fixed"
    BY <1>2
  <2> QED BY <1>1, <2>1, <2>2
<1>3. CASE i.range = "fixed"
  <2>1. i.range # "all"
    BY <1>3
  <2>2. PICK lo \in Int, floor \in Int : lo = day - R + 1 /\ floor = day - 2 * R
    BY <1>1
  <2>3. WindowOf(i) = [days |-> lo..day, previous |-> day - 2 * R + 1..day - R]
    BY <1>1, <2>1, <2>2 DEF WindowOf, RangeWindow
  <2>4. day - 2 * R + 1 = floor + 1 /\ day - R = lo - 1 /\ floor + 1 <= lo - 1 /\ floor <= lo
    BY <1>1, <2>2
  <2>5. QueryFloor(i.range, i.day) = floor
    BY <1>1, <2>1, <2>2 DEF QueryFloor
  <2>6. WindowOf(i).days = lo..day /\ WindowOf(i).previous = floor + 1..lo - 1
    BY <2>3, <2>4
  <2> QED BY <1>1, <2>1, <2>4, <2>5, <2>6
<1> QED BY <1>2, <1>3 DEF RangeKind

LEMMA LeastBetween == ASSUME NEW a \in Int, NEW b \in Int, a <= b PROVE Min(a..b) = a
<1>1. a \in a..b /\ \A x \in a..b : a <= x
  OBVIOUS
<1>2. Min(a..b) \in a..b /\ \A x \in a..b : Min(a..b) <= x
  BY <1>1 DEF Min
<1> QED BY <1>1, <1>2

LEMMA MinOf ==
  ASSUME NEW S \in SUBSET Day, S # {}
  PROVE  /\ Min(S) \in S /\ (\A d \in S : Min(S) <= d) /\ Max(S) \in S /\ (\A d \in S : d <= Max(S))
<1>1. FinalDay \in Nat /\ S \in SUBSET Nat /\ S \in SUBSET (0..FinalDay)
  BY NumBounds
<1>2. \E m \in S : \A d \in S : m <= d
  BY <1>1, LeastOne
<1>3. \E m \in S : \A d \in S : d <= m
  BY <1>1, GreatestOne
<1>4. \E m \in S : \A d \in S : m >= d
  <2>1. PICK m \in S : \A d \in S : d <= m
    BY <1>3
  <2>2. \A d \in S : m >= d
    BY <1>1, <2>1
  <2> QED BY <2>2
<1>5. Min(S) \in S /\ \A d \in S : Min(S) <= d
  BY <1>2 DEF Min
<1>6. Max(S) \in S /\ \A d \in S : Max(S) >= d
  BY <1>4 DEF Max
<1> QED BY <1>1, <1>5, <1>6

(* The least of the days told is no later than the first of the window      *)
(* before exactly when there were views on that or on the day before.       *)
LEMMA FarEnough ==
  ASSUME NEW b, Counted(b), NEW floor \in Int, NEW days, days = Busy(b, floor), days # {}
  PROVE  Min(days) <= floor + 1 <=> ViewsIn(b, {floor, floor + 1}, Domain, Path) > 0
<1>1. days \in SUBSET Day /\ Day \subseteq Nat
  BY NumBounds DEF Busy
<1>2. Min(days) \in days /\ \A d \in days : Min(days) <= d
  BY <1>1, MinOf
<1>3. PICK least \in days : least = Min(days)
  BY <1>2
<1>4. least \in Nat /\ least >= floor /\ ViewsIn(b, {least}, Domain, Path) > 0
  BY <1>1 DEF Busy
<1>5. ASSUME least <= floor + 1 PROVE ViewsIn(b, {floor, floor + 1}, Domain, Path) > 0
  <2>1. PICK v : v \in Of(b, {least}, Domain, Path)
    BY <1>4, ViewsAre
  <2>2. least \in {floor, floor + 1}
    BY <1>4, <1>5
  <2>3. v \in Of(b, {floor, floor + 1}, Domain, Path)
    BY <2>1, <2>2 DEF Of
  <2> QED BY <2>3, ViewsAre
<1>6. ASSUME ViewsIn(b, {floor, floor + 1}, Domain, Path) > 0 PROVE least <= floor + 1
  <2>1. PICK v : v \in Of(b, {floor, floor + 1}, Domain, Path)
    BY <1>6, ViewsAre
  <2>2. v \in DOMAIN b /\ v[1] \in {floor, floor + 1}
    BY <2>1 DEF Of
  <2>3. PICK d \in Day : d = v[1]
    BY <2>2 DEF Counted
  <2>4. d \in Nat /\ d >= floor /\ d <= floor + 1
    BY <2>2, <2>3, NumBounds
  <2>5. v \in Of(b, {d}, Domain, Path)
    BY <2>1, <2>3 DEF Of
  <2>6. d \in days
    BY <2>4, <2>5, ViewsAre DEF Busy
  <2>7. least <= d
    BY <1>2, <1>3, <2>6
  <2> QED BY <1>4, <2>4, <2>7
<1> QED BY <1>3, <1>5, <1>6

LEMMA UncutIs ==
  ASSUME NEW i, Uncut(i), NEW floor, QueryFloor(i.range, i.day) = floor
  PROVE  Cardinality(Busy(i.counted, floor)) <= DayRowCap
BY DEF Uncut, Busy

LEMMA Tiles == ASSUME NEW i, Asked(i) PROVE TotalsTile(i)
<1> SUFFICES ASSUME Uncut(i) PROVE TotalsTile(i)
  BY DEF TotalsTile
<1>1. PICK b, rows, w : b = i.counted /\ rows = RowsOf(i) /\ w = WindowOf(i)
  OBVIOUS
<1>2. PICK lo \in Int, floor \in Int :
           /\ w.days = lo..i.day /\ QueryFloor(i.range, i.day) = floor /\ floor <= lo
           /\ i.range = "fixed" => floor + 1 <= lo - 1 /\ w.previous = floor + 1..lo - 1
           /\ i.range = "all" => w.previous = {}
  BY <1>1, Windows DEF Asked
<1>3. Counted(b) /\ rows = DayRows(b, floor) /\ i.day \in Nat /\ Day \subseteq Nat
  BY <1>1, <1>2, NumBounds DEF Asked, RowsOf
<1>4. PICK days : days = Busy(b, floor)
  OBVIOUS
<1>5. Cardinality(days) <= DayRowCap
  BY <1>1, <1>2, <1>4, UncutIs
<1>6. DOMAIN rows = days
  BY <1>3, <1>4, <1>5, RowsAre
<1>7. \A d \in Day : d \in w.days => d >= floor
  BY <1>2, <1>3
<1>8. \A d \in Day : d \in w.previous => d >= floor
  <2>1. CASE i.range = "fixed"
    BY <1>2, <1>3, <2>1
  <2>2. CASE i.range = "all"
    BY <1>2, <2>2
  <2> QED BY <2>1, <2>2 DEF Asked, RangeKind
<1>9. PICK total, before : total = SumOf(rows, w.days) /\ before = SumOf(rows, w.previous)
  OBVIOUS
<1>10. total = ViewsIn(b, w.days, Domain, Path)
  <2>1. PICK span : span = w.days
    OBVIOUS
  <2>2. SumOf(DayRows(b, floor), span) = ViewsIn(b, span, Domain, Path)
    BY <1>3, <1>4, <1>5, <1>7, <2>1, DaysTile
  <2> QED BY <1>3, <1>9, <2>1, <2>2
<1>11. before = ViewsIn(b, w.previous, Domain, Path)
  <2>1. PICK span : span = w.previous
    OBVIOUS
  <2>2. SumOf(DayRows(b, floor), span) = ViewsIn(b, span, Domain, Path)
    BY <1>3, <1>4, <1>5, <1>8, <2>1, DaysTile
  <2> QED BY <1>3, <1>9, <2>1, <2>2
<1>12. ASSUME i.range = "fixed" PROVE total + before = ViewsIn(b, w.days \cup w.previous, Domain, Path)
  <2>1. PICK A, B, S : /\ A = Of(b, w.days, Domain, Path) /\ B = Of(b, w.previous, Domain, Path)
                       /\ S = Of(b, w.days \cup w.previous, Domain, Path)
    OBVIOUS
  <2>2. S = A \cup B
    BY <2>1 DEF Of
  <2>3. A \cap B = {}
    <3>1. w.days \cap w.previous = {}
      BY <1>2, <1>3, <1>12
    <3> QED BY <2>1, <3>1 DEF Of
  <2>4. IsFiniteSet(S) /\ \A v \in S : b[v] \in Nat
    BY <1>3, <2>1, ViewsAre
  <2>5. A \in SUBSET S /\ B \in SUBSET S
    BY <2>2
  <2>6. Sum(b, A \cup B) = Sum(b, A) + Sum(b, B)
    BY <2>3, <2>4, <2>5, SumApart
  <2>7. ViewsIn(b, w.days \cup w.previous, Domain, Path) = Sum(b, S)
    BY <1>3, <2>1, ViewsAre
  <2>8. total = Sum(b, A) /\ before = Sum(b, B)
    BY <1>3, <1>10, <1>11, <2>1, ViewsAre
  <2> QED BY <2>2, <2>6, <2>7, <2>8
<1>13. PICK comparable : comparable = (before > 0 /\ Min(DOMAIN rows) <= Min(w.previous))
  OBVIOUS
<1>14. comparable <=> /\ i.range = "fixed" /\ before > 0
                      /\ ViewsIn(b, {Min(w.previous) - 1, Min(w.previous)}, Domain, Path) > 0
  <2>1. CASE i.range = "fixed"
    <3>1. Min(w.previous) = floor + 1
      <4>1. floor + 1 \in Int /\ lo - 1 \in Int /\ floor + 1 <= lo - 1 /\ w.previous = floor + 1..lo - 1
        BY <1>2, <2>1
      <4>2. PICK x \in Int, y \in Int : x = floor + 1 /\ y = lo - 1
        BY <4>1
      <4>3. Min(x..y) = x
        BY <4>1, <4>2, LeastBetween
      <4> QED BY <4>1, <4>2, <4>3
    <3>2. {Min(w.previous) - 1, Min(w.previous)} = {floor, floor + 1}
      <4>1. (floor + 1) - 1 = floor
        OBVIOUS
      <4> QED BY <3>1, <4>1
    <3>3. ASSUME before > 0 PROVE days # {}
      <4>1. PICK v : v \in Of(b, w.previous, Domain, Path)
        BY <1>3, <1>11, <3>3, ViewsAre
      <4>2. v \in DOMAIN b /\ v[1] \in w.previous
        BY <4>1 DEF Of
      <4>3. PICK d \in Day : d = v[1]
        BY <1>3, <4>2 DEF Counted
      <4>4. v \in Of(b, {d}, Domain, Path) /\ d >= floor
        BY <1>8, <4>1, <4>2, <4>3 DEF Of
      <4>5. d \in days
        BY <1>3, <1>4, <4>4, ViewsAre DEF Busy
      <4> QED BY <4>5
    <3>4. ASSUME before > 0
          PROVE  Min(days) <= floor + 1 <=> ViewsIn(b, {floor, floor + 1}, Domain, Path) > 0
      BY <1>3, <1>4, <3>3, <3>4, FarEnough
    <3> QED BY <1>6, <1>13, <2>1, <3>1, <3>2, <3>4
  <2>2. CASE i.range = "all"
    <3>1. i.range # "fixed" /\ w.previous = {}
      BY <1>2, <2>2
    <3>2. Of(b, w.previous, Domain, Path) = {}
      BY <3>1 DEF Of
    <3>3. ~(before > 0)
      BY <1>3, <1>11, <3>2, ViewsAre
    <3> QED BY <1>13, <3>1, <3>3
  <2> QED BY <2>1, <2>2 DEF Asked, RangeKind
<1>15. PICK s : s = ViewsSection(i)
  OBVIOUS
<1>16. /\ s.status \in {"empty", "ok"} /\ s.total = total /\ s.previous = before
       /\ s.comparable = (before > 0 /\ Min(DOMAIN rows) <= Min(w.previous))
  BY <1>1, <1>9, <1>15 DEF ViewsSection
<1>17. ViewsCard(s) = "none" <=> total = 0
  BY <1>16 DEF ViewsCard
<1>18. TotalsTile(i) <=>
         /\ s.total = ViewsIn(b, w.days, Domain, Path)
         /\ i.range = "fixed" => s.total + s.previous = ViewsIn(b, w.days \cup w.previous, Domain, Path)
         /\ s.comparable <=>
              /\ i.range = "fixed" /\ ViewsIn(b, w.previous, Domain, Path) > 0
              /\ ViewsIn(b, {Min(w.previous) - 1, Min(w.previous)}, Domain, Path) > 0
         /\ ViewsCard(s) = "none" <=> ViewsIn(b, w.days, Domain, Path) = 0
  BY <1>1, <1>15 DEF TotalsTile
<1> QED BY <1>10, <1>11, <1>12, <1>13, <1>14, <1>16, <1>17, <1>18

-----------------------------------------------------------------------------
(* Sources.                                                                 *)

Total(i) == SumOf(RowsOf(i), WindowOf(i).days)

LEMMA MoreSince ==
  ASSUME NEW i, Asked(i), NEW days
  PROVE  ViewsIn(i.counted, days, Domain, Path) <= ViewsIn(viewed, days, Domain, Path)
<1>1. PICK b, u : b = i.counted /\ u = viewed
  OBVIOUS
<1>2. Counted(b) /\ Counted(u) /\ DOMAIN b \subseteq DOMAIN u /\ \A v \in DOMAIN b : b[v] <= u[v]
  BY <1>1 DEF Asked, \sqsubseteq
<1>3. PICK A, S : A = Of(b, days, Domain, Path) /\ S = Of(u, days, Domain, Path)
  OBVIOUS
<1>4. A \in SUBSET S /\ A \in SUBSET DOMAIN b
  BY <1>2, <1>3 DEF Of
<1>5. IsFiniteSet(A) /\ IsFiniteSet(S) /\ (\A v \in A : b[v] \in Nat) /\ (\A v \in S : u[v] \in Nat)
  BY <1>2, <1>3, ViewsAre
<1>6. \A v \in A : b[v] <= u[v] /\ u[v] \in Nat
  BY <1>2, <1>4, <1>5
<1>7. Sum(b, A) <= Sum(u, A)
  BY <1>5, <1>6, SumBelow
<1>8. Sum(u, A) <= Sum(u, S)
  BY <1>4, <1>5, SumWithin
<1>9. Sum(b, A) \in Nat /\ Sum(u, S) \in Nat /\ Sum(u, A) \in Nat
  <2>1. ViewsIn(b, days, Domain, Path) \in Nat /\ ViewsIn(u, days, Domain, Path) \in Nat
    BY <1>2, ViewsAre
  <2>2. Adding(u, S)
    BY <1>5, SumAdds
  <2> QED BY <1>2, <1>3, <1>4, <2>1, <2>2, ViewsAre DEF Adding
<1>10. Sum(b, A) <= Sum(u, S)
  BY <1>7, <1>8, <1>9
<1> QED BY <1>1, <1>2, <1>3, <1>10, ViewsAre

(* The rows of domains are of some of them, each with its views.            *)
LEMMA DomainsAre ==
  ASSUME Counted(viewed), NEW days, NEW rows \in DomainRows(viewed, days)
  PROVE  /\ DOMAIN rows \subseteq Domain /\ IsFiniteSet(DOMAIN rows)
         /\ \A s \in DOMAIN rows : rows[s] = ViewsIn(viewed, days, {s}, Path)
<1>1. PICK b : b = viewed /\ Counted(b)
  OBVIOUS
<1>2. PICK seen : seen = {s \in Domain : ViewsIn(b, days, {s}, Path) > 0}
  OBVIOUS
<1>3. PICK kept \in SUBSET seen : rows = [s \in kept |-> ViewsIn(b, days, {s}, Path)]
  BY <1>1, <1>2 DEF DomainRows
<1>4. PICK all, f : all = {v[2] : v \in DOMAIN b} /\ f = [v \in DOMAIN b |-> v[2]]
  OBVIOUS
<1>5. IsFiniteSet(DOMAIN b)
  BY <1>1 DEF Counted
<1>6. f \in Surjection(DOMAIN b, all)
  <2>1. f \in [DOMAIN b -> all]
    BY <1>4
  <2>2. \A s \in all : \E v \in DOMAIN b : f[v] = s
    BY <1>4
  <2> QED BY <2>1, <2>2 DEF Surjection
<1>7. IsFiniteSet(all)
  BY <1>5, <1>6, FS_Surjection
<1>8. ASSUME NEW s \in seen PROVE s \in all
  <2>1. PICK v : v \in Of(b, days, {s}, Path)
    BY <1>1, <1>2, ViewsAre
  <2>2. v \in DOMAIN b /\ v[2] = s
    BY <2>1 DEF Of
  <2> QED BY <1>4, <2>2
<1>9. kept \in SUBSET all
  BY <1>8
<1>10. IsFiniteSet(kept)
  BY <1>7, <1>9, FS_Subset
<1>11. DOMAIN rows = kept /\ \A s \in kept : rows[s] = ViewsIn(b, days, {s}, Path)
  BY <1>3
<1> QED BY <1>1, <1>2, <1>10, <1>11

LEMMA TotalIs == ASSUME NEW i, Asked(i) PROVE Total(i) \in Nat
<1>1. PICK rows, b, floor : rows = RowsOf(i) /\ b = i.counted /\ floor = QueryFloor(i.range, i.day)
  OBVIOUS
<1>2. PICK K : K = DOMAIN rows \cap WindowOf(i).days
  OBVIOUS
<1>3. Counted(b) /\ rows = DayRows(b, floor)
  BY <1>1 DEF Asked, RowsOf
<1>4. IsFiniteSet(DOMAIN rows) /\ \A d \in DOMAIN rows : rows[d] = ViewsIn(b, {d}, Domain, Path)
  BY <1>3, RowsAre
<1>5. \A d \in DOMAIN rows : rows[d] \in Nat
  <2> SUFFICES ASSUME NEW d \in DOMAIN rows PROVE rows[d] \in Nat
    OBVIOUS
  <2>1. ViewsIn(b, {d}, Domain, Path) \in Nat
    BY <1>3, ViewsAre
  <2> QED BY <1>4, <2>1
<1>6. K \in SUBSET DOMAIN rows
  BY <1>2
<1>7. Sum(rows, K) \in Nat
  BY <1>4, <1>5, <1>6, SumAdds DEF Adding
<1> QED BY <1>1, <1>2, <1>7 DEF Total, SumOf

LEMMA Greater ==
  ASSUME NEW a \in Nat, NEW b \in Nat, NEW m, m = Max({0, a - b}) PROVE m = IF a > b THEN a - b ELSE 0
<1>1. PICK n \in Int : n = a - b
  OBVIOUS
<1>2. PICK k \in {0, n} : k >= 0 /\ k >= n
  OBVIOUS
<1>3. \E x \in {0, n} : \A y \in {0, n} : x >= y
  BY <1>2
<1>4. Max({0, n}) \in {0, n} /\ \A y \in {0, n} : Max({0, n}) >= y
  BY <1>3 DEF Max
<1>5. m \in {0, n} /\ m >= 0 /\ m >= n
  BY <1>1, <1>4
<1> QED BY <1>1, <1>5

(* The buckets of some rows add up to them and the tail.                    *)
BucketOf(rows, k) == {s \in DOMAIN rows : Bucket(s) = k}

LEMMA BucketsAddUp ==
  ASSUME NEW rows, IsFiniteSet(DOMAIN rows), \A s \in DOMAIN rows : rows[s] \in Nat, NEW total \in Nat,
         NEW sum, sum = Sum(rows, DOMAIN rows), NEW buckets, buckets = BucketReferrers(rows, total)
  PROVE  /\ sum \in Nat
         /\ Sum(buckets, DOMAIN buckets) = IF total > sum THEN total ELSE sum
         /\ \A k \in DOMAIN buckets : k # "other" => buckets[k] = Sum(rows, BucketOf(rows, k))
<1>1. PICK kept : kept = DOMAIN rows
  OBVIOUS
<1>2. Adding(rows, kept)
  BY <1>1, SumAdds
<1>3. sum \in Nat
  BY <1>1, <1>2 DEF Adding
<1>4. PICK tail : tail = Max({0, total - sum})
  OBVIOUS
<1>5. tail = (IF total > sum THEN total - sum ELSE 0) /\ tail \in Nat
  BY <1>3, <1>4, Greater
<1>6. PICK other : other = "other"
  OBVIOUS
<1>7. PICK img : img = {Bucket(s) : s \in kept}
  OBVIOUS
<1>8. PICK B : B = img \cup (IF tail > 0 THEN {other} ELSE {})
  OBVIOUS
<1>9. buckets = [k \in B |-> Sum(rows, {s \in kept : Bucket(s) = k}) + IF k = other THEN tail ELSE 0]
  BY <1>1, <1>4, <1>6, <1>7, <1>8 DEF BucketReferrers
<1>10. PICK t : t = [k \in B |-> Sum(rows, BucketOf(rows, k))]
  OBVIOUS
<1>11. \A k \in B : buckets[k] = t[k] + IF k = other THEN tail ELSE 0
  <2>1. \A k \in B : t[k] = Sum(rows, {s \in kept : Bucket(s) = k})
    BY <1>1, <1>10 DEF BucketOf
  <2> QED BY <1>9, <2>1
<1>12. \A k \in B : t[k] \in Nat
  BY <1>1, <1>2, <1>10 DEF Adding, BucketOf
<1>13. PICK f : f = [s \in kept |-> Bucket(s)]
  OBVIOUS
<1>14. IsFiniteSet(kept) /\ \A s \in kept : rows[s] \in Nat
  BY <1>1
<1>15. IsFiniteSet(B)
  <2>1. f \in [kept -> img] /\ \A k \in img : \E s \in kept : f[s] = k
    BY <1>7, <1>13
  <2>2. f \in Surjection(kept, img)
    BY <2>1 DEF Surjection
  <2>3. IsFiniteSet(img)
    BY <1>14, <2>2, FS_Surjection
  <2>4. IsFiniteSet(img \cup {other})
    BY <2>3, FS_AddElement
  <2> QED BY <1>8, <2>3, <2>4
<1>16. Sum(t, B) = sum
  <2>1. \A s \in kept : f[s] \in B
    BY <1>7, <1>8, <1>13
  <2>2. ASSUME NEW k \in B PROVE t[k] = Sum(rows, {s \in kept : f[s] = k})
    <3>1. PICK A : A = {s \in kept : f[s] = k}
      OBVIOUS
    <3>2. A = BucketOf(rows, k)
      BY <1>1, <1>13, <3>1 DEF BucketOf
    <3>3. t[k] = Sum(rows, A)
      BY <1>10, <3>2
    <3> QED BY <3>1, <3>3
  <2>3. Sum(t, B) = Sum(rows, kept)
    <3>1. ByKind(t, B, rows, kept, f)
      BY <2>2 DEF ByKind
    <3> QED BY <1>14, <1>15, <2>1, <3>1, SumByKind
  <2> QED BY <1>1, <2>3
<1>17. CASE total > sum
  <2>1. tail \in Nat /\ tail > 0 /\ tail = total - sum
    BY <1>3, <1>5, <1>17
  <2>2. other \in B
    BY <1>8, <2>1
  <2>3. Sum(buckets, B) = Sum(t, B) + tail
    BY <1>11, <1>12, <1>15, <2>1, <2>2, SumMore
  <2>4. Sum(buckets, B) = total
    BY <1>3, <1>16, <2>1, <2>3
  <2> QED BY <1>17, <2>4, <1>9, <1>3, <1>6, <1>10, <1>11, <1>12
<1>18. CASE ~(total > sum)
  <2>1. \A k \in B : buckets[k] = t[k]
    BY <1>5, <1>11, <1>12, <1>18
  <2>2. Sum(buckets, B) = Sum(t, B)
    BY <1>12, <1>15, <2>1, SumSame
  <2> QED BY <1>3, <1>9, <1>10, <1>16, <1>18, <2>1, <2>2
<1> QED BY <1>17, <1>18

LEMMA SourcesOk ==
  ASSUME NEW i, NEW rows, SourcesSection(i, rows).status = "ok"
  PROVE  SourcesSection(i, rows).total = Total(i) /\ SourcesSection(i, rows).buckets = BucketReferrers(rows, Total(i))
BY DEF SourcesSection, Total

LEMMA Sources == ASSUME NEW i, Asked(i) PROVE SourcesAddUp(i)
<1>1. PICK days : days = WindowOf(i).days
  OBVIOUS
<1>2. Counted(viewed)
  BY DEF Asked
<1>3. ASSUME NEW rows \in DomainRows(viewed, days), NEW s, s = SourcesSection(i, rows), s.status = "ok"
      PROVE  /\ Sum(s.buckets, DOMAIN s.buckets) >= s.total
             /\ Uncut(i) => Sum(s.buckets, DOMAIN s.buckets) <= ViewsIn(viewed, days, Domain, Path)
             /\ \A k \in DOMAIN s.buckets \ {"other"} :
                  s.buckets[k] <= ViewsIn(viewed, days, {d \in Domain : Bucket(d) = k}, Path)
  <2>1. PICK total, buckets : total = Total(i) /\ buckets = BucketReferrers(rows, total)
    OBVIOUS
  <2>2. s.total = total /\ s.buckets = buckets
    BY <1>3, <2>1, SourcesOk
  <2>3. total \in Nat
    BY <2>1, TotalIs
  <2>4. PICK kept, u : kept = DOMAIN rows /\ u = viewed
    OBVIOUS
  <2>5. kept \subseteq Domain /\ IsFiniteSet(kept) /\ \A k \in kept : rows[k] = ViewsIn(u, days, {k}, Path)
    BY <1>2, <2>4, DomainsAre
  <2>6. Counted(u)
    BY <1>2, <2>4
  <2>7. \A k \in kept : rows[k] \in Nat
    <3> SUFFICES ASSUME NEW k \in kept PROVE rows[k] \in Nat
      OBVIOUS
    <3>1. ViewsIn(u, days, {k}, Path) \in Nat
      BY <2>6, ViewsAre
    <3> QED BY <2>5, <3>1
  <2>8. ASSUME NEW X \in SUBSET kept PROVE Sum(rows, X) = ViewsIn(u, days, X, Path)
    <3>1. IsFiniteSet(X)
      BY <2>5, FS_Subset
    <3>2. SiteBySite(rows, u, days, X, Path)
      BY <2>5 DEF SiteBySite
    <3> QED BY <2>6, <3>1, <3>2, ViewsByDomain
  <2>9. PICK sum, reached : sum = Sum(rows, kept) /\ reached = Sum(buckets, DOMAIN buckets)
    OBVIOUS
  <2>10. /\ sum \in Nat /\ reached = (IF total > sum THEN total ELSE sum)
         /\ \A k \in DOMAIN buckets : k # "other" => buckets[k] = Sum(rows, BucketOf(rows, k))
    BY <2>1, <2>3, <2>4, <2>5, <2>7, <2>9, BucketsAddUp
  <2>11. reached >= total
    BY <2>3, <2>10
  <2>12. ASSUME Uncut(i) PROVE reached <= ViewsIn(u, days, Domain, Path)
    <3>1. sum = ViewsIn(u, days, kept, Path)
      BY <2>8, <2>9
    <3>2. Of(u, days, kept, Path) \subseteq Of(u, days, Domain, Path)
      BY <2>5 DEF Of
    <3>3. sum <= ViewsIn(u, days, Domain, Path)
      BY <2>6, <3>1, <3>2, MoreViews
    <3>4. total = ViewsIn(i.counted, days, Domain, Path)
      <4>1. TotalsTile(i)
        BY Tiles
      <4>2. ViewsSection(i).total = ViewsIn(i.counted, days, Domain, Path)
        BY <1>1, <2>12, <4>1 DEF TotalsTile
      <4>3. ViewsSection(i).total = total
        BY <2>1 DEF ViewsSection, Total
      <4> QED BY <4>2, <4>3
    <3>5. total <= ViewsIn(u, days, Domain, Path)
      BY <2>4, <3>4, MoreSince
    <3>6. ViewsIn(u, days, Domain, Path) \in Nat
      BY <2>6, ViewsAre
    <3> QED BY <2>3, <2>10, <3>3, <3>5, <3>6
  <2>13. ASSUME NEW k \in DOMAIN buckets, k # "other"
         PROVE  buckets[k] <= ViewsIn(u, days, {d \in Domain : Bucket(d) = k}, Path)
    <3>1. PICK X \in SUBSET kept : X = BucketOf(rows, k)
      BY <2>4 DEF BucketOf
    <3>2. PICK all : all = {d \in Domain : Bucket(d) = k}
      OBVIOUS
    <3>3. buckets[k] = ViewsIn(u, days, X, Path)
      BY <2>8, <2>10, <2>13, <3>1
    <3>4. X \subseteq all
      BY <2>4, <2>5, <3>1, <3>2 DEF BucketOf
    <3>5. Of(u, days, X, Path) \subseteq Of(u, days, all, Path)
      BY <3>4 DEF Of
    <3>6. buckets[k] <= ViewsIn(u, days, all, Path)
      BY <2>6, <3>3, <3>5, MoreViews
    <3> QED BY <3>2, <3>6
  <2> QED BY <2>2, <2>4, <2>9, <2>11, <2>12, <2>13
<1> QED BY <1>1, <1>3 DEF SourcesAddUp

-----------------------------------------------------------------------------
(* Followers, and the charts.                                               *)

(* The days of a window that were read.                                     *)
ReadDays(i) == {d \in WindowOf(i).days \cap Day : reading[d] # NoReading}

LEMMA FollowersOk ==
  ASSUME NEW i, FollowersSection(i).status = "ok", NEW days, days = ReadDays(i)
  PROVE  /\ days # {} /\ Cardinality(days) # 1
         /\ FollowersSection(i).missing = Max(days) - Min(days) + 1 - Cardinality(days)
         /\ FollowersSection(i).series = [d \in days |-> reading[d]]
BY DEF FollowersSection, ReadDays

Plotted(points, days) == points = Plot([d \in days |-> reading[d]], NoReading)

LEMMA BrokenAre ==
  ASSUME NEW i, Asked(i), NEW days, days = ReadDays(i), days # {}, Cardinality(days) # 1,
         NEW points, Plotted(points, days)
  PROVE  /\ Cardinality(days) >= 2
         /\ Cardinality(Broken(points)) = Max(days) - Min(days) + 1 - Cardinality(days)
         /\ \A d \in DOMAIN points : points[d] = reading[d]
<1>1. PICK lo \in Int : WindowOf(i).days = lo..i.day
  BY Windows DEF Asked
<1>2. days \in SUBSET Day /\ Day \subseteq Nat /\ FinalDay \in Nat /\ Day = 0..FinalDay /\ i.day \in Nat
  BY NumBounds DEF ReadDays, Asked
<1>3. PICK first \in days, last \in days : /\ first = Min(days) /\ last = Max(days)
                                          /\ \A d \in days : first <= d /\ d <= last
  BY <1>2, MinOf
<1>4. first \in Nat /\ last \in Nat /\ first <= last
  BY <1>2, <1>3
<1>5. DOMAIN points = first..last /\ \A d \in first..last : points[d] = IF d \in days THEN reading[d] ELSE NoReading
  BY <1>3 DEF Plot, Plotted
<1>6. ASSUME NEW d \in first..last PROVE d \in Day /\ d \in WindowOf(i).days
  <2>1. first \in lo..i.day /\ last \in lo..i.day /\ first \in 0..FinalDay /\ last \in 0..FinalDay
    BY <1>1, <1>2, <1>3 DEF ReadDays
  <2> QED BY <1>1, <1>2, <1>4, <2>1
<1>7. \A d \in first..last : d \in days <=> reading[d] # NoReading
  BY <1>6 DEF ReadDays
<1>8. \A d \in DOMAIN points : points[d] = reading[d]
  BY <1>5, <1>7
<1>9. PICK span : span = first..last
  OBVIOUS
<1>10. Broken(points) = span \ days
  BY <1>5, <1>7, <1>9 DEF Broken
<1>11. IsFiniteSet(span) /\ Cardinality(span) = last - first + 1
  BY <1>4, <1>9, Between
<1>12. span \cap days = days /\ days \in SUBSET span
  BY <1>2, <1>3, <1>4, <1>9
<1>13. Cardinality(span \ days) = Cardinality(span) - Cardinality(span \cap days)
  BY <1>11, FS_Difference
<1>14. IsFiniteSet(days) /\ Cardinality(days) \in Nat
  BY <1>11, <1>12, FS_Subset, FS_CardinalityType
<1>15. Cardinality(days) # 0
  BY <1>14, FS_EmptySet
<1>16. Cardinality(days) >= 2
  BY <1>14, <1>15
<1>17. Cardinality(Broken(points)) = last - first + 1 - Cardinality(days)
  <2>1. Cardinality(Broken(points)) = Cardinality(span \ days)
    BY <1>10
  <2>2. Cardinality(span \cap days) = Cardinality(days)
    BY <1>12
  <2>3. PICK k \in Nat, n \in Int : k = Cardinality(days) /\ n = Cardinality(span)
    BY <1>4, <1>11, <1>14
  <2>4. n = last - first + 1
    BY <1>11, <2>3
  <2>5. Cardinality(span \ days) = n - k
    BY <1>13, <2>2, <2>3
  <2> QED BY <1>4, <1>14, <2>1, <2>3, <2>4, <2>5
<1> QED BY <1>3, <1>8, <1>16, <1>17

(* A day between two that have a row had no view if it has none.            *)
LEMMA NoneBetween ==
  ASSUME NEW i, Asked(i), Uncut(i), NEW v, v = ViewsSection(i).series, Drawn(v), NEW d \in DOMAIN Plot(v, 0)
  PROVE  Plot(v, 0)[d] = ViewsIn(i.counted, {d}, Domain, Path)
<1>1. PICK b, rows, w : b = i.counted /\ rows = RowsOf(i) /\ w = WindowOf(i)
  OBVIOUS
<1>2. PICK lo \in Int, floor \in Int :
        w.days = lo..i.day /\ QueryFloor(i.range, i.day) = floor /\ floor <= lo
  BY <1>1, Windows DEF Asked
<1>3. Counted(b) /\ rows = DayRows(b, floor) /\ i.day \in Nat /\ Day \subseteq Nat /\ FinalDay \in Nat /\ Day = 0..FinalDay
  BY <1>1, <1>2, NumBounds DEF Asked, RowsOf
<1>4. PICK days : days = Busy(b, floor)
  OBVIOUS
<1>5. Cardinality(days) <= DayRowCap
  BY <1>1, <1>2, <1>4, UncutIs
<1>6. DOMAIN rows = days /\ \A e \in days : rows[e] = ViewsIn(b, {e}, Domain, Path)
  BY <1>3, <1>4, <1>5, RowsAre
<1>7. PICK told : told = days \cap w.days
  OBVIOUS
<1>8. v = [e \in told |-> rows[e]]
  BY <1>1, <1>6, <1>7 DEF ViewsSection
<1>9. told \in SUBSET Day
  BY <1>4, <1>7 DEF Busy
<1>10. told # {}
  <2> SUFFICES ASSUME told = {} PROVE FALSE
    OBVIOUS
  <2>1. DOMAIN v = {}
    BY <1>8
  <2>2. Cardinality(DOMAIN v) = 0
    BY <2>1, FS_EmptySet
  <2> QED BY <2>2 DEF Drawn
<1>11. PICK first \in told, last \in told : first = Min(told) /\ last = Max(told)
  BY <1>9, <1>10, MinOf
<1>12. DOMAIN Plot(v, 0) = first..last /\ Plot(v, 0)[d] = IF d \in told THEN rows[d] ELSE 0
  BY <1>8, <1>11 DEF Plot
<1>13. d \in Day /\ d \in w.days /\ d >= floor
  <2>1. first \in lo..i.day /\ last \in lo..i.day /\ first \in 0..FinalDay /\ last \in 0..FinalDay
    BY <1>2, <1>3, <1>7, <1>9, <1>11
  <2>2. d \in first..last
    BY <1>12
  <2>3. d \in 0..FinalDay /\ d \in lo..i.day /\ d >= floor
    BY <1>2, <1>3, <2>1, <2>2
  <2> QED BY <1>2, <1>3, <2>3
<1>14. CASE d \in days
  BY <1>1, <1>6, <1>7, <1>12, <1>13, <1>14
<1>15. CASE d \notin days
  <2>1. ViewsIn(b, {d}, Domain, Path) \in Nat /\ ~(ViewsIn(b, {d}, Domain, Path) > 0)
    BY <1>3, <1>4, <1>13, <1>15, ViewsAre DEF Busy
  <2>2. Plot(v, 0)[d] = 0
    BY <1>7, <1>12, <1>15
  <2> QED BY <1>1, <2>1, <2>2
<1> QED BY <1>14, <1>15

LEMMA Gaps == ASSUME NEW i, Asked(i) PROVE GapsAreGaps(i)
<1>1. ASSUME FollowersSection(i).status = "ok", NEW points, points = Plot(FollowersSection(i).series, NoReading)
      PROVE  /\ Drawn(FollowersSection(i).series) /\ Cardinality(Broken(points)) = FollowersSection(i).missing
             /\ \A d \in DOMAIN points : points[d] = reading[d]
  <2>1. PICK days : days = ReadDays(i)
    OBVIOUS
  <2>2. /\ days # {} /\ Cardinality(days) # 1
        /\ FollowersSection(i).missing = Max(days) - Min(days) + 1 - Cardinality(days)
        /\ FollowersSection(i).series = [d \in days |-> reading[d]]
    BY <1>1, <2>1, FollowersOk
  <2>3. Plotted(points, days)
    BY <1>1, <2>2 DEF Plotted
  <2>4. /\ Cardinality(days) >= 2
        /\ Cardinality(Broken(points)) = Max(days) - Min(days) + 1 - Cardinality(days)
        /\ \A d \in DOMAIN points : points[d] = reading[d]
    BY <2>1, <2>2, <2>3, BrokenAre
  <2>5. DOMAIN FollowersSection(i).series = days
    BY <2>2
  <2> QED BY <2>2, <2>4, <2>5 DEF Drawn
<1>2. ASSUME NEW v, v = ViewsSection(i).series, Drawn(v), NEW d \in DOMAIN Plot(v, 0), Uncut(i)
      PROVE  Plot(v, 0)[d] = ViewsIn(i.counted, {d}, Domain, Path)
  BY <1>2, NoneBetween
<1> QED BY <1>1, <1>2 DEF GapsAreGaps

-----------------------------------------------------------------------------
(* Likes.                                                                   *)

LEMMA Partial ==
  ASSUME NEW i, Asked(i), earned \in [StatPost -> Nat \cup {NoPost, NotShared, Gone}]
  PROVE  PartialIsSaid(i)
<1>1. SUFFICES ASSUME NEW answered \in SUBSET Batches(i), NEW s, s = EngagementSection(i, answered),
                      LikesCard(s) = "counted"
               PROVE  /\ s.counted = Cardinality({p \in DOMAIN s.posts : s.posts[p] \in Nat})
                      /\ s.total = Sum(s.posts, {p \in DOMAIN s.posts : s.posts[p] \in Nat})
                      /\ s.counted = s.requested =>
                           \A p \in Announced(i) :
                              earned[p] \in Nat \/ Newer(Announced(i), p) >= PostBatch * BatchBudget
  BY DEF PartialIsSaid
<1>2. PICK asked, heard : asked = InBudget(i) /\ heard = CountedPosts(i, answered)
  OBVIOUS
<1>3. /\ s.total = Sum(earned, {p \in heard : earned[p] \in Nat})
      /\ s.counted = Cardinality(heard) /\ s.requested = Cardinality(asked)
      /\ s.posts = [p \in asked |-> IF BatchOf(i, p) \in answered THEN earned[p] ELSE Unknown]
  BY <1>1, <1>2 DEF EngagementSection, LikesCard, Unavailable
<1>4. asked \in SUBSET Announced(i) /\ asked \in SUBSET StatPost
  BY <1>2 DEF InBudget, Announced
<1>5. heard = {p \in asked : BatchOf(i, p) \in answered /\ earned[p] # Gone}
  BY <1>2 DEF CountedPosts
<1>6. \A p \in asked : earned[p] # Gone <=> earned[p] \in Nat
  <2>1. \A p \in Announced(i) : p \in StatPost /\ earned[p] \notin {NoPost, NotShared}
    BY DEF Announced
  <2> QED BY <1>4, <2>1, NumbersAssumption
<1>7. {p \in DOMAIN s.posts : s.posts[p] \in Nat} = heard
  <2>1. DOMAIN s.posts = asked
    BY <1>3
  <2>2. \A p \in asked : s.posts[p] \in Nat <=> p \in heard
    BY <1>3, <1>5, <1>6, NumbersAssumption
  <2> QED BY <1>5, <2>1, <2>2
<1>8. {p \in heard : earned[p] \in Nat} = heard /\ \A p \in heard : s.posts[p] = earned[p] /\ earned[p] \in Nat
  BY <1>3, <1>5, <1>6
<1>9. IsFiniteSet(asked) /\ IsFiniteSet(heard) /\ heard \in SUBSET asked
  <2>1. heard \in SUBSET asked
    BY <1>5
  <2> QED BY <1>4, <2>1, NumBounds, FS_Subset
<1>10. PICK posts : posts = s.posts
  OBVIOUS
<1>11. Sum(posts, heard) = Sum(earned, heard)
  <2>1. PICK likes : likes = earned
    OBVIOUS
  <2>2. \A p \in heard : likes[p] \in Nat /\ posts[p] = likes[p]
    BY <1>8, <1>10, <2>1
  <2>3. Sum(posts, heard) = Sum(likes, heard)
    BY <1>9, <2>2, SumSame
  <2> QED BY <2>1, <2>3
<1>12. ASSUME Cardinality(heard) = Cardinality(asked), NEW p \in Announced(i)
       PROVE  earned[p] \in Nat \/ Newer(Announced(i), p) >= PostBatch * BatchBudget
  <2>1. heard = asked
    BY <1>9, <1>12, FS_Subset
  <2>2. CASE p \in asked
    BY <1>8, <2>1, <2>2
  <2>3. CASE p \notin asked
    <3>1. PICK n : n = Newer(Announced(i), p)
      OBVIOUS
    <3>2. n \in Nat
      <4>1. PICK T : T = {q \in Announced(i) : q > p}
        OBVIOUS
      <4>2. T \in SUBSET StatPost
        BY <4>1 DEF Announced
      <4>3. IsFiniteSet(T)
        BY <4>2, NumBounds, FS_Subset
      <4>4. n = Cardinality(T)
        BY <3>1, <4>1 DEF Newer
      <4> QED BY <4>3, <4>4, FS_CardinalityType
    <3>3. PICK most \in Nat : most = PostBatch * BatchBudget
      BY NumBounds
    <3>4. ~(n < most)
      BY <1>2, <2>3, <3>1, <3>3 DEF InBudget, Announced
    <3>5. n >= most
      BY <3>2, <3>3, <3>4
    <3> QED BY <3>1, <3>3, <3>5
  <2> QED BY <2>2, <2>3
<1> QED BY <1>3, <1>7, <1>8, <1>10, <1>11, <1>12

-----------------------------------------------------------------------------
(* The table.                                                               *)

Cells(cells) == DOMAIN cells \in SUBSET StatPost /\ \A p \in DOMAIN cells : cells[p] \in Nat \cup {Unknown}

(* How two posts sort does not depend on a third.                           *)
LEMMA SortOrders ==
  ASSUME NEW cells, Cells(cells), NEW up \in BOOLEAN, NEW S, S = DOMAIN cells,
         NEW B, B = {pq \in S \X S : SortsBefore(cells, up, pq[1], pq[2])}
  PROVE  Orders(B, S)
<1>1. \A p, q \in S : <<p, q>> \in B <=> SortsBefore(cells, up, p, q)
  OBVIOUS
<1>2. S \subseteq Nat /\ \A p \in S : cells[p] \in Nat \cup {Unknown}
  BY NumBounds DEF Cells
<1>3. ASSUME NEW p \in S PROVE <<p, p>> \notin B
  <2>1. ~(p < p)
    BY <1>2
  <2> QED BY <1>1, <2>1 DEF SortsBefore
<1>4. ASSUME NEW p \in S, NEW q \in S, p # q PROVE <<p, q>> \in B \/ <<q, p>> \in B
  <2>1. p \in Nat /\ q \in Nat /\ (p < q \/ q < p)
    BY <1>2, <1>4
  <2>2. CASE cells[p] = cells[q]
    BY <1>1, <2>1, <2>2 DEF SortsBefore
  <2>3. CASE cells[p] # cells[q] /\ (cells[p] = Unknown \/ cells[q] = Unknown)
    BY <1>1, <2>3 DEF SortsBefore
  <2>4. CASE cells[p] # cells[q] /\ cells[p] # Unknown /\ cells[q] # Unknown
    <3>1. cells[p] \in Nat /\ cells[q] \in Nat
      BY <1>2, <2>4
    <3>2. cells[p] < cells[q] \/ cells[p] > cells[q]
      BY <2>4, <3>1
    <3>3. cells[p] < cells[q] <=> cells[q] > cells[p]
      BY <3>1
    <3>4. cells[q] < cells[p] <=> cells[p] > cells[q]
      BY <3>1
    <3>5. SortsBefore(cells, up, p, q) <=> IF up THEN cells[p] < cells[q] ELSE cells[p] > cells[q]
      BY <2>4 DEF SortsBefore
    <3>6. SortsBefore(cells, up, q, p) <=> IF up THEN cells[q] < cells[p] ELSE cells[q] > cells[p]
      BY <2>4 DEF SortsBefore
    <3> QED BY <1>1, <3>2, <3>3, <3>4, <3>5, <3>6
  <2> QED BY <2>2, <2>3, <2>4
<1>5. ASSUME NEW p \in S, NEW q \in S, NEW r \in S, <<p, q>> \in B, <<q, r>> \in B PROVE <<p, r>> \in B
  <2>1. p \in Nat /\ q \in Nat /\ r \in Nat
    BY <1>2
  <2>2. SortsBefore(cells, up, p, q) /\ SortsBefore(cells, up, q, r)
    BY <1>1, <1>5
  <2>3. CASE cells[p] = cells[q] /\ cells[q] = cells[r]
    BY <1>1, <2>1, <2>2, <2>3 DEF SortsBefore
  <2>4. CASE cells[p] = cells[q] /\ cells[q] # cells[r]
    BY <1>1, <2>2, <2>4 DEF SortsBefore
  <2>5. CASE cells[p] # cells[q] /\ cells[q] = cells[r]
    BY <1>1, <2>2, <2>5 DEF SortsBefore
  <2>6. CASE cells[p] # cells[q] /\ cells[q] # cells[r]
    <3>1. cells[p] # Unknown /\ cells[q] # Unknown
      BY <2>2, <2>6 DEF SortsBefore
    <3>2. cells[p] \in Nat /\ cells[q] \in Nat
      BY <1>2, <3>1
    <3>3. IF up THEN cells[p] < cells[q] ELSE cells[p] > cells[q]
      BY <2>2, <2>6, <3>1 DEF SortsBefore
    <3>4. CASE cells[r] = Unknown
      BY <1>1, <3>1, <3>4 DEF SortsBefore
    <3>5. CASE cells[r] # Unknown
      <4>1. cells[r] \in Nat
        BY <1>2, <3>5
      <4>2. IF up THEN cells[q] < cells[r] ELSE cells[q] > cells[r]
        BY <2>2, <2>6, <3>1, <3>5 DEF SortsBefore
      <4>3. CASE up
        <5>1. cells[p] < cells[r] /\ cells[p] # cells[r]
          BY <3>2, <3>3, <4>1, <4>2, <4>3
        <5> QED BY <1>1, <3>1, <3>5, <4>3, <5>1 DEF SortsBefore
      <4>4. CASE ~up
        <5>1. cells[p] > cells[r] /\ cells[p] # cells[r]
          BY <3>2, <3>3, <4>1, <4>2, <4>4
        <5> QED BY <1>1, <3>1, <3>5, <4>4, <5>1 DEF SortsBefore
      <4> QED BY <4>3, <4>4
    <3> QED BY <3>4, <3>5
  <2> QED BY <2>3, <2>4, <2>5, <2>6
<1> QED BY <1>3, <1>4, <1>5 DEF Orders

RowsInOrder(rows, cells, up, c) ==
  /\ rows \in [1..c -> DOMAIN cells]
  /\ \A m, n \in 1..c : m < n => SortsBefore(cells, up, rows[m], rows[n])
  /\ \A p \in DOMAIN cells : \E n \in 1..c : rows[n] = p

LEMMA SortedAre ==
  ASSUME NEW cells, Cells(cells), NEW up \in BOOLEAN
  PROVE  /\ Cardinality(DOMAIN cells) \in Nat
         /\ RowsInOrder(SortedCells(cells, up), cells, up, Cardinality(DOMAIN cells))
<1>1. PICK S, c : S = DOMAIN cells /\ c = Cardinality(S)
  OBVIOUS
<1>2. IsFiniteSet(S) /\ c \in Nat
  <2>1. S \in SUBSET StatPost
    BY <1>1 DEF Cells
  <2>2. IsFiniteSet(S)
    BY <2>1, NumBounds, FS_Subset
  <2> QED BY <1>1, <2>2, FS_CardinalityType
<1>3. PICK B : B = {pq \in S \X S : SortsBefore(cells, up, pq[1], pq[2])}
  OBVIOUS
<1>4. Orders(B, S)
  BY <1>1, <1>3, SortOrders
<1>5. PICK some \in [1..c -> S] : InOrder(some, c, B)
  BY <1>1, <1>2, <1>4, Sortable
<1>6. \A rows \in [1..c -> S] :
        InOrder(rows, c, B) <=> \A m, n \in DOMAIN rows : m < n => SortsBefore(cells, up, rows[m], rows[n])
  BY <1>3 DEF InOrder
<1>7. PICK rows : rows = SortedCells(cells, up)
  OBVIOUS
<1>8. rows = CHOOSE it \in [1..c -> S] : \A m, n \in DOMAIN it : m < n => SortsBefore(cells, up, it[m], it[n])
  BY <1>1, <1>7 DEF SortedCells
<1>9. rows \in [1..c -> S] /\ InOrder(rows, c, B)
  <2>1. \E it \in [1..c -> S] : \A m, n \in DOMAIN it : m < n => SortsBefore(cells, up, it[m], it[n])
    BY <1>5, <1>6
  <2>2. rows \in [1..c -> S] /\ \A m, n \in DOMAIN rows : m < n => SortsBefore(cells, up, rows[m], rows[n])
    BY <1>8, <2>1
  <2> QED BY <1>6, <2>2
<1>10. \A p \in S : \E n \in 1..c : rows[n] = p
  BY <1>1, <1>2, <1>4, <1>9, AllInRows
<1>11. \A m, n \in 1..c : m < n => SortsBefore(cells, up, rows[m], rows[n])
  BY <1>6, <1>9
<1> QED BY <1>1, <1>2, <1>7, <1>9, <1>10, <1>11 DEF RowsInOrder

(* What is not known is last.                                               *)
LEMMA KnownFirst ==
  ASSUME NEW cells, Cells(cells), NEW up \in BOOLEAN, NEW rows, rows = SortedCells(cells, up)
  PROVE  /\ Len(rows) = Cardinality(DOMAIN cells)
         /\ \A m, n \in 1..Len(rows) :
              m < n /\ cells[rows[n]] # Unknown =>
                /\ cells[rows[m]] # Unknown
                /\ IF up THEN cells[rows[m]] <= cells[rows[n]] ELSE cells[rows[m]] >= cells[rows[n]]
<1>1. PICK c \in Nat : c = Cardinality(DOMAIN cells) /\ RowsInOrder(rows, cells, up, c)
  BY SortedAre
<1>2. rows \in [1..c -> DOMAIN cells]
  BY <1>1 DEF RowsInOrder
<1>3. Len(rows) = c
  BY <1>2
<1>4. ASSUME NEW m \in 1..c, NEW n \in 1..c, m < n, cells[rows[n]] # Unknown
      PROVE  /\ cells[rows[m]] # Unknown
             /\ IF up THEN cells[rows[m]] <= cells[rows[n]] ELSE cells[rows[m]] >= cells[rows[n]]
  <2>1. PICK p \in DOMAIN cells, q \in DOMAIN cells : p = rows[m] /\ q = rows[n]
    BY <1>2
  <2>2. SortsBefore(cells, up, p, q) /\ cells[q] # Unknown
    BY <1>1, <1>4, <2>1 DEF RowsInOrder
  <2>3. cells[p] \in Nat \cup {Unknown} /\ cells[q] \in Nat
    BY <2>2 DEF Cells
  <2>4. cells[p] # Unknown
    BY <2>2 DEF SortsBefore
  <2>5. cells[p] \in Nat
    BY <2>3, <2>4
  <2>6. CASE cells[p] = cells[q]
    BY <2>1, <2>3, <2>4, <2>6
  <2>7. CASE cells[p] # cells[q]
    <3>1. IF up THEN cells[p] < cells[q] ELSE cells[p] > cells[q]
      BY <2>2, <2>4, <2>7 DEF SortsBefore
    <3>2. IF up THEN cells[p] <= cells[q] ELSE cells[p] >= cells[q]
      BY <2>3, <2>5, <3>1
    <3> QED BY <2>1, <2>4, <3>2
  <2> QED BY <2>6, <2>7
<1> QED BY <1>1, <1>3, <1>4

ListedPosts == {p \in StatPost : earned[p] # NoPost}

(* The views by post.                                                       *)
Paths(paths) == DOMAIN paths \in SUBSET Path /\ \A p \in DOMAIN paths : paths[p] \in Nat

LEMMA PathsAre == ASSUME NEW i, Asked(i) PROVE Paths(ViewsSection(i).paths)
<1>1. PICK paths, days, b : paths = ViewsSection(i).paths /\ days = WindowOf(i).days /\ b = viewed
  OBVIOUS
<1>2. paths = PathRows(b, days)
  BY <1>1 DEF ViewsSection
<1>3. Counted(b)
  BY <1>1 DEF Asked
<1>4. PICK D : D = {p \in Path : ViewsIn(b, days, Domain, {p}) > 0}
  OBVIOUS
<1>5. paths = [p \in D |-> ViewsIn(b, days, Domain, {p})]
  BY <1>2, <1>4 DEF PathRows
<1>6. \A p \in D : ViewsIn(b, days, Domain, {p}) \in Nat
  BY <1>3, ViewsAre
<1>7. DOMAIN paths \in SUBSET Path /\ \A p \in DOMAIN paths : paths[p] \in Nat
  BY <1>4, <1>5, <1>6
<1> QED BY <1>1, <1>7 DEF Paths

ViewsOf(paths) == [p \in ListedPosts |-> IF p \in DOMAIN paths THEN paths[p] ELSE Unknown]

IsPathsOf(paths, s) == paths = s.paths

(* The most read post is read as much as the first row.                     *)
LEMMA MostRead ==
  ASSUME NEW s, NEW paths, IsPathsOf(paths, s), Paths(paths), NEW cells, cells = ViewsOf(paths),
         NEW rows, rows = SortedCells(cells, FALSE), TopPost(s) # NoPost
  PROVE  paths[TopPost(s)] = cells[rows[1]]
<1>1. PICK read : read = {p \in ListedPosts : p \in DOMAIN paths}
  OBVIOUS
<1>2. PICK best : best = {p \in read : \A q \in read : paths[q] <= paths[p]}
  OBVIOUS
<1>3. read # {} /\ TopPost(s) = Max(best)
  <2>1. read = {p \in StatPost : earned[p] # NoPost /\ p \in DOMAIN s.paths}
    BY <1>1 DEF ListedPosts, IsPathsOf
  <2> QED BY <1>2, <2>1 DEF TopPost, IsPathsOf
<1>4. read \in SUBSET StatPost /\ StatPost \subseteq Nat /\ LastStatPost \in Nat /\ StatPost = 1..LastStatPost
  BY <1>1, NumBounds DEF ListedPosts
<1>5. \A p \in read : paths[p] \in Nat
  BY <1>1 DEF Paths
<1>6. IsFiniteSet(read)
  BY <1>4, NumBounds, FS_Subset
<1>7. Cells(cells) /\ DOMAIN cells = ListedPosts
  BY DEF Cells, ViewsOf, Paths, ListedPosts
<1>8. PICK c \in Nat : RowsInOrder(rows, cells, FALSE, c)
  BY <1>7, SortedAre
<1>9. rows \in [1..c -> ListedPosts] /\ \A p \in ListedPosts : \E n \in 1..c : rows[n] = p
  BY <1>7, <1>8 DEF RowsInOrder
<1>10. \A p \in read : p \in ListedPosts /\ cells[p] = paths[p] /\ cells[p] # Unknown
  BY <1>1, <1>5, NumbersAssumption DEF ViewsOf
<1>11. \A p \in ListedPosts : cells[p] # Unknown => p \in read
  BY <1>1 DEF ViewsOf
<1>12. 1 \in 1..c
  <2>1. PICK p \in read : TRUE
    BY <1>3
  <2>2. PICK n \in 1..c : rows[n] = p
    BY <1>9, <1>10
  <2> QED BY <2>2
<1>13. PICK top \in ListedPosts : top = rows[1]
  BY <1>9, <1>12
<1>14. ASSUME NEW p \in read PROVE top \in read /\ paths[p] <= paths[top]
  <2>1. PICK n \in 1..c : rows[n] = p
    BY <1>9, <1>10
  <2>2. CASE n = 1
    <3>1. top = p
      BY <1>13, <2>1, <2>2
    <3>2. paths[p] \in Nat
      BY <1>5
    <3>3. paths[p] <= paths[p]
      BY <3>2
    <3> QED BY <3>1, <3>3
  <2>3. CASE n # 1
    <3>1. 1 < n
      BY <2>3
    <3>2. SortsBefore(cells, FALSE, top, p)
      BY <1>8, <1>12, <1>13, <2>1, <3>1 DEF RowsInOrder
    <3>3. cells[p] # Unknown /\ cells[p] = paths[p] /\ paths[p] \in Nat
      BY <1>5, <1>10
    <3>4. cells[top] # Unknown
      BY <3>2, <3>3 DEF SortsBefore
    <3>5. top \in read
      BY <1>11, <3>4
    <3>6. cells[top] = paths[top] /\ paths[top] \in Nat
      BY <1>5, <1>10, <3>5
    <3>7. cells[top] = cells[p] \/ cells[top] > cells[p]
      BY <3>2, <3>3, <3>4 DEF SortsBefore
    <3>8. paths[p] <= paths[top]
      BY <3>3, <3>6, <3>7
    <3> QED BY <3>5, <3>8
  <2> QED BY <2>2, <2>3
<1>15. top \in best
  BY <1>2, <1>3, <1>14
<1>16. best \in SUBSET (0..LastStatPost) /\ best # {}
  <2>1. \A p \in best : p \in 1..LastStatPost
    BY <1>2, <1>4
  <2>2. \A p \in 1..LastStatPost : p \in 0..LastStatPost
    OBVIOUS
  <2>3. best \subseteq 0..LastStatPost
    BY <2>1, <2>2
  <2> QED BY <1>15, <2>3
<1>17. PICK newest \in best : newest = Max(best)
  <2>1. PICK m \in best : \A q \in best : q <= m
    BY <1>4, <1>16, GreatestOne
  <2>2. best \subseteq Nat
    BY <1>16
  <2>3. \A q \in best : m >= q
    BY <2>1, <2>2
  <2> QED BY <2>1, <2>3 DEF Max
<1>18. paths[newest] = paths[top]
  <2>1. newest \in read /\ top \in read
    BY <1>2, <1>15
  <2>2. paths[newest] <= paths[top] /\ paths[top] <= paths[newest]
    BY <1>2, <1>15, <2>1
  <2>3. paths[newest] \in Nat /\ paths[top] \in Nat
    BY <1>5, <2>1
  <2> QED BY <2>2, <2>3
<1>19. cells[top] = paths[top]
  BY <1>2, <1>10, <1>15
<1> QED BY <1>3, <1>13, <1>17, <1>18, <1>19

TopIsFirst(i) ==
  LET s == ViewsSection(i)
      rows == SortedCells(ViewsCell(s), FALSE)
  IN  TopPost(s) # NoPost => s.paths[TopPost(s)] = ViewsCell(s)[rows[1]]

KnownIsFirst(cells, up) ==
  LET rows == SortedCells(cells, up) IN
  /\ Len(rows) = Cardinality(DOMAIN cells)
  /\ \A m, n \in 1..Len(rows) :
       m < n /\ cells[rows[n]] # Unknown =>
         /\ cells[rows[m]] # Unknown
         /\ IF up THEN cells[rows[m]] <= cells[rows[n]] ELSE cells[rows[m]] >= cells[rows[n]]

TableIsKnown(i) ==
  \A cells \in {ViewsCell(ViewsSection(i)), LikesCell(EngagementSection(i, Batches(i)))}, up \in BOOLEAN :
    KnownIsFirst(cells, up)

LEMMA TableIs == ASSUME NEW i, TopIsFirst(i), TableIsKnown(i) PROVE UnknownIsLast(i)
BY DEF UnknownIsLast, TopIsFirst, TableIsKnown, KnownIsFirst

LEMMA TableHolds ==
  ASSUME NEW i, Asked(i), earned \in [StatPost -> Nat \cup {NoPost, NotShared, Gone}]
  PROVE  UnknownIsLast(i)
<1>1. PICK s, paths, views, likes : /\ s = ViewsSection(i) /\ paths = s.paths /\ views = ViewsCell(s)
                                    /\ likes = LikesCell(EngagementSection(i, Batches(i)))
  OBVIOUS
<1>2. Paths(paths)
  BY <1>1, PathsAre
<1>3. views = ViewsOf(paths)
  BY <1>1 DEF ViewsCell, ViewsOf, ListedPosts
<1>4. Cells(views)
  BY <1>2, <1>3 DEF Cells, ViewsOf, Paths, ListedPosts
<1>5. Cells(likes)
  BY <1>1 DEF LikesCell, Cells
<1>6. TopPost(s) # NoPost => paths[TopPost(s)] = views[SortedCells(views, FALSE)[1]]
  <2> SUFFICES ASSUME TopPost(s) # NoPost PROVE paths[TopPost(s)] = views[SortedCells(views, FALSE)[1]]
    OBVIOUS
  <2>1. PICK rows : rows = SortedCells(views, FALSE)
    OBVIOUS
  <2>2. IsPathsOf(paths, s)
    BY <1>1 DEF IsPathsOf
  <2>3. paths[TopPost(s)] = views[rows[1]]
    BY <1>2, <1>3, <2>1, <2>2, MostRead
  <2> QED BY <2>1, <2>3
<1>7. ASSUME NEW cells \in {views, likes}, NEW up \in BOOLEAN, NEW rows, rows = SortedCells(cells, up)
      PROVE  /\ Len(rows) = Cardinality(DOMAIN cells)
             /\ \A m, n \in 1..Len(rows) :
                  m < n /\ cells[rows[n]] # Unknown =>
                    /\ cells[rows[m]] # Unknown
                    /\ IF up THEN cells[rows[m]] <= cells[rows[n]] ELSE cells[rows[m]] >= cells[rows[n]]
  <2>1. Cells(cells)
    BY <1>4, <1>5
  <2> QED BY <1>7, <2>1, KnownFirst
<1>8. TopIsFirst(i)
  BY <1>1, <1>6 DEF TopIsFirst
<1>9. ASSUME NEW cells \in {ViewsCell(ViewsSection(i)), LikesCell(EngagementSection(i, Batches(i)))}, NEW up \in BOOLEAN
      PROVE  KnownIsFirst(cells, up)
  <2>1. cells \in {views, likes}
    BY <1>1
  <2>2. PICK rows : rows = SortedCells(cells, up)
    OBVIOUS
  <2> QED BY <1>7, <2>1, <2>2 DEF KnownIsFirst
<1>10. TableIsKnown(i)
  BY <1>9 DEF TableIsKnown
<1> QED BY <1>8, <1>10, TableIs

-----------------------------------------------------------------------------
(* Days and views.                                                          *)

(* What was viewed is counted, and what a request was told of has been.     *)
NumInv ==
  /\ NumTypeOK /\ Counted(viewed)
  /\ inquiry # NoInquiry => inquiry.day \in Day /\ Counted(inquiry.counted)

LEMMA BagsCount ==
  ASSUME NEW b, Counted(b) PROVE b \sqsubseteq b
<1>1. \A v \in DOMAIN b : b[v] <= b[v]
  BY DEF Counted
<1> QED BY <1>1 DEF \sqsubseteq

(* Counts that are a function make a bag.                                   *)
LEMMA CountsAreBags ==
  ASSUME NEW b, Counted(b), b = [v \in DOMAIN b |-> b[v]] PROVE IsABag(b)
<1>1. \A v \in DOMAIN b : b[v] \in {n \in Nat : n > 0}
  BY DEF Counted
<1>2. b \in [DOMAIN b -> {n \in Nat : n > 0}]
  BY <1>1
<1> QED BY <1>2 DEF IsABag

LEMMA NothingCounted == Counted(EmptyBag)
<1>1. EmptyBag = [e \in {} |-> 1]
  BY DEF EmptyBag, SetToBag
<1>2. DOMAIN EmptyBag = {}
  BY <1>1
<1> QED BY <1>2, FS_EmptySet DEF Counted

LEMMA OneMore ==
  ASSUME NEW b, Counted(b), NEW v \in Day \X Domain \X Path, NEW c, c = b (+) SetToBag({v})
  PROVE  Counted(c) /\ \A a : Counted(a) /\ a \sqsubseteq b => a \sqsubseteq c
<1>1. PICK one : one = SetToBag({v})
  OBVIOUS
<1>2. DOMAIN one = {v} /\ one[v] = 1
  BY <1>1 DEF SetToBag
<1>3. DOMAIN c = DOMAIN b \cup {v}
  BY <1>1, <1>2 DEF (+)
<1>4. \A e \in DOMAIN c : c[e] = (IF e \in DOMAIN b THEN b[e] ELSE 0) + (IF e \in DOMAIN one THEN one[e] ELSE 0)
  BY <1>1, <1>2 DEF (+)
<1>5. ASSUME NEW e \in DOMAIN c PROVE c[e] \in Nat \ {0} /\ (e \in DOMAIN b => b[e] <= c[e])
  <2>1. e \in DOMAIN b => b[e] \in Nat \ {0}
    BY DEF Counted
  <2>2. CASE e \in DOMAIN b
    BY <1>2, <1>4, <2>1, <2>2
  <2>3. CASE e \notin DOMAIN b
    <3>1. e = v /\ e \in DOMAIN one /\ one[e] = 1
      BY <1>2, <1>3, <2>3
    <3>2. c[e] = 0 + 1
      BY <1>4, <2>3, <3>1
    <3> QED BY <2>3, <3>2
  <2> QED BY <2>2, <2>3
<1>6. IsFiniteSet(DOMAIN c)
  BY <1>3, FS_AddElement DEF Counted
<1>7. DOMAIN c \subseteq Day \X Domain \X Path
  BY <1>3 DEF Counted
<1>8. ASSUME NEW a, Counted(a), a \sqsubseteq b PROVE a \sqsubseteq c
  <2>1. DOMAIN a \subseteq DOMAIN b /\ \A e \in DOMAIN a : a[e] <= b[e]
    BY <1>8 DEF \sqsubseteq
  <2>2. DOMAIN a \subseteq DOMAIN c
    BY <1>3, <2>1
  <2>3. ASSUME NEW e \in DOMAIN a PROVE a[e] <= c[e]
    <3>1. a[e] \in Nat /\ b[e] \in Nat /\ a[e] <= b[e]
      BY <1>8, <2>1 DEF Counted
    <3>2. c[e] \in Nat /\ b[e] <= c[e]
      BY <1>5, <2>1, <2>2
    <3> QED BY <3>1, <3>2
  <2> QED BY <2>2, <2>3 DEF \sqsubseteq
<1> QED BY <1>5, <1>6, <1>7, <1>8 DEF Counted

LEMMA NumInitInv == ASSUME NumInit PROVE NumInv
<1>1. Counted(viewed) /\ IsABag(viewed) /\ DOMAIN viewed \subseteq Day \X Domain \X Path
  <2>1. EmptyBag = [e \in {} |-> 1]
    BY DEF EmptyBag, SetToBag
  <2>2. EmptyBag = [e \in DOMAIN EmptyBag |-> EmptyBag[e]]
    BY <2>1
  <2> QED BY <2>2, NothingCounted, CountsAreBags DEF NumInit, Counted
<1>2. today \in Day /\ MaxHappened \in Nat \ {0} /\ 0 \in Day
  BY NumBounds, NumbersAssumption DEF NumInit
<1>3. happened \in 0..MaxHappened
  <2>1. happened \in {0, 1}
    BY DEF NumInit
  <2> QED BY <1>2, <2>1
<1>4. reading \in [Day -> Nat \cup {NoReading}]
  BY DEF NumInit
<1>5. earned \in [StatPost -> Nat \cup {NoPost, NotShared, Gone}] /\ dated \in [StatPost -> Day]
  BY <1>2 DEF NumInit
<1> QED BY <1>1, <1>2, <1>3, <1>4, <1>5 DEF NumInv, NumTypeOK, NumInit

LEMMA HappenIs ==
  ASSUME NumInv, Happen PROVE happened' \in 0..MaxHappened
<1>1. MaxHappened \in Nat
  BY NumBounds
<1> QED BY <1>1 DEF NumInv, NumTypeOK, Happen

LEMMA ViewNum == ASSUME NumInv, NEW domain \in Domain, NEW path \in Path, View(domain, path) PROVE NumInv'
<1>1. PICK b, c, v, day : b = viewed /\ c = viewed' /\ day = today /\ v = <<day, domain, path>>
  OBVIOUS
<1>2. v \in Day \X Domain \X Path
  BY <1>1 DEF NumInv, NumTypeOK
<1>3. Counted(b) /\ c = b (+) SetToBag({v})
  BY <1>1 DEF NumInv, View
<1>4. Counted(c) /\ \A a : Counted(a) /\ a \sqsubseteq b => a \sqsubseteq c
  BY <1>2, <1>3, OneMore
<1>5. Counted(viewed)' /\ IsABag(viewed)'
  <2>1. c = [e \in DOMAIN c |-> c[e]]
    BY <1>3 DEF (+)
  <2>2. IsABag(c)
    BY <1>4, <2>1, CountsAreBags
  <2> QED BY <1>1, <1>4, <2>2 DEF Counted, IsABag
<1>6. (DOMAIN viewed \subseteq Day \X Domain \X Path)'
  BY <1>5 DEF Counted
<1>7. happened' \in 0..MaxHappened
  BY HappenIs DEF View
<1>8. inquiry' = inquiry /\ today' = today /\ reading' = reading /\ earned' = earned /\ dated' = dated
  BY DEF View
<1>9. inquiry # NoInquiry => inquiry.counted \sqsubseteq c
  BY <1>1, <1>4 DEF NumInv, NumTypeOK
<1>10. inquiry # NoInquiry => (inquiry.counted \sqsubseteq viewed)'
  BY <1>1, <1>8, <1>9 DEF \sqsubseteq
<1>11. inquiry # NoInquiry =>
         /\ inquiry.range \in RangeKind /\ inquiry.day <= today /\ inquiry.day \in Day /\ Counted(inquiry.counted)
  BY DEF NumInv, NumTypeOK
<1>12. inquiry # NoInquiry => Counted(inquiry.counted)'
  BY <1>8, <1>11 DEF Counted
<1> QED BY <1>5, <1>6, <1>7, <1>8, <1>10, <1>11, <1>12 DEF NumInv, NumTypeOK

(* What the other steps leave as it was.                                    *)
LEMMA ViewedStays ==
  ASSUME NumInv, viewed' = viewed, inquiry' = inquiry, today' \in Day, today' >= today
  PROVE  /\ Counted(viewed)' /\ IsABag(viewed)' /\ (DOMAIN viewed \subseteq Day \X Domain \X Path)'
         /\ (inquiry # NoInquiry =>
               /\ inquiry.range \in RangeKind /\ inquiry.day <= today /\ inquiry.counted \sqsubseteq viewed
               /\ inquiry.day \in Day /\ Counted(inquiry.counted))'
<1>1. Counted(viewed)' /\ IsABag(viewed)' /\ (DOMAIN viewed \subseteq Day \X Domain \X Path)'
  BY DEF NumInv, NumTypeOK, Counted, IsABag
<1>2. ASSUME inquiry # NoInquiry
      PROVE  /\ inquiry.range \in RangeKind /\ inquiry.day <= today' /\ inquiry.day \in Day
             /\ (inquiry.counted \sqsubseteq viewed)' /\ Counted(inquiry.counted)'
  <2>1. /\ inquiry.range \in RangeKind /\ inquiry.day <= today /\ inquiry.day \in Day
        /\ inquiry.counted \sqsubseteq viewed /\ Counted(inquiry.counted) /\ today \in Day
    BY <1>2 DEF NumInv, NumTypeOK
  <2>2. (inquiry.counted \sqsubseteq viewed)' /\ Counted(inquiry.counted)'
    BY <2>1 DEF Counted, \sqsubseteq
  <2>3. PICK asked \in Nat, old \in Nat, new \in Nat : asked = inquiry.day /\ old = today /\ new = today'
    BY <2>1, NumBounds
  <2>4. asked <= new
    <3>1. asked <= old /\ new >= old
      BY <2>1, <2>3
    <3> QED BY <3>1
  <2> QED BY <2>1, <2>2, <2>3, <2>4
<1> QED BY <1>1, <1>2

LEMMA TodayStays == ASSUME NumInv, today' = today PROVE today' \in Day /\ today' >= today
BY NumBounds DEF NumInv, NumTypeOK

LEMMA SampleNum == ASSUME NumInv, NEW n \in 1..2, Sample(n) PROVE NumInv'
<1>1. happened' \in 0..MaxHappened
  BY HappenIs DEF Sample
<1>2. reading' \in [Day -> Nat \cup {NoReading}]
  BY DEF NumInv, NumTypeOK, Sample
<1>3. today' = today /\ viewed' = viewed /\ inquiry' = inquiry /\ earned' = earned /\ dated' = dated
  BY DEF Sample
<1> QED BY <1>1, <1>2, <1>3, TodayStays, ViewedStays DEF NumInv, NumTypeOK

LEMMA PostNum == ASSUME NumInv, NEW p \in StatPost, Post(p) PROVE NumInv'
<1>1. happened' \in 0..MaxHappened
  BY HappenIs DEF Post
<1>2. earned' \in [StatPost -> Nat \cup {NoPost, NotShared, Gone}] /\ dated' \in [StatPost -> Day]
  BY DEF NumInv, NumTypeOK, Post
<1>3. today' = today /\ viewed' = viewed /\ inquiry' = inquiry /\ reading' = reading
  BY DEF Post
<1> QED BY <1>1, <1>2, <1>3, TodayStays, ViewedStays DEF NumInv, NumTypeOK

LEMMA ShareNum == ASSUME NumInv, NEW p \in StatPost, Share(p) PROVE NumInv'
<1>1. happened' \in 0..MaxHappened
  BY HappenIs DEF Share
<1>2. earned' \in [StatPost -> Nat \cup {NoPost, NotShared, Gone}]
  <2>1. CASE earned[p] = NotShared /\ earned' = [earned EXCEPT ![p] = 0]
    BY <2>1 DEF NumInv, NumTypeOK
  <2>2. CASE earned[p] \in Nat /\ \E n \in {earned[p] + 1, Gone} : earned' = [earned EXCEPT ![p] = n]
    <3>1. PICK n \in {earned[p] + 1, Gone} : earned' = [earned EXCEPT ![p] = n]
      BY <2>2
    <3>2. n \in Nat \cup {NoPost, NotShared, Gone}
      BY <2>2
    <3> QED BY <3>1, <3>2 DEF NumInv, NumTypeOK
  <2> QED BY <2>1, <2>2 DEF Share
<1>3. today' = today /\ viewed' = viewed /\ inquiry' = inquiry /\ reading' = reading /\ dated' = dated
  BY DEF Share
<1> QED BY <1>1, <1>2, <1>3, TodayStays, ViewedStays DEF NumInv, NumTypeOK

LEMMA NextDayNum == ASSUME NumInv, NextDay PROVE NumInv'
<1>1. today' \in Day /\ today' >= today
  BY NumBounds DEF NumInv, NumTypeOK, NextDay
<1>2. /\ viewed' = viewed /\ inquiry' = inquiry /\ reading' = reading /\ dated' = dated /\ earned' = earned
      /\ happened' = happened
  BY DEF NextDay
<1> QED BY <1>1, <1>2, ViewedStays DEF NumInv, NumTypeOK

LEMMA AskDaysNum == ASSUME NumInv, AskDays PROVE NumInv'
<1>1. PICK range \in RangeKind : inquiry' = [range |-> range, day |-> today, counted |-> viewed]
  BY DEF AskDays
<1>2. /\ viewed' = viewed /\ today' = today /\ reading' = reading /\ dated' = dated /\ earned' = earned
      /\ happened' = happened
  BY DEF AskDays
<1>3. viewed \sqsubseteq viewed
  BY BagsCount DEF NumInv
<1>4. inquiry'.range \in RangeKind /\ inquiry'.day = today /\ inquiry'.counted = viewed
  BY <1>1
<1>5. inquiry'.day <= today' /\ inquiry'.day \in Day
  BY <1>2, <1>4, NumBounds DEF NumInv, NumTypeOK
<1>6. (inquiry.counted \sqsubseteq viewed)' /\ Counted(inquiry.counted)' /\ Counted(viewed)' /\ IsABag(viewed)'
  BY <1>2, <1>3, <1>4 DEF NumInv, NumTypeOK, Counted, IsABag, \sqsubseteq
<1> QED BY <1>2, <1>4, <1>5, <1>6 DEF NumInv, NumTypeOK

LEMMA ReckonedNum == ASSUME NumInv, Reckoned \/ UNCHANGED numVars PROVE NumInv'
<1>1. /\ viewed' = viewed /\ today' = today /\ reading' = reading /\ dated' = dated /\ earned' = earned
      /\ happened' = happened
  BY DEF Reckoned, numVars
<1>2. CASE Reckoned
  BY <1>1, <1>2 DEF NumInv, NumTypeOK, Reckoned, Counted, IsABag
<1>3. CASE UNCHANGED numVars
  BY <1>1, <1>3, TodayStays, ViewedStays DEF NumInv, NumTypeOK, numVars
<1> QED BY <1>2, <1>3

LEMMA NumStep == ASSUME NumInv, [NumNext]_numVars PROVE NumInv'
<1>1. ASSUME NEW domain \in Domain, NEW path \in Path, View(domain, path) PROVE NumInv'
  BY <1>1, ViewNum
<1>2. ASSUME NEW n \in 1..2, Sample(n) PROVE NumInv'
  BY <1>2, SampleNum
<1>3. ASSUME NEW p \in StatPost, Post(p) \/ Share(p) PROVE NumInv'
  BY <1>3, PostNum, ShareNum
<1> QED BY <1>1, <1>2, <1>3, NextDayNum, AskDaysNum, ReckonedNum DEF NumNext

LEMMA NumHolds == ASSUME NumInv PROVE NumTypeOK /\ NumbersAreTrue
<1>1. NumTypeOK
  BY DEF NumInv
<1>2. ASSUME inquiry # NoInquiry
      PROVE  /\ TotalsTile(inquiry) /\ SourcesAddUp(inquiry) /\ GapsAreGaps(inquiry) /\ PartialIsSaid(inquiry)
             /\ UnknownIsLast(inquiry)
  <2>1. PICK i : i = inquiry
    OBVIOUS
  <2>2. Asked(i)
    BY <1>2, <2>1 DEF NumInv, NumTypeOK, Asked
  <2>3. earned \in [StatPost -> Nat \cup {NoPost, NotShared, Gone}]
    BY <1>1 DEF NumTypeOK
  <2>4. TotalsTile(i) /\ SourcesAddUp(i) /\ GapsAreGaps(i) /\ PartialIsSaid(i) /\ UnknownIsLast(i)
    BY <2>2, <2>3, Tiles, Sources, Gaps, Partial, TableHolds
  <2> QED BY <2>1, <2>4
<1> QED BY <1>1, <1>2 DEF NumbersAreTrue

=============================================================================
