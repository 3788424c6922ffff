-------------------------------- MODULE Sums --------------------------------
(***************************************************************************)
(* Adding up a number per element of a finite set: what SumFunctionOnSet,  *)
(* of the community modules, computes.  A fact about every finite set is   *)
(* proved by looking at a smallest counterexample.  Ranks are counts too.  *)
(***************************************************************************)
EXTENDS Integers, FiniteSets, Functions, FiniteSetTheorems, TLAPS

\* The element of s that is taken first.
First(s) == CHOOSE x \in s : TRUE

\* g is the function the sum recurses through: the sum of every subset.
Adds(f, S, g) ==
  g = [s \in SUBSET S |->
         IF s = {} THEN 0 ELSE f[First(s)] + g[s \ {First(s)}]]

\* A nonempty set of subsets of a finite set has a minimal one.
LEMMA Smallest ==
  ASSUME NEW S, IsFiniteSet(S), NEW T, T \subseteq SUBSET S, T # {}
  PROVE  \E m \in T : \A y \in T : y \subseteq m => y = m
<1>1. IsWellFoundedOn(StrictSubsetOrdering(S), SUBSET S)
  BY FS_StrictSubsetOrderingWellFounded, FS_FiniteSubsetsOfFinite
<1>2. \E x \in T : \A y \in T : ~(<<y, x>> \in StrictSubsetOrdering(S))
  BY <1>1, WFMin
<1>3. QED
  BY <1>2 DEF StrictSubsetOrdering

\* A nonempty set of natural numbers has a least one.
LEMMA Least ==
  ASSUME NEW T, T \subseteq Nat, T # {}
  PROVE  \E m \in T : \A y \in T : m <= y
<1>1. PICK k \in T : TRUE
  OBVIOUS
<1> DEFINE S == 0..k
           U == {s \in SUBSET S : \E j \in T : s = 0..j}
<1>2. IsFiniteSet(S) /\ U \subseteq SUBSET S
  BY <1>1, FS_Interval
<1>3. S \in U
  BY <1>1
<1>4. PICK s \in U : \A y \in U : y \subseteq s => y = s
  <2>1. U # {}
    BY <1>3
  <2> HIDE DEF U, S
  <2>2. QED
    BY <1>2, <2>1, Smallest
<1>5. PICK j \in T : s = 0..j
  BY <1>4
<1>6. ASSUME NEW y \in T PROVE j <= y
  <2>1. SUFFICES ASSUME y < j PROVE FALSE
    OBVIOUS
  <2>2. y \in Nat /\ j \in Nat /\ k \in Nat
    BY <1>1
  <2>3. j \in 0..j /\ 0..j \subseteq 0..k
    BY <1>4, <1>5, <2>2
  <2>4. 0..y \subseteq 0..j /\ j \notin 0..y
    BY <2>1, <2>2
  <2>5. 0..y \in U
    BY <2>3, <2>4
  <2>6. QED
    BY <1>4, <1>5, <2>3, <2>4, <2>5
<1>7. QED
  BY <1>5, <1>6

\* The image of a finite set is finite.
LEMMA ImageFinite ==
  ASSUME NEW S, IsFiniteSet(S), NEW f
  PROVE  IsFiniteSet({f[x] : x \in S})
<1> DEFINE g == [x \in S |-> f[x]]
           T == {f[x] : x \in S}
<1>1. g \in Surjection(S, T)
  BY DEF Surjection
<1>2. QED
  BY <1>1, FS_Surjection

\* So is a set whose elements can be told apart by the elements of a finite one.
LEMMA TaggedFinite ==
  ASSUME NEW S, NEW T, IsFiniteSet(T), NEW f, \A x \in S : f[x] \in T,
         \A x, y \in S : f[x] = f[y] => x = y
  PROVE  IsFiniteSet(S)
<1> DEFINE g == [x \in S |-> f[x]]
<1>1. g \in Injection(S, T)
  BY DEF Injection, IsInjective
<1>2. QED
  BY <1>1, FS_Injection

\* The element the fold takes first is in the set.
LEMMA FirstIn == ASSUME NEW s, s # {} PROVE First(s) \in s
  BY DEF First

\* What a function that adds gives for one set.
LEMMA AddsTo ==
  ASSUME NEW f, NEW S, NEW g, Adds(f, S, g), NEW s \in SUBSET S
  PROVE  g[s] = IF s = {} THEN 0 ELSE f[First(s)] + g[s \ {First(s)}]
<1> DEFINE body(t) == IF t = {} THEN 0 ELSE f[First(t)] + g[t \ {First(t)}]
<1>1. g = [t \in SUBSET S |-> body(t)]
  BY DEF Adds
<1> HIDE DEF body
<1>2. g[s] = body(s)
  BY <1>1
<1>3. QED
  BY <1>2 DEF body

\* Two such functions agree where both are defined.
LEMMA AddsUnique ==
  ASSUME NEW f, NEW S, NEW R, NEW g, NEW h, IsFiniteSet(S),
         Adds(f, S, g), Adds(f, R, h),
         NEW s, s \subseteq S, s \subseteq R
  PROVE  g[s] = h[s]
<1> DEFINE T == {t \in SUBSET s : g[t] # h[t]}
<1> SUFFICES ASSUME T # {} PROVE FALSE
  OBVIOUS
<1>1. IsFiniteSet(s)
  BY FS_Subset
<1>2. PICK m \in T : \A y \in T : y \subseteq m => y = m
  <2>1. T \subseteq SUBSET s
    OBVIOUS
  <2> HIDE DEF T
  <2>2. QED
    BY <1>1, <2>1, Smallest
<1>3. /\ g[m] = IF m = {} THEN 0 ELSE f[First(m)] + g[m \ {First(m)}]
      /\ h[m] = IF m = {} THEN 0 ELSE f[First(m)] + h[m \ {First(m)}]
  BY AddsTo
<1>4. m # {}
  BY <1>3
<1>5. m \ {First(m)} \notin T
  BY <1>2, <1>4, FirstIn
<1>6. g[m \ {First(m)}] = h[m \ {First(m)}]
  BY <1>5
<1>7. QED
  BY <1>3, <1>4, <1>6

\* It adds over every smaller set as well.
LEMMA AddsRestricted ==
  ASSUME NEW f, NEW S, NEW g, Adds(f, S, g), NEW R, R \subseteq S
  PROVE  Adds(f, R, [s \in SUBSET R |-> g[s]])
<1> DEFINE h == [s \in SUBSET R |-> g[s]]
<1>1. ASSUME NEW s \in SUBSET R
      PROVE  h[s] = IF s = {} THEN 0 ELSE f[First(s)] + h[s \ {First(s)}]
  BY AddsTo
<1>2. QED
  BY <1>1 DEF Adds

\* The fold is such a function, at the whole set.
LEMMA SumIsChosen ==
  ASSUME NEW f, NEW S
  PROVE  SumFunctionOnSet(f, S) = (CHOOSE g : Adds(f, S, g))[S]
  BY DEF SumFunctionOnSet, FoldFunctionOnSet, MapThenFoldSet, Adds, First

\* All functions that add agree, so the fold is any of them.
LEMMA SumFromAdds ==
  ASSUME NEW f, NEW S, IsFiniteSet(S), NEW R, NEW g, Adds(f, R, g), S \subseteq R
  PROVE  SumFunctionOnSet(f, S) = g[S]
<1>1. Adds(f, S, [s \in SUBSET S |-> g[s]])
  BY AddsRestricted
<1>2. Adds(f, S, CHOOSE h : Adds(f, S, h))
  BY <1>1
<1>3. QED
  BY <1>2, SumIsChosen, AddsUnique

\* The recursion is well founded on a finite set.
LEMMA AddsExists ==
  ASSUME NEW f, NEW S, IsFiniteSet(S)
  PROVE  \E g : Adds(f, S, g)
<1> DEFINE T == {t \in SUBSET S : ~ \E g : Adds(f, t, g)}
<1> SUFFICES ASSUME T # {} PROVE FALSE
  OBVIOUS
<1>1. PICK m \in T : \A y \in T : y \subseteq m => y = m
  <2>1. T \subseteq SUBSET S
    OBVIOUS
  <2> HIDE DEF T
  <2>2. QED
    BY <2>1, Smallest
<1> DEFINE G == [s \in SUBSET m |->
                   IF s = {} THEN 0
                   ELSE f[First(s)] + SumFunctionOnSet(f, s \ {First(s)})]
<1>2. ASSUME NEW t \in SUBSET m, t # m
      PROVE  G[t] = SumFunctionOnSet(f, t)
  <2>1. PICK g : Adds(f, t, g)
    BY <1>1, <1>2
  <2>2. IsFiniteSet(t) /\ IsFiniteSet(t \ {First(t)})
    BY FS_Subset
  <2>3. /\ SumFunctionOnSet(f, t) = g[t]
        /\ SumFunctionOnSet(f, t \ {First(t)}) = g[t \ {First(t)}]
    BY <2>1, <2>2, SumFromAdds
  <2>4. QED
    BY <2>1, <2>3, AddsTo
<1>3. ASSUME NEW s \in SUBSET m
      PROVE  G[s] = IF s = {} THEN 0 ELSE f[First(s)] + G[s \ {First(s)}]
  <2>1. CASE s # {}
    <3>1. s \ {First(s)} \in SUBSET m /\ s \ {First(s)} # m
      BY <2>1, FirstIn
    <3>2. QED
      BY <2>1, <3>1, <1>2
  <2>2. QED
    BY <2>1
<1>4. Adds(f, m, G)
  BY <1>3 DEF Adds
<1>5. QED
  BY <1>4

\* The sum is one element and the sum of the others.
LEMMA SumIsAdded ==
  ASSUME NEW f, NEW S, IsFiniteSet(S)
  PROVE  SumFunctionOnSet(f, S) = IF S = {} THEN 0
                                 ELSE f[First(S)] + SumFunctionOnSet(f, S \ {First(S)})
<1>1. PICK g : Adds(f, S, g)
  BY AddsExists
<1>2. IsFiniteSet(S \ {First(S)})
  BY FS_Subset
<1>3. /\ SumFunctionOnSet(f, S) = g[S]
      /\ SumFunctionOnSet(f, S \ {First(S)}) = g[S \ {First(S)}]
  BY <1>1, <1>2, SumFromAdds
<1>4. QED
  BY <1>1, <1>3, AddsTo

\* An empty sum is zero.
LEMMA SumEmpty == ASSUME NEW f PROVE SumFunctionOnSet(f, {}) = 0
  BY SumIsAdded, FS_EmptySet

\* A sum of integers is an integer.
LEMMA SumIsInt ==
  ASSUME NEW f, NEW S, IsFiniteSet(S), \A x \in S : f[x] \in Int
  PROVE  SumFunctionOnSet(f, S) \in Int
<1> DEFINE T == {t \in SUBSET S : SumFunctionOnSet(f, t) \notin Int}
<1> SUFFICES ASSUME T # {} PROVE FALSE
  OBVIOUS
<1>1. PICK m \in T : \A y \in T : y \subseteq m => y = m
  <2>1. T \subseteq SUBSET S
    OBVIOUS
  <2> HIDE DEF T
  <2>2. QED
    BY <2>1, Smallest
<1>2. IsFiniteSet(m)
  BY FS_Subset
<1>3. m # {}
  BY SumEmpty
<1>4. First(m) \in m /\ m \ {First(m)} \notin T
  BY <1>1, <1>3, FirstIn
<1>5. SumFunctionOnSet(f, m) = f[First(m)] + SumFunctionOnSet(f, m \ {First(m)})
  BY <1>2, <1>3, SumIsAdded
<1>6. QED
  BY <1>4, <1>5

\* The order does not matter: any element may be the one taken first.
LEMMA SumTakesAny ==
  ASSUME NEW f, NEW S, IsFiniteSet(S), \A x \in S : f[x] \in Int
  PROVE  \A x \in S : SumFunctionOnSet(f, S) = f[x] + SumFunctionOnSet(f, S \ {x})
<1> DEFINE OK(t) == \A x \in t :
                      SumFunctionOnSet(f, t) = f[x] + SumFunctionOnSet(f, t \ {x})
           T == {t \in SUBSET S : ~OK(t)}
<1> SUFFICES ASSUME T # {} PROVE FALSE
  OBVIOUS
<1>1. PICK m \in T : \A y \in T : y \subseteq m => y = m
  <2>1. T \subseteq SUBSET S
    OBVIOUS
  <2> HIDE DEF T
  <2>2. QED
    BY <2>1, Smallest
<1>2. IsFiniteSet(m)
  BY FS_Subset
<1>3. PICK x \in m : SumFunctionOnSet(f, m) # f[x] + SumFunctionOnSet(f, m \ {x})
  OBVIOUS
<1> DEFINE y == First(m)
<1>4. y \in m
  BY <1>3, FirstIn
<1>5. SumFunctionOnSet(f, m) = f[y] + SumFunctionOnSet(f, m \ {y})
  BY <1>2, <1>3, SumIsAdded
<1>6. x # y
  BY <1>3, <1>5
<1> HIDE DEF y
<1>7. OK(m \ {y}) /\ OK(m \ {x})
  BY <1>1, <1>3, <1>4
<1> DEFINE rest == (m \ {x}) \ {y}
<1>8. rest = (m \ {y}) \ {x}
  OBVIOUS
<1>9. /\ SumFunctionOnSet(f, m \ {y}) = f[x] + SumFunctionOnSet(f, rest)
      /\ SumFunctionOnSet(f, m \ {x}) = f[y] + SumFunctionOnSet(f, rest)
  BY <1>3, <1>4, <1>6, <1>7, <1>8
<1>10. SumFunctionOnSet(f, rest) \in Int /\ f[x] \in Int /\ f[y] \in Int
  BY <1>2, <1>4, FS_Subset, SumIsInt
<1> HIDE DEF rest
<1>11. SumFunctionOnSet(f, m) = f[x] + SumFunctionOnSet(f, m \ {x})
  BY <1>5, <1>9, <1>10
<1>12. QED
  BY <1>3, <1>11

\* One element more adds its value to the sum.
LEMMA SumAdd ==
  ASSUME NEW f, NEW S, IsFiniteSet(S), NEW x, x \notin S,
         \A y \in S \cup {x} : f[y] \in Int
  PROVE  SumFunctionOnSet(f, S \cup {x}) = SumFunctionOnSet(f, S) + f[x]
<1>1. IsFiniteSet(S \cup {x})
  BY FS_AddElement
<1>2. (S \cup {x}) \ {x} = S
  OBVIOUS
<1>3. SumFunctionOnSet(f, S \cup {x}) = f[x] + SumFunctionOnSet(f, S)
  BY <1>1, <1>2, SumTakesAny
<1>4. SumFunctionOnSet(f, S) \in Int /\ f[x] \in Int
  BY SumIsInt
<1>5. QED
  BY <1>3, <1>4

\* Functions that agree on a set have the same sum over it.
LEMMA SumSame ==
  ASSUME NEW f, NEW h, NEW S, \A x \in S : f[x] = h[x]
  PROVE  SumFunctionOnSet(f, S) = SumFunctionOnSet(h, S)
<1>1. ASSUME NEW g PROVE Adds(f, S, g) <=> Adds(h, S, g)
  <2>1. \A s \in SUBSET S : s # {} => f[First(s)] = h[First(s)]
    BY FirstIn
  <2>2. QED
    BY <2>1 DEF Adds
<1>2. (CHOOSE g : Adds(f, S, g)) = (CHOOSE g : Adds(h, S, g))
  BY <1>1
<1>3. QED
  BY <1>2, SumIsChosen

\* The sum of natural numbers grows with the set.
LEMMA SumGrows ==
  ASSUME NEW f, NEW S, IsFiniteSet(S), \A x \in S : f[x] \in Nat
  PROVE  /\ SumFunctionOnSet(f, S) \in Nat
         /\ \A R \in SUBSET S : SumFunctionOnSet(f, R) <= SumFunctionOnSet(f, S)
<1> DEFINE OK(t) == /\ SumFunctionOnSet(f, t) \in Nat
                    /\ \A R \in SUBSET t :
                         SumFunctionOnSet(f, R) <= SumFunctionOnSet(f, t)
           T == {t \in SUBSET S : ~OK(t)}
<1> SUFFICES ASSUME T # {} PROVE FALSE
  OBVIOUS
<1>1. PICK m \in T : \A y \in T : y \subseteq m => y = m
  <2>1. T \subseteq SUBSET S
    OBVIOUS
  <2> HIDE DEF T
  <2>2. QED
    BY <2>1, Smallest
<1>2. IsFiniteSet(m) /\ \A x \in m : f[x] \in Int
  BY FS_Subset
<1>3. CASE m = {}
  <2>1. SumFunctionOnSet(f, m) = 0 /\ \A R \in SUBSET m : R = m
    BY <1>3, SumEmpty
  <2>2. QED
    BY <2>1
<1>4. CASE m # {}
  <2>1. ASSUME NEW x \in m
        PROVE  /\ f[x] \in Nat
               /\ SumFunctionOnSet(f, m) = f[x] + SumFunctionOnSet(f, m \ {x})
               /\ SumFunctionOnSet(f, m \ {x}) \in Nat
               /\ \A R \in SUBSET (m \ {x}) :
                    SumFunctionOnSet(f, R) <= SumFunctionOnSet(f, m \ {x})
    <3>1. OK(m \ {x}) /\ f[x] \in Nat
      BY <1>1
    <3>2. SumFunctionOnSet(f, m) = f[x] + SumFunctionOnSet(f, m \ {x})
      BY <1>2, SumTakesAny
    <3>3. QED
      BY <3>1, <3>2
  <2>2. SumFunctionOnSet(f, m) \in Nat
    <3>1. PICK x \in m : TRUE
      BY <1>4
    <3> DEFINE rest == SumFunctionOnSet(f, m \ {x})
    <3>2. f[x] \in Nat /\ rest \in Nat /\ SumFunctionOnSet(f, m) = f[x] + rest
      BY <2>1, <3>1
    <3> HIDE DEF rest
    <3>3. QED
      BY <3>2
  <2>3. ASSUME NEW R \in SUBSET m
        PROVE  SumFunctionOnSet(f, R) <= SumFunctionOnSet(f, m)
    <3>1. CASE R = m
      BY <3>1, <2>2
    <3>2. CASE R # m
      <4>1. PICK x \in m : x \notin R
        BY <3>2
      <4>2. IsFiniteSet(R) /\ R \subseteq m \ {x}
        BY <1>2, <4>1, FS_Subset
      <4>3. SumFunctionOnSet(f, R) \in Int
        BY <1>2, <4>2, SumIsInt
      <4> DEFINE rest == SumFunctionOnSet(f, m \ {x})
      <4>4. /\ SumFunctionOnSet(f, R) <= rest
            /\ f[x] \in Nat /\ rest \in Nat /\ SumFunctionOnSet(f, m) = f[x] + rest
        BY <2>1, <4>2
      <4> HIDE DEF rest
      <4>5. QED
        BY <4>3, <4>4
    <3>3. QED
      BY <3>1, <3>2
  <2>4. QED
    BY <2>2, <2>3
<1>5. QED
  BY <1>3, <1>4

\* The sum over two sets with nothing in common.
LEMMA SumUnion ==
  ASSUME NEW f, NEW S, NEW R, IsFiniteSet(S), IsFiniteSet(R), S \cap R = {},
         \A x \in S \cup R : f[x] \in Int
  PROVE  SumFunctionOnSet(f, S \cup R) = SumFunctionOnSet(f, S) + SumFunctionOnSet(f, R)
<1> DEFINE T == {t \in SUBSET R :
                   SumFunctionOnSet(f, S \cup t)
                     # SumFunctionOnSet(f, S) + SumFunctionOnSet(f, t)}
<1> SUFFICES ASSUME T # {} PROVE FALSE
  OBVIOUS
<1>1. PICK m \in T : \A y \in T : y \subseteq m => y = m
  <2>1. T \subseteq SUBSET R
    OBVIOUS
  <2> HIDE DEF T
  <2>2. QED
    BY <2>1, Smallest
<1>2. SumFunctionOnSet(f, S) \in Int
  BY SumIsInt
<1>3. CASE m = {}
  <2>1. SumFunctionOnSet(f, m) = 0 /\ S \cup m = S
    BY <1>3, SumEmpty
  <2>2. SumFunctionOnSet(f, S \cup m) = SumFunctionOnSet(f, S)
    BY <2>1, Zenon
  <2>3. SumFunctionOnSet(f, S \cup m) = SumFunctionOnSet(f, S) + SumFunctionOnSet(f, m)
    BY <1>2, <2>1, <2>2
  <2>4. QED
    BY <2>3
<1>4. CASE m # {}
  <2>1. PICK x \in m : TRUE
    BY <1>4
  <2> DEFINE n == m \ {x}
  <2>2. SumFunctionOnSet(f, S \cup n) = SumFunctionOnSet(f, S) + SumFunctionOnSet(f, n)
    BY <1>1, <2>1
  <2>3. IsFiniteSet(n) /\ IsFiniteSet(S \cup n)
    BY FS_Subset, FS_Union
  <2>4. /\ x \notin n /\ x \notin S \cup n
        /\ m = n \cup {x} /\ S \cup m = (S \cup n) \cup {x}
        /\ f[x] \in Int /\ \A y \in n \cup {x} : f[y] \in Int
        /\ \A y \in (S \cup n) \cup {x} : f[y] \in Int
    BY <2>1
  <2> HIDE DEF n
  <2>5. SumFunctionOnSet(f, m) = SumFunctionOnSet(f, n) + f[x]
    BY <2>3, <2>4, SumAdd
  <2>6. SumFunctionOnSet(f, S \cup m) = SumFunctionOnSet(f, S \cup n) + f[x]
    BY <2>3, <2>4, SumAdd
  <2>7. SumFunctionOnSet(f, n) \in Int
    BY <2>3, <2>4, SumIsInt
  <2>8. QED
    BY <1>2, <2>2, <2>4, <2>5, <2>6, <2>7
<1>5. QED
  BY <1>3, <1>4

\* Renaming the elements, no two of them alike, leaves the sum as it was.
LEMMA SumRenamed ==
  ASSUME NEW f, NEW g, NEW h, NEW S, IsFiniteSet(S),
         \A x \in S : f[x] \in Int /\ g[h[x]] = f[x],
         \A x, y \in S : h[x] = h[y] => x = y
  PROVE  SumFunctionOnSet(g, {h[x] : x \in S}) = SumFunctionOnSet(f, S)
<1> DEFINE im(t) == {h[x] : x \in t}
           T == {t \in SUBSET S : SumFunctionOnSet(g, im(t)) # SumFunctionOnSet(f, t)}
<1> SUFFICES ASSUME T # {} PROVE FALSE
  OBVIOUS
<1>1. PICK m \in T : \A y \in T : y \subseteq m => y = m
  <2>1. T \subseteq SUBSET S
    OBVIOUS
  <2> HIDE DEF T
  <2>2. QED
    BY <2>1, Smallest
<1>2. CASE m = {}
  <2>1. im(m) = {}
    BY <1>2
  <2>2. QED
    BY <1>2, <2>1, SumEmpty
<1>3. CASE m # {}
  <2>1. PICK x \in m : TRUE
    BY <1>3
  <2> DEFINE n == m \ {x}
  <2> DEFINE z == h[x]
             I == im(n)
             J == im(m)
  <2>2. SumFunctionOnSet(g, I) = SumFunctionOnSet(f, n)
    BY <1>1, <2>1
  <2>3. IsFiniteSet(n) /\ IsFiniteSet(I)
    BY FS_Subset, ImageFinite
  <2>4. /\ x \notin n /\ m = n \cup {x}
        /\ z \notin I /\ J = I \cup {z}
        /\ \A y \in n \cup {x} : f[y] \in Int
        /\ \A y \in I \cup {z} : g[y] \in Int
        /\ g[z] = f[x]
    BY <2>1
  <2> HIDE DEF n, z, I, J
  <2>5. SumFunctionOnSet(f, m) = SumFunctionOnSet(f, n) + f[x]
    BY <2>3, <2>4, SumAdd
  <2>6. SumFunctionOnSet(g, J) = SumFunctionOnSet(g, I) + g[z]
    BY <2>3, <2>4, SumAdd
  <2>7. SumFunctionOnSet(g, J) = SumFunctionOnSet(f, m)
    BY <2>2, <2>4, <2>5, <2>6
  <2>8. QED
    BY <2>7 DEF J
<1>4. QED
  BY <1>2, <1>3

\* The sum over the whole domain of g is the sum of any f it agrees with.
LEMMA SumFunctionIs ==
  ASSUME NEW f, NEW g, \A x \in DOMAIN g : f[x] = g[x]
  PROVE  SumFunction(g) = SumFunctionOnSet(f, DOMAIN g)
  BY SumSame DEF SumFunction

\* Larger terms make a larger sum.
LEMMA SumRises ==
  ASSUME NEW f, NEW h, NEW S, IsFiniteSet(S),
         \A x \in S : f[x] \in Int /\ h[x] \in Int /\ f[x] <= h[x]
  PROVE  SumFunctionOnSet(f, S) <= SumFunctionOnSet(h, S)
<1> DEFINE T == {t \in SUBSET S : ~(SumFunctionOnSet(f, t) <= SumFunctionOnSet(h, t))}
<1> SUFFICES ASSUME T # {} PROVE FALSE
  OBVIOUS
<1>1. PICK m \in T : \A y \in T : y \subseteq m => y = m
  <2>1. T \subseteq SUBSET S
    OBVIOUS
  <2> HIDE DEF T
  <2>2. QED
    BY <2>1, Smallest
<1>2. IsFiniteSet(m) /\ m \subseteq S
  BY <1>1, FS_Subset
<1>3. m # {}
  <2>1. SumFunctionOnSet(f, {}) = 0 /\ SumFunctionOnSet(h, {}) = 0
    BY SumEmpty
  <2>2. {} \notin T
    BY <2>1
  <2> HIDE DEF T
  <2>3. QED
    BY <1>1, <2>2
<1>4. PICK x \in m : TRUE
  BY <1>3
<1> DEFINE r == m \ {x}
<1>5. IsFiniteSet(r) /\ r \subseteq S /\ r \subseteq m /\ r # m
  BY <1>2, <1>4, FS_Subset
<1>6. SumFunctionOnSet(f, r) <= SumFunctionOnSet(h, r)
  BY <1>1, <1>5
<1>7. /\ SumFunctionOnSet(f, m) = f[x] + SumFunctionOnSet(f, r)
      /\ SumFunctionOnSet(h, m) = h[x] + SumFunctionOnSet(h, r)
  BY <1>2, <1>4, SumTakesAny
<1>8. SumFunctionOnSet(f, r) \in Int /\ SumFunctionOnSet(h, r) \in Int
  BY <1>5, SumIsInt
<1> HIDE DEF r
<1>9. SumFunctionOnSet(f, m) <= SumFunctionOnSet(h, m)
  BY <1>2, <1>4, <1>6, <1>7, <1>8
<1>10. QED
  BY <1>1, <1>9

-----------------------------------------------------------------------------
(* Ranks *)

\* above[p] are those above p: everybody is above everybody else or below.
TotallyOrdered(S, above) ==
  /\ \A p \in S : above[p] \subseteq S /\ p \notin above[p]
  /\ \A p, q \in S : q \in above[p] => above[q] \subseteq above[p]
  /\ \A p, q \in S : p = q \/ q \in above[p] \/ p \in above[q]

\* One is at each rank, counted from those above.
RankedOnce(S, above) ==
  \A i \in 1..Cardinality(S) : \E p : {q \in S : 1 + Cardinality(above[q]) = i} = {p}

\* In such an order there is exactly one at each rank.
LEMMA OneAtEachRank ==
  ASSUME NEW S, IsFiniteSet(S), NEW above, TotallyOrdered(S, above)
  PROVE  RankedOnce(S, above)
<1> DEFINE n == Cardinality(S)
           f == [p \in S |-> 1 + Cardinality(above[p])]
<1> USE DEF TotallyOrdered
<1>1. n \in Nat
  BY FS_CardinalityType
<1>2. ASSUME NEW p \in S
      PROVE  IsFiniteSet(above[p]) /\ Cardinality(above[p]) \in Nat /\ f[p] \in 1..n
  <2>1. above[p] \subseteq S \ {p}
    OBVIOUS
  <2>2. IsFiniteSet(S \ {p}) /\ Cardinality(S \ {p}) = n - 1
    BY FS_RemoveElement
  <2>3. IsFiniteSet(above[p]) /\ Cardinality(above[p]) <= n - 1
    BY <2>1, <2>2, FS_Subset
  <2>4. Cardinality(above[p]) \in Nat
    BY <2>3, FS_CardinalityType
  <2> HIDE DEF n
  <2>5. QED
    BY <1>1, <2>3, <2>4
<1>3. ASSUME NEW p \in S, NEW q \in S, q \in above[p] PROVE f[q] # f[p]
  <2>1. above[q] \cup {q} \subseteq above[p] /\ q \notin above[q]
    BY <1>3
  <2>2. /\ IsFiniteSet(above[q] \cup {q})
        /\ Cardinality(above[q] \cup {q}) = Cardinality(above[q]) + 1
    BY <1>2, <2>1, FS_AddElement
  <2>3. Cardinality(above[q] \cup {q}) <= Cardinality(above[p])
    BY <1>2, <2>1, FS_Subset
  <2>4. QED
    BY <1>2, <2>2, <2>3
<1>4. f \in Injection(S, 1..n)
  <2>1. \A p, q \in S : f[p] = f[q] => p = q
    BY <1>3
  <2>2. f \in [S -> 1..n] /\ DOMAIN f = S
    BY <1>2
  <2> HIDE DEF f, n
  <2>3. QED
    BY <2>1, <2>2 DEF Injection, IsInjective
<1>5. f \in Surjection(S, 1..n)
  <2>1. IsFiniteSet(1..n) /\ Cardinality(1..n) = n
    BY <1>1, FS_Interval
  <2> HIDE DEF f
  <2>2. QED
    BY <1>4, <2>1, FS_Injection
<1>6. ASSUME NEW i \in 1..n PROVE \E p : {q \in S : f[q] = i} = {p}
  <2> HIDE DEF f
  <2>1. PICK p \in S : f[p] = i
    BY <1>5 DEF Surjection
  <2>2. \A q \in S : f[q] = i => q = p
    BY <1>4, <2>1 DEF Injection, IsInjective
  <2>3. {q \in S : f[q] = i} = {p}
    BY <2>1, <2>2
  <2>4. QED
    BY <2>3
<1>7. ASSUME NEW i \in 1..n PROVE \E p : {q \in S : 1 + Cardinality(above[q]) = i} = {p}
  <2>1. {q \in S : 1 + Cardinality(above[q]) = i} = {q \in S : f[q] = i}
    OBVIOUS
  <2> HIDE DEF f
  <2>2. QED
    BY <1>6, <2>1
<1>8. QED
  BY <1>7 DEF RankedOnce

===============================================================================
