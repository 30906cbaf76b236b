----------------------------- MODULE SumProofs -----------------------------
(***************************************************************************)
(* Facts about SumFunction, which adds up a function over a finite domain: *)
(* stakes over wagers, amounts over ledger entries.  The proofs about the  *)
(* transactions, the stake limits and the accounts rest on them.           *)
(***************************************************************************)
EXTENDS Functions, FiniteSetTheorems, TLAPS, Integers

-----------------------------------------------------------------------------
(* Sums over finite sets *)

(* A nonempty family of subsets of a finite set has a minimal member: the  *)
(* induction over finite sets that the facts below rest on.                *)
LEMMA MinimalSubset ==
  ASSUME NEW S, IsFiniteSet(S), NEW T, T \subseteq SUBSET S, T # {}
  PROVE  \E s \in T : \A t \in T : t \subseteq s => t = s
<1>1. FiniteSubsetsOf(S) = SUBSET S
  BY FS_FiniteSubsetsOfFinite
<1>2. IsWellFoundedOn(StrictSubsetOrdering(S), SUBSET S)
  BY <1>1, FS_StrictSubsetOrderingWellFounded
<1>3. PICK s \in T : \A t \in T : ~ (<<t, s>> \in StrictSubsetOrdering(S))
  BY <1>2, WFMin
<1>4. \A t \in T : t \subseteq s => t = s
  BY <1>3 DEF StrictSubsetOrdering
<1>5. QED
  BY <1>4

(* SumFunction adds up its argument element by element, in an order it     *)
(* chooses; g[s] is the sum over s.                                        *)
First(s) == CHOOSE x \in s : TRUE

Sums(g, f, S) ==
  \A s \in SUBSET S : g[s] = IF s = {} THEN 0 ELSE f[First(s)] + g[s \ {First(s)}]

SumMap(g, f, S) == Sums(g, f, S) /\ g = [s \in SUBSET S |-> g[s]]

(* The chosen element is one of the set.                                   *)
LEMMA FirstIn == ASSUME NEW s, s # {} PROVE First(s) \in s
BY DEF First

(* Partial sums do not depend on the set they are part of.                 *)
LEMMA SumUnique ==
  ASSUME NEW S, IsFiniteSet(S), NEW f, NEW g, Sums(g, f, S),
         NEW R \in SUBSET S, NEW h, Sums(h, f, R)
  PROVE  \A u \in SUBSET R : g[u] = h[u]
<1> DEFINE T == {u \in SUBSET R : g[u] # h[u]}
<1> SUFFICES ASSUME T # {} PROVE FALSE
  OBVIOUS
<1>1. IsFiniteSet(R)
  BY FS_Subset
<1>2. PICK u \in T : \A t \in T : t \subseteq u => t = u
  <2>1. T \subseteq SUBSET R /\ T # {}
    OBVIOUS
  <2> HIDE DEF T
  <2>2. QED
    BY <1>1, <2>1, MinimalSubset
<1>3. u \in SUBSET R /\ u \in SUBSET S /\ g[u] # h[u]
  OBVIOUS
<1>4. /\ g[u] = IF u = {} THEN 0 ELSE f[First(u)] + g[u \ {First(u)}]
      /\ h[u] = IF u = {} THEN 0 ELSE f[First(u)] + h[u \ {First(u)}]
  BY <1>3 DEF Sums
<1>5. u # {}
  BY <1>3, <1>4
<1>6. First(u) \in u
  BY <1>5, FirstIn
<1>7. u \ {First(u)} \in SUBSET R /\ u \ {First(u)} # u /\ u \ {First(u)} \subseteq u
  BY <1>3, <1>6
<1>8. g[u \ {First(u)}] = h[u \ {First(u)}]
  BY <1>2, <1>7
<1>9. QED
  BY <1>3, <1>4, <1>5, <1>8

(* Sums of integers are integers.                                          *)
LEMMA SumInt ==
  ASSUME NEW S, IsFiniteSet(S), NEW f \in [S -> Int], NEW g, Sums(g, f, S)
  PROVE  \A u \in SUBSET S : g[u] \in Int
<1> DEFINE T == {u \in SUBSET S : g[u] \notin Int}
<1> SUFFICES ASSUME T # {} PROVE FALSE
  OBVIOUS
<1>2. PICK u \in T : \A t \in T : t \subseteq u => t = u
  <2>1. T \subseteq SUBSET S /\ T # {}
    OBVIOUS
  <2> HIDE DEF T
  <2>2. QED
    BY <2>1, MinimalSubset
<1>3. u \in SUBSET S /\ g[u] \notin Int
  OBVIOUS
<1>4. g[u] = IF u = {} THEN 0 ELSE f[First(u)] + g[u \ {First(u)}]
  BY <1>3 DEF Sums
<1>5. u # {}
  BY <1>3, <1>4
<1>6. First(u) \in u
  BY <1>5, FirstIn
<1>7. u \ {First(u)} \in SUBSET S /\ u \ {First(u)} # u /\ u \ {First(u)} \subseteq u
  BY <1>3, <1>6
<1>8. g[u \ {First(u)}] \in Int /\ f[First(u)] \in Int
  BY <1>2, <1>3, <1>6, <1>7
<1>9. QED
  BY <1>3, <1>4, <1>5, <1>8

(* The partial sums of a finite set exist ...                              *)
LEMMA SumExists ==
  ASSUME NEW S, IsFiniteSet(S), NEW f
  PROVE  \E g : SumMap(g, f, S)
<1> DEFINE T == {s \in SUBSET S : ~ \E g : Sums(g, f, s)}
           H(r) == CHOOSE h : Sums(h, f, r)
           G(s) == [t \in SUBSET s |->
                      IF t = {} THEN 0
                      ELSE f[First(t)] + H(t \ {First(t)})[t \ {First(t)}]]
<1>1. ASSUME NEW s \in SUBSET S, \A r \in SUBSET s : r # s => \E h : Sums(h, f, r)
      PROVE  Sums(G(s), f, s)
  <2>1. ASSUME NEW t \in SUBSET s, t # {}
        PROVE  G(s)[t \ {First(t)}] = H(t \ {First(t)})[t \ {First(t)}]
    <3> DEFINE u == t \ {First(t)}
    <3>1. First(t) \in t
      BY <2>1, FirstIn
    <3>2. u \in SUBSET s /\ u # s
      BY <3>1
    <3>3. Sums(H(u), f, u)
      BY <1>1, <3>2
    <3>4. H(u)[u] = IF u = {} THEN 0 ELSE f[First(u)] + H(u)[u \ {First(u)}]
      BY <3>3 DEF Sums
    <3>5. CASE u = {}
      BY <3>2, <3>4, <3>5
    <3>6. CASE u # {}
      <4> DEFINE v == u \ {First(u)}
      <4>1. v \in SUBSET u /\ v \in SUBSET s /\ v # s
        BY <3>2, <3>6, FirstIn
      <4>2. Sums(H(v), f, v)
        BY <1>1, <4>1
      <4>3. IsFiniteSet(u)
        BY <3>2, FS_Subset
      <4>4. v \in SUBSET v
        OBVIOUS
      <4>5. H(u)[v] = H(v)[v]
        <5> HIDE DEF H, u, v
        <5>1. QED
          BY <3>3, <4>1, <4>2, <4>3, <4>4, SumUnique
      <4>6. G(s)[u] = f[First(u)] + H(v)[v]
        BY <3>2, <3>6
      <4>7. QED
        BY <3>4, <3>6, <4>5, <4>6
    <3>7. QED
      BY <3>5, <3>6
  <2>2. ASSUME NEW t \in SUBSET s
        PROVE  G(s)[t] = IF t = {} THEN 0 ELSE f[First(t)] + G(s)[t \ {First(t)}]
    <3>1. CASE t = {}
      BY <3>1
    <3>2. CASE t # {}
      <4>1. G(s)[t] = f[First(t)] + H(t \ {First(t)})[t \ {First(t)}]
        BY <3>2
      <4> HIDE DEF G, H
      <4>2. QED
        BY <2>1, <3>2, <4>1
    <3>3. QED
      BY <3>1, <3>2
  <2> HIDE DEF G
  <2>3. QED
    BY <2>2 DEF Sums
<1>2. ASSUME T # {} PROVE FALSE
  <2>1. PICK s \in T : \A t \in T : t \subseteq s => t = s
    <3>1. T \subseteq SUBSET S /\ T # {}
      BY <1>2
    <3> HIDE DEF T
    <3>2. QED
      BY <3>1, MinimalSubset
  <2>2. \A r \in SUBSET s : r # s => \E h : Sums(h, f, r)
    BY <2>1
  <2>3. Sums(G(s), f, s)
    BY <1>1, <2>1, <2>2
  <2>4. QED
    BY <2>1, <2>3
<1>3. \A s \in SUBSET S : \E g : Sums(g, f, s)
  BY <1>2
<1>4. Sums(G(S), f, S)
  BY <1>1, <1>3
<1>5. G(S) = [s \in SUBSET S |-> G(S)[s]]
  OBVIOUS
<1> HIDE DEF G
<1>6. QED
  BY <1>4, <1>5 DEF SumMap

(* ... and SumFunction is the last of them.                                *)
LEMMA SumFunctionIs ==
  ASSUME NEW S, IsFiniteSet(S), NEW f, S = DOMAIN f
  PROVE  \E g : Sums(g, f, S) /\ SumFunction(f) = g[S]
<1> DEFINE E(i) == [s \in SUBSET S |->
                      IF s = {} THEN 0
                      ELSE f[CHOOSE x \in s : TRUE] + i[s \ {CHOOSE x \in s : TRUE}]]
           iter == CHOOSE i : i = E(i)
<1>0. PICK g : SumMap(g, f, S)
  BY SumExists
<1>1. Sums(g, f, S) /\ g = [s \in SUBSET S |-> g[s]]
  BY <1>0 DEF SumMap
<1>2. g = E(g)
  <2>1. \A s \in SUBSET S : g[s] = E(g)[s]
    BY <1>1 DEF Sums, First
  <2>2. QED
    BY <1>1, <2>1
<1>3. iter = E(iter)
  <2> HIDE DEF E
  <2>1. QED
    BY <1>2, Zenon
<1>4. Sums(iter, f, S)
  <2>1. \A s \in SUBSET S : E(iter)[s] = IF s = {} THEN 0
                      ELSE f[CHOOSE x \in s : TRUE] + iter[s \ {CHOOSE x \in s : TRUE}]
    OBVIOUS
  <2> HIDE DEF E, iter
  <2>2. QED
    BY <1>3, <2>1 DEF Sums, First
<1>5. SumFunction(f) = iter[S]
  BY DEF SumFunction, SumFunctionOnSet, FoldFunctionOnSet, MapThenFoldSet
<1> HIDE DEF iter
<1>6. QED
  BY <1>4, <1>5

(* The sum of an integer function over a finite set is an integer.         *)
LEMMA SumType ==
  ASSUME NEW S, IsFiniteSet(S), NEW f \in [S -> Int]
  PROVE  SumFunction(f) \in Int
<1>1. PICK g : Sums(g, f, S) /\ SumFunction(f) = g[S]
  BY SumFunctionIs
<1>2. QED
  BY <1>1, SumInt

(* Larger summands, larger sum.                                            *)
LEMMA SumMonotone ==
  ASSUME NEW S, IsFiniteSet(S), NEW e \in [S -> Int], NEW f \in [S -> Int],
         \A x \in S : e[x] <= f[x]
  PROVE  SumFunction(e) <= SumFunction(f)
<1>1. PICK g : Sums(g, e, S) /\ SumFunction(e) = g[S]
  BY SumFunctionIs
<1>2. PICK h : Sums(h, f, S) /\ SumFunction(f) = h[S]
  BY SumFunctionIs
<1>3. \A u \in SUBSET S : g[u] \in Int /\ h[u] \in Int
  BY <1>1, <1>2, SumInt
<1> DEFINE T == {u \in SUBSET S : ~ g[u] <= h[u]}
<1>4. ASSUME T # {} PROVE FALSE
  <2>1. PICK u \in T : \A t \in T : t \subseteq u => t = u
    <3>1. T \subseteq SUBSET S /\ T # {}
      BY <1>4
    <3> HIDE DEF T
    <3>2. QED
      BY <3>1, MinimalSubset
  <2>2. u \in SUBSET S /\ ~ g[u] <= h[u]
    OBVIOUS
  <2>3. /\ g[u] = IF u = {} THEN 0 ELSE e[First(u)] + g[u \ {First(u)}]
        /\ h[u] = IF u = {} THEN 0 ELSE f[First(u)] + h[u \ {First(u)}]
    BY <1>1, <1>2, <2>2 DEF Sums
  <2>4. u # {}
    BY <2>2, <2>3
  <2>5. First(u) \in u
    BY <2>4, FirstIn
  <2>6. u \ {First(u)} \in SUBSET S /\ u \ {First(u)} # u /\ u \ {First(u)} \subseteq u
    BY <2>2, <2>5
  <2>7. g[u \ {First(u)}] <= h[u \ {First(u)}]
    BY <2>1, <2>6
  <2>8. /\ e[First(u)] <= f[First(u)] /\ e[First(u)] \in Int /\ f[First(u)] \in Int
        /\ g[u \ {First(u)}] \in Int /\ h[u \ {First(u)}] \in Int
    BY <1>3, <2>2, <2>5, <2>6
  <2>9. QED
    BY <2>2, <2>3, <2>4, <2>7, <2>8
<1>5. g[S] <= h[S]
  BY <1>4
<1>6. QED
  BY <1>1, <1>2, <1>5

(* Changing one summand changes the sum by as much.                        *)
LEMMA SumChange ==
  ASSUME NEW S, IsFiniteSet(S), NEW e \in [S -> Int], NEW f \in [S -> Int],
         NEW x \in S, \A y \in S \ {x} : f[y] = e[y]
  PROVE  SumFunction(f) = SumFunction(e) + (f[x] - e[x])
<1>1. PICK g : Sums(g, e, S) /\ SumFunction(e) = g[S]
  BY SumFunctionIs
<1>2. PICK h : Sums(h, f, S) /\ SumFunction(f) = h[S]
  BY SumFunctionIs
<1>3. \A u \in SUBSET S : g[u] \in Int /\ h[u] \in Int
  BY <1>1, <1>2, SumInt
<1> DEFINE d(u) == IF x \in u THEN f[x] - e[x] ELSE 0
           T == {u \in SUBSET S : h[u] # g[u] + d(u)}
<1>4. ASSUME T # {} PROVE FALSE
  <2>1. PICK u \in T : \A t \in T : t \subseteq u => t = u
    <3>1. T \subseteq SUBSET S /\ T # {}
      BY <1>4
    <3> HIDE DEF T
    <3>2. QED
      BY <3>1, MinimalSubset
  <2>2. u \in SUBSET S /\ h[u] # g[u] + d(u)
    OBVIOUS
  <2>3. /\ g[u] = IF u = {} THEN 0 ELSE e[First(u)] + g[u \ {First(u)}]
        /\ h[u] = IF u = {} THEN 0 ELSE f[First(u)] + h[u \ {First(u)}]
    BY <1>1, <1>2, <2>2 DEF Sums
  <2>4. u # {}
    BY <2>2, <2>3
  <2>5. First(u) \in u
    BY <2>4, FirstIn
  <2>6. u \ {First(u)} \in SUBSET S /\ u \ {First(u)} # u /\ u \ {First(u)} \subseteq u
    BY <2>2, <2>5
  <2>7. h[u \ {First(u)}] = g[u \ {First(u)}] + d(u \ {First(u)})
    BY <2>1, <2>6
  <2>8. /\ e[First(u)] \in Int /\ f[First(u)] \in Int /\ e[x] \in Int /\ f[x] \in Int
        /\ g[u \ {First(u)}] \in Int /\ h[u \ {First(u)}] \in Int
        /\ First(u) # x => f[First(u)] = e[First(u)]
    BY <1>3, <2>2, <2>5, <2>6
  <2>9. d(u) = d(u \ {First(u)}) + (f[First(u)] - e[First(u)])
    BY <2>5, <2>8
  <2> HIDE DEF d
  <2>10. d(u \ {First(u)}) \in Int
    BY <2>8 DEF d
  <2>11. QED
    BY <2>2, <2>3, <2>4, <2>7, <2>8, <2>9, <2>10
<1>5. h[S] = g[S] + (f[x] - e[x])
  BY <1>4
<1>6. QED
  BY <1>1, <1>2, <1>5

-----------------------------------------------------------------------------
(* Sums over different sets *)

(* The element taken out first does not matter.                            *)
LEMMA SumRemove ==
  ASSUME NEW S, IsFiniteSet(S), NEW f \in [S -> Int], NEW g, Sums(g, f, S),
         NEW r \in SUBSET S, NEW x \in r
  PROVE  g[r] = f[x] + g[r \ {x}]
<1>1. \A u \in SUBSET S : g[u] \in Int
  BY SumInt
<1> DEFINE T == {u \in SUBSET S : \E y \in u : g[u] # f[y] + g[u \ {y}]}
<1>2. ASSUME T # {} PROVE FALSE
  <2>1. PICK u \in T : \A t \in T : t \subseteq u => t = u
    <3>1. T \subseteq SUBSET S /\ T # {}
      BY <1>2
    <3> HIDE DEF T
    <3>2. QED
      BY <3>1, MinimalSubset
  <2>2. PICK y \in u : g[u] # f[y] + g[u \ {y}]
    OBVIOUS
  <2>3. u \in SUBSET S /\ u # {}
    OBVIOUS
  <2> DEFINE z == First(u)
             v == (u \ {y}) \ {z}
  <2>4. z \in u
    BY <2>3, FirstIn
  <2>5. g[u] = f[z] + g[u \ {z}]
    BY <2>3 DEF Sums
  <2>6. z # y
    BY <2>2, <2>5
  <2> HIDE DEF z
  <2>7. u \ {z} \in SUBSET S /\ u \ {z} # u /\ y \in u \ {z} /\ (u \ {z}) \ {y} = v
    BY <2>3, <2>4, <2>6
  <2>8. u \ {y} \in SUBSET S /\ u \ {y} # u /\ z \in u \ {y}
    BY <2>3, <2>4, <2>6
  <2>9. g[u \ {z}] = f[y] + g[v]
    BY <2>1, <2>7
  <2>10. g[u \ {y}] = f[z] + g[v]
    BY <2>1, <2>8
  <2>11. f[y] \in Int /\ f[z] \in Int /\ g[v] \in Int
    BY <1>1, <2>3, <2>4
  <2> HIDE DEF v
  <2>12. QED
    BY <2>2, <2>5, <2>9, <2>10, <2>11
<1>3. QED
  BY <1>2

(* Summands of zero can be left out.                                       *)
LEMMA SumWithoutZeros ==
  ASSUME NEW S, IsFiniteSet(S), NEW f \in [S -> Int], NEW R \in SUBSET S,
         NEW h \in [R -> Int], \A x \in R : h[x] = f[x], \A x \in S \ R : f[x] = 0
  PROVE  SumFunction(h) = SumFunction(f)
<1>0. IsFiniteSet(R)
  BY FS_Subset
<1>1. PICK g : Sums(g, f, S) /\ SumFunction(f) = g[S]
  BY SumFunctionIs
<1>2. PICK k : Sums(k, h, R) /\ SumFunction(h) = k[R]
  BY <1>0, SumFunctionIs
<1>3. /\ \A u \in SUBSET S : g[u] \in Int
      /\ \A u \in SUBSET R : k[u] \in Int
  BY <1>0, <1>1, <1>2, SumInt
<1> DEFINE T == {u \in SUBSET S : g[u] # k[u \cap R]}
<1>4. ASSUME T # {} PROVE FALSE
  <2>1. PICK u \in T : \A t \in T : t \subseteq u => t = u
    <3>1. T \subseteq SUBSET S /\ T # {}
      BY <1>4
    <3> HIDE DEF T
    <3>2. QED
      BY <3>1, MinimalSubset
  <2>2. u \in SUBSET S /\ g[u] # k[u \cap R]
    OBVIOUS
  <2>3. CASE u = {}
    <3>1. g[u] = 0
      BY <1>1, <2>2, <2>3 DEF Sums
    <3>2. u \cap R = {} /\ {} \in SUBSET R
      BY <2>3
    <3>3. k[{}] = 0
      BY <1>2, <3>2 DEF Sums
    <3>4. QED
      BY <2>2, <3>1, <3>2, <3>3
  <2>4. CASE u # {}
    <3>1. PICK y \in u : TRUE
      BY <2>4
    <3>2. y \in S /\ u \ {y} \in SUBSET S /\ u \ {y} # u
      BY <2>2, <3>1
    <3>3. g[u] = f[y] + g[u \ {y}]
      BY <1>1, <2>2, <3>1, SumRemove
    <3>4. g[u \ {y}] = k[(u \ {y}) \cap R]
      BY <2>1, <3>2
    <3>5. CASE y \in R
      <4>1. (u \ {y}) \cap R = (u \cap R) \ {y}
        OBVIOUS
      <4>2. u \cap R \in SUBSET R /\ y \in u \cap R
        BY <3>1, <3>5
      <4>3. k[u \cap R] = h[y] + k[(u \cap R) \ {y}]
        BY <1>0, <1>2, <4>2, SumRemove
      <4>4. QED
        BY <2>2, <3>3, <3>4, <3>5, <4>1, <4>3
    <3>6. CASE y \notin R
      <4>1. (u \ {y}) \cap R = u \cap R /\ u \cap R \in SUBSET R
        BY <3>6
      <4>2. f[y] = 0 /\ k[u \cap R] \in Int
        BY <1>3, <3>2, <3>6, <4>1
      <4>3. g[u \ {y}] = k[u \cap R]
        BY <3>4, <4>1
      <4>4. g[u] = k[u \cap R]
        BY <3>3, <4>2, <4>3
      <4>5. QED
        BY <2>2, <4>4
    <3>7. QED
      BY <3>5, <3>6
  <2>5. QED
    BY <2>3, <2>4
<1>5. g[S] = k[S \cap R] /\ S \cap R = R
  BY <1>4
<1>6. QED
  BY <1>1, <1>2, <1>5

(* One element more adds its summand.                                      *)
LEMMA SumAdd ==
  ASSUME NEW S, IsFiniteSet(S), NEW x, x \notin S, NEW f \in [S \cup {x} -> Int],
         NEW h \in [S -> Int], \A y \in S : h[y] = f[y]
  PROVE  SumFunction(f) = SumFunction(h) + f[x]
<1> DEFINE R == S \cup {x}
           z == [y \in R |-> IF y = x THEN 0 ELSE f[y]]
<1>0. IsFiniteSet(R)
  BY FS_AddElement
<1>1. z \in [R -> Int] /\ z[x] = 0 /\ \A y \in S : z[y] = h[y]
  OBVIOUS
<1>2. SumFunction(h) = SumFunction(z)
  <2>1. S \in SUBSET R /\ \A y \in R \ S : z[y] = 0
    OBVIOUS
  <2> HIDE DEF R, z
  <2>2. QED
    BY <1>0, <1>1, <2>1, SumWithoutZeros
<1>3. \A y \in R \ {x} : f[y] = z[y]
  OBVIOUS
<1>4. x \in R /\ f \in [R -> Int] /\ f[x] \in Int
  OBVIOUS
<1> HIDE DEF R, z
<1>5. SumFunction(f) = SumFunction(z) + (f[x] - z[x])
  BY <1>0, <1>1, <1>3, <1>4, SumChange
<1>6. SumFunction(z) \in Int
  BY <1>0, <1>1, SumType
<1>7. QED
  BY <1>1, <1>2, <1>4, <1>5, <1>6

(* Fewer and smaller summands, none of them negative, make a smaller sum.  *)
LEMMA SumShrinks ==
  ASSUME NEW S, IsFiniteSet(S), NEW f \in [S -> Nat], NEW R \in SUBSET S,
         NEW h \in [R -> Nat], \A x \in R : h[x] <= f[x]
  PROVE  SumFunction(h) <= SumFunction(f)
<1> DEFINE z == [x \in S |-> IF x \in R THEN h[x] ELSE 0]
<1>1. z \in [S -> Int] /\ f \in [S -> Int] /\ h \in [R -> Int]
  OBVIOUS
<1>2. \A x \in S : z[x] <= f[x]
  OBVIOUS
<1>3. (\A x \in R : h[x] = z[x]) /\ \A x \in S \ R : z[x] = 0
  OBVIOUS
<1> HIDE DEF z
<1>4. SumFunction(h) = SumFunction(z)
  BY <1>1, <1>3, SumWithoutZeros
<1>5. SumFunction(z) <= SumFunction(f)
  BY <1>1, <1>2, SumMonotone
<1>6. QED
  BY <1>4, <1>5

(* Nothing but zeros adds up to zero.                                      *)
LEMMA SumZero ==
  ASSUME NEW S, IsFiniteSet(S), NEW f \in [S -> Int], \A x \in S : f[x] = 0
  PROVE  SumFunction(f) = 0
<1>1. PICK g : Sums(g, f, S) /\ SumFunction(f) = g[S]
  BY SumFunctionIs
<1> DEFINE T == {u \in SUBSET S : g[u] # 0}
<1>2. ASSUME T # {} PROVE FALSE
  <2>1. PICK u \in T : \A t \in T : t \subseteq u => t = u
    <3>1. T \subseteq SUBSET S /\ T # {}
      BY <1>2
    <3> HIDE DEF T
    <3>2. QED
      BY <3>1, MinimalSubset
  <2>2. u \in SUBSET S /\ g[u] # 0
    OBVIOUS
  <2>3. g[u] = IF u = {} THEN 0 ELSE f[First(u)] + g[u \ {First(u)}]
    BY <1>1, <2>2 DEF Sums
  <2>4. u # {}
    BY <2>2, <2>3
  <2>5. First(u) \in u
    BY <2>4, FirstIn
  <2>6. u \ {First(u)} \in SUBSET S /\ u \ {First(u)} # u /\ u \ {First(u)} \subseteq u
    BY <2>2, <2>5
  <2>7. g[u \ {First(u)}] = 0 /\ f[First(u)] = 0
    BY <2>1, <2>2, <2>5, <2>6
  <2>8. QED
    BY <2>2, <2>3, <2>4, <2>7
<1>3. QED
  BY <1>1, <1>2

(* A sum of amounts that are not negative is not negative.                 *)
LEMMA SumNatural ==
  ASSUME NEW S, IsFiniteSet(S), NEW f \in [S -> Nat]
  PROVE  SumFunction(f) \in Nat
<1> DEFINE z == [x \in S |-> 0]
<1>1. z \in [S -> Int] /\ f \in [S -> Int] /\ \A x \in S : z[x] <= f[x] /\ z[x] = 0
  OBVIOUS
<1> HIDE DEF z
<1>2. SumFunction(z) = 0
  BY <1>1, SumZero
<1>3. SumFunction(z) <= SumFunction(f)
  BY <1>1, SumMonotone
<1>4. SumFunction(f) \in Int
  BY <1>1, SumType
<1>5. QED
  BY <1>2, <1>3, <1>4

(* p pairs the elements of D, and the summands of a pair cancel.           *)
Cancelling(p, f, D) ==
  \A x \in D : p[x] \in D /\ p[p[x]] = x /\ f[p[x]] + f[x] = 0

(* Summands outside R that cancel in pairs can be left out.                *)
LEMMA SumCancels ==
  ASSUME NEW S, IsFiniteSet(S), NEW f \in [S -> Int], NEW R \in SUBSET S,
         NEW h \in [R -> Int], \A x \in R : h[x] = f[x],
         NEW p, Cancelling(p, f, S \ R)
  PROVE  SumFunction(f) = SumFunction(h)
<1>p. \A x \in S \ R : p[x] \in S \ R /\ p[p[x]] = x /\ f[p[x]] + f[x] = 0
  BY DEF Cancelling
<1>0. IsFiniteSet(R)
  BY FS_Subset
<1>1. PICK g : Sums(g, f, S) /\ SumFunction(f) = g[S]
  BY SumFunctionIs
<1>2. PICK k : Sums(k, h, R) /\ SumFunction(h) = k[R]
  BY <1>0, SumFunctionIs
<1>3. \A u \in SUBSET S : g[u] \in Int
  BY <1>1, SumInt
<1>4. g[R] = k[R]
  <2>1. Sums(k, f, R)
    <3> SUFFICES ASSUME NEW s \in SUBSET R
                 PROVE  k[s] = IF s = {} THEN 0 ELSE f[First(s)] + k[s \ {First(s)}]
      BY DEF Sums
    <3>1. k[s] = IF s = {} THEN 0 ELSE h[First(s)] + k[s \ {First(s)}]
      BY <1>2 DEF Sums
    <3>2. s # {} => First(s) \in R
      BY FirstIn
    <3>3. QED
      BY <3>1, <3>2
  <2>2. R \in SUBSET R
    OBVIOUS
  <2>3. QED
    BY <1>1, <2>1, <2>2, SumUnique
<1> DEFINE T == {u \in SUBSET S : R \subseteq u /\ (\A x \in u \ R : p[x] \in u) /\ g[u] # g[R]}
<1>5. ASSUME T # {} PROVE FALSE
  <2>1. PICK u \in T : \A t \in T : t \subseteq u => t = u
    <3>1. T \subseteq SUBSET S /\ T # {}
      BY <1>5
    <3> HIDE DEF T
    <3>2. QED
      BY <3>1, MinimalSubset
  <2>2. u \in SUBSET S /\ R \subseteq u /\ (\A x \in u \ R : p[x] \in u) /\ g[u] # g[R]
    OBVIOUS
  <2>3. PICK x \in u \ R : TRUE
    <3>1. u # R
      BY <2>2
    <3>2. QED
      BY <2>2, <3>1
  <2>4. PICK y : y = p[x]
    OBVIOUS
  <2>5. x \in S \ R /\ y \in S \ R /\ y \in u /\ p[y] = x /\ f[y] + f[x] = 0
    BY <1>p, <2>2, <2>3, <2>4
  <2>6. PICK v : v = (u \ {x}) \ {y}
    OBVIOUS
  <2>7. v \in SUBSET S /\ R \subseteq v /\ v \subseteq u /\ v # u
    BY <2>2, <2>3, <2>5, <2>6
  <2>8. \A z \in v \ R : p[z] \in v
    <3> SUFFICES ASSUME NEW z \in v \ R PROVE p[z] \in v
      OBVIOUS
    <3>1. z \in u \ R /\ z \in S \ R /\ z # x /\ z # y
      BY <2>6, <2>7
    <3>2. p[z] \in u /\ p[p[z]] = z
      BY <1>p, <2>2, <3>1
    <3>3. p[z] # x /\ p[z] # y
      BY <2>4, <2>5, <3>1, <3>2
    <3>4. QED
      BY <2>6, <3>2, <3>3
  <2>9. g[v] = g[R]
    BY <2>1, <2>7, <2>8
  <2>10. g[u] = f[x] + g[u \ {x}]
    BY <1>1, <2>2, <2>3, SumRemove
  <2>11. f[x] \in Int /\ f[y] \in Int /\ g[v] \in Int
    BY <1>3, <2>5, <2>7
  <2>12. CASE y = x
    <3>1. v = u \ {x} /\ f[x] = 0
      BY <2>5, <2>6, <2>11, <2>12
    <3>2. QED
      BY <2>2, <2>9, <2>10, <2>11, <3>1
  <2>13. CASE y # x
    <3>1. u \ {x} \in SUBSET S /\ y \in u \ {x}
      BY <2>2, <2>5, <2>13
    <3>2. g[u \ {x}] = f[y] + g[(u \ {x}) \ {y}]
      BY <1>1, <3>1, SumRemove
    <3>3. g[u] = f[x] + (f[y] + g[v])
      BY <2>6, <2>10, <3>2
    <3>4. g[u] = g[v]
      BY <2>5, <2>11, <3>3
    <3>5. QED
      BY <2>2, <2>9, <3>4
  <2>14. QED
    BY <2>12, <2>13
<1>6. g[S] = g[R]
  <2>1. S \in SUBSET S /\ R \subseteq S /\ \A x \in S \ R : p[x] \in S
    BY <1>p
  <2>2. QED
    BY <1>5, <2>1
<1>7. QED
  BY <1>1, <1>2, <1>4, <1>6
=============================================================================
