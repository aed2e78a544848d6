------------------------- MODULE FleetStore_proofs --------------------------
(***************************************************************************)
(* The accounting of FleetStore, for any interfaces, lengths of a minute,  *)
(* look back, estimate and retention, any ceiling, counters and clock.     *)
(***************************************************************************)
EXTENDS FleetStore, FiniteSetTheorems, TLAPS

-----------------------------------------------------------------------------
(* Induction.  The induction theorems of the library take an operator; here *)
(* the property is the set of those that have it.                          *)

LEMMA LeastSubset ==
    ASSUME NEW S, IsFiniteSet(S), NEW P \in SUBSET SUBSET S, P # {}
    PROVE  \E T \in P : \A U \in P : U \subseteq T => U = T
<1>1. P \subseteq FiniteSubsetsOf(S)
  BY FS_FiniteSubsetsOfFinite
<1>2. PICK T \in P : \A U \in P : <<U, T>> \notin StrictSubsetOrdering(S)
  BY <1>1, FS_StrictSubsetOrderingWellFounded, WFMin
<1> QED
  BY <1>2 DEF StrictSubsetOrdering

LEMMA SubsetInduction ==
    ASSUME NEW S, IsFiniteSet(S), NEW P,
           \A T \in SUBSET S : (\A U \in SUBSET T : U # T => U \in P) => T \in P
    PROVE  SUBSET S \subseteq P
<1> DEFINE bad == (SUBSET S) \ P
<1> SUFFICES ASSUME bad # {} PROVE FALSE
  OBVIOUS
<1>1. PICK T \in bad : \A U \in bad : U \subseteq T => U = T
  <2>1. bad \in SUBSET SUBSET S
    OBVIOUS
  <2> HIDE DEF bad
  <2> QED
    BY <2>1, LeastSubset
<1>2. \A U \in SUBSET T : U # T => U \in P
  BY <1>1
<1> QED
  BY <1>1, <1>2

LEMMA UpwardInduction ==
    ASSUME NEW P, 0 \in P, \A n \in Nat : n \in P => n + 1 \in P
    PROVE  Nat \subseteq P
<1> SUFFICES ASSUME NEW k \in Nat, k \notin P PROVE FALSE
  OBVIOUS
<1> DEFINE bad == {m \in 0..k : m \notin P}
           up  == {0..m : m \in bad}
<1>1. up \in SUBSET SUBSET (0..k) /\ up # {}
  <2>1. k \in bad
    OBVIOUS
  <2>2. \A m \in bad : 0..m \in SUBSET (0..k)
    OBVIOUS
  <2> QED
    BY <2>1, <2>2
<1>2. IsFiniteSet(0..k)
  BY FS_Interval
<1>3. PICK T \in up : \A U \in up : U \subseteq T => U = T
  <2> DEFINE low == 0..k
  <2>1. IsFiniteSet(low) /\ up \in SUBSET SUBSET low /\ up # {}
    BY <1>1, <1>2
  <2> HIDE DEF up, low
  <2> QED
    BY <2>1, LeastSubset
<1>4. PICK m \in bad : T = 0..m
  BY <1>3
<1>5. m # 0 /\ m - 1 \in bad
  <2>1. m # 0 /\ m \in Nat /\ m - 1 \in 0..k
    BY <1>4
  <2>2. m - 1 \notin P
    <3>1. m - 1 \in Nat /\ (m - 1) + 1 = m
      BY <2>1
    <3> QED
      BY <1>4, <3>1
  <2> QED
    BY <2>1, <2>2
<1>6. 0..(m - 1) \in up
  BY <1>5
<1>7. 0..(m - 1) \subseteq 0..m /\ m \in 0..m /\ m \notin 0..(m - 1)
  BY <1>4
<1> QED
  BY <1>3, <1>4, <1>6, <1>7

-----------------------------------------------------------------------------
(* SumFunctionOnSet.                                                       *)

Taken(s) == CHOOSE x \in s : TRUE

\* The value of the sum at s, from those at its subsets.
SumStep(fun, g, s) == IF s = {} THEN 0 ELSE fun[Taken(s)] + g[s \ {Taken(s)}]

Sums(fun, S) == CHOOSE g : g = [s \in SUBSET S |-> SumStep(fun, g, s)]

LEMMA SumIsRecursive == ASSUME NEW fun, NEW S PROVE SumFunctionOnSet(fun, S) = Sums(fun, S)[S]
BY DEF SumFunctionOnSet, FoldFunctionOnSet, MapThenFoldSet, Sums, SumStep, Taken

\* The recursion has a solution: it is extended from the subsets of up to n members to those
\* of one more.
LEMMA SumsExist ==
    ASSUME NEW fun, NEW S, IsFiniteSet(S)
    PROVE  \A s \in SUBSET S : Sums(fun, S)[s] = SumStep(fun, Sums(fun, S), s)
<1> DEFINE upTo(n)     == {s \in SUBSET S : Cardinality(s) <= n}
           solves(g, n) == g = [s \in upTo(n) |-> SumStep(fun, g, s)]
           P           == {n \in Nat : \E g : solves(g, n)}
<1>1. \A s \in SUBSET S : /\ IsFiniteSet(s) /\ Cardinality(s) \in Nat
                          /\ Cardinality(s) <= Cardinality(S)
                          /\ Cardinality(s) = 0 <=> s = {}
  BY FS_Subset, FS_CardinalityType, FS_EmptySet
<1>2. \A s \in SUBSET S : s # {} => /\ s \ {Taken(s)} \in SUBSET S
                                    /\ Cardinality(s \ {Taken(s)}) = Cardinality(s) - 1
  <2> SUFFICES ASSUME NEW s \in SUBSET S, s # {}
               PROVE  /\ s \ {Taken(s)} \in SUBSET S
                      /\ Cardinality(s \ {Taken(s)}) = Cardinality(s) - 1
    OBVIOUS
  <2>1. Taken(s) \in s
    BY DEF Taken
  <2> QED
    BY <1>1, <2>1, FS_RemoveElement
<1>3. 0 \in P
  <2> DEFINE g == [s \in upTo(0) |-> 0]
  <2>1. \A s \in upTo(0) : s = {}
    BY <1>1
  <2>2. \A s \in upTo(0) : SumStep(fun, g, s) = 0
    BY <2>1 DEF SumStep
  <2>3. solves(g, 0)
    BY <2>2
  <2> QED
    BY <2>3
<1>4. ASSUME NEW n \in Nat, n \in P PROVE n + 1 \in P
  <2>1. PICK g : solves(g, n)
    BY <1>4
  <2> DEFINE h == [s \in upTo(n + 1) |-> IF s \in upTo(n) THEN g[s] ELSE SumStep(fun, g, s)]
  <2>2. \A s \in upTo(n) : s \in upTo(n + 1) /\ g[s] = SumStep(fun, g, s)
    BY <1>1, <2>1
  <2>3. \A s \in upTo(n + 1) : s # {} => s \ {Taken(s)} \in upTo(n)
    BY <1>1, <1>2
  <2>4. \A s \in upTo(n + 1) : SumStep(fun, h, s) = SumStep(fun, g, s)
    BY <2>2, <2>3 DEF SumStep
  <2>5. \A s \in upTo(n + 1) : h[s] = SumStep(fun, h, s)
    BY <2>2, <2>4
  <2>6. solves(h, n + 1)
    BY <2>5
  <2> HIDE DEF solves, h
  <2> QED
    BY <2>6
<1> HIDE DEF P
<1>5. Cardinality(S) \in P
  BY <1>1, <1>3, <1>4, UpwardInduction
<1>6. PICK g : solves(g, Cardinality(S))
  BY <1>5 DEF P
<1>7. upTo(Cardinality(S)) = SUBSET S
  BY <1>1
<1>8. g = [s \in SUBSET S |-> SumStep(fun, g, s)]
  BY <1>6, <1>7
<1>9. Sums(fun, S) = [s \in SUBSET S |-> SumStep(fun, Sums(fun, S), s)]
  BY <1>8 DEF Sums
<1> DEFINE sums == Sums(fun, S)
<1>10. sums = [s \in SUBSET S |-> SumStep(fun, sums, s)]
  BY <1>9
<1> HIDE DEF sums
<1>11. \A s \in SUBSET S : sums[s] = SumStep(fun, sums, s)
  BY <1>10
<1> QED
  BY <1>11 DEF sums

\* It has one solution only.
LEMMA SumsAgree ==
    ASSUME NEW fun, NEW S, IsFiniteSet(S), NEW T \in SUBSET S
    PROVE  Sums(fun, S)[T] = SumFunctionOnSet(fun, T)
<1> DEFINE g == Sums(fun, S)
           h == Sums(fun, T)
           P == {s \in SUBSET T : g[s] = h[s]}
<1>1. IsFiniteSet(T)
  BY FS_Subset
<1>2. /\ \A s \in SUBSET T : g[s] = SumStep(fun, g, s)
      /\ \A s \in SUBSET T : h[s] = SumStep(fun, h, s)
  <2>1. \A s \in SUBSET S : g[s] = SumStep(fun, g, s)
    BY SumsExist
  <2>2. \A s \in SUBSET T : h[s] = SumStep(fun, h, s)
    BY <1>1, SumsExist
  <2> HIDE DEF g, h
  <2>3. \A s \in SUBSET T : s \in SUBSET S
    OBVIOUS
  <2> QED
    BY <2>1, <2>2, <2>3
<1> HIDE DEF g, h
<1>3. ASSUME NEW s \in SUBSET T, \A u \in SUBSET s : u # s => u \in P PROVE s \in P
  <2>1. CASE s = {}
    BY <1>2, <2>1 DEF SumStep
  <2>2. CASE s # {}
    <3>1. s \ {Taken(s)} \in SUBSET s /\ s \ {Taken(s)} # s
      BY <2>2 DEF Taken
    <3>2. g[s \ {Taken(s)}] = h[s \ {Taken(s)}]
      BY <1>3, <3>1
    <3> QED
      BY <1>2, <2>2, <3>2 DEF SumStep
  <2> QED
    BY <2>1, <2>2
<1>4. T \in P
  <2> HIDE DEF P
  <2> QED
    BY <1>1, <1>3, SubsetInduction
<1> QED
  BY <1>4, SumIsRecursive DEF g, h

LEMMA SumOfNone == ASSUME NEW fun PROVE SumFunctionOnSet(fun, {}) = 0
<1>1. IsFiniteSet({})
  BY FS_EmptySet
<1> QED
  BY <1>1, SumIsRecursive, SumsExist DEF SumStep

LEMMA SumTakesOne ==
    ASSUME NEW fun, NEW S, IsFiniteSet(S), S # {}
    PROVE  SumFunctionOnSet(fun, S) = fun[Taken(S)] + SumFunctionOnSet(fun, S \ {Taken(S)})
<1>1. Sums(fun, S)[S] = SumStep(fun, Sums(fun, S), S)
  BY SumsExist
<1>2. Sums(fun, S)[S \ {Taken(S)}] = SumFunctionOnSet(fun, S \ {Taken(S)})
  <2>1. S \ {Taken(S)} \in SUBSET S
    OBVIOUS
  <2> QED
    BY <2>1, SumsAgree
<1> QED
  BY <1>1, <1>2, SumIsRecursive DEF SumStep

LEMMA SumIsInt ==
    ASSUME NEW fun, NEW S, IsFiniteSet(S), \A x \in S : fun[x] \in Int
    PROVE  SumFunctionOnSet(fun, S) \in Int
<1> DEFINE P == {s \in SUBSET S : SumFunctionOnSet(fun, s) \in Int}
<1>1. ASSUME NEW s \in SUBSET S, \A u \in SUBSET s : u # s => u \in P PROVE s \in P
  <2>1. CASE s = {}
    BY <2>1, SumOfNone
  <2>2. CASE s # {}
    <3>1. Taken(s) \in s
      BY <2>2 DEF Taken
    <3>2. SumFunctionOnSet(fun, s \ {Taken(s)}) \in Int
      BY <1>1, <3>1
    <3>3. IsFiniteSet(s)
      BY FS_Subset
    <3>4. SumFunctionOnSet(fun, s) = fun[Taken(s)] + SumFunctionOnSet(fun, s \ {Taken(s)})
      BY <2>2, <3>3, SumTakesOne
    <3> QED
      BY <3>1, <3>2, <3>4
  <2> QED
    BY <2>1, <2>2
<1> HIDE DEF P
<1>2. S \in P
  BY <1>1, SubsetInduction
<1> QED
  BY <1>2 DEF P

\* Any member can be taken first.
LEMMA SumTakesAny ==
    ASSUME NEW fun, NEW S, IsFiniteSet(S), \A x \in S : fun[x] \in Int, NEW y \in S
    PROVE  SumFunctionOnSet(fun, S) = fun[y] + SumFunctionOnSet(fun, S \ {y})
<1> DEFINE sum(s) == SumFunctionOnSet(fun, s)
           P == {s \in SUBSET S : \A x \in s : sum(s) = fun[x] + sum(s \ {x})}
<1>0. \A s \in SUBSET S : IsFiniteSet(s) /\ sum(s) \in Int
  BY FS_Subset, SumIsInt
<1>1. \A s \in SUBSET S : s # {} => Taken(s) \in s /\ sum(s) = fun[Taken(s)] + sum(s \ {Taken(s)})
  BY <1>0, SumTakesOne DEF Taken
<1> HIDE DEF sum
<1>2. ASSUME NEW s \in SUBSET S, \A u \in SUBSET s : u # s => u \in P, NEW x \in s
      PROVE  sum(s) = fun[x] + sum(s \ {x})
  <2> DEFINE z == Taken(s)
  <2>1. z \in s /\ sum(s) = fun[z] + sum(s \ {z})
    BY <1>1
  <2>2. CASE x = z
    BY <2>1, <2>2
  <2>3. CASE x # z
    <3>1. s \ {z} \in P /\ s \ {x} \in P
      BY <1>2, <2>1
    <3>2. sum(s \ {z}) = fun[x] + sum((s \ {z}) \ {x})
      BY <2>1, <2>3, <3>1
    <3>3. sum(s \ {x}) = fun[z] + sum((s \ {x}) \ {z})
      BY <2>1, <2>3, <3>1
    <3>4. sum((s \ {z}) \ {x}) = sum((s \ {x}) \ {z})
      <4>1. (s \ {z}) \ {x} = (s \ {x}) \ {z}
        OBVIOUS
      <4> QED
        BY <4>1
    <3>5. fun[x] \in Int /\ fun[z] \in Int /\ sum((s \ {x}) \ {z}) \in Int
      <4>1. (s \ {x}) \ {z} \in SUBSET S
        OBVIOUS
      <4> QED
        BY <1>0, <2>1, <4>1
    <3> HIDE DEF z
    <3> QED
      BY <2>1, <3>2, <3>3, <3>4, <3>5
  <2> QED
    BY <2>2, <2>3
<1>3. ASSUME NEW s \in SUBSET S, \A u \in SUBSET s : u # s => u \in P PROVE s \in P
  BY <1>2, <1>3
<1>4. S \in P
  <2> HIDE DEF P
  <2> QED
    BY <1>3, SubsetInduction
<1> QED
  BY <1>4 DEF sum

\* What holds of every two members, up to a factor, holds of the sums.
LEMMA SumAtMost ==
    ASSUME NEW f, NEW g, NEW p \in Int, NEW q \in Int, NEW S, IsFiniteSet(S),
           \A x \in S : f[x] \in Int /\ g[x] \in Int /\ p * f[x] <= q * g[x]
    PROVE  p * SumFunctionOnSet(f, S) <= q * SumFunctionOnSet(g, S)
<1> DEFINE F(s) == SumFunctionOnSet(f, s)
           G(s) == SumFunctionOnSet(g, s)
           P    == {s \in SUBSET S : p * F(s) <= q * G(s)}
<1>1. \A s \in SUBSET S : IsFiniteSet(s) /\ F(s) \in Int /\ G(s) \in Int
  BY FS_Subset, SumIsInt
<1>2. \A s \in SUBSET S : s # {} => /\ Taken(s) \in s
                                    /\ F(s) = f[Taken(s)] + F(s \ {Taken(s)})
                                    /\ G(s) = g[Taken(s)] + G(s \ {Taken(s)})
  BY <1>1, SumTakesOne DEF Taken
<1>3. F({}) = 0 /\ G({}) = 0
  BY SumOfNone
<1> HIDE DEF F, G
<1>4. ASSUME NEW s \in SUBSET S, \A u \in SUBSET s : u # s => u \in P PROVE s \in P
  <2>1. CASE s = {}
    BY <1>3, <2>1
  <2>2. CASE s # {}
    <3> DEFINE z == Taken(s)
    <3>1. z \in s /\ F(s) = f[z] + F(s \ {z}) /\ G(s) = g[z] + G(s \ {z})
      BY <1>2, <2>2
    <3>2. p * F(s \ {z}) <= q * G(s \ {z})
      BY <1>4, <3>1
    <3>3. p * f[z] <= q * g[z] /\ f[z] \in Int /\ g[z] \in Int
      BY <3>1
    <3>4. F(s \ {z}) \in Int /\ G(s \ {z}) \in Int
      BY <1>1
    <3> HIDE DEF z
    <3>5. p * (f[z] + F(s \ {z})) = p * f[z] + p * F(s \ {z})
      BY <3>3, <3>4
    <3>6. q * (g[z] + G(s \ {z})) = q * g[z] + q * G(s \ {z})
      BY <3>3, <3>4
    <3>7. /\ p * f[z] \in Int /\ p * F(s \ {z}) \in Int
          /\ q * g[z] \in Int /\ q * G(s \ {z}) \in Int
      BY <3>3, <3>4
    <3>8. p * F(s) <= q * G(s)
      BY <3>1, <3>2, <3>3, <3>5, <3>6, <3>7
    <3> QED
      BY <3>8
  <2> QED
    BY <2>1, <2>2
<1>5. S \in P
  <2> HIDE DEF P
  <2> QED
    BY <1>4, SubsetInduction
<1> QED
  BY <1>5 DEF F, G

LEMMA SumIsSame ==
    ASSUME NEW f, NEW g, NEW S, IsFiniteSet(S), \A x \in S : f[x] \in Int /\ g[x] = f[x]
    PROVE  SumFunctionOnSet(g, S) = SumFunctionOnSet(f, S)
<1>1. 1 * SumFunctionOnSet(f, S) <= 1 * SumFunctionOnSet(g, S)
  <2>1. \A x \in S : f[x] \in Int /\ g[x] \in Int /\ 1 * f[x] <= 1 * g[x]
    OBVIOUS
  <2> QED
    BY <2>1, SumAtMost
<1>2. 1 * SumFunctionOnSet(g, S) <= 1 * SumFunctionOnSet(f, S)
  <2>1. \A x \in S : g[x] \in Int /\ f[x] \in Int /\ 1 * g[x] <= 1 * f[x]
    OBVIOUS
  <2> QED
    BY <2>1, SumAtMost
<1>3. SumFunctionOnSet(f, S) \in Int /\ SumFunctionOnSet(g, S) \in Int
  <2>1. \A x \in S : g[x] \in Int
    OBVIOUS
  <2> QED
    BY <2>1, SumIsInt
<1> QED
  BY <1>1, <1>2, <1>3

LEMMA SumIsNat ==
    ASSUME NEW f, NEW S, IsFiniteSet(S), \A x \in S : f[x] \in Nat
    PROVE  SumFunctionOnSet(f, S) \in Nat
<1>1. \A x \in S : f[x] \in Int /\ f[x] \in Int /\ 0 * f[x] <= 1 * f[x]
  OBVIOUS
<1>2. 0 * SumFunctionOnSet(f, S) <= 1 * SumFunctionOnSet(f, S)
  BY <1>1, SumAtMost
<1>3. SumFunctionOnSet(f, S) \in Int
  BY <1>1, SumIsInt
<1> QED
  BY <1>2, <1>3

LEMMA SumIsZero ==
    ASSUME NEW f, NEW S, IsFiniteSet(S), \A x \in S : f[x] = 0
    PROVE  SumFunctionOnSet(f, S) = 0
<1>1. \A x \in S : f[x] \in Int /\ f[x] \in Int /\ 1 * f[x] <= 0 * f[x]
  OBVIOUS
<1>2. 1 * SumFunctionOnSet(f, S) <= 0 * SumFunctionOnSet(f, S)
  BY <1>1, SumAtMost
<1>3. SumFunctionOnSet(f, S) \in Nat
  BY SumIsNat
<1> QED
  BY <1>2, <1>3

LEMMA SumOfTwo ==
    ASSUME NEW f, NEW g, NEW h, NEW S, IsFiniteSet(S),
           \A x \in S : f[x] \in Int /\ g[x] \in Int /\ h[x] = f[x] + g[x]
    PROVE  SumFunctionOnSet(h, S) = SumFunctionOnSet(f, S) + SumFunctionOnSet(g, S)
<1> DEFINE F(s) == SumFunctionOnSet(f, s)
           G(s) == SumFunctionOnSet(g, s)
           H(s) == SumFunctionOnSet(h, s)
           P    == {s \in SUBSET S : H(s) = F(s) + G(s)}
<1>0. \A x \in S : h[x] \in Int
  OBVIOUS
<1>1. \A s \in SUBSET S : IsFiniteSet(s) /\ F(s) \in Int /\ G(s) \in Int
  BY FS_Subset, SumIsInt
<1>2. \A s \in SUBSET S : s # {} => /\ Taken(s) \in s
                                    /\ F(s) = f[Taken(s)] + F(s \ {Taken(s)})
                                    /\ G(s) = g[Taken(s)] + G(s \ {Taken(s)})
                                    /\ H(s) = h[Taken(s)] + H(s \ {Taken(s)})
  BY <1>1, SumTakesOne DEF Taken
<1>3. F({}) = 0 /\ G({}) = 0 /\ H({}) = 0
  BY SumOfNone
<1> HIDE DEF F, G, H
<1>4. ASSUME NEW s \in SUBSET S, \A u \in SUBSET s : u # s => u \in P PROVE s \in P
  <2>1. CASE s = {}
    BY <1>3, <2>1
  <2>2. CASE s # {}
    <3> DEFINE z == Taken(s)
    <3>1. z \in s /\ F(s) = f[z] + F(s \ {z}) /\ G(s) = g[z] + G(s \ {z}) /\ H(s) = h[z] + H(s \ {z})
      BY <1>2, <2>2
    <3>2. H(s \ {z}) = F(s \ {z}) + G(s \ {z})
      BY <1>4, <3>1
    <3>3. h[z] = f[z] + g[z] /\ f[z] \in Int /\ g[z] \in Int
      BY <3>1
    <3>4. F(s \ {z}) \in Int /\ G(s \ {z}) \in Int
      BY <1>1
    <3> HIDE DEF z
    <3>5. H(s) = F(s) + G(s)
      BY <3>1, <3>2, <3>3, <3>4
    <3> QED
      BY <3>5
  <2> QED
    BY <2>1, <2>2
<1>5. S \in P
  <2> HIDE DEF P
  <2> QED
    BY <1>4, SubsetInduction
<1> QED
  BY <1>5 DEF F, G, H

LEMMA SumOfParts ==
    ASSUME NEW f, NEW S, IsFiniteSet(S), \A x \in S : f[x] \in Int, NEW T \in SUBSET S
    PROVE  SumFunctionOnSet(f, S) = SumFunctionOnSet(f, T) + SumFunctionOnSet(f, S \ T)
<1> DEFINE F(s) == SumFunctionOnSet(f, s)
           P    == {s \in SUBSET S : F(S) = F(s) + F(S \ s)}
<1>1. \A s \in SUBSET S : IsFiniteSet(s) /\ F(s) \in Int
  BY FS_Subset, SumIsInt
<1>2. \A s \in SUBSET S : \A y \in s : F(s) = f[y] + F(s \ {y})
  BY <1>1, SumTakesAny
<1>3. F({}) = 0
  BY SumOfNone
<1> HIDE DEF F
<1>4. ASSUME NEW s \in SUBSET S, \A u \in SUBSET s : u # s => u \in P PROVE s \in P
  <2>1. CASE s = {}
    <3>1. S \ {} = S /\ F(S) \in Int
      BY <1>1
    <3> QED
      BY <1>3, <2>1, <3>1
  <2>2. CASE s # {}
    <3>1. PICK y \in s : TRUE
      BY <2>2
    <3>2. s \ {y} \in P
      BY <1>4
    <3>3. F(S) = F(s \ {y}) + F(S \ (s \ {y}))
      BY <3>2
    <3>4. F(s) = f[y] + F(s \ {y})
      BY <1>2
    <3>5. F(S \ (s \ {y})) = f[y] + F(S \ s)
      <4>1. y \in S \ (s \ {y}) /\ S \ (s \ {y}) \in SUBSET S
        OBVIOUS
      <4>2. (S \ (s \ {y})) \ {y} = S \ s
        OBVIOUS
      <4> QED
        BY <1>2, <4>1, <4>2
    <3>6. f[y] \in Int /\ F(s \ {y}) \in Int /\ F(S \ s) \in Int
      <4>1. s \ {y} \in SUBSET S /\ S \ s \in SUBSET S /\ y \in S
        OBVIOUS
      <4> QED
        BY <1>1, <4>1
    <3>7. F(S) = F(s) + F(S \ s)
      BY <3>3, <3>4, <3>5, <3>6
    <3> QED
      BY <3>7
  <2> QED
    BY <2>1, <2>2
<1>5. T \in P
  <2>1. IsFiniteSet(T)
    BY <1>1
  <2>2. \A s \in SUBSET T : s \in SUBSET S
    OBVIOUS
  <2> HIDE DEF P
  <2> QED
    BY <1>4, SubsetInduction
<1> QED
  BY <1>5 DEF F

LEMMA SumOfPart ==
    ASSUME NEW f, NEW S, IsFiniteSet(S), \A x \in S : f[x] \in Nat, NEW T \in SUBSET S
    PROVE  SumFunctionOnSet(f, T) <= SumFunctionOnSet(f, S)
<1>1. SumFunctionOnSet(f, S) = SumFunctionOnSet(f, T) + SumFunctionOnSet(f, S \ T)
  BY SumOfParts
<1>2. SumFunctionOnSet(f, T) \in Nat /\ SumFunctionOnSet(f, S \ T) \in Nat
  <2>1. IsFiniteSet(T) /\ IsFiniteSet(S \ T)
    BY FS_Subset
  <2> QED
    BY <2>1, SumIsNat
<1> QED
  BY <1>1, <1>2

-----------------------------------------------------------------------------
(* Minutes, and what a booking gives to each of them.                      *)

LEMMA Constants ==
    /\ MinuteLength \in Nat \ {0} /\ RateTime \in Nat /\ EstimateTime \in Nat
    /\ KeptTime \in Nat /\ Ceiling \in Nat
    /\ MaxOctets \in Nat /\ MaxTime \in Nat /\ MaxEvents \in Nat
    /\ None = -1 /\ None \notin Interfaces
BY FleetStoreAssumption DEF None

LEMMA Products ==
    ASSUME NEW a \in Int, NEW b \in Int
    PROVE  /\ a * MinuteLength \in Int
           /\ (a + 1) * MinuteLength = a * MinuteLength + MinuteLength
           /\ a <= b => a * MinuteLength <= b * MinuteLength
<1>1. MinuteLength \in Nat \ {0}
  BY Constants
<1> QED
  BY <1>1

LEMMA MinuteHolds ==
    ASSUME NEW t \in Int
    PROVE  /\ Minute(t) \in Int
           /\ Minute(t) * MinuteLength <= t
           /\ t < (Minute(t) + 1) * MinuteLength
BY Constants DEF Minute

LEMMA MinutesInOrder ==
    ASSUME NEW s \in Int, NEW t \in Int, s <= t
    PROVE  Minute(s) <= Minute(t)
<1>1. Minute(s) \in Int /\ Minute(t) \in Int
  BY MinuteHolds
<1> SUFFICES ASSUME Minute(t) + 1 <= Minute(s) PROVE FALSE
  BY <1>1
<1>2. (Minute(t) + 1) * MinuteLength <= Minute(s) * MinuteLength
  BY <1>1, Products
<1>3. /\ (Minute(t) + 1) * MinuteLength \in Int /\ Minute(s) * MinuteLength \in Int
      /\ Minute(s) * MinuteLength <= s /\ t < (Minute(t) + 1) * MinuteLength
  BY <1>1, Products, MinuteHolds
<1> QED
  BY <1>2, <1>3

LEMMA MinutesAreFinite ==
    /\ Minutes \in SUBSET Nat /\ IsFiniteSet(Minutes)
    /\ \A T \in SUBSET Minutes : IsFiniteSet(T)
    /\ \A t \in Times : Minute(t) \in Minutes
<1>1. Minute(MaxTime) \in Int /\ Minute(0) = 0
  BY Constants, MinuteHolds DEF Minute
<1>2. IsFiniteSet(0..Minute(MaxTime))
  BY <1>1, FS_Interval
<1>3. \A t \in Times : Minute(0) <= Minute(t) /\ Minute(t) <= Minute(MaxTime) /\ Minute(t) \in Int
  BY Constants, MinutesInOrder, MinuteHolds DEF Times
<1>4. \A T \in SUBSET Minutes : IsFiniteSet(T)
  BY <1>2, FS_Subset DEF Minutes
<1>5. Minutes \in SUBSET Nat
  BY <1>1 DEF Minutes
<1>6. \A t \in Times : Minute(t) \in Minutes
  BY <1>1, <1>3 DEF Minutes
<1> QED
  BY <1>2, <1>4, <1>5, <1>6 DEF Minutes

LEMMA SumOfRange ==
    ASSUME NEW f, NEW k \in Int, NEW l \in Int, k <= l, \A n \in k..l : f[n] \in Int
    PROVE  SumFunctionOnSet(f, k..l) = SumFunctionOnSet(f, k..(l - 1)) + f[l]
<1>1. IsFiniteSet(k..l) /\ IsFiniteSet(k..(l - 1))
  BY FS_Interval
<1>2. l \in k..l /\ (k..l) \ {l} = k..(l - 1) /\ f[l] \in Int
  OBVIOUS
<1>3. SumFunctionOnSet(f, k..l) = f[l] + SumFunctionOnSet(f, (k..l) \ {l})
  BY <1>1, <1>2, SumTakesAny
<1>4. SumFunctionOnSet(f, k..(l - 1)) \in Int
  <2>1. \A n \in k..(l - 1) : f[n] \in Int
    OBVIOUS
  <2> QED
    BY <1>1, <2>1, SumIsInt
<1>5. SumFunctionOnSet(f, k..l) = f[l] + SumFunctionOnSet(f, k..(l - 1))
  BY <1>2, <1>3
<1> QED
  BY <1>2, <1>4, <1>5

LEMMA SegmentIs ==
    ASSUME NEW start \in Int, NEW end \in Int, start < end,
           NEW m \in Minute(start)..Minute(end - 1)
    PROVE  /\ Segment(m, start, end) \in Nat
           /\ m * MinuteLength < end /\ start < (m + 1) * MinuteLength
           /\ m # Minute(start) => start <= m * MinuteLength
           /\ m # Minute(end - 1) => (m + 1) * MinuteLength <= end
           /\ m * MinuteLength \in Int /\ (m + 1) * MinuteLength \in Int
           /\ m * MinuteLength < (m + 1) * MinuteLength
<1> DEFINE s == Minute(start)
           e == Minute(end - 1)
<1>1. /\ s \in Int /\ start < (s + 1) * MinuteLength
      /\ e \in Int /\ e * MinuteLength <= end - 1
  BY MinuteHolds
<1>2. m \in Int /\ s <= m /\ m <= e
  BY <1>1
<1> HIDE DEF s, e
<1>3. /\ (s + 1) * MinuteLength <= (m + 1) * MinuteLength /\ m * MinuteLength <= e * MinuteLength
      /\ m # s => (s + 1) * MinuteLength <= m * MinuteLength
      /\ m # e => (m + 1) * MinuteLength <= e * MinuteLength
  <2>1. s + 1 \in Int /\ m + 1 \in Int /\ s + 1 <= m + 1 /\ (m # s => s + 1 <= m) /\ (m # e => m + 1 <= e)
    BY <1>1, <1>2
  <2> QED
    BY <1>1, <1>2, <2>1, Products
<1>4. /\ (s + 1) * MinuteLength \in Int /\ (m + 1) * MinuteLength \in Int
      /\ m * MinuteLength \in Int /\ e * MinuteLength \in Int
      /\ (m + 1) * MinuteLength = m * MinuteLength + MinuteLength /\ MinuteLength \in Nat \ {0}
  BY <1>1, <1>2, Products, Constants
<1>5. /\ m * MinuteLength < end /\ start < (m + 1) * MinuteLength
      /\ m # s => start <= m * MinuteLength
      /\ m # e => (m + 1) * MinuteLength <= end
      /\ m * MinuteLength < (m + 1) * MinuteLength
  BY <1>1, <1>3, <1>4
<1>6. Segment(m, start, end) \in Nat
  BY <1>4, <1>5 DEF Segment, Least, Most
<1> QED
  BY <1>4, <1>5, <1>6 DEF s, e

\* The segments of consecutive minutes are one interval.
LEMMA SegmentsAddUp ==
    ASSUME NEW start \in Int, NEW end \in Int, start < end,
           NEW k \in Minute(start)..Minute(end - 1), NEW l \in k..Minute(end - 1),
           NEW f, \A n \in k..l : f[n] = Segment(n, start, end)
    PROVE  SumFunctionOnSet(f, k..l)
             = Least(end, (l + 1) * MinuteLength) - Most(start, k * MinuteLength)
<1> DEFINE s == Minute(start)
           e == Minute(end - 1)
           upTo(n) == Least(end, (n + 1) * MinuteLength) - Most(start, k * MinuteLength)
           P == {j \in Nat : k + j \in k..l => SumFunctionOnSet(f, k..(k + j)) = upTo(k + j)}
<1>1. s \in Int /\ e \in Int /\ k \in Int /\ l \in Int /\ s <= k /\ k <= l /\ l <= e
  BY MinuteHolds
<1>2. \A n \in k..l : n \in s..e /\ f[n] \in Int
  <2> SUFFICES ASSUME NEW n \in k..l PROVE n \in s..e /\ f[n] \in Int
    OBVIOUS
  <2>1. n \in s..e
    BY <1>1
  <2>2. Segment(n, start, end) \in Nat
    BY <2>1, SegmentIs
  <2> QED
    BY <2>1, <2>2
<1>3. 0 \in P
  <2>1. SumFunctionOnSet(f, k..k) = SumFunctionOnSet(f, k..(k - 1)) + f[k]
    <3>1. k \in Int /\ k <= k /\ \A n \in k..k : f[n] \in Int
      BY <1>1, <1>2
    <3> HIDE DEF P
    <3> QED
      BY <3>1, SumOfRange
  <2>2. SumFunctionOnSet(f, k..(k - 1)) = 0
    <3>1. k..(k - 1) = {}
      BY <1>1
    <3> QED
      BY <3>1, SumOfNone
  <2>3. f[k] = upTo(k) /\ f[k] \in Int
    BY <1>1, <1>2 DEF Segment
  <2> HIDE DEF upTo
  <2>4. SumFunctionOnSet(f, k..(k + 0)) = upTo(k + 0)
    <3>1. k + 0 = k
      BY <1>1
    <3> QED
      BY <2>1, <2>2, <2>3, <3>1
  <2> QED
    BY <2>4
<1>4. ASSUME NEW j \in Nat, j \in P PROVE j + 1 \in P
  <2> SUFFICES ASSUME k + (j + 1) \in k..l
               PROVE  SumFunctionOnSet(f, k..(k + (j + 1))) = upTo(k + (j + 1))
    BY <1>4
  <2> DEFINE n == k + (j + 1)
  <2>1. n \in Int /\ k <= n /\ n \in k..l /\ n - 1 = k + j /\ k + j \in k..l /\ n \in s..e /\ n - 1 \in s..e
    BY <1>1
  <2>2. SumFunctionOnSet(f, k..n) = SumFunctionOnSet(f, k..(n - 1)) + f[n]
    <3>1. \A x \in k..n : f[x] \in Int
      BY <1>1, <1>2, <2>1
    <3> HIDE DEF n
    <3> QED
      BY <1>1, <2>1, <3>1, SumOfRange
  <2>3. SumFunctionOnSet(f, k..(n - 1)) = upTo(n - 1)
    BY <1>4, <2>1
  <2>4. f[n] = Segment(n, start, end)
    BY <2>1
  <2> HIDE DEF n
  <2>5. /\ n # s /\ n - 1 # e /\ (n - 1) + 1 = n
    BY <1>1, <2>1
  <2>6. start <= n * MinuteLength /\ n * MinuteLength \in Int /\ (n + 1) * MinuteLength \in Int
    BY <2>1, <2>5, SegmentIs
  <2>7. n * MinuteLength <= end /\ k * MinuteLength \in Int
    BY <1>1, <2>1, <2>5, SegmentIs, Products
  <2>8. upTo(n - 1) + Segment(n, start, end) = upTo(n)
    BY <2>5, <2>6, <2>7 DEF Segment, Least, Most
  <2> QED
    BY <2>2, <2>3, <2>4, <2>8 DEF n
<1>5. l - k \in P
  <2>1. l - k \in Nat
    BY <1>1
  <2> HIDE DEF P
  <2> QED
    BY <1>3, <1>4, <2>1, UpwardInduction
<1>6. k + (l - k) = l
  BY <1>1
<1> QED
  BY <1>1, <1>5, <1>6

Earlier(start, end) == Minute(start)..(Minute(end - 1) - 1)

\* What the minutes before the last one get.
Floors(amount, start, end) ==
    [n \in Earlier(start, end) |-> (amount * Segment(n, start, end)) \div (end - start)]

LEMMA ShareIs ==
    ASSUME NEW amount, NEW start \in Int, NEW end \in Int, NEW m \in Minute(start)..Minute(end - 1)
    PROVE  Share(amount, m, start, end) =
               IF m = Minute(end - 1)
               THEN amount - SumFunctionOnSet(Floors(amount, start, end), Earlier(start, end))
               ELSE Floors(amount, start, end)[m]
<1>1. Minute(start) \in Int /\ Minute(end - 1) \in Int
  BY MinuteHolds
<1>2. m # Minute(end - 1) => m \in Earlier(start, end)
  BY <1>1 DEF Earlier
<1> QED
  BY <1>2 DEF Share, Floors, Earlier

LEMMA Quotient ==
    ASSUME NEW a \in Nat, NEW d \in Nat \ {0}
    PROVE  a \div d \in Nat /\ d * (a \div d) <= a
OBVIOUS

LEMMA ExactQuotient ==
    ASSUME NEW a \in Nat, NEW d \in Nat \ {0}
    PROVE  (d * a) \div d = a
OBVIOUS

LEMMA SmallerFactor ==
    ASSUME NEW a \in Int, NEW b \in Int, NEW d \in Nat \ {0}, d * a <= b * d
    PROVE  a <= b
OBVIOUS

LEMMA LargerFactor ==
    ASSUME NEW a \in Nat, NEW b \in Int, NEW d \in Int, b <= d
    PROVE  a * b <= a * d
OBVIOUS

LEMMA EarlierSegments ==
    ASSUME NEW start \in Int, NEW end \in Int, start < end
    PROVE  /\ IsFiniteSet(Earlier(start, end))
           /\ Earlier(start, end) \subseteq Minute(start)..Minute(end - 1)
           /\ Minute(start) <= Minute(end - 1)
           /\ \A n \in Earlier(start, end) : Segment(n, start, end) \in Nat
           /\ Minute(start) # Minute(end - 1) =>
                SumFunctionOnSet([n \in Earlier(start, end) |-> Segment(n, start, end)],
                                 Earlier(start, end))
                  = Minute(end - 1) * MinuteLength - start
           /\ Minute(start) = Minute(end - 1) => Earlier(start, end) = {}
           /\ Minute(end - 1) * MinuteLength < end
<1> DEFINE s == Minute(start)
           e == Minute(end - 1)
           f == [n \in Earlier(start, end) |-> Segment(n, start, end)]
<1>1. s \in Int /\ e \in Int /\ s <= e
  <2>1. end - 1 \in Int /\ start <= end - 1
    OBVIOUS
  <2> QED
    BY <2>1, MinuteHolds, MinutesInOrder
<1>2. IsFiniteSet(Earlier(start, end))
  BY <1>1, FS_Interval DEF Earlier
<1>3. Earlier(start, end) \subseteq s..e
  BY <1>1 DEF Earlier
<1>4. \A n \in Earlier(start, end) : Segment(n, start, end) \in Nat
  BY <1>3, SegmentIs
<1>5. ASSUME s # e PROVE SumFunctionOnSet(f, Earlier(start, end)) = e * MinuteLength - start
  <2>1. s \in s..e /\ e - 1 \in s..e /\ e - 1 \in s..e
    BY <1>1, <1>5
  <2>2. \A n \in s..(e - 1) : f[n] = Segment(n, start, end)
    BY DEF Earlier
  <2>3. SumFunctionOnSet(f, s..(e - 1))
          = Least(end, ((e - 1) + 1) * MinuteLength) - Most(start, s * MinuteLength)
    <3> HIDE DEF f
    <3> QED
      BY <2>1, <2>2, SegmentsAddUp
  <2>4. (e - 1) + 1 = e /\ e \in s..e
    BY <1>1
  <2>5. e * MinuteLength < end /\ s * MinuteLength <= start
    BY <2>4, SegmentIs, MinuteHolds
  <2>6. e * MinuteLength \in Int /\ s * MinuteLength \in Int
    BY <1>1, Products
  <2> HIDE DEF e, s, f
  <2>7. Least(end, e * MinuteLength) = e * MinuteLength /\ Most(start, s * MinuteLength) = start
    BY <2>5, <2>6 DEF Least, Most
  <2> QED
    BY <2>3, <2>4, <2>7 DEF Earlier, s, e
<1>6. s = e => Earlier(start, end) = {}
  BY <1>1 DEF Earlier
<1>7. e * MinuteLength < end
  <2>1. e \in s..e
    BY <1>1
  <2> QED
    BY <2>1, SegmentIs
<1> QED
  BY <1>1, <1>2, <1>3, <1>4, <1>5, <1>6, <1>7

\* Rounded down, the minutes before the last one never get more than the amount.
LEMMA FloorsFit ==
    ASSUME NEW amount \in Nat, NEW start \in Int, NEW end \in Int, start < end
    PROVE  /\ \A n \in Earlier(start, end) : Floors(amount, start, end)[n] \in Nat
           /\ SumFunctionOnSet(Floors(amount, start, end), Earlier(start, end)) \in 0..amount
<1> DEFINE E   == Earlier(start, end)
           f   == Floors(amount, start, end)
           g   == [n \in E |-> Segment(n, start, end)]
           len == end - start
           F   == SumFunctionOnSet(f, E)
           G   == SumFunctionOnSet(g, E)
<1>1. len \in Nat \ {0}
  OBVIOUS
<1>2. \A n \in E : g[n] \in Nat /\ f[n] \in Nat /\ len * f[n] <= amount * g[n]
  <2> SUFFICES ASSUME NEW n \in E PROVE g[n] \in Nat /\ f[n] \in Nat /\ len * f[n] <= amount * g[n]
    OBVIOUS
  <2>1. g[n] \in Nat
    BY EarlierSegments
  <2>2. f[n] = (amount * g[n]) \div len
    BY DEF Floors
  <2> HIDE DEF f, g, len
  <2>3. amount * g[n] \in Nat
    BY <2>1
  <2> QED
    BY <1>1, <2>1, <2>2, <2>3, Quotient
<1>3. IsFiniteSet(E)
  BY EarlierSegments
<1>4. F \in Nat /\ G \in Nat
  <2> HIDE DEF f, g, E
  <2> QED
    BY <1>2, <1>3, SumIsNat
<1>5. len * F <= amount * G
  <2>1. \A n \in E : f[n] \in Int /\ g[n] \in Int /\ len * f[n] <= amount * g[n]
    BY <1>2
  <2> HIDE DEF f, g, E, len
  <2> QED
    BY <1>1, <1>3, <2>1, SumAtMost
<1>6. G <= len
  <2>1. CASE Minute(start) = Minute(end - 1)
    <3>1. E = {}
      BY <2>1, EarlierSegments
    <3>2. G = 0
      BY <3>1, SumOfNone
    <3> QED
      BY <1>1, <3>2
  <2>2. CASE Minute(start) # Minute(end - 1)
    <3>1. G = Minute(end - 1) * MinuteLength - start /\ Minute(end - 1) * MinuteLength < end
      BY <2>2, EarlierSegments
    <3>2. Minute(end - 1) * MinuteLength \in Int
      BY MinuteHolds, Products
    <3> QED
      BY <3>1, <3>2
  <2> QED
    BY <2>1, <2>2
<1> HIDE DEF F, G, len
<1>7. amount * G <= amount * len /\ amount * len \in Int /\ amount * G \in Int /\ len * F \in Int
  BY <1>1, <1>4, <1>6, LargerFactor
<1>8. len * F <= amount * len
  BY <1>5, <1>7
<1>9. F <= amount
  BY <1>1, <1>4, <1>8, SmallerFactor
<1> QED
  BY <1>2, <1>4, <1>9 DEF F

LEMMA SharesAddUp ==
    ASSUME NEW amount \in Nat, NEW start \in Int, NEW end \in Int, start < end,
           NEW f, \A m \in Minute(start)..Minute(end - 1) : f[m] = Share(amount, m, start, end)
    PROVE  /\ \A m \in Minute(start)..Minute(end - 1) : Share(amount, m, start, end) \in Nat
           /\ SumFunctionOnSet(f, Minute(start)..Minute(end - 1)) = amount
<1> DEFINE s == Minute(start)
           e == Minute(end - 1)
           floors == Floors(amount, start, end)
           F == SumFunctionOnSet(floors, Earlier(start, end))
<1>1. s \in Int /\ e \in Int /\ s <= e /\ Earlier(start, end) = s..(e - 1) /\ e \in s..e
  <2>1. s \in Int /\ e \in Int
    BY MinuteHolds
  <2>2. s <= e
    BY EarlierSegments
  <2> QED
    BY <2>1, <2>2 DEF Earlier
<1>2. F \in 0..amount /\ \A n \in s..(e - 1) : floors[n] \in Nat
  BY <1>1, FloorsFit
<1>3. \A m \in s..e : Share(amount, m, start, end) = IF m = e THEN amount - F ELSE floors[m]
  BY ShareIs
<1> HIDE DEF F, floors
<1>4. \A m \in s..e : Share(amount, m, start, end) \in Nat
  <2> SUFFICES ASSUME NEW m \in s..e PROVE Share(amount, m, start, end) \in Nat
    OBVIOUS
  <2>1. CASE m = e
    <3>1. Share(amount, m, start, end) = amount - F
      BY <1>3, <2>1
    <3> QED
      BY <1>2, <3>1
  <2>2. CASE m # e
    <3>1. m \in s..(e - 1)
      BY <1>1, <2>2
    <3>2. Share(amount, m, start, end) = floors[m]
      BY <1>3, <2>2
    <3> QED
      BY <1>2, <3>1, <3>2
  <2> QED
    BY <2>1, <2>2
<1> HIDE DEF s, e
<1>5. SumFunctionOnSet(f, s..e) = SumFunctionOnSet(f, s..(e - 1)) + f[e]
  <2>1. \A m \in s..e : f[m] \in Int
    BY <1>4 DEF s, e
  <2> QED
    BY <1>1, <2>1, SumOfRange
<1>6. SumFunctionOnSet(f, s..(e - 1)) = F
  <2>1. \A m \in s..(e - 1) : m \in s..e /\ m # e
    BY <1>1
  <2>2. \A m \in s..(e - 1) : floors[m] \in Int /\ f[m] = floors[m]
    BY <1>2, <1>3, <2>1 DEF s, e
  <2>3. IsFiniteSet(s..(e - 1))
    BY <1>1, FS_Interval
  <2>4. SumFunctionOnSet(f, s..(e - 1)) = SumFunctionOnSet(floors, s..(e - 1))
    BY <2>2, <2>3, SumIsSame
  <2> QED
    BY <1>1, <2>4 DEF F
<1>7. f[e] = amount - F
  BY <1>1, <1>3 DEF s, e
<1>8. SumFunctionOnSet(f, s..e) = amount
  BY <1>2, <1>5, <1>6, <1>7
<1> QED
  BY <1>4, <1>8 DEF s, e

\* Of the length of the interval every minute gets just its own part.
LEMMA SharesOfTime ==
    ASSUME NEW start \in Int, NEW end \in Int, start < end,
           NEW m \in Minute(start)..Minute(end - 1)
    PROVE  Share(end - start, m, start, end) = Segment(m, start, end)
<1> DEFINE s == Minute(start)
           e == Minute(end - 1)
           E == Earlier(start, end)
           len == end - start
           floors == Floors(len, start, end)
           g == [n \in E |-> Segment(n, start, end)]
<1>1. s \in Int /\ e \in Int /\ s <= e /\ E = s..(e - 1) /\ m \in s..e
  <2>1. s \in Int /\ e \in Int
    BY MinuteHolds
  <2>2. s <= e
    BY EarlierSegments
  <2> QED
    BY <2>1, <2>2 DEF Earlier
<1>2. \A n \in E : g[n] \in Nat /\ floors[n] = g[n]
  <2> SUFFICES ASSUME NEW n \in E PROVE g[n] \in Nat /\ floors[n] = g[n]
    OBVIOUS
  <2>1. g[n] \in Nat
    BY EarlierSegments
  <2>2. floors[n] = (len * g[n]) \div len
    BY DEF Floors
  <2>3. len \in Nat \ {0}
    OBVIOUS
  <2> HIDE DEF floors, g, len
  <2> QED
    BY <2>1, <2>2, <2>3, ExactQuotient
<1>3. Share(len, m, start, end) = IF m = e THEN len - SumFunctionOnSet(floors, E) ELSE floors[m]
  BY ShareIs
<1>4. SumFunctionOnSet(floors, E) = SumFunctionOnSet(g, E)
  <2>1. IsFiniteSet(E)
    BY EarlierSegments
  <2>2. \A n \in E : g[n] \in Int /\ floors[n] = g[n]
    BY <1>2
  <2> HIDE DEF floors, g, E
  <2> QED
    BY <2>1, <2>2, SumIsSame
<1>5. CASE m # e
  <2>1. m \in E
    BY <1>1, <1>5
  <2>2. floors[m] = g[m] /\ g[m] = Segment(m, start, end)
    BY <1>2, <2>1
  <2> HIDE DEF floors, g, E
  <2> QED
    BY <1>3, <1>5, <2>2
<1>6. CASE m = e
  <2>1. Segment(m, start, end) = end - Most(start, e * MinuteLength)
    <3>1. /\ e * MinuteLength \in Int /\ end <= (e + 1) * MinuteLength
          /\ (e + 1) * MinuteLength \in Int
      <4>1. end - 1 \in Int
        OBVIOUS
      <4>2. end - 1 < (e + 1) * MinuteLength /\ (e + 1) * MinuteLength \in Int /\ e * MinuteLength \in Int
        BY <1>1, <4>1, MinuteHolds, Products
      <4> HIDE DEF e
      <4> QED
        BY <4>2
    <3> HIDE DEF e
    <3>2. Least(end, (e + 1) * MinuteLength) = end
      BY <3>1 DEF Least
    <3> QED
      BY <1>6, <3>2 DEF Segment
  <2>2. CASE s = e
    <3>1. SumFunctionOnSet(g, E) = 0
      <4>1. E = {}
        BY <2>2, EarlierSegments
      <4> QED
        BY <4>1, SumOfNone
    <3>2. Most(start, e * MinuteLength) = start
      <4>1. s * MinuteLength <= start /\ s * MinuteLength \in Int
        BY <1>1, MinuteHolds, Products
      <4> HIDE DEF s, e
      <4> QED
        BY <2>2, <4>1 DEF Most
    <3> HIDE DEF floors, g, E, e
    <3> QED
      BY <1>3, <1>4, <1>6, <2>1, <3>1, <3>2
  <2>3. CASE s # e
    <3>1. SumFunctionOnSet(g, E) = e * MinuteLength - start
      BY <2>3, EarlierSegments
    <3>2. Most(start, e * MinuteLength) = e * MinuteLength /\ e * MinuteLength \in Int
      <4>1. start <= e * MinuteLength /\ e * MinuteLength \in Int
        BY <1>1, <1>6, <2>3, SegmentIs
      <4> HIDE DEF e
      <4> QED
        BY <4>1 DEF Most
    <3> HIDE DEF floors, g, E, e
    <3> QED
      BY <1>3, <1>4, <1>6, <2>1, <3>1, <3>2
  <2> QED
    BY <2>2, <2>3
<1> QED
  BY <1>5, <1>6

-----------------------------------------------------------------------------
(* The rows of traffic, and the sums of a column of them.                  *)

Rows == [Minutes -> [Fields -> Nat]]

Column(rows, field)  == [m \in Minutes |-> rows[m][field]]
Over(rows, field, T) == SumFunctionOnSet(Column(rows, field), T)

\* What a booking gives to every minute.
Given(amount, start, end) ==
    [m \in Minutes |-> IF start < end /\ m \in Minute(start)..Minute(end - 1)
                       THEN Share(amount, m, start, end)
                       ELSE 0]

LEMMA FieldsAre == Fields = {"measured", "estimated", "unknown", "sampled"}
BY DEF Fields, EmptyRow

LEMMA AmountsAre ==
    ASSUME NEW a \in Nat, NEW b \in Nat, NEW c \in Nat, NEW d \in Nat
    PROVE  [measured |-> a, estimated |-> b, unknown |-> c, sampled |-> d] \in [Fields -> Nat]
BY FieldsAre

LEMMA OverIsNat ==
    ASSUME NEW rows \in Rows, NEW field \in Fields, NEW T \in SUBSET Minutes
    PROVE  /\ Over(rows, field, T) \in Nat
           /\ Over(rows, field, T) <= Over(rows, field, Minutes)
<1>1. \A m \in Minutes : Column(rows, field)[m] \in Nat
  BY DEF Column, Rows
<1>2. \A m \in T : Column(rows, field)[m] \in Nat
  BY <1>1
<1> QED
  BY <1>1, <1>2, MinutesAreFinite, SumIsNat, SumOfPart DEF Over

LEMMA OverParts ==
    ASSUME NEW rows \in Rows, NEW field \in Fields, NEW T \in SUBSET Minutes, NEW U \in SUBSET T
    PROVE  Over(rows, field, T) = Over(rows, field, U) + Over(rows, field, T \ U)
<1>1. \A m \in T : Column(rows, field)[m] \in Int
  BY DEF Column, Rows
<1>2. IsFiniteSet(T)
  BY MinutesAreFinite
<1> QED
  BY <1>1, <1>2, SumOfParts DEF Over

LEMMA OverSame ==
    ASSUME NEW rows \in Rows, NEW more \in Rows, NEW field \in Fields, NEW T \in SUBSET Minutes,
           \A m \in T : more[m][field] = rows[m][field]
    PROVE  Over(more, field, T) = Over(rows, field, T)
<1>1. \A m \in T : Column(rows, field)[m] \in Int /\ Column(more, field)[m] = Column(rows, field)[m]
  BY DEF Column, Rows
<1>2. IsFiniteSet(T)
  BY MinutesAreFinite
<1> QED
  BY <1>1, <1>2, SumIsSame DEF Over

LEMMA OverAtMost ==
    ASSUME NEW rows \in Rows, NEW more \in Rows, NEW field \in Fields, NEW T \in SUBSET Minutes,
           \A m \in T : rows[m][field] <= more[m][field]
    PROVE  Over(rows, field, T) <= Over(more, field, T)
<1>1. \A m \in T : /\ Column(rows, field)[m] \in Int /\ Column(more, field)[m] \in Int
                   /\ 1 * Column(rows, field)[m] <= 1 * Column(more, field)[m]
  BY DEF Column, Rows
<1>2. IsFiniteSet(T)
  BY MinutesAreFinite
<1>3. 1 * Over(rows, field, T) <= 1 * Over(more, field, T)
  BY <1>1, <1>2, SumAtMost DEF Over
<1>4. Over(rows, field, T) \in Nat /\ Over(more, field, T) \in Nat
  BY OverIsNat
<1> QED
  BY <1>3, <1>4

LEMMA GivenAddsUp ==
    ASSUME NEW amount \in Nat, NEW start \in Times, NEW end \in Times, start < end
    PROVE  /\ \A m \in Minutes : Given(amount, start, end)[m] \in Nat
           /\ \A T \in SUBSET Minutes :
                 /\ SumFunctionOnSet(Given(amount, start, end), T) \in 0..amount
                 /\ Minute(start)..Minute(end - 1) \subseteq T =>
                      SumFunctionOnSet(Given(amount, start, end), T) = amount
<1> DEFINE f == Given(amount, start, end)
           span == Minute(start)..Minute(end - 1)
           F(T) == SumFunctionOnSet(f, T)
<1>1. start \in Int /\ end \in Int /\ span \subseteq Minutes
  <2>1. start \in Int /\ end \in Int /\ end - 1 \in Times
    BY Constants DEF Times
  <2>2. Minute(start) \in Minutes /\ Minute(end - 1) \in Minutes
    BY <2>1, MinutesAreFinite
  <2>3. Minute(MaxTime) \in Int
    BY Constants, MinuteHolds
  <2> QED
    BY <2>1, <2>2, <2>3 DEF Minutes
<1>2. \A m \in span : f[m] = Share(amount, m, start, end)
  BY <1>1 DEF Given
<1>3. \A m \in Minutes \ span : f[m] = 0
  BY DEF Given
<1>4. (\A m \in span : Share(amount, m, start, end) \in Nat) /\ F(span) = amount
  <2> HIDE DEF f
  <2> QED
    BY <1>1, <1>2, SharesAddUp
<1>5. \A m \in Minutes : f[m] \in Nat
  BY <1>2, <1>3, <1>4
<1>6. \A T \in SUBSET Minutes : IsFiniteSet(T) /\ F(T) \in Nat
  <2> SUFFICES ASSUME NEW T \in SUBSET Minutes PROVE IsFiniteSet(T) /\ F(T) \in Nat
    OBVIOUS
  <2>1. IsFiniteSet(T) /\ \A m \in T : f[m] \in Nat
    BY <1>5, MinutesAreFinite
  <2> HIDE DEF f
  <2> QED
    BY <2>1, SumIsNat
<1>7. \A T \in SUBSET Minutes : span \subseteq T => F(T) = amount
  <2> SUFFICES ASSUME NEW T \in SUBSET Minutes, span \subseteq T PROVE F(T) = amount
    OBVIOUS
  <2>1. \A m \in T : f[m] \in Int
    BY <1>5
  <2>2. \A m \in T \ span : f[m] = 0
    BY <1>3
  <2>3. IsFiniteSet(T) /\ IsFiniteSet(T \ span)
    BY <1>6
  <2> HIDE DEF f, span
  <2>4. F(T) = F(span) + F(T \ span)
    BY <2>1, <2>3, SumOfParts
  <2>5. F(T \ span) = 0
    BY <2>2, <2>3, SumIsZero
  <2> QED
    BY <1>4, <2>4, <2>5
<1>8. \A T \in SUBSET Minutes : F(T) <= amount
  <2> SUFFICES ASSUME NEW T \in SUBSET Minutes PROVE F(T) <= amount
    OBVIOUS
  <2>1. F(T) <= F(Minutes)
    <3>1. \A m \in Minutes : f[m] \in Nat
      BY <1>5
    <3>2. IsFiniteSet(Minutes)
      BY MinutesAreFinite
    <3> HIDE DEF f
    <3> QED
      BY <3>1, <3>2, SumOfPart
  <2>2. F(Minutes) = amount
    BY <1>1, <1>7
  <2> QED
    BY <2>1, <2>2
<1> HIDE DEF f
<1> QED
  BY <1>5, <1>6, <1>7, <1>8 DEF f

\* Of the length of the interval, the minutes from b to x get at least the time between.
LEMMA GivenInWindow ==
    ASSUME NEW start \in Times, NEW end \in Times, NEW b \in Int, NEW x \in Int,
           start <= b, b <= x, x <= end, start < end,
           NEW T \in SUBSET Minutes, (Minute(b)..Minute(x)) \subseteq T
    PROVE  SumFunctionOnSet(Given(end - start, start, end), T) >= x - b
<1> DEFINE f == Given(end - start, start, end)
           e == Minute(end - 1)
           F(U) == SumFunctionOnSet(f, U)
<1>1. end - start \in Nat /\ start \in Int /\ end \in Int
  BY DEF Times
<1>2. (\A m \in Minutes : f[m] \in Nat) /\ F(T) \in 0..(end - start)
  BY <1>1, GivenAddsUp
<1>3. CASE b = end
  <2>1. x - b = 0
    BY <1>1, <1>3
  <2>2. F(T) \in Nat
    BY <1>1, <1>2
  <2> QED
    BY <2>1, <2>2
<1>4. CASE b # end
  <2> DEFINE k == Minute(b)
             l == IF x = end THEN e ELSE Minute(x)
  <2>0. b <= end - 1 /\ end - 1 \in Int
    BY <1>1, <1>4
  <2>1. /\ Minute(start) \in Int /\ k \in Int /\ l \in Int /\ e \in Int /\ Minute(x) \in Int
        /\ Minute(start) <= k /\ k <= l /\ l <= e /\ l <= Minute(x)
    <3>1. Minute(start) \in Int /\ k \in Int /\ e \in Int /\ Minute(x) \in Int
      BY <1>1, <2>0, MinuteHolds
    <3>2. Minute(start) <= k /\ k <= e
      BY <1>1, <2>0, MinutesInOrder
    <3>3. x = end => e <= Minute(x)
      BY <1>1, <2>0, MinutesInOrder
    <3>4. x # end => k <= Minute(x) /\ Minute(x) <= e
      <4>1. x # end => x <= end - 1
        BY <1>1
      <4> QED
        BY <1>1, <2>0, <4>1, MinutesInOrder
    <3> HIDE DEF e, k
    <3> QED
      BY <3>1, <3>2, <3>3, <3>4
  <2>2. k \in Minute(start)..e /\ l \in k..e /\ k..l \subseteq T
    BY <2>1
  <2>3. \A n \in k..l : f[n] = Segment(n, start, end)
    <3> SUFFICES ASSUME NEW n \in k..l PROVE f[n] = Segment(n, start, end)
      OBVIOUS
    <3>1. n \in Minutes /\ n \in Minute(start)..e
      BY <2>1, <2>2
    <3>2. f[n] = Share(end - start, n, start, end)
      BY <3>1 DEF Given
    <3> QED
      BY <1>1, <3>1, <3>2, SharesOfTime
  <2>4. F(k..l) = Least(end, (l + 1) * MinuteLength) - Most(start, k * MinuteLength)
    <3> HIDE DEF f, k, l
    <3> QED
      BY <1>1, <2>2, <2>3, SegmentsAddUp
  <2>5. F(k..l) <= F(T)
    <3>1. IsFiniteSet(T) /\ \A m \in T : f[m] \in Nat
      BY <1>2, MinutesAreFinite
    <3> HIDE DEF f, k, l
    <3> QED
      BY <2>2, <3>1, SumOfPart
  <2>6. x <= Least(end, (l + 1) * MinuteLength) /\ Least(end, (l + 1) * MinuteLength) \in Int
    <3>1. (l + 1) * MinuteLength \in Int
      <4>1. l + 1 \in Int
        BY <2>1
      <4> HIDE DEF l
      <4> QED
        BY <4>1, Products
    <3>2. x # end => x < (l + 1) * MinuteLength
      BY MinuteHolds
    <3>3. x = end => x <= (l + 1) * MinuteLength
      <4>1. end - 1 < (e + 1) * MinuteLength /\ (e + 1) * MinuteLength \in Int
        BY <2>0, <2>1, MinuteHolds, Products
      <4> HIDE DEF e
      <4> QED
        BY <1>1, <4>1
    <3> HIDE DEF l
    <3> QED
      BY <1>1, <3>1, <3>2, <3>3 DEF Least
  <2>7. Most(start, k * MinuteLength) <= b /\ Most(start, k * MinuteLength) \in Int
    <3>1. k * MinuteLength <= b /\ k * MinuteLength \in Int
      BY <2>1, MinuteHolds, Products
    <3> HIDE DEF k
    <3> QED
      BY <1>1, <3>1 DEF Most
  <2> HIDE DEF F, k, l
  <2>8. F(T) \in Int
    BY <1>1, <1>2
  <2> QED
    BY <2>4, <2>5, <2>6, <2>7, <2>8 DEF F
<1> QED
  BY <1>3, <1>4

LEMMA BookedNothing ==
    ASSUME NEW rows \in Rows, NEW start, NEW end, NEW amounts, ~(start < end)
    PROVE  Booked(rows, start, end, amounts) = rows
BY DEF Booked, Rows

LEMMA BookedOver ==
    ASSUME NEW rows \in Rows, NEW start \in Times, NEW end \in Times, start < end,
           NEW amounts \in [Fields -> Nat]
    PROVE  /\ Booked(rows, start, end, amounts) \in Rows
           /\ \A field \in Fields, T \in SUBSET Minutes :
                 Over(Booked(rows, start, end, amounts), field, T)
                   = Over(rows, field, T)
                       + SumFunctionOnSet(Given(amounts[field], start, end), T)
<1> DEFINE booked == Booked(rows, start, end, amounts)
<1>1. \A field \in Fields : amounts[field] \in Nat
  OBVIOUS
<1>2. \A field \in Fields, m \in Minutes :
         /\ rows[m][field] \in Nat /\ Given(amounts[field], start, end)[m] \in Nat
         /\ booked[m][field] = rows[m][field] + Given(amounts[field], start, end)[m]
  <2> SUFFICES ASSUME NEW field \in Fields, NEW m \in Minutes
               PROVE  /\ rows[m][field] \in Nat /\ Given(amounts[field], start, end)[m] \in Nat
                      /\ booked[m][field] = rows[m][field] + Given(amounts[field], start, end)[m]
    OBVIOUS
  <2>1. rows[m][field] \in Nat
    BY DEF Rows
  <2>2. Given(amounts[field], start, end)[m] \in Nat
    BY <1>1, GivenAddsUp
  <2>3. CASE m \in Minute(start)..Minute(end - 1)
    <3> DEFINE share == Share(amounts[field], m, start, end)
    <3>1. Given(amounts[field], start, end)[m] = share
      BY <2>3 DEF Given
    <3>2. booked[m][field] = rows[m][field] + Most(0, share)
      BY <2>3 DEF Booked
    <3> HIDE DEF share
    <3>3. Most(0, share) = share
      BY <2>2, <3>1 DEF Most
    <3> QED
      BY <2>1, <2>2, <3>1, <3>2, <3>3
  <2>4. CASE m \notin Minute(start)..Minute(end - 1)
    BY <2>1, <2>2, <2>4 DEF Booked, Given
  <2> QED
    BY <2>1, <2>2, <2>3, <2>4
<1>3. booked \in Rows
  <2>1. \A m \in Minutes : booked[m] \in [Fields -> Nat]
    <3> SUFFICES ASSUME NEW m \in Minutes PROVE booked[m] \in [Fields -> Nat]
      OBVIOUS
    <3>1. \A field \in Fields : booked[m][field] \in Nat
      BY <1>2
    <3>2. CASE m \in Minute(start)..Minute(end - 1)
      <4>1. booked[m] = [f \in Fields |-> rows[m][f] + Most(0, Share(amounts[f], m, start, end))]
        BY <3>2 DEF Booked
      <4> HIDE DEF booked
      <4> QED
        BY <3>1, <4>1
    <3>3. CASE m \notin Minute(start)..Minute(end - 1)
      BY <3>3 DEF Booked, Rows
    <3> QED
      BY <3>2, <3>3
  <2>2. booked = [m \in Minutes |-> booked[m]]
    BY DEF Booked
  <2> HIDE DEF booked
  <2> QED
    BY <2>1, <2>2 DEF Rows
<1>4. ASSUME NEW field \in Fields, NEW T \in SUBSET Minutes
      PROVE  Over(booked, field, T)
               = Over(rows, field, T) + SumFunctionOnSet(Given(amounts[field], start, end), T)
  <2> DEFINE given == Given(amounts[field], start, end)
  <2>1. \A m \in T : /\ Column(rows, field)[m] \in Int /\ given[m] \in Int
                     /\ Column(booked, field)[m] = Column(rows, field)[m] + given[m]
    <3> SUFFICES ASSUME NEW m \in T
                 PROVE /\ Column(rows, field)[m] \in Int /\ given[m] \in Int
                       /\ Column(booked, field)[m] = Column(rows, field)[m] + given[m]
      OBVIOUS
    <3>1. m \in Minutes
      OBVIOUS
    <3> HIDE DEF booked
    <3>2. Column(rows, field)[m] = rows[m][field] /\ Column(booked, field)[m] = booked[m][field]
      BY <3>1 DEF Column
    <3> QED
      BY <1>2, <3>1, <3>2
  <2>2. IsFiniteSet(T)
    BY MinutesAreFinite
  <2> HIDE DEF booked, given
  <2> QED
    BY <2>1, <2>2, SumOfTwo DEF Over, given
<1> QED
  BY <1>3, <1>4

LEMMA BookedBetween ==
    ASSUME NEW rows \in Rows, NEW start \in Times, NEW end \in Times, start < end,
           NEW amounts \in [Fields -> Nat], NEW field \in Fields, NEW T \in SUBSET Minutes
    PROVE  /\ Over(rows, field, T) <= Over(Booked(rows, start, end, amounts), field, T)
           /\ Over(Booked(rows, start, end, amounts), field, T) <= Over(rows, field, T) + amounts[field]
           /\ T = Minutes => Over(Booked(rows, start, end, amounts), field, T)
                               = Over(rows, field, T) + amounts[field]
           /\ Over(rows, field, T) \in Nat /\ amounts[field] \in Nat
           /\ Over(Booked(rows, start, end, amounts), field, T) \in Nat
<1> DEFINE G == SumFunctionOnSet(Given(amounts[field], start, end), T)
<1>1. amounts[field] \in Nat /\ Over(rows, field, T) \in Nat
  BY OverIsNat
<1>2. Minute(start)..Minute(end - 1) \subseteq Minutes
  <2>1. start \in Int /\ end \in Int /\ end - 1 \in Times
    BY Constants DEF Times
  <2>2. Minute(start) \in Minutes /\ Minute(end - 1) \in Minutes
    BY <2>1, MinutesAreFinite
  <2>3. Minute(MaxTime) \in Int
    BY Constants, MinuteHolds
  <2> QED
    BY <2>1, <2>2, <2>3 DEF Minutes
<1>3. G \in 0..amounts[field] /\ (T = Minutes => G = amounts[field])
  BY <1>1, <1>2, GivenAddsUp
<1>4. Over(Booked(rows, start, end, amounts), field, T) = Over(rows, field, T) + G
  BY BookedOver
<1> HIDE DEF G
<1> QED
  BY <1>1, <1>3, <1>4

LEMMA ClearedOver ==
    ASSUME NEW rows \in Rows, NEW start, NEW end
    PROVE  /\ Cleared(rows, start, end) \in Rows
           /\ \A field \in Fields, T \in SUBSET Minutes : field # "unknown" =>
                 Over(Cleared(rows, start, end), field, T) = Over(rows, field, T)
           /\ \A T \in SUBSET Minutes :
                 Over(Cleared(rows, start, end), "unknown", T)
                   = Over(rows, "unknown", T \ (Minute(start)..Minute(end)))
<1> DEFINE cleared == Cleared(rows, start, end)
           span == Minute(start)..Minute(end)
<1>1. \A m \in Minutes : rows[m] \in [Fields -> Nat]
  BY DEF Rows
<1>2. "unknown" \in Fields
  BY FieldsAre
<1>3. \A m \in Minutes : /\ cleared[m] \in [Fields -> Nat]
                         /\ \A f \in Fields : f # "unknown" => cleared[m][f] = rows[m][f]
                         /\ m \in span => cleared[m]["unknown"] = 0
                         /\ m \notin span => cleared[m]["unknown"] = rows[m]["unknown"]
  BY <1>1, <1>2 DEF Cleared
<1>4. cleared \in Rows
  <2>1. cleared = [m \in Minutes |-> cleared[m]]
    BY DEF Cleared
  <2> HIDE DEF cleared
  <2> QED
    BY <1>3, <2>1 DEF Rows
<1> HIDE DEF cleared, span
<1>5. ASSUME NEW field \in Fields, NEW T \in SUBSET Minutes, field # "unknown"
      PROVE  Over(cleared, field, T) = Over(rows, field, T)
  <2>1. \A m \in T : cleared[m][field] = rows[m][field]
    BY <1>3, <1>5
  <2> QED
    BY <1>4, <2>1, OverSame
<1>6. ASSUME NEW T \in SUBSET Minutes
      PROVE  Over(cleared, "unknown", T) = Over(rows, "unknown", T \ span)
  <2>1. T \cap span \in SUBSET T /\ T \ (T \cap span) = T \ span /\ T \ span \in SUBSET Minutes
    OBVIOUS
  <2>2. Over(cleared, "unknown", T) = Over(cleared, "unknown", T \cap span) + Over(cleared, "unknown", T \ span)
    BY <1>2, <1>4, <2>1, OverParts
  <2>3. Over(cleared, "unknown", T \cap span) = 0
    <3>1. \A m \in T \cap span : Column(cleared, "unknown")[m] = 0
      BY <1>3 DEF Column
    <3>2. IsFiniteSet(T \cap span)
      BY <2>1, MinutesAreFinite
    <3> QED
      BY <3>1, <3>2, SumIsZero DEF Over
  <2>4. Over(cleared, "unknown", T \ span) = Over(rows, "unknown", T \ span)
    <3>1. \A m \in T \ span : cleared[m]["unknown"] = rows[m]["unknown"]
      BY <1>3, <2>1
    <3> QED
      BY <1>2, <1>4, <2>1, <3>1, OverSame
  <2>5. Over(rows, "unknown", T \ span) \in Nat
    BY <1>2, <2>1, OverIsNat
  <2> QED
    BY <2>2, <2>3, <2>4, <2>5
<1> QED
  BY <1>4, <1>5, <1>6 DEF cleared, span

LEMMA PrunedOver ==
    ASSUME NEW rows \in Rows
    PROVE  /\ Pruned(rows) \in Rows
           /\ \A field \in Fields, T \in SUBSET Minutes :
                 /\ Over(Pruned(rows), field, T) <= Over(rows, field, T)
                 /\ (\A m \in T : ~(m < Minute(now - KeptTime))) =>
                      Over(Pruned(rows), field, T) = Over(rows, field, T)
<1> DEFINE pruned == Pruned(rows)
<1>1. \A m \in Minutes : rows[m] \in [Fields -> Nat]
  BY DEF Rows
<1>2. EmptyRow \in [Fields -> Nat] /\ \A f \in Fields : EmptyRow[f] = 0
  BY FieldsAre DEF EmptyRow
<1>3. \A m \in Minutes : /\ pruned[m] \in [Fields -> Nat]
                         /\ \A f \in Fields : pruned[m][f] <= rows[m][f]
                         /\ ~(m < Minute(now - KeptTime)) => pruned[m] = rows[m]
  <2> SUFFICES ASSUME NEW m \in Minutes
               PROVE  /\ pruned[m] \in [Fields -> Nat]
                      /\ \A f \in Fields : pruned[m][f] <= rows[m][f]
                      /\ ~(m < Minute(now - KeptTime)) => pruned[m] = rows[m]
    OBVIOUS
  <2>1. \A f \in Fields : rows[m][f] \in Nat
    BY <1>1
  <2>2. pruned[m] = IF m < Minute(now - KeptTime) THEN EmptyRow ELSE rows[m]
    BY DEF Pruned
  <2> HIDE DEF pruned
  <2>3. CASE m < Minute(now - KeptTime)
    <3>1. pruned[m] = EmptyRow
      BY <2>2, <2>3
    <3> QED
      BY <1>2, <2>1, <2>3, <3>1
  <2>4. CASE ~(m < Minute(now - KeptTime))
    <3>1. pruned[m] = rows[m]
      BY <2>2, <2>4
    <3> QED
      BY <1>1, <2>1, <3>1
  <2> QED
    BY <2>3, <2>4
<1>4. pruned \in Rows
  <2>1. pruned = [m \in Minutes |-> pruned[m]]
    BY DEF Pruned
  <2> HIDE DEF pruned
  <2> QED
    BY <1>3, <2>1 DEF Rows
<1> HIDE DEF pruned
<1>5. ASSUME NEW field \in Fields, NEW T \in SUBSET Minutes
      PROVE  Over(pruned, field, T) <= Over(rows, field, T)
  <2>1. \A m \in T : pruned[m][field] <= rows[m][field]
    BY <1>3
  <2> QED
    BY <1>4, <2>1, OverAtMost
<1>6. ASSUME NEW field \in Fields, NEW T \in SUBSET Minutes,
             \A m \in T : ~(m < Minute(now - KeptTime))
      PROVE  Over(pruned, field, T) = Over(rows, field, T)
  <2>1. \A m \in T : pruned[m][field] = rows[m][field]
    BY <1>3, <1>6
  <2> QED
    BY <1>4, <2>1, OverSame
<1> QED
  BY <1>4, <1>5, <1>6 DEF pruned

-----------------------------------------------------------------------------
(* The inductive invariant.                                                *)

\* Who counts from what: the counter of the cursor is one that was read, and bytes are
\* taken for carried from the first baseline on.
CursorSound ==
    /\ cursor.sampledAt = None => cursor = NoCursor /\ traffic = [m \in Minutes |-> EmptyRow]
    /\ cursor.index = None => cursor.baselineAt = None /\ ~cursor.valid
    /\ cursor.index # None => cursor.octets # None
    /\ cursor.valid => cursor.baselineAt = cursor.sampledAt
    /\ carried = None <=> cursor.index = None

\* What the bounds of the model rest on.
ClocksSound ==
    /\ booted <= real /\ cursor.sampledAt <= real
    /\ \A i \in Interfaces : port[i].discontinuity <= events

\* What is measured, and what the interface of the cursor has counted since.
MeasuredSound ==
    /\ Over(traffic, "measured", Minutes) <= Most(0, carried)
    /\ cursor.index # None =>
         Over(traffic, "measured", Minutes) + port[cursor.index].octets - cursor.octets <= carried

\* While the interface counts on, the cursor is where it was read last, and the router has
\* given no sign by which its next sample could be taken for a reset.
ReadingSound ==
    reading # NoReading =>
        /\ carried # None
        /\ cursor.index = reading.line /\ cursor.baselineAt = reading.at
        /\ cursor.octets <= port[cursor.index].octets
        /\ reading.bytes + port[cursor.index].octets - cursor.octets = carried
        /\ cursor.discontinuity = port[cursor.index].discontinuity
        /\ cursor.uptime <= Uptime
        /\ Kept(0) => Over(traffic, "measured", Minutes) = reading.bytes

\* With a valid sample there is no gap; Kept(t) is lost for good.
GapSound ==
    cursor.baselineAt # None /\ Kept(cursor.baselineAt) =>
        Over(traffic, "unknown", (Minute(cursor.baselineAt)..Minute(MaxTime)) \cap Minutes)
            >= cursor.sampledAt - cursor.baselineAt

\* The time that the next sample can book is not booked yet.
SampledSound ==
    cursor.sampledAt # None =>
        Over(traffic, "sampled", Minutes) + Most(0, now - Baseline) <= real

Outside(b, x) == Minutes \ (Minute(b)..Minute(x))

\* The next sample may book the time since the baseline once more.  It clears the minutes
\* from the baseline on, up to the last sample or, when the clock was set back, to any
\* time before: what lies outside them must leave room for that.
UnknownSound ==
    cursor.sampledAt # None =>
        /\ Over(traffic, "unknown", Minutes) + Most(0, now - cursor.sampledAt) <= real
        /\ \A x \in Baseline..cursor.sampledAt :
              Over(traffic, "unknown", Outside(Baseline, x)) + (x - Baseline)
                  + Most(0, now - cursor.sampledAt) <= real

IInv ==
    /\ TypeOK /\ CursorSound /\ ClocksSound
    /\ MeasuredSound /\ ReadingSound /\ GapSound /\ SampledSound /\ UnknownSound

-----------------------------------------------------------------------------
(* The sampled row, and what a sample books.                               *)

LEMMA RowsTyped == ASSUME TypeOK PROVE traffic \in Rows
BY DEF TypeOK, Rows

LEMMA TypedClocks ==
    ASSUME TypeOK
    PROVE  now \in Int /\ real \in Int /\ now \in Times /\ real \in Times /\ now <= real /\ 0 <= now
BY Constants DEF TypeOK, Times

LEMMA TypedCursor ==
    ASSUME TypeOK, CursorSound
    PROVE  /\ cursor.index \in Interfaces \cup {None}
           /\ cursor.index # None => cursor.octets \in 0..MaxOctets
           /\ cursor.sampledAt \in Times \cup {None} /\ cursor.baselineAt \in Times \cup {None}
           /\ cursor.sampledAt \in Int /\ cursor.baselineAt \in Int
           /\ cursor = NoCursor <=> cursor.sampledAt = None
           /\ cursor.sampledAt # None => cursor.sampledAt \in Times /\ Baseline \in Times
           /\ Baseline = IF cursor.baselineAt = None THEN cursor.sampledAt ELSE cursor.baselineAt
           /\ cursor.valid \in BOOLEAN
<1>1. /\ cursor.index \in Interfaces \cup {None} /\ cursor.octets \in 0..MaxOctets \cup {None}
      /\ cursor.sampledAt \in Times \cup {None} /\ cursor.baselineAt \in Times \cup {None}
      /\ cursor.valid \in BOOLEAN
  BY DEF TypeOK
<1>2. cursor.index # None => cursor.octets \in 0..MaxOctets
  BY <1>1 DEF CursorSound
<1>3. cursor.sampledAt \in Int /\ cursor.baselineAt \in Int
  BY <1>1, Constants DEF Times
<1>4. cursor = NoCursor <=> cursor.sampledAt = None
  BY DEF CursorSound, NoCursor
<1>5. cursor.sampledAt # None => cursor.sampledAt \in Times /\ Baseline \in Times
  BY <1>1 DEF Baseline
<1>6. Baseline = IF cursor.baselineAt = None THEN cursor.sampledAt ELSE cursor.baselineAt
  BY DEF Baseline
<1> QED
  BY <1>1, <1>2, <1>3, <1>4, <1>5, <1>6

LEMMA EstimateIsInt ==
    ASSUME TypeOK, NEW start \in Int, NEW end \in Int
    PROVE  Estimate(start, end) \in Int
<1> DEFINE span == Minute(start - RateTime)..Minute(start)
<1>1. TotalIn("sampled", span) \in Nat /\ TotalIn("measured", span) \in Nat
  <2>1. span \cap Minutes \in SUBSET Minutes /\ "sampled" \in Fields /\ "measured" \in Fields
    BY FieldsAre
  <2> HIDE DEF span
  <2> QED
    BY <2>1, RowsTyped, OverIsNat DEF TotalIn, Over, Column
<1>2. Least(end - start, EstimateTime) \in Int
  BY Constants DEF Least
<1> DEFINE product == TotalIn("measured", span) * Least(end - start, EstimateTime)
<1>3. product \in Int
  BY <1>1, <1>2
<1>4. Estimate(start, end) = IF TotalIn("sampled", span) = 0 THEN -1 ELSE product \div TotalIn("sampled", span)
  BY DEF Estimate, None
<1> HIDE DEF product, span
<1> QED
  BY <1>1, <1>3, <1>4

LEMMA GapBooks ==
    ASSUME TypeOK, CursorSound, cursor.sampledAt # None, Baseline < now
    PROVE  /\ GapAmounts(now - Baseline) \in [Fields -> Nat]
           /\ GapAmounts(now - Baseline)["measured"] = 0
           /\ GapAmounts(now - Baseline)["unknown"] <= now - Baseline
           /\ GapAmounts(now - Baseline)["sampled"] <= now - Baseline
<1> DEFINE elapsed  == now - Baseline
           estimate == Estimate(Baseline, now)
           unknown  == IF estimate = None THEN elapsed ELSE BeyondEstimate(elapsed)
           sampled  == Least(elapsed, EstimateTime)
<1>1. Baseline \in Int /\ now \in Int
  BY TypedCursor, TypedClocks DEF Times
<1>2. elapsed \in Nat /\ estimate \in Int
  BY <1>1, EstimateIsInt
<1> HIDE DEF elapsed, estimate
<1>3. Most(0, estimate) \in Nat
  BY <1>2 DEF Most
<1>4. unknown \in 0..elapsed
  BY <1>2, Constants DEF BeyondEstimate, Most
<1>5. sampled \in 0..elapsed
  BY <1>2, Constants DEF Least
<1>6. GapAmounts(elapsed) = [measured |-> 0, estimated |-> Most(0, estimate),
                             unknown |-> unknown, sampled |-> sampled]
  BY DEF GapAmounts, estimate
<1> HIDE DEF unknown, sampled
<1>7. GapAmounts(elapsed) \in [Fields -> Nat]
  BY <1>2, <1>3, <1>4, <1>5, <1>6, AmountsAre
<1>8. /\ GapAmounts(elapsed)["measured"] = 0
      /\ GapAmounts(elapsed)["unknown"] <= elapsed
      /\ GapAmounts(elapsed)["sampled"] <= elapsed
  BY <1>2, <1>4, <1>5, <1>6
<1> QED
  BY <1>7, <1>8 DEF elapsed

LEMMA MeasuredBooks ==
    ASSUME TypeOK, CursorSound, cursor.sampledAt # None, Baseline < now, NEW amount \in Nat
    PROVE  /\ MeasuredAmounts(amount, now - Baseline) \in [Fields -> Nat]
           /\ MeasuredAmounts(amount, now - Baseline)["measured"] <= amount
           /\ amount <= Ceiling * (now - Baseline) =>
                MeasuredAmounts(amount, now - Baseline)["measured"] = amount
           /\ MeasuredAmounts(amount, now - Baseline)["unknown"] <= now - Baseline
           /\ MeasuredAmounts(amount, now - Baseline)["sampled"] <= now - Baseline
<1> DEFINE elapsed   == now - Baseline
           plausible == amount <= Ceiling * elapsed
           estimate  == IF plausible THEN 0 ELSE Estimate(Baseline, now)
           measured  == IF plausible THEN amount ELSE 0
           unknown   == IF estimate = None THEN elapsed ELSE 0
<1>1. Baseline \in Int /\ now \in Int
  BY TypedCursor, TypedClocks DEF Times
<1>2. elapsed \in Nat /\ estimate \in Int
  BY <1>1, EstimateIsInt
<1>3. MeasuredAmounts(amount, elapsed) = [measured |-> measured, estimated |-> Most(0, estimate),
                                          unknown |-> unknown, sampled |-> elapsed]
  BY DEF MeasuredAmounts
<1> HIDE DEF elapsed, estimate
<1>4. Most(0, estimate) \in Nat /\ unknown \in 0..elapsed
  BY <1>2 DEF Most
<1>5. measured \in 0..amount /\ (plausible => measured = amount)
  OBVIOUS
<1> HIDE DEF measured, unknown, plausible
<1>6. MeasuredAmounts(amount, elapsed) \in [Fields -> Nat]
  BY <1>2, <1>3, <1>4, <1>5, AmountsAre
<1>7. /\ MeasuredAmounts(amount, elapsed)["measured"] <= amount
      /\ plausible => MeasuredAmounts(amount, elapsed)["measured"] = amount
      /\ MeasuredAmounts(amount, elapsed)["unknown"] <= elapsed
      /\ MeasuredAmounts(amount, elapsed)["sampled"] <= elapsed
  BY <1>2, <1>3, <1>4, <1>5
<1> QED
  BY <1>6, <1>7 DEF elapsed, plausible

\* The rows after a sample that accounts for the time since the baseline.
Rebooked(amounts) == Pruned(Booked(Cleared(traffic, Baseline, now), Baseline, now, amounts))

LEMMA RebookedOver ==
    ASSUME TypeOK, CursorSound, cursor.sampledAt # None, NEW amounts,
           Baseline < now => /\ amounts \in [Fields -> Nat]
                             /\ amounts["unknown"] <= now - Baseline
                             /\ amounts["sampled"] <= now - Baseline
    PROVE  /\ Rebooked(amounts) \in Rows
           /\ Over(Rebooked(amounts), "measured", Minutes)
                <= Over(traffic, "measured", Minutes) + (IF Baseline < now THEN amounts["measured"] ELSE 0)
           /\ Minute(now - KeptTime) <= 0 =>
                Over(Rebooked(amounts), "measured", Minutes)
                  = Over(traffic, "measured", Minutes) + (IF Baseline < now THEN amounts["measured"] ELSE 0)
           /\ Over(Rebooked(amounts), "sampled", Minutes)
                <= Over(traffic, "sampled", Minutes) + Most(0, now - Baseline)
           /\ Over(Rebooked(amounts), "unknown", Minutes)
                <= Over(traffic, "unknown", Outside(Baseline, now)) + Most(0, now - Baseline)
<1> DEFINE cleared == Cleared(traffic, Baseline, now)
           booked  == Booked(cleared, Baseline, now, amounts)
           more(f) == IF Baseline < now THEN amounts[f] ELSE 0
<1>1. /\ now \in Times /\ now \in Int /\ Baseline \in Times /\ Baseline \in Int
      /\ traffic \in Rows /\ Minutes \in SUBSET Minutes
      /\ "measured" \in Fields /\ "sampled" \in Fields /\ "unknown" \in Fields
  BY TypedClocks, TypedCursor, RowsTyped, FieldsAre DEF Times
<1>2. /\ cleared \in Rows
      /\ Over(cleared, "measured", Minutes) = Over(traffic, "measured", Minutes)
      /\ Over(cleared, "sampled", Minutes) = Over(traffic, "sampled", Minutes)
      /\ Over(cleared, "unknown", Minutes) = Over(traffic, "unknown", Outside(Baseline, now))
  BY <1>1, ClearedOver DEF Outside
<1>3. /\ booked \in Rows
      /\ \A f \in Fields : /\ more(f) \in Nat
                           /\ Over(booked, f, Minutes) = Over(cleared, f, Minutes) + more(f)
  <2>1. CASE Baseline < now
    <3>1. amounts \in [Fields -> Nat]
      BY <2>1
    <3> HIDE DEF cleared
    <3>2. booked \in Rows
      BY <1>1, <1>2, <2>1, <3>1, BookedOver
    <3>3. \A f \in Fields : /\ amounts[f] \in Nat
                            /\ Over(booked, f, Minutes) = Over(cleared, f, Minutes) + amounts[f]
      BY <1>1, <1>2, <2>1, <3>1, BookedBetween
    <3> QED
      BY <2>1, <3>2, <3>3
  <2>2. CASE ~(Baseline < now)
    <3> HIDE DEF cleared
    <3>1. booked = cleared
      BY <1>2, <2>2, BookedNothing
    <3>2. \A f \in Fields : Over(cleared, f, Minutes) \in Nat
      BY <1>1, <1>2, OverIsNat
    <3> QED
      BY <1>2, <2>2, <3>1, <3>2
  <2> QED
    BY <2>1, <2>2
<1>4. /\ Rebooked(amounts) \in Rows
      /\ \A f \in Fields : /\ Over(Rebooked(amounts), f, Minutes) <= Over(booked, f, Minutes)
                           /\ Minute(now - KeptTime) <= 0 =>
                                Over(Rebooked(amounts), f, Minutes) = Over(booked, f, Minutes)
  <2>1. Minute(now - KeptTime) <= 0 => \A m \in Minutes : ~(m < Minute(now - KeptTime))
    <3>1. Minute(now - KeptTime) \in Int /\ \A m \in Minutes : m \in Nat
      <4>1. now - KeptTime \in Int
        BY <1>1, Constants
      <4> QED
        BY <4>1, MinuteHolds, MinutesAreFinite
    <3> QED
      BY <3>1
  <2> HIDE DEF booked
  <2> QED
    BY <1>1, <1>3, <2>1, PrunedOver DEF Rebooked, booked
<1>5. \A f \in Fields : Over(Rebooked(amounts), f, Minutes) \in Nat /\ Over(booked, f, Minutes) \in Nat
                          /\ Over(cleared, f, Minutes) \in Nat
  <2> HIDE DEF booked, cleared
  <2> QED
    BY <1>1, <1>2, <1>3, <1>4, OverIsNat
<1>6. more("sampled") <= Most(0, now - Baseline) /\ more("unknown") <= Most(0, now - Baseline)
  <2>1. CASE Baseline < now
    <3>1. Most(0, now - Baseline) = now - Baseline
      BY <1>1, <2>1 DEF Most
    <3> QED
      BY <2>1, <3>1
  <2>2. CASE ~(Baseline < now)
    <3>1. 0 <= Most(0, now - Baseline)
      BY <1>1 DEF Most
    <3> QED
      BY <2>2, <3>1
  <2> QED
    BY <2>1, <2>2
<1>7. Most(0, now - Baseline) \in Int
  BY <1>1 DEF Most
<1> HIDE DEF booked, cleared
<1>8. /\ Over(Rebooked(amounts), "measured", Minutes) <= Over(traffic, "measured", Minutes) + more("measured")
      /\ Minute(now - KeptTime) <= 0 =>
           Over(Rebooked(amounts), "measured", Minutes) = Over(traffic, "measured", Minutes) + more("measured")
  BY <1>1, <1>2, <1>3, <1>4, <1>5
<1>9. /\ more("sampled") \in Nat /\ more("unknown") \in Nat
      /\ Over(Rebooked(amounts), "sampled", Minutes) <= Over(traffic, "sampled", Minutes) + more("sampled")
      /\ Over(Rebooked(amounts), "unknown", Minutes)
           <= Over(traffic, "unknown", Outside(Baseline, now)) + more("unknown")
      /\ Over(traffic, "sampled", Minutes) \in Nat /\ Over(traffic, "unknown", Outside(Baseline, now)) \in Nat
      /\ Over(Rebooked(amounts), "sampled", Minutes) \in Nat /\ Over(Rebooked(amounts), "unknown", Minutes) \in Nat
  BY <1>1, <1>2, <1>3, <1>4, <1>5
<1>10. /\ Over(Rebooked(amounts), "sampled", Minutes)
            <= Over(traffic, "sampled", Minutes) + Most(0, now - Baseline)
       /\ Over(Rebooked(amounts), "unknown", Minutes)
            <= Over(traffic, "unknown", Outside(Baseline, now)) + Most(0, now - Baseline)
  <2> HIDE DEF more
  <2> QED
    BY <1>6, <1>7, <1>9
<1> QED
  BY <1>4, <1>8, <1>10

\* The rows after a sample without the interface.
Missed == Pruned(Booked(traffic, cursor.sampledAt, now, [EmptyRow EXCEPT !.unknown = GapTime]))

LEMMA MissedOver ==
    ASSUME TypeOK, CursorSound, cursor.sampledAt # None
    PROVE  /\ Missed \in Rows
           /\ \A f \in Fields \ {"unknown"} :
                 /\ Over(Missed, f, Minutes) <= Over(traffic, f, Minutes)
                 /\ Minute(now - KeptTime) <= 0 => Over(Missed, f, Minutes) = Over(traffic, f, Minutes)
           /\ \A T \in SUBSET Minutes :
                 LET more == IF cursor.sampledAt < now
                             THEN SumFunctionOnSet(Given(GapTime, cursor.sampledAt, now), T)
                             ELSE 0
                 IN  /\ Over(Missed, "unknown", T) <= Over(traffic, "unknown", T) + more
                     /\ (\A m \in T : ~(m < Minute(now - KeptTime))) =>
                          Over(Missed, "unknown", T) = Over(traffic, "unknown", T) + more
                     /\ more \in 0..Most(0, GapTime)
<1> DEFINE s == cursor.sampledAt
           amounts == [EmptyRow EXCEPT !.unknown = GapTime]
           booked  == Booked(traffic, s, now, amounts)
           more(T) == IF s < now THEN SumFunctionOnSet(Given(GapTime, s, now), T) ELSE 0
<1>1. /\ now \in Times /\ now \in Int /\ s \in Times /\ s \in Int /\ GapTime = now - s
      /\ traffic \in Rows /\ Minutes \in SUBSET Minutes
      /\ "measured" \in Fields /\ "sampled" \in Fields /\ "unknown" \in Fields
  BY TypedClocks, TypedCursor, RowsTyped, FieldsAre DEF Times, GapTime
<1>2. s < now => /\ amounts \in [Fields -> Nat] /\ amounts["unknown"] = GapTime /\ GapTime \in Nat
                 /\ \A f \in Fields \ {"unknown"} : amounts[f] = 0
  <2> SUFFICES ASSUME s < now
               PROVE  /\ amounts \in [Fields -> Nat] /\ amounts["unknown"] = GapTime /\ GapTime \in Nat
                      /\ \A f \in Fields \ {"unknown"} : amounts[f] = 0
    OBVIOUS
  <2>1. GapTime \in Nat
    BY <1>1
  <2>2. amounts = [measured |-> 0, estimated |-> 0, unknown |-> GapTime, sampled |-> 0]
    BY DEF EmptyRow
  <2> HIDE DEF amounts
  <2>3. amounts \in [Fields -> Nat]
    BY <2>1, <2>2, AmountsAre
  <2> QED
    BY <2>1, <2>2, <2>3, FieldsAre
<1> HIDE DEF amounts
<1>3. booked \in Rows
  <2>1. CASE s < now
    BY <1>1, <1>2, <2>1, BookedOver
  <2>2. CASE ~(s < now)
    BY <1>1, <2>2, BookedNothing
  <2> QED
    BY <2>1, <2>2
<1>4. \A f \in Fields \ {"unknown"} : Over(booked, f, Minutes) = Over(traffic, f, Minutes)
  <2>1. CASE s < now
    <3>1. \A f \in Fields : /\ Over(booked, f, Minutes) = Over(traffic, f, Minutes) + amounts[f]
                            /\ Over(traffic, f, Minutes) \in Nat
      BY <1>1, <1>2, <2>1, BookedBetween
    <3> HIDE DEF booked
    <3> QED
      BY <1>2, <2>1, <3>1
  <2>2. CASE ~(s < now)
    BY <1>1, <2>2, BookedNothing
  <2> QED
    BY <2>1, <2>2
<1>5. \A T \in SUBSET Minutes : /\ Over(booked, "unknown", T) = Over(traffic, "unknown", T) + more(T)
                                /\ more(T) \in 0..Most(0, GapTime)
  <2>1. CASE s < now
    <3>1. GapTime \in Nat /\ Most(0, GapTime) = GapTime
      BY <1>2, <2>1 DEF Most
    <3>2. \A T \in SUBSET Minutes :
             Over(booked, "unknown", T)
               = Over(traffic, "unknown", T) + SumFunctionOnSet(Given(amounts["unknown"], s, now), T)
      BY <1>1, <1>2, <2>1, BookedOver
    <3>3. \A T \in SUBSET Minutes : SumFunctionOnSet(Given(GapTime, s, now), T) \in 0..GapTime
      BY <1>1, <2>1, <3>1, GivenAddsUp
    <3> HIDE DEF booked, s
    <3> QED
      BY <1>2, <2>1, <3>1, <3>2, <3>3
  <2>2. CASE ~(s < now)
    <3>1. booked = traffic
      BY <1>1, <2>2, BookedNothing
    <3>2. \A T \in SUBSET Minutes : Over(traffic, "unknown", T) \in Nat
      BY <1>1, OverIsNat
    <3>3. Most(0, GapTime) \in Nat
      BY <1>1 DEF Most
    <3> HIDE DEF booked, s
    <3> QED
      BY <2>2, <3>1, <3>2, <3>3
  <2> QED
    BY <2>1, <2>2
<1>6. /\ Missed \in Rows
      /\ \A f \in Fields, T \in SUBSET Minutes :
            /\ Over(Missed, f, T) <= Over(booked, f, T)
            /\ (\A m \in T : ~(m < Minute(now - KeptTime))) => Over(Missed, f, T) = Over(booked, f, T)
  <2> HIDE DEF booked
  <2> QED
    BY <1>3, PrunedOver DEF Missed, booked, amounts
<1>7. Minute(now - KeptTime) <= 0 => \A m \in Minutes : ~(m < Minute(now - KeptTime))
  <2>1. Minute(now - KeptTime) \in Int /\ \A m \in Minutes : m \in Nat
    <3>1. now - KeptTime \in Int
      BY <1>1, Constants
    <3> QED
      BY <3>1, MinuteHolds, MinutesAreFinite
  <2> QED
    BY <2>1
<1> HIDE DEF booked
<1>8. \A f \in Fields \ {"unknown"} :
         /\ Over(Missed, f, Minutes) <= Over(traffic, f, Minutes)
         /\ Minute(now - KeptTime) <= 0 => Over(Missed, f, Minutes) = Over(traffic, f, Minutes)
  BY <1>1, <1>4, <1>6, <1>7
<1>9. \A T \in SUBSET Minutes :
         /\ Over(Missed, "unknown", T) <= Over(traffic, "unknown", T) + more(T)
         /\ (\A m \in T : ~(m < Minute(now - KeptTime))) =>
              Over(Missed, "unknown", T) = Over(traffic, "unknown", T) + more(T)
         /\ more(T) \in 0..Most(0, GapTime)
  <2> HIDE DEF more
  <2> QED
    BY <1>1, <1>5, <1>6
<1> QED
  BY <1>6, <1>8, <1>9

\* An account without a cursor gets its first; it has no rows yet.
FirstShape ==
    /\ cursor = NoCursor
    /\ cursor' = MissingCursor \/ \E i \in Interfaces : cursor' = CursorAt(i)
    /\ traffic' = Pruned(traffic)

MissingShape ==
    /\ cursor # NoCursor
    /\ cursor' = MissingCursor
    /\ traffic' = Missed

\* What the history takes from an answer that shows interface i alone.
HeardOf(i) ==
    \/ carried = None /\ carried' = 0 /\ reading' = ReadingAt(i, 0)
    \/ /\ carried # None /\ carried' = carried
       /\ reading' = IF reading.line = i /\ Believable THEN ReadingAt(i, carried) ELSE NoReading

LEMMA SampleHears ==
    ASSUME Sample
    PROVE  \/ /\ cursor' = MissingCursor /\ UNCHANGED history
              /\ FirstShape \/ MissingShape
           \/ \E i \in Interfaces :
                 /\ cursor' = CursorAt(i) /\ HeardOf(i)
                 /\ FirstShape \/ ResetSample(i) \/ MeasuredSample(i)
<1>1. PICK live \in SUBSET Live :
          /\ \/ FirstSample(live)
             \/ MissingSample(live)
             \/ /\ Cardinality(live) = 1
                /\ \E i \in live : ResetSample(i) \/ MeasuredSample(i)
          /\ Heard(live)
  BY DEF Sample
<1>2. CASE Cardinality(live) # 1
  <2>1. UNCHANGED history
    <3>1. \A i : Cardinality({i}) = 1
      BY FS_Singleton
    <3> QED
      BY <1>1, <1>2, <3>1 DEF Heard
  <2>2. CASE FirstSample(live)
    BY <1>2, <2>1, <2>2 DEF FirstSample, FirstShape
  <2>3. CASE MissingSample(live)
    BY <2>1, <2>3 DEF MissingSample, MissingShape, Missed
  <2> QED
    BY <1>1, <1>2, <2>2, <2>3
<1>3. CASE Cardinality(live) = 1
  <2>1. PICK i \in live : live = {i} /\ HeardOf(i)
    BY <1>1, <1>3 DEF Heard, HeardOf
  <2>2. i \in Interfaces
    BY <1>1, <2>1 DEF Live
  <2>3. CASE FirstSample(live)
    <3>1. (CHOOSE j \in live : TRUE) = i
      BY <2>1
    <3>2. cursor' = CursorAt(i) /\ cursor = NoCursor /\ traffic' = Pruned(traffic)
      BY <1>3, <2>3, <3>1 DEF FirstSample
    <3> QED
      BY <2>1, <2>2, <3>2 DEF FirstShape
  <2>4. ~MissingSample(live)
    BY <1>3 DEF MissingSample
  <2>5. CASE \E j \in live : ResetSample(j) \/ MeasuredSample(j)
    <3>1. ResetSample(i) \/ MeasuredSample(i)
      BY <2>1, <2>5
    <3>2. cursor' = CursorAt(i)
      BY <3>1 DEF ResetSample, MeasuredSample
    <3> QED
      BY <2>1, <2>2, <3>1, <3>2
  <2> QED
    BY <1>1, <2>3, <2>4, <2>5
<1> QED
  BY <1>2, <1>3

LEMMA SampleShapes ==
    ASSUME TypeOK, CursorSound, Sample
    PROVE  /\ cursor.sampledAt # now
           /\ carried' = IF carried = None /\ cursor'.index # None THEN 0 ELSE carried
           /\ UNCHANGED <<clocks, router, listed, events>>
           /\ \/ FirstShape
              \/ MissingShape
              \/ \E i \in Interfaces : ResetSample(i)
              \/ \E i \in Interfaces : MeasuredSample(i)
<1>1. cursor.sampledAt # now /\ UNCHANGED <<clocks, router, listed, events>>
  BY DEF Sample
<1>2. CASE /\ cursor' = MissingCursor /\ UNCHANGED history
           /\ FirstShape \/ MissingShape
  <2>1. cursor'.index = cursor.index
    BY <1>2 DEF MissingCursor, TypeOK
  <2>2. carried' = carried /\ (carried = None => cursor.index = None)
    BY <1>2 DEF history, CursorSound
  <2> QED
    BY <1>1, <1>2, <2>1, <2>2
<1>3. ASSUME NEW i \in Interfaces, cursor' = CursorAt(i), HeardOf(i),
             FirstShape \/ ResetSample(i) \/ MeasuredSample(i)
      PROVE  /\ carried' = IF carried = None /\ cursor'.index # None THEN 0 ELSE carried
             /\ \/ FirstShape
                \/ \E j \in Interfaces : ResetSample(j)
                \/ \E j \in Interfaces : MeasuredSample(j)
  <2>1. cursor'.index # None
    BY <1>3, Constants DEF CursorAt
  <2>2. carried' = IF carried = None THEN 0 ELSE carried
    BY <1>3 DEF HeardOf
  <2> QED
    BY <1>3, <2>1, <2>2
<1> QED
  BY <1>1, <1>2, <1>3, SampleHears

\* What a sample of an interface does to the cursor and the rows.
LEMMA ResetIs ==
    ASSUME TypeOK, CursorSound, NEW i \in Interfaces, ResetSample(i)
    PROVE  /\ cursor.sampledAt # None /\ cursor' = CursorAt(i)
           /\ traffic' = Rebooked(GapAmounts(now - Baseline))
BY TypedCursor DEF ResetSample, Rebooked

LEMMA MeasuredIs ==
    ASSUME TypeOK, CursorSound, NEW i \in Interfaces, MeasuredSample(i)
    PROVE  /\ cursor.sampledAt # None /\ cursor' = CursorAt(i)
           /\ cursor.index = i /\ port[i].octets - cursor.octets \in Nat
           /\ port[i].octets \in Nat /\ cursor.octets \in Nat
           /\ traffic' = Rebooked(MeasuredAmounts(port[i].octets - cursor.octets, now - Baseline))
<1>1. /\ cursor.index = i /\ ~(port[i].octets < cursor.octets)
  BY DEF MeasuredSample, CounterReset
<1>2. cursor.index # None
  BY <1>1, Constants
<1>3. port[i].octets \in 0..MaxOctets /\ cursor.octets \in 0..MaxOctets
  <2>1. port[i] \in [state : {"absent", "down", "up"}, octets : 0..MaxOctets, discontinuity : 0..MaxEvents]
    BY DEF TypeOK
  <2> QED
    BY <1>2, <2>1, TypedCursor
<1>4. port[i].octets - cursor.octets \in Nat /\ port[i].octets \in Nat /\ cursor.octets \in Nat
  BY <1>1, <1>3, Constants
<1>5. cursor # NoCursor
  BY DEF MeasuredSample
<1> QED
  BY <1>1, <1>4, <1>5, TypedCursor DEF MeasuredSample, Rebooked

LEMMA TypedPort ==
    ASSUME TypeOK, NEW i \in Interfaces
    PROVE  /\ port[i] \in [state : {"absent", "down", "up"}, octets : 0..MaxOctets,
                           discontinuity : 0..MaxEvents]
           /\ port[i].octets \in 0..MaxOctets /\ port[i].discontinuity \in 0..MaxEvents
           /\ port[i].octets \in Nat /\ port[i].discontinuity \in Nat
<1>1. port[i] \in [state : {"absent", "down", "up"}, octets : 0..MaxOctets,
                   discontinuity : 0..MaxEvents]
  BY DEF TypeOK
<1> QED
  BY <1>1, Constants

\* The events of the router change counters only to begin at zero.
LEMMA RouterEventIs ==
    ASSUME TypeOK, ClocksSound, RouterEvent
    PROVE  /\ port' \in [Interfaces -> [state : {"absent", "down", "up"}, octets : 0..MaxOctets,
                                        discontinuity : 0..MaxEvents]]
           /\ \A i \in Interfaces : /\ port'[i].octets \in {0, port[i].octets}
                                    /\ port'[i].discontinuity <= events'
           /\ booted' \in {booted, real} /\ events' \in 0..MaxEvents
<1> DEFINE Port == [state : {"absent", "down", "up"}, octets : 0..MaxOctets,
                    discontinuity : 0..MaxEvents]
           Sound(i) == /\ port'[i] \in Port /\ port'[i].octets \in {0, port[i].octets}
                       /\ port'[i].discontinuity <= events'
<1>1. events \in Nat /\ events' = events + 1 /\ events' \in 0..MaxEvents
  BY Constants DEF TypeOK, RouterEvent
<1>2. \A i \in Interfaces : /\ port[i] \in Port /\ port[i].octets \in 0..MaxOctets
                            /\ port[i].discontinuity \in 0..MaxEvents
                            /\ port[i].discontinuity <= events
  BY TypedPort DEF ClocksSound
<1>3. port \in [Interfaces -> Port] /\ 0 \in 0..MaxOctets
  BY Constants DEF TypeOK
<1> SUFFICES /\ port' \in [Interfaces -> Port] /\ \A i \in Interfaces : Sound(i)
             /\ booted' \in {booted, real}
  BY <1>1
<1>4. CASE \E i, j \in Interfaces : Reconnect(i, j)
  <2>1. PICK i \in Interfaces, j \in Interfaces : Reconnect(i, j)
    BY <1>4
  <2>2. PICK left \in {"absent", "down", "up"} :
            port' = [port EXCEPT ![i].state = left,
                                 ![j].state = "up",
                                 ![j].octets = IF port[j].state = "absent" THEN 0 ELSE @]
    BY <2>1 DEF Reconnect
  <2>3. i # j
    BY <2>1 DEF Reconnect
  <2>4. DOMAIN port' = Interfaces /\ port' = [k \in Interfaces |-> port'[k]]
    BY <1>3, <2>2
  <2>5. ASSUME NEW k \in Interfaces PROVE Sound(k)
    <3>1. CASE k = i
      <4>1. port'[k] = [port[k] EXCEPT !.state = left]
        BY <1>3, <2>2, <2>3, <3>1
      <4> QED
        BY <1>1, <1>2, <4>1
    <3>2. CASE k = j
      <4> DEFINE octets == IF port[k].state = "absent" THEN 0 ELSE port[k].octets
      <4>1. port'[k] = [port[k] EXCEPT !.state = "up", !.octets = octets]
        BY <1>3, <2>2, <2>3, <3>2
      <4>2. octets \in 0..MaxOctets /\ octets \in {0, port[k].octets}
        BY <1>2, <1>3
      <4>3. port[k] \in Port /\ port[k].discontinuity <= events' /\ port[k].discontinuity \in Int
        BY <1>1, <1>2
      <4> HIDE DEF octets
      <4> QED
        BY <4>1, <4>2, <4>3
    <3>3. CASE k # i /\ k # j
      <4>1. port'[k] = port[k]
        BY <1>3, <2>2, <3>3
      <4> QED
        BY <1>1, <1>2, <4>1
    <3> QED
      BY <3>1, <3>2, <3>3
  <2>6. booted' = booted
    BY <2>1 DEF Reconnect
  <2> QED
    BY <2>4, <2>5, <2>6
<1>5. CASE \E i \in Interfaces : Flap(i)
  <2>1. PICK i \in Interfaces : Flap(i)
    BY <1>5
  <2>2. port' = [port EXCEPT ![i].state = IF @ = "up" THEN "down" ELSE "up"] /\ booted' = booted
    BY <2>1 DEF Flap
  <2>3. port' = [k \in Interfaces |-> port'[k]]
    BY <1>3, <2>2
  <2>4. ASSUME NEW k \in Interfaces PROVE Sound(k)
    <3>1. CASE k = i
      <4>1. port'[k] = [port[k] EXCEPT !.state = IF @ = "up" THEN "down" ELSE "up"]
        BY <1>3, <2>2, <3>1
      <4> QED
        BY <1>1, <1>2, <4>1
    <3>2. CASE k # i
      <4>1. port'[k] = port[k]
        BY <1>3, <2>2, <3>2
      <4> QED
        BY <1>1, <1>2, <4>1
    <3> QED
      BY <3>1, <3>2
  <2> QED
    BY <2>2, <2>3, <2>4
<1>6. CASE \E i \in Interfaces : Restart(i)
  <2>1. PICK i \in Interfaces : Restart(i)
    BY <1>6
  <2>2. PICK told \in BOOLEAN :
            port' = [port EXCEPT ![i].octets = 0, ![i].discontinuity = IF told THEN @ + 1 ELSE @]
    BY <2>1 DEF Restart
  <2>3. port' = [k \in Interfaces |-> port'[k]]
    BY <1>3, <2>2
  <2>4. ASSUME NEW k \in Interfaces PROVE Sound(k)
    <3>1. CASE k = i
      <4> DEFINE mark == IF told THEN port[k].discontinuity + 1 ELSE port[k].discontinuity
      <4>1. port'[k] = [port[k] EXCEPT !.octets = 0, !.discontinuity = mark]
        BY <1>3, <2>2, <3>1
      <4>2. mark \in 0..MaxEvents /\ mark <= events'
        <5> DEFINE d == port[k].discontinuity
        <5>1. d \in Nat /\ d <= events /\ MaxEvents \in Nat
          BY <1>1, <1>2, Constants
        <5>2. events + 1 <= MaxEvents
          BY <1>1, Constants
        <5> HIDE DEF d
        <5>3. d + 1 \in 0..MaxEvents /\ d \in 0..MaxEvents /\ d + 1 <= events' /\ d <= events'
          BY <1>1, <5>1, <5>2
        <5> QED
          BY <5>3 DEF d
      <4> HIDE DEF mark
      <4> QED
        BY <1>1, <1>2, <1>3, <4>1, <4>2
    <3>2. CASE k # i
      <4>1. port'[k] = port[k]
        BY <1>3, <2>2, <3>2
      <4> QED
        BY <1>1, <1>2, <4>1
    <3> QED
      BY <3>1, <3>2
  <2>5. booted' = booted
    BY <2>1 DEF Restart
  <2> QED
    BY <2>3, <2>4, <2>5
<1>7. CASE Reboot
  <2>1. port' = [i \in Interfaces |-> [port[i] EXCEPT !.octets = 0]] /\ booted' = real
    BY <1>7 DEF Reboot
  <2>2. ASSUME NEW k \in Interfaces PROVE Sound(k)
    <3>1. port'[k] = [port[k] EXCEPT !.octets = 0]
      BY <2>1
    <3> QED
      BY <1>1, <1>2, <1>3, <3>1
  <2> QED
    BY <2>1, <2>2
<1> QED
  BY <1>4, <1>5, <1>6, <1>7 DEF RouterEvent

-----------------------------------------------------------------------------
(* The types.                                                              *)

Ports   == [Interfaces -> [state : {"absent", "down", "up"}, octets : 0..MaxOctets,
                           discontinuity : 0..MaxEvents]]
Cursors == [index : Interfaces \cup {None}, octets : 0..MaxOctets \cup {None},
            discontinuity : 0..MaxEvents \cup {None}, uptime : Times \cup {None},
            sampledAt : Times \cup {None}, baselineAt : Times \cup {None}, valid : BOOLEAN]

LEMMA NewCursors ==
    ASSUME TypeOK, ClocksSound
    PROVE  /\ \A i \in Interfaces : CursorAt(i) \in Cursors
           /\ MissingCursor \in Cursors
<1>1. Uptime \in Times
  BY Constants DEF TypeOK, ClocksSound, Uptime, Times
<1>2. \A i \in Interfaces : CursorAt(i) \in Cursors
  <2> SUFFICES ASSUME NEW i \in Interfaces PROVE CursorAt(i) \in Cursors
    OBVIOUS
  <2>1. /\ port[i].octets \in 0..MaxOctets \cup {None}
        /\ port[i].discontinuity \in 0..MaxEvents \cup {None}
        /\ now \in Times \cup {None} /\ Uptime \in Times \cup {None}
    BY <1>1, TypedPort, TypedClocks
  <2> QED
    BY <2>1 DEF CursorAt, Cursors
<1>3. MissingCursor \in Cursors
  <2>1. cursor \in Cursors /\ now \in Times \cup {None}
    BY TypedClocks DEF TypeOK, Cursors
  <2> QED
    BY <2>1 DEF MissingCursor, Cursors
<1> QED
  BY <1>2, <1>3

LEMMA SampledRows ==
    ASSUME TypeOK, CursorSound, Sample
    PROVE  traffic' \in Rows
<1>1. CASE FirstShape
  BY <1>1, RowsTyped, PrunedOver DEF FirstShape
<1>2. CASE MissingShape
  BY <1>2, TypedCursor, MissedOver DEF MissingShape
<1>3. ASSUME NEW i \in Interfaces, ResetSample(i) PROVE traffic' \in Rows
  BY <1>3, ResetIs, GapBooks, RebookedOver
<1>4. ASSUME NEW i \in Interfaces, MeasuredSample(i) PROVE traffic' \in Rows
  <2> DEFINE amounts == MeasuredAmounts(port[i].octets - cursor.octets, now - Baseline)
  <2>1. cursor.sampledAt # None /\ traffic' = Rebooked(amounts)
    BY <1>4, MeasuredIs
  <2>2. Baseline < now => /\ amounts \in [Fields -> Nat]
                          /\ amounts["unknown"] <= now - Baseline
                          /\ amounts["sampled"] <= now - Baseline
    BY <1>4, MeasuredIs, MeasuredBooks
  <2> HIDE DEF amounts
  <2> QED
    BY <2>1, <2>2, RebookedOver
<1> QED
  BY <1>1, <1>2, <1>3, <1>4, SampleShapes

LEMMA SampledCursor ==
    ASSUME TypeOK, CursorSound, Sample
    PROVE  \/ cursor' = MissingCursor
           \/ \E i \in Interfaces : cursor' = CursorAt(i)
<1>1. CASE FirstShape
  BY <1>1 DEF FirstShape
<1>2. CASE MissingShape
  BY <1>2 DEF MissingShape
<1>3. CASE \E i \in Interfaces : ResetSample(i)
  BY <1>3 DEF ResetSample
<1>4. CASE \E i \in Interfaces : MeasuredSample(i)
  BY <1>4 DEF MeasuredSample
<1> QED
  BY <1>1, <1>2, <1>3, <1>4, SampleShapes

Readings == [line : Interfaces, at : Times, bytes : Nat] \cup {NoReading}

LEMMA SampledHistory == ASSUME TypeOK, Sample PROVE reading' \in Readings
<1>1. /\ reading \in Readings /\ carried \in Nat \cup {None} /\ now \in Times
      /\ NoReading \in Readings
  BY DEF TypeOK, Readings
<1>2. \A i \in Interfaces, n \in Nat : ReadingAt(i, n) \in Readings
  BY <1>1 DEF ReadingAt, Readings
<1>3. CASE UNCHANGED history
  BY <1>1, <1>3 DEF history
<1>4. ASSUME NEW i \in Interfaces, HeardOf(i) PROVE reading' \in Readings
  <2>1. \/ reading' = ReadingAt(i, 0)
        \/ carried # None /\ reading' = ReadingAt(i, carried)
        \/ reading' = NoReading
    BY <1>4 DEF HeardOf
  <2>2. carried # None => carried \in Nat
    BY <1>1
  <2> QED
    BY <1>1, <1>2, <2>1, <2>2
<1> QED
  BY <1>3, <1>4, SampleHears

LEMMA TypeStep == ASSUME TypeOK, CursorSound, ClocksSound, [Next]_vars PROVE TypeOK'
<1>0. /\ now \in Times /\ real \in now..MaxTime /\ port \in Ports
      /\ booted \in Times /\ listed \in BOOLEAN /\ cursor \in Cursors /\ traffic \in Rows
      /\ carried \in Nat \cup {None} /\ reading \in Readings /\ events \in 0..MaxEvents
  BY DEF TypeOK, Ports, Cursors, Rows, Readings
<1> SUFFICES /\ now' \in Times /\ real' \in now'..MaxTime /\ port' \in Ports
             /\ booted' \in Times /\ listed' \in BOOLEAN /\ cursor' \in Cursors /\ traffic' \in Rows
             /\ carried' \in Nat \cup {None} /\ reading' \in Readings /\ events' \in 0..MaxEvents
  BY DEF TypeOK, Ports, Cursors, Rows, Readings
<1>1. CASE Sample
  <2>1. cursor' \in Cursors
    BY <1>1, SampledCursor, NewCursors
  <2>2. traffic' \in Rows /\ reading' \in Readings
    BY <1>1, SampledRows, SampledHistory
  <2>3. carried' \in Nat \cup {None} /\ UNCHANGED <<clocks, router, listed, events>>
    BY <1>0, <1>1, SampleShapes
  <2> QED
    BY <1>0, <2>1, <2>2, <2>3 DEF clocks, router
<1>2. CASE SampleOthers
  <2>1. traffic' \in Rows
    BY <1>2, RowsTyped, PrunedOver DEF SampleOthers
  <2> QED
    BY <1>0, <1>2, <2>1 DEF SampleOthers, clocks, router, history
<1>3. CASE ImportAccounts
  BY <1>0, <1>3, Constants DEF ImportAccounts, clocks, router, tables, history
<1>4. ASSUME NEW i \in Interfaces, Carry(i)
      PROVE  /\ port' \in Ports /\ carried' \in Nat \cup {None} /\ reading' \in Readings
             /\ UNCHANGED <<clocks, booted, listed, tables, events>>
  <2>1. port[i].octets + 1 \in 0..MaxOctets
    BY <1>4, TypedPort, Constants DEF Carry
  <2>2. port' \in Ports
    BY <1>0, <1>4, <2>1 DEF Carry, Ports
  <2>3. carried' \in Nat \cup {None} /\ reading' \in Readings
    BY <1>0, <1>4 DEF Carry, Readings
  <2> QED
    BY <1>4, <2>2, <2>3 DEF Carry
<1>5. CASE RouterEvent
  <2>1. port' \in Ports /\ booted' \in Times /\ events' \in 0..MaxEvents
    <3>1. real \in Times
      BY TypedClocks
    <3> QED
      BY <1>0, <1>5, <3>1, RouterEventIs DEF Ports
  <2>2. reading' \in Readings /\ UNCHANGED <<clocks, listed, tables, carried>>
    BY <1>0, <1>5 DEF RouterEvent, Readings
  <2> QED
    BY <1>0, <2>1, <2>2 DEF clocks, tables
<1>6. CASE Tick
  <2>1. now' \in Times /\ real' \in now'..MaxTime
    BY <1>0, <1>6, Constants DEF Tick, Times
  <2> QED
    BY <1>0, <1>6, <2>1 DEF Tick, router, tables, history
<1>7. CASE SetBack
  <2>1. now' \in Times /\ real' \in now'..MaxTime /\ events' \in 0..MaxEvents
    <3>1. cursor.sampledAt \in Int /\ cursor.sampledAt <= real /\ cursor.sampledAt \in Times \cup {None}
      BY TypedCursor DEF ClocksSound
    <3>2. now' \in 0..(cursor.sampledAt - 1) /\ real' = real /\ events' = events + 1 /\ events < MaxEvents
      BY <1>7 DEF SetBack
    <3> QED
      BY <1>0, <3>1, <3>2, Constants DEF Times
  <2> QED
    BY <1>0, <1>7, <2>1 DEF SetBack, router, tables, history
<1>8. CASE UNCHANGED vars
  BY <1>0, <1>8 DEF vars, clocks, router, tables, history
<1> QED
  BY <1>0, <1>1, <1>2, <1>3, <1>4, <1>5, <1>6, <1>7, <1>8 DEF Next, Rest, clocks, tables

-----------------------------------------------------------------------------
(* The cursor and the clocks.                                              *)

LEMMA CursorFields ==
    ASSUME TypeOK
    PROVE  /\ MissingCursor.index = cursor.index /\ MissingCursor.octets = cursor.octets
           /\ MissingCursor.baselineAt = cursor.baselineAt
           /\ MissingCursor.discontinuity = cursor.discontinuity
           /\ MissingCursor.uptime = cursor.uptime
           /\ MissingCursor.sampledAt = now /\ MissingCursor.valid = FALSE
           /\ \A i \in Interfaces :
                 /\ CursorAt(i).index = i /\ CursorAt(i).octets = port[i].octets
                 /\ CursorAt(i).baselineAt = now /\ CursorAt(i).sampledAt = now
                 /\ CursorAt(i).valid = TRUE
                 /\ CursorAt(i).discontinuity = port[i].discontinuity
                 /\ CursorAt(i).uptime = Uptime
BY DEF TypeOK, MissingCursor, CursorAt

LEMMA CursorStep ==
    ASSUME TypeOK, CursorSound, ClocksSound, [Next]_vars PROVE CursorSound'
<1>0. now # None /\ \A i \in Interfaces : port[i].octets # None /\ i # None
  BY TypedClocks, TypedPort, Constants
<1>1. CASE Sample
  <2>0. carried' = IF carried = None /\ cursor'.index # None THEN 0 ELSE carried
    BY <1>1, SampleShapes
  <2>1. ASSUME cursor' = MissingCursor PROVE CursorSound'
    <3>1. /\ cursor'.index = cursor.index /\ cursor'.octets = cursor.octets
          /\ cursor'.baselineAt = cursor.baselineAt
          /\ cursor'.sampledAt = now /\ cursor'.valid = FALSE
      BY <2>1, CursorFields
    <3>2. 0 # None
      BY Constants
    <3> QED
      BY <1>0, <2>0, <3>1, <3>2 DEF CursorSound
  <2>2. ASSUME NEW i \in Interfaces, cursor' = CursorAt(i) PROVE CursorSound'
    <3>1. /\ cursor'.index = i /\ cursor'.octets = port[i].octets
          /\ cursor'.baselineAt = now /\ cursor'.sampledAt = now /\ cursor'.valid = TRUE
      BY <2>2, CursorFields
    <3>2. 0 # None
      BY Constants
    <3> QED
      BY <1>0, <2>0, <3>1, <3>2 DEF CursorSound
  <2> QED
    BY <1>1, <2>1, <2>2, SampledCursor
<1>2. CASE SampleOthers
  <2>1. ASSUME traffic = [m \in Minutes |-> EmptyRow] PROVE traffic' = [m \in Minutes |-> EmptyRow]
    <3>1. traffic' = Pruned(traffic)
      BY <1>2 DEF SampleOthers
    <3>2. \A m \in Minutes : traffic[m] = EmptyRow
      BY <2>1
    <3> QED
      BY <3>1, <3>2 DEF Pruned
  <2>2. cursor' = cursor /\ carried' = carried
    BY <1>2 DEF SampleOthers, history
  <2> QED
    BY <2>1, <2>2 DEF CursorSound
<1>3. ASSUME NEW i \in Interfaces, Carry(i) PROVE CursorSound'
  <2>1. /\ cursor' = cursor /\ traffic' = traffic
        /\ carried' = IF carried = None THEN None ELSE carried + 1
    BY <1>3 DEF Carry, tables
  <2>2. carried # None => carried + 1 # None
    BY Constants DEF TypeOK
  <2> QED
    BY <2>1, <2>2 DEF CursorSound
<1>4. CASE \/ ImportAccounts \/ RouterEvent \/ Tick \/ SetBack \/ UNCHANGED vars
  <2>1. cursor' = cursor /\ traffic' = traffic /\ carried' = carried
    BY <1>4 DEF ImportAccounts, RouterEvent, Tick, SetBack, vars, tables, history
  <2> QED
    BY <2>1 DEF CursorSound
<1> QED
  BY <1>1, <1>2, <1>3, <1>4 DEF Next, Rest

LEMMA ClocksStep ==
    ASSUME TypeOK, CursorSound, ClocksSound, [Next]_vars PROVE ClocksSound'
<1>0. /\ now <= real /\ now \in Int /\ real \in Int /\ cursor.sampledAt \in Int /\ booted \in Int
      /\ booted <= real /\ cursor.sampledAt <= real
      /\ \A i \in Interfaces : port[i].discontinuity <= events /\ port[i].discontinuity \in Nat
      /\ events \in Nat
  BY TypedClocks, TypedCursor, TypedPort, Constants DEF ClocksSound, TypeOK, Times
<1>1. CASE Sample
  <2>1. real' = real /\ booted' = booted /\ port' = port /\ events' = events
    BY <1>1, SampleShapes DEF clocks, router
  <2>2. cursor'.sampledAt = now
    BY <1>1, SampledCursor, CursorFields
  <2> QED
    BY <1>0, <2>1, <2>2 DEF ClocksSound
<1>2. ASSUME NEW i \in Interfaces, Carry(i) PROVE ClocksSound'
  <2>1. real' = real /\ booted' = booted /\ events' = events /\ cursor' = cursor
    BY <1>2 DEF Carry, clocks, tables
  <2>2. \A j \in Interfaces : port'[j].discontinuity = port[j].discontinuity
    <3>1. port' = [port EXCEPT ![i].octets = @ + 1]
      BY <1>2 DEF Carry
    <3>2. port \in Ports
      BY DEF TypeOK, Ports
    <3> QED
      BY <3>1, <3>2 DEF Ports
  <2> QED
    BY <1>0, <2>1, <2>2 DEF ClocksSound
<1>3. CASE RouterEvent
  <2>1. booted' \in {booted, real} /\ \A i \in Interfaces : port'[i].discontinuity <= events'
    BY <1>3, RouterEventIs
  <2>2. real' = real /\ cursor' = cursor
    BY <1>3 DEF RouterEvent, clocks, tables
  <2> QED
    BY <1>0, <2>1, <2>2 DEF ClocksSound
<1>4. CASE Tick \/ SetBack \/ ImportAccounts
  <2>1. /\ real' \in {real, real + 1} /\ booted' = booted /\ port' = port /\ cursor' = cursor
        /\ events' \in {events, events + 1}
    BY <1>4 DEF Tick, SetBack, ImportAccounts, router, tables, clocks
  <2>2. \A i \in Interfaces : port[i].discontinuity <= events'
    BY <1>0, <2>1
  <2> QED
    BY <1>0, <2>1, <2>2 DEF ClocksSound
<1>5. CASE SampleOthers \/ UNCHANGED vars
  <2>1. real' = real /\ booted' = booted /\ port' = port /\ cursor' = cursor /\ events' = events
    BY <1>5 DEF SampleOthers, router, clocks, tables, vars
  <2> QED
    BY <2>1 DEF ClocksSound
<1> QED
  BY <1>1, <1>2, <1>3, <1>4, <1>5 DEF Next, Rest

-----------------------------------------------------------------------------
(* The measured bytes.                                                     *)

\* A sample of an interface books something like amounts.
LEMMA SampleRebooks ==
    ASSUME TypeOK, CursorSound, NEW i \in Interfaces, ResetSample(i) \/ MeasuredSample(i)
    PROVE  /\ cursor.sampledAt # None /\ cursor' = CursorAt(i)
           /\ Over(traffic', "sampled", Minutes)
                <= Over(traffic, "sampled", Minutes) + Most(0, now - Baseline)
           /\ Over(traffic', "unknown", Minutes)
                <= Over(traffic, "unknown", Outside(Baseline, now)) + Most(0, now - Baseline)
<1>1. CASE ResetSample(i)
  <2> DEFINE amounts == GapAmounts(now - Baseline)
  <2>1. cursor.sampledAt # None /\ cursor' = CursorAt(i) /\ traffic' = Rebooked(amounts)
    BY <1>1, ResetIs
  <2>2. Baseline < now => /\ amounts \in [Fields -> Nat]
                          /\ amounts["unknown"] <= now - Baseline
                          /\ amounts["sampled"] <= now - Baseline
    BY <2>1, GapBooks
  <2> HIDE DEF amounts
  <2> QED
    BY <2>1, <2>2, RebookedOver
<1>2. CASE MeasuredSample(i)
  <2> DEFINE amounts == MeasuredAmounts(port[i].octets - cursor.octets, now - Baseline)
  <2>1. cursor.sampledAt # None /\ cursor' = CursorAt(i) /\ traffic' = Rebooked(amounts)
    BY <1>2, MeasuredIs
  <2>2. Baseline < now => /\ amounts \in [Fields -> Nat]
                          /\ amounts["unknown"] <= now - Baseline
                          /\ amounts["sampled"] <= now - Baseline
    BY <1>2, MeasuredIs, MeasuredBooks
  <2> HIDE DEF amounts
  <2> QED
    BY <2>1, <2>2, RebookedOver
<1> QED
  BY <1>1, <1>2

LEMMA ResetMeasures ==
    ASSUME TypeOK, CursorSound, NEW i \in Interfaces, ResetSample(i)
    PROVE  Over(traffic', "measured", Minutes) <= Over(traffic, "measured", Minutes)
<1> DEFINE amounts == GapAmounts(now - Baseline)
<1>1. cursor.sampledAt # None /\ traffic' = Rebooked(amounts)
  BY ResetIs
<1>2. Baseline < now => /\ amounts \in [Fields -> Nat] /\ amounts["measured"] = 0
                        /\ amounts["unknown"] <= now - Baseline
                        /\ amounts["sampled"] <= now - Baseline
  BY <1>1, GapBooks
<1> HIDE DEF amounts
<1>3. Over(traffic', "measured", Minutes) <= Over(traffic, "measured", Minutes) + 0
  BY <1>1, <1>2, RebookedOver
<1>4. Over(traffic, "measured", Minutes) \in Nat
  BY RowsTyped, OverIsNat, FieldsAre
<1> QED
  BY <1>3, <1>4

LEMMA SampleMeasures ==
    ASSUME TypeOK, CursorSound, NEW i \in Interfaces, MeasuredSample(i)
    PROVE  LET amount == port[i].octets - cursor.octets
           IN  /\ Over(traffic', "measured", Minutes) <= Over(traffic, "measured", Minutes) + amount
               /\ amount <= Ceiling * Most(0, now - Baseline) /\ Minute(now - KeptTime) <= 0 =>
                    Over(traffic', "measured", Minutes) = Over(traffic, "measured", Minutes) + amount
<1> DEFINE amount  == port[i].octets - cursor.octets
           amounts == MeasuredAmounts(amount, now - Baseline)
           more    == IF Baseline < now THEN amounts["measured"] ELSE 0
<1>1. cursor.sampledAt # None /\ traffic' = Rebooked(amounts) /\ amount \in Nat
  BY MeasuredIs
<1>2. Baseline < now => /\ amounts \in [Fields -> Nat]
                        /\ amounts["measured"] <= amount
                        /\ amount <= Ceiling * (now - Baseline) => amounts["measured"] = amount
                        /\ amounts["unknown"] <= now - Baseline
                        /\ amounts["sampled"] <= now - Baseline
  <2> HIDE DEF amount
  <2> QED
    BY <1>1, MeasuredBooks
<1>3. now \in Int /\ Baseline \in Int
  BY <1>1, TypedClocks, TypedCursor DEF Times
<1>4. /\ Baseline < now => Most(0, now - Baseline) = now - Baseline
      /\ ~(Baseline < now) => Ceiling * Most(0, now - Baseline) = 0
  <2>1. Ceiling \in Nat /\ Ceiling * 0 = 0
    BY Constants
  <2> QED
    BY <1>3, <2>1 DEF Most
<1> HIDE DEF amounts
<1>5. /\ more \in 0..amount
      /\ amount <= Ceiling * Most(0, now - Baseline) => more = amount
  <2>1. CASE Baseline < now
    <3>1. amounts["measured"] \in Nat
      BY <1>2, <2>1, FieldsAre
    <3>2. Most(0, now - Baseline) = now - Baseline
      BY <1>4, <2>1
    <3>3. amount <= Ceiling * Most(0, now - Baseline) => amounts["measured"] = amount
      BY <1>2, <2>1, <3>2
    <3>4. more = amounts["measured"] /\ amounts["measured"] <= amount
      BY <1>2, <2>1
    <3> HIDE DEF amount, more
    <3> QED
      BY <1>1, <3>1, <3>3, <3>4
  <2>2. CASE ~(Baseline < now)
    <3>1. more = 0 /\ Ceiling * Most(0, now - Baseline) = 0
      BY <1>4, <2>2
    <3> HIDE DEF amount, more
    <3> QED
      BY <1>1, <3>1
  <2> QED
    BY <2>1, <2>2
<1>6. /\ Over(traffic', "measured", Minutes) <= Over(traffic, "measured", Minutes) + more
      /\ Minute(now - KeptTime) <= 0 =>
           Over(traffic', "measured", Minutes) = Over(traffic, "measured", Minutes) + more
      /\ traffic' \in Rows
  BY <1>1, <1>2, RebookedOver
<1>7. Over(traffic, "measured", Minutes) \in Nat /\ Over(traffic', "measured", Minutes) \in Nat
  BY <1>6, RowsTyped, OverIsNat, FieldsAre
<1> HIDE DEF more, amount
<1>8. /\ Over(traffic', "measured", Minutes) <= Over(traffic, "measured", Minutes) + amount
      /\ amount <= Ceiling * Most(0, now - Baseline) /\ Minute(now - KeptTime) <= 0 =>
           Over(traffic', "measured", Minutes) = Over(traffic, "measured", Minutes) + amount
  BY <1>1, <1>5, <1>6, <1>7
<1> QED
  BY <1>8 DEF amount

LEMMA CountedFrom ==
    ASSUME TypeOK, CursorSound, cursor.index # None
    PROVE  /\ cursor.index \in Interfaces /\ cursor.octets \in Nat
           /\ port[cursor.index].octets \in Nat /\ carried \in Nat
<1>1. cursor.index \in Interfaces /\ cursor.octets \in 0..MaxOctets
  BY TypedCursor
<1>2. carried \in Nat
  BY DEF TypeOK, CursorSound
<1> QED
  BY <1>1, <1>2, TypedPort, Constants

LEMMA MeasuredStep ==
    ASSUME TypeOK, CursorSound, ClocksSound, MeasuredSound, [Next]_vars PROVE MeasuredSound'
<1> DEFINE M == Over(traffic, "measured", Minutes)
<1>0. traffic' \in Rows /\ M \in Nat /\ M' \in Nat
  <2>1. traffic' \in Rows
    BY TypeStep DEF TypeOK, Rows
  <2> QED
    BY <2>1, RowsTyped, OverIsNat, FieldsAre
<1>1. /\ M <= Most(0, carried) /\ carried \in Nat \cup {None} /\ None = -1
      /\ carried = None <=> cursor.index = None
      /\ cursor.index # None => M + port[cursor.index].octets - cursor.octets <= carried
  BY Constants DEF MeasuredSound, TypeOK, CursorSound
<1>2. \A i \in Interfaces : port[i].octets \in Nat /\ i # None
  BY TypedPort, Constants
<1>3. cursor.index # None => /\ cursor.index \in Interfaces /\ cursor.octets \in Nat
                             /\ port[cursor.index].octets \in Nat /\ carried \in Nat
  BY CountedFrom
<1> HIDE DEF M
<1> SUFFICES /\ M' <= Most(0, carried')
             /\ cursor'.index # None => M' + port'[cursor'.index].octets - cursor'.octets <= carried'
  BY DEF MeasuredSound, Most, M
<1>4. carried = None => M = 0
  BY <1>0, <1>1 DEF Most
<1>5. CASE Sample
  <2>0. port' = port /\ carried' = IF carried = None /\ cursor'.index # None THEN 0 ELSE carried
    BY <1>5, SampleShapes DEF router
  <2>1. ASSUME cursor' = MissingCursor, M' <= M
        PROVE  /\ M' <= Most(0, carried')
               /\ cursor'.index # None => M' + port'[cursor'.index].octets - cursor'.octets <= carried'
    <3>1. cursor'.index = cursor.index /\ cursor'.octets = cursor.octets /\ carried' = carried
      BY <1>1, <2>0, <2>1, CursorFields
    <3> QED
      BY <1>0, <1>1, <1>3, <2>0, <2>1, <3>1 DEF Most
  <2>2. ASSUME NEW i \in Interfaces, cursor' = CursorAt(i), M' <= M
        PROVE  /\ M' <= Most(0, carried')
               /\ cursor'.index # None => M' + port'[cursor'.index].octets - cursor'.octets <= carried'
    <3>1. cursor'.index = i /\ cursor'.octets = port[i].octets
      BY <2>2, CursorFields
    <3>2. carried' \in Nat /\ M' <= carried'
      BY <1>0, <1>1, <1>2, <1>4, <2>0, <2>2, <3>1 DEF Most
    <3> QED
      BY <1>0, <1>2, <2>0, <3>1, <3>2 DEF Most
  <2>3. CASE FirstShape
    <3>1. M' <= M
      BY <2>3, RowsTyped, PrunedOver, FieldsAre DEF FirstShape, M
    <3> QED
      BY <2>1, <2>2, <2>3, <3>1 DEF FirstShape
  <2>4. CASE MissingShape
    <3>1. M' <= M
      BY <2>4, TypedCursor, MissedOver, FieldsAre DEF MissingShape, M
    <3> QED
      BY <2>1, <2>4, <3>1 DEF MissingShape
  <2>5. ASSUME NEW i \in Interfaces, ResetSample(i)
        PROVE  /\ M' <= Most(0, carried')
               /\ cursor'.index # None => M' + port'[cursor'.index].octets - cursor'.octets <= carried'
    <3>1. M' <= M /\ cursor' = CursorAt(i)
      BY <2>5, ResetMeasures, ResetIs DEF M
    <3> QED
      BY <2>2, <3>1
  <2>6. ASSUME NEW i \in Interfaces, MeasuredSample(i)
        PROVE  /\ M' <= Most(0, carried')
               /\ cursor'.index # None => M' + port'[cursor'.index].octets - cursor'.octets <= carried'
    <3>1. /\ M' <= M + (port[i].octets - cursor.octets) /\ cursor' = CursorAt(i) /\ cursor.index = i
          /\ cursor.octets \in Nat
      BY <2>6, SampleMeasures, MeasuredIs DEF M
    <3>2. cursor'.index = i /\ cursor'.octets = port[i].octets
      BY <3>1, CursorFields
    <3>3. carried' = carried /\ carried \in Nat /\ M + port[i].octets - cursor.octets <= carried
      BY <1>1, <1>2, <1>3, <2>0, <3>1
    <3>4. M' <= carried'
      BY <1>0, <1>2, <3>1, <3>3
    <3> QED
      BY <1>0, <1>2, <2>0, <3>2, <3>3, <3>4 DEF Most
  <2> QED
    BY <1>5, <2>3, <2>4, <2>5, <2>6, SampleShapes
<1>6. CASE SampleOthers
  <2>1. port' = port /\ cursor' = cursor /\ carried' = carried
    BY <1>6 DEF SampleOthers, router, history
  <2>2. M' <= M
    BY <1>6, RowsTyped, PrunedOver, FieldsAre DEF SampleOthers, M
  <2> QED
    BY <1>0, <1>1, <1>3, <2>1, <2>2 DEF Most
<1>7. ASSUME NEW i \in Interfaces, Carry(i)
      PROVE  /\ M' <= Most(0, carried')
             /\ cursor'.index # None => M' + port'[cursor'.index].octets - cursor'.octets <= carried'
  <2>1. /\ M' = M /\ cursor' = cursor /\ carried' = IF carried = None THEN None ELSE carried + 1
    BY <1>7 DEF Carry, tables, M
  <2>2. \A j \in Interfaces : port'[j].octets \in {port[j].octets, port[j].octets + 1}
    <3>1. port' = [port EXCEPT ![i].octets = @ + 1] /\ port \in Ports
      BY <1>7 DEF Carry, TypeOK, Ports
    <3> QED
      BY <3>1 DEF Ports
  <2>3. M' <= Most(0, carried')
    BY <1>0, <1>1, <2>1 DEF Most
  <2>4. ASSUME cursor.index # None
        PROVE  M' + port'[cursor.index].octets - cursor.octets <= carried'
    <3>1. carried' = carried + 1
      BY <1>1, <2>1, <2>4
    <3>2. port'[cursor.index].octets \in {port[cursor.index].octets, port[cursor.index].octets + 1}
      BY <1>3, <2>2, <2>4
    <3> QED
      BY <1>0, <1>1, <1>3, <2>1, <2>4, <3>1, <3>2
  <2> QED
    BY <2>1, <2>3, <2>4
<1>8. CASE RouterEvent
  <2>1. M' = M /\ cursor' = cursor /\ carried' = carried
    BY <1>8 DEF RouterEvent, tables, M
  <2>2. \A j \in Interfaces : port'[j].octets \in {0, port[j].octets}
    BY <1>8, RouterEventIs
  <2>3. cursor.index # None => M' + port'[cursor.index].octets - cursor.octets <= carried'
    <3> SUFFICES ASSUME cursor.index # None
                 PROVE  M' + port'[cursor.index].octets - cursor.octets <= carried'
      OBVIOUS
    <3>1. port'[cursor.index].octets \in {0, port[cursor.index].octets}
      BY <1>3, <2>2
    <3> QED
      BY <1>0, <1>1, <1>3, <2>1, <3>1
  <2> QED
    BY <1>1, <2>1, <2>3
<1>9. CASE ImportAccounts \/ Tick \/ SetBack \/ UNCHANGED vars
  <2>1. M' = M /\ cursor' = cursor /\ carried' = carried /\ port' = port
    BY <1>9 DEF ImportAccounts, Tick, SetBack, vars, tables, history, router, M
  <2> QED
    BY <1>1, <2>1
<1> QED
  BY <1>5, <1>6, <1>7, <1>8, <1>9 DEF Next, Rest

\* As long as the first minute is kept, nothing is pruned.
LEMMA NothingPruned ==
    ASSUME TypeOK, Kept(0) PROVE Minute(now - KeptTime) <= 0
<1>1. Minute(0) = 0
  BY Constants DEF Minute
<1>2. now - KeptTime \in Int /\ real - KeptTime \in Int /\ now - KeptTime <= real - KeptTime
  BY TypedClocks, Constants
<1>3. Minute(now - KeptTime) <= Minute(real - KeptTime)
  BY <1>2, MinutesInOrder
<1>4. Minute(real - KeptTime) <= 0 /\ Minute(real - KeptTime) \in Int /\ Minute(now - KeptTime) \in Int
  BY <1>1, <1>2, MinuteHolds DEF Kept
<1> QED
  BY <1>3, <1>4

LEMMA KeptBefore ==
    ASSUME TypeOK, [Next]_vars, NEW t \in Int, Minute(real' - KeptTime) <= Minute(t)
    PROVE  Kept(t)
<1>1. real' \in {real, real + 1}
  BY DEF Next, Sample, SampleOthers, ImportAccounts, Carry, RouterEvent, Tick, SetBack, Rest,
                      vars, clocks
<1>2. real - KeptTime \in Int /\ real' - KeptTime \in Int /\ real - KeptTime <= real' - KeptTime
  BY <1>1, TypedClocks, Constants
<1>3. Minute(real - KeptTime) <= Minute(real' - KeptTime)
  BY <1>2, MinutesInOrder
<1>4. Minute(real - KeptTime) \in Int /\ Minute(real' - KeptTime) \in Int /\ Minute(t) \in Int
  BY <1>2, MinuteHolds
<1> QED
  BY <1>3, <1>4 DEF Kept

LEMMA TypedReading ==
    ASSUME TypeOK, CursorSound, ReadingSound, reading # NoReading
    PROVE  /\ reading.line \in Interfaces /\ reading.bytes \in Nat /\ carried \in Nat
           /\ cursor.index = reading.line /\ cursor.index # None /\ cursor # NoCursor
           /\ cursor.octets \in Nat /\ port[reading.line].octets \in Nat
           /\ Baseline = reading.at
<1>1. reading \in [line : Interfaces, at : Times, bytes : Nat]
  BY DEF TypeOK
<1>2. reading.line \in Interfaces /\ reading.at \in Times /\ reading.bytes \in Nat
  BY <1>1
<1>3. reading.line # None /\ reading.at # None
  BY <1>2, Constants DEF Times
<1>4. cursor.index = reading.line /\ cursor.baselineAt = reading.at
  BY DEF ReadingSound
<1>5. cursor # NoCursor
  BY <1>3, <1>4 DEF NoCursor
<1>6. cursor.octets \in Nat /\ port[reading.line].octets \in Nat /\ carried \in Nat
  BY <1>3, <1>4, CountedFrom
<1> QED
  BY <1>2, <1>3, <1>4, <1>5, <1>6 DEF Baseline

\* The next sample of an interface that counts on is not taken for a reset.
LEMMA NotRefused ==
    ASSUME TypeOK, CursorSound, ClocksSound, ReadingSound, NEW i \in Interfaces, reading.line = i
    PROVE  ~FirstShape /\ ~ResetSample(i)
<1>1. reading # NoReading
  BY Constants DEF NoReading
<1>2. /\ cursor.index = i /\ cursor # NoCursor
      /\ cursor.octets \in Nat /\ port[i].octets \in Nat
  BY <1>1, TypedReading
<1>3. /\ cursor.octets <= port[i].octets /\ cursor.discontinuity = port[i].discontinuity
      /\ cursor.uptime <= Uptime
  BY <1>1, <1>2 DEF ReadingSound
<1>4. ~CounterReset(i)
  BY <1>2, <1>3 DEF CounterReset
<1>5. cursor.uptime \in Int /\ Uptime \in Int
  BY Constants DEF TypeOK, Uptime, Times
<1>6. ~DeviceReset
  BY <1>3, <1>5 DEF DeviceReset
<1> QED
  BY <1>2, <1>4, <1>6 DEF FirstShape, ResetSample

LEMMA ReadingStep ==
    ASSUME TypeOK, CursorSound, ClocksSound, MeasuredSound, ReadingSound, [Next]_vars
    PROVE  ReadingSound'
<1> DEFINE M == Over(traffic, "measured", Minutes)
           Sound == /\ carried' # None
                    /\ cursor'.index = reading'.line /\ cursor'.baselineAt = reading'.at
                    /\ cursor'.octets <= port'[cursor'.index].octets
                    /\ reading'.bytes + port'[cursor'.index].octets - cursor'.octets = carried'
                    /\ cursor'.discontinuity = port'[cursor'.index].discontinuity
                    /\ cursor'.uptime <= Uptime'
                    /\ Kept(0)' => M' = reading'.bytes
<1>0. traffic' \in Rows /\ M \in Nat /\ M' \in Nat
  <2>1. traffic' \in Rows
    BY TypeStep DEF TypeOK, Rows
  <2> QED
    BY <2>1, RowsTyped, OverIsNat, FieldsAre
<1> SUFFICES ASSUME reading' # NoReading PROVE Sound
  BY DEF ReadingSound
<1>1. reading # NoReading =>
          /\ carried # None
          /\ cursor.index = reading.line /\ cursor.baselineAt = reading.at
          /\ cursor.octets <= port[cursor.index].octets
          /\ reading.bytes + port[cursor.index].octets - cursor.octets = carried
          /\ cursor.discontinuity = port[cursor.index].discontinuity
          /\ cursor.uptime <= Uptime
          /\ Kept(0) => M = reading.bytes
  BY DEF ReadingSound
<1>2. Kept(0)' => Kept(0) /\ Minute(now - KeptTime) <= 0
  <2> SUFFICES ASSUME Kept(0)' PROVE Kept(0) /\ Minute(now - KeptTime) <= 0
    OBVIOUS
  <2>1. Minute(real' - KeptTime) <= Minute(0)
    BY DEF Kept
  <2> QED
    BY <2>1, KeptBefore, NothingPruned
<1>3. Kept(0)' => \A m \in Minutes : ~(m < Minute(now - KeptTime))
  <2>1. Minute(now - KeptTime) \in Int /\ \A m \in Minutes : m \in Nat
    <3>1. now - KeptTime \in Int
      BY TypedClocks, Constants
    <3> QED
      BY <3>1, MinuteHolds, MinutesAreFinite
  <2> QED
    BY <1>2, <2>1
<1>4. /\ \A i \in Interfaces : port[i].octets \in Nat /\ i # None
      /\ now # None /\ 0 # None /\ Uptime \in Int /\ cursor.uptime \in Int
  BY TypedPort, TypedClocks, Constants DEF TypeOK, Uptime, Times
<1>5. CASE Sample
  <2>0. port' = port /\ Uptime' = Uptime
    BY <1>5 DEF Sample, router, clocks, Uptime
  <2>1. CASE /\ cursor' = MissingCursor /\ UNCHANGED history
             /\ FirstShape \/ MissingShape
    <3>1. reading' = reading /\ carried' = carried
      BY <2>1 DEF history
    <3>2. /\ cursor'.index = cursor.index /\ cursor'.octets = cursor.octets
          /\ cursor'.baselineAt = cursor.baselineAt /\ cursor'.uptime = cursor.uptime
          /\ cursor'.discontinuity = cursor.discontinuity
      BY <2>1, CursorFields
    <3>3. ~FirstShape
      BY <3>1, TypedReading DEF FirstShape
    <3>4. Kept(0)' => M' = M
      BY <1>2, <2>1, <3>3, TypedCursor, MissedOver, FieldsAre DEF MissingShape
    <3> QED
      BY <1>1, <1>2, <2>0, <3>1, <3>2, <3>4
  <2>2. ASSUME NEW i \in Interfaces, cursor' = CursorAt(i), HeardOf(i),
               FirstShape \/ ResetSample(i) \/ MeasuredSample(i)
        PROVE  Sound
    <3>1. /\ cursor'.index = i /\ cursor'.octets = port[i].octets
          /\ cursor'.baselineAt = now /\ cursor'.uptime = Uptime
          /\ cursor'.discontinuity = port[i].discontinuity
      BY <2>2, CursorFields
    <3>2. CASE carried = None
      <4>1. carried' = 0 /\ reading' = [line |-> i, at |-> now, bytes |-> 0]
        BY <2>2, <3>2 DEF HeardOf, ReadingAt
      <4>2. cursor.index = None /\ M = 0
        <5>1. cursor.index = None /\ M <= Most(0, None)
          BY <3>2 DEF CursorSound, MeasuredSound
        <5> HIDE DEF M
        <5> QED
          BY <1>0, <5>1, Constants DEF Most
      <4>3. M' = 0
        <5>1. ~MeasuredSample(i)
          BY <1>4, <4>2 DEF MeasuredSample, CounterReset
        <5>2. CASE FirstShape
          <6>1. M' <= M
            BY <5>2, RowsTyped, PrunedOver, FieldsAre DEF FirstShape
          <6> HIDE DEF M
          <6> QED
            BY <1>0, <4>2, <6>1
        <5>3. CASE ResetSample(i)
          <6>1. M' <= M
            BY <5>3, ResetMeasures
          <6> HIDE DEF M
          <6> QED
            BY <1>0, <4>2, <6>1
        <5> QED
          BY <2>2, <5>1, <5>2, <5>3
      <4>4. reading'.line = i /\ reading'.at = now /\ reading'.bytes = 0
        BY <4>1
      <4> HIDE DEF M
      <4> QED
        BY <1>4, <2>0, <3>1, <4>1, <4>3, <4>4
    <3>3. CASE carried # None
      <4>1. /\ carried' = carried /\ reading.line = i /\ Believable
            /\ reading' = [line |-> i, at |-> now, bytes |-> carried]
        BY <2>2, <3>3 DEF HeardOf, ReadingAt
      <4>2. reading # NoReading
        BY <1>4, <4>1 DEF NoReading
      <4>3. MeasuredSample(i)
        BY <2>2, <4>1, NotRefused
      <4>4. /\ reading.bytes \in Nat /\ carried \in Nat /\ cursor.octets \in Nat
            /\ cursor.index = i /\ Baseline = reading.at
        BY <4>1, <4>2, TypedReading
      <4>5. carried - reading.bytes = port[i].octets - cursor.octets
        <5>1. reading.bytes + port[i].octets - cursor.octets = carried
          BY <1>1, <4>2, <4>4
        <5> QED
          BY <1>4, <4>4, <5>1
      <4>6. port[i].octets - cursor.octets <= Ceiling * Most(0, now - Baseline)
        BY <4>1, <4>4, <4>5 DEF Believable
      <4>7. Kept(0)' => M' = M + (port[i].octets - cursor.octets)
        BY <1>2, <4>3, <4>6, SampleMeasures
      <4>8. Kept(0)' => M' = carried
        <5>1. Kept(0)' => M = reading.bytes
          BY <1>1, <1>2, <4>2
        <5> HIDE DEF M
        <5> QED
          BY <1>4, <4>4, <4>5, <4>7, <5>1
      <4>9. reading'.line = i /\ reading'.at = now /\ reading'.bytes = carried
        BY <4>1
      <4> HIDE DEF M
      <4> QED
        BY <1>4, <2>0, <3>1, <3>3, <4>1, <4>4, <4>8, <4>9
    <3> QED
      BY <3>2, <3>3
  <2> QED
    BY <1>5, <2>1, <2>2, SampleHears
<1>6. ASSUME NEW i \in Interfaces, Carry(i) PROVE Sound
  <2>1. /\ M' = M /\ cursor' = cursor /\ carried' = IF carried = None THEN None ELSE carried + 1
        /\ reading' = reading /\ reading.line = i /\ Uptime' = Uptime
    BY <1>6 DEF Carry, tables, clocks, Uptime
  <2>2. /\ cursor.index = i /\ carried' = carried + 1 /\ carried \in Nat /\ reading.bytes \in Nat
        /\ cursor.octets \in Nat
    BY <1>1, <2>1, TypedReading
  <2>3. /\ port'[i].octets = port[i].octets + 1
        /\ port'[i].discontinuity = port[i].discontinuity
    <3>1. port' = [port EXCEPT ![i].octets = @ + 1] /\ port \in Ports
      BY <1>6 DEF Carry, TypeOK, Ports
    <3> QED
      BY <3>1 DEF Ports
  <2>4. /\ reading.bytes + port[i].octets - cursor.octets = carried
        /\ cursor.octets <= port[i].octets
    BY <1>1, <2>1, <2>2
  <2>5. /\ reading.bytes + port'[i].octets - cursor.octets = carried'
        /\ cursor.octets <= port'[i].octets /\ carried' # None
    BY <1>4, <2>2, <2>3, <2>4, Constants
  <2> HIDE DEF M
  <2> QED
    BY <1>1, <1>2, <2>1, <2>2, <2>3, <2>5
<1>7. CASE RouterEvent
  <2>1. /\ M' = M /\ cursor' = cursor /\ carried' = carried /\ real' = real
        /\ CountsOn /\ reading' = reading
    BY <1>7 DEF RouterEvent, tables, clocks
  <2>2. cursor.index = reading.line /\ reading.line \in Interfaces
    BY <2>1, TypedReading
  <2>3. /\ port'[reading.line].octets >= port[reading.line].octets
        /\ port'[reading.line].discontinuity = port[reading.line].discontinuity
        /\ Uptime' = Uptime
    BY <2>1 DEF CountsOn, Uptime
  <2>4. port'[reading.line].octets \in {0, port[reading.line].octets}
    BY <1>7, <2>2, RouterEventIs
  <2>5. port'[reading.line].octets = port[reading.line].octets
    BY <1>4, <2>2, <2>3, <2>4
  <2> HIDE DEF M
  <2> QED
    BY <1>1, <1>2, <2>1, <2>2, <2>3, <2>5
<1>8. ASSUME UNCHANGED <<port, cursor, history, booted>>, real' \in {real, real + 1},
             Kept(0)' => M' = M
      PROVE  Sound
  <2>1. reading' = reading /\ carried' = carried /\ port' = port /\ cursor' = cursor
    BY <1>8 DEF history
  <2>2. Uptime <= Uptime'
    <3>1. real \in Int /\ booted \in Int
      BY TypedClocks DEF TypeOK, Times
    <3>2. Uptime = real - booted /\ Uptime' = real' - booted
      BY <1>8 DEF Uptime
    <3>3. real' - booted \in {real - booted, (real + 1) - booted}
      BY <1>8
    <3>4. real - booted <= (real + 1) - booted /\ real - booted <= real - booted
      BY <3>1
    <3> QED
      BY <3>2, <3>3, <3>4, Zenon
  <2>3. Uptime' \in Int
    <3>1. real \in Int /\ booted \in Int
      BY TypedClocks DEF TypeOK, Times
    <3> QED
      BY <1>8, <3>1 DEF Uptime
  <2>4. cursor.uptime <= Uptime
    BY <1>1, <2>1
  <2>5. cursor.uptime <= Uptime'
    BY <1>4, <2>2, <2>3, <2>4
  <2> HIDE DEF M
  <2> QED
    BY <1>1, <1>2, <1>8, <2>1, <2>5
<1>9. CASE SampleOthers
  <2>1. UNCHANGED <<port, cursor, history, booted>> /\ real' = real
    BY <1>9 DEF SampleOthers, router, clocks
  <2>2. Kept(0)' => M' = M
    BY <1>3, <1>9, RowsTyped, PrunedOver, FieldsAre DEF SampleOthers
  <2> QED
    BY <1>8, <2>1, <2>2
<1>10. CASE ImportAccounts \/ Tick \/ SetBack \/ UNCHANGED vars
  <2>1. /\ UNCHANGED <<port, cursor, history, booted>> /\ traffic' = traffic
        /\ real' \in {real, real + 1}
    BY <1>10 DEF ImportAccounts, Tick, SetBack, vars, tables, router, clocks
  <2> QED
    BY <1>8, <2>1
<1> QED
  BY <1>5, <1>6, <1>7, <1>9, <1>10 DEF Next, Rest

-----------------------------------------------------------------------------
(* The gaps.                                                               *)

After(b) == (Minute(b)..Minute(MaxTime)) \cap Minutes

\* Rows from a time on that is kept are not pruned.
LEMMA KeptRows ==
    ASSUME TypeOK, NEW b \in Int, Kept(b) PROVE \A m \in After(b) : ~(m < Minute(now - KeptTime))
<1>1. now - KeptTime \in Int /\ real - KeptTime \in Int /\ now - KeptTime <= real - KeptTime
  BY TypedClocks, Constants
<1>2. Minute(now - KeptTime) <= Minute(real - KeptTime)
  BY <1>1, MinutesInOrder
<1>3. Minute(real - KeptTime) \in Int /\ Minute(now - KeptTime) \in Int /\ Minute(b) \in Int
  BY <1>1, MinuteHolds
<1>4. Minute(real - KeptTime) <= Minute(b)
  BY DEF Kept
<1> QED
  BY <1>2, <1>3, <1>4 DEF After

LEMMA GapStep ==
    ASSUME TypeOK, CursorSound, ClocksSound, GapSound, [Next]_vars PROVE GapSound'
<1> DEFINE b == cursor.baselineAt
           s == cursor.sampledAt
           U(rows) == Over(rows, "unknown", After(b))
           still   == Minute(real' - KeptTime) <= Minute(b)
<1>0. /\ traffic \in Rows /\ traffic' \in Rows /\ "unknown" \in Fields /\ After(b) \in SUBSET Minutes
      /\ now \in Int /\ now \in Times /\ s \in Int /\ b \in Int
  <2>1. traffic' \in Rows
    BY TypeStep DEF TypeOK, Rows
  <2> QED
    BY <2>1, RowsTyped, FieldsAre, TypedClocks, TypedCursor DEF After
<1>1. b # None /\ Kept(b) => U(traffic) >= s - b
  BY DEF GapSound, After
<1>2. U(traffic) \in Nat /\ U(traffic') \in Nat
  BY <1>0, OverIsNat
<1>3. ASSUME cursor'.baselineAt = b, b # None => (still => cursor'.sampledAt - b <= U(traffic'))
      PROVE  GapSound'
  BY <1>0, <1>2, <1>3 DEF GapSound, After, Kept
<1>4. ASSUME still PROVE Kept(b)
  BY <1>0, <1>4, KeptBefore
<1>5. CASE Sample
  <2>1. ASSUME NEW i \in Interfaces, cursor' = CursorAt(i) PROVE GapSound'
    <3>1. cursor'.baselineAt = now /\ cursor'.sampledAt = now
      BY <2>1, CursorFields
    <3>2. Over(traffic', "unknown", After(now)) \in Nat
      BY <1>0, OverIsNat DEF After
    <3> QED
      BY <1>0, <3>1, <3>2 DEF GapSound, After
  <2>2. CASE FirstShape
    <3>1. cursor.baselineAt = None
      BY <2>2 DEF FirstShape, NoCursor
    <3>2. ASSUME cursor' = MissingCursor PROVE GapSound'
      BY <3>1, <3>2, CursorFields DEF GapSound
    <3> QED
      BY <2>1, <2>2, <3>2 DEF FirstShape
  <2>3. CASE MissingShape
    <3>1. cursor'.baselineAt = b /\ cursor'.sampledAt = now /\ s # None /\ traffic' = Missed
      BY <2>3, CursorFields, TypedCursor DEF MissingShape
    <3> SUFFICES ASSUME b # None, still PROVE now - b <= U(traffic')
      BY <1>3, <3>1
    <3> DEFINE more == IF s < now THEN SumFunctionOnSet(Given(GapTime, s, now), After(b)) ELSE 0
    <3>2. U(traffic') = U(traffic) + more
      BY <1>0, <1>4, <3>1, KeptRows, MissedOver
    <3>3. U(traffic) >= s - b
      BY <1>1, <1>4
    <3>4. CASE ~(s < now)
      <4>1. more = 0
        BY <3>4
      <4> HIDE DEF U, more
      <4> QED
        BY <1>0, <1>2, <3>2, <3>3, <3>4, <4>1
    <3>5. CASE s < now /\ ~(b < now)
      BY <1>0, <1>2, <3>5
    <3>6. CASE s < now /\ b < now
      <4> DEFINE c == Most(s, b)
      <4>1. c \in Int /\ s <= c /\ c <= now /\ now <= now /\ b <= c /\ c \in {s, b}
        BY <1>0, <3>6 DEF Most
      <4>2. (Minute(c)..Minute(now)) \subseteq After(b)
        <5>1. Minute(b) <= Minute(c) /\ Minute(b) \in Int /\ Minute(c) \in Int
          BY <1>0, <4>1, MinutesInOrder, MinuteHolds
        <5>2. Minute(now) <= Minute(MaxTime) /\ Minute(MaxTime) \in Int /\ Minute(now) \in Int
          <6>1. now \in Int /\ MaxTime \in Int /\ now <= MaxTime
            BY <1>0, TypedClocks, Constants DEF Times
          <6> QED
            BY <6>1, MinutesInOrder, MinuteHolds
        <5>3. Minute(b) \in Nat
          <6>1. b \in Times
            BY TypedCursor
          <6> QED
            BY <6>1, MinutesAreFinite
        <5> HIDE DEF b, c
        <5> QED
          BY <5>1, <5>2, <5>3 DEF After, Minutes
      <4>3. GapTime = now - s /\ s \in Times
        BY <3>1, TypedCursor DEF GapTime
      <4>4. SumFunctionOnSet(Given(now - s, s, now), After(b)) >= now - c
        <5> HIDE DEF c, s, b
        <5> QED
          BY <1>0, <3>6, <4>1, <4>2, <4>3, GivenInWindow
      <4>5. more >= now - c /\ more \in Nat
        <5>1. more \in 0..Most(0, GapTime)
          BY <1>0, <3>1, MissedOver
        <5>2. Most(0, GapTime) \in Int
          BY <1>0, <4>3 DEF Most
        <5>3. more >= now - c
          BY <3>6, <4>3, <4>4
        <5> HIDE DEF more
        <5> QED
          BY <5>1, <5>2, <5>3
      <4> HIDE DEF more, U, c, s, b
      <4> QED
        BY <1>0, <1>2, <3>2, <3>3, <4>1, <4>5
    <3> QED
      BY <3>4, <3>5, <3>6
  <2>4. CASE \E i \in Interfaces : ResetSample(i) \/ MeasuredSample(i)
    BY <2>1, <2>4 DEF ResetSample, MeasuredSample
  <2> QED
    BY <1>5, <2>2, <2>3, <2>4, SampleShapes
<1>6. CASE SampleOthers
  <2>1. cursor' = cursor /\ traffic' = Pruned(traffic)
    BY <1>6 DEF SampleOthers
  <2> SUFFICES ASSUME b # None, still PROVE s - b <= U(traffic')
    BY <1>3, <2>1
  <2>2. U(traffic') = U(traffic)
    BY <1>0, <1>4, <2>1, KeptRows, PrunedOver
  <2> QED
    BY <1>0, <1>1, <1>2, <1>4, <2>2
<1>7. CASE \/ ImportAccounts \/ (\E i \in Interfaces : Carry(i)) \/ RouterEvent
           \/ Tick \/ SetBack \/ UNCHANGED vars
  <2>1. cursor' = cursor /\ traffic' = traffic
    BY <1>7 DEF ImportAccounts, Carry, RouterEvent, Tick, SetBack, vars, tables
  <2> SUFFICES ASSUME b # None, still PROVE s - b <= U(traffic')
    BY <1>3, <2>1
  <2> QED
    BY <1>0, <1>1, <1>2, <1>4, <2>1
<1> QED
  BY <1>5, <1>6, <1>7 DEF Next, Rest

-----------------------------------------------------------------------------
(* No second twice.                                                        *)

LEMMA BaselineAfter ==
    ASSUME TypeOK
    PROVE  /\ \A i \in Interfaces :
                 cursor' = CursorAt(i) => cursor'.sampledAt = now /\ Baseline' = now
           /\ cursor' = MissingCursor =>
                 /\ cursor'.sampledAt = now
                 /\ Baseline' = IF cursor.baselineAt = None THEN now ELSE cursor.baselineAt
           /\ cursor' = cursor => Baseline' = Baseline /\ cursor'.sampledAt = cursor.sampledAt
BY CursorFields DEF Baseline

\* Before the first sample there is nothing in the rows.
LEMMA NothingYet ==
    ASSUME TypeOK, CursorSound, cursor.sampledAt = None, NEW field \in Fields
    PROVE  Over(traffic, field, Minutes) = 0
<1>1. traffic = [m \in Minutes |-> EmptyRow]
  BY DEF CursorSound
<1>2. \A f \in Fields : EmptyRow[f] = 0
  BY FieldsAre DEF EmptyRow
<1>3. \A m \in Minutes : Column(traffic, field)[m] = 0
  BY <1>1, <1>2 DEF Column
<1> QED
  BY <1>3, MinutesAreFinite, SumIsZero DEF Over

LEMMA SampledStep ==
    ASSUME TypeOK, CursorSound, ClocksSound, SampledSound, [Next]_vars PROVE SampledSound'
<1> DEFINE S == Over(traffic, "sampled", Minutes)
<1>0. /\ S \in Nat /\ S' \in Nat /\ now \in Nat /\ real \in Nat /\ now <= real
      /\ cursor.sampledAt # None => Baseline \in Nat
      /\ "sampled" \in Fields /\ traffic \in Rows
  <2>1. traffic' \in Rows
    BY TypeStep DEF TypeOK, Rows
  <2>2. now \in Nat /\ real \in Nat /\ (cursor.sampledAt # None => Baseline \in Nat)
    BY TypedClocks, TypedCursor DEF Times
  <2> QED
    BY <2>1, <2>2, TypedClocks, RowsTyped, OverIsNat, FieldsAre
<1>1. cursor.sampledAt # None => S + Most(0, now - Baseline) <= real
  BY DEF SampledSound
<1>2. ASSUME cursor'.sampledAt # None => S' + Most(0, now' - Baseline') <= real'
      PROVE  SampledSound'
  BY <1>2 DEF SampledSound, Most
<1>3. cursor.sampledAt # None => S <= real
  BY <1>0, <1>1 DEF Most
<1> HIDE DEF S
<1>4. CASE Sample
  <2>0. now' = now /\ real' = real
    BY <1>4, SampleShapes DEF clocks
  <2>1. ASSUME Baseline' = now, S' <= real PROVE SampledSound'
    <3>1. now' - Baseline' = 0
      BY <1>0, <2>0, <2>1
    <3>2. Most(0, now' - Baseline') = 0
      BY <3>1 DEF Most
    <3>3. S' + Most(0, now' - Baseline') <= real'
      BY <1>0, <2>0, <2>1, <3>2
    <3> QED
      BY <1>2, <3>3
  <2>2. CASE FirstShape
    <3>1. cursor.sampledAt = None /\ cursor.baselineAt = None
      BY <2>2, TypedCursor DEF FirstShape, NoCursor
    <3>2. S = 0
      BY <1>0, <3>1, NothingYet DEF S
    <3>3. S' <= S
      BY <1>0, <2>2, PrunedOver DEF FirstShape, S
    <3>4. Baseline' = now
      BY <2>2, <3>1, BaselineAfter DEF FirstShape
    <3> QED
      BY <1>0, <2>1, <3>2, <3>3, <3>4
  <2>3. CASE MissingShape
    <3>1. cursor.sampledAt # None /\ S' <= S
      BY <1>0, <2>3, TypedCursor, MissedOver, FieldsAre DEF MissingShape, S
    <3>2. CASE cursor.baselineAt = None
      <4>1. Baseline' = now
        BY <2>3, <3>2, BaselineAfter DEF MissingShape
      <4> QED
        BY <1>0, <1>3, <2>1, <3>1, <4>1
    <3>3. CASE cursor.baselineAt # None
      <4>1. Baseline' = Baseline
        BY <2>3, <3>3, BaselineAfter DEF MissingShape, Baseline
      <4>2. Most(0, now' - Baseline') = Most(0, now - Baseline) /\ Most(0, now - Baseline) \in Int
        BY <1>0, <2>0, <3>1, <4>1 DEF Most
      <4>3. S' + Most(0, now' - Baseline') <= real'
        BY <1>0, <1>1, <2>0, <3>1, <4>2
      <4> QED
        BY <1>2, <4>3
    <3> QED
      BY <3>2, <3>3
  <2>4. ASSUME NEW i \in Interfaces, ResetSample(i) \/ MeasuredSample(i) PROVE SampledSound'
    <3>1. /\ cursor.sampledAt # None /\ cursor' = CursorAt(i)
          /\ S' <= S + Most(0, now - Baseline)
      BY <2>4, SampleRebooks DEF S
    <3>2. Baseline' = now
      BY <3>1, BaselineAfter
    <3>3. S' <= real
      BY <1>0, <1>1, <3>1 DEF Most
    <3> QED
      BY <2>1, <3>2, <3>3
  <2> QED
    BY <1>4, <2>2, <2>3, <2>4, SampleShapes
<1>5. CASE SampleOthers
  <2>1. cursor' = cursor /\ now' = now /\ real' = real /\ S' <= S
    BY <1>0, <1>5, PrunedOver DEF SampleOthers, clocks, S
  <2>2. Baseline' = Baseline
    BY <2>1, BaselineAfter
  <2>3. cursor.sampledAt # None => Most(0, now - Baseline) \in Int
    BY <1>0 DEF Most
  <2>4. cursor.sampledAt # None => S' + Most(0, now - Baseline) <= real
    BY <1>0, <1>1, <2>1, <2>3
  <2> QED
    BY <1>2, <2>1, <2>2, <2>4
<1>6. CASE Tick
  <2>1. cursor' = cursor /\ now' = now + 1 /\ real' = real + 1 /\ S' = S
    BY <1>6 DEF Tick, tables, S
  <2> QED
    BY <1>0, <1>1, <1>2, <2>1, BaselineAfter DEF Most
<1>7. CASE SetBack
  <2>1. cursor' = cursor /\ now' \in 0..(cursor.sampledAt - 1) /\ real' = real /\ S' = S /\ now = real
    BY <1>7 DEF SetBack, tables, S
  <2>2. now' <= now /\ now' \in Nat
    <3>1. cursor.sampledAt \in Int /\ cursor.sampledAt <= real
      BY TypedCursor DEF ClocksSound
    <3> QED
      BY <1>0, <2>1, <3>1
  <2>3. Baseline' = Baseline /\ cursor'.sampledAt = cursor.sampledAt
    BY <2>1, BaselineAfter
  <2>4. cursor.sampledAt # None => S' + Most(0, now' - Baseline') <= real'
    BY <1>0, <1>1, <2>1, <2>2, <2>3 DEF Most
  <2> QED
    BY <1>2, <2>3, <2>4
<1>8. CASE ImportAccounts \/ (\E i \in Interfaces : Carry(i)) \/ RouterEvent \/ UNCHANGED vars
  <2>1. cursor' = cursor /\ now' = now /\ real' = real /\ S' = S
    BY <1>8 DEF ImportAccounts, Carry, RouterEvent, vars, tables, clocks, S
  <2>2. Baseline' = Baseline
    BY <2>1, BaselineAfter
  <2> QED
    BY <1>1, <1>2, <2>1, <2>2
<1> QED
  BY <1>4, <1>5, <1>6, <1>7, <1>8 DEF Next, Rest

\* What a booking gives to the minutes outside of b..x, at most.
LEMMA GivenOutside ==
    ASSUME NEW s \in Times, NEW e \in Times, s < e, NEW b \in Int, NEW x \in Int, NEW c \in Int,
           s <= c, b <= c, c <= x, x <= e
    PROVE  SumFunctionOnSet(Given(e - s, s, e), Outside(b, x)) <= (e - s) - (x - c)
<1> DEFINE f == Given(e - s, s, e)
           T == Minutes \cap (Minute(b)..Minute(x))
           F(U) == SumFunctionOnSet(f, U)
<1>1. e - s \in Nat /\ s \in Int /\ e \in Int
  BY DEF Times
<1>2. /\ \A m \in Minutes : f[m] \in Nat
      /\ \A U \in SUBSET Minutes : F(U) \in 0..(e - s)
  BY <1>1, GivenAddsUp
<1>3. F(Minutes) = F(T) + F(Minutes \ T)
  <2>1. IsFiniteSet(Minutes) /\ T \in SUBSET Minutes /\ \A m \in Minutes : f[m] \in Int
    BY <1>2, MinutesAreFinite
  <2> HIDE DEF f, T
  <2> QED
    BY <2>1, SumOfParts
<1>4. F(T) >= x - c
  <2>1. (Minute(c)..Minute(x)) \subseteq T
    <3>1. Minute(b) <= Minute(c) /\ Minute(b) \in Int /\ Minute(c) \in Int /\ Minute(x) \in Int
      BY MinutesInOrder, MinuteHolds
    <3>2. Minute(s) <= Minute(c) /\ Minute(x) <= Minute(e) /\ Minute(s) \in Minutes /\ Minute(e) \in Minutes
      BY <1>1, MinutesInOrder, MinutesAreFinite
    <3>3. Minute(MaxTime) \in Int
      BY Constants, MinuteHolds
    <3> QED
      BY <3>1, <3>2, <3>3 DEF Minutes
  <2>2. T \in SUBSET Minutes
    OBVIOUS
  <2> HIDE DEF T
  <2> QED
    BY <2>1, <2>2, GivenInWindow
<1>5. Minutes \ T = Outside(b, x)
  BY DEF Outside
<1>6. F(Minutes) <= e - s /\ F(Minutes) \in Int /\ F(T) \in Int /\ F(Minutes \ T) \in Int
  <2>1. Minutes \in SUBSET Minutes /\ T \in SUBSET Minutes /\ Minutes \ T \in SUBSET Minutes
    OBVIOUS
  <2> HIDE DEF T, f
  <2> QED
    BY <1>1, <1>2, <2>1
<1>7. F(Minutes \ T) <= (e - s) - (x - c)
  <2> HIDE DEF F
  <2> QED
    BY <1>1, <1>3, <1>4, <1>6
<1> QED
  BY <1>5, <1>7

LEMMA OutsideShrinks ==
    ASSUME TypeOK, NEW b \in Int, NEW x \in Int, NEW y \in Int, x <= y
    PROVE  /\ Over(traffic, "unknown", Outside(b, y)) <= Over(traffic, "unknown", Outside(b, x))
           /\ Over(traffic, "unknown", Outside(b, y)) <= Over(traffic, "unknown", Minutes)
           /\ Over(traffic, "unknown", Outside(b, y)) \in Nat
           /\ Over(traffic, "unknown", Outside(b, x)) \in Nat
<1>1. traffic \in Rows /\ "unknown" \in Fields
  BY RowsTyped, FieldsAre
<1>2. Outside(b, y) \in SUBSET Outside(b, x) /\ Outside(b, x) \in SUBSET Minutes /\ Outside(b, y) \in SUBSET Minutes
  <2>1. Minute(x) <= Minute(y) /\ Minute(x) \in Int /\ Minute(y) \in Int /\ Minute(b) \in Int
    BY MinutesInOrder, MinuteHolds
  <2> QED
    BY <2>1 DEF Outside
<1>3. Over(traffic, "unknown", Outside(b, x))
        = Over(traffic, "unknown", Outside(b, y)) + Over(traffic, "unknown", Outside(b, x) \ Outside(b, y))
  BY <1>1, <1>2, OverParts
<1>4. /\ Over(traffic, "unknown", Outside(b, x)) \in Nat
      /\ Over(traffic, "unknown", Outside(b, y)) \in Nat
      /\ Over(traffic, "unknown", Outside(b, x) \ Outside(b, y)) \in Nat
      /\ Over(traffic, "unknown", Outside(b, y)) <= Over(traffic, "unknown", Minutes)
  <2>1. Outside(b, x) \ Outside(b, y) \in SUBSET Minutes
    BY <1>2
  <2> QED
    BY <1>1, <1>2, <2>1, OverIsNat
<1> QED
  BY <1>3, <1>4

\* What a sample leaves outside of the minutes it clears has room for what it books.
LEMMA RoomForRebooking ==
    ASSUME TypeOK, CursorSound, UnknownSound, cursor.sampledAt # None
    PROVE  Over(traffic, "unknown", Outside(Baseline, now)) + Most(0, now - Baseline) <= real
<1> DEFINE b == Baseline
           s == cursor.sampledAt
           U == Over(traffic, "unknown", Minutes)
           Out(x) == Over(traffic, "unknown", Outside(b, x))
<1>1. b \in Nat /\ s \in Nat /\ now \in Nat /\ real \in Nat
  BY TypedClocks, TypedCursor DEF Times
<1>2. /\ U + Most(0, now - s) <= real
      /\ \A x \in b..s : Out(x) + (x - b) + Most(0, now - s) <= real
  BY DEF UnknownSound
<1>3. Out(now) <= U /\ Out(now) \in Nat /\ U \in Nat /\ Out(s) \in Nat
  <2>1. Outside(b, now) \in SUBSET Minutes /\ Outside(b, s) \in SUBSET Minutes
    BY DEF Outside
  <2> QED
    BY <2>1, RowsTyped, OverIsNat, FieldsAre
<1>4. s <= now => Out(now) <= Out(s)
  <2>1. b \in Int /\ s \in Int /\ now \in Int
    BY <1>1
  <2> QED
    BY <2>1, OutsideShrinks
<1>5. s \in b..s \/ s < b
  BY <1>1
<1> HIDE DEF b, s, U, Out
<1>6. CASE now < b \/ s < b
  <2>1. U + Most(0, now - s) <= real
    BY <1>2
  <2>2. Most(0, now - b) <= Most(0, now - s) /\ Most(0, now - b) \in Nat /\ Most(0, now - s) \in Nat
    BY <1>1, <1>6 DEF Most
  <2>3. Out(now) + Most(0, now - b) <= real
    BY <1>1, <1>3, <2>1, <2>2
  <2> QED
    BY <2>3 DEF Out, b
<1>7. CASE b <= s /\ s <= now
  <2>1. Out(s) + (s - b) + Most(0, now - s) <= real
    BY <1>1, <1>2, <1>5, <1>7
  <2> QED
    BY <1>1, <1>3, <1>4, <1>7, <2>1 DEF Most, Out, b
<1>8. CASE b <= now /\ now < s
  <2>1. Out(now) + (now - b) + Most(0, now - s) <= real
    BY <1>1, <1>2, <1>8
  <2> QED
    BY <1>1, <1>3, <1>8, <2>1 DEF Most, Out, b
<1>9. Out(now) + Most(0, now - b) <= real
  BY <1>1, <1>6, <1>7, <1>8 DEF Out, b
<1> QED
  BY <1>9 DEF Out, b

LEMMA RoomMoves ==
    ASSUME NEW u \in Int, NEW v \in Int, NEW p \in Int, NEW q \in Int, NEW r \in Int, NEW t \in Int,
           v <= u, u + q <= r, p + r <= q + t
    PROVE  v + p <= t
OBVIOUS

LEMMA UnknownStep ==
    ASSUME TypeOK, CursorSound, ClocksSound, UnknownSound, [Next]_vars PROVE UnknownSound'
<1> DEFINE b == Baseline
           s == cursor.sampledAt
           U == Over(traffic, "unknown", Minutes)
           Out(a, x)  == Over(traffic, "unknown", Outside(a, x))
           Then(a, x) == Over(traffic', "unknown", Outside(a, x))
<1>0. /\ traffic \in Rows /\ traffic' \in Rows /\ "unknown" \in Fields
      /\ now \in Nat /\ real \in Nat /\ now <= real /\ s \in Int
      /\ s # None => s \in Nat /\ b \in Nat
      /\ now \in Times
      /\ s # None => s \in Times
  <2>1. traffic' \in Rows
    BY TypeStep DEF TypeOK, Rows
  <2>2. now \in Nat /\ real \in Nat /\ s \in Int /\ (s # None => s \in Nat /\ b \in Nat)
    BY TypedClocks, TypedCursor DEF Times
  <2> QED
    BY <2>1, <2>2, TypedClocks, TypedCursor, RowsTyped, FieldsAre
<1>1. \A a, x : Outside(a, x) \in SUBSET Minutes
  BY DEF Outside
<1>2. /\ U \in Nat /\ U' \in Nat
      /\ \A a, x : /\ Out(a, x) \in Nat /\ Then(a, x) \in Nat
                   /\ Out(a, x) <= U /\ Then(a, x) <= U'
  BY <1>0, <1>1, OverIsNat
<1>3. s # None => /\ U + Most(0, now - s) <= real
                  /\ \A x \in b..s : Out(b, x) + (x - b) + Most(0, now - s) <= real
  BY DEF UnknownSound
<1>4. s # None => Most(0, now - s) \in Nat
  BY <1>0 DEF Most
<1>5. ASSUME U' <= real', now' = now, real' = real, Baseline' = now, cursor'.sampledAt = now
      PROVE  UnknownSound'
  <2>1. now' - cursor'.sampledAt = 0 /\ Most(0, 0) = 0
    <3>1. now' - cursor'.sampledAt = now - now
      BY <1>5
    <3> QED
      BY <1>0, <3>1 DEF Most
  <2>2. U' + Most(0, now' - cursor'.sampledAt) <= real'
    BY <1>2, <1>5, <2>1
  <2>3. ASSUME NEW x \in Baseline'..cursor'.sampledAt
        PROVE  Then(Baseline', x) + (x - Baseline') + Most(0, now' - cursor'.sampledAt) <= real'
    <3>1. x - Baseline' = 0
      <4>1. x \in now..now /\ Baseline' = now
        BY <1>5, <2>3
      <4> QED
        BY <1>0, <4>1
    <3> DEFINE n == Then(Baseline', x)
    <3>2. n \in Nat /\ n <= U' /\ U' \in Nat /\ U' <= real
      BY <1>2, <1>5
    <3>3. n + 0 + 0 <= real
      <4> DEFINE v == U'
      <4>1. n \in Nat /\ n <= v /\ v \in Nat /\ v <= real /\ real \in Nat
        BY <1>0, <3>2
      <4> HIDE DEF n, v
      <4> QED
        BY <4>1
    <3>4. now' - cursor'.sampledAt = 0 /\ Most(0, now' - cursor'.sampledAt) = 0 /\ real' = real
      BY <1>5, <2>1
    <3> HIDE DEF n
    <3> QED
      BY <3>1, <3>3, <3>4 DEF n
  <2> QED
    BY <2>2, <2>3 DEF UnknownSound
<1>6. CASE Sample
  <2>0. now' = now /\ real' = real /\ s # now
    BY <1>6, SampleShapes DEF clocks
  <2>1. CASE FirstShape
    <3>1. s = None /\ cursor.baselineAt = None
      BY <2>1, TypedCursor DEF FirstShape, NoCursor
    <3>2. U = 0 /\ U' <= U
      BY <1>0, <2>1, <3>1, NothingYet, PrunedOver DEF FirstShape
    <3>3. Baseline' = now /\ cursor'.sampledAt = now
      BY <2>1, <3>1, BaselineAfter DEF FirstShape
    <3>4. U' <= real
      BY <1>0, <1>2, <3>2
    <3> QED
      BY <1>0, <1>5, <2>0, <3>3, <3>4
  <2>2. CASE \E i \in Interfaces : ResetSample(i) \/ MeasuredSample(i)
    <3>1. PICK i \in Interfaces : ResetSample(i) \/ MeasuredSample(i)
      BY <2>2
    <3>2. s # None /\ cursor' = CursorAt(i) /\ U' <= Out(b, now) + Most(0, now - b)
      BY <3>1, SampleRebooks
    <3>3. Out(b, now) + Most(0, now - b) <= real
      BY <3>2, RoomForRebooking
    <3>4. Baseline' = now /\ cursor'.sampledAt = now
      BY <3>2, BaselineAfter
    <3>5. U' <= real
      <4>1. Most(0, now - b) \in Int
        BY <1>0, <3>2 DEF Most
      <4> HIDE DEF U, Out, b, s
      <4> QED
        BY <1>0, <1>2, <3>2, <3>3, <4>1
    <3> QED
      BY <1>0, <1>5, <2>0, <3>4, <3>5
  <2>3. CASE MissingShape
    <3> DEFINE given(T) == SumFunctionOnSet(Given(GapTime, s, now), T)
               more(T)  == IF s < now THEN given(T) ELSE 0
    <3>1. s # None /\ traffic' = Missed /\ cursor' = MissingCursor /\ GapTime = now - s
      BY <2>3, TypedCursor DEF MissingShape, GapTime
    <3>2. \A T \in SUBSET Minutes :
             /\ Over(traffic', "unknown", T) <= Over(traffic, "unknown", T) + more(T)
             /\ more(T) \in 0..Most(0, now - s)
      BY <3>1, MissedOver
    <3>3. U' <= real
      <4>1. U' <= U + more(Minutes) /\ more(Minutes) \in 0..Most(0, now - s)
        BY <3>2
      <4> HIDE DEF U, more, s
      <4> QED
        BY <1>0, <1>2, <1>3, <1>4, <3>1, <4>1
    <3>4. cursor'.sampledAt = now
      BY <3>1, BaselineAfter
    <3>5. CASE cursor.baselineAt = None
      <4>1. Baseline' = now
        BY <3>1, <3>5, BaselineAfter
      <4> QED
        BY <1>0, <1>5, <2>0, <3>3, <3>4, <4>1
    <3>6. CASE cursor.baselineAt # None
      <4>1. Baseline' = b
        BY <3>1, <3>6, BaselineAfter DEF Baseline
      <4>2. now' - cursor'.sampledAt = 0 /\ Most(0, 0) = 0
        BY <1>0, <2>0, <3>4 DEF Most
      <4>3. ASSUME NEW x \in b..now PROVE Then(b, x) + (x - b) <= real
        <5>0. x \in Int /\ b <= x /\ x <= now /\ b \in Int
          BY <1>0, <3>1, <4>3
        <5>1. Then(b, x) <= Out(b, x) + more(Outside(b, x)) /\ more(Outside(b, x)) \in 0..Most(0, now - s)
          BY <1>1, <3>2
        <5>2. /\ U + Most(0, now - s) <= real /\ Most(0, now - s) \in Nat
              /\ Out(b, x) \in Nat /\ Then(b, x) \in Nat /\ Out(b, x) <= U
              /\ \A y \in b..s : Out(b, y) + (y - b) + Most(0, now - s) <= real /\ Out(b, y) \in Nat
          BY <1>2, <1>3, <1>4, <3>1
        <5>3. CASE x <= s
          <6>1. x \in b..s
            BY <1>0, <5>0, <5>3
          <6>2. Out(b, x) + (x - b) + Most(0, now - s) <= real
            BY <5>2, <6>1
          <6>3. more(Outside(b, x)) <= Most(0, now - s) /\ more(Outside(b, x)) \in Nat
            BY <5>1, <5>2
          <6> HIDE DEF Out, Then, more, b, s
          <6> QED
            BY <1>0, <5>0, <5>1, <5>2, <6>2, <6>3
        <5>4. CASE s < x
          <6> DEFINE c == Most(s, b)
          <6>1. s < now /\ Most(0, now - s) = now - s
            BY <1>0, <5>0, <5>4 DEF Most
          <6>2. c \in Int /\ s <= c /\ b <= c /\ c <= x /\ c \in {s, b}
            BY <1>0, <5>0, <5>4 DEF Most
          <6>3. more(Outside(b, x)) <= (now - s) - (x - c) /\ more(Outside(b, x)) \in Int
            <7>1. s \in Times /\ now \in Times
              <8> HIDE DEF s
              <8> QED
                BY <1>0, <3>1
            <7>2. SumFunctionOnSet(Given(now - s, s, now), Outside(b, x)) <= (now - s) - (x - c)
              <8> HIDE DEF b, s, c
              <8> QED
                BY <5>0, <6>1, <6>2, <7>1, GivenOutside
            <7>3. more(Outside(b, x)) = SumFunctionOnSet(Given(now - s, s, now), Outside(b, x))
              BY <3>1, <6>1
            <7>4. more(Outside(b, x)) \in Int
              <8> HIDE DEF more
              <8> QED
                BY <5>1, <5>2
            <7> HIDE DEF more, c
            <7> QED
              BY <7>2, <7>3, <7>4
          <6> DEFINE m == more(Outside(b, x))
                     o == Out(b, x)
                     n == Then(b, x)
          <6>4. CASE c = b
            <7>1. n <= o + m /\ m <= (now - s) - (x - b) /\ o <= U /\ U + (now - s) <= real
              BY <5>1, <5>2, <6>1, <6>3, <6>4
            <7>2. m \in Int /\ n \in Nat /\ o \in Nat
              BY <5>2, <6>3
            <7> HIDE DEF m, o, n, U, b, s
            <7>3. n + (x - b) <= real
              BY <1>0, <1>2, <3>1, <5>0, <7>1, <7>2
            <7> QED
              BY <7>3 DEF n, b
          <6>5. CASE c = s
            <7>1. s \in b..s
              BY <1>0, <3>1, <5>0, <6>2, <6>5
            <7>2. Out(b, s) + (s - b) + (now - s) <= real /\ Out(b, s) \in Nat
              BY <5>2, <6>1, <7>1
            <7>3. o <= Out(b, s)
              <8>1. s \in Int /\ s <= x
                BY <1>0, <5>0, <5>4
              <8> QED
                BY <5>0, <8>1, OutsideShrinks
            <7>4. n <= o + m /\ m <= (now - s) - (x - s)
              BY <5>1, <6>3, <6>5
            <7>5. m \in Int /\ n \in Nat /\ o \in Nat
              BY <5>2, <6>3
            <7> DEFINE q == Out(b, s)
            <7>6. q + (s - b) + (now - s) <= real /\ q \in Nat /\ o <= q
              BY <7>2, <7>3
            <7> HIDE DEF m, o, n, q, b, s
            <7>7. n + (x - b) <= real
              BY <1>0, <3>1, <5>0, <7>4, <7>5, <7>6
            <7> QED
              BY <7>7 DEF n, b
          <6> QED
            BY <6>2, <6>4, <6>5
        <5> QED
          BY <1>0, <5>0, <5>3, <5>4
      <4>4. U' + Most(0, now' - cursor'.sampledAt) <= real'
        BY <1>2, <2>0, <3>3, <4>2
      <4>5. ASSUME NEW x \in Baseline'..cursor'.sampledAt
            PROVE  Then(Baseline', x) + (x - Baseline') + Most(0, now' - cursor'.sampledAt) <= real'
        <5>1. x \in b..now
          BY <3>4, <4>1, <4>5
        <5>2. Then(b, x) + (x - b) <= real /\ Then(b, x) \in Nat
          BY <1>2, <4>3, <5>1
        <5>3. Then(b, x) + (x - b) + 0 <= real
          <6>1. x - b \in Int
            BY <1>0, <3>1, <5>1
          <6> HIDE DEF Then, b
          <6> QED
            BY <1>0, <5>2, <6>1
        <5> HIDE DEF Then, b
        <5> QED
          BY <2>0, <4>1, <4>2, <5>3
      <4> QED
        BY <4>4, <4>5 DEF UnknownSound
    <3> QED
      BY <3>5, <3>6
  <2> QED
    BY <1>6, <2>1, <2>2, <2>3, SampleShapes
<1>7. ASSUME cursor' = cursor, s # None => Most(0, now' - s) \in Nat /\ real' \in Int
                                           /\ Most(0, now' - s) + real <= Most(0, now - s) + real',
             U' <= U, \A x : Then(b, x) <= Out(b, x)
      PROVE  UnknownSound'
  <2> SUFFICES ASSUME s # None PROVE UnknownSound'
    BY <1>7 DEF UnknownSound
  <2>1. Baseline' = b /\ cursor'.sampledAt = s
    BY <1>7, BaselineAfter
  <2>2. U' + Most(0, now' - s) <= real'
    <3> DEFINE p == Most(0, now' - s)
               q == Most(0, now - s)
    <3>1. p \in Nat /\ q \in Nat /\ p + real <= q + real' /\ real' \in Int /\ U + q <= real /\ U' <= U
      BY <1>3, <1>4, <1>7
    <3> DEFINE u == U
               v == U'
    <3>2. u \in Nat /\ v \in Nat /\ v <= u /\ u + q <= real
      BY <1>2, <3>1
    <3> HIDE DEF u, v, p, q
    <3>3. v + p <= real'
      <4>1. /\ u \in Int /\ v \in Int /\ p \in Int /\ q \in Int /\ real \in Int /\ real' \in Int
            /\ v <= u /\ u + q <= real /\ p + real <= q + real'
        <5>1. u \in Int /\ v \in Int /\ v <= u /\ u + q <= real
          BY <3>2
        <5>2. p \in Int /\ q \in Int
          BY <3>1
        <5>3. real \in Int
          BY <1>0
        <5>4. real' \in Int
          BY <3>1
        <5>5. p + real <= q + real'
          BY <3>1
        <5> QED
          BY <5>1, <5>2, <5>3, <5>4, <5>5
      <4> QED
        BY <4>1, RoomMoves
    <3>4. U' + p <= real'
      BY <3>3 DEF v
    <3> QED
      BY <3>4 DEF p
  <2>3. ASSUME NEW x \in b..s PROVE Then(b, x) + (x - b) + Most(0, now' - s) <= real'
    <3> DEFINE p == Most(0, now' - s)
               q == Most(0, now - s)
               o == Out(b, x)
               n == Then(b, x)
    <3>1. p \in Nat /\ q \in Nat /\ p + real <= q + real' /\ real' \in Int
      BY <1>4, <1>7
    <3>2. o + (x - b) + q <= real /\ n <= o
      BY <1>3, <1>7, <2>3
    <3> DEFINE d == x - b
    <3>3. o \in Nat /\ n \in Nat /\ d \in Int /\ o + d + q <= real
      BY <1>0, <1>2, <2>3, <3>2
    <3> HIDE DEF o, n, p, q, d
    <3>4. n + d + p <= real'
      <4>1. /\ o + d \in Int /\ n + d \in Int /\ p \in Int /\ q \in Int /\ real \in Int /\ real' \in Int
            /\ n + d <= o + d /\ (o + d) + q <= real /\ p + real <= q + real'
        <5>1. p \in Int /\ q \in Int
          BY <3>1
        <5>2. o + d \in Int /\ n + d \in Int /\ n + d <= o + d
          BY <3>2, <3>3
        <5>3. (o + d) + q <= real
          BY <3>3
        <5>4. real \in Int
          BY <1>0
        <5>5. real' \in Int
          BY <3>1
        <5>6. p + real <= q + real'
          BY <3>1
        <5> QED
          BY <5>1, <5>2, <5>3, <5>4, <5>5, <5>6
      <4> QED
        BY <4>1, RoomMoves
    <3> QED
      BY <3>4 DEF n, p, d
  <2> QED
    BY <2>1, <2>2, <2>3 DEF UnknownSound
<1>8. CASE SampleOthers
  <2>1. cursor' = cursor /\ now' = now /\ real' = real /\ traffic' = Pruned(traffic)
    BY <1>8 DEF SampleOthers, clocks
  <2>2. U' <= U /\ \A x : Then(b, x) <= Out(b, x)
    BY <1>0, <1>1, <2>1, PrunedOver
  <2>3. s # None => /\ Most(0, now' - s) \in Nat /\ real' \in Int
                    /\ Most(0, now' - s) + real <= Most(0, now - s) + real'
    BY <1>0, <1>4, <2>1
  <2> QED
    BY <1>7, <2>1, <2>2, <2>3
<1>9. ASSUME cursor' = cursor, traffic' = traffic,
             s # None => /\ Most(0, now' - s) \in Nat /\ real' \in Int
                         /\ Most(0, now' - s) + real <= Most(0, now - s) + real'
      PROVE  UnknownSound'
  <2>1. U' <= U /\ \A x : Then(b, x) <= Out(b, x)
    BY <1>2, <1>9
  <2> QED
    BY <1>7, <1>9, <2>1
<1>10. CASE Tick
  <2>1. cursor' = cursor /\ traffic' = traffic /\ now' = now + 1 /\ real' = real + 1
    BY <1>10 DEF Tick, tables
  <2>2. s # None => /\ Most(0, now' - s) \in Nat /\ real' \in Int
                    /\ Most(0, now' - s) + real <= Most(0, now - s) + real'
    BY <1>0, <2>1 DEF Most
  <2> QED
    BY <1>9, <2>1, <2>2
<1>11. CASE SetBack
  <2>1. cursor' = cursor /\ traffic' = traffic /\ now' \in 0..(s - 1) /\ real' = real /\ now = real
    BY <1>11 DEF SetBack, tables
  <2>2. s # None => /\ Most(0, now' - s) \in Nat /\ real' \in Int
                    /\ Most(0, now' - s) + real <= Most(0, now - s) + real'
    BY <1>0, <2>1 DEF Most
  <2> QED
    BY <1>9, <2>1, <2>2
<1>12. CASE ImportAccounts \/ (\E i \in Interfaces : Carry(i)) \/ RouterEvent \/ UNCHANGED vars
  <2>1. cursor' = cursor /\ now' = now /\ real' = real /\ traffic' = traffic
    BY <1>12 DEF ImportAccounts, Carry, RouterEvent, vars, tables, clocks
  <2>2. s # None => /\ Most(0, now' - s) \in Nat /\ real' \in Int
                    /\ Most(0, now' - s) + real <= Most(0, now - s) + real'
    BY <1>0, <1>4, <2>1
  <2> QED
    BY <1>9, <2>1, <2>2
<1> QED
  BY <1>6, <1>8, <1>10, <1>11, <1>12 DEF Next, Rest

-----------------------------------------------------------------------------
(* The theorems.                                                           *)

LEMMA Initial == Init => IInv
<1> SUFFICES ASSUME Init PROVE IInv
  OBVIOUS
<1>1. /\ now = 0 /\ real = 0 /\ booted = 0 /\ listed = TRUE
      /\ port \in [Interfaces -> [state : {"absent", "down", "up"}, octets : {0, 1},
                                  discontinuity : {0}]]
      /\ cursor = NoCursor /\ traffic = [m \in Minutes |-> EmptyRow]
      /\ carried = None /\ reading = NoReading /\ events = 0
  BY DEF Init
<1>2. TypeOK
  <2>1. 0 \in Times /\ 0 \in 0..MaxTime /\ 0 \in 0..MaxEvents
    BY Constants DEF Times
  <2>2. port \in [Interfaces -> [state : {"absent", "down", "up"}, octets : 0..MaxOctets,
                                 discontinuity : 0..MaxEvents]]
    <3>1. 0 \in 0..MaxOctets /\ 1 \in 0..MaxOctets
      BY FleetStoreAssumption
    <3> QED
      BY <1>1, <2>1, <3>1
  <2>3. cursor \in [index : Interfaces \cup {None}, octets : 0..MaxOctets \cup {None},
                    discontinuity : 0..MaxEvents \cup {None}, uptime : Times \cup {None},
                    sampledAt : Times \cup {None}, baselineAt : Times \cup {None},
                    valid : BOOLEAN]
    BY <1>1 DEF NoCursor
  <2>4. traffic \in [Minutes -> [Fields -> Nat]]
    <3>1. EmptyRow \in [Fields -> Nat]
      BY AmountsAre DEF EmptyRow
    <3> QED
      BY <1>1, <3>1
  <2> QED
    BY <1>1, <2>1, <2>2, <2>3, <2>4 DEF TypeOK
<1>3. /\ cursor.index = None /\ cursor.sampledAt = None /\ cursor.baselineAt = None
      /\ cursor.valid = FALSE
  BY <1>1 DEF NoCursor
<1>4. CursorSound
  BY <1>1, <1>3 DEF CursorSound
<1>5. ClocksSound
  BY <1>1, <1>3 DEF ClocksSound, None
<1>6. MeasuredSound
  <2>1. Over(traffic, "measured", Minutes) = 0
    BY <1>2, <1>3, <1>4, NothingYet, FieldsAre
  <2>2. Most(0, carried) = 0
    BY <1>1 DEF Most, None
  <2> QED
    BY <1>3, <2>1, <2>2 DEF MeasuredSound
<1>7. ReadingSound /\ GapSound /\ SampledSound /\ UnknownSound
  BY <1>1, <1>3 DEF ReadingSound, GapSound, SampledSound, UnknownSound
<1> QED
  BY <1>2, <1>4, <1>5, <1>6, <1>7 DEF IInv

LEMMA StepKeepsIInv == IInv /\ [Next]_vars => IInv'
<1> SUFFICES ASSUME IInv, [Next]_vars PROVE IInv'
  OBVIOUS
<1>1. /\ TypeOK /\ CursorSound /\ ClocksSound
      /\ MeasuredSound /\ ReadingSound /\ GapSound /\ SampledSound /\ UnknownSound
  BY DEF IInv
<1>2. TypeOK' /\ CursorSound' /\ ClocksSound'
  BY <1>1, TypeStep, CursorStep, ClocksStep
<1>3. MeasuredSound' /\ ReadingSound'
  BY <1>1, MeasuredStep, ReadingStep
<1>4. GapSound'
  BY <1>1, GapStep
<1>5. SampledSound' /\ UnknownSound'
  BY <1>1, SampledStep, UnknownStep
<1> QED
  BY <1>2, <1>3, <1>4, <1>5 DEF IInv

LEMMA Invariance == Spec => []IInv
BY Initial, StepKeepsIInv, PTL DEF Spec

LEMMA TotalIs ==
    ASSUME NEW field PROVE Total(field) = Over(traffic, field, Minutes)
BY DEF Total, Over, Column

\* Every reachable state of the accounting is well typed (record_snmp and its tables).
THEOREM TypeCorrect == Spec => []TypeOK
BY Invariance, PTL DEF IInv

\* Every byte that record_snmp measures was carried by the account, and no byte is measured
\* twice.
THEOREM BytesMeasuredOnce == Spec => []MeasuredOnce
<1>1. IInv => MeasuredOnce
  BY TotalIs DEF IInv, MeasuredSound, MeasuredOnce
<1> QED
  BY <1>1, Invariance, PTL

\* As long as the router counts the bytes on one interface and the line is not faster than
\* it can be, record_snmp refuses none of them: what the line had carried when it was last
\* read is all measured.
THEOREM NothingLost == Spec => []ContinuousIsComplete
<1>1. IInv => ContinuousIsComplete
  BY TotalIs DEF IInv, ReadingSound, ContinuousIsComplete
<1> QED
  BY <1>1, Invariance, PTL

\* The time since the last sample of an interface that is gone is in the table as unknown.
THEOREM GapsReported == Spec => []GapIsUnknown
<1>1. IInv => GapIsUnknown
  <2> SUFFICES ASSUME IInv, cursor.baselineAt # None, Kept(cursor.baselineAt)
               PROVE  TotalIn("unknown", Minute(cursor.baselineAt)..Minute(MaxTime))
                          >= cursor.sampledAt - cursor.baselineAt
    BY DEF GapIsUnknown
  <2>1. TotalIn("unknown", Minute(cursor.baselineAt)..Minute(MaxTime))
          = Over(traffic, "unknown", (Minute(cursor.baselineAt)..Minute(MaxTime)) \cap Minutes)
    BY DEF TotalIn, Over, Column
  <2> QED
    BY <2>1 DEF IInv, GapSound
<1> QED
  BY <1>1, Invariance, PTL

\* However often the clock shows a second, and however often a gap is booked, cleared and
\* booked again, the table accounts for it once.
THEOREM SecondsAccountedOnce == Spec => []AccountedOnce
<1>1. IInv => AccountedOnce
  <2> SUFFICES ASSUME IInv PROVE AccountedOnce
    OBVIOUS
  <2> DEFINE sampled == Over(traffic, "sampled", Minutes)
             unknown == Over(traffic, "unknown", Minutes)
  <2>1. TypeOK /\ CursorSound /\ SampledSound /\ UnknownSound
    BY DEF IInv
  <2>2. now \in Int /\ real \in Int /\ 0 <= real /\ sampled \in Nat /\ unknown \in Nat
    BY <2>1, TypedClocks, RowsTyped, OverIsNat, FieldsAre
  <2>3. CASE cursor.sampledAt = None
    <3>1. sampled = 0 /\ unknown = 0
      BY <2>1, <2>3, NothingYet, FieldsAre
    <3> QED
      BY <2>2, <3>1, TotalIs DEF AccountedOnce
  <2>4. CASE cursor.sampledAt # None
    <3>1. sampled + Most(0, now - Baseline) <= real
      BY <2>1, <2>4 DEF SampledSound
    <3>2. unknown + Most(0, now - cursor.sampledAt) <= real
      BY <2>1, <2>4 DEF UnknownSound
    <3>3. Most(0, now - Baseline) \in Nat /\ Most(0, now - cursor.sampledAt) \in Nat
      BY <2>1, <2>2, <2>4, TypedCursor DEF Most, Times
    <3> HIDE DEF sampled, unknown
    <3>4. sampled <= real /\ unknown <= real
      BY <2>2, <3>1, <3>2, <3>3
    <3> QED
      BY <3>4, TotalIs DEF AccountedOnce, sampled, unknown
  <2> QED
    BY <2>3, <2>4
<1> QED
  BY <1>1, Invariance, PTL

=============================================================================
