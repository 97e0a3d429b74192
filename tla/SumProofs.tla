----------------------------- MODULE SumProofs -----------------------------
(***************************************************************************)
(* Lemmas about SumFunctionOnSet(f, S), the sum of f over a finite set,    *)
(* which the models use for balances, debts and stocks.  Its definition    *)
(* picks elements one by one with CHOOSE; the lemmas say that the choice   *)
(* does not matter.  Each is proved from a least counterexample under      *)
(* strict inclusion, which is well founded on the subsets of a finite set. *)
(***************************************************************************)
EXTENDS Integers, FiniteSets, Functions, FiniteSetTheorems, WellFoundedInduction, TLAPS

(* The element a sum takes first.                                          *)
Pick(s) == CHOOSE x \in s : TRUE

(* g gives every part of S its sum.                                        *)
Unfolds(g, f, S) ==
  g = [s \in SUBSET S |-> IF s = {} THEN 0 ELSE f[Pick(s)] + g[s \ {Pick(s)}]]

LEMMA Definition ==
  ASSUME NEW f, NEW S
  PROVE  SumFunctionOnSet(f, S) = (CHOOSE g : Unfolds(g, f, S))[S]
BY Zenon DEF SumFunctionOnSet, FoldFunctionOnSet, MapThenFoldSet, Unfolds, Pick

(* Among parts of a finite set there is one with no part among them.       *)
LEMMA LeastPart ==
  ASSUME NEW S, IsFiniteSet(S), NEW B \in SUBSET SUBSET S, B # {}
  PROVE  \E T \in B : \A U \in SUBSET T : U # T => U \notin B
<1>1. IsWellFoundedOn(StrictSubsetOrdering(S), FiniteSubsetsOf(S))
  BY FS_StrictSubsetOrderingWellFounded
<1>2. B \subseteq FiniteSubsetsOf(S)
  BY FS_Subset DEF FiniteSubsetsOf
<1>3. PICK T \in B : \A U \in B : ~(<<U, T>> \in StrictSubsetOrdering(S))
  BY <1>1, <1>2, WFMin
<1>4. ASSUME NEW U \in SUBSET T, U # T, U \in B PROVE FALSE
  <2>1. <<U, T>> \in StrictSubsetOrdering(S)
    BY <1>4 DEF StrictSubsetOrdering
  <2> QED BY <2>1, <1>3, <1>4
<1> QED BY <1>3, <1>4

LEMMA UnfoldsAt ==
  ASSUME NEW f, NEW S, NEW g, Unfolds(g, f, S), NEW s \in SUBSET S
  PROVE  g[s] = IF s = {} THEN 0 ELSE f[Pick(s)] + g[s \ {Pick(s)}]
BY Zenon DEF Unfolds

LEMMA PickIsIn ==
  ASSUME NEW s, s # {}
  PROVE  Pick(s) \in s
BY DEF Pick

(* Two functions that unfold agree where both do.                          *)
LEMMA Unique ==
  ASSUME NEW f, NEW S, IsFiniteSet(S), NEW T, NEW g, NEW h,
         Unfolds(g, f, S), Unfolds(h, f, T), NEW s \in SUBSET S, s \in SUBSET T
  PROVE  g[s] = h[s]
<1> DEFINE Bad == {u \in SUBSET S : u \in SUBSET T /\ g[u] # h[u]}
<1>1. SUFFICES ASSUME Bad # {} PROVE FALSE
  OBVIOUS
<1>2. PICK u \in Bad : \A v \in SUBSET u : v # u => v \notin Bad
  <2>1. Bad \in SUBSET SUBSET S
    OBVIOUS
  <2> HIDE DEF Bad
  <2> QED BY <1>1, <2>1, LeastPart
<1>3. u \in SUBSET S /\ u \in SUBSET T /\ g[u] # h[u]
  OBVIOUS
<1>4. u # {}
  <2>1. {} \in SUBSET S /\ {} \in SUBSET T
    OBVIOUS
  <2>2. g[{}] = 0 /\ h[{}] = 0
    BY <2>1, UnfoldsAt
  <2> QED BY <1>3, <2>2
<1>5. Pick(u) \in u
  BY <1>4, PickIsIn
<1>6. g[u \ {Pick(u)}] = h[u \ {Pick(u)}]
  <2>1. u \ {Pick(u)} \in SUBSET u /\ u \ {Pick(u)} # u
    BY <1>5
  <2> QED BY <2>1, <1>2, <1>3
<1>7. g[u] = f[Pick(u)] + g[u \ {Pick(u)}] /\ h[u] = f[Pick(u)] + h[u \ {Pick(u)}]
  BY <1>3, <1>4, UnfoldsAt
<1> QED BY <1>3, <1>6, <1>7

(* Every finite set has a function that unfolds over it.                   *)
LEMMA SomeUnfolds ==
  ASSUME NEW f, NEW S, IsFiniteSet(S)
  PROVE  \E g : Unfolds(g, f, S)
<1> DEFINE Bad == {u \in SUBSET S : ~ \E g : Unfolds(g, f, u)}
<1>1. SUFFICES ASSUME Bad # {} PROVE FALSE
  OBVIOUS
<1>2. PICK u \in Bad : \A v \in SUBSET u : v # u => v \notin Bad
  <2>1. Bad \in SUBSET SUBSET S
    OBVIOUS
  <2> HIDE DEF Bad
  <2> QED BY <1>1, <2>1, LeastPart
<1>3. u \in SUBSET S /\ ~ \E g : Unfolds(g, f, u)
  OBVIOUS
<1> DEFINE at(v) == (CHOOSE g : Unfolds(g, f, v))[v]
           sum == [s \in SUBSET u |->
                    IF s = {} THEN 0 ELSE f[Pick(s)] + at(s \ {Pick(s)})]
<1>4. ASSUME NEW v \in SUBSET u, v # u
      PROVE  Unfolds(CHOOSE g : Unfolds(g, f, v), f, v) /\ IsFiniteSet(v)
  <2>1. v \in SUBSET S /\ \E g : Unfolds(g, f, v)
    BY <1>2, <1>3, <1>4
  <2> QED BY <2>1, FS_Subset
<1>5. ASSUME NEW s \in SUBSET u, s # u
      PROVE  sum[s] = at(s)
  <2>1. at(s) = IF s = {} THEN 0 ELSE f[Pick(s)] + (CHOOSE g : Unfolds(g, f, s))[s \ {Pick(s)}]
    <3>1. s \in SUBSET s
      OBVIOUS
    <3> QED BY <1>4, <1>5, <3>1, UnfoldsAt
  <2>2. CASE s = {}
    BY <2>1, <2>2
  <2>3. CASE s # {}
    <3>1. Pick(s) \in s
      BY <2>3, PickIsIn
    <3> DEFINE r == s \ {Pick(s)}
    <3>2. r \in SUBSET u /\ r # u /\ r \in SUBSET s /\ r \in SUBSET r
      BY <3>1
    <3>3. (CHOOSE g : Unfolds(g, f, s))[r] = at(r)
      BY <1>4, <1>5, <3>2, Unique
    <3>4. sum[s] = f[Pick(s)] + at(r)
      BY <2>3
    <3> QED BY <2>1, <2>3, <3>3, <3>4
  <2> QED BY <2>2, <2>3
<1>6. \A s \in SUBSET u : s # {} => sum[s \ {Pick(s)}] = at(s \ {Pick(s)})
  <2> TAKE s \in SUBSET u
  <2> HAVE s # {}
  <2>1. s \ {Pick(s)} \in SUBSET u /\ s \ {Pick(s)} # u
    BY PickIsIn
  <2> HIDE DEF sum, at
  <2> QED BY <2>1, <1>5
<1>7. sum = [s \in SUBSET u |-> IF s = {} THEN 0 ELSE f[Pick(s)] + sum[s \ {Pick(s)}]]
  <2> HIDE DEF at
  <2> DEFINE e(s) == IF s = {} THEN 0 ELSE f[Pick(s)] + sum[s \ {Pick(s)}]
             d(s) == IF s = {} THEN 0 ELSE f[Pick(s)] + at(s \ {Pick(s)})
  <2>1. \A s \in SUBSET u : e(s) = d(s)
    <3> HIDE DEF sum
    <3> QED BY <1>6
  <2>2. sum = [s \in SUBSET u |-> d(s)]
    OBVIOUS
  <2>3. [s \in SUBSET u |-> e(s)] = [s \in SUBSET u |-> d(s)]
    <3> HIDE DEF e, d, sum
    <3> QED BY <2>1
  <2> QED BY <2>2, <2>3
<1>8. Unfolds(sum, f, u)
  <2> HIDE DEF sum
  <2> QED BY <1>7 DEF Unfolds
<1> QED
  <2> HIDE DEF sum
  <2> QED BY <1>3, <1>8

-----------------------------------------------------------------------------
(* What SumFunctionOnSet computes.                                         *)

LEMMA SumUnfolds ==
  ASSUME NEW f, NEW S, IsFiniteSet(S)
  PROVE  SumFunctionOnSet(f, S) =
           IF S = {} THEN 0 ELSE f[Pick(S)] + SumFunctionOnSet(f, S \ {Pick(S)})
<1> DEFINE g(T) == CHOOSE h : Unfolds(h, f, T)
<1>1. \A T \in SUBSET S : Unfolds(g(T), f, T) /\ SumFunctionOnSet(f, T) = g(T)[T]
  <2> TAKE T \in SUBSET S
  <2>1. IsFiniteSet(T)
    BY FS_Subset
  <2>2. \E h : Unfolds(h, f, T)
    BY <2>1, SomeUnfolds
  <2> QED BY <2>2, Definition
<1>2. S \in SUBSET S
  OBVIOUS
<1>3. g(S)[S] = IF S = {} THEN 0 ELSE f[Pick(S)] + g(S)[S \ {Pick(S)}]
  BY <1>1, <1>2, UnfoldsAt
<1>4. CASE S = {}
  BY <1>1, <1>2, <1>3, <1>4
<1>5. CASE S # {}
  <2> DEFINE R == S \ {Pick(S)}
  <2>1. R \in SUBSET S /\ R \in SUBSET R
    OBVIOUS
  <2>2. g(S)[R] = g(R)[R]
    <3> HIDE DEF g, R
    <3> QED BY <1>1, <1>2, <2>1, Unique
  <2> QED BY <1>1, <1>2, <1>3, <1>5, <2>1, <2>2
<1> QED BY <1>4, <1>5

(* The sum of nothing, and of integers.                                    *)
LEMMA SumEmpty ==
  ASSUME NEW f
  PROVE  SumFunctionOnSet(f, {}) = 0
BY SumUnfolds, FS_EmptySet

LEMMA SumInt ==
  ASSUME NEW S, IsFiniteSet(S), NEW f, \A x \in S : f[x] \in Int
  PROVE  SumFunctionOnSet(f, S) \in Int
<1> DEFINE Bad == {u \in SUBSET S : SumFunctionOnSet(f, u) \notin Int}
<1>1. SUFFICES ASSUME Bad # {} PROVE FALSE
  OBVIOUS
<1>2. PICK u \in Bad : \A v \in SUBSET u : v # u => v \notin Bad
  <2>1. Bad \in SUBSET SUBSET S
    OBVIOUS
  <2> HIDE DEF Bad
  <2> QED BY <1>1, <2>1, LeastPart
<1>3. u \in SUBSET S /\ SumFunctionOnSet(f, u) \notin Int /\ IsFiniteSet(u)
  BY FS_Subset
<1>4. u # {}
  BY <1>3, SumEmpty
<1>5. Pick(u) \in u
  BY <1>4, PickIsIn
<1>6. u \ {Pick(u)} \in SUBSET u /\ u \ {Pick(u)} # u
  BY <1>5
<1>7. SumFunctionOnSet(f, u \ {Pick(u)}) \in Int
  BY <1>2, <1>3, <1>6
<1>8. SumFunctionOnSet(f, u) = f[Pick(u)] + SumFunctionOnSet(f, u \ {Pick(u)})
  BY <1>3, <1>4, SumUnfolds
<1>9. f[Pick(u)] \in Int
  BY <1>3, <1>5
<1> QED BY <1>3, <1>7, <1>8, <1>9

(* Any element may be taken first.                                         *)
LEMMA SumSplits ==
  ASSUME NEW S, IsFiniteSet(S), NEW f, \A y \in S : f[y] \in Int, NEW x \in S
  PROVE  SumFunctionOnSet(f, S) = f[x] + SumFunctionOnSet(f, S \ {x})
<1> DEFINE Sum(u) == SumFunctionOnSet(f, u)
           Bad == {u \in SUBSET S : \E y \in u : Sum(u) # f[y] + Sum(u \ {y})}
<1>1. SUFFICES ASSUME Bad # {} PROVE FALSE
  OBVIOUS
<1>2. PICK u \in Bad : \A v \in SUBSET u : v # u => v \notin Bad
  <2>1. Bad \in SUBSET SUBSET S
    OBVIOUS
  <2> HIDE DEF Bad
  <2> QED BY <1>1, <2>1, LeastPart
<1>3. PICK y \in u : Sum(u) # f[y] + Sum(u \ {y})
  OBVIOUS
<1> DEFINE c == Pick(u)
<1>4. u \in SUBSET S /\ c \in u
  BY <1>3, PickIsIn
<1>5. \A v \in SUBSET u : IsFiniteSet(v) /\ Sum(v) \in Int
  <2> TAKE v \in SUBSET u
  <2>1. IsFiniteSet(v)
    BY <1>4, FS_Subset
  <2>2. \A z \in v : f[z] \in Int
    BY <1>4
  <2> HIDE DEF c
  <2> QED BY <2>1, <2>2, SumInt
<1>6. Sum(u) = f[c] + Sum(u \ {c})
  <2>1. IsFiniteSet(u)
    BY <1>5
  <2> QED BY <1>3, <2>1, SumUnfolds
<1>7. y # c
  BY <1>3, <1>6
<1>8. \A v \in SUBSET u : v # u => \A z \in v : Sum(v) = f[z] + Sum(v \ {z})
  <2> TAKE v \in SUBSET u
  <2> HAVE v # u
  <2>1. v \notin Bad /\ v \in SUBSET S
    BY <1>2, <1>4
  <2> QED BY <2>1
<1>9. Sum(u \ {c}) = f[y] + Sum((u \ {c}) \ {y})
  <2> HIDE DEF Sum, c
  <2> QED BY <1>4, <1>7, <1>8
<1>10. Sum(u \ {y}) = f[c] + Sum((u \ {y}) \ {c})
  <2> HIDE DEF Sum, c
  <2> QED BY <1>4, <1>7, <1>8
<1>11. (u \ {c}) \ {y} = (u \ {y}) \ {c}
  OBVIOUS
<1>12. f[c] \in Int /\ f[y] \in Int /\ Sum((u \ {c}) \ {y}) \in Int
  <2> HIDE DEF Sum, c
  <2> QED BY <1>4, <1>5
<1> QED
  <2> DEFINE rest == Sum((u \ {c}) \ {y})
  <2>1. Sum(u) = f[c] + (f[y] + rest)
    <3> HIDE DEF Sum, c
    <3> QED BY <1>6, <1>9
  <2>2. f[y] + Sum(u \ {y}) = f[y] + (f[c] + rest)
    <3> HIDE DEF Sum, c
    <3> QED BY <1>10, <1>11
  <2>3. \A k, m, n \in Int : k + (m + n) = m + (k + n)
    OBVIOUS
  <2>4. Sum(u) # f[y] + Sum(u \ {y})
    BY <1>3
  <2> HIDE DEF Sum, c, rest
  <2> QED BY <1>12, <2>1, <2>2, <2>3, <2>4 DEF rest

(* Only the values on the set count.                                       *)
LEMMA SumSame ==
  ASSUME NEW S, IsFiniteSet(S), NEW f, NEW g, \A x \in S : f[x] = g[x]
  PROVE  SumFunctionOnSet(f, S) = SumFunctionOnSet(g, S)
<1> DEFINE Bad == {u \in SUBSET S : SumFunctionOnSet(f, u) # SumFunctionOnSet(g, u)}
<1>1. SUFFICES ASSUME Bad # {} PROVE FALSE
  OBVIOUS
<1>2. PICK u \in Bad : \A v \in SUBSET u : v # u => v \notin Bad
  <2>1. Bad \in SUBSET SUBSET S
    OBVIOUS
  <2> HIDE DEF Bad
  <2> QED BY <1>1, <2>1, LeastPart
<1>3. u \in SUBSET S /\ SumFunctionOnSet(f, u) # SumFunctionOnSet(g, u) /\ IsFiniteSet(u)
  BY FS_Subset
<1>4. u # {}
  BY <1>3, SumEmpty
<1>5. Pick(u) \in u
  BY <1>4, PickIsIn
<1>6. u \ {Pick(u)} \in SUBSET u /\ u \ {Pick(u)} # u
  BY <1>5
<1>7. SumFunctionOnSet(f, u \ {Pick(u)}) = SumFunctionOnSet(g, u \ {Pick(u)})
  BY <1>2, <1>3, <1>6
<1>8. /\ SumFunctionOnSet(f, u) = f[Pick(u)] + SumFunctionOnSet(f, u \ {Pick(u)})
      /\ SumFunctionOnSet(g, u) = g[Pick(u)] + SumFunctionOnSet(g, u \ {Pick(u)})
  BY <1>3, <1>4, SumUnfolds
<1> QED BY <1>3, <1>5, <1>7, <1>8

(* An element that is added.                                               *)
LEMMA SumAdds ==
  ASSUME NEW S, IsFiniteSet(S), NEW x, x \notin S, NEW f, \A y \in S \cup {x} : f[y] \in Int
  PROVE  SumFunctionOnSet(f, S \cup {x}) = f[x] + SumFunctionOnSet(f, S)
<1>1. IsFiniteSet(S \cup {x})
  BY FS_AddElement
<1>2. x \in S \cup {x} /\ (S \cup {x}) \ {x} = S
  OBVIOUS
<1> QED BY <1>1, <1>2, SumSplits

(* A value that changes.                                                   *)
LEMMA SumChanges ==
  ASSUME NEW S, IsFiniteSet(S), NEW x \in S, NEW f, NEW g, \A y \in S : f[y] \in Int,
         g[x] \in Int, \A y \in S \ {x} : g[y] = f[y]
  PROVE  SumFunctionOnSet(g, S) = SumFunctionOnSet(f, S) - f[x] + g[x]
<1>1. IsFiniteSet(S \ {x}) /\ \A y \in S : g[y] \in Int
  BY FS_RemoveElement
<1>2. SumFunctionOnSet(f, S) = f[x] + SumFunctionOnSet(f, S \ {x})
  BY SumSplits
<1>3. SumFunctionOnSet(g, S) = g[x] + SumFunctionOnSet(g, S \ {x})
  BY <1>1, SumSplits
<1>4. SumFunctionOnSet(g, S \ {x}) = SumFunctionOnSet(f, S \ {x})
  BY <1>1, SumSame
<1>5. SumFunctionOnSet(f, S \ {x}) \in Int /\ f[x] \in Int
  BY <1>1, SumInt
<1> QED BY <1>2, <1>3, <1>4, <1>5

(* Two sets that have nothing in common.                                   *)
LEMMA SumUnion ==
  ASSUME NEW S, IsFiniteSet(S), NEW T, IsFiniteSet(T), S \cap T = {},
         NEW f, \A x \in S \cup T : f[x] \in Int
  PROVE  SumFunctionOnSet(f, S \cup T) = SumFunctionOnSet(f, S) + SumFunctionOnSet(f, T)
<1> DEFINE Sum(u) == SumFunctionOnSet(f, u)
           Bad == {u \in SUBSET T : Sum(S \cup u) # Sum(S) + Sum(u)}
<1>1. SUFFICES ASSUME Bad # {} PROVE FALSE
  OBVIOUS
<1>2. PICK u \in Bad : \A v \in SUBSET u : v # u => v \notin Bad
  <2>1. Bad \in SUBSET SUBSET T
    OBVIOUS
  <2> HIDE DEF Bad
  <2> QED BY <1>1, <2>1, LeastPart
<1>3. u \in SUBSET T /\ Sum(S \cup u) # Sum(S) + Sum(u)
  OBVIOUS
<1>4. \A v \in SUBSET T : /\ IsFiniteSet(v) /\ IsFiniteSet(S \cup v) /\ Sum(v) \in Int /\ Sum(S) \in Int
  <2> TAKE v \in SUBSET T
  <2>1. IsFiniteSet(v)
    BY FS_Subset
  <2>2. IsFiniteSet(S \cup v)
    BY <2>1, FS_Union
  <2>3. Sum(v) \in Int
    <3>1. \A x \in v : f[x] \in Int
      OBVIOUS
    <3> QED BY <2>1, <3>1, SumInt
  <2>4. Sum(S) \in Int
    <3>1. \A x \in S : f[x] \in Int
      OBVIOUS
    <3> QED BY <3>1, SumInt
  <2> QED BY <2>1, <2>2, <2>3, <2>4
<1>5. u # {}
  <2>1. Sum({}) = 0
    BY SumEmpty
  <2>2. Sum(S) \in Int
    BY <1>3, <1>4
  <2>3. u = {} => S \cup u = S
    OBVIOUS
  <2> HIDE DEF Sum
  <2> QED BY <1>3, <2>1, <2>2, <2>3
<1> DEFINE x == Pick(u)  v == u \ {x}
<1>6. /\ x \in u /\ x \notin v /\ x \notin S \cup v /\ v \in SUBSET T /\ v \in SUBSET u /\ v # u
      /\ u = v \cup {x} /\ S \cup u = (S \cup v) \cup {x} /\ f[x] \in Int
  BY <1>3, <1>5, PickIsIn
<1> HIDE DEF x, v
<1>7. Sum(S \cup v) = Sum(S) + Sum(v)
  BY <1>2, <1>6
<1>8. Sum(S \cup u) = f[x] + Sum(S \cup v)
  <2>1. \A y \in (S \cup v) \cup {x} : f[y] \in Int
    BY <1>6
  <2>2. IsFiniteSet(S \cup v)
    BY <1>4, <1>6
  <2>3. SumFunctionOnSet(f, (S \cup v) \cup {x}) = f[x] + SumFunctionOnSet(f, S \cup v)
    BY <1>6, <2>1, <2>2, SumAdds
  <2> QED BY <1>6, <2>3
<1>9. Sum(u) = f[x] + Sum(v)
  <2>1. \A y \in v \cup {x} : f[y] \in Int
    BY <1>6
  <2>2. IsFiniteSet(v)
    BY <1>4, <1>6
  <2>3. SumFunctionOnSet(f, v \cup {x}) = f[x] + SumFunctionOnSet(f, v)
    BY <1>6, <2>1, <2>2, SumAdds
  <2> QED BY <1>6, <2>3
<1>10. Sum(S) \in Int /\ Sum(v) \in Int
  BY <1>4, <1>6
<1> HIDE DEF Sum
<1> QED BY <1>3, <1>6, <1>7, <1>8, <1>9, <1>10

LEMMA SumNat ==
  ASSUME NEW S, IsFiniteSet(S), NEW f, \A x \in S : f[x] \in Nat
  PROVE  SumFunctionOnSet(f, S) \in Nat
<1> DEFINE Bad == {u \in SUBSET S : SumFunctionOnSet(f, u) \notin Nat}
<1>1. SUFFICES ASSUME Bad # {} PROVE FALSE
  OBVIOUS
<1>2. PICK u \in Bad : \A v \in SUBSET u : v # u => v \notin Bad
  <2>1. Bad \in SUBSET SUBSET S
    OBVIOUS
  <2> HIDE DEF Bad
  <2> QED BY <1>1, <2>1, LeastPart
<1>3. u \in SUBSET S /\ SumFunctionOnSet(f, u) \notin Nat /\ IsFiniteSet(u)
  BY FS_Subset
<1>4. u # {}
  BY <1>3, SumEmpty
<1>5. Pick(u) \in u
  BY <1>4, PickIsIn
<1>6. u \ {Pick(u)} \in SUBSET u /\ u \ {Pick(u)} # u
  BY <1>5
<1>7. SumFunctionOnSet(f, u \ {Pick(u)}) \in Nat
  BY <1>2, <1>3, <1>6
<1>8. SumFunctionOnSet(f, u) = f[Pick(u)] + SumFunctionOnSet(f, u \ {Pick(u)})
  BY <1>3, <1>4, SumUnfolds
<1>9. f[Pick(u)] \in Nat
  BY <1>3, <1>5
<1> QED BY <1>3, <1>7, <1>8, <1>9

(* Sums of sums.                                                           *)
LEMMA SumPlus ==
  ASSUME NEW S, IsFiniteSet(S), NEW f, NEW g, NEW h,
         \A x \in S : f[x] \in Int /\ g[x] \in Int /\ h[x] = f[x] + g[x]
  PROVE  SumFunctionOnSet(h, S) = SumFunctionOnSet(f, S) + SumFunctionOnSet(g, S)
<1> DEFINE Sum(k, u) == SumFunctionOnSet(k, u)
           Bad == {u \in SUBSET S : Sum(h, u) # Sum(f, u) + Sum(g, u)}
<1>1. SUFFICES ASSUME Bad # {} PROVE FALSE
  OBVIOUS
<1>2. PICK u \in Bad : \A v \in SUBSET u : v # u => v \notin Bad
  <2>1. Bad \in SUBSET SUBSET S
    OBVIOUS
  <2> HIDE DEF Bad
  <2> QED BY <1>1, <2>1, LeastPart
<1>3. u \in SUBSET S /\ Sum(h, u) # Sum(f, u) + Sum(g, u) /\ IsFiniteSet(u)
  BY FS_Subset
<1>4. u # {}
  <2>1. \A k : Sum(k, {}) = 0
    BY SumEmpty
  <2> HIDE DEF Sum
  <2> QED BY <1>3, <2>1
<1> DEFINE x == Pick(u)  v == u \ {x}
<1>5. x \in u /\ v \in SUBSET u /\ v # u /\ v \in SUBSET S /\ x \in S
  BY <1>3, <1>4, PickIsIn
<1>6. Sum(h, v) = Sum(f, v) + Sum(g, v)
  BY <1>2, <1>5
<1>7. Sum(h, u) = h[x] + Sum(h, v) /\ Sum(f, u) = f[x] + Sum(f, v) /\ Sum(g, u) = g[x] + Sum(g, v)
  BY <1>3, <1>4, SumUnfolds
<1>8. Sum(f, v) \in Int /\ Sum(g, v) \in Int
  <2>1. IsFiniteSet(v) /\ \A y \in v : f[y] \in Int /\ g[y] \in Int
    BY <1>3, <1>5, FS_Subset
  <2> HIDE DEF v
  <2> QED BY <2>1, SumInt
<1>9. f[x] \in Int /\ g[x] \in Int /\ h[x] = f[x] + g[x]
  BY <1>5
<1> HIDE DEF Sum, x, v
<1> QED BY <1>3, <1>6, <1>7, <1>8, <1>9

(* What is zero outside of a part adds nothing to it.                      *)
LEMMA SumOver ==
  ASSUME NEW S, IsFiniteSet(S), NEW T \in SUBSET S, NEW f,
         \A x \in T : f[x] \in Int, \A x \in S \ T : f[x] = 0
  PROVE  SumFunctionOnSet(f, S) = SumFunctionOnSet(f, T)
<1>1. IsFiniteSet(T) /\ IsFiniteSet(S \ T)
  BY FS_Subset, FS_Difference
<1>2. T \cap (S \ T) = {} /\ T \cup (S \ T) = S /\ \A x \in S : f[x] \in Int
  OBVIOUS
<1>3. SumFunctionOnSet(f, T \cup (S \ T)) = SumFunctionOnSet(f, T) + SumFunctionOnSet(f, S \ T)
  BY <1>1, <1>2, SumUnion
<1>4. SumFunctionOnSet(f, S \ T) = 0
  <2> DEFINE z == [x \in S \ T |-> 0]
  <2>1. SumFunctionOnSet(z, S \ T) = SumFunctionOnSet(z, S \ T) + SumFunctionOnSet(z, S \ T)
    BY <1>1, SumPlus
  <2>2. SumFunctionOnSet(z, S \ T) \in Int
    BY <1>1, SumInt
  <2>3. SumFunctionOnSet(f, S \ T) = SumFunctionOnSet(z, S \ T)
    BY <1>1, SumSame
  <2>4. \A n \in Int : n = n + n => n = 0
    OBVIOUS
  <2> HIDE DEF z
  <2>5. SumFunctionOnSet(z, S \ T) = 0
    BY <2>1, <2>2, <2>4
  <2> QED BY Zenon, <2>3, <2>5
<1>5. SumFunctionOnSet(f, T) \in Int
  BY <1>1, SumInt
<1>6. SumFunctionOnSet(f, S) = SumFunctionOnSet(f, T) + 0
  BY Zenon, <1>2, <1>3, <1>4
<1> QED BY <1>5, <1>6

(* A sum of one.                                                           *)
LEMMA SumOne ==
  ASSUME NEW x, NEW f, f[x] \in Int
  PROVE  SumFunctionOnSet(f, {x}) = f[x]
<1>1. IsFiniteSet({x}) /\ {x} \ {x} = {} /\ \A y \in {x} : f[y] \in Int
  BY FS_Singleton
<1>2. SumFunctionOnSet(f, {x}) = f[x] + SumFunctionOnSet(f, {x} \ {x})
  BY <1>1, SumSplits
<1> QED BY <1>1, <1>2, SumEmpty

(* The sum over a set that gains or loses an element.                      *)
LEMMA SumJoined ==
  ASSUME NEW S, IsFiniteSet(S), NEW p, p \notin S, NEW f, NEW g,
         \A x \in S : f[x] \in Int /\ g[x] = f[x], g[p] \in Int
  PROVE  /\ SumFunctionOnSet(g, S \cup {p}) = SumFunctionOnSet(f, S) + g[p]
         /\ SumFunctionOnSet(f, S) \in Int
<1>1. \A x \in S \cup {p} : g[x] \in Int
  OBVIOUS
<1>2. SumFunctionOnSet(g, S \cup {p}) = g[p] + SumFunctionOnSet(g, S)
  BY <1>1, SumAdds
<1>3. SumFunctionOnSet(g, S) = SumFunctionOnSet(f, S) /\ SumFunctionOnSet(f, S) \in Int
  BY SumSame, SumInt
<1> QED BY <1>2, <1>3

LEMMA SumLeft ==
  ASSUME NEW S, IsFiniteSet(S), NEW p \in S, NEW f, NEW g, NEW T, T = S \ {p},
         \A x \in S : f[x] \in Int, \A x \in T : g[x] = f[x]
  PROVE  /\ SumFunctionOnSet(g, T) = SumFunctionOnSet(f, S) - f[p]
         /\ SumFunctionOnSet(f, S) \in Int
<1>1. SumFunctionOnSet(f, S) = f[p] + SumFunctionOnSet(f, S \ {p})
  BY SumSplits
<1>2. IsFiniteSet(T)
  BY FS_RemoveElement
<1>3. SumFunctionOnSet(g, T) = SumFunctionOnSet(f, T) /\ SumFunctionOnSet(f, T) \in Int
  BY <1>2, SumSame, SumInt
<1> QED BY <1>1, <1>3

(* A sum is no more than that of the shares that cover its parts, which    *)
(* are disjoint.                                                           *)
LEMMA SumCovered ==
  ASSUME NEW K, IsFiniteSet(K), NEW U, IsFiniteSet(U), NEW h, NEW w, NEW A,
         \A u \in U : w[u] \in Nat, \A k \in K : A[k] \in SUBSET U,
         \A k, m \in K : k # m => A[k] \cap A[m] = {},
         \A k \in K : h[k] \in Nat /\ h[k] <= SumFunctionOnSet(w, A[k])
  PROVE  SumFunctionOnSet(h, K) <= SumFunctionOnSet(w, U)
<1> DEFINE Of(T) == UNION {A[k] : k \in T}
           Small(T) == SumFunctionOnSet(h, T)
           Large(T) == SumFunctionOnSet(w, T)
           Bad == {T \in SUBSET K : ~(Small(T) <= Large(Of(T)))}
<1>1. SUFFICES ASSUME Bad # {} PROVE FALSE
  <2>1. Small(K) <= Large(Of(K))
    BY <1>1
  <2>2. Of(K) \in SUBSET U /\ IsFiniteSet(Of(K)) /\ IsFiniteSet(U \ Of(K))
    <3>1. Of(K) \in SUBSET U
      OBVIOUS
    <3> QED BY <3>1, FS_Subset, FS_Difference
  <2>3. Large(Of(K) \cup (U \ Of(K))) = Large(Of(K)) + Large(U \ Of(K))
    <3> HIDE DEF Of
    <3>1. Of(K) \cap (U \ Of(K)) = {} /\ \A u \in Of(K) \cup (U \ Of(K)) : w[u] \in Int
      BY <2>2
    <3> QED BY <2>2, <3>1, SumUnion
  <2>4. Of(K) \cup (U \ Of(K)) = U
    BY <2>2
  <2>5. Large(Of(K)) \in Nat /\ Large(U \ Of(K)) \in Nat /\ Small(K) \in Nat
    <3>1. /\ \A u \in Of(K) : w[u] \in Nat
          /\ \A u \in U \ Of(K) : w[u] \in Nat
      BY <2>2
    <3> HIDE DEF Of
    <3> QED BY <2>2, <3>1, SumNat
  <2> HIDE DEF Of, Small, Large
  <2>6. Small(K) <= Large(U)
    <3>1. Large(U) = Large(Of(K)) + Large(U \ Of(K))
      BY <2>3, <2>4
    <3>2. \A i, j, n \in Nat : i <= j => i <= j + n
      OBVIOUS
    <3> QED BY <2>1, <2>5, <3>1, <3>2
  <2> QED BY <2>6 DEF Small, Large
<1>2. PICK T \in Bad : \A V \in SUBSET T : V # T => V \notin Bad
  <2>1. Bad \in SUBSET SUBSET K
    OBVIOUS
  <2> HIDE DEF Bad
  <2> QED BY <1>1, <2>1, LeastPart
<1>3. T \in SUBSET K /\ IsFiniteSet(T) /\ ~(Small(T) <= Large(Of(T)))
  BY FS_Subset
<1>4. T # {}
  <2>1. Of({}) = {}
    OBVIOUS
  <2>2. Small({}) = 0 /\ Large({}) = 0
    BY SumEmpty
  <2>3. Small({}) <= Large(Of({}))
    <3> HIDE DEF Of, Small, Large
    <3> QED BY <2>1, <2>2
  <2> HIDE DEF Of, Small, Large
  <2> QED BY <1>3, <2>3
<1>5. PICK k \in T : TRUE
  BY <1>4
<1> DEFINE R == T \ {k}
<1>6. Small(R) <= Large(Of(R)) /\ IsFiniteSet(R) /\ R \in SUBSET K /\ k \in K
  <2>1. R \in SUBSET T /\ R # T /\ R \in SUBSET K /\ k \in K
    BY <1>3
  <2>2. R \notin Bad
    BY <1>2, <2>1
  <2>3. Small(R) <= Large(Of(R))
    <3> HIDE DEF Small, Large, Of, R
    <3> QED BY <2>1, <2>2
  <2> QED BY <1>3, <2>1, <2>3, FS_Subset
<1>7. Of(T) = A[k] \cup Of(R) /\ A[k] \cap Of(R) = {}
  <2>1. ASSUME NEW m \in R PROVE A[k] \cap A[m] = {}
    BY <1>6
  <2>2. A[k] \cap Of(R) = {}
    BY <2>1
  <2>3. T = R \cup {k}
    OBVIOUS
  <2>4. Of(T) = A[k] \cup Of(R)
    BY <2>3
  <2> QED BY <2>2, <2>4
<1>8. A[k] \in SUBSET U /\ Of(R) \in SUBSET U /\ IsFiniteSet(A[k]) /\ IsFiniteSet(Of(R))
  <2>1. A[k] \in SUBSET U /\ Of(R) \in SUBSET U
    BY <1>6
  <2> QED BY <2>1, FS_Subset
<1>9. Large(A[k] \cup Of(R)) = Large(A[k]) + Large(Of(R))
  <2>1. \A u \in A[k] \cup Of(R) : w[u] \in Int
    BY <1>8
  <2> HIDE DEF Of
  <2> QED BY <1>7, <1>8, <2>1, SumUnion
<1>10. Small(T) = h[k] + Small(R)
  <2>1. \A m \in T : h[m] \in Int
    BY <1>3
  <2> QED BY <1>3, <2>1, SumSplits
<1>11. h[k] \in Nat /\ h[k] <= Large(A[k])
  BY <1>6
<1>12. Large(A[k]) \in Nat /\ Large(Of(R)) \in Nat /\ Small(R) \in Nat
  <2>1. /\ \A u \in A[k] : w[u] \in Nat
        /\ \A u \in Of(R) : w[u] \in Nat
        /\ \A m \in R : h[m] \in Nat
    BY <1>6, <1>8
  <2> HIDE DEF Of, R
  <2> QED BY <1>6, <1>8, <2>1, SumNat
<1>13. Large(Of(T)) = Large(A[k]) + Large(Of(R))
  BY <1>7, <1>9
<1> HIDE DEF Small, Large, Of, R
<1> QED BY <1>3, <1>6, <1>10, <1>11, <1>12, <1>13

=============================================================================
