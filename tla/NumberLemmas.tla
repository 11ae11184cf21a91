---------------------------- MODULE NumberLemmas ----------------------------
(***************************************************************************)
(* Minima and maxima of sets of numbers, and sums over finite sets, for    *)
(* the proofs of this project.  Induction is by minimal counterexamples: a *)
(* set of numbers has a least one, a family of subsets of a finite set a   *)
(* minimal one.                                                            *)
(***************************************************************************)
EXTENDS Integers, Functions, FiniteSetsExt, FiniteSetTheorems, TLAPS

(* The naturals are well founded by <. *)
LEMMA NatOrder ==
    \E R : /\ IsWellFoundedOn(R, Nat)
           /\ \A x, y \in Nat : x < y => <<x, y>> \in R
<1>1. \A x, y \in Nat : x < y => <<x, y>> \in OpToRel(<, Nat)
  BY DEF OpToRel
<1> QED BY <1>1, NatLessThanWellFounded, Zenon

(* A nonempty set of naturals has a minimum. *)
LEMMA NatMin ==
    ASSUME NEW S, \A x \in S : x \in Nat, S # {}
    PROVE  Min(S) \in S /\ \A y \in S : Min(S) <= y
<1>1. PICK R : /\ IsWellFoundedOn(R, Nat)
               /\ \A x, y \in Nat : x < y => <<x, y>> \in R
  BY NatOrder
<1>2. PICK x \in S : \A y \in S : ~ (<<y, x>> \in R)
  <2>1. S \subseteq Nat
    OBVIOUS
  <2>2. IsWellFoundedOn(R, Nat)
    BY <1>1
  <2>3. S # {}
    OBVIOUS
  <2> QED BY <2>1, <2>2, <2>3, WFMin, ZenonT(30)
<1>3. ASSUME NEW y \in S PROVE x <= y
  <2>1. x \in Nat /\ y \in Nat
    OBVIOUS
  <2>2. y < x => <<y, x>> \in R
    BY <1>1, <2>1, Zenon
  <2>3. ~ (y < x)
    BY <1>2, <2>2
  <2> QED BY <2>1, <2>3
<1> QED BY <1>3 DEF Min

(* A nonempty set of naturals bounded by n has a maximum. *)
LEMMA BoundedMax ==
    ASSUME NEW n \in Nat, NEW S, \A x \in S : x \in 0..n, S # {}
    PROVE  Max(S) \in S /\ \A y \in S : Max(S) >= y
<1> DEFINE T == {n - x : x \in S}
<1>1. (\A t \in T : t \in Nat) /\ T # {}
  OBVIOUS
<1>2. Min(T) \in T /\ \A t \in T : Min(T) <= t
  BY <1>1, NatMin
<1> HIDE DEF T
<1>3. PICK x \in S : Min(T) = n - x
  BY <1>2 DEF T
<1>4. \A y \in S : Min(T) <= n - y
  BY <1>2 DEF T
<1>5. \A y \in S : x >= y
  BY <1>3, <1>4
<1> QED BY <1>5 DEF Max

-----------------------------------------------------------------------------
(* A nonempty family of subsets of a finite set has a minimal member.      *)
LEMMA SmallestSubset ==
    ASSUME NEW S, IsFiniteSet(S), NEW T, T \subseteq SUBSET S, T # {}
    PROVE  \E U \in T : \A V \in T : V \subseteq U => V = U
<1> DEFINE R == StrictSubsetOrdering(S)
<1>1. IsWellFoundedOn(R, SUBSET S)
  BY FS_StrictSubsetOrderingWellFounded, FS_FiniteSubsetsOfFinite
<1>2. PICK U \in T : \A V \in T : ~ (<<V, U>> \in R)
  <2> HIDE DEF R
  <2> QED BY <1>1, WFMin, ZenonT(30)
<1>3. ASSUME NEW V \in T, V \subseteq U PROVE V = U
  <2>1. V \in SUBSET S /\ U \in SUBSET S
    OBVIOUS
  <2>2. <<V, U>> \notin R
    BY <1>2
  <2> QED BY <1>3, <2>1, <2>2 DEF StrictSubsetOrdering
<1> QED BY <1>3

(* The function that the fold over S defines. *)
Iter(g, f, S) ==
    g = [s \in SUBSET S |->
            IF s = {} THEN 0
            ELSE f[CHOOSE x \in s : TRUE] + g[s \ {CHOOSE x \in s : TRUE}]]

(* It is what the fold takes. *)
LEMMA SumIsIter ==
    ASSUME NEW f, NEW S
    PROVE  SumFunctionOnSet(f, S) = (CHOOSE g : Iter(g, f, S))[S]
BY DEF SumFunctionOnSet, FoldFunctionOnSet, MapThenFoldSet, Iter

(* Up to a size ... *)
Small(S, n) == {s \in SUBSET S : Cardinality(s) <= n}
IterUpTo(g, f, S, n) ==
    g = [s \in Small(S, n) |->
            IF s = {} THEN 0
            ELSE f[CHOOSE x \in s : TRUE] + g[s \ {CHOOSE x \in s : TRUE}]]

(* ... it exists, one size after the other. *)
LEMMA IterGrows ==
    ASSUME NEW f, NEW S, IsFiniteSet(S), NEW n \in Nat, NEW g, IterUpTo(g, f, S, n)
    PROVE  \E h : IterUpTo(h, f, S, n + 1)
<1> DEFINE ch(s) == CHOOSE x \in s : TRUE
           h == [s \in Small(S, n + 1) |->
                    IF s = {} THEN 0 ELSE f[ch(s)] + g[s \ {ch(s)}]]
<1>1. ASSUME NEW s \in Small(S, n + 1), s # {}
      PROVE  s \ {ch(s)} \in Small(S, n)
  <2>1. ch(s) \in s
    BY <1>1
  <2> HIDE DEF ch
  <2>2. s \in SUBSET S /\ IsFiniteSet(s) /\ Cardinality(s) <= n + 1 /\ Cardinality(s) \in Nat
    BY FS_Subset, FS_CardinalityType DEF Small
  <2>3. Cardinality(s \ {ch(s)}) = Cardinality(s) - 1
    BY <2>1, <2>2, FS_RemoveElement
  <2> QED BY <2>2, <2>3 DEF Small
<1>2. ASSUME NEW s \in Small(S, n) PROVE s \in Small(S, n + 1) /\ h[s] = g[s]
  <2>1. s \in Small(S, n + 1)
    <3>1. IsFiniteSet(s) /\ Cardinality(s) \in Nat
      BY FS_Subset, FS_CardinalityType DEF Small
    <3> QED BY <3>1 DEF Small
  <2>2. g[s] = IF s = {} THEN 0 ELSE f[ch(s)] + g[s \ {ch(s)}]
    BY DEF IterUpTo
  <2> HIDE DEF ch
  <2> QED BY <2>1, <2>2
<1>3. h = [s \in Small(S, n + 1) |->
              IF s = {} THEN 0 ELSE f[ch(s)] + h[s \ {ch(s)}]]
  <2>1. \A s \in Small(S, n + 1) : s # {} => h[s \ {ch(s)}] = g[s \ {ch(s)}]
    <3> HIDE DEF h, ch
    <3> QED BY <1>1, <1>2
  <2>2. \A s \in Small(S, n + 1) :
           h[s] = IF s = {} THEN 0 ELSE f[ch(s)] + h[s \ {ch(s)}]
    <3>1. \A s \in Small(S, n + 1) : h[s] = IF s = {} THEN 0 ELSE f[ch(s)] + g[s \ {ch(s)}]
      <4> HIDE DEF ch
      <4> QED OBVIOUS
    <3> HIDE DEF h, ch
    <3> QED BY <2>1, <3>1
  <2>3. h = [s \in Small(S, n + 1) |-> h[s]]
    OBVIOUS
  <2> HIDE DEF h, ch
  <2> QED BY <2>2, <2>3, Zenon
<1>4. IterUpTo(h, f, S, n + 1)
  <2> HIDE DEF h
  <2> QED BY <1>3 DEF IterUpTo
<1> HIDE DEF h
<1> QED BY <1>4

(* So the fold over a finite set has the function it is defined by. *)
LEMMA IterExists ==
    ASSUME NEW f, NEW S, IsFiniteSet(S)
    PROVE  \E g : Iter(g, f, S)
<1> DEFINE Bad == {n \in Nat : ~ \E g : IterUpTo(g, f, S, n)}
<1>1. \E g : IterUpTo(g, f, S, 0)
  <2> DEFINE g == [s \in Small(S, 0) |-> 0]
  <2>1. \A s \in Small(S, 0) : s = {}
    BY FS_Subset, FS_EmptySet, FS_CardinalityType DEF Small
  <2>2. g = [s \in Small(S, 0) |->
                IF s = {} THEN 0
                ELSE f[CHOOSE x \in s : TRUE] + g[s \ {CHOOSE x \in s : TRUE}]]
    BY <2>1
  <2> HIDE DEF g
  <2> QED BY <2>2 DEF IterUpTo
<1>2. Bad = {}
  <2> SUFFICES ASSUME Bad # {} PROVE FALSE
    OBVIOUS
  <2>1. Min(Bad) \in Bad /\ \A y \in Bad : Min(Bad) <= y
    <3>1. \A x \in Bad : x \in Nat
      OBVIOUS
    <3> HIDE DEF Bad
    <3> QED BY <3>1, NatMin
  <2>2. PICK n \in Bad : \A y \in Bad : n <= y
    BY <2>1
  <2>3. n \in Nat /\ n # 0
    BY <1>1
  <2>4. n - 1 \in Nat /\ n - 1 \notin Bad
    BY <2>2, <2>3
  <2>5. PICK g : IterUpTo(g, f, S, n - 1)
    BY <2>4
  <2>6. \E h : IterUpTo(h, f, S, (n - 1) + 1)
    BY <2>4, <2>5, IterGrows
  <2>7. (n - 1) + 1 = n
    BY <2>3
  <2> QED BY <2>6, <2>7
<1>3. Cardinality(S) \in Nat /\ Small(S, Cardinality(S)) = SUBSET S
  BY FS_Subset, FS_CardinalityType DEF Small
<1>4. PICK g : IterUpTo(g, f, S, Cardinality(S))
  BY <1>2, <1>3
<1>5. Iter(g, f, S)
  BY <1>3, <1>4 DEF Iter, IterUpTo
<1> QED BY <1>5

(* The function of a fold ... *)
TheIter(f, S) == CHOOSE g : Iter(g, f, S)

(* ... says how a set's sum comes from that of a smaller one. *)
LEMMA TheIterStep ==
    ASSUME NEW f, NEW S, IsFiniteSet(S)
    PROVE  /\ TheIter(f, S)[{}] = 0
           /\ \A s \in SUBSET S : s # {} =>
                 \E x \in s : /\ x = CHOOSE y \in s : TRUE
                              /\ TheIter(f, S)[s] = f[x] + TheIter(f, S)[s \ {x}]
<1>1. Iter(TheIter(f, S), f, S)
  BY IterExists DEF TheIter
<1> QED BY <1>1 DEF Iter

(* It is the same on a subset, and for functions that agree there. *)
LEMMA TheIterSame ==
    ASSUME NEW S, IsFiniteSet(S), NEW T \in SUBSET S, NEW f, NEW g,
           \A x \in T : f[x] = g[x]
    PROVE  \A s \in SUBSET T : TheIter(f, S)[s] = TheIter(g, T)[s]
<1> DEFINE Bad == {s \in SUBSET T : TheIter(f, S)[s] # TheIter(g, T)[s]}
<1> SUFFICES ASSUME Bad # {} PROVE FALSE
  OBVIOUS
<1>1. IsFiniteSet(T)
  BY FS_Subset
<1>2. PICK s \in Bad : \A t \in Bad : t \subseteq s => t = s
  <2>1. Bad \subseteq SUBSET T
    OBVIOUS
  <2> HIDE DEF Bad
  <2> QED BY <1>1, <2>1, SmallestSubset
<1>3. s \in SUBSET T /\ s \in SUBSET S
  OBVIOUS
<1>4. s # {}
  <2>1. TheIter(f, S)[{}] = 0
    BY TheIterStep
  <2>2. TheIter(g, T)[{}] = 0
    BY <1>1, TheIterStep
  <2> QED BY <2>1, <2>2
<1>5. PICK x \in s : /\ x = CHOOSE y \in s : TRUE
                     /\ TheIter(f, S)[s] = f[x] + TheIter(f, S)[s \ {x}]
  BY <1>3, <1>4, TheIterStep
<1>6. TheIter(g, T)[s] = g[x] + TheIter(g, T)[s \ {x}]
  <2>1. s \in SUBSET T
    BY <1>3
  <2>2. PICK y \in s : /\ y = CHOOSE z \in s : TRUE
                       /\ TheIter(g, T)[s] = g[y] + TheIter(g, T)[s \ {y}]
    BY <1>1, <1>4, <2>1, TheIterStep
  <2>3. x = y
    BY <1>5, <2>2
  <2> QED BY <2>2, <2>3
<1>7. s \ {x} \notin Bad
  BY <1>2
<1>8. TheIter(f, S)[s \ {x}] = TheIter(g, T)[s \ {x}]
  BY <1>3, <1>7
<1>9. f[x] = g[x]
  BY <1>3
<1>10. TheIter(f, S)[s] = TheIter(g, T)[s]
  BY <1>5, <1>6, <1>8, <1>9
<1> QED BY <1>10

(* Sums of functions that agree on the set are the same. *)
LEMMA SumSame ==
    ASSUME NEW S, IsFiniteSet(S), NEW f, NEW g, \A x \in S : f[x] = g[x]
    PROVE  SumFunctionOnSet(f, S) = SumFunctionOnSet(g, S)
<1>1. TheIter(f, S)[S] = TheIter(g, S)[S]
  BY TheIterSame
<1> QED BY <1>1, SumIsIter DEF TheIter

(* The sum over no elements. *)
LEMMA SumEmpty ==
    ASSUME NEW f
    PROVE  SumFunctionOnSet(f, {}) = 0
BY SumIsIter, TheIterStep, FS_EmptySet DEF TheIter

(* One element, the one the fold begins with, and the others. *)
LEMMA SumChosen ==
    ASSUME NEW S, IsFiniteSet(S), S # {}, NEW f
    PROVE  \E x \in S : SumFunctionOnSet(f, S) = f[x] + SumFunctionOnSet(f, S \ {x})
<1>1. PICK x \in S : TheIter(f, S)[S] = f[x] + TheIter(f, S)[S \ {x}]
  BY TheIterStep
<1>2. TheIter(f, S)[S \ {x}] = TheIter(f, S \ {x})[S \ {x}]
  BY TheIterSame
<1> QED BY <1>1, <1>2, SumIsIter DEF TheIter

(* A sum of naturals is one. *)
LEMMA SumNat ==
    ASSUME NEW S, IsFiniteSet(S), NEW f, \A x \in S : f[x] \in Nat
    PROVE  SumFunctionOnSet(f, S) \in Nat
<1> DEFINE Bad == {s \in SUBSET S : SumFunctionOnSet(f, s) \notin Nat}
<1> SUFFICES ASSUME Bad # {} PROVE FALSE
  OBVIOUS
<1>1. PICK s \in Bad : \A t \in Bad : t \subseteq s => t = s
  <2>1. Bad \subseteq SUBSET S
    OBVIOUS
  <2> HIDE DEF Bad
  <2> QED BY <2>1, SmallestSubset
<1>2. s \in SUBSET S /\ IsFiniteSet(s) /\ s # {}
  <2>1. s # {}
    BY SumEmpty
  <2> QED BY <2>1, FS_Subset
<1>3. PICK x \in s : SumFunctionOnSet(f, s) = f[x] + SumFunctionOnSet(f, s \ {x})
  BY <1>2, SumChosen
<1>4. s \ {x} \in SUBSET S /\ s \ {x} \notin Bad
  BY <1>1, <1>2
<1>5. SumFunctionOnSet(f, s \ {x}) \in Nat
  BY <1>4
<1> QED BY <1>2, <1>3, <1>5

(* Any element and the others. *)
LEMMA SumStep ==
    ASSUME NEW S, IsFiniteSet(S), NEW f, \A x \in S : f[x] \in Nat, NEW e \in S
    PROVE  SumFunctionOnSet(f, S) = f[e] + SumFunctionOnSet(f, S \ {e})
<1> DEFINE Bad == {s \in SUBSET S : \E x \in s :
                      SumFunctionOnSet(f, s) # f[x] + SumFunctionOnSet(f, s \ {x})}
<1>1. Bad = {}
  <2> SUFFICES ASSUME Bad # {} PROVE FALSE
    OBVIOUS
  <2>1. PICK s \in Bad : \A t \in Bad : t \subseteq s => t = s
    <3>1. Bad \subseteq SUBSET S
      OBVIOUS
    <3> HIDE DEF Bad
    <3> QED BY <3>1, SmallestSubset
  <2>2. s \in SUBSET S /\ IsFiniteSet(s)
    BY FS_Subset
  <2>3. PICK x \in s : SumFunctionOnSet(f, s) # f[x] + SumFunctionOnSet(f, s \ {x})
    OBVIOUS
  <2>4. PICK y \in s : SumFunctionOnSet(f, s) = f[y] + SumFunctionOnSet(f, s \ {y})
    BY <2>2, <2>3, SumChosen
  <2>5. x # y
    BY <2>3, <2>4
  <2>6. s \ {x} \notin Bad /\ s \ {y} \notin Bad
    BY <2>1
  <2>7. SumFunctionOnSet(f, s \ {x}) = f[y] + SumFunctionOnSet(f, (s \ {x}) \ {y})
    BY <2>2, <2>5, <2>6
  <2>8. SumFunctionOnSet(f, s \ {y}) = f[x] + SumFunctionOnSet(f, (s \ {y}) \ {x})
    BY <2>2, <2>5, <2>6
  <2>9. (s \ {x}) \ {y} = (s \ {y}) \ {x}
    OBVIOUS
  <2>10. SumFunctionOnSet(f, (s \ {x}) \ {y}) \in Nat
    <3>1. IsFiniteSet((s \ {x}) \ {y}) /\ (s \ {x}) \ {y} \in SUBSET S
      BY <2>2, FS_RemoveElement
    <3> QED BY <3>1, SumNat
  <2>11. f[x] \in Nat /\ f[y] \in Nat
    BY <2>2
  <2> DEFINE rest == SumFunctionOnSet(f, (s \ {x}) \ {y})
  <2>12. /\ SumFunctionOnSet(f, s) = f[y] + (f[x] + rest)
         /\ SumFunctionOnSet(f, s \ {x}) = f[y] + rest
         /\ rest \in Nat
    BY <2>4, <2>7, <2>8, <2>9, <2>10
  <2> HIDE DEF rest
  <2>13. SumFunctionOnSet(f, s) = f[x] + SumFunctionOnSet(f, s \ {x})
    BY <2>11, <2>12
  <2> QED BY <2>3, <2>13
<1>2. S \notin Bad
  BY <1>1
<1> QED BY <1>2

(* Changing one element. *)
LEMMA SumChange ==
    ASSUME NEW S, IsFiniteSet(S), NEW f, NEW g, NEW e \in S,
           \A x \in S : f[x] \in Nat /\ g[x] \in Nat,
           \A x \in S \ {e} : f[x] = g[x]
    PROVE  SumFunctionOnSet(g, S) = (SumFunctionOnSet(f, S) - f[e]) + g[e]
<1>1. IsFiniteSet(S \ {e})
  BY FS_RemoveElement
<1>2. SumFunctionOnSet(f, S) = f[e] + SumFunctionOnSet(f, S \ {e})
  BY SumStep
<1>3. SumFunctionOnSet(g, S) = g[e] + SumFunctionOnSet(g, S \ {e})
  BY SumStep
<1>4. SumFunctionOnSet(f, S \ {e}) = SumFunctionOnSet(g, S \ {e})
  BY <1>1, SumSame
<1>5. SumFunctionOnSet(f, S \ {e}) \in Nat
  BY <1>1, SumNat
<1> QED BY <1>2, <1>3, <1>4, <1>5

(* Each element is a part of the sum. *)
LEMMA SumPart ==
    ASSUME NEW S, IsFiniteSet(S), NEW f, \A x \in S : f[x] \in Nat, NEW e \in S
    PROVE  f[e] <= SumFunctionOnSet(f, S)
<1>1. IsFiniteSet(S \ {e})
  BY FS_RemoveElement
<1>2. SumFunctionOnSet(f, S \ {e}) \in Nat
  BY <1>1, SumNat
<1> QED BY <1>2, SumStep

(* Two of them. *)
LEMMA SumParts ==
    ASSUME NEW S, IsFiniteSet(S), NEW f, \A x \in S : f[x] \in Nat,
           NEW d \in S, NEW e \in S, d # e
    PROVE  f[d] + f[e] <= SumFunctionOnSet(f, S)
<1>1. IsFiniteSet(S \ {e})
  BY FS_RemoveElement
<1>2. SumFunctionOnSet(f, S \ {e}) \in Nat
  BY <1>1, SumNat
<1>3. f[d] <= SumFunctionOnSet(f, S \ {e})
  BY <1>1, SumPart
<1>4. SumFunctionOnSet(f, S) = f[e] + SumFunctionOnSet(f, S \ {e})
  BY SumStep
<1>5. f[d] \in Nat /\ f[e] \in Nat
  OBVIOUS
<1> QED BY <1>2, <1>3, <1>4, <1>5

(* A sum that is not zero has an element that is not. *)
LEMMA SumPositive ==
    ASSUME NEW S, IsFiniteSet(S), NEW f, SumFunctionOnSet(f, S) # 0
    PROVE  \E x \in S : f[x] # 0
<1> SUFFICES ASSUME \A x \in S : f[x] = 0 PROVE FALSE
  OBVIOUS
<1> DEFINE Bad == {s \in SUBSET S : SumFunctionOnSet(f, s) # 0}
<1>1. S \in Bad
  OBVIOUS
<1>2. PICK s \in Bad : \A t \in Bad : t \subseteq s => t = s
  <2>1. Bad \subseteq SUBSET S /\ Bad # {}
    BY <1>1
  <2> HIDE DEF Bad
  <2> QED BY <2>1, SmallestSubset
<1>3. s \in SUBSET S /\ IsFiniteSet(s) /\ s # {}
  BY FS_Subset, SumEmpty
<1>4. PICK x \in s : SumFunctionOnSet(f, s) = f[x] + SumFunctionOnSet(f, s \ {x})
  BY <1>3, SumChosen
<1>5. SumFunctionOnSet(f, s \ {x}) = 0
  BY <1>2, <1>3
<1>6. f[x] = 0
  BY <1>3
<1>7. SumFunctionOnSet(f, s) = 0
  BY <1>4, <1>5, <1>6
<1> QED BY <1>7

(* The sum over two sets without a common element is that of the sums.  A   *)
(* smallest part of the second set for which it fails has an element, and   *)
(* without it the sums agree.                                               *)
LEMMA SumApart ==
    ASSUME NEW S, NEW T, IsFiniteSet(S), IsFiniteSet(T), S \cap T = {},
           NEW f, \A x \in S \cup T : f[x] \in Nat
    PROVE  SumFunctionOnSet(f, S \cup T) = SumFunctionOnSet(f, S) + SumFunctionOnSet(f, T)
<1> DEFINE Bad == {U \in SUBSET T : SumFunctionOnSet(f, S \cup U)
                                    # SumFunctionOnSet(f, S) + SumFunctionOnSet(f, U)}
<1> SUFFICES ASSUME Bad # {} PROVE FALSE
  OBVIOUS
<1>1. PICK U \in Bad : \A V \in Bad : V \subseteq U => V = U
  <2>1. Bad \subseteq SUBSET T
    OBVIOUS
  <2> HIDE DEF Bad
  <2> QED BY <2>1, SmallestSubset
<1>2. U \subseteq T /\ IsFiniteSet(U)
  BY <1>1, FS_Subset
<1>3. U # {}
  <2>1. SumFunctionOnSet(f, S) \in Nat
    BY SumNat
  <2>2. S \cup {} = S
    OBVIOUS
  <2>3. SumFunctionOnSet(f, S \cup {}) = SumFunctionOnSet(f, S) + SumFunctionOnSet(f, {})
    BY <2>1, <2>2, SumEmpty
  <2> QED BY <1>1, <2>3
<1>4. PICK e : e \in U
  BY <1>3
<1>5. SumFunctionOnSet(f, U) = f[e] + SumFunctionOnSet(f, U \ {e})
  BY <1>2, <1>4, SumStep
<1>6. SumFunctionOnSet(f, S \cup U) = f[e] + SumFunctionOnSet(f, S \cup (U \ {e}))
  <2>1. IsFiniteSet(S \cup U) /\ e \in S \cup U /\ \A x \in S \cup U : f[x] \in Nat
    BY <1>2, <1>4, FS_Union
  <2>2. (S \cup U) \ {e} = S \cup (U \ {e})
    BY <1>2, <1>4
  <2> QED BY <2>1, <2>2, SumStep
<1>7. SumFunctionOnSet(f, S \cup (U \ {e})) = SumFunctionOnSet(f, S) + SumFunctionOnSet(f, U \ {e})
  BY <1>1, <1>2, <1>4
<1>8. /\ SumFunctionOnSet(f, S) \in Nat /\ SumFunctionOnSet(f, U \ {e}) \in Nat /\ f[e] \in Nat
  BY <1>2, <1>4, SumNat, FS_RemoveElement
<1> QED BY <1>1, <1>5, <1>6, <1>7, <1>8

(* The same for the number of elements. *)
LEMMA CountApart ==
    ASSUME NEW S, NEW T, IsFiniteSet(S), IsFiniteSet(T), S \cap T = {}
    PROVE  /\ Cardinality(S \cup T) = Cardinality(S) + Cardinality(T)
           /\ Cardinality(S) \in Nat /\ Cardinality(T) \in Nat
<1>1. Cardinality(S \cup T) = Cardinality(S) + Cardinality(T) - Cardinality(S \cap T)
  BY FS_Union
<1>2. Cardinality(S \cap T) = 0
  BY FS_EmptySet
<1>3. Cardinality(S) \in Nat /\ Cardinality(T) \in Nat
  BY FS_CardinalityType
<1> QED BY <1>1, <1>2, <1>3

-----------------------------------------------------------------------------
(* No two members of a finite set are of the same age: then at most n have *)
(* fewer than n younger ones.                                              *)
LEMMA FewNewest ==
    ASSUME NEW S, IsFiniteSet(S), NEW age, \A x \in S : age[x] \in Nat,
           \A x, y \in S : age[x] = age[y] => x = y, NEW n \in Nat
    PROVE  Cardinality({x \in S : Cardinality({y \in S : age[y] < age[x]}) < n}) <= n
<1> DEFINE younger(x) == {y \in S : age[y] < age[x]}
           N == {x \in S : Cardinality(younger(x)) < n}
           f == [x \in N |-> Cardinality(younger(x))]
<1>1. ASSUME NEW x \in S
      PROVE  IsFiniteSet(younger(x)) /\ Cardinality(younger(x)) \in Nat
  <2>1. younger(x) \in SUBSET S
    OBVIOUS
  <2> HIDE DEF younger
  <2> QED BY <2>1, FS_Subset, FS_CardinalityType
<1>2. ASSUME NEW x \in S, NEW y \in S, age[x] < age[y]
      PROVE  Cardinality(younger(x)) < Cardinality(younger(y))
  <2>1. younger(x) \in SUBSET younger(y)
    BY <1>2
  <2>2. x \in younger(y) /\ x \notin younger(x)
    BY <1>2
  <2> HIDE DEF younger
  <2> QED BY <1>1, <2>1, <2>2, FS_Subset
<1>3. ASSUME NEW x \in S, NEW y \in S, Cardinality(younger(x)) = Cardinality(younger(y))
      PROVE  x = y
  <2>1. ~ (age[x] < age[y]) /\ ~ (age[y] < age[x])
    <3> HIDE DEF younger
    <3> QED BY <1>1, <1>2, <1>3
  <2>2. age[x] = age[y]
    BY <2>1
  <2> QED BY <2>2
<1>4. f \in Injection(N, 0..(n - 1))
  <2>1. \A x \in N : f[x] \in 0..(n - 1)
    <3> SUFFICES ASSUME NEW x \in N PROVE f[x] \in 0..(n - 1)
      OBVIOUS
    <3>1. x \in S /\ Cardinality(younger(x)) < n /\ f[x] = Cardinality(younger(x))
      OBVIOUS
    <3> HIDE DEF f, N, younger
    <3> QED BY <1>1, <3>1
  <2>2. \A x, y \in N : f[x] = f[y] => x = y
    <3> SUFFICES ASSUME NEW x \in N, NEW y \in N, f[x] = f[y] PROVE x = y
      OBVIOUS
    <3>1. x \in S /\ y \in S /\ f[x] = Cardinality(younger(x)) /\ f[y] = Cardinality(younger(y))
      OBVIOUS
    <3> HIDE DEF f, N, younger
    <3> QED BY <1>3, <3>1
  <2>3. f \in [N -> 0..(n - 1)]
    <3>1. f = [x \in N |-> f[x]]
      OBVIOUS
    <3> HIDE DEF f, N
    <3> QED BY <2>1, <3>1
  <2>4. DOMAIN f = N
    OBVIOUS
  <2> HIDE DEF f, N
  <2> QED BY <2>2, <2>3, <2>4 DEF Injection, IsInjective
<1>5. IsFiniteSet(0..(n - 1)) /\ Cardinality(0..(n - 1)) = n
  BY FS_Interval
<1>6. Cardinality(N) <= n
  <2> HIDE DEF N, f
  <2> QED BY <1>4, <1>5, FS_Injection
<1> QED BY <1>6
=============================================================================
