----------------------------- MODULE SetLemmas ------------------------------
(***************************************************************************)
(* Lemmas about finite sets: least and greatest numbers, and the sums of      *)
(* FileSizes.  The library's rule of induction takes an operator; here an     *)
(* induction is a minimal counterexample instead, which is first-order: a     *)
(* nonempty set of subsets of a finite set has a member that includes no      *)
(* other (MinimalSubset).                                                    *)
(***************************************************************************)
EXTENDS FileSizes, FiniteSetTheorems, WellFoundedInduction, TLAPS

LEMMA MinimalSubset ==
  ASSUME NEW S, IsFiniteSet(S), NEW T \in SUBSET SUBSET S, T # {}
  PROVE  \E x \in T : \A y \in T : y \subseteq x => y = x
<1>1. IsWellFoundedOn(StrictSubsetOrdering(S), FiniteSubsetsOf(S))
  BY FS_StrictSubsetOrderingWellFounded
<1>2. FiniteSubsetsOf(S) = SUBSET S
  BY FS_FiniteSubsetsOfFinite
<1>3. T \subseteq SUBSET S
  OBVIOUS
<1>4. PICK x \in T : \A y \in T : <<y, x>> \notin StrictSubsetOrdering(S)
  BY <1>1, <1>2, <1>3, WFMin
<1>5. QED
  BY <1>4 DEF StrictSubsetOrdering

-----------------------------------------------------------------------------
(***************************************************************************)
(* Least and greatest numbers.                                               *)
(***************************************************************************)
LEMMA LeastOf ==
  ASSUME NEW S \in SUBSET Nat, S # {}
  PROVE  Min(S) \in S /\ \A n \in S : Min(S) <= n
<1>1. PICK top \in S : TRUE
  OBVIOUS
<1> DEFINE Segments == {0 .. n : n \in {k \in S : k <= top}}
<1>2. IsFiniteSet(0 .. top)
  BY FS_Interval
<1>3. Segments \subseteq SUBSET (0 .. top) /\ 0 .. top \in Segments
  OBVIOUS
<1>4. PICK x \in Segments : \A y \in Segments : y \subseteq x => y = x
  <2> DEFINE all == 0 .. top
  <2> HIDE DEF Segments, all
  <2>1. IsFiniteSet(all) /\ Segments \in SUBSET SUBSET all /\ Segments # {}
    BY <1>2, <1>3 DEF all
  <2>2. QED
    BY <2>1, MinimalSubset
<1>5. PICK m \in S : x = 0 .. m /\ m <= top
  OBVIOUS
<1>6. ASSUME NEW n \in S PROVE m <= n
  <2>1. SUFFICES ASSUME n < m PROVE FALSE
    OBVIOUS
  <2>2. 0 .. n \in Segments /\ 0 .. n \subseteq x /\ m \in x /\ m \notin 0 .. n
    BY <1>5, <2>1
  <2>3. QED
    BY <1>4, <2>2
<1>7. QED
  BY <1>6 DEF Min

LEMMA GreatestOf ==
  ASSUME NEW n \in Nat, NEW S \in SUBSET 0 .. n, S # {}
  PROVE  Max(S) \in S /\ \A m \in S : m <= Max(S)
<1> DEFINE above == {k \in Nat : \A m \in S : m <= k}
<1>1. n \in above
  OBVIOUS
<1>2. above \in SUBSET Nat /\ above # {}
  BY <1>1
<1>3. PICK k \in above : \A l \in above : k <= l
  BY <1>2, LeastOf
<1>4. k \in S
  <2>1. SUFFICES ASSUME k \notin S PROVE FALSE
    OBVIOUS
  <2>2. \A m \in S : m < k
    BY <1>3, <2>1
  <2>3. k # 0 /\ k - 1 \in above
    <3>1. PICK m \in S : TRUE
      OBVIOUS
    <3>2. k \in Nat /\ m < k /\ m \in Nat /\ \A l \in S : l \in Nat
      BY <1>3, <2>2
    <3>3. k - 1 \in Nat /\ \A l \in S : l <= k - 1
      BY <2>2, <3>2
    <3>4. QED
      BY <3>2, <3>3
  <2>4. QED
    BY <1>3, <2>3
<1>5. QED
  BY <1>3, <1>4 DEF Max

-----------------------------------------------------------------------------
(***************************************************************************)
(* MapThenSumSet is a recursive function on the subsets of its set: such a    *)
(* function exists, is unique, and is the same on the subsets of a subset.    *)
(***************************************************************************)
Pick(S) == CHOOSE x \in S : TRUE

LEMMA PickIn == ASSUME NEW S, S # {} PROVE Pick(S) \in S
  BY DEF Pick

Sums(files, S, g) ==
  g = [T \in SUBSET S |-> IF T = {} THEN 0
                          ELSE files[Pick(T)].size + g[T \ {Pick(T)}]]

LEMMA SumOverDef ==
  ASSUME NEW files, NEW S
  PROVE  SumOver(files, S) = (CHOOSE g : Sums(files, S, g))[S]
  BY DEF SumOver, MapThenSumSet, MapThenFoldSet, Sums, Pick

LEMMA SumsApply ==
  ASSUME NEW files, NEW S, NEW g, Sums(files, S, g), NEW T \in SUBSET S
  PROVE  g[T] = IF T = {} THEN 0 ELSE files[Pick(T)].size + g[T \ {Pick(T)}]
  BY DEF Sums

LEMMA SumsUnique ==
  ASSUME NEW files, NEW S, IsFiniteSet(S), NEW g, NEW h,
         Sums(files, S, g), Sums(files, S, h)
  PROVE  g = h
<1> DEFINE Bad == {T \in SUBSET S : g[T] # h[T]}
<1>1. Bad = {}
  <2>1. SUFFICES ASSUME Bad # {} PROVE FALSE
    OBVIOUS
  <2>2. PICK T \in Bad : \A U \in Bad : U \subseteq T => U = T
    <3>1. Bad \in SUBSET SUBSET S
      OBVIOUS
    <3> HIDE DEF Bad
    <3>2. QED
      BY <2>1, <3>1, MinimalSubset
  <2>3. T # {}
    BY SumsApply
  <2>4. Pick(T) \in T
    BY <2>3, PickIn
  <2>5. T \ {Pick(T)} \in SUBSET S /\ g[T \ {Pick(T)}] = h[T \ {Pick(T)}]
    BY <2>2, <2>4
  <2>6. QED
    BY <2>2, <2>3, <2>5, SumsApply
<1>2. DOMAIN g = SUBSET S /\ DOMAIN h = SUBSET S
      /\ g = [T \in DOMAIN g |-> g[T]] /\ h = [T \in DOMAIN h |-> h[T]]
  BY DEF Sums
<1>3. QED
  BY <1>1, <1>2

LEMMA SumsRestrict ==
  ASSUME NEW files, NEW S, NEW g, Sums(files, S, g), NEW T \in SUBSET S
  PROVE  Sums(files, T, [U \in SUBSET T |-> g[U]])
<1> DEFINE h == [U \in SUBSET T |-> g[U]]
<1>1. ASSUME NEW U \in SUBSET T
      PROVE  h[U] = IF U = {} THEN 0 ELSE files[Pick(U)].size + h[U \ {Pick(U)}]
  <2>1. U \in SUBSET S /\ U \ {Pick(U)} \in SUBSET T
    OBVIOUS
  <2>2. h[U] = g[U] /\ h[U \ {Pick(U)}] = g[U \ {Pick(U)}]
    BY <2>1
  <2>3. QED
    BY <2>1, <2>2, SumsApply
<1>2. h = [U \in SUBSET T |-> h[U]]
  OBVIOUS
<1> HIDE DEF h
<1>3. Sums(files, T, h)
  BY <1>1, <1>2 DEF Sums
<1>4. QED
  BY <1>3 DEF h

LEMMA SumOverIs ==
  ASSUME NEW files, NEW S, IsFiniteSet(S), NEW g, Sums(files, S, g), NEW T \in SUBSET S
  PROVE  SumOver(files, T) = g[T]
<1> DEFINE h == [U \in SUBSET T |-> g[U]]
           k == CHOOSE f : Sums(files, T, f)
<1>1. Sums(files, T, h) /\ IsFiniteSet(T)
  <2>1. IsFiniteSet(T)
    BY FS_Subset
  <2>2. Sums(files, T, h)
    BY SumsRestrict
  <2>3. QED
    BY <2>1, <2>2
<1>2. Sums(files, T, k)
  BY <1>1
<1>3. k = h
  BY <1>1, <1>2, SumsUnique
<1>4. QED
  BY <1>3, SumOverDef

LEMMA SumsExist ==
  ASSUME NEW files, NEW S, IsFiniteSet(S)
  PROVE  \E g : Sums(files, S, g)
<1> DEFINE Bad == {T \in SUBSET S : ~ \E g : Sums(files, T, g)}
<1>1. SUFFICES ASSUME Bad # {} PROVE FALSE
  OBVIOUS
<1>2. PICK T \in Bad : \A U \in Bad : U \subseteq T => U = T
  <2>1. Bad \in SUBSET SUBSET S
    OBVIOUS
  <2> HIDE DEF Bad
  <2>2. QED
    BY <1>1, <2>1, MinimalSubset
<1>3. IsFiniteSet(T)
  BY FS_Subset
<1> DEFINE h == [U \in SUBSET T |-> IF U = {} THEN 0
                     ELSE files[Pick(U)].size + SumOver(files, U \ {Pick(U)})]
<1>4. ASSUME NEW U \in SUBSET T, U # T
      PROVE  h[U] = SumOver(files, U)
  <2>1. PICK g : Sums(files, U, g)
    BY <1>2, <1>4
  <2>2. IsFiniteSet(U)
    BY <1>3, FS_Subset
  <2>3. SumOver(files, U) = g[U]
    BY <2>1, <2>2, SumOverIs
  <2>4. SumOver(files, U \ {Pick(U)}) = g[U \ {Pick(U)}]
    BY <2>1, <2>2, SumOverIs
  <2>5. g[U] = IF U = {} THEN 0 ELSE files[Pick(U)].size + g[U \ {Pick(U)}]
    BY <2>1, SumsApply
  <2>6. QED
    BY <2>3, <2>4, <2>5
<1>5. ASSUME NEW U \in SUBSET T
      PROVE  h[U] = IF U = {} THEN 0 ELSE files[Pick(U)].size + h[U \ {Pick(U)}]
  <2>1. CASE U = {}
    BY <2>1
  <2>2. CASE U # {}
    <3>1. U \ {Pick(U)} \in SUBSET T /\ U \ {Pick(U)} # T
      BY <2>2, PickIn
    <3>2. h[U \ {Pick(U)}] = SumOver(files, U \ {Pick(U)})
      BY <3>1, <1>4
    <3>3. QED
      BY <2>2, <3>2
  <2>3. QED
    BY <2>1, <2>2
<1>6. h = [U \in SUBSET T |-> h[U]]
  OBVIOUS
<1> HIDE DEF h
<1>7. Sums(files, T, h)
  BY <1>5, <1>6 DEF Sums
<1>8. QED
  BY <1>2, <1>7

\* The recursion of the fold, for every finite set.
LEMMA SumOverStep ==
  ASSUME NEW files, NEW S, IsFiniteSet(S)
  PROVE  SumOver(files, S) =
           IF S = {} THEN 0 ELSE files[Pick(S)].size + SumOver(files, S \ {Pick(S)})
<1>1. PICK g : Sums(files, S, g)
  BY SumsExist
<1>2. SumOver(files, S) = g[S] /\ SumOver(files, S \ {Pick(S)}) = g[S \ {Pick(S)}]
  BY <1>1, SumOverIs
<1>3. QED
  BY <1>1, <1>2, SumsApply

LEMMA SumOverNone == \A files : SumOver(files, {}) = 0
<1>1. ASSUME NEW files PROVE SumOver(files, {}) = 0
  BY SumOverStep, FS_EmptySet
<1>2. QED
  BY <1>1

-----------------------------------------------------------------------------
(***************************************************************************)
(* What the backends need of the sum.                                        *)
(***************************************************************************)
HasSizes(files, S) == \A f \in S : files[f].size \in Nat

LEMMA SumOverNat ==
  ASSUME NEW files, NEW S, IsFiniteSet(S), HasSizes(files, S)
  PROVE  SumOver(files, S) \in Nat
<1> DEFINE Bad == {T \in SUBSET S : SumOver(files, T) \notin Nat}
<1>1. SUFFICES ASSUME Bad # {} PROVE FALSE
  OBVIOUS
<1>2. PICK T \in Bad : \A U \in Bad : U \subseteq T => U = T
  <2>1. Bad \in SUBSET SUBSET S
    OBVIOUS
  <2> HIDE DEF Bad
  <2>2. QED
    BY <1>1, <2>1, MinimalSubset
<1>3. IsFiniteSet(T)
  BY FS_Subset
<1>4. T # {}
  BY SumOverNone
<1>5. Pick(T) \in T
  BY <1>4, PickIn
<1>6. SumOver(files, T \ {Pick(T)}) \in Nat
  BY <1>2, <1>5
<1>7. files[Pick(T)].size \in Nat
  BY <1>5 DEF HasSizes
<1>8. QED
  BY <1>2, <1>3, <1>4, <1>6, <1>7, SumOverStep

\* Any file may be the one that is counted last.
LEMMA SumOverWithout ==
  ASSUME NEW files, NEW S, IsFiniteSet(S), HasSizes(files, S), NEW f \in S
  PROVE  SumOver(files, S) = files[f].size + SumOver(files, S \ {f})
<1> DEFINE Bad == {T \in SUBSET S :
                     \E x \in T : SumOver(files, T) # files[x].size + SumOver(files, T \ {x})}
<1>1. SUFFICES ASSUME Bad # {} PROVE FALSE
  OBVIOUS
<1>2. PICK T \in Bad : \A U \in Bad : U \subseteq T => U = T
  <2>1. Bad \in SUBSET SUBSET S
    OBVIOUS
  <2> HIDE DEF Bad
  <2>2. QED
    BY <1>1, <2>1, MinimalSubset
<1>3. PICK x \in T : SumOver(files, T) # files[x].size + SumOver(files, T \ {x})
  OBVIOUS
<1> DEFINE p == Pick(T)
           rest == T \ {p, x}
<1>4. p \in T /\ IsFiniteSet(T) /\ x \in S
  BY <1>3, PickIn, FS_Subset
<1>5. SumOver(files, T) = files[p].size + SumOver(files, T \ {p})
  BY <1>3, <1>4, SumOverStep
<1>6. p # x
  BY <1>3, <1>5
<1>7. T \ {p} \notin Bad /\ T \ {x} \notin Bad
  BY <1>2, <1>3, <1>4
<1>8. (T \ {p}) \ {x} = rest /\ (T \ {x}) \ {p} = rest
  OBVIOUS
<1>9. SumOver(files, T \ {p}) = files[x].size + SumOver(files, rest)
  BY <1>3, <1>6, <1>7, <1>8
<1>10. SumOver(files, T \ {x}) = files[p].size + SumOver(files, rest)
  BY <1>4, <1>6, <1>7, <1>8
<1>11. files[p].size \in Nat /\ files[x].size \in Nat
  BY <1>4 DEF HasSizes
<1>12. SumOver(files, rest) \in Nat
  <2>1. IsFiniteSet(rest) /\ HasSizes(files, rest)
    BY FS_Subset, <1>4 DEF HasSizes
  <2>2. QED
    BY <2>1, SumOverNat
<1> HIDE DEF p, rest
<1>13. QED
  BY <1>3, <1>5, <1>9, <1>10, <1>11, <1>12

\* The sum is of the sizes, whatever else is in the tables.
LEMMA SumOverSame ==
  ASSUME NEW files, NEW others, NEW S, IsFiniteSet(S),
         \A f \in S : files[f].size = others[f].size
  PROVE  SumOver(files, S) = SumOver(others, S)
<1> DEFINE Bad == {T \in SUBSET S : SumOver(files, T) # SumOver(others, T)}
<1>1. SUFFICES ASSUME Bad # {} PROVE FALSE
  OBVIOUS
<1>2. PICK T \in Bad : \A U \in Bad : U \subseteq T => U = T
  <2>1. Bad \in SUBSET SUBSET S
    OBVIOUS
  <2> HIDE DEF Bad
  <2>2. QED
    BY <1>1, <2>1, MinimalSubset
<1>3. IsFiniteSet(T)
  BY FS_Subset
<1>4. T # {}
  BY <1>2, <1>3, SumOverStep
<1>5. Pick(T) \in T
  BY <1>4, PickIn
<1>6. SumOver(files, T \ {Pick(T)}) = SumOver(others, T \ {Pick(T)})
  BY <1>2, <1>5
<1>7. QED
  BY <1>2, <1>3, <1>4, <1>5, <1>6, SumOverStep

\* Fewer files take up no more.
LEMMA SumOverLess ==
  ASSUME NEW files, NEW S, IsFiniteSet(S), HasSizes(files, S), NEW T \in SUBSET S
  PROVE  SumOver(files, T) <= SumOver(files, S)
<1> DEFINE Bad == {U \in SUBSET S : \E V \in SUBSET U :
                                      ~(SumOver(files, V) <= SumOver(files, U))}
<1>1. SUFFICES ASSUME Bad # {} PROVE FALSE
  OBVIOUS
<1>2. PICK U \in Bad : \A W \in Bad : W \subseteq U => W = U
  <2>1. Bad \in SUBSET SUBSET S
    OBVIOUS
  <2> HIDE DEF Bad
  <2>2. QED
    BY <1>1, <2>1, MinimalSubset
<1>3. PICK V \in SUBSET U : ~(SumOver(files, V) <= SumOver(files, U))
  OBVIOUS
<1>4. ASSUME NEW W \in SUBSET S PROVE IsFiniteSet(W) /\ HasSizes(files, W) /\ SumOver(files, W) \in Nat
  <2>1. IsFiniteSet(W) /\ HasSizes(files, W)
    BY FS_Subset DEF HasSizes
  <2>2. QED
    BY <2>1, SumOverNat
<1>5. SumOver(files, U) \in Nat /\ SumOver(files, V) \in Nat /\ IsFiniteSet(U) /\ HasSizes(files, U)
  BY <1>4
<1>6. V # U
  BY <1>3, <1>5
<1>7. PICK x \in U : x \notin V
  BY <1>6
<1>8. SumOver(files, U) = files[x].size + SumOver(files, U \ {x})
  BY <1>5, SumOverWithout
<1>9. SumOver(files, V) <= SumOver(files, U \ {x})
  BY <1>2, <1>7
<1>10. files[x].size \in Nat /\ SumOver(files, U \ {x}) \in Nat
  BY <1>4 DEF HasSizes
<1>11. QED
  BY <1>3, <1>5, <1>8, <1>9, <1>10

-----------------------------------------------------------------------------
(***************************************************************************)
(* What a step does to a table of files: some go, or one is written.          *)
(***************************************************************************)
LEMMA SumOfSplit ==
  ASSUME NEW files, IsFiniteSet(DOMAIN files), HasSizes(files, DOMAIN files), NEW f
  PROVE  /\ SumOf(files) \in Nat
         /\ SumOver(files, DOMAIN files \ {f}) \in Nat
         /\ f \in DOMAIN files =>
              SumOf(files) = SumOver(files, DOMAIN files \ {f}) + files[f].size
<1>1. IsFiniteSet(DOMAIN files \ {f}) /\ HasSizes(files, DOMAIN files \ {f})
  BY FS_Subset DEF HasSizes
<1>2. SumOver(files, DOMAIN files) \in Nat /\ SumOver(files, DOMAIN files \ {f}) \in Nat
  BY <1>1, SumOverNat
<1>3. ASSUME f \in DOMAIN files
      PROVE  SumOver(files, DOMAIN files) = SumOver(files, DOMAIN files \ {f}) + files[f].size
  <2>1. SumOver(files, DOMAIN files) = files[f].size + SumOver(files, DOMAIN files \ {f})
    BY <1>3, SumOverWithout
  <2>2. files[f].size \in Nat
    BY <1>3 DEF HasSizes
  <2>3. QED
    BY <1>2, <2>1, <2>2
<1>4. QED
  BY <1>2, <1>3 DEF SumOf

\* Files go.
LEMMA SumOfFewer ==
  ASSUME NEW files, IsFiniteSet(DOMAIN files), HasSizes(files, DOMAIN files),
         NEW fewer, DOMAIN fewer \subseteq DOMAIN files,
         \A g \in DOMAIN fewer : fewer[g].size = files[g].size
  PROVE  /\ IsFiniteSet(DOMAIN fewer)
         /\ HasSizes(fewer, DOMAIN fewer)
         /\ SumOf(fewer) = SumOver(files, DOMAIN fewer)
         /\ SumOf(fewer) \in Nat
         /\ SumOf(fewer) <= SumOf(files)
<1>1. IsFiniteSet(DOMAIN fewer) /\ HasSizes(fewer, DOMAIN fewer)
  BY FS_Subset DEF HasSizes
<1>2. SumOver(fewer, DOMAIN fewer) = SumOver(files, DOMAIN fewer)
  BY <1>1, SumOverSame
<1>3. SumOver(files, DOMAIN fewer) <= SumOver(files, DOMAIN files)
  BY SumOverLess
<1>4. SumOver(fewer, DOMAIN fewer) \in Nat
  BY <1>1, SumOverNat
<1>5. QED
  BY <1>1, <1>2, <1>3, <1>4 DEF SumOf

\* A file is written, over what it held before if it was there.
LEMMA SumOfWritten ==
  ASSUME NEW files, IsFiniteSet(DOMAIN files), HasSizes(files, DOMAIN files),
         NEW more, NEW f, DOMAIN more = DOMAIN files \cup {f}, more[f].size \in Nat,
         \A g \in DOMAIN files \ {f} : more[g].size = files[g].size
  PROVE  /\ IsFiniteSet(DOMAIN more)
         /\ HasSizes(more, DOMAIN more)
         /\ SumOf(more) = SumOver(files, DOMAIN files \ {f}) + more[f].size
<1> DEFINE rest == DOMAIN files \ {f}
<1>1. IsFiniteSet(DOMAIN more) /\ IsFiniteSet(rest)
  BY FS_AddElement, FS_Subset
<1>2. HasSizes(more, DOMAIN more)
  BY DEF HasSizes
<1>3. DOMAIN more \ {f} = rest
  OBVIOUS
<1>4. f \in DOMAIN more => SumOf(more) = SumOver(more, rest) + more[f].size
  BY <1>1, <1>2, <1>3, SumOfSplit
<1>5. SumOver(more, rest) = SumOver(files, rest)
  BY <1>1, SumOverSame
<1>6. QED
  BY <1>1, <1>2, <1>4, <1>5
=============================================================================
