----------------------------- MODULE DataLemmas ------------------------------
(***************************************************************************)
(* Facts about data that the proofs of several modules rest on: induction  *)
(* over the naturals and over finite sets, stated with sets so that no     *)
(* operator has to be named; the sum of a function over a finite set, as   *)
(* the library's fold computes it; sequences that name things once, and    *)
(* sequences joined one behind the other; and powers of two.               *)
(***************************************************************************)
EXTENDS Integers, Sequences, SequencesExt, FiniteSets, Functions, WellFoundedInduction,
        FiniteSetTheorems, TLAPS

-----------------------------------------------------------------------------
(* Induction.                                                              *)

\* Less-than is well-founded on the naturals.
LEMMA NatWF == IsWellFoundedOn({ss \in Nat \X Nat : ss[1] < ss[2]}, Nat)
  BY NatLessThanWellFounded DEF OpToRel

\* A set of naturals with 0 and every successor is all of them.
LEMMA NatSetInduction ==
  ASSUME NEW P \in SUBSET Nat, 0 \in P, \A n \in P : n + 1 \in P
  PROVE  P = Nat
  <1> DEFINE R == {ss \in Nat \X Nat : ss[1] < ss[2]}
             T == Nat \ P
  <1>1. SUFFICES ASSUME T # {} PROVE FALSE
    OBVIOUS
  <1>2. PICK x \in T : \A y \in T : ~(<<y, x>> \in R)
    <2>1. IsWellFoundedOn(R, Nat)
      BY NatWF
    <2>2. T \subseteq Nat
      OBVIOUS
    <2> HIDE DEF R, T
    <2> QED BY <1>1, <2>1, <2>2, WFMin
  <1>3. x # 0
    OBVIOUS
  <1>4. x - 1 \in Nat
    BY <1>3
  <1>5. <<x - 1, x>> \in R
    BY <1>4
  <1>6. x - 1 \in P
    BY <1>2, <1>4, <1>5
  <1> QED BY <1>4, <1>6

\* What holds of the empty set, and of a set with one more element, holds of
\* every finite set.
LEMMA FiniteSetInduction ==
  ASSUME NEW S, IsFiniteSet(S),
         NEW P \in SUBSET SUBSET S, {} \in P,
         \A T \in P : \A x \in S \ T : T \cup {x} \in P
  PROVE  P = SUBSET S
  <1> DEFINE R == StrictSubsetOrdering(S)
             Z == (SUBSET S) \ P
  <1>1. SUFFICES ASSUME Z # {} PROVE FALSE
    OBVIOUS
  <1>2. IsWellFoundedOn(R, SUBSET S)
    BY FS_StrictSubsetOrderingWellFounded, FS_FiniteSubsetsOfFinite
  <1>3. Z \subseteq SUBSET S
    OBVIOUS
  <1>4. PICK T \in Z : \A U \in Z : ~(<<U, T>> \in R)
    <2> HIDE DEF R, Z
    <2> QED BY <1>1, <1>2, <1>3, WFMin
  <1>5. T # {} /\ T \subseteq S
    OBVIOUS
  <1>6. PICK x \in T : TRUE
    BY <1>5
  <1>7. <<T \ {x}, T>> \in R
    BY <1>5, <1>6 DEF StrictSubsetOrdering
  <1>8. T \ {x} \in P
    <2> HIDE DEF R
    <2> QED BY <1>4, <1>5, <1>7
  <1>9. (T \ {x}) \cup {x} \in P
    BY <1>5, <1>6, <1>8
  <1>10. (T \ {x}) \cup {x} = T
    BY <1>6
  <1> QED BY <1>9, <1>10

\* Two functions of sets that agree wherever they agree below agree everywhere.
LEMMA FiniteDescent ==
  ASSUME NEW S, IsFiniteSet(S), NEW H, NEW G,
         \A s \in SUBSET S : (\A t \in (SUBSET s) \ {s} : H[t] = G[t]) => H[s] = G[s]
  PROVE  H[S] = G[S]
  <1> DEFINE R == StrictSubsetOrdering(S)
             Z == {s \in SUBSET S : H[s] # G[s]}
  <1>1. SUFFICES ASSUME Z # {} PROVE FALSE
    OBVIOUS
  <1>2. IsWellFoundedOn(R, SUBSET S)
    BY FS_StrictSubsetOrderingWellFounded, FS_FiniteSubsetsOfFinite
  <1>3. Z \subseteq SUBSET S
    OBVIOUS
  <1>4. PICK T \in Z : \A U \in Z : ~(<<U, T>> \in R)
    <2> HIDE DEF R, Z
    <2> QED BY <1>1, <1>2, <1>3, WFMin
  <1>5. \A t \in (SUBSET T) \ {T} : t \notin Z
    BY <1>4 DEF StrictSubsetOrdering
  <1> QED BY <1>5

-----------------------------------------------------------------------------
(* Sums over finite sets.                                                  *)

\* F sums w over each subset of D.
IsSum(F, w, D) ==
  /\ F \in [SUBSET D -> Int]
  /\ F[{}] = 0
  /\ \A s \in SUBSET D : \A x \in s : F[s] = w[x] + F[s \ {x}]

\* The library's sum is a recursive function of the subsets.
LEMMA SumUnfold ==
  ASSUME NEW w, NEW S
  PROVE  SumFunctionOnSet(w, S) =
           (CHOOSE f : f = [s \in SUBSET S |-> IF s = {} THEN 0
              ELSE w[CHOOSE x \in s : TRUE] + f[s \ {CHOOSE x \in s : TRUE}]])[S]
  BY DEF SumFunctionOnSet, FoldFunctionOnSet, MapThenFoldSet

\* A finite set of summands has a sum.
LEMMA SumExists ==
  ASSUME NEW D, IsFiniteSet(D), NEW w \in [D -> Int]
  PROVE  \E F : IsSum(F, w, D)
  <1> DEFINE P == {E \in SUBSET D : \E F : IsSum(F, w, E)}
  <1>1. {} \in P
    <2> DEFINE F == [s \in SUBSET {} |-> 0]
    <2>1. IsSum(F, w, {})
      BY DEF IsSum
    <2> QED BY <2>1
  <1>2. ASSUME NEW E \in P, NEW x \in D \ E
        PROVE  E \cup {x} \in P
    <2>1. PICK F : IsSum(F, w, E)
      BY <1>2
    <2> DEFINE G == [s \in SUBSET (E \cup {x}) |->
                       IF x \in s THEN w[x] + F[s \ {x}] ELSE F[s]]
    <2>2. G \in [SUBSET (E \cup {x}) -> Int]
      <3>1. \A s \in SUBSET (E \cup {x}) : s \ {x} \in SUBSET E
        OBVIOUS
      <3>2. \A s \in SUBSET (E \cup {x}) : x \notin s => s \in SUBSET E
        OBVIOUS
      <3>3. \A s \in SUBSET E : F[s] \in Int
        BY <2>1 DEF IsSum
      <3>4. w[x] \in Int
        BY <1>2
      <3>5. \A s \in SUBSET (E \cup {x}) :
              (IF x \in s THEN w[x] + F[s \ {x}] ELSE F[s]) \in Int
        BY <3>1, <3>2, <3>3, <3>4
      <3> QED BY <3>5
    <2>3. G[{}] = 0
      BY <2>1 DEF IsSum
    <2>4. ASSUME NEW s \in SUBSET (E \cup {x}), NEW y \in s
          PROVE  G[s] = w[y] + G[s \ {y}]
      <3>1. CASE x \notin s
        <4>1. s \in SUBSET E /\ s \ {y} \in SUBSET (E \cup {x}) /\ x \notin s \ {y}
          BY <3>1
        <4>2. F[s] = w[y] + F[s \ {y}]
          BY <2>1, <4>1 DEF IsSum
        <4>3. G[s] = F[s] /\ G[s \ {y}] = F[s \ {y}]
          BY <3>1, <4>1
        <4> HIDE DEF G
        <4> QED BY <4>2, <4>3, Zenon
      <3>2. CASE y = x
        <4>1. s \ {x} \in SUBSET (E \cup {x}) /\ x \notin s \ {x}
          OBVIOUS
        <4> QED BY <3>2, <4>1
      <3>3. CASE x \in s /\ y # x
        <4>1. /\ s \ {x} \in SUBSET E /\ y \in s \ {x}
              /\ s \ {y} \in SUBSET (E \cup {x}) /\ x \in s \ {y}
              /\ (s \ {x}) \ {y} = (s \ {y}) \ {x}
              /\ (s \ {x}) \ {y} \in SUBSET E
          BY <3>3
        <4>2. F[s \ {x}] = w[y] + F[(s \ {x}) \ {y}]
          BY <2>1, <4>1 DEF IsSum
        <4>3. G[s] = w[x] + F[s \ {x}]
          BY <3>3
        <4>4. G[s \ {y}] = w[x] + F[(s \ {y}) \ {x}]
          BY <4>1
        <4>5. w[x] \in Int /\ w[y] \in Int /\ F[(s \ {x}) \ {y}] \in Int
          BY <1>2, <2>1, <4>1 DEF IsSum
        <4>6. F[(s \ {x}) \ {y}] = F[(s \ {y}) \ {x}]
          BY <4>1, Zenon
        <4> HIDE DEF G
        <4> QED BY <4>2, <4>3, <4>4, <4>5, <4>6
      <3> QED BY <3>1, <3>2, <3>3
    <2>5. IsSum(G, w, E \cup {x})
      <3> HIDE DEF G
      <3> QED BY <2>2, <2>3, <2>4 DEF IsSum
    <2> QED BY <1>2, <2>5
  <1>3. P = SUBSET D
    <2> HIDE DEF P
    <2>1. P \in SUBSET SUBSET D
      BY DEF P
    <2> QED BY <1>1, <1>2, <2>1, FiniteSetInduction
  <1> QED BY <1>3

\* One step of such a function: what it makes of f.
SumStep(f, w, S) ==
  [s \in SUBSET S |-> IF s = {} THEN 0
                      ELSE w[CHOOSE x \in s : TRUE] + f[s \ {CHOOSE x \in s : TRUE}]]

\* Whatever sums in this way sums,
LEMMA SumStepUnique ==
  ASSUME NEW w, NEW D, IsFiniteSet(D), NEW F, IsSum(F, w, D), NEW S \in SUBSET D,
         NEW H, H = SumStep(H, w, S)
  PROVE  H[S] = F[S]
  <1>1. ASSUME NEW s \in SUBSET S, \A t \in (SUBSET s) \ {s} : H[t] = F[t]
        PROVE  H[s] = F[s]
    <2>0. H[s] = IF s = {} THEN 0
                 ELSE w[CHOOSE x \in s : TRUE] + H[s \ {CHOOSE x \in s : TRUE}]
      BY DEF SumStep
    <2>1. CASE s = {}
      BY <2>0, <2>1 DEF IsSum
    <2>2. CASE s # {}
      <3> DEFINE x == CHOOSE x \in s : TRUE
      <3>1. x \in s /\ s \in SUBSET D
        BY <2>2
      <3>2. H[s \ {x}] = F[s \ {x}]
        BY <1>1, <3>1
      <3>3. H[s] = w[x] + H[s \ {x}]
        BY <2>0, <2>2
      <3>4. F[s] = w[x] + F[s \ {x}]
        BY <3>1 DEF IsSum
      <3> QED BY <3>2, <3>3, <3>4
    <2> QED BY <2>1, <2>2
  <1>2. IsFiniteSet(S)
    BY FS_Subset
  <1> QED BY <1>1, <1>2, FiniteDescent

\* and something does.
LEMMA SumStepExists ==
  ASSUME NEW w, NEW D, NEW F, IsSum(F, w, D), NEW S \in SUBSET D
  PROVE  \E G : G = SumStep(G, w, S)
  <1> DEFINE G == [s \in SUBSET S |-> F[s]]
  <1>1. ASSUME NEW s \in SUBSET S PROVE G[s] = SumStep(G, w, S)[s]
    <2>1. CASE s = {}
      BY <2>1 DEF IsSum, SumStep
    <2>2. CASE s # {}
      <3> DEFINE x == CHOOSE x \in s : TRUE
      <3>1. x \in s
        BY <2>2
      <3>2. F[s] = w[x] + F[s \ {x}]
        BY <3>1 DEF IsSum
      <3>3. s \ {x} \in SUBSET S
        OBVIOUS
      <3> QED BY <2>2, <3>2, <3>3 DEF SumStep
    <2> QED BY <2>1, <2>2
  <1>2. G = SumStep(G, w, S)
    BY <1>1 DEF SumStep
  <1> QED BY <1>2

\* The library's fold computes it.
LEMMA SumIs ==
  ASSUME NEW w, NEW D, IsFiniteSet(D), NEW F, IsSum(F, w, D), NEW S \in SUBSET D
  PROVE  SumFunctionOnSet(w, S) = F[S]
  <1> DEFINE H == CHOOSE f : f = SumStep(f, w, S)
  <1>1. H = SumStep(H, w, S)
    BY SumStepExists
  <1>2. SumFunctionOnSet(w, S) = H[S]
    BY SumUnfold DEF SumStep
  <1> HIDE DEF H
  <1> QED BY <1>1, <1>2, SumStepUnique

\* A sum is made up of its summands, whichever is taken first.
LEMMA SumTotal ==
  ASSUME NEW D, IsFiniteSet(D), NEW w \in [D -> Int]
  PROVE  /\ \A S \in SUBSET D : SumFunctionOnSet(w, S) \in Int
         /\ SumFunctionOnSet(w, {}) = 0
         /\ \A S \in SUBSET D : \A x \in S :
              SumFunctionOnSet(w, S) = w[x] + SumFunctionOnSet(w, S \ {x})
  <1>1. PICK F : IsSum(F, w, D)
    BY SumExists
  <1>2. \A S \in SUBSET D : SumFunctionOnSet(w, S) = F[S]
    BY <1>1, SumIs
  <1> QED
    <2>1. ASSUME NEW S \in SUBSET D, NEW x \in S
          PROVE SumFunctionOnSet(w, S) = w[x] + SumFunctionOnSet(w, S \ {x})
      <3>1. S \ {x} \in SUBSET D
        OBVIOUS
      <3> QED BY <1>1, <1>2, <3>1 DEF IsSum
    <2> QED BY <1>1, <1>2, <2>1 DEF IsSum

\* One more summand adds what it is.
LEMMA SumAdd ==
  ASSUME NEW D, IsFiniteSet(D), NEW w \in [D -> Int],
         NEW T \in SUBSET D, NEW x \in D \ T
  PROVE  /\ SumFunctionOnSet(w, T) \in Int
         /\ SumFunctionOnSet(w, T \cup {x}) = w[x] + SumFunctionOnSet(w, T)
  <1>1. T \cup {x} \in SUBSET D /\ x \in T \cup {x} /\ (T \cup {x}) \ {x} = T
    OBVIOUS
  <1>2. SumFunctionOnSet(w, T \cup {x}) = w[x] + SumFunctionOnSet(w, (T \cup {x}) \ {x})
    BY <1>1, SumTotal
  <1>3. SumFunctionOnSet(w, (T \cup {x}) \ {x}) = SumFunctionOnSet(w, T)
    BY <1>1, Zenon
  <1> QED BY <1>2, <1>3, SumTotal

\* Only the summands of the set count.
LEMMA SumAgrees ==
  ASSUME NEW S, IsFiniteSet(S), NEW v, NEW w, \A x \in S : v[x] = w[x] /\ v[x] \in Int
  PROVE  SumFunctionOnSet(v, S) = SumFunctionOnSet(w, S)
  <1>1. PICK F : IsSum(F, [x \in S |-> v[x]], S)
    BY SumExists
  <1>2. IsSum(F, v, S) /\ IsSum(F, w, S)
    BY <1>1 DEF IsSum
  <1> QED BY <1>2, SumIs

\* Summands that are not negative have such a sum, and each is at most the sum.
LEMMA SumNat ==
  ASSUME NEW D, IsFiniteSet(D), NEW w \in [D -> Nat]
  PROVE  /\ \A S \in SUBSET D : SumFunctionOnSet(w, S) \in Nat
         /\ \A S \in SUBSET D : \A x \in S : w[x] <= SumFunctionOnSet(w, S)
  <1> DEFINE P == {S \in SUBSET D : SumFunctionOnSet(w, S) \in Nat}
  <1>0. w \in [D -> Int]
    OBVIOUS
  <1>1. {} \in P
    BY <1>0, SumTotal
  <1>2. ASSUME NEW T \in P, NEW x \in D \ T PROVE T \cup {x} \in P
    <2>1. T \cup {x} \in SUBSET D /\ x \in T \cup {x} /\ (T \cup {x}) \ {x} = T
      BY <1>2
    <2>2. SumFunctionOnSet(w, T \cup {x}) = w[x] + SumFunctionOnSet(w, T)
      BY <1>0, <2>1, SumTotal
    <2>3. w[x] \in Nat /\ SumFunctionOnSet(w, T) \in Nat
      BY <1>2
    <2> QED BY <2>1, <2>2, <2>3
  <1>3. P = SUBSET D
    <2>1. P \in SUBSET SUBSET D
      OBVIOUS
    <2> HIDE DEF P
    <2> QED BY <1>1, <1>2, <2>1, FiniteSetInduction
  <1>4. ASSUME NEW S \in SUBSET D, NEW x \in S PROVE w[x] <= SumFunctionOnSet(w, S)
    <2>1. S \ {x} \in SUBSET D
      OBVIOUS
    <2>2. SumFunctionOnSet(w, S \ {x}) \in Nat /\ w[x] \in Nat
      BY <1>3, <2>1
    <2>3. SumFunctionOnSet(w, S) = w[x] + SumFunctionOnSet(w, S \ {x})
      BY <1>0, SumTotal
    <2> QED BY <2>2, <2>3
  <1> QED BY <1>3, <1>4

\* The sum over a part is the sum over all without the sum over the rest.
LEMMA SumDifference ==
  ASSUME NEW D, IsFiniteSet(D), NEW w \in [D -> Int], NEW S \in SUBSET D
  PROVE  SumFunctionOnSet(w, D \ S) = SumFunctionOnSet(w, D) - SumFunctionOnSet(w, S)
  <1> DEFINE P == {T \in SUBSET D : SumFunctionOnSet(w, D \ T)
                                      = SumFunctionOnSet(w, D) - SumFunctionOnSet(w, T)}
  <1>1. {} \in P
    <2>1. D \ {} = D /\ D \in SUBSET D
      OBVIOUS
    <2>2. SumFunctionOnSet(w, {}) = 0 /\ SumFunctionOnSet(w, D) \in Int
      BY <2>1, SumTotal
    <2>3. SumFunctionOnSet(w, D \ {}) = SumFunctionOnSet(w, D)
      BY <2>1, Zenon
    <2> QED BY <2>2, <2>3
  <1>2. ASSUME NEW T \in P, NEW x \in D \ T PROVE T \cup {x} \in P
    <2> DEFINE N == D \ (T \cup {x})
    <2>1. N \cup {x} = D \ T /\ N \in SUBSET D /\ x \in D \ N /\ T \in SUBSET D
      BY <1>2
    <2> HIDE DEF N
    <2>2. /\ SumFunctionOnSet(w, N \cup {x}) = w[x] + SumFunctionOnSet(w, N)
          /\ SumFunctionOnSet(w, N) \in Int
      BY <2>1, SumAdd
    <2>3. /\ SumFunctionOnSet(w, T \cup {x}) = w[x] + SumFunctionOnSet(w, T)
          /\ SumFunctionOnSet(w, T) \in Int
      BY <1>2, <2>1, SumAdd
    <2>4. SumFunctionOnSet(w, D \ T) = SumFunctionOnSet(w, D) - SumFunctionOnSet(w, T)
      BY <1>2
    <2>5. SumFunctionOnSet(w, D \ T) = SumFunctionOnSet(w, N \cup {x})
      BY <2>1, Zenon
    <2>6. SumFunctionOnSet(w, D) \in Int /\ w[x] \in Int
      BY <1>2, SumTotal
    <2>7. SumFunctionOnSet(w, N) = SumFunctionOnSet(w, D) - SumFunctionOnSet(w, T \cup {x})
      BY <2>2, <2>3, <2>4, <2>5, <2>6
    <2>8. T \cup {x} \in SUBSET D
      BY <1>2
    <2> QED BY <2>7, <2>8 DEF N
  <1>3. P = SUBSET D
    <2>1. P \in SUBSET SUBSET D
      OBVIOUS
    <2> HIDE DEF P
    <2> QED BY <1>1, <1>2, <2>1, FiniteSetInduction
  <1>4. S \in P
    BY <1>3
  <1> QED BY <1>4

\* Ranges that do not meet add up to at most the room they lie in.
LEMMA Packing ==
  ASSUME NEW D, IsFiniteSet(D), NEW at \in [D -> Nat], NEW w \in [D -> Nat],
         \A i, j \in D : i # j => at[i] + w[i] <= at[j] \/ at[j] + w[j] <= at[i],
         NEW lo \in Nat, NEW hi \in Nat, lo <= hi,
         \A i \in D : lo <= at[i] /\ at[i] + w[i] <= hi
  PROVE  SumFunctionOnSet(w, D) <= hi - lo
  <1> DEFINE range(i) == at[i]..(at[i] + w[i] - 1)
             bytes(T) == UNION {range(i) : i \in T}
             P == {T \in SUBSET D : /\ IsFiniteSet(bytes(T))
                                    /\ Cardinality(bytes(T)) = SumFunctionOnSet(w, T)}
  <1>0. w \in [D -> Int]
    OBVIOUS
  <1>1. {} \in P
    <2>1. bytes({}) = {}
      OBVIOUS
    <2>2. SumFunctionOnSet(w, {}) = 0
      BY <1>0, SumTotal
    <2> QED BY <2>1, <2>2, FS_EmptySet
  <1>2. ASSUME NEW T \in P, NEW x \in D \ T PROVE T \cup {x} \in P
    <2>1. bytes(T \cup {x}) = bytes(T) \cup range(x)
      OBVIOUS
    <2>2. bytes(T) \cap range(x) = {}
      <3> SUFFICES ASSUME NEW i \in T, NEW n \in range(i), n \in range(x) PROVE FALSE
        OBVIOUS
      <3>1. at[i] + w[i] <= at[x] \/ at[x] + w[x] <= at[i]
        BY <1>2
      <3>2. /\ at[i] \in Nat /\ w[i] \in Nat /\ at[x] \in Nat /\ w[x] \in Nat /\ n \in Int
        BY <1>2
      <3> QED BY <3>1, <3>2
    <2>3. IsFiniteSet(range(x)) /\ Cardinality(range(x)) = w[x]
      <3>1. at[x] \in Int /\ w[x] \in Nat /\ at[x] + w[x] - 1 \in Int
        BY <1>2
      <3>2. /\ IsFiniteSet(range(x))
            /\ Cardinality(range(x)) = IF at[x] > at[x] + w[x] - 1 THEN 0
                                       ELSE (at[x] + w[x] - 1) - at[x] + 1
        BY <3>1, FS_Interval
      <3> HIDE DEF range
      <3> QED BY <3>1, <3>2
    <2>4. IsFiniteSet(bytes(T)) /\ Cardinality(bytes(T)) = SumFunctionOnSet(w, T)
      BY <1>2
    <2> HIDE DEF range, bytes
    <2>5. /\ IsFiniteSet(bytes(T) \cup range(x))
          /\ Cardinality(bytes(T) \cup range(x))
               = Cardinality(bytes(T)) + Cardinality(range(x))
      <3>1. Cardinality(bytes(T) \cap range(x)) = 0
        BY <2>2, FS_EmptySet
      <3>2. /\ IsFiniteSet(bytes(T) \cup range(x))
            /\ Cardinality(bytes(T) \cup range(x)) = Cardinality(bytes(T))
                 + Cardinality(range(x)) - Cardinality(bytes(T) \cap range(x))
        BY <2>3, <2>4, FS_Union
      <3>3. Cardinality(bytes(T)) \in Nat /\ Cardinality(range(x)) \in Nat
        BY <2>3, <2>4, FS_CardinalityType
      <3> QED BY <3>1, <3>2, <3>3
    <2>6. SumFunctionOnSet(w, T \cup {x}) = w[x] + SumFunctionOnSet(w, T)
      <3>1. T \in SUBSET D
        BY <1>2
      <3> QED BY <1>0, <1>2, <3>1, SumAdd
    <2>7. SumFunctionOnSet(w, T) \in Int /\ w[x] \in Int
      <3>1. T \in SUBSET D
        BY <1>2
      <3> QED BY <1>0, <1>2, <3>1, SumTotal
    <2>8. Cardinality(bytes(T \cup {x})) = SumFunctionOnSet(w, T \cup {x})
      <3>1. Cardinality(bytes(T \cup {x})) = Cardinality(bytes(T) \cup range(x))
        BY <2>1, Zenon
      <3> QED BY <2>3, <2>4, <2>5, <2>6, <2>7, <3>1
    <2>9. T \cup {x} \in SUBSET D
      BY <1>2
    <2> QED BY <2>1, <2>5, <2>8, <2>9
  <1>3. P = SUBSET D
    <2>1. P \in SUBSET SUBSET D
      OBVIOUS
    <2> HIDE DEF P
    <2> QED BY <1>1, <1>2, <2>1, FiniteSetInduction
  <1>4. IsFiniteSet(bytes(D)) /\ Cardinality(bytes(D)) = SumFunctionOnSet(w, D)
    BY <1>3
  <1>5. bytes(D) \subseteq lo..(hi - 1)
    <2> SUFFICES ASSUME NEW i \in D, NEW n \in range(i) PROVE n \in lo..(hi - 1)
      OBVIOUS
    <2>1. /\ at[i] \in Nat /\ w[i] \in Nat /\ n \in Int
          /\ lo <= at[i] /\ at[i] + w[i] <= hi
      OBVIOUS
    <2> QED BY <2>1
  <1>6. IsFiniteSet(lo..(hi - 1)) /\ Cardinality(lo..(hi - 1)) = hi - lo
    <2>1. lo \in Int /\ hi - 1 \in Int
      OBVIOUS
    <2>2. /\ IsFiniteSet(lo..(hi - 1))
          /\ Cardinality(lo..(hi - 1)) = IF lo > hi - 1 THEN 0 ELSE (hi - 1) - lo + 1
      BY <2>1, FS_Interval
    <2> QED BY <2>2
  <1>7. Cardinality(bytes(D)) <= Cardinality(lo..(hi - 1))
    <2> HIDE DEF bytes
    <2> QED BY <1>5, <1>6, FS_Subset
  <1> HIDE DEF bytes
  <1> QED BY <1>4, <1>6, <1>7

-----------------------------------------------------------------------------
(* Sequences that name things once.                                        *)

\* A new name in front is one more name.
LEMMA PrependLemma ==
  ASSUME NEW S, NEW s \in Seq(S), NEW x \in S
  PROVE  /\ << x >> \o s \in Seq(S)
         /\ Len(<< x >> \o s) = Len(s) + 1
         /\ Range(<< x >> \o s) = {x} \cup Range(s)
         /\ IsInjective(s) /\ x \notin Range(s) => IsInjective(<< x >> \o s)
  <1> DEFINE t == << x >> \o s
  <1>1. /\ t \in Seq(S) /\ Len(t) = Len(s) + 1 /\ t[1] = x /\ Len(s) \in Nat
        /\ \A i \in 1..Len(s) : t[i + 1] = s[i]
        /\ \A i \in 2..Len(t) : t[i] = s[i - 1] /\ i - 1 \in 1..Len(s)
        /\ DOMAIN t = 1..Len(t) /\ DOMAIN s = 1..Len(s)
    OBVIOUS
  <1>2. Range(t) = {x} \cup Range(s)
    <2> HIDE DEF t
    <2>1. ASSUME NEW y \in Range(t) PROVE y \in {x} \cup Range(s)
      <3>1. PICK i \in 1..Len(t) : y = t[i]
        BY <1>1 DEF Range
      <3>2. i = 1 \/ i \in 2..Len(t)
        BY <1>1
      <3> QED BY <1>1, <3>1, <3>2 DEF Range
    <2>2. x \in Range(t)
      <3>1. 1 \in 1..Len(t)
        BY <1>1
      <3> QED BY <1>1, <3>1 DEF Range
    <2>3. ASSUME NEW y \in Range(s) PROVE y \in Range(t)
      <3>1. PICK i \in 1..Len(s) : y = s[i]
        BY <1>1 DEF Range
      <3>2. i + 1 \in 1..Len(t)
        BY <1>1
      <3> QED BY <1>1, <3>1, <3>2 DEF Range
    <2> QED BY <2>1, <2>2, <2>3
  <1>3. ASSUME IsInjective(s), x \notin Range(s) PROVE IsInjective(t)
    <2> HIDE DEF t
    <2> SUFFICES ASSUME NEW i \in 1..Len(t), NEW j \in 1..Len(t), t[i] = t[j] PROVE i = j
      BY <1>1 DEF IsInjective
    <2>1. (i = 1 \/ i \in 2..Len(t)) /\ (j = 1 \/ j \in 2..Len(t))
      BY <1>1
    <2>2. \A k \in 2..Len(t) : t[k] \in Range(s)
      BY <1>1 DEF Range
    <2>3. CASE i \in 2..Len(t) /\ j \in 2..Len(t)
      <3>0. /\ i - 1 \in DOMAIN s /\ j - 1 \in DOMAIN s
            /\ s[i - 1] = s[j - 1]
        BY <1>1, <2>3
      <3>1. i - 1 = j - 1
        BY <1>3, <3>0, Zenon DEF IsInjective
      <3> QED BY <3>1
    <2> QED BY <1>1, <1>3, <2>1, <2>2, <2>3
  <1> QED BY <1>1, <1>2, <1>3

\* The rest of a list of names lacks the first of them, and nothing else.
LEMMA TailLemma ==
  ASSUME NEW S, NEW s \in Seq(S), s # <<>>, IsInjective(s)
  PROVE  /\ Tail(s) \in Seq(S) /\ Len(Tail(s)) = Len(s) - 1
         /\ Head(s) \in S /\ Head(s) \in Range(s)
         /\ Range(Tail(s)) = Range(s) \ {Head(s)}
         /\ IsInjective(Tail(s))
  <1> DEFINE t == Tail(s)
  <1>1. /\ t \in Seq(S) /\ Len(t) = Len(s) - 1 /\ Len(s) \in Nat \ {0} /\ Head(s) = s[1]
        /\ \A i \in 1..Len(t) : t[i] = s[i + 1] /\ i + 1 \in 1..Len(s)
        /\ DOMAIN t = 1..Len(t) /\ DOMAIN s = 1..Len(s) /\ 1 \in 1..Len(s)
    OBVIOUS
  <1>2. \A i, j \in 1..Len(s) : s[i] = s[j] => i = j
    BY <1>1 DEF IsInjective
  <1> HIDE DEF t
  <1>3. ASSUME NEW y \in Range(t) PROVE y \in Range(s) \ {Head(s)}
    <2>1. PICK i \in 1..Len(t) : y = t[i]
      BY <1>1 DEF Range
    <2>2. i + 1 # 1
      BY <1>1
    <2> QED BY <1>1, <1>2, <2>1, <2>2 DEF Range
  <1>4. ASSUME NEW y \in Range(s) \ {Head(s)} PROVE y \in Range(t)
    <2>1. PICK i \in 1..Len(s) : y = s[i]
      BY <1>1 DEF Range
    <2>2. i # 1
      BY <1>1, <1>4, <2>1
    <2>3. i - 1 \in 1..Len(t) /\ (i - 1) + 1 = i
      BY <1>1, <2>2
    <2>4. t[i - 1] = s[i]
      BY <1>1, <2>3
    <2> QED BY <1>1, <2>1, <2>3, <2>4 DEF Range
  <1>5. IsInjective(t)
    <2> SUFFICES ASSUME NEW i \in 1..Len(t), NEW j \in 1..Len(t), t[i] = t[j] PROVE i = j
      BY <1>1 DEF IsInjective
    <2>1. i + 1 = j + 1
      BY <1>1, <1>2
    <2> QED BY <2>1
  <1>6. Head(s) \in S /\ Head(s) \in Range(s)
    BY <1>1 DEF Range
  <1> QED BY <1>1, <1>3, <1>4, <1>5, <1>6 DEF t

\* Two lists one after the other name what both name.
LEMMA AppendLemma ==
  ASSUME NEW S, NEW s \in Seq(S), NEW t \in Seq(S)
  PROVE  /\ s \o t \in Seq(S) /\ Len(s \o t) = Len(s) + Len(t)
         /\ Range(s \o t) = Range(s) \cup Range(t)
         /\ IsInjective(s) /\ IsInjective(t) /\ Range(s) \cap Range(t) = {}
              => IsInjective(s \o t)
  <1> DEFINE u == s \o t
  <1>1. /\ u \in Seq(S) /\ Len(u) = Len(s) + Len(t) /\ Len(s) \in Nat /\ Len(t) \in Nat
        /\ DOMAIN u = 1..Len(u) /\ DOMAIN s = 1..Len(s) /\ DOMAIN t = 1..Len(t)
    OBVIOUS
  <1>2. /\ \A i \in 1..Len(s) : u[i] = s[i] /\ i \in 1..Len(u)
        /\ \A i \in 1..Len(t) : u[i + Len(s)] = t[i] /\ i + Len(s) \in 1..Len(u)
        /\ \A i \in 1..Len(u) : i \notin 1..Len(s) =>
             i - Len(s) \in 1..Len(t) /\ u[i] = t[i - Len(s)]
    OBVIOUS
  <1> HIDE DEF u
  <1>3. ASSUME NEW y \in Range(u) PROVE y \in Range(s) \cup Range(t)
    BY <1>1, <1>2 DEF Range
  <1>4. ASSUME NEW y \in Range(s) \cup Range(t) PROVE y \in Range(u)
    <2>1. ASSUME NEW i \in 1..Len(s), y = s[i] PROVE y \in Range(u)
      BY <1>1, <1>2, <2>1 DEF Range
    <2>2. ASSUME NEW i \in 1..Len(t), y = t[i] PROVE y \in Range(u)
      <3>1. i + Len(s) \in DOMAIN u /\ u[i + Len(s)] = y
        BY <1>1, <1>2, <2>2
      <3> QED BY <3>1 DEF Range
    <2> QED BY <1>1, <2>1, <2>2 DEF Range
  <1>5. ASSUME IsInjective(s), IsInjective(t), Range(s) \cap Range(t) = {}
        PROVE  IsInjective(u)
    <2> SUFFICES ASSUME NEW i \in 1..Len(u), NEW j \in 1..Len(u), u[i] = u[j] PROVE i = j
      BY <1>1 DEF IsInjective
    <2>1. \A k \in 1..Len(s) : u[k] \in Range(s)
      BY <1>1, <1>2 DEF Range
    <2>2. \A k \in 1..Len(u) : k \notin 1..Len(s) => u[k] \in Range(t)
      BY <1>1, <1>2 DEF Range
    <2>3. CASE i \in 1..Len(s) /\ j \in 1..Len(s)
      BY <1>1, <1>2, <1>5, <2>3 DEF IsInjective
    <2>4. CASE i \notin 1..Len(s) /\ j \notin 1..Len(s)
      <3>0. /\ i - Len(s) \in DOMAIN t /\ j - Len(s) \in DOMAIN t
            /\ t[i - Len(s)] = t[j - Len(s)]
        BY <1>1, <1>2, <2>4
      <3>1. i - Len(s) = j - Len(s)
        BY <1>5, <3>0, Zenon DEF IsInjective
      <3> QED BY <1>1, <3>1
    <2> QED BY <1>5, <2>1, <2>2, <2>3, <2>4
  <1> QED BY <1>1, <1>3, <1>4, <1>5 DEF u
-----------------------------------------------------------------------------
(* Functions defined step by step.                                         *)

IsStepwise(f, n, b, S) == f[0] = b /\ \A i \in 1..n : f[i] = S[i][f[i - 1]]

\* A start and a step for each index make a function over 0..n.
LEMMA StepwiseExists ==
  ASSUME NEW n \in Nat, NEW V, NEW b \in V, NEW S \in [1..n -> [V -> V]]
  PROVE  \E f \in [0..n -> V] : IsStepwise(f, n, b, S)
  <1> DEFINE Good(f, m) == IsStepwise(f, m, b, S)
             P == {m \in Nat : m <= n => \E f \in [0..m -> V] : Good(f, m)}
  <1>1. 0 \in P
    <2> DEFINE f == [i \in 0..0 |-> b]
    <2>1. f \in [0..0 -> V] /\ Good(f, 0)
      BY DEF IsStepwise
    <2> QED BY <2>1
  <1>2. ASSUME NEW m \in P PROVE m + 1 \in P
    <2>0. m \in Nat
      BY <1>2
    <2>1. SUFFICES ASSUME m + 1 <= n PROVE \E f \in [0..(m + 1) -> V] : Good(f, m + 1)
      BY <2>0, m + 1 \in Nat
    <2>2. PICK f \in [0..m -> V] : Good(f, m)
      BY <1>2, <2>0, <2>1
    <2> DEFINE g == [i \in 0..(m + 1) |-> IF i <= m THEN f[i] ELSE S[m + 1][f[m]]]
    <2>3. m + 1 \in 1..n /\ f[m] \in V
      BY <2>0, <2>1
    <2>4. g \in [0..(m + 1) -> V]
      <3>1. S[m + 1][f[m]] \in V
        BY <2>3
      <3> QED BY <2>0, <3>1
    <2>5. g[0] = b
      BY <2>0, <2>2 DEF IsStepwise
    <2>6. ASSUME NEW i \in 1..(m + 1) PROVE g[i] = S[i][g[i - 1]]
      <3>1. CASE i <= m
        <4>1. i \in 1..m /\ i \in 0..(m + 1) /\ i - 1 \in 0..(m + 1) /\ i - 1 <= m
          BY <2>0, <3>1
        <4>2. g[i] = f[i] /\ g[i - 1] = f[i - 1]
          BY <3>1, <4>1
        <4> QED BY <2>2, <4>1, <4>2 DEF IsStepwise
      <3>2. CASE i = m + 1
        <4>1. i - 1 = m /\ m \in 0..(m + 1) /\ i \in 0..(m + 1) /\ ~(i <= m) /\ m <= m
          BY <2>0, <3>2
        <4>2. g[i] = S[m + 1][f[m]] /\ g[i - 1] = f[m]
          BY <4>1
        <4> QED BY <3>2, <4>2
      <3> QED BY <2>0, <3>1, <3>2
    <2>7. Good(g, m + 1)
      <3> HIDE DEF g
      <3> QED BY <2>5, <2>6 DEF IsStepwise
    <2> HIDE DEF g
    <2> QED BY <2>4, <2>7
  <1>3. P = Nat
    <2> HIDE DEF P
    <2> QED BY <1>1, <1>2, NatSetInduction, P \in SUBSET Nat DEF P
  <1>4. n \in P
    <2> HIDE DEF P
    <2> QED BY <1>3
  <1> QED BY <1>4

-----------------------------------------------------------------------------
(* Powers of two, as far as 32 bits go.                                    *)

Pow(e) == 2^e

\* Each doubles to the next.
LEMMA PowerStep == Pow(0) = 1 /\ \A e \in 0..31 : Pow(e + 1) = 2 * Pow(e)
  <1>90. Pow(0) = 1
    BY DEF Pow
  <1>91. ASSUME NEW e \in 0..31 PROVE Pow(e + 1) = 2 * Pow(e)
    <2>0. CASE e = 0 BY <2>0 DEF Pow
    <2>1. CASE e = 1 BY <2>1 DEF Pow
    <2>2. CASE e = 2 BY <2>2 DEF Pow
    <2>3. CASE e = 3 BY <2>3 DEF Pow
    <2>4. CASE e = 4 BY <2>4 DEF Pow
    <2>5. CASE e = 5 BY <2>5 DEF Pow
    <2>6. CASE e = 6 BY <2>6 DEF Pow
    <2>7. CASE e = 7 BY <2>7 DEF Pow
    <2>8. CASE e = 8 BY <2>8 DEF Pow
    <2>9. CASE e = 9 BY <2>9 DEF Pow
    <2>10. CASE e = 10 BY <2>10 DEF Pow
    <2>11. CASE e = 11 BY <2>11 DEF Pow
    <2>12. CASE e = 12 BY <2>12 DEF Pow
    <2>13. CASE e = 13 BY <2>13 DEF Pow
    <2>14. CASE e = 14 BY <2>14 DEF Pow
    <2>15. CASE e = 15 BY <2>15 DEF Pow
    <2>16. CASE e = 16 BY <2>16 DEF Pow
    <2>17. CASE e = 17 BY <2>17 DEF Pow
    <2>18. CASE e = 18 BY <2>18 DEF Pow
    <2>19. CASE e = 19 BY <2>19 DEF Pow
    <2>20. CASE e = 20 BY <2>20 DEF Pow
    <2>21. CASE e = 21 BY <2>21 DEF Pow
    <2>22. CASE e = 22 BY <2>22 DEF Pow
    <2>23. CASE e = 23 BY <2>23 DEF Pow
    <2>24. CASE e = 24 BY <2>24 DEF Pow
    <2>25. CASE e = 25 BY <2>25 DEF Pow
    <2>26. CASE e = 26 BY <2>26 DEF Pow
    <2>27. CASE e = 27 BY <2>27 DEF Pow
    <2>28. CASE e = 28 BY <2>28 DEF Pow
    <2>29. CASE e = 29 BY <2>29 DEF Pow
    <2>30. CASE e = 30 BY <2>30 DEF Pow
    <2>31. CASE e = 31 BY <2>31 DEF Pow
    <2>99. \/ e = 0 \/ e = 1 \/ e = 2 \/ e = 3 \/ e = 4 \/ e = 5 \/ e = 6
           \/ e = 7 \/ e = 8 \/ e = 9 \/ e = 10 \/ e = 11 \/ e = 12 \/ e = 13
           \/ e = 14 \/ e = 15 \/ e = 16 \/ e = 17 \/ e = 18 \/ e = 19 \/ e = 20
           \/ e = 21 \/ e = 22 \/ e = 23 \/ e = 24 \/ e = 25 \/ e = 26 \/ e = 27
           \/ e = 28 \/ e = 29 \/ e = 30 \/ e = 31
      OBVIOUS
    <2> QED
      BY <2>0, <2>1, <2>2, <2>3, <2>4, <2>5, <2>6, <2>7, <2>8, <2>9, <2>10, <2>11,
         <2>12, <2>13, <2>14, <2>15, <2>16, <2>17, <2>18, <2>19, <2>20, <2>21, <2>22,
         <2>23, <2>24, <2>25, <2>26, <2>27, <2>28, <2>29, <2>30, <2>31, <2>99
  <1> QED BY <1>90, <1>91

\* They are positive, and a larger exponent gives the larger power.
LEMMA PowersGrow ==
  /\ \A e \in 0..32 : Pow(e) \in Nat \ {0}
  /\ \A e, f \in 0..32 : e < f => Pow(e) < Pow(f)
  <1> DEFINE P == {e \in Nat : e <= 32 => Pow(e) \in Nat \ {0}}
  <1>1. 0 \in P
    BY PowerStep
  <1>2. ASSUME NEW e \in P PROVE e + 1 \in P
    <2>1. e \in Nat /\ e + 1 \in Nat
      BY <1>2
    <2>2. SUFFICES ASSUME e + 1 <= 32 PROVE Pow(e + 1) \in Nat \ {0}
      BY <2>1
    <2>3. e \in 0..31 /\ Pow(e) \in Nat \ {0}
      BY <1>2, <2>1, <2>2
    <2> QED BY <2>3, PowerStep
  <1>3. P = Nat
    <2>1. P \in SUBSET Nat
      OBVIOUS
    <2> HIDE DEF P
    <2> QED BY <1>1, <1>2, <2>1, NatSetInduction
  <1>4. \A e \in 0..32 : Pow(e) \in Nat \ {0}
    BY <1>3
  <1>5. ASSUME NEW e \in 0..32, NEW f \in 0..32, e < f PROVE Pow(e) < Pow(f)
    <2> DEFINE Q == {k \in Nat : e + 1 + k <= 32 => Pow(e) < Pow(e + 1 + k)}
    <2>1. 0 \in Q
      <3>1. e \in 0..31 /\ e + 1 + 0 = e + 1
        BY <1>5
      <3>2. Pow(e + 1) = 2 * Pow(e) /\ Pow(e) \in Nat \ {0}
        BY <1>4, <3>1, PowerStep
      <3> QED BY <3>1, <3>2
    <2>2. ASSUME NEW k \in Q PROVE k + 1 \in Q
      <3>1. k \in Nat /\ k + 1 \in Nat
        BY <2>2
      <3>2. SUFFICES ASSUME e + 1 + (k + 1) <= 32 PROVE Pow(e) < Pow(e + 1 + (k + 1))
        BY <3>1
      <3> DEFINE g == e + 1 + k
      <3>3. g \in 0..31 /\ g \in 0..32 /\ e + 1 + (k + 1) = g + 1
        BY <3>1, <3>2
      <3>4. Pow(e) < Pow(g)
        BY <2>2, <3>3
      <3> HIDE DEF g
      <3>5. Pow(g + 1) = 2 * Pow(g) /\ Pow(g) \in Nat \ {0} /\ Pow(e) \in Nat
        BY <1>4, <3>3, PowerStep
      <3>6. Pow(e) < Pow(g + 1)
        BY <3>4, <3>5
      <3> QED BY <3>3, <3>6, Zenon
    <2>3. Q = Nat
      <3>1. Q \in SUBSET Nat
        OBVIOUS
      <3> HIDE DEF Q
      <3> QED BY <2>1, <2>2, <3>1, NatSetInduction
    <2> DEFINE k == f - e - 1
    <2>4. k \in Nat /\ e + 1 + k = f
      BY <1>5
    <2> HIDE DEF k
    <2>5. k \in Q
      <3> HIDE DEF Q
      <3> QED BY <2>3, <2>4
    <2> QED BY <1>5, <2>4, <2>5
  <1> QED BY <1>4, <1>5

-----------------------------------------------------------------------------
(* Sequences joined.                                                       *)

\* What begins as s and goes on as t is s and t behind each other.
LEMMA Joined ==
  ASSUME NEW V, NEW s \in Seq(V), NEW t \in Seq(V), NEW g \in Seq(V),
         Len(g) = Len(s) + Len(t),
         \A i \in 1..Len(s) : g[i] = s[i],
         \A i \in 1..Len(t) : g[Len(s) + i] = t[i]
  PROVE  g = s \o t
  <1>1. Len(s) \in Nat /\ Len(t) \in Nat
    OBVIOUS
  <1>2. s \o t \in Seq(V) /\ Len(s \o t) = Len(g)
    OBVIOUS
  <1>3. ASSUME NEW i \in 1..Len(g) PROVE g[i] = (s \o t)[i]
    <2>1. CASE i <= Len(s)
      BY <1>1, <2>1
    <2>2. CASE i > Len(s)
      <3> DEFINE j == i - Len(s)
      <3>1. j \in 1..Len(t) /\ i = Len(s) + j
        BY <1>1, <2>2
      <3>2. g[i] = t[j]
        BY <3>1
      <3>3. (s \o t)[i] = t[j]
        BY <1>1, <2>2
      <3> QED BY <3>2, <3>3
    <2> QED BY <1>1, <2>1, <2>2
  <1> QED BY <1>2, <1>3

\* S joined bucket by bucket: g[i] is what its first i sequences hold.
IsJoin(g, S, n) ==
  \A i \in 1..n : g[i] = IF i = 1 THEN S[1] ELSE g[i - 1] \o S[i]

\* The library's join is the recursive function that is described so.
LEMMA Flattened ==
  ASSUME NEW S, NEW n \in Nat \ {0}, Len(S) = n, NEW g, IsJoin(g, S, n)
  PROVE  FlattenSeq(S) = g[n]
  <1> DEFINE Step(q) == [i \in 1..n |-> IF i = 1 THEN S[i] ELSE q[i - 1] \o S[i]]
             f == CHOOSE q : q = Step(q)
             h == [i \in 1..n |-> g[i]]
  <1>1. FlattenSeq(S) = f[n]
    BY DEF FlattenSeq
  <1>2. h = Step(h)
    <2>1. ASSUME NEW i \in 1..n PROVE h[i] = Step(h)[i]
      <3>1. CASE i = 1
        BY <3>1 DEF IsJoin
      <3>2. CASE i # 1
        <4>1. i - 1 \in 1..n
          BY <3>2
        <4>2. g[i] = g[i - 1] \o S[i]
          BY <3>2, Zenon DEF IsJoin
        <4>3. h[i] = g[i] /\ h[i - 1] = g[i - 1]
          BY <4>1
        <4> HIDE DEF h
        <4>4. Step(h)[i] = h[i - 1] \o S[i]
          BY <3>2
        <4> QED BY <4>2, <4>3, <4>4, Zenon
      <3> QED BY <3>1, <3>2
    <2>2. h = [i \in 1..n |-> h[i]] /\ Step(h) = [i \in 1..n |-> Step(h)[i]]
      OBVIOUS
    <2> HIDE DEF h, Step
    <2>3. [i \in 1..n |-> h[i]] = [i \in 1..n |-> Step(h)[i]]
      BY <2>1
    <2> QED BY <2>2, <2>3
  <1>3. f = Step(f)
    <2> HIDE DEF Step
    <2> QED BY <1>2
  <1> HIDE DEF f, h
  <1>30. \A i \in 1..n : f[i] = IF i = 1 THEN S[i] ELSE f[i - 1] \o S[i]
    <2> SUFFICES ASSUME NEW i \in 1..n
                 PROVE  f[i] = IF i = 1 THEN S[i] ELSE f[i - 1] \o S[i]
      OBVIOUS
    <2>1. f[i] = Step(f)[i]
      BY <1>3, Zenon
    <2> QED BY <2>1, Zenon
  <1> HIDE DEF Step
  <1> DEFINE P == {m \in Nat : m + 1 \in 1..n => f[m + 1] = g[m + 1]}
  <1>4. 0 \in P
    <2>1. f[1] = S[1]
      BY <1>30
    <2>2. g[1] = S[1]
      BY DEF IsJoin
    <2> QED BY <2>1, <2>2
  <1>5. ASSUME NEW m \in P PROVE m + 1 \in P
    <2>0. m \in Nat
      BY <1>5
    <2>1. SUFFICES ASSUME (m + 1) + 1 \in 1..n PROVE f[(m + 1) + 1] = g[(m + 1) + 1]
      BY <2>0, m + 1 \in Nat
    <2> DEFINE i == (m + 1) + 1
    <2>2. i \in 1..n /\ i # 1 /\ i - 1 = m + 1 /\ m + 1 \in 1..n
      BY <2>0, <2>1
    <2>3. f[m + 1] = g[m + 1]
      BY <1>5, <2>0, <2>2
    <2> HIDE DEF i
    <2>4. f[i] = f[i - 1] \o S[i]
      BY <1>30, <2>2, Zenon
    <2>5. g[i] = g[i - 1] \o S[i]
      BY <2>2, Zenon DEF IsJoin
    <2>6. f[i] = g[i]
      BY <2>2, <2>3, <2>4, <2>5
    <2> QED BY <2>6 DEF i
  <1>6. P = Nat
    <2> HIDE DEF P
    <2> QED BY <1>4, <1>5, NatSetInduction, P \in SUBSET Nat DEF P
  <1>7. n - 1 \in P
    <2>1. n - 1 \in Nat
      OBVIOUS
    <2> HIDE DEF P
    <2> QED BY <1>6, <2>1
  <1>8. (n - 1) + 1 = n /\ n \in 1..n
    OBVIOUS
  <1>9. f[n] = g[n]
    BY <1>7, <1>8
  <1> QED BY <1>1, <1>9

\* The join of no sequences is empty; one more sequence goes behind the join.
LEMMA FlattenAppend ==
  ASSUME NEW V, NEW S \in Seq(Seq(V)), NEW x \in Seq(V)
  PROVE  /\ FlattenSeq(<<>>) = <<>>
         /\ FlattenSeq(S) \in Seq(V)
         /\ FlattenSeq(Append(S, x)) = FlattenSeq(S) \o x
  <1> DEFINE n == Len(S)
             R == Append(S, x)
             Steps == [i \in 1..(n + 1) |-> [q \in Seq(V) |-> q \o R[i]]]
  <1>0. FlattenSeq(<<>>) = <<>>
    <2>1. Len(<<>>) = 0
      OBVIOUS
    <2> QED BY <2>1, Zenon DEF FlattenSeq
  <1>1. /\ n \in Nat /\ R \in Seq(Seq(V)) /\ Len(R) = n + 1 /\ R[n + 1] = x
        /\ \A i \in 1..n : R[i] = S[i]
        /\ \A i \in 1..(n + 1) : R[i] \in Seq(V)
    OBVIOUS
  <1>2. PICK f \in [0..(n + 1) -> Seq(V)] : IsStepwise(f, n + 1, <<>>, Steps)
    <2>1. Steps \in [1..(n + 1) -> [Seq(V) -> Seq(V)]]
      <3>1. \A i \in 1..(n + 1) : \A q \in Seq(V) : q \o R[i] \in Seq(V)
        BY <1>1
      <3> DEFINE G(i) == [q \in Seq(V) |-> q \o R[i]]
      <3> HIDE DEF R, n
      <3>2. ASSUME NEW i \in 1..(n + 1) PROVE G(i) \in [Seq(V) -> Seq(V)]
        BY <3>1
      <3> HIDE DEF G
      <3>3. [i \in 1..(n + 1) |-> G(i)] \in [1..(n + 1) -> [Seq(V) -> Seq(V)]]
        BY <3>2
      <3> QED BY <3>3 DEF G
    <2>2. n + 1 \in Nat /\ <<>> \in Seq(V)
      BY <1>1
    <2> HIDE DEF Steps
    <2> QED BY <2>1, <2>2, StepwiseExists
  <1>20. n \in Nat /\ f \in [0..(n + 1) -> Seq(V)]
    BY <1>1, <1>2
  <1>21. \A i \in 1..(n + 1) : Steps[i] = [q \in Seq(V) |-> q \o R[i]]
    OBVIOUS
  <1> HIDE DEF R, n, Steps
  <1>3. /\ f[0] = <<>>
        /\ \A i \in 1..(n + 1) : f[i] = f[i - 1] \o R[i] /\ f[i - 1] \in Seq(V)
    <2>1. \A i \in 1..(n + 1) : i - 1 \in 0..(n + 1) /\ f[i - 1] \in Seq(V)
      BY <1>20
    <2>2. \A i \in 1..(n + 1) : Steps[i] = [q \in Seq(V) |-> q \o R[i]]
      BY <1>21
    <2>3. ASSUME NEW i \in 1..(n + 1) PROVE f[i] = f[i - 1] \o R[i]
      <3>1. f[i] = Steps[i][f[i - 1]]
        BY <1>2, Zenon DEF IsStepwise
      <3> QED BY <2>1, <2>2, <3>1
    <2> QED BY <1>2, <2>1, <2>3 DEF IsStepwise
  <1>4. f[1] = R[1]
    <2>1. 1 \in 1..(n + 1) /\ (1 - 1 = 0)
      BY <1>1
    <2>2. f[1] = <<>> \o R[1]
      BY <1>3, <2>1
    <2> QED BY <1>1, <2>1, <2>2
  <1>5. IsJoin(f, R, n + 1)
    BY <1>3, <1>4 DEF IsJoin
  <1>6. FlattenSeq(R) = f[n + 1]
    <2>1. n + 1 \in Nat \ {0}
      BY <1>1
    <2> QED BY <1>1, <1>5, <2>1, Flattened
  <1>7. FlattenSeq(S) = f[n]
    <2>1. CASE n = 0
      <3>1. S = <<>>
        BY <2>1 DEF n
      <3> QED BY <1>0, <1>3, <2>1, <3>1
    <2>2. CASE n # 0
      <3>1. IsJoin(f, S, n)
        <4>1. \A i \in 1..n : i \in 1..(n + 1) /\ R[i] = S[i]
          BY <1>1
        <4>2. R[1] = S[1]
          BY <1>1, <2>2
        <4> QED BY <1>5, <4>1, <4>2 DEF IsJoin
      <3>2. n \in Nat \ {0}
        BY <1>1, <2>2
      <3> QED BY <3>1, <3>2, Flattened DEF n
    <2> QED BY <2>1, <2>2
  <1>8. f[n + 1] = f[n] \o x
    <2>1. n + 1 \in 1..(n + 1) /\ ((n + 1) - 1 = n)
      BY <1>1
    <2> QED BY <1>1, <1>3, <2>1
  <1>9. f[n] \in Seq(V)
    BY <1>1, <1>2
  <1> QED BY <1>0, <1>6, <1>7, <1>8, <1>9 DEF R, n

\* Sequences that agree place by place are the same.
LEMMA SameSequence ==
  ASSUME NEW V, NEW s \in Seq(V), NEW t \in Seq(V), Len(s) = Len(t),
         \A i \in 1..Len(s) : s[i] = t[i]
  PROVE  s = t
  OBVIOUS

\* Joining is associative, and the empty sequence adds nothing.
LEMMA JoinAssociative ==
  ASSUME NEW V
  PROVE  /\ \A a, b, c \in Seq(V) : a \o (b \o c) = (a \o b) \o c
         /\ \A a \in Seq(V) : a \o <<>> = a /\ <<>> \o a = a
         /\ \A a, b \in Seq(V) : a \o b \in Seq(V)
  <1> SUFFICES ASSUME NEW a \in Seq(V), NEW b \in Seq(V), NEW c \in Seq(V)
               PROVE  /\ a \o (b \o c) = (a \o b) \o c
                      /\ a \o <<>> = a /\ <<>> \o a = a
                      /\ a \o b \in Seq(V)
    OBVIOUS
  <1>1. /\ a \o (b \o c) \in Seq(V) /\ (a \o b) \o c \in Seq(V)
        /\ Len(a \o (b \o c)) = Len((a \o b) \o c)
    OBVIOUS
  <1>2. ASSUME NEW i \in 1..Len(a \o (b \o c))
        PROVE  (a \o (b \o c))[i] = ((a \o b) \o c)[i]
    <2>1. Len(a) \in Nat /\ Len(b) \in Nat /\ Len(c) \in Nat /\ i \in Nat
      OBVIOUS
    <2>2. CASE i <= Len(a)
      BY <2>1, <2>2
    <2>3. CASE i > Len(a) /\ i <= Len(a) + Len(b)
      BY <2>1, <2>3
    <2>4. CASE i > Len(a) + Len(b)
      BY <2>1, <2>4
    <2> QED BY <2>1, <2>2, <2>3, <2>4
  <1>3. a \o (b \o c) = (a \o b) \o c
    <2> DEFINE s == a \o (b \o c)
               u == (a \o b) \o c
    <2>1. s \in Seq(V) /\ u \in Seq(V) /\ Len(s) = Len(u)
      BY <1>1
    <2>2. \A i \in 1..Len(s) : s[i] = u[i]
      BY <1>2
    <2> HIDE DEF s, u
    <2>3. s = u
      BY <2>1, <2>2, SameSequence
    <2> QED BY <2>3 DEF s, u
  <1>4. a \o <<>> = a /\ <<>> \o a = a /\ a \o b \in Seq(V)
    OBVIOUS
  <1> QED BY <1>3, <1>4

\* What the last of the sequences gains, the join gains at its end.
LEMMA FlattenGrows ==
  ASSUME NEW V, NEW S \in Seq(Seq(V)), NEW R \in Seq(Seq(V)), NEW x \in Seq(V),
         Len(S) > 0, Len(R) = Len(S),
         \A i \in 1..(Len(S) - 1) : R[i] = S[i],
         R[Len(S)] = S[Len(S)] \o x
  PROVE  FlattenSeq(R) = FlattenSeq(S) \o x
  <1> DEFINE n == Len(S)
             F == [i \in 1..(n - 1) |-> S[i]]
             y == S[n]
  <1>1. n \in Nat \ {0} /\ n \in 1..n /\ n - 1 \in Nat /\ y \in Seq(V)
    OBVIOUS
  <1>2. F \in Seq(Seq(V)) /\ Len(F) = n - 1
    <2>1. \A i \in 1..(n - 1) : S[i] \in Seq(V)
      BY <1>1
    <2> HIDE DEF n
    <2> QED BY <1>1, <2>1
  <1>3. S = Append(F, y)
    <2>1. Append(F, y) \in Seq(Seq(V)) /\ Len(Append(F, y)) = n
      BY <1>1, <1>2
    <2>2. ASSUME NEW i \in 1..n PROVE S[i] = Append(F, y)[i]
      <3>1. CASE i = n
        <4> HIDE DEF F
        <4> QED BY <1>1, <1>2, <3>1
      <3>2. CASE i # n
        <4>1. i \in 1..(n - 1)
          BY <1>1, <3>2
        <4>2. F[i] = S[i]
          BY <4>1
        <4> HIDE DEF F
        <4> QED BY <1>1, <1>2, <4>1, <4>2
      <3> QED BY <3>1, <3>2
    <2> DEFINE A == Append(F, y)
    <2>3. A \in Seq(Seq(V)) /\ Len(S) = Len(A) /\ \A i \in 1..Len(S) : S[i] = A[i]
      BY <2>1, <2>2
    <2> HIDE DEF A
    <2>4. S = A
      BY <2>3, SameSequence
    <2> QED BY <2>4 DEF A
  <1>4. R = Append(F, y \o x)
    <2>0. y \o x \in Seq(V)
      BY <1>1
    <2>1. Append(F, y \o x) \in Seq(Seq(V)) /\ Len(Append(F, y \o x)) = n
      BY <1>1, <1>2, <2>0
    <2>2. ASSUME NEW i \in 1..n PROVE R[i] = Append(F, y \o x)[i]
      <3>1. CASE i = n
        <4>1. Append(F, y \o x)[n] = y \o x
          <5> HIDE DEF F, y
          <5> QED BY <1>1, <1>2, <2>0
        <4> QED BY <3>1, <4>1
      <3>2. CASE i # n
        <4>1. i \in 1..(n - 1)
          BY <1>1, <3>2
        <4>2. F[i] = R[i]
          BY <4>1
        <4> HIDE DEF F
        <4> QED BY <1>1, <1>2, <4>1, <4>2
      <3> QED BY <3>1, <3>2
    <2> DEFINE A == Append(F, y \o x)
    <2>3. A \in Seq(Seq(V)) /\ Len(R) = Len(A) /\ \A i \in 1..Len(R) : R[i] = A[i]
      BY <2>1, <2>2
    <2> HIDE DEF A
    <2>4. R = A
      BY <2>3, SameSequence
    <2> QED BY <2>4 DEF A
  <1> HIDE DEF F, y
  <1>5. FlattenSeq(S) = FlattenSeq(F) \o y
    BY <1>1, <1>2, <1>3, FlattenAppend
  <1>6. FlattenSeq(R) = FlattenSeq(F) \o (y \o x)
    <2> DEFINE z == y \o x
    <2>1. z \in Seq(V) /\ R = Append(F, z)
      BY <1>1, <1>4
    <2> HIDE DEF z
    <2>2. FlattenSeq(R) = FlattenSeq(F) \o z
      BY <1>2, <2>1, FlattenAppend
    <2> QED BY <2>2 DEF z
  <1>7. FlattenSeq(F) \in Seq(V)
    BY <1>1, <1>2, FlattenAppend
  <1>8. FlattenSeq(F) \o (y \o x) = (FlattenSeq(F) \o y) \o x
    <2> DEFINE f == FlattenSeq(F)
    <2>1. f \in Seq(V) /\ y \in Seq(V) /\ x \in Seq(V)
      BY <1>1, <1>7
    <2> HIDE DEF f
    <2>2. \A a, b, c \in Seq(V) : a \o (b \o c) = (a \o b) \o c
      BY JoinAssociative, Zenon
    <2>3. f \o (y \o x) = (f \o y) \o x
      BY <2>1, <2>2, Zenon
    <2> QED BY <2>3 DEF f
  <1> QED BY <1>5, <1>6, <1>8

=============================================================================
