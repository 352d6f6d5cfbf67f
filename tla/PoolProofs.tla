----------------------------- MODULE PoolProofs ------------------------------
(***************************************************************************)
(* Proofs about the pools: the dynamic arena pools and the ladder of them, *)
(* the fixed arena pool, the pool of graded blocks.                        *)
(*                                                                         *)
(* The ladder: what each pool keeps on its shelf is a list threaded        *)
(* through the arenas themselves, nothing is lost or held twice, and the   *)
(* bit arithmetic of the ladder finds the grade a walk over the rungs      *)
(* would.  The invariant names the shelf of each pool as a sequence of     *)
(* arenas; the links and the head are then one sequence's, and every       *)
(* operation is one on sequences: alloc takes the head off, free puts one  *)
(* in front, reserve puts several.                                         *)
(*                                                                         *)
(* The fixed pool: its free list is such a sequence too, over the slots    *)
(* no client has, and the size of its one block, a product in 32 bits, is  *)
(* the size of what lies in it.                                            *)
(*                                                                         *)
(* The graded blocks: a struct is sound over the blocks out and the arenas *)
(* taken (Sane) when the blocks on its lists and those out lie apart, of   *)
(* grades of the pool, below the cursor, and the two counters weigh them.  *)
(* Each step on the struct is shown to keep that and the bytes there are,  *)
(* the split of an arena's rest as a strip of blocks of one grade after    *)
(* another; the operations are made of these.                              *)
(***************************************************************************)
EXTENDS Pools, DataLemmas

-----------------------------------------------------------------------------
(* Lists threaded through what is on them.                                 *)

\* The i-th of a list, and NULL past its end.
Nth(s, i) == IF i \in 1..Len(s) THEN s[i] ELSE NULL

\* s is the list over D that starts at head and goes on by the links in lk.
Chain(D, s, head, lk) ==
  /\ NULL \notin D
  /\ s \in Seq(D) /\ IsInjective(s)
  /\ head = Nth(s, 1)
  /\ \A i \in 1..Len(s) : lk[s[i]] = Nth(s, i + 1)

\* From head the links thread a list of n of D, those of S.
Threaded(D, head, lk, n, S) ==
  \E s \in Seq(D) : Chain(D, s, head, lk) /\ Len(s) = n /\ Range(s) = S

\* o names m of S, each linked by lk to the one named before it, the first of
\* them to head.
Spliced(o, m, S, head, lk) ==
  /\ o \in [1..m -> S]
  /\ \A i, j \in 1..m : i # j => o[i] # o[j]
  /\ lk[o[1]] = head
  /\ \A i \in 2..m : lk[o[i]] = o[i - 1]

\* What C steps of a walk over D meet.
Walk(D, head, lk, C) ==
  LET at[n \in 0..C] ==
        IF n = 0 THEN head ELSE IF at[n - 1] \in D THEN lk[at[n - 1]] ELSE at[n - 1]
  IN at

\* The walk from the head of a list meets what it names in turn, then NULL.
LEMMA ListWalked ==
  ASSUME NEW D, NEW s, NEW head, NEW lk, Chain(D, s, head, lk), NEW C \in Nat
  PROVE  \A n \in 0..C : Walk(D, head, lk, C)[n] = Nth(s, n + 1)
  <1> DEFINE Step(f) == [n \in 0..C |-> IF n = 0 THEN head
                           ELSE IF f[n - 1] \in D THEN lk[f[n - 1]] ELSE f[n - 1]]
             W == [n \in 0..C |-> Nth(s, n + 1)]
             at == CHOOSE f : f = Step(f)
  <1>1. /\ s \in Seq(D) /\ IsInjective(s) /\ head = Nth(s, 1) /\ Len(s) \in Nat
        /\ \A i \in 1..Len(s) : lk[s[i]] = Nth(s, i + 1)
        /\ NULL \notin D
    BY DEF Chain
  <1>2. \A i \in 1..Len(s) : s[i] \in D
    BY <1>1
  <1>4. W = Step(W)
    <2>1. ASSUME NEW n \in 0..C PROVE W[n] = Step(W)[n]
      <3>1. CASE n = 0
        BY <1>1, <3>1
      <3>2. CASE n # 0
        <4>1. n - 1 \in 0..C /\ (n - 1) + 1 = n /\ n \in 1..C
          BY <1>1, <3>2
        <4>2. W[n - 1] = Nth(s, n)
          BY <4>1
        <4>3. CASE n \in 1..Len(s)
          <5>1. W[n - 1] = s[n] /\ s[n] \in D
            BY <1>2, <4>2, <4>3 DEF Nth
          <5>2. lk[s[n]] = Nth(s, n + 1)
            BY <1>1, <4>3
          <5> HIDE DEF W
          <5>3. Step(W)[n] = lk[W[n - 1]]
            BY <3>2, <4>1, <5>1
          <5>4. W[n] = Nth(s, n + 1)
            BY DEF W
          <5> QED BY <5>1, <5>2, <5>3, <5>4
        <4>4. CASE n \notin 1..Len(s)
          <5>1. W[n - 1] = NULL /\ n + 1 \notin 1..Len(s)
            BY <1>1, <4>1, <4>2, <4>4 DEF Nth
          <5> HIDE DEF W
          <5>2. Step(W)[n] = W[n - 1]
            BY <1>1, <3>2, <4>1, <5>1
          <5>3. W[n] = Nth(s, n + 1)
            BY DEF W
          <5> QED BY <5>1, <5>2, <5>3 DEF Nth
        <4> QED BY <4>3, <4>4
      <3> QED BY <3>1, <3>2
    <2> QED BY <2>1
  <1>5. at = Step(at)
    <2> HIDE DEF Step, W
    <2> QED BY <1>4
  <1> HIDE DEF at, W
  <1> DEFINE T == {n \in Nat : n <= C => at[n] = Nth(s, n + 1)}
  <1>6. T = Nat
    <2>1. 0 \in T
      <3>1. at[0] = head
        BY <1>1, <1>5
      <3> QED BY <1>1, <3>1
    <2>2. ASSUME NEW n \in T PROVE n + 1 \in T
      <3>1. n \in Nat /\ n + 1 \in Nat
        BY <2>2
      <3>2. SUFFICES ASSUME n + 1 <= C PROVE at[n + 1] = Nth(s, (n + 1) + 1)
        BY <3>1
      <3>3. at[n] = Nth(s, n + 1) /\ n + 1 \in 0..C /\ n + 1 # 0 /\ (n + 1) - 1 = n
        BY <1>1, <2>2, <3>1, <3>2
      <3>4. at[n + 1] = IF at[n] \in D THEN lk[at[n]] ELSE at[n]
        BY <1>5, <3>3
      <3>5. CASE n + 1 \in 1..Len(s)
        <4>1. at[n] = s[n + 1] /\ s[n + 1] \in D
          BY <1>2, <3>3, <3>5 DEF Nth
        <4>2. lk[s[n + 1]] = Nth(s, (n + 1) + 1)
          BY <1>1, <3>5
        <4> QED BY <3>4, <4>1, <4>2
      <3>6. CASE n + 1 \notin 1..Len(s)
        <4>1. (n + 1) + 1 \notin 1..Len(s)
          BY <1>1, <3>1, <3>6
        <4> QED BY <1>1, <3>3, <3>4, <3>6, <4>1 DEF Nth
      <3> QED BY <3>5, <3>6
    <2>3. T \in SUBSET Nat
      OBVIOUS
    <2> HIDE DEF T
    <2> QED BY <2>1, <2>2, <2>3, NatSetInduction
  <1>7. \A n \in 0..C : at[n] = Nth(s, n + 1)
    BY <1>1, <1>6
  <1>8. Walk(D, head, lk, C) = at
    BY DEF Walk, at
  <1> QED BY <1>7, <1>8, Zenon

\* A list names as many as it is long.
LEMMA ListCounts ==
  ASSUME NEW D, IsFiniteSet(D), NEW s, NEW head, NEW lk, Chain(D, s, head, lk)
  PROVE  /\ IsFiniteSet(Range(s)) /\ Cardinality(Range(s)) = Len(s)
         /\ Len(s) <= Cardinality(D)
  <1>1. s \in Seq(D) /\ IsInjective(s) /\ Cardinality(D) \in Nat
    BY FS_CardinalityType DEF Chain
  <1>2. s \in [1..Len(s) -> Range(s)] /\ Len(s) \in Nat /\ DOMAIN s = 1..Len(s)
    BY <1>1 DEF Range
  <1>3. IsFiniteSet(1..Len(s)) /\ Cardinality(1..Len(s)) = Len(s)
    <2>1. /\ IsFiniteSet(1..Len(s))
          /\ Cardinality(1..Len(s)) = IF 1 > Len(s) THEN 0 ELSE Len(s) - 1 + 1
      BY <1>2, FS_Interval, 1 \in Int, Len(s) \in Int
    <2> QED BY <1>2, <2>1
  <1>4. \A i, j \in 1..Len(s) : s[i] = s[j] => i = j
    BY <1>1, <1>2 DEF IsInjective
  <1>5. s \in Bijection(1..Len(s), Range(s))
    BY <1>2, <1>4 DEF Bijection, Injection, Surjection, Range, IsInjective
  <1>6. IsFiniteSet(Range(s)) /\ Cardinality(Range(s)) = Len(s)
    BY <1>3, <1>5, FS_Bijection DEF ExistsBijection
  <1>7. Range(s) \subseteq D
    BY <1>1, <1>2 DEF Range
  <1> QED BY <1>1, <1>6, <1>7, FS_Subset

\* What a list says of its head and its members.
LEMMA ChainHead ==
  ASSUME NEW D, NEW s, NEW head, NEW lk, Chain(D, s, head, lk)
  PROVE  /\ s \in Seq(D) /\ IsInjective(s) /\ Len(s) \in Nat
         /\ Range(s) \subseteq D
         /\ head = NULL <=> s = <<>>
         /\ Len(s) = 0 <=> s = <<>>
         /\ s # <<>> => head = Head(s) /\ head \in Range(s)
  <1>1. /\ s \in Seq(D) /\ IsInjective(s) /\ head = Nth(s, 1) /\ Len(s) \in Nat
        /\ DOMAIN s = 1..Len(s) /\ NULL \notin D
        /\ \A i \in 1..Len(s) : s[i] \in D
    BY DEF Chain
  <1>2. Len(s) = 0 <=> s = <<>>
    BY <1>1
  <1>3. ASSUME s # <<>> PROVE head = Head(s) /\ head \in Range(s) /\ head # NULL
    <2>1. 1 \in 1..Len(s)
      BY <1>1, <1>2, <1>3
    <2> QED BY <1>1, <1>3, <2>1 DEF Nth, Range
  <1>4. s = <<>> => head = NULL
    BY <1>1 DEF Nth
  <1> QED BY <1>1, <1>2, <1>3, <1>4 DEF Range

\* No arenas: no list.
LEMMA ChainEmpty ==
  ASSUME NEW D, NULL \notin D, NEW lk PROVE Chain(D, <<>>, NULL, lk)
  BY DEF Chain, Nth, IsInjective

\* A list is its own arenas' links, whatever is written into others.
LEMMA ChainKept ==
  ASSUME NEW D, NEW s, NEW head, NEW lk, NEW lk2, Chain(D, s, head, lk),
         \A a \in Range(s) : lk2[a] = lk[a]
  PROVE  Chain(D, s, head, lk2)
  <1>1. \A i \in 1..Len(s) : s[i] \in Range(s)
    BY DEF Chain, Range
  <1> QED BY <1>1 DEF Chain

\* The head taken off.
LEMMA ChainPop ==
  ASSUME NEW D, NEW s, NEW head, NEW lk, Chain(D, s, head, lk), s # <<>>
  PROVE  Chain(D, Tail(s), lk[head], lk)
  <1>1. /\ s \in Seq(D) /\ IsInjective(s) /\ Len(s) \in Nat /\ Len(s) # 0
        /\ head = Head(s) /\ \A i \in 1..Len(s) : lk[s[i]] = Nth(s, i + 1)
    BY ChainHead DEF Chain
  <1>2. /\ Tail(s) \in Seq(D) /\ IsInjective(Tail(s)) /\ Len(Tail(s)) = Len(s) - 1
    BY <1>1, TailLemma
  <1>3. /\ \A i \in 1..Len(Tail(s)) : Tail(s)[i] = s[i + 1] /\ i + 1 \in 1..Len(s)
        /\ Head(s) = s[1] /\ 1 \in 1..Len(s)
    BY <1>1, <1>2
  <1>4. \A i \in Nat : Nth(Tail(s), i + 1) = Nth(s, i + 2)
    <2> SUFFICES ASSUME NEW i \in Nat PROVE Nth(Tail(s), i + 1) = Nth(s, i + 2)
      OBVIOUS
    <2>1. i + 1 \in 1..Len(Tail(s)) <=> i + 2 \in 1..Len(s)
      BY <1>1, <1>2
    <2>2. (i + 1) + 1 = i + 2
      OBVIOUS
    <2>3. i + 1 \in 1..Len(Tail(s)) => Tail(s)[i + 1] = s[i + 2]
      BY <1>3, <2>2
    <2> QED BY <2>1, <2>3 DEF Nth
  <1>5. lk[head] = Nth(Tail(s), 1)
    <2>1. lk[head] = Nth(s, 2)
      BY <1>1, <1>3
    <2>2. Nth(Tail(s), 0 + 1) = Nth(s, 0 + 2)
      BY <1>4
    <2> QED BY <2>1, <2>2
  <1>6. ASSUME NEW i \in 1..Len(Tail(s)) PROVE lk[Tail(s)[i]] = Nth(Tail(s), i + 1)
    <2>1. lk[s[i + 1]] = Nth(s, (i + 1) + 1) /\ i \in Nat /\ (i + 1) + 1 = i + 2
      BY <1>1, <1>3
    <2>2. Nth(Tail(s), i + 1) = Nth(s, i + 2)
      BY <1>4, <2>1
    <2> QED BY <1>3, <2>1, <2>2
  <1> QED BY <1>2, <1>5, <1>6 DEF Chain

\* Several arenas, each put in front of the one before it.
LEMMA ChainSplice ==
  ASSUME NEW D, NEW s, NEW head, NEW lk, NEW lk2, Chain(D, s, head, lk),
         \A a \in Range(s) : lk2[a] = lk[a],
         NEW m \in Nat \ {0}, NEW o, Spliced(o, m, D \ Range(s), head, lk2)
  PROVE  Threaded(D, o[m], lk2, Len(s) + m, Range(s) \cup Range(o))
  <1> DEFINE k == Len(s)
             t == [i \in 1..(m + k) |-> IF i <= m THEN o[m + 1 - i] ELSE s[i - m]]
  <1>0. /\ o \in [1..m -> D \ Range(s)]
        /\ \A i, j \in 1..m : i # j => o[i] # o[j]
        /\ lk2[o[1]] = head /\ \A i \in 2..m : lk2[o[i]] = o[i - 1]
    BY DEF Spliced
  <1>1. /\ s \in Seq(D) /\ IsInjective(s) /\ k \in Nat /\ Range(s) \subseteq D
        /\ DOMAIN s = 1..k /\ head = Nth(s, 1)
        /\ \A i \in 1..k : lk[s[i]] = Nth(s, i + 1) /\ s[i] \in Range(s)
    BY ChainHead DEF Chain, Range
  <1>2. \A i \in 1..m : m + 1 - i \in 1..m /\ i \in 1..(m + k) /\ i <= m
    BY <1>0, <1>1
  <1>3. \A i \in 1..(m + k) : i \notin 1..m => i - m \in 1..k /\ ~(i <= m)
    BY <1>0, <1>1
  <1>4. /\ \A i \in 1..m : t[i] = o[m + 1 - i]
        /\ \A i \in 1..(m + k) : i \notin 1..m => t[i] = s[i - m]
    BY <1>2, <1>3
  <1>5. t \in Seq(D) /\ Len(t) = m + k /\ DOMAIN t = 1..(m + k)
    <2>1. \A i \in 1..(m + k) : t[i] \in D
      BY <1>0, <1>1, <1>2, <1>3, <1>4
    <2>2. m + k \in Nat /\ DOMAIN t = 1..(m + k)
      BY <1>0, <1>1
    <2>3. t \in [1..(m + k) -> D]
      BY <2>1
    <2> HIDE DEF t
    <2> QED BY <2>2, <2>3
  <1> HIDE DEF t
  <1>6. \A i \in 1..(m + k) : i \notin 1..m => i + m \notin 1..m
    BY <1>0, <1>1
  <1>7. IsInjective(t)
    <2> SUFFICES ASSUME NEW i \in 1..(m + k), NEW j \in 1..(m + k), t[i] = t[j] PROVE i = j
      BY <1>5 DEF IsInjective
    <2>1. CASE i \in 1..m /\ j \in 1..m
      <3>1. m + 1 - i = m + 1 - j
        BY <1>0, <1>2, <1>4, <2>1
      <3> QED BY <2>1, <3>1
    <2>2. CASE i \notin 1..m /\ j \notin 1..m
      <3>1. i - m \in DOMAIN s /\ j - m \in DOMAIN s /\ s[i - m] = s[j - m]
        BY <1>0, <1>1, <1>3, <1>4, <2>2
      <3>2. i - m = j - m
        BY <1>0, <1>1, <3>1, Zenon DEF IsInjective
      <3> QED BY <1>0, <1>1, <3>2
    <2>3. ASSUME NEW x \in 1..m PROVE t[x] \notin Range(s)
      <3>1. t[x] = o[m + 1 - x] /\ m + 1 - x \in 1..m
        BY <1>2, <1>4
      <3> QED BY <1>0, <3>1
    <2>4. \A x \in 1..(m + k) : x \notin 1..m => t[x] \in Range(s)
      BY <1>0, <1>1, <1>3, <1>4
    <2> QED BY <2>1, <2>2, <2>3, <2>4
  <1>8. o[m] = Nth(t, 1)
    <2>1. 1 \in 1..m /\ 1 \in 1..(m + k) /\ m + 1 - 1 = m
      BY <1>0, <1>1
    <2> QED BY <1>4, <1>5, <2>1 DEF Nth
  <1>9. \A i \in 1..k : Nth(t, m + i) = s[i] /\ m + i \in 1..(m + k) /\ m + i \notin 1..m
    <2> SUFFICES ASSUME NEW i \in 1..k
                 PROVE  Nth(t, m + i) = s[i] /\ m + i \in 1..(m + k) /\ m + i \notin 1..m
      OBVIOUS
    <2>1. m + i \in 1..(m + k) /\ m + i \notin 1..m /\ (m + i) - m = i
      BY <1>0, <1>1
    <2> QED BY <1>4, <1>5, <2>1 DEF Nth
  <1>10. \A i \in Nat \ {0} : Nth(t, m + i) = Nth(s, i)
    <2> SUFFICES ASSUME NEW i \in Nat \ {0} PROVE Nth(t, m + i) = Nth(s, i)
      OBVIOUS
    <2>1. CASE i \in 1..k
      BY <1>9, <2>1 DEF Nth
    <2>2. CASE i \notin 1..k
      <3>1. m + i \notin 1..(m + k)
        BY <1>0, <1>1, <2>2
      <3> QED BY <1>5, <2>2, <3>1 DEF Nth
    <2> QED BY <2>1, <2>2
  <1>11. ASSUME NEW i \in 1..(m + k) PROVE lk2[t[i]] = Nth(t, i + 1)
    <2>1. CASE i \in 1..m /\ i # m
      <3>1. i + 1 \in 1..m /\ i + 1 \in 1..(m + k) /\ m + 1 - i \in 2..m
            /\ (m + 1 - i) - 1 = m + 1 - (i + 1)
        BY <1>0, <1>1, <2>1
      <3>2. lk2[t[i]] = o[m + 1 - (i + 1)]
        BY <1>0, <1>4, <2>1, <3>1
      <3>3. Nth(t, i + 1) = o[m + 1 - (i + 1)]
        BY <1>4, <1>5, <3>1 DEF Nth
      <3> QED BY <3>2, <3>3
    <2>2. CASE i = m
      <3>1. m \in 1..m /\ m + 1 - m = 1
        OBVIOUS
      <3>2. lk2[t[i]] = head
        BY <1>0, <1>4, <2>2, <3>1
      <3>3. Nth(t, m + 1) = Nth(s, 1)
        BY <1>0, <1>10
      <3> QED BY <1>0, <1>1, <2>2, <3>2, <3>3
    <2>3. CASE i \notin 1..m
      <3>1. i - m \in 1..k /\ i + 1 = m + ((i - m) + 1) /\ (i - m) + 1 \in Nat \ {0}
        BY <1>0, <1>1, <1>3, <2>3
      <3>2. lk2[t[i]] = Nth(s, (i - m) + 1)
        BY <1>0, <1>1, <1>4, <2>3, <3>1
      <3>3. Nth(t, m + ((i - m) + 1)) = Nth(s, (i - m) + 1)
        BY <1>0, <1>10, <3>1
      <3> QED BY <3>1, <3>2, <3>3
    <2> QED BY <2>1, <2>2, <2>3
  <1>12. Range(t) = Range(s) \cup Range(o)
    <2>1. ASSUME NEW y \in Range(t) PROVE y \in Range(s) \cup Range(o)
      <3>1. PICK i \in 1..(m + k) : y = t[i]
        BY <1>5 DEF Range
      <3>2. \A j \in 1..m : o[j] \in Range(o)
        BY <1>0 DEF Range
      <3> QED BY <1>0, <1>1, <1>2, <1>3, <1>4, <3>1, <3>2
    <2>2. ASSUME NEW y \in Range(s) PROVE y \in Range(t)
      <3>1. PICK i \in 1..k : y = s[i]
        BY <1>0, <1>1 DEF Range
      <3>2. y = t[m + i] /\ m + i \in DOMAIN t
        BY <1>5, <1>9, <3>1 DEF Nth
      <3> QED BY <3>2 DEF Range
    <2>3. ASSUME NEW i \in 1..m PROVE o[i] \in Range(t)
      <3>1. m + 1 - i \in 1..m /\ m + 1 - i \in 1..(m + k) /\ m + 1 - (m + 1 - i) = i
        BY <1>0, <1>1
      <3>2. t[m + 1 - i] = o[i]
        BY <1>0, <1>4, <3>1
      <3> QED BY <1>5, <3>1, <3>2 DEF Range
    <2>4. Range(o) = {o[i] : i \in 1..m}
      BY <1>0 DEF Range
    <2> QED BY <2>1, <2>2, <2>3, <2>4
  <1>13. Chain(D, t, o[m], lk2)
    BY <1>5, <1>7, <1>8, <1>11 DEF Chain
  <1>14. Len(t) = Len(s) + m
    BY <1>0, <1>1, <1>5
  <1> QED BY <1>5, <1>12, <1>13, <1>14 DEF Threaded

\* One arena put in front.
LEMMA ChainPush ==
  ASSUME NEW D, NEW s, NEW head, NEW lk, NEW lk2, Chain(D, s, head, lk),
         \A a \in Range(s) : lk2[a] = lk[a],
         NEW a \in D \ Range(s), lk2[a] = head
  PROVE  Threaded(D, a, lk2, Len(s) + 1, Range(s) \cup {a})
  <1> DEFINE o == [i \in 1..1 |-> a]
  <1>1. Spliced(o, 1, D \ Range(s), head, lk2) /\ o[1] = a /\ Range(o) = {a}
    BY DEF Spliced, Range
  <1> HIDE DEF o
  <1>2. Threaded(D, o[1], lk2, Len(s) + 1, Range(s) \cup Range(o))
    BY <1>1, ChainSplice, 1 \in Nat \ {0}
  <1> QED BY <1>1, <1>2
-----------------------------------------------------------------------------
(* The inductive invariant.                                                *)

\* The arenas of a pool: in stock, in the order of L, or out.
Mine(L, p) == Range(L[p]) \cup lent[p]

\* L says what each pool has in stock: empty arenas of its size, as many as it
\* counts, in nobody's hands; and what the host gave is some pool's, of one only.
Shelved(L, p) ==
  /\ Chain(Arenas, L[p], pools[p].free_head, link)
  /\ Len(L[p]) = pools[p].spare_count
  /\ \A a \in Range(L[p]) : arena[a] = made(p)
  /\ Range(L[p]) \cap lent[p] = {}

Shelves(L) ==
  /\ L \in [PoolIds -> Seq(Arenas)]
  /\ \A p \in PoolIds : Shelved(L, p)
  /\ \A p, q \in PoolIds : p # q => Mine(L, p) \cap Mine(L, q) = {}
  /\ host = UNION {Mine(L, p) : p \in PoolIds}

\* What a pool counts, and the size it made what it lent in; a pool that is not
\* in use holds nothing.
Counted(p) ==
  /\ pools[p].acquired_count = Cardinality(lent[p])
  /\ pools[p].spare_count <= pools[p].spare_limit
  /\ \A a \in lent[p] : arena[a].capacity = pools[p].arena_capacity
  /\ pools[p].arena_capacity = 0 => pools[p] = EmptyPool

Bits(s) == {e \in Exponents : \E i \in DOMAIN s : 2^e = s[i]}

\* The grades are the rungs init was given, each of its size or released.
Rungs(s) ==
  /\ ladder_accepted(s)
  /\ ladder = [grade_count |-> Len(s), grade_bits |-> Bits(s)]
  /\ \A p \in PoolIds :
       IF p < Len(s) THEN pools[p].arena_capacity \in {0, s[p + 1]}
                     ELSE pools[p] = EmptyPool

\* The pools, and with them the ladder.
Pooled ==
  /\ TypeOK
  /\ \E L \in [PoolIds -> Seq(Arenas)] : Shelves(L)
  /\ \A p \in PoolIds : Counted(p)

IInv ==
  /\ Pooled
  /\ is_standing => \E s \in Ladders : Rungs(s)

\* What ArrivesFresh says of a step.
Fresh ==
  \A p \in PoolIds : \A a \in lent'[p] \ lent[p] :
    arena'[a] = made(p) /\ \A q \in PoolIds : a \notin lent[q]
-----------------------------------------------------------------------------
(* The lists of the pools.                                                 *)

\* The walk from the head of a pool's list meets its arenas in turn, then NULL; so
\* what is on the list is what the sequence names, and its length is their number.
LEMMA WalkMeets ==
  ASSUME NEW s, NEW head, Chain(Arenas, s, head, link)
  PROVE  /\ on_list(head) = Range(s)
         /\ Cardinality(on_list(head)) = Len(s)
         /\ walked(head)[Len(s)] = NULL
  <1> DEFINE C == Cardinality(Arenas)
             at == Walk(Arenas, head, link, C)
  <1>1. /\ s \in Seq(Arenas) /\ Len(s) \in Nat /\ DOMAIN s = 1..Len(s)
        /\ IsFiniteSet(Arenas) /\ NULL \notin Arenas /\ C \in Nat
    BY PoolAssumption, FS_CardinalityType DEF Chain
  <1>2. \A i \in 1..Len(s) : s[i] \in Arenas
    BY <1>1
  <1>3. IsFiniteSet(Range(s)) /\ Cardinality(Range(s)) = Len(s) /\ Len(s) <= C
    BY <1>1, ListCounts
  <1>7. \A n \in 0..C : at[n] = Nth(s, n + 1)
    <2> HIDE DEF C
    <2> QED BY <1>1, ListWalked
  <1>8. walked(head) = at
    BY DEF walked, at, Walk
  <1> HIDE DEF at
  <1>9. on_list(head) = Range(s)
    <2>1. on_list(head) = {at[n] : n \in 0..C} \cap Arenas
      BY <1>8 DEF on_list
    <2>2. ASSUME NEW a \in on_list(head) PROVE a \in Range(s)
      <3>1. PICK n \in 0..C : a = Nth(s, n + 1) /\ a \in Arenas
        BY <1>7, <2>1
      <3>2. n + 1 \in 1..Len(s)
        BY <1>1, <3>1 DEF Nth
      <3> QED BY <1>1, <3>1, <3>2 DEF Nth, Range
    <2>3. ASSUME NEW a \in Range(s) PROVE a \in on_list(head)
      <3>1. PICK i \in 1..Len(s) : a = s[i]
        BY <1>1 DEF Range
      <3>2. i - 1 \in 0..C /\ (i - 1) + 1 = i
        BY <1>1, <1>3, <3>1
      <3>3. at[i - 1] = a
        BY <1>7, <3>1, <3>2 DEF Nth
      <3> QED BY <1>2, <2>1, <3>1, <3>2, <3>3
    <2> QED BY <2>2, <2>3
  <1>10. at[Len(s)] = NULL
    <2>1. Len(s) \in 0..C /\ Len(s) + 1 \notin 1..Len(s)
      BY <1>1, <1>3
    <2> QED BY <1>7, <2>1 DEF Nth
  <1> QED BY <1>3, <1>8, <1>9, <1>10, Zenon

-----------------------------------------------------------------------------
(* One pool's step.                                                        *)

\* What a step of the pool p alone leaves as it was: the other descriptors, what
\* they lent, and their arenas.
OthersKept(L, p) ==
  /\ \A q \in PoolIds : q # p => pools'[q] = pools[q] /\ lent'[q] = lent[q]
  /\ \A a \in host \ Mine(L, p) : arena'[a] = arena[a] /\ link'[a] = link[a]

\* What p has afterwards, s in stock, was its own or is new from the host.
OwnStep(L, p, s) ==
  /\ Chain(Arenas, s, pools[p].free_head, link)'
  /\ Len(s) = pools'[p].spare_count
  /\ \A a \in Range(s) : arena'[a] = [capacity |-> pools'[p].arena_capacity, last_index |-> 0]
  /\ Range(s) \cap lent'[p] = {}
  /\ Range(s) \cup lent'[p] \subseteq Mine(L, p) \cup (Arenas \ host)
  /\ host' = (host \ Mine(L, p)) \cup Range(s) \cup lent'[p]
  /\ \A a \in lent'[p] \ lent[p] : arena'[a] = made(p)

\* Such a step keeps every pool in order, and lends what is fresh.
LEMMA OnePool ==
  ASSUME Pooled, TypeOK', NEW p \in PoolIds, NEW L, Shelves(L), NEW s \in Seq(Arenas),
         OthersKept(L, p), OwnStep(L, p, s), Counted(p)'
  PROVE  Pooled' /\ Fresh
  <1> DEFINE N == [L EXCEPT ![p] = s]
  <1>1. /\ L \in [PoolIds -> Seq(Arenas)]
        /\ \A q \in PoolIds : Shelved(L, q)
        /\ \A q, r \in PoolIds : q # r => Mine(L, q) \cap Mine(L, r) = {}
        /\ host = UNION {Mine(L, q) : q \in PoolIds}
    BY DEF Shelves
  <1>2. /\ N \in [PoolIds -> Seq(Arenas)] /\ N[p] = s
        /\ \A q \in PoolIds : q # p => N[q] = L[q]
    BY <1>1
  <1> HIDE DEF N
  <1>3. ASSUME NEW q \in PoolIds, q # p
        PROVE  Mine(L, q) \subseteq host \ Mine(L, p) /\ Mine(N, q)' = Mine(L, q)
    <2>1. Mine(L, q) \cap Mine(L, p) = {} /\ Mine(L, q) \subseteq host
      BY <1>1, <1>3
    <2>2. lent'[q] = lent[q]
      BY <1>3 DEF OthersKept
    <2> QED BY <1>2, <1>3, <2>1, <2>2 DEF Mine
  <1>4. Mine(N, p)' = Range(s) \cup lent'[p]
    BY <1>2 DEF Mine
  <1>5. ASSUME NEW q \in PoolIds PROVE Shelved(N, q)'
    <2>1. CASE q = p
      BY <1>2, <2>1 DEF OwnStep, Shelved, made
    <2>2. CASE q # p
      <3>1. Shelved(L, q)
        BY <1>1
      <3>2. pools'[q] = pools[q] /\ lent'[q] = lent[q] /\ N[q] = L[q]
        BY <1>2, <2>2 DEF OthersKept
      <3>3. \A a \in Range(L[q]) : arena'[a] = arena[a] /\ link'[a] = link[a]
        BY <1>3, <2>2 DEF OthersKept, Mine
      <3>4. Chain(Arenas, L[q], pools[q].free_head, link')
        BY <3>1, <3>3, ChainKept DEF Shelved
      <3>5. Chain(Arenas, N[q], pools'[q].free_head, link')
        BY <3>2, <3>4
      <3>6. \A a \in Range(N[q]) : arena'[a] = made(q)'
        BY <3>1, <3>2, <3>3 DEF Shelved, made
      <3> QED BY <3>1, <3>2, <3>5, <3>6 DEF Shelved
    <2> QED BY <2>1, <2>2
  <1>6. ASSUME NEW q \in PoolIds, NEW r \in PoolIds, q # r
        PROVE  Mine(N, q)' \cap Mine(N, r)' = {}
    <2>1. Mine(N, p)' \subseteq Mine(L, p) \cup (Arenas \ host)
      BY <1>4 DEF OwnStep
    <2>2. Mine(L, q) \cap Mine(L, r) = {}
      BY <1>1, <1>6
    <2> QED BY <1>3, <1>6, <2>1, <2>2
  <1>7. host' = UNION {Mine(N, q)' : q \in PoolIds}
    <2>1. host' = (host \ Mine(L, p)) \cup Mine(N, p)'
      BY <1>4 DEF OwnStep
    <2>2. ASSUME NEW a \in host' PROVE \E q \in PoolIds : a \in Mine(N, q)'
      <3>1. CASE a \in Mine(N, p)'
        BY <3>1
      <3>2. CASE a \in host \ Mine(L, p)
        <4>1. PICK q \in PoolIds : a \in Mine(L, q)
          BY <1>1, <3>2
        <4>2. q # p
          BY <3>2, <4>1
        <4> QED BY <1>3, <4>1, <4>2
      <3> QED BY <2>1, <2>2, <3>1, <3>2
    <2>3. ASSUME NEW q \in PoolIds, NEW a \in Mine(N, q)' PROVE a \in host'
      BY <1>3, <2>1, <2>3
    <2> QED BY <2>2, <2>3
  <1>8. Shelves(N)'
    BY <1>2, <1>5, <1>6, <1>7 DEF Shelves
  <1>9. ASSUME NEW q \in PoolIds PROVE Counted(q)'
    <2>1. CASE q = p
      BY <2>1
    <2>2. CASE q # p
      <3>1. Counted(q)
        BY DEF Pooled
      <3>2. pools'[q] = pools[q] /\ lent'[q] = lent[q]
        BY <2>2 DEF OthersKept
      <3>3. \A a \in lent[q] : arena'[a] = arena[a]
        BY <1>3, <2>2 DEF OthersKept, Mine
      <3> QED BY <3>1, <3>2, <3>3 DEF Counted
    <2> QED BY <2>1, <2>2
  <1>10. Fresh
    <2> SUFFICES ASSUME NEW q \in PoolIds, NEW a \in lent'[q] \ lent[q], NEW r \in PoolIds
                 PROVE  arena'[a] = made(q) /\ a \notin lent[r]
      BY DEF Fresh
    <2>1. q = p
      BY DEF OthersKept
    <2>2. arena'[a] = made(p)
      BY <2>1 DEF OwnStep
    <2>3. a \in Mine(L, p) \cup (Arenas \ host)
      BY <2>1 DEF OwnStep
    <2>4. r = p => a \notin lent[r]
      BY <2>1
    <2>5. r # p => lent[r] \subseteq host \ Mine(L, p)
      BY <1>3 DEF Mine
    <2>6. arena'[a] = made(q)
      BY <2>1, <2>2, Zenon
    <2> QED BY <2>3, <2>4, <2>5, <2>6
  <1> QED BY <1>2, <1>8, <1>9, <1>10 DEF Pooled

\* A step that touches one descriptor alone, and leaves its size or clears it.
Within(p) ==
  /\ \A q \in PoolIds : q # p => pools'[q] = pools[q]
  /\ pools'[p].arena_capacity \in {0, pools[p].arena_capacity}

\* What is known of one pool and its shelf.
LEMMA PoolFacts ==
  ASSUME Pooled, NEW p \in PoolIds, NEW L, Shelves(L)
  PROVE  /\ pools \in [PoolIds -> Descriptors] /\ pools[p] \in Descriptors
         /\ arena \in [Arenas -> [capacity : 0..UINT32_MAX, last_index : 0..UINT32_MAX]]
         /\ link \in [Arenas -> Arenas \cup {NULL, JUNK}]
         /\ lent \in [PoolIds -> SUBSET Arenas] /\ lent[p] \subseteq Arenas
         /\ host \subseteq Arenas /\ Mine(L, p) \subseteq host
         /\ L[p] \in Seq(Arenas) /\ Chain(Arenas, L[p], pools[p].free_head, link)
         /\ Len(L[p]) = pools[p].spare_count /\ Range(L[p]) \cap lent[p] = {}
         /\ \A a \in Range(L[p]) : arena[a] = made(p)
         /\ Mine(L, p) = Range(L[p]) \cup lent[p]
         /\ IsFiniteSet(lent[p]) /\ Counted(p)
         /\ on_list(pools[p].free_head) = Range(L[p])
  <1>1. TypeOK /\ Shelved(L, p) /\ Counted(p) /\ L[p] \in Seq(Arenas)
    BY DEF Pooled, Shelves
  <1>2. Mine(L, p) \subseteq host
    BY DEF Shelves
  <1>3. IsFiniteSet(lent[p])
    BY <1>1, PoolAssumption, FS_Subset DEF TypeOK
  <1>4. Chain(Arenas, L[p], pools[p].free_head, link)
    BY <1>1 DEF Shelved
  <1>5. on_list(pools[p].free_head) = Range(L[p])
    BY <1>4, WalkMeets
  <1> QED BY <1>1, <1>2, <1>3, <1>4, <1>5 DEF TypeOK, Shelved, Mine

\* A step that leaves the pools alone.
LEMMA Still ==
  ASSUME Pooled, UNCHANGED poolVars
  PROVE  Pooled' /\ Fresh /\ \A p \in PoolIds : Within(p)
  <1>1. /\ pools' = pools /\ arena' = arena /\ link' = link /\ host' = host /\ lent' = lent
    BY DEF poolVars
  <1>2. TypeOK'
    BY <1>1 DEF Pooled, TypeOK
  <1>3. PICK L \in [PoolIds -> Seq(Arenas)] : Shelves(L)
    BY DEF Pooled
  <1>4. Shelves(L)'
    <2>1. \A p \in PoolIds : Shelved(L, p)'
      BY <1>1, <1>3 DEF Shelves, Shelved, Chain, made
    <2>2. \A p \in PoolIds : Mine(L, p)' = Mine(L, p)
      BY <1>1 DEF Mine
    <2> QED BY <1>1, <1>3, <2>1, <2>2 DEF Shelves
  <1>5. \A p \in PoolIds : Counted(p)'
    BY <1>1 DEF Pooled, Counted
  <1> QED BY <1>1, <1>2, <1>4, <1>5 DEF Pooled, Fresh, Within

\* Lending: the head of the shelf, or an arena made for the purpose.
LEMMA AllocStep ==
  ASSUME Pooled, NEW p \in PoolIds, arnm_dynamic_arena_pool_alloc(p)
  PROVE  Pooled' /\ Fresh /\ Within(p)
  <1> DEFINE head == pools[p].free_head
  <1>0. PICK L \in [PoolIds -> Seq(Arenas)] : Shelves(L)
    BY DEF Pooled
  <1> DEFINE s == L[p]
  <1>1. /\ pools \in [PoolIds -> Descriptors] /\ pools[p] \in Descriptors
        /\ arena \in [Arenas -> [capacity : 0..UINT32_MAX, last_index : 0..UINT32_MAX]]
        /\ link \in [Arenas -> Arenas \cup {NULL, JUNK}]
        /\ lent \in [PoolIds -> SUBSET Arenas] /\ lent[p] \subseteq Arenas
        /\ host \subseteq Arenas /\ Mine(L, p) \subseteq host
        /\ s \in Seq(Arenas) /\ Chain(Arenas, s, head, link)
        /\ Len(s) = pools[p].spare_count /\ Range(s) \cap lent[p] = {}
        /\ \A a \in Range(s) : arena[a] = made(p)
        /\ Mine(L, p) = Range(s) \cup lent[p]
        /\ IsFiniteSet(lent[p]) /\ Counted(p)
    BY <1>0, PoolFacts
  <1>2. /\ IsInjective(s) /\ Len(s) \in Nat /\ Range(s) \subseteq Arenas
        /\ head = NULL <=> s = <<>>
        /\ Len(s) = 0 <=> s = <<>>
        /\ s # <<>> => head = Head(s) /\ head \in Range(s)
    BY <1>1, ChainHead
  <1> HIDE DEF head, s
  <1>3. CASE UNCHANGED poolVars
    BY <1>3, Still
  <1>4. ASSUME is_initialized(p), ~counter_full(p), head # NULL,
               pools' = [pools EXCEPT ![p].free_head = link[head], ![p].spare_count = @ - 1,
                                      ![p].acquired_count = @ + 1],
               lent' = [lent EXCEPT ![p] = @ \cup {head}], UNCHANGED <<arena, link, host>>
        PROVE  Pooled' /\ Fresh /\ Within(p)
    <2>1. /\ arena' = arena /\ link' = link /\ host' = host
          /\ lent'[p] = lent[p] \cup {head}
          /\ \A q \in PoolIds : q # p => pools'[q] = pools[q] /\ lent'[q] = lent[q]
      BY <1>1, <1>4
    <2>2. /\ pools'[p].free_head = link[head]
          /\ pools'[p].spare_count = pools[p].spare_count - 1
          /\ pools'[p].acquired_count = pools[p].acquired_count + 1
          /\ pools'[p].arena_capacity = pools[p].arena_capacity
          /\ pools'[p].spare_limit = pools[p].spare_limit
      BY <1>1, <1>4 DEF Descriptors
    <2>3. s # <<>> /\ head = Head(s) /\ head \in Range(s) /\ head \in Arenas
      BY <1>2, <1>4
    <2>4. /\ Chain(Arenas, Tail(s), link[head], link) /\ Tail(s) \in Seq(Arenas)
          /\ Len(Tail(s)) = Len(s) - 1 /\ Range(Tail(s)) = Range(s) \ {head}
      BY <1>1, <1>2, <2>3, ChainPop, TailLemma
    <2>5. link[head] \in Arenas \cup {NULL}
      BY <2>4 DEF Chain, Nth
    <2>6. TypeOK'
      <3>1. /\ pools[p].acquired_count + 1 \in 0..ACQUIRED_MAX
            /\ pools[p].spare_count - 1 \in Nat
        <4>1. pools[p].acquired_count \in 0..ACQUIRED_MAX /\ ACQUIRED_MAX \in Nat
          BY <1>1, PoolAssumption DEF Descriptors
        <4>2. pools[p].acquired_count # ACQUIRED_MAX
          BY <1>4 DEF counter_full
        <4>3. Len(s) # 0
          BY <1>2, <2>3
        <4>4. Len(s) \in Nat /\ pools[p].spare_count = Len(s)
          BY <1>1, <1>2
        <4> QED BY <4>1, <4>2, <4>3, <4>4
      <3>2. pools' \in [PoolIds -> Descriptors]
        BY <1>1, <1>4, <2>5, <3>1 DEF Descriptors
      <3>3. lent' \in [PoolIds -> SUBSET Arenas]
        BY <1>1, <1>4, <2>3
      <3> QED BY <1>1, <2>1, <3>2, <3>3 DEF TypeOK
    <2>7. OthersKept(L, p)
      BY <2>1 DEF OthersKept
    <2>8. OwnStep(L, p, Tail(s))
      <3>1. Chain(Arenas, Tail(s), pools[p].free_head, link)'
        BY <2>1, <2>2, <2>4
      <3>2. \A a \in Range(s) : arena'[a] = made(p) /\ arena'[a] =
              [capacity |-> pools'[p].arena_capacity, last_index |-> 0]
        BY <1>1, <2>1, <2>2 DEF made
      <3>3. host' = (host \ Mine(L, p)) \cup Range(Tail(s)) \cup lent'[p]
        BY <1>1, <2>1, <2>3, <2>4
      <3> QED BY <1>1, <2>1, <2>2, <2>3, <2>4, <3>1, <3>2, <3>3 DEF OwnStep
    <2>9. Counted(p)'
      <3>1. Cardinality(lent[p] \cup {head}) = Cardinality(lent[p]) + 1
        BY <1>1, <2>3, FS_AddElement
      <3>2. pools'[p].arena_capacity # 0
        BY <1>4, <2>2 DEF is_initialized
      <3>3. arena'[head].capacity = pools'[p].arena_capacity
        BY <1>1, <2>1, <2>2, <2>3 DEF made
      <3>4. pools'[p].spare_count <= pools'[p].spare_limit
        BY <1>1, <2>2 DEF Counted, Descriptors
      <3> QED BY <1>1, <2>1, <2>2, <3>1, <3>2, <3>3, <3>4 DEF Counted
    <2>10. Within(p)
      BY <2>1, <2>2 DEF Within
    <2> QED BY <1>0, <2>4, <2>6, <2>7, <2>8, <2>9, <2>10, OnePool
  <1>5. ASSUME is_initialized(p), ~counter_full(p), head = NULL,
               NEW a \in Arenas \ host,
               host' = host \cup {a}, lent' = [lent EXCEPT ![p] = @ \cup {a}],
               arena' = [arena EXCEPT ![a] = made(p)], link' = [link EXCEPT ![a] = JUNK],
               pools' = [pools EXCEPT ![p].acquired_count = @ + 1]
        PROVE  Pooled' /\ Fresh /\ Within(p)
    <2>1. /\ lent'[p] = lent[p] \cup {a}
          /\ \A q \in PoolIds : q # p => pools'[q] = pools[q] /\ lent'[q] = lent[q]
          /\ arena'[a] = made(p)
          /\ \A b \in Arenas : b # a => arena'[b] = arena[b] /\ link'[b] = link[b]
      BY <1>1, <1>5
    <2>2. /\ pools'[p].free_head = head
          /\ pools'[p].spare_count = pools[p].spare_count
          /\ pools'[p].acquired_count = pools[p].acquired_count + 1
          /\ pools'[p].arena_capacity = pools[p].arena_capacity
          /\ pools'[p].spare_limit = pools[p].spare_limit
      BY <1>1, <1>5 DEF Descriptors, head
    <2>3. s = <<>> /\ Range(s) = {}
      BY <1>2, <1>5 DEF Range
    <2>4. Chain(Arenas, s, head, link')
      BY <1>1, <2>3, ChainKept
    <2>5. TypeOK'
      <3>1. pools[p].acquired_count + 1 \in 0..ACQUIRED_MAX
        <4>1. pools[p].acquired_count \in 0..ACQUIRED_MAX /\ ACQUIRED_MAX \in Nat
          BY <1>1, PoolAssumption DEF Descriptors
        <4>2. pools[p].acquired_count # ACQUIRED_MAX
          BY <1>5 DEF counter_full
        <4> QED BY <4>1, <4>2
      <3>2. pools' \in [PoolIds -> Descriptors]
        BY <1>1, <1>5, <3>1 DEF Descriptors
      <3>3. lent' \in [PoolIds -> SUBSET Arenas]
        BY <1>1, <1>5
      <3>4. made(p) \in [capacity : 0..UINT32_MAX, last_index : 0..UINT32_MAX]
        BY <1>1, WidthAssumption DEF made, Descriptors
      <3>5. arena' \in [Arenas -> [capacity : 0..UINT32_MAX, last_index : 0..UINT32_MAX]]
        BY <1>1, <1>5, <3>4
      <3>6. link' \in [Arenas -> Arenas \cup {NULL, JUNK}] /\ host' \subseteq Arenas
        BY <1>1, <1>5
      <3> QED BY <3>2, <3>3, <3>5, <3>6 DEF TypeOK
    <2>6. OthersKept(L, p)
      BY <1>1, <1>5, <2>1 DEF OthersKept
    <2>7. OwnStep(L, p, s)
      <3>1. Chain(Arenas, s, pools[p].free_head, link)'
        BY <2>2, <2>4
      <3>2. host' = (host \ Mine(L, p)) \cup Range(s) \cup lent'[p]
        BY <1>1, <1>5, <2>1
      <3> QED BY <1>1, <1>5, <2>1, <2>2, <2>3, <3>1, <3>2 DEF OwnStep
    <2>8. Counted(p)'
      <3>1. Cardinality(lent[p] \cup {a}) = Cardinality(lent[p]) + 1
        BY <1>1, <1>5, FS_AddElement
      <3>2. pools'[p].arena_capacity # 0
        BY <1>5, <2>2 DEF is_initialized
      <3>3. arena'[a].capacity = pools'[p].arena_capacity
        BY <2>1, <2>2 DEF made
      <3>4. \A b \in lent[p] : arena'[b].capacity = pools'[p].arena_capacity
        BY <1>1, <1>5, <2>1, <2>2 DEF Counted
      <3>5. pools'[p].spare_count <= pools'[p].spare_limit
        BY <1>1, <2>2 DEF Counted
      <3> QED BY <1>1, <2>1, <2>2, <3>1, <3>2, <3>3, <3>4, <3>5 DEF Counted
    <2>9. Within(p)
      BY <2>1, <2>2 DEF Within
    <2> QED BY <1>0, <1>1, <2>5, <2>6, <2>7, <2>8, <2>9, OnePool
  <1> QED BY <1>3, <1>4, <1>5 DEF arnm_dynamic_arena_pool_alloc, Refuse, head

\* Taking back: reset onto the shelf, or back to the host when the shelf is full.
LEMMA FreeStep ==
  ASSUME Pooled, NEW p \in PoolIds, NEW a, arnm_dynamic_arena_pool_free(p, a)
  PROVE  Pooled' /\ Fresh /\ Within(p)
  <1> DEFINE head == pools[p].free_head
  <1>0. PICK L \in [PoolIds -> Seq(Arenas)] : Shelves(L)
    BY DEF Pooled
  <1> DEFINE s == L[p]
  <1>1. /\ pools \in [PoolIds -> Descriptors] /\ pools[p] \in Descriptors
        /\ arena \in [Arenas -> [capacity : 0..UINT32_MAX, last_index : 0..UINT32_MAX]]
        /\ link \in [Arenas -> Arenas \cup {NULL, JUNK}]
        /\ lent \in [PoolIds -> SUBSET Arenas] /\ lent[p] \subseteq Arenas
        /\ host \subseteq Arenas /\ Mine(L, p) \subseteq host
        /\ s \in Seq(Arenas) /\ Chain(Arenas, s, head, link)
        /\ Len(s) = pools[p].spare_count /\ Range(s) \cap lent[p] = {}
        /\ \A b \in Range(s) : arena[b] = made(p)
        /\ Mine(L, p) = Range(s) \cup lent[p]
        /\ IsFiniteSet(lent[p]) /\ Counted(p)
    BY <1>0, PoolFacts
  <1>2. /\ Len(s) \in Nat /\ Range(s) \subseteq Arenas
        /\ head \in Arenas \cup {NULL}
    BY <1>1, ChainHead DEF Descriptors
  <1> HIDE DEF head, s
  <1>3. CASE UNCHANGED poolVars
    BY <1>3, Still
  <1> DEFINE n == pools[p].acquired_count
  <1>4. ASSUME n # 0, a \in lent[p]
        PROVE  n - 1 \in 0..ACQUIRED_MAX /\ n - 1 = Cardinality(lent[p] \ {a})
    <2>1. n \in 0..ACQUIRED_MAX /\ ACQUIRED_MAX \in Nat /\ n = Cardinality(lent[p])
      BY <1>1, PoolAssumption DEF Descriptors, Counted
    <2>2. Cardinality(lent[p] \ {a}) = Cardinality(lent[p]) - 1
      BY <1>1, <1>4, FS_RemoveElement
    <2> QED BY <1>4, <2>1, <2>2
  <1> HIDE DEF n
  <1>5. ASSUME is_initialized(p), n # 0, a \in lent[p],
               lent' = [lent EXCEPT ![p] = @ \ {a}], shelf_has_room(p),
               arena' = reset_on_return(a), link' = [link EXCEPT ![a] = head],
               pools' = [pools EXCEPT ![p].free_head = a, ![p].spare_count = @ + 1,
                                      ![p].acquired_count = @ - 1], UNCHANGED host
        PROVE  Pooled' /\ Fresh /\ Within(p)
    <2>1. /\ lent'[p] = lent[p] \ {a} /\ host' = host /\ a \in Arenas
          /\ \A q \in PoolIds : q # p => pools'[q] = pools[q] /\ lent'[q] = lent[q]
          /\ \A b \in Arenas : b # a => arena'[b] = arena[b] /\ link'[b] = link[b]
          /\ link'[a] = head /\ arena'[a].capacity = arena[a].capacity
          /\ arena'[a] = [capacity |-> arena[a].capacity, last_index |-> 0]
      BY <1>1, <1>5 DEF reset_on_return
    <2>2. /\ pools'[p].free_head = a
          /\ pools'[p].spare_count = pools[p].spare_count + 1
          /\ pools'[p].acquired_count = n - 1
          /\ pools'[p].arena_capacity = pools[p].arena_capacity
          /\ pools'[p].spare_limit = pools[p].spare_limit
      BY <1>1, <1>5 DEF Descriptors, n
    <2>3. a \in Arenas \ Range(s)
      BY <1>1, <1>5, <2>1
    <2>4. Threaded(Arenas, a, link', Len(s) + 1, Range(s) \cup {a})
      <3>1. \A b \in Range(s) : link'[b] = link[b]
        BY <1>2, <2>1, <2>3
      <3>2. Chain(Arenas, s, head, link) /\ link'[a] = head
        BY <1>1, <2>1
      <3> QED BY <2>3, <3>1, <3>2, ChainPush
    <2>5. PICK t \in Seq(Arenas) :
            Chain(Arenas, t, a, link') /\ Len(t) = Len(s) + 1 /\ Range(t) = Range(s) \cup {a}
      BY <2>4 DEF Threaded
    <2>6. TypeOK'
      <3>1. pools[p].spare_count + 1 \in Nat
        BY <1>1 DEF Descriptors
      <3>2. pools' \in [PoolIds -> Descriptors]
        BY <1>1, <1>4, <1>5, <2>1, <3>1 DEF Descriptors, n
      <3>3. lent' \in [PoolIds -> SUBSET Arenas]
        BY <1>1, <1>5
      <3>4. arena' \in [Arenas -> [capacity : 0..UINT32_MAX, last_index : 0..UINT32_MAX]]
        <4>1. \A b \in Arenas :
                arena'[b] \in [capacity : 0..UINT32_MAX, last_index : 0..UINT32_MAX]
          <5>1. [capacity |-> arena[a].capacity, last_index |-> 0]
                  \in [capacity : 0..UINT32_MAX, last_index : 0..UINT32_MAX]
            BY <1>1, <2>1, WidthAssumption
          <5>2. \A b \in Arenas : arena[b] \in [capacity : 0..UINT32_MAX,
                                                last_index : 0..UINT32_MAX]
            BY <1>1
          <5>3. arena'[a] \in [capacity : 0..UINT32_MAX, last_index : 0..UINT32_MAX]
            BY <2>1, <5>1, Zenon
          <5> QED BY <2>1, <5>2, <5>3
        <4>2. arena' = [b \in Arenas |-> arena'[b]]
          BY <1>1, <1>5 DEF reset_on_return
        <4> QED BY <4>1, <4>2
      <3>5. link' \in [Arenas -> Arenas \cup {NULL, JUNK}]
        BY <1>1, <1>2, <1>5
      <3> QED BY <1>1, <2>1, <3>2, <3>3, <3>4, <3>5 DEF TypeOK
    <2>7. OthersKept(L, p)
      BY <1>1, <1>5, <2>1 DEF OthersKept
    <2>8. arena[a].capacity = pools[p].arena_capacity
      BY <1>1, <1>5 DEF Counted
    <2>9. OwnStep(L, p, t)
      <3>1. Chain(Arenas, t, pools[p].free_head, link)'
        BY <2>2, <2>5
      <3>2. \A b \in Range(t) :
              arena'[b] = [capacity |-> pools'[p].arena_capacity, last_index |-> 0]
        BY <1>1, <1>2, <2>1, <2>2, <2>5, <2>8 DEF made
      <3>3. host' = (host \ Mine(L, p)) \cup Range(t) \cup lent'[p]
        BY <1>1, <1>5, <2>1, <2>5
      <3> QED BY <1>1, <1>5, <2>1, <2>2, <2>5, <3>1, <3>2, <3>3 DEF OwnStep
    <2>10. Counted(p)'
      <3>1. pools'[p].arena_capacity # 0
        BY <1>5, <2>2 DEF is_initialized
      <3>2. \A b \in lent'[p] : arena'[b].capacity = pools'[p].arena_capacity
        BY <1>1, <2>1, <2>2 DEF Counted
      <3>3. pools'[p].spare_count <= pools'[p].spare_limit
        BY <1>1, <1>5, <2>2 DEF shelf_has_room, Descriptors
      <3> QED BY <1>4, <1>5, <2>1, <2>2, <3>1, <3>2, <3>3 DEF Counted
    <2>11. Within(p)
      BY <2>1, <2>2 DEF Within
    <2> QED BY <1>0, <2>5, <2>6, <2>7, <2>9, <2>10, <2>11, OnePool
  <1>6. ASSUME is_initialized(p), n # 0, a \in lent[p],
               lent' = [lent EXCEPT ![p] = @ \ {a}], ~shelf_has_room(p),
               arena' = destroyed(arena, {a}, NotMade), link' = destroyed(link, {a}, NULL),
               pools' = [pools EXCEPT ![p].acquired_count = @ - 1], host' = host \ {a}
        PROVE  Pooled' /\ Fresh /\ Within(p)
    <2>1. /\ lent'[p] = lent[p] \ {a} /\ a \in Arenas
          /\ \A q \in PoolIds : q # p => pools'[q] = pools[q] /\ lent'[q] = lent[q]
          /\ \A b \in Arenas : b # a => arena'[b] = arena[b] /\ link'[b] = link[b]
      BY <1>1, <1>6 DEF destroyed
    <2>2. /\ pools'[p].free_head = head
          /\ pools'[p].spare_count = pools[p].spare_count
          /\ pools'[p].acquired_count = n - 1
          /\ pools'[p].arena_capacity = pools[p].arena_capacity
          /\ pools'[p].spare_limit = pools[p].spare_limit
      BY <1>1, <1>6 DEF Descriptors, n, head
    <2>3. a \notin Range(s)
      BY <1>1, <1>6
    <2>4. Chain(Arenas, s, head, link')
      <3>1. \A b \in Range(s) : link'[b] = link[b]
        BY <1>2, <2>1, <2>3
      <3> QED BY <1>1, <3>1, ChainKept
    <2>5. TypeOK'
      <3>1. pools' \in [PoolIds -> Descriptors]
        BY <1>1, <1>4, <1>6, <2>1 DEF Descriptors, n
      <3>2. lent' \in [PoolIds -> SUBSET Arenas]
        BY <1>1, <1>6
      <3>3. arena' \in [Arenas -> [capacity : 0..UINT32_MAX, last_index : 0..UINT32_MAX]]
        BY <1>1, <1>6, WidthAssumption DEF destroyed, NotMade
      <3>4. link' \in [Arenas -> Arenas \cup {NULL, JUNK}] /\ host' \subseteq Arenas
        BY <1>1, <1>6 DEF destroyed
      <3> QED BY <3>1, <3>2, <3>3, <3>4 DEF TypeOK
    <2>6. OthersKept(L, p)
      BY <1>1, <1>6, <2>1 DEF OthersKept
    <2>7. OwnStep(L, p, s)
      <3>1. Chain(Arenas, s, pools[p].free_head, link)'
        BY <2>2, <2>4
      <3>2. \A b \in Range(s) :
              arena'[b] = [capacity |-> pools'[p].arena_capacity, last_index |-> 0]
        BY <1>1, <1>2, <2>1, <2>2, <2>3 DEF made
      <3>3. host' = (host \ Mine(L, p)) \cup Range(s) \cup lent'[p]
        BY <1>1, <1>6, <2>1, <2>3
      <3> QED BY <1>1, <2>1, <2>2, <3>1, <3>2, <3>3 DEF OwnStep
    <2>8. Counted(p)'
      <3>1. pools'[p].arena_capacity # 0
        BY <1>6, <2>2 DEF is_initialized
      <3>2. \A b \in lent'[p] : arena'[b].capacity = pools'[p].arena_capacity
        BY <1>1, <2>1, <2>2 DEF Counted
      <3>3. pools'[p].spare_count <= pools'[p].spare_limit
        BY <1>1, <2>2 DEF Counted
      <3> QED BY <1>4, <1>6, <2>1, <2>2, <3>1, <3>2, <3>3 DEF Counted
    <2>9. Within(p)
      BY <2>1, <2>2 DEF Within
    <2> QED BY <1>0, <1>1, <2>5, <2>6, <2>7, <2>8, <2>9, OnePool
  <1> QED
    BY <1>3, <1>5, <1>6 DEF arnm_dynamic_arena_pool_free, returned, Refuse, head, n

\* Stocking up: the new arenas in front of the shelf, each before the one made
\* ahead of it.
LEMMA ReserveStep ==
  ASSUME Pooled, NEW p \in PoolIds, NEW n \in Nat, arnm_dynamic_arena_pool_reserve(p, n)
  PROVE  Pooled' /\ Fresh /\ Within(p)
  <1> DEFINE head == pools[p].free_head
             m == n - pools[p].spare_count
  <1>0. PICK L \in [PoolIds -> Seq(Arenas)] : Shelves(L)
    BY DEF Pooled
  <1> DEFINE s == L[p]
  <1>1. /\ pools \in [PoolIds -> Descriptors] /\ pools[p] \in Descriptors
        /\ arena \in [Arenas -> [capacity : 0..UINT32_MAX, last_index : 0..UINT32_MAX]]
        /\ link \in [Arenas -> Arenas \cup {NULL, JUNK}]
        /\ lent \in [PoolIds -> SUBSET Arenas] /\ lent[p] \subseteq Arenas
        /\ host \subseteq Arenas /\ Mine(L, p) \subseteq host
        /\ s \in Seq(Arenas) /\ Chain(Arenas, s, head, link)
        /\ Len(s) = pools[p].spare_count /\ Range(s) \cap lent[p] = {}
        /\ \A b \in Range(s) : arena[b] = made(p)
        /\ Mine(L, p) = Range(s) \cup lent[p]
        /\ IsFiniteSet(lent[p]) /\ Counted(p)
    BY <1>0, PoolFacts
  <1>2. /\ Len(s) \in Nat /\ Range(s) \subseteq Arenas
        /\ head \in Arenas \cup {NULL}
    BY <1>1, ChainHead DEF Descriptors
  <1> HIDE DEF head, s
  <1>3. CASE UNCHANGED poolVars
    BY <1>3, Still
  <1>4. ASSUME is_initialized(p), n <= pools[p].spare_limit, m > 0,
               NEW o \in Orders(m),
               link' = spliced(p, o),
               arena' = destroyed(arena, {o[i] : i \in 1..m}, made(p)),
               pools' = [pools EXCEPT ![p].free_head = o[m], ![p].spare_count = n],
               host' = host \cup {o[i] : i \in 1..m}, UNCHANGED lent
        PROVE  Pooled' /\ Fresh /\ Within(p)
    <2>1. /\ m \in Nat \ {0} /\ n = Len(s) + m
          /\ o \in [1..m -> Arenas \ host] /\ DOMAIN o = 1..m
          /\ \A i, j \in 1..m : i # j => o[i] # o[j]
          /\ Range(o) = {o[i] : i \in 1..m} /\ Range(o) \subseteq Arenas \ host
          /\ o[m] \in Arenas
      <3>1. m \in Nat \ {0} /\ n = Len(s) + m
        BY <1>1, <1>2, <1>4
      <3> HIDE DEF m
      <3> QED BY <1>4, <3>1 DEF Orders, Range
    <2> HIDE DEF m
    <2>2. /\ lent' = lent
          /\ \A q \in PoolIds : q # p => pools'[q] = pools[q]
          /\ \A b \in Arenas : b \notin Range(o) => arena'[b] = arena[b] /\ link'[b] = link[b]
          /\ \A b \in Range(o) : arena'[b] = made(p)
      <3>1. \A b \in Arenas : b \notin Range(o) => ~(\E i \in DOMAIN o : o[i] = b)
        BY DEF Range
      <3> QED BY <1>1, <1>4, <2>1, <3>1 DEF destroyed, spliced
    <2>3. /\ pools'[p].free_head = o[m]
          /\ pools'[p].spare_count = n
          /\ pools'[p].acquired_count = pools[p].acquired_count
          /\ pools'[p].arena_capacity = pools[p].arena_capacity
          /\ pools'[p].spare_limit = pools[p].spare_limit
      BY <1>1, <1>4 DEF Descriptors
    <2>4. Spliced(o, m, Arenas \ Range(s), head, link')
      <3>1. o \in [1..m -> Arenas \ Range(s)]
        BY <1>1, <2>1
      <3>2. ASSUME NEW i \in 1..m
            PROVE  link'[o[i]] = IF i = 1 THEN head ELSE o[i - 1]
        <4>1. (CHOOSE j \in DOMAIN o : o[j] = o[i]) = i
          BY <2>1
        <4>2. o[i] \in Arenas /\ \E j \in DOMAIN o : o[j] = o[i]
          BY <2>1
        <4> QED BY <1>4, <4>1, <4>2 DEF spliced, head
      <3>3. 1 \in 1..m /\ \A i \in 2..m : i \in 1..m /\ i # 1
        BY <2>1
      <3>4. link'[o[1]] = head /\ \A i \in 2..m : link'[o[i]] = o[i - 1]
        BY <3>2, <3>3
      <3> QED BY <2>1, <3>1, <3>4 DEF Spliced
    <2>5. Threaded(Arenas, o[m], link', Len(s) + m, Range(s) \cup Range(o))
      <3>1. \A b \in Range(s) : link'[b] = link[b]
        BY <1>1, <1>2, <2>1, <2>2
      <3> QED BY <1>1, <2>1, <2>4, <3>1, ChainSplice
    <2>6. PICK t \in Seq(Arenas) :
            Chain(Arenas, t, o[m], link') /\ Len(t) = n /\ Range(t) = Range(s) \cup Range(o)
      BY <2>1, <2>5 DEF Threaded
    <2>7. TypeOK'
      <3>1. pools' \in [PoolIds -> Descriptors]
        BY <1>1, <1>4, <2>1 DEF Descriptors
      <3>2. made(p) \in [capacity : 0..UINT32_MAX, last_index : 0..UINT32_MAX]
        BY <1>1, WidthAssumption DEF made, Descriptors
      <3>3. arena' \in [Arenas -> [capacity : 0..UINT32_MAX, last_index : 0..UINT32_MAX]]
        BY <1>1, <1>4, <3>2 DEF destroyed
      <3>4. link' \in [Arenas -> Arenas \cup {NULL, JUNK}]
        <4>1. ASSUME NEW b \in Arenas PROVE link'[b] \in Arenas \cup {NULL, JUNK}
          <5>1. CASE b \in Range(o)
            <6>1. PICK i \in 1..m : b = o[i]
              BY <2>1, <5>1 DEF Range
            <6>2. i = 1 \/ i \in 2..m
              BY <2>1
            <6>3. CASE i = 1
              BY <1>2, <2>4, <6>1, <6>3 DEF Spliced
            <6>4. CASE i \in 2..m
              <7>1. link'[o[i]] = o[i - 1] /\ i - 1 \in 1..m
                BY <2>1, <2>4, <6>4 DEF Spliced
              <7> QED BY <2>1, <6>1, <7>1
            <6> QED BY <6>2, <6>3, <6>4
          <5>2. CASE b \notin Range(o)
            BY <1>1, <2>2, <5>2
          <5> QED BY <5>1, <5>2
        <4>2. link' = [b \in Arenas |-> link'[b]]
          BY <1>4 DEF spliced
        <4> QED BY <4>1, <4>2
      <3>5. host' \subseteq Arenas
        BY <1>1, <1>4, <2>1
      <3> QED BY <1>1, <2>2, <3>1, <3>3, <3>4, <3>5 DEF TypeOK
    <2>8. OthersKept(L, p)
      BY <1>1, <2>1, <2>2 DEF OthersKept
    <2>9. OwnStep(L, p, t)
      <3>1. Chain(Arenas, t, pools[p].free_head, link)'
        BY <2>3, <2>6
      <3>2. \A b \in Range(t) :
              arena'[b] = [capacity |-> pools'[p].arena_capacity, last_index |-> 0]
        BY <1>1, <1>2, <2>1, <2>2, <2>3, <2>6 DEF made
      <3>3. host' = (host \ Mine(L, p)) \cup Range(t) \cup lent'[p]
        BY <1>1, <1>4, <2>1, <2>2, <2>6
      <3> QED BY <1>1, <2>1, <2>2, <2>3, <2>6, <3>1, <3>2, <3>3 DEF OwnStep
    <2>10. Counted(p)'
      <3>1. pools'[p].arena_capacity # 0
        BY <1>4, <2>3 DEF is_initialized
      <3>2. \A b \in lent'[p] : arena'[b].capacity = pools'[p].arena_capacity
        BY <1>1, <2>1, <2>2, <2>3 DEF Counted
      <3> QED BY <1>1, <1>4, <2>2, <2>3, <3>1, <3>2 DEF Counted
    <2>11. Within(p)
      BY <2>2, <2>3 DEF Within
    <2> QED BY <1>0, <2>6, <2>7, <2>8, <2>9, <2>10, <2>11, OnePool
  <1> QED BY <1>3, <1>4 DEF arnm_dynamic_arena_pool_reserve, Refuse, head

\* Taking down a pool with nothing out: its shelf goes back to the host.
LEMMA ReleaseStep ==
  ASSUME Pooled, NEW p \in PoolIds, nothing_out(p), released(p)
  PROVE  Pooled' /\ Fresh /\ Within(p)
  <1> DEFINE S == on_list(pools[p].free_head)
  <1>0. PICK L \in [PoolIds -> Seq(Arenas)] : Shelves(L)
    BY DEF Pooled
  <1>1. /\ pools \in [PoolIds -> Descriptors] /\ pools[p] \in Descriptors
        /\ arena \in [Arenas -> [capacity : 0..UINT32_MAX, last_index : 0..UINT32_MAX]]
        /\ link \in [Arenas -> Arenas \cup {NULL, JUNK}]
        /\ lent \in [PoolIds -> SUBSET Arenas]
        /\ host \subseteq Arenas /\ Mine(L, p) \subseteq host
        /\ Mine(L, p) = Range(L[p]) \cup lent[p]
        /\ IsFiniteSet(lent[p]) /\ Counted(p)
        /\ S = Range(L[p])
    BY <1>0, PoolFacts
  <1> HIDE DEF S
  <1>2. /\ pools' = [pools EXCEPT ![p] = EmptyPool] /\ lent' = lent /\ host' = host \ S
        /\ arena' = destroyed(arena, S, NotMade) /\ link' = destroyed(link, S, NULL)
    BY DEF released, S
  <1>3. lent[p] = {}
    BY <1>1, FS_EmptySet DEF Counted, nothing_out
  <1>4. /\ pools'[p] = EmptyPool
        /\ \A q \in PoolIds : q # p => pools'[q] = pools[q]
        /\ \A b \in Arenas : b \notin S => arena'[b] = arena[b] /\ link'[b] = link[b]
    BY <1>1, <1>2 DEF destroyed
  <1>5. EmptyPool \in Descriptors
    BY PoolAssumption, WidthAssumption DEF EmptyPool, Descriptors
  <1>6. TypeOK'
    <2>1. pools' \in [PoolIds -> Descriptors]
      BY <1>1, <1>2, <1>5
    <2>2. arena' \in [Arenas -> [capacity : 0..UINT32_MAX, last_index : 0..UINT32_MAX]]
      BY <1>1, <1>2, WidthAssumption DEF destroyed, NotMade
    <2>3. link' \in [Arenas -> Arenas \cup {NULL, JUNK}] /\ host' \subseteq Arenas
      BY <1>1, <1>2 DEF destroyed
    <2> QED BY <1>1, <1>2, <2>1, <2>2, <2>3 DEF TypeOK
  <1>7. OthersKept(L, p)
    BY <1>1, <1>2, <1>4 DEF OthersKept
  <1>8. Range(<<>>) = {} /\ Len(<<>>) = 0 /\ <<>> \in Seq(Arenas)
    BY DEF Range
  <1>9. OwnStep(L, p, <<>>)
    <2>1. Chain(Arenas, <<>>, pools[p].free_head, link)'
      BY <1>4, ChainEmpty, PoolAssumption DEF EmptyPool
    <2>2. pools'[p].spare_count = 0
      BY <1>4 DEF EmptyPool
    <2>3. lent'[p] = {} /\ host' = host \ Mine(L, p)
      BY <1>1, <1>2, <1>3
    <2> QED BY <1>8, <2>1, <2>2, <2>3 DEF OwnStep
  <1>10. Counted(p)'
    BY <1>2, <1>3, <1>4, FS_EmptySet DEF Counted, EmptyPool
  <1>11. Within(p)
    BY <1>4 DEF Within, EmptyPool
  <1> QED BY <1>0, <1>6, <1>7, <1>8, <1>9, <1>10, <1>11, OnePool

\* A size that fits is rounded within the width, and not to nothing.
LEMMA AlignFits ==
  ASSUME NEW c \in 0..UINT32_MAX
  PROVE  arnm_align8_u32(c) \in 0..UINT32_MAX
  <1>1. ((c + 7) \div 8) * 8 \in Nat /\ ((c + 7) \div 8) * 8 <= c + 7
    BY WidthAssumption
  <1> QED BY <1>1, WidthAssumption DEF arnm_align8_u32, ARNM_MAX_ALLOC_SIZE

\* Setting up a pool that holds nothing.
LEMMA InitStep ==
  ASSUME Pooled, NEW p \in PoolIds, NEW c \in Capacities, NEW n \in SpareLimits,
         arnm_dynamic_arena_pool_init(p, c, n)
  PROVE  Pooled' /\ Fresh
  <1> DEFINE size == arnm_align8_u32(c)
  <1>0. PICK L \in [PoolIds -> Seq(Arenas)] : Shelves(L)
    BY DEF Pooled
  <1>1. /\ pools \in [PoolIds -> Descriptors] /\ pools[p] \in Descriptors
        /\ lent \in [PoolIds -> SUBSET Arenas]
        /\ Mine(L, p) = Range(L[p]) \cup lent[p]
        /\ on_list(pools[p].free_head) = Range(L[p])
    BY <1>0, PoolFacts
  <1>2. on_list(pools[p].free_head) = {} /\ lent[p] = {}
    BY DEF arnm_dynamic_arena_pool_init
  <1>3. CASE UNCHANGED poolVars
    BY <1>3, Still
  <1>4. ASSUME init_fits(c),
               pools' = [pools EXCEPT ![p] = [EmptyPool EXCEPT !.arena_capacity = size,
                                                               !.spare_limit = n]],
               UNCHANGED <<arena, link, host, lent>>
        PROVE  Pooled' /\ Fresh
    <2>1. size \in 0..UINT32_MAX /\ size # 0
      BY <1>4, AlignFits, PoolAssumption DEF init_fits
    <2> HIDE DEF size
    <2>2. n \in Nat
      BY PoolAssumption
    <2> DEFINE d == [EmptyPool EXCEPT !.arena_capacity = size, !.spare_limit = n]
    <2>3. /\ d.free_head = NULL /\ d.arena_capacity = size /\ d.acquired_count = 0
          /\ d.spare_count = 0 /\ d.spare_limit = n
          /\ d \in Descriptors
      <3>1. EmptyPool \in Descriptors
        BY PoolAssumption, WidthAssumption DEF EmptyPool, Descriptors
      <3>2. d \in Descriptors
        BY <2>1, <2>2, <3>1 DEF Descriptors
      <3>3. /\ d.free_head = EmptyPool.free_head /\ d.arena_capacity = size
            /\ d.acquired_count = EmptyPool.acquired_count
            /\ d.spare_count = EmptyPool.spare_count /\ d.spare_limit = n
        BY <3>1 DEF Descriptors
      <3> HIDE DEF d
      <3> QED BY <3>2, <3>3 DEF EmptyPool
    <2>4. pools' = [pools EXCEPT ![p] = d]
      BY <1>4
    <2> HIDE DEF d
    <2>5. /\ pools'[p] = d /\ arena' = arena /\ link' = link /\ host' = host /\ lent' = lent
          /\ \A q \in PoolIds : q # p => pools'[q] = pools[q]
      BY <1>1, <1>4, <2>4
    <2>6. TypeOK'
      <3>1. pools' \in [PoolIds -> Descriptors]
        BY <1>1, <2>3, <2>4
      <3> QED BY <2>5, <3>1 DEF Pooled, TypeOK
    <2>7. OthersKept(L, p)
      BY <2>5 DEF OthersKept
    <2>8. Range(<<>>) = {} /\ Len(<<>>) = 0 /\ <<>> \in Seq(Arenas)
      BY DEF Range
    <2>9. OwnStep(L, p, <<>>)
      <3>1. Chain(Arenas, <<>>, pools[p].free_head, link)'
        BY <2>3, <2>5, ChainEmpty, PoolAssumption
      <3>2. Mine(L, p) = {} /\ lent'[p] = {}
        BY <1>1, <1>2, <2>5
      <3> QED BY <2>3, <2>5, <2>8, <3>1, <3>2 DEF OwnStep
    <2>10. Counted(p)'
      <3>1. lent'[p] = {}
        BY <1>2, <2>5
      <3> QED BY <2>1, <2>2, <2>3, <2>5, <3>1, FS_EmptySet DEF Counted
    <2> QED BY <1>0, <2>6, <2>7, <2>8, <2>9, <2>10, OnePool
  <1> QED BY <1>3, <1>4 DEF arnm_dynamic_arena_pool_init, Refuse

\* A client at work in an arena it was lent touches no shelf.
LEMMA UseStep ==
  ASSUME Pooled, NEW a \in Arenas, use_arena(a)
  PROVE  Pooled' /\ Fresh /\ \A p \in PoolIds : Within(p)
  <1>0. PICK L \in [PoolIds -> Seq(Arenas)] : Shelves(L)
    BY DEF Pooled
  <1>1. PICK p \in PoolIds : a \in lent[p]
    BY DEF use_arena
  <1>2. /\ pools \in [PoolIds -> Descriptors] /\ pools[p] \in Descriptors
        /\ arena \in [Arenas -> [capacity : 0..UINT32_MAX, last_index : 0..UINT32_MAX]]
        /\ link \in [Arenas -> Arenas \cup {NULL, JUNK}]
        /\ lent \in [PoolIds -> SUBSET Arenas]
        /\ host \subseteq Arenas /\ Mine(L, p) \subseteq host
        /\ L[p] \in Seq(Arenas) /\ Chain(Arenas, L[p], pools[p].free_head, link)
        /\ Len(L[p]) = pools[p].spare_count /\ Range(L[p]) \cap lent[p] = {}
        /\ \A b \in Range(L[p]) : arena[b] = made(p)
        /\ Mine(L, p) = Range(L[p]) \cup lent[p] /\ Counted(p)
    BY <1>0, PoolFacts
  <1>3. /\ pools' = pools /\ host' = host /\ lent' = lent
        /\ \A b \in Arenas : b # a => arena'[b] = arena[b] /\ link'[b] = link[b]
        /\ arena'[a].capacity = arena[a].capacity
        /\ arena'[a].last_index = arena[a].last_index + 8
        /\ arena[a].last_index + 8 <= arena[a].capacity
        /\ link' = [link EXCEPT ![a] = JUNK]
    BY <1>2 DEF use_arena
  <1>4. TypeOK'
    <2>1. arena'[a] = [capacity |-> arena[a].capacity,
                       last_index |-> arena[a].last_index + 8]
      BY <1>2 DEF use_arena
    <2>2. arena'[a] \in [capacity : 0..UINT32_MAX, last_index : 0..UINT32_MAX]
      <3>1. /\ arena[a].capacity \in 0..UINT32_MAX
            /\ arena[a].last_index + 8 \in 0..UINT32_MAX
        BY <1>2, <1>3, WidthAssumption
      <3> QED BY <2>1, <3>1
    <2>3. \A b \in Arenas :
            arena'[b] \in [capacity : 0..UINT32_MAX, last_index : 0..UINT32_MAX]
      BY <1>2, <1>3, <2>2
    <2>4. arena' = [b \in Arenas |-> arena'[b]]
      BY <1>2 DEF use_arena
    <2>5. arena' \in [Arenas -> [capacity : 0..UINT32_MAX, last_index : 0..UINT32_MAX]]
      BY <2>3, <2>4
    <2>6. link' \in [Arenas -> Arenas \cup {NULL, JUNK}]
      BY <1>2, <1>3
    <2> QED BY <1>2, <1>3, <2>5, <2>6 DEF TypeOK
  <1>5. OthersKept(L, p)
    BY <1>1, <1>2, <1>3 DEF OthersKept
  <1>6. \A b \in Range(L[p]) : b # a /\ b \in Arenas
    BY <1>1, <1>2
  <1>7. OwnStep(L, p, L[p])
    <2>1. Chain(Arenas, L[p], pools[p].free_head, link')
      <3>1. \A b \in Range(L[p]) : link'[b] = link[b]
        BY <1>3, <1>6
      <3> QED BY <1>2, <3>1, ChainKept
    <2>2. Chain(Arenas, L[p], pools[p].free_head, link)'
      BY <1>3, <2>1
    <2>3. \A b \in Range(L[p]) :
            arena'[b] = [capacity |-> pools'[p].arena_capacity, last_index |-> 0]
      BY <1>2, <1>3, <1>6 DEF made
    <2>4. host' = (host \ Mine(L, p)) \cup Range(L[p]) \cup lent'[p]
      BY <1>2, <1>3
    <2> QED BY <1>2, <1>3, <2>2, <2>3, <2>4 DEF OwnStep
  <1>8. Counted(p)'
    <2>1. \A b \in lent'[p] : arena'[b].capacity = pools'[p].arena_capacity
      BY <1>2, <1>3 DEF Counted
    <2> QED BY <1>2, <1>3, <2>1 DEF Counted
  <1>9. \A q \in PoolIds : Within(q)
    BY <1>3 DEF Within
  <1> QED BY <1>0, <1>2, <1>4, <1>5, <1>7, <1>8, <1>9, OnePool

-----------------------------------------------------------------------------
(* The rungs.                                                              *)

\* The powers a word holds, and how many of them a ladder may have.
LEMMA Scale ==
  /\ WORD \in 4..32 /\ Exponents = 0..(WORD - 1) /\ PoolIds = 0..(WORD - 4)
  /\ \A e \in Exponents : 2^e = Pow(e)
  /\ \A e \in Exponents : Pow(e) \in Nat \ {0}
  /\ \A e \in Exponents : Pow(e) >= 8 <=> e >= 3
  /\ UINT32_MAX + 1 = 2 * ARNM_GRADED_MAX_SIZE
  /\ ARNM_GRADED_MAX_SIZE \in Nat /\ ARNM_GRADED_MAX_SIZE >= 8
  /\ ARNM_GRADED_MAX_GRADE_COUNT = WORD - 3
  <1>1. WORD \in 4..32 /\ Exponents = 0..(WORD - 1) /\ PoolIds = 0..(WORD - 4)
    BY LadderAssumption DEF Exponents
  <1>2. \A e \in Exponents : 2^e = Pow(e)
    BY DEF Pow
  <1>3. \A e \in Exponents : Pow(e) \in Nat \ {0} /\ e \in 0..32
    <2>1. \A e \in Exponents : e \in 0..32
      BY <1>1
    <2> QED BY <2>1, PowersGrow, Zenon
  <1>4. Pow(3) = 8
    BY DEF Pow
  <1>5. ASSUME NEW e \in Exponents PROVE Pow(e) >= 8 <=> e >= 3
    <2>1. CASE e < 3
      <3>1. Pow(e) < Pow(3)
        BY <1>3, <2>1, PowersGrow
      <3> QED BY <1>1, <1>3, <1>4, <2>1, <3>1
    <2>2. CASE e = 3
      BY <1>4, <2>2
    <2>3. CASE e > 3
      <3>1. Pow(3) < Pow(e)
        BY <1>3, <2>3, PowersGrow
      <3> QED BY <1>1, <1>3, <1>4, <2>3, <3>1
    <2> QED BY <1>1, <2>1, <2>2, <2>3
  <1>6. UINT32_MAX + 1 = Pow(WORD)
    <2>1. UINT32_MAX = Pow(WORD) - 1
      BY LadderAssumption, Zenon DEF Pow
    <2>2. Pow(WORD) \in Nat \ {0}
      <3>1. WORD \in 0..32
        BY <1>1
      <3> QED BY <3>1, PowersGrow, Zenon
    <2> QED BY <2>1, <2>2
  <1>7. Pow(WORD) = 2 * Pow(WORD - 1) /\ WORD - 1 \in Exponents
    <2>1. WORD - 1 \in 0..31 /\ (WORD - 1) + 1 = WORD
      BY <1>1
    <2>2. Pow((WORD - 1) + 1) = 2 * Pow(WORD - 1)
      BY <2>1, PowerStep
    <2> QED BY <1>1, <2>1, <2>2
  <1>8. ARNM_GRADED_MAX_SIZE = Pow(WORD - 1)
    <2> DEFINE h == Pow(WORD - 1)
    <2>1. h \in Nat /\ UINT32_MAX + 1 = 2 * h
      BY <1>3, <1>6, <1>7
    <2> HIDE DEF h
    <2>2. (UINT32_MAX + 1) \div 2 = h
      BY <2>1
    <2> QED BY <2>2 DEF ARNM_GRADED_MAX_SIZE, h
  <1>9. Pow(WORD - 1) >= 8
    BY <1>1, <1>5, <1>7
  <1>10. ARNM_GRADED_MAX_GRADE_COUNT = WORD - 3
    <2>1. \A e \in Exponents : 2^e >= ARNM_GRADED_MIN_SIZE <=> e >= 3
      BY <1>2, <1>5 DEF ARNM_GRADED_MIN_SIZE
    <2>2. {e \in Exponents : 2^e >= ARNM_GRADED_MIN_SIZE} = 3..(WORD - 1)
      BY <1>1, <2>1
    <2>3. Cardinality(3..(WORD - 1)) = WORD - 3
      <3>1. Cardinality(3..(WORD - 1)) =
              IF 3 > WORD - 1 THEN 0 ELSE (WORD - 1) - 3 + 1
        BY <1>1, FS_Interval, 3 \in Int, WORD - 1 \in Int
      <3> QED BY <1>1, <3>1
    <2> QED BY <2>2, <2>3 DEF ARNM_GRADED_MAX_GRADE_COUNT
  <1> QED BY <1>1, <1>2, <1>3, <1>5, <1>6, <1>7, <1>8, <1>9, <1>10

\* From 8 on every power is a multiple of 8.
LEMMA PowersAligned ==
  \A e \in 3..32 : \E q \in Nat : Pow(e) = 8 * q
  <1> DEFINE T == {k \in Nat : k <= 29 => \E q \in Nat : Pow(k + 3) = 8 * q}
  <1>1. 0 \in T
    <2>1. Pow(0 + 3) = 8 * 1
      BY DEF Pow
    <2> QED BY <2>1
  <1>2. ASSUME NEW k \in T PROVE k + 1 \in T
    <2>1. k \in Nat /\ k + 1 \in Nat
      BY <1>2
    <2>2. SUFFICES ASSUME k + 1 <= 29 PROVE \E q \in Nat : Pow((k + 1) + 3) = 8 * q
      BY <2>1
    <2>3. PICK q \in Nat : Pow(k + 3) = 8 * q
      BY <1>2, <2>1, <2>2
    <2>4. k + 3 \in 0..31 /\ (k + 3) + 1 = (k + 1) + 3
      BY <2>1, <2>2
    <2>5. Pow((k + 3) + 1) = 2 * Pow(k + 3)
      BY <2>4, PowerStep
    <2>6. Pow((k + 1) + 3) = 8 * (2 * q) /\ 2 * q \in Nat
      BY <2>3, <2>4, <2>5
    <2> QED BY <2>6
  <1>3. T = Nat
    <2>1. T \in SUBSET Nat
      OBVIOUS
    <2> HIDE DEF T
    <2> QED BY <1>1, <1>2, <2>1, NatSetInduction
  <1> SUFFICES ASSUME NEW e \in 3..32 PROVE \E q \in Nat : Pow(e) = 8 * q
    OBVIOUS
  <1>4. e - 3 \in T /\ e - 3 <= 29 /\ (e - 3) + 3 = e
    <2> HIDE DEF T
    <2> QED BY <1>3
  <1> QED BY <1>4

\* What an accepted ladder is: powers from 8 on that need no rounding, each
\* larger than those before it.
LEMMA RungFacts ==
  ASSUME NEW s \in Ladders, ladder_accepted(s)
  PROVE  /\ s \in Seq(Nat) /\ DOMAIN s = 1..Len(s) /\ Len(s) \in 1..(WORD - 3)
         /\ \A i \in 1..Len(s) : \E e \in Exponents : s[i] = Pow(e)
         /\ \A i \in 1..Len(s) : s[i] \in 8..ARNM_GRADED_MAX_SIZE
         /\ \A i \in 1..Len(s) : arnm_align8_u32(s[i]) = s[i]
         /\ \A i, j \in 1..Len(s) : i < j => s[i] < s[j]
  <1>1. s \in Seq(Nat) /\ DOMAIN s = 1..Len(s) /\ Len(s) \in Nat
    <2> DEFINE R == 0..UINT32_MAX
    <2>1. s \in Seq(R)
      BY LadderAssumption, Zenon
    <2>0. R \subseteq Nat
      BY WidthAssumption
    <2> HIDE DEF R
    <2>2. s \in [1..Len(s) -> R] /\ Len(s) \in Nat
      BY <2>1
    <2>3. s \in [1..Len(s) -> Nat]
      BY <2>0, <2>2
    <2>4. s \in Seq(Nat)
      BY <2>2, <2>3
    <2> QED BY <2>2, <2>4
  <1>2. Len(s) \in 1..(WORD - 3)
    BY Scale DEF ladder_accepted
  <1>3. \A i \in 1..Len(s) : \E e \in Exponents : s[i] = Pow(e)
    BY <1>1, Scale DEF ladder_accepted, arnm_is_power_of_two
  <1>4. \A i \in 1..Len(s) : s[i] \in 8..ARNM_GRADED_MAX_SIZE
    BY <1>1 DEF ladder_accepted, ARNM_GRADED_MIN_SIZE
  <1>5. ASSUME NEW i \in 1..Len(s) PROVE arnm_align8_u32(s[i]) = s[i]
    <2>1. PICK e \in Exponents : s[i] = Pow(e)
      BY <1>3
    <2>2. e \in 3..32
      <3>1. Pow(e) >= 8
        BY <1>4, <2>1
      <3> QED BY <3>1, Scale
    <2>3. PICK q \in Nat : s[i] = 8 * q
      BY <2>1, <2>2, PowersAligned
    <2>4. (8 * q + 7) \div 8 = q
      OBVIOUS
    <2>5. ~(s[i] > ARNM_MAX_ALLOC_SIZE)
      <3> DEFINE h == ARNM_GRADED_MAX_SIZE
      <3>1. UINT32_MAX + 1 = 2 * h /\ h \in Nat /\ h >= 8 /\ s[i] \in 8..h
        BY <1>4, Scale
      <3> HIDE DEF h
      <3> QED BY <3>1, WidthAssumption DEF ARNM_MAX_ALLOC_SIZE
    <2> QED BY <2>3, <2>4, <2>5 DEF arnm_align8_u32
  <1>6. \A i, j \in 1..Len(s) : i < j => s[i] < s[j]
    <2>1. \A i \in 1..Len(s) : i > 1 => s[i] > s[i - 1]
      BY <1>1 DEF ladder_accepted
    <2>2. SUFFICES ASSUME NEW i \in 1..Len(s) PROVE \A j \in 1..Len(s) : i < j => s[i] < s[j]
      OBVIOUS
    <2> DEFINE T == {k \in Nat : i + 1 + k <= Len(s) => s[i] < s[i + 1 + k]}
    <2>3. 0 \in T
      <3>1. ASSUME i + 1 + 0 <= Len(s) PROVE s[i] < s[i + 1 + 0]
        <4>1. i + 1 \in 1..Len(s) /\ i + 1 > 1 /\ (i + 1) - 1 = i /\ i + 1 + 0 = i + 1
          BY <1>1, <3>1
        <4>2. s[i + 1] > s[i] /\ s[i] \in Nat /\ s[i + 1] \in Nat
          BY <1>1, <2>1, <4>1
        <4> QED BY <4>1, <4>2
      <3> QED BY <3>1
    <2>4. ASSUME NEW k \in T PROVE k + 1 \in T
      <3>1. k \in Nat /\ k + 1 \in Nat
        BY <2>4
      <3>2. SUFFICES ASSUME i + 1 + (k + 1) <= Len(s) PROVE s[i] < s[i + 1 + (k + 1)]
        BY <3>1
      <3>3. s[i] < s[i + 1 + k]
        BY <1>1, <2>4, <3>1, <3>2
      <3> DEFINE j == i + 1 + k
      <3>4. /\ j \in 1..Len(s) /\ j + 1 \in 1..Len(s) /\ j + 1 > 1 /\ (j + 1) - 1 = j
            /\ i + 1 + (k + 1) = j + 1 /\ s[i] < s[j]
        BY <1>1, <3>1, <3>2, <3>3
      <3> HIDE DEF j
      <3>5. s[j + 1] > s[j] /\ s[i] \in Nat /\ s[j] \in Nat /\ s[j + 1] \in Nat
        BY <1>1, <2>1, <3>4
      <3>6. s[i] < s[j + 1]
        BY <3>4, <3>5
      <3> QED BY <3>4, <3>6, Zenon
    <2>5. T = Nat
      <3>1. T \in SUBSET Nat
        OBVIOUS
      <3> HIDE DEF T
      <3> QED BY <2>3, <2>4, <3>1, NatSetInduction
    <2>6. ASSUME NEW j \in 1..Len(s), i < j PROVE s[i] < s[j]
      <3> DEFINE k == j - i - 1
      <3>1. k \in Nat /\ i + 1 + k = j /\ j <= Len(s)
        BY <1>1, <2>6
      <3> HIDE DEF k
      <3>2. k \in T
        <4> HIDE DEF T
        <4> QED BY <2>5, <3>1
      <3>3. s[i] < s[i + 1 + k]
        BY <3>1, <3>2
      <3> QED BY <3>1, <3>3, Zenon
    <2> QED BY <2>6
  <1> QED BY <1>1, <1>2, <1>3, <1>4, <1>5, <1>6

\* k rungs of s are below x, by the bits and by the sizes.
RungsBelow(s, x, k) ==
  /\ Cardinality(Bits(s) \cap exponents_below(x)) = k
  /\ \A j \in 1..Len(s) : s[j] < x <=> j <= k

\* Counting bits counts rungs, and those counted are the first ones.
LEMMA RungCount ==
  ASSUME NEW s \in Ladders, ladder_accepted(s), NEW x \in Nat
  PROVE  \E k \in 0..Len(s) : RungsBelow(s, x, k)
  <1>1. /\ s \in Seq(Nat) /\ DOMAIN s = 1..Len(s) /\ Len(s) \in Nat
        /\ \A i \in 1..Len(s) : s[i] \in Nat /\ \E e \in Exponents : s[i] = Pow(e)
        /\ \A i, j \in 1..Len(s) : i < j => s[i] < s[j]
    <2>1. /\ s \in Seq(Nat) /\ DOMAIN s = 1..Len(s)
          /\ \A i \in 1..Len(s) : \E e \in Exponents : s[i] = Pow(e)
          /\ \A i, j \in 1..Len(s) : i < j => s[i] < s[j]
      BY RungFacts
    <2>2. Len(s) \in Nat /\ \A i \in 1..Len(s) : s[i] \in Nat
      BY <2>1
    <2> QED BY <2>1, <2>2
  <1>2. \A e \in Exponents : 2^e = Pow(e) /\ Pow(e) \in Nat
    BY Scale
  <1>3. \A e, f \in Exponents : Pow(e) = Pow(f) => e = f
    <2> SUFFICES ASSUME NEW e \in Exponents, NEW f \in Exponents, Pow(e) = Pow(f)
                 PROVE  e = f
      OBVIOUS
    <2>1. e \in 0..32 /\ f \in 0..32
      BY Scale
    <2>2. e < f => Pow(e) < Pow(f)
      BY <2>1, PowersGrow
    <2>3. f < e => Pow(f) < Pow(e)
      BY <2>1, PowersGrow
    <2>4. ~(Pow(e) < Pow(f)) /\ ~(Pow(f) < Pow(e))
      BY <1>2
    <2> QED BY <2>1, <2>2, <2>3, <2>4
  <1> DEFINE D(n) == {e \in Exponents : Pow(e) < x /\ \E i \in 1..n : Pow(e) = s[i]}
             Good(n, k) == /\ IsFiniteSet(D(n)) /\ Cardinality(D(n)) = k
                           /\ \A j \in 1..n : s[j] < x <=> j <= k
             T == {n \in Nat : n <= Len(s) => \E k \in 0..n : Good(n, k)}
  <1>4. 0 \in T
    <2>1. D(0) = {}
      OBVIOUS
    <2>2. Good(0, 0)
      BY <2>1, FS_EmptySet
    <2> HIDE DEF Good
    <2> QED BY <2>2
  <1>5. ASSUME NEW n \in T PROVE n + 1 \in T
    <2>1. n \in Nat /\ n + 1 \in Nat
      BY <1>5
    <2>2. SUFFICES ASSUME n + 1 <= Len(s) PROVE \E k \in 0..(n + 1) : Good(n + 1, k)
      BY <2>1
    <2>3. PICK k \in 0..n : Good(n, k)
      <3>1. n <= Len(s)
        BY <1>1, <2>1, <2>2
      <3> HIDE DEF Good
      <3> QED BY <1>5, <3>1
    <2>4. n + 1 \in 1..Len(s) /\ \A j \in 1..(n + 1) : j \in 1..n \/ j = n + 1
      BY <1>1, <2>1, <2>2
    <2>5. CASE s[n + 1] < x
      <3>1. \A j \in 1..n : s[j] < x
        <4> SUFFICES ASSUME NEW j \in 1..n PROVE s[j] < x
          OBVIOUS
        <4>1. j \in 1..Len(s) /\ j < n + 1
          BY <1>1, <2>1, <2>2
        <4>2. s[j] < s[n + 1] /\ s[j] \in Nat /\ s[n + 1] \in Nat
          BY <1>1, <2>4, <4>1
        <4> QED BY <2>5, <4>2
      <3>2. k = n
        <4>1. CASE n = 0
          BY <2>3, <4>1
        <4>2. CASE n # 0
          <5>1. n \in 1..n
            BY <2>1, <4>2
          <5>2. n <= k
            BY <2>3, <3>1, <5>1
          <5> QED BY <2>1, <2>3, <5>2
        <4> QED BY <4>1, <4>2
      <3>3. PICK f \in Exponents : s[n + 1] = Pow(f)
        BY <1>1, <2>4
      <3>4. D(n + 1) = D(n) \cup {f}
        <4>1. \A e \in D(n + 1) : e \in D(n) \cup {f}
          BY <1>3, <2>4, <3>3
        <4>2. \A e \in D(n) : e \in D(n + 1)
          BY <2>1
        <4>3. f \in D(n + 1)
          BY <2>1, <2>5, <3>3
        <4> QED BY <4>1, <4>2, <4>3
      <3>5. f \notin D(n)
        <4> SUFFICES ASSUME NEW i \in 1..n, Pow(f) = s[i] PROVE FALSE
          OBVIOUS
        <4>1. i \in 1..Len(s) /\ i < n + 1
          BY <1>1, <2>1, <2>2
        <4>2. s[i] < s[n + 1] /\ s[i] \in Nat
          BY <1>1, <2>4, <4>1
        <4> QED BY <3>3, <4>2
      <3>6. IsFiniteSet(D(n)) /\ Cardinality(D(n)) = k
        BY <2>3
      <3> HIDE DEF D
      <3>7. IsFiniteSet(D(n) \cup {f}) /\ Cardinality(D(n) \cup {f}) = k + 1
        BY <3>5, <3>6, FS_AddElement
      <3>8. IsFiniteSet(D(n + 1)) /\ Cardinality(D(n + 1)) = n + 1
        BY <3>2, <3>4, <3>7
      <3>9. \A j \in 1..(n + 1) : s[j] < x <=> j <= n + 1
        BY <2>4, <2>5, <3>1
      <3>10. Good(n + 1, n + 1)
        BY <3>8, <3>9
      <3> HIDE DEF Good
      <3> QED BY <2>1, <3>10
    <2>6. CASE ~(s[n + 1] < x)
      <3>1. D(n + 1) = D(n)
        <4>1. ASSUME NEW e \in D(n + 1) PROVE e \in D(n)
          <5>1. PICK i \in 1..(n + 1) : Pow(e) = s[i]
            BY <4>1
          <5>2. i # n + 1
            BY <2>6, <4>1, <5>1
          <5>3. i \in 1..n
            BY <2>4, <5>2
          <5> QED BY <4>1, <5>1, <5>3
        <4>2. \A e \in D(n) : e \in D(n + 1)
          BY <2>1
        <4> QED BY <4>1, <4>2
      <3>2. IsFiniteSet(D(n + 1)) /\ Cardinality(D(n + 1)) = k
        BY <2>3, <3>1
      <3>3. \A j \in 1..(n + 1) : s[j] < x <=> j <= k
        <4>1. ~(n + 1 <= k)
          BY <2>1, <2>3
        <4> QED BY <2>3, <2>4, <2>6, <4>1
      <3>4. Good(n + 1, k) /\ k \in 0..(n + 1)
        BY <2>1, <2>3, <3>2, <3>3
      <3> HIDE DEF Good
      <3> QED BY <3>4
    <2> QED BY <2>5, <2>6
  <1>6. T = Nat
    <2>1. T \in SUBSET Nat
      OBVIOUS
    <2> HIDE DEF T
    <2> QED BY <1>4, <1>5, <2>1, NatSetInduction
  <1>7. PICK k \in 0..Len(s) : Good(Len(s), k)
    <2>1. Len(s) \in T
      <3> HIDE DEF T
      <3> QED BY <1>1, <1>6
    <2> HIDE DEF Good
    <2> QED BY <1>1, <2>1
  <1>8. Bits(s) \cap exponents_below(x) = D(Len(s))
    BY <1>1, <1>2 DEF Bits, exponents_below
  <1>9. RungsBelow(s, x, k)
    BY <1>7, <1>8 DEF RungsBelow
  <1> QED BY <1>9

-----------------------------------------------------------------------------
(* The ladder.                                                             *)

\* What is known of a standing ladder.
LEMMA LadderFacts ==
  ASSUME Pooled, NEW s \in Ladders, Rungs(s)
  PROVE  /\ ladder.grade_count = Len(s) /\ ladder.grade_bits = Bits(s)
         /\ Len(s) \in Nat /\ IsFiniteSet(Bits(s)) /\ Bits(s) \subseteq Exponents
         /\ \A p \in Nat : p < Len(s) => p \in PoolIds /\ p + 1 \in 1..Len(s)
         /\ \A p \in PoolIds : p < Len(s) =>
              pools[p].arena_capacity \in {0, s[p + 1]}
         /\ \A p \in PoolIds : ~(p < Len(s)) => pools[p] = EmptyPool
         /\ PoolIds \subseteq Nat
  <1>1. ladder.grade_count = Len(s) /\ ladder.grade_bits = Bits(s)
    BY DEF Rungs
  <1>2. Len(s) \in 1..(WORD - 3)
    BY RungFacts DEF Rungs
  <1>3. Bits(s) \subseteq Exponents
    BY DEF Bits
  <1>4. IsFiniteSet(Exponents)
    <2>1. WORD - 1 \in Int /\ Exponents = 0..(WORD - 1)
      BY Scale
    <2> QED BY <2>1, FS_Interval, 0 \in Int
  <1>5. IsFiniteSet(Bits(s))
    BY <1>3, <1>4, FS_Subset
  <1>6. \A p \in Nat : p < Len(s) => p \in PoolIds /\ p + 1 \in 1..Len(s)
    <2> DEFINE n == Len(s)
               m == WORD - 3
    <2>1. n \in 1..m /\ m \in Int /\ WORD - 4 = m - 1
      BY <1>2, Scale
    <2>2. PoolIds = 0..(m - 1)
      BY <2>1, Scale
    <2> HIDE DEF n, m
    <2>3. \A p \in Nat : p < n => p \in 0..(m - 1) /\ p + 1 \in 1..n
      BY <2>1
    <2> QED BY <2>2, <2>3 DEF n
  <1>7. PoolIds \subseteq Nat /\ Len(s) \in Nat
    BY <1>2, Scale
  <1> QED BY <1>1, <1>3, <1>5, <1>6, <1>7 DEF Rungs

\* A lookup answers a grade, or that there is none.
LEMMA LookupsAnswer ==
  ASSUME Pooled, NEW s \in Ladders, Rungs(s), NEW x
  PROVE  /\ grade_for_size(x) < ladder.grade_count =>
              grade_for_size(x) \in PoolIds /\ grade_for_size(x) < Len(s)
         /\ grade_for_capacity(x) < ladder.grade_count =>
              grade_for_capacity(x) \in PoolIds /\ grade_for_capacity(x) < Len(s)
  <1>1. /\ ladder.grade_count = Len(s) /\ ladder.grade_bits = Bits(s)
        /\ Len(s) \in Nat /\ IsFiniteSet(Bits(s))
        /\ \A p \in Nat : p < Len(s) => p \in PoolIds
    BY LadderFacts
  <1>2. \A S : S \subseteq Bits(s) => Cardinality(S) \in Nat
    BY <1>1, FS_Subset, FS_CardinalityType
  <1> DEFINE above == ladder.grade_bits \ exponents_below(x)
             up    == Cardinality(ladder.grade_bits \ above)
             slot  == Cardinality(ladder.grade_bits \cap exponents_below(x))
  <1>3. up \in Nat /\ slot \in Nat
    BY <1>1, <1>2
  <1>4. grade_for_size(x) = ladder.grade_count \/ grade_for_size(x) = up
    BY DEF grade_for_size
  <1>5. grade_for_capacity(x) = ladder.grade_count \/ grade_for_capacity(x) = slot
    BY DEF grade_for_capacity
  <1> HIDE DEF up, slot
  <1> QED BY <1>1, <1>3, <1>4, <1>5

\* The bits of a size find the first rung that carries it.
LEMMA SizeLookup ==
  ASSUME Pooled, NEW s \in Ladders, Rungs(s), NEW x \in Nat \ {0}
  PROVE  LET i == grade_for_size(x) IN
         /\ i \in 0..ladder.grade_count
         /\ i < ladder.grade_count =>
              pools[i].arena_capacity = 0 \/ pools[i].arena_capacity >= x
         /\ \A p \in PoolIds : p < i => pools[p].arena_capacity < x
  <1>1. /\ ladder.grade_count = Len(s) /\ ladder.grade_bits = Bits(s)
        /\ Len(s) \in Nat
        /\ \A p \in Nat : p < Len(s) => p \in PoolIds /\ p + 1 \in 1..Len(s)
        /\ \A p \in PoolIds : p < Len(s) => pools[p].arena_capacity \in {0, s[p + 1]}
        /\ PoolIds \subseteq Nat
    BY LadderFacts
  <1>2. ladder_accepted(s)
    BY DEF Rungs
  <1>3. /\ DOMAIN s = 1..Len(s)
        /\ \A i \in 1..Len(s) : s[i] \in Nat /\ s[i] <= ARNM_GRADED_MAX_SIZE
        /\ \A i \in 1..Len(s) : \E e \in Exponents : s[i] = 2^e
    <2>1. /\ DOMAIN s = 1..Len(s)
          /\ \A i \in 1..Len(s) : s[i] \in 8..ARNM_GRADED_MAX_SIZE
          /\ \A i \in 1..Len(s) : \E e \in Exponents : s[i] = Pow(e)
      BY <1>2, RungFacts
    <2>2. \A i \in 1..Len(s) : s[i] \in Nat /\ s[i] <= ARNM_GRADED_MAX_SIZE
      BY <2>1, Scale
    <2>3. \A i \in 1..Len(s) : \E e \in Exponents : s[i] = 2^e
      BY <2>1, Zenon DEF Pow
    <2> QED BY <2>1, <2>2, <2>3
  <1> DEFINE i == grade_for_size(x)
             above == ladder.grade_bits \ exponents_below(x)
  <1>4. PICK k \in 0..Len(s) : RungsBelow(s, x, k)
    BY <1>2, RungCount
  <1>5. CASE x > ARNM_GRADED_MAX_SIZE \/ above = {}
    <2>1. i = Len(s)
      BY <1>1, <1>5 DEF grade_for_size
    <2>2. \A j \in 1..Len(s) : s[j] < x
      <3>1. CASE x > ARNM_GRADED_MAX_SIZE
        BY <1>3, <3>1, Scale
      <3>2. CASE above = {}
        <4> SUFFICES ASSUME NEW j \in 1..Len(s) PROVE s[j] < x
          OBVIOUS
        <4>1. PICK e \in Exponents : s[j] = 2^e
          BY <1>3
        <4>2. e \in Bits(s)
          BY <1>3, <4>1, Zenon DEF Bits
        <4>3. e \in exponents_below(x)
          BY <1>1, <3>2, <4>2
        <4>4. 2^e < x
          BY <4>3 DEF exponents_below
        <4> QED BY <4>1, <4>4, Zenon
      <3> QED BY <1>5, <3>1, <3>2
    <2>3. ASSUME NEW p \in PoolIds, p < Len(s) PROVE pools[p].arena_capacity < x
      <3>1. p + 1 \in 1..Len(s) /\ pools[p].arena_capacity \in {0, s[p + 1]}
        BY <1>1, <2>3
      <3>2. s[p + 1] < x
        BY <2>2, <3>1
      <3> QED BY <3>1, <3>2
    <2> HIDE DEF i
    <2>4. i \in 0..ladder.grade_count /\ ~(i < ladder.grade_count)
      BY <1>1, <2>1
    <2> QED BY <2>1, <2>3, <2>4 DEF i
  <1>6. CASE ~(x > ARNM_GRADED_MAX_SIZE \/ above = {})
    <2>1. i = Cardinality(ladder.grade_bits \ above)
      BY <1>6 DEF grade_for_size
    <2>2. ladder.grade_bits \ above = Bits(s) \cap exponents_below(x)
      BY <1>1
    <2>3. i = k
      BY <1>4, <2>1, <2>2 DEF RungsBelow
    <2>4. \A j \in 1..Len(s) : s[j] < x <=> j <= k
      BY <1>4 DEF RungsBelow
    <2> HIDE DEF i
    <2>5. ASSUME k < Len(s)
          PROVE  pools[k].arena_capacity = 0 \/ pools[k].arena_capacity >= x
      <3>1. k \in PoolIds /\ k + 1 \in 1..Len(s) /\ pools[k].arena_capacity \in {0, s[k + 1]}
        BY <1>1, <2>5
      <3>2. ~(s[k + 1] < x)
        BY <2>4, <3>1
      <3> QED BY <1>3, <3>1, <3>2
    <2>6. ASSUME NEW p \in PoolIds, p < k PROVE pools[p].arena_capacity < x
      <3>1. p \in Nat /\ p < Len(s)
        BY <1>1, <2>6
      <3>2. p + 1 \in 1..Len(s) /\ pools[p].arena_capacity \in {0, s[p + 1]} /\ p + 1 <= k
        BY <1>1, <2>6, <3>1
      <3>3. s[p + 1] < x
        BY <2>4, <3>2
      <3> QED BY <3>2, <3>3
    <2>7. i \in 0..ladder.grade_count
      BY <1>1, <2>3
    <2> QED BY <1>1, <2>3, <2>5, <2>6, <2>7 DEF i
  <1> QED BY <1>5, <1>6

\* The capacity of an arena that is out finds the grade that lent it.
LEMMA HomeLookup ==
  ASSUME Pooled, NEW s \in Ladders, Rungs(s), NEW p \in PoolIds, NEW a \in lent[p]
  PROVE  grade_for_capacity(arena[a].capacity) = p
  <1> DEFINE c == arena[a].capacity
  <1>1. /\ ladder.grade_count = Len(s) /\ ladder.grade_bits = Bits(s)
        /\ Len(s) \in Nat
        /\ \A q \in Nat : q < Len(s) => q \in PoolIds /\ q + 1 \in 1..Len(s)
        /\ \A q \in PoolIds : q < Len(s) => pools[q].arena_capacity \in {0, s[q + 1]}
        /\ \A q \in PoolIds : ~(q < Len(s)) => pools[q] = EmptyPool
        /\ PoolIds \subseteq Nat
    BY LadderFacts
  <1>2. ladder_accepted(s)
    BY DEF Rungs
  <1>3. IsFiniteSet(lent[p]) /\ Counted(p)
    <2>1. PICK L \in [PoolIds -> Seq(Arenas)] : Shelves(L)
      BY DEF Pooled
    <2> QED BY <2>1, PoolFacts
  <1>4. pools[p] # EmptyPool
    <2>1. ASSUME pools[p] = EmptyPool PROVE FALSE
      <3>1. Cardinality(lent[p]) = 0
        BY <1>3, <2>1 DEF Counted, EmptyPool
      <3>2. lent[p] = {}
        BY <1>3, <3>1, FS_EmptySet
      <3> QED BY <3>2
    <2> QED BY <2>1
  <1>5. c = s[p + 1] /\ pools[p].arena_capacity = c /\ p < Len(s) /\ p + 1 \in 1..Len(s)
    <2>1. c = pools[p].arena_capacity /\ c # 0
      BY <1>3, <1>4 DEF Counted
    <2>2. p < Len(s) /\ p \in Nat
      BY <1>1, <1>4
    <2> QED BY <1>1, <2>1, <2>2
  <1>6. /\ s \in Seq(Nat)
        /\ \A i \in 1..Len(s) : \E e \in Exponents : s[i] = Pow(e)
        /\ \A i, j \in 1..Len(s) : i < j => s[i] < s[j]
    BY <1>2, RungFacts
  <1> HIDE DEF c
  <1>7. arnm_is_power_of_two(c)
    <2>1. PICK e \in Exponents : c = Pow(e)
      BY <1>5, <1>6
    <2>2. c = 2^e
      BY <2>1, Scale
    <2> QED BY <2>2 DEF arnm_is_power_of_two
  <1>8. c \in Nat /\ \A i \in 1..Len(s) : s[i] \in Nat
    BY <1>5, <1>6
  <1>9. PICK k \in 0..Len(s) : RungsBelow(s, c, k)
    BY <1>2, <1>8, RungCount
  <1>10. k = p
    <2>1. \A j \in 1..Len(s) : s[j] < c <=> j <= k
      BY <1>9 DEF RungsBelow
    <2>2. ~(p + 1 <= k)
      BY <1>5, <1>8, <2>1
    <2>3. p = 0 \/ p <= k
      <3>1. ASSUME p # 0 PROVE p <= k
        <4>1. p \in 1..Len(s) /\ p < p + 1
          BY <1>1, <1>5, <3>1
        <4>2. s[p] < c
          BY <1>5, <1>6, <4>1
        <4> QED BY <2>1, <4>1, <4>2
      <3> QED BY <3>1
    <2> QED BY <1>1, <2>2, <2>3
  <1>11. Cardinality(ladder.grade_bits \cap exponents_below(c)) = p
    BY <1>1, <1>9, <1>10 DEF RungsBelow
  <1>12. grade_for_capacity(c) = p
    <2>1. ~(p >= ladder.grade_count)
      BY <1>1, <1>5
    <2> QED BY <1>5, <1>7, <1>11, <2>1 DEF grade_for_capacity
  <1> QED BY <1>12 DEF c

\* Nothing in stock, nothing out, nothing from the host.
Bare ==
  /\ \A p \in PoolIds : /\ pools[p].free_head = NULL
                        /\ pools[p].spare_count = 0 /\ pools[p].acquired_count = 0
                        /\ pools[p].arena_capacity = 0 => pools[p] = EmptyPool
                        /\ lent[p] = {}
  /\ host = {}

\* Such pools are in order.
LEMMA BareIsPooled == TypeOK /\ Bare => Pooled
  <1> SUFFICES ASSUME TypeOK, Bare PROVE Pooled
    OBVIOUS
  <1> DEFINE L == [p \in PoolIds |-> <<>>]
  <1>1. /\ L \in [PoolIds -> Seq(Arenas)]
        /\ \A p \in PoolIds : L[p] = <<>> /\ Range(L[p]) = {} /\ Len(L[p]) = 0
    BY DEF Range
  <1> HIDE DEF L
  <1>2. \A p \in PoolIds : Mine(L, p) = {}
    BY <1>1 DEF Mine, Bare
  <1>3. ASSUME NEW p \in PoolIds PROVE Shelved(L, p)
    <2>1. Chain(Arenas, L[p], pools[p].free_head, link)
      BY <1>1, ChainEmpty, PoolAssumption DEF Bare
    <2> QED BY <1>1, <2>1 DEF Shelved, Bare
  <1>4. Shelves(L)
    <2>1. host = UNION {Mine(L, p) : p \in PoolIds}
      BY <1>2 DEF Bare
    <2> QED BY <1>1, <1>2, <1>3, <2>1 DEF Shelves
  <1>5. \A p \in PoolIds : Counted(p)
    <2> SUFFICES ASSUME NEW p \in PoolIds PROVE Counted(p)
      OBVIOUS
    <2>1. pools[p].spare_limit \in Nat
      BY DEF TypeOK, Descriptors
    <2>2. /\ pools[p].spare_count = 0 /\ pools[p].acquired_count = 0 /\ lent[p] = {}
          /\ pools[p].arena_capacity = 0 => pools[p] = EmptyPool
      BY DEF Bare
    <2>3. Cardinality(lent[p]) = 0
      BY <2>2, FS_EmptySet
    <2> QED BY <2>1, <2>2, <2>3 DEF Counted
  <1> QED BY <1>1, <1>4, <1>5 DEF Pooled

\* A pool that is not in use has nothing: no stock, nothing out.
LEMMA EmptyHoldsNothing ==
  ASSUME Pooled, \A p \in PoolIds : pools[p] = EmptyPool
  PROVE  host = {} /\ \A p \in PoolIds : lent[p] = {}
  <1>1. PICK L \in [PoolIds -> Seq(Arenas)] : Shelves(L)
    BY DEF Pooled
  <1>2. ASSUME NEW p \in PoolIds PROVE Mine(L, p) = {} /\ lent[p] = {}
    <2>1. /\ IsFiniteSet(lent[p]) /\ Counted(p) /\ Len(L[p]) = pools[p].spare_count
          /\ Mine(L, p) = Range(L[p]) \cup lent[p]
          /\ Chain(Arenas, L[p], pools[p].free_head, link)
      BY <1>1, PoolFacts
    <2>2. Cardinality(lent[p]) = 0 /\ Len(L[p]) = 0
      BY <2>1 DEF Counted, EmptyPool
    <2>3. lent[p] = {} /\ L[p] = <<>>
      BY <2>1, <2>2, FS_EmptySet, ChainHead
    <2> QED BY <2>1, <2>3 DEF Range
  <1>3. host = UNION {Mine(L, p) : p \in PoolIds}
    BY <1>1 DEF Shelves
  <1> QED BY <1>2, <1>3

\* The descriptor init gives the grade p of a ladder s.
Rung(s, n, p) ==
  IF p < Len(s) THEN [EmptyPool EXCEPT !.arena_capacity = arnm_align8_u32(s[p + 1]),
                                       !.spare_limit = n]
                ELSE EmptyPool

\* A rung is an empty pool of its size.
LEMMA RungIs ==
  ASSUME NEW s \in Ladders, ladder_accepted(s), NEW n \in Nat, NEW p \in PoolIds
  PROVE  /\ Rung(s, n, p) \in Descriptors /\ Rung(s, n, p).free_head = NULL
         /\ Rung(s, n, p).spare_count = 0 /\ Rung(s, n, p).acquired_count = 0
         /\ p < Len(s) => Rung(s, n, p).arena_capacity = s[p + 1] /\ s[p + 1] # 0
         /\ ~(p < Len(s)) => Rung(s, n, p) = EmptyPool
  <1>1. /\ Len(s) \in 1..(WORD - 3)
        /\ \A i \in 1..Len(s) : s[i] \in 8..ARNM_GRADED_MAX_SIZE
        /\ \A i \in 1..Len(s) : arnm_align8_u32(s[i]) = s[i]
    BY RungFacts
  <1>2. EmptyPool \in Descriptors
    BY PoolAssumption, WidthAssumption DEF EmptyPool, Descriptors
  <1>3. ASSUME p < Len(s)
        PROVE  /\ Rung(s, n, p) \in Descriptors /\ Rung(s, n, p).free_head = NULL
               /\ Rung(s, n, p).spare_count = 0 /\ Rung(s, n, p).acquired_count = 0
               /\ Rung(s, n, p).arena_capacity = s[p + 1] /\ s[p + 1] # 0
    <2> DEFINE c == arnm_align8_u32(s[p + 1])
               d == [EmptyPool EXCEPT !.arena_capacity = c, !.spare_limit = n]
    <2>1. p + 1 \in 1..Len(s)
      <3>1. p \in Nat /\ Len(s) \in Nat
        BY <1>1, Scale
      <3> QED BY <1>3, <3>1
    <2>2. c = s[p + 1] /\ c # 0 /\ c \in 0..UINT32_MAX
      <3> DEFINE h == ARNM_GRADED_MAX_SIZE
      <3>1. c = s[p + 1] /\ s[p + 1] \in 8..h
        BY <1>1, <2>1
      <3>2. UINT32_MAX + 1 = 2 * h /\ h \in Nat /\ h >= 8 /\ UINT32_MAX \in Nat
        BY Scale, WidthAssumption
      <3> HIDE DEF c, h
      <3>3. c \in 8..h
        BY <3>1
      <3>4. c # 0 /\ c \in 0..UINT32_MAX
        BY <3>2, <3>3
      <3> QED BY <3>1, <3>4
    <2> HIDE DEF c
    <2>3. Rung(s, n, p) = d
      BY <1>3 DEF Rung, c
    <2>4. d \in Descriptors
      BY <1>2, <2>2 DEF Descriptors
    <2>5. /\ d.free_head = EmptyPool.free_head /\ d.arena_capacity = c
          /\ d.acquired_count = EmptyPool.acquired_count
          /\ d.spare_count = EmptyPool.spare_count
      BY <1>2 DEF Descriptors
    <2> HIDE DEF d
    <2> QED BY <2>2, <2>3, <2>4, <2>5 DEF EmptyPool
  <1>4. ASSUME ~(p < Len(s)) PROVE Rung(s, n, p) = EmptyPool
    BY <1>4 DEF Rung
  <1> QED BY <1>2, <1>3, <1>4 DEF EmptyPool

\* Putting up a ladder: every rung is a pool of its size.
LEMMA LadderUp ==
  ASSUME IInv, NEW s \in Ladders, NEW n \in SpareLimits,
         arnm_graded_arena_pool_init(s, n)
  PROVE  IInv' /\ Fresh
  <1>0. Pooled /\ n \in Nat
    BY PoolAssumption DEF IInv
  <1>1. CASE UNCHANGED <<poolVars, ladder>>
    <2>1. Pooled' /\ Fresh
      BY <1>0, <1>1, Still
    <2>2. IInv'
      BY <1>0, <1>1, <2>1 DEF IInv, arnm_graded_arena_pool_init, is_standing
    <2> QED BY <2>1, <2>2
  <1>2. ASSUME ladder_accepted(s), pools' = [p \in PoolIds |-> Rung(s, n, p)],
               ladder' = [grade_count |-> Len(s), grade_bits |-> Bits(s)],
               UNCHANGED <<arena, link, host, lent>>
        PROVE  IInv' /\ Fresh
    <2>1. host = {} /\ \A p \in PoolIds : lent[p] = {}
      BY <1>0, EmptyHoldsNothing DEF arnm_graded_arena_pool_init
    <2>2. \A p \in PoolIds : pools'[p] = Rung(s, n, p)
      BY <1>2
    <2>3. TypeOK'
      <3>1. \A p \in PoolIds : Rung(s, n, p) \in Descriptors
        BY <1>0, <1>2, RungIs
      <3>2. pools' \in [PoolIds -> Descriptors]
        BY <1>2, <3>1
      <3> QED BY <1>0, <1>2, <3>2 DEF Pooled, TypeOK
    <2>4. ASSUME NEW p \in PoolIds
          PROVE  /\ pools'[p].free_head = NULL
                 /\ pools'[p].spare_count = 0 /\ pools'[p].acquired_count = 0
                 /\ pools'[p].arena_capacity = 0 => pools'[p] = EmptyPool
                 /\ IF p < Len(s) THEN pools'[p].arena_capacity \in {0, s[p + 1]}
                                  ELSE pools'[p] = EmptyPool
      BY <1>0, <1>2, <2>2, RungIs
    <2>5. Bare'
      BY <1>2, <2>1, <2>4 DEF Bare
    <2>6. Pooled'
      BY <2>3, <2>5, BareIsPooled, PTL
    <2>7. Rungs(s)'
      BY <1>2, <2>4 DEF Rungs
    <2> QED BY <1>2, <2>6, <2>7 DEF IInv, Fresh
  <1> QED
    BY <1>1, <1>2 DEF arnm_graded_arena_pool_init, RefuseGraded, Refuse, Rung, Bits

\* Taking the ladder down gives back every arena, each grade's stock.
LEMMA LadderDown ==
  ASSUME IInv, is_standing, all_grades_idle, ladder_released
  PROVE  IInv' /\ Fresh
  <1>1. Pooled
    BY DEF IInv
  <1>2. PICK s \in Ladders : Rungs(s)
    BY DEF IInv
  <1>3. PICK L \in [PoolIds -> Seq(Arenas)] : Shelves(L)
    BY <1>1 DEF Pooled
  <1> DEFINE S == UNION {on_list(pools[p].free_head) : p \in 0..(ladder.grade_count - 1)}
  <1>4. /\ pools' = [p \in PoolIds |-> EmptyPool] /\ host' = host \ S /\ lent' = lent
        /\ arena' = destroyed(arena, S, NotMade) /\ link' = destroyed(link, S, NULL)
        /\ ladder' = NULL
    BY DEF ladder_released
  <1>5. /\ ladder.grade_count = Len(s) /\ Len(s) \in Nat
        /\ \A q \in Nat : q < Len(s) => q \in PoolIds
        /\ \A q \in PoolIds : ~(q < Len(s)) => pools[q] = EmptyPool
        /\ PoolIds \subseteq Nat
    BY <1>1, <1>2, LadderFacts
  <1>6. ASSUME NEW p \in PoolIds PROVE lent[p] = {} /\ Mine(L, p) \subseteq S
    <2>1. /\ IsFiniteSet(lent[p]) /\ Counted(p) /\ Len(L[p]) = pools[p].spare_count
          /\ Mine(L, p) = Range(L[p]) \cup lent[p]
          /\ Chain(Arenas, L[p], pools[p].free_head, link)
          /\ on_list(pools[p].free_head) = Range(L[p])
      BY <1>1, <1>3, PoolFacts
    <2>2. pools[p].acquired_count = 0
      BY <1>5 DEF all_grades_idle, nothing_out, EmptyPool
    <2>3. lent[p] = {}
      BY <2>1, <2>2, FS_EmptySet DEF Counted
    <2>4. CASE p < Len(s)
      <3>1. p \in 0..(ladder.grade_count - 1)
        BY <1>5, <2>4
      <3>2. on_list(pools[p].free_head) \subseteq S
        BY <3>1
      <3> QED BY <2>1, <2>3, <3>2
    <2>5. CASE ~(p < Len(s))
      <3>1. Len(L[p]) = 0
        BY <1>5, <2>1, <2>5 DEF EmptyPool
      <3>2. Range(L[p]) = {}
        BY <2>1, <3>1, ChainHead DEF Range
      <3> QED BY <2>1, <2>3, <3>2
    <2> QED BY <2>4, <2>5
  <1>7. host' = {}
    <2>1. host = UNION {Mine(L, p) : p \in PoolIds}
      BY <1>3 DEF Shelves
    <2> HIDE DEF S
    <2> QED BY <1>4, <1>6, <2>1
  <1> HIDE DEF S
  <1>8. TypeOK'
    <2>1. EmptyPool \in Descriptors
      BY PoolAssumption, WidthAssumption DEF EmptyPool, Descriptors
    <2>2. pools' \in [PoolIds -> Descriptors]
      BY <1>4, <2>1
    <2>3. TypeOK
      BY <1>1 DEF Pooled
    <2>4. arena' \in [Arenas -> [capacity : 0..UINT32_MAX, last_index : 0..UINT32_MAX]]
      BY <1>4, <2>3, WidthAssumption DEF TypeOK, destroyed, NotMade
    <2>5. link' \in [Arenas -> Arenas \cup {NULL, JUNK}]
      BY <1>4, <2>3 DEF TypeOK, destroyed
    <2> QED BY <1>4, <1>7, <2>2, <2>3, <2>4, <2>5 DEF TypeOK
  <1>9. Bare'
    BY <1>4, <1>6, <1>7 DEF Bare, EmptyPool
  <1>10. Pooled'
    BY <1>8, <1>9, BareIsPooled, PTL
  <1> QED BY <1>4, <1>10 DEF IInv, Fresh, is_standing

-----------------------------------------------------------------------------
(* Every step.                                                             *)

\* What a client may do with one pool.
LEMMA PoolStep ==
  ASSUME Pooled, NEW p \in PoolIds, PoolNext(p)
  PROVE  Pooled' /\ Fresh /\ Within(p)
  <1>1. ASSUME NEW n \in SpareLimits, arnm_dynamic_arena_pool_reserve(p, n)
        PROVE  Pooled' /\ Fresh /\ Within(p)
    <2>1. n \in Nat
      BY PoolAssumption
    <2> QED BY <1>1, <2>1, ReserveStep
  <1>2. CASE arnm_dynamic_arena_pool_alloc(p)
    BY <1>2, AllocStep
  <1>3. ASSUME NEW a \in Arenas, arnm_dynamic_arena_pool_free(p, a)
        PROVE  Pooled' /\ Fresh /\ Within(p)
    BY <1>3, FreeStep
  <1>4. CASE arnm_dynamic_arena_pool_release(p)
    <2>1. CASE UNCHANGED poolVars
      BY <2>1, Still
    <2>2. CASE nothing_out(p) /\ released(p)
      BY <2>2, ReleaseStep
    <2> QED BY <1>4, <2>1, <2>2 DEF arnm_dynamic_arena_pool_release, Refuse
  <1> QED BY <1>1, <1>2, <1>3, <1>4 DEF PoolNext

\* A step of one grade leaves the ladder standing on its rungs.
LEMMA RungsKept ==
  ASSUME NEW s \in Ladders, Rungs(s), NEW p \in PoolIds, p < Len(s), Within(p),
         UNCHANGED ladder
  PROVE  Rungs(s)'
  <1>1. ASSUME NEW q \in PoolIds
        PROVE  IF q < Len(s) THEN pools'[q].arena_capacity \in {0, s[q + 1]}
                             ELSE pools'[q] = EmptyPool
    <2>1. CASE q = p
      BY <2>1 DEF Rungs, Within
    <2>2. CASE q # p
      BY <2>2 DEF Rungs, Within
    <2> QED BY <2>1, <2>2
  <1> QED BY <1>1 DEF Rungs

\* A step of a grade that is on the ladder.
LEMMA GradeStep ==
  ASSUME IInv, NEW s \in Ladders, Rungs(s), NEW p \in PoolIds, p < Len(s),
         Pooled' /\ Fresh /\ Within(p), UNCHANGED ladder
  PROVE  IInv' /\ Fresh
  <1>1. Rungs(s)'
    BY RungsKept
  <1> QED BY <1>1 DEF IInv

\* Every step keeps the invariant, and lends only what is fresh.
LEMMA NextStep ==
  ASSUME IInv, GradedNext
  PROVE  IInv' /\ Fresh
  <1>0. Pooled
    BY DEF IInv
  <1>1. CASE UNCHANGED <<poolVars, ladder>>
    <2>1. Pooled' /\ Fresh
      BY <1>0, <1>1, Still
    <2>2. ASSUME is_standing PROVE \E s \in Ladders : Rungs(s)'
      <3>1. PICK s \in Ladders : Rungs(s)
        BY <2>2 DEF IInv
      <3>2. pools' = pools /\ ladder' = ladder
        BY <1>1 DEF poolVars
      <3> QED BY <3>1, <3>2 DEF Rungs
    <2>3. is_standing' = is_standing
      BY <1>1 DEF is_standing
    <2> QED BY <2>1, <2>2, <2>3 DEF IInv
  <1>2. ASSUME NEW s \in Ladders, NEW n \in SpareLimits, arnm_graded_arena_pool_init(s, n)
        PROVE  IInv' /\ Fresh
    BY <1>2, LadderUp
  <1>3. CASE is_standing /\ all_grades_idle /\ ladder_released
    BY <1>3, LadderDown
  <1>4. CASE arnm_graded_arena_pool_release
    BY <1>1, <1>3, <1>4 DEF arnm_graded_arena_pool_release, RefuseGraded, Refuse
  <1>5. CASE arnm_graded_arena_pool_destroy
    BY <1>1, <1>3, <1>5 DEF arnm_graded_arena_pool_destroy, RefuseGraded, Refuse
  <1>6. ASSUME NEW x \in Requests, arnm_graded_arena_pool_alloc(x)
        PROVE  IInv' /\ Fresh
    <2> DEFINE p == grade_for_size(x)
    <2>1. CASE is_standing /\ p < ladder.grade_count
               /\ arnm_dynamic_arena_pool_alloc(p) /\ UNCHANGED ladder
      <3>1. PICK s \in Ladders : Rungs(s)
        BY <2>1 DEF IInv
      <3>2. p \in PoolIds /\ p < Len(s)
        BY <1>0, <2>1, <3>1, LookupsAnswer
      <3> HIDE DEF p
      <3>3. Pooled' /\ Fresh /\ Within(p)
        BY <1>0, <2>1, <3>2, AllocStep
      <3> QED BY <2>1, <3>1, <3>2, <3>3, GradeStep
    <2> QED BY <1>1, <1>6, <2>1 DEF arnm_graded_arena_pool_alloc, RefuseGraded, Refuse
  <1>7. ASSUME NEW r \in Returns, arnm_graded_arena_pool_free(r[1], r[2])
        PROVE  IInv' /\ Fresh
    <2> DEFINE p == grade_for_capacity(r[2])
    <2>1. CASE is_standing /\ p < ladder.grade_count
               /\ arnm_dynamic_arena_pool_free(p, r[1]) /\ UNCHANGED ladder
      <3>1. PICK s \in Ladders : Rungs(s)
        BY <2>1 DEF IInv
      <3>2. p \in PoolIds /\ p < Len(s)
        BY <1>0, <2>1, <3>1, LookupsAnswer
      <3> HIDE DEF p
      <3>3. Pooled' /\ Fresh /\ Within(p)
        BY <1>0, <2>1, <3>2, FreeStep
      <3> QED BY <2>1, <3>1, <3>2, <3>3, GradeStep
    <2> QED BY <1>1, <1>7, <2>1 DEF arnm_graded_arena_pool_free, RefuseGraded, Refuse
  <1>8. ASSUME NEW p \in PoolIds, arnm_graded_arena_pool_grade_at(p)
        PROVE  IInv' /\ Fresh
    <2>1. is_standing /\ p < ladder.grade_count /\ PoolNext(p) /\ UNCHANGED ladder
      BY <1>8 DEF arnm_graded_arena_pool_grade_at
    <2>2. PICK s \in Ladders : Rungs(s)
      BY <2>1 DEF IInv
    <2>3. p < Len(s)
      BY <2>1, <2>2 DEF Rungs
    <2>4. Pooled' /\ Fresh /\ Within(p)
      BY <1>0, <2>1, PoolStep
    <2> QED BY <2>1, <2>2, <2>3, <2>4, GradeStep
  <1>9. ASSUME is_standing, NEW a \in Arenas, use_arena(a), UNCHANGED ladder
        PROVE  IInv' /\ Fresh
    <2>1. Pooled' /\ Fresh
      BY <1>0, <1>9, UseStep
    <2>2. PICK s \in Ladders : Rungs(s)
      BY <1>9 DEF IInv
    <2>3. Rungs(s)'
      BY <1>9, <2>2 DEF use_arena, Rungs
    <2> QED BY <2>1, <2>3 DEF IInv
  <1>10. ASSUME ~is_standing, PoolsNext, UNCHANGED ladder
         PROVE  IInv' /\ Fresh
    <2>1. ASSUME NEW p \in PoolIds, NEW c \in Capacities, NEW n \in SpareLimits,
                 arnm_dynamic_arena_pool_init(p, c, n)
          PROVE  Pooled' /\ Fresh
      BY <1>0, <2>1, InitStep
    <2>2. ASSUME NEW p \in PoolIds, PoolNext(p) PROVE Pooled' /\ Fresh
      BY <1>0, <2>2, PoolStep
    <2>3. ASSUME NEW p \in PoolIds, arnm_dynamic_arena_pool_destroy(p)
          PROVE  Pooled' /\ Fresh
      <3>1. CASE UNCHANGED poolVars
        BY <1>0, <3>1, Still
      <3>2. CASE nothing_out(p) /\ released(p)
        BY <1>0, <3>2, ReleaseStep
      <3> QED BY <2>3, <3>1, <3>2 DEF arnm_dynamic_arena_pool_destroy, Refuse
    <2>4. ASSUME NEW a \in Arenas, use_arena(a) PROVE Pooled' /\ Fresh
      BY <1>0, <2>4, UseStep
    <2>5. Pooled' /\ Fresh
      BY <1>10, <2>1, <2>2, <2>3, <2>4 DEF PoolsNext
    <2> QED BY <1>10, <2>5 DEF IInv, is_standing
  <1> QED
    BY <1>2, <1>4, <1>5, <1>6, <1>7, <1>8, <1>9, <1>10 DEF GradedNext

-----------------------------------------------------------------------------
(* The theorems.                                                           *)

\* The invariant holds whatever ladders are asked for: each pool's stock is a
\* list through its own arenas, the pools share out what the host gave, and the
\* grades are the rungs.
THEOREM Inductive == GradedSpec => []IInv
  <1>1. GradedInit => IInv
    <2> SUFFICES ASSUME GradedInit PROVE IInv
      OBVIOUS
    <2>1. TypeOK
      <3>1. EmptyPool \in Descriptors
        BY PoolAssumption, WidthAssumption DEF EmptyPool, Descriptors
      <3>2. pools \in [PoolIds -> Descriptors]
        BY <3>1 DEF GradedInit, Init
      <3>3. arena \in [Arenas -> [capacity : 0..UINT32_MAX, last_index : 0..UINT32_MAX]]
        BY WidthAssumption DEF GradedInit, Init, NotMade
      <3> QED BY <3>2, <3>3 DEF GradedInit, Init, TypeOK
    <2>2. Bare
      BY DEF GradedInit, Init, Bare, EmptyPool
    <2>3. Pooled
      BY <2>1, <2>2, BareIsPooled
    <2> QED BY <2>3 DEF IInv, GradedInit, is_standing
  <1>2. IInv /\ [GradedNext]_gradedVars => IInv'
    <2> SUFFICES ASSUME IInv, [GradedNext]_gradedVars PROVE IInv'
      OBVIOUS
    <2>1. CASE GradedNext
      BY <2>1, NextStep
    <2>2. CASE UNCHANGED gradedVars
      <3>1. UNCHANGED poolVars /\ UNCHANGED ladder
        BY <2>2 DEF gradedVars, vars, poolVars
      <3>2. Pooled'
        BY <3>1, Still DEF IInv
      <3>3. pools' = pools /\ ladder' = ladder
        BY <2>2 DEF gradedVars, vars
      <3> QED BY <3>2, <3>3 DEF IInv, Rungs, is_standing
    <2> QED BY <2>1, <2>2
  <1> QED BY <1>1, <1>2, PTL DEF GradedSpec

\* Nothing is lost and nothing held twice: for every number of arenas, pools and
\* limits, the free list of each pool ends after exactly the arenas it counts,
\* each reset and in nobody's hands, and every arena of the host is in stock or
\* out of one pool.
THEOREM NothingLost == GradedSpec => []ArenasAccounted
  <1>1. IInv => ArenasAccounted
    <2> SUFFICES ASSUME IInv PROVE ArenasAccounted
      OBVIOUS
    <2>0. Pooled
      BY DEF IInv
    <2>1. PICK L \in [PoolIds -> Seq(Arenas)] : Shelves(L)
      BY <2>0 DEF Pooled
    <2>2. \A p, q \in PoolIds : p # q => Mine(L, p) \cap Mine(L, q) = {}
      BY <2>1 DEF Shelves
    <2>3. ASSUME NEW p \in PoolIds
          PROVE  /\ Mine(L, p) = Range(L[p]) \cup lent[p] /\ Counted(p)
                 /\ on_list(pools[p].free_head) = Range(L[p])
                 /\ Range(L[p]) \cap lent[p] = {}
                 /\ \A a \in Range(L[p]) : arena[a] = made(p)
                 /\ Cardinality(on_list(pools[p].free_head)) = pools[p].spare_count
                 /\ walked(pools[p].free_head)[pools[p].spare_count] = NULL
      <3>1. /\ Chain(Arenas, L[p], pools[p].free_head, link) /\ Len(L[p]) = pools[p].spare_count
            /\ Mine(L, p) = Range(L[p]) \cup lent[p] /\ Counted(p)
            /\ on_list(pools[p].free_head) = Range(L[p])
            /\ Range(L[p]) \cap lent[p] = {}
            /\ \A a \in Range(L[p]) : arena[a] = made(p)
        BY <2>0, <2>1, PoolFacts
      <3>2. /\ Cardinality(on_list(pools[p].free_head)) = Len(L[p])
            /\ walked(pools[p].free_head)[Len(L[p])] = NULL
        BY <3>1, WalkMeets
      <3> QED BY <3>1, <3>2
    <2>4. ASSUME NEW p \in PoolIds, NEW a \in on_list(pools[p].free_head), NEW q \in PoolIds
          PROVE  a \notin lent[q]
      <3>1. CASE p = q
        BY <2>3, <2>4, <3>1
      <3>2. CASE p # q
        <4>1. a \in Mine(L, p)
          BY <2>3, <2>4
        <4>2. a \notin Mine(L, q)
          BY <2>2, <3>2, <4>1
        <4> QED BY <2>3, <4>2
      <3> QED BY <3>1, <3>2
    <2>5. StockIsFreeList
      BY <2>3, <2>4 DEF StockIsFreeList
    <2>6. ASSUME NEW p \in PoolIds, NEW q \in PoolIds, p # q
          PROVE  lent[p] \cap lent[q] = {}
      <3>1. lent[p] \subseteq Mine(L, p) /\ lent[q] \subseteq Mine(L, q)
        BY <2>3
      <3> QED BY <2>2, <2>6, <3>1
    <2>7. \A p \in PoolIds : /\ pools[p].acquired_count = Cardinality(lent[p])
                             /\ pools[p].spare_count <= pools[p].spare_limit
      BY <2>3 DEF Counted
    <2>8. host = UNION {on_list(pools[p].free_head) \cup lent[p] : p \in PoolIds}
      <3>1. host = UNION {Mine(L, p) : p \in PoolIds}
        BY <2>1 DEF Shelves
      <3>2. \A p \in PoolIds : Mine(L, p) = on_list(pools[p].free_head) \cup lent[p]
        BY <2>3
      <3> QED BY <3>1, <3>2
    <2> QED BY <2>0, <2>5, <2>6, <2>7, <2>8 DEF Pooled, ArenasAccounted
  <1> QED BY <1>1, Inductive, PTL

\* For every width, ladder and request, the bits of the ladder name the grade a
\* walk from the bottom would: the first whose size carries the request.
THEOREM GradeServes == GradedSpec => []SmallestGradeThatFits
  <1>1. IInv => SmallestGradeThatFits
    <2> SUFFICES ASSUME IInv, is_standing, NEW x \in Requests \ {0}
                 PROVE  LET i == grade_for_size(x) IN
                        /\ i \in 0..ladder.grade_count
                        /\ i < ladder.grade_count =>
                             pools[i].arena_capacity = 0 \/ pools[i].arena_capacity >= x
                        /\ \A p \in PoolIds : p < i => pools[p].arena_capacity < x
      BY DEF SmallestGradeThatFits
    <2>1. PICK s \in Ladders : Rungs(s)
      BY DEF IInv
    <2>2. x \in Nat \ {0}
      <3>1. Requests \subseteq 0..UINT32_MAX
        BY LadderAssumption, Zenon
      <3> QED BY <3>1, WidthAssumption
    <2> QED BY <2>1, <2>2, SizeLookup DEF IInv
  <1> QED BY <1>1, Inductive, PTL

\* An arena finds the grade that lent it by its capacity, for every ladder.
THEOREM ComesHome == GradedSpec => []ArenasFindHome
  <1>1. IInv => ArenasFindHome
    BY HomeLookup DEF IInv, ArenasFindHome
  <1> QED BY <1>1, Inductive, PTL

\* What is lent is lent empty, of its pool's size, and was nobody's.
THEOREM LendsFresh == GradedSpec => ArrivesFresh
  <1>1. IInv /\ [GradedNext]_gradedVars =>
          [ \A p \in PoolIds : \A a \in lent'[p] \ lent[p] :
              arena'[a] = made(p) /\ \A q \in PoolIds : a \notin lent[q] ]_vars
    <2>1. ASSUME IInv, GradedNext PROVE Fresh
      BY <2>1, NextStep
    <2>2. UNCHANGED gradedVars => UNCHANGED vars
      BY DEF gradedVars
    <2> QED BY <2>1, <2>2 DEF Fresh
  <1> QED BY <1>1, Inductive, PTL DEF GradedSpec, ArrivesFresh

-----------------------------------------------------------------------------
(* The fixed pool.                                                         *)

\* s names the free slots of the block in the order of its list.
FixedShelf(s) ==
  /\ Chain(Fixed!Slots, s, fpool.free_head, flink)
  /\ Range(s) = (0..(fpool.arena_count - 1)) \ flent

\* What the pool counts and what it was made for; without a block it is zeroed.
FixedFacts ==
  /\ flent \subseteq 0..(fpool.arena_count - 1)
  /\ fpool.acquired_count = Cardinality(flent)
  /\ \A i \in Fixed!Slots : i < fpool.arena_count /\ i \notin flent => fused[i] = 0
  /\ fblock = IF fpool.arenas THEN Fixed!block_bytes(fpool.arena_count, fpool.arena_capacity) ELSE 0
  /\ IF fpool.arenas
     THEN fpool.arena_count # 0 /\ Fixed!total_fits(fpool.arena_count, fpool.arena_capacity)
     ELSE fpool = Fixed!EmptyPool

FixedInv ==
  /\ Fixed!TypeOK
  /\ \E s \in Seq(Fixed!Slots) : FixedShelf(s)
  /\ FixedFacts

\* Rounding down and multiplying back does not pass what was divided.
LEMMA DivisionFits ==
  ASSUME NEW a \in Nat, NEW c \in Nat \ {0}, NEW k \in Nat, a \div c >= k
  PROVE  c * k <= a
  <1> DEFINE d == a \div c
  <1>1. d \in Nat /\ c * d <= a
    OBVIOUS
  <1> HIDE DEF d
  <1>2. PICK e \in Nat : d = k + e
    <2>1. d - k \in Nat /\ d = k + (d - k)
      BY <1>1 DEF d
    <2> QED BY <2>1
  <1>3. c * d = c * k + c * e /\ c * k \in Nat /\ c * e \in Nat
    BY <1>2
  <1> QED BY <1>1, <1>3

\* A block that passed the check has its size below 2^32: computing it in 32 bits
\* loses nothing.
LEMMA FixedFits ==
  ASSUME NEW c \in 1..FIXED_UINT16_MAX, NEW k \in Nat, Fixed!total_fits(c, k)
  PROVE  /\ Fixed!calculate_total_reserved_memory_size(c, k) = Fixed!block_bytes(c, k)
         /\ Fixed!block_bytes(c, k) \in Nat \ {0}
  <1> DEFINE A == ARNM_BYTES
             M == Fixed!ARNM_MAX_ALLOC_SIZE
  <1>1. /\ A \in Nat \ {0} /\ FIXED_UINT16_MAX \in Nat \ {0} /\ FIXED_UINT16_MAX * A <= M
        /\ M \in Nat /\ FIXED_UINT32_MAX = M + 7 /\ c \in Nat \ {0}
    BY PoolsAssumption DEF Fixed!FixedPoolAssumption, Fixed!ARNM_MAX_ALLOC_SIZE
  <1>2. (M - A * c) \div c >= k
    BY DEF Fixed!total_fits
  <1> HIDE DEF A, M
  <1>3. A * c \in Nat /\ A * c <= M /\ A * c = c * A /\ A * c # 0
    <2>1. PICK e \in Nat : FIXED_UINT16_MAX = c + e
      <3>1. FIXED_UINT16_MAX - c \in Nat /\ FIXED_UINT16_MAX = c + (FIXED_UINT16_MAX - c)
        BY <1>1
      <3> QED BY <3>1
    <2>2. FIXED_UINT16_MAX * A = A * c + A * e /\ A * e \in Nat /\ A * c \in Nat
      BY <1>1, <2>1
    <2> QED BY <1>1, <2>2
  <1>4. c * k <= M - A * c /\ c * k \in Nat
    <2> DEFINE a == M - A * c
    <2>1. a \in Nat /\ a \div c >= k
      BY <1>1, <1>2, <1>3
    <2> HIDE DEF a
    <2>2. c * k <= a
      BY <1>1, <2>1, DivisionFits
    <2> QED BY <1>1, <2>2 DEF a
  <1>5. (A + k) * c = A * c + c * k
    BY <1>1
  <1>6. A * c + c * k \in 0..FIXED_UINT32_MAX /\ A * c + c * k # 0
    BY <1>1, <1>3, <1>4
  <1> DEFINE w == A * c + c * k
  <1>7. w % (FIXED_UINT32_MAX + 1) = w
    <2>1. w \in 0..FIXED_UINT32_MAX /\ FIXED_UINT32_MAX \in Nat
      BY <1>1, <1>6
    <2> HIDE DEF w
    <2> QED BY <2>1
  <1>8. Fixed!block_bytes(c, k) = w
    BY <1>3 DEF Fixed!block_bytes, Fixed!buffers_offset, A
  <1>9. Fixed!calculate_total_reserved_memory_size(c, k) = w % (FIXED_UINT32_MAX + 1)
    BY <1>5 DEF Fixed!calculate_total_reserved_memory_size, A
  <1> QED BY <1>6, <1>7, <1>8, <1>9

\* What the widths say of slots.
LEMMA SlotFacts ==
  /\ FIXED_UINT16_MAX \in Nat \ {0} /\ FIXED_UINT32_MAX \in Nat /\ FIXED_UINT32_MAX > 8
  /\ ARNM_BYTES \in Nat \ {0} /\ Fixed!ARNM_MAX_ALLOC_SIZE \in Nat
  /\ Fixed!Slots = 0..(FIXED_UINT16_MAX - 1) /\ NULL \notin Fixed!Slots
  /\ JUNK \notin Fixed!Slots
  /\ IsFiniteSet(Fixed!Slots) /\ Cardinality(Fixed!Slots) = FIXED_UINT16_MAX
  /\ FixedCapacities \subseteq 0..FIXED_UINT32_MAX /\ FixedAddresses \subseteq Int
  <1>1. /\ FIXED_UINT16_MAX \in Nat \ {0} /\ FIXED_UINT32_MAX \in Nat /\ FIXED_UINT32_MAX > 8
        /\ ARNM_BYTES \in Nat \ {0} /\ Fixed!ARNM_MAX_ALLOC_SIZE \in Nat
        /\ Fixed!Slots = 0..(FIXED_UINT16_MAX - 1)
        /\ FixedCapacities \subseteq 0..FIXED_UINT32_MAX /\ FixedAddresses \subseteq Int
    BY PoolsAssumption DEF Fixed!FixedPoolAssumption, Fixed!ARNM_MAX_ALLOC_SIZE, Fixed!Slots
  <1>2. Fixed!Slots \subseteq 0..FIXED_UINT16_MAX
    BY <1>1
  <1>3. NULL \notin Fixed!Slots /\ JUNK \notin Fixed!Slots
    BY <1>2, PoolsAssumption DEF Fixed!FixedPoolAssumption
  <1>4. /\ IsFiniteSet(0..(FIXED_UINT16_MAX - 1))
        /\ Cardinality(0..(FIXED_UINT16_MAX - 1)) = FIXED_UINT16_MAX
    <2>1. /\ IsFiniteSet(0..(FIXED_UINT16_MAX - 1))
          /\ Cardinality(0..(FIXED_UINT16_MAX - 1)) =
               IF 0 > FIXED_UINT16_MAX - 1 THEN 0 ELSE (FIXED_UINT16_MAX - 1) - 0 + 1
      BY <1>1, FS_Interval, 0 \in Int, FIXED_UINT16_MAX - 1 \in Int
    <2> QED BY <1>1, <2>1
  <1> QED BY <1>1, <1>3, <1>4

\* What holds of the state and of the list in it.
LEMMA FixedKnows ==
  ASSUME FixedInv
  PROVE  /\ Fixed!TypeOK /\ FixedFacts
         /\ fpool.acquired_count = Cardinality(flent) /\ IsFiniteSet(flent)
         /\ fpool.arena_count \in 0..FIXED_UINT16_MAX
         /\ 0..(fpool.arena_count - 1) \subseteq Fixed!Slots
         /\ flent \subseteq 0..(fpool.arena_count - 1)
         /\ Cardinality(flent) = 0 <=> flent = {}
         /\ fpool.acquired_count \in Nat
         /\ flent # {} => fpool.arenas
  <1>1. Fixed!TypeOK /\ FixedFacts
    BY DEF FixedInv
  <1>2. /\ fpool.arena_count \in 0..FIXED_UINT16_MAX /\ fpool.acquired_count \in Nat
        /\ flent \subseteq Fixed!Slots
    BY <1>1, SlotFacts DEF Fixed!TypeOK
  <1>3. IsFiniteSet(flent)
    BY <1>2, SlotFacts, FS_Subset
  <1>4. 0..(fpool.arena_count - 1) \subseteq Fixed!Slots
    BY <1>2, SlotFacts
  <1>5. Cardinality(flent) = 0 <=> flent = {}
    BY <1>3, FS_EmptySet
  <1>6. flent # {} => fpool.arenas
    <2>1. ~fpool.arenas => fpool.arena_count = 0
      BY <1>1 DEF FixedFacts, Fixed!EmptyPool
    <2>2. ~fpool.arenas => flent \subseteq 0..(0 - 1)
      BY <1>1, <2>1 DEF FixedFacts
    <2> QED BY <2>2
  <1> QED BY <1>1, <1>2, <1>3, <1>4, <1>5, <1>6 DEF FixedFacts

\* Nothing is lent while a pool without a block is zeroed.
LEMMA FixedStarts == Fixed!Init => FixedInv
  <1> SUFFICES ASSUME Fixed!Init PROVE FixedInv
    OBVIOUS
  <1>1. /\ fpool = Fixed!EmptyPool /\ fblock = 0 /\ flent = {} /\ fresult = Fixed!SUCCESS
        /\ fused = [i \in Fixed!Slots |-> 0] /\ flink = [i \in Fixed!Slots |-> NULL]
    BY DEF Fixed!Init
  <1>2. Fixed!TypeOK
    <2>1. /\ 0 \in 0..Fixed!ARNM_MAX_ALLOC_SIZE /\ 0 \in 0..FIXED_UINT16_MAX
          /\ 0 \in 0..FIXED_UINT32_MAX
      BY SlotFacts
    <2> QED BY <1>1, <2>1 DEF Fixed!TypeOK, Fixed!EmptyPool, Fixed!Results
  <1>3. FixedShelf(<<>>)
    <2>1. Chain(Fixed!Slots, <<>>, NULL, flink)
      BY SlotFacts, ChainEmpty
    <2>2. Range(<<>>) = {}
      BY DEF Range
    <2>3. 0..(0 - 1) = {}
      OBVIOUS
    <2> QED BY <1>1, <2>1, <2>2, <2>3 DEF FixedShelf, Fixed!EmptyPool
  <1>4. FixedFacts
    <2>1. Cardinality({}) = 0
      BY FS_EmptySet
    <2> QED BY <1>1, <2>1 DEF FixedFacts, Fixed!EmptyPool
  <1>5. <<>> \in Seq(Fixed!Slots)
    OBVIOUS
  <1> QED BY <1>2, <1>3, <1>4, <1>5 DEF FixedInv

\* A step that changes the result alone.
LEMMA FixedStill ==
  ASSUME FixedInv, UNCHANGED Fixed!poolVars,
         fresult' \in Fixed!Results \cup {Fixed!NOT_INITIALIZED, Fixed!IN_USE}
  PROVE  FixedInv'
  <1>1. fpool' = fpool /\ fblock' = fblock /\ fused' = fused /\ flink' = flink /\ flent' = flent
    BY DEF Fixed!poolVars
  <1>2. Fixed!TypeOK' /\ FixedFacts'
    BY <1>1, FixedKnows DEF Fixed!TypeOK, FixedFacts
  <1>3. PICK s \in Seq(Fixed!Slots) : FixedShelf(s)
    BY DEF FixedInv
  <1>4. FixedShelf(s)'
    BY <1>1, <1>3 DEF FixedShelf
  <1> QED BY <1>2, <1>4 DEF FixedInv

\* Init strings the slots from the first to the last.
LEMMA FixedStrung ==
  ASSUME NEW c \in 1..FIXED_UINT16_MAX, flink' = Fixed!strung(c)
  PROVE  \E s \in Seq(Fixed!Slots) : Chain(Fixed!Slots, s, 0, flink') /\ Range(s) = 0..(c - 1)
  <1> DEFINE s == [i \in 1..c |-> i - 1]
  <1>1. c \in Nat \ {0} /\ 1 \in 1..c
    BY SlotFacts
  <1>2. \A i \in 1..c : i - 1 \in Fixed!Slots /\ i - 1 \in 0..(c - 1)
    BY <1>1, SlotFacts
  <1>3. s \in Seq(Fixed!Slots) /\ Len(s) = c /\ DOMAIN s = 1..c
    BY <1>1, <1>2
  <1>4. Range(s) = 0..(c - 1)
    <2>1. \A j \in 0..(c - 1) : j + 1 \in 1..c /\ (j + 1) - 1 = j
      BY <1>1
    <2> QED BY <1>2, <1>3, <2>1 DEF Range
  <1>5. IsInjective(s)
    BY <1>3 DEF IsInjective
  <1>6. \A i \in 1..c : s[i] = i - 1
    OBVIOUS
  <1> HIDE DEF s
  <1>7. 0 = Nth(s, 1)
    BY <1>1, <1>3, <1>6 DEF Nth
  <1>8. ASSUME NEW i \in 1..Len(s) PROVE flink'[s[i]] = Nth(s, i + 1)
    <2>1. i \in 1..c /\ s[i] = i - 1 /\ i - 1 \in Fixed!Slots /\ (i - 1) + 1 = i
      BY <1>2, <1>3, <1>6
    <2>2. flink'[i - 1] = IF i < c THEN i ELSE IF i - 1 < c THEN NULL ELSE flink[i - 1]
      BY <2>1 DEF Fixed!strung
    <2>3. CASE i < c
      <3>1. i + 1 \in 1..c /\ (i + 1) - 1 = i
        BY <1>1, <2>1, <2>3
      <3> QED BY <1>3, <1>6, <2>1, <2>2, <2>3, <3>1 DEF Nth
    <2>4. CASE ~(i < c)
      <3>1. i + 1 \notin 1..c /\ i - 1 < c
        BY <1>1, <2>1, <2>4
      <3> QED BY <1>3, <2>1, <2>2, <2>4, <3>1 DEF Nth
    <2> QED BY <2>3, <2>4
  <1> QED BY <1>3, <1>4, <1>5, <1>7, <1>8, SlotFacts DEF Chain

\* Rounding keeps a capacity within what is ever asked of the source.
LEMMA FixedAligned ==
  ASSUME NEW size \in 0..FIXED_UINT32_MAX
  PROVE  Fixed!arnm_align8_u32(size) \in 0..Fixed!ARNM_MAX_ALLOC_SIZE
  <1>1. FIXED_UINT32_MAX \in Nat /\ (FIXED_UINT32_MAX + 1) % 8 = 0 /\ FIXED_UINT32_MAX > 8
    BY PoolsAssumption
  <1>2. CASE size > Fixed!ARNM_MAX_ALLOC_SIZE
    BY <1>1, <1>2 DEF Fixed!arnm_align8_u32, Fixed!ARNM_MAX_ALLOC_SIZE
  <1>3. CASE ~(size > Fixed!ARNM_MAX_ALLOC_SIZE)
    <2>1. ((size + 7) \div 8) * 8 \in 0..(FIXED_UINT32_MAX - 7)
      BY <1>1, <1>3 DEF Fixed!ARNM_MAX_ALLOC_SIZE
    <2> QED BY <1>3, <2>1 DEF Fixed!arnm_align8_u32, Fixed!ARNM_MAX_ALLOC_SIZE
  <1> QED BY <1>2, <1>3

\* Init: one block, every slot on the list, nothing out.
LEMMA FixedInitStep ==
  ASSUME FixedInv, NEW ask \in FixedCapacities, NEW c \in 0..FIXED_UINT16_MAX,
         Fixed!arnm_fixed_arena_pool_init(ask, c)
  PROVE  FixedInv'
  <1> DEFINE k == Fixed!arnm_align8_u32(ask)
  <1>1. CASE \E r \in Fixed!Results : Fixed!Refuse(r)
    BY <1>1, FixedStill DEF Fixed!Refuse
  <1>2. CASE /\ c # 0 /\ k # 0 /\ Fixed!total_fits(c, k)
             /\ fblock' = Fixed!calculate_total_reserved_memory_size(c, k)
             /\ fpool' = [arenas |-> TRUE, free_head |-> 0, arena_capacity |-> k,
                         arena_count |-> c, acquired_count |-> 0]
             /\ fused' = [i \in Fixed!Slots |-> 0]
             /\ flink' = Fixed!strung(c)
             /\ fresult' = Fixed!SUCCESS
             /\ UNCHANGED flent
    <2>1. k \in 0..Fixed!ARNM_MAX_ALLOC_SIZE /\ c \in 1..FIXED_UINT16_MAX /\ k \in Nat
      <3>1. ask \in 0..FIXED_UINT32_MAX
        BY SlotFacts
      <3> QED BY <1>2, <3>1, SlotFacts, FixedAligned
    <2> HIDE DEF k
    <2>2. flent = {} /\ flent' = {}
      <3>1. ~fpool.arenas
        BY DEF Fixed!arnm_fixed_arena_pool_init
      <3> QED BY <1>2, <3>1, FixedKnows
    <2>3. fblock' = Fixed!block_bytes(c, k)
      BY <1>2, <2>1, FixedFits
    <2>4. Fixed!TypeOK'
      <3>1. 0 \in Fixed!Slots /\ 0 \in 0..FIXED_UINT16_MAX /\ 0 \in 0..FIXED_UINT32_MAX
        BY SlotFacts
      <3>2. fpool' \in [arenas : BOOLEAN, free_head : Fixed!Slots \cup {NULL},
                       arena_capacity : 0..Fixed!ARNM_MAX_ALLOC_SIZE,
                       arena_count : 0..FIXED_UINT16_MAX,
                       acquired_count : 0..FIXED_UINT16_MAX]
        BY <1>2, <2>1, <3>1
      <3>3. flink' \in [Fixed!Slots -> Fixed!Slots \cup {NULL, JUNK}]
        <4>1. flink \in [Fixed!Slots -> Fixed!Slots \cup {NULL, JUNK}]
          BY FixedKnows DEF Fixed!TypeOK
        <4>2. \A i \in Fixed!Slots : i + 1 < c => i + 1 \in Fixed!Slots
          BY <2>1, SlotFacts
        <4> QED BY <1>2, <4>1, <4>2 DEF Fixed!strung
      <3> QED BY <1>2, <2>2, <3>1, <3>2, <3>3 DEF Fixed!TypeOK, Fixed!Results
    <2>5. \E s \in Seq(Fixed!Slots) : FixedShelf(s)'
      <3>1. PICK s \in Seq(Fixed!Slots) : Chain(Fixed!Slots, s, 0, flink') /\ Range(s) = 0..(c - 1)
        BY <1>2, <2>1, FixedStrung
      <3>2. fpool'.free_head = 0 /\ fpool'.arena_count = c
        BY <1>2
      <3>3. FixedShelf(s)'
        BY <2>2, <3>1, <3>2 DEF FixedShelf
      <3> QED BY <3>3
    <2>6. FixedFacts'
      <3>1. /\ fpool'.arenas /\ fpool'.arena_count = c /\ fpool'.arena_capacity = k
            /\ fpool'.acquired_count = 0
        BY <1>2
      <3>2. Cardinality({}) = 0
        BY FS_EmptySet
      <3>3. \A i \in Fixed!Slots : fused'[i] = 0
        BY <1>2
      <3> QED BY <1>2, <2>2, <2>3, <3>1, <3>2, <3>3 DEF FixedFacts
    <2> QED BY <2>4, <2>5, <2>6 DEF FixedInv
  <1>3. \/ \E r \in Fixed!Results : Fixed!Refuse(r)
        \/ /\ c # 0 /\ k # 0 /\ Fixed!total_fits(c, k)
           /\ fblock' = Fixed!calculate_total_reserved_memory_size(c, k)
           /\ fpool' = [arenas |-> TRUE, free_head |-> 0, arena_capacity |-> k,
                       arena_count |-> c, acquired_count |-> 0]
           /\ fused' = [i \in Fixed!Slots |-> 0]
           /\ flink' = Fixed!strung(c)
           /\ fresult' = Fixed!SUCCESS
           /\ UNCHANGED flent
    <2>1. /\ Fixed!INVALID_PARAM \in Fixed!Results /\ Fixed!OVERFLOW \in Fixed!Results
          /\ Fixed!OUT_OF_MEMORY \in Fixed!Results
      BY DEF Fixed!Results
    <2> QED BY <2>1 DEF Fixed!arnm_fixed_arena_pool_init
  <1> QED BY <1>1, <1>2, <1>3, Zenon

\* Release and destroy: the block goes under the size it was asked with.
LEMMA FixedReleased ==
  ASSUME FixedInv, Fixed!nothing_out, Fixed!released,
         fresult' \in Fixed!Results \cup {Fixed!NOT_INITIALIZED, Fixed!IN_USE}
  PROVE  FixedInv'
  <1>1. fpool' = Fixed!EmptyPool /\ fused' = fused /\ flink' = flink /\ flent' = flent
    BY DEF Fixed!released
  <1>2. Fixed!TypeOK /\ FixedFacts /\ flent = {}
    BY FixedKnows DEF Fixed!nothing_out
  <1>3. fblock' = 0
    <2>1. CASE fpool.arenas
      <3>1. /\ fpool.arena_count \in 1..FIXED_UINT16_MAX /\ fpool.arena_capacity \in Nat
            /\ Fixed!total_fits(fpool.arena_count, fpool.arena_capacity)
            /\ fblock = Fixed!block_bytes(fpool.arena_count, fpool.arena_capacity)
        BY <1>2, <2>1, SlotFacts DEF FixedFacts, Fixed!TypeOK
      <3>2. /\ Fixed!block_bytes(fpool.arena_count, fpool.arena_capacity) \in Nat
            /\ Fixed!calculate_total_reserved_memory_size(fpool.arena_count, fpool.arena_capacity)
                 = Fixed!block_bytes(fpool.arena_count, fpool.arena_capacity)
        BY <3>1, FixedFits
      <3>3. fblock' = fblock - fblock
        BY <2>1, <3>1, <3>2 DEF Fixed!released
      <3> QED BY <3>1, <3>2, <3>3
    <2>2. CASE ~fpool.arenas
      BY <1>2, <2>2 DEF Fixed!released, FixedFacts
    <2> QED BY <2>1, <2>2
  <1>4. Fixed!TypeOK'
    <2>1. 0 \in 0..Fixed!ARNM_MAX_ALLOC_SIZE /\ 0 \in 0..FIXED_UINT16_MAX
      BY SlotFacts
    <2> QED BY <1>1, <1>2, <2>1 DEF Fixed!TypeOK, Fixed!EmptyPool
  <1>5. FixedShelf(<<>>)'
    <2>1. Chain(Fixed!Slots, <<>>, NULL, flink')
      BY SlotFacts, ChainEmpty
    <2>2. Range(<<>>) = {} /\ 0..(0 - 1) = {}
      BY DEF Range
    <2>3. fpool'.free_head = NULL /\ fpool'.arena_count = 0 /\ flent' = {}
      BY <1>1, <1>2 DEF Fixed!EmptyPool
    <2> QED BY <2>1, <2>2, <2>3 DEF FixedShelf
  <1>6. FixedFacts'
    <2>1. Cardinality({}) = 0
      BY FS_EmptySet
    <2>2. /\ fpool'.arena_count = 0 /\ flent' = {} /\ ~fpool'.arenas /\ fpool'.acquired_count = 0
          /\ fpool' = Fixed!EmptyPool
      BY <1>1, <1>2 DEF Fixed!EmptyPool
    <2>3. \A i \in Fixed!Slots : ~(i < 0)
      BY SlotFacts
    <2> QED BY <1>3, <2>1, <2>2, <2>3 DEF FixedFacts
  <1>7. <<>> \in Seq(Fixed!Slots)
    OBVIOUS
  <1> QED BY <1>4, <1>5, <1>6, <1>7 DEF FixedInv

\* Alloc: the head of the list is lent.
LEMMA FixedAllocStep ==
  ASSUME FixedInv, Fixed!arnm_fixed_arena_pool_alloc
  PROVE  FixedInv'
  <1> DEFINE a == fpool.free_head
  <1>1. CASE \E r \in Fixed!Results \cup {Fixed!NOT_INITIALIZED, Fixed!IN_USE} : Fixed!Refuse(r)
    BY <1>1, FixedStill DEF Fixed!Refuse
  <1>2. CASE /\ fpool.arenas /\ a # NULL
             /\ flent' = flent \cup {a}
             /\ fpool' = [fpool EXCEPT !.free_head = flink[@], !.acquired_count = @ + 1]
             /\ fresult' = Fixed!SUCCESS
             /\ UNCHANGED <<fblock, fused, flink>>
    <2>1. PICK s \in Seq(Fixed!Slots) : FixedShelf(s)
      BY DEF FixedInv
    <2>2. /\ Chain(Fixed!Slots, s, a, flink) /\ Range(s) = (0..(fpool.arena_count - 1)) \ flent
          /\ Fixed!TypeOK /\ FixedFacts
      BY <2>1, FixedKnows DEF FixedShelf
    <2>3. s # <<>> /\ a = Head(s) /\ a \in Range(s) /\ IsInjective(s) /\ s \in Seq(Fixed!Slots)
      BY <1>2, <2>2, ChainHead
    <2>4. /\ Chain(Fixed!Slots, Tail(s), flink[a], flink) /\ Tail(s) \in Seq(Fixed!Slots)
          /\ Range(Tail(s)) = Range(s) \ {a}
      BY <2>2, <2>3, ChainPop, TailLemma
    <2>5. a \in 0..(fpool.arena_count - 1) /\ a \notin flent /\ a \in Fixed!Slots
      BY <2>2, <2>3, FixedKnows
    <2> HIDE DEF a
    <2>6. /\ fpool'.arenas = fpool.arenas /\ fpool'.arena_count = fpool.arena_count
          /\ fpool'.arena_capacity = fpool.arena_capacity
          /\ fpool'.free_head = flink[a] /\ fpool'.acquired_count = fpool.acquired_count + 1
          /\ fblock' = fblock /\ fused' = fused /\ flink' = flink
      BY <1>2, <2>2 DEF Fixed!TypeOK, a
    <2>7. /\ flent' \subseteq 0..(fpool.arena_count - 1) /\ flent' \subseteq Fixed!Slots
          /\ Cardinality(flent') = Cardinality(flent) + 1
          /\ Cardinality(flent') \in 0..FIXED_UINT16_MAX
      <3>1. flent' \subseteq 0..(fpool.arena_count - 1) /\ flent' \subseteq Fixed!Slots
        BY <1>2, <2>5, FixedKnows
      <3>2. Cardinality(flent') = Cardinality(flent) + 1
        BY <1>2, <2>5, FixedKnows, FS_AddElement
      <3>3. Cardinality(flent') <= FIXED_UINT16_MAX
        BY <3>1, SlotFacts, FS_Subset
      <3>4. Cardinality(flent) \in Nat
        BY FixedKnows
      <3> QED BY <3>1, <3>2, <3>3, <3>4, SlotFacts
    <2>8. Fixed!TypeOK'
      <3>1. flink[a] \in Fixed!Slots \cup {NULL}
        BY <2>4 DEF Chain, Nth
      <3>2. fpool' \in [arenas : BOOLEAN, free_head : Fixed!Slots \cup {NULL},
                       arena_capacity : 0..Fixed!ARNM_MAX_ALLOC_SIZE,
                       arena_count : 0..FIXED_UINT16_MAX,
                       acquired_count : 0..FIXED_UINT16_MAX]
        <4>1. fpool.acquired_count + 1 \in 0..FIXED_UINT16_MAX
          BY <2>7, FixedKnows
        <4>2. fpool' = [fpool EXCEPT !.free_head = flink[a],
                                   !.acquired_count = fpool.acquired_count + 1]
          BY <1>2 DEF a
        <4> QED BY <2>2, <3>1, <4>1, <4>2 DEF Fixed!TypeOK
      <3> QED BY <1>2, <2>2, <2>7, <3>2 DEF Fixed!TypeOK, Fixed!Results
    <2>9. FixedShelf(Tail(s))'
      BY <1>2, <2>2, <2>4, <2>6 DEF FixedShelf
    <2>10. FixedFacts'
      <3>1. fpool'.arenas
        BY <1>2, <2>6
      <3>2. fpool'.acquired_count = Cardinality(flent')
        BY <2>6, <2>7, FixedKnows
      <3>3. \A i \in Fixed!Slots : i < fpool.arena_count /\ i \notin flent' => fused[i] = 0
        BY <1>2, <2>2 DEF FixedFacts
      <3>4. /\ fblock = Fixed!block_bytes(fpool.arena_count, fpool.arena_capacity)
            /\ fpool.arena_count # 0 /\ Fixed!total_fits(fpool.arena_count, fpool.arena_capacity)
        BY <1>2, <2>2 DEF FixedFacts
      <3> QED BY <2>6, <2>7, <3>1, <3>2, <3>3, <3>4 DEF FixedFacts
    <2> QED BY <2>4, <2>8, <2>9, <2>10 DEF FixedInv
  <1> QED BY <1>1, <1>2 DEF Fixed!arnm_fixed_arena_pool_alloc, Fixed!Results

\* Free: an address that is a descriptor's front names its slot.
LEMMA BelongsIsArena ==
  ASSUME FixedInv, NEW address \in FixedAddresses, Fixed!belongs_to(address)
  PROVE  /\ Fixed!is_arena(address)
         /\ address \div ARNM_BYTES \in 0..(fpool.arena_count - 1)
  <1> DEFINE B == ARNM_BYTES
             c == fpool.arena_count
             q == address \div B
  <1>1. B \in Nat \ {0} /\ c \in Nat
    BY SlotFacts, FixedKnows
  <1>2. address \in 0..(c * B - 1) /\ address % B = 0
    BY DEF Fixed!belongs_to, Fixed!buffers_offset
  <1> HIDE DEF B, c
  <1>3. c * B \in Nat /\ address \in Nat /\ address < c * B
    BY <1>1, <1>2
  <1>4. q \in Nat /\ address = B * q
    <2>1. address = B * (address \div B) + (address % B)
      BY <1>1, <1>3
    <2>2. address \div B \in Nat
      BY <1>1, <1>3
    <2> QED BY <1>1, <1>2, <2>1, <2>2
  <1> HIDE DEF q
  <1>5. q < c
    <2>1. SUFFICES ASSUME q >= c PROVE FALSE
      BY <1>1, <1>4
    <2>2. PICK e \in Nat : q = c + e
      <3>1. q - c \in Nat /\ q = c + (q - c)
        BY <1>1, <1>4, <2>1
      <3> QED BY <3>1
    <2>3. B * q = c * B + B * e /\ B * e \in Nat
      BY <1>1, <2>2
    <2> QED BY <1>3, <1>4, <2>3
  <1>6. q \in 0..(c - 1)
    BY <1>1, <1>4, <1>5
  <1> QED BY <1>4, <1>6 DEF Fixed!is_arena, q, B, c

\* Free: the slot of a descriptor that is out goes in front of the list, empty.
LEMMA FixedFreeStep ==
  ASSUME FixedInv, NEW address \in FixedAddresses, Fixed!arnm_fixed_arena_pool_free(address)
  PROVE  FixedInv'
  <1> DEFINE a == address \div ARNM_BYTES
  <1>1. CASE \E r \in Fixed!Results \cup {Fixed!NOT_INITIALIZED, Fixed!IN_USE} : Fixed!Refuse(r)
    BY <1>1, FixedStill DEF Fixed!Refuse
  <1>2. CASE /\ fpool.arenas /\ Fixed!belongs_to(address) /\ fpool.acquired_count # 0
             /\ Fixed!is_arena(address) => a \in flent
             /\ fused' = Fixed!reset_on_return(a)
             /\ flink' = [flink EXCEPT ![a] = fpool.free_head]
             /\ fpool' = [fpool EXCEPT !.free_head = a, !.acquired_count = @ - 1]
             /\ flent' = flent \ {a}
             /\ fresult' = Fixed!SUCCESS
             /\ UNCHANGED fblock
    <2>1. a \in flent /\ a \in 0..(fpool.arena_count - 1) /\ a \in Fixed!Slots
      BY <1>2, BelongsIsArena, FixedKnows
    <2> HIDE DEF a
    <2>2. PICK s \in Seq(Fixed!Slots) : FixedShelf(s)
      BY DEF FixedInv
    <2>3. /\ Chain(Fixed!Slots, s, fpool.free_head, flink)
          /\ Range(s) = (0..(fpool.arena_count - 1)) \ flent
          /\ Fixed!TypeOK /\ FixedFacts
      BY <2>2, FixedKnows DEF FixedShelf
    <2>4. /\ fpool'.arenas = fpool.arenas /\ fpool'.arena_count = fpool.arena_count
          /\ fpool'.arena_capacity = fpool.arena_capacity
          /\ fpool'.free_head = a /\ fpool'.acquired_count = fpool.acquired_count - 1
      BY <1>2, <2>3 DEF Fixed!TypeOK
    <2>5. Threaded(Fixed!Slots, a, flink', Len(s) + 1, Range(s) \cup {a})
      <3>1. a \in Fixed!Slots \ Range(s)
        BY <2>1, <2>3
      <3>2. flink'[a] = fpool.free_head /\ \A b \in Range(s) : flink'[b] = flink[b]
        <4>1. Range(s) \subseteq Fixed!Slots
          BY <2>3, ChainHead
        <4> QED BY <1>2, <2>1, <2>3, <3>1, <4>1 DEF Fixed!TypeOK
      <3> QED BY <2>3, <3>1, <3>2, ChainPush
    <2>6. PICK t \in Seq(Fixed!Slots) :
            Chain(Fixed!Slots, t, a, flink') /\ Range(t) = Range(s) \cup {a}
      BY <2>5 DEF Threaded
    <2>7. Cardinality(flent') = Cardinality(flent) - 1 /\ Cardinality(flent) \in 1..FIXED_UINT16_MAX
      <3>1. Cardinality(flent') = Cardinality(flent) - 1
        BY <1>2, <2>1, FixedKnows, FS_RemoveElement
      <3>2. flent # {} /\ Cardinality(flent) # 0 /\ Cardinality(flent) \in Nat
        BY <2>1, FixedKnows
      <3>3. Cardinality(flent) \in 0..FIXED_UINT16_MAX
        BY <2>3, FixedKnows DEF Fixed!TypeOK
      <3> QED BY <3>1, <3>2, <3>3
    <2>8. Fixed!TypeOK'
      <3>1. fpool' \in [arenas : BOOLEAN, free_head : Fixed!Slots \cup {NULL},
                       arena_capacity : 0..Fixed!ARNM_MAX_ALLOC_SIZE,
                       arena_count : 0..FIXED_UINT16_MAX,
                       acquired_count : 0..FIXED_UINT16_MAX]
        <4>1. fpool.acquired_count - 1 \in 0..FIXED_UINT16_MAX
          BY <2>7, FixedKnows, SlotFacts
        <4>2. fpool' = [fpool EXCEPT !.free_head = a,
                                   !.acquired_count = fpool.acquired_count - 1]
          BY <1>2
        <4> QED BY <2>1, <2>3, <4>1, <4>2 DEF Fixed!TypeOK
      <3>2. fused' \in [Fixed!Slots -> 0..FIXED_UINT32_MAX]
        <4>1. 0 \in 0..FIXED_UINT32_MAX
          BY SlotFacts
        <4> QED BY <1>2, <2>3, <4>1 DEF Fixed!TypeOK, Fixed!reset_on_return
      <3>3. flink' \in [Fixed!Slots -> Fixed!Slots \cup {NULL, JUNK}]
        BY <1>2, <2>3 DEF Fixed!TypeOK
      <3> QED BY <1>2, <2>3, <3>1, <3>2, <3>3 DEF Fixed!TypeOK, Fixed!Results
    <2>9. FixedShelf(t)'
      <3>1. Range(t) = (0..(fpool'.arena_count - 1)) \ flent'
        BY <1>2, <2>1, <2>3, <2>4, <2>6
      <3> QED BY <2>4, <2>6, <3>1 DEF FixedShelf
    <2>10. FixedFacts'
      <3>1. fpool'.arenas
        BY <1>2, <2>4
      <3>2. fpool'.acquired_count = Cardinality(flent')
        BY <2>4, <2>7, FixedKnows
      <3>3. ASSUME NEW i \in Fixed!Slots, i < fpool.arena_count, i \notin flent' PROVE fused'[i] = 0
        <4>1. CASE i = a
          BY <1>2, <2>1, <2>3, <4>1 DEF Fixed!TypeOK, Fixed!reset_on_return
        <4>2. CASE i # a
          BY <1>2, <2>3, <3>3, <4>2 DEF Fixed!TypeOK, Fixed!reset_on_return, FixedFacts
        <4> QED BY <4>1, <4>2
      <3>4. /\ fblock' = Fixed!block_bytes(fpool.arena_count, fpool.arena_capacity)
            /\ fpool.arena_count # 0 /\ Fixed!total_fits(fpool.arena_count, fpool.arena_capacity)
        BY <1>2, <2>3 DEF FixedFacts
      <3>5. flent' \subseteq 0..(fpool.arena_count - 1)
        BY <1>2, FixedKnows
      <3> QED BY <2>4, <3>1, <3>2, <3>3, <3>4, <3>5 DEF FixedFacts
    <2> QED BY <2>6, <2>8, <2>9, <2>10 DEF FixedInv
  <1> QED BY <1>1, <1>2 DEF Fixed!arnm_fixed_arena_pool_free, Fixed!Results

\* A client at work in an arena it holds writes over no link of the list.
LEMMA FixedUseStep ==
  ASSUME FixedInv, NEW slot \in Fixed!Slots, Fixed!use_arena(slot)
  PROVE  FixedInv'
  <1>1. /\ slot \in flent /\ fused[slot] + 8 <= fpool.arena_capacity
        /\ fused' = [fused EXCEPT ![slot] = @ + 8]
        /\ flink' = [flink EXCEPT ![slot] = JUNK]
        /\ fpool' = fpool /\ fblock' = fblock /\ flent' = flent /\ fresult' = fresult
    BY DEF Fixed!use_arena
  <1>2. PICK s \in Seq(Fixed!Slots) : FixedShelf(s)
    BY DEF FixedInv
  <1>3. /\ Chain(Fixed!Slots, s, fpool.free_head, flink)
        /\ Range(s) = (0..(fpool.arena_count - 1)) \ flent
        /\ Fixed!TypeOK /\ FixedFacts
    BY <1>2, FixedKnows DEF FixedShelf
  <1>4. Fixed!TypeOK'
    <2>1. fused[slot] + 8 \in 0..FIXED_UINT32_MAX
      <3>1. /\ fused[slot] \in 0..FIXED_UINT32_MAX
            /\ fpool.arena_capacity \in 0..Fixed!ARNM_MAX_ALLOC_SIZE
        BY <1>3 DEF Fixed!TypeOK
      <3> QED BY <1>1, <3>1, SlotFacts DEF Fixed!ARNM_MAX_ALLOC_SIZE
    <2>2. /\ fused' \in [Fixed!Slots -> 0..FIXED_UINT32_MAX]
          /\ flink' \in [Fixed!Slots -> Fixed!Slots \cup {NULL, JUNK}]
      BY <1>1, <1>3, <2>1 DEF Fixed!TypeOK
    <2> QED BY <1>1, <1>3, <2>2 DEF Fixed!TypeOK
  <1>5. FixedShelf(s)'
    <2>1. \A b \in Range(s) : flink'[b] = flink[b]
      <3>1. Range(s) \subseteq Fixed!Slots
        BY <1>3, ChainHead
      <3> QED BY <1>1, <1>3, <3>1 DEF Fixed!TypeOK
    <2>2. Chain(Fixed!Slots, s, fpool.free_head, flink')
      BY <1>3, <2>1, ChainKept
    <2> QED BY <1>1, <1>3, <2>2 DEF FixedShelf
  <1>6. FixedFacts'
    <2>1. \A i \in Fixed!Slots : i < fpool.arena_count /\ i \notin flent => fused'[i] = 0
      BY <1>1, <1>3 DEF Fixed!TypeOK, FixedFacts
    <2> QED BY <1>1, <1>3, <2>1 DEF FixedFacts
  <1> QED BY <1>4, <1>5, <1>6 DEF FixedInv

\* Every operation keeps the invariant.
LEMMA FixedNextStep ==
  ASSUME FixedInv, [Fixed!Next]_Fixed!vars
  PROVE  FixedInv'
  <1>1. CASE UNCHANGED Fixed!vars
    <2>1. /\ fresult' \in Fixed!Results \cup {Fixed!NOT_INITIALIZED, Fixed!IN_USE}
          /\ UNCHANGED Fixed!poolVars
      BY <1>1, FixedKnows DEF Fixed!vars, Fixed!poolVars, Fixed!TypeOK
    <2> QED BY <2>1, FixedStill
  <1>2. CASE \E c \in FixedCapacities, n \in 0..FIXED_UINT16_MAX :
               Fixed!arnm_fixed_arena_pool_init(c, n)
    BY <1>2, FixedInitStep
  <1>3. CASE Fixed!arnm_fixed_arena_pool_release
    <2>1. Fixed!SUCCESS \in Fixed!Results /\ Fixed!NOT_RECLAIMED \in Fixed!Results
      BY DEF Fixed!Results
    <2> QED BY <1>3, <2>1, FixedStill, FixedReleased
            DEF Fixed!arnm_fixed_arena_pool_release, Fixed!Refuse
  <1>4. CASE Fixed!arnm_fixed_arena_pool_destroy
    <2>1. Fixed!SUCCESS \in Fixed!Results /\ Fixed!NOT_RECLAIMED \in Fixed!Results
      BY DEF Fixed!Results
    <2> QED BY <1>4, <2>1, FixedStill, FixedReleased
            DEF Fixed!arnm_fixed_arena_pool_destroy, Fixed!Refuse
  <1>5. CASE Fixed!arnm_fixed_arena_pool_alloc
    BY <1>5, FixedAllocStep
  <1>6. CASE \E address \in FixedAddresses : Fixed!arnm_fixed_arena_pool_free(address)
    BY <1>6, FixedFreeStep
  <1>7. CASE \E slot \in Fixed!Slots : Fixed!use_arena(slot)
    BY <1>7, FixedUseStep
  <1> QED BY <1>1, <1>2, <1>3, <1>4, <1>5, <1>6, <1>7 DEF Fixed!Next

\* The module of the fixed pool counts as this one does.
LEMMA FixedCounts == \A S : Fixed!Cardinality(S) = Cardinality(S)
  BY Zenon DEF Fixed!Cardinality, Cardinality

\* The invariant is more than what the run checks.
LEMMA FixedInvHolds ==
  ASSUME FixedInv
  PROVE  Fixed!BlockHoldsArenas
  <1>1. PICK s \in Seq(Fixed!Slots) : FixedShelf(s)
    BY DEF FixedInv
  <1> DEFINE n == Len(s)
             c == fpool.arena_count
             at == Walk(Fixed!Slots, fpool.free_head, flink, FIXED_UINT16_MAX)
  <1>2. /\ Chain(Fixed!Slots, s, fpool.free_head, flink) /\ Range(s) = (0..(c - 1)) \ flent
        /\ s \in Seq(Fixed!Slots) /\ DOMAIN s = 1..n /\ n \in Nat
    BY <1>1 DEF FixedShelf
  <1>3. Fixed!walked = at
    BY DEF Fixed!walked, Walk
  <1>4. Cardinality(Range(s)) = n /\ n <= FIXED_UINT16_MAX /\ FIXED_UINT16_MAX \in Nat
    BY <1>2, SlotFacts, ListCounts
  <1>5. \A i \in 0..FIXED_UINT16_MAX : at[i] = Nth(s, i + 1)
    BY <1>2, <1>4, ListWalked
  <1> HIDE DEF at, n
  <1>6. n = c - fpool.acquired_count
    <2>1. /\ IsFiniteSet(0..(c - 1)) /\ Cardinality(0..(c - 1)) = c /\ c \in Nat
      <3>1. c \in Nat
        BY FixedKnows
      <3>2. /\ IsFiniteSet(0..(c - 1))
            /\ Cardinality(0..(c - 1)) = IF 0 > c - 1 THEN 0 ELSE (c - 1) - 0 + 1
        BY <3>1, FS_Interval, 0 \in Int, c - 1 \in Int
      <3> QED BY <3>1, <3>2
    <2>2. (0..(c - 1)) \cap flent = flent
      BY FixedKnows
    <2>3. Cardinality((0..(c - 1)) \ flent) = c - Cardinality(flent)
      <3> DEFINE D == 0..(c - 1)
      <3>1. IsFiniteSet(D) /\ Cardinality(D) = c /\ D \cap flent = flent
        BY <2>1, <2>2
      <3> HIDE DEF D
      <3>2. Cardinality(D \ flent) = Cardinality(D) - Cardinality(D \cap flent)
        BY <3>1, FixedKnows, FS_Difference
      <3> QED BY <3>1, <3>2 DEF D
    <2> QED BY <1>2, <1>4, <2>3, FixedKnows
  <1>7. Fixed!walked[n] = NULL /\ n \in 0..FIXED_UINT16_MAX
    <2>1. n \in 0..FIXED_UINT16_MAX /\ n + 1 \notin 1..n
      BY <1>2, <1>4
    <2> QED BY <1>3, <1>5, <2>1 DEF Nth, n
  <1>8. {Fixed!walked[i] : i \in 0..(n - 1)} = (0..(c - 1)) \ flent
    <2>1. \A i \in 0..(n - 1) : Fixed!walked[i] = s[i + 1] /\ i + 1 \in 1..n
      <3> SUFFICES ASSUME NEW i \in 0..(n - 1) PROVE Fixed!walked[i] = s[i + 1] /\ i + 1 \in 1..n
        OBVIOUS
      <3>1. i \in 0..FIXED_UINT16_MAX /\ i + 1 \in 1..n
        BY <1>2, <1>4
      <3> QED BY <1>3, <1>5, <3>1 DEF Nth, n
    <2>2. \A j \in 1..n : j - 1 \in 0..(n - 1) /\ (j - 1) + 1 = j
      BY <1>2
    <2>3. Range(s) = {s[j] : j \in 1..n}
      BY <1>2 DEF Range
    <2>4. ASSUME NEW x \in Range(s) PROVE x \in {Fixed!walked[i] : i \in 0..(n - 1)}
      <3>1. PICK j \in 1..n : x = s[j]
        BY <2>3
      <3>2. j - 1 \in 0..(n - 1) /\ Fixed!walked[j - 1] = s[(j - 1) + 1]
        BY <2>1, <2>2
      <3> QED BY <2>2, <3>1, <3>2
    <2>5. ASSUME NEW i \in 0..(n - 1) PROVE Fixed!walked[i] \in Range(s)
      BY <2>1, <2>3
    <2> QED BY <1>2, <2>4, <2>5
  <1>9. Fixed!FreeListIsRest
    <2>1. \A i \in Fixed!Slots : i < fpool.arena_count /\ i \notin flent => fused[i] = 0
      BY FixedKnows DEF FixedFacts
    <2> QED BY <1>6, <1>7, <1>8, <2>1, FixedKnows, FixedCounts DEF Fixed!FreeListIsRest
  <1>10. flent # {} => fblock # 0
    <2>1. SUFFICES ASSUME flent # {} PROVE fblock # 0
      OBVIOUS
    <2>2. /\ fpool.arenas /\ c \in 1..FIXED_UINT16_MAX /\ fpool.arena_capacity \in Nat
          /\ Fixed!total_fits(c, fpool.arena_capacity)
          /\ fblock = Fixed!block_bytes(c, fpool.arena_capacity)
      BY <2>1, FixedKnows, SlotFacts DEF FixedFacts, Fixed!TypeOK
    <2> QED BY <2>2, FixedFits
  <1> QED BY <1>9, <1>10, FixedKnows DEF Fixed!BlockHoldsArenas, FixedFacts

\* The fixed pool alone, as a behaviour sees it.
LEMMA FixedMoves == FixedInv /\ [AnyNext]_all_vars => FixedInv'
  <1> SUFFICES ASSUME FixedInv, [AnyNext]_all_vars PROVE FixedInv'
    OBVIOUS
  <1>1. Fixed!Next \/ UNCHANGED fixedVars
    BY DEF AnyNext, GradedStep, FixedStep, BlockStep, all_vars
  <1>2. UNCHANGED fixedVars => UNCHANGED Fixed!vars
    BY DEF fixedVars, Fixed!vars
  <1> QED BY <1>1, <1>2, FixedNextStep

\* For every arena size, count and address a client brings: the free list of the
\* fixed pool and the arenas out divide its slots, no link of it is a client's to
\* write, and the one block holds every buffer although its size is computed in
\* 32 bits, and goes back under the size it was asked with.
THEOREM FixedPoolHolds == AnySpec => []FixedBlockHoldsArenas
  <1>1. AnyInit => FixedInv
    BY FixedStarts DEF AnyInit
  <1>2. FixedInv => FixedBlockHoldsArenas
    BY FixedInvHolds DEF FixedBlockHoldsArenas
  <1> QED BY <1>1, FixedMoves, <1>2, PTL DEF AnySpec

-----------------------------------------------------------------------------
(* Powers of two and sums of them.                                         *)

\* The module of the graded blocks counts as this one does.
LEMMA BlocksCount ==
  \A S : Blocks!Cardinality(S) = Cardinality(S) /\ (Blocks!IsFiniteSet(S) <=> IsFiniteSet(S))
  BY Zenon DEF Blocks!Cardinality, Cardinality, Blocks!IsFiniteSet, IsFiniteSet

\* What the code grants of the widths, the defaults and the inputs.
LEMMA GradeBounds ==
  /\ WORD \in 4..32 /\ UINT32_MAX = 2^WORD - 1 /\ Blocks!MIN_LOG2 = 3 /\ Blocks!MAX_LOG2 = WORD - 1
  /\ IsFiniteSet(Arenas) /\ NULL \notin Arenas
  /\ {DEFAULT_MIN_LOG2, DEFAULT_MAX_LOG2, DEFAULT_ALLOC_ARENA_CAPACITY} \subseteq Nat \ {0}
  /\ \A o \in BlockOptions : {o.min, o.max, o.arenas} \subseteq Nat
  /\ BlockSizes \subseteq 0..UINT32_MAX /\ BlockLogs \subseteq Nat
  BY PoolsAssumption, LadderAssumption, BlocksCount, Zenon
     DEF Blocks!BlockPoolAssumption, Blocks!MIN_LOG2, Blocks!MAX_LOG2

\* A power with a larger exponent is a multiple of one with a smaller.
LEMMA PowersDivide ==
  \A e, f \in 0..32 : e <= f => \E q \in Nat \ {0} : Pow(f) = q * Pow(e)
  <1> SUFFICES ASSUME NEW e \in 0..32, NEW f \in 0..32, e <= f
               PROVE  \E q \in Nat \ {0} : Pow(f) = q * Pow(e)
    OBVIOUS
  <1> DEFINE P == {k \in Nat : e + k <= 32 => \E q \in Nat \ {0} : Pow(e + k) = q * Pow(e)}
  <1>1. Pow(e) \in Nat
    BY PowersGrow
  <1>2. 0 \in P
    <2>1. e + 0 = e /\ Pow(e) = 1 * Pow(e)
      BY <1>1
    <2> QED BY <2>1
  <1>3. ASSUME NEW k \in P PROVE k + 1 \in P
    <2>1. k \in Nat
      BY <1>3
    <2>2. SUFFICES ASSUME e + (k + 1) <= 32
                   PROVE  \E q \in Nat \ {0} : Pow(e + (k + 1)) = q * Pow(e)
      BY <2>1
    <2>3. PICK q \in Nat \ {0} : Pow(e + k) = q * Pow(e)
      BY <1>3, <2>1, <2>2
    <2>4. e + k \in 0..31 /\ e + (k + 1) = (e + k) + 1
      BY <2>1, <2>2
    <2>5. Pow((e + k) + 1) = 2 * Pow(e + k)
      BY <2>4, PowerStep
    <2>6. Pow(e + (k + 1)) = (2 * q) * Pow(e) /\ 2 * q \in Nat \ {0}
      BY <1>1, <2>3, <2>4, <2>5
    <2> QED BY <2>6
  <1>4. P = Nat
    <2> HIDE DEF P
    <2> QED BY <1>2, <1>3, NatSetInduction, P \in SUBSET Nat DEF P
  <1>5. f - e \in P /\ e + (f - e) = f
    <2> HIDE DEF P
    <2> QED BY <1>4
  <1> QED BY <1>5

\* Powers of the exponents a word has, as numbers.
LEMMA Powers ==
  /\ \A e \in 0..32 : 2^e \in Nat \ {0}
  /\ \A e, f \in 0..32 : e <= f => 2^e <= 2^f
  /\ \A e, f \in 0..32 : e <= f => \E q \in Nat \ {0} : 2^f = q * 2^e
  <1>1. \A e \in 0..32 : Pow(e) \in Nat \ {0}
    BY PowersGrow
  <1>2. \A e, f \in 0..32 : e <= f => Pow(e) <= Pow(f)
    <2> SUFFICES ASSUME NEW e \in 0..32, NEW f \in 0..32, e <= f PROVE Pow(e) <= Pow(f)
      OBVIOUS
    <2>1. CASE e = f
      BY <1>1, <2>1
    <2>2. CASE e < f
      <3>1. Pow(e) < Pow(f)
        BY <2>2, PowersGrow
      <3> QED BY <1>1, <3>1
    <2> QED BY <2>1, <2>2
  <1> QED BY <1>1, <1>2, PowersDivide, Zenon DEF Pow

\* Where a block may lie, and of which grade.
BlockSet == [arena : Arenas, off : Nat, log2 : 0..32]

\* The bytes of the blocks of S.
Weight(S) == SumFunctionOnSet([b \in S |-> 2^b.log2], S)

\* The model's sum is the library's.
LEMMA BytesAreWeight ==
  ASSUME NEW S \in SUBSET BlockSet, IsFiniteSet(S)
  PROVE  Blocks!Bytes(S) = Weight(S)
  <1> DEFINE w == [b \in S |-> 2^b.log2]
             A(f) == [s \in SUBSET S |-> IF s = {} THEN 0
                        ELSE 2^(CHOOSE x \in s : TRUE).log2 + f[s \ {CHOOSE x \in s : TRUE}]]
             H == CHOOSE f : f = A(f)
  <1>1. Blocks!Bytes(S) = H[S]
    BY DEF Blocks!Bytes, Blocks!MapThenSumSet, Blocks!MapThenFoldSet
  <1>2. ASSUME NEW f PROVE A(f) = SumStep(f, w, S)
    <2>1. ASSUME NEW s \in SUBSET S PROVE A(f)[s] = SumStep(f, w, S)[s]
      <3>1. CASE s = {}
        BY <3>1 DEF SumStep
      <3>2. CASE s # {}
        <4> DEFINE x == CHOOSE x \in s : TRUE
        <4>1. x \in S
          BY <3>2
        <4>2. w[x] = 2^x.log2
          BY <4>1
        <4> HIDE DEF w
        <4>3. A(f)[s] = 2^x.log2 + f[s \ {x}] /\ SumStep(f, w, S)[s] = w[x] + f[s \ {x}]
          BY <3>2 DEF SumStep
        <4> QED BY <4>2, <4>3
      <3> QED BY <3>1, <3>2
    <2> QED BY <2>1 DEF SumStep
  <1>3. w \in [S -> Int]
    BY Powers DEF BlockSet
  <1> HIDE DEF w
  <1>4. PICK F : IsSum(F, w, S)
    BY <1>3, SumExists
  <1>5. \E G : G = SumStep(G, w, S)
    BY <1>4, SumStepExists
  <1>6. H = A(H)
    <2>1. \E G : G = A(G)
      <3> HIDE DEF A
      <3> QED BY <1>2, <1>5
    <2> HIDE DEF A
    <2> QED BY <2>1
  <1>7. H = SumStep(H, w, S)
    <2> HIDE DEF A, H
    <2> QED BY <1>2, <1>6
  <1> HIDE DEF H
  <1>8. H[S] = F[S]
    BY <1>4, <1>7, SumStepUnique
  <1>9. SumFunctionOnSet(w, S) = F[S]
    BY <1>4, SumIs
  <1> QED BY <1>1, <1>8, <1>9 DEF Weight, w

\* A weight is a number, nothing weighs nothing, and a block adds its own.
LEMMA WeightFacts ==
  ASSUME NEW S \in SUBSET BlockSet, IsFiniteSet(S)
  PROVE  /\ Weight(S) \in Nat /\ Weight({}) = 0
         /\ \A b \in BlockSet \ S : Weight(S \cup {b}) = Weight(S) + 2^b.log2
         /\ \A b \in S : Weight(S) = Weight(S \ {b}) + 2^b.log2 /\ 2^b.log2 <= Weight(S)
  <1> DEFINE w(T) == [b \in T |-> 2^b.log2]
  <1>1. \A b \in BlockSet : 2^b.log2 \in Nat
    BY Powers DEF BlockSet
  <1>2. ASSUME NEW T \in SUBSET BlockSet, IsFiniteSet(T), NEW R \in SUBSET T
        PROVE  SumFunctionOnSet(w(T), R) = Weight(R) /\ Weight(R) \in Nat
    <2>1. IsFiniteSet(R)
      BY <1>2, FS_Subset
    <2>2. \A b \in R : w(T)[b] = w(R)[b] /\ w(T)[b] \in Int
      BY <1>1
    <2>3. w(T) \in [T -> Nat]
      BY <1>1
    <2> HIDE DEF w
    <2>4. SumFunctionOnSet(w(T), R) = SumFunctionOnSet(w(R), R)
      BY <2>1, <2>2, SumAgrees
    <2>5. SumFunctionOnSet(w(T), R) \in Nat
      BY <1>2, <2>3, SumNat
    <2> QED BY <2>4, <2>5 DEF Weight, w
  <1>3. ASSUME NEW T \in SUBSET BlockSet, IsFiniteSet(T), NEW b \in T
        PROVE  Weight(T) = Weight(T \ {b}) + 2^b.log2
    <2>1. w(T) \in [T -> Int] /\ w(T)[b] = 2^b.log2
      BY <1>1
    <2> HIDE DEF w
    <2>2. SumFunctionOnSet(w(T), T) = w(T)[b] + SumFunctionOnSet(w(T), T \ {b})
      BY <1>3, <2>1, SumTotal
    <2>3. SumFunctionOnSet(w(T), T) = Weight(T) /\ SumFunctionOnSet(w(T), T \ {b}) = Weight(T \ {b})
          /\ Weight(T \ {b}) \in Nat
      BY <1>2, <1>3
    <2> QED BY <1>1, <2>1, <2>2, <2>3
  <1>4. Weight({}) = 0
    <2>1. w({}) \in [{} -> Int] /\ IsFiniteSet({})
      BY FS_EmptySet
    <2>2. SumFunctionOnSet(w({}), {}) = 0
      <3> HIDE DEF w
      <3> QED BY <2>1, SumTotal
    <2> QED BY <2>2 DEF Weight, w
  <1>5. ASSUME NEW b \in BlockSet \ S PROVE Weight(S \cup {b}) = Weight(S) + 2^b.log2
    <2>1. IsFiniteSet(S \cup {b}) /\ S \cup {b} \in SUBSET BlockSet
      BY FS_AddElement
    <2>2. (S \cup {b}) \ {b} = S /\ b \in S \cup {b}
      OBVIOUS
    <2>3. Weight(S \cup {b}) = Weight((S \cup {b}) \ {b}) + 2^b.log2
      BY <1>3, <2>1, <2>2
    <2> QED BY <2>2, <2>3
  <1>6. ASSUME NEW b \in S PROVE 2^b.log2 <= Weight(S)
    <2>1. Weight(S) = Weight(S \ {b}) + 2^b.log2
      BY <1>3
    <2>2. Weight(S \ {b}) \in Nat
      BY <1>2, S \ {b} \in SUBSET S
    <2> QED BY <1>1, <2>1, <2>2
  <1>7. Weight(S) \in Nat
    BY <1>2, S \in SUBSET S
  <1> QED BY <1>3, <1>4, <1>5, <1>6, <1>7

-----------------------------------------------------------------------------
(* The free lists.                                                         *)

\* The grades a list is kept for.
Grades == Blocks!MIN_LOG2..Blocks!MAX_LOG2

\* All of s are of grade g.
OfGrade(s, g) == \A b \in Range(s) : b.log2 = g

\* The blocks on the lists.
OnLists(f) == UNION {Range(f[g]) : g \in Grades}

\* Each list is of blocks of its grade, none twice.
Listed(f) ==
  /\ f \in [Grades -> Seq(BlockSet)]
  /\ \A g \in Grades : IsInjective(f[g]) /\ \A b \in Range(f[g]) : b.log2 = g

\* There are finitely many grades, from three bits up to the width.
LEMMA GradesAre == Grades = 3..(WORD - 1) /\ Grades \subseteq 0..32 /\ IsFiniteSet(Grades)
  <1>1. Grades = 3..(WORD - 1) /\ WORD \in 4..32
    BY GradeBounds DEF Grades
  <1>2. IsFiniteSet(3..(WORD - 1))
    BY <1>1, FS_Interval, 3 \in Int, WORD - 1 \in Int
  <1> QED BY <1>1, <1>2

\* What lists of grades have in common.
LEMMA ListedFacts ==
  ASSUME NEW f, Listed(f)
  PROVE  /\ OnLists(f) \in SUBSET BlockSet /\ IsFiniteSet(OnLists(f))
         /\ \A g \in Grades : Range(f[g]) = {b \in OnLists(f) : b.log2 = g}
         /\ \A b \in OnLists(f) : b.log2 \in Grades
         /\ \A g \in Grades : f[g] \in Seq(BlockSet) /\ IsInjective(f[g])
  <1>1. \A g \in Grades : f[g] \in Seq(BlockSet) /\ IsInjective(f[g])
    BY DEF Listed
  <1>2. ASSUME NEW g \in Grades PROVE Range(f[g]) \subseteq BlockSet /\ IsFiniteSet(Range(f[g]))
    <2> DEFINE s == f[g]
    <2>1. s \in Seq(BlockSet) /\ Len(s) \in Nat /\ DOMAIN s = 1..Len(s)
      BY <1>1
    <2> HIDE DEF s
    <2>2. Range(s) \subseteq BlockSet
      BY <2>1 DEF Range
    <2>3. IsFiniteSet(1..Len(s))
      BY <2>1, FS_Interval, 1 \in Int, Len(s) \in Int
    <2>4. s \in Surjection(1..Len(s), Range(s))
      BY <2>1 DEF Surjection, Range
    <2>5. IsFiniteSet(Range(s))
      BY <2>3, <2>4, FS_Surjection
    <2> QED BY <2>2, <2>5 DEF s
  <1>3. OnLists(f) \in SUBSET BlockSet
    BY <1>2 DEF OnLists
  <1>4. IsFiniteSet(OnLists(f))
    <2> DEFINE R == {Range(f[g]) : g \in Grades}
    <2>1. IsFiniteSet(R)
      <3>1. [g \in Grades |-> Range(f[g])] \in Surjection(Grades, R)
        BY DEF Surjection
      <3> QED BY <3>1, GradesAre, FS_Surjection
    <2>2. \A T \in R : IsFiniteSet(T)
      BY <1>2
    <2> HIDE DEF R
    <2>3. IsFiniteSet(UNION R)
      BY <2>1, <2>2, FS_UNION
    <2> QED BY <2>3 DEF OnLists, R
  <1>5. \A g \in Grades : \A b \in Range(f[g]) : b.log2 = g
    BY DEF Listed
  <1>6. \A g \in Grades : Range(f[g]) = {b \in OnLists(f) : b.log2 = g}
    BY <1>5 DEF OnLists
  <1>7. \A b \in OnLists(f) : b.log2 \in Grades
    BY <1>5 DEF OnLists
  <1> QED BY <1>1, <1>3, <1>4, <1>6, <1>7

\* One list written anew.
LEMMA ListsChange ==
  ASSUME NEW f, Listed(f), NEW g \in Grades, NEW s \in Seq(BlockSet), IsInjective(s),
         OfGrade(s, g)
  PROVE  /\ Listed([f EXCEPT ![g] = s])
         /\ OnLists([f EXCEPT ![g] = s]) = (OnLists(f) \ Range(f[g])) \cup Range(s)
  <1> DEFINE h == [f EXCEPT ![g] = s]
  <1>1. f \in [Grades -> Seq(BlockSet)]
    BY DEF Listed
  <1>2. h \in [Grades -> Seq(BlockSet)] /\ h[g] = s /\ \A k \in Grades : k # g => h[k] = f[k]
    BY <1>1
  <1> HIDE DEF h
  <1>3. Listed(h)
    BY <1>2 DEF Listed, OfGrade
  <1>4. OnLists(h) = (OnLists(f) \ Range(f[g])) \cup Range(s)
    <2>1. \A b \in OnLists(f) \ Range(f[g]) : \E k \in Grades : k # g /\ b \in Range(f[k])
      BY DEF OnLists
    <2>2. \A b \in OnLists(f) \ Range(f[g]) : b \in OnLists(h)
      <3> SUFFICES ASSUME NEW b \in OnLists(f) \ Range(f[g]) PROVE b \in OnLists(h)
        OBVIOUS
      <3>1. PICK k \in Grades : k # g /\ b \in Range(f[k])
        BY <2>1
      <3>2. b \in Range(h[k])
        BY <1>2, <3>1
      <3> QED BY <3>2 DEF OnLists
    <2>3. \A b \in Range(s) : b \in OnLists(h)
      BY <1>2 DEF OnLists
    <2>4. ASSUME NEW b \in OnLists(h) PROVE b \in (OnLists(f) \ Range(f[g])) \cup Range(s)
      <3>1. PICK k \in Grades : b \in Range(h[k])
        BY <2>4 DEF OnLists
      <3>2. CASE k = g
        BY <1>2, <3>1, <3>2
      <3>3. CASE k # g
        <4>1. b \in Range(f[k]) /\ b \in OnLists(f)
          BY <1>2, <3>1, <3>3 DEF OnLists
        <4>2. b.log2 = k /\ \A c \in Range(f[g]) : c.log2 = g
          BY <4>1 DEF Listed
        <4> QED BY <3>3, <4>1, <4>2
      <3> QED BY <3>2, <3>3
    <2> QED BY <2>2, <2>3, <2>4
  <1> QED BY <1>3, <1>4 DEF h

-----------------------------------------------------------------------------
(* The struct.                                                             *)

\* What the struct may hold.
Structs ==
  [source : BOOLEAN, lent_bytes : Nat, cached_bytes : Nat, min : Nat, max : Nat,
   arena_capacity : Nat, free : [Grades -> Seq(BlockSet)], arena : Arenas \cup {NULL},
   cursor : Nat]

\* b lies in an arena of T, of a grade of p, below the cursor if the arena is p's.
Laid(p, T, b) ==
  /\ b.arena \in T
  /\ b.log2 \in p.min..p.max
  /\ b.off + 2^b.log2 <= p.arena_capacity
  /\ b.arena = p.arena => b.off + 2^b.log2 <= p.cursor

\* No byte in both.
Apart(b, c) ==
  b.arena = c.arena => b.off + 2^b.log2 <= c.off \/ c.off + 2^c.log2 <= b.off

\* The blocks on the lists and those of X lie where they should, none over another.
Places(p, X, T) ==
  /\ \A b \in OnLists(p.free) \cup X : Laid(p, T, b)
  /\ \A b, c \in OnLists(p.free) \cup X : b # c => Apart(b, c)
  /\ OnLists(p.free) \cap X = {}

\* p with the blocks of X out, over the arenas of T.
Sane(p, X, T) ==
  /\ p \in Structs /\ p.cursor <= p.arena_capacity /\ p.arena \in T \cup {NULL}
  /\ T \subseteq Arenas
  /\ \E q \in Nat : p.cursor = q * 2^p.min
  /\ Listed(p.free)
  /\ X \in SUBSET BlockSet /\ IsFiniteSet(X)
  /\ Places(p, X, T)
  /\ p.lent_bytes = Weight(X) /\ p.cached_bytes = Weight(OnLists(p.free))

\* What init made of the options.
Ready(p) ==
  /\ Blocks!MIN_LOG2 <= p.min /\ p.min <= p.max /\ p.max <= Blocks!MAX_LOG2
  /\ 2^p.max <= p.arena_capacity

\* q is p but for its lists, its bytes and its place in its arenas.
Likewise(p, q) ==
  /\ q.source = p.source /\ q.min = p.min /\ q.max = p.max
  /\ q.arena_capacity = p.arena_capacity

\* Bytes out, on the lists and ahead of the cursor.
Total(p) == p.lent_bytes + p.cached_bytes + Blocks!remaining(p)

\* t is p with a block of grade g more out, and that block.
Given(t, p, X, T, g) ==
  /\ Sane(t.pool, X \cup {t.block}, T) /\ Likewise(p, t.pool)
  /\ t.block \in BlockSet \ X /\ t.block.log2 = g
  /\ t.pool.arena = p.arena
  /\ Total(t.pool) = Total(p)

\* A block taken from its list.
LEMMA TakeSane ==
  ASSUME NEW p, NEW X, NEW T, Sane(p, X, T), NEW g \in Grades, p.free[g] # << >>
  PROVE  Given(Blocks!take(p, g), p, X, T, g)
  <1> DEFINE s == p.free[g]
             b == Head(s)
             h == [p.free EXCEPT ![g] = Tail(s)]
             r == [p EXCEPT !.free = h, !.cached_bytes = @ - 2^g, !.lent_bytes = @ + 2^g]
             O == OnLists(p.free)
  <1>1. p \in Structs /\ Listed(p.free) /\ s \in Seq(BlockSet) /\ IsInjective(s) /\ s # <<>>
    BY ListedFacts DEF Sane
  <1>2. Blocks!take(p, g) = [pool |-> r, block |-> b]
    BY <1>1 DEF Blocks!take, Structs
  <1>3. /\ Tail(s) \in Seq(BlockSet) /\ IsInjective(Tail(s))
        /\ Range(Tail(s)) = Range(s) \ {b} /\ b \in Range(s) /\ b \in BlockSet
    BY <1>1, TailLemma
  <1>4. b.log2 = g /\ b \in O /\ Range(s) = {c \in O : c.log2 = g}
    BY <1>1, <1>3, ListedFacts
  <1>5. Listed(h) /\ OnLists(h) = O \ {b}
    <2>1. \A c \in Range(Tail(s)) : c.log2 = g
      BY <1>3, <1>4
    <2>2. Listed(h) /\ OnLists(h) = (O \ Range(s)) \cup Range(Tail(s))
      <3> DEFINE f == p.free
                 u == Tail(s)
      <3>1. Listed(f) /\ u \in Seq(BlockSet) /\ IsInjective(u) /\ OfGrade(u, g)
        BY <1>1, <1>3, <2>1 DEF OfGrade
      <3> HIDE DEF f, u
      <3>2. /\ Listed([f EXCEPT ![g] = u])
            /\ OnLists([f EXCEPT ![g] = u]) = (OnLists(f) \ Range(f[g])) \cup Range(u)
        BY <3>1, ListsChange
      <3> QED BY <3>2 DEF f, u
    <2> QED BY <1>3, <1>4, <2>2
  <1>6. O \in SUBSET BlockSet /\ IsFiniteSet(O) /\ X \in SUBSET BlockSet /\ IsFiniteSet(X)
        /\ p.lent_bytes = Weight(X) /\ p.cached_bytes = Weight(O) /\ O \cap X = {}
    BY <1>1, ListedFacts DEF Sane, Places
  <1>7. 2^g \in Nat
    BY Powers, GradesAre
  <1>8. /\ Weight(O) = Weight(O \ {b}) + 2^g /\ 2^g <= Weight(O) /\ Weight(O) \in Nat
        /\ Weight(X \cup {b}) = Weight(X) + 2^g /\ Weight(X) \in Nat
    <2>1. b \in BlockSet \ X
      BY <1>3, <1>4, <1>6
    <2> HIDE DEF b, O
    <2> QED BY <1>4, <1>6, <2>1, WeightFacts
  <1>9. Weight(O \ {b}) \in Nat
    <2>1. O \ {b} \in SUBSET BlockSet /\ IsFiniteSet(O \ {b})
      BY <1>6, FS_RemoveElement
    <2> QED BY <2>1, WeightFacts
  <1> HIDE DEF b, h, O, s
  <1>10. h \in [Grades -> Seq(BlockSet)]
    BY <1>5 DEF Listed
  <1>11. /\ r \in Structs /\ r.free = h /\ r.cached_bytes = Weight(O \ {b})
         /\ r.lent_bytes = Weight(X \cup {b})
         /\ r.arena = p.arena /\ r.cursor = p.cursor /\ r.source = p.source /\ r.min = p.min
         /\ r.max = p.max /\ r.arena_capacity = p.arena_capacity
    <2> DEFINE x == Weight(O \ {b})
               y == Weight(X \cup {b})
    <2>1. p.cached_bytes - 2^g = x /\ p.lent_bytes + 2^g = y /\ x \in Nat /\ y \in Nat
      BY <1>6, <1>7, <1>8, <1>9
    <2> HIDE DEF x, y
    <2>2. r = [p EXCEPT !.free = h, !.cached_bytes = x, !.lent_bytes = y]
      BY <2>1
    <2> HIDE DEF r
    <2>3. /\ r \in Structs /\ r.free = h /\ r.cached_bytes = x /\ r.lent_bytes = y
          /\ r.arena = p.arena /\ r.cursor = p.cursor /\ r.source = p.source /\ r.min = p.min
          /\ r.max = p.max /\ r.arena_capacity = p.arena_capacity
      BY <1>1, <1>10, <2>1, <2>2 DEF Structs
    <2> QED BY <2>3 DEF x, y
  <1> HIDE DEF r
  <1>12. OnLists(r.free) \cup (X \cup {b}) = O \cup X /\ OnLists(r.free) = O \ {b}
    BY <1>4, <1>5, <1>11
  <1>13. Places(r, X \cup {b}, T)
    <2>1. Places(p, X, T)
      BY DEF Sane
    <2>2. \A c \in O \cup X : Laid(r, T, c)
      BY <1>11, <2>1 DEF Places, Laid, O
    <2>3. \A c, d \in O \cup X : c # d => Apart(c, d)
      BY <2>1 DEF Places, O
    <2>4. OnLists(r.free) \cap (X \cup {b}) = {}
      BY <1>6, <1>12
    <2> QED BY <1>12, <2>2, <2>3, <2>4 DEF Places
  <1>14. Sane(r, X \cup {b}, T)
    <2>1. X \cup {b} \in SUBSET BlockSet /\ IsFiniteSet(X \cup {b})
      BY <1>3, <1>6, FS_AddElement
    <2> QED BY <1>5, <1>11, <1>12, <1>13, <2>1 DEF Sane
  <1>15. Total(r) = Total(p)
    <2>1. Blocks!remaining(r) = Blocks!remaining(p)
      BY <1>11 DEF Blocks!remaining
    <2>2. r.lent_bytes = p.lent_bytes + 2^g /\ r.cached_bytes + 2^g = p.cached_bytes
      BY <1>6, <1>8, <1>11
    <2>3. r.lent_bytes \in Nat /\ r.cached_bytes \in Nat /\ p.lent_bytes \in Nat
          /\ p.cached_bytes \in Nat
      BY <1>1, <1>11 DEF Structs
    <2>4. r.lent_bytes + r.cached_bytes = p.lent_bytes + p.cached_bytes
      BY <1>7, <2>2, <2>3
    <2> QED BY <2>1, <2>4 DEF Total
  <1>16. b \in BlockSet \ X
    BY <1>3, <1>4, <1>6
  <1> QED BY <1>2, <1>4, <1>11, <1>14, <1>15, <1>16 DEF Given, Likewise

\* A block given back.
LEMMA FreeSane ==
  ASSUME NEW p, NEW X, NEW T, Sane(p, X, T), NEW b \in X, b.log2 \in Grades
  PROVE  LET r == Blocks!arnm_graded_block_pool_free_log2(p, b) IN
         /\ Sane(r, X \ {b}, T) /\ Likewise(p, r)
         /\ r.arena = p.arena /\ r.cursor = p.cursor
         /\ Total(r) = Total(p)
  <1> DEFINE g == b.log2
             f == p.free
             u == <<b>> \o f[g]
             h == [f EXCEPT ![g] = u]
             r == [p EXCEPT !.free = h, !.lent_bytes = @ - 2^g, !.cached_bytes = @ + 2^g]
             O == OnLists(f)
  <1>1. p \in Structs /\ Listed(f) /\ f[g] \in Seq(BlockSet) /\ IsInjective(f[g])
    BY ListedFacts DEF Sane
  <1>2. Blocks!arnm_graded_block_pool_free_log2(p, b) = r
    BY <1>1 DEF Blocks!arnm_graded_block_pool_free_log2, Structs
  <1>3. O \in SUBSET BlockSet /\ IsFiniteSet(O) /\ X \in SUBSET BlockSet /\ IsFiniteSet(X)
        /\ p.lent_bytes = Weight(X) /\ p.cached_bytes = Weight(O) /\ O \cap X = {}
    BY <1>1, ListedFacts DEF Sane, Places
  <1>4. b \in BlockSet \ O /\ g \in Grades /\ Range(f[g]) = {c \in O : c.log2 = g}
    BY <1>1, <1>3, ListedFacts
  <1>5. Listed(h) /\ OnLists(h) = O \cup {b}
    <2>1. u \in Seq(BlockSet) /\ IsInjective(u) /\ Range(u) = {b} \cup Range(f[g])
      <3> DEFINE s == f[g]
      <3>1. s \in Seq(BlockSet) /\ IsInjective(s) /\ b \in BlockSet /\ b \notin Range(s)
        BY <1>1, <1>4
      <3> HIDE DEF s
      <3>2. <<b>> \o s \in Seq(BlockSet) /\ IsInjective(<<b>> \o s)
            /\ Range(<<b>> \o s) = {b} \cup Range(s)
        BY <3>1, PrependLemma
      <3> QED BY <3>2 DEF s
    <2>2. \A c \in Range(u) : c.log2 = g
      BY <1>4, <2>1
    <2>3. Range(f[g]) \subseteq O
      BY <1>4
    <2>6. Listed(f) /\ g \in Grades /\ u \in Seq(BlockSet) /\ IsInjective(u)
          /\ OfGrade(u, g)
      BY <1>1, <1>4, <2>1, <2>2 DEF OfGrade
    <2> HIDE DEF f, u, O, g
    <2>4. /\ Listed([f EXCEPT ![g] = u])
          /\ OnLists([f EXCEPT ![g] = u]) = (OnLists(f) \ Range(f[g])) \cup Range(u)
      BY <2>6, ListsChange
    <2>5. OnLists(h) = (O \ Range(f[g])) \cup ({b} \cup Range(f[g]))
      BY <2>1, <2>4 DEF O
    <2> QED BY <2>3, <2>4, <2>5
  <1>6. 2^g \in Nat
    BY Powers, GradesAre
  <1>7. /\ Weight(X) = Weight(X \ {b}) + 2^g /\ 2^g <= Weight(X) /\ Weight(X) \in Nat
        /\ Weight(O \cup {b}) = Weight(O) + 2^g /\ Weight(O) \in Nat
    <2> HIDE DEF O
    <2> QED BY <1>3, <1>4, WeightFacts
  <1>8. Weight(X \ {b}) \in Nat /\ IsFiniteSet(X \ {b})
    <2>1. X \ {b} \in SUBSET BlockSet /\ IsFiniteSet(X \ {b})
      BY <1>3, FS_RemoveElement
    <2> QED BY <2>1, WeightFacts
  <1> HIDE DEF h, O, f, u
  <1>9. h \in [Grades -> Seq(BlockSet)]
    BY <1>5 DEF Listed
  <1>10. /\ r \in Structs /\ r.free = h /\ r.cached_bytes = Weight(O \cup {b})
         /\ r.lent_bytes = Weight(X \ {b})
         /\ r.arena = p.arena /\ r.cursor = p.cursor /\ r.source = p.source /\ r.min = p.min
         /\ r.max = p.max /\ r.arena_capacity = p.arena_capacity
    <2> DEFINE x == Weight(O \cup {b})
               y == Weight(X \ {b})
    <2>1. p.cached_bytes + 2^g = x /\ p.lent_bytes - 2^g = y /\ x \in Nat /\ y \in Nat
      BY <1>3, <1>6, <1>7, <1>8
    <2> HIDE DEF x, y
    <2>2. r = [p EXCEPT !.free = h, !.lent_bytes = y, !.cached_bytes = x]
      BY <2>1
    <2> HIDE DEF r
    <2>3. /\ r \in Structs /\ r.free = h /\ r.cached_bytes = x /\ r.lent_bytes = y
          /\ r.arena = p.arena /\ r.cursor = p.cursor /\ r.source = p.source /\ r.min = p.min
          /\ r.max = p.max /\ r.arena_capacity = p.arena_capacity
      BY <1>1, <1>9, <2>1, <2>2 DEF Structs
    <2> QED BY <2>3 DEF x, y
  <1> HIDE DEF r
  <1>11. OnLists(r.free) \cup (X \ {b}) = O \cup X /\ OnLists(r.free) = O \cup {b}
    BY <1>5, <1>10
  <1>12. Places(r, X \ {b}, T)
    <2>1. Places(p, X, T)
      BY DEF Sane
    <2>2. \A c \in O \cup X : Laid(r, T, c)
      BY <1>10, <2>1 DEF Places, Laid, O, f
    <2>3. \A c, d \in O \cup X : c # d => Apart(c, d)
      BY <2>1 DEF Places, O, f
    <2>4. OnLists(r.free) \cap (X \ {b}) = {}
      BY <1>3, <1>11
    <2> QED BY <1>11, <2>2, <2>3, <2>4 DEF Places
  <1>13. Sane(r, X \ {b}, T)
    <2>1. X \ {b} \in SUBSET BlockSet
      BY <1>3
    <2> QED BY <1>5, <1>8, <1>10, <1>11, <1>12, <2>1 DEF Sane
  <1>14. Total(r) = Total(p)
    <2>1. Blocks!remaining(r) = Blocks!remaining(p)
      BY <1>10 DEF Blocks!remaining
    <2>2. r.lent_bytes + 2^g = p.lent_bytes /\ r.cached_bytes = p.cached_bytes + 2^g
      BY <1>3, <1>7, <1>10
    <2>3. r.lent_bytes \in Nat /\ r.cached_bytes \in Nat /\ p.lent_bytes \in Nat
          /\ p.cached_bytes \in Nat
      BY <1>1, <1>10 DEF Structs
    <2>4. r.lent_bytes + r.cached_bytes = p.lent_bytes + p.cached_bytes
      BY <1>6, <2>2, <2>3
    <2> QED BY <2>1, <2>4 DEF Total
  <1> QED BY <1>2, <1>10, <1>13, <1>14 DEF Likewise

\* What lies behind the cursor is free of blocks.
LEMMA Ahead ==
  ASSUME NEW p, NEW X, NEW T, Sane(p, X, T), NEW g \in Grades,
         NEW b \in BlockSet, b.arena = p.arena, b.off >= p.cursor
  PROVE  /\ b \notin OnLists(p.free) \cup X
         /\ \A c \in OnLists(p.free) \cup X : Apart(b, c) /\ Apart(c, b)
  <1> DEFINE A == OnLists(p.free) \cup X
  <1>1. \A c \in A : Laid(p, T, c)
    BY DEF Sane, Places
  <1>2. A \in SUBSET BlockSet /\ p.cursor \in Nat
    BY ListedFacts DEF Sane, Structs
  <1> HIDE DEF A
  <1>3. ASSUME NEW c \in A, c.arena = p.arena PROVE c.off + 2^c.log2 <= p.cursor
    BY <1>1, <1>3 DEF Laid
  <1>4. ASSUME NEW c \in A, c.arena = p.arena PROVE c.off + 2^c.log2 <= b.off /\ c.off < b.off
    <2>1. c \in BlockSet
      BY <1>2
    <2>2. 2^c.log2 \in Nat \ {0} /\ c.off \in Nat
      BY <2>1, Powers DEF BlockSet
    <2>3. c.off + 2^c.log2 <= p.cursor
      BY <1>3, <1>4
    <2>4. b.off \in Nat
      BY DEF BlockSet
    <2> QED BY <1>2, <2>2, <2>3, <2>4
  <1>5. b \notin A
    BY <1>4 DEF BlockSet
  <1>6. \A c \in A : Apart(b, c) /\ Apart(c, b)
    BY <1>4 DEF Apart
  <1> QED BY <1>5, <1>6 DEF A

\* A block cut at the cursor.
LEMMA CutSane ==
  ASSUME NEW p, NEW X, NEW T, Sane(p, X, T), NEW g \in Grades, g \in p.min..p.max,
         Blocks!remaining(p) >= 2^g
  PROVE  Given(Blocks!cut(p, g), p, X, T, g)
  <1> DEFINE b == Blocks!At(p.arena, p.cursor, g)
             n == p.cursor + 2^g
             r == [p EXCEPT !.cursor = @ + 2^g, !.lent_bytes = @ + 2^g]
             O == OnLists(p.free)
  <1>1. p \in Structs /\ Listed(p.free) /\ p.arena \in T \cup {NULL} /\ T \subseteq Arenas
    BY DEF Sane
  <1>2. Blocks!cut(p, g) = [pool |-> r, block |-> b]
    BY DEF Blocks!cut
  <1>3. 2^g \in Nat \ {0} /\ g \in 0..32
    BY Powers, GradesAre
  <1>4. p.arena \in T /\ p.arena # NULL /\ n <= p.arena_capacity /\ p.cursor \in Nat /\ n \in Nat
    <2>1. p.arena # NULL
      BY <1>3 DEF Blocks!remaining
    <2>2. Blocks!remaining(p) = p.arena_capacity - p.cursor
      BY <2>1 DEF Blocks!remaining
    <2>3. p.arena_capacity \in Nat /\ p.cursor \in Nat
      BY <1>1 DEF Structs
    <2> QED BY <1>1, <1>3, <2>1, <2>2, <2>3
  <1>5. b \in BlockSet /\ b.arena = p.arena /\ b.off = p.cursor /\ b.log2 = g
    BY <1>1, <1>3, <1>4 DEF Blocks!At, BlockSet
  <1>6. b \notin O \cup X /\ \A c \in O \cup X : Apart(b, c) /\ Apart(c, b)
    <2>1. b.off >= p.cursor
      BY <1>4, <1>5
    <2> HIDE DEF b
    <2> QED BY <1>5, <2>1, Ahead
  <1>7. O \in SUBSET BlockSet /\ IsFiniteSet(O) /\ X \in SUBSET BlockSet /\ IsFiniteSet(X)
        /\ p.lent_bytes = Weight(X) /\ p.cached_bytes = Weight(O) /\ O \cap X = {}
    BY <1>1, ListedFacts DEF Sane, Places
  <1>8. Weight(X \cup {b}) = Weight(X) + 2^g /\ Weight(X) \in Nat
        /\ IsFiniteSet(X \cup {b}) /\ X \cup {b} \in SUBSET BlockSet
    <2>1. b \in BlockSet \ X
      BY <1>5, <1>6
    <2> HIDE DEF b
    <2> QED BY <1>5, <1>7, <2>1, WeightFacts, FS_AddElement
  <1> HIDE DEF b, O, n
  <1>9. /\ r \in Structs /\ r.free = p.free /\ r.cached_bytes = p.cached_bytes
        /\ r.lent_bytes = Weight(X \cup {b})
        /\ r.arena = p.arena /\ r.cursor = n /\ r.source = p.source /\ r.min = p.min
        /\ r.max = p.max /\ r.arena_capacity = p.arena_capacity
    <2> DEFINE y == Weight(X \cup {b})
    <2>1. p.lent_bytes + 2^g = y /\ y \in Nat /\ p.cursor + 2^g = n
      BY <1>3, <1>7, <1>8 DEF n
    <2> HIDE DEF y
    <2>2. r = [p EXCEPT !.cursor = n, !.lent_bytes = y]
      BY <2>1
    <2> HIDE DEF r
    <2>3. /\ r \in Structs /\ r.free = p.free /\ r.cached_bytes = p.cached_bytes
          /\ r.lent_bytes = y
          /\ r.arena = p.arena /\ r.cursor = n /\ r.source = p.source /\ r.min = p.min
          /\ r.max = p.max /\ r.arena_capacity = p.arena_capacity
      BY <1>1, <1>4, <2>1, <2>2 DEF Structs
    <2> QED BY <2>3 DEF y
  <1> HIDE DEF r
  <1>10. Places(r, X \cup {b}, T)
    <2>1. Places(p, X, T)
      BY DEF Sane
    <2>2. ASSUME NEW c \in O \cup X PROVE Laid(r, T, c)
      <3>1. Laid(p, T, c) /\ c \in BlockSet
        BY <1>7, <2>1 DEF Places, O
      <3>2. 2^c.log2 \in Nat /\ c.off \in Nat
        BY <3>1, Powers DEF BlockSet
      <3>3. c.arena = p.arena => c.off + 2^c.log2 <= n
        BY <1>3, <1>4, <3>1, <3>2 DEF Laid, n
      <3> QED BY <1>9, <3>1, <3>3 DEF Laid
    <2>3. Laid(r, T, b)
      BY <1>3, <1>4, <1>5, <1>9 DEF Laid, n
    <2>4. \A c, d \in O \cup X : c # d => Apart(c, d)
      BY <2>1 DEF Places, O
    <2>5. OnLists(r.free) = O
      BY <1>9 DEF O
    <2>6. OnLists(r.free) \cap (X \cup {b}) = {}
      BY <1>6, <1>7, <2>5
    <2>7. OnLists(r.free) \cup (X \cup {b}) = (O \cup X) \cup {b}
      BY <2>5
    <2>8. \A c, d \in (O \cup X) \cup {b} : c # d => Apart(c, d)
      BY <1>6, <2>4
    <2>9. \A c \in (O \cup X) \cup {b} : Laid(r, T, c)
      BY <2>2, <2>3
    <2> QED BY <2>6, <2>7, <2>8, <2>9 DEF Places
  <1>11. \E q \in Nat : n = q * 2^p.min
    <2>1. PICK q \in Nat : p.cursor = q * 2^p.min
      BY DEF Sane
    <2>2. p.min \in 0..32 /\ p.min <= g
      <3>1. p.min \in Nat /\ p.max \in Nat
        BY <1>1 DEF Structs
      <3> QED BY <1>3, <3>1
    <2>3. PICK k \in Nat \ {0} : 2^g = k * 2^p.min
      BY <1>3, <2>2, Powers
    <2>4. 2^p.min \in Nat
      BY <2>2, Powers
    <2>5. n = (q + k) * 2^p.min /\ q + k \in Nat
      BY <2>1, <2>3, <2>4 DEF n
    <2> QED BY <2>5
  <1>12. Sane(r, X \cup {b}, T)
    BY <1>1, <1>4, <1>7, <1>8, <1>9, <1>10, <1>11 DEF Sane, O
  <1>13. Total(r) = Total(p)
    <2>1. /\ Blocks!remaining(p) = p.arena_capacity - p.cursor
          /\ Blocks!remaining(r) = p.arena_capacity - n
      BY <1>4, <1>9 DEF Blocks!remaining
    <2>2. r.lent_bytes = p.lent_bytes + 2^g
      BY <1>7, <1>8, <1>9
    <2>3. p.arena_capacity \in Nat /\ p.lent_bytes \in Nat /\ p.cached_bytes \in Nat
      BY <1>1 DEF Structs
    <2> QED BY <1>3, <1>4, <1>9, <2>1, <2>2, <2>3 DEF Total, n
  <1> QED BY <1>2, <1>5, <1>6, <1>9, <1>12, <1>13 DEF Given, Likewise

\* p with k blocks of grade g cut at the cursor, each put in front of its list.
Strip(p, g, k) ==
  [p EXCEPT !.free[g] = [i \in 1..k |-> Blocks!At(p.arena, p.cursor + (k - i) * 2^g, g)] \o @,
            !.cached_bytes = @ + k * 2^g,
            !.cursor = @ + k * 2^g]

\* Whether the strip of k blocks is sound, and leaves all the bytes there were.
Stripped(p, X, T, g, k) ==
  LET r == Strip(p, g, k) IN
  /\ Sane(r, X, T) /\ Likewise(p, r) /\ r.arena = p.arena /\ Total(r) = Total(p)
  /\ r.cursor = p.cursor + k * 2^g

\* The strip of one block more is one cut and one given back.
LEMMA StripMore ==
  ASSUME NEW p \in Structs, NEW g \in Grades, NEW k \in Nat, p.arena \in Arenas
  PROVE  LET t == Blocks!cut(Strip(p, g, k), g) IN
         Strip(p, g, k + 1) = Blocks!arnm_graded_block_pool_free_log2(t.pool, t.block)
  <1> DEFINE w == 2^g
             s == [i \in 1..k |-> Blocks!At(p.arena, p.cursor + (k - i) * w, g)]
             u == [i \in 1..(k + 1) |-> Blocks!At(p.arena, p.cursor + ((k + 1) - i) * w, g)]
             f == p.free[g]
             b == Blocks!At(p.arena, p.cursor + k * w, g)
  <1>1. w \in Nat /\ g \in 0..32
    BY Powers, GradesAre
  <1>2. p.cursor \in Nat /\ f \in Seq(BlockSet) /\ p.free \in [Grades -> Seq(BlockSet)]
        /\ p.cached_bytes \in Nat /\ p.lent_bytes \in Nat
    BY DEF Structs
  <1>3. \A j \in Nat : Blocks!At(p.arena, p.cursor + j * w, g) \in BlockSet
    BY <1>1, <1>2 DEF Blocks!At, BlockSet
  <1> HIDE DEF w
  <1>4. s \in Seq(BlockSet) /\ u \in Seq(BlockSet) /\ Len(s) = k /\ Len(u) = k + 1
    BY <1>3
  <1>5. u = <<b>> \o s
    <2>1. b \in BlockSet /\ <<b>> \in Seq(BlockSet)
      BY <1>3
    <2>2. u[1] = b
      BY <1>4
    <2>3. \A i \in 1..k : u[i + 1] = s[i]
      BY <1>1, <1>2
    <2> HIDE DEF u, s, b
    <2>4. <<b>> \o s \in Seq(BlockSet) /\ Len(<<b>> \o s) = k + 1
      BY <1>4, <2>1
    <2>5. \A i \in 1..(k + 1) : u[i] = (<<b>> \o s)[i]
      <3> SUFFICES ASSUME NEW i \in 1..(k + 1) PROVE u[i] = (<<b>> \o s)[i]
        OBVIOUS
      <3>1. CASE i = 1
        BY <1>4, <2>1, <2>2, <3>1
      <3>2. CASE i # 1
        <4>1. i - 1 \in 1..k /\ (i - 1) + 1 = i
          BY <3>2
        <4>2. (<<b>> \o s)[i] = s[i - 1]
          BY <1>4, <2>1, <3>2, <4>1
        <4> QED BY <2>3, <4>1, <4>2
      <3> QED BY <3>1, <3>2
    <2> QED BY <1>4, <2>4, <2>5, SameSequence
  <1>6. u \o f = <<b>> \o (s \o f)
    <2>1. b \in BlockSet /\ <<b>> \in Seq(BlockSet)
      BY <1>3
    <2> HIDE DEF u, s, b, f
    <2> QED BY <1>2, <1>4, <1>5, <2>1, JoinAssociative
  <1> DEFINE r == Strip(p, g, k)
             c == p.cursor + k * w
             h == p.cached_bytes + k * w
  <1>7. c \in Nat /\ h \in Nat /\ c + w = p.cursor + (k + 1) * w
        /\ h + w = p.cached_bytes + (k + 1) * w
    <2> DEFINE x == k * w
               y == (k + 1) * w
    <2>1. y = x + w /\ x \in Nat
      BY <1>1
    <2> HIDE DEF x, y
    <2>2. /\ p.cursor + x \in Nat /\ p.cached_bytes + x \in Nat
          /\ (p.cursor + x) + w = p.cursor + y /\ (p.cached_bytes + x) + w = p.cached_bytes + y
      BY <1>1, <1>2, <2>1
    <2> QED BY <2>2 DEF x, y
  <1>8. r = [p EXCEPT !.free = [p.free EXCEPT ![g] = s \o f], !.cached_bytes = h, !.cursor = c]
    BY <1>2 DEF Strip, w, Structs
  <1>9. Strip(p, g, k + 1) = [p EXCEPT !.free = [p.free EXCEPT ![g] = u \o f],
                                       !.cached_bytes = h + w, !.cursor = c + w]
    <2>1. Strip(p, g, k + 1) = [p EXCEPT !.free = [p.free EXCEPT ![g] = u \o f],
                                       !.cached_bytes = p.cached_bytes + (k + 1) * w,
                                       !.cursor = p.cursor + (k + 1) * w]
      BY <1>2 DEF Strip, w, Structs
    <2> HIDE DEF u, f, c, h
    <2> QED BY <1>7, <2>1
  <1> HIDE DEF s, u, f, r, c, h
  <1> DEFINE v == s \o f
  <1>10. /\ r.free = [p.free EXCEPT ![g] = v] /\ r.arena = p.arena /\ r.cursor = c
         /\ r.cached_bytes = h /\ r.lent_bytes = p.lent_bytes
         /\ r.free[g] = v
    BY <1>2, <1>8 DEF Structs
  <1>11. Blocks!cut(r, g) = [pool |-> [r EXCEPT !.cursor = c + w, !.lent_bytes = p.lent_bytes + w],
                      block |-> b]
    <2>1. Blocks!cut(r, g) = [pool |-> [r EXCEPT !.cursor = r.cursor + w,
                                                 !.lent_bytes = r.lent_bytes + w],
                       block |-> Blocks!At(r.arena, r.cursor, g)]
      BY Zenon DEF Blocks!cut, w
    <2> QED BY <1>10, <2>1 DEF c
  <1>12. b.log2 = g
    BY DEF Blocks!At
  <1> HIDE DEF b, v
  <1> DEFINE q == [r EXCEPT !.cursor = c + w, !.lent_bytes = p.lent_bytes + w]
  <1>13. q = [p EXCEPT !.free = [p.free EXCEPT ![g] = v], !.cached_bytes = h,
                       !.cursor = c + w, !.lent_bytes = p.lent_bytes + w]
    BY <1>8 DEF Structs, v
  <1>14. q.lent_bytes - w = p.lent_bytes /\ q.cached_bytes = h
         /\ q.free = [p.free EXCEPT ![g] = v] /\ q.free[g] = v
    <2> DEFINE fn == [p.free EXCEPT ![g] = v]
               y == p.lent_bytes + w
               e == c + w
    <2>1. fn[g] = v /\ y - w = p.lent_bytes
      BY <1>1, <1>2
    <2>2. q = [p EXCEPT !.free = fn, !.cached_bytes = h, !.cursor = e, !.lent_bytes = y]
      BY <1>13
    <2> HIDE DEF q, fn, y, e
    <2>3. q.lent_bytes = y /\ q.cached_bytes = h /\ q.free = fn
      BY <2>2 DEF Structs
    <2> QED BY <2>1, <2>3 DEF fn
  <1>15. Blocks!arnm_graded_block_pool_free_log2(q, b) =
           [q EXCEPT !.free = [q.free EXCEPT ![g] = <<b>> \o v], !.lent_bytes = p.lent_bytes,
                     !.cached_bytes = h + w]
    <2>1. Blocks!arnm_graded_block_pool_free_log2(q, b) =
           [q EXCEPT !.free = [q.free EXCEPT ![g] = <<b>> \o q.free[g]],
                     !.lent_bytes = q.lent_bytes - w,
                     !.cached_bytes = q.cached_bytes + w]
      <3> HIDE DEF q
      <3>1. DOMAIN q.free = Grades /\ q.free[g] = v
        BY <1>2, <1>14
      <3> QED BY <1>12, <3>1, Zenon DEF Blocks!arnm_graded_block_pool_free_log2, w
    <2> HIDE DEF q
    <2> QED BY <1>14, <2>1
  <1>16. [q.free EXCEPT ![g] = <<b>> \o v] = [p.free EXCEPT ![g] = u \o f]
    <2>1. <<b>> \o v = u \o f
      BY <1>6 DEF v
    <2> HIDE DEF q
    <2> QED BY <1>2, <1>14, <2>1
  <1> DEFINE z == [p.free EXCEPT ![g] = u \o f]
  <1>17. Blocks!arnm_graded_block_pool_free_log2(q, b) =
           [q EXCEPT !.free = z, !.lent_bytes = p.lent_bytes, !.cached_bytes = h + w]
    BY <1>15, <1>16
  <1>18. Blocks!arnm_graded_block_pool_free_log2(q, b) =
           [p EXCEPT !.free = z, !.cached_bytes = h + w, !.cursor = c + w]
    <2> HIDE DEF q, z
    <2> QED BY <1>13, <1>17 DEF Structs
  <1>19. Blocks!cut(r, g).pool = q /\ Blocks!cut(r, g).block = b
    BY <1>11
  <1> HIDE DEF q, z
  <1> QED BY <1>9, <1>18, <1>19 DEF r, z

\* A grade split off leaves less than one of its blocks.
LEMMA SplitSane ==
  ASSUME NEW p, NEW X, NEW T, Sane(p, X, T), NEW g \in Grades, g \in p.min..p.max
  PROVE  LET r == Blocks!split_grade(p, g) IN
         /\ Sane(r, X, T) /\ Likewise(p, r) /\ r.arena = p.arena /\ Total(r) = Total(p)
         /\ Blocks!remaining(r) < 2^g
  <1> DEFINE w == 2^g
             m == Blocks!remaining(p)
             n == m \div w
             P == {k \in Nat : k <= n => Stripped(p, X, T, g, k)}
  <1>1. p \in Structs /\ p.cursor <= p.arena_capacity /\ p.arena \in T \cup {NULL}
        /\ T \subseteq Arenas
    BY DEF Sane
  <1>2. w \in Nat \ {0} /\ g \in 0..32
    BY Powers, GradesAre
  <1>3. p.cursor \in Nat /\ p.arena_capacity \in Nat /\ p.cached_bytes \in Nat
        /\ p.free \in [Grades -> Seq(BlockSet)]
    BY <1>1 DEF Structs
  <1>4. m \in Nat
    BY <1>1, <1>3 DEF Blocks!remaining
  <1> HIDE DEF w, m
  <1>5. n \in Nat /\ n * w <= m /\ m - n * w < w
    BY <1>2, <1>4
  <1> HIDE DEF n
  <1>6. Blocks!split_grade(p, g) = Strip(p, g, n)
    BY Zenon DEF Blocks!split_grade, Strip, n, m, w
  <1>7. 0 \in P
    <2> DEFINE s == [i \in 1..0 |-> Blocks!At(p.arena, p.cursor + (0 - i) * 2^g, g)]
               f == p.free[g]
    <2>1. f \in Seq(BlockSet) /\ s = << >>
      BY <1>3
    <2>2. s \o f = f
      <3> HIDE DEF f, s
      <3> QED BY <2>1, JoinAssociative
    <2>3. 0 * 2^g = 0 /\ p.cached_bytes + 0 = p.cached_bytes /\ p.cursor + 0 = p.cursor
      BY <1>2, <1>3 DEF w
    <2>4. Strip(p, g, 0) = [p EXCEPT !.free[g] = s \o f, !.cached_bytes = p.cached_bytes + 0 * 2^g,
                                     !.cursor = p.cursor + 0 * 2^g]
      BY DEF Strip
    <2> HIDE DEF s
    <2>5. Strip(p, g, 0) = [p EXCEPT !.free[g] = f, !.cached_bytes = p.cached_bytes,
                                     !.cursor = p.cursor]
      BY <2>2, <2>3, <2>4, Zenon
    <2>6. Strip(p, g, 0) = p
      BY <1>1, <2>5 DEF Structs
    <2>7. Stripped(p, X, T, g, 0)
      BY <2>3, <2>6 DEF Stripped, Likewise
    <2> QED BY <2>7
  <1>8. ASSUME NEW k \in P PROVE k + 1 \in P
    <2>1. k \in Nat
      BY <1>8
    <2>2. SUFFICES ASSUME k + 1 <= n PROVE Stripped(p, X, T, g, k + 1)
      BY <2>1
    <2> DEFINE r == Strip(p, g, k)
               t == Blocks!cut(r, g)
               b == t.block
               z == Blocks!arnm_graded_block_pool_free_log2(t.pool, b)
    <2>3. Stripped(p, X, T, g, k)
      BY <1>5, <1>8, <2>1, <2>2
    <2>4. /\ Sane(r, X, T) /\ Likewise(p, r) /\ r.arena = p.arena /\ Total(r) = Total(p)
          /\ r.cursor = p.cursor + k * w
      BY <2>3 DEF Stripped, w
    <2>5. (k + 1) * w = k * w + w /\ k * w \in Nat /\ (k + 1) * w <= m
      <3>1. (k + 1) * w = k * w + w /\ k * w \in Nat
        BY <1>2, <2>1
      <3>2. PICK d \in Nat : n = (k + 1) + d
        <4>1. n - (k + 1) \in Nat /\ n = (k + 1) + (n - (k + 1))
          BY <1>5, <2>1, <2>2
        <4> QED BY <4>1
      <3>3. n * w = (k + 1) * w + d * w /\ d * w \in Nat /\ (k + 1) * w \in Nat
        BY <1>2, <2>1, <3>2
      <3> QED BY <1>4, <1>5, <3>1, <3>3
    <2>6. p.arena # NULL /\ p.arena \in Arenas /\ m = p.arena_capacity - p.cursor
      <3>1. m # 0
        BY <1>2, <1>4, <2>5
      <3> QED BY <1>1, <3>1 DEF Blocks!remaining, m
    <2>7. Strip(p, g, k + 1) = z
      BY <1>1, <2>1, <2>6, StripMore
    <2> HIDE DEF r
    <2>8. r \in Structs /\ r.arena_capacity = p.arena_capacity /\ r.min = p.min /\ r.max = p.max
      BY <2>4 DEF Sane, Likewise
    <2>9. Blocks!remaining(r) >= 2^g
      <3>1. Blocks!remaining(r) = p.arena_capacity - (p.cursor + k * w)
        BY <2>4, <2>6, <2>8 DEF Blocks!remaining
      <3> DEFINE x == k * w
      <3>2. x \in Nat /\ x + w <= m
        BY <2>5
      <3> HIDE DEF x
      <3>3. p.arena_capacity - (p.cursor + x) >= w
        BY <1>2, <1>3, <2>6, <3>2
      <3> QED BY <3>1, <3>3 DEF w, x
    <2>10. /\ Sane(t.pool, X \cup {b}, T) /\ Likewise(r, t.pool)
           /\ b \in BlockSet \ X /\ b.log2 = g
           /\ t.pool.arena = r.arena
           /\ Total(t.pool) = Total(r)
      <3>1. Sane(r, X, T) /\ g \in r.min..r.max /\ Blocks!remaining(r) >= 2^g
        BY <2>4, <2>8, <2>9
      <3>2. Given(t, r, X, T, g)
        BY <3>1, CutSane
      <3> QED BY <3>2 DEF Given
    <2>11. t.pool.cursor = r.cursor + w
      BY <2>8 DEF Blocks!cut, w, Structs
    <2> HIDE DEF t, b
    <2>12. /\ Sane(z, (X \cup {b}) \ {b}, T) /\ Likewise(t.pool, z)
           /\ z.arena = t.pool.arena /\ z.cursor = t.pool.cursor
           /\ Total(z) = Total(t.pool)
      <3>1. b \in X \cup {b} /\ b.log2 \in Grades
        BY <2>10
      <3> QED BY <2>10, <3>1, FreeSane
    <2>13. (X \cup {b}) \ {b} = X
      BY <2>10
    <2> HIDE DEF z
    <2>14. Likewise(p, z)
      BY <2>4, <2>10, <2>12 DEF Likewise
    <2>15. z.cursor = p.cursor + (k + 1) * w
      <3> DEFINE x == k * w
                 y == (k + 1) * w
      <3>1. x \in Nat /\ y = x + w /\ z.cursor = (p.cursor + x) + w
        BY <2>4, <2>5, <2>11, <2>12
      <3> HIDE DEF x, y
      <3>2. z.cursor = p.cursor + y
        BY <1>2, <1>3, <3>1
      <3> QED BY <3>2 DEF y
    <2>16. /\ Sane(z, X, T) /\ z.arena = p.arena /\ Total(z) = Total(p)
      BY <2>4, <2>10, <2>12, <2>13
    <2> QED BY <2>7, <2>14, <2>15, <2>16 DEF Stripped, w
  <1>9. n \in P
    <2>1. P = Nat
      <3> HIDE DEF P
      <3> QED BY <1>7, <1>8, NatSetInduction, P \in SUBSET Nat DEF P
    <2> HIDE DEF P
    <2> QED BY <1>5, <2>1
  <1> DEFINE r == Strip(p, g, n)
  <1>10. /\ Sane(r, X, T) /\ Likewise(p, r) /\ r.arena = p.arena /\ Total(r) = Total(p)
         /\ r.cursor = p.cursor + n * w
    BY <1>5, <1>9 DEF Stripped, w
  <1> HIDE DEF r
  <1>11. Blocks!remaining(r) < w
    <2>1. CASE p.arena = NULL
      BY <1>2, <1>10, <2>1 DEF Blocks!remaining
    <2>2. CASE p.arena # NULL
      <3> DEFINE x == n * w
      <3>1. m = p.arena_capacity - p.cursor
        BY <2>2 DEF m, Blocks!remaining
      <3>2. Blocks!remaining(r) = p.arena_capacity - (p.cursor + x)
        BY <1>10, <2>2 DEF Blocks!remaining, Likewise
      <3>3. x \in Nat /\ m - x < w
        BY <1>2, <1>5
      <3> HIDE DEF x
      <3> QED BY <1>2, <1>3, <1>4, <3>1, <3>2, <3>3
    <2> QED BY <2>1, <2>2
  <1> QED BY <1>6, <1>10, <1>11 DEF r, w

\* What is over after a number of wholes.
LEMMA RestIs ==
  ASSUME NEW q \in Nat, NEW m \in Nat \ {0}, NEW r \in 0..(m - 1)
  PROVE  (q * m + r) % m = r
  <1> DEFINE a == q * m + r
             d == a \div m
             e == a % m
  <1>1. a \in Nat
    OBVIOUS
  <1>2. a = q * m + r
    OBVIOUS
  <1> HIDE DEF a
  <1>3. d \in Nat /\ e \in 0..(m - 1) /\ a = d * m + e
    <2>1. d \in Nat /\ e \in 0..(m - 1) /\ a = m * d + e
      BY <1>1
    <2> HIDE DEF d, e
    <2>2. m * d = d * m
      BY <2>1
    <2> QED BY <2>1, <2>2
  <1> HIDE DEF d, e
  <1>4. d = q
    <2>1. CASE d > q
      <3>1. PICK k \in Nat : d = q + (1 + k)
        <4>1. d - q - 1 \in Nat /\ d = q + (1 + (d - q - 1))
          BY <1>3, <2>1
        <4> QED BY <4>1
      <3>2. d * m = q * m + (m + k * m) /\ k * m \in Nat /\ q * m \in Nat
        BY <3>1
      <3> DEFINE x == q * m
                 y == k * m
                 z == d * m
      <3>3. z = x + (m + y) /\ y \in Nat /\ x \in Nat /\ z + e = x + r
        BY <1>2, <1>3, <3>2
      <3> HIDE DEF x, y, z
      <3> QED BY <1>3, <3>3
    <2>2. CASE d < q
      <3>1. PICK k \in Nat : q = d + (1 + k)
        <4>1. q - d - 1 \in Nat /\ q = d + (1 + (q - d - 1))
          BY <1>3, <2>2
        <4> QED BY <4>1
      <3>2. q * m = d * m + (m + k * m) /\ k * m \in Nat /\ d * m \in Nat
        BY <1>3, <3>1
      <3> DEFINE x == d * m
                 y == k * m
                 z == q * m
      <3>3. z = x + (m + y) /\ y \in Nat /\ x \in Nat /\ x + e = z + r
        BY <1>2, <1>3, <3>2
      <3> HIDE DEF x, y, z
      <3> QED BY <1>3, <3>3
    <2> QED BY <1>3, <2>1, <2>2
  <1>5. e = r
    <2> DEFINE x == q * m
    <2>1. x \in Nat /\ x + e = x + r
      BY <1>2, <1>3, <1>4
    <2> HIDE DEF x
    <2> QED BY <1>3, <2>1
  <1> QED BY <1>5 DEF e, a

\* The rest of an arena split, largest grade first: what no grade takes is less
\* than the smallest, and is what the capacity holds beside its wholes.
LEMMA SplitCurrentSane ==
  ASSUME NEW p, NEW X, NEW T, Sane(p, X, T), Ready(p)
  PROVE  LET r == Blocks!split_current(p) IN
         /\ Sane(r, X, T) /\ Likewise(p, r) /\ r.arena = p.arena /\ Total(r) = Total(p)
         /\ Blocks!remaining(r) = IF p.arena = NULL THEN 0 ELSE p.arena_capacity % 2^p.min
  <1> DEFINE N == p.max - p.min + 1
             Same(q) == /\ Sane(q, X, T) /\ Likewise(p, q) /\ q.arena = p.arena
                        /\ Total(q) = Total(p)
             Step(a) == [n \in 0..N |->
                           IF n = 0 THEN p ELSE Blocks!split_grade(a[n - 1], p.max - n + 1)]
             at == CHOOSE a : a = Step(a)
             V == {q \in Structs : Same(q)}
             S == [n \in 1..N |-> [q \in V |-> Blocks!split_grade(q, p.max - n + 1)]]
  <1>1. p \in Structs /\ p.min \in Grades /\ p.max \in Grades /\ p.min <= p.max
        /\ p.min \in 3..31 /\ p.max \in 3..31
    <2>1. p \in Structs
      BY DEF Sane
    <2>2. p.min \in Nat /\ p.max \in Nat
      BY <2>1 DEF Structs
    <2>3. 3 <= p.min /\ p.min <= p.max /\ p.max <= WORD - 1 /\ WORD \in 4..32
      BY GradeBounds DEF Ready
    <2> DEFINE a == p.min
               c == p.max
    <2> HIDE DEF a, c
    <2>4. a \in 3..(WORD - 1) /\ c \in 3..(WORD - 1) /\ a \in 3..31 /\ c \in 3..31 /\ a <= c
      BY <2>2, <2>3 DEF a, c
    <2>5. a \in Grades /\ c \in Grades
      BY <2>4, GradesAre
    <2> QED BY <2>1, <2>4, <2>5 DEF a, c
  <1>2. N \in Nat \ {0}
    BY <1>1
  <1>3. Blocks!split_current(p) = at[N]
    BY DEF Blocks!split_current
  <1>4. ASSUME NEW n \in 1..N PROVE p.max - n + 1 \in Grades /\ p.max - n + 1 \in p.min..p.max
    <2> DEFINE a == p.min
               c == p.max
               g == c - n + 1
    <2>1. a \in Grades /\ c \in Grades /\ a \in 3..31 /\ c \in 3..31 /\ n \in 1..(c - a + 1)
      BY <1>1
    <2> HIDE DEF a, c
    <2>2. g \in a..c /\ g \in Int
      BY <2>1
    <2>3. Grades = 3..(WORD - 1) /\ WORD \in Int
      BY GradesAre, GradeBounds
    <2> HIDE DEF g
    <2>4. g \in Grades
      BY <2>1, <2>2, <2>3
    <2> QED BY <2>2, <2>4 DEF g, a, c
  <1>5. ASSUME NEW n \in 1..N, NEW q, Same(q)
        PROVE  /\ Same(Blocks!split_grade(q, p.max - n + 1))
               /\ Blocks!remaining(Blocks!split_grade(q, p.max - n + 1)) < 2^(p.max - n + 1)
    <2> DEFINE g == p.max - n + 1
               r == Blocks!split_grade(q, g)
    <2>1. Sane(q, X, T) /\ g \in Grades /\ g \in q.min..q.max
      BY <1>4, <1>5 DEF Likewise
    <2> HIDE DEF g
    <2>2. /\ Sane(r, X, T) /\ Likewise(q, r) /\ r.arena = q.arena /\ Total(r) = Total(q)
          /\ Blocks!remaining(r) < 2^g
      BY <2>1, SplitSane
    <2> HIDE DEF r
    <2>3. Same(r)
      BY <1>5, <2>2 DEF Likewise
    <2> QED BY <2>2, <2>3 DEF r, g
  <1>6. Same(p)
    BY DEF Likewise
  <1> HIDE DEF N
  <1>7. at = Step(at)
    <2>1. p \in V
      BY <1>1, <1>6
    <2>2. S \in [1..N -> [V -> V]]
      <3>1. ASSUME NEW n \in 1..N, NEW q \in V PROVE Blocks!split_grade(q, p.max - n + 1) \in V
        <4>1. Same(Blocks!split_grade(q, p.max - n + 1))
          BY <1>5
        <4>2. Blocks!split_grade(q, p.max - n + 1) \in Structs
          BY <4>1 DEF Sane
        <4> QED BY <4>1, <4>2
      <3> HIDE DEF V
      <3> QED BY <3>1
    <2> HIDE DEF V, S
    <2>3. PICK f \in [0..N -> V] : IsStepwise(f, N, p, S)
      BY <1>2, <2>1, <2>2, StepwiseExists
    <2>4. f = Step(f)
      <3>1. ASSUME NEW n \in 0..N PROVE f[n] = Step(f)[n]
        <4>1. CASE n = 0
          BY <2>3, <4>1 DEF IsStepwise
        <4>2. CASE n # 0
          <5>1. n \in 1..N /\ n - 1 \in 0..N
            BY <1>2, <4>2
          <5>2. f[n] = S[n][f[n - 1]] /\ f[n - 1] \in V
            BY <2>3, <5>1 DEF IsStepwise
          <5>3. S[n][f[n - 1]] = Blocks!split_grade(f[n - 1], p.max - n + 1)
            BY <5>1, <5>2 DEF S
          <5> QED BY <4>2, <5>2, <5>3
        <4> QED BY <4>1, <4>2
      <3> QED BY <2>3, <3>1
    <2> HIDE DEF Step
    <2> QED BY <2>4
  <1> HIDE DEF at, Same
  <1>8. /\ at[0] = p
        /\ \A n \in 1..N : at[n] = Blocks!split_grade(at[n - 1], p.max - n + 1)
    <2>1. \A n \in 0..N : at[n] = IF n = 0 THEN p ELSE Blocks!split_grade(at[n - 1], p.max - n + 1)
      BY <1>7, Zenon
    <2>2. \A n \in 1..N : n \in 0..N /\ n # 0
      BY <1>2
    <2>3. 0 \in 0..N
      BY <1>2
    <2> QED BY <2>1, <2>2, <2>3, Zenon
  <1>10. \A n \in 0..N : Same(at[n])
    <2> DEFINE P == {n \in Nat : n <= N => Same(at[n])}
    <2>1. 0 \in P
      BY <1>6, <1>8
    <2>2. ASSUME NEW n \in P PROVE n + 1 \in P
      <3>1. SUFFICES ASSUME n + 1 <= N PROVE Same(at[n + 1])
        OBVIOUS
      <3>2. n + 1 \in 1..N /\ (n + 1) - 1 = n /\ Same(at[n])
        BY <1>2, <2>2, <3>1
      <3>3. at[n + 1] = Blocks!split_grade(at[n], p.max - (n + 1) + 1)
        BY <1>8, <3>2
      <3> QED BY <1>5, <3>2, <3>3
    <2>3. P = Nat
      <3> HIDE DEF P
      <3> QED BY <2>1, <2>2, NatSetInduction, P \in SUBSET Nat DEF P
    <2> QED BY <1>2, <2>3
  <1> DEFINE r == at[N]
  <1>11. Same(r) /\ Blocks!remaining(r) < 2^p.min
    <2>1. N \in 1..N /\ N - 1 \in 0..N /\ N \in 0..N /\ p.max - N + 1 = p.min
      <3>1. p.max - N + 1 = p.min
        BY <1>1 DEF N
      <3> QED BY <1>2, <3>1
    <2>2. Same(at[N - 1]) /\ at[N] = Blocks!split_grade(at[N - 1], p.max - N + 1)
      BY <1>8, <1>10, <2>1
    <2>3. Blocks!remaining(Blocks!split_grade(at[N - 1], p.max - N + 1)) < 2^(p.max - N + 1)
      BY <1>5, <2>1, <2>2
    <2> QED BY <1>10, <2>1, <2>2, <2>3
  <1> HIDE DEF r
  <1>12. Sane(r, X, T) /\ Likewise(p, r) /\ r.arena = p.arena /\ Total(r) = Total(p)
    BY <1>11 DEF Same
  <1>13. Blocks!remaining(r) = IF p.arena = NULL THEN 0 ELSE p.arena_capacity % 2^p.min
    <2>1. CASE p.arena = NULL
      BY <1>12, <2>1 DEF Blocks!remaining
    <2>2. CASE p.arena # NULL
      <3> DEFINE m == 2^p.min
                 c == p.arena_capacity
      <3>1. m \in Nat \ {0}
        <4>1. p.min \in 0..32
          BY <1>1
        <4> QED BY <4>1, Powers
      <3>2. Blocks!remaining(r) = c - r.cursor
        BY <1>12, <2>2 DEF Blocks!remaining, Likewise
      <3>3. PICK q \in Nat : r.cursor = q * m
        BY <1>12 DEF Sane, Likewise
      <3>4. r.cursor \in Nat /\ c \in Nat /\ r.cursor <= c
        BY <1>1, <1>12 DEF Sane, Structs, Likewise
      <3>5. Blocks!remaining(r) < m
        BY <1>11
      <3> HIDE DEF m, c
      <3> DEFINE x == c - r.cursor
      <3>6. x \in 0..(m - 1) /\ c = r.cursor + x
        BY <3>1, <3>2, <3>4, <3>5
      <3> HIDE DEF x
      <3>7. (q * m + x) % m = x
        BY <3>1, <3>6, RestIs
      <3>8. c % m = x
        BY <3>3, <3>6, <3>7
      <3>9. Blocks!remaining(r) = x
        BY <3>2 DEF x
      <3> QED BY <2>2, <3>8, <3>9 DEF m, c
    <2> QED BY <2>1, <2>2
  <1> QED BY <1>3, <1>12, <1>13 DEF r

\* What an arena of p leaves behind when the next one comes.
Lost(p) == IF p.arena = NULL THEN 0 ELSE p.arena_capacity % 2^p.min

\* A grade of a pool is one of the grades there are.
LEMMA OwnGrades ==
  ASSUME NEW p \in Structs, Ready(p)
  PROVE  /\ p.min \in Grades /\ p.max \in Grades /\ p.min..p.max \subseteq Grades
         /\ \A g \in p.min..p.max : 2^g \in Nat \ {0} /\ 2^g <= p.arena_capacity
         /\ p.arena_capacity \in Nat
  <1> DEFINE a == p.min
             c == p.max
  <1>1. a \in Nat /\ c \in Nat /\ p.arena_capacity \in Nat
    BY DEF Structs
  <1>2. 3 <= a /\ a <= c /\ c <= WORD - 1 /\ WORD \in 4..32
    BY GradeBounds DEF Ready
  <1>3. 2^c <= p.arena_capacity
    BY DEF Ready
  <1> HIDE DEF a, c
  <1>4. a \in 3..(WORD - 1) /\ c \in 3..(WORD - 1) /\ c \in 0..32
    BY <1>1, <1>2
  <1>5. \A g \in a..c : g \in 3..(WORD - 1) /\ g \in 0..32 /\ g <= c
    BY <1>2, <1>4
  <1>6. \A g \in a..c : 2^g \in Nat \ {0} /\ 2^g <= p.arena_capacity
    <2> SUFFICES ASSUME NEW g \in a..c PROVE 2^g \in Nat \ {0} /\ 2^g <= p.arena_capacity
      OBVIOUS
    <2>1. g \in 0..32 /\ g <= c
      BY <1>5
    <2>2. 2^g \in Nat \ {0} /\ 2^c \in Nat /\ 2^g <= 2^c
      BY <1>4, <2>1, Powers
    <2> QED BY <1>1, <1>3, <2>2
  <1> QED BY <1>1, <1>4, <1>5, <1>6, GradesAre DEF a, c

\* A fresh arena.
LEMMA NextSane ==
  ASSUME NEW p, NEW X, NEW T, Sane(p, X, T), Ready(p), NEW fresh \in Arenas \ T
  PROVE  LET r == Blocks!next_arena(p, fresh) IN
         /\ Sane(r, X, T \cup {fresh}) /\ Likewise(p, r) /\ r.arena = fresh
         /\ Blocks!remaining(r) = p.arena_capacity
         /\ Total(r) + Lost(p) = Total(p) + p.arena_capacity
         /\ Lost(p) \in Nat
  <1> DEFINE q == Blocks!split_current(p)
             r == [q EXCEPT !.arena = fresh, !.cursor = 0]
             O == OnLists(q.free)
  <1>1. Blocks!next_arena(p, fresh) = r
    BY DEF Blocks!next_arena
  <1>2. /\ Sane(q, X, T) /\ Likewise(p, q) /\ q.arena = p.arena /\ Total(q) = Total(p)
        /\ Blocks!remaining(q) = Lost(p)
    BY SplitCurrentSane DEF Lost
  <1> HIDE DEF q
  <1>3. q \in Structs /\ p \in Structs /\ T \subseteq Arenas /\ fresh # NULL
    BY <1>2, GradeBounds DEF Sane
  <1>4. /\ r \in Structs /\ r.free = q.free /\ r.cached_bytes = q.cached_bytes
        /\ r.lent_bytes = q.lent_bytes
        /\ r.arena = fresh /\ r.cursor = 0 /\ r.source = q.source /\ r.min = q.min
        /\ r.max = q.max /\ r.arena_capacity = q.arena_capacity
    BY <1>3 DEF Structs
  <1> HIDE DEF r
  <1>5. Likewise(p, r)
    BY <1>2, <1>4 DEF Likewise
  <1>6. Places(r, X, T \cup {fresh})
    <2>1. Places(q, X, T)
      BY <1>2 DEF Sane
    <2>2. ASSUME NEW b \in O \cup X PROVE Laid(r, T \cup {fresh}, b)
      <3>1. Laid(q, T, b)
        BY <2>1 DEF Places
      <3>2. b.arena \in T /\ b.arena # fresh
        BY <3>1 DEF Laid
      <3> QED BY <1>4, <3>1, <3>2 DEF Laid
    <2> HIDE DEF O
    <2>3. OnLists(r.free) = O
      BY <1>4 DEF O
    <2>4. (\A b, c \in O \cup X : b # c => Apart(b, c)) /\ O \cap X = {}
      BY <2>1 DEF Places, O
    <2> QED BY <2>2, <2>3, <2>4 DEF Places
  <1>7. \E k \in Nat : 0 = k * 2^r.min
    <2>1. r.min \in 0..32
      BY <1>3, <1>5, OwnGrades, GradesAre DEF Likewise
    <2>2. 2^r.min \in Nat
      BY <2>1, Powers
    <2>3. 0 = 0 * 2^r.min
      BY <2>2
    <2> QED BY <2>3
  <1>8. Sane(r, X, T \cup {fresh})
    <2>1. r.cursor <= r.arena_capacity
      <3>1. r.arena_capacity \in Nat
        BY <1>4 DEF Structs
      <3> QED BY <1>4, <3>1
    <2>2. /\ Listed(q.free) /\ X \in SUBSET BlockSet /\ IsFiniteSet(X)
          /\ q.lent_bytes = Weight(X) /\ q.cached_bytes = Weight(OnLists(q.free))
      BY <1>2 DEF Sane
    <2> QED BY <1>3, <1>4, <1>6, <1>7, <2>1, <2>2 DEF Sane
  <1>9. Blocks!remaining(r) = p.arena_capacity
    <2>1. p.arena_capacity \in Nat
      BY <1>3 DEF Structs
    <2> QED BY <1>3, <1>4, <1>5, <2>1 DEF Blocks!remaining, Likewise
  <1>10. /\ q.lent_bytes \in Nat /\ q.cached_bytes \in Nat /\ p.arena_capacity \in Nat
         /\ Blocks!remaining(q) \in Nat
    <2>1. /\ q.lent_bytes \in Nat /\ q.cached_bytes \in Nat /\ q.cursor \in Nat
          /\ q.arena_capacity \in Nat /\ p.arena_capacity \in Nat
      BY <1>3 DEF Structs
    <2>2. q.cursor <= q.arena_capacity
      BY <1>2 DEF Sane
    <2> QED BY <2>1, <2>2 DEF Blocks!remaining
  <1>11. Total(r) + Lost(p) = Total(p) + p.arena_capacity
    <2>1. Total(p) = q.lent_bytes + q.cached_bytes + Lost(p)
      BY <1>2 DEF Total
    <2>2. Total(r) = q.lent_bytes + q.cached_bytes + p.arena_capacity
      BY <1>4, <1>9 DEF Total
    <2>3. Lost(p) \in Nat
      BY <1>2, <1>10
    <2> QED BY <1>10, <2>1, <2>2, <2>3
  <1> QED BY <1>1, <1>2, <1>4, <1>5, <1>8, <1>9, <1>10, <1>11

\* What may come beside T when a block of grade g is asked of p.
Offered(p, T, g) == IF Blocks!needs_arena(p, g) THEN Arenas \ T ELSE {NULL}

\* t is p with a block of grade g more out, and that block, fresh used if needed.
Served(t, p, X, T, g, fresh) ==
  /\ Sane(t.pool, X \cup {t.block}, (T \cup {fresh}) \ {NULL})
  /\ Likewise(p, t.pool)
  /\ t.block \in BlockSet \ X /\ t.block.log2 = g
  /\ IF Blocks!needs_arena(p, g)
     THEN /\ fresh \in Arenas \ T /\ t.pool.arena = fresh
          /\ Total(t.pool) + Lost(p) = Total(p) + p.arena_capacity
     ELSE fresh = NULL /\ t.pool.arena = p.arena /\ Total(t.pool) = Total(p)

\* A block of grade g: off its list, off the cursor, or out of a fresh arena.
LEMMA AllocSane ==
  ASSUME NEW p, NEW X, NEW T, Sane(p, X, T), Ready(p), NEW g, g \in p.min..p.max,
         NEW fresh, fresh \in Offered(p, T, g)
  PROVE  Served(Blocks!arnm_graded_block_pool_alloc_log2(p, g, fresh), p, X, T, g, fresh)
  <1> DEFINE t == Blocks!arnm_graded_block_pool_alloc_log2(p, g, fresh)
  <1> HIDE DEF t
  <1>1. p \in Structs /\ T \subseteq Arenas /\ NULL \notin Arenas
    BY GradeBounds DEF Sane
  <1>2. g \in Grades /\ 2^g \in Nat \ {0} /\ 2^g <= p.arena_capacity /\ p.arena_capacity \in Nat
    BY <1>1, OwnGrades
  <1>3. Blocks!remaining(p) \in Nat
    <2>1. p.cursor \in Nat /\ p.cursor <= p.arena_capacity
      BY <1>1 DEF Sane, Structs
    <2> QED BY <1>2, <2>1 DEF Blocks!remaining
  <1>4. CASE ~Blocks!needs_arena(p, g)
    <2>1. fresh = NULL /\ (T \cup {fresh}) \ {NULL} = T
      BY <1>1, <1>4 DEF Offered
    <2>2. Given(t, p, X, T, g)
      <3>1. CASE p.free[g] # << >>
        <4>1. t = Blocks!take(p, g)
          BY <3>1, Zenon DEF Blocks!arnm_graded_block_pool_alloc_log2, t
        <4>2. Given(Blocks!take(p, g), p, X, T, g)
          BY <1>2, <3>1, TakeSane
        <4> QED BY <4>1, <4>2
      <3>2. CASE p.free[g] = << >>
        <4>1. Blocks!remaining(p) >= 2^g
          BY <1>2, <1>3, <1>4, <3>2 DEF Blocks!needs_arena
        <4>2. t = Blocks!cut(p, g)
          BY <3>2, <4>1 DEF Blocks!arnm_graded_block_pool_alloc_log2, t
        <4>3. Given(Blocks!cut(p, g), p, X, T, g)
          BY <1>2, <4>1, CutSane
        <4> QED BY <4>2, <4>3
      <3> QED BY <3>1, <3>2
    <2>3. Served(t, p, X, T, g, fresh)
      BY <1>4, <2>1, <2>2 DEF Given, Served
    <2> QED BY <2>3 DEF t
  <1>5. CASE Blocks!needs_arena(p, g)
    <2> DEFINE q == Blocks!next_arena(p, fresh)
               U == T \cup {fresh}
    <2>1. fresh \in Arenas \ T /\ U \ {NULL} = U
      BY <1>1, <1>5 DEF Offered
    <2>2. /\ Sane(q, X, U) /\ Likewise(p, q) /\ q.arena = fresh
          /\ Blocks!remaining(q) = p.arena_capacity
          /\ Total(q) + Lost(p) = Total(p) + p.arena_capacity
      BY <2>1, NextSane
    <2>3. p.free[g] = << >> /\ ~(Blocks!remaining(p) >= 2^g)
      BY <1>2, <1>3, <1>5 DEF Blocks!needs_arena
    <2>4. t = IF q.free[g] # << >> THEN Blocks!take(q, g) ELSE Blocks!cut(q, g)
      BY <2>3 DEF Blocks!arnm_graded_block_pool_alloc_log2, t
    <2>5. g \in q.min..q.max /\ Blocks!remaining(q) >= 2^g
      BY <1>2, <2>2 DEF Likewise
    <2> HIDE DEF q, U
    <2>6. Given(t, q, X, U, g)
      <3>1. CASE q.free[g] # << >>
        <4>1. Given(Blocks!take(q, g), q, X, U, g)
          BY <1>2, <2>2, <3>1, TakeSane
        <4> QED BY <2>4, <3>1, <4>1
      <3>2. CASE q.free[g] = << >>
        <4>1. Given(Blocks!cut(q, g), q, X, U, g)
          BY <1>2, <2>2, <2>5, CutSane
        <4> QED BY <2>4, <3>2, <4>1
      <3> QED BY <3>1, <3>2
    <2>7. Likewise(p, t.pool)
      BY <2>2, <2>6 DEF Given, Likewise
    <2>8. Served(t, p, X, T, g, fresh)
      BY <1>5, <2>1, <2>2, <2>6, <2>7 DEF Given, Served, U
    <2> QED BY <2>8 DEF t
  <1> QED BY <1>4, <1>5

-----------------------------------------------------------------------------
(* Sizes and grades.                                                       *)

\* Some exponent is the first whose power carries that many bytes.
LEMMA LogFits ==
  ASSUME NEW bytes \in 1..UINT32_MAX
  PROVE  /\ Blocks!arnm_log2_power_of_two(bytes) \in 0..WORD
         /\ bytes <= 2^Blocks!arnm_log2_power_of_two(bytes)
  <1> DEFINE Fits(e) == bytes <= 2^e /\ (e = 0 \/ 2^(e - 1) < bytes)
             P == {n \in Nat : n <= WORD /\ bytes <= 2^n => \E e \in 0..n : Fits(e)}
  <1>1. WORD \in 4..32 /\ UINT32_MAX = 2^WORD - 1
    BY GradeBounds
  <1>2. 2^WORD \in Nat /\ bytes \in Nat /\ bytes <= 2^WORD
    <2>1. 2^WORD \in Nat
      BY <1>1, Powers
    <2> DEFINE w == 2^WORD
    <2> HIDE DEF w
    <2>2. w \in Nat /\ bytes \in 1..(w - 1)
      BY <1>1, <2>1 DEF w
    <2>3. bytes \in Nat /\ bytes <= w
      BY <2>2
    <2> QED BY <2>1, <2>3 DEF w
  <1>3. 0 \in P
    <2>1. bytes <= 2^0 => Fits(0)
      BY Zenon DEF Fits
    <2>2. 0 \in 0..0 /\ 0 \in Nat
      OBVIOUS
    <2> HIDE DEF Fits
    <2> QED BY <2>1, <2>2
  <1>4. ASSUME NEW n \in P PROVE n + 1 \in P
    <2>1. n \in Nat
      BY <1>4
    <2>2. SUFFICES ASSUME n + 1 <= WORD, bytes <= 2^(n + 1) PROVE \E e \in 0..(n + 1) : Fits(e)
      BY <2>1
    <2>3. CASE bytes <= 2^n
      <3>1. n <= WORD
        BY <1>1, <2>1, <2>2
      <3>2. \E e \in 0..n : Fits(e)
        BY <1>4, <2>3, <3>1
      <3> HIDE DEF Fits
      <3>3. \A e \in 0..n : e \in 0..(n + 1)
        BY <2>1
      <3> QED BY <3>2, <3>3
    <2>4. CASE ~(bytes <= 2^n)
      <3>1. n \in 0..32
        BY <1>1, <2>1, <2>2
      <3>2. 2^n \in Nat
        BY <3>1, Powers
      <3>3. (n + 1) - 1 = n /\ n + 1 \in 0..(n + 1)
        BY <2>1
      <3>4. 2^((n + 1) - 1) < bytes
        BY <1>2, <2>4, <3>2, <3>3
      <3> QED BY <2>2, <3>3, <3>4 DEF Fits
    <2> QED BY <2>3, <2>4
  <1>5. \E e \in 0..WORD : Fits(e)
    <2>1. WORD \in P
      <3>1. P = Nat
        <4> HIDE DEF P
        <4> QED BY <1>3, <1>4, NatSetInduction, P \in SUBSET Nat DEF P
      <3> HIDE DEF P
      <3> QED BY <1>1, <3>1
    <2> HIDE DEF Fits
    <2> QED BY <1>1, <1>2, <2>1
  <1> DEFINE E == CHOOSE e \in 0..WORD : Fits(e)
  <1>6. Blocks!arnm_log2_power_of_two(bytes) = E
    BY Zenon DEF Blocks!arnm_log2_power_of_two
  <1>7. E \in 0..WORD /\ Fits(E)
    <2> HIDE DEF Fits
    <2> QED BY <1>5
  <1> HIDE DEF E
  <1> QED BY <1>6, <1>7

\* Rounding up to 8 loses no byte.
LEMMA AlignCarries ==
  ASSUME NEW size \in 0..UINT32_MAX, Blocks!arnm_align8_u32(size) # 0
  PROVE  Blocks!arnm_align8_u32(size) \in 1..UINT32_MAX /\ size <= Blocks!arnm_align8_u32(size)
  <1>1. UINT32_MAX \in Nat /\ UINT32_MAX > 8 /\ (UINT32_MAX + 1) % 8 = 0
    BY WidthAssumption
  <1>2. ~(size > UINT32_MAX - 7) /\ Blocks!arnm_align8_u32(size) = ((size + 7) \div 8) * 8
    BY DEF Blocks!arnm_align8_u32, Blocks!ARNM_MAX_ALLOC_SIZE
  <1> DEFINE x == ((size + 7) \div 8) * 8
  <1>3. x \in 0..(UINT32_MAX - 7) /\ size <= x
    BY <1>1, <1>2
  <1> HIDE DEF x
  <1>4. x # 0
    BY <1>2 DEF x
  <1> QED BY <1>1, <1>2, <1>3, <1>4 DEF x

\* A request that is not refused has a grade here that carries it.
LEMMA GradeCarries ==
  ASSUME bpool \in Structs, Ready(bpool), NEW size \in 0..UINT32_MAX,
         Blocks!refusal(size) = Blocks!SUCCESS
  PROVE  /\ Blocks!size_to_log2(size) \in bpool.min..bpool.max
         /\ size <= 2^Blocks!size_to_log2(size) /\ size \in Nat
  <1> DEFINE a == Blocks!arnm_align8_u32(size)
             e == Blocks!exponent_of(size)
             g == Blocks!size_to_log2(size)
             lo == bpool.min
             hi == bpool.max
  <1>1. a # 0 /\ ~(e > hi)
    BY DEF Blocks!refusal, Blocks!SUCCESS, Blocks!INVALID_PARAM, Blocks!OVERFLOW, Blocks!SIZE_EXCEED
  <1>2. a \in 1..UINT32_MAX /\ size <= a
    BY <1>1, AlignCarries
  <1>3. e = Blocks!arnm_log2_power_of_two(a)
    BY DEF Blocks!exponent_of
  <1> HIDE DEF a, e
  <1>4. e \in 0..WORD /\ a <= 2^e
    BY <1>2, <1>3, LogFits
  <1>5. lo \in Grades /\ hi \in Grades /\ lo <= hi /\ lo \in 0..32 /\ hi \in 0..32
    BY OwnGrades, GradesAre DEF Ready
  <1>6. g = IF e < lo THEN lo ELSE e
    BY DEF Blocks!size_to_log2, Blocks!raised, e
  <1> HIDE DEF lo, hi, g
  <1>7. g \in lo..hi /\ e <= g /\ e \in 0..32 /\ g \in 0..32
    <2>1. WORD \in 4..32
      BY GradeBounds
    <2> QED BY <1>1, <1>4, <1>5, <1>6, <2>1
  <1>8. 2^e <= 2^g /\ 2^e \in Nat /\ 2^g \in Nat
    BY <1>7, Powers
  <1>9. size \in Nat /\ a \in Nat /\ size <= 2^g
    <2>1. UINT32_MAX \in Nat
      BY WidthAssumption
    <2> QED BY <1>2, <1>4, <1>8, <2>1
  <1> QED BY <1>7, <1>9 DEF g, lo, hi

\* An exponent the caller names, raised, is a grade of the pool too.
LEMMA NamedGrade ==
  ASSUME bpool \in Structs, Ready(bpool), NEW log2 \in Nat, log2 <= bpool.max
  PROVE  /\ Blocks!raised(log2) \in bpool.min..bpool.max
         /\ 2^log2 \in Nat /\ 2^log2 <= 2^Blocks!raised(log2)
  <1> DEFINE lo == bpool.min
             hi == bpool.max
             g == Blocks!raised(log2)
  <1>1. lo \in Grades /\ hi \in Grades /\ lo <= hi /\ lo \in 0..32 /\ hi \in 0..32
    BY OwnGrades, GradesAre DEF Ready
  <1>2. g = IF log2 < lo THEN lo ELSE log2
    BY DEF Blocks!raised
  <1>3. log2 <= hi
    OBVIOUS
  <1> HIDE DEF lo, hi, g
  <1>4. g \in lo..hi /\ log2 <= g /\ log2 \in 0..32 /\ g \in 0..32
    BY <1>1, <1>2, <1>3
  <1>5. 2^log2 \in Nat /\ 2^log2 <= 2^g
    BY <1>4, Powers
  <1> QED BY <1>4, <1>5 DEF g, lo, hi

-----------------------------------------------------------------------------
(* The invariant of the pool.                                              *)

\* Over n arenas: every byte is out, on a list or ahead, but for what each arena
\* left behind lost.
Filled(p, n) ==
  IF n = 0 THEN p.arena = NULL /\ Total(p) = 0
  ELSE /\ p.arena # NULL
       /\ Total(p) + (n - 1) * (p.arena_capacity % 2^p.min) = n * p.arena_capacity

\* A block with a client, and what it was asked with.
Held == [block : BlockSet, size : Nat]

\* The lent blocks and the lists share out the arenas taken, to the byte; a pool
\* without its chain has taken none.
BlocksInv ==
  /\ Sane(bpool, Blocks!LentBlocks, btaken)
  /\ Filled(bpool, Cardinality(btaken))
  /\ btaken \subseteq bopened /\ bopened \subseteq Arenas
  /\ blent \subseteq Held /\ IsFiniteSet(blent)
  /\ \A l, m \in blent : l # m => l.block # m.block
  /\ \A l \in blent : l.size <= 2^l.block.log2
  /\ bpool.min \in 0..32
  /\ bpool.source => Ready(bpool)
  /\ ~bpool.source => btaken = {}

\* What follows from it for every operation.
LEMMA BlocksKnow ==
  ASSUME BlocksInv
  PROVE  /\ bpool \in Structs /\ btaken \subseteq Arenas /\ IsFiniteSet(btaken)
         /\ \A l \in blent : l.block \in Blocks!LentBlocks /\ l.block \in BlockSet
         /\ \A l \in blent : bpool.source /\ l.block.log2 \in Grades
         /\ btaken = {} => blent = {} /\ Blocks!LentBlocks = {} /\ OnLists(bpool.free) = {}
         /\ btaken = {} => bpool.arena = NULL
  <1>1. /\ bpool \in Structs /\ btaken \subseteq Arenas /\ Places(bpool, Blocks!LentBlocks, btaken)
        /\ Blocks!LentBlocks \in SUBSET BlockSet /\ bpool.arena \in btaken \cup {NULL}
    BY DEF BlocksInv, Sane
  <1>2. IsFiniteSet(btaken)
    BY <1>1, GradeBounds, FS_Subset
  <1>3. \A l \in blent : l.block \in Blocks!LentBlocks /\ l.block \in BlockSet
    BY <1>1 DEF Blocks!LentBlocks
  <1>4. \A b \in OnLists(bpool.free) \cup Blocks!LentBlocks : Laid(bpool, btaken, b)
    BY <1>1 DEF Places
  <1>5. \A l \in blent : bpool.source /\ l.block.log2 \in Grades
    <2> SUFFICES ASSUME NEW l \in blent PROVE bpool.source /\ l.block.log2 \in Grades
      OBVIOUS
    <2> DEFINE b == l.block
    <2>1. b \in Blocks!LentBlocks
      BY <1>3
    <2> HIDE DEF b
    <2>2. b.arena \in btaken /\ b.log2 \in bpool.min..bpool.max
      BY <1>4, <2>1 DEF Laid
    <2>3. bpool.source /\ Ready(bpool)
      BY <2>2 DEF BlocksInv
    <2> QED BY <1>1, <2>2, <2>3, OwnGrades DEF b
  <1>6. ASSUME btaken = {} PROVE blent = {} /\ Blocks!LentBlocks = {} /\ OnLists(bpool.free) = {}
    <2>1. \A b \in OnLists(bpool.free) \cup Blocks!LentBlocks : FALSE
      BY <1>4, <1>6 DEF Laid
    <2> QED BY <1>3, <2>1
  <1> QED BY <1>1, <1>2, <1>3, <1>5, <1>6

\* One arena more, and one arena's leavings.
LEMMA FilledMore ==
  ASSUME NEW p, NEW r, NEW n \in Nat, Filled(p, n), r.arena # NULL,
         r.arena_capacity = p.arena_capacity, r.min = p.min,
         Total(r) + Lost(p) = Total(p) + p.arena_capacity,
         p.arena_capacity \in Nat, p.arena_capacity % 2^p.min \in Nat,
         Total(p) \in Nat, Total(r) \in Nat
  PROVE  Filled(r, n + 1)
  <1> DEFINE c == p.arena_capacity
             d == c % 2^p.min
             a == Total(p)
             b == Total(r)
  <1>1. c \in Nat /\ d \in Nat /\ a \in Nat /\ b \in Nat
    OBVIOUS
  <1>2. b + Lost(p) = a + c
    OBVIOUS
  <1>3. Lost(p) = IF n = 0 THEN 0 ELSE d
    BY DEF Lost, Filled
  <1>4. n = 0 => a = 0
    BY DEF Filled
  <1>5. n # 0 => a + (n - 1) * d = n * c
    BY DEF Filled
  <1>6. (n + 1) - 1 = n /\ n + 1 # 0
    OBVIOUS
  <1> HIDE DEF a, b, c, d
  <1>7. b + n * d = (n + 1) * c
    <2>1. CASE n = 0
      <3>1. n * d = 0 /\ (n + 1) * c = c
        BY <1>1, <2>1
      <3> QED BY <1>1, <1>2, <1>3, <1>4, <2>1, <3>1
    <2>2. CASE n # 0
      <3> DEFINE x == (n - 1) * d
                 y == n * d
                 z == n * c
                 w == (n + 1) * c
      <3>1. n - 1 \in Nat /\ (n - 1) + 1 = n
        BY <2>2
      <3>2. x \in Nat /\ y = x + d
        <4>1. ((n - 1) + 1) * d = (n - 1) * d + d /\ (n - 1) * d \in Nat
          BY <1>1, <3>1
        <4> QED BY <3>1, <4>1
      <3>3. z \in Nat /\ w = z + c
        BY <1>1
      <3>4. a + x = z
        BY <1>5, <2>2
      <3> HIDE DEF x, y, z, w
      <3>5. b + y = w
        BY <1>1, <1>2, <1>3, <2>2, <3>2, <3>3, <3>4
      <3> QED BY <3>5 DEF y, w
    <2> QED BY <2>1, <2>2
  <1>8. Total(r) + ((n + 1) - 1) * (r.arena_capacity % 2^r.min) = (n + 1) * r.arena_capacity
    <2>1. r.arena_capacity = c /\ r.arena_capacity % 2^r.min = d /\ Total(r) = b
      BY DEF a, b, c, d
    <2> QED BY <1>6, <1>7, <2>1
  <1> QED BY <1>6, <1>8 DEF Filled

\* Sums of a sound pool are numbers.
LEMMA TotalIs ==
  ASSUME NEW p, NEW X, NEW T, Sane(p, X, T)
  PROVE  /\ Total(p) \in Nat /\ p.arena_capacity \in Nat /\ Blocks!remaining(p) \in Nat
         /\ Ready(p) => p.arena_capacity % 2^p.min \in Nat
  <1>1. /\ p.lent_bytes \in Nat /\ p.cached_bytes \in Nat /\ p.cursor \in Nat
        /\ p.arena_capacity \in Nat /\ p.cursor <= p.arena_capacity /\ p \in Structs
    BY DEF Sane, Structs
  <1>2. Blocks!remaining(p) \in Nat
    BY <1>1 DEF Blocks!remaining
  <1>3. ASSUME Ready(p) PROVE p.arena_capacity % 2^p.min \in Nat
    <2> DEFINE c == p.arena_capacity
               m == 2^p.min
    <2>1. c \in Nat /\ m \in Nat \ {0}
      <3>1. p.min \in 0..32
        BY <1>1, <1>3, OwnGrades, GradesAre
      <3> QED BY <1>1, <3>1, Powers
    <2> HIDE DEF c, m
    <2>2. c % m \in Nat
      BY <2>1
    <2> QED BY <2>2 DEF c, m
  <1> QED BY <1>1, <1>2, <1>3 DEF Total

\* A pool with nothing on its lists and no arena is sound over none.
LEMMA EmptySane ==
  ASSUME NEW p \in Structs, p.free = Blocks!NoLists, p.lent_bytes = 0, p.cached_bytes = 0,
         p.arena = NULL, p.cursor = 0, p.min \in 0..32
  PROVE  Sane(p, {}, {}) /\ Filled(p, 0)
  <1>1. Blocks!NoLists = [g \in Grades |-> << >>]
    BY DEF Blocks!NoLists, Grades
  <1>2. Range(<< >>) = {} /\ IsInjective(<< >>)
    BY DEF Range, IsInjective
  <1>3. \A g \in Grades : p.free[g] = << >>
    BY <1>1
  <1>4. Listed(p.free)
    <2>1. p.free \in [Grades -> Seq(BlockSet)]
      BY DEF Structs
    <2> QED BY <1>2, <1>3, <2>1 DEF Listed
  <1>5. OnLists(p.free) = {}
    BY <1>2, <1>3 DEF OnLists
  <1>6. Weight({}) = 0 /\ IsFiniteSet({})
    <2>1. IsFiniteSet({}) /\ {} \in SUBSET BlockSet
      BY FS_EmptySet
    <2> QED BY <2>1, WeightFacts
  <1>7. Places(p, {}, {})
    BY <1>5 DEF Places
  <1>8. \E q \in Nat : p.cursor = q * 2^p.min
    <2>1. 2^p.min \in Nat
      BY Powers
    <2>2. 0 = 0 * 2^p.min
      BY <2>1
    <2> QED BY <2>2
  <1>9. p.cursor <= p.arena_capacity
    BY DEF Structs
  <1>10. Sane(p, {}, {})
    BY <1>4, <1>5, <1>6, <1>7, <1>8, <1>9 DEF Sane
  <1>11. Filled(p, 0)
    BY DEF Filled, Total, Blocks!remaining
  <1> QED BY <1>10, <1>11

\* A step after which no block and no arena is out.
LEMMA EmptyStep ==
  ASSUME bpool' \in Structs, bpool'.free = Blocks!NoLists, bpool'.lent_bytes = 0,
         bpool'.cached_bytes = 0, bpool'.arena = NULL, bpool'.cursor = 0,
         bpool'.min \in 0..32, bpool'.source => Ready(bpool'),
         btaken' = {}, blent' = {}, bopened' \subseteq Arenas
  PROVE  BlocksInv'
  <1> DEFINE p == bpool'
  <1> HIDE DEF p
  <1>1. Sane(p, {}, {}) /\ Filled(p, 0)
    BY EmptySane DEF p
  <1>2. Blocks!LentBlocks' = {} /\ Cardinality(btaken') = 0
    BY FS_EmptySet DEF Blocks!LentBlocks
  <1>3. IsFiniteSet(blent')
    BY FS_EmptySet
  <1>4. Sane(bpool', Blocks!LentBlocks', btaken') /\ Filled(bpool', Cardinality(btaken'))
    BY <1>1, <1>2 DEF p
  <1>5. btaken' \subseteq bopened' /\ blent' \subseteq Held
    OBVIOUS
  <1> QED BY <1>3, <1>4, <1>5 DEF BlocksInv

\* A zeroed struct is one of the structs, with nothing on its lists.
LEMMA ZeroedIs ==
  /\ Blocks!Zeroed \in Structs /\ Blocks!Zeroed.free = Blocks!NoLists
  /\ Blocks!Zeroed.lent_bytes = 0
  /\ Blocks!Zeroed.cached_bytes = 0 /\ Blocks!Zeroed.arena = NULL /\ Blocks!Zeroed.cursor = 0
  /\ Blocks!Zeroed.min = 0 /\ Blocks!Zeroed.source = FALSE
  <1>1. Blocks!NoLists \in [Grades -> Seq(BlockSet)]
    <2>1. << >> \in Seq(BlockSet)
      OBVIOUS
    <2> QED BY <2>1 DEF Blocks!NoLists, Grades
  <1> QED BY <1>1 DEF Blocks!Zeroed, Structs

\* Before init.
LEMMA BlocksStart == Blocks!Init => BlocksInv
  <1> SUFFICES ASSUME Blocks!Init PROVE BlocksInv
    OBVIOUS
  <1>1. bpool = Blocks!Zeroed /\ btaken = {} /\ bopened = {} /\ blent = {}
    BY DEF Blocks!Init
  <1>2. Sane(Blocks!Zeroed, {}, {}) /\ Filled(Blocks!Zeroed, 0)
    BY ZeroedIs, EmptySane
  <1>3. Blocks!LentBlocks = {} /\ Cardinality(btaken) = 0 /\ IsFiniteSet(blent)
    BY <1>1, FS_EmptySet DEF Blocks!LentBlocks
  <1>4. bpool.min \in 0..32 /\ ~bpool.source
    BY <1>1, ZeroedIs
  <1> QED BY <1>1, <1>2, <1>3, <1>4 DEF BlocksInv

\* A step that changes the result alone.
LEMMA BlocksStill == BlocksInv /\ UNCHANGED <<bpool, btaken, bopened, blent>> => BlocksInv'
  <1> SUFFICES ASSUME BlocksInv, UNCHANGED <<bpool, btaken, bopened, blent>> PROVE BlocksInv'
    OBVIOUS
  <1>1. bpool' = bpool /\ btaken' = btaken /\ bopened' = bopened /\ blent' = blent
    OBVIOUS
  <1>2. Blocks!LentBlocks' = Blocks!LentBlocks
    BY <1>1 DEF Blocks!LentBlocks
  <1> QED BY <1>1, <1>2 DEF BlocksInv

\* What the options come to makes a pool ready: the default for a zero, a capacity
\* of at least one block of the largest grade, capped below the width.
LEMMA OptionsReady ==
  ASSUME NEW options \in BlockOptions,
         Blocks!arnm_graded_block_pool_options_validate(Blocks!filled_in(options))
  PROVE  LET o == Blocks!filled_in(options) IN
         /\ o.min \in Nat /\ o.max \in Nat /\ o.min \in 0..32
         /\ Blocks!MIN_LOG2 <= o.min /\ o.min <= o.max /\ o.max <= Blocks!MAX_LOG2
         /\ Blocks!arena_capacity_of(o) \in Nat /\ 2^o.max <= Blocks!arena_capacity_of(o)
  <1> DEFINE o == Blocks!filled_in(options)
  <1>1. o.min \in Nat /\ o.max \in Nat /\ o.arenas \in Nat \ {0}
    <2>1. /\ options.min \in Nat /\ options.max \in Nat /\ options.arenas \in Nat
          /\ DEFAULT_MIN_LOG2 \in Nat /\ DEFAULT_MAX_LOG2 \in Nat
          /\ DEFAULT_ALLOC_ARENA_CAPACITY \in Nat \ {0}
      BY GradeBounds
    <2> QED BY <2>1 DEF Blocks!filled_in
  <1>2. Blocks!MIN_LOG2 <= o.min /\ o.min <= o.max /\ o.max <= Blocks!MAX_LOG2
    BY DEF Blocks!arnm_graded_block_pool_options_validate
  <1> HIDE DEF o
  <1> DEFINE lo == o.min
             hi == o.max
             n == o.arenas
             w == 2^hi
             W == 2^WORD
             H == 2^(WORD - 1)
  <1>3. WORD \in 4..32 /\ lo \in 0..32 /\ hi \in 0..32 /\ WORD - 1 \in 0..32 /\ hi <= WORD - 1
    BY <1>1, <1>2, GradeBounds
  <1>4. w \in Nat \ {0} /\ H \in Nat /\ w <= H
    BY <1>3, Powers
  <1>5. 8 <= H /\ W = 2 * H
    <2>1. 3 \in 0..32 /\ 3 <= WORD - 1
      BY <1>3
    <2>2. 2^3 <= H
      BY <1>3, <2>1, Powers
    <2>3. WORD - 1 \in 0..31 /\ (WORD - 1) + 1 = WORD
      BY <1>3
    <2>4. Pow((WORD - 1) + 1) = 2 * Pow(WORD - 1)
      BY <2>3, PowerStep
    <2>5. Pow(WORD) = 2^WORD /\ Pow(WORD - 1) = 2^(WORD - 1)
      BY Zenon DEF Pow
    <2>6. 2^3 = 8
      OBVIOUS
    <2> QED BY <2>2, <2>3, <2>4, <2>5, <2>6
  <1>6. UINT32_MAX = W - 1
    BY GradeBounds
  <1> HIDE DEF w, W, H, n, lo, hi
  <1>7. Blocks!ARNM_MAX_ALLOC_SIZE \in Nat /\ w <= Blocks!ARNM_MAX_ALLOC_SIZE
    BY <1>4, <1>5, <1>6 DEF Blocks!ARNM_MAX_ALLOC_SIZE
  <1>8. n \in Nat \ {0} /\ w * n \in Nat /\ w <= w * n
    <2>1. n \in Nat \ {0}
      BY <1>1 DEF n
    <2>2. PICK k \in Nat : n = 1 + k
      <3>1. n - 1 \in Nat /\ n = 1 + (n - 1)
        BY <2>1
      <3> QED BY <3>1
    <2>3. w * n = w + w * k /\ w * k \in Nat
      BY <1>4, <2>2
    <2> QED BY <1>4, <2>1, <2>3
  <1>9. Blocks!arena_capacity_of(o)
          = IF w * n > Blocks!ARNM_MAX_ALLOC_SIZE THEN Blocks!ARNM_MAX_ALLOC_SIZE ELSE w * n
    BY Zenon DEF Blocks!arena_capacity_of, w, n, hi
  <1>10. Blocks!arena_capacity_of(o) \in Nat /\ w <= Blocks!arena_capacity_of(o)
    BY <1>7, <1>8, <1>9
  <1> QED BY <1>1, <1>2, <1>3, <1>10 DEF o, w, lo, hi

\* Init, reset, release and destroy.
LEMMA BlocksInitStep ==
  ASSUME BlocksInv, NEW options \in BlockOptions, Blocks!arnm_graded_block_pool_init(options)
  PROVE  BlocksInv'
  <1> DEFINE o == Blocks!filled_in(options)
  <1>1. CASE \E r : Blocks!Refuse(r)
    BY <1>1, BlocksStill DEF Blocks!Refuse
  <1>2. CASE /\ Blocks!arnm_graded_block_pool_options_validate(o)
             /\ bpool' = [Blocks!Zeroed EXCEPT !.source = TRUE, !.min = o.min, !.max = o.max,
                                       !.arena_capacity = Blocks!arena_capacity_of(o)]
             /\ UNCHANGED <<btaken, bopened, blent>>
    <2> DEFINE c == Blocks!arena_capacity_of(o)
    <2>1. /\ o.min \in Nat /\ o.max \in Nat /\ o.min \in 0..32
          /\ Blocks!MIN_LOG2 <= o.min /\ o.min <= o.max /\ o.max <= Blocks!MAX_LOG2
          /\ c \in Nat /\ 2^o.max <= c
      BY <1>2, OptionsReady
    <2>2. btaken = {} /\ blent = {} /\ bopened \subseteq Arenas
      <3>1. ~bpool.source
        BY DEF Blocks!arnm_graded_block_pool_init
      <3> QED BY <3>1, BlocksKnow DEF BlocksInv
    <2> DEFINE lo == o.min
               hi == o.max
    <2>3. bpool' = [Blocks!Zeroed EXCEPT !.source = TRUE, !.min = lo, !.max = hi,
                                         !.arena_capacity = c]
      BY <1>2
    <2>4. lo \in Nat /\ hi \in Nat /\ c \in Nat
      BY <2>1
    <2> HIDE DEF o, c, lo, hi
    <2>5. /\ bpool' \in Structs /\ bpool'.free = Blocks!NoLists /\ bpool'.lent_bytes = 0
          /\ bpool'.cached_bytes = 0 /\ bpool'.arena = NULL /\ bpool'.cursor = 0
          /\ bpool'.min = lo /\ bpool'.max = hi /\ bpool'.arena_capacity = c
      BY <2>3, <2>4, ZeroedIs DEF Structs
    <2>6. Ready(bpool')
      BY <2>1, <2>5 DEF Ready, lo, hi
    <2> QED BY <1>2, <2>1, <2>2, <2>5, <2>6, EmptyStep DEF lo
  <1> QED BY <1>1, <1>2, Zenon DEF Blocks!arnm_graded_block_pool_init

\* An emptied pool keeps what init made of it.
LEMMA EmptiedIs ==
  ASSUME BlocksInv
  PROVE  LET r == Blocks!emptied(bpool) IN
         /\ r \in Structs /\ r.free = Blocks!NoLists /\ r.lent_bytes = 0 /\ r.cached_bytes = 0
         /\ r.arena = NULL /\ r.cursor = 0 /\ r.min = bpool.min /\ r.max = bpool.max
         /\ r.arena_capacity = bpool.arena_capacity /\ r.source = bpool.source
  <1>1. bpool \in Structs /\ Blocks!NoLists \in [Grades -> Seq(BlockSet)]
    BY BlocksKnow, ZeroedIs DEF Structs
  <1> QED BY <1>1 DEF Blocks!emptied, Structs

\* The steps of reset, release and destroy: every block ends, the lent ones too.
LEMMA BlocksResetStep ==
  ASSUME BlocksInv, Blocks!arnm_graded_block_pool_reset
  PROVE  BlocksInv'
  <1> DEFINE r == Blocks!emptied(bpool)
  <1>1. /\ r \in Structs /\ r.free = Blocks!NoLists /\ r.lent_bytes = 0 /\ r.cached_bytes = 0
        /\ r.arena = NULL /\ r.cursor = 0 /\ r.min = bpool.min /\ r.max = bpool.max
        /\ r.arena_capacity = bpool.arena_capacity /\ r.source = bpool.source
    BY EmptiedIs
  <1>2. bpool' = r /\ btaken' = {} /\ blent' = {} /\ bopened' = bopened
    BY DEF Blocks!arnm_graded_block_pool_reset
  <1> HIDE DEF r
  <1>3. bpool.source => Ready(r)
    BY <1>1 DEF BlocksInv, Ready
  <1>4. bpool.min \in 0..32 /\ bopened \subseteq Arenas
    BY DEF BlocksInv
  <1> QED BY <1>1, <1>2, <1>3, <1>4, EmptyStep

\* Release lets go of the arenas and of the chain as well.
LEMMA BlocksReleaseStep ==
  ASSUME BlocksInv, Blocks!arnm_graded_block_pool_release
  PROVE  BlocksInv'
  <1> DEFINE e == Blocks!emptied(bpool)
             r == [e EXCEPT !.source = FALSE]
  <1>1. /\ e \in Structs /\ e.free = Blocks!NoLists /\ e.lent_bytes = 0 /\ e.cached_bytes = 0
        /\ e.arena = NULL /\ e.cursor = 0 /\ e.min = bpool.min
    BY EmptiedIs
  <1>2. bpool' = r /\ btaken' = {} /\ blent' = {} /\ bopened' = {}
    BY DEF Blocks!arnm_graded_block_pool_release
  <1> HIDE DEF e
  <1>3. /\ r \in Structs /\ r.free = Blocks!NoLists /\ r.lent_bytes = 0 /\ r.cached_bytes = 0
        /\ r.arena = NULL /\ r.cursor = 0 /\ r.min = bpool.min /\ ~r.source
    BY <1>1 DEF Structs
  <1> HIDE DEF r
  <1>4. bpool.min \in 0..32
    BY DEF BlocksInv
  <1> QED BY <1>2, <1>3, <1>4, EmptyStep

\* Destroy leaves a zeroed struct.
LEMMA BlocksDestroyStep ==
  ASSUME BlocksInv, Blocks!arnm_graded_block_pool_destroy
  PROVE  BlocksInv'
  <1>1. bpool' = Blocks!Zeroed /\ btaken' = {} /\ blent' = {} /\ bopened' = {}
    BY DEF Blocks!arnm_graded_block_pool_destroy
  <1>2. 0 \in 0..32
    OBVIOUS
  <1> QED BY <1>1, <1>2, ZeroedIs, EmptyStep

\* The chain offers an arena the pool does not hold.
LEMMA OffersFresh ==
  ASSUME BlocksInv
  PROVE  Blocks!chain_offers \subseteq Arenas \ btaken
  BY DEF BlocksInv, Blocks!chain_offers

\* A block handed out, and one given back on the way if one is.
LEMMA HandOutStep ==
  ASSUME BlocksInv, bpool.source, NEW g \in bpool.min..bpool.max,
         NEW size \in Nat, size <= 2^g,
         NEW gone, gone = {} \/ \E l \in blent : gone = {l},
         Blocks!hand_out(g, size, gone)
  PROVE  BlocksInv'
  <1>1. CASE \E r : Blocks!Refuse(r)
    BY <1>1, BlocksStill DEF Blocks!Refuse
  <1> DEFINE got(fresh) == Blocks!arnm_graded_block_pool_alloc_log2(bpool, g, fresh)
             After(t) == IF gone = {} THEN t.pool
                         ELSE Blocks!arnm_graded_block_pool_free_log2(t.pool,
                                (CHOOSE x \in gone : TRUE).block)
  <1>2. ASSUME NEW fresh \in IF Blocks!needs_arena(bpool, g) THEN Blocks!chain_offers ELSE {NULL},
               bpool' = After(got(fresh)),
               blent' = (blent \ gone) \cup {[block |-> got(fresh).block, size |-> size]},
               btaken' = (btaken \cup {fresh}) \ {NULL},
               bopened' = (bopened \cup {fresh}) \ {NULL}
        PROVE  BlocksInv'
    <2> DEFINE t == got(fresh)
               X == Blocks!LentBlocks
               n == Cardinality(btaken)
    <2>1. /\ Sane(bpool, X, btaken) /\ Ready(bpool) /\ Filled(bpool, n) /\ btaken \subseteq bopened
          /\ bopened \subseteq Arenas /\ blent \subseteq Held /\ IsFiniteSet(blent)
          /\ (\A l, m \in blent : l # m => l.block # m.block)
          /\ (\A l \in blent : l.size <= 2^l.block.log2)
          /\ bpool.min \in 0..32
      BY DEF BlocksInv
    <2>2. /\ bpool \in Structs /\ btaken \subseteq Arenas /\ IsFiniteSet(btaken)
          /\ NULL \notin Arenas
      BY BlocksKnow, GradeBounds
    <2>3. fresh \in Offered(bpool, btaken, g)
      BY <1>2, OffersFresh DEF Offered
    <2> HIDE DEF X
    <2>3a. Served(t, bpool, X, btaken, g, fresh)
      <3>1. Sane(bpool, X, btaken) /\ Ready(bpool) /\ g \in bpool.min..bpool.max
        BY <2>1
      <3> QED BY <2>3, <3>1, AllocSane
    <2> HIDE DEF t
    <2>4. /\ Sane(t.pool, X \cup {t.block}, (btaken \cup {fresh}) \ {NULL})
          /\ Likewise(bpool, t.pool)
          /\ t.block \in BlockSet \ X /\ t.block.log2 = g
          /\ IF Blocks!needs_arena(bpool, g)
             THEN /\ fresh \in Arenas \ btaken /\ t.pool.arena = fresh
                  /\ Total(t.pool) + Lost(bpool) = Total(bpool) + bpool.arena_capacity
             ELSE fresh = NULL /\ t.pool.arena = bpool.arena /\ Total(t.pool) = Total(bpool)
      BY <2>3a DEF Served
    <2>5. bpool' = After(t) /\ blent' = (blent \ gone) \cup {[block |-> t.block, size |-> size]}
      BY <1>2 DEF t
    <2> DEFINE b == t.block
               U == (btaken \cup {fresh}) \ {NULL}
    <2>6. /\ U = btaken' /\ U \subseteq Arenas /\ IsFiniteSet(U)
          /\ U \subseteq bopened' /\ bopened' \subseteq Arenas
          /\ Blocks!needs_arena(bpool, g) => Cardinality(U) = n + 1
          /\ ~Blocks!needs_arena(bpool, g) => U = btaken
      <3>1. CASE Blocks!needs_arena(bpool, g)
        <4>1. fresh \in Arenas \ btaken /\ fresh # NULL /\ U = btaken \cup {fresh}
          BY <2>2, <2>4, <3>1
        <4>2. IsFiniteSet(U) /\ Cardinality(U) = n + 1
          BY <2>2, <4>1, FS_AddElement
        <4> QED BY <1>2, <2>1, <2>2, <3>1, <4>1, <4>2
      <3>2. CASE ~Blocks!needs_arena(bpool, g)
        <4>1. fresh = NULL /\ U = btaken
          BY <2>2, <2>4, <3>2
        <4> QED BY <1>2, <2>1, <2>2, <3>2, <4>1
      <3> QED BY <3>1, <3>2
    <2>7. Filled(t.pool, Cardinality(U))
      <3>1. /\ t.pool.arena_capacity = bpool.arena_capacity /\ t.pool.min = bpool.min
            /\ Sane(t.pool, X \cup {b}, U)
        BY <2>4 DEF Likewise
      <3>2. CASE Blocks!needs_arena(bpool, g)
        <4> DEFINE r == t.pool
        <4>1. r.arena # NULL /\ Total(r) + Lost(bpool) = Total(bpool) + bpool.arena_capacity
          BY <2>2, <2>4, <3>2
        <4>2. n \in Nat
          BY <2>2, FS_CardinalityType
        <4>3. /\ Total(bpool) \in Nat /\ bpool.arena_capacity \in Nat
              /\ bpool.arena_capacity % 2^bpool.min \in Nat
          BY <2>1, TotalIs
        <4> HIDE DEF U
        <4>4. Total(r) \in Nat
          BY <3>1, TotalIs
        <4> HIDE DEF n, r
        <4>5. Filled(r, n + 1)
          BY <2>1, <3>1, <4>1, <4>2, <4>3, <4>4, FilledMore DEF r
        <4> QED BY <2>6, <3>2, <4>5 DEF r
      <3>3. CASE ~Blocks!needs_arena(bpool, g)
        <4>1. U = btaken /\ t.pool.arena = bpool.arena /\ Total(t.pool) = Total(bpool)
          BY <2>4, <2>6, <3>3
        <4> QED BY <2>1, <3>1, <4>1 DEF Filled
      <3> QED BY <3>2, <3>3
    <2> HIDE DEF U, b
    <2> DEFINE new == [block |-> b, size |-> size]
    <2>8. new \in Held /\ new.block = b /\ new.size = size /\ b \notin X /\ b.log2 = g
      BY <2>4 DEF Held, b
    <2>9. \A l \in blent : l.block \in X /\ l.block # b
      BY <2>8, BlocksKnow DEF X
    <2>10. blent' = (blent \ gone) \cup {new}
      BY <2>5 DEF b
    <2> HIDE DEF new
    <2>11. /\ blent' \subseteq Held /\ IsFiniteSet(blent')
           /\ \A l, m \in blent' : l # m => l.block # m.block
           /\ \A l \in blent' : l.size <= 2^l.block.log2
      <3>1. blent' \subseteq Held
        BY <2>1, <2>8, <2>10
      <3>2. IsFiniteSet(blent')
        <4>1. IsFiniteSet(blent \ gone)
          BY <2>1, FS_Subset, blent \ gone \subseteq blent
        <4> QED BY <2>10, <4>1, FS_AddElement
      <3>3. \A l, m \in blent' : l # m => l.block # m.block
        BY <2>1, <2>8, <2>9, <2>10
      <3>4. \A l \in blent' : l.size <= 2^l.block.log2
        BY <2>1, <2>8, <2>10
      <3> QED BY <3>1, <3>2, <3>3, <3>4
    <2>12. /\ Sane(bpool', Blocks!LentBlocks', U) /\ Likewise(bpool, bpool')
           /\ bpool'.arena = t.pool.arena /\ Total(bpool') = Total(t.pool)
      <3>1. CASE gone = {}
        <4>1. bpool' = t.pool /\ blent' = blent \cup {new}
          BY <2>5, <2>10, <3>1
        <4>2. Blocks!LentBlocks' = X \cup {b}
          BY <2>8, <4>1 DEF Blocks!LentBlocks, X
        <4> QED BY <2>4, <4>1, <4>2 DEF U, b
      <3>2. ASSUME NEW l \in blent, gone = {l}
            PROVE  /\ Sane(bpool', Blocks!LentBlocks', U) /\ Likewise(bpool, bpool')
                   /\ bpool'.arena = t.pool.arena /\ Total(bpool') = Total(t.pool)
        <4> DEFINE c == l.block
                   q == t.pool
                   r == Blocks!arnm_graded_block_pool_free_log2(q, c)
        <4>1. (CHOOSE x \in gone : TRUE) = l /\ gone # {}
          BY <3>2
        <4>2. bpool' = r
          BY <2>5, <4>1
        <4>3. c \in X /\ c.log2 \in Grades /\ c # b
          BY <2>9, BlocksKnow
        <4>4. Blocks!LentBlocks' = (X \cup {b}) \ {c}
          <5>1. blent' = (blent \ {l}) \cup {new}
            BY <2>10, <3>2
          <5>2. \A m \in blent \ {l} : m.block # c
            BY <2>1
          <5> QED BY <2>8, <2>9, <4>3, <5>1, <5>2 DEF Blocks!LentBlocks, X
        <4>5. Sane(q, X \cup {b}, U) /\ c \in X \cup {b}
          BY <2>4, <4>3 DEF U, b
        <4> HIDE DEF c, q
        <4>6. /\ Sane(r, (X \cup {b}) \ {c}, U) /\ Likewise(q, r)
              /\ r.arena = q.arena /\ r.cursor = q.cursor /\ Total(r) = Total(q)
          BY <4>3, <4>5, FreeSane
        <4> HIDE DEF r
        <4>7. Likewise(bpool, r)
          BY <2>4, <4>6 DEF Likewise, q
        <4> QED BY <4>2, <4>4, <4>6, <4>7 DEF q
      <3> QED BY <3>1, <3>2
    <2>13. Filled(bpool', Cardinality(btaken'))
      <3>1. bpool'.arena_capacity = t.pool.arena_capacity /\ bpool'.min = t.pool.min
        BY <2>4, <2>12 DEF Likewise
      <3> QED BY <2>6, <2>7, <2>12, <3>1 DEF Filled
    <2>14. Ready(bpool') /\ bpool'.source /\ bpool'.min \in 0..32
      BY <2>1, <2>12 DEF Ready, Likewise
    <2> QED BY <2>6, <2>11, <2>12, <2>13, <2>14 DEF BlocksInv
  <1>3. \/ \E r : Blocks!Refuse(r)
        \/ \E fresh \in IF Blocks!needs_arena(bpool, g) THEN Blocks!chain_offers ELSE {NULL} :
             /\ bpool' = After(got(fresh))
             /\ blent' = (blent \ gone) \cup {[block |-> got(fresh).block, size |-> size]}
             /\ btaken' = (btaken \cup {fresh}) \ {NULL}
             /\ bopened' = (bopened \cup {fresh}) \ {NULL}
    BY Zenon DEF Blocks!hand_out
  <1> HIDE DEF After, got
  <1> QED BY <1>1, <1>2, <1>3, Zenon

\* A block comes back.
LEMMA GivenBackStep ==
  ASSUME BlocksInv, NEW l \in blent, Blocks!given_back(l)
  PROVE  BlocksInv'
  <1> DEFINE c == l.block
             X == Blocks!LentBlocks
             r == Blocks!arnm_graded_block_pool_free_log2(bpool, c)
  <1>1. bpool' = r /\ blent' = blent \ {l} /\ btaken' = btaken /\ bopened' = bopened
    BY DEF Blocks!given_back
  <1>2. /\ Sane(bpool, X, btaken) /\ Filled(bpool, Cardinality(btaken)) /\ btaken \subseteq bopened
        /\ bopened \subseteq Arenas /\ blent \subseteq Held /\ IsFiniteSet(blent)
        /\ (\A k, m \in blent : k # m => k.block # m.block)
        /\ (\A k \in blent : k.size <= 2^k.block.log2)
        /\ bpool.min \in 0..32
    BY DEF BlocksInv
  <1>3. c \in X /\ c.log2 \in Grades /\ bpool.source /\ Ready(bpool)
    BY BlocksKnow DEF BlocksInv
  <1>4. Blocks!LentBlocks' = X \ {c}
    <2>1. \A m \in blent \ {l} : m.block # c
      BY <1>2
    <2> QED BY <1>1, <2>1 DEF Blocks!LentBlocks
  <1> HIDE DEF c, X
  <1>5. /\ Sane(r, X \ {c}, btaken) /\ Likewise(bpool, r)
        /\ r.arena = bpool.arena /\ r.cursor = bpool.cursor /\ Total(r) = Total(bpool)
    BY <1>2, <1>3, FreeSane
  <1> HIDE DEF r
  <1>6. Filled(bpool', Cardinality(btaken'))
    BY <1>1, <1>2, <1>5 DEF Filled, Likewise
  <1>7. Ready(bpool') /\ bpool'.source /\ bpool'.min \in 0..32
    BY <1>1, <1>2, <1>3, <1>5 DEF Ready, Likewise
  <1>8. IsFiniteSet(blent')
    BY <1>1, <1>2, FS_Subset
  <1>9. Sane(bpool', Blocks!LentBlocks', btaken')
    BY <1>1, <1>4, <1>5
  <1> QED BY <1>1, <1>2, <1>6, <1>7, <1>8, <1>9 DEF BlocksInv

\* The calls that hand out and take back.
LEMMA BlocksAllocStep ==
  ASSUME BlocksInv, NEW size \in BlockSizes, Blocks!arnm_graded_block_pool_alloc(size)
  PROVE  BlocksInv'
  <1>1. CASE \E r : Blocks!Refuse(r)
    BY <1>1, BlocksStill DEF Blocks!Refuse
  <1>2. CASE /\ bpool.source /\ Blocks!refusal(size) = Blocks!SUCCESS
             /\ Blocks!hand_out(Blocks!size_to_log2(size), size, {})
    <2>1. bpool \in Structs /\ Ready(bpool) /\ size \in 0..UINT32_MAX
      BY <1>2, BlocksKnow, GradeBounds DEF BlocksInv
    <2>2. /\ Blocks!size_to_log2(size) \in bpool.min..bpool.max
          /\ size <= 2^Blocks!size_to_log2(size) /\ size \in Nat
      BY <1>2, <2>1, GradeCarries
    <2> QED BY <1>2, <2>2, HandOutStep
  <1> QED BY <1>1, <1>2 DEF Blocks!arnm_graded_block_pool_alloc

\* The same by exponent.
LEMMA BlocksAllocLogStep ==
  ASSUME BlocksInv, NEW log2 \in BlockLogs, Blocks!alloc_by_log2(log2)
  PROVE  BlocksInv'
  <1>1. CASE \E r : Blocks!Refuse(r)
    BY <1>1, BlocksStill DEF Blocks!Refuse
  <1>2. CASE /\ log2 <= bpool.max /\ bpool.source
             /\ Blocks!hand_out(Blocks!raised(log2), 2^log2, {})
    <2>1. bpool \in Structs /\ Ready(bpool) /\ log2 \in Nat
      BY <1>2, BlocksKnow, GradeBounds DEF BlocksInv
    <2>2. /\ Blocks!raised(log2) \in bpool.min..bpool.max
          /\ 2^log2 \in Nat /\ 2^log2 <= 2^Blocks!raised(log2)
      BY <1>2, <2>1, NamedGrade
    <2> QED BY <1>2, <2>2, HandOutStep
  <1> QED BY <1>1, <1>2 DEF Blocks!alloc_by_log2

\* Realloc: the new block before the old one goes back.
LEMMA BlocksReallocStep ==
  ASSUME BlocksInv, NEW l \in blent, NEW size \in BlockSizes,
         Blocks!arnm_graded_block_pool_realloc(l, size)
  PROVE  BlocksInv'
  <1>1. CASE \E r : Blocks!Refuse(r)
    BY <1>1, BlocksStill DEF Blocks!Refuse
  <1>2. CASE /\ Blocks!refusal(size) = Blocks!SUCCESS
             /\ Blocks!hand_out(Blocks!size_to_log2(size), size, {l})
    <2>1. bpool \in Structs /\ bpool.source /\ Ready(bpool) /\ size \in 0..UINT32_MAX
      BY <1>2, BlocksKnow, GradeBounds DEF BlocksInv
    <2>2. /\ Blocks!size_to_log2(size) \in bpool.min..bpool.max
          /\ size <= 2^Blocks!size_to_log2(size) /\ size \in Nat
      BY <1>2, <2>1, GradeCarries
    <2>3. \E k \in blent : {l} = {k}
      OBVIOUS
    <2> QED BY <1>2, <2>1, <2>2, <2>3, HandOutStep
  <1> QED BY <1>1, <1>2 DEF Blocks!arnm_graded_block_pool_realloc

\* Free by size or by exponent: both give a lent block back, or refuse.
LEMMA BlocksFreeStep ==
  ASSUME BlocksInv,
         \/ \E size \in BlockSizes : Blocks!arnm_graded_block_pool_free(size)
         \/ \E log2 \in BlockLogs : Blocks!free_by_log2(log2)
  PROVE  BlocksInv'
  <1>1. CASE \E r : Blocks!Refuse(r)
    BY <1>1, BlocksStill DEF Blocks!Refuse
  <1>2. CASE \E l \in blent : Blocks!given_back(l)
    BY <1>2, GivenBackStep
  <1> QED BY <1>1, <1>2 DEF Blocks!arnm_graded_block_pool_free, Blocks!free_by_log2

\* Every operation keeps the invariant.
LEMMA BlocksNextStep ==
  ASSUME BlocksInv, [Blocks!Next]_Blocks!vars
  PROVE  BlocksInv'
  <1>1. CASE UNCHANGED Blocks!vars
    BY <1>1, BlocksStill DEF Blocks!vars
  <1>2. CASE \E o \in BlockOptions : Blocks!arnm_graded_block_pool_init(o)
    BY <1>2, BlocksInitStep
  <1>3. CASE Blocks!arnm_graded_block_pool_reset
    BY <1>3, BlocksResetStep
  <1>4. CASE Blocks!arnm_graded_block_pool_release
    BY <1>4, BlocksReleaseStep
  <1>5. CASE Blocks!arnm_graded_block_pool_destroy
    BY <1>5, BlocksDestroyStep
  <1>6. CASE \E size \in BlockSizes : Blocks!arnm_graded_block_pool_alloc(size)
    BY <1>6, BlocksAllocStep
  <1>7. CASE \E log2 \in BlockLogs : Blocks!alloc_by_log2(log2)
    BY <1>7, BlocksAllocLogStep
  <1>8. CASE \E l \in blent, size \in BlockSizes : Blocks!arnm_graded_block_pool_realloc(l, size)
    BY <1>8, BlocksReallocStep
  <1>9. CASE \/ \E size \in BlockSizes : Blocks!arnm_graded_block_pool_free(size)
             \/ \E log2 \in BlockLogs : Blocks!free_by_log2(log2)
    BY <1>9, BlocksFreeStep
  <1> QED BY <1>1, <1>2, <1>3, <1>4, <1>5, <1>6, <1>7, <1>8, <1>9 DEF Blocks!Next

-----------------------------------------------------------------------------
(* What the invariant says of the pool.                                    *)

\* The blocks the run calls cached are those on the lists.
LEMMA CachedAre ==
  ASSUME bpool \in Structs
  PROVE  Blocks!Cached = OnLists(bpool.free) /\ DOMAIN bpool.free = Grades
  <1>1. DOMAIN bpool.free = Grades /\ \A g \in Grades : bpool.free[g] \in Seq(BlockSet)
    BY DEF Structs
  <1>2. \A g \in Grades : {bpool.free[g][i] : i \in DOMAIN bpool.free[g]} = Range(bpool.free[g])
    BY DEF Range
  <1> DEFINE A(g) == {bpool.free[g][i] : i \in DOMAIN bpool.free[g]}
  <1>3. Blocks!Cached = UNION {A(g) : g \in Grades}
    BY <1>1 DEF Blocks!Cached
  <1>4. \A g \in Grades : A(g) = Range(bpool.free[g])
    BY <1>2
  <1> HIDE DEF A
  <1>5. UNION {A(g) : g \in Grades} = OnLists(bpool.free)
    BY <1>4 DEF OnLists
  <1> QED BY <1>1, <1>3, <1>5

\* Disjoint blocks on the right lists, and a lent one holds what was asked for.
LEMMA BlocksApart ==
  ASSUME BlocksInv
  PROVE  Blocks!BlocksDisjoint
  <1> DEFINE X == Blocks!LentBlocks
             O == OnLists(bpool.free)
  <1>1. /\ bpool \in Structs /\ Sane(bpool, X, btaken) /\ btaken \subseteq bopened
        /\ bopened \subseteq Arenas
    BY BlocksKnow DEF BlocksInv
  <1>2. Blocks!Cached = O /\ DOMAIN bpool.free = Grades
    BY <1>1, CachedAre
  <1>3. /\ \A b \in O \cup X : Laid(bpool, btaken, b) /\ b \in BlockSet
        /\ \A b, c \in O \cup X : b # c => Apart(b, c)
        /\ O \cap X = {}
    BY <1>1, ListedFacts DEF Sane, Places
  <1>4. /\ bpool.cursor \in Nat /\ bpool.arena_capacity \in Nat
        /\ bpool.cursor <= bpool.arena_capacity /\ bpool.arena \in btaken \cup {NULL}
    BY <1>1 DEF Sane, Structs
  <1>5. \A g \in Grades : \A i \in DOMAIN bpool.free[g] : bpool.free[g][i].log2 = g
    <2>1. Listed(bpool.free)
      BY <1>1 DEF Sane
    <2> QED BY <2>1 DEF Listed, Range
  <1> HIDE DEF O, X
  <1>6. Blocks!TypeOK
    <2>1. ASSUME NEW b \in O \cup X
          PROVE  /\ b.arena \in btaken /\ b.log2 \in bpool.min..bpool.max
                 /\ b.off >= 0 /\ b.off + 2^b.log2 <= bpool.arena_capacity
      BY <1>3 DEF Laid, BlockSet
    <2>2. bpool.cursor \in 0..bpool.arena_capacity
      BY <1>4
    <2> QED BY <1>1, <1>2, <1>4, <1>5, <2>1, <2>2 DEF Blocks!TypeOK, X
  <1>7. \A b, c \in O \cup X :
          b # c /\ b.arena = c.arena => b.off + 2^b.log2 <= c.off \/ c.off + 2^c.log2 <= b.off
    BY <1>3 DEF Apart
  <1>8. \A b \in O \cup X : b.arena = bpool.arena => b.off + 2^b.log2 <= bpool.cursor
    BY <1>3 DEF Laid
  <1>9. \A l \in blent : l.size <= 2^l.block.log2
    BY DEF BlocksInv
  <1> QED BY <1>2, <1>3, <1>6, <1>7, <1>8, <1>9, Zenon DEF Blocks!BlocksDisjoint, X

\* A list that names nothing twice is as long as what it names.
LEMMA GradeListCounts ==
  ASSUME NEW s \in Seq(BlockSet), IsInjective(s)
  PROVE  IsFiniteSet(Range(s)) /\ Cardinality(Range(s)) = Len(s) /\ Len(s) \in Nat
  <1>1. Len(s) \in Nat /\ DOMAIN s = 1..Len(s)
    OBVIOUS
  <1>2. IsFiniteSet(1..Len(s)) /\ Cardinality(1..Len(s)) = Len(s)
    BY <1>1, FS_Interval, 1 \in Int, Len(s) \in Int
  <1>3. s \in Surjection(1..Len(s), Range(s))
    BY <1>1 DEF Surjection, Range
  <1>4. s \in Injection(1..Len(s), Range(s))
    BY <1>1 DEF Injection, Range, IsInjective
  <1> QED BY <1>1, <1>2, <1>3, <1>4, FS_Surjection

\* The lengths of the lists, summed as the run sums them.
Lengths(f) == Blocks!MapThenSumSet(LAMBDA g : Len(f[g]), Grades)

\* Such a sum is the library's.
LEMMA LengthsAreSum ==
  ASSUME NEW f, Listed(f)
  PROVE  Lengths(f) = SumFunctionOnSet([g \in Grades |-> Len(f[g])], Grades)
  <1> DEFINE S == Grades
             w == [g \in S |-> Len(f[g])]
             A(h) == [s \in SUBSET S |-> IF s = {} THEN 0
                        ELSE Len(f[CHOOSE x \in s : TRUE]) + h[s \ {CHOOSE x \in s : TRUE}]]
             H == CHOOSE h : h = A(h)
             V == Blocks!MapThenSumSet(LAMBDA g : Len(f[g]), S)
  <1>1. V = H[S]
    BY DEF Blocks!MapThenSumSet, Blocks!MapThenFoldSet
  <1>2. ASSUME NEW h PROVE A(h) = SumStep(h, w, S)
    <2>1. ASSUME NEW s \in SUBSET S PROVE A(h)[s] = SumStep(h, w, S)[s]
      <3>1. CASE s = {}
        BY <3>1 DEF SumStep
      <3>2. CASE s # {}
        <4> DEFINE x == CHOOSE x \in s : TRUE
        <4>1. x \in S
          BY <3>2
        <4>2. w[x] = Len(f[x])
          BY <4>1
        <4> HIDE DEF w
        <4>3. A(h)[s] = Len(f[x]) + h[s \ {x}] /\ SumStep(h, w, S)[s] = w[x] + h[s \ {x}]
          BY <3>2 DEF SumStep
        <4> QED BY <4>2, <4>3
      <3> QED BY <3>1, <3>2
    <2> QED BY <2>1 DEF SumStep
  <1>3. w \in [S -> Int] /\ IsFiniteSet(S)
    <2>1. \A g \in S : Len(f[g]) \in Int
      BY ListedFacts
    <2> QED BY <2>1, GradesAre
  <1> HIDE DEF w, V, S
  <1>4. PICK F : IsSum(F, w, S)
    BY <1>3, SumExists
  <1>5. \E G : G = SumStep(G, w, S)
    BY <1>4, SumStepExists
  <1>6. H = A(H)
    <2>1. \E G : G = A(G)
      <3> HIDE DEF A
      <3> QED BY <1>2, <1>5
    <2> HIDE DEF A
    <2> QED BY <2>1
  <1>7. H = SumStep(H, w, S)
    <2> HIDE DEF A, H
    <2> QED BY <1>2, <1>6
  <1> HIDE DEF H
  <1>8. H[S] = F[S]
    BY <1>3, <1>4, <1>7, SumStepUnique
  <1>9. SumFunctionOnSet(w, S) = F[S]
    BY <1>3, <1>4, SumIs
  <1>10. V = SumFunctionOnSet(w, S)
    BY <1>1, <1>8, <1>9
  <1> QED BY <1>10 DEF Lengths, V, S, w

\* The lists together are as long as the set of what they name: a block is on the
\* list of its grade only, and once.
LEMMA ListsCount ==
  ASSUME NEW f, Listed(f)
  PROVE  Cardinality(OnLists(f)) = Lengths(f)
  <1> DEFINE w == [g \in Grades |-> Len(f[g])]
             Below(T) == UNION {Range(f[g]) : g \in T}
             P == {T \in SUBSET Grades :
                     /\ IsFiniteSet(Below(T))
                     /\ Cardinality(Below(T)) = SumFunctionOnSet(w, T)}
  <1>1. IsFiniteSet(Grades)
    BY GradesAre
  <1>2. \A g \in Grades : /\ IsFiniteSet(Range(f[g])) /\ w[g] = Cardinality(Range(f[g]))
                          /\ w[g] \in Nat
    BY ListedFacts, GradeListCounts
  <1>3. w \in [Grades -> Int]
    BY <1>2
  <1>4. {} \in P
    <2>1. Below({}) = {}
      OBVIOUS
    <2> HIDE DEF w, Below
    <2>2. SumFunctionOnSet(w, {}) = 0
      BY <1>1, <1>3, SumTotal
    <2> QED BY <2>1, <2>2, FS_EmptySet
  <1>5. ASSUME NEW T \in P, NEW g \in Grades \ T PROVE T \cup {g} \in P
    <2>1. Below(T \cup {g}) = Below(T) \cup Range(f[g])
      OBVIOUS
    <2>2. Below(T) \cap Range(f[g]) = {}
      <3>1. ASSUME NEW b \in Below(T) PROVE b.log2 # g
        <4>1. PICK k \in T : b \in Range(f[k])
          BY <3>1
        <4>2. k \in Grades /\ k # g
          BY <1>5
        <4>3. b.log2 = k
          BY <4>1, <4>2 DEF Listed
        <4> QED BY <4>2, <4>3
      <3>2. \A b \in Range(f[g]) : b.log2 = g
        BY DEF Listed
      <3> HIDE DEF Below
      <3> QED BY <3>1, <3>2
    <2>3. /\ T \in SUBSET Grades /\ IsFiniteSet(Below(T))
          /\ Cardinality(Below(T)) = SumFunctionOnSet(w, T)
      BY <1>5
    <2> HIDE DEF Below, w
    <2>4. /\ IsFiniteSet(Below(T) \cup Range(f[g]))
          /\ Cardinality(Below(T) \cup Range(f[g]))
               = Cardinality(Below(T)) + Cardinality(Range(f[g])) - Cardinality({})
      BY <1>2, <2>2, <2>3, FS_Union
    <2>5. /\ SumFunctionOnSet(w, T) \in Int
          /\ SumFunctionOnSet(w, T \cup {g}) = w[g] + SumFunctionOnSet(w, T)
      BY <1>1, <1>3, <2>3, SumAdd
    <2>6. Cardinality({}) = 0
      BY FS_EmptySet
    <2>7. Cardinality(Below(T \cup {g})) = SumFunctionOnSet(w, T \cup {g})
      <3> DEFINE a == Cardinality(Range(f[g]))
                 b == Cardinality(Below(T))
      <3>1. a \in Nat /\ b \in Int /\ w[g] = a /\ b = SumFunctionOnSet(w, T)
        BY <1>2, <2>3, <2>5
      <3>2. Cardinality(Below(T) \cup Range(f[g])) = b + a - 0
        BY <2>4, <2>6, Zenon
      <3> HIDE DEF a, b
      <3>3. b + a - 0 = a + b
        BY <3>1
      <3>4. Cardinality(Below(T) \cup Range(f[g])) = a + b
        BY <3>2, <3>3, Zenon
      <3>5. SumFunctionOnSet(w, T \cup {g}) = a + b
        BY <2>5, <3>1, Zenon
      <3> QED BY <2>1, <3>4, <3>5, Zenon
    <2> QED BY <2>1, <2>3, <2>4, <2>7
  <1>6. Grades \in P
    <2>1. P \in SUBSET SUBSET Grades
      OBVIOUS
    <2> HIDE DEF P
    <2>2. \A T \in P : \A g \in Grades \ T : T \cup {g} \in P
      BY <1>5
    <2>3. P = SUBSET Grades
      BY <1>1, <1>4, <2>1, <2>2, FiniteSetInduction
    <2> QED BY <2>3
  <1>7. Below(Grades) = OnLists(f)
    BY DEF OnLists
  <1>8. Cardinality(OnLists(f)) = SumFunctionOnSet(w, Grades)
    <2> HIDE DEF w, Below
    <2> QED BY <1>6, <1>7
  <1> QED BY <1>8, LengthsAreSum

\* Every byte is out, on a list or ahead of the cursor, and told to the byte.
LEMMA BytesServe ==
  ASSUME BlocksInv
  PROVE  Blocks!EveryByteServes
  <1> DEFINE X == Blocks!LentBlocks
             O == OnLists(bpool.free)
             n == Cardinality(btaken)
  <1>1. bpool \in Structs /\ Sane(bpool, X, btaken) /\ IsFiniteSet(btaken) /\ n \in Nat
    BY BlocksKnow, FS_CardinalityType DEF BlocksInv
  <1>2. Blocks!Cached = O /\ DOMAIN bpool.free = Grades
    BY <1>1, CachedAre
  <1>3. /\ X \in SUBSET BlockSet /\ IsFiniteSet(X) /\ Listed(bpool.free)
        /\ bpool.lent_bytes = Weight(X) /\ bpool.cached_bytes = Weight(O)
    BY <1>1 DEF Sane
  <1>4. O \in SUBSET BlockSet /\ IsFiniteSet(O)
    BY <1>3, ListedFacts
  <1>5. Cardinality(Blocks!LentBlocks) = Cardinality(blent)
    <2> DEFINE f == [l \in blent |-> l.block]
    <2>1. IsFiniteSet(blent) /\ \A l, m \in blent : l # m => l.block # m.block
      BY DEF BlocksInv
    <2>2. /\ f \in [blent -> Blocks!LentBlocks]
          /\ \A b \in Blocks!LentBlocks : \E l \in blent : f[l] = b
          /\ \A l, m \in blent : f[l] = f[m] => l = m
      BY <2>1 DEF Blocks!LentBlocks
    <2> HIDE DEF f
    <2>3. f \in Surjection(blent, Blocks!LentBlocks) /\ f \in Injection(blent, Blocks!LentBlocks)
      BY <2>2 DEF Surjection, Injection, IsInjective
    <2> QED BY <2>1, <2>3, FS_Surjection
  <1>6. Cardinality(O) = Lengths(bpool.free)
    BY <1>3, ListsCount
  <1>7. Cardinality(Blocks!Cached)
          = Blocks!MapThenSumSet(LAMBDA g : Len(bpool.free[g]), DOMAIN bpool.free)
    BY <1>2, <1>6, Zenon DEF Lengths
  <1>8. bpool.lent_bytes = Blocks!Bytes(Blocks!LentBlocks)
    BY <1>3, BytesAreWeight
  <1>9. bpool.cached_bytes = Blocks!Bytes(Blocks!Cached)
    <2> HIDE DEF O
    <2> QED BY <1>2, <1>3, <1>4, BytesAreWeight
  <1>10. ASSUME btaken # {}
         PROVE  bpool.lent_bytes + bpool.cached_bytes + Blocks!remaining(bpool)
                  + (n - 1) * (bpool.arena_capacity % 2^bpool.min) = n * bpool.arena_capacity
    <2>1. n # 0 /\ Filled(bpool, n)
      BY <1>1, <1>10, FS_EmptySet DEF BlocksInv
    <2>2. Total(bpool) + (n - 1) * (bpool.arena_capacity % 2^bpool.min) = n * bpool.arena_capacity
      BY <2>1, Zenon DEF Filled
    <2> QED BY <2>2, Zenon DEF Total
  <1>11. \A S : Blocks!Cardinality(S) = Cardinality(S)
    BY BlocksCount
  <1> HIDE DEF O
  <1> QED BY <1>5, <1>7, <1>8, <1>9, <1>10, <1>11, Zenon DEF Blocks!EveryByteServes

-----------------------------------------------------------------------------
(* The theorems of the graded blocks.                                      *)

\* The pool of graded blocks alone, as a behaviour sees it.
LEMMA BlocksMove == BlocksInv /\ [AnyNext]_all_vars => BlocksInv'
  <1> SUFFICES ASSUME BlocksInv, [AnyNext]_all_vars PROVE BlocksInv'
    OBVIOUS
  <1>1. Blocks!Next \/ UNCHANGED blockVars
    BY DEF AnyNext, GradedStep, FixedStep, BlockStep, all_vars
  <1>2. UNCHANGED blockVars => UNCHANGED Blocks!vars
    BY DEF blockVars, Blocks!vars
  <1> QED BY <1>1, <1>2, BlocksNextStep

\* Whatever is asked of the graded blocks, and in whatever order: no byte of an
\* arena belongs to two blocks, cached or lent, or to a block and to what the
\* cursor has not reached, and a block holds what its client asked for.
THEOREM BlocksApartHolds == AnySpec => []GradedBlocksDisjoint
  <1>1. AnyInit => BlocksInv
    BY BlocksStart DEF AnyInit
  <1>2. BlocksInv => GradedBlocksDisjoint
    BY BlocksApart DEF GradedBlocksDisjoint
  <1> QED BY <1>1, BlocksMove, <1>2, PTL DEF AnySpec

\* Nothing leaks: through every alloc, split, free, realloc and reset the bytes
\* lent, cached and ahead of the cursor are those of the arenas taken, but for what
\* a capped capacity leaves over, and the two counters tell them to the byte.
THEOREM BytesServeHolds == AnySpec => []GradedEveryByteServes
  <1>1. AnyInit => BlocksInv
    BY BlocksStart DEF AnyInit
  <1>2. BlocksInv => GradedEveryByteServes
    BY BytesServe DEF GradedEveryByteServes
  <1> QED BY <1>1, BlocksMove, <1>2, PTL DEF AnySpec
=============================================================================
