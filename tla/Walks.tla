-------------------------------- MODULE Walks --------------------------------
(***************************************************************************)
(* What the proofs about sequences that are walked along have in common:   *)
(* induction on numbers, and the existence of the functions that recursive *)
(* definitions and folds choose.  An operator cannot be the parameter of a *)
(* lemma here; a function h[i], one for each place, stands for the step.   *)
(***************************************************************************)
EXTENDS SequencesExt, SequenceTheorems, WellFoundedInduction, TLAPS

------------------------------------------------------------------------------
(* Induction, for a set of numbers: one that is not in it would have a     *)
(* least one.                                                              *)
LEMMA Induction ==
  ASSUME NEW P, 0 \in P, \A n \in Nat : n \in P => n + 1 \in P
  PROVE  Nat \subseteq P
<1> DEFINE R == OpToRel(<, Nat)
           S == Nat \ P
<1>1. \A m, n \in Nat : <<m, n>> \in R <=> m < n
  BY DEF OpToRel
<1>2. IsWellFoundedOn(R, Nat)
  BY NatLessThanWellFounded
<1> HIDE DEF R
<1>3. ASSUME S # {} PROVE FALSE
  <2>1. PICK n \in S : \A m \in S : ~(<<m, n>> \in R)
    BY <1>2, <1>3, WFMin
  <2>2. n \in Nat /\ n \notin P /\ \A m \in Nat : m \notin P => ~(m < n)
    BY <1>1, <2>1
  <2>3. n - 1 \in Nat
    BY <2>2
  <2>4. n - 1 \in P
    BY <2>2, <2>3
  <2> QED
    BY <2>2, <2>3, <2>4
<1> QED
  BY <1>3

(* The same up to a number.                                                *)
LEMMA InductionUpTo ==
  ASSUME NEW N \in Nat, NEW P, 0 \in P, \A n \in 1 .. N : n - 1 \in P => n \in P
  PROVE  0 .. N \subseteq P
<1> DEFINE Q == P \cup {n \in Nat : n > N}
<1>1. \A n \in Nat : n \in Q => n + 1 \in Q
  OBVIOUS
<1>2. Nat \subseteq Q
  <2> HIDE DEF Q
  <2>1. 0 \in Q
    BY DEF Q
  <2> QED
    BY <1>1, <2>1, Induction
<1> QED
  BY <1>2

(* A function defined from each value to the next one exists.              *)
Steps(h, N, T) == \A i \in 1 .. N : h[i] \in [T -> T]

Walk(f, a, h, N, T) ==
  f \in [0 .. N -> T] /\ f[0] = a /\ \A i \in 1 .. N : f[i] = h[i][f[i - 1]]

LEMMA Recursion ==
  ASSUME NEW N \in Nat, NEW T, NEW a \in T, NEW h, Steps(h, N, T)
  PROVE  \E f : Walk(f, a, h, N, T)
<1> USE DEF Steps, Walk
<1> DEFINE Good(n, f) == f[0] = a /\ \A i \in 1 .. n : f[i] = h[i][f[i - 1]]
           P == {n \in Nat : \E f \in [0 .. n -> T] : Good(n, f)}
<1>1. 0 \in P
  <2>1. [i \in 0 .. 0 |-> a] \in [0 .. 0 -> T] /\ Good(0, [i \in 0 .. 0 |-> a])
    OBVIOUS
  <2> QED
    BY <2>1
<1>2. ASSUME NEW n \in 1 .. N, n - 1 \in P PROVE n \in P
  <2>1. PICK f \in [0 .. n - 1 -> T] : Good(n - 1, f)
    BY <1>2
  <2> DEFINE g == [i \in 0 .. n |-> IF i = n THEN h[n][f[n - 1]] ELSE f[i]]
  <2>2. n - 1 \in 0 .. n - 1 /\ f[n - 1] \in T
    OBVIOUS
  <2>3. h[n][f[n - 1]] \in T
    BY <2>2
  <2>4. g \in [0 .. n -> T]
    BY <2>3
  <2>5. g[0] = a
    BY <2>1
  <2>6. ASSUME NEW i \in 1 .. n PROVE g[i] = h[i][g[i - 1]]
    <3>1. i - 1 \in 0 .. n /\ i - 1 # n /\ g[i - 1] = f[i - 1]
      OBVIOUS
    <3>2. CASE i = n
      BY <3>1, <3>2
    <3>3. CASE i # n
      <4>1. i \in 1 .. n - 1 /\ g[i] = f[i]
        BY <3>3
      <4> QED
        BY <2>1, <3>1, <4>1
    <3> QED
      BY <3>2, <3>3
  <2> HIDE DEF g
  <2>7. Good(n, g)
    BY <2>5, <2>6
  <2> QED
    BY <2>4, <2>7
<1>3. 0 .. N \subseteq P
  <2> HIDE DEF P
  <2> QED
    BY <1>1, <1>2, InductionUpTo
<1> QED
  BY <1>3

------------------------------------------------------------------------------
(* Folds.  FoldLeft chooses a function on the sets of places, of which it   *)
(* takes the greatest last.                                                *)
LEMMA Greatest ==
  ASSUME NEW m \in Nat, NEW r, r \subseteq 1 .. m, m \in r
  PROVE  Max(r) = m
<1>1. \A x \in r : (\A y \in r : x >= y) <=> x = m
  OBVIOUS
<1>2. \A x \in r : x = m => \A y \in r : x >= y
  BY <1>1
<1>3. \E x \in r : \A y \in r : x >= y
  BY <1>2
<1>4. PICK c : c = Max(r) /\ c \in r /\ \A y \in r : c >= y
  BY <1>3, Zenon DEF Max
<1> QED
  BY <1>1, <1>4

LEMMA GreatestOf ==
  ASSUME NEW n \in Nat, NEW r, r \subseteq 1 .. n, r # {}
  PROVE  Max(r) \in r
<1> DEFINE P == {m \in Nat : \A i \in r : i <= m => \E x \in r : \A y \in r : y <= m => x >= y}
<1>1. 0 \in P
  OBVIOUS
<1>2. ASSUME NEW m \in 1 .. n, m - 1 \in P PROVE m \in P
  <2>1. CASE m \in r
    BY <2>1
  <2>2. CASE m \notin r
    <3>1. \A y \in r : y <= m <=> y <= m - 1
      BY <2>2
    <3> QED
      BY <1>2, <3>1
  <2> QED
    BY <2>1, <2>2
<1>3. n \in P
  <2> HIDE DEF P
  <2>1. 0 .. n \subseteq P
    BY <1>1, <1>2, InductionUpTo
  <2> QED
    BY <2>1
<1>4. \E x \in r : \A y \in r : x >= y
  <2>1. \A y \in r : y <= n
    OBVIOUS
  <2>2. PICK x \in r : \A y \in r : y <= n => x >= y
    BY <1>3, <2>1
  <2> QED
    BY <2>1, <2>2
<1> QED
  BY <1>4, Zenon DEF Max

Folds(g, a, h, n) ==
  g = [r \in SUBSET (1 .. n) |-> IF r = {} THEN a ELSE h[Max(r)][g[r \ {Max(r)}]]]

LEMMA FoldExists ==
  ASSUME NEW N \in Nat, NEW T, NEW a \in T, NEW h, Steps(h, N, T)
  PROVE  \E g : Folds(g, a, h, N) /\ g \in [SUBSET (1 .. N) -> T]
<1> DEFINE Good(n) == \E g \in [SUBSET (1 .. n) -> T] : Folds(g, a, h, n)
           P == {n \in Nat : Good(n)}
<1>1. 0 \in P
  <2>1. PICK g : g = [r \in SUBSET (1 .. 0) |-> a]
    OBVIOUS
  <2>2. SUBSET (1 .. 0) = {{}}
    OBVIOUS
  <2>3. g \in [SUBSET (1 .. 0) -> T]
    BY <2>1
  <2>4. Folds(g, a, h, 0)
    BY <2>1, <2>2 DEF Folds
  <2> QED
    BY <2>3, <2>4
<1>2. ASSUME NEW n \in 1 .. N, n - 1 \in P PROVE n \in P
  <2>1. PICK f \in [SUBSET (1 .. n - 1) -> T] : Folds(f, a, h, n - 1)
    BY <1>2
  <2>2. PICK g : g = [r \in SUBSET (1 .. n) |-> IF n \in r THEN h[n][f[r \ {n}]] ELSE f[r]]
    OBVIOUS
  <2>3. \A r \in SUBSET (1 .. n) : /\ r \ {n} \in SUBSET (1 .. n - 1)
                                   /\ n \notin r => r \in SUBSET (1 .. n - 1)
    OBVIOUS
  <2>4. h[n] \in [T -> T]
    BY DEF Steps
  <2>5. g \in [SUBSET (1 .. n) -> T]
    BY <2>2, <2>3, <2>4
  <2>6. ASSUME NEW r \in SUBSET (1 .. n)
        PROVE  g[r] = IF r = {} THEN a ELSE h[Max(r)][g[r \ {Max(r)}]]
    <3>1. CASE n \in r
      <4>0. n \in Nat /\ r \subseteq 1 .. n
        OBVIOUS
      <4>1. Max(r) = n
        BY <3>1, <4>0, Greatest, Zenon
      <4>2. r \ {n} \in SUBSET (1 .. n) /\ n \notin r \ {n}
        OBVIOUS
      <4>3. g[r \ {n}] = f[r \ {n}]
        BY <2>2, <4>2
      <4>4. g[r] = h[n][f[r \ {n}]] /\ r # {}
        BY <2>2, <3>1
      <4> QED
        BY <4>1, <4>3, <4>4, Zenon
    <3>2. CASE n \notin r
      <4>1. r \in SUBSET (1 .. n - 1)
        BY <2>3, <3>2
      <4>2. f[r] = IF r = {} THEN a ELSE h[Max(r)][f[r \ {Max(r)}]]
        BY <2>1, <4>1, Zenon DEF Folds
      <4>3. r \ {Max(r)} \in SUBSET (1 .. n) /\ n \notin r \ {Max(r)}
        BY <3>2
      <4>4. g[r] = f[r] /\ g[r \ {Max(r)}] = f[r \ {Max(r)}]
        BY <2>2, <3>2, <4>3
      <4> QED
        BY <4>2, <4>4
    <3> QED
      BY <3>1, <3>2
  <2>7. Folds(g, a, h, n)
    <3>1. DOMAIN g = SUBSET (1 .. n) /\ g = [r \in DOMAIN g |-> g[r]]
      BY <2>5
    <3> QED
      BY <2>6, <3>1, Zenon DEF Folds
  <2> QED
    BY <2>5, <2>7
<1>3. 0 .. N \subseteq P
  <2> HIDE DEF P
  <2> QED
    BY <1>1, <1>2, InductionUpTo
<1>4. N \in P
  <2> HIDE DEF P
  <2> QED
    BY <1>3
<1> QED
  BY <1>4

(* The places up to one: the greatest of them, and the others.             *)
LEMMA FirstPlaces ==
  ASSUME NEW N \in Nat
  PROVE  /\ 1 .. 0 = {}
         /\ \A i \in 0 .. N : 1 .. i \in SUBSET (1 .. N)
         /\ \A i \in 1 .. N : /\ 1 .. i # {} /\ Max(1 .. i) = i
                              /\ (1 .. i) \ {Max(1 .. i)} = 1 .. i - 1
<1>1. ASSUME NEW i \in 1 .. N PROVE 1 .. i # {} /\ Max(1 .. i) = i
  <2>1. PICK r : r = 1 .. i
    OBVIOUS
  <2>2. i \in Nat /\ r \subseteq 1 .. i /\ i \in r
    BY <2>1
  <2>3. Max(r) = i
    BY <2>2, Greatest
  <2> QED
    BY <2>1, <2>2, <2>3
<1>2. ASSUME NEW i \in 1 .. N PROVE (1 .. i) \ {i} = 1 .. i - 1
  OBVIOUS
<1> QED
  BY <1>1, <1>2

=============================================================================
