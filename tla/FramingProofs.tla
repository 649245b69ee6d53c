--------------------------- MODULE FramingProofs ---------------------------
(***************************************************************************)
(* Proofs about framing: for bytes of any number of values, prefixes of    *)
(* any size, any payloads and any cuts of the network.  What a walk over a *)
(* sequence computes is a recursive function, of which Recursion says that *)
(* it exists, and what follows is by Induction.                            *)
(***************************************************************************)
EXTENDS Framing, Walks

------------------------------------------------------------------------------
(* Lengths.  What is left of a length without its least bytes, and what    *)
(* its bytes, read back from the one that weighs most, are.                *)
LEMMA Constants == /\ Base \in Nat \ {0} /\ PrefixSize \in Nat \ {0} /\ MaxFrame \in Nat
                   /\ Lf \in Byte /\ MaxOut \in Nat
  BY FramingAssumption DEF Byte

LEMMA Divides == ASSUME NEW n \in Nat PROVE /\ n \div Base \in Nat /\ n % Base \in Byte
                                            /\ n = (n \div Base) * Base + (n % Base)
  BY Constants DEF Byte

LEMMA RestIs ==
  ASSUME NEW n \in Nat
  PROVE  /\ Rest(n) \in [0 .. PrefixSize -> Nat]
         /\ Rest(n)[0] = n
         /\ \A k \in 1 .. PrefixSize : Rest(n)[k] = Rest(n)[k - 1] \div Base
<1> DEFINE h == [i \in 1 .. PrefixSize |-> [t \in Nat |-> t \div Base]]
<1>1. Steps(h, PrefixSize, Nat)
  BY Divides DEF Steps
<1>a. PICK f : Walk(f, n, h, PrefixSize, Nat)
  <2> HIDE DEF h
  <2>1. PrefixSize \in Nat
    BY Constants
  <2> QED
    BY <1>1, <2>1, Recursion, Zenon
<1>2. f \in [0 .. PrefixSize -> Nat] /\ f[0] = n /\ \A i \in 1 .. PrefixSize : f[i] = h[i][f[i - 1]]
  BY <1>a DEF Walk
<1>3. ASSUME NEW i \in 1 .. PrefixSize PROVE f[i] = f[i - 1] \div Base
  <2>1. f[i - 1] \in Nat
    BY <1>2, Constants
  <2> QED
    BY <1>2, <2>1
<1>4. f = [k \in 0 .. PrefixSize |-> IF k = 0 THEN n ELSE f[k - 1] \div Base]
  <2>1. \A k \in 0 .. PrefixSize : f[k] = IF k = 0 THEN n ELSE f[k - 1] \div Base
    BY <1>2, <1>3
  <2> QED
    BY <1>2, <2>1
<1>5. PICK c : c = Rest(n)
  OBVIOUS
<1>6. c = [k \in 0 .. PrefixSize |-> IF k = 0 THEN n ELSE c[k - 1] \div Base]
  BY <1>4, <1>5, Zenon DEF Rest
<1>7. c[0] = n /\ \A k \in 1 .. PrefixSize : c[k] = c[k - 1] \div Base
  BY <1>6, Constants
<1>8. 0 .. PrefixSize \subseteq {k \in Nat : c[k] \in Nat}
  <2>1. \A k \in 1 .. PrefixSize : c[k - 1] \in Nat => c[k] \in Nat
    BY <1>7, Divides
  <2> DEFINE P == {k \in Nat : c[k] \in Nat}
  <2>2. 0 \in P /\ \A k \in 1 .. PrefixSize : k - 1 \in P => k \in P
    BY <1>7, <2>1
  <2> HIDE DEF P
  <2>3. 0 .. PrefixSize \subseteq P
    BY <2>2, Constants, InductionUpTo
  <2> QED
    BY <2>3 DEF P
<1> QED
  BY <1>5, <1>6, <1>7, <1>8

LEMMA Places ==
  /\ \A i \in Digits : Below(i) \in 0 .. PrefixSize - 1 /\ ByteAbove(Below(i)) = i
  /\ \A k \in 0 .. PrefixSize - 1 : ByteAbove(k) \in Digits /\ Below(ByteAbove(k)) = k
  BY Constants DEF Below, ByteAbove, Digits

LEMMA PrefixIs ==
  ASSUME NEW b, \A i \in Digits : b[i] \in Byte
  PROVE  \E v \in [0 .. PrefixSize -> Nat] :
           /\ v[PrefixSize] = 0
           /\ \A k \in 0 .. PrefixSize - 1 : v[k] = v[k + 1] * Base + b[ByteAbove(k)]
           /\ PrefixOf(b) = v[0]
<1> DEFINE d(k) == b[ByteAbove(k)]
           h == [i \in 1 .. PrefixSize |-> [t \in Nat |-> t * Base + d(PrefixSize - i)]]
<1>0. ASSUME NEW k \in 0 .. PrefixSize - 1 PROVE d(k) \in Nat
  BY Places, Constants DEF Byte
<1> HIDE DEF d
<1>1. Steps(h, PrefixSize, Nat)
  <2> SUFFICES ASSUME NEW i \in 1 .. PrefixSize PROVE \A t \in Nat : t * Base + d(PrefixSize - i) \in Nat
    BY DEF Steps
  <2>1. d(PrefixSize - i) \in Nat
    BY <1>0, Constants
  <2> QED
    BY <2>1, Constants
<1>a. PICK f : Walk(f, 0, h, PrefixSize, Nat)
  <2> HIDE DEF h
  <2>1. PrefixSize \in Nat /\ 0 \in Nat
    BY Constants
  <2> QED
    BY <1>1, <2>1, Recursion, Zenon
<1>2. f \in [0 .. PrefixSize -> Nat] /\ f[0] = 0 /\ \A i \in 1 .. PrefixSize : f[i] = h[i][f[i - 1]]
  BY <1>a DEF Walk
<1>3. ASSUME NEW i \in 1 .. PrefixSize PROVE f[i] = f[i - 1] * Base + d(PrefixSize - i)
  <2>1. f[i - 1] \in Nat
    BY <1>2, Constants
  <2> QED
    BY <1>2, <2>1
<1> DEFINE g == [k \in 0 .. PrefixSize |-> f[PrefixSize - k]]
<1>4. g[PrefixSize] = 0 /\ \A k \in 0 .. PrefixSize - 1 : g[k] = g[k + 1] * Base + d(k)
  <2>1. g[PrefixSize] = 0
    BY <1>2, Constants
  <2>2. ASSUME NEW k \in 0 .. PrefixSize - 1 PROVE g[k] = g[k + 1] * Base + d(k)
    <3>1. /\ PrefixSize - k \in 1 .. PrefixSize /\ (PrefixSize - k) - 1 = PrefixSize - (k + 1)
          /\ PrefixSize - (PrefixSize - k) = k /\ k \in 0 .. PrefixSize /\ k + 1 \in 0 .. PrefixSize
      BY Constants
    <3>2. f[PrefixSize - k] = f[(PrefixSize - k) - 1] * Base + d(PrefixSize - (PrefixSize - k))
      BY <1>3, <3>1
    <3> QED
      BY <3>1, <3>2
  <2> QED
    BY <2>1, <2>2
<1>5. g = [k \in 0 .. PrefixSize |-> IF k = PrefixSize THEN 0 ELSE g[k + 1] * Base + d(k)]
  <2>1. ASSUME NEW k \in 0 .. PrefixSize
        PROVE  g[k] = IF k = PrefixSize THEN 0 ELSE g[k + 1] * Base + d(k)
    <3> HIDE DEF g
    <3>1. k # PrefixSize => k \in 0 .. PrefixSize - 1
      BY Constants
    <3> QED
      BY <1>4, <3>1
  <2>2. g = [k \in 0 .. PrefixSize |-> g[k]]
    OBVIOUS
  <2> HIDE DEF g
  <2> QED
    BY <2>1, <2>2
<1>6. PICK v : /\ v = [k \in 0 .. PrefixSize |-> IF k = PrefixSize THEN 0 ELSE v[k + 1] * Base + d(k)]
               /\ PrefixOf(b) = v[0]
  <2> HIDE DEF g
  <2> QED
    BY <1>5, Zenon DEF PrefixOf, d
<1>7. v[PrefixSize] = 0 /\ \A k \in 0 .. PrefixSize - 1 : v[k] = v[k + 1] * Base + d(k)
  BY <1>6, Constants
<1>8. 0 .. PrefixSize \subseteq {k \in Nat : v[PrefixSize - k] \in Nat}
  <2> DEFINE P == {k \in Nat : v[PrefixSize - k] \in Nat}
  <2>1. 0 \in P
    BY <1>7, Constants
  <2>2. ASSUME NEW k \in 1 .. PrefixSize, k - 1 \in P PROVE k \in P
    <3>1. v[PrefixSize - (k - 1)] \in Nat
      BY <2>2
    <3>2. PrefixSize - k \in 0 .. PrefixSize - 1 /\ (PrefixSize - k) + 1 = PrefixSize - (k - 1)
      BY Constants
    <3>3. v[PrefixSize - k] = v[PrefixSize - (k - 1)] * Base + d(PrefixSize - k)
      BY <1>7, <3>2
    <3>4. d(PrefixSize - k) \in Nat
      BY <1>0, <3>2
    <3>5. v[PrefixSize - (k - 1)] * Base \in Nat
      BY <3>1, Constants
    <3> QED
      BY <3>3, <3>4, <3>5
  <2> HIDE DEF P
  <2>3. 0 .. PrefixSize \subseteq P
    BY <2>1, <2>2, Constants, InductionUpTo
  <2> QED
    BY <2>3 DEF P
<1>9. v \in [0 .. PrefixSize -> Nat]
  <2>1. \A k \in 0 .. PrefixSize : PrefixSize - k \in 0 .. PrefixSize /\ PrefixSize - (PrefixSize - k) = k
    BY Constants
  <2>2. \A k \in 0 .. PrefixSize : v[k] \in Nat
    BY <1>8, <2>1
  <2> QED
    BY <1>6, <2>2
<1> QED
  BY <1>6, <1>7, <1>9 DEF d

(* A length that has room in the prefix is read back from the bytes it was *)
(* written as: read_len undoes write_len, in either order of the bytes.    *)
THEOREM LengthReadBack ==
  ASSUME NEW n \in Nat, Rest(n)[PrefixSize] = 0,
         NEW b, \A i \in Digits : b[i] = Rest(n)[Below(i)] % Base
  PROVE  PrefixOf(b) = n
<1>1. \A i \in Digits : b[i] \in Byte
  <2>1. ASSUME NEW i \in Digits PROVE Rest(n)[Below(i)] \in Nat
    <3>1. Below(i) \in 0 .. PrefixSize
      BY Places, Constants
    <3> QED
      BY <3>1, RestIs
  <2> QED
    BY <2>1, Divides
<1>2. PICK v \in [0 .. PrefixSize -> Nat] :
           /\ v[PrefixSize] = 0
           /\ \A k \in 0 .. PrefixSize - 1 : v[k] = v[k + 1] * Base + b[ByteAbove(k)]
           /\ PrefixOf(b) = v[0]
  BY <1>1, PrefixIs
<1> DEFINE P == {k \in Nat : v[PrefixSize - k] = Rest(n)[PrefixSize - k]}
<1>3. 0 \in P
  BY <1>2, Constants
<1>4. ASSUME NEW k \in 1 .. PrefixSize, k - 1 \in P PROVE k \in P
  <2>1. PICK m : m = PrefixSize - k
    OBVIOUS
  <2>2. m \in 0 .. PrefixSize - 1 /\ m + 1 = PrefixSize - (k - 1) /\ m + 1 \in 1 .. PrefixSize /\ (m + 1) - 1 = m
    BY <2>1, Constants
  <2>3. v[m + 1] = Rest(n)[m + 1]
    BY <1>4, <2>2
  <2>4. b[ByteAbove(m)] = Rest(n)[m] % Base
    BY <2>2, Places
  <2>5. Rest(n)[m + 1] = Rest(n)[m] \div Base
    BY <2>2, RestIs
  <2>6. Rest(n)[m] \in Nat
    <3>1. m \in 0 .. PrefixSize
      BY <2>2, Constants
    <3> QED
      BY <3>1, RestIs
  <2>7. v[m] = (Rest(n)[m] \div Base) * Base + (Rest(n)[m] % Base)
    BY <1>2, <2>2, <2>3, <2>4, <2>5
  <2>8. v[m] = Rest(n)[m]
    BY <2>6, <2>7, Divides
  <2> QED
    BY <2>1, <2>8
<1>5. 0 .. PrefixSize \subseteq P
  <2> HIDE DEF P
  <2> QED
    BY <1>3, <1>4, Constants, InductionUpTo
<1>6. v[0] = Rest(n)[0]
  BY <1>5, Constants
<1> QED
  BY <1>2, <1>6, RestIs

------------------------------------------------------------------------------
(* FlattenSeq puts one sequence after the other.                           *)
LEMMA FlattenIs ==
  ASSUME NEW S, NEW s \in Seq(Seq(S))
  PROVE  \E f : /\ f \in [0 .. Len(s) -> Seq(S)] /\ f[0] = <<>>
                /\ \A i \in 1 .. Len(s) : f[i] = f[i - 1] \o s[i]
                /\ FlattenSeq(s) = f[Len(s)]
<1> DEFINE h == [i \in 1 .. Len(s) |-> [t \in Seq(S) |-> t \o s[i]]]
<1>1. Len(s) \in Nat /\ \A i \in 1 .. Len(s) : s[i] \in Seq(S)
  OBVIOUS
<1>2. \A i \in 1 .. Len(s) : \A t \in Seq(S) : t \o s[i] \in Seq(S)
  BY <1>1
<1>3. <<>> \in Seq(S) /\ \A t \in Seq(S) : <<>> \o t = t
  BY ConcatEmptySeq
<1>4. Steps(h, Len(s), Seq(S))
  BY <1>2 DEF Steps
<1>a. PICK f : Walk(f, <<>>, h, Len(s), Seq(S))
  <2> HIDE DEF h
  <2> QED
    BY <1>1, <1>3, <1>4, Recursion, Zenon
<1>5. f \in [0 .. Len(s) -> Seq(S)] /\ f[0] = <<>> /\ \A i \in 1 .. Len(s) : f[i] = h[i][f[i - 1]]
  BY <1>a DEF Walk
<1>6. ASSUME NEW i \in 1 .. Len(s) PROVE f[i] = f[i - 1] \o s[i]
  <2> HIDE DEF h
  <2>1. i - 1 \in 0 .. Len(s)
    BY <1>1
  <2>2. f[i - 1] \in Seq(S)
    BY <1>5, <2>1
  <2>3. f[i] = h[i][f[i - 1]]
    BY <1>5
  <2>4. h[i][f[i - 1]] = f[i - 1] \o s[i]
    BY <2>2 DEF h
  <2> QED
    BY <2>3, <2>4
<1> HIDE DEF h
<1>7. CASE Len(s) = 0
  <2>1. FlattenSeq(s) = s
    BY <1>7, Zenon DEF FlattenSeq
  <2>2. s = <<>>
    BY <1>7
  <2> QED
    BY <1>5, <1>6, <1>7, <2>1, <2>2
<1>8. CASE Len(s) # 0
  <2> DEFINE g == [i \in 1 .. Len(s) |-> f[i]]
  <2>1. ASSUME NEW i \in 1 .. Len(s)
        PROVE  f[i] = IF i = 1 THEN s[i] ELSE g[i - 1] \o s[i]
    <3>a. f[i] = f[i - 1] \o s[i]
      BY <1>6
    <3>1. CASE i = 1
      <4>1. f[i - 1] = <<>>
        BY <1>5, <3>1
      <4>2. f[i] = s[i]
        BY <1>1, <1>3, <3>a, <4>1, Zenon
      <4> QED
        BY <3>1, <4>2
    <3>2. CASE i # 1
      <4>1. i - 1 \in 1 .. Len(s)
        BY <1>1, <3>2
      <4> QED
        BY <1>6, <3>2, <4>1
    <3> QED
      BY <3>1, <3>2
  <2>2. g = [i \in 1 .. Len(s) |-> IF i = 1 THEN s[i] ELSE g[i - 1] \o s[i]]
    <3>1. \A i \in 1 .. Len(s) : g[i] = IF i = 1 THEN s[i] ELSE g[i - 1] \o s[i]
      BY <2>1
    <3>2. g = [i \in 1 .. Len(s) |-> g[i]]
      OBVIOUS
    <3> HIDE DEF g
    <3> QED
      BY <3>1, <3>2
  <2>3. PICK c : /\ c = [i \in 1 .. Len(s) |-> IF i = 1 THEN s[i] ELSE c[i - 1] \o s[i]]
                 /\ FlattenSeq(s) = c[Len(s)]
    <3> HIDE DEF g
    <3> QED
      BY <1>8, <2>2, Zenon DEF FlattenSeq
  <2> DEFINE P == {i \in Nat : i # 0 => c[i] = f[i]}
  <2>4. ASSUME NEW i \in 1 .. Len(s), i - 1 \in P PROVE i \in P
    <3>a. f[i] = f[i - 1] \o s[i]
      BY <1>6
    <3>1. CASE i = 1
      <4>1. f[i - 1] = <<>>
        BY <1>5, <3>1
      <4>2. f[i] = s[i]
        BY <1>1, <1>3, <3>a, <4>1, Zenon
      <4>3. c[i] = s[i]
        BY <2>3, <3>1
      <4> QED
        BY <1>1, <4>2, <4>3
    <3>2. CASE i # 1
      <4>1. c[i] = c[i - 1] \o s[i]
        BY <2>3, <3>2
      <4> QED
        <5>1. i - 1 # 0 /\ c[i - 1] = f[i - 1]
          BY <1>1, <2>4, <3>2
        <5>2. c[i] = f[i]
          BY <1>6, <4>1, <5>1
        <5> QED
          BY <5>2
    <3> QED
      BY <3>1, <3>2
  <2>5. 0 .. Len(s) \subseteq P
    <3>1. 0 \in P
      OBVIOUS
    <3> HIDE DEF P
    <3> QED
      BY <1>1, <2>4, <3>1, InductionUpTo
  <2>6. c[Len(s)] = f[Len(s)]
    BY <1>1, <1>8, <2>5
  <2> QED
    BY <1>5, <1>6, <2>3, <2>6
<1> QED
  BY <1>7, <1>8

LEMMA FlattenAppend ==
  ASSUME NEW S, NEW s \in Seq(Seq(S)), NEW x \in Seq(S)
  PROVE  /\ FlattenSeq(s) \in Seq(S)
         /\ FlattenSeq(Append(s, x)) = FlattenSeq(s) \o x
<1>1. PICK f : /\ f \in [0 .. Len(s) -> Seq(S)] /\ f[0] = <<>>
               /\ \A i \in 1 .. Len(s) : f[i] = f[i - 1] \o s[i]
               /\ FlattenSeq(s) = f[Len(s)]
  BY FlattenIs
<1>2. PICK t : t = Append(s, x)
  OBVIOUS
<1>3. /\ t \in Seq(Seq(S)) /\ Len(s) \in Nat /\ Len(t) = Len(s) + 1
      /\ t[Len(t)] = x /\ \A i \in 1 .. Len(s) : t[i] = s[i]
  BY <1>2
<1>4. PICK g : /\ g \in [0 .. Len(t) -> Seq(S)] /\ g[0] = <<>>
               /\ \A i \in 1 .. Len(t) : g[i] = g[i - 1] \o t[i]
               /\ FlattenSeq(t) = g[Len(t)]
  BY <1>3, FlattenIs
<1> DEFINE P == {i \in Nat : g[i] = f[i]}
<1>5. 0 \in P
  BY <1>1, <1>4
<1>6. ASSUME NEW i \in 1 .. Len(s), i - 1 \in P PROVE i \in P
  <2>1. i \in 1 .. Len(t) /\ t[i] = s[i]
    BY <1>3
  <2>2. g[i] = g[i - 1] \o t[i] /\ f[i] = f[i - 1] \o s[i] /\ g[i - 1] = f[i - 1]
    BY <1>1, <1>4, <1>6, <2>1
  <2>3. g[i] = f[i]
    BY <2>1, <2>2
  <2> QED
    BY <1>3, <2>3
<1>7. 0 .. Len(s) \subseteq P
  <2> HIDE DEF P
  <2> QED
    BY <1>3, <1>5, <1>6, InductionUpTo
<1>8. g[Len(s)] = f[Len(s)]
  <2>1. Len(s) \in 0 .. Len(s)
    BY <1>3
  <2> QED
    BY <1>7, <2>1
<1>9. Len(t) \in 1 .. Len(t) /\ Len(t) - 1 = Len(s)
  BY <1>3
<1>10. g[Len(t)] = g[Len(s)] \o x
  BY <1>3, <1>4, <1>9
<1> QED
  BY <1>1, <1>2, <1>3, <1>4, <1>8, <1>10

LEMMA FlattenNone == FlattenSeq(<<>>) = <<>>
  BY Zenon DEF FlattenSeq

------------------------------------------------------------------------------
(* The lines of a payload, of which each begins where the one before ends. *)
Ended(p) == IF p # <<>> /\ Last(p) = Lf THEN p ELSE Append(p, Lf)

Begins(e, i, j) ==
  j \in 1 .. i /\ (j = 1 \/ e[j - 1] = Lf) /\ \A k \in j .. i - 1 : e[k] # Lf

LEMMA SomewhereBegins ==
  ASSUME NEW e, NEW i \in Nat \ {0}
  PROVE  \E j : Begins(e, i, j) /\ LineAt(e, i) = Line(SubSeq(e, j, i - 1))
<1> DEFINE P == {n \in Nat : \E j : Begins(e, n + 1, j)}
<1>1. 0 \in P
  <2>1. Begins(e, 1, 1)
    BY DEF Begins
  <2> QED
    BY <2>1
<1>2. ASSUME NEW n \in Nat, n \in P PROVE n + 1 \in P
  <2>1. PICK j : Begins(e, n + 1, j)
    BY <1>2
  <2>2. CASE e[n + 1] = Lf
    <3>1. Begins(e, n + 2, n + 2)
      BY <2>2 DEF Begins
    <3> QED
      BY <3>1
  <2>3. CASE e[n + 1] # Lf
    <3>1. Begins(e, n + 2, j)
      BY <2>1, <2>3 DEF Begins
    <3> QED
      BY <3>1
  <2> QED
    BY <2>2, <2>3
<1>3. Nat \subseteq P
  <2> HIDE DEF P
  <2> QED
    BY <1>1, <1>2, Induction
<1>4. PICK j : Begins(e, i, j)
  <2>1. i - 1 \in P
    BY <1>3
  <2>2. \E j : Begins(e, (i - 1) + 1, j)
    BY <2>1
  <2>3. (i - 1) + 1 = i
    OBVIOUS
  <2> QED
    BY <2>2, <2>3
<1>5. PICK c : /\ c = (CHOOSE m \in 1 .. i : /\ m = 1 \/ e[m - 1] = Lf
                                             /\ \A k \in m .. i - 1 : e[k] # Lf)
               /\ Begins(e, i, c)
  BY <1>4, Zenon DEF Begins
<1> QED
  BY <1>5, Zenon DEF LineAt

LEMMA LineType == ASSUME NEW b \in Seq(Byte) PROVE Line(b) \in Seq(Byte)
<1>1. CASE b # <<>> /\ Last(b) = Cr
  <2>1. \A i \in 1 .. Len(b) - 1 : b[i] \in Byte
    OBVIOUS
  <2>2. SubSeq(b, 1, Len(b) - 1) \in Seq(Byte)
    BY <2>1, SubSeqProperties
  <2> QED
    BY <1>1, <2>2 DEF Line, Front
<1>2. CASE ~(b # <<>> /\ Last(b) = Cr)
  BY <1>2 DEF Line
<1> QED
  BY <1>1, <1>2

LEMMA EndedIs ==
  ASSUME NEW p \in Seq(Byte)
  PROVE  /\ Ended(p) \in Seq(Byte) /\ Len(Ended(p)) \in Nat \ {0}
         /\ Ended(p)[Len(Ended(p))] = Lf
         /\ Len(p) <= Len(Ended(p)) /\ Len(Ended(p)) <= Len(p) + 1
         /\ \A i \in 1 .. Len(Ended(p)) - 1 : i <= Len(p) /\ Ended(p)[i] = p[i]
<1>1. CASE p # <<>> /\ Last(p) = Lf
  BY <1>1 DEF Ended, Last
<1>2. CASE ~(p # <<>> /\ Last(p) = Lf)
  <2>1. Ended(p) = Append(p, Lf)
    BY <1>2 DEF Ended
  <2> QED
    BY <2>1, Constants
<1> QED
  BY <1>1, <1>2

LEMMA LineAtType ==
  ASSUME NEW e \in Seq(Byte), NEW i \in 1 .. Len(e)
  PROVE  LineAt(e, i) \in Seq(Byte)
<1>1. PICK j : Begins(e, i, j) /\ LineAt(e, i) = Line(SubSeq(e, j, i - 1))
  <2>1. i \in Nat \ {0}
    OBVIOUS
  <2> QED
    BY <2>1, SomewhereBegins
<1>2. j \in 1 .. i /\ \A k \in j .. i - 1 : e[k] \in Byte
  BY <1>1 DEF Begins
<1>3. SubSeq(e, j, i - 1) \in Seq(Byte)
  BY <1>2, SubSeqProperties
<1> QED
  BY <1>1, <1>3, LineType

LEMMA LinesIs ==
  ASSUME NEW e \in Seq(Byte)
  PROVE  \E f : /\ f \in [0 .. Len(e) -> Seq(Seq(Byte))] /\ f[0] = <<>>
                /\ \A i \in 1 .. Len(e) : f[i] = IF e[i] = Lf THEN Append(f[i - 1], LineAt(e, i))
                                                 ELSE f[i - 1]
                /\ LinesIn(e) = f[Len(e)]
<1> DEFINE T == Seq(Seq(Byte))
           h == [i \in 1 .. Len(e) |-> [t \in T |-> IF e[i] = Lf THEN Append(t, LineAt(e, i)) ELSE t]]
<1>1. e \in Seq(Byte) /\ Len(e) \in Nat
  OBVIOUS
<1>2. Steps(h, Len(e), T)
  <2> SUFFICES ASSUME NEW i \in 1 .. Len(e), NEW t \in T
               PROVE  (IF e[i] = Lf THEN Append(t, LineAt(e, i)) ELSE t) \in T
    BY DEF Steps
  <2>1. LineAt(e, i) \in Seq(Byte)
    BY <1>1, LineAtType
  <2> QED
    BY <2>1
<1>3. PICK f : Walk(f, <<>>, h, Len(e), T)
  <2> HIDE DEF h
  <2>1. <<>> \in T
    OBVIOUS
  <2> QED
    BY <1>1, <1>2, <2>1, Recursion, Zenon
<1>4. f \in [0 .. Len(e) -> T] /\ f[0] = <<>> /\ \A i \in 1 .. Len(e) : f[i] = h[i][f[i - 1]]
  BY <1>3 DEF Walk
<1>5. ASSUME NEW i \in 1 .. Len(e)
      PROVE  f[i] = IF e[i] = Lf THEN Append(f[i - 1], LineAt(e, i)) ELSE f[i - 1]
  <2> HIDE DEF h
  <2>1. i - 1 \in 0 .. Len(e)
    BY <1>1
  <2>2. f[i - 1] \in T
    BY <1>4, <2>1
  <2>3. f[i] = h[i][f[i - 1]]
    BY <1>4
  <2>4. h[i][f[i - 1]] = IF e[i] = Lf THEN Append(f[i - 1], LineAt(e, i)) ELSE f[i - 1]
    BY <2>2 DEF h
  <2> QED
    BY <2>3, <2>4
<1> HIDE DEF h, T
<1>6. f = [i \in 0 .. Len(e) |-> IF i = 0 THEN <<>>
                                 ELSE IF e[i] = Lf THEN Append(f[i - 1], LineAt(e, i))
                                 ELSE f[i - 1]]
  <2>1. \A i \in 0 .. Len(e) : f[i] = IF i = 0 THEN <<>>
                                      ELSE IF e[i] = Lf THEN Append(f[i - 1], LineAt(e, i))
                                      ELSE f[i - 1]
    <3> SUFFICES ASSUME NEW i \in 0 .. Len(e)
                 PROVE  f[i] = IF i = 0 THEN <<>>
                               ELSE IF e[i] = Lf THEN Append(f[i - 1], LineAt(e, i))
                               ELSE f[i - 1]
      OBVIOUS
    <3>1. CASE i = 0
      BY <1>4, <3>1
    <3>2. CASE i # 0
      <4>1. i \in 1 .. Len(e)
        BY <1>1, <3>2
      <4> QED
        BY <1>5, <3>2, <4>1
    <3> QED
      BY <3>1, <3>2
  <2> QED
    BY <1>4, <2>1
<1>7. PICK c : /\ c = [i \in 0 .. Len(e) |-> IF i = 0 THEN <<>>
                                             ELSE IF e[i] = Lf THEN Append(c[i - 1], LineAt(e, i))
                                             ELSE c[i - 1]]
               /\ LinesIn(e) = c[Len(e)]
  BY <1>6, Zenon DEF LinesIn
<1> DEFINE P == {i \in Nat : c[i] = f[i]}
<1>8. 0 \in P
  BY <1>1, <1>4, <1>7
<1>9. ASSUME NEW i \in 1 .. Len(e), i - 1 \in P PROVE i \in P
  <2>1. c[i] = IF e[i] = Lf THEN Append(c[i - 1], LineAt(e, i)) ELSE c[i - 1]
    <3>1. i \in 0 .. Len(e) /\ i # 0
      BY <1>1
    <3> QED
      BY <1>7, <3>1
  <2>2. c[i] = f[i]
    BY <1>5, <1>9, <2>1
  <2> QED
    BY <1>1, <2>2
<1>10. 0 .. Len(e) \subseteq P
  <2> HIDE DEF P
  <2> QED
    BY <1>1, <1>8, <1>9, InductionUpTo
<1>11. c[Len(e)] = f[Len(e)]
  <2>1. Len(e) \in 0 .. Len(e)
    BY <1>1
  <2> QED
    BY <1>10, <2>1
<1> QED
  BY <1>4, <1>5, <1>7, <1>11 DEF T

------------------------------------------------------------------------------
(* Types.                                                                  *)
LEMMA Cut ==
  ASSUME NEW S, NEW b \in Seq(S), NEW n \in Nat, n <= Len(b)
  PROVE  /\ SubSeq(b, 1, n) \in Seq(S) /\ Len(SubSeq(b, 1, n)) = n
         /\ \A i \in 1 .. n : SubSeq(b, 1, n)[i] = b[i]
         /\ Behind(b, n) \in Seq(S) /\ Len(Behind(b, n)) = Len(b) - n
         /\ \A i \in 1 .. Len(b) - n : Behind(b, n)[i] = b[n + i]
         /\ SubSeq(b, 1, n) \o Behind(b, n) = b
<1>1. Len(b) \in Nat /\ \A i \in 1 .. Len(b) : b[i] \in S
  OBVIOUS
<1>2. /\ SubSeq(b, 1, n) \in Seq(S) /\ Len(SubSeq(b, 1, n)) = n
      /\ \A i \in 1 .. n : SubSeq(b, 1, n)[i] = b[i]
  <2>1. \A i \in 1 .. n : b[i] \in S
    BY <1>1
  <2> QED
    BY <2>1, SubSeqProperties
<1>3. PICK r : r = Behind(b, n)
  OBVIOUS
<1>4. /\ r \in Seq(S) /\ Len(r) = Len(b) - n
      /\ \A i \in 1 .. Len(b) - n : r[i] = b[n + i]
  <2>1. \A i \in n + 1 .. Len(b) : b[i] \in S
    BY <1>1
  <2>2. /\ SubSeq(b, n + 1, Len(b)) \in Seq(S)
        /\ Len(SubSeq(b, n + 1, Len(b))) = IF n + 1 <= Len(b) THEN Len(b) - (n + 1) + 1 ELSE 0
        /\ \A i \in 1 .. Len(b) - (n + 1) + 1 : SubSeq(b, n + 1, Len(b))[i] = b[n + 1 + i - 1]
    BY <1>1, <2>1, SubSeqProperties
  <2>3. r = SubSeq(b, n + 1, Len(b))
    BY <1>3 DEF Behind
  <2> QED
    BY <1>1, <2>2, <2>3
<1>5. SubSeq(b, 1, n) \o r = b
  <2>1. PICK a : a = SubSeq(b, 1, n)
    OBVIOUS
  <2>2. a \in Seq(S) /\ Len(a) = n /\ \A i \in 1 .. n : a[i] = b[i]
    BY <1>2, <2>1
  <2>3. /\ a \o r \in Seq(S) /\ Len(a \o r) = n + (Len(b) - n)
        /\ \A i \in 1 .. n + (Len(b) - n) : (a \o r)[i] = IF i <= n THEN a[i] ELSE r[i - n]
    BY <1>4, <2>2, ConcatProperties
  <2>4. Len(a \o r) = Len(b)
    BY <1>1, <2>3
  <2>5. ASSUME NEW i \in 1 .. Len(a \o r) PROVE (a \o r)[i] = b[i]
    <3>1. CASE i <= n
      BY <2>2, <2>3, <2>4, <3>1
    <3>2. CASE ~(i <= n)
      <4>1. i - n \in 1 .. Len(b) - n /\ n + (i - n) = i
        BY <1>1, <2>4, <3>2
      <4>2. r[i - n] = b[i]
        BY <1>4, <4>1
      <4> QED
        BY <2>3, <2>4, <3>2, <4>2
    <3> QED
      BY <3>1, <3>2
  <2>6. a \o r = b
    BY <2>3, <2>4, <2>5, SeqEqual
  <2> QED
    BY <2>1, <2>6
<1> QED
  BY <1>2, <1>3, <1>4, <1>5

LEMMA EncodeType ==
  ASSUME framing \in Framings, NEW p \in Seq(Byte)
  PROVE  Encode(p) \in Seq(Byte)
<1>1. CASE framing = "none"
  BY <1>1 DEF Encode
<1>2. CASE framing = "newline"
  BY <1>2, EndedIs DEF Encode, Ended
<1>3. CASE Prefixed
  <2>1. PICK d : d = [i \in Digits |-> Rest(Len(p))[Below(i)] % Base]
    OBVIOUS
  <2>2. \A i \in Digits : Rest(Len(p))[Below(i)] % Base \in Byte
    <3> SUFFICES ASSUME NEW i \in Digits PROVE Rest(Len(p))[Below(i)] % Base \in Byte
      OBVIOUS
    <3>1. Below(i) \in 0 .. PrefixSize /\ Len(p) \in Nat
      BY Places, Constants
    <3>2. Rest(Len(p))[Below(i)] \in Nat
      BY <3>1, RestIs
    <3> QED
      BY <3>2, Divides
  <2>3. d \in [1 .. PrefixSize -> Byte]
    BY <2>1, <2>2 DEF Digits
  <2>4. d \in Seq(Byte)
    BY <2>3, Constants
  <2>5. Encode(p) = d \o p
    BY <1>3, <2>1 DEF Encode, Prefixed
  <2> QED
    BY <2>4, <2>5
<1> QED
  BY <1>1, <1>2, <1>3 DEF Framings, Prefixed

LEMMA FirstIs ==
  ASSUME NEW S \in SUBSET (Nat \ {0}), S # {}
  PROVE  First(S) \in S /\ \A j \in S : First(S) <= j
<1> DEFINE P == {n \in Nat : \A k \in S : k > n}
<1>1. \E i \in S : \A j \in S : i <= j
  <2> SUFFICES ASSUME \A i \in S : \E j \in S : ~(i <= j) PROVE FALSE
    OBVIOUS
  <2>1. 0 \in P
    OBVIOUS
  <2>2. ASSUME NEW n \in Nat, n \in P PROVE n + 1 \in P
    <3>1. \A k \in S : k >= n + 1
      BY <2>2
    <3>2. n + 1 \notin S
      BY <3>1
    <3> QED
      BY <3>1, <3>2
  <2>3. Nat \subseteq P
    <3> HIDE DEF P
    <3> QED
      BY <2>1, <2>2, Induction
  <2>4. PICK k : k \in S
    OBVIOUS
  <2>5. k \in P
    BY <2>3, <2>4
  <2> QED
    BY <2>4, <2>5
<1> QED
  BY <1>1, Zenon DEF First

LEMMA LineEndIs ==
  ASSUME buf \in Seq(Byte), LineEnds # {}
  PROVE  /\ First(LineEnds) \in 1 .. Len(buf) /\ First(LineEnds) <= MaxFrame + 1
         /\ buf[First(LineEnds)] = Lf
         /\ \A k \in 1 .. First(LineEnds) - 1 : buf[k] # Lf
<1>1. LineEnds \subseteq Nat \ {0}
  BY DEF LineEnds, Newlines
<1>2. First(LineEnds) \in LineEnds /\ \A j \in LineEnds : First(LineEnds) <= j
  BY <1>1, FirstIs
<1>3. PICK i : i = First(LineEnds)
  OBVIOUS
<1>4. i \in 1 .. Len(buf) /\ i <= MaxFrame + 1 /\ buf[i] = Lf
  BY <1>2, <1>3 DEF LineEnds, Newlines
<1>5. ASSUME NEW k \in 1 .. i - 1 PROVE buf[k] # Lf
  <2>1. k \in 1 .. Len(buf) /\ k <= MaxFrame + 1 /\ ~(i <= k)
    BY <1>4, Constants
  <2>2. k \notin LineEnds
    BY <1>2, <1>3, <2>1
  <2> QED
    BY <2>1, <2>2 DEF LineEnds, Newlines
<1> QED
  BY <1>3, <1>4, <1>5


LEMMA LengthType ==
  ASSUME NEW b \in Seq(Byte), Len(b) >= PrefixSize
  PROVE  PrefixOf(b) \in Nat
<1>1. \A i \in Digits : b[i] \in Byte
  BY Constants DEF Digits
<1>2. PICK v \in [0 .. PrefixSize -> Nat] : PrefixOf(b) = v[0]
  BY <1>1, PrefixIs
<1> QED
  BY <1>2, Constants

LEMMA TypeInit == Init => TypeOK
<1> SUFFICES ASSUME Init PROVE TypeOK
  OBVIOUS
<1>1. framing \in Framings
  BY FramingAssumption DEF Init
<1>2. codec \in Length .. MaxFrame
  BY Constants DEF Init, Length
<1> QED
  BY <1>1, <1>2 DEF Init, TypeOK

LEMMA SaysType == ASSUME TypeOK, NEW p \in Payloads, Says(p) PROVE TypeOK'
<1>1. p \in Seq(Byte)
  BY FramingAssumption
<1>2. Encode(p) \in Seq(Byte)
  BY <1>1, EncodeType DEF TypeOK
<1>3. said' \in Seq(Seq(Byte))
  BY <1>1 DEF Says, TypeOK
<1>4. pipe' \in Seq(Byte)
  BY <1>2 DEF Says, TypeOK
<1> QED
  BY <1>3, <1>4 DEF Says, TypeOK

LEMMA ReadType == ASSUME TypeOK, NEW n \in 1 .. Len(pipe), Read(n) PROVE TypeOK'
<1>1. /\ SubSeq(pipe, 1, n) \in Seq(Byte) /\ Behind(pipe, n) \in Seq(Byte)
  <2>1. pipe \in Seq(Byte) /\ n \in Nat /\ n <= Len(pipe)
    BY DEF TypeOK
  <2> QED
    BY <2>1, Cut
<1>2. buf' \in Seq(Byte) /\ pipe' \in Seq(Byte)
  BY <1>1 DEF Read, TypeOK
<1>3. codec' \in Length .. MaxFrame
  BY Constants DEF Read, Length
<1> QED
  BY <1>2, <1>3 DEF Read, TypeOK

LEMMA WriteType ==
  ASSUME TypeOK, NEW p \in Seq(Byte), NEW of \in 0 .. Len(out), Write(p, of)
  PROVE  TypeOK'
<1>1. CASE UNCHANGED out
  BY <1>1 DEF Write, inbound, TypeOK
<1>2. CASE out' = Append(out, [payload |-> p, bytes |-> Encode(p), of |-> of]) /\ UNCHANGED task
  <2>1. Encode(p) \in Seq(Byte)
    BY EncodeType DEF TypeOK
  <2>2. of \in 0 .. MaxOut
    BY Constants DEF Write, TypeOK
  <2>3. [payload |-> p, bytes |-> Encode(p), of |-> of] \in Sent
    BY <2>1, <2>2 DEF Sent
  <2>4. out' \in Seq(Sent)
    BY <1>2, <2>3 DEF TypeOK
  <2> QED
    BY <1>2, <2>4 DEF Write, inbound, TypeOK
<1> QED
  BY <1>1, <1>2 DEF Write

LEMMA DrainType == ASSUME TypeOK, Drain PROVE TypeOK'
<1>0. buf \in Seq(Byte) /\ frames \in Seq(Seq(Byte))
  BY DEF TypeOK
<1>1. CASE DecodeNone
  BY <1>1 DEF DecodeNone, TypeOK
<1>2. CASE DecodeLine
  <2>1. PICK i : i = First(LineEnds)
    OBVIOUS
  <2>2. i \in 1 .. Len(buf)
    BY <1>0, <1>2, <2>1, LineEndIs DEF DecodeLine
  <2>3. SubSeq(buf, 1, i - 1) \in Seq(Byte)
    BY <1>0, <2>2, Cut
  <2>4. PICK b : b = Line(SubSeq(buf, 1, i - 1))
    OBVIOUS
  <2>5. b \in Seq(Byte)
    BY <2>3, <2>4, LineType
  <2>6. Behind(buf, i) \in Seq(Byte)
    BY <1>0, <2>2, Cut
  <2>7. /\ buf' = Behind(buf, i)
        /\ \/ frames' = Append(frames, b) /\ UNCHANGED task
           \/ task' = "select" /\ UNCHANGED frames
        /\ UNCHANGED <<framing, said, pipe, codec, out, whole>>
    BY <1>2, <2>1, <2>4 DEF DecodeLine
  <2>a. Append(frames, b) \in Seq(Seq(Byte))
    BY <1>0, <2>5, AppendProperties
  <2>8. frames' \in Seq(Seq(Byte)) /\ buf' \in Seq(Byte)
    BY <1>0, <2>6, <2>7, <2>a, Zenon
  <2> QED
    BY <2>7, <2>8 DEF TypeOK
<1>3. CASE DecodeLength
  <2>1. PrefixSize \in Nat /\ PrefixSize <= Len(buf)
    BY <1>0, <1>3, Constants DEF DecodeLength, LengthArrived
  <2>2. Behind(buf, PrefixSize) \in Seq(Byte)
    BY <1>0, <2>1, Cut
  <2>3. PrefixOf(buf) \in Nat /\ PrefixOf(buf) <= MaxFrame
    BY <1>0, <1>3, <2>1, LengthType DEF DecodeLength, LengthArrived
  <2>4. PrefixOf(buf) \in Length .. MaxFrame
    BY <2>3, Constants DEF Length
  <2> QED
    BY <1>3, <2>2, <2>4 DEF DecodeLength, TypeOK
<1>4. CASE DecodeBody
  <2>1. codec \in Nat /\ codec <= Len(buf)
    BY <1>0, <1>4, Constants DEF DecodeBody, TypeOK, Length
  <2>2. SubSeq(buf, 1, codec) \in Seq(Byte) /\ Behind(buf, codec) \in Seq(Byte)
    BY <1>0, <2>1, Cut
  <2>3. Length \in Length .. MaxFrame
    BY Constants DEF Length
  <2>4. frames' \in Seq(Seq(Byte)) /\ buf' \in Seq(Byte)
    BY <1>0, <1>4, <2>2 DEF DecodeBody
  <2> QED
    BY <1>4, <2>3, <2>4 DEF DecodeBody, TypeOK
<1>5. CASE NoFrame
  BY <1>5 DEF NoFrame, TypeOK
<1> QED
  BY <1>1, <1>2, <1>3, <1>4, <1>5 DEF Drain

(* Every state is of the type TypeOK says: the decoder waits for no body   *)
(* longer than max_frame, and no replay names a frame that is not there.   *)
LEMMA TypeStep == TypeOK /\ [Next]_vars => TypeOK'
<1> SUFFICES ASSUME TypeOK, [Next]_vars PROVE TypeOK'
  OBVIOUS
<1>1. ASSUME NEW p \in Payloads, Says(p) PROVE TypeOK'
  BY <1>1, SaysType
<1>2. ASSUME NEW p \in Composed, SendComposer(p) PROVE TypeOK'
  <2>1. p \in Seq(Byte)
    BY FramingAssumption
  <2>2. Write(p, 0) /\ 0 \in 0 .. Len(out)
    BY <1>2 DEF SendComposer, TypeOK
  <2> QED
    BY <2>1, <2>2, WriteType
<1>3. ASSUME NEW i \in 1 .. Len(out), ReplayOut(i) PROVE TypeOK'
  <2>1. out[i] \in Sent
    BY DEF TypeOK
  <2>2. out[i].bytes \in Seq(Byte)
    BY <2>1 DEF Sent
  <2>3. Write(out[i].bytes, i) /\ i \in 0 .. Len(out)
    BY <1>3 DEF ReplayOut, TypeOK
  <2> QED
    BY <2>2, <2>3, WriteType
<1>4. ASSUME NEW i \in 1 .. Len(frames), ReplayIn(i) PROVE TypeOK'
  <2>1. frames[i] \in Seq(Byte)
    BY DEF TypeOK
  <2>2. Write(frames[i], 0) /\ 0 \in 0 .. Len(out)
    BY <1>4 DEF ReplayIn, TypeOK
  <2> QED
    BY <2>1, <2>2, WriteType
<1>5. ASSUME NEW n \in 1 .. Len(pipe), Read(n) PROVE TypeOK'
  BY <1>5, ReadType
<1>6. CASE Eof
  BY <1>6 DEF Eof, inbound, TypeOK
<1>7. CASE Drain
  BY <1>7, DrainType
<1>8. CASE UNCHANGED vars
  BY <1>8 DEF vars, inbound, TypeOK
<1> QED
  BY <1>1, <1>2, <1>3, <1>4, <1>5, <1>6, <1>7, <1>8 DEF Next

THEOREM TypeCorrect == Spec => []TypeOK
  BY TypeInit, TypeStep, PTL DEF Spec

------------------------------------------------------------------------------
(* What is on its way.  Bytes carry pieces if they are, one after the      *)
(* other, an encoding of each.                                             *)
Regrouped(S, a, b, c) ==
  a \in Seq(S) /\ b \in Seq(S) /\ c \in Seq(S) => (a \o b) \o c = a \o (b \o c)

LEMMA Regroup == \A S, a, b, c : Regrouped(S, a, b, c)
  BY ConcatAssociative DEF Regrouped

LEMMA FlattenConcat ==
  ASSUME NEW S, NEW s \in Seq(Seq(S)), NEW t \in Seq(Seq(S))
  PROVE  /\ FlattenSeq(s) \in Seq(S) /\ FlattenSeq(t) \in Seq(S)
         /\ FlattenSeq(s \o t) = FlattenSeq(s) \o FlattenSeq(t)
<1>1. PICK f : /\ f \in [0 .. Len(s) -> Seq(S)] /\ f[0] = <<>>
               /\ \A i \in 1 .. Len(s) : f[i] = f[i - 1] \o s[i]
               /\ FlattenSeq(s) = f[Len(s)]
  BY FlattenIs
<1>2. PICK g : /\ g \in [0 .. Len(t) -> Seq(S)] /\ g[0] = <<>>
               /\ \A i \in 1 .. Len(t) : g[i] = g[i - 1] \o t[i]
               /\ FlattenSeq(t) = g[Len(t)]
  BY FlattenIs
<1>3. PICK u : u = s \o t
  OBVIOUS
<1>4. /\ u \in Seq(Seq(S)) /\ Len(u) = Len(s) + Len(t) /\ Len(s) \in Nat /\ Len(t) \in Nat
      /\ \A i \in 1 .. Len(s) : u[i] = s[i]
      /\ \A i \in 1 .. Len(t) : u[Len(s) + i] = t[i] /\ t[i] \in Seq(S)
  BY <1>3
<1>5. PICK h : /\ h \in [0 .. Len(u) -> Seq(S)] /\ h[0] = <<>>
               /\ \A i \in 1 .. Len(u) : h[i] = h[i - 1] \o u[i]
               /\ FlattenSeq(u) = h[Len(u)]
  BY <1>4, FlattenIs
<1>6. f[Len(s)] \in Seq(S) /\ g[Len(t)] \in Seq(S)
  <2>1. Len(s) \in 0 .. Len(s) /\ Len(t) \in 0 .. Len(t)
    BY <1>4
  <2> QED
    BY <1>1, <1>2, <2>1
<1>7. h[Len(s)] = f[Len(s)]
  <2> DEFINE P == {i \in Nat : h[i] = f[i]}
  <2>1. 0 \in P
    BY <1>1, <1>5
  <2>2. ASSUME NEW i \in 1 .. Len(s), i - 1 \in P PROVE i \in P
    <3>1. i \in 1 .. Len(u) /\ u[i] = s[i] /\ i \in Nat /\ h[i - 1] = f[i - 1]
      BY <1>4, <2>2
    <3>2. h[i] = h[i - 1] \o u[i] /\ f[i] = f[i - 1] \o s[i]
      BY <1>1, <1>5, <3>1
    <3> QED
      BY <3>1, <3>2
  <2>3. 0 .. Len(s) \subseteq P
    <3> HIDE DEF P
    <3> QED
      BY <1>4, <2>1, <2>2, InductionUpTo
  <2>4. Len(s) \in 0 .. Len(s)
    BY <1>4
  <2> QED
    BY <2>3, <2>4
<1>8. h[Len(s) + Len(t)] = f[Len(s)] \o g[Len(t)]
  <2> DEFINE P == {i \in Nat : h[Len(s) + i] = f[Len(s)] \o g[i]}
  <2>1. 0 \in P
    <3>1. f[Len(s)] \o g[0] = f[Len(s)]
      BY <1>2, <1>6, ConcatEmptySeq
    <3>2. Len(s) + 0 = Len(s)
      BY <1>4
    <3>3. h[Len(s) + 0] = f[Len(s)] \o g[0]
      BY <1>7, <3>1, <3>2, Zenon
    <3> QED
      BY <3>3
  <2>2. ASSUME NEW i \in 1 .. Len(t), i - 1 \in P PROVE i \in P
    <3>1. PICK k : k = Len(s) + i
      OBVIOUS
    <3>2. /\ k \in 1 .. Len(u) /\ k - 1 = Len(s) + (i - 1) /\ i \in Nat /\ i - 1 \in 0 .. Len(t)
          /\ u[k] = t[i] /\ t[i] \in Seq(S)
      BY <1>4, <3>1
    <3>3. h[k] = h[k - 1] \o u[k] /\ g[i] = g[i - 1] \o t[i] /\ h[k - 1] = f[Len(s)] \o g[i - 1]
      BY <1>2, <1>5, <2>2, <3>2
    <3>4. g[i - 1] \in Seq(S)
      BY <1>2, <3>2
    <3>5. (f[Len(s)] \o g[i - 1]) \o t[i] = f[Len(s)] \o (g[i - 1] \o t[i])
      <4>1. Regrouped(S, f[Len(s)], g[i - 1], t[i])
        BY Regroup, Zenon
      <4>2. f[Len(s)] \in Seq(S) /\ g[i - 1] \in Seq(S) /\ t[i] \in Seq(S)
        BY <1>6, <3>2, <3>4, Zenon
      <4> QED
        BY <4>1, <4>2, Zenon DEF Regrouped
    <3>6. h[k] = f[Len(s)] \o g[i]
      BY <3>2, <3>3, <3>5
    <3> QED
      BY <3>1, <3>2, <3>6
  <2>3. 0 .. Len(t) \subseteq P
    <3> HIDE DEF P
    <3> QED
      BY <1>4, <2>1, <2>2, InductionUpTo
  <2>4. Len(t) \in 0 .. Len(t)
    BY <1>4
  <2> QED
    BY <2>3, <2>4
<1> QED
  BY <1>1, <1>2, <1>3, <1>4, <1>5, <1>6, <1>8

LEMMA FlattenFirst ==
  ASSUME NEW S, NEW s \in Seq(Seq(S)), s # <<>>
  PROVE  \E t \in Seq(Seq(S)) : /\ Len(t) = Len(s) - 1 /\ \A i \in 1 .. Len(t) : t[i] = s[i + 1]
                                /\ FlattenSeq(s) = s[1] \o FlattenSeq(t)
<1>1. PICK t : t = Tail(s)
  OBVIOUS
<1>2. /\ t \in Seq(Seq(S)) /\ Len(t) = Len(s) - 1 /\ \A i \in 1 .. Len(t) : t[i] = s[i + 1]
      /\ s[1] \in Seq(S) /\ Len(s) \in Nat \ {0}
  BY <1>1, HeadTailProperties, EmptySeq
<1>3. <<s[1]>> \in Seq(Seq(S)) /\ s = <<s[1]>> \o t
  <2>1. <<s[1]>> \in Seq(Seq(S))
    BY <1>2
  <2>2. /\ <<s[1]>> \o t \in Seq(Seq(S)) /\ Len(<<s[1]>> \o t) = 1 + Len(t)
        /\ \A i \in 1 .. 1 + Len(t) : (<<s[1]>> \o t)[i] = IF i <= 1 THEN <<s[1]>>[i] ELSE t[i - 1]
    BY <1>2, <2>1
  <2>3. PICK u : u = <<s[1]>> \o t
    OBVIOUS
  <2>4. u \in Seq(Seq(S)) /\ Len(u) = Len(s) /\ \A i \in 1 .. Len(s) : s[i] = u[i]
    BY <1>2, <2>2, <2>3
  <2>5. s = u
    BY <2>4, SeqEqual
  <2> QED
    BY <2>1, <2>3, <2>5
<1>4. FlattenSeq(<<s[1]>>) = s[1]
  <2>1. <<>> \in Seq(Seq(S)) /\ Append(<<>>, s[1]) = <<s[1]>>
    BY <1>2
  <2>2. FlattenSeq(Append(<<>>, s[1])) = FlattenSeq(<<>>) \o s[1]
    BY <1>2, <2>1, FlattenAppend
  <2>3. FlattenSeq(<<>>) \o s[1] = s[1]
    BY <1>2, FlattenNone, ConcatEmptySeq
  <2> QED
    BY <2>1, <2>2, <2>3
<1>5. FlattenSeq(<<s[1]>> \o t) = FlattenSeq(<<s[1]>>) \o FlattenSeq(t)
  BY <1>2, <1>3, FlattenConcat
<1> QED
  BY <1>2, <1>3, <1>4, <1>5

Carried(x, piece) ==
  /\ x \in Seq(Byte) /\ x # <<>>
  /\ IF framing = "newline"
       THEN /\ x[Len(x)] = Lf /\ Len(x) <= MaxFrame + 1
            /\ \A k \in 1 .. Len(x) - 1 : x[k] # Lf /\ x[k] # Bad
            /\ piece = Line(SubSeq(x, 1, Len(x) - 1))
       ELSE x = Encode(piece) /\ Fits(piece) /\ Len(piece) <= MaxFrame

Carries(bytes, pieces) ==
  \E xs \in Seq(Seq(Byte)) : /\ bytes = FlattenSeq(xs)
                             /\ Len(xs) = Len(pieces)
                             /\ \A k \in 1 .. Len(xs) : Carried(xs[k], pieces[k])

LEMMA CarriesNone == Carries(<<>>, <<>>)
<1>1. <<>> \in Seq(Seq(Byte)) /\ Len(<<>>) = 0
  OBVIOUS
<1>2. \A k \in 1 .. Len(<<>>) : Carried(<<>>[k], <<>>[k])
  BY <1>1
<1> QED
  BY <1>1, <1>2, FlattenNone, Zenon DEF Carries

LEMMA CarriesBoth ==
  ASSUME NEW a, NEW b, NEW ps \in Seq(Seq(Byte)), NEW qs \in Seq(Seq(Byte)),
         Carries(a, ps), Carries(b, qs)
  PROVE  Carries(a \o b, ps \o qs)
<1>1. PICK xs \in Seq(Seq(Byte)) : /\ a = FlattenSeq(xs) /\ Len(xs) = Len(ps)
                                   /\ \A k \in 1 .. Len(xs) : Carried(xs[k], ps[k])
  BY DEF Carries
<1>2. PICK ys \in Seq(Seq(Byte)) : /\ b = FlattenSeq(ys) /\ Len(ys) = Len(qs)
                                   /\ \A k \in 1 .. Len(ys) : Carried(ys[k], qs[k])
  BY DEF Carries
<1>3. FlattenSeq(xs \o ys) = a \o b
  BY <1>1, <1>2, FlattenConcat
<1>4. xs \o ys \in Seq(Seq(Byte)) /\ Len(xs \o ys) = Len(xs) + Len(ys) /\ Len(ps \o qs) = Len(xs) + Len(ys)
  <2>1. /\ xs \o ys \in Seq(Seq(Byte)) /\ Len(xs \o ys) = Len(xs) + Len(ys)
        /\ Len(ps \o qs) = Len(ps) + Len(qs)
    BY ConcatProperties
  <2> QED
    BY <1>1, <1>2, <2>1
<1>5. ASSUME NEW k \in 1 .. Len(xs) + Len(ys) PROVE Carried((xs \o ys)[k], (ps \o qs)[k])
  <2>0. Len(xs) \in Nat /\ Len(ys) \in Nat
    OBVIOUS
  <2>1. CASE k <= Len(xs)
    <3>1. k \in 1 .. Len(xs) /\ (xs \o ys)[k] = xs[k] /\ (ps \o qs)[k] = ps[k]
      BY <1>1, <1>2, <2>0, <2>1
    <3> QED
      BY <1>1, <3>1
  <2>2. CASE ~(k <= Len(xs))
    <3>1. /\ k - Len(xs) \in 1 .. Len(ys)
          /\ (xs \o ys)[k] = ys[k - Len(xs)] /\ (ps \o qs)[k] = qs[k - Len(xs)]
      BY <1>1, <1>2, <2>0, <2>2
    <3> QED
      BY <1>2, <3>1
  <2> QED
    BY <2>1, <2>2
<1> QED
  BY <1>3, <1>4, <1>5 DEF Carries

LEMMA CarriesOne ==
  ASSUME NEW x, NEW p, Carried(x, p)
  PROVE  Carries(x, <<p>>)
<1>1. x \in Seq(Byte)
  BY DEF Carried
<1>2. <<x>> \in Seq(Seq(Byte)) /\ Len(<<x>>) = 1 /\ <<x>>[1] = x /\ Len(<<p>>) = 1 /\ <<p>>[1] = p
  BY <1>1
<1>3. FlattenSeq(<<x>>) = x
  <2>1. <<>> \in Seq(Seq(Byte)) /\ Append(<<>>, x) = <<x>>
    BY <1>1
  <2>2. FlattenSeq(Append(<<>>, x)) = FlattenSeq(<<>>) \o x
    BY <1>1, <2>1, FlattenAppend
  <2>3. FlattenSeq(<<>>) \o x = x
    BY <1>1, FlattenNone, ConcatEmptySeq
  <2> QED
    BY <2>1, <2>2, <2>3
<1>4. \A k \in 1 .. Len(<<x>>) : Carried(<<x>>[k], <<p>>[k])
  BY <1>2
<1> QED
  BY <1>2, <1>3, <1>4 DEF Carries

(* Bytes that carry a piece begin with an encoding of the first.           *)
LEMMA CarriesFirst ==
  ASSUME NEW b, NEW ps \in Seq(Seq(Byte)), Carries(b, ps), b # <<>> \/ ps # <<>>
  PROVE  \E x, r \in Seq(Byte) : \E p \in Seq(Byte) : \E qs \in Seq(Seq(Byte)) :
           b = x \o r /\ ps = <<p>> \o qs /\ Carried(x, p) /\ Carries(r, qs)
<1>1. PICK xs \in Seq(Seq(Byte)) : /\ b = FlattenSeq(xs) /\ Len(xs) = Len(ps)
                                   /\ \A k \in 1 .. Len(xs) : Carried(xs[k], ps[k])
  BY DEF Carries
<1>2. xs # <<>> /\ ps # <<>> /\ Len(xs) \in Nat \ {0}
  <2>1. CASE xs = <<>>
    <3>1. b = <<>> /\ Len(ps) = 0
      BY <1>1, <2>1, FlattenNone
    <3> QED
      BY <3>1
  <2>2. CASE xs # <<>>
    BY <1>1, <2>2
  <2> QED
    BY <2>1, <2>2
<1>3. PICK ys \in Seq(Seq(Byte)) : /\ Len(ys) = Len(xs) - 1 /\ \A i \in 1 .. Len(ys) : ys[i] = xs[i + 1]
                                   /\ FlattenSeq(xs) = xs[1] \o FlattenSeq(ys)
  BY <1>2, FlattenFirst
<1>4. PICK qs : qs = Tail(ps)
  OBVIOUS
<1>5. qs \in Seq(Seq(Byte)) /\ Len(qs) = Len(ps) - 1 /\ \A i \in 1 .. Len(qs) : qs[i] = ps[i + 1]
  BY <1>2, <1>4, HeadTailProperties
<1>6. xs[1] \in Seq(Byte) /\ ps[1] \in Seq(Byte) /\ Carried(xs[1], ps[1])
  BY <1>1, <1>2
<1>7. ps = <<ps[1]>> \o qs
  <2>1. PICK u : u = <<ps[1]>> \o qs
    OBVIOUS
  <2>2. u \in Seq(Seq(Byte)) /\ Len(u) = Len(ps) /\ \A i \in 1 .. Len(ps) : ps[i] = u[i]
    BY <1>1, <1>2, <1>5, <1>6, <2>1
  <2>3. ps = u
    BY <2>2, SeqEqual
  <2> QED
    BY <2>1, <2>3
<1>8. Carries(FlattenSeq(ys), qs)
  <2>1. ASSUME NEW k \in 1 .. Len(ys) PROVE Carried(ys[k], qs[k])
    <3>1. k + 1 \in 1 .. Len(xs) /\ k \in 1 .. Len(qs)
      BY <1>1, <1>2, <1>3, <1>5
    <3>2. ys[k] = xs[k + 1] /\ qs[k] = ps[k + 1]
      BY <1>3, <1>5, <3>1
    <3> QED
      BY <1>1, <3>1, <3>2
  <2>2. Len(ys) = Len(qs)
    BY <1>1, <1>3, <1>5
  <2> QED
    BY <2>1, <2>2 DEF Carries
<1>9. FlattenSeq(ys) \in Seq(Byte)
  BY FlattenConcat
<1>10. PICK p, x, r : p = ps[1] /\ x = xs[1] /\ r = FlattenSeq(ys)
  OBVIOUS
<1> QED
  BY <1>1, <1>3, <1>5, <1>6, <1>7, <1>8, <1>9, <1>10

(* What begins with x, and has at least x before the cut.                  *)
LEMMA SplitAt ==
  ASSUME NEW S, NEW a \in Seq(S), NEW b \in Seq(S), NEW x \in Seq(S), NEW r \in Seq(S),
         a \o b = x \o r, Len(x) <= Len(a)
  PROVE  SubSeq(a, 1, Len(x)) = x /\ Behind(a, Len(x)) \o b = r
<1> DEFINE n == Len(x)
<1>1. n \in Nat /\ Len(a) \in Nat /\ Len(b) \in Nat /\ Len(r) \in Nat
  OBVIOUS
<1>2. /\ SubSeq(a, 1, n) \in Seq(S) /\ Len(SubSeq(a, 1, n)) = n
      /\ \A i \in 1 .. n : SubSeq(a, 1, n)[i] = a[i]
      /\ Behind(a, n) \in Seq(S) /\ Len(Behind(a, n)) = Len(a) - n
      /\ \A i \in 1 .. Len(a) - n : Behind(a, n)[i] = a[n + i]
  BY <1>1, Cut
<1>3. PICK u : u = a \o b
  OBVIOUS
<1>4. /\ Len(u) = Len(a) + Len(b) /\ Len(u) = n + Len(r)
      /\ \A i \in 1 .. Len(u) : u[i] = IF i <= Len(a) THEN a[i] ELSE b[i - Len(a)]
      /\ \A i \in 1 .. Len(u) : u[i] = IF i <= n THEN x[i] ELSE r[i - n]
  <2>1. /\ Len(u) = Len(a) + Len(b)
        /\ \A i \in 1 .. Len(a) + Len(b) : u[i] = IF i <= Len(a) THEN a[i] ELSE b[i - Len(a)]
    BY <1>3, ConcatProperties
  <2>2. /\ Len(u) = n + Len(r)
        /\ \A i \in 1 .. n + Len(r) : u[i] = IF i <= n THEN x[i] ELSE r[i - n]
    <3>1. u = x \o r
      BY <1>3
    <3> QED
      BY <3>1, ConcatProperties
  <2> QED
    BY <2>1, <2>2
<1> HIDE DEF n
<1>5. SubSeq(a, 1, n) = x
  <2>1. PICK c : c = SubSeq(a, 1, n)
    OBVIOUS
  <2>2. c \in Seq(S) /\ Len(c) = Len(x) /\ \A i \in 1 .. Len(c) : c[i] = x[i]
    <3>1. c \in Seq(S) /\ Len(c) = n /\ n = Len(x) /\ \A i \in 1 .. n : c[i] = a[i]
      BY <1>2, <2>1 DEF n
    <3>2. \A i \in 1 .. n : i \in 1 .. Len(u) /\ i <= Len(a) /\ i <= n
      BY <1>1, <1>4 DEF n
    <3> QED
      BY <1>4, <3>1, <3>2
  <2>3. c = x
    BY <2>2, SeqEqual
  <2> QED
    BY <2>1, <2>3
<1>6. Behind(a, n) \o b = r
  <2>1. PICK d : d = Behind(a, n)
    OBVIOUS
  <2>2. /\ d \in Seq(S) /\ Len(d) = Len(a) - n /\ \A i \in 1 .. Len(a) - n : d[i] = a[n + i]
    BY <1>2, <2>1
  <2>3. PICK e : e = d \o b
    OBVIOUS
  <2>4. /\ e \in Seq(S) /\ Len(e) = Len(r)
        /\ \A i \in 1 .. Len(r) : e[i] = IF i <= Len(d) THEN d[i] ELSE b[i - Len(d)]
    <3>1. /\ e \in Seq(S) /\ Len(e) = Len(d) + Len(b)
          /\ \A i \in 1 .. Len(d) + Len(b) : e[i] = IF i <= Len(d) THEN d[i] ELSE b[i - Len(d)]
      BY <2>2, <2>3, ConcatProperties
    <3>2. Len(d) + Len(b) = Len(r)
      <4>1. Len(a) + Len(b) = n + Len(r)
        BY <1>4, Zenon
      <4>2. Len(d) = Len(a) - n
        BY <2>2
      <4> QED
        BY <1>1, <4>1, <4>2
    <3> QED
      BY <3>1, <3>2
  <2>5. ASSUME NEW i \in 1 .. Len(e) PROVE e[i] = r[i]
    <3>1. PICK k : k = n + i
      OBVIOUS
    <3>2. i \in 1 .. Len(r) /\ k \in 1 .. Len(u) /\ ~(k <= n) /\ k - n = i /\ i \in Nat
      BY <1>1, <1>4, <2>4, <3>1
    <3>3. u[k] = r[i]
      BY <1>4, <3>2
    <3>4. CASE i <= Len(d)
      <4>1. k <= Len(a) /\ i \in 1 .. Len(a) - n
        BY <1>1, <2>2, <3>1, <3>2, <3>4
      <4>2. u[k] = a[k] /\ d[i] = a[k] /\ e[i] = d[i]
        BY <1>4, <2>2, <2>4, <3>1, <3>2, <3>4, <4>1
      <4> QED
        BY <3>3, <4>2
    <3>5. CASE ~(i <= Len(d))
      <4>1. ~(k <= Len(a)) /\ k - Len(a) = i - Len(d)
        BY <1>1, <2>2, <3>1, <3>2, <3>5
      <4>2. u[k] = b[k - Len(a)] /\ e[i] = b[i - Len(d)]
        BY <1>4, <2>4, <3>2, <3>5, <4>1
      <4> QED
        BY <3>3, <4>1, <4>2
    <3> QED
      BY <3>4, <3>5
  <2>6. e = r
    BY <2>4, <2>5, SeqEqual
  <2> QED
    BY <2>1, <2>3, <2>6
<1> QED
  BY <1>5, <1>6 DEF n

LEMMA PrefixEncoded ==
  ASSUME Prefixed, NEW p \in Seq(Byte), Fits(p)
  PROVE  \E d \in Seq(Byte) :
           /\ Encode(p) = d \o p /\ Len(d) = PrefixSize
           /\ \A b : (\A i \in Digits : b[i] = d[i]) => PrefixOf(b) = Len(p)
<1>1. PICK d : d = [i \in Digits |-> Rest(Len(p))[Below(i)] % Base]
  OBVIOUS
<1>2. \A i \in Digits : Rest(Len(p))[Below(i)] % Base \in Byte
  <2> SUFFICES ASSUME NEW i \in Digits PROVE Rest(Len(p))[Below(i)] % Base \in Byte
    OBVIOUS
  <2>1. Below(i) \in 0 .. PrefixSize /\ Len(p) \in Nat
    BY Places, Constants
  <2>2. Rest(Len(p))[Below(i)] \in Nat
    BY <2>1, RestIs
  <2> QED
    BY <2>2, Divides
<1>3. d \in [1 .. PrefixSize -> Byte] /\ \A i \in Digits : d[i] = Rest(Len(p))[Below(i)] % Base
  BY <1>1, <1>2 DEF Digits
<1>4. d \in Seq(Byte) /\ Len(d) = PrefixSize
  BY <1>3, Constants
<1>5. Encode(p) = d \o p
  BY <1>1 DEF Encode, Prefixed
<1>6. ASSUME NEW b, \A i \in Digits : b[i] = d[i] PROVE PrefixOf(b) = Len(p)
  <2>1. Len(p) \in Nat /\ Rest(Len(p))[PrefixSize] = 0
    BY DEF Fits
  <2>2. \A i \in Digits : b[i] = Rest(Len(p))[Below(i)] % Base
    BY <1>3, <1>6
  <2> QED
    BY <2>1, <2>2, LengthReadBack
<1> QED
  BY <1>4, <1>5, <1>6

(* Every newline ends an encoding of its line.                             *)
LEMMA LineCarried ==
  ASSUME framing = "newline", NEW p \in Seq(Byte), Decent(p), NEW e, e = Ended(p),
         NEW i \in 1 .. Len(e), e[i] = Lf,
         NEW m \in 0 .. i - 1, m = 0 \/ e[m] = Lf, \A k \in m + 1 .. i - 1 : e[k] # Lf
  PROVE  /\ SubSeq(e, 1, i) = SubSeq(e, 1, m) \o SubSeq(e, m + 1, i)
         /\ Carried(SubSeq(e, m + 1, i), LineAt(e, i))
<1>1. /\ e \in Seq(Byte) /\ Len(e) \in Nat /\ Len(e) <= Len(p) + 1 /\ Len(p) \in Nat
      /\ \A k \in 1 .. Len(e) - 1 : k <= Len(p) /\ e[k] = p[k]
  BY EndedIs
<1>2. Len(p) <= MaxFrame /\ \A k \in 1 .. Len(p) : p[k] # Bad
  BY DEF Decent, Text
<1>3. SubSeq(e, 1, i) = SubSeq(e, 1, m) \o SubSeq(e, m + 1, i)
  <2>1. 1 \in 1 .. Len(e) + 1 /\ m \in 1 - 1 .. Len(e) /\ i \in m .. Len(e)
    BY <1>1
  <2> QED
    BY <1>1, <2>1, ConcatAdjacentSubSeq
<1>4. PICK x : x = SubSeq(e, m + 1, i)
  OBVIOUS
<1>5. x \in Seq(Byte) /\ Len(x) = i - m /\ \A k \in 1 .. i - m : x[k] = e[m + k]
  <2>1. m + 1 \in Int /\ i \in Int /\ m + 1 <= i /\ \A k \in m + 1 .. i : e[k] \in Byte
    BY <1>1
  <2>2. /\ SubSeq(e, m + 1, i) \in Seq(Byte)
        /\ Len(SubSeq(e, m + 1, i)) = IF m + 1 <= i THEN i - (m + 1) + 1 ELSE 0
        /\ \A k \in 1 .. i - (m + 1) + 1 : SubSeq(e, m + 1, i)[k] = e[m + 1 + k - 1]
    BY <2>1, SubSeqProperties
  <2> QED
    BY <1>1, <1>4, <2>2
<1>6. x # <<>> /\ x[Len(x)] = Lf /\ Len(x) <= MaxFrame + 1
  <2>1. i - m \in 1 .. i - m /\ m + (i - m) = i
    OBVIOUS
  <2>2. x[Len(x)] = Lf
    BY <1>5, <2>1
  <2>3. Len(x) <= MaxFrame + 1
    BY <1>1, <1>2, <1>5, Constants
  <2> QED
    BY <1>5, <2>1, <2>2, <2>3
<1>7. ASSUME NEW k \in 1 .. Len(x) - 1 PROVE x[k] # Lf /\ x[k] # Bad
  <2>1. PICK j : j = m + k
    OBVIOUS
  <2>2. j \in m + 1 .. i - 1 /\ k \in 1 .. i - m /\ j \in 1 .. Len(e) - 1
    BY <1>1, <1>5, <2>1
  <2>3. x[k] = e[j]
    BY <1>5, <2>1, <2>2
  <2>4. j \in 1 .. Len(p) /\ e[j] = p[j]
    BY <1>1, <2>2
  <2> QED
    BY <1>2, <2>2, <2>3, <2>4
<1>8. LineAt(e, i) = Line(SubSeq(x, 1, Len(x) - 1))
  <2>1. PICK j : Begins(e, i, j) /\ LineAt(e, i) = Line(SubSeq(e, j, i - 1))
    <3>1. i \in Nat \ {0}
      OBVIOUS
    <3> QED
      BY <3>1, SomewhereBegins
  <2>2. j \in 1 .. i /\ (j = 1 \/ e[j - 1] = Lf) /\ \A k \in j .. i - 1 : e[k] # Lf
    BY <2>1 DEF Begins
  <2>3. j = m + 1
    <3>1. CASE j < m + 1
      <4>1. m \in j .. i - 1 /\ m # 0
        BY <2>2, <3>1
      <4> QED
        BY <2>2, <4>1
    <3>2. CASE j > m + 1
      <4>1. j - 1 \in m + 1 .. i - 1 /\ j # 1
        BY <2>2, <3>2
      <4> QED
        BY <2>2, <4>1
    <3> QED
      BY <2>2, <3>1, <3>2
  <2>4. SubSeq(e, m + 1, i - 1) = SubSeq(x, 1, Len(x) - 1)
    <3>1. PICK a, b : a = SubSeq(e, m + 1, i - 1) /\ b = SubSeq(x, 1, Len(x) - 1)
      OBVIOUS
    <3>2. a \in Seq(Byte) /\ Len(a) = Len(x) - 1 /\ \A k \in 1 .. Len(x) - 1 : a[k] = e[m + k]
      <4>1. m + 1 \in Int /\ i - 1 \in Int /\ \A k \in m + 1 .. i - 1 : e[k] \in Byte
        BY <1>1
      <4>2. /\ a \in Seq(Byte)
            /\ Len(a) = IF m + 1 <= i - 1 THEN (i - 1) - (m + 1) + 1 ELSE 0
            /\ \A k \in 1 .. (i - 1) - (m + 1) + 1 : a[k] = e[m + 1 + k - 1]
        BY <3>1, <4>1, SubSeqProperties
      <4>3. Len(x) - 1 = (i - 1) - (m + 1) + 1
        BY <1>5
      <4>4. /\ Len(a) = Len(x) - 1
            /\ \A k \in 1 .. Len(x) - 1 : a[k] = e[m + 1 + k - 1]
        <5>1. Len(a) = (i - 1) - (m + 1) + 1
          BY <4>2
        <5>2. \A k \in 1 .. Len(x) - 1 : a[k] = e[m + 1 + k - 1]
          BY <4>2, <4>3, Zenon
        <5> QED
          BY <4>3, <5>1, <5>2
      <4>5. \A k \in 1 .. Len(x) - 1 : m + 1 + k - 1 = m + k
        BY <1>5
      <4> QED
        BY <4>2, <4>4, <4>5
    <3>3. b \in Seq(Byte) /\ Len(b) = Len(x) - 1 /\ \A k \in 1 .. Len(x) - 1 : b[k] = x[k]
      <4>1. Len(x) - 1 \in Nat /\ Len(x) - 1 <= Len(x)
        BY <1>5
      <4> QED
        BY <1>5, <3>1, <4>1, Cut
    <3>4. \A k \in 1 .. Len(x) - 1 : x[k] = e[m + k]
      BY <1>5
    <3>5. a = b
      <4>1. Len(a) = Len(b) /\ \A k \in 1 .. Len(a) : a[k] = b[k]
        BY <3>2, <3>3, <3>4
      <4> QED
        BY <3>2, <3>3, <4>1, SeqEqual
    <3> QED
      BY <3>1, <3>5
  <2> QED
    BY <2>1, <2>3, <2>4
<1> QED
  BY <1>3, <1>4, <1>5, <1>6, <1>7, <1>8 DEF Carried

LEMMA LinesCarried ==
  ASSUME framing = "newline", NEW p \in Seq(Byte), Decent(p)
  PROVE  Lines(p) \in Seq(Seq(Byte)) /\ Carries(Encode(p), Lines(p))
<1>1. PICK e : e = Ended(p)
  OBVIOUS
<1>2. e \in Seq(Byte) /\ Len(e) \in Nat \ {0} /\ e[Len(e)] = Lf
  BY <1>1, EndedIs
<1>3. PICK f : /\ f \in [0 .. Len(e) -> Seq(Seq(Byte))] /\ f[0] = <<>>
               /\ \A i \in 1 .. Len(e) : f[i] = IF e[i] = Lf THEN Append(f[i - 1], LineAt(e, i))
                                                ELSE f[i - 1]
               /\ LinesIn(e) = f[Len(e)]
  BY <1>2, LinesIs
<1> DEFINE Upto(i, m) == /\ m \in 0 .. i /\ (m = 0 \/ e[m] = Lf)
                         /\ \A k \in m + 1 .. i : e[k] # Lf
                         /\ Carries(SubSeq(e, 1, m), f[i])
           P == {i \in Nat : \E m \in Nat : Upto(i, m)}
<1>4. 0 \in P
  <2>1. SubSeq(e, 1, 0) = <<>>
    BY SubSeqEmpty
  <2>2. Upto(0, 0)
    <3>1. Carries(SubSeq(e, 1, 0), f[0])
      BY <1>3, <2>1, CarriesNone, Zenon
    <3> QED
      BY <3>1
  <2> HIDE DEF Upto
  <2> QED
    BY <2>2
<1>5. ASSUME NEW i \in 1 .. Len(e), i - 1 \in P PROVE i \in P
  <2>1. PICK m \in Nat : Upto(i - 1, m)
    BY <1>5
  <2>2. CASE e[i] # Lf
    <3>1. f[i] = f[i - 1]
      BY <1>3, <2>2
    <3>2. \A k \in m + 1 .. i : e[k] # Lf
      BY <2>1, <2>2
    <3>3. m \in 0 .. i /\ (m = 0 \/ e[m] = Lf) /\ Carries(SubSeq(e, 1, m), f[i])
      BY <2>1, <3>1
    <3>4. Upto(i, m)
      BY <3>2, <3>3
    <3> HIDE DEF Upto
    <3> QED
      BY <1>2, <3>4
  <2>3. CASE e[i] = Lf
    <3>1. /\ SubSeq(e, 1, i) = SubSeq(e, 1, m) \o SubSeq(e, m + 1, i)
          /\ Carried(SubSeq(e, m + 1, i), LineAt(e, i))
      <4>1. m \in 0 .. i - 1 /\ (m = 0 \/ e[m] = Lf) /\ \A k \in m + 1 .. i - 1 : e[k] # Lf
        BY <2>1
      <4> HIDE DEF Upto
      <4> QED
        BY <1>1, <2>3, <4>1, LineCarried
    <3>2. f[i] = Append(f[i - 1], LineAt(e, i))
      BY <1>3, <2>3
    <3>3. LineAt(e, i) \in Seq(Byte)
      BY <1>2, LineAtType
    <3>4. f[i - 1] \in Seq(Seq(Byte))
      <4>1. i - 1 \in 0 .. Len(e)
        BY <1>2
      <4> QED
        BY <1>3, <4>1
    <3>5. f[i] = f[i - 1] \o <<LineAt(e, i)>>
      BY <3>2, <3>3, <3>4, AppendIsConcat
    <3>6. Carries(SubSeq(e, 1, m), f[i - 1])
      BY <2>1
    <3>7. Carries(SubSeq(e, m + 1, i), <<LineAt(e, i)>>)
      BY <3>1, CarriesOne
    <3>8. Carries(SubSeq(e, 1, i), f[i])
      <4>1. <<LineAt(e, i)>> \in Seq(Seq(Byte))
        BY <3>3
      <4>2. Carries(SubSeq(e, 1, m) \o SubSeq(e, m + 1, i), f[i - 1] \o <<LineAt(e, i)>>)
        BY <3>4, <3>6, <3>7, <4>1, CarriesBoth
      <4> QED
        BY <3>1, <3>5, <4>2
    <3>9. Upto(i, i)
      BY <2>3, <3>8
    <3> HIDE DEF Upto
    <3> QED
      BY <1>2, <3>9
  <2> QED
    BY <2>2, <2>3
<1>6. Len(e) \in P
  <2> HIDE DEF P
  <2>1. 0 .. Len(e) \subseteq P
    BY <1>2, <1>4, <1>5, InductionUpTo
  <2> QED
    BY <1>2, <2>1
<1>7. PICK m \in Nat : Upto(Len(e), m)
  BY <1>6
<1>8. m = Len(e)
  <2>1. m \in 0 .. Len(e) /\ \A k \in m + 1 .. Len(e) : e[k] # Lf
    BY <1>7
  <2>2. ~(Len(e) \in m + 1 .. Len(e))
    BY <1>2, <2>1
  <2> QED
    BY <1>2, <2>1, <2>2
<1>9. Carries(e, LinesIn(e))
  <2>1. SubSeq(e, 1, Len(e)) = e
    BY <1>2, SubSeqFull
  <2>2. Carries(SubSeq(e, 1, m), f[Len(e)])
    BY <1>7
  <2> QED
    BY <1>3, <1>8, <2>1, <2>2
<1>10. Lines(p) = LinesIn(e) /\ Encode(p) = e
  BY <1>1, Zenon DEF Lines, Ended, Encode
<1>11. f[Len(e)] \in Seq(Seq(Byte))
  <2>1. Len(e) \in 0 .. Len(e)
    BY <1>2
  <2> QED
    BY <1>3, <2>1
<1> QED
  BY <1>3, <1>9, <1>10, <1>11

(* What encode_outbound writes carries the pieces of the payload.          *)
LEMMA PayloadCarried ==
  ASSUME framing \in Framings \ {"none"}, NEW p \in Seq(Byte), Fits(p), Decent(p)
  PROVE  Pieces(p) \in Seq(Seq(Byte)) /\ Carries(Encode(p), Pieces(p))
<1>1. CASE framing = "newline"
  BY <1>1, LinesCarried DEF Pieces
<1>2. CASE framing # "newline"
  <2>1. Prefixed /\ Pieces(p) = <<p>>
    BY <1>2 DEF Prefixed, Framings, Pieces
  <2>2. PICK d \in Seq(Byte) : Encode(p) = d \o p /\ Len(d) = PrefixSize
    BY <2>1, PrefixEncoded
  <2>3. Encode(p) \in Seq(Byte) /\ Len(Encode(p)) = PrefixSize + Len(p)
    BY <2>2, ConcatProperties
  <2>4. Encode(p) # <<>>
    <3>1. Len(Encode(p)) # 0
      BY <2>3, Constants
    <3> QED
      BY <3>1
  <2>5. Carried(Encode(p), p)
    BY <1>2, <2>3, <2>4 DEF Carried, Decent
  <2> QED
    BY <2>1, <2>5, CarriesOne
<1> QED
  BY <1>1, <1>2

------------------------------------------------------------------------------
(* What holds all the time.  Of what was sent, the pieces that are not     *)
(* frames yet are carried by the bytes that are not decoded yet, behind    *)
(* the body of the first one if its length has been decoded.               *)
Sending == FlattenSeq([k \in 1 .. Len(said) |-> Pieces(said[k])])

Kept == whole /\ \A k \in 1 .. Len(said) : Decent(said[k])

Awaits(c, bytes, todo) ==
  IF c = Length THEN Carries(bytes, todo)
  ELSE \E body \in Seq(Byte), behind \in Seq(Seq(Byte)), r \in Seq(Byte) :
         /\ todo = <<body>> \o behind /\ Len(body) = c
         /\ bytes = body \o r /\ Carries(r, behind)

(* Outside of drain_frames no frame is waiting in the buffer.              *)
NothingWhole == IF framing = "newline" THEN LineEnds = {} ELSE ~LengthArrived

OnItsWay ==
  /\ \E todo \in Seq(Seq(Byte)) : Sending = frames \o todo /\ Awaits(codec, buf \o pipe, todo)
  /\ task # "drain" => codec = Length /\ NothingWhole

(* What was written ends in a newline, and a replay repeats what was       *)
(* written before.                                                         *)
Written ==
  \A k \in 1 .. Len(out) :
    /\ out[k].of < k
    /\ out[k].of # 0 => out[k].bytes = out[out[k].of].bytes
    /\ framing = "newline" => out[k].bytes # <<>> /\ Last(out[k].bytes) = Lf

Arriving ==
  /\ codec # Length => Prefixed
  /\ framing = "none" => Concatenated
  /\ framing # "none" /\ Kept => OnItsWay

LEMMA PiecesType == ASSUME NEW p \in Seq(Byte) PROVE Pieces(p) \in Seq(Seq(Byte))
<1>1. CASE framing = "newline"
  <2>1. PICK e : e = Ended(p)
    OBVIOUS
  <2>2. e \in Seq(Byte) /\ Len(e) \in Nat
    BY <2>1, EndedIs
  <2>3. PICK f : f \in [0 .. Len(e) -> Seq(Seq(Byte))] /\ LinesIn(e) = f[Len(e)]
    BY <2>2, LinesIs
  <2>4. f[Len(e)] \in Seq(Seq(Byte))
    BY <2>2, <2>3
  <2>5. Pieces(p) = LinesIn(e)
    BY <1>1, <2>1, Zenon DEF Pieces, Lines, Ended
  <2> QED
    BY <2>3, <2>4, <2>5
<1>2. CASE framing # "newline"
  BY <1>2 DEF Pieces
<1> QED
  BY <1>1, <1>2

LEMMA SendingType ==
  ASSUME TypeOK PROVE Sending \in Seq(Seq(Byte))
<1>1. PICK m : m = [k \in 1 .. Len(said) |-> Pieces(said[k])]
  OBVIOUS
<1>2. \A k \in 1 .. Len(said) : Pieces(said[k]) \in Seq(Seq(Byte))
  BY PiecesType DEF TypeOK
<1>3. m \in Seq(Seq(Seq(Byte)))
  BY <1>1, <1>2 DEF TypeOK
<1> QED
  BY <1>1, <1>3, FlattenConcat DEF Sending

LEMMA SendingSays ==
  ASSUME TypeOK, NEW p \in Seq(Byte), said' = Append(said, p), framing' = framing
  PROVE  Sending' = Sending \o Pieces(p)
<1>1. PICK m : m = [k \in 1 .. Len(said) |-> Pieces(said[k])]
  OBVIOUS
<1>2. PICK n : n = [k \in 1 .. Len(said') |-> Pieces(said'[k])]
  OBVIOUS
<1>3. said \in Seq(Seq(Byte)) /\ Len(said) \in Nat
  BY DEF TypeOK
<1>4. /\ said' \in Seq(Seq(Byte)) /\ Len(said') = Len(said) + 1
      /\ said'[Len(said) + 1] = p /\ \A k \in 1 .. Len(said) : said'[k] = said[k]
  BY <1>3, AppendProperties
<1>5. Pieces(p) \in Seq(Seq(Byte)) /\ \A k \in 1 .. Len(said) : Pieces(said[k]) \in Seq(Seq(Byte))
  BY <1>3, PiecesType
<1>6. m \in Seq(Seq(Seq(Byte))) /\ Len(m) = Len(said) /\ \A k \in 1 .. Len(said) : m[k] = Pieces(said[k])
  BY <1>1, <1>3, <1>5
<1>7. PICK w : w = Append(m, Pieces(p))
  OBVIOUS
<1>8. /\ w \in Seq(Seq(Seq(Byte))) /\ Len(w) = Len(said) + 1
      /\ w[Len(said) + 1] = Pieces(p) /\ \A k \in 1 .. Len(said) : w[k] = Pieces(said[k])
  BY <1>5, <1>6, <1>7, AppendProperties
<1>9. \A k \in 1 .. Len(said) + 1 : Pieces(said'[k]) = w[k]
  <2> SUFFICES ASSUME NEW k \in 1 .. Len(said) + 1 PROVE Pieces(said'[k]) = w[k]
    OBVIOUS
  <2>1. CASE k = Len(said) + 1
    BY <1>4, <1>8, <2>1
  <2>2. CASE k # Len(said) + 1
    <3>1. k \in 1 .. Len(said)
      BY <1>3, <2>2
    <3> QED
      BY <1>4, <1>8, <3>1
  <2> QED
    BY <2>1, <2>2
<1>10. n = w
  <2>1. n = [k \in 1 .. Len(said) + 1 |-> w[k]]
    BY <1>2, <1>4, <1>9
  <2>2. w = [k \in 1 .. Len(said) + 1 |-> w[k]]
    BY <1>8
  <2> QED
    BY <2>1, <2>2
<1>11. FlattenSeq(w) = FlattenSeq(m) \o Pieces(p)
  BY <1>5, <1>6, <1>7, FlattenAppend
<1>12. Sending' = FlattenSeq(n)
  BY <1>2, Zenon DEF Sending, Pieces
<1> QED
  BY <1>1, <1>10, <1>11, <1>12 DEF Sending

LEMMA SendingSame == ASSUME UNCHANGED <<said, framing>> PROVE Sending' = Sending
  BY DEF Sending, Pieces

LEMMA Conclude ==
  ASSUME framing' = framing, NEW todo \in Seq(Seq(Byte)),
         Sending' = frames' \o todo, Awaits(codec', buf' \o pipe', todo),
         (task # "drain" => codec = Length /\ NothingWhole)'
  PROVE  OnItsWay'
<1>1. Awaits(codec, buf \o pipe, todo)'
  <2>1. \A i : Below(i)' = Below(i)
    BY DEF Below
  <2>2. \A p : Encode(p)' = Encode(p)
    <3> SUFFICES ASSUME NEW p PROVE Encode(p)' = Encode(p)
      OBVIOUS
    <3>1. [i \in Digits |-> Rest(Len(p))[Below(i)'] % Base] = [i \in Digits |-> Rest(Len(p))[Below(i)] % Base]
      BY <2>1
    <3> QED
      BY <3>1 DEF Encode
  <2>3. \A p : Fits(p)' = Fits(p)
    BY DEF Fits, Prefixed
  <2>4. \A x, p : Carried(x, p) => Carried(x, p)'
    BY <2>2, <2>3 DEF Carried
  <2>5. \A b, ps : Carries(b, ps) => Carries(b, ps)'
    BY <2>4 DEF Carries
  <2> QED
    BY <2>5 DEF Awaits
<1> QED
  BY <1>1 DEF OnItsWay

LEMMA NoticesNothing ==
  ASSUME UNCHANGED <<framing, said, pipe, buf, codec, frames, whole>>
  PROVE  /\ Kept' => Kept
         /\ Concatenated => Concatenated'
         /\ OnItsWay /\ (task' # "drain" => task # "drain") => OnItsWay'
<1>1. Sending' = Sending
  BY SendingSame
<1>2. NothingWhole' = NothingWhole
  BY DEF NothingWhole, LineEnds, Newlines, LengthArrived, PrefixOf, ByteAbove
<1>3. Kept' => Kept
  BY DEF Kept, Decent
<1>4. Concatenated => Concatenated'
  BY DEF Concatenated
<1>5. ASSUME OnItsWay, task' # "drain" => task # "drain" PROVE OnItsWay'
  <2>1. PICK todo \in Seq(Seq(Byte)) : Sending = frames \o todo /\ Awaits(codec, buf \o pipe, todo)
    BY <1>5 DEF OnItsWay
  <2>2. Sending' = frames' \o todo /\ Awaits(codec', buf' \o pipe', todo)
    BY <1>1, <2>1, Zenon
  <2>3. (task # "drain" => codec = Length /\ NothingWhole)'
    BY <1>2, <1>5 DEF OnItsWay
  <2> QED
    BY <2>1, <2>2, <2>3, Conclude
<1> QED
  BY <1>3, <1>4, <1>5

LEMMA ArrivingInit == Init => Arriving
<1> SUFFICES ASSUME Init PROVE Arriving
  OBVIOUS
<1>1. /\ said = <<>> /\ pipe = <<>> /\ buf = <<>> /\ codec = Length /\ frames = <<>>
  BY DEF Init
<1>2. <<>> \o <<>> = <<>> /\ Len(<<>>) = 0 /\ <<>> \in Seq(Seq(Byte))
  OBVIOUS
<1>3. Concatenated
  BY <1>1, <1>2, FlattenNone, Zenon DEF Concatenated
<1>4. Sending = <<>>
  <2>1. [k \in 1 .. Len(said) |-> Pieces(said[k])] = <<>>
    BY <1>1
  <2> QED
    BY <2>1, FlattenNone, Zenon DEF Sending
<1>5. Awaits(codec, buf \o pipe, <<>>)
  BY <1>1, <1>2, CarriesNone, Zenon DEF Awaits
<1>6. Sending = frames \o <<>>
  BY <1>1, <1>2, <1>4, Zenon
<1>7. NothingWhole
  BY <1>1, Constants DEF NothingWhole, LineEnds, Newlines, LengthArrived
<1> QED
  BY <1>1, <1>2, <1>3, <1>5, <1>6, <1>7, Zenon DEF Arriving, OnItsWay

LEMMA SaysArriving ==
  ASSUME TypeOK, Arriving, NEW p \in Payloads, Says(p)
  PROVE  Arriving'
<1>1. p \in Seq(Byte) /\ pipe \in Seq(Byte) /\ buf \in Seq(Byte) /\ frames \in Seq(Seq(Byte))
      /\ said \in Seq(Seq(Byte)) /\ framing \in Framings
  BY FramingAssumption DEF TypeOK
<1>2. /\ Fits(p) /\ said' = Append(said, p) /\ pipe' = pipe \o Encode(p)
      /\ framing' = framing /\ buf' = buf /\ task' = task /\ codec' = codec /\ frames' = frames
      /\ whole' = whole
  BY DEF Says
<1>3. Encode(p) \in Seq(Byte)
  BY <1>1, EncodeType
<1>4. ASSUME framing = "none" PROVE Concatenated'
  <2>1. PICK a : a = FlattenSeq(frames) \o buf
    OBVIOUS
  <2>2. a \in Seq(Byte)
    <3>1. FlattenSeq(frames) \in Seq(Byte)
      BY <1>1, FlattenConcat
    <3> QED
      BY <1>1, <2>1, <3>1, ConcatProperties
  <2>3. a \o pipe = FlattenSeq(said)
    BY <1>4, <2>1 DEF Arriving, Concatenated
  <2>4. FlattenSeq(said') = FlattenSeq(said) \o p
    BY <1>1, <1>2, FlattenAppend
  <2>5. (a \o pipe) \o p = a \o (pipe \o p)
    BY <1>1, <2>2, ConcatAssociative
  <2>6. pipe' = pipe \o p
    BY <1>2, <1>4 DEF Encode
  <2>7. a \o pipe' = FlattenSeq(said')
    BY <2>3, <2>4, <2>5, <2>6, Zenon
  <2> QED
    BY <1>2, <2>1, <2>7 DEF Concatenated
<1>5. ASSUME framing # "none", Kept' PROVE OnItsWay'
  <2>1. Kept /\ Decent(p)
    <3>1. /\ Len(said') = Len(said) + 1 /\ said'[Len(said) + 1] = p
          /\ \A k \in 1 .. Len(said) : said'[k] = said[k]
      BY <1>1, <1>2, AppendProperties
    <3>2. \A k \in 1 .. Len(said) + 1 : Decent(said'[k])
      BY <1>2, <1>5, <3>1 DEF Kept, Decent
    <3>3. \A k \in 1 .. Len(said) : k \in 1 .. Len(said) + 1
      BY <1>1
    <3>4. Len(said) + 1 \in 1 .. Len(said) + 1
      BY <1>1
    <3> QED
      BY <1>2, <1>5, <3>1, <3>2, <3>3, <3>4 DEF Kept
  <2>2. PICK todo \in Seq(Seq(Byte)) : Sending = frames \o todo /\ Awaits(codec, buf \o pipe, todo)
    BY <1>5, <2>1 DEF Arriving, OnItsWay
  <2>3. PICK ps : ps = Pieces(p)
    OBVIOUS
  <2>4. ps \in Seq(Seq(Byte)) /\ Carries(Encode(p), ps)
    BY <1>1, <1>2, <1>5, <2>1, <2>3, PayloadCarried
  <2>5. PICK t : t = todo \o ps
    OBVIOUS
  <2>6. t \in Seq(Seq(Byte))
    BY <2>4, <2>5, ConcatProperties
  <2>7. Sending' = frames' \o t
    <3>1. Sending' = Sending \o ps
      BY <1>1, <1>2, <2>3, SendingSays
    <3>2. (frames \o todo) \o ps = frames \o (todo \o ps)
      <4>1. Regrouped(Seq(Byte), frames, todo, ps)
        BY Regroup, Zenon
      <4>2. frames \in Seq(Seq(Byte)) /\ todo \in Seq(Seq(Byte)) /\ ps \in Seq(Seq(Byte))
        BY <1>1, <2>4
      <4> QED
        BY <4>1, <4>2, Zenon DEF Regrouped
    <3> QED
      BY <1>2, <2>2, <2>5, <3>1, <3>2, Zenon
  <2>8. PICK b : b = buf \o pipe
    OBVIOUS
  <2>9. b \in Seq(Byte) /\ buf' \o pipe' = b \o Encode(p)
    <3>1. b \in Seq(Byte)
      BY <1>1, <2>8, ConcatProperties
    <3>2. (buf \o pipe) \o Encode(p) = buf \o (pipe \o Encode(p))
      <4>1. Regrouped(Byte, buf, pipe, Encode(p))
        BY Regroup, Zenon
      <4>2. buf \in Seq(Byte) /\ pipe \in Seq(Byte) /\ Encode(p) \in Seq(Byte)
        BY <1>1, <1>3
      <4> QED
        BY <4>1, <4>2, Zenon DEF Regrouped
    <3> QED
      BY <1>2, <2>8, <3>1, <3>2, Zenon
  <2>10. Awaits(codec, b \o Encode(p), t)
    <3>1. CASE codec = Length
      <4>1. Carries(b, todo)
        BY <2>2, <2>8, <3>1 DEF Awaits
      <4>2. Carries(b \o Encode(p), t)
        BY <2>4, <2>5, <4>1, CarriesBoth
      <4> QED
        BY <3>1, <4>2 DEF Awaits
    <3>2. CASE codec # Length
      <4>1. PICK body \in Seq(Byte), behind \in Seq(Seq(Byte)), r \in Seq(Byte) :
              /\ todo = <<body>> \o behind /\ Len(body) = codec
              /\ b = body \o r /\ Carries(r, behind)
        BY <2>2, <2>8, <3>2 DEF Awaits
      <4>2. Carries(r \o Encode(p), behind \o ps)
        BY <2>4, <4>1, CarriesBoth
      <4>3. behind \o ps \in Seq(Seq(Byte)) /\ r \o Encode(p) \in Seq(Byte)
        BY <1>3, <2>4, ConcatProperties
      <4>4. b \o Encode(p) = body \o (r \o Encode(p))
        <5>1. (body \o r) \o Encode(p) = body \o (r \o Encode(p))
          BY <1>3, ConcatAssociative
        <5> QED
          BY <4>1, <5>1, Zenon
      <4>5. t = <<body>> \o (behind \o ps)
        <5>1. <<body>> \in Seq(Seq(Byte))
          OBVIOUS
        <5>2. (<<body>> \o behind) \o ps = <<body>> \o (behind \o ps)
          <6>1. Regrouped(Seq(Byte), <<body>>, behind, ps)
            BY Regroup, Zenon
          <6>2. <<body>> \in Seq(Seq(Byte)) /\ behind \in Seq(Seq(Byte)) /\ ps \in Seq(Seq(Byte))
            BY <2>4, <5>1
          <6> QED
            BY <6>1, <6>2, Zenon DEF Regrouped
        <5> QED
          BY <2>5, <4>1, <5>2, Zenon
      <4> QED
        BY <3>2, <4>1, <4>2, <4>3, <4>4, <4>5, Zenon DEF Awaits
    <3> QED
      BY <3>1, <3>2
  <2>11. Awaits(codec', buf' \o pipe', t)
    BY <1>2, <2>9, <2>10, Zenon
  <2>12. (task # "drain" => codec = Length /\ NothingWhole)'
    <3>1. NothingWhole' = NothingWhole
      BY <1>2 DEF NothingWhole, LineEnds, Newlines, LengthArrived, PrefixOf, ByteAbove
    <3> QED
      BY <1>2, <1>5, <2>1, <3>1 DEF Arriving, OnItsWay
  <2> QED
    BY <1>2, <2>6, <2>7, <2>11, <2>12, Conclude
<1> QED
  BY <1>2, <1>4, <1>5 DEF Arriving, Prefixed

LEMMA ReadArriving ==
  ASSUME TypeOK, Arriving, NEW n \in 1 .. Len(pipe), Read(n)
  PROVE  Arriving'
<1>1. /\ task = "select" /\ buf' = buf \o SubSeq(pipe, 1, n) /\ pipe' = Behind(pipe, n)
      /\ task' = "drain" /\ codec' = Length
      /\ framing' = framing /\ said' = said /\ frames' = frames /\ whole' = whole
  BY DEF Read
<1>2. pipe \in Seq(Byte) /\ buf \in Seq(Byte) /\ frames \in Seq(Seq(Byte)) /\ n \in Nat /\ n <= Len(pipe)
  BY DEF TypeOK
<1>3. PICK c, r : c = SubSeq(pipe, 1, n) /\ r = Behind(pipe, n)
  OBVIOUS
<1>4. c \in Seq(Byte) /\ r \in Seq(Byte) /\ c \o r = pipe
  BY <1>2, <1>3, Cut
<1>5. buf' \o pipe' = buf \o pipe
  <2>1. (buf \o c) \o r = buf \o (c \o r)
    <3>1. Regrouped(Byte, buf, c, r)
      BY Regroup, Zenon
    <3>2. buf \in Seq(Byte) /\ c \in Seq(Byte) /\ r \in Seq(Byte)
      BY <1>2, <1>4
    <3> QED
      BY <3>1, <3>2, Zenon DEF Regrouped
  <2> QED
    BY <1>1, <1>3, <1>4, <2>1, Zenon
<1>6. ASSUME framing = "none" PROVE Concatenated'
  <2>1. PICK a : a = FlattenSeq(frames)
    OBVIOUS
  <2>2. a \in Seq(Byte) /\ buf \o c \in Seq(Byte)
    BY <1>2, <1>4, <2>1, FlattenConcat, ConcatProperties
  <2>3. (a \o buf) \o pipe = FlattenSeq(said)
    BY <1>6, <2>1 DEF Arriving, Concatenated
  <2>4. (a \o buf) \o pipe = a \o (buf \o pipe)
    <3>1. Regrouped(Byte, a, buf, pipe)
      BY Regroup, Zenon
    <3>2. a \in Seq(Byte) /\ buf \in Seq(Byte) /\ pipe \in Seq(Byte)
      BY <1>2, <2>2
    <3> QED
      BY <3>1, <3>2, Zenon DEF Regrouped
  <2>5. (a \o (buf \o c)) \o r = a \o ((buf \o c) \o r)
    <3>1. Regrouped(Byte, a, buf \o c, r)
      BY Regroup, Zenon
    <3>2. a \in Seq(Byte) /\ buf \o c \in Seq(Byte) /\ r \in Seq(Byte)
      BY <1>4, <2>2
    <3> QED
      BY <3>1, <3>2, Zenon DEF Regrouped
  <2>6. (a \o buf') \o pipe' = FlattenSeq(said)
    BY <1>1, <1>3, <1>5, <2>3, <2>4, <2>5, Zenon
  <2> QED
    BY <1>1, <2>1, <2>6 DEF Concatenated
<1>7. ASSUME framing # "none", Kept' PROVE OnItsWay'
  <2>1. Kept
    BY <1>1, <1>7 DEF Kept, Decent
  <2>2. OnItsWay
    BY <1>7, <2>1 DEF Arriving
  <2>3. codec = Length
    BY <1>1, <2>2 DEF OnItsWay
  <2>4. PICK todo \in Seq(Seq(Byte)) : Sending = frames \o todo /\ Awaits(codec, buf \o pipe, todo)
    BY <2>2 DEF OnItsWay
  <2>5. Sending' = frames' \o todo
    BY <1>1, <2>4, SendingSame, Zenon
  <2>6. Awaits(codec', buf' \o pipe', todo)
    BY <1>1, <1>5, <2>3, <2>4, Zenon
  <2>7. (task # "drain" => codec = Length /\ NothingWhole)'
    BY <1>1
  <2> QED
    BY <1>1, <2>5, <2>6, <2>7, Conclude
<1> QED
  BY <1>1, <1>6, <1>7 DEF Arriving

LEMMA NoneArriving == ASSUME TypeOK, Arriving, DecodeNone PROVE Arriving'
<1>1. /\ framing = "none" /\ frames' = Append(frames, buf) /\ buf' = <<>>
      /\ framing' = framing /\ said' = said /\ pipe' = pipe /\ codec' = codec
  BY DEF DecodeNone
<1>2. pipe \in Seq(Byte) /\ buf \in Seq(Byte) /\ frames \in Seq(Seq(Byte))
  BY DEF TypeOK
<1>3. PICK a : a = FlattenSeq(frames') /\ a = FlattenSeq(frames) \o buf /\ a \in Seq(Byte)
  <2>1. FlattenSeq(frames') = FlattenSeq(frames) \o buf /\ FlattenSeq(frames) \in Seq(Byte)
    BY <1>1, <1>2, FlattenAppend
  <2>2. FlattenSeq(frames) \o buf \in Seq(Byte)
    BY <1>2, <2>1, ConcatProperties
  <2> QED
    BY <2>1, <2>2
<1>4. a \o buf' = a
  BY <1>1, <1>3, ConcatEmptySeq
<1>5. a \o pipe = FlattenSeq(said)
  BY <1>1, <1>3 DEF Arriving, Concatenated
<1>6. Concatenated'
  BY <1>1, <1>3, <1>4, <1>5 DEF Concatenated
<1> QED
  BY <1>1, <1>6 DEF Arriving, Prefixed

LEMMA Taken ==
  ASSUME NEW fs \in Seq(Seq(Byte)), NEW p \in Seq(Byte), NEW qs \in Seq(Seq(Byte))
  PROVE  fs \o (<<p>> \o qs) = Append(fs, p) \o qs
<1>1. <<p>> \in Seq(Seq(Byte))
  OBVIOUS
<1>2. (fs \o <<p>>) \o qs = fs \o (<<p>> \o qs)
  <2>1. Regrouped(Seq(Byte), fs, <<p>>, qs)
    BY Regroup, Zenon
  <2>2. fs \in Seq(Seq(Byte)) /\ <<p>> \in Seq(Seq(Byte)) /\ qs \in Seq(Seq(Byte))
    BY <1>1
  <2> QED
    BY <2>1, <2>2, Zenon DEF Regrouped
<1>3. Append(fs, p) = fs \o <<p>>
  BY AppendIsConcat
<1> QED
  BY <1>2, <1>3, Zenon

(* The first newline in the buffer ends the first line that is on its way, *)
(* and a prefix in the buffer is that of the first piece.                  *)
LEMMA LineArriving ==
  ASSUME TypeOK, Arriving, DecodeLine, Kept
  PROVE  \E p \in Seq(Byte), qs \in Seq(Seq(Byte)) :
           /\ Sending = frames \o (<<p>> \o qs)
           /\ frames' = Append(frames, p) /\ task' = task
           /\ Carries(buf' \o pipe, qs)
<1>1. pipe \in Seq(Byte) /\ buf \in Seq(Byte) /\ frames \in Seq(Seq(Byte))
  BY DEF TypeOK
<1>2. framing = "newline" /\ LineEnds # {} /\ codec = Length
  BY DEF DecodeLine, Arriving, Prefixed
<1>3. PICK i : i = First(LineEnds)
  OBVIOUS
<1>4. i \in 1 .. Len(buf) /\ buf[i] = Lf /\ \A k \in 1 .. i - 1 : buf[k] # Lf
  BY <1>1, <1>2, <1>3, LineEndIs
<1>5. PICK b : b = buf \o pipe
  OBVIOUS
<1>6. /\ Len(buf) \in Nat /\ Len(b) = Len(buf) + Len(pipe) /\ Len(pipe) \in Nat
      /\ \A k \in 1 .. Len(buf) : b[k] = buf[k]
  BY <1>1, <1>5
<1>7. PICK todo \in Seq(Seq(Byte)) : Sending = frames \o todo /\ Carries(b, todo)
  BY <1>2, <1>5 DEF Arriving, OnItsWay, Awaits
<1>8. b # <<>>
  BY <1>4, <1>6
<1>9. PICK x \in Seq(Byte), r \in Seq(Byte), p \in Seq(Byte), qs \in Seq(Seq(Byte)) :
        b = x \o r /\ todo = <<p>> \o qs /\ Carried(x, p) /\ Carries(r, qs)
  BY <1>7, <1>8, CarriesFirst
<1>10. /\ Len(x) \in Nat \ {0} /\ x[Len(x)] = Lf
       /\ \A k \in 1 .. Len(x) - 1 : x[k] # Lf /\ x[k] # Bad
       /\ p = Line(SubSeq(x, 1, Len(x) - 1))
  BY <1>2, <1>9, EmptySeq DEF Carried
<1>11. /\ Len(b) = Len(x) + Len(r) /\ Len(r) \in Nat
       /\ \A k \in 1 .. Len(x) : b[k] = x[k]
  BY <1>9
<1>12. Len(x) = i
  <2>1. CASE Len(x) < i
    <3>1. Len(x) \in 1 .. i - 1 /\ Len(x) \in 1 .. Len(buf) /\ Len(x) \in 1 .. Len(x)
      BY <1>4, <1>10, <2>1
    <3>2. buf[Len(x)] = Lf
      BY <1>6, <1>10, <1>11, <3>1
    <3> QED
      BY <1>4, <3>1, <3>2
  <2>2. CASE Len(x) > i
    <3>1. i \in 1 .. Len(x) - 1 /\ i \in 1 .. Len(x)
      BY <1>4, <1>10, <2>2
    <3>2. x[i] = Lf
      BY <1>4, <1>6, <1>11, <3>1
    <3> QED
      BY <1>10, <3>1, <3>2
  <2> QED
    BY <1>4, <1>10, <2>1, <2>2
<1>13. SubSeq(buf, 1, i) = x /\ Behind(buf, i) \o pipe = r
  <2>1. buf \o pipe = x \o r /\ Len(x) <= Len(buf)
    BY <1>4, <1>5, <1>9, <1>12
  <2> QED
    BY <1>1, <1>12, <2>1, SplitAt
<1>14. SubSeq(buf, 1, i - 1) = SubSeq(x, 1, Len(x) - 1)
  <2>1. PICK a, c : a = SubSeq(buf, 1, i - 1) /\ c = SubSeq(x, 1, Len(x) - 1)
    OBVIOUS
  <2>2. i - 1 \in Nat /\ i - 1 <= Len(buf) /\ i - 1 <= Len(x) /\ Len(x) - 1 = i - 1
    BY <1>4, <1>12
  <2>3. a \in Seq(Byte) /\ Len(a) = i - 1 /\ \A k \in 1 .. i - 1 : a[k] = buf[k]
    BY <1>1, <2>1, <2>2, Cut
  <2>4. c \in Seq(Byte) /\ Len(c) = i - 1 /\ \A k \in 1 .. i - 1 : c[k] = x[k]
    BY <1>9, <2>1, <2>2, Cut
  <2>5. \A k \in 1 .. i - 1 : buf[k] = x[k]
    <3>1. \A k \in 1 .. i - 1 : k \in 1 .. Len(buf) /\ k \in 1 .. Len(x)
      BY <1>4, <1>12
    <3> QED
      BY <1>6, <1>11, <3>1, Zenon
  <2>6. Len(a) = Len(c) /\ \A k \in 1 .. Len(a) : a[k] = c[k]
    BY <2>3, <2>4, <2>5
  <2>7. a = c
    BY <2>3, <2>4, <2>6, SeqEqual
  <2> QED
    BY <2>1, <2>7
<1>15. Text(p)
  <2>1. PICK c : c = SubSeq(x, 1, Len(x) - 1)
    OBVIOUS
  <2>2. c \in Seq(Byte) /\ Len(c) = Len(x) - 1 /\ \A k \in 1 .. Len(c) : c[k] # Bad
    <3>1. Len(x) - 1 \in Nat /\ Len(x) - 1 <= Len(x)
      BY <1>10
    <3>2. c \in Seq(Byte) /\ Len(c) = Len(x) - 1 /\ \A k \in 1 .. Len(x) - 1 : c[k] = x[k]
      BY <1>9, <2>1, <3>1, Cut
    <3> QED
      BY <1>10, <3>2
  <2>3. CASE c # <<>> /\ Last(c) = Cr
    <3>1. p = SubSeq(c, 1, Len(c) - 1)
      BY <1>10, <2>1, <2>3 DEF Line, Front
    <3>2. Len(c) - 1 \in Nat /\ Len(c) - 1 <= Len(c)
      BY <2>2, <2>3
    <3>3. Len(p) = Len(c) - 1 /\ \A k \in 1 .. Len(c) - 1 : p[k] = c[k]
      BY <2>2, <3>1, <3>2, Cut
    <3>4. ASSUME NEW k \in 1 .. Len(p) PROVE p[k] # Bad
      <4>1. k \in 1 .. Len(c) - 1 /\ k \in 1 .. Len(c)
        BY <2>2, <3>3
      <4> QED
        BY <2>2, <3>3, <4>1, Zenon
    <3> QED
      BY <3>4 DEF Text
  <2>4. CASE ~(c # <<>> /\ Last(c) = Cr)
    BY <1>10, <2>1, <2>2, <2>4 DEF Line, Text
  <2> QED
    BY <2>3, <2>4
<1>16. /\ buf' = Behind(buf, i) /\ frames' = Append(frames, p) /\ task' = task
  BY <1>3, <1>10, <1>14, <1>15 DEF DecodeLine
<1> QED
  BY <1>7, <1>9, <1>13, <1>16

LEMMA DecodeLineArriving == ASSUME TypeOK, Arriving, DecodeLine PROVE Arriving'
<1>1. /\ framing = "newline" /\ task = "drain" /\ codec = Length
      /\ framing' = framing /\ said' = said /\ pipe' = pipe /\ codec' = codec /\ whole' = whole
  BY DEF DecodeLine, Arriving, Prefixed
<1>2. ASSUME Kept' PROVE OnItsWay'
  <2>1. Kept
    BY <1>1, <1>2 DEF Kept, Decent
  <2>2. PICK p \in Seq(Byte), qs \in Seq(Seq(Byte)) :
           /\ Sending = frames \o (<<p>> \o qs)
           /\ frames' = Append(frames, p) /\ task' = task
           /\ Carries(buf' \o pipe, qs)
    BY <2>1, LineArriving
  <2>3. Sending' = frames' \o qs
    <3>1. frames \in Seq(Seq(Byte))
      BY DEF TypeOK
    <3>2. frames \o (<<p>> \o qs) = Append(frames, p) \o qs
      BY <3>1, Taken
    <3> QED
      BY <1>1, <2>2, <3>2, SendingSame, Zenon
  <2>4. Awaits(codec', buf' \o pipe', qs)
    BY <1>1, <2>2, Zenon DEF Awaits
  <2>5. (task # "drain" => codec = Length /\ NothingWhole)'
    BY <1>1, <2>2
  <2> QED
    BY <1>1, <2>3, <2>4, <2>5, Conclude
<1> QED
  BY <1>1, <1>2 DEF Arriving

(* The prefix of the first piece, once it is in the buffer.                *)
BodyComes(b, rest, todo) ==
  \E p \in Seq(Byte), qs \in Seq(Seq(Byte)), r \in Seq(Byte) :
    /\ todo = <<p>> \o qs /\ PrefixOf(b) = Len(p) /\ Len(p) <= MaxFrame
    /\ Behind(b, PrefixSize) \o rest = p \o r /\ Carries(r, qs)

LEMMA PrefixArrived ==
  ASSUME Prefixed, NEW b \in Seq(Byte), NEW rest \in Seq(Byte), NEW todo \in Seq(Seq(Byte)),
         Carries(b \o rest, todo), Len(b) >= PrefixSize
  PROVE  BodyComes(b, rest, todo)
<1>1. PICK c : c = b \o rest
  OBVIOUS
<1>2. /\ c \in Seq(Byte) /\ Len(c) = Len(b) + Len(rest) /\ Len(b) \in Nat /\ Len(rest) \in Nat
      /\ \A k \in 1 .. Len(b) : c[k] = b[k]
  BY <1>1
<1>3. c # <<>>
  BY <1>2, Constants
<1>4. PICK x \in Seq(Byte), r \in Seq(Byte), p \in Seq(Byte), qs \in Seq(Seq(Byte)) :
        c = x \o r /\ todo = <<p>> \o qs /\ Carried(x, p) /\ Carries(r, qs)
  BY <1>1, <1>3, CarriesFirst
<1>5. x = Encode(p) /\ Fits(p) /\ Len(p) <= MaxFrame
  BY <1>4 DEF Carried, Prefixed
<1>6. PICK d \in Seq(Byte) :
        /\ Encode(p) = d \o p /\ Len(d) = PrefixSize
        /\ \A a : (\A i \in Digits : a[i] = d[i]) => PrefixOf(a) = Len(p)
  BY <1>5, PrefixEncoded
<1>7. c = d \o (p \o r) /\ p \o r \in Seq(Byte)
  <2>1. (d \o p) \o r = d \o (p \o r)
    <3>1. Regrouped(Byte, d, p, r)
      BY Regroup, Zenon
    <3>2. d \in Seq(Byte) /\ p \in Seq(Byte) /\ r \in Seq(Byte)
      BY <1>4, <1>6
    <3> QED
      BY <3>1, <3>2, Zenon DEF Regrouped
  <2>2. p \o r \in Seq(Byte)
    BY ConcatProperties
  <2> QED
    BY <1>4, <1>5, <1>6, <2>1, <2>2, Zenon
<1>8. SubSeq(b, 1, PrefixSize) = d /\ Behind(b, PrefixSize) \o rest = p \o r
  <2>1. b \o rest = d \o (p \o r) /\ Len(d) <= Len(b)
    BY <1>1, <1>6, <1>7
  <2> QED
    BY <1>6, <1>7, <2>1, SplitAt
<1>9. \A i \in Digits : b[i] = d[i]
  <2>1. PrefixSize \in Nat /\ PrefixSize <= Len(b)
    BY Constants
  <2>2. \A i \in 1 .. PrefixSize : SubSeq(b, 1, PrefixSize)[i] = b[i]
    BY <2>1, Cut
  <2> QED
    BY <1>8, <2>2 DEF Digits
<1>10. PrefixOf(b) = Len(p)
  BY <1>6, <1>9, Zenon
<1> QED
  BY <1>4, <1>5, <1>8, <1>10 DEF BodyComes

LEMMA LengthArriving == ASSUME TypeOK, Arriving, DecodeLength PROVE Arriving'
<1>1. /\ Prefixed /\ task = "drain" /\ codec = Length /\ Len(buf) >= PrefixSize
      /\ codec' = PrefixOf(buf) /\ buf' = Behind(buf, PrefixSize)
      /\ framing' = framing /\ said' = said /\ pipe' = pipe /\ task' = task
      /\ frames' = frames /\ whole' = whole
  BY DEF DecodeLength, LengthArrived
<1>2. pipe \in Seq(Byte) /\ buf \in Seq(Byte)
  BY DEF TypeOK
<1>3. ASSUME Kept' PROVE OnItsWay'
  <2>1. Kept
    BY <1>1, <1>3 DEF Kept, Decent
  <2>2. PICK todo \in Seq(Seq(Byte)) : Sending = frames \o todo /\ Carries(buf \o pipe, todo)
    BY <1>1, <2>1 DEF Arriving, OnItsWay, Awaits, Prefixed
  <2>3. PICK p \in Seq(Byte), qs \in Seq(Seq(Byte)), r \in Seq(Byte) :
           /\ todo = <<p>> \o qs /\ PrefixOf(buf) = Len(p)
           /\ Behind(buf, PrefixSize) \o pipe = p \o r /\ Carries(r, qs)
    <3>1. Prefixed /\ Len(buf) >= PrefixSize /\ buf \in Seq(Byte) /\ pipe \in Seq(Byte)
      BY <1>1, <1>2
    <3>2. BodyComes(buf, pipe, todo)
      BY <2>2, <3>1, PrefixArrived
    <3> QED
      BY <3>2, Zenon DEF BodyComes
  <2>4. Sending' = frames' \o todo
    BY <1>1, <2>2, SendingSame, Zenon
  <2>5. Awaits(codec', buf' \o pipe', todo)
    <3>1. codec' # Length /\ Len(p) = codec'
      BY <1>1, <2>3 DEF Length
    <3>2. buf' \o pipe' = p \o r
      BY <1>1, <2>3, Zenon
    <3> QED
      BY <2>3, <3>1, <3>2, Zenon DEF Awaits
  <2>6. (task # "drain" => codec = Length /\ NothingWhole)'
    BY <1>1
  <2> QED
    BY <1>1, <2>4, <2>5, <2>6, Conclude
<1> QED
  BY <1>1, <1>3 DEF Arriving, Prefixed

LEMMA BodyArriving == ASSUME TypeOK, Arriving, DecodeBody PROVE Arriving'
<1>1. /\ Prefixed /\ task = "drain" /\ codec # Length /\ Len(buf) >= codec
      /\ frames' = Append(frames, SubSeq(buf, 1, codec)) /\ buf' = Behind(buf, codec)
      /\ codec' = Length
      /\ framing' = framing /\ said' = said /\ pipe' = pipe /\ task' = task /\ whole' = whole
  BY DEF DecodeBody, Arriving
<1>2. pipe \in Seq(Byte) /\ buf \in Seq(Byte) /\ frames \in Seq(Seq(Byte))
  BY DEF TypeOK
<1>3. ASSUME Kept' PROVE OnItsWay'
  <2>1. Kept
    BY <1>1, <1>3 DEF Kept, Decent
  <2>2. PICK todo \in Seq(Seq(Byte)) : Sending = frames \o todo /\ Awaits(codec, buf \o pipe, todo)
    BY <1>1, <2>1 DEF Arriving, OnItsWay, Prefixed
  <2>3. PICK body \in Seq(Byte), behind \in Seq(Seq(Byte)), r \in Seq(Byte) :
          /\ todo = <<body>> \o behind /\ Len(body) = codec
          /\ buf \o pipe = body \o r /\ Carries(r, behind)
    BY <1>1, <2>2 DEF Awaits
  <2>4. SubSeq(buf, 1, codec) = body /\ Behind(buf, codec) \o pipe = r
    <3>1. Len(body) <= Len(buf)
      BY <1>1, <2>3
    <3> QED
      BY <1>2, <2>3, <3>1, SplitAt
  <2>5. Sending' = frames' \o behind
    <3>1. frames \o (<<body>> \o behind) = Append(frames, body) \o behind
      BY <1>2, Taken
    <3> QED
      BY <1>1, <2>2, <2>3, <2>4, <3>1, SendingSame, Zenon
  <2>6. Awaits(codec', buf' \o pipe', behind)
    BY <1>1, <2>3, <2>4, Zenon DEF Awaits
  <2>7. (task # "drain" => codec = Length /\ NothingWhole)'
    BY <1>1
  <2> QED
    BY <1>1, <2>5, <2>6, <2>7, Conclude
<1> QED
  BY <1>1, <1>3 DEF Arriving, Prefixed

LEMMA NoFrameArriving == ASSUME TypeOK, Arriving, NoFrame PROVE Arriving'
<1>1. /\ \/ framing = "newline" /\ LineEnds = {}
         \/ Prefixed /\ codec = Length /\ ~LengthArrived
         \/ codec # Length
      /\ task' = "select" /\ whole' = (whole /\ codec = Length)
      /\ framing' = framing /\ said' = said /\ pipe' = pipe /\ buf' = buf /\ codec' = codec
      /\ frames' = frames
  BY DEF NoFrame
<1>2. framing # "none"
  BY <1>1 DEF Arriving, Prefixed
<1>3. ASSUME Kept' PROVE OnItsWay'
  <2>1. whole /\ codec = Length
    BY <1>1, <1>3 DEF Kept
  <2>2. Kept
    BY <1>1, <1>3, <2>1 DEF Kept, Decent
  <2>3. PICK todo \in Seq(Seq(Byte)) : Sending = frames \o todo /\ Awaits(codec, buf \o pipe, todo)
    BY <1>2, <2>2 DEF Arriving, OnItsWay
  <2>4. Sending' = frames' \o todo /\ Awaits(codec', buf' \o pipe', todo)
    BY <1>1, <2>3, SendingSame, Zenon
  <2>5. NothingWhole
    BY <1>1, <2>1 DEF NothingWhole, Prefixed
  <2>6. NothingWhole'
    BY <1>1, <2>5 DEF NothingWhole, LineEnds, Newlines, LengthArrived, PrefixOf, ByteAbove
  <2>7. (task # "drain" => codec = Length /\ NothingWhole)'
    BY <1>1, <2>1, <2>6
  <2> QED
    BY <1>1, <2>4, <2>7, Conclude
<1> QED
  BY <1>1, <1>2, <1>3 DEF Arriving, Prefixed

(* Whatever is composed or replayed changes nothing of what arrives.       *)
LEMMA ArrivingStep == TypeOK /\ Arriving /\ [Next]_vars => Arriving'
<1> SUFFICES ASSUME TypeOK, Arriving, [Next]_vars PROVE Arriving'
  OBVIOUS
<1>1. ASSUME UNCHANGED <<framing, inbound>>, task' # "drain" => task # "drain" PROVE Arriving'
  <2>1. UNCHANGED <<framing, said, pipe, buf, codec, frames, whole>>
    BY <1>1 DEF inbound
  <2> QED
    BY <1>1, <2>1, NoticesNothing DEF Arriving, Prefixed
<1>2. ASSUME NEW p \in Payloads, Says(p) PROVE Arriving'
  BY <1>2, SaysArriving
<1>3. ASSUME NEW n \in 1 .. Len(pipe), Read(n) PROVE Arriving'
  BY <1>3, ReadArriving
<1>4. CASE Eof
  BY <1>1, <1>4 DEF Eof
<1>5. ASSUME NEW p, NEW of, Write(p, of) PROVE Arriving'
  BY <1>1, <1>5 DEF Write
<1>6. CASE Drain
  BY <1>6, NoneArriving, DecodeLineArriving, LengthArriving, BodyArriving, NoFrameArriving DEF Drain
<1>7. CASE UNCHANGED vars
  BY <1>1, <1>7 DEF vars
<1> QED
  BY <1>2, <1>3, <1>4, <1>5, <1>6, <1>7 DEF Next, SendComposer, ReplayOut, ReplayIn

LEMMA WriteWritten ==
  ASSUME TypeOK, Written, ~Prefixed, NEW p \in Seq(Byte), NEW of \in 0 .. Len(out),
         of # 0 => p = out[of].bytes, Write(p, of)
  PROVE  Written'
<1>1. out \in Seq(Sent) /\ Len(out) \in Nat /\ framing \in Framings /\ framing' = framing
  BY DEF TypeOK, Write
<1>2. CASE UNCHANGED out
  BY <1>1, <1>2 DEF Written
<1>3. CASE out' = Append(out, [payload |-> p, bytes |-> Encode(p), of |-> of])
  <2>1. PICK e : e = [payload |-> p, bytes |-> Encode(p), of |-> of]
    OBVIOUS
  <2>2. e.bytes = Encode(p) /\ e.of = of
    BY <2>1
  <2>3. /\ Len(out') = Len(out) + 1 /\ out'[Len(out) + 1] = e
        /\ \A k \in 1 .. Len(out) : out'[k] = out[k]
    BY <1>1, <1>3, <2>1
  <2>4. framing = "newline" => Encode(p) # <<>> /\ Last(Encode(p)) = Lf
    <3>1. ASSUME framing = "newline" PROVE Encode(p) # <<>> /\ Last(Encode(p)) = Lf
      <4>1. Encode(p) = Ended(p)
        BY <3>1 DEF Encode, Ended
      <4>2. /\ Ended(p) \in Seq(Byte) /\ Len(Ended(p)) \in Nat \ {0}
            /\ Ended(p)[Len(Ended(p))] = Lf
        BY EndedIs
      <4> QED
        BY <4>1, <4>2 DEF Last
    <3> QED
      BY <3>1
  <2>5. ASSUME of # 0 PROVE of \in 1 .. Len(out) /\ Encode(p) = out[of].bytes
    <3>1. of \in 1 .. Len(out) /\ p = out[of].bytes
      BY <1>1, <2>5
    <3>2. CASE framing = "none"
      BY <3>1, <3>2 DEF Encode
    <3>3. CASE framing = "newline"
      <4>1. p # <<>> /\ Last(p) = Lf
        BY <3>1, <3>3 DEF Written
      <4>2. Encode(p) = p
        BY <3>3, <4>1 DEF Encode
      <4> QED
        BY <3>1, <4>2
    <3> QED
      BY <1>1, <3>2, <3>3 DEF Framings, Prefixed
  <2>6. ASSUME NEW k \in 1 .. Len(out')
        PROVE  /\ out'[k].of < k
               /\ out'[k].of # 0 => out'[k].bytes = out'[out'[k].of].bytes
               /\ framing = "newline" => out'[k].bytes # <<>> /\ Last(out'[k].bytes) = Lf
    <3>1. CASE k = Len(out) + 1
      <4>1. out'[k] = e
        BY <2>3, <3>1
      <4>2. out'[k].of < k
        BY <1>1, <2>2, <3>1, <4>1
      <4>3. of # 0 => out'[of] = out[of]
        BY <2>3, <2>5
      <4> QED
        BY <2>2, <2>4, <2>5, <4>1, <4>2, <4>3
    <3>2. CASE k # Len(out) + 1
      <4>1. k \in 1 .. Len(out) /\ out'[k] = out[k]
        BY <1>1, <2>3, <3>2
      <4>2. out[k].of \in Nat
        <5>1. out[k] \in Sent
          BY <1>1, <4>1
        <5> QED
          BY <5>1, Constants DEF Sent
      <4>3. /\ out[k].of < k
            /\ out[k].of # 0 => out[k].bytes = out[out[k].of].bytes
            /\ framing = "newline" => out[k].bytes # <<>> /\ Last(out[k].bytes) = Lf
        BY <4>1 DEF Written
      <4>4. out[k].of # 0 => out'[out[k].of] = out[out[k].of]
        <5>1. out[k].of # 0 => out[k].of \in 1 .. Len(out)
          BY <1>1, <4>1, <4>2, <4>3
        <5> QED
          BY <2>3, <5>1
      <4> QED
        BY <4>1, <4>3, <4>4
    <3> QED
      BY <3>1, <3>2
  <2> QED
    BY <1>1, <2>6 DEF Written
<1> QED
  BY <1>2, <1>3 DEF Write

LEMMA WrittenStep == TypeOK /\ (Prefixed \/ Written) /\ [Next]_vars => (Prefixed \/ Written)'
<1> SUFFICES ASSUME TypeOK, ~Prefixed, Written, [Next]_vars PROVE Written'
  <2>1. [Next]_vars => framing' = framing
    BY DEF Next, Says, SendComposer, ReplayOut, ReplayIn, Write, Read, Eof, Drain, DecodeNone,
           DecodeLine, DecodeLength, DecodeBody, NoFrame, vars
  <2> QED
    BY <2>1 DEF Prefixed
<1>1. ASSUME UNCHANGED <<framing, out>> PROVE Written'
  BY <1>1 DEF Written
<1>2. ASSUME NEW p \in Composed, SendComposer(p) PROVE Written'
  <2>1. p \in Seq(Byte) /\ 0 \in 0 .. Len(out)
    BY FramingAssumption DEF TypeOK
  <2> QED
    BY <1>2, <2>1, WriteWritten DEF SendComposer
<1>3. ASSUME NEW i \in 1 .. Len(out), ReplayOut(i) PROVE Written'
  <2>1. out[i] \in Sent
    BY DEF TypeOK
  <2>2. out[i].bytes \in Seq(Byte) /\ i \in 0 .. Len(out)
    BY <2>1 DEF Sent, TypeOK
  <2> QED
    BY <1>3, <2>2, WriteWritten DEF ReplayOut
<1>4. ASSUME NEW i \in 1 .. Len(frames), ReplayIn(i) PROVE Written'
  <2>1. frames[i] \in Seq(Byte) /\ 0 \in 0 .. Len(out)
    BY DEF TypeOK
  <2> QED
    BY <1>4, <2>1, WriteWritten DEF ReplayIn
<1>5. ASSUME NEW p, Says(p) PROVE Written'
  BY <1>1, <1>5 DEF Says
<1>6. ASSUME NEW n, Read(n) PROVE Written'
  BY <1>1, <1>6 DEF Read
<1>7. CASE Eof
  BY <1>1, <1>7 DEF Eof
<1>8. CASE Drain
  BY <1>1, <1>8 DEF Drain, DecodeNone, DecodeLine, DecodeLength, DecodeBody, NoFrame
<1>9. CASE UNCHANGED vars
  BY <1>1, <1>9 DEF vars
<1> QED
  BY <1>2, <1>3, <1>4, <1>5, <1>6, <1>7, <1>8, <1>9 DEF Next

(* What is on its way is no frame yet, and nothing of it is left once all  *)
(* was read and decoded.                                                   *)
LEMMA AllDecoded ==
  ASSUME TypeOK, framing # "none", NEW todo \in Seq(Seq(Byte)), Carries(buf, todo), NothingWhole
  PROVE  todo = <<>>
<1> SUFFICES ASSUME todo # <<>> PROVE FALSE
  OBVIOUS
<1>1. buf \in Seq(Byte) /\ framing \in Framings
  BY DEF TypeOK
<1>2. PICK x \in Seq(Byte), r \in Seq(Byte), p \in Seq(Byte), qs \in Seq(Seq(Byte)) :
        buf = x \o r /\ todo = <<p>> \o qs /\ Carried(x, p) /\ Carries(r, qs)
  BY CarriesFirst
<1>3. /\ Len(buf) = Len(x) + Len(r) /\ Len(r) \in Nat /\ Len(x) \in Nat \ {0}
      /\ \A k \in 1 .. Len(x) : buf[k] = x[k]
  <2>1. x # <<>>
    BY <1>2 DEF Carried
  <2> QED
    BY <1>2, <2>1, EmptySeq
<1>4. CASE framing = "newline"
  <2>1. x[Len(x)] = Lf /\ Len(x) <= MaxFrame + 1
    BY <1>2, <1>4 DEF Carried
  <2>2. Len(x) \in 1 .. Len(buf) /\ buf[Len(x)] = Lf
    <3>1. Len(x) \in 1 .. Len(buf) /\ Len(x) \in 1 .. Len(x)
      BY <1>3
    <3>2. buf[Len(x)] = x[Len(x)]
      BY <1>3, <3>1, Zenon
    <3> QED
      BY <2>1, <3>1, <3>2
  <2> QED
    BY <1>4, <2>1, <2>2 DEF NothingWhole, LineEnds, Newlines
<1>5. CASE framing # "newline"
  <2>1. Prefixed
    BY <1>1, <1>5 DEF Framings, Prefixed
  <2>2. x = Encode(p) /\ Fits(p)
    BY <1>2, <1>5 DEF Carried
  <2>3. PICK d \in Seq(Byte) : Encode(p) = d \o p /\ Len(d) = PrefixSize
    BY <2>1, <2>2, PrefixEncoded
  <2>4. Len(x) = PrefixSize + Len(p) /\ Len(p) \in Nat
    <3>1. Len(d \o p) = Len(d) + Len(p)
      BY ConcatProperties
    <3>2. x = d \o p
      BY <2>2, <2>3, Zenon
    <3> QED
      BY <2>3, <3>1, <3>2
  <2>5. Len(buf) >= PrefixSize
    BY <1>3, <2>4, Constants
  <2>6. Carries(buf \o <<>>, todo)
    BY <1>1, ConcatEmptySeq
  <2>7. <<>> \in Seq(Byte)
    OBVIOUS
  <2>8. BodyComes(buf, <<>>, todo)
    BY <1>1, <2>1, <2>5, <2>6, <2>7, PrefixArrived
  <2>9. \E q \in Seq(Byte) : PrefixOf(buf) = Len(q) /\ Len(q) <= MaxFrame
    BY <2>8, Zenon DEF BodyComes
  <2> QED
    BY <1>5, <2>5, <2>9 DEF NothingWhole, LengthArrived
<1> QED
  BY <1>4, <1>5

LEMMA OnItsWayInPieces == ASSUME TypeOK, framing # "none", OnItsWay PROVE InPieces
<1>1. PICK todo \in Seq(Seq(Byte)) : Sending = frames \o todo /\ Awaits(codec, buf \o pipe, todo)
  BY DEF OnItsWay
<1>2. frames \in Seq(Seq(Byte)) /\ buf \in Seq(Byte)
  BY DEF TypeOK
<1>3. PICK s : s = Sending
  OBVIOUS
<1>4. IsPrefix(frames, s)
  <2>1. s \in Seq(Seq(Byte)) /\ Len(s) = Len(frames) + Len(todo) /\ Len(frames) \in Nat /\ Len(todo) \in Nat
        /\ \A k \in 1 .. Len(frames) : s[k] = frames[k]
    BY <1>1, <1>2, <1>3, ConcatProperties
  <2>2. SubSeq(frames, 1, Len(frames)) = frames
    BY <1>2, SubSeqFull
  <2>3. PICK c : c = SubSeq(s, 1, Len(frames))
    OBVIOUS
  <2>4. c \in Seq(Seq(Byte)) /\ Len(c) = Len(frames) /\ \A k \in 1 .. Len(frames) : c[k] = s[k]
    <3>1. Len(frames) <= Len(s)
      BY <2>1
    <3> QED
      BY <2>1, <2>3, <3>1, Cut
  <2>5. Len(frames) = Len(c) /\ \A k \in 1 .. Len(frames) : frames[k] = c[k]
    BY <2>1, <2>4
  <2>6. frames = c
    BY <1>2, <2>4, <2>5, SeqEqual
  <2>7. Len(frames) <= Len(s)
    BY <2>1
  <2> QED
    BY <2>2, <2>3, <2>6, <2>7, Zenon DEF IsPrefix
<1>5. ASSUME pipe = <<>>, task # "drain" PROVE frames = s
  <2>1. codec = Length /\ NothingWhole
    BY <1>5 DEF OnItsWay
  <2>2. buf \o pipe = buf
    BY <1>2, <1>5, ConcatEmptySeq
  <2>3. Carries(buf, todo)
    BY <1>1, <2>1, <2>2 DEF Awaits
  <2>4. todo = <<>>
    BY <2>1, <2>3, AllDecoded
  <2> QED
    BY <1>1, <1>2, <1>3, <2>4, ConcatEmptySeq
<1> QED
  BY <1>3, <1>4, <1>5, Zenon DEF InPieces, Sending

(* Frames arrive as they were sent, and what is logged can be sent again:  *)
(* drain_frames, however the network cuts what encode_outbound wrote.      *)
THEOREM FramesArriveAsSent == Spec => []FramesAsSent
<1>1. Init => TypeOK /\ Arriving /\ (Prefixed \/ Written)
  <2>1. Init => Written
    BY DEF Init, Written
  <2> QED
    BY <2>1, TypeInit, ArrivingInit
<1>2. /\ TypeOK /\ Arriving /\ (Prefixed \/ Written) /\ [Next]_vars
      => (TypeOK /\ Arriving /\ (Prefixed \/ Written))'
  BY TypeStep, ArrivingStep, WrittenStep
<1>3. TypeOK /\ Arriving /\ (Prefixed \/ Written) => FramesAsSent
  <2> SUFFICES ASSUME TypeOK, Arriving, Prefixed \/ Written PROVE FramesAsSent
    OBVIOUS
  <2>1. framing = "none" => Concatenated
    BY DEF Arriving
  <2>2. framing # "none" /\ whole /\ (\A k \in 1 .. Len(said) : Decent(said[k])) => InPieces
    BY OnItsWayInPieces DEF Arriving, Kept
  <2>3. Prefixed \/ ReplayRepeats
    BY DEF Written, ReplayRepeats
  <2> QED
    BY <2>1, <2>2, <2>3 DEF FramesAsSent
<1> QED
  BY <1>1, <1>2, <1>3, PTL DEF Spec
=============================================================================
