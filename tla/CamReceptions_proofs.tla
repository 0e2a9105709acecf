------------------------ MODULE CamReceptions_proofs ------------------------
(***************************************************************************)
(* Proofs about what the CAM pipeline sends and receives, for any number   *)
(* of stations, areas and steps: the types of its state, the receptions    *)
(* that GetDataFromNs3 groups and stores, the rows they are matched with,  *)
(* and how many CAMs and rows there are in a step.                         *)
(*                                                                         *)
(* The operators on sequences (FlattenSeq, TableOf) are recursive          *)
(* functions: what they return is proved by induction over the length,     *)
(* which the first lemma takes from the theorem that < is well-founded.    *)
(***************************************************************************)
EXTENDS CamTracking_proofs, FiniteSetTheorems

-----------------------------------------------------------------------------
(* Induction, and what it gives about recursive functions.                 *)

\* Induction over the natural numbers, for a set of them: a smallest number that is
\* not in it does not exist, since < is well-founded.
LEMMA NatSetInduction ==
  ASSUME NEW S, 0 \in S, \A n \in Nat : n \in S => n + 1 \in S
  PROVE  Nat \subseteq S
<1> DEFINE R == OpToRel(<, Nat)
           B == Nat \ S
<1>1. IsWellFoundedOn(R, Nat)
  BY NatLessThanWellFounded
<1>2. \A x, y \in Nat : x < y => <<x, y>> \in R
  BY DEF OpToRel
<1> HIDE DEF R
<1>3. SUFFICES ASSUME B # {} PROVE FALSE
  OBVIOUS
<1>4. PICK x \in B : \A y \in B : <<y, x>> \notin R
  BY <1>1, <1>3, WFMin
<1>5. x - 1 \in Nat /\ x - 1 < x /\ x \in Nat
  OBVIOUS
<1>6. x - 1 \notin B
  BY <1>2, <1>4, <1>5
<1> QED BY <1>5, <1>6

\* A function can be defined by recursion over a sequence of steps.
HasRecursion(T, b, n, step) ==
  \E f \in [0 .. n -> T] : f[0] = b /\ \A i \in 1 .. n : f[i] = step[<<i, f[i - 1]>>]

LEMMA RecursionExists ==
  ASSUME NEW T, NEW b \in T, NEW n \in Nat, NEW step \in [(1 .. n) \X T -> T]
  PROVE  HasRecursion(T, b, n, step)
<1> DEFINE Upto(m) == \E f \in [0 .. m -> T] :
                        f[0] = b /\ \A i \in 1 .. m : f[i] = step[<<i, f[i - 1]>>]
           S == {m \in Nat : m <= n => Upto(m)}
<1>1. 0 \in S
  <2> DEFINE h == [i \in 0 .. 0 |-> b]
  <2>1. h \in [0 .. 0 -> T] /\ h[0] = b /\ \A i \in 1 .. 0 : FALSE
    OBVIOUS
  <2> HIDE DEF h
  <2>2. Upto(0)
    BY <2>1
  <2> QED BY <2>2
<1>2. ASSUME NEW m \in Nat, m \in S PROVE m + 1 \in S
  <2> SUFFICES ASSUME m + 1 <= n PROVE Upto(m + 1)
    OBVIOUS
  <2>1. PICK f \in [0 .. m -> T] : f[0] = b /\ \A i \in 1 .. m : f[i] = step[<<i, f[i - 1]>>]
    BY <1>2
  <2> DEFINE g == [i \in 0 .. m + 1 |-> IF i = m + 1 THEN step[<<m + 1, f[m]>>] ELSE f[i]]
  <2>2. step[<<m + 1, f[m]>>] \in T
    OBVIOUS
  <2>3. g \in [0 .. m + 1 -> T]
    BY <2>2
  <2>4. g[0] = b /\ g[m + 1] = step[<<m + 1, g[m]>>] /\ \A i \in 0 .. m : g[i] = f[i]
    <3>1. \A i \in 0 .. m : i \in 0 .. m + 1 /\ i # m + 1
      OBVIOUS
    <3>2. \A i \in 0 .. m : g[i] = f[i]
      BY <3>1
    <3>3. g[m + 1] = step[<<m + 1, f[m]>>] /\ 0 \in 0 .. m /\ m \in 0 .. m
      OBVIOUS
    <3> HIDE DEF g
    <3> QED BY <2>1, <3>2, <3>3
  <2>5. ASSUME NEW i \in 1 .. m PROVE g[i] = step[<<i, g[i - 1]>>]
    <3>1. i \in 0 .. m /\ i - 1 \in 0 .. m
      OBVIOUS
    <3> HIDE DEF g
    <3> QED BY <2>1, <2>4, <3>1
  <2>6. \A i \in 1 .. m + 1 : i \in 1 .. m \/ i = m + 1
    OBVIOUS
  <2>7. m + 1 - 1 = m
    OBVIOUS
  <2> HIDE DEF g
  <2>8. ASSUME NEW i \in 1 .. m + 1 PROVE g[i] = step[<<i, g[i - 1]>>]
    <3>1. CASE i = m + 1
      BY <2>4, <2>7, <3>1
    <3> QED BY <2>5, <2>6, <3>1
  <2> QED BY <2>3, <2>4, <2>8
<1> HIDE DEF Upto
<1>3. n \in S
  BY <1>1, <1>2, NatSetInduction
<1>4. Upto(n)
  BY <1>3
<1> QED BY <1>4 DEF Upto, HasRecursion

\* Of a finite, non-empty set of numbers up to a bound there is a maximum.
LEMMA MaxExists ==
  ASSUME NEW X, NEW n \in Nat, X \subseteq 0 .. n, X # {}
  PROVE  Max(X) \in X /\ \A x \in X : x <= Max(X)
<1> DEFINE S == {m \in Nat : (\E x \in X : n - m <= x) => \E x \in X : \A y \in X : x >= y}
<1>1. 0 \in S
  <2> SUFFICES ASSUME NEW x \in X, n <= x PROVE \A y \in X : x >= y
    OBVIOUS
  <2> QED OBVIOUS
<1>2. ASSUME NEW m \in Nat, m \in S PROVE m + 1 \in S
  <2> SUFFICES ASSUME NEW x \in X, n - (m + 1) <= x
               PROVE  \E z \in X : \A y \in X : z >= y
    OBVIOUS
  <2>1. CASE \E z \in X : n - m <= z
    BY <1>2, <2>1
  <2>2. CASE ~ \E z \in X : n - m <= z
    <3>1. \A y \in X : x >= y
      BY <2>2
    <3> QED BY <3>1
  <2> QED BY <2>1, <2>2
<1>3. n \in S
  BY <1>1, <1>2, NatSetInduction
<1>4. \E x \in X : \A y \in X : x >= y
  <2>1. PICK x \in X : TRUE
    OBVIOUS
  <2>2. x \in 0 .. n
    OBVIOUS
  <2>3. n - n <= x
    BY <2>2
  <2> QED BY <1>3, <2>3
<1>5. Max(X) \in X /\ \A y \in X : Max(X) >= y
  BY <1>4 DEF Max
<1> QED BY <1>5
-----------------------------------------------------------------------------
(* Sequences: what they contain, and that nothing is twice in them.        *)

Distinct(s) == \A i, j \in DOMAIN s : s[i] = s[j] => i = j

LEMMA ConcatSets ==
  ASSUME NEW T, NEW s \in Seq(T), NEW t \in Seq(T)
  PROVE  /\ s \o t \in Seq(T)
         /\ ToSet(s \o t) = ToSet(s) \cup ToSet(t)
         /\ Distinct(s) /\ Distinct(t) /\ ToSet(s) \cap ToSet(t) = {} => Distinct(s \o t)
<1> DEFINE n == Len(s)
           m == Len(t)
<1>1. n \in Nat /\ m \in Nat /\ DOMAIN s = 1 .. n /\ DOMAIN t = 1 .. m
  OBVIOUS
<1>2. /\ s \o t \in Seq(T) /\ DOMAIN (s \o t) = 1 .. n + m
      /\ \A i \in 1 .. n : (s \o t)[i] = s[i]
      /\ \A i \in 1 .. m : (s \o t)[n + i] = t[i]
  OBVIOUS
<1> DEFINE u == s \o t
<1>3. \A k \in 1 .. n + m : k \in 1 .. n \/ (k - n \in 1 .. m /\ k = n + (k - n))
  BY <1>1
<1>4. \A k \in 1 .. m : n + k \in 1 .. n + m
  BY <1>1
<1>5. \A k \in 1 .. n : k \in 1 .. n + m
  BY <1>1
<1> HIDE DEF n, m, u
<1>6. ToSet(u) = ToSet(s) \cup ToSet(t)
  <2>1. \A k \in 1 .. n + m : u[k] \in ToSet(s) \cup ToSet(t)
    BY <1>1, <1>2, <1>3 DEF ToSet, u
  <2>2. \A k \in 1 .. n : s[k] \in ToSet(u)
    BY <1>2, <1>5 DEF ToSet, u
  <2>3. \A k \in 1 .. m : t[k] \in ToSet(u)
    BY <1>2, <1>4 DEF ToSet, u
  <2> QED BY <1>1, <1>2, <2>1, <2>2, <2>3 DEF ToSet, u
<1>7. ASSUME Distinct(s), Distinct(t), ToSet(s) \cap ToSet(t) = {} PROVE Distinct(u)
  <2> SUFFICES ASSUME NEW i \in 1 .. n + m, NEW j \in 1 .. n + m, u[i] = u[j] PROVE i = j
    BY <1>2 DEF Distinct, u
  <2>1. CASE i \in 1 .. n /\ j \in 1 .. n
    BY <1>1, <1>2, <1>7, <2>1 DEF Distinct, u
  <2>2. CASE i - n \in 1 .. m /\ j - n \in 1 .. m
    <3>1. u[i] = t[i - n] /\ u[j] = t[j - n]
      BY <1>1, <1>2, <2>2 DEF u
    <3>2. i - n = j - n
      BY <1>1, <1>7, <2>2, <3>1 DEF Distinct
    <3> QED BY <1>1, <3>2
  <2>3. CASE i \in 1 .. n /\ j - n \in 1 .. m
    <3>1. u[i] = s[i] /\ u[j] = t[j - n]
      BY <1>1, <1>2, <2>3 DEF u
    <3> QED BY <1>1, <1>7, <2>3, <3>1 DEF ToSet
  <2>4. CASE i - n \in 1 .. m /\ j \in 1 .. n
    <3>1. u[i] = t[i - n] /\ u[j] = s[j]
      BY <1>1, <1>2, <2>4 DEF u
    <3> QED BY <1>1, <1>7, <2>4, <3>1 DEF ToSet
  <2> QED BY <1>3, <2>1, <2>2, <2>3, <2>4
<1> QED BY <1>2, <1>6, <1>7 DEF u

\* FlattenSeq concatenates one sequence after the other.
LEMMA FlattenSteps ==
  ASSUME NEW T, NEW seqs \in Seq(Seq(T)), Len(seqs) # 0
  PROVE  \E f \in [1 .. Len(seqs) -> Seq(T)] :
           /\ f[1] = seqs[1]
           /\ \A i \in 2 .. Len(seqs) : f[i] = f[i - 1] \o seqs[i]
           /\ FlattenSeq(seqs) = f[Len(seqs)]
<1> DEFINE n == Len(seqs)
           ST == Seq(T)
           step == [p \in (1 .. n) \X ST |-> p[2] \o seqs[p[1]]]
           empty == <<>>
<1>1. n \in Nat /\ n >= 1 /\ \A i \in 1 .. n : seqs[i] \in ST
  OBVIOUS
<1>2. step \in [(1 .. n) \X ST -> ST]
  BY <1>1
<1>3. empty \in ST
  OBVIOUS
<1>4. \A i \in 1 .. n : \A s \in ST : step[<<i, s>>] = s \o seqs[i]
  OBVIOUS
<1>0. n \in Nat
  BY <1>1
<1> HIDE DEF n, step, ST, empty
<1>5. PICK h \in [0 .. n -> ST] :
        h[0] = empty /\ \A i \in 1 .. n : h[i] = step[<<i, h[i - 1]>>]
  <2>1. HasRecursion(ST, empty, n, step)
    BY <1>0, <1>2, <1>3, RecursionExists
  <2> QED BY <2>1 DEF HasRecursion
<1> DEFINE Flat(g) == [i \in 1 .. n |-> IF i = 1 THEN seqs[i] ELSE g[i - 1] \o seqs[i]]
           f == CHOOSE g : g = Flat(g)
<1>6. \A i \in 1 .. n : h[i] = h[i - 1] \o seqs[i] /\ h[i - 1] \in ST /\ h[i] \in ST
  <2> SUFFICES ASSUME NEW i \in 1 .. n
               PROVE  h[i] = h[i - 1] \o seqs[i] /\ h[i - 1] \in ST /\ h[i] \in ST
    OBVIOUS
  <2>1. i \in 0 .. n /\ i - 1 \in 0 .. n
    BY <1>1
  <2> QED BY <1>4, <1>5, <2>1
<1>7. 1 \in 1 .. n /\ h[1] = seqs[1]
  <2>1. 1 \in 1 .. n /\ 1 - 1 = 0 /\ seqs[1] \in ST
    BY <1>1
  <2>2. h[1] = <<>> \o seqs[1]
    BY <1>5, <1>6, <2>1 DEF empty
  <2>3. <<>> \o seqs[1] = seqs[1]
    BY <2>1 DEF ST
  <2> QED BY <2>1, <2>2, <2>3
<1> DEFINE k == [i \in 1 .. n |-> h[i]]
<1>8. k = Flat(k)
  <2> SUFFICES ASSUME NEW i \in 1 .. n
               PROVE  h[i] = IF i = 1 THEN seqs[i] ELSE k[i - 1] \o seqs[i]
    OBVIOUS
  <2>1. CASE i = 1
    BY <1>7, <2>1
  <2>2. CASE i # 1
    <3>1. i - 1 \in 1 .. n
      BY <1>1, <2>2
    <3> QED BY <1>6, <2>2, <3>1
  <2> QED BY <2>1, <2>2
<1>9. f = Flat(f)
  BY <1>8
<1>10. FlattenSeq(seqs) = f[n]
  BY DEF FlattenSeq, n
<1>11. DOMAIN f = 1 .. n /\ \A i \in 1 .. n : f[i] = IF i = 1 THEN seqs[i] ELSE f[i - 1] \o seqs[i]
  <2> HIDE DEF f
  <2>1. f = [i \in 1 .. n |-> IF i = 1 THEN seqs[i] ELSE f[i - 1] \o seqs[i]]
    BY <1>9
  <2> QED BY <2>1, Zenon
<1> HIDE DEF f, k
<1> DEFINE S == {i \in Nat : i + 1 \in 1 .. n => f[i + 1] = h[i + 1]}
<1>12. 0 \in S
  <2>1. 0 + 1 = 1
    OBVIOUS
  <2> QED BY <2>1, <1>7, <1>11
<1>13. ASSUME NEW i \in Nat, i \in S PROVE i + 1 \in S
  <2> SUFFICES ASSUME i + 1 + 1 \in 1 .. n PROVE f[i + 1 + 1] = h[i + 1 + 1]
    OBVIOUS
  <2> DEFINE j == i + 1
  <2>1. j \in 1 .. n /\ j + 1 \in 1 .. n /\ j + 1 # 1 /\ (j + 1) - 1 = j
    BY <1>1
  <2>2. f[j] = h[j]
    BY <1>13, <2>1
  <2> HIDE DEF j
  <2>3. f[j + 1] = f[j] \o seqs[j + 1] /\ h[j + 1] = h[j] \o seqs[j + 1]
    BY <2>1, <1>6, <1>11
  <2> QED BY <2>2, <2>3 DEF j
<1>14. Nat \subseteq S
  BY <1>12, <1>13, NatSetInduction
<1>15. \A i \in 1 .. n : f[i] = h[i]
  <2> SUFFICES ASSUME NEW i \in 1 .. n PROVE f[i] = h[i]
    OBVIOUS
  <2>1. i - 1 \in Nat /\ (i - 1) + 1 = i
    BY <1>1
  <2>2. i - 1 \in S
    BY <2>1, <1>14
  <2> QED BY <2>1, <2>2
<1>16. f \in [1 .. n -> ST]
  <2>1. f = [i \in 1 .. n |-> IF i = 1 THEN seqs[i] ELSE f[i - 1] \o seqs[i]]
    BY <1>9
  <2>2. \A i \in 1 .. n : f[i] \in ST
    BY <1>6, <1>15
  <2> QED BY <2>1, <2>2, <1>11
<1>17. f[1] = seqs[1] /\ \A i \in 2 .. n : f[i] = f[i - 1] \o seqs[i]
  <2>1. \A i \in 2 .. n : i \in 1 .. n /\ i # 1
    BY <1>1
  <2> QED BY <2>1, <1>7, <1>11
<1> HIDE DEF S
<1> QED BY <1>10, <1>16, <1>17 DEF n, ST
\* What is in a concatenation of sequences is in one of them, and once if they are
\* disjoint and nothing is twice in any of them.
DisjointSequences(seqs) ==
  /\ \A i \in 1 .. Len(seqs) : Distinct(seqs[i])
  /\ \A i, j \in 1 .. Len(seqs) : i # j => ToSet(seqs[i]) \cap ToSet(seqs[j]) = {}

LEMMA FlattenSets ==
  ASSUME NEW T, NEW seqs \in Seq(Seq(T))
  PROVE  /\ FlattenSeq(seqs) \in Seq(T)
         /\ ToSet(FlattenSeq(seqs)) = UNION {ToSet(seqs[i]) : i \in 1 .. Len(seqs)}
         /\ DisjointSequences(seqs) => Distinct(FlattenSeq(seqs))
<1> DEFINE n == Len(seqs)
<1>1. n \in Nat /\ (\A i \in 1 .. n : seqs[i] \in Seq(T)) /\ DOMAIN seqs = 1 .. n
  OBVIOUS
<1>2. CASE n = 0
  <2>1. FlattenSeq(seqs) = seqs
    BY <1>2 DEF FlattenSeq
  <2>2. seqs \in Seq(T) /\ seqs = <<>> /\ DOMAIN seqs = {} /\ 1 .. n = {}
    BY <1>2
  <2> QED BY <2>1, <2>2 DEF ToSet, Distinct
<1>3. CASE n # 0
  <2>1. PICK f \in [1 .. n -> Seq(T)] :
          /\ f[1] = seqs[1]
          /\ \A i \in 2 .. n : f[i] = f[i - 1] \o seqs[i]
          /\ FlattenSeq(seqs) = f[n]
    BY <1>3, FlattenSteps
  <2> DEFINE D == DisjointSequences(seqs)
             P(i) == /\ ToSet(f[i]) = UNION {ToSet(seqs[j]) : j \in 1 .. i}
                     /\ D => Distinct(f[i])
             S == {i \in Nat : i + 1 \in 1 .. n => P(i + 1)}
  <2> HIDE DEF n
  <2>2. 0 \in S
    <3>1. 1 \in 1 .. n /\ 0 + 1 = 1 /\ 1 .. 1 = {1}
      BY <1>1, <1>3
    <3>2. UNION {ToSet(seqs[j]) : j \in {1}} = ToSet(seqs[1])
      OBVIOUS
    <3>3. D => Distinct(seqs[1])
      BY <3>1 DEF DisjointSequences, n
    <3> QED BY <2>1, <3>1, <3>2, <3>3
  <2>3. ASSUME NEW k \in Nat, k \in S PROVE k + 1 \in S
    <3> DEFINE i == k + 1
    <3> SUFFICES ASSUME i + 1 \in 1 .. n PROVE P(i + 1)
      OBVIOUS
    <3>1. /\ i \in 1 .. n /\ i + 1 \in 2 .. n /\ (i + 1) - 1 = i
          /\ 1 .. i + 1 = (1 .. i) \cup {i + 1} /\ i \in Nat
          /\ \A j \in 1 .. i : j \in 1 .. n /\ j # i + 1
      BY <1>1
    <3>2. P(i)
      BY <2>3, <3>1
    <3> HIDE DEF i, D, S
    <3>3. f[i + 1] = f[i] \o seqs[i + 1] /\ f[i] \in Seq(T) /\ seqs[i + 1] \in Seq(T)
      BY <1>1, <2>1, <3>1
    <3>4. ToSet(f[i + 1]) = ToSet(f[i]) \cup ToSet(seqs[i + 1])
      BY <3>3, ConcatSets
    <3>5. ToSet(f[i + 1]) = UNION {ToSet(seqs[j]) : j \in 1 .. i + 1}
      BY <3>1, <3>2, <3>4
    <3>6. ASSUME D PROVE Distinct(f[i + 1])
      <4>1. Distinct(seqs[i + 1])
        BY <3>1, <3>6 DEF D, DisjointSequences, n
      <4>2. ASSUME NEW x, x \in ToSet(f[i]), x \in ToSet(seqs[i + 1]) PROVE FALSE
        <5>1. PICK j \in 1 .. i : x \in ToSet(seqs[j])
          BY <3>2, <4>2
        <5>2. j # i + 1 /\ j \in 1 .. n /\ i + 1 \in 1 .. n
          BY <3>1
        <5>3. ToSet(seqs[j]) \cap ToSet(seqs[i + 1]) = {}
          BY <3>6, <5>2 DEF D, DisjointSequences, n
        <5> QED BY <4>2, <5>1, <5>3
      <4>3. ToSet(f[i]) \cap ToSet(seqs[i + 1]) = {}
        BY <4>2
      <4>4. Distinct(f[i])
        BY <3>2, <3>6
      <4>5. Distinct(f[i] \o seqs[i + 1])
        BY <3>3, <4>1, <4>3, <4>4, ConcatSets
      <4> QED BY <3>3, <4>5
    <3> QED BY <3>5, <3>6
  <2>4. Nat \subseteq S
    BY <2>2, <2>3, NatSetInduction
  <2>5. n - 1 \in Nat /\ (n - 1) + 1 = n /\ n \in 1 .. n
    BY <1>1, <1>3
  <2>6. P(n)
    BY <2>4, <2>5
  <2> QED BY <2>1, <2>5, <2>6 DEF n
<1> QED BY <1>2, <1>3

LEMMA ReverseSet ==
  ASSUME NEW T, NEW s \in Seq(T)
  PROVE  /\ Reverse(s) \in Seq(T) /\ Len(Reverse(s)) = Len(s)
         /\ ToSet(Reverse(s)) = ToSet(s)
         /\ Distinct(s) => Distinct(Reverse(s))
<1> DEFINE n == Len(s)
           r == Reverse(s)
<1>1. n \in Nat /\ DOMAIN s = 1 .. n /\ \A i \in 1 .. n : s[i] \in T
  OBVIOUS
<1>2. \A i \in 1 .. n : (n - i) + 1 \in 1 .. n /\ (n - ((n - i) + 1)) + 1 = i
  BY <1>1
<1>3. r = [i \in 1 .. n |-> s[(n - i) + 1]]
  BY DEF Reverse
<1>4. r \in Seq(T) /\ Len(r) = n
  BY <1>1, <1>2, <1>3
<1>5. DOMAIN r = 1 .. n /\ \A i \in 1 .. n : r[i] = s[(n - i) + 1]
  BY <1>3
<1> HIDE DEF n, r
<1>6. ToSet(r) = ToSet(s)
  <2>1. \A i \in 1 .. n : r[i] \in ToSet(s)
    BY <1>1, <1>2, <1>5 DEF ToSet
  <2>2. ASSUME NEW i \in 1 .. n PROVE s[i] \in ToSet(r)
    <3>1. r[(n - i) + 1] = s[i]
      BY <1>2, <1>5
    <3> QED BY <1>2, <1>5, <3>1 DEF ToSet
  <2> QED BY <1>1, <1>5, <2>1, <2>2 DEF ToSet
<1>7. ASSUME Distinct(s) PROVE Distinct(r)
  <2> SUFFICES ASSUME NEW i \in 1 .. n, NEW j \in 1 .. n, r[i] = r[j] PROVE i = j
    BY <1>5 DEF Distinct
  <2>1. s[(n - i) + 1] = s[(n - j) + 1]
    BY <1>5
  <2>2. (n - i) + 1 = (n - j) + 1
    BY <1>1, <1>2, <1>7, <2>1 DEF Distinct
  <2> QED BY <1>1, <2>2
<1> QED BY <1>4, <1>6, <1>7 DEF n, r

LEMMA SetToSeqSet ==
  ASSUME NEW S, IsFiniteSet(S)
  PROVE  SetToSeq(S) \in Seq(S) /\ ToSet(SetToSeq(S)) = S /\ Distinct(SetToSeq(S))
<1> DEFINE n == Cardinality(S)
<1>1. n \in Nat /\ ExistsBijection(1 .. n, S)
  BY FS_CardinalityType
<1>2. PICK g : g \in Bijection(1 .. n, S)
  BY <1>1 DEF ExistsBijection
<1> HIDE DEF n
<1>3. g \in [1 .. n -> S] /\ IsInjective(g)
  BY <1>2 DEF Bijection, Injection, IsInjective
<1> DEFINE f == SetToSeq(S)
<1>4. f \in [1 .. n -> S] /\ IsInjective(f)
  BY <1>3 DEF SetToSeq, n
<1> HIDE DEF f
<1>5. f \in Seq(S) /\ DOMAIN f = 1 .. n
  BY <1>1, <1>4
<1>6. f \in Surjection(1 .. n, S)
  <2>1. f \in Injection(1 .. n, S)
    BY <1>4 DEF Injection
  <2>2. Cardinality(1 .. n) = Cardinality(S)
    BY <1>1, FS_Interval DEF n
  <2> QED BY <2>1, <2>2, FS_Injection
<1>7. \A x \in S : \E i \in 1 .. n : f[i] = x
  BY <1>6 DEF Surjection
<1>8. ToSet(f) = S
  BY <1>4, <1>5, <1>7 DEF ToSet
<1>9. Distinct(f)
  BY <1>4 DEF Distinct, IsInjective
<1> QED BY <1>5, <1>8, <1>9 DEF f

-----------------------------------------------------------------------------
(* The receptions that GetDataFromNs3 goes through, and the table it fills. *)

Reception == [to : Stations, cam : CamPacket]

LEMMA ReceivedSets ==
  ASSUME nodes \subseteq Stations, inbox \in [Stations -> Seq(CamPacket)]
  PROVE  /\ Received \in Seq(Reception)
         /\ ToSet(Received) = Heard
         /\ (\A s \in nodes : Distinct(inbox[s])) => Distinct(Received)
<1> DEFINE of(s) == IF s \in nodes
                    THEN [j \in DOMAIN inbox[s] |-> [to |-> s, cam |-> GetReceivedMessages(s)[j]]]
                    ELSE <<>>
           seqs == [s \in Stations |-> of(s)]
<1>1. ASSUME NEW s \in nodes
      PROVE  /\ of(s) \in Seq(Reception)
             /\ ToSet(of(s)) = [to : {s}, cam : ToSet(inbox[s])]
             /\ Distinct(inbox[s]) => Distinct(of(s))
  <2> DEFINE r == GetReceivedMessages(s)
             n == Len(inbox[s])
             q == of(s)
  <2>1. s \in Stations /\ inbox[s] \in Seq(CamPacket)
    OBVIOUS
  <2>2. /\ r \in Seq(CamPacket) /\ Len(r) = n /\ ToSet(r) = ToSet(inbox[s])
        /\ Distinct(inbox[s]) => Distinct(r)
    BY <2>1, ReverseSet DEF GetReceivedMessages
  <2>3. n \in Nat /\ DOMAIN inbox[s] = 1 .. n
    BY <2>1
  <2>4. DOMAIN r = 1 .. n /\ \A j \in 1 .. n : r[j] \in CamPacket
    BY <2>2, <2>3
  <2>5. q = [j \in 1 .. n |-> [to |-> s, cam |-> r[j]]]
    BY <2>3
  <2> HIDE DEF r, n, q
  <2>6. DOMAIN q = 1 .. n /\ \A j \in 1 .. n : q[j] = [to |-> s, cam |-> r[j]]
    BY <2>5
  <2>7. q \in Seq(Reception)
    BY <2>1, <2>3, <2>4, <2>5 DEF Reception
  <2>8. ToSet(q) = [to : {s}, cam : ToSet(r)]
    <3>1. ASSUME NEW j \in 1 .. n PROVE q[j] \in [to : {s}, cam : ToSet(r)]
      BY <2>4, <2>6 DEF ToSet
    <3>2. ASSUME NEW x \in [to : {s}, cam : ToSet(r)] PROVE x \in ToSet(q)
      <4>1. x.to = s /\ x.cam \in ToSet(r) /\ x = [to |-> x.to, cam |-> x.cam]
        OBVIOUS
      <4>2. PICK j \in 1 .. n : r[j] = x.cam
        BY <4>1, <2>4 DEF ToSet
      <4>3. q[j] = x
        BY <4>1, <4>2, <2>6
      <4> QED BY <4>3, <2>6 DEF ToSet
    <3> QED BY <3>1, <3>2, <2>6 DEF ToSet
  <2>9. ASSUME Distinct(inbox[s]) PROVE Distinct(q)
    <3> SUFFICES ASSUME NEW i \in 1 .. n, NEW j \in 1 .. n, q[i] = q[j] PROVE i = j
      BY <2>6 DEF Distinct
    <3>1. r[i] = r[j]
      <4>1. q[i].cam = r[i] /\ q[j].cam = r[j]
        BY <2>6
      <4> QED BY <4>1
    <3> QED BY <3>1, <2>2, <2>4, <2>9 DEF Distinct
  <2> QED BY <2>2, <2>7, <2>8, <2>9 DEF q
<1>2. \A s \in Stations \ nodes : of(s) = <<>>
  OBVIOUS
<1> HIDE DEF of
<1>3. ASSUME NEW s \in Stations PROVE of(s) \in Seq(Reception)
  <2>1. <<>> \in Seq(Reception)
    OBVIOUS
  <2>2. CASE s \in nodes
    BY <1>1, <2>2
  <2>3. CASE s \notin nodes
    <3>1. of(s) = <<>>
      BY <1>2, <2>3
    <3> QED BY <2>1, <3>1
  <2> QED BY <2>2, <2>3
<1>4. NumStations \in Nat
  BY CamTrackingAssumption
<1>5. seqs \in Seq(Seq(Reception)) /\ Len(seqs) = NumStations
  BY <1>3, <1>4 DEF Stations
<1>6. \A s \in Stations : seqs[s] = of(s)
  OBVIOUS
<1>7. Received = FlattenSeq(seqs)
  BY DEF Received, of
<1> HIDE DEF seqs
<1>8. ToSet(<<>>) = {} /\ Distinct(<<>>)
  BY DEF ToSet, Distinct
<1>9. UNION {ToSet(seqs[i]) : i \in Stations} = Heard
  <2>1. ASSUME NEW s \in Stations PROVE ToSet(seqs[s]) \subseteq Heard
    BY <1>1, <1>2, <1>6, <1>8 DEF Heard
  <2>2. ASSUME NEW s \in nodes PROVE [to : {s}, cam : ToSet(inbox[s])] = ToSet(seqs[s])
    BY <1>1, <1>6
  <2> QED BY <2>1, <2>2 DEF Heard
<1>10. ASSUME \A s \in nodes : Distinct(inbox[s]) PROVE DisjointSequences(seqs)
  <2>1. \A s \in Stations : Distinct(seqs[s])
    BY <1>1, <1>2, <1>6, <1>8, <1>10
  <2>2. ASSUME NEW s \in Stations, NEW x \in ToSet(seqs[s]) PROVE x.to = s
    <3>1. s \in nodes
      BY <1>2, <1>6, <1>8
    <3>2. x \in [to : {s}, cam : ToSet(inbox[s])]
      BY <3>1, <1>1, <1>6
    <3> QED BY <3>2
  <2>3. ASSUME NEW i \in Stations, NEW j \in Stations, i # j
        PROVE  ToSet(seqs[i]) \cap ToSet(seqs[j]) = {}
    <3>1. \A x \in ToSet(seqs[i]) : x \notin ToSet(seqs[j])
      BY <2>2, <2>3
    <3> QED BY <3>1
  <2> QED BY <2>1, <2>3, <1>5 DEF DisjointSequences, Stations
<1>11. /\ FlattenSeq(seqs) \in Seq(Reception)
       /\ ToSet(FlattenSeq(seqs)) = UNION {ToSet(seqs[i]) : i \in 1 .. Len(seqs)}
       /\ DisjointSequences(seqs) => Distinct(FlattenSeq(seqs))
  BY <1>5, FlattenSets
<1> QED BY <1>5, <1>7, <1>9, <1>10, <1>11 DEF Stations

\* An entry of the table, and what the code does with a reception that meets a row.
Entry == [row : rows, to : Stations, stored : BOOLEAN]
SameAs(entry, x) == entry.row = Row(x.cam) /\ entry.to = x.to

LEMMA UpdateType ==
  ASSUME NEW table \in Seq(Entry), NEW x \in Reception, Row(x.cam) \in rows
  PROVE  UpdateIdentifiersTable(table, x) \in Seq(Entry)
<1> DEFINE marked == [i \in DOMAIN table |->
              [table[i] EXCEPT !.stored = @ \/ (table[i].row = Row(x.cam) /\ table[i].to = x.to)]]
           new == [row |-> Row(x.cam), to |-> x.to, stored |-> FALSE]
<1>1. new \in Entry
  BY DEF Entry, Reception
<1>2. ASSUME NEW i \in DOMAIN table PROVE marked[i] \in Entry
  <2>1. table[i] \in Entry
    OBVIOUS
  <2>2. table[i].stored \in BOOLEAN
    BY <2>1 DEF Entry
  <2> QED BY <2>1, <2>2 DEF Entry
<1>3. Len(table) \in Nat /\ DOMAIN table = 1 .. Len(table)
  OBVIOUS
<1>4. marked \in Seq(Entry)
  <2> DEFINE n == Len(table)
  <2>1. n \in Nat /\ marked = [i \in 1 .. n |-> marked[i]] /\ \A i \in 1 .. n : marked[i] \in Entry
    BY <1>2, <1>3
  <2> HIDE DEF marked, n
  <2> QED BY <2>1
<1>5. UpdateIdentifiersTable(table, x) \in {marked, Append(marked, new)}
  BY DEF UpdateIdentifiersTable
<1> HIDE DEF marked, new
<1> QED BY <1>1, <1>4, <1>5

\* The table is filled by one reception after the other.
NextTable(table, x) ==
  IF Row(x.cam) \in rows THEN UpdateIdentifiersTable(table, x) ELSE table

LEMMA TableSteps ==
  ASSUME NEW list \in Seq(Reception)
  PROVE  \E f \in [0 .. Len(list) -> Seq(Entry)] :
           /\ f[0] = <<>>
           /\ \A i \in 1 .. Len(list) : f[i] = NextTable(f[i - 1], list[i])
           /\ TableOf(list) = f[Len(list)]
<1> DEFINE n == Len(list)
           SE == Seq(Entry)
           step == [p \in (1 .. n) \X SE |-> NextTable(p[2], list[p[1]])]
           empty == <<>>
<1>1. n \in Nat /\ \A i \in 1 .. n : list[i] \in Reception
  OBVIOUS
<1>0. n \in Nat
  BY <1>1
<1>2. step \in [(1 .. n) \X SE -> SE]
  <2> SUFFICES ASSUME NEW i \in 1 .. n, NEW t \in SE PROVE NextTable(t, list[i]) \in SE
    OBVIOUS
  <2> QED BY <1>1, UpdateType DEF NextTable
<1>3. empty \in SE
  OBVIOUS
<1>4. \A i \in 1 .. n : \A t \in SE : step[<<i, t>>] = NextTable(t, list[i])
  OBVIOUS
<1> HIDE DEF n, step, SE, empty
<1>5. PICK h \in [0 .. n -> SE] :
        h[0] = empty /\ \A i \in 1 .. n : h[i] = step[<<i, h[i - 1]>>]
  <2>1. HasRecursion(SE, empty, n, step)
    BY <1>0, <1>2, <1>3, RecursionExists
  <2> QED BY <2>1 DEF HasRecursion
<1> DEFINE Table(g) == [i \in 0 .. n |->
             IF i = 0 THEN <<>>
             ELSE IF Row(list[i].cam) \in rows THEN UpdateIdentifiersTable(g[i - 1], list[i])
             ELSE g[i - 1]]
           f == CHOOSE g : g = Table(g)
           k == [i \in 0 .. n |-> h[i]]
<1>6. \A i \in 1 .. n : h[i] = NextTable(h[i - 1], list[i])
  <2> SUFFICES ASSUME NEW i \in 1 .. n PROVE h[i] = NextTable(h[i - 1], list[i])
    OBVIOUS
  <2>1. i - 1 \in 0 .. n
    BY <1>1
  <2> QED BY <1>4, <1>5, <2>1
<1>7. k = Table(k)
  <2> SUFFICES ASSUME NEW i \in 0 .. n
               PROVE  h[i] = IF i = 0 THEN <<>>
                             ELSE IF Row(list[i].cam) \in rows
                                  THEN UpdateIdentifiersTable(k[i - 1], list[i])
                                  ELSE k[i - 1]
    OBVIOUS
  <2>1. CASE i = 0
    BY <1>5, <2>1 DEF empty
  <2>2. CASE i # 0
    <3>1. i \in 1 .. n /\ i - 1 \in 0 .. n
      BY <1>1, <2>2
    <3> QED BY <1>6, <2>2, <3>1 DEF NextTable
  <2> QED BY <2>1, <2>2
<1>8. f = Table(f)
  BY <1>7
<1>9. TableOf(list) = f[n]
  BY DEF TableOf, n
<1>10. f = [i \in 0 .. n |-> f[i]] /\ f[0] = <<>> /\ \A i \in 1 .. n : f[i] = NextTable(f[i - 1], list[i])
  <2> HIDE DEF f
  <2> DEFINE v(i) == IF i = 0 THEN <<>>
                     ELSE IF Row(list[i].cam) \in rows
                          THEN UpdateIdentifiersTable(f[i - 1], list[i])
                          ELSE f[i - 1]
  <2>1. f = [i \in 0 .. n |-> v(i)]
    BY <1>8
  <2>2. \A i \in 0 .. n : f[i] = v(i)
    <3> HIDE DEF v
    <3> QED BY <2>1, Zenon
  <2>3. 0 \in 0 .. n /\ \A i \in 1 .. n : i \in 0 .. n /\ i # 0
    BY <1>1
  <2>4. v(0) = <<>> /\ \A i \in 1 .. n : v(i) = NextTable(f[i - 1], list[i])
    BY <2>3 DEF NextTable
  <2> HIDE DEF v
  <2> QED BY <2>1, <2>2, <2>3, <2>4
<1> HIDE DEF f, k
<1> DEFINE S == {i \in Nat : i \in 0 .. n => f[i] \in SE}
<1>11. 0 \in S
  BY <1>3, <1>10 DEF empty
<1>12. ASSUME NEW i \in Nat, i \in S PROVE i + 1 \in S
  <2> SUFFICES ASSUME i + 1 \in 0 .. n PROVE f[i + 1] \in SE
    OBVIOUS
  <2>1. i \in 0 .. n /\ i + 1 \in 1 .. n /\ (i + 1) - 1 = i
    BY <1>1
  <2>2. f[i] \in SE /\ f[i + 1] = NextTable(f[i], list[i + 1]) /\ list[i + 1] \in Reception
    BY <1>1, <1>10, <1>12, <2>1
  <2> QED BY <2>2, UpdateType DEF NextTable, SE
<1>13. Nat \subseteq S
  BY <1>11, <1>12, NatSetInduction
<1>14. \A i \in 0 .. n : f[i] \in SE
  BY <1>13
<1>15. f \in [0 .. n -> SE]
  BY <1>10, <1>14
<1> HIDE DEF S
<1> QED BY <1>9, <1>10, <1>15 DEF n, SE

LEMMA TableType ==
  ASSUME NEW list \in Seq(Reception)
  PROVE  TableOf(list) \in Seq(Entry)
<1>1. Len(list) \in 0 .. Len(list)
  OBVIOUS
<1> QED BY <1>1, TableSteps

LEMMA GroupedType ==
  ASSUME NEW table \in Seq(Entry)
  PROVE  GroupReceivers(table) \subseteq [row : rows, to : Stations]
<1>1. \A i \in DOMAIN table : table[i] \in Entry
  OBVIOUS
<1> QED BY <1>1 DEF GroupReceivers, Entry

\* The entry of a reception that is met for the first time.
EntryOf(x) == [row |-> Row(x.cam), to |-> x.to, stored |-> FALSE]

LEMMA UpdateNew ==
  ASSUME NEW table \in Seq(Entry), NEW x \in Reception, Row(x.cam) \in rows,
         \A y \in ToSet(table) : y.stored = FALSE /\ ~SameAs(y, x)
  PROVE  ToSet(UpdateIdentifiersTable(table, x)) = ToSet(table) \cup {EntryOf(x)}
<1> DEFINE marked == [i \in DOMAIN table |->
              [table[i] EXCEPT !.stored = @ \/ (table[i].row = Row(x.cam) /\ table[i].to = x.to)]]
           n == Len(table)
<1>1. n \in Nat /\ DOMAIN table = 1 .. n /\ table = [i \in 1 .. n |-> table[i]]
  OBVIOUS
<1>2. ASSUME NEW i \in DOMAIN table PROVE marked[i] = table[i]
  <2>1. table[i] \in Entry /\ table[i] \in ToSet(table)
    BY DEF ToSet
  <2>2. /\ table[i].stored = FALSE
        /\ ~(table[i].row = Row(x.cam) /\ table[i].to = x.to)
    BY <2>1 DEF SameAs
  <2>3. marked[i] = [table[i] EXCEPT !.stored = FALSE]
    BY <2>2
  <2>4. [table[i] EXCEPT !.stored = FALSE] = table[i]
    BY <2>1, <2>2 DEF Entry
  <2> QED BY <2>3, <2>4
<1>3. marked = table
  BY <1>1, <1>2
<1>4. n \in 1 .. n => ~(table[n].row = Row(x.cam) /\ table[n].to = x.to)
  <2> SUFFICES ASSUME n \in 1 .. n PROVE ~SameAs(table[n], x)
    BY DEF SameAs
  <2>1. table[n] \in ToSet(table)
    BY <1>1 DEF ToSet
  <2> QED BY <2>1
<1>5. table # <<>> => n \in 1 .. n
  OBVIOUS
<1>6. UpdateIdentifiersTable(table, x) = Append(marked, EntryOf(x))
  BY <1>4, <1>5 DEF UpdateIdentifiersTable, EntryOf
<1>7. UpdateIdentifiersTable(table, x) = Append(table, EntryOf(x))
  BY <1>3, <1>6
<1>8. EntryOf(x) \in Entry
  BY DEF EntryOf, Entry, Reception
<1> DEFINE app == Append(table, EntryOf(x))
<1>9. /\ DOMAIN app = 1 .. n + 1
      /\ \A i \in 1 .. n : app[i] = table[i]
      /\ app[n + 1] = EntryOf(x)
  BY <1>1, <1>8
<1>10. \A i : i \in 1 .. n + 1 <=> i \in 1 .. n \/ i = n + 1
  BY <1>1
<1> HIDE DEF n, app, marked
<1>11. ToSet(app) = ToSet(table) \cup {EntryOf(x)}
  BY <1>1, <1>9, <1>10 DEF ToSet
<1> QED BY <1>7, <1>11 DEF app

\* When no CAM is received twice by a station, and rows stand for one CAM each, every
\* reception of a CAM with a row has its entry, and none is marked as stored.
LEMMA TableEntries ==
  ASSUME NEW list \in Seq(Reception), Distinct(list),
         \A x, y \in ToSet(list) : Row(x.cam) = Row(y.cam) /\ x.to = y.to => x = y
  PROVE  ToSet(TableOf(list)) = {EntryOf(x) : x \in {y \in ToSet(list) : Row(y.cam) \in rows}}
<1> DEFINE n == Len(list)
<1>1. PICK f \in [0 .. n -> Seq(Entry)] :
        /\ f[0] = <<>>
        /\ \A i \in 1 .. n : f[i] = NextTable(f[i - 1], list[i])
        /\ TableOf(list) = f[n]
  BY TableSteps
<1>2. n \in Nat /\ DOMAIN list = 1 .. n /\ \A i \in 1 .. n : list[i] \in Reception
  OBVIOUS
<1> DEFINE M(i) == {j \in 1 .. i : Row(list[j].cam) \in rows}
           P(i) == ToSet(f[i]) = {EntryOf(list[j]) : j \in M(i)}
           S == {i \in Nat : i \in 0 .. n => P(i)}
<1> HIDE DEF n
<1>3. 0 \in S
  <2>1. M(0) = {} /\ ToSet(<<>>) = {}
    BY DEF ToSet
  <2> QED BY <1>1, <2>1
<1>4. ASSUME NEW k \in Nat, k \in S PROVE k + 1 \in S
  <2> SUFFICES ASSUME k + 1 \in 0 .. n PROVE P(k + 1)
    OBVIOUS
  <2> DEFINE x == list[k + 1]
  <2>1. /\ k \in 0 .. n /\ k + 1 \in 1 .. n /\ (k + 1) - 1 = k
        /\ 1 .. k + 1 = (1 .. k) \cup {k + 1}
        /\ \A j \in 1 .. k : j \in 1 .. n /\ j # k + 1
    <3>1. k + 1 <= n /\ n \in Nat
      BY <1>2
    <3>2. 1 .. k + 1 = (1 .. k) \cup {k + 1}
      OBVIOUS
    <3> QED BY <3>1, <3>2
  <2>2. /\ f[k + 1] = NextTable(f[k], x) /\ f[k] \in Seq(Entry) /\ x \in Reception
        /\ P(k)
    BY <1>1, <1>2, <1>4, <2>1
  <2>3. CASE Row(x.cam) \notin rows
    <3>1. M(k + 1) = M(k)
      BY <2>1, <2>3
    <3>2. f[k + 1] = f[k]
      BY <2>2, <2>3 DEF NextTable
    <3> QED BY <2>2, <3>1, <3>2
  <2>4. CASE Row(x.cam) \in rows
    <3>1. M(k + 1) = M(k) \cup {k + 1}
      BY <2>1, <2>4
    <3>2. f[k + 1] = UpdateIdentifiersTable(f[k], x)
      BY <2>2, <2>4 DEF NextTable
    <3>3. ASSUME NEW y \in ToSet(f[k]) PROVE y.stored = FALSE /\ ~SameAs(y, x)
      <4>1. PICK j \in M(k) : y = EntryOf(list[j])
        BY <2>2
      <4>2. y.row = Row(list[j].cam) /\ y.to = list[j].to /\ y.stored = FALSE
        BY <4>1 DEF EntryOf
      <4>3. j \in 1 .. n /\ j # k + 1 /\ k + 1 \in 1 .. n
        BY <2>1
      <4>4. list[j] \in ToSet(list) /\ x \in ToSet(list)
        BY <1>2, <4>3 DEF ToSet
      <4>5. list[j] # x
        BY <1>2, <4>3 DEF Distinct
      <4> QED BY <4>2, <4>4, <4>5 DEF SameAs
    <3> HIDE DEF x, M
    <3>4. ToSet(f[k + 1]) = ToSet(f[k]) \cup {EntryOf(x)}
      BY <2>2, <2>4, <3>2, <3>3, UpdateNew
    <3> QED BY <2>2, <3>1, <3>4 DEF x
  <2> QED BY <2>3, <2>4
<1>5. Nat \subseteq S
  BY <1>3, <1>4, NatSetInduction
<1>6. P(n)
  <2>1. n \in Nat /\ n \in 0 .. n
    BY <1>2
  <2> QED BY <1>5, <2>1
<1>7. {list[j] : j \in M(n)} = {y \in ToSet(list) : Row(y.cam) \in rows}
  BY <1>2 DEF ToSet
<1> QED BY <1>1, <1>6, <1>7

LEMMA GroupedEntries ==
  ASSUME NEW table \in Seq(Entry), NEW X, ToSet(table) = {EntryOf(x) : x \in X}
  PROVE  GroupReceivers(table) = {[row |-> Row(x.cam), to |-> x.to] : x \in X}
<1> DEFINE n == Len(table)
           Both(y) == [row |-> y.row, to |-> y.to]
           D == {j \in DOMAIN table :
                   \E k \in 1 .. j : table[k].row = table[j].row /\ ~table[k].stored}
<1>1. n \in Nat /\ DOMAIN table = 1 .. n
  OBVIOUS
<1>2. \A j \in DOMAIN table : table[j] \in {EntryOf(x) : x \in X}
  BY DEF ToSet
<1>3. \A j \in DOMAIN table : table[j].stored = FALSE
  BY <1>2 DEF EntryOf
<1>4. \A j \in 1 .. n : j \in 1 .. j
  BY <1>1
<1>5. D = DOMAIN table
  BY <1>1, <1>3, <1>4
<1>6. GroupReceivers(table) = {Both(table[j]) : j \in D}
  BY DEF GroupReceivers
<1> HIDE DEF D, n
<1>7. GroupReceivers(table) = {Both(y) : y \in ToSet(table)}
  BY <1>5, <1>6 DEF ToSet
<1>8. \A x : Both(EntryOf(x)) = [row |-> Row(x.cam), to |-> x.to]
  BY DEF EntryOf
<1> HIDE DEF Both
<1>9. {Both(y) : y \in ToSet(table)} = {Both(EntryOf(x)) : x \in X}
  OBVIOUS
<1> QED BY <1>7, <1>8, <1>9

\* What GetDataFromNs3 gives to the facilities, whatever the order of the receptions.
LEMMA StoredReceptions ==
  ASSUME nodes \subseteq Stations, inbox \in [Stations -> Seq(CamPacket)], TagsUnique,
         \A s \in nodes : Distinct(inbox[s]) /\ ToSet(inbox[s]) \subseteq sent
  PROVE  GroupReceivers(IdentifiersStorageTable)
           = {[row |-> Row(x.cam), to |-> x.to] : x \in Matched}
<1>1. /\ Received \in Seq(Reception) /\ ToSet(Received) = Heard
      /\ Distinct(Received)
  BY ReceivedSets
<1>2. \A x \in Heard : x.cam \in sent /\ x = [to |-> x.to, cam |-> x.cam]
  BY DEF Heard
<1>3. \A x, y \in Heard : Row(x.cam) = Row(y.cam) /\ x.to = y.to => x = y
  BY <1>2 DEF TagsUnique
<1>4. ToSet(IdentifiersStorageTable)
        = {EntryOf(x) : x \in {y \in ToSet(Received) : Row(y.cam) \in rows}}
  BY <1>1, <1>3, TableEntries DEF IdentifiersStorageTable
<1>5. Matched = {y \in ToSet(Received) : Row(y.cam) \in rows}
  BY <1>1 DEF Matched
<1>6. IdentifiersStorageTable \in Seq(Entry)
  BY <1>1, TableType DEF IdentifiersStorageTable
<1> QED BY <1>4, <1>5, <1>6, GroupedEntries

-----------------------------------------------------------------------------
(* Types.                                                                  *)

\* The stations that are there have been created, the frequencies are those that an
\* application may ask for, and the CAMs that are late are finitely many, so that
\* they can be received one after the other.
TypeInv ==
  /\ TypeOK
  /\ nodes \subseteq 1 .. created
  /\ \A s \in DOMAIN general : general[s] \in 1 .. SlotsPerStep
  /\ IsFiniteSet(late)

LEMMA MaxUpTo ==
  ASSUME NEW n \in Nat, NEW X, X \subseteq 1 .. n
  PROVE  Max(X \cup {0}) \in 0 .. n /\ (X # {} => Max(X \cup {0}) \in 1 .. n)
<1> DEFINE Y == X \cup {0}
<1>1. Y \subseteq 0 .. n /\ Y # {}
  OBVIOUS
<1> HIDE DEF Y
<1>2. Max(Y) \in Y /\ \A y \in Y : y <= Max(Y)
  BY <1>1, MaxExists
<1>3. ASSUME NEW x \in X PROVE Max(Y) \in 1 .. n
  <2>1. x <= Max(Y) /\ x \in 1 .. n /\ Max(Y) \in 0 .. n
    BY <1>1, <1>2 DEF Y
  <2> QED BY <2>1
<1> QED BY <1>1, <1>2, <1>3 DEF Y

LEMMA ImageFinite ==
  ASSUME NEW S, IsFiniteSet(S), NEW f, DOMAIN f = S, f = [x \in S |-> f[x]]
  PROVE  IsFiniteSet({f[x] : x \in S})
<1> DEFINE T == {f[x] : x \in S}
<1>1. f \in Surjection(S, T)
  BY DEF Surjection
<1> QED BY <1>1, FS_Surjection

LEMMA StationsFinite == IsFiniteSet(Stations)
BY CamTrackingAssumption, FS_Interval DEF Stations

LEMMA Starting ==
  ASSUME TypeInv, NEW s \in IdNodesToStart
  PROVE  /\ s \in Stations /\ s \in nodes
         /\ MaxFrequency(s) \in 1 .. SlotsPerStep
         /\ SlotsBetweenCams(UpdatedGeneral) \in Nat
<1>1. s \in nodes /\ s \in Stations /\ AreasOf(s) # {} /\ AreasOf(s) \subseteq Areas
  BY DEF IdNodesToStart, IsNodeInAnyArea, AreasOf, TypeInv, TypeOK
<1>2. SlotsPerStep \in Nat
  BY CamTrackingAssumption
<1>3. ASSUME NEW r \in IdNodesToStart PROVE MaxFrequency(r) \in 1 .. SlotsPerStep
  <2> DEFINE X == {Freq[a] : a \in AreasOf(r)}
  <2>1. AreasOf(r) # {} /\ AreasOf(r) \subseteq Areas
    BY DEF IdNodesToStart, IsNodeInAnyArea, AreasOf, TypeInv, TypeOK
  <2>2. X \subseteq 1 .. SlotsPerStep /\ X # {}
    BY <2>1, CamTrackingAssumption
  <2> HIDE DEF X
  <2>3. Max(X \cup {0}) \in 1 .. SlotsPerStep
    BY <1>2, <2>2, MaxUpTo
  <2> QED BY <2>3 DEF MaxFrequency, X
<1> DEFINE g == UpdatedGeneral
           Y == {g[r] : r \in DOMAIN g}
<1>4. \A r \in DOMAIN g : g[r] \in 1 .. SlotsPerStep
  BY <1>3 DEF UpdatedGeneral, TypeInv
<1>5. s \in DOMAIN g
  BY DEF UpdatedGeneral
<1> HIDE DEF g
<1>6. Y \subseteq 1 .. SlotsPerStep /\ Y # {}
  BY <1>4, <1>5
<1> HIDE DEF Y
<1>7. Max(Y \cup {0}) \in 1 .. SlotsPerStep
  BY <1>2, <1>6, MaxUpTo
<1>8. MaxGeneralFrequency(UpdatedGeneral) \in 1 .. SlotsPerStep
  BY <1>7 DEF MaxGeneralFrequency, Y, g
<1>9. \A F \in 1 .. SlotsPerStep : SlotsPerStep \div F \in Nat
  BY <1>2
<1> QED BY <1>1, <1>3, <1>8, <1>9 DEF SlotsBetweenCams

\* A message of ns-3 carries the step that its slot is in.
LEMMA SlotStep ==
  ASSUME NEW x \in Nat
  PROVE  x \div SlotsPerStep \in Nat
BY CamTrackingAssumption

LEMMA StepBounds ==
  ASSUME m_simStep \in Nat
  PROVE  /\ SlotsPerStep \in Nat /\ SlotsPerStep > 0
         /\ StepStart \in Nat /\ StepEnd \in Nat /\ StepEnd = StepStart + SlotsPerStep
<1>1. SlotsPerStep \in Nat /\ SlotsPerStep > 0
  BY CamTrackingAssumption
<1>2. m_simStep * SlotsPerStep \in Nat
  BY <1>1
<1> QED BY <1>1, <1>2 DEF StepStart, StepEnd

LEMMA CamType ==
  ASSUME TypeOK, NEW e \in events
  PROVE  /\ Cam(e) \in CamPacket
         /\ AddInciPacketTags(e.from, e.slot \div SlotsPerStep) \in [ts : Nat, seq : Int]
         /\ ScheduleTx(e) \subseteq [from : Stations, slot : Nat, inSendEvent : BOOLEAN]
<1> DEFINE ts == e.slot \div SlotsPerStep
           new == AddInciPacketTags(e.from, ts)
<1>1. /\ e.from \in Stations /\ e.slot \in Nat
      /\ tag[e.from] \in [ts : Nat, seq : Int] /\ period[e.from] \in Nat
  BY DEF TypeOK
<1>2. ts \in Nat
  BY <1>1, SlotStep
<1> HIDE DEF ts
<1>3. new \in [ts : Nat, seq : Int]
  BY <1>1, <1>2 DEF AddInciPacketTags
<1>4. new.seq \in Int
  BY <1>3
<1> HIDE DEF new
<1> DEFINE due == [from |-> e.from, ts |-> ts, seq |-> new.seq] \in rows
<1>5. due \in BOOLEAN
  OBVIOUS
<1>6. Cam(e) = [from |-> e.from, ts |-> ts, seq |-> new.seq, slot |-> e.slot, due |-> due]
  BY DEF Cam, ts, new
<1> HIDE DEF due
<1>7. Cam(e) \in CamPacket
  BY <1>1, <1>2, <1>4, <1>5, <1>6 DEF CamPacket
<1>8. ScheduleTx(e) \subseteq [from : Stations, slot : Nat, inSendEvent : BOOLEAN]
  <2>1. e.slot + period[e.from] \in Nat
    BY <1>1
  <2> DEFINE x == e.slot + period[e.from]
             f == [from |-> e.from, slot |-> x, inSendEvent |-> TRUE]
  <2>2. ScheduleTx(e) \subseteq {f}
    BY DEF ScheduleTx
  <2>3. x \in Nat
    BY <2>1
  <2> HIDE DEF x
  <2>4. f \in [from : Stations, slot : Nat, inSendEvent : BOOLEAN]
    BY <1>1, <2>3
  <2> HIDE DEF f
  <2> QED BY <2>2, <2>4
<1> QED BY <1>3, <1>7, <1>8 DEF ts, new

LEMMA LateFinite ==
  ASSUME IsFiniteSet(late), NEW s
  PROVE  IsFiniteSet({l.cam : l \in {k \in LateOnes : k.to = s}})
<1> DEFINE L == {k \in LateOnes : k.to = s}
           f == [l \in L |-> l.cam]
<1>1. IsFiniteSet(L)
  BY FS_Subset DEF LateOnes
<1>2. {f[l] : l \in L} = {l.cam : l \in L}
  OBVIOUS
<1>3. DOMAIN f = L /\ f = [l \in L |-> f[l]]
  OBVIOUS
<1> HIDE DEF L, f
<1>4. IsFiniteSet({f[l] : l \in L})
  BY <1>1, <1>3, ImageFinite
<1> QED BY <1>2, <1>4 DEF L

\* What a station receives late, after what it received before.
LateCams(s) == {l.cam : l \in {k \in LateOnes : k.to = s}}

LEMMA LateArrivals ==
  ASSUME TypeInv, DeliverLate, NEW s \in nodes
  PROVE  /\ s \in Stations
         /\ inbox'[s] = inbox[s] \o SetToSeq(LateCams(s))
         /\ inbox[s] \in Seq(CamPacket) /\ SetToSeq(LateCams(s)) \in Seq(CamPacket)
         /\ LateCams(s) \subseteq {l.cam : l \in late}
         /\ ToSet(SetToSeq(LateCams(s))) = LateCams(s) /\ Distinct(SetToSeq(LateCams(s)))
<1>1. s \in Stations /\ inbox[s] \in Seq(CamPacket)
  BY DEF TypeInv, TypeOK
<1>2. inbox'[s] = inbox[s] \o SetToSeq(LateCams(s))
  BY <1>1 DEF DeliverLate, LateCams
<1>3. LateCams(s) \subseteq CamPacket /\ LateCams(s) \subseteq {l.cam : l \in late}
  BY DEF LateCams, LateOnes, TypeInv, TypeOK
<1>4. IsFiniteSet(LateCams(s))
  BY LateFinite DEF LateCams, TypeInv
<1> DEFINE L == LateCams(s)
           q == SetToSeq(L)
<1> HIDE DEF L
<1>5. q \in Seq(L) /\ ToSet(q) = L /\ Distinct(q)
  BY <1>4, SetToSeqSet DEF L
<1> HIDE DEF q
<1>6. L \subseteq CamPacket
  BY <1>3 DEF L
<1>7. q \in Seq(CamPacket)
  <2> DEFINE n == Len(q)
  <2>1. n \in Nat /\ q = [i \in 1 .. n |-> q[i]] /\ \A i \in 1 .. n : q[i] \in L
    BY <1>5
  <2> HIDE DEF n
  <2>2. \A i \in 1 .. n : q[i] \in CamPacket
    BY <1>6, <2>1
  <2> QED BY <2>1, <2>2
<1> QED BY <1>1, <1>2, <1>3, <1>5, <1>7 DEF L, q

LEMMA DeliverTypes ==
  ASSUME TypeInv, DeliverLate
  PROVE  TypeInv'
<1>1. inbox' \in [Stations -> Seq(CamPacket)]
  <2>1. \A s \in Stations : inbox'[s] \in Seq(CamPacket)
    <3> TAKE s \in Stations
    <3>1. CASE s \in nodes
      <4> DEFINE q == SetToSeq(LateCams(s))
      <4>1. inbox'[s] = inbox[s] \o q /\ inbox[s] \in Seq(CamPacket) /\ q \in Seq(CamPacket)
        BY <3>1, LateArrivals
      <4> HIDE DEF q
      <4>2. inbox[s] \o q \in Seq(CamPacket)
        BY <4>1, ConcatSets
      <4> QED BY <4>1, <4>2
    <3>2. CASE s \notin nodes
      <4>1. inbox'[s] = inbox[s]
        BY <3>2 DEF DeliverLate
      <4> QED BY <4>1 DEF TypeInv, TypeOK
    <3> QED BY <3>1, <3>2
  <2>2. inbox' = [s \in Stations |-> inbox'[s]]
    BY DEF DeliverLate
  <2> QED BY <2>1, <2>2
<1>2. late' \subseteq late /\ IsFiniteSet(late')
  BY FS_Subset DEF DeliverLate, TypeInv
<1>3. UNCHANGED <<m_simStep, phase, world, apps, tables, stores, sender, sent, started>>
  BY DEF DeliverLate
<1> QED BY <1>1, <1>2, <1>3 DEF TypeInv, TypeOK, world, apps, tables, sender

LEMMA SendTypes ==
  ASSUME TypeInv, NEW e \in events, SendPacket(e)
  PROVE  TypeInv'
<1> DEFINE c == Cam(e)
<1>1. PICK now \in SUBSET nodes, after \in SUBSET nodes :
        /\ inbox' = [s \in Stations |-> IF s \in now THEN Append(inbox[s], c) ELSE inbox[s]]
        /\ late' = late \cup {[to |-> s, cam |-> c] : s \in after}
        /\ sent' = sent \cup {c}
  BY DEF SendPacket, Broadcast
<1>2. /\ c \in CamPacket
      /\ AddInciPacketTags(e.from, e.slot \div SlotsPerStep) \in [ts : Nat, seq : Int]
      /\ ScheduleTx(e) \subseteq [from : Stations, slot : Nat, inSendEvent : BOOLEAN]
  BY CamType DEF TypeInv
<1> HIDE DEF c
<1>3. /\ tag' = [tag EXCEPT ![e.from] = AddInciPacketTags(e.from, e.slot \div SlotsPerStep)]
      /\ events' = (events \ {e}) \cup ScheduleTx(e)
      /\ UNCHANGED <<m_simStep, phase, world, apps, tables, stores, running, period, started>>
  BY DEF SendPacket
<1>4. inbox' \in [Stations -> Seq(CamPacket)]
  BY <1>1, <1>2 DEF TypeInv, TypeOK
<1>5. late' \subseteq [to : Stations, cam : CamPacket]
  BY <1>1, <1>2 DEF TypeInv, TypeOK
<1>6. IsFiniteSet(late')
  <2> DEFINE f == [s \in after |-> [to |-> s, cam |-> c]]
             A == {f[s] : s \in after}
  <2>1. IsFiniteSet(after)
    BY StationsFinite, FS_Subset DEF TypeInv, TypeOK
  <2>2. DOMAIN f = after /\ f = [s \in after |-> f[s]] /\ A = {[to |-> s, cam |-> c] : s \in after}
    OBVIOUS
  <2> HIDE DEF f
  <2>3. IsFiniteSet(A)
    BY <2>1, <2>2, ImageFinite
  <2> HIDE DEF A
  <2>4. late' = late \cup A
    BY <1>1, <2>2
  <2> QED BY <2>3, <2>4, FS_Union DEF TypeInv
<1>7. sent' \subseteq CamPacket
  BY <1>1, <1>2 DEF TypeInv, TypeOK
<1>8. tag' \in [Stations -> [ts : Nat, seq : Int]]
  BY <1>2, <1>3 DEF TypeInv, TypeOK
<1>9. events' \subseteq [from : Stations, slot : Nat, inSendEvent : BOOLEAN]
  BY <1>2, <1>3 DEF TypeInv, TypeOK
<1> QED BY <1>3, <1>4, <1>5, <1>6, <1>7, <1>8, <1>9
        DEF TypeInv, TypeOK, world, apps, tables

LEMMA DataTypes ==
  ASSUME TypeInv, GetDataFromNs3
  PROVE  TypeInv'
<1>1. stores' \subseteq [row : CamRow, to : Stations]
  <2>1. Received \in Seq(Reception)
    BY ReceivedSets DEF TypeInv, TypeOK
  <2>2. IdentifiersStorageTable \in Seq(Entry)
    BY <2>1, TableType DEF IdentifiersStorageTable
  <2>3. GroupReceivers(IdentifiersStorageTable) \subseteq [row : rows, to : Stations]
    BY <2>2, GroupedType
  <2>4. stores' = GroupReceivers(IdentifiersStorageTable) /\ rows \subseteq CamRow
    BY DEF GetDataFromNs3, TypeInv, TypeOK
  <2> QED BY <2>3, <2>4
<1>2. rows' \subseteq CamRow
  BY DEF GetDataFromNs3, RowsLeft, TypeInv, TypeOK
<1>3. inbox' \in [Stations -> Seq(CamPacket)]
  BY DEF GetDataFromNs3, TypeInv, TypeOK
<1> QED BY <1>1, <1>2, <1>3 DEF GetDataFromNs3, TypeInv, TypeOK, world, apps, sender

LEMMA SumoTypes ==
  ASSUME TypeInv, NEW left, NEW last \in created .. NumStations,
         RunOneSumoTimeStep(left, last)
  PROVE  TypeInv'
<1>1. created \in Nat /\ NumStations \in Nat /\ nodes \subseteq 1 .. created
  BY CamTrackingAssumption DEF TypeInv, TypeOK
<1>2. /\ nodes' = (nodes \ left) \cup (created + 1 .. last) /\ created' = last
      /\ nodesInArea' = RemoveNodesInTheArea(left)
      /\ stores' = {} /\ phase' = "apps"
      /\ UNCHANGED <<m_simStep, apps, general, rows, sender, radio, started>>
  BY DEF RunOneSumoTimeStep
<1>3. PICK where \in [nodes' \ FixedStations -> SUBSET Areas] :
        inside' = [s \in Stations |->
                     IF s \in FixedStations THEN inside[s]
                     ELSE IF s \in DOMAIN where THEN where[s] ELSE {}]
  BY DEF RunOneSumoTimeStep
<1>4. /\ 1 .. created \subseteq 1 .. last
      /\ created + 1 .. last \subseteq 1 .. last /\ last \in 0 .. NumStations
      /\ 1 .. last \subseteq 1 .. NumStations
  BY <1>1
<1>5. nodes' \subseteq 1 .. created' /\ nodes' \subseteq Stations /\ created' \in 0 .. NumStations
  BY <1>1, <1>2, <1>4 DEF Stations
<1>6. inside' \in [Stations -> SUBSET Areas]
  BY <1>3 DEF TypeInv, TypeOK
<1>7. nodesInArea' \in [Areas -> SUBSET Stations]
  BY <1>2 DEF RemoveNodesInTheArea, TypeInv, TypeOK
<1> QED BY <1>2, <1>5, <1>6, <1>7 DEF TypeInv, TypeOK, apps, sender, radio

LEMMA UpdatedTypes ==
  ASSUME TypeInv
  PROVE  /\ UpdatedNodesInArea \in [Areas -> SUBSET Stations]
         /\ DOMAIN UpdatedGeneral \subseteq Stations
         /\ \A s \in DOMAIN UpdatedGeneral : UpdatedGeneral[s] \in 1 .. SlotsPerStep
         /\ NewRows(UpdatedGeneral) \subseteq CamRow
<1>1. /\ nodes \subseteq Stations /\ DOMAIN general \subseteq Stations
      /\ nodesInArea \in [Areas -> SUBSET Stations] /\ m_simStep \in Nat
  BY DEF TypeInv, TypeOK
<1>2. UpdatedNodesInArea \in [Areas -> SUBSET Stations]
  BY <1>1 DEF UpdatedNodesInArea
<1> DEFINE g == UpdatedGeneral
           X == {g[s] : s \in DOMAIN g}
<1>3. DOMAIN g \subseteq Stations
  BY <1>1 DEF UpdatedGeneral, IdNodesToStart
<1>4. \A s \in DOMAIN g : g[s] \in 1 .. SlotsPerStep
  BY Starting DEF UpdatedGeneral, TypeInv
<1> HIDE DEF g
<1>5. X \subseteq 1 .. SlotsPerStep /\ SlotsPerStep \in Nat
  BY <1>4, CamTrackingAssumption
<1> HIDE DEF X
<1>6. Max(X \cup {0}) \in Nat
  <2>1. Max(X \cup {0}) \in 0 .. SlotsPerStep
    BY <1>5, MaxUpTo
  <2> QED BY <1>5, <2>1
<1>7. MaxGeneralFrequency(g) \in Nat
  BY <1>6 DEF MaxGeneralFrequency, X
<1>8. 0 .. MaxGeneralFrequency(g) - 1 \subseteq Nat /\ m_simStep + 1 \in Nat
  BY <1>1, <1>7
<1>9. NewRows(g) \subseteq CamRow
  BY <1>3, <1>8 DEF NewRows, CamRow
<1> QED BY <1>2, <1>3, <1>4, <1>9 DEF g

LEMMA ScheduleTypes ==
  ASSUME TypeInv, ScheduleV2xMessages
  PROVE  TypeInv'
<1>1. PICK now \in Now :
        /\ tag' = [s \in Stations |->
             IF s \in IdNodesToStart THEN InitializeINCIvariables(now) ELSE tag[s]]
        /\ \E first \in [IdNodesToStart -> now .. now + FirstDelay] :
             events' = StopTransmitting(IdNodesToStop) \cup StartTransmitting(first)
  BY DEF ScheduleV2xMessages
<1>2. PICK first \in [IdNodesToStart -> now .. now + FirstDelay] :
        events' = StopTransmitting(IdNodesToStop) \cup StartTransmitting(first)
  BY <1>1
<1>3. /\ nodesInArea' = UpdatedNodesInArea
      /\ general' = UpdatedGeneral
      /\ rows' = RefreshScheduledCamMessageTable(rows \cup NewRows(UpdatedGeneral))
      /\ running' = (running \ IdNodesToStop) \cup IdNodesToStart
      /\ period' = [s \in Stations |->
                  IF s \in IdNodesToStart THEN SlotsBetweenCams(UpdatedGeneral) ELSE period[s]]
      /\ started' = [s \in Stations |-> IF s \in IdNodesToStart THEN m_simStep ELSE started[s]]
      /\ sent' = {c \in sent : c.ts >= m_simStep}
      /\ m_simStep' = m_simStep + 1
      /\ phase' = "ns3"
      /\ UNCHANGED <<world, apps, stores, inbox, late>>
  BY DEF ScheduleV2xMessages
<1>4. m_simStep \in Nat
  BY DEF TypeInv, TypeOK
<1>5. now \in Nat /\ SlotsPerStep \in Nat
  BY <1>4, StepBounds DEF Now
<1>6. rows' \subseteq CamRow
  BY <1>3, UpdatedTypes DEF RefreshScheduledCamMessageTable, TypeInv, TypeOK
<1>7. running' \subseteq Stations
  BY <1>3, Starting DEF TypeInv, TypeOK
<1>8. period' \in [Stations -> Nat]
  BY <1>3, Starting DEF TypeInv, TypeOK
<1>9. started' \in [Stations -> Int]
  BY <1>3, <1>4 DEF TypeInv, TypeOK
<1>10. tag' \in [Stations -> [ts : Nat, seq : Int]]
  <2>1. InitializeINCIvariables(now) \in [ts : Nat, seq : Int]
    BY <1>5, SlotStep DEF InitializeINCIvariables
  <2> QED BY <1>1, <2>1 DEF TypeInv, TypeOK
<1>11. events' \subseteq [from : Stations, slot : Nat, inSendEvent : BOOLEAN]
  <2>1. StopTransmitting(IdNodesToStop) \subseteq [from : Stations, slot : Nat, inSendEvent : BOOLEAN]
    BY DEF StopTransmitting, TypeInv, TypeOK
  <2>2. \A s \in IdNodesToStart : s \in Stations /\ first[s] \in Nat
    BY <1>5, Starting DEF FirstDelay
  <2>3. StartTransmitting(first) \subseteq [from : Stations, slot : Nat, inSendEvent : BOOLEAN]
    <3> SUFFICES ASSUME NEW s \in IdNodesToStart
                 PROVE  [from |-> s, slot |-> first[s], inSendEvent |-> FALSE]
                          \in [from : Stations, slot : Nat, inSendEvent : BOOLEAN]
      BY DEF StartTransmitting
    <3> QED BY <2>2
  <2> QED BY <1>2, <2>1, <2>3
<1>12. sent' \subseteq CamPacket /\ m_simStep' \in Nat
  BY <1>3, <1>4 DEF TypeInv, TypeOK
<1>13. /\ DOMAIN general' \subseteq Stations
       /\ \A s \in DOMAIN general' : general'[s] \in 1 .. SlotsPerStep /\ general'[s] \in Nat
       /\ nodesInArea' \in [Areas -> SUBSET Stations]
  <2>1. \A x \in 1 .. SlotsPerStep : x \in Nat
    BY <1>5
  <2> QED BY <1>3, <2>1, UpdatedTypes
<1> QED BY <1>3, <1>6, <1>7, <1>8, <1>9, <1>10, <1>11, <1>12, <1>13
        DEF TypeInv, TypeOK, world, apps

LEMMA InitTypes == Init => TypeInv
<1> SUFFICES ASSUME Init PROVE TypeInv
  OBVIOUS
<1>1. /\ NumStations \in Nat /\ NumFixed \in 0 .. NumStations /\ SlotsPerStep \in Nat
      /\ FixedInside \in [1 .. NumFixed -> SUBSET Areas]
  BY CamTrackingAssumption
<1>2. FixedStations \subseteq Stations
  BY <1>1 DEF FixedStations, Stations
<1>3. inside \in [Stations -> SUBSET Areas]
  BY <1>1 DEF Init, FixedStations
<1>4. DOMAIN general = {}
  BY DEF Init
<1>5. <<>> \in Seq(CamPacket)
  OBVIOUS
<1>6. /\ tag \in [Stations -> [ts : Nat, seq : Int]] /\ period \in [Stations -> Nat]
      /\ inbox \in [Stations -> Seq(CamPacket)] /\ started \in [Stations -> Int]
  BY <1>1, <1>5 DEF Init, Never
<1>7. IsFiniteSet(late)
  BY FS_EmptySet DEF Init
<1>8. /\ m_simStep = 0 /\ phase = "ns3" /\ nodes = FixedStations /\ created = NumFixed
      /\ camAreas = {} /\ wanted = {} /\ nodesInArea = [a \in Areas |-> {}]
      /\ rows = {} /\ stores = {} /\ events = {} /\ running = {} /\ late = {} /\ sent = {}
  BY DEF Init
<1> QED BY <1>1, <1>2, <1>3, <1>4, <1>6, <1>7, <1>8 DEF TypeInv, TypeOK, FixedStations

LEMMA StepTypes == TypeInv /\ [Next]_vars => TypeInv'
<1> SUFFICES ASSUME TypeInv, [Next]_vars PROVE TypeInv'
  OBVIOUS
<1>1. CASE DeliverLate
  BY <1>1, DeliverTypes
<1>2. ASSUME NEW e \in events, SendPacket(e) PROVE TypeInv'
  BY <1>2, SendTypes
<1>3. CASE RunSimStepReturns
  BY <1>3 DEF RunSimStepReturns, TypeInv, TypeOK, world, apps, tables, sender, radio
<1>4. CASE GetDataFromNs3
  BY <1>4, DataTypes
<1>5. ASSUME NEW left, NEW last \in created .. NumStations, RunOneSumoTimeStep(left, last)
      PROVE  TypeInv'
  BY <1>5, SumoTypes
<1>6. ASSUME NEW subscribed \in SUBSET (Areas \ camAreas), NEW dropped \in SUBSET Droppable,
             RunApplicationLogic(subscribed, dropped)
      PROVE  TypeInv'
  BY <1>6 DEF RunApplicationLogic, EraseFromNode, TypeInv, TypeOK, world, tables, sender, radio
<1>7. CASE ScheduleV2xMessages
  BY <1>7, ScheduleTypes
<1>8. CASE UNCHANGED vars
  BY <1>8 DEF vars, TypeInv, TypeOK, world, apps, tables, sender, radio
<1> QED BY <1>1, <1>2, <1>3, <1>4, <1>5, <1>6, <1>7, <1>8 DEF Next

LEMMA TypeInvHolds == Spec => []TypeInv
BY InitTypes, StepTypes, PTL DEF Spec

\* The types of the pipeline: the tables hold rows and receptions of stations that
\* exist, the time between two CAMs is a number of slots, whatever the frequencies,
\* and the CAMs of every station are a sequence (CAMmanage, InciPacketList,
\* ScheduledCamMessageTable).
THEOREM CamTypeCorrect == Spec => []TypeOK
<1>1. TypeInv => TypeOK
  BY DEF TypeInv
<1> QED BY <1>1, TypeInvHolds, PTL

-----------------------------------------------------------------------------
(* The step that is not over.  Whatever the frequencies, a station is not  *)
(* started between two of its CAMs of one turn of ns-3, so the numbers of  *)
(* the step that ns-3 is at are never given twice.                         *)

NowInv ==
  /\ \A c \in sent : c.ts <= m_simStep
  /\ \A c \in sent : c.ts = m_simStep =>
       tag[c.from].ts = m_simStep /\ c.seq <= tag[c.from].seq
  /\ \A c, d \in sent : c.ts = m_simStep /\ Row(c) = Row(d) => c = d
  /\ \A e \in events : e.slot \div SlotsPerStep >= tag[e.from].ts

\* The tag of a CAM of this step: a number that no other has.
NumberedNow(e, c, new) ==
  /\ c.from = e.from /\ c.slot = e.slot /\ c.ts = e.slot \div SlotsPerStep
  /\ new.ts = c.ts /\ new.seq = c.seq /\ c.seq \in Int /\ c.ts \in Nat
  /\ c.ts <= m_simStep /\ (c.slot >= StepStart => c.ts = m_simStep)
  /\ c.ts = m_simStep =>
       \A d \in sent : d.ts = m_simStep /\ d.from = e.from => d.seq < c.seq

LEMMA NowNumber ==
  ASSUME TypeInv, NowInv, NEW e \in events, e.slot < StepEnd
  PROVE  NumberedNow(e, Cam(e), AddInciPacketTags(e.from, e.slot \div SlotsPerStep))
<1> DEFINE ts == e.slot \div SlotsPerStep
           t == tag[e.from]
           new == AddInciPacketTags(e.from, ts)
           c == Cam(e)
<1>1. /\ e.from \in Stations /\ e.slot \in Nat /\ t \in [ts : Nat, seq : Int]
      /\ m_simStep \in Nat
  BY DEF TypeInv, TypeOK
<1>2. ts \in Nat /\ ts <= m_simStep /\ (e.slot >= StepStart => ts = m_simStep)
  <2>1. ts \in Nat /\ StepStart \in Nat
    BY <1>1, SlotStep, StepBounds
  <2>2. ts <= m_simStep
    BY <1>1, DivBounds DEF StepEnd, StepStart
  <2>3. e.slot >= StepStart => ts >= m_simStep
    BY <1>1, DivBounds DEF StepStart
  <2> QED BY <1>1, <2>1, <2>2, <2>3
<1>3. ts >= t.ts
  BY DEF NowInv
<1>4. c.from = e.from /\ c.slot = e.slot /\ c.ts = ts /\ c.seq = new.seq
  BY DEF Cam
<1> HIDE DEF ts, c
<1>5. /\ new.ts = ts /\ new.seq \in Int
      /\ t.ts < ts \/ (t.ts = ts /\ t.seq < new.seq)
  BY <1>1, <1>2, <1>3 DEF AddInciPacketTags
<1> HIDE DEF new, t
<1>6. ASSUME c.ts = m_simStep, NEW d \in sent, d.ts = m_simStep, d.from = e.from
      PROVE  d.seq < c.seq
  <2>1. t.ts = m_simStep /\ d.seq <= t.seq
    BY <1>6 DEF NowInv, t
  <2>2. d.seq \in Int
    BY DEF TypeInv, TypeOK, CamPacket
  <2>3. t.seq < new.seq
    BY <1>1, <1>4, <1>5, <1>6, <2>1
  <2> QED BY <1>1, <1>4, <1>5, <2>1, <2>2, <2>3
<1>7. c.slot = e.slot
  BY DEF c, Cam
<1>8. NumberedNow(e, c, new)
  <2>1. c.ts = e.slot \div SlotsPerStep
    BY <1>4 DEF ts
  <2> QED BY <1>2, <1>4, <1>5, <1>6, <1>7, <2>1 DEF NumberedNow
<1> QED BY <1>8 DEF ts, c, new

\* What is left of the events when stations are stopped and started.
LEMMA EventsAfterSchedule ==
  ASSUME TypeInv, ChainInv, ScheduleV2xMessages
  PROVE  \E now \in Now : \E first \in [IdNodesToStart -> now .. now + FirstDelay] :
           /\ tag' = [s \in Stations |->
                IF s \in IdNodesToStart THEN InitializeINCIvariables(now) ELSE tag[s]]
           /\ \A f \in events' :
                \/ f \in events /\ f.from \notin IdNodesToStart
                \/ f.from \in IdNodesToStart /\ f.slot = first[f.from]
<1>1. PICK now \in Now :
        /\ tag' = [s \in Stations |->
             IF s \in IdNodesToStart THEN InitializeINCIvariables(now) ELSE tag[s]]
        /\ \E first \in [IdNodesToStart -> now .. now + FirstDelay] :
             events' = StopTransmitting(IdNodesToStop) \cup StartTransmitting(first)
  BY DEF ScheduleV2xMessages
<1>2. PICK first \in [IdNodesToStart -> now .. now + FirstDelay] :
        events' = StopTransmitting(IdNodesToStop) \cup StartTransmitting(first)
  BY <1>1
<1> DEFINE start(s) == [from |-> s, slot |-> first[s], inSendEvent |-> FALSE]
<1>3. ASSUME NEW f \in events'
      PROVE  \/ f \in events /\ f.from \notin IdNodesToStart
             \/ f.from \in IdNodesToStart /\ f.slot = first[f.from]
  <2>1. CASE f \in StopTransmitting(IdNodesToStop)
    <3>1. f \in events /\ ~(f.from \in IdNodesToStop /\ f.inSendEvent)
      BY <2>1 DEF StopTransmitting
    <3>2. f.slot >= StepEnd /\ f.from \in DOMAIN general
      BY <3>1 DEF ChainInv, ScheduleV2xMessages
    <3>3. StepEnd \in Nat
      BY StepBounds DEF TypeInv, TypeOK
    <3>4. f.inSendEvent = TRUE
      BY <3>1, <3>2, <3>3 DEF ChainInv
    <3>5. f.from \notin IdNodesToStart
      BY <3>1, <3>2, <3>4, StartsAreNew
    <3> QED BY <3>1, <3>5
  <2>2. CASE f \in StartTransmitting(first)
    <3>1. PICK s \in IdNodesToStart : f = start(s)
      BY <2>2 DEF StartTransmitting
    <3> QED BY <3>1
  <2> QED BY <1>2, <2>1, <2>2
<1> QED BY <1>1, <1>3

LEMMA SendNow ==
  ASSUME TypeInv, ChainInv, NowInv, NEW e \in events, SendPacket(e)
  PROVE  NowInv'
<1> DEFINE s == e.from
           c == Cam(e)
           new == AddInciPacketTags(s, e.slot \div SlotsPerStep)
<1>1. e.slot < StepEnd
  BY DEF SendPacket
<1>2. /\ c.from = s /\ c.slot = e.slot /\ c.ts = e.slot \div SlotsPerStep
      /\ new.ts = c.ts /\ new.seq = c.seq /\ c.seq \in Int /\ c.ts \in Nat /\ c.ts <= m_simStep
      /\ c.ts = m_simStep => \A d \in sent : d.ts = m_simStep /\ d.from = s => d.seq < c.seq
  BY <1>1, NowNumber DEF NumberedNow
<1>3. /\ sent' = sent \cup {c} /\ tag' = [tag EXCEPT ![s] = new]
      /\ events' = (events \ {e}) \cup ScheduleTx(e) /\ m_simStep' = m_simStep
  BY DEF SendPacket, Broadcast
<1>4. s \in Stations /\ e.slot \in Nat /\ period[s] \in Nat /\ m_simStep \in Nat
  BY DEF TypeInv, TypeOK
<1>5. tag'[s] = new /\ \A r \in Stations : r # s => tag'[r] = tag[r]
  BY <1>3, <1>4 DEF TypeInv, TypeOK
<1>6. c.ts >= tag[s].ts /\ tag[s].ts \in Nat
  BY <1>2 DEF NowInv, TypeInv, TypeOK
<1>7. ASSUME NEW f \in ScheduleTx(e) PROVE f.from = s /\ f.slot \in Int /\ e.slot <= f.slot
  <2>1. f.from = s /\ f.slot = e.slot + period[s]
    BY DEF ScheduleTx
  <2> QED BY <1>4, <2>1
<1>8. \A d \in sent : d.from \in Stations /\ d.ts \in Nat /\ d.seq \in Int
  BY DEF TypeInv, TypeOK, CamPacket
<1> HIDE DEF s, c, new
<1>9. \A d \in sent' : d.ts <= m_simStep
  BY <1>2, <1>3 DEF NowInv
<1>10. ASSUME NEW d \in sent', d.ts = m_simStep
       PROVE  tag'[d.from].ts = m_simStep /\ d.seq <= tag'[d.from].seq
  <2>1. CASE d = c
    BY <1>2, <1>5, <1>10, <2>1
  <2>2. CASE d \in sent /\ d.from = s
    <3>1. tag[s].ts = m_simStep
      BY <1>10, <2>2 DEF NowInv
    <3>2. c.ts = m_simStep
      BY <1>2, <1>4, <1>6, <3>1
    <3>3. d.seq < c.seq
      BY <1>2, <1>10, <2>2, <3>2
    <3> QED BY <1>2, <1>5, <1>8, <2>2, <3>2, <3>3
  <2>3. CASE d \in sent /\ d.from # s
    BY <1>5, <1>8, <1>10, <2>3 DEF NowInv
  <2> QED BY <1>3, <2>1, <2>2, <2>3
<1>11. ASSUME c.ts = m_simStep, NEW d \in sent PROVE Row(d) # Row(c)
  <2> SUFFICES ASSUME Row(d) = Row(c) PROVE FALSE
    OBVIOUS
  <2>1. d.from = s /\ d.ts = m_simStep /\ d.seq = c.seq
    BY <1>2, <1>11 DEF Row
  <2> QED BY <1>2, <1>8, <1>11, <2>1
<1>12. ASSUME NEW d \in sent', NEW b \in sent', d.ts = m_simStep, Row(d) = Row(b) PROVE d = b
  <2>1. b.ts = m_simStep
    BY <1>12 DEF Row
  <2>2. CASE d \in sent /\ b \in sent
    BY <1>12, <2>2 DEF NowInv
  <2>3. CASE d = c \/ b = c
    BY <1>3, <1>11, <1>12, <2>1, <2>3
  <2> QED BY <1>3, <2>2, <2>3
<1>13. ASSUME NEW f \in events' PROVE f.slot \div SlotsPerStep >= tag'[f.from].ts
  <2>1. CASE f \in ScheduleTx(e)
    <3>1. f.from = s /\ c.ts <= f.slot \div SlotsPerStep
      BY <1>2, <1>4, <1>7, <2>1, DivMonotonic
    <3>2. f.slot \div SlotsPerStep \in Int
      BY <1>7, <2>1, DivBounds
    <3> QED BY <1>2, <1>5, <3>1, <3>2
  <2>2. CASE f \in events /\ f # e
    <3>1. f.from # s /\ f.from \in Stations
      BY <2>2 DEF ChainInv, s, TypeInv, TypeOK
    <3> QED BY <1>5, <2>2, <3>1 DEF NowInv
  <2> QED BY <1>3, <2>1, <2>2
<1> QED BY <1>3, <1>9, <1>10, <1>12, <1>13 DEF NowInv

LEMMA ScheduleNow ==
  ASSUME TypeInv, ChainInv, NowInv, ScheduleV2xMessages
  PROVE  NowInv'
<1>1. PICK now \in Now : \E first \in [IdNodesToStart -> now .. now + FirstDelay] :
           /\ tag' = [s \in Stations |->
                IF s \in IdNodesToStart THEN InitializeINCIvariables(now) ELSE tag[s]]
           /\ \A f \in events' :
                \/ f \in events /\ f.from \notin IdNodesToStart
                \/ f.from \in IdNodesToStart /\ f.slot = first[f.from]
  BY EventsAfterSchedule
<1>2. PICK first \in [IdNodesToStart -> now .. now + FirstDelay] :
           /\ tag' = [s \in Stations |->
                IF s \in IdNodesToStart THEN InitializeINCIvariables(now) ELSE tag[s]]
           /\ \A f \in events' :
                \/ f \in events /\ f.from \notin IdNodesToStart
                \/ f.from \in IdNodesToStart /\ f.slot = first[f.from]
  BY <1>1
<1>3. sent' \subseteq sent /\ m_simStep' = m_simStep + 1
  BY DEF ScheduleV2xMessages
<1>4. m_simStep \in Nat /\ now \in Nat /\ SlotsPerStep \in Nat
  BY StepBounds DEF Now, TypeInv, TypeOK
<1>5. \A c \in sent' : c.ts <= m_simStep /\ c.ts \in Nat
  BY <1>3 DEF NowInv, TypeInv, TypeOK, CamPacket
<1>6. \A c \in sent' : c.ts <= m_simStep' /\ c.ts # m_simStep'
  BY <1>3, <1>4, <1>5
<1>7. ASSUME NEW f \in events' PROVE f.slot \div SlotsPerStep >= tag'[f.from].ts
  <2>1. CASE f \in events /\ f.from \notin IdNodesToStart
    <3>1. tag'[f.from] = tag[f.from]
      BY <1>2, <2>1 DEF TypeInv, TypeOK
    <3> QED BY <2>1, <3>1 DEF NowInv
  <2>2. CASE f.from \in IdNodesToStart /\ f.slot = first[f.from]
    <3>1. f.from \in Stations
      BY <2>2, Starting
    <3>2. tag'[f.from].ts = now \div SlotsPerStep
      BY <1>2, <2>2, <3>1 DEF InitializeINCIvariables
    <3>3. f.slot \in Int /\ now <= f.slot
      BY <1>4, <2>2 DEF FirstDelay
    <3>4. now \div SlotsPerStep <= f.slot \div SlotsPerStep
      BY <1>4, <3>3, DivMonotonic
    <3> QED BY <1>4, <3>2, <3>3, <3>4, DivBounds
  <2> QED BY <1>2, <2>1, <2>2
<1> QED BY <1>6, <1>7 DEF NowInv

LEMMA StepNow == TypeInv /\ ChainInv /\ NowInv /\ [Next]_vars => NowInv'
<1> SUFFICES ASSUME TypeInv, ChainInv, NowInv, [Next]_vars PROVE NowInv'
  OBVIOUS
<1>1. ASSUME UNCHANGED <<m_simStep, events, tag, sent>> PROVE NowInv'
  BY <1>1 DEF NowInv
<1>2. CASE DeliverLate \/ RunSimStepReturns \/ GetDataFromNs3 \/ UNCHANGED vars
  BY <1>1, <1>2 DEF DeliverLate, RunSimStepReturns, GetDataFromNs3, vars, sender, radio
<1>3. ASSUME NEW e \in events, SendPacket(e) PROVE NowInv'
  BY <1>3, SendNow
<1>4. ASSUME NEW left, NEW last, RunOneSumoTimeStep(left, last) PROVE NowInv'
  BY <1>1, <1>4 DEF RunOneSumoTimeStep, sender, radio
<1>5. ASSUME NEW subscribed, NEW dropped, RunApplicationLogic(subscribed, dropped)
      PROVE  NowInv'
  BY <1>1, <1>5 DEF RunApplicationLogic, sender, radio
<1>6. CASE ScheduleV2xMessages
  BY <1>6, ScheduleNow
<1> QED BY <1>2, <1>3, <1>4, <1>5, <1>6 DEF Next

-----------------------------------------------------------------------------
(* Receptions.  What is on its way to a station, or in its list, was sent, *)
(* and is of the step that is not over.  With one frequency it is there at *)
(* most once.                                                              *)

HeardInv ==
  /\ \A s \in nodes : ToSet(inbox[s]) \subseteq sent
  /\ \A l \in late : l.cam \in sent /\ l.cam.ts = l.cam.slot \div SlotsPerStep
  /\ \A l \in late : phase # "ns3" => l.cam.slot >= StepStart
  /\ \A s \in Stations : s > created => inbox[s] = <<>>
  /\ phase \notin {"ns3", "data"} => \A s \in nodes : inbox[s] = <<>>

OnceInv ==
  /\ \A s \in nodes : Distinct(inbox[s])
  /\ \A l \in late : l.to \in nodes => l.cam \notin ToSet(inbox[l.to])

LEMMA EmptyInbox == ToSet(<<>>) = {} /\ Distinct(<<>>)
BY DEF ToSet, Distinct

\* The CAM of an event has a number that no other has.
LEMMA NewNumber ==
  ASSUME NumbersInv, NEW e \in events
  PROVE  \A d \in sent : Row(d) # Row(Cam(e))
<1> DEFINE ts == e.slot \div SlotsPerStep
           t == tag[e.from]
           new == AddInciPacketTags(e.from, ts)
<1>1. e.from \in Stations /\ e.slot \in Int /\ t \in [ts : Int, seq : Int] /\ ts >= t.ts
  BY DEF NumbersInv, TagTypes
<1>2. ts \in Int
  BY <1>1, DivBounds
<1> HIDE DEF ts
<1>3. /\ new.ts = ts /\ new.seq \in Int
      /\ t.ts < ts \/ (t.ts = ts /\ t.seq < new.seq)
  BY <1>1, <1>2 DEF AddInciPacketTags
<1>4. Row(Cam(e)) = [from |-> e.from, ts |-> ts, seq |-> new.seq]
  BY DEF Row, Cam, ts
<1> HIDE DEF new, t
<1> SUFFICES ASSUME NEW d \in sent, Row(d) = Row(Cam(e)) PROVE FALSE
  OBVIOUS
<1>5. d.from = e.from /\ d.ts = ts /\ d.seq = new.seq
  BY <1>4 DEF Row
<1>6. d.ts \in Int /\ d.seq \in Int
  BY DEF NumbersInv, TagTypes
<1>7. d.ts < t.ts \/ (d.ts = t.ts /\ d.seq <= t.seq)
  BY <1>5 DEF NumbersInv, t
<1> QED BY <1>1, <1>2, <1>3, <1>5, <1>6, <1>7

LEMMA DeliverReceptions ==
  ASSUME TypeInv, HeardInv, DeliverLate
  PROVE  HeardInv' /\ (OnceInv => OnceInv')
<1>1. /\ phase = "ns3" /\ late' = late \ LateOnes
      /\ UNCHANGED <<m_simStep, phase, nodes, created, sent>>
  BY DEF DeliverLate, world
<1>2. \A s \in Stations \ nodes : inbox'[s] = inbox[s]
  BY DEF DeliverLate
<1>3. ASSUME NEW s \in nodes
      PROVE  /\ ToSet(inbox'[s]) = ToSet(inbox[s]) \cup LateCams(s)
             /\ ToSet(inbox'[s]) \subseteq sent /\ (OnceInv => Distinct(inbox'[s]))
  <2> DEFINE q == SetToSeq(LateCams(s))
             b == inbox[s]
  <2>1. /\ inbox'[s] = b \o q /\ b \in Seq(CamPacket) /\ q \in Seq(CamPacket)
        /\ ToSet(q) = LateCams(s) /\ Distinct(q)
    BY LateArrivals
  <2>2. LateCams(s) \subseteq sent /\ ToSet(b) \subseteq sent
    BY DEF LateCams, LateOnes, HeardInv
  <2>3. OnceInv => Distinct(b) /\ ToSet(b) \cap LateCams(s) = {}
    BY DEF LateCams, LateOnes, OnceInv
  <2> HIDE DEF q, b
  <2>4. ToSet(b \o q) = ToSet(b) \cup ToSet(q) /\ (OnceInv => Distinct(b \o q))
    BY <2>1, <2>2, <2>3, ConcatSets
  <2> QED BY <2>1, <2>2, <2>4 DEF b
<1>4. ASSUME OnceInv, NEW l \in late', l.to \in nodes PROVE l.cam \notin ToSet(inbox'[l.to])
  <2>1. l \in late /\ l \notin LateOnes
    BY <1>1
  <2>2. l.cam \notin ToSet(inbox[l.to])
    BY <1>4, <2>1 DEF OnceInv
  <2>3. l.cam \notin LateCams(l.to)
    BY <2>1 DEF LateCams, LateOnes
  <2> QED BY <1>3, <1>4, <2>2, <2>3
<1>5. \A s \in Stations : s > created => inbox'[s] = <<>>
  <2>1. \A s \in nodes : ~(s > created)
    BY DEF TypeInv, TypeOK
  <2> QED BY <1>2, <2>1 DEF HeardInv
<1>6. HeardInv'
  BY <1>1, <1>3, <1>5 DEF HeardInv
<1>7. OnceInv => OnceInv'
  BY <1>1, <1>3, <1>4 DEF OnceInv
<1> QED BY <1>6, <1>7

LEMMA SendReceptions ==
  ASSUME TypeInv, HeardInv, NEW e \in events, SendPacket(e)
  PROVE  HeardInv' /\ (NumbersInv /\ OnceInv => OnceInv')
<1> DEFINE c == Cam(e)
<1>1. PICK now \in SUBSET nodes, after \in SUBSET nodes :
        /\ now \cap after = {}
        /\ inbox' = [s \in Stations |-> IF s \in now THEN Append(inbox[s], c) ELSE inbox[s]]
        /\ late' = late \cup {[to |-> s, cam |-> c] : s \in after}
        /\ sent' = sent \cup {c}
  BY DEF SendPacket, Broadcast
<1>2. /\ phase = "ns3"
      /\ UNCHANGED <<m_simStep, phase, nodes, created>>
  BY DEF SendPacket, world
<1>3. /\ NumbersInv => c \notin sent
      /\ c.ts = c.slot \div SlotsPerStep /\ c \in CamPacket
  <2>1. NumbersInv => c \notin sent
    BY NewNumber
  <2>2. c.ts = c.slot \div SlotsPerStep
    BY DEF Cam
  <2> QED BY <2>1, <2>2, CamType DEF TypeInv
<1> HIDE DEF c
<1>4. \A s \in Stations : /\ s \notin now => inbox'[s] = inbox[s]
                          /\ s \in now => inbox'[s] = Append(inbox[s], c)
  BY <1>1
<1>5. nodes \subseteq Stations /\ \A s \in Stations : inbox[s] \in Seq(CamPacket)
  BY DEF TypeInv, TypeOK
<1>6. ASSUME NEW s \in now
      PROVE  /\ ToSet(inbox'[s]) = ToSet(inbox[s]) \cup {c}
             /\ NumbersInv /\ OnceInv => Distinct(inbox'[s])
  <2> DEFINE b == inbox[s]
             u == <<c>>
  <2>1. s \in nodes /\ s \in Stations /\ b \in Seq(CamPacket) /\ u \in Seq(CamPacket)
    BY <1>3, <1>5
  <2>2. ToSet(u) = {c} /\ Distinct(u)
    BY DEF ToSet, Distinct
  <2>3. Append(b, c) = b \o u
    BY <2>1
  <2>4. NumbersInv /\ OnceInv => Distinct(b) /\ c \notin ToSet(b)
    BY <1>3, <2>1 DEF HeardInv, OnceInv
  <2>5. inbox'[s] = b \o u
    BY <1>4, <2>1, <2>3
  <2> HIDE DEF b, u
  <2>6. ToSet(b \o u) = ToSet(b) \cup ToSet(u)
    BY <2>1, ConcatSets
  <2>7. ASSUME NumbersInv, OnceInv PROVE Distinct(b \o u)
    <3>1. ToSet(b) \cap ToSet(u) = {}
      BY <2>2, <2>4, <2>7
    <3> QED BY <2>1, <2>2, <2>4, <2>7, <3>1, ConcatSets
  <2> QED BY <2>2, <2>5, <2>6, <2>7 DEF b
<1>7. \A s \in nodes : /\ ToSet(inbox'[s]) \subseteq sent'
                       /\ NumbersInv /\ OnceInv => Distinct(inbox'[s])
  <2> TAKE s \in nodes
  <2>1. s \in Stations /\ ToSet(inbox[s]) \subseteq sent /\ (OnceInv => Distinct(inbox[s]))
    BY <1>5 DEF HeardInv, OnceInv
  <2>2. CASE s \in now
    BY <1>1, <1>6, <2>1, <2>2
  <2>3. CASE s \notin now
    BY <1>1, <1>4, <2>1, <2>3
  <2> QED BY <2>2, <2>3
<1>8. \A l \in late' : l \in late \/ (l.cam = c /\ l.to \in after)
  BY <1>1
<1>9. \A l \in late' : l.cam \in sent' /\ l.cam.ts = l.cam.slot \div SlotsPerStep
  BY <1>1, <1>3, <1>8 DEF HeardInv
<1>10. ASSUME NumbersInv, OnceInv, NEW l \in late', l.to \in nodes
       PROVE  l.cam \notin ToSet(inbox'[l.to])
  <2>1. l.to \in Stations /\ ToSet(inbox[l.to]) \subseteq sent /\ c \notin sent
    BY <1>3, <1>5, <1>10 DEF HeardInv
  <2>2. CASE l \in late
    <3>1. l.cam \in sent /\ l.cam \notin ToSet(inbox[l.to])
      BY <1>10, <2>2 DEF HeardInv, OnceInv
    <3>2. l.cam # c
      BY <2>1, <3>1
    <3>3. ToSet(inbox'[l.to]) \subseteq ToSet(inbox[l.to]) \cup {c}
      BY <1>4, <1>6, <2>1
    <3> QED BY <3>1, <3>2, <3>3
  <2>3. CASE l.cam = c /\ l.to \in after
    <3>1. inbox'[l.to] = inbox[l.to]
      BY <1>1, <1>4, <2>1, <2>3
    <3> QED BY <2>1, <2>3, <3>1
  <2> QED BY <1>8, <2>2, <2>3
<1>11. \A s \in Stations : s > created => inbox'[s] = <<>>
  <2>1. \A s \in nodes : ~(s > created)
    BY DEF TypeInv, TypeOK
  <2> QED BY <1>4, <2>1 DEF HeardInv
<1>12. HeardInv'
  BY <1>2, <1>7, <1>9, <1>11 DEF HeardInv
<1>13. NumbersInv /\ OnceInv => OnceInv'
  BY <1>2, <1>7, <1>10 DEF OnceInv
<1> QED BY <1>12, <1>13

LEMMA ScheduleReceptions ==
  ASSUME TypeInv, HeardInv, ScheduleV2xMessages
  PROVE  HeardInv' /\ OnceInv'
<1>1. /\ phase = "schedule" /\ phase' = "ns3"
      /\ sent' = {c \in sent : c.ts >= m_simStep}
      /\ UNCHANGED <<nodes, created, inbox, late>>
  BY DEF ScheduleV2xMessages, world
<1>2. ASSUME NEW l \in late PROVE l.cam.ts >= m_simStep
  <2>1. l.cam.ts = l.cam.slot \div SlotsPerStep /\ l.cam.slot >= StepStart /\ l.cam.slot \in Nat
    BY <1>1 DEF HeardInv, TypeInv, TypeOK, CamPacket
  <2>2. m_simStep \in Nat
    BY DEF TypeInv, TypeOK
  <2> QED BY <2>1, <2>2, DivBounds DEF StepStart
<1>3. \A s \in nodes : inbox[s] = <<>>
  BY <1>1 DEF HeardInv
<1> QED BY <1>1, <1>2, <1>3, EmptyInbox DEF HeardInv, OnceInv

LEMMA SumoReceptions ==
  ASSUME TypeInv, HeardInv, NEW left, NEW last \in created .. NumStations,
         RunOneSumoTimeStep(left, last)
  PROVE  HeardInv' /\ OnceInv'
<1>1. /\ nodes' = (nodes \ left) \cup (created + 1 .. last) /\ created' = last
      /\ phase = "sumo" /\ phase' = "apps"
      /\ UNCHANGED <<m_simStep, inbox, late, sent>>
  BY DEF RunOneSumoTimeStep, radio
<1>2. created \in Nat /\ NumStations \in Nat
  BY CamTrackingAssumption DEF TypeInv, TypeOK
<1>3. /\ last >= created /\ last \in Int
      /\ created + 1 .. last \subseteq Stations /\ \A s \in created + 1 .. last : s > created
  BY <1>2 DEF Stations
<1>4. \A s \in nodes' : inbox[s] = <<>>
  BY <1>1, <1>3 DEF HeardInv
<1>5. \A s \in Stations : s > last => s > created
  BY <1>2, <1>3 DEF Stations
<1>6. StepStart' = StepStart
  BY <1>1 DEF StepStart
<1> QED BY <1>1, <1>4, <1>5, <1>6, EmptyInbox DEF HeardInv, OnceInv

LEMMA StepReceptions ==
  TypeInv /\ HeardInv /\ [Next]_vars => HeardInv' /\ (NumbersInv /\ OnceInv => OnceInv')
<1> DEFINE Goal == HeardInv' /\ (NumbersInv /\ OnceInv => OnceInv')
<1> SUFFICES ASSUME TypeInv, HeardInv, [Next]_vars PROVE Goal
  OBVIOUS
<1>1. CASE DeliverLate
  BY <1>1, DeliverReceptions
<1>2. ASSUME NEW e \in events, SendPacket(e) PROVE Goal
  BY <1>2, SendReceptions
<1>3. CASE RunSimStepReturns
  <2>1. /\ phase' = "data" /\ LateOnes = {}
        /\ UNCHANGED <<m_simStep, nodes, created, inbox, late, sent>>
    BY <1>3 DEF RunSimStepReturns, world, radio
  <2>2. \A l \in late : l.cam.slot >= StepStart
    <3>1. \A l \in late : ~(l.cam.slot < StepStart)
      BY <2>1 DEF LateOnes
    <3>2. StepStart \in Nat /\ \A l \in late : l.cam.slot \in Nat
      BY StepBounds DEF TypeInv, TypeOK, CamPacket
    <3> QED BY <3>1, <3>2
  <2>3. StepStart' = StepStart
    BY <2>1 DEF StepStart
  <2> QED BY <2>1, <2>2, <2>3 DEF HeardInv, OnceInv
<1>4. CASE GetDataFromNs3
  <2>1. /\ phase = "data" /\ phase' = "sumo"
        /\ inbox' = [s \in Stations |-> IF s \in nodes THEN <<>> ELSE inbox[s]]
        /\ UNCHANGED <<m_simStep, nodes, created, late, sent>>
    BY <1>4 DEF GetDataFromNs3, world
  <2>2. nodes \subseteq Stations
    BY DEF TypeInv, TypeOK
  <2>3. /\ \A s \in nodes : inbox'[s] = <<>>
        /\ \A s \in Stations : inbox'[s] \in {<<>>, inbox[s]}
        /\ StepStart' = StepStart
    BY <2>1, <2>2 DEF StepStart
  <2> QED BY <2>1, <2>3, EmptyInbox DEF HeardInv, OnceInv
<1>5. ASSUME NEW left, NEW last \in created .. NumStations, RunOneSumoTimeStep(left, last)
      PROVE  Goal
  BY <1>5, SumoReceptions
<1>6. ASSUME NEW subscribed, NEW dropped, RunApplicationLogic(subscribed, dropped)
      PROVE  Goal
  BY <1>6 DEF RunApplicationLogic, HeardInv, OnceInv, world, radio, StepStart
<1>7. CASE ScheduleV2xMessages
  BY <1>7, ScheduleReceptions
<1>8. CASE UNCHANGED vars
  BY <1>8 DEF vars, HeardInv, OnceInv, world, radio, StepStart
<1> QED BY <1>1, <1>2, <1>3, <1>4, <1>5, <1>6, <1>7, <1>8 DEF Next

LEMMA InitReceptions == Init => HeardInv /\ OnceInv
<1> SUFFICES ASSUME Init PROVE HeardInv /\ OnceInv
  OBVIOUS
<1>1. FixedStations \subseteq Stations
  BY CamTrackingAssumption DEF FixedStations, Stations
<1>2. \A s \in Stations : inbox[s] = <<>>
  BY DEF Init
<1>3. nodes \subseteq Stations /\ late = {} /\ phase = "ns3"
  BY <1>1 DEF Init
<1> QED BY <1>2, <1>3, EmptyInbox DEF HeardInv, OnceInv

LEMMA HeardInvHolds == Spec => []HeardInv
<1>1. TypeInv /\ HeardInv /\ [Next]_vars => HeardInv'
  BY StepReceptions
<1>2. Init => HeardInv
  BY InitReceptions
<1> QED BY <1>1, <1>2, TypeInvHolds, PTL DEF Spec

LEMMA OnceInvHolds == ASSUME OneFrequency PROVE Spec => []OnceInv
<1>1. Spec => []NumbersInv
  BY NumbersInvHolds
<1>2. TypeInv /\ NumbersInv /\ HeardInv /\ OnceInv /\ [Next]_vars => OnceInv'
  BY StepReceptions
<1>3. Init => OnceInv
  BY InitReceptions
<1> QED BY <1>1, <1>2, <1>3, HeardInvHolds, TypeInvHolds, PTL DEF Spec

\* With CAM areas of one frequency, whatever the order in which the packets are read,
\* the table of UpdateIdentifiersTable loses no reception of a CAM with a row and
\* invents none: storeMessage gets them all (SyncManager::GetDataFromNs3).
THEOREM EveryReceptionStored == ASSUME OneFrequency PROVE Spec => ReceptionsStored
<1>1. ASSUME TypeInv, NumbersInv, HeardInv, OnceInv, [Next]_vars
      PROVE  [phase = "data" =>
                stores' = {[row |-> Row(x.cam), to |-> x.to] : x \in Matched}]_vars
  <2> SUFFICES ASSUME Next, phase = "data"
               PROVE  stores' = {[row |-> Row(x.cam), to |-> x.to] : x \in Matched}
    BY <1>1
  <2>1. GetDataFromNs3
    BY DEF Next, DeliverLate, SendPacket, RunSimStepReturns, RunOneSumoTimeStep,
           RunApplicationLogic, ScheduleV2xMessages
  <2>2. stores' = GroupReceivers(IdentifiersStorageTable)
    BY <2>1 DEF GetDataFromNs3
  <2>3. /\ nodes \subseteq Stations /\ inbox \in [Stations -> Seq(CamPacket)]
        /\ TagsUnique
        /\ \A s \in nodes : Distinct(inbox[s]) /\ ToSet(inbox[s]) \subseteq sent
    BY <1>1 DEF TypeInv, TypeOK, NumbersInv, HeardInv, OnceInv
  <2> QED BY <2>2, <2>3, StoredReceptions
<1>2. Spec => []NumbersInv /\ []OnceInv
  BY NumbersInvHolds, OnceInvHolds
<1> QED BY <1>1, <1>2, HeardInvHolds, TypeInvHolds, PTL DEF Spec, ReceptionsStored

-----------------------------------------------------------------------------
(* Rows.  A CAM of this step is met by its row until all those who hear it *)
(* did, if it is not heard in two steps.                                   *)

OnePiece == "split" \notin Deliveries /\ Window >= 1

RowInv ==
  /\ phase \in {"ns3", "data"} =>
       \A s \in nodes : \A c \in ToSet(inbox[s]) : c.due => Row(c) \in rows
  /\ \A l \in late : l.cam.due => Row(l.cam) \in rows
  /\ \A l \in late : \A s \in nodes : l.cam \notin ToSet(inbox[s])

LEMMA DeliverRows ==
  ASSUME TypeInv, RowInv, DeliverLate
  PROVE  RowInv'
<1>1. /\ phase = "ns3" /\ late' = late \ LateOnes
      /\ UNCHANGED <<m_simStep, phase, nodes, rows>>
  BY DEF DeliverLate, world, tables
<1>2. ASSUME NEW s \in nodes PROVE ToSet(inbox'[s]) = ToSet(inbox[s]) \cup LateCams(s)
  <2> DEFINE q == SetToSeq(LateCams(s))
             b == inbox[s]
  <2>1. /\ inbox'[s] = b \o q /\ b \in Seq(CamPacket) /\ q \in Seq(CamPacket)
        /\ ToSet(q) = LateCams(s)
    BY LateArrivals
  <2> HIDE DEF q, b
  <2>2. ToSet(b \o q) = ToSet(b) \cup ToSet(q)
    BY <2>1, ConcatSets
  <2> QED BY <2>1, <2>2 DEF b
<1>3. ASSUME NEW s \in nodes, NEW c \in ToSet(inbox'[s]), c.due PROVE Row(c) \in rows
  BY <1>1, <1>2, <1>3 DEF RowInv, LateCams, LateOnes
<1>4. ASSUME NEW l \in late', NEW s \in nodes PROVE l.cam \notin ToSet(inbox'[s])
  <2>1. l \in late /\ ~(l.cam.slot < StepStart)
    BY <1>1 DEF LateOnes
  <2>2. l.cam \notin LateCams(s)
    BY <2>1 DEF LateCams, LateOnes
  <2> QED BY <1>2, <2>1, <2>2 DEF RowInv
<1> QED BY <1>1, <1>3, <1>4 DEF RowInv

LEMMA SendRows ==
  ASSUME OnePiece, TypeInv, NowInv, HeardInv, RowInv, NEW e \in events, SendPacket(e)
  PROVE  RowInv'
<1> DEFINE c == Cam(e)
<1>1. PICK now \in SUBSET nodes, after \in SUBSET nodes :
        /\ now = {} \/ after = {}
        /\ after # {} => c.slot = StepEnd - 1
        /\ inbox' = [s \in Stations |-> IF s \in now THEN Append(inbox[s], c) ELSE inbox[s]]
        /\ late' = late \cup {[to |-> s, cam |-> c] : s \in after}
  BY DEF SendPacket, Broadcast, OnePiece
<1>2. phase = "ns3" /\ LateOnes = {} /\ e.slot < StepEnd /\ UNCHANGED <<phase, nodes, rows>>
  BY DEF SendPacket, world, tables
<1>3. /\ c.due => Row(c) \in rows
      /\ c \in CamPacket
      /\ c.slot >= StepStart => c \notin sent
  <2>1. c.due => Row(c) \in rows
    BY DEF Cam, Row
  <2>2. ASSUME c.slot >= StepStart, c \in sent PROVE FALSE
    <3> DEFINE new == AddInciPacketTags(e.from, e.slot \div SlotsPerStep)
    <3>1. NumberedNow(e, c, new)
      BY <1>2, NowNumber
    <3> HIDE DEF c, new
    <3>2. c.seq \in Int /\ c.seq < c.seq
      BY <2>2, <3>1 DEF NumberedNow
    <3> QED BY <3>2
  <2> QED BY <2>1, <2>2, CamType DEF TypeInv
<1> HIDE DEF c
<1>4. nodes \subseteq Stations /\ \A s \in nodes : inbox[s] \in Seq(CamPacket)
  BY DEF TypeInv, TypeOK
<1>5. ASSUME NEW s \in nodes
      PROVE  /\ s \in now => ToSet(inbox'[s]) = ToSet(inbox[s]) \cup {c}
             /\ s \notin now => inbox'[s] = inbox[s]
  <2> DEFINE b == inbox[s]
             u == <<c>>
  <2>1. b \in Seq(CamPacket) /\ u \in Seq(CamPacket) /\ ToSet(u) = {c} /\ Append(b, c) = b \o u
    BY <1>3, <1>4 DEF ToSet
  <2>2. /\ s \in now => inbox'[s] = Append(b, c)
        /\ s \notin now => inbox'[s] = b
    BY <1>1, <1>4
  <2> HIDE DEF b, u
  <2>3. ToSet(b \o u) = ToSet(b) \cup ToSet(u)
    BY <2>1, ConcatSets
  <2> QED BY <2>1, <2>2, <2>3 DEF b
<1>6. \A l \in late' : l \in late \/ (l.cam = c /\ after # {})
  BY <1>1
<1>7. ASSUME NEW s \in nodes, NEW d \in ToSet(inbox'[s]), d.due PROVE Row(d) \in rows
  <2>1. d = c \/ d \in ToSet(inbox[s])
    BY <1>5
  <2> QED BY <1>2, <1>3, <1>7, <2>1 DEF RowInv
<1>8. \A l \in late' : l.cam.due => Row(l.cam) \in rows
  BY <1>3, <1>6 DEF RowInv
<1>9. ASSUME NEW l \in late', NEW s \in nodes PROVE l.cam \notin ToSet(inbox'[s])
  <2>1. ToSet(inbox[s]) \subseteq sent
    BY DEF HeardInv
  <2>2. CASE l \in late
    <3>1. l.cam \in sent /\ l.cam \notin ToSet(inbox[s]) /\ ~(l.cam.slot < StepStart)
      BY <1>2, <2>2 DEF HeardInv, RowInv, LateOnes
    <3>2. l.cam.slot \in Nat /\ StepStart \in Nat
      BY <2>2, StepBounds DEF TypeInv, TypeOK, CamPacket
    <3>3. l.cam # c
      BY <1>3, <3>1, <3>2
    <3> QED BY <1>5, <3>1, <3>3
  <2>3. CASE l.cam = c /\ after # {}
    <3>1. inbox'[s] = inbox[s] /\ c.slot = StepEnd - 1
      BY <1>1, <1>5, <2>3
    <3>2. StepStart \in Nat /\ SlotsPerStep \in Nat /\ SlotsPerStep > 0
          /\ StepEnd = StepStart + SlotsPerStep
      BY StepBounds DEF TypeInv, TypeOK
    <3>3. c.slot >= StepStart
      BY <3>1, <3>2
    <3> QED BY <1>3, <2>1, <2>3, <3>1, <3>3
  <2> QED BY <1>6, <2>2, <2>3
<1> QED BY <1>2, <1>7, <1>8, <1>9 DEF RowInv

\* What is still on its way is of this step, whose rows stand for one CAM each.
LEMMA DataRows ==
  ASSUME TypeInv, NowInv, HeardInv, RowInv, GetDataFromNs3
  PROVE  RowInv'
<1>1. /\ phase = "data" /\ phase' = "sumo" /\ rows' = RowsLeft
      /\ inbox' = [s \in Stations |-> IF s \in nodes THEN <<>> ELSE inbox[s]]
      /\ UNCHANGED <<nodes, late>>
  BY DEF GetDataFromNs3, world
<1>2. \A s \in nodes : inbox'[s] = <<>>
  BY <1>1 DEF TypeInv, TypeOK
<1>3. ASSUME NEW l \in late, l.cam.due PROVE Row(l.cam) \in rows'
  <2>1. Row(l.cam) \in rows /\ l.cam \in sent
    BY <1>3 DEF RowInv, HeardInv
  <2>2. l.cam.ts = m_simStep
    <3>1. /\ l.cam.ts = l.cam.slot \div SlotsPerStep /\ l.cam.slot >= StepStart
          /\ l.cam.slot \in Nat /\ l.cam.ts \in Nat
      BY <1>1 DEF HeardInv, TypeInv, TypeOK, CamPacket
    <3>2. m_simStep \in Nat /\ l.cam.ts <= m_simStep
      BY <2>1 DEF NowInv, TypeInv, TypeOK
    <3>3. l.cam.ts >= m_simStep
      BY <3>1, <3>2, DivBounds DEF StepStart
    <3> QED BY <3>1, <3>2, <3>3
  <2>3. ASSUME NEW x \in Heard PROVE Row(l.cam) # Row(x.cam)
    <3>1. PICK s \in nodes : x.cam \in ToSet(inbox[s])
      BY DEF Heard
    <3>2. x.cam \in sent /\ l.cam # x.cam
      BY <3>1 DEF HeardInv, RowInv
    <3> QED BY <2>1, <2>2, <3>2 DEF NowInv
  <2> QED BY <1>1, <2>1, <2>3 DEF RowsLeft
<1> QED BY <1>1, <1>2, <1>3, EmptyInbox DEF RowInv

LEMMA ScheduleRows ==
  ASSUME OnePiece, TypeInv, HeardInv, RowInv, ScheduleV2xMessages
  PROVE  RowInv'
<1>1. /\ phase = "schedule"
      /\ rows' = RefreshScheduledCamMessageTable(rows \cup NewRows(UpdatedGeneral))
      /\ UNCHANGED <<nodes, inbox, late>>
  BY DEF ScheduleV2xMessages, world
<1>2. \A s \in nodes : inbox[s] = <<>>
  BY <1>1 DEF HeardInv
<1>3. ASSUME NEW l \in late, l.cam.due PROVE Row(l.cam) \in rows'
  <2>1. /\ l.cam.ts = l.cam.slot \div SlotsPerStep /\ l.cam.slot >= StepStart
        /\ l.cam.slot \in Nat /\ l.cam.ts \in Nat
    BY <1>1 DEF HeardInv, TypeInv, TypeOK, CamPacket
  <2>2. m_simStep \in Nat /\ Window \in Nat /\ Window >= 1
    BY CamTrackingAssumption DEF TypeInv, TypeOK, OnePiece
  <2>3. l.cam.ts >= m_simStep
    BY <2>1, <2>2, DivBounds DEF StepStart
  <2>4. m_simStep < Row(l.cam).ts + Window
    BY <2>1, <2>2, <2>3 DEF Row
  <2>5. Row(l.cam) \in rows
    BY <1>3 DEF RowInv
  <2> QED BY <1>1, <2>4, <2>5 DEF RefreshScheduledCamMessageTable
<1> QED BY <1>1, <1>2, <1>3, EmptyInbox DEF RowInv

LEMMA StepRows ==
  ASSUME OnePiece
  PROVE  TypeInv /\ NowInv /\ HeardInv /\ RowInv /\ [Next]_vars => RowInv'
<1> SUFFICES ASSUME TypeInv, NowInv, HeardInv, RowInv, [Next]_vars PROVE RowInv'
  OBVIOUS
<1>1. CASE DeliverLate
  BY <1>1, DeliverRows
<1>2. ASSUME NEW e \in events, SendPacket(e) PROVE RowInv'
  BY <1>2, SendRows
<1>3. CASE RunSimStepReturns
  BY <1>3 DEF RunSimStepReturns, RowInv, world, tables, radio
<1>4. CASE GetDataFromNs3
  BY <1>4, DataRows
<1>5. ASSUME NEW left, NEW last \in created .. NumStations, RunOneSumoTimeStep(left, last)
      PROVE  RowInv'
  <2>1. phase' = "apps" /\ UNCHANGED <<inbox, late, rows>>
    BY <1>5 DEF RunOneSumoTimeStep, radio
  <2>2. HeardInv'
    BY <1>5, SumoReceptions
  <2>3. \A s \in nodes' : inbox'[s] = <<>>
    BY <2>1, <2>2 DEF HeardInv
  <2> QED BY <2>1, <2>3, EmptyInbox DEF RowInv
<1>6. ASSUME NEW subscribed, NEW dropped, RunApplicationLogic(subscribed, dropped)
      PROVE  RowInv'
  BY <1>6 DEF RunApplicationLogic, RowInv, world, tables, radio
<1>7. CASE ScheduleV2xMessages
  BY <1>7, ScheduleRows
<1>8. CASE UNCHANGED vars
  BY <1>8 DEF vars, RowInv, world, tables, radio
<1> QED BY <1>1, <1>2, <1>3, <1>4, <1>5, <1>6, <1>7, <1>8 DEF Next

\* Whatever the frequencies of the CAM areas, with no CAM that some stations hear in
\* this step and others in the next, the row that was there when a CAM was sent is
\* there when it is heard, be it a step later (m_scheduleMessageCleanUp of one step or
\* more; GetDataFromNs3 erases the rows of what was heard).
THEOREM RowsWait == ASSUME OnePiece PROVE Spec => []RowOnArrival
<1>1. Init => NowInv
  BY DEF Init, NowInv
<1>2. Init => RowInv
  <2> SUFFICES ASSUME Init PROVE RowInv
    OBVIOUS
  <2>1. HeardInv /\ late = {} /\ sent = {}
    BY InitReceptions DEF Init
  <2> QED BY <2>1 DEF RowInv, HeardInv
<1>3. Spec => []NowInv
  BY <1>1, StepNow, ChainInvHolds, TypeInvHolds, PTL DEF Spec
<1>4. TypeInv /\ NowInv /\ HeardInv /\ RowInv /\ [Next]_vars => RowInv'
  BY StepRows
<1>5. RowInv => RowOnArrival
  BY DEF RowInv, RowOnArrival, Heard
<1> QED BY <1>2, <1>3, <1>4, <1>5, HeardInvHolds, TypeInvHolds, PTL DEF Spec

-----------------------------------------------------------------------------
(* Counting.  A step is cut into as many periods as the frequency, and a   *)
(* station that sends CAMs sends its n-th in the n-th period of the step.  *)

LEMMA NextMultiple ==
  ASSUME NEW n \in Int, NEW p \in Nat
  PROVE  n * p \in Int /\ (n + 1) * p = n * p + p
OBVIOUS

LEMMA FewerMultiples ==
  ASSUME NEW n \in Int, NEW k \in Int, NEW p \in Nat, n * p < p * k
  PROVE  n < k
<1>1. SUFFICES ASSUME n - k \in Nat PROVE FALSE
  OBVIOUS
<1>2. (n - k) * p >= 0 /\ (n - k) * p = n * p - p * k
  BY <1>1
<1> QED BY <1>2

HasSent(s, q) == \E c \in sent : Row(c) = [from |-> s, ts |-> m_simStep, seq |-> q]

\* Where the next CAM of a station lies in the step, after the one that its tag counts.
CountSlots ==
  /\ \A e \in events : \A a \in Areas : period[e.from] * Freq[a] = SlotsPerStep
  /\ \A s \in DOMAIN general : Areas # {}
  /\ \A s \in Stations : tag[s].seq >= -1 /\ tag[s].ts <= m_simStep
  /\ \A e \in events : tag[e.from].ts = m_simStep =>
       e.slot >= StepStart + (tag[e.from].seq + 1) * period[e.from]
  /\ \A e \in events : e.slot < StepEnd + period[e.from]

\* The numbers of the CAMs and of the rows of a step.
CountNumbers ==
  /\ \A c \in sent : c.ts = m_simStep => \A a \in Areas : c.seq \in 0 .. Freq[a] - 1
  /\ \A r \in rows : \A a \in Areas : r.seq \in 0 .. Freq[a] - 1
  /\ phase \in {"ns3", "data"} =>
       \A s \in DOMAIN general \cap nodes : \A a \in Areas : \A q \in 0 .. Freq[a] - 1 :
         [from |-> s, ts |-> m_simStep, seq |-> q] \in rows

\* A station that was started before this step and the one before has sent all the
\* CAMs of the periods that are over.
Regular(e) ==
  /\ e.slot >= StepStart
  /\ tag[e.from].ts < m_simStep => e.slot < StepStart + period[e.from]
  /\ tag[e.from].ts = m_simStep =>
       /\ e.slot < StepStart + (tag[e.from].seq + 2) * period[e.from]
       /\ \A q \in 0 .. tag[e.from].seq : HasSent(e.from, q)

CountRegular ==
  phase \in {"ns3", "data"} =>
    \A e \in events : started[e.from] <= m_simStep - 2 => Regular(e)

CountInv == CountSlots /\ CountNumbers /\ CountRegular

CountContext == TypeInv /\ ChainInv /\ NumbersInv

LEMMA SendCount ==
  ASSUME CountContext, CountInv, NEW e \in events, SendPacket(e)
  PROVE  CountInv'
<1> DEFINE s == e.from
           x == e.slot
           p == period[s]
           t == tag[s]
           ts == x \div SlotsPerStep
           new == AddInciPacketTags(s, ts)
           c == Cam(e)
           next == [from |-> s, slot |-> x + p, inSendEvent |-> TRUE]
<1>1. /\ s \in Stations /\ x \in Nat /\ p \in Nat /\ t.ts \in Nat /\ t.seq \in Int
      /\ m_simStep \in Nat
  BY DEF CountContext, TypeInv, TypeOK
<1>2. /\ SlotsPerStep \in Nat /\ StepStart \in Nat /\ StepEnd \in Nat
      /\ StepEnd = StepStart + SlotsPerStep
  BY <1>1, StepBounds
<1>3. x < StepEnd /\ phase = "ns3"
  BY DEF SendPacket
<1>4. ts \in Nat /\ ts <= m_simStep /\ (x >= StepStart => ts = m_simStep)
      /\ (ts = m_simStep => x >= StepStart)
  <2>1. ts \in Nat /\ ts <= m_simStep
    BY <1>1, <1>2, <1>3, SlotStep, DivBounds DEF StepEnd, StepStart
  <2>2. x >= StepStart => ts >= m_simStep
    BY <1>1, <1>2, DivBounds DEF StepStart
  <2>3. ASSUME ts = m_simStep PROVE x >= StepStart
    <3> DEFINE k == m_simStep - 1
    <3>1. k \in Int /\ (k + 1) * SlotsPerStep = k * SlotsPerStep + SlotsPerStep /\ k + 1 = m_simStep
      BY <1>1, <1>2, NextMultiple
    <3>2. x < k * SlotsPerStep + SlotsPerStep => ts <= k
      BY <1>1, <3>1, DivBounds
    <3>3. StepStart = k * SlotsPerStep + SlotsPerStep
      BY <3>1 DEF StepStart
    <3> HIDE DEF ts
    <3> QED BY <1>1, <1>2, <2>1, <2>3, <3>1, <3>2, <3>3
  <2> QED BY <1>1, <2>1, <2>2, <2>3
<1>5. ts >= t.ts
  BY DEF CountContext, NumbersInv
<1>6. s \in running /\ \A f \in events : f.from = s => f = e
  BY DEF CountContext, ChainInv
<1>7. /\ events' = (events \ {e}) \cup {next} /\ tag' = [tag EXCEPT ![s] = new]
      /\ sent' = sent \cup {c}
      /\ UNCHANGED <<m_simStep, phase, nodes, general, rows, period, started>>
  BY <1>6 DEF SendPacket, Broadcast, ScheduleTx, world, tables
<1>8. next.from = s /\ next.slot = x + p
  OBVIOUS
<1>9. Row(c) = [from |-> s, ts |-> ts, seq |-> new.seq] /\ c.ts = ts /\ c.seq = new.seq
  BY DEF Row, Cam
<1>10. /\ new.ts = ts
       /\ (ts > t.ts /\ new.seq = 0) \/ (ts = t.ts /\ new.seq = t.seq + 1)
  BY <1>1, <1>4, <1>5 DEF AddInciPacketTags
<1>11. tag'[s] = new /\ \A r \in Stations : r # s => tag'[r] = tag[r]
  BY <1>1, <1>7 DEF CountContext, TypeInv, TypeOK
<1>12. StepStart' = StepStart /\ StepEnd' = StepEnd
  BY <1>7 DEF StepStart, StepEnd
<1>13. \A f \in events' : f = next \/ (f \in events /\ f.from # s /\ f.from \in Stations)
  BY <1>6, <1>7 DEF CountContext, TypeInv, TypeOK
<1>14. t.seq >= -1 /\ new.seq \in Nat
  BY <1>1, <1>10 DEF CountInv, CountSlots
<1>15. t.ts = m_simStep => x >= StepStart + (t.seq + 1) * p
  BY DEF CountInv, CountSlots
<1> HIDE DEF s, x, p, t, ts, new, c, next
<1>16. ts = m_simStep => x >= StepStart + new.seq * p
  <2>1. 0 * p = 0
    BY <1>1
  <2> QED BY <1>1, <1>2, <1>4, <1>10, <1>15, <2>1
<1>17. CountSlots'
  <2>1. ASSUME NEW f \in events' PROVE \A a \in Areas : period'[f.from] * Freq[a] = SlotsPerStep
    BY <1>7, <1>8, <1>13 DEF CountInv, CountSlots, s
  <2>2. \A r \in Stations : tag'[r].seq >= -1 /\ tag'[r].ts <= m_simStep'
    BY <1>4, <1>7, <1>10, <1>11, <1>14 DEF CountInv, CountSlots
  <2>3. ASSUME NEW f \in events', tag'[f.from].ts = m_simStep'
        PROVE  f.slot >= StepStart + (tag'[f.from].seq + 1) * period[f.from]
    <3>1. CASE f = next
      <4>1. ts = m_simStep
        BY <1>7, <1>8, <1>10, <1>11, <2>3, <3>1
      <4>2. (new.seq + 1) * p = new.seq * p + p /\ new.seq * p \in Int
        BY <1>1, <1>14, NextMultiple
      <4>3. x + p >= StepStart + (new.seq + 1) * p
        BY <1>1, <1>2, <1>16, <4>1, <4>2
      <4> QED BY <1>8, <1>11, <3>1, <4>3 DEF p
    <3>2. CASE f \in events /\ f.from # s /\ f.from \in Stations
      BY <1>7, <1>11, <2>3, <3>2 DEF CountInv, CountSlots
    <3> QED BY <1>13, <3>1, <3>2
  <2>4. ASSUME NEW f \in events' PROVE f.slot < StepEnd + period[f.from]
    <3>1. CASE f = next
      BY <1>1, <1>2, <1>3, <1>8, <3>1 DEF p, x
    <3>2. CASE f \in events
      BY <3>2 DEF CountInv, CountSlots
    <3> QED BY <1>13, <3>1, <3>2
  <2> QED BY <1>7, <1>12, <2>1, <2>2, <2>3, <2>4 DEF CountInv, CountSlots
<1>18. CountNumbers'
  <2>1. ASSUME ts = m_simStep, NEW a \in Areas PROVE new.seq \in 0 .. Freq[a] - 1
    <3> DEFINE F == Freq[a]
    <3>1. F \in Nat /\ p * F = SlotsPerStep
      BY CamTrackingAssumption DEF CountInv, CountSlots, p, s
    <3>2. new.seq * p \in Int
      BY <1>1, <1>14, NextMultiple
    <3> HIDE DEF F
    <3>3. new.seq * p < p * F
      BY <1>1, <1>2, <1>3, <1>16, <2>1, <3>1, <3>2 DEF x
    <3>4. new.seq < F
      BY <1>1, <1>14, <3>1, <3>3, FewerMultiples
    <3> QED BY <1>14, <3>1, <3>4 DEF F
  <2>2. ASSUME NEW d \in sent', d.ts = m_simStep' PROVE \A a \in Areas : d.seq \in 0 .. Freq[a] - 1
    <3>1. CASE d = c
      BY <1>7, <1>9, <2>1, <2>2, <3>1
    <3>2. CASE d \in sent
      BY <1>7, <2>2, <3>2 DEF CountInv, CountNumbers
    <3> QED BY <1>7, <3>1, <3>2
  <2> QED BY <1>7, <2>2 DEF CountInv, CountNumbers
<1>19. CountRegular'
  <2> SUFFICES ASSUME NEW f \in events', started[f.from] <= m_simStep - 2 PROVE Regular(f)'
    BY <1>7 DEF CountRegular
  <2>1. \A r, q : HasSent(r, q) => HasSent(r, q)'
    BY <1>7 DEF HasSent
  <2>2. CASE f \in events /\ f.from # s /\ f.from \in Stations
    <3>1. Regular(f)
      BY <1>3, <2>2 DEF CountInv, CountRegular
    <3> QED BY <1>7, <1>11, <1>12, <2>1, <2>2, <3>1 DEF Regular
  <2>3. CASE f = next
    <3>1. Regular(e)
      BY <1>3, <1>8, <2>3 DEF CountInv, CountRegular, s
    <3>2. ts = m_simStep
      BY <1>4, <3>1 DEF Regular, x
    <3>3. x + p < StepStart + (new.seq + 2) * p
      <4>1. /\ (new.seq + 2) * p = (new.seq + 1) * p + p
            /\ (new.seq + 1) * p = new.seq * p + p /\ new.seq * p \in Int
        <5>1. (new.seq + 1) + 1 = new.seq + 2 /\ new.seq + 1 \in Int /\ new.seq \in Int
          BY <1>14
        <5> QED BY <1>1, <5>1, NextMultiple
      <4>2. CASE ts > t.ts /\ new.seq = 0
        <5>1. x < StepStart + p /\ 0 * p = 0
          BY <1>1, <3>1, <3>2, <4>2 DEF Regular, x, p, t, s
        <5> QED BY <1>1, <1>2, <4>1, <4>2, <5>1
      <4>3. CASE ts = t.ts /\ new.seq = t.seq + 1
        <5>1. x < StepStart + (t.seq + 2) * p
          BY <3>1, <3>2, <4>3 DEF Regular, x, p, t, s
        <5>2. t.seq + 2 = new.seq + 1
          BY <1>1, <4>3
        <5> QED BY <1>1, <1>2, <4>1, <5>1, <5>2
      <4> QED BY <1>10, <4>2, <4>3
    <3> DEFINE Done(q) == \E d \in sent' : Row(d) = [from |-> s, ts |-> m_simStep, seq |-> q]
    <3>4. Done(new.seq)
      BY <1>7, <1>9, <3>2
    <3>5. ASSUME NEW q \in 0 .. new.seq PROVE Done(q)
      <4>1. CASE q = new.seq
        BY <3>4, <4>1
      <4>2. CASE q # new.seq
        <5>1. ts = t.ts /\ q \in 0 .. t.seq
          BY <1>1, <1>10, <1>14, <4>2
        <5>2. HasSent(s, q)
          BY <3>1, <3>2, <5>1 DEF Regular, t, s
        <5> QED BY <1>7, <5>2 DEF HasSent
      <4> QED BY <4>1, <4>2
    <3>6. x + p >= StepStart
      BY <1>1, <1>2, <1>4, <3>2
    <3>7. tag'[f.from].ts = m_simStep /\ tag'[f.from].seq = new.seq /\ f.from = s /\ f.slot = x + p
      BY <1>8, <1>10, <1>11, <2>3, <3>2
    <3>8. \A q \in 0 .. tag'[f.from].seq : HasSent(f.from, q)'
      BY <1>7, <3>5, <3>7 DEF HasSent
    <3>9. /\ f.slot >= StepStart'
          /\ f.slot < StepStart' + (tag'[f.from].seq + 2) * period'[f.from]
          /\ ~(tag'[f.from].ts < m_simStep')
      BY <1>1, <1>7, <1>12, <3>3, <3>6, <3>7 DEF p
    <3> QED BY <3>8, <3>9 DEF Regular
  <2> QED BY <1>13, <2>2, <2>3
<1> QED BY <1>17, <1>18, <1>19 DEF CountInv

\* With one frequency it is that of every command to start and of every row.
LEMMA OneMaximum ==
  ASSUME OneFrequency, CountContext, ScheduleV2xMessages,
         NEW s \in DOMAIN UpdatedGeneral, NEW a \in Areas
  PROVE  MaxGeneralFrequency(UpdatedGeneral) = Freq[a] /\ Freq[a] \in Nat
<1> DEFINE g == UpdatedGeneral
           X == {g[r] : r \in DOMAIN g}
           F == Freq[a]
<1>1. NumbersInv'
  BY ScheduleNumbers DEF CountContext, TypeInv, TypeOK, AreasSubscribed
<1>2. general' = g
  BY DEF ScheduleV2xMessages
<1>3. \A r \in DOMAIN g : g[r] = F
  BY <1>1, <1>2 DEF NumbersInv
<1>4. F \in Nat
  BY CamTrackingAssumption
<1> HIDE DEF g, F
<1>5. F \in X /\ \A x \in X : x = F
  BY <1>3 DEF g
<1> HIDE DEF X
<1>6. Max(X \cup {0}) = F
  BY <1>4, <1>5, MaxWithZero
<1> QED BY <1>4, <1>6 DEF MaxGeneralFrequency, X, g, F

LEMMA ScheduleCount ==
  ASSUME OneFrequency, CountContext, CountInv, ScheduleV2xMessages
  PROVE  CountInv'
<1>1. PICK now \in Now : \E first \in [IdNodesToStart -> now .. now + FirstDelay] :
        /\ tag' = [s \in Stations |->
             IF s \in IdNodesToStart THEN InitializeINCIvariables(now) ELSE tag[s]]
        /\ \A f \in events' :
             \/ f \in events /\ f.from \notin IdNodesToStart
             \/ f.from \in IdNodesToStart /\ f.slot = first[f.from]
  BY EventsAfterSchedule DEF CountContext
<1>2. PICK first \in [IdNodesToStart -> now .. now + FirstDelay] :
        /\ tag' = [s \in Stations |->
             IF s \in IdNodesToStart THEN InitializeINCIvariables(now) ELSE tag[s]]
        /\ \A f \in events' :
             \/ f \in events /\ f.from \notin IdNodesToStart
             \/ f.from \in IdNodesToStart /\ f.slot = first[f.from]
  BY <1>1
<1>3. /\ phase = "schedule" /\ phase' = "ns3" /\ m_simStep' = m_simStep + 1
      /\ general' = UpdatedGeneral
      /\ rows' = RefreshScheduledCamMessageTable(rows \cup NewRows(UpdatedGeneral))
      /\ period' = [s \in Stations |->
                  IF s \in IdNodesToStart THEN SlotsBetweenCams(UpdatedGeneral) ELSE period[s]]
      /\ started' = [s \in Stations |-> IF s \in IdNodesToStart THEN m_simStep ELSE started[s]]
      /\ sent' = {c \in sent : c.ts >= m_simStep}
      /\ nodes' = nodes
  BY DEF ScheduleV2xMessages, world
<1>4. /\ m_simStep \in Nat /\ SlotsPerStep \in Nat /\ SlotsPerStep > 0
      /\ StepStart \in Nat /\ StepEnd \in Nat /\ StepEnd = StepStart + SlotsPerStep
  BY StepBounds DEF CountContext, TypeInv, TypeOK
<1>5. StepEnd' = StepEnd + SlotsPerStep /\ StepStart' = StepEnd
  <2>1. StepEnd' = StepEnd + SlotsPerStep
    BY <1>3, <1>4, NextStepEnd
  <2>2. (m_simStep + 1) * SlotsPerStep = m_simStep * SlotsPerStep + SlotsPerStep
    BY <1>4, NextMultiple
  <2> QED BY <1>3, <2>1, <2>2 DEF StepStart, StepEnd
<1>6. now \in Nat /\ now < StepEnd /\ now \div SlotsPerStep = m_simStep
  <2>1. now \in Nat /\ now < StepEnd /\ now >= StepStart
    BY <1>4 DEF Now
  <2> QED BY <1>4, <2>1, DivBounds DEF StepStart, StepEnd
<1>7. \A s \in Stations : tag'[s] = IF s \in IdNodesToStart
                            THEN [ts |-> m_simStep, seq |-> -1] ELSE tag[s]
  BY <1>2, <1>6 DEF InitializeINCIvariables
<1>8. TypeInv'
  BY ScheduleTypes DEF CountContext
<1>9. ASSUME NEW f \in events'
      PROVE  /\ f.from \in Stations /\ f.slot \in Nat /\ period'[f.from] \in Nat
             /\ \/ f \in events /\ f.from \notin IdNodesToStart
                \/ f.from \in IdNodesToStart /\ f.slot = first[f.from]
  <2>1. f.from \in Stations /\ f.slot \in Nat /\ period'[f.from] \in Nat
    BY <1>8 DEF TypeInv, TypeOK
  <2> QED BY <1>2, <2>1
<1>10. \A s \in DOMAIN general' : Areas # {}
  <2>1. \A s \in IdNodesToStart : Areas # {}
    BY DEF IdNodesToStart, IsNodeInAnyArea, AreasOf, CountContext, TypeInv, TypeOK
  <2> QED BY <1>3, <2>1 DEF UpdatedGeneral, CountInv, CountSlots
<1>11. \A s \in Stations : tag'[s].seq >= -1 /\ tag'[s].ts <= m_simStep
  BY <1>4, <1>7 DEF CountInv, CountSlots
<1>12. \A s \in Stations : tag'[s].ts # m_simStep' /\ tag'[s].ts \in Nat
  <2>1. \A s \in Stations : tag'[s].ts \in Nat
    BY <1>8 DEF TypeInv, TypeOK
  <2> QED BY <1>3, <1>4, <1>11, <2>1
<1>13. ASSUME NEW f \in events' PROVE \A a \in Areas : period'[f.from] * Freq[a] = SlotsPerStep
  <2> TAKE a \in Areas
  <2>1. CASE f.from \in IdNodesToStart
    <3>1. f.from \in DOMAIN UpdatedGeneral
      BY <2>1 DEF UpdatedGeneral
    <3>2. period'[f.from] = SlotsPerStep \div Freq[a]
      BY <1>3, <1>9, <2>1, <3>1, OneMaximum DEF SlotsBetweenCams
    <3>3. Freq[a] \in 1 .. SlotsPerStep /\ SlotsPerStep % Freq[a] = 0
      BY CamTrackingAssumption
    <3>4. (SlotsPerStep \div Freq[a]) * Freq[a] = SlotsPerStep
      BY <1>4, <3>3, Z3
    <3> QED BY <3>2, <3>4
  <2>2. CASE f \in events /\ f.from \notin IdNodesToStart
    BY <1>3, <1>9, <2>2 DEF CountInv, CountSlots
  <2> QED BY <1>9, <2>1, <2>2
<1>14. ASSUME NEW f \in events' PROVE f.slot < StepEnd' + period'[f.from]
  <2>1. f.slot \in Nat /\ period'[f.from] \in Nat
    BY <1>9
  <2>2. CASE f.from \in IdNodesToStart /\ f.slot = first[f.from]
    <3>1. f.slot <= now + SlotsPerStep
      BY <1>4, <1>6, <2>2 DEF FirstDelay
    <3> QED BY <1>4, <1>5, <1>6, <2>1, <3>1
  <2>3. CASE f \in events /\ f.from \notin IdNodesToStart
    <3>1. period'[f.from] = period[f.from]
      BY <1>3, <1>9, <2>3
    <3>2. f.slot < StepEnd + period[f.from]
      BY <2>3 DEF CountInv, CountSlots
    <3> QED BY <1>4, <1>5, <2>1, <3>1, <3>2
  <2> QED BY <1>9, <2>2, <2>3
<1>15. CountSlots'
  <2>1. \A f \in events' : tag'[f.from].ts # m_simStep'
    BY <1>9, <1>12
  <2>2. \A s \in Stations : tag'[s].seq >= -1 /\ tag'[s].ts <= m_simStep'
    BY <1>3, <1>4, <1>11, <1>12
  <2> QED BY <1>10, <1>13, <1>14, <2>1, <2>2 DEF CountSlots
<1>16. CountNumbers'
  <2>1. ASSUME NEW c \in sent' PROVE c.ts # m_simStep'
    <3>1. c.ts \in Int /\ c.ts <= m_simStep
      BY <1>3 DEF CountContext, NumbersInv, TagTypes
    <3> QED BY <1>3, <1>4, <3>1
  <2>2. ASSUME NEW r \in rows', NEW a \in Areas PROVE r.seq \in 0 .. Freq[a] - 1
    <3>1. CASE r \in rows
      BY <3>1 DEF CountInv, CountNumbers
    <3>2. CASE r \in NewRows(UpdatedGeneral)
      <4>1. /\ r.from \in DOMAIN UpdatedGeneral
            /\ r.seq \in 0 .. MaxGeneralFrequency(UpdatedGeneral) - 1
        BY <3>2 DEF NewRows
      <4> QED BY <4>1, OneMaximum
    <3> QED BY <1>3, <3>1, <3>2 DEF RefreshScheduledCamMessageTable
  <2>3. ASSUME NEW s \in DOMAIN general' \cap nodes', NEW a \in Areas, NEW q \in 0 .. Freq[a] - 1
        PROVE  [from |-> s, ts |-> m_simStep', seq |-> q] \in rows'
    <3> DEFINE r == [from |-> s, ts |-> m_simStep + 1, seq |-> q]
    <3>1. s \in DOMAIN UpdatedGeneral /\ s \in nodes
      BY <1>3
    <3>2. MaxGeneralFrequency(UpdatedGeneral) = Freq[a]
      BY <3>1, OneMaximum
    <3>3. r \in NewRows(UpdatedGeneral)
      BY <3>1, <3>2 DEF NewRows
    <3>4. r.ts = m_simStep + 1 /\ Window \in Nat
      BY CamTrackingAssumption
    <3>5. m_simStep < r.ts + Window
      BY <1>4, <3>4
    <3>6. r \in rows'
      BY <1>3, <3>3, <3>5 DEF RefreshScheduledCamMessageTable
    <3> QED BY <1>3, <3>6
  <2> QED BY <2>1, <2>2, <2>3 DEF CountNumbers
<1>17. CountRegular'
  <2> SUFFICES ASSUME NEW f \in events', started'[f.from] <= m_simStep' - 2 PROVE Regular(f)'
    BY DEF CountRegular
  <2>1. f.from \in Stations /\ f.slot \in Nat /\ period'[f.from] \in Nat
    BY <1>9
  <2>2. f.from \notin IdNodesToStart
    BY <1>3, <1>4, <2>1
  <2>3. f \in events
    BY <1>9, <2>2
  <2>4. f.slot >= StepEnd
    BY <1>3, <2>3 DEF CountContext, ChainInv
  <2>5. f.slot < StepEnd + period[f.from] /\ period'[f.from] = period[f.from]
    BY <1>3, <2>1, <2>2, <2>3 DEF CountInv, CountSlots
  <2>6. tag'[f.from].ts # m_simStep'
    BY <1>12, <2>1
  <2>7. /\ f.slot >= StepStart'
        /\ f.slot < StepStart' + period'[f.from]
    BY <1>5, <2>4, <2>5
  <2> QED BY <2>6, <2>7 DEF Regular
<1> QED BY <1>15, <1>16, <1>17 DEF CountInv

LEMMA StepCount ==
  ASSUME OneFrequency
  PROVE  CountContext /\ CountInv /\ [Next]_vars => CountInv'
<1> SUFFICES ASSUME CountContext, CountInv, [Next]_vars PROVE CountInv'
  OBVIOUS
<1>1. ASSUME UNCHANGED <<m_simStep, nodes, general, events, tag, period, sent, started>>,
             rows' \subseteq rows, phase' \in {"ns3", "data"} => phase \in {"ns3", "data"} /\ rows' = rows
      PROVE  CountInv'
  <2>1. StepStart' = StepStart /\ StepEnd' = StepEnd
    BY <1>1 DEF StepStart, StepEnd
  <2>2. \A s, q : HasSent(s, q)' = HasSent(s, q)
    BY <1>1 DEF HasSent
  <2>3. \A e \in events : Regular(e) => Regular(e)'
    BY <1>1, <2>1, <2>2 DEF Regular
  <2>4. CountSlots'
    BY <1>1, <2>1 DEF CountInv, CountSlots
  <2>5. CountNumbers'
    BY <1>1 DEF CountInv, CountNumbers
  <2>6. CountRegular'
    BY <1>1, <2>3 DEF CountInv, CountRegular
  <2> QED BY <2>4, <2>5, <2>6 DEF CountInv
<1>2. CASE DeliverLate
  BY <1>1, <1>2 DEF DeliverLate, world, tables, sender
<1>3. ASSUME NEW e \in events, SendPacket(e) PROVE CountInv'
  BY <1>3, SendCount
<1>4. CASE RunSimStepReturns
  BY <1>1, <1>4 DEF RunSimStepReturns, world, tables, sender, radio
<1>5. CASE GetDataFromNs3
  BY <1>1, <1>5 DEF GetDataFromNs3, RowsLeft, world, sender
<1>6. ASSUME NEW left, NEW last, RunOneSumoTimeStep(left, last) PROVE CountInv'
  <2>1. /\ phase' = "apps"
        /\ UNCHANGED <<m_simStep, general, rows, events, tag, period, sent, started>>
    BY <1>6 DEF RunOneSumoTimeStep, sender, radio
  <2>2. StepStart' = StepStart /\ StepEnd' = StepEnd
    BY <2>1 DEF StepStart, StepEnd
  <2> QED BY <2>1, <2>2 DEF CountInv, CountSlots, CountNumbers, CountRegular
<1>7. ASSUME NEW subscribed, NEW dropped, RunApplicationLogic(subscribed, dropped)
      PROVE  CountInv'
  BY <1>1, <1>7 DEF RunApplicationLogic, world, tables, sender, radio
<1>8. CASE ScheduleV2xMessages
  BY <1>8, ScheduleCount
<1>9. CASE UNCHANGED vars
  BY <1>1, <1>9 DEF vars, world, tables, sender, radio
<1> QED BY <1>2, <1>3, <1>4, <1>5, <1>6, <1>7, <1>8, <1>9 DEF Next

LEMMA CountedRows == CountContext /\ CountInv => OneRowPerCam
<1> SUFFICES ASSUME CountContext, CountInv, phase = "data", NEW s \in nodes, s \in DOMAIN general
             PROVE  /\ CamsOf(s) \subseteq RowsOf(s)
                    /\ started[s] <= m_simStep - 2 => RowsOf(s) \subseteq CamsOf(s)
  <2>1. ASSUME NEW r \in nodes, SendingSince(r, m_simStep - 2)
        PROVE  r \in DOMAIN general /\ started[r] <= m_simStep - 2
    BY <2>1 DEF SendingSince, IsNodeInGeneral
  <2>2. ASSUME NEW r \in nodes, SendingSince(r, m_simStep - 1) PROVE r \in DOMAIN general
    BY <2>2 DEF SendingSince, IsNodeInGeneral
  <2> QED BY <2>1, <2>2 DEF OneRowPerCam, CamHasRow
<1>1. PICK a \in Areas : TRUE
  BY DEF CountInv, CountSlots
<1> DEFINE F == Freq[a]
           p == period[s]
           t == tag[s]
<1>2. F \in Nat /\ F > 0
  BY CamTrackingAssumption
<1>3. /\ s \in Stations /\ p \in Nat /\ t.ts \in Nat /\ t.seq \in Int
      /\ m_simStep \in Nat
  BY DEF CountContext, TypeInv, TypeOK
<1>4. SlotsPerStep \in Nat /\ StepStart \in Nat /\ StepEnd = StepStart + SlotsPerStep
  BY <1>3, StepBounds
<1>5. CamsOf(s) \subseteq RowsOf(s)
  <2> SUFFICES ASSUME NEW c \in sent, c.from = s, c.ts = m_simStep PROVE Row(c) \in RowsOf(s)
    BY DEF CamsOf
  <2>1. c.seq \in 0 .. F - 1
    BY DEF CountInv, CountNumbers
  <2>2. [from |-> s, ts |-> m_simStep, seq |-> c.seq] \in rows
    BY <2>1 DEF CountInv, CountNumbers
  <2> QED BY <2>2 DEF RowsOf, Row
<1>6. ASSUME started[s] <= m_simStep - 2 PROVE RowsOf(s) \subseteq CamsOf(s)
  <2>1. PICK e \in events : e.from = s
    BY DEF CountContext, ChainInv
  <2>2. Regular(e) /\ p * F = SlotsPerStep
    BY <1>6, <2>1 DEF CountInv, CountRegular, CountSlots
  <2>3. e.slot >= StepEnd /\ e.slot \in Nat
    BY DEF CountContext, ChainInv, TypeInv, TypeOK
  <2> HIDE DEF F, p, t
  <2>4. p <= SlotsPerStep
    <3>1. p * F = SlotsPerStep /\ (F - 1) * p \in Nat /\ (F - 1 + 1) * p = (F - 1) * p + p
      BY <1>2, <1>3, <2>2, NextMultiple
    <3>2. F - 1 + 1 = F /\ F * p = p * F
      BY <1>2, <1>3
    <3> QED BY <1>3, <3>1, <3>2
  <2>5. t.ts = m_simStep
    <3>1. ~(t.ts < m_simStep)
      BY <1>3, <1>4, <2>1, <2>2, <2>3, <2>4 DEF Regular, p, t
    <3>2. t.ts <= m_simStep
      BY <1>3 DEF CountInv, CountSlots, t
    <3> QED BY <1>3, <3>1, <3>2
  <2>6. /\ e.slot < StepStart + (t.seq + 2) * p
        /\ \A q \in 0 .. t.seq : HasSent(s, q)
    BY <2>1, <2>2, <2>5 DEF Regular, p, t
  <2>7. F < t.seq + 2
    <3>1. (t.seq + 2) * p \in Int /\ F * p = p * F /\ t.seq + 2 \in Int
      BY <1>2, <1>3
    <3>2. F * p < p * (t.seq + 2)
      <4>1. (t.seq + 2) * p = p * (t.seq + 2)
        BY <1>3
      <4> QED BY <1>3, <1>4, <2>2, <2>3, <2>6, <3>1, <4>1
    <3> QED BY <1>2, <1>3, <3>1, <3>2, FewerMultiples
  <2>8. ASSUME NEW r \in rows, r.from = s, r.ts = m_simStep PROVE r \in CamsOf(s)
    <3>1. r.seq \in 0 .. F - 1
      BY DEF CountInv, CountNumbers, F
    <3>2. r.seq \in 0 .. t.seq
      BY <1>2, <1>3, <2>7, <3>1
    <3>3. PICK c \in sent : Row(c) = [from |-> s, ts |-> m_simStep, seq |-> r.seq]
      BY <2>6, <3>2 DEF HasSent
    <3>4. r = [from |-> s, ts |-> m_simStep, seq |-> r.seq]
      BY <2>8 DEF CountContext, TypeInv, TypeOK, CamRow
    <3>5. c.from = s /\ c.ts = m_simStep
      BY <3>3 DEF Row
    <3> QED BY <3>3, <3>4, <3>5 DEF CamsOf
  <2> QED BY <2>8 DEF RowsOf
<1> QED BY <1>5, <1>6

\* With CAM areas of one frequency a station sends no CAM without a row, and from its
\* second whole step on one for every row: rows are created for a step, the maximum
\* of the frequencies many (ScheduleV2xCamAreaMessages, CreateScheduledCamMessageTable),
\* and the chain of CAMs of ns-3 puts as many into each (CAMmanage::SendPacket).
THEOREM RowsAreCams == ASSUME OneFrequency PROVE Spec => []OneRowPerCam
<1>1. Init => CountInv
  <2> SUFFICES ASSUME Init PROVE CountInv
    OBVIOUS
  <2>1. /\ events = {} /\ DOMAIN general = {} /\ sent = {} /\ rows = {} /\ m_simStep = 0
        /\ \A s \in Stations : tag[s].ts = 0 /\ tag[s].seq = 0
    BY DEF Init
  <2> QED BY <2>1 DEF CountInv, CountSlots, CountNumbers, CountRegular
<1>2. CountContext /\ CountInv /\ [Next]_vars => CountInv'
  BY StepCount
<1>3. TypeInv /\ ChainInv /\ NumbersInv => CountContext
  BY DEF CountContext
<1>4. Spec => []NumbersInv
  BY NumbersInvHolds
<1> QED BY <1>1, <1>2, <1>3, <1>4, CountedRows, TypeInvHolds, ChainInvHolds, PTL DEF Spec

=============================================================================
