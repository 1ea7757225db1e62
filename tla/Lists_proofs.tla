---------------------------- MODULE Lists_proofs ----------------------------
(***************************************************************************)
(* Facts about the lists of this project, with the induction they need.    *)
(* An induction takes the set of the numbers a fact holds of, and no       *)
(* operator: a set of numbers that holds 0 and the successor of each of    *)
(* its elements is Nat, because its complement has no least element.       *)
(***************************************************************************)
EXTENDS Lists, SequencesExt, TLAPS, FiniteSetTheorems, SequenceTheorems, WellFoundedInduction

(* A set of numbers that is not empty has a least element.                 *)
LEMMA LeastElement ==
  ASSUME NEW T \in SUBSET Nat, T # {}
  PROVE  \E x \in T : \A y \in T : x <= y
<1> DEFINE R == OpToRel(<, Nat)
<1>1. IsWellFoundedOn(R, Nat)
  BY NatLessThanWellFounded
<1>2. ASSUME NEW x \in Nat, NEW y \in Nat, y < x PROVE <<y, x>> \in R
  BY <1>2, Zenon DEF OpToRel
<1> HIDE DEF R
<1>3. PICK x \in T : \A y \in T : ~ (<<y, x>> \in R)
  BY <1>1, WFMin
<1>4. ASSUME NEW y \in T PROVE x <= y
  <2>1. ~(y < x)
    BY <1>2, <1>3, <1>4, Zenon
  <2> QED BY <2>1
<1> QED BY <1>4

(* Induction, for a set of numbers.                                        *)
LEMMA NatInductionSet ==
  ASSUME NEW S \in SUBSET Nat, 0 \in S, \A n \in S : n + 1 \in S
  PROVE  S = Nat
<1>1. SUFFICES ASSUME Nat \ S # {} PROVE FALSE
  OBVIOUS
<1>2. PICK x \in Nat \ S : \A y \in Nat \ S : x <= y
  BY <1>1, LeastElement
<1>3. x # 0 /\ x - 1 \in Nat /\ x - 1 \in S
  BY <1>2
<1> QED BY <1>2, <1>3

(* The same up to a bound.                                                 *)
LEMMA IntervalInduction ==
  ASSUME NEW m \in Nat, NEW S, 0 \in S, \A n \in 0 .. m : n \in S /\ n < m => n + 1 \in S
  PROVE  0 .. m \subseteq S
<1> DEFINE U == {n \in Nat : n <= m => n \in S}
<1>1. 0 \in U
  OBVIOUS
<1>2. \A n \in U : n + 1 \in U
  OBVIOUS
<1>3. U = Nat
  <2> HIDE DEF U
  <2>1. U \in SUBSET Nat
    BY DEF U
  <2> QED BY <1>1, <1>2, <2>1, NatInductionSet
<1> QED BY <1>3

(* The recursion of KeptUpTo has a solution, so KeptUpTo is one.           *)
LEMMA KeptUpToDef ==
  ASSUME NEW S, NEW s \in Seq(S), NEW T
  PROVE  /\ KeptUpTo(s, T)[0] = <<>>
         /\ \A n \in 1 .. Len(s) :
              KeptUpTo(s, T)[n] = IF s[n] \in T THEN Append(KeptUpTo(s, T)[n - 1], s[n])
                                                ELSE KeptUpTo(s, T)[n - 1]
<1> DEFINE Solves(g, m) ==
      g = [n \in 0 .. m |-> IF n = 0 THEN <<>>
                            ELSE IF s[n] \in T THEN Append(g[n - 1], s[n]) ELSE g[n - 1]]
<1> DEFINE U == {m \in Nat : \E g : Solves(g, m)}
<1>1. 0 \in U
  <2>1. Solves([n \in {0} |-> <<>>], 0)
    OBVIOUS
  <2> QED BY <2>1
<1>2. ASSUME NEW m \in U PROVE m + 1 \in U
  <2>1. PICK g : Solves(g, m)
    OBVIOUS
  <2> DEFINE h == [n \in 0 .. m + 1 |->
                     IF n = m + 1 THEN IF s[n] \in T THEN Append(g[m], s[n]) ELSE g[m]
                     ELSE g[n]]
  <2>2. \A n \in 0 .. m : h[n] = g[n]
    OBVIOUS
  <2>3. \A n \in 0 .. m : g[n] = IF n = 0 THEN <<>>
                                 ELSE IF s[n] \in T THEN Append(g[n - 1], s[n]) ELSE g[n - 1]
    BY <2>1
  <2>4. h[m + 1] = IF s[m + 1] \in T THEN Append(h[m], s[m + 1]) ELSE h[m]
    BY <2>2
  <2>5. ASSUME NEW n \in 0 .. m + 1
        PROVE  h[n] = IF n = 0 THEN <<>>
                      ELSE IF s[n] \in T THEN Append(h[n - 1], s[n]) ELSE h[n - 1]
    <3>1. CASE n = m + 1
      BY <2>4, <3>1
    <3>2. CASE n = 0
      BY <2>2, <2>3, <3>2
    <3>3. CASE n \in 1 .. m
      BY <2>2, <2>3, <3>3
    <3> QED BY <3>1, <3>2, <3>3
  <2>6. Solves(h, m + 1)
    <3>1. h = [n \in 0 .. m + 1 |-> h[n]]
      OBVIOUS
    <3> HIDE DEF h
    <3> QED BY <2>5, <3>1
  <2>7. \E g0 : Solves(g0, m + 1)
    <3> HIDE DEF Solves, h
    <3> QED BY <2>6
  <2>8. m + 1 \in Nat
    OBVIOUS
  <2> HIDE DEF Solves
  <2> QED BY <2>7, <2>8
<1>3. U = Nat
  <2> HIDE DEF U
  <2>1. U \in SUBSET Nat
    BY DEF U
  <2> QED BY <1>1, <1>2, <2>1, NatInductionSet
<1>4. \E g : Solves(g, Len(s))
  BY <1>3
<1>5. Solves(KeptUpTo(s, T), Len(s))
  BY <1>4 DEF KeptUpTo
<1> DEFINE f == KeptUpTo(s, T)
<1> HIDE DEF f
<1>6. f = [n \in 0 .. Len(s) |->
             IF n = 0 THEN <<>>
             ELSE IF s[n] \in T THEN Append(f[n - 1], s[n]) ELSE f[n - 1]]
  BY <1>5 DEF f
<1>7. f[0] = <<>>
  BY <1>6
<1>8. ASSUME NEW n \in 1 .. Len(s)
      PROVE  f[n] = IF s[n] \in T THEN Append(f[n - 1], s[n]) ELSE f[n - 1]
  <2>1. n \in 0 .. Len(s) /\ n # 0
    OBVIOUS
  <2> QED BY <1>6, <2>1
<1> QED BY <1>7, <1>8 DEF f

(* What every prefix keeps: some of its own elements, those of T.          *)
LEMMA KeptUpToType ==
  ASSUME NEW S, NEW s \in Seq(S), NEW T
  PROVE  \A n \in 0 .. Len(s) : KeptUpTo(s, T)[n] \in Seq(S \cap T)
<1> DEFINE f == KeptUpTo(s, T)
<1> HIDE DEF f
<1>1. /\ f[0] = <<>>
      /\ \A n \in 1 .. Len(s) : f[n] = IF s[n] \in T THEN Append(f[n - 1], s[n]) ELSE f[n - 1]
  BY KeptUpToDef DEF f
<1> DEFINE U == {n \in 0 .. Len(s) : f[n] \in Seq(S \cap T)}
<1>2. 0 \in U
  <2>1. 0 \in 0 .. Len(s)
    OBVIOUS
  <2>2. <<>> \in Seq(S \cap T)
    OBVIOUS
  <2> QED BY <1>1, <2>1, <2>2
<1>3. ASSUME NEW n \in 0 .. Len(s), n \in U, n < Len(s) PROVE n + 1 \in U
  <2>1. n + 1 \in 1 .. Len(s) /\ s[n + 1] \in S /\ (n + 1) - 1 = n
    BY <1>3
  <2>2. f[n + 1] = IF s[n + 1] \in T THEN Append(f[n], s[n + 1]) ELSE f[n]
    BY <1>1, <2>1
  <2>3. f[n] \in Seq(S \cap T)
    BY <1>3
  <2>4. f[n + 1] \in Seq(S \cap T)
    <3>1. CASE s[n + 1] \in T
      <4> DEFINE C == S \cap T
      <4>1. s[n + 1] \in C
        BY <2>1, <3>1
      <4> HIDE DEF C
      <4>2. \A q \in Seq(C), e \in C : Append(q, e) \in Seq(C)
        OBVIOUS
      <4>3. f[n + 1] = Append(f[n], s[n + 1])
        BY <2>2, <3>1
      <4> QED BY <2>3, <4>1, <4>2, <4>3 DEF C
    <3>2. CASE s[n + 1] \notin T
      BY <2>2, <2>3, <3>2
    <3> QED BY <3>1, <3>2
  <2>5. n + 1 \in 0 .. Len(s)
    BY <2>1
  <2> QED BY <2>4, <2>5
<1>4. 0 .. Len(s) \subseteq U
  <2> HIDE DEF U
  <2> QED BY <1>2, <1>3, IntervalInduction
<1> QED BY <1>4 DEF f

(* Kept returns a sequence over the elements of s that are in T.           *)
LEMMA KeptType ==
  ASSUME NEW S, NEW s \in Seq(S), NEW T
  PROVE  Kept(s, T) \in Seq(S \cap T)
<1>1. Len(s) \in 0 .. Len(s)
  OBVIOUS
<1> QED BY <1>1, KeptUpToType DEF Kept

(* No element twice.                                                       *)
Distinct(s) == \A i, k \in 1 .. Len(s) : s[i] = s[k] => i = k

(* Every element a prefix keeps is one of the prefix, and every element of *)
(* the prefix that is in T is kept.                                        *)
LEMMA KeptUpToElements ==
  ASSUME NEW S, NEW s \in Seq(S), NEW T
  PROVE  \A n \in 0 .. Len(s) : \A x :
           (\E k \in 1 .. Len(KeptUpTo(s, T)[n]) : KeptUpTo(s, T)[n][k] = x)
             <=> x \in T /\ \E i \in 1 .. n : s[i] = x
<1> DEFINE f == KeptUpTo(s, T)
<1> HIDE DEF f
<1>1. /\ f[0] = <<>>
      /\ \A n \in 1 .. Len(s) : f[n] = IF s[n] \in T THEN Append(f[n - 1], s[n]) ELSE f[n - 1]
  BY KeptUpToDef DEF f
<1>2. \A n \in 0 .. Len(s) : f[n] \in Seq(S \cap T)
  BY KeptUpToType DEF f
<1> DEFINE Same(n) == \A x : (\E k \in 1 .. Len(f[n]) : f[n][k] = x)
                              <=> x \in T /\ \E i \in 1 .. n : s[i] = x
<1> DEFINE U == {n \in 0 .. Len(s) : Same(n)}
<1>3. 0 \in U
  BY <1>1
<1>4. ASSUME NEW n \in 0 .. Len(s), n \in U, n < Len(s) PROVE n + 1 \in U
  <2>1. n + 1 \in 1 .. Len(s) /\ s[n + 1] \in S /\ (n + 1) - 1 = n /\ f[n] \in Seq(S \cap T)
    BY <1>2, <1>4
  <2>2. \A x : (\E i \in 1 .. n + 1 : s[i] = x) <=> s[n + 1] = x \/ \E i \in 1 .. n : s[i] = x
    BY <1>4
  <2>3. CASE s[n + 1] \in T
    <3>1. f[n + 1] = Append(f[n], s[n + 1])
      BY <1>1, <2>1, <2>3
    <3>2. \A x : (\E k \in 1 .. Len(f[n + 1]) : f[n + 1][k] = x)
                   <=> s[n + 1] = x \/ \E k \in 1 .. Len(f[n]) : f[n][k] = x
      BY <2>1, <3>1
    <3>3. Same(n + 1)
      BY <1>4, <2>2, <2>3, <3>2
    <3> QED BY <2>1, <3>3
  <2>4. CASE s[n + 1] \notin T
    <3>1. f[n + 1] = f[n]
      BY <1>1, <2>1, <2>4
    <3>2. Same(n + 1)
      BY <1>4, <2>2, <2>4, <3>1
    <3> QED BY <2>1, <3>2
  <2> QED BY <2>3, <2>4
<1>5. 0 .. Len(s) \subseteq U
  <2> HIDE DEF U
  <2> QED BY <1>3, <1>4, IntervalInduction
<1> QED BY <1>5 DEF f

(* Kept keeps exactly the elements of s that are in T.                     *)
LEMMA KeptElements ==
  ASSUME NEW S, NEW s \in Seq(S), NEW T
  PROVE  \A x : (\E k \in 1 .. Len(Kept(s, T)) : Kept(s, T)[k] = x)
                  <=> x \in T /\ \E i \in 1 .. Len(s) : s[i] = x
BY KeptUpToElements DEF Kept

(* What is distinct stays distinct.                                        *)
LEMMA KeptDistinct ==
  ASSUME NEW S, NEW s \in Seq(S), NEW T, Distinct(s)
  PROVE  Distinct(Kept(s, T))
<1> DEFINE f == KeptUpTo(s, T)
<1> HIDE DEF f
<1>1. /\ f[0] = <<>>
      /\ \A n \in 1 .. Len(s) : f[n] = IF s[n] \in T THEN Append(f[n - 1], s[n]) ELSE f[n - 1]
  BY KeptUpToDef DEF f
<1>2. \A n \in 0 .. Len(s) : f[n] \in Seq(S \cap T)
  BY KeptUpToType DEF f
<1>3. \A n \in 0 .. Len(s) : \A k \in 1 .. Len(f[n]) : \E i \in 1 .. n : s[i] = f[n][k]
  <2> SUFFICES ASSUME NEW n \in 0 .. Len(s), NEW k \in 1 .. Len(f[n])
               PROVE  \E i \in 1 .. n : s[i] = f[n][k]
    OBVIOUS
  <2> DEFINE x == f[n][k]
  <2>1. (\E l \in 1 .. Len(f[n]) : f[n][l] = x) <=> x \in T /\ \E i \in 1 .. n : s[i] = x
    BY SMTT(30), KeptUpToElements DEF f
  <2> QED BY <2>1
<1> DEFINE U == {n \in 0 .. Len(s) : Distinct(f[n])}
<1>4. 0 \in U
  BY <1>1 DEF Distinct
<1>5. ASSUME NEW n \in 0 .. Len(s), n \in U, n < Len(s) PROVE n + 1 \in U
  <2>1. n + 1 \in 1 .. Len(s) /\ (n + 1) - 1 = n /\ f[n] \in Seq(S \cap T)
    BY <1>2, <1>5
  <2>2. \A k \in 1 .. Len(f[n]) : f[n][k] # s[n + 1]
    BY <1>3, <2>1 DEF Distinct
  <2>3. CASE s[n + 1] \in T
    <3>1. f[n + 1] = Append(f[n], s[n + 1])
      BY <1>1, <2>1, <2>3
    <3>2. Distinct(f[n])
      BY <1>5
    <3>3. Len(f[n + 1]) = Len(f[n]) + 1 /\ f[n + 1][Len(f[n]) + 1] = s[n + 1]
          /\ \A k \in 1 .. Len(f[n]) : f[n + 1][k] = f[n][k]
      BY <2>1, <3>1
    <3>4. \A k \in 1 .. Len(f[n + 1]) : k = Len(f[n]) + 1 \/ k \in 1 .. Len(f[n])
      BY <2>1, <3>3
    <3>5. Distinct(f[n + 1])
      BY <2>2, <3>2, <3>3, <3>4 DEF Distinct
    <3> QED BY <2>1, <3>5
  <2>4. CASE s[n + 1] \notin T
    BY <1>1, <1>5, <2>1, <2>4
  <2> QED BY <2>3, <2>4
<1>6. 0 .. Len(s) \subseteq U
  <2> HIDE DEF U
  <2> QED BY <1>4, <1>5, IntervalInduction
<1> QED BY <1>6 DEF f, Kept

(* x is before y in s.                                                     *)
Precedes(s, x, y) == \E i, k \in 1 .. Len(s) : i < k /\ s[i] = x /\ s[k] = y

(* What is kept stays in order.                                            *)
LEMMA KeptOrder ==
  ASSUME NEW S, NEW s \in Seq(S), NEW T,
         NEW a \in 1 .. Len(Kept(s, T)), NEW b \in 1 .. Len(Kept(s, T)), a < b
  PROVE  Precedes(s, Kept(s, T)[a], Kept(s, T)[b])
<1> DEFINE f == KeptUpTo(s, T)
<1> HIDE DEF f
<1>1. /\ f[0] = <<>>
      /\ \A n \in 1 .. Len(s) : f[n] = IF s[n] \in T THEN Append(f[n - 1], s[n]) ELSE f[n - 1]
  BY KeptUpToDef DEF f
<1>2. \A n \in 0 .. Len(s) : f[n] \in Seq(S \cap T)
  BY KeptUpToType DEF f
<1>3. \A n \in 0 .. Len(s) : \A k \in 1 .. Len(f[n]) : \E i \in 1 .. n : s[i] = f[n][k]
  <2> SUFFICES ASSUME NEW n \in 0 .. Len(s), NEW k \in 1 .. Len(f[n])
               PROVE  \E i \in 1 .. n : s[i] = f[n][k]
    OBVIOUS
  <2> DEFINE x == f[n][k]
  <2>1. (\E l \in 1 .. Len(f[n]) : f[n][l] = x) <=> x \in T /\ \E i \in 1 .. n : s[i] = x
    BY SMTT(30), KeptUpToElements DEF f
  <2> QED BY <2>1
<1> DEFINE From(n, c, d) == \E i, k \in 1 .. n : i < k /\ s[i] = f[n][c] /\ s[k] = f[n][d]
           InOrder(n) == \A c, d \in 1 .. Len(f[n]) : c < d => From(n, c, d)
           U == {n \in 0 .. Len(s) : InOrder(n)}
<1>4. 0 \in U
  BY <1>1
<1>5. ASSUME NEW n \in 0 .. Len(s), n \in U, n < Len(s) PROVE n + 1 \in U
  <2>1. n + 1 \in 1 .. Len(s) /\ (n + 1) - 1 = n /\ f[n] \in Seq(S \cap T)
    BY <1>2, <1>5
  <2>0. \A c, d \in 1 .. Len(f[n]) : c < d => From(n, c, d)
    BY <1>5
  <2>4. InOrder(n + 1) => n + 1 \in U
    <3>1. n + 1 \in 0 .. Len(s)
      BY <1>5
    <3> HIDE DEF InOrder
    <3> QED BY <3>1
  <2> SUFFICES ASSUME NEW c \in 1 .. Len(f[n + 1]), NEW d \in 1 .. Len(f[n + 1]), c < d
               PROVE  From(n + 1, c, d)
    <3> HIDE DEF From, U
    <3> QED BY <2>4
  <2>2. CASE s[n + 1] \in T
    <3>1. f[n + 1] = Append(f[n], s[n + 1])
      BY <1>1, <2>1, <2>2
    <3>2. Len(f[n + 1]) = Len(f[n]) + 1 /\ f[n + 1][Len(f[n]) + 1] = s[n + 1]
          /\ \A k \in 1 .. Len(f[n]) : f[n + 1][k] = f[n][k]
      BY <2>1, <3>1
    <3>3. c \in 1 .. Len(f[n]) /\ (d = Len(f[n]) + 1 \/ d \in 1 .. Len(f[n]))
      BY <2>1, <3>2
    <3>4. CASE d = Len(f[n]) + 1
      <4>1. PICK i \in 1 .. n : s[i] = f[n][c]
        BY <1>3, <3>3
      <4>2. i \in 1 .. n + 1 /\ n + 1 \in 1 .. n + 1 /\ i < n + 1
        BY <2>1
      <4> QED BY <3>2, <3>3, <3>4, <4>1, <4>2
    <3>5. CASE d \in 1 .. Len(f[n])
      <4>1. PICK i \in 1 .. n, k \in 1 .. n : i < k /\ s[i] = f[n][c] /\ s[k] = f[n][d]
        BY <2>0, <3>3, <3>5
      <4>2. i \in 1 .. n + 1 /\ k \in 1 .. n + 1
        BY <2>1
      <4> QED BY <3>2, <3>3, <3>5, <4>1, <4>2
    <3> QED BY <3>3, <3>4, <3>5
  <2>3. CASE s[n + 1] \notin T
    <3>1. f[n + 1] = f[n]
      BY <1>1, <2>1, <2>3
    <3>4. c \in 1 .. Len(f[n]) /\ d \in 1 .. Len(f[n])
      BY <3>1
    <3>5. From(n, c, d)
      <4> HIDE DEF From
      <4> QED BY <2>0, <3>4
    <3>2. PICK i \in 1 .. n, k \in 1 .. n : i < k /\ s[i] = f[n][c] /\ s[k] = f[n][d]
      BY <3>5
    <3>3. i \in 1 .. n + 1 /\ k \in 1 .. n + 1
      BY <2>1
    <3> QED BY <3>1, <3>2, <3>3
  <2> QED BY <2>2, <2>3
<1>6. 0 .. Len(s) \subseteq U
  <2>1. \A n \in 0 .. Len(s) : n \in U /\ n < Len(s) => n + 1 \in U
    BY <1>5
  <2>2. Len(s) \in Nat
    OBVIOUS
  <2> HIDE DEF U
  <2> QED BY <1>4, <2>1, <2>2, IntervalInduction
<1>7. From(Len(s), a, b)
  BY <1>6 DEF Kept, f
<1> QED BY <1>7 DEF Kept, f, Precedes

(* Everything after the n-th element is in T; all of it is kept.           *)
EndIn(s, T, n) == \A i \in n + 1 .. Len(s) : s[i] \in T

EndKept(s, T, n) ==
  \E c \in Nat :
    /\ Len(KeptUpTo(s, T)[n]) = c
    /\ Len(Kept(s, T)) = c + (Len(s) - n)
    /\ \A i \in 1 .. Len(s) - n : Kept(s, T)[c + i] = s[n + i]

(* Where everything after the n-th element is in T, all of it is kept.     *)
LEMMA KeptUpToTail ==
  ASSUME NEW S, NEW s \in Seq(S), NEW T, NEW n \in 0 .. Len(s), EndIn(s, T, n)
  PROVE  EndKept(s, T, n)
<1>0. \A i \in n + 1 .. Len(s) : s[i] \in T
  BY DEF EndIn
<1> DEFINE f == KeptUpTo(s, T)
<1> HIDE DEF f
<1>1. \A k \in 1 .. Len(s) : f[k] = IF s[k] \in T THEN Append(f[k - 1], s[k]) ELSE f[k - 1]
  BY KeptUpToDef DEF f
<1>2. \A k \in 0 .. Len(s) : f[k] \in Seq(S \cap T)
  BY KeptUpToType DEF f
<1> DEFINE g == [d \in Nat |-> f[n + d]]
           r == [d \in Nat |-> s[n + d]]
<1>3. ASSUME NEW d \in Nat, d < Len(s) - n PROVE g[d + 1] = Append(g[d], r[d + 1])
  <2>1. n + (d + 1) \in 1 .. Len(s) /\ (n + (d + 1)) - 1 = n + d /\ n + (d + 1) \in n + 1 .. Len(s)
    BY <1>3
  <2>2. s[n + (d + 1)] \in T
    BY <1>0, <2>1
  <2>3. f[n + (d + 1)] = Append(f[n + d], s[n + (d + 1)])
    BY <1>1, <2>1, <2>2
  <2>4. g[d] = f[n + d] /\ g[d + 1] = f[n + (d + 1)] /\ r[d + 1] = s[n + (d + 1)]
    BY SMTT(30), <1>3
  <2> HIDE DEF g, r
  <2> QED BY <2>3, <2>4
<1>4. \A d \in 0 .. Len(s) - n : g[d] \in Seq(S \cap T) /\ g[d] = f[n + d] /\ r[d] = s[n + d]
  BY <1>2
<1>5. g[0] = f[n] /\ g[0] \in Seq(S \cap T) /\ Len(g[0]) \in Nat
  BY <1>2
<1>6. \A d \in 0 .. Len(s) - n : d > 0 => r[d] \in S \cap T
  <2> SUFFICES ASSUME NEW d \in 0 .. Len(s) - n, d > 0 PROVE r[d] \in S \cap T
    OBVIOUS
  <2>1. n + d \in n + 1 .. Len(s) /\ n + d \in 1 .. Len(s) /\ d \in Nat
    OBVIOUS
  <2> QED BY <1>0, <2>1
<1> HIDE DEF g, r
<1> DEFINE c == Len(f[n])
<1>7. c \in Nat /\ Len(g[0]) = c
  BY <1>2, <1>5
<1> HIDE DEF c
<1> DEFINE Ends(d) == Len(g[d]) = c + d /\ \A i \in 1 .. d : g[d][c + i] = r[i]
<1> DEFINE U == {d \in 0 .. Len(s) - n : Ends(d)}
<1>8. 0 \in U
  BY <1>5, <1>7
<1>9. ASSUME NEW d \in 0 .. Len(s) - n, d \in U, d < Len(s) - n PROVE d + 1 \in U
  <2>1. /\ d + 1 \in 0 .. Len(s) - n /\ g[d] \in Seq(S \cap T) /\ r[d + 1] \in S \cap T
        /\ g[d + 1] = Append(g[d], r[d + 1]) /\ d \in Nat
    BY <1>3, <1>4, <1>6, <1>9
  <2>2. Ends(d)
    BY <1>9
  <2>3. Len(g[d + 1]) = Len(g[d]) + 1 /\ g[d + 1][Len(g[d]) + 1] = r[d + 1]
        /\ \A k \in 1 .. Len(g[d]) : g[d + 1][k] = g[d][k]
    BY <2>1
  <2>4. Len(g[d + 1]) = c + (d + 1)
    BY <1>7, <2>1, <2>2, <2>3
  <2>5. ASSUME NEW i \in 1 .. d + 1 PROVE g[d + 1][c + i] = r[i]
    <3>1. CASE i = d + 1
      <4>1. Len(g[d]) + 1 = c + i
        BY <1>7, <2>1, <2>2, <3>1
      <4> QED BY <2>3, <3>1, <4>1
    <3>2. CASE i \in 1 .. d
      <4>1. c + i \in 1 .. Len(g[d])
        BY <1>7, <2>1, <2>2, <3>2
      <4> QED BY <2>2, <2>3, <3>2, <4>1
    <3>3. i = d + 1 \/ i \in 1 .. d
      BY <2>1
    <3> QED BY <3>1, <3>2, <3>3
  <2>6. Ends(d + 1)
    BY <2>4, <2>5
  <2> QED BY <2>1, <2>6
<1>10. 0 .. Len(s) - n \subseteq U
  <2>1. Len(s) - n \in Nat
    OBVIOUS
  <2> HIDE DEF U
  <2> QED BY <1>8, <1>9, <2>1, IntervalInduction
<1>11. ASSUME NEW d \in 0 .. Len(s) - n
       PROVE  Len(f[n + d]) = c + d /\ \A i \in 1 .. d : f[n + d][c + i] = s[n + i]
  <2>1. Ends(d) /\ d \in Nat
    BY <1>10
  <2>2. \A i \in 1 .. d : r[i] = s[n + i]
    BY <1>4, <2>1
  <2>3. g[d] = f[n + d]
    BY <1>4
  <2> HIDE DEF Ends
  <2>4. Len(g[d]) = c + d /\ \A i \in 1 .. d : g[d][c + i] = r[i]
    BY <2>1 DEF Ends
  <2> QED BY <2>2, <2>3, <2>4
<1>12. Len(s) - n \in 0 .. Len(s) - n /\ n + (Len(s) - n) = Len(s)
  OBVIOUS
<1>13. /\ Len(f[Len(s)]) = c + (Len(s) - n)
       /\ \A i \in 1 .. Len(s) - n : f[Len(s)][c + i] = s[n + i]
  BY <1>11, <1>12
<1>14. Kept(s, T) = f[Len(s)] /\ Len(KeptUpTo(s, T)[n]) = c
  BY DEF Kept, f, c
<1> QED BY <1>7, <1>13, <1>14 DEF EndKept

(* Where nothing of the first n elements is in T, none of them is kept.    *)
LEMMA KeptUpToNone ==
  ASSUME NEW S, NEW s \in Seq(S), NEW T, NEW n \in 0 .. Len(s),
         \A i \in 1 .. n : s[i] \notin T
  PROVE  KeptUpTo(s, T)[n] = <<>>
<1> DEFINE f == KeptUpTo(s, T)
<1> HIDE DEF f
<1>1. f[0] = <<>>
  BY KeptUpToDef DEF f
<1>2. \A k \in 1 .. Len(s) : f[k] = IF s[k] \in T THEN Append(f[k - 1], s[k]) ELSE f[k - 1]
  BY KeptUpToDef DEF f
<1> DEFINE U == {k \in 0 .. n : f[k] = <<>>}
<1>3. 0 \in U
  BY <1>1
<1>4. ASSUME NEW k \in 0 .. n, k \in U, k < n PROVE k + 1 \in U
  <2>1. k + 1 \in 1 .. Len(s) /\ (k + 1) - 1 = k /\ k + 1 \in 1 .. n
    BY <1>4
  <2>2. f[k + 1] = f[k]
    BY <1>2, <2>1
  <2> QED BY <1>4, <2>1, <2>2
<1>5. 0 .. n \subseteq U
  <2> HIDE DEF U
  <2> QED BY <1>3, <1>4, IntervalInduction
<1> QED BY <1>5 DEF f

(* p is the end of s.                                                      *)
IsTail(p, s) ==
  /\ Len(p) <= Len(s)
  /\ \A i \in 1 .. Len(p) : p[i] = s[Len(s) - Len(p) + i]

(* An end of the list all of which is in T is the end of what is kept.     *)
LEMMA KeptTail ==
  ASSUME NEW S, NEW s \in Seq(S), NEW T, NEW p \in Seq(S), IsTail(p, s),
         \A i \in 1 .. Len(p) : p[i] \in T
  PROVE  IsTail(p, Kept(s, T))
<1> DEFINE n == Len(s) - Len(p)
<1>1. n \in 0 .. Len(s) /\ Len(s) - n = Len(p)
  BY DEF IsTail
<1>2. EndIn(s, T, n)
  <2> SUFFICES ASSUME NEW i \in n + 1 .. Len(s) PROVE s[i] \in T
    BY DEF EndIn
  <2>1. i - n \in 1 .. Len(p) /\ n + (i - n) = i
    BY <1>1
  <2> QED BY <2>1 DEF IsTail
<1>3. PICK c \in Nat : /\ Len(Kept(s, T)) = c + (Len(s) - n)
                       /\ \A i \in 1 .. Len(s) - n : Kept(s, T)[c + i] = s[n + i]
  <2> HIDE DEF n
  <2>1. EndKept(s, T, n)
    BY <1>1, <1>2, KeptUpToTail
  <2> QED BY <2>1 DEF EndKept
<1>4. Len(Kept(s, T)) = c + Len(p) /\ \A i \in 1 .. Len(p) : Kept(s, T)[c + i] = p[i]
  BY <1>1, <1>3 DEF IsTail
<1> QED BY <1>4 DEF IsTail

(* If the rest of the list is not in T, that end is all that is kept.      *)
LEMMA KeptIsTail ==
  ASSUME NEW S, NEW s \in Seq(S), NEW T, NEW p \in Seq(S), IsTail(p, s),
         \A i \in 1 .. Len(p) : p[i] \in T,
         \A i \in 1 .. Len(s) - Len(p) : s[i] \notin T
  PROVE  Kept(s, T) = p
<1> DEFINE n == Len(s) - Len(p)
<1>1. n \in 0 .. Len(s) /\ Len(s) - n = Len(p)
  BY DEF IsTail
<1>2. EndIn(s, T, n)
  <2> SUFFICES ASSUME NEW i \in n + 1 .. Len(s) PROVE s[i] \in T
    BY DEF EndIn
  <2>1. i - n \in 1 .. Len(p) /\ n + (i - n) = i
    BY <1>1
  <2> QED BY <2>1 DEF IsTail
<1>3. KeptUpTo(s, T)[n] = <<>>
  BY <1>1, KeptUpToNone
<1>4. PICK c \in Nat : /\ Len(KeptUpTo(s, T)[n]) = c
                       /\ Len(Kept(s, T)) = c + (Len(s) - n)
                       /\ \A i \in 1 .. Len(s) - n : Kept(s, T)[c + i] = s[n + i]
  <2> HIDE DEF n
  <2>1. EndKept(s, T, n)
    BY <1>1, <1>2, KeptUpToTail
  <2> QED BY <2>1 DEF EndKept
<1>5. c = 0
  BY <1>3, <1>4
<1> DEFINE r == Kept(s, T)
<1> HIDE DEF r
<1>6. Len(r) = Len(p) /\ \A i \in 1 .. Len(p) : r[i] = p[i]
  BY <1>1, <1>4, <1>5 DEF r, IsTail
<1>7. r \in Seq(S \cap T)
  BY KeptType DEF r
<1>8. r = p
  BY <1>6, <1>7
<1> QED BY <1>8 DEF r

-----------------------------------------------------------------------------
(* The elements of a duplicate-free prefix of length n are n in number.    *)
LEMMA PrefixCardinality ==
  ASSUME NEW S, NEW s \in Seq(S), NEW n \in Nat, n <= Len(s),
         \A i, k \in 1 .. n : s[i] = s[k] => i = k
  PROVE  /\ IsFiniteSet({s[i] : i \in 1 .. n})
         /\ Cardinality({s[i] : i \in 1 .. n}) = n
<1> DEFINE T == {s[i] : i \in 1 .. n}
           f == [i \in 1 .. n |-> s[i]]
<1>1. f \in Bijection(1 .. n, T)
  BY DEF Bijection, Injection, Surjection, IsInjective
<1>2. ExistsBijection(1 .. n, T)
  BY <1>1 DEF ExistsBijection
<1>3. Cardinality(T) = n
  BY <1>2, FS_CountingElements
<1>4. IsFiniteSet(T)
  BY <1>2, FS_NatBijection
<1> QED BY <1>3, <1>4

Elements(s) == {s[i] : i \in 1 .. Len(s)}

(* A list without duplicates has as many elements as places.               *)
LEMMA DistinctCount ==
  ASSUME NEW S, NEW s \in Seq(S), Distinct(s)
  PROVE  IsFiniteSet(Elements(s)) /\ Cardinality(Elements(s)) = Len(s) /\ Len(s) \in Nat
<1> DEFINE T == Elements(s)
           n == Len(s)
           f == [i \in 1 .. n |-> s[i]]
<1>0. n \in Nat
  OBVIOUS
<1>1. f \in Bijection(1 .. n, T)
  BY DEF Bijection, Injection, Surjection, IsInjective, Distinct, Elements
<1>2. ExistsBijection(1 .. n, T)
  BY <1>1 DEF ExistsBijection
<1> HIDE DEF n, T
<1>3. Cardinality(T) = n
  BY <1>0, <1>2, FS_CountingElements
<1>4. IsFiniteSet(T)
  BY <1>0, <1>2, FS_NatBijection
<1> QED BY <1>0, <1>3, <1>4 DEF n, T

(* VecDeque::remove(pos): the items behind move up by one.                 *)
LEMMA RemoveAtPositions ==
  ASSUME NEW S, NEW s \in Seq(S), NEW p \in 1 .. Len(s)
  PROVE  /\ RemoveAt(s, p) \in Seq(S)
         /\ Len(RemoveAt(s, p)) = Len(s) - 1
         /\ \A i \in 1 .. Len(s) - 1 :
              RemoveAt(s, p)[i] = IF i < p THEN s[i] ELSE s[i + 1]
<1> DEFINE a == SubSeq(s, 1, p - 1)
           b == SubSeq(s, p + 1, Len(s))
<1>1. /\ a \in Seq(S) /\ Len(a) = p - 1
      /\ \A i \in 1 .. p - 1 : a[i] = s[i]
  OBVIOUS
<1>2. /\ b \in Seq(S) /\ Len(b) = Len(s) - p
      /\ \A i \in 1 .. Len(s) - p : b[i] = s[i + p]
  OBVIOUS
<1>3. RemoveAt(s, p) = a \o b
  BY DEF RemoveAt
<1> HIDE DEF a, b
<1>4. /\ a \o b \in Seq(S)
      /\ Len(a \o b) = Len(s) - 1
      /\ \A i \in 1 .. Len(s) - 1 : (a \o b)[i] = IF i <= Len(a) THEN a[i] ELSE b[i - Len(a)]
  BY <1>1, <1>2, ConcatProperties
<1>5. ASSUME NEW i \in 1 .. Len(s) - 1
      PROVE  (a \o b)[i] = IF i < p THEN s[i] ELSE s[i + 1]
  <2>1. CASE i < p
    BY <1>1, <1>4, <2>1
  <2>2. CASE ~(i < p)
    <3>1. (a \o b)[i] = b[i - Len(a)]
      BY <1>1, <1>4, <2>2
    <3>2. i - Len(a) \in 1 .. Len(s) - p /\ (i - Len(a)) + p = i + 1
      BY <1>1, <2>2
    <3> QED BY <1>2, <2>2, <3>1, <3>2
  <2> QED BY <2>1, <2>2
<1> QED BY <1>3, <1>4, <1>5

(* What is kept of two lists one after the other.                          *)
LEMMA KeptConcat ==
  ASSUME NEW S, NEW s \in Seq(S), NEW t \in Seq(S), NEW T
  PROVE  Kept(s \o t, T) = Kept(s, T) \o Kept(t, T)
<1> DEFINE c == s \o t
           f == KeptUpTo(c, T)
           g == KeptUpTo(s, T)
           h == KeptUpTo(t, T)
           ls == Len(s)
           lt == Len(t)
<1>1. /\ c \in Seq(S) /\ Len(c) = ls + lt /\ ls \in Nat /\ lt \in Nat
      /\ \A i \in 1 .. ls : c[i] = s[i]
      /\ \A i \in 1 .. lt : c[ls + i] = t[i]
  OBVIOUS
<1>2. /\ f[0] = <<>>
      /\ \A n \in 1 .. ls + lt : f[n] = IF c[n] \in T THEN Append(f[n - 1], c[n]) ELSE f[n - 1]
  <2> HIDE DEF c
  <2> QED BY <1>1, KeptUpToDef
<1>3. g[0] = <<>> /\ \A n \in 1 .. ls : g[n] = IF s[n] \in T THEN Append(g[n - 1], s[n]) ELSE g[n - 1]
  BY KeptUpToDef
<1>4. h[0] = <<>> /\ \A n \in 1 .. lt : h[n] = IF t[n] \in T THEN Append(h[n - 1], t[n]) ELSE h[n - 1]
  BY KeptUpToDef
<1>5. (\A n \in 0 .. ls : g[n] \in Seq(S)) /\ (\A n \in 0 .. lt : h[n] \in Seq(S))
  <2>1. (\A n \in 0 .. ls : g[n] \in Seq(S \cap T)) /\ (\A n \in 0 .. lt : h[n] \in Seq(S \cap T))
    BY KeptUpToType
  <2>2. Seq(S \cap T) \subseteq Seq(S)
    OBVIOUS
  <2> QED BY <2>1, <2>2
<1> HIDE DEF c, f, g, h, ls, lt
<1> DEFINE U == {n \in 0 .. ls : f[n] = g[n]}
<1>6. 0 .. ls \subseteq U
  <2>1. 0 \in U
    BY <1>1, <1>2, <1>3
  <2>2. \A n \in 0 .. ls : n \in U /\ n < ls => n + 1 \in U
    <3> SUFFICES ASSUME NEW n \in 0 .. ls, f[n] = g[n], n < ls PROVE n + 1 \in 0 .. ls /\ f[n + 1] = g[n + 1]
      OBVIOUS
    <3>1. n + 1 \in 1 .. ls /\ n + 1 \in 1 .. ls + lt /\ (n + 1) - 1 = n /\ n + 1 \in 0 .. ls
      BY <1>1
    <3>2. f[n + 1] = IF c[n + 1] \in T THEN Append(f[n], c[n + 1]) ELSE f[n]
      BY <1>2, <3>1
    <3>3. g[n + 1] = IF s[n + 1] \in T THEN Append(g[n], s[n + 1]) ELSE g[n]
      BY <1>3, <3>1
    <3> QED BY <1>1, <3>1, <3>2, <3>3
  <2> HIDE DEF U
  <2> QED BY <1>1, <2>1, <2>2, IntervalInduction
<1>7. f[ls] = g[ls] /\ g[ls] \in Seq(S)
  BY <1>1, <1>5, <1>6
<1> DEFINE V == {n \in 0 .. lt : f[ls + n] = g[ls] \o h[n]}
<1>8. 0 .. lt \subseteq V
  <2>1. 0 \in V
    <3>1. ls + 0 = ls /\ 0 \in 0 .. lt
      BY <1>1
    <3>2. \A q \in Seq(S) : q \o <<>> = q
      OBVIOUS
    <3> QED BY <1>4, <1>7, <3>1, <3>2
  <2>2. \A n \in 0 .. lt : n \in V /\ n < lt => n + 1 \in V
    <3> SUFFICES ASSUME NEW n \in 0 .. lt, f[ls + n] = g[ls] \o h[n], n < lt
                 PROVE  n + 1 \in 0 .. lt /\ f[ls + (n + 1)] = g[ls] \o h[n + 1]
      OBVIOUS
    <3>1. /\ n + 1 \in 1 .. lt /\ ls + (n + 1) \in 1 .. ls + lt /\ (n + 1) - 1 = n
          /\ (ls + (n + 1)) - 1 = ls + n /\ n + 1 \in 0 .. lt
      BY <1>1
    <3>2. f[ls + (n + 1)] = IF c[ls + (n + 1)] \in T THEN Append(f[ls + n], c[ls + (n + 1)]) ELSE f[ls + n]
      BY <1>2, <3>1
    <3>3. h[n + 1] = IF t[n + 1] \in T THEN Append(h[n], t[n + 1]) ELSE h[n]
      BY <1>4, <3>1
    <3>4. c[ls + (n + 1)] = t[n + 1] /\ t[n + 1] \in S
      BY <1>1, <3>1 DEF lt
    <3>5. h[n] \in Seq(S)
      BY <1>5
    <3>6. \A p, q \in Seq(S), e \in S : Append(p \o q, e) = p \o Append(q, e)
      <4> TAKE p \in Seq(S), q \in Seq(S), e \in S
      <4>1. Append(p \o q, e) = (p \o q) \o <<e>> /\ Append(q, e) = q \o <<e>>
        BY AppendIsConcat, ConcatProperties
      <4>2. <<e>> \in Seq(S)
        OBVIOUS
      <4> QED BY <4>1, <4>2, ConcatAssociative
    <3>7. CASE t[n + 1] \in T
      <4>1. f[ls + (n + 1)] = Append(g[ls] \o h[n], t[n + 1]) /\ h[n + 1] = Append(h[n], t[n + 1])
        BY <3>2, <3>3, <3>4, <3>7
      <4> QED BY ZenonT(40), <1>7, <3>1, <3>4, <3>5, <3>6, <4>1
    <3>8. CASE t[n + 1] \notin T
      BY <3>1, <3>2, <3>3, <3>4, <3>8
    <3> QED BY <3>7, <3>8
  <2> HIDE DEF V
  <2> QED BY <1>1, <2>1, <2>2, IntervalInduction
<1>9. f[ls + lt] = g[ls] \o h[lt]
  <2>1. lt \in 0 .. lt
    BY <1>1
  <2>2. lt \in V
    BY <1>8, <2>1
  <2> QED BY <2>2
<1> QED BY <1>1, <1>9 DEF Kept, f, g, h, c, ls, lt

(* What is kept of one element, and of none.                               *)
LEMMA KeptOne ==
  ASSUME NEW S, NEW x \in S, NEW T
  PROVE  Kept(<<x>>, T) = IF x \in T THEN <<x>> ELSE <<>>
<1> DEFINE s == <<x>>
<1>1. s \in Seq(S) /\ Len(s) = 1 /\ s[1] = x
  OBVIOUS
<1> HIDE DEF s
<1> DEFINE f == KeptUpTo(s, T)
<1> HIDE DEF f
<1>2. f[0] = <<>> /\ \A n \in 1 .. Len(s) : f[n] = IF s[n] \in T THEN Append(f[n - 1], s[n]) ELSE f[n - 1]
  BY SMTT(30), <1>1, KeptUpToDef DEF f
<1>3. f[1] = IF x \in T THEN Append(f[0], x) ELSE f[0]
  <2>1. \A n \in Nat : n = 1 => f[n] = IF s[n] \in T THEN Append(f[n - 1], s[n]) ELSE f[n - 1]
    BY <1>1, <1>2
  <2>2. \A n \in Nat : n = 1 => n - 1 = 0
    OBVIOUS
  <2>3. \A n \in Nat : n = 1 => f[n] = IF s[n] \in T THEN Append(f[0], s[n]) ELSE f[0]
    BY <2>1, <2>2
  <2> QED BY <1>1, <2>3
<1>4. Kept(s, T) = IF x \in T THEN <<x>> ELSE <<>>
  BY <1>1, <1>2, <1>3 DEF Kept, f
<1> QED BY <1>4 DEF s

LEMMA KeptEmpty ==
  ASSUME NEW S, NEW T
  PROVE  Kept(<<>>, T) = <<>>
<1>1. <<>> \in Seq(S) /\ Len(<<>>) = 0
  OBVIOUS
<1>2. KeptUpTo(<<>>, T)[0] = <<>>
  BY ZenonT(40), <1>1, KeptUpToDef
<1> QED BY <1>1, <1>2 DEF Kept

(* What is kept when one more element arrives, or the first one leaves.    *)
LEMMA KeptAppend ==
  ASSUME NEW S, NEW s \in Seq(S), NEW x \in S, NEW T
  PROVE  Kept(Append(s, x), T) = Kept(s, T) \o (IF x \in T THEN <<x>> ELSE <<>>)
<1>1. Append(s, x) = s \o <<x>> /\ <<x>> \in Seq(S)
  OBVIOUS
<1>2. \A t \in Seq(S) : Kept(s \o t, T) = Kept(s, T) \o Kept(t, T)
  BY KeptConcat
<1>3. Kept(<<x>>, T) = IF x \in T THEN <<x>> ELSE <<>>
  BY KeptOne
<1> QED BY <1>1, <1>2, <1>3

LEMMA KeptHead ==
  ASSUME NEW S, NEW s \in Seq(S), s # <<>>, NEW T
  PROVE  Kept(s, T) = (IF Head(s) \in T THEN <<Head(s)>> ELSE <<>>) \o Kept(Tail(s), T)
<1>1. s = <<Head(s)>> \o Tail(s) /\ <<Head(s)>> \in Seq(S) /\ Tail(s) \in Seq(S) /\ Head(s) \in S
  OBVIOUS
<1>2. \A a, b \in Seq(S) : Kept(a \o b, T) = Kept(a, T) \o Kept(b, T)
  BY KeptConcat
<1>3. \A x \in S : Kept(<<x>>, T) = IF x \in T THEN <<x>> ELSE <<>>
  BY KeptOne
<1>4. Kept(s, T) = Kept(<<Head(s)>>, T) \o Kept(Tail(s), T)
  <2> DEFINE a == <<Head(s)>>
             b == Tail(s)
  <2>1. s = a \o b /\ a \in Seq(S) /\ b \in Seq(S)
    BY <1>1
  <2> HIDE DEF a, b
  <2>2. Kept(a \o b, T) = Kept(a, T) \o Kept(b, T)
    BY <1>2, <2>1
  <2>3. Kept(s, T) = Kept(a, T) \o Kept(b, T)
    BY <2>1, <2>2
  <2> QED BY <2>3 DEF a, b
<1> QED BY <1>1, <1>3, <1>4

-----------------------------------------------------------------------------
(* Sequences put together.                                                 *)
LEMMA WiderSeq ==
  ASSUME NEW S, NEW T, S \subseteq T, NEW p \in Seq(S)
  PROVE  p \in Seq(T)
<1>1. \A i \in 1 .. Len(p) : p[i] \in T
  OBVIOUS
<1>2. Len(p) \in Nat /\ p = [i \in 1 .. Len(p) |-> p[i]]
  OBVIOUS
<1> QED BY <1>1, <1>2

LEMMA ConcatElements ==
  ASSUME NEW S, NEW a \in Seq(S), NEW b \in Seq(S), NEW c, c = a \o b
  PROVE  /\ c \in Seq(S)
         /\ \A i \in 1 .. Len(c) : \/ \E j \in 1 .. Len(a) : c[i] = a[j]
                                   \/ \E j \in 1 .. Len(b) : c[i] = b[j]
         /\ \A j \in 1 .. Len(a) : \E i \in 1 .. Len(c) : c[i] = a[j]
         /\ \A j \in 1 .. Len(b) : \E i \in 1 .. Len(c) : c[i] = b[j]
<1> DEFINE m == Len(a)
           n == Len(b)
<1>1. /\ c \in Seq(S) /\ Len(c) = m + n /\ m \in Nat /\ n \in Nat
      /\ \A i \in 1 .. m : c[i] = a[i]
      /\ \A i \in m + 1 .. m + n : c[i] = b[i - m]
  OBVIOUS
<1> HIDE DEF m, n
<1>2. ASSUME NEW i \in 1 .. Len(c)
      PROVE  (\E j \in 1 .. m : c[i] = a[j]) \/ \E j \in 1 .. n : c[i] = b[j]
  <2>1. i \in 1 .. m \/ (i \in m + 1 .. m + n /\ i - m \in 1 .. n)
    BY <1>1
  <2> QED BY <1>1, <2>1
<1>3. ASSUME NEW j \in 1 .. m PROVE \E i \in 1 .. Len(c) : c[i] = a[j]
  <2>1. j \in 1 .. Len(c)
    BY <1>1
  <2> QED BY <1>1, <2>1
<1>4. ASSUME NEW j \in 1 .. n PROVE \E i \in 1 .. Len(c) : c[i] = b[j]
  <2>1. m + j \in 1 .. Len(c) /\ m + j \in m + 1 .. m + n /\ (m + j) - m = j
    BY <1>1
  <2> QED BY <1>1, <2>1
<1> QED BY <1>1, <1>2, <1>3, <1>4 DEF m, n

(* The recursion of FlattenSeq has a solution.                             *)
LEMMA FlattenSteps ==
  ASSUME NEW S, NEW ss \in Seq(Seq(S)), Len(ss) # 0
  PROVE  \E f : /\ f[1] = ss[1]
                /\ \A n \in 2 .. Len(ss) : f[n] = f[n - 1] \o ss[n]
                /\ FlattenSeq(ss) = f[Len(ss)]
<1> DEFINE After(x, y) == x \o y
           Solves(g, m) == g = [n \in 1 .. m |-> IF n = 1 THEN ss[n] ELSE After(g[n - 1], ss[n])]
           U == {m \in Nat : \E g : Solves(g, m)}
<1> HIDE DEF After
<1>1. 0 \in U
  <2>1. Solves([n \in 1 .. 0 |-> 0], 0)
    OBVIOUS
  <2>2. \E g : Solves(g, 0)
    <3> HIDE DEF Solves
    <3> QED BY <2>1
  <2> HIDE DEF Solves
  <2> QED BY <2>2
<1>2. ASSUME NEW m \in U PROVE m + 1 \in U
  <2>1. PICK g : Solves(g, m)
    OBVIOUS
  <2> DEFINE new == IF m = 0 THEN ss[1] ELSE After(g[m], ss[m + 1])
             h == [n \in 1 .. m + 1 |-> IF n = m + 1 THEN new ELSE g[n]]
  <2>2. (\A n \in 1 .. m : h[n] = g[n]) /\ h[m + 1] = new /\ m \in Nat
    OBVIOUS
  <2>3. \A n \in 1 .. m : g[n] = IF n = 1 THEN ss[n] ELSE After(g[n - 1], ss[n])
    BY <2>1
  <2>4. ASSUME NEW n \in 1 .. m + 1
        PROVE  h[n] = IF n = 1 THEN ss[n] ELSE After(h[n - 1], ss[n])
    <3> HIDE DEF h
    <3>1. CASE n = m + 1 /\ m = 0
      BY <2>2, <3>1
    <3>2. CASE n = m + 1 /\ m # 0
      <4>1. m \in 1 .. m /\ n - 1 = m /\ n # 1
        BY <2>2, <3>2
      <4>2. h[n - 1] = g[m]
        BY <2>2, <4>1
      <4>3. h[n] = After(g[m], ss[n])
        BY <2>2, <3>2
      <4> QED BY <4>1, <4>2, <4>3
    <3>3. CASE n \in 1 .. m /\ n = 1
      BY <2>2, <2>3, <3>3
    <3>4. CASE n \in 1 .. m /\ n # 1
      <4>1. n - 1 \in 1 .. m
        BY <2>2, <3>4
      <4> QED BY <2>2, <2>3, <3>4, <4>1
    <3> QED BY <2>2, <3>1, <3>2, <3>3, <3>4
  <2>5. Solves(h, m + 1)
    <3>1. h = [n \in 1 .. m + 1 |-> h[n]]
      OBVIOUS
    <3> HIDE DEF h
    <3> QED BY <2>4, <3>1
  <2>6. \E g0 : Solves(g0, m + 1)
    <3> HIDE DEF Solves, h
    <3> QED BY <2>5
  <2>7. m + 1 \in Nat
    OBVIOUS
  <2> HIDE DEF Solves
  <2> QED BY <2>6, <2>7
<1>3. U = Nat
  <2> HIDE DEF U
  <2>1. U \in SUBSET Nat
    BY DEF U
  <2> QED BY <1>1, <1>2, <2>1, NatInductionSet
<1> DEFINE flatten == CHOOSE g : Solves(g, Len(ss))
<1>4. \E g : Solves(g, Len(ss))
  <2>1. Len(ss) \in U
    <3> HIDE DEF U
    <3> QED BY <1>3
  <2> HIDE DEF Solves
  <2> QED BY <2>1
<1>5. Solves(flatten, Len(ss))
  <2> HIDE DEF Solves
  <2> QED BY <1>4
<1>6. FlattenSeq(ss) = flatten[Len(ss)]
  BY DEF FlattenSeq, After
<1> HIDE DEF flatten
<1>7. \A n \in 1 .. Len(ss) : flatten[n] = IF n = 1 THEN ss[n] ELSE After(flatten[n - 1], ss[n])
  BY <1>5
<1>8. Len(ss) \in Nat
  OBVIOUS
<1>9. flatten[1] = ss[1] /\ \A n \in 2 .. Len(ss) : flatten[n] = flatten[n - 1] \o ss[n]
  <2>1. ASSUME NEW n \in 2 .. Len(ss) PROVE flatten[n] = After(flatten[n - 1], ss[n])
    <3>1. n \in 1 .. Len(ss) /\ n # 1
      BY <1>8
    <3> QED BY <1>7, <3>1
  <2>2. 1 \in 1 .. Len(ss)
    BY <1>8
  <2> QED BY <1>7, <2>1, <2>2 DEF After
<1> QED BY <1>6, <1>9

LEMMA FlattenType ==
  ASSUME NEW S, NEW ss \in Seq(Seq(S))
  PROVE  FlattenSeq(ss) \in Seq(S)
<1>1. CASE Len(ss) = 0
  <2>1. ss = << >>
    BY <1>1
  <2>2. << >> \in Seq(S) /\ Len(<< >>) = 0
    OBVIOUS
  <2> QED BY <2>1, <2>2 DEF FlattenSeq
<1>2. CASE Len(ss) # 0
  <2>1. PICK f : /\ f[1] = ss[1]
                 /\ \A n \in 2 .. Len(ss) : f[n] = f[n - 1] \o ss[n]
                 /\ FlattenSeq(ss) = f[Len(ss)]
    BY <1>2, FlattenSteps
  <2> DEFINE U == {n \in 0 .. Len(ss) : n = 0 \/ f[n] \in Seq(S)}
  <2>2. 0 \in U
    OBVIOUS
  <2>3. ASSUME NEW n \in 0 .. Len(ss), n \in U, n < Len(ss) PROVE n + 1 \in U
    <3>1. n + 1 \in 1 .. Len(ss) /\ (n + 1) - 1 = n /\ n + 1 \in 0 .. Len(ss)
      BY <2>3
    <3>2. ss[n + 1] \in Seq(S)
      BY <3>1
    <3>3. f[n + 1] \in Seq(S)
      <4>1. CASE n = 0
        BY <2>1, <3>2, <4>1
      <4>2. CASE n # 0
        <5>1. n + 1 \in 2 .. Len(ss) /\ f[n] \in Seq(S)
          BY <2>3, <3>1, <4>2
        <5>2. f[n + 1] = f[n] \o ss[n + 1]
          BY <2>1, <3>1, <5>1
        <5> DEFINE x == f[n]
                   y == ss[n + 1]
        <5>3. x \in Seq(S) /\ y \in Seq(S)
          BY <3>2, <5>1
        <5> HIDE DEF x, y
        <5>4. x \o y \in Seq(S)
          BY <5>3
        <5> QED BY <5>2, <5>4 DEF x, y
      <4> QED BY <4>1, <4>2
    <3> QED BY <3>1, <3>3
  <2>4. 0 .. Len(ss) \subseteq U
    <3>1. Len(ss) \in Nat
      OBVIOUS
    <3> HIDE DEF U
    <3> QED BY <2>2, <2>3, <3>1, IntervalInduction
  <2>5. Len(ss) \in 0 .. Len(ss)
    OBVIOUS
  <2> QED BY <1>2, <2>1, <2>4, <2>5
<1> QED BY <1>1, <1>2

(* Pieces of one element each.                                             *)
LEMMA FlattenSingletons ==
  ASSUME NEW S, NEW t \in Seq(S), NEW ss \in Seq(Seq(S)), Len(ss) = Len(t),
         \A i \in 1 .. Len(t) : ss[i] = <<t[i]>>
  PROVE  FlattenSeq(ss) = t
<1>1. CASE Len(ss) = 0
  <2>1. ss = << >>
    BY <1>1
  <2>2. Len(t) = 0
    BY <1>1
  <2>3. t = << >>
    BY <2>2
  <2> QED BY <1>1, <2>1, <2>3 DEF FlattenSeq
<1>2. CASE Len(ss) # 0
  <2> DEFINE m == Len(t)
  <2>1. PICK f : /\ f[1] = ss[1]
                 /\ \A n \in 2 .. m : f[n] = f[n - 1] \o ss[n]
                 /\ FlattenSeq(ss) = f[m]
    <3>1. \E f : /\ f[1] = ss[1]
                 /\ \A n \in 2 .. Len(ss) : f[n] = f[n - 1] \o ss[n]
                 /\ FlattenSeq(ss) = f[Len(ss)]
      BY <1>2, FlattenSteps
    <3> QED BY <3>1
  <2> DEFINE Prefix(g, n) == /\ g \in Seq(S) /\ Len(g) = n
                             /\ \A i \in 1 .. n : g[i] = t[i]
             U == {n \in 0 .. m : n = 0 \/ Prefix(f[n], n)}
  <2>2. 0 \in U
    OBVIOUS
  <2>2a. m \in Nat /\ m # 0
    BY <1>2
  <2> HIDE DEF m
  <2>3. ASSUME NEW n \in 0 .. m, n \in U, n < m PROVE n + 1 \in U
    <3>1. n + 1 \in 1 .. m /\ (n + 1) - 1 = n /\ n + 1 \in 0 .. m /\ n \in Nat
      BY <2>2a, <2>3
    <3>2. ss[n + 1] = <<t[n + 1]>> /\ t[n + 1] \in S
      BY <3>1 DEF m
    <3>3. Prefix(f[n + 1], n + 1)
      <4>1. CASE n = 0
        <5>1. f[n + 1] = <<t[n + 1]>>
          BY <2>1, <3>1, <3>2, <4>1
        <5> DEFINE g == f[n + 1]
                   e == t[n + 1]
        <5>2. g = <<e>> /\ e \in S
          BY <3>2, <5>1
        <5>3. n + 1 = 1
          BY <4>1
        <5> HIDE DEF g, e
        <5>4. g \in Seq(S) /\ Len(g) = 1 /\ g[1] = e
          BY <5>2
        <5>5. \A i \in 1 .. 1 : i = n + 1
          BY <5>3
        <5> QED BY <5>3, <5>4, <5>5 DEF g, e
      <4>2. CASE n # 0
        <5>1. n + 1 \in 2 .. m /\ Prefix(f[n], n)
          BY <2>3, <3>1, <4>2
        <5> DEFINE g == f[n]
                   e == t[n + 1]
                   h == g \o <<e>>
        <5>2. f[n + 1] = h
          BY <2>1, <3>1, <3>2, <5>1
        <5>3. g \in Seq(S) /\ Len(g) = n /\ \A i \in 1 .. n : g[i] = t[i]
          BY <5>1
        <5>4. e \in S
          BY <3>2
        <5> HIDE DEF g, e
        <5>5. h \in Seq(S) /\ Len(h) = n + 1 /\ h[n + 1] = e /\ \A i \in 1 .. n : h[i] = g[i]
          <6> DEFINE u == <<e>>
          <6>1. u \in Seq(S) /\ Len(u) = 1 /\ u[1] = e
            BY <5>4
          <6> HIDE DEF u
          <6>2. /\ g \o u \in Seq(S) /\ Len(g \o u) = Len(g) + Len(u)
                /\ \A i \in 1 .. Len(g) + Len(u) :
                     (g \o u)[i] = IF i <= Len(g) THEN g[i] ELSE u[i - Len(g)]
            <7>1. \A x, y \in Seq(S) : /\ x \o y \in Seq(S) /\ Len(x \o y) = Len(x) + Len(y)
                                        /\ \A i \in 1 .. Len(x) + Len(y) :
                                            (x \o y)[i] = IF i <= Len(x) THEN x[i] ELSE y[i - Len(x)]
              BY ConcatProperties, Zenon
            <7> QED BY <5>3, <6>1, <7>1
          <6> DEFINE w == g \o u
          <6>3. /\ w \in Seq(S) /\ Len(w) = n + 1
                /\ \A i \in 1 .. n + 1 : w[i] = IF i <= n THEN g[i] ELSE u[i - n]
            BY <5>3, <6>1, <6>2
          <6> HIDE DEF w
          <6>4. w[n + 1] = u[(n + 1) - n] /\ (n + 1) - n = 1
            BY <3>1, <6>3
          <6>5. \A i \in 1 .. n : w[i] = g[i]
            BY <3>1, <6>3
          <6> QED BY <6>1, <6>3, <6>4, <6>5 DEF u, w
        <5> HIDE DEF h
        <5>6. \A i \in 1 .. n + 1 : h[i] = t[i]
          <6> SUFFICES ASSUME NEW i \in 1 .. n + 1 PROVE h[i] = t[i]
            OBVIOUS
          <6>1. i \in 1 .. n \/ i = n + 1
            BY <3>1
          <6> QED BY <5>3, <5>5, <6>1 DEF e
        <5>7. Prefix(h, n + 1)
          BY <5>5, <5>6
        <5> QED BY <5>2, <5>7
      <4> QED BY <4>1, <4>2
    <3> QED BY <3>1, <3>3
  <2>4. 0 .. m \subseteq U
    <3> HIDE DEF U
    <3> QED BY <2>2, <2>2a, <2>3, IntervalInduction
  <2>5. m \in 0 .. m
    BY <2>2a
  <2>6. Prefix(f[m], m)
    BY <2>2a, <2>4, <2>5
  <2> DEFINE g == f[m]
  <2>7. g \in Seq(S) /\ Len(g) = Len(t) /\ \A i \in 1 .. Len(t) : g[i] = t[i]
    BY <2>6 DEF m
  <2> HIDE DEF g
  <2>8. g = t
    BY <2>7
  <2> QED BY <2>1, <2>8 DEF g
<1> QED BY <1>1, <1>2
=============================================================================
