----------------------------- MODULE Induction -----------------------------
(***************************************************************************)
(* Induction and recursion over the natural numbers, stated for sets and   *)
(* functions: the theorems of the library take an operator as a parameter, *)
(* which the provers cannot instantiate.  Whatever is to be proved for all *)
(* numbers is put into the set of the numbers it holds for.                *)
(***************************************************************************)
EXTENDS Naturals, Sequences, WellFoundedInduction, TLAPS

\* A set of numbers that is not empty has a least one.
LEMMA LeastNat ==
    ASSUME NEW T \in SUBSET Nat, T # {}
    PROVE  \E n \in T : \A m \in T : n <= m
  <1> DEFINE R == OpToRel(<, Nat)
  <1>1. IsWellFoundedOn(R, Nat)
    BY NatLessThanWellFounded, Zenon
  <1>2. \A m, n \in Nat : m < n => <<m, n>> \in R
    BY DEF OpToRel
  <1> HIDE DEF R
  <1>3. PICK n \in T : \A m \in T : ~ (<<m, n>> \in R)
    BY <1>1, WFMin
  <1>4. ASSUME NEW m \in T PROVE n <= m
    <2>1. m \in Nat /\ n \in Nat
      OBVIOUS
    <2>2. ~ (m < n)
      BY <1>2, <1>3, <2>1, Zenon
    <2> QED
      BY <2>1, <2>2
  <1> QED
    BY <1>4

\* A set with 0, and with the successor of each of its numbers, has all numbers.
LEMMA SetInduction ==
    ASSUME NEW T, 0 \in T, \A n \in Nat : n \in T => n + 1 \in T
    PROVE  \A n \in Nat : n \in T
  <1> SUFFICES ASSUME Nat \ T # {} PROVE FALSE
    OBVIOUS
  <1>1. PICK n \in Nat \ T : \A m \in Nat \ T : n <= m
    <2> DEFINE U == Nat \ T
    <2>1. U \in SUBSET Nat /\ U # {}
      OBVIOUS
    <2> HIDE DEF U
    <2>2. \E n \in U : \A m \in U : n <= m
      BY <2>1, LeastNat
    <2> QED
      BY <2>2 DEF U
  <1>2. n # 0 /\ n - 1 \in Nat /\ n = (n - 1) + 1
    OBVIOUS
  <1>3. n - 1 \in T
    BY <1>1, <1>2
  <1> QED
    BY <1>2, <1>3

\* Numbers counted by places 1..k have a greatest one, if there are any.
LEMMA GreatestExists ==
    ASSUME NEW k \in Nat, NEW P \in SUBSET (1..k), P # {}, NEW f, \A i \in P : f[i] \in Nat
    PROVE  \E i \in P : \A j \in P : f[j] <= f[i]
  <1> DEFINE T == {n \in Nat : \A Q \in SUBSET (P \cap 1..n) :
                     Q # {} => \E i \in Q : \A j \in Q : f[j] <= f[i]}
  <1>1. 0 \in T
    <2>1. P \cap 1..0 = {}
      OBVIOUS
    <2> QED
      BY <2>1
  <1>2. ASSUME NEW n \in Nat, n \in T PROVE n + 1 \in T
    <2> SUFFICES ASSUME NEW Q \in SUBSET (P \cap 1..(n + 1)), Q # {}
                 PROVE  \E i \in Q : \A j \in Q : f[j] <= f[i]
      OBVIOUS
    <2> DEFINE L == Q \ {n + 1}
    <2>1. L \in SUBSET (P \cap 1..n)
      OBVIOUS
    <2>2. CASE L = {}
      <3>1. Q = {n + 1}
        BY <2>2
      <3> QED
        BY <3>1
    <2>3. CASE L # {}
      <3>1. PICK i \in L : \A j \in L : f[j] <= f[i]
        BY <1>2, <2>1, <2>3
      <3>2. CASE n + 1 \in Q
        <4>1. f[i] \in Nat /\ f[n + 1] \in Nat /\ \A j \in Q : f[j] \in Nat
          BY <3>2
        <4>2. CASE f[n + 1] <= f[i]
          BY <3>1, <4>2
        <4>3. CASE ~(f[n + 1] <= f[i])
          <5>1. \A j \in L : f[j] <= f[n + 1]
            BY <3>1, <4>1, <4>3
          <5>2. f[n + 1] <= f[n + 1]
            BY <4>1
          <5> QED
            BY <3>2, <5>1, <5>2
        <4> QED
          BY <4>2, <4>3
      <3>3. CASE n + 1 \notin Q
        BY <3>1, <3>3
      <3> QED
        BY <3>2, <3>3
    <2> QED
      BY <2>2, <2>3
  <1>3. k \in T
    <2> HIDE DEF T
    <2> QED
      BY <1>1, <1>2, SetInduction
  <1> QED
    BY <1>3

\* step gives the value at i from i and the value before it
Steps(k, S) == [(1..k) \X S -> S]

\* g is the function over 0..k with a at 0 and the values of step from there
IsRecursive(g, S, a, k, step) ==
    /\ g \in [0..k -> S]
    /\ g[0] = a
    /\ \A i \in 1..k : g[i] = step[<<i, g[i - 1]>>]

\* A function over 0..k may be defined by recursion.
LEMMA BoundedRecursion ==
    ASSUME NEW S, NEW a \in S, NEW k \in Nat, NEW step \in Steps(k, S)
    PROVE  \E g : IsRecursive(g, S, a, k, step)
  <1> USE DEF Steps, IsRecursive
  <1> DEFINE Stage(n) == {g \in [0..n -> S] :
                            g[0] = a /\ \A i \in 1..n : g[i] = step[<<i, g[i - 1]>>]}
             T == {n \in Nat : n <= k => Stage(n) # {}}
  <1>1. 0 \in T
    <2>1. [i \in 0..0 |-> a] \in Stage(0)
      OBVIOUS
    <2> QED
      BY <2>1
  <1>2. ASSUME NEW n \in Nat, n \in T PROVE n + 1 \in T
    <2> SUFFICES ASSUME n + 1 <= k PROVE Stage(n + 1) # {}
      OBVIOUS
    <2>1. PICK g \in [0..n -> S] : g[0] = a /\ \A i \in 1..n : g[i] = step[<<i, g[i - 1]>>]
      BY <1>2
    <2> DEFINE h == [i \in 0..(n + 1) |-> IF i = n + 1 THEN step[<<i, g[n]>>] ELSE g[i]]
    <2>2. g[n] \in S /\ <<n + 1, g[n]>> \in (1..k) \X S
      BY <2>1
    <2>3. step[<<n + 1, g[n]>>] \in S
      BY <2>2
    <2>4. h \in [0..(n + 1) -> S]
      BY <2>1, <2>3
    <2>5. h[0] = a
      BY <2>1
    <2>6. ASSUME NEW i \in 1..(n + 1) PROVE h[i] = step[<<i, h[i - 1]>>]
      <3>1. CASE i = n + 1
        <4>1. h[i - 1] = g[n]
          BY <3>1
        <4> QED
          BY <3>1, <4>1
      <3>2. CASE i # n + 1
        <4>1. i \in 1..n /\ h[i] = g[i] /\ h[i - 1] = g[i - 1]
          BY <3>2
        <4> QED
          BY <2>1, <4>1
      <3> QED
        BY <3>1, <3>2
    <2> QED
      BY <2>4, <2>5, <2>6
  <1>3. k \in T
    <2> HIDE DEF T
    <2> QED
      BY <1>1, <1>2, SetInduction
  <1>4. Stage(k) # {}
    BY <1>3
  <1> QED
    BY <1>4

\* Appending keeps what is there and adds one element.
LEMMA AppendGrows ==
    ASSUME NEW R, NEW p \in Seq(R), NEW e \in R
    PROVE  /\ Append(p, e) \in Seq(R)
           /\ \A i \in DOMAIN p : i \in DOMAIN Append(p, e) /\ Append(p, e)[i] = p[i]
           /\ Len(p) + 1 \in DOMAIN Append(p, e) /\ Append(p, e)[Len(p) + 1] = e
  OBVIOUS
=============================================================================
