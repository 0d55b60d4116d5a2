------------------------------ MODULE Recursion ------------------------------
(***************************************************************************)
(* Induction and recursion on the natural numbers, without an operator for  *)
(* a parameter: what is to be shown of every number is a set of numbers,    *)
(* and a step of a recursive definition is a function.  Both rest on the    *)
(* well-foundedness of < on Nat.                                           *)
(***************************************************************************)
EXTENDS FiniteSetsExt, WellFoundedInduction, TLAPS

(* Every nonempty set of natural numbers has a least element.                *)
LEMMA Least ==
  ASSUME NEW T \in SUBSET Nat, T # {}
  PROVE  \E m \in T : \A k \in T : m <= k
<1> DEFINE R == OpToRel(<, Nat)
<1>1. IsWellFoundedOn(R, Nat)
  BY NatLessThanWellFounded
<1> HIDE DEF R
<1>2. PICK m \in T : \A k \in T : ~(<<k, m>> \in R)
  BY <1>1, WFMin
<1> USE DEF R
<1>3. \A k \in T : ~(k < m)
  BY <1>2 DEF OpToRel
<1>4. m \in Nat /\ \A k \in T : k \in Nat
  OBVIOUS
<1>5. \A k \in T : m <= k
  BY <1>3, <1>4
<1> QED BY <1>5

(* Min of FiniteSetsExt is that element.                                     *)
LEMMA MinIsLeast ==
  ASSUME NEW T \in SUBSET Nat, T # {}
  PROVE  Min(T) \in T /\ \A k \in T : Min(T) <= k
<1>1. \E m \in T : \A k \in T : m <= k
  BY Least
<1> QED BY <1>1 DEF Min

(* A set that has 0 and the successor of each of its members has every number.*)
LEMMA Induct ==
  ASSUME NEW T, 0 \in T, \A n \in Nat : n \in T => n + 1 \in T
  PROVE  Nat \subseteq T
<1> SUFFICES ASSUME Nat \ T # {} PROVE FALSE
  OBVIOUS
<1>1. PICK m \in Nat \ T : \A k \in Nat \ T : m <= k
  BY Least
<1>2. m # 0 /\ m - 1 \in Nat /\ m - 1 \in T
  BY <1>1
<1> QED BY <1>1, <1>2

(* f starts at c and its every value is the step from the value before.      *)
Unfolds(f, S, c, N, step) ==
  f \in [0..N -> S] /\ f[0] = c /\ \A i \in 1..N : f[i] = step[<<f[i-1], i>>]

(* There is a function that starts at c and takes the given step N times.  A    *)
(* recursive function of TLA+ is a CHOOSE, which this shows is not over nothing.*)
LEMMA Recurse ==
  ASSUME NEW S, NEW c \in S, NEW N \in Nat, NEW step \in [S \X (1..N) -> S]
  PROVE  \E f : Unfolds(f, S, c, N, step)
<1> DEFINE T == {n \in Nat : n <= N => \E f : Unfolds(f, S, c, n, step)}
<1>1. 0 \in T
  <2>1. Unfolds([i \in 0..0 |-> c], S, c, 0, step)
    BY DEF Unfolds
  <2> QED BY <2>1
<1>2. ASSUME NEW n \in Nat, n \in T PROVE n + 1 \in T
  <2> SUFFICES ASSUME n + 1 <= N PROVE \E f : Unfolds(f, S, c, n + 1, step)
    OBVIOUS
  <2>1. PICK f : Unfolds(f, S, c, n, step)
    BY <1>2
  <2> DEFINE g == [i \in 0..(n+1) |-> IF i <= n THEN f[i] ELSE step[<<f[n], n+1>>]]
  <2>2. step[<<f[n], n+1>>] \in S
    BY <2>1 DEF Unfolds
  <2>3. g \in [0..(n+1) -> S]
    BY <2>1, <2>2 DEF Unfolds
  <2>4. g[0] = c
    BY <2>1 DEF Unfolds
  <2>5. ASSUME NEW i \in 1..(n+1) PROVE g[i] = step[<<g[i-1], i>>]
    <3>1. CASE i <= n
      BY <3>1, <2>1 DEF Unfolds
    <3>2. CASE i = n + 1
      <4>1. g[i] = step[<<f[n], n+1>>] /\ g[n] = f[n] /\ i - 1 = n
        BY <3>2
      <4> QED BY <4>1, <3>2
    <3> QED BY <3>1, <3>2
  <2>6. Unfolds(g, S, c, n + 1, step)
    <3> HIDE DEF g
    <3> QED BY <2>3, <2>4, <2>5 DEF Unfolds
  <2> QED BY <2>6
<1>3. Nat \subseteq T
  <2> HIDE DEF T
  <2> QED BY <1>1, <1>2, Induct
<1> QED BY <1>3
=============================================================================
