------------------------------- MODULE Recursion -----------------------------
(***************************************************************************)
(* Induction and recursion over the natural numbers, stated for sets and   *)
(* functions instead of formulas and operators, so that the provers can    *)
(* use them.                                                               *)
(***************************************************************************)
EXTENDS Integers, WellFoundedInduction, TLAPS

(* A product grows with its factor.                                        *)
LEMMA Products == ASSUME NEW a \in Nat, NEW b \in Nat, NEW c \in Nat, a <= b
                  PROVE  a * c <= b * c /\ c * a <= c * b /\ a * c \in Nat /\ b * c \in Nat
<1>1. b * c = a * c + (b - a) * c OBVIOUS
<1>2. (b - a) * c >= 0 OBVIOUS
<1> QED BY <1>1, <1>2

(* A set of natural numbers that is not empty has a least element.         *)
LEMMA Least == ASSUME NEW S \in SUBSET Nat, S # {}
               PROVE  \E x \in S : \A y \in S : x <= y
<1> DEFINE R == OpToRel(<, Nat)
<1>1. IsWellFoundedOn(R, Nat)
  BY Zenon, NatLessThanWellFounded
<1>2. PICK x \in S : \A y \in S : ~(<<y, x>> \in R)
  <2> HIDE DEF R
  <2> QED BY Zenon, <1>1, WFMin
<1>3. ASSUME NEW y \in S PROVE x <= y
  <2>1. x \in Nat /\ y \in Nat OBVIOUS
  <2>2. ~(y < x) BY Zenon, <1>2, <2>1 DEF OpToRel
  <2> QED BY <2>1, <2>2
<1> QED BY Zenon, <1>2, <1>3

(* Induction over the natural numbers, for a set instead of a formula.     *)
LEMMA Induction == ASSUME NEW T \in SUBSET Nat, 0 \in T, \A n \in T : n + 1 \in T
                   PROVE  T = Nat
<1> SUFFICES ASSUME T # Nat PROVE FALSE
  OBVIOUS
<1>1. PICK x \in Nat \ T : \A y \in Nat \ T : x <= y
  BY Zenon, Least
<1>2. x # 0 /\ x - 1 \in Nat /\ ~(x <= x - 1)
  <2>1. x # 0 BY Zenon, <1>1
  <2> QED BY <1>1, <2>1
<1>3. x - 1 \in T
  BY Zenon, <1>1, <1>2
<1>4. (x - 1) + 1 \in T
  BY <1>3
<1>5. (x - 1) + 1 = x
  BY <1>1
<1> QED BY Zenon, <1>1, <1>4, <1>5

(* A function on the natural numbers that is given by its first value and  *)
(* by its steps.                                                           *)
Begins(f, n, D, d, s) == /\ f \in [0..n -> D]
                         /\ f[0] = d
                         /\ \A i \in 0..(n - 1) : f[i + 1] = s[i][f[i]]

(* Two such beginnings agree where both are defined.                       *)
LEMMA BeginningsAgree ==
    ASSUME NEW D, NEW d, NEW s, NEW m \in Nat, NEW n \in 0..m, NEW f, NEW g,
           Begins(f, n, D, d, s), Begins(g, m, D, d, s)
    PROVE  f[n] = g[n]
<1> DEFINE T == {i \in Nat : i <= n => f[i] = g[i]}
<1>1. 0 \in T
  BY DEF Begins
<1>2. ASSUME NEW i \in T PROVE i + 1 \in T
  <2> SUFFICES ASSUME i + 1 <= n PROVE f[i + 1] = g[i + 1]
    OBVIOUS
  <2>1. f[i] = g[i] /\ i \in 0..(n - 1) /\ i \in 0..(m - 1)
    OBVIOUS
  <2> QED BY <2>1 DEF Begins
<1>3. T = Nat
  <2> HIDE DEF T
  <2>1. T \in SUBSET Nat BY DEF T
  <2> QED BY Zenon, <1>1, <1>2, <2>1, Induction
<1>4. n \in T
  BY <1>3
<1> QED BY <1>4

(* The steps of a recursion: what each number makes of a value in D.       *)
Steps(D) == [Nat -> [D -> D]]

(* g is the function that starts at d and goes on by s.                    *)
Stepwise(g, D, d, s) == /\ g \in [Nat -> D]
                        /\ g[0] = d
                        /\ \A n \in Nat : g[n + 1] = s[n][g[n]]

(* Every recursion over the natural numbers defines a function.            *)
LEMMA Recursion ==
    ASSUME NEW D, NEW d \in D, NEW s \in Steps(D)
    PROVE  \E g : Stepwise(g, D, d, s)
<1> DEFINE T == {n \in Nat : \E f : Begins(f, n, D, d, s)}
<1>1. 0 \in T
  <2>1. Begins([i \in 0..0 |-> d], 0, D, d, s)
    BY DEF Begins
  <2> QED BY <2>1
<1>2. ASSUME NEW n \in T PROVE n + 1 \in T
  <2>1. n \in Nat /\ n + 1 \in Nat
    OBVIOUS
  <2>2. PICK f : Begins(f, n, D, d, s)
    OBVIOUS
  <2> DEFINE h == [i \in 0..(n + 1) |-> IF i = n + 1 THEN s[n][f[n]] ELSE f[i]]
  <2>3. f \in [0..n -> D] /\ f[0] = d /\ \A i \in 0..(n - 1) : f[i + 1] = s[i][f[i]]
    BY <2>2 DEF Begins
  <2>4. f[n] \in D /\ s[n][f[n]] \in D
    BY <2>1, <2>3 DEF Steps
  <2>5. h \in [0..(n + 1) -> D] /\ h[0] = d
    BY <2>1, <2>3, <2>4
  <2>6. ASSUME NEW i \in 0..((n + 1) - 1) PROVE h[i + 1] = s[i][h[i]]
    <3>1. CASE i = n
      <4>1. n \in 0..(n + 1) /\ n # n + 1 /\ n + 1 \in 0..(n + 1) BY <2>1
      <4>2. h[n] = f[n] /\ h[n + 1] = s[n][f[n]] BY <4>1
      <4> QED BY <3>1, <4>2
    <3>2. CASE i \in 0..(n - 1) BY <2>1, <2>3, <3>2
    <3> QED BY <2>1, <3>1, <3>2
  <2> HIDE DEF h
  <2>7. Begins(h, n + 1, D, d, s)
    BY <2>5, <2>6 DEF Begins
  <2> QED BY <2>1, <2>7
<1>3. T = Nat
  <2> HIDE DEF T
  <2>1. T \in SUBSET Nat BY DEF T
  <2> QED BY Zenon, <1>1, <1>2, <2>1, Induction
<1> DEFINE b == [n \in Nat |-> CHOOSE f : Begins(f, n, D, d, s)]
           g == [n \in Nat |-> b[n][n]]
<1>4. ASSUME NEW n \in Nat PROVE Begins(b[n], n, D, d, s)
  <2>1. \E f : Begins(f, n, D, d, s) BY <1>3
  <2> QED BY Zenon, <2>1
<1> HIDE DEF b, T
<1>5. ASSUME NEW n \in Nat PROVE b[n] \in [0..n -> D] /\ b[n][0] = d /\ b[n][n] \in D
  BY <1>4 DEF Begins
<1>6. g \in [Nat -> D] /\ g[0] = d
  BY <1>5
<1>7. ASSUME NEW n \in Nat PROVE g[n + 1] = s[n][g[n]]
  <2>1. n + 1 \in Nat /\ n \in 0..(n + 1) /\ n \in 0..((n + 1) - 1)
    OBVIOUS
  <2>2. b[n][n] = b[n + 1][n]
    BY <1>4, <2>1, BeginningsAgree
  <2>3. b[n + 1][n + 1] = s[n][b[n + 1][n]]
    BY <1>4, <2>1 DEF Begins
  <2>4. g[n] = b[n][n] /\ g[n + 1] = b[n + 1][n + 1]
    BY <2>1
  <2> QED BY Zenon, <2>2, <2>3, <2>4
<1> HIDE DEF g
<1> QED BY Zenon, <1>6, <1>7 DEF Stepwise
==============================================================================
