------------------------------ MODULE Induction -------------------------------
(***************************************************************************)
(* Induction over numbers, with a set in the place of a predicate, and what*)
(* it says about functions that are defined by recursion over 0 .. m: there*)
(* is one, and what the first value has and every step keeps all have.     *)
(***************************************************************************)
EXTENDS Naturals, WellFoundedInduction, TLAPS

LEMMA LeastNumber ==
  ASSUME NEW T, T \subseteq Nat, T # {}
  PROVE  \E m \in T : \A n \in T : m <= n
  <1> DEFINE R == OpToRel(<, Nat)
  <1>1. IsWellFoundedOn(R, Nat)
    BY NatLessThanWellFounded
  <1>2. \A m, n \in Nat : <<m, n>> \in R <=> m < n
    BY DEF OpToRel
  <1> HIDE DEF R
  <1>3. PICK m \in T : \A n \in T : ~ (<<n, m>> \in R)
    BY <1>1, WFMin
  <1>4. ASSUME NEW n \in T PROVE m <= n
    <2>1. m \in Nat /\ n \in Nat
      OBVIOUS
    <2>2. ~ (n < m)
      BY <1>2, <1>3, <2>1
    <2> QED
      BY <2>1, <2>2
  <1> QED
    BY <1>4

LEMMA NumberInduction ==
  ASSUME NEW T, 0 \in T, \A n \in Nat : n \in T => n + 1 \in T
  PROVE  Nat \subseteq T
  <1> DEFINE U == Nat \ T
  <1>1. SUFFICES ASSUME U # {} PROVE FALSE
    OBVIOUS
  <1>2. U \subseteq Nat
    OBVIOUS
  <1> HIDE DEF U
  <1>3. PICK m \in U : \A n \in U : m <= n
    BY <1>1, <1>2, LeastNumber
  <1>4. m \in Nat /\ m # 0
    BY <1>3 DEF U
  <1>5. m - 1 \in Nat /\ ~ (m <= m - 1) /\ (m - 1) + 1 = m
    BY <1>4
  <1>6. m - 1 \in T
    BY <1>3, <1>5 DEF U
  <1> QED
    BY <1>3, <1>5, <1>6 DEF U

(* Up to a number m only.                                                  *)
LEMMA BoundedInduction ==
  ASSUME NEW m \in Nat, NEW T, 0 \in T, \A n \in 1 .. m : n - 1 \in T => n \in T
  PROVE  m \in T
  <1> DEFINE U == {n \in Nat : n <= m => n \in T}
  <1>1. 0 \in U
    OBVIOUS
  <1>2. ASSUME NEW n \in Nat, n \in U PROVE n + 1 \in U
    <2>1. SUFFICES ASSUME n + 1 <= m PROVE n + 1 \in T
      OBVIOUS
    <2>2. n + 1 \in 1 .. m /\ (n + 1) - 1 = n /\ n <= m
      BY <2>1
    <2> QED
      BY <1>2, <2>2
  <1> HIDE DEF U
  <1>3. m \in U
    BY <1>1, <1>2, NumberInduction
  <1> QED
    BY <1>3 DEF U

-----------------------------------------------------------------------------
(* Values that begin in X and do not leave it.                             *)
LEMMA IteratesStay ==
  ASSUME NEW X, NEW m \in Nat, NEW g, g[0] \in X,
         \A n \in 1 .. m : g[n - 1] \in X => g[n] \in X
  PROVE  g[m] \in X
  <1> DEFINE T == {n \in Nat : g[n] \in X}
  <1>1. 0 \in T
    OBVIOUS
  <1>2. \A n \in 1 .. m : n - 1 \in T => n \in T
    OBVIOUS
  <1> HIDE DEF T
  <1>3. m \in T
    BY <1>1, <1>2, BoundedInduction
  <1> QED
    BY <1>3 DEF T

(* The values f[0], ..., f[m] that begin with x and of which F[n] takes    *)
(* value n - 1 to value n.                                                 *)
AreIterates(f, X, m, x, F) ==
  /\ f \in [0 .. m -> X] /\ f[0] = x
  /\ \A n \in 1 .. m : f[n] = F[n][f[n - 1]]

LEMMA IteratesExist ==
  ASSUME NEW X, NEW m \in Nat, NEW x \in X, NEW F \in [1 .. m -> [X -> X]]
  PROVE  \E f : AreIterates(f, X, m, x, F)
  <1> DEFINE Iterates(f, k) == AreIterates(f, X, k, x, F)
             T == {k \in Nat : k <= m => \E f : Iterates(f, k)}
  <1>1. 0 \in T
    <2>1. Iterates([n \in 0 .. 0 |-> x], 0)
      BY DEF AreIterates
    <2> HIDE DEF Iterates
    <2> QED
      BY <2>1
  <1>2. ASSUME NEW k \in Nat, k \in T PROVE k + 1 \in T
    <2>1. SUFFICES ASSUME k + 1 <= m PROVE \E f : Iterates(f, k + 1)
      OBVIOUS
    <2>2. k <= m /\ k + 1 \in 1 .. m /\ k \in 0 .. k
      BY <2>1
    <2>3. PICK f : Iterates(f, k)
      BY <1>2, <2>2
    <2> DEFINE g == [n \in 0 .. k + 1 |-> IF n = k + 1 THEN F[k + 1][f[k]] ELSE f[n]]
    <2>4. f[k] \in X /\ F[k + 1][f[k]] \in X
      BY <2>2, <2>3 DEF AreIterates
    <2>5. g \in [0 .. k + 1 -> X] /\ g[0] = x
      BY <2>3, <2>4 DEF AreIterates
    <2>6. ASSUME NEW n \in 1 .. k + 1 PROVE g[n] = F[n][g[n - 1]]
      <3>1. n - 1 \in 0 .. k /\ n - 1 \in 0 .. k + 1 /\ n - 1 # k + 1 /\ n \in 0 .. k + 1
        OBVIOUS
      <3>2. g[n - 1] = f[n - 1]
        BY <3>1
      <3>3. CASE n = k + 1
        BY <3>1, <3>2, <3>3
      <3>4. CASE n # k + 1
        <4>1. n \in 1 .. k /\ g[n] = f[n]
          BY <3>1, <3>4
        <4> QED
          BY <2>3, <3>2, <4>1 DEF AreIterates
      <3> QED
        BY <3>3, <3>4
    <2>7. Iterates(g, k + 1)
      <3> HIDE DEF g
      <3> QED
        BY <2>5, <2>6 DEF AreIterates
    <2> HIDE DEF Iterates, g
    <2> QED
      BY <2>7
  <1> HIDE DEF T
  <1>3. m \in T
    BY <1>1, <1>2, NumberInduction
  <1>4. PICK f : Iterates(f, m)
    <2>1. m <= m
      OBVIOUS
    <2> HIDE DEF Iterates
    <2> QED
      BY <1>3, <2>1 DEF T
  <1> QED
    BY <1>4
=============================================================================
