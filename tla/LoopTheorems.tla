---------------------------- MODULE LoopTheorems ----------------------------
(***************************************************************************)
(* Theorems about a loop that is written as a recursive function on 0..n:  *)
(* induction on the rounds, that there is such a function, and that there  *)
(* is one only.  Induction is by sets and rounds are functions, so that    *)
(* nothing here has an operator for a parameter.                           *)
(***************************************************************************)
EXTENDS Naturals, WellFoundedInduction, TLAPS

\* A set of naturals with 0 and the successor of each of its members is all of
\* them.
LEMMA Induction ==
    ASSUME NEW S, 0 \in S, \A i \in Nat : i \in S => i + 1 \in S
    PROVE  Nat \subseteq S
<1> SUFFICES ASSUME Nat \ S # {} PROVE FALSE
  OBVIOUS
<1> DEFINE R == {p \in Nat \X Nat : p[1] < p[2]}
           T == Nat \ S
<1>1. IsWellFoundedOn(R, Nat)
  BY NatLessThanWellFounded DEF OpToRel
<1>2. \E x \in T : \A y \in T : <<y, x>> \notin R
  <2>1. T \subseteq Nat /\ T # {}
    OBVIOUS
  <2> HIDE DEF R, T
  <2> QED BY <1>1, <2>1, WFMin
<1>3. PICK x \in T : \A y \in T : <<y, x>> \notin R
  BY <1>2
<1>4. x # 0 /\ x - 1 \in Nat /\ x - 1 < x
  OBVIOUS
<1>5. x - 1 \notin T
  BY <1>3, <1>4
<1> QED BY <1>4, <1>5

\* The runs of n rounds, each a function on D.
Runs(D, st, round, n) ==
    {g \in [0..n -> D] : g[0] = st /\ \A i \in 1..n : g[i] = round[i][g[i - 1]]}

\* There is one.
LEMMA RunExists ==
    ASSUME NEW D, NEW st \in D, NEW n \in Nat, NEW round \in [1..n -> [D -> D]]
    PROVE  Runs(D, st, round, n) # {}
<1> DEFINE Run(m) == Runs(D, st, round, m)
           S == {m \in Nat : m <= n => Run(m) # {}}
<1>1. 0 \in S
  <2>1. [i \in 0..0 |-> st] \in Run(0)
    BY DEF Runs
  <2> HIDE DEF Run
  <2> QED BY <2>1
<1>2. ASSUME NEW m \in Nat, m \in S PROVE m + 1 \in S
  <2> SUFFICES ASSUME m + 1 <= n PROVE Run(m + 1) # {}
    OBVIOUS
  <2>1. PICK g : g \in Run(m)
    <3> HIDE DEF Run
    <3> QED BY <1>2
  <2> DEFINE next == round[m + 1][g[m]]
             h == [i \in 0..(m + 1) |-> IF i = m + 1 THEN next ELSE g[i]]
  <2>2. next \in D
    BY <1>2, <2>1 DEF Runs
  <2>3. h \in [0..(m + 1) -> D] /\ h[0] = st
    BY <2>1, <2>2 DEF Runs
  <2>4. ASSUME NEW i \in 1..(m + 1) PROVE h[i] = round[i][h[i - 1]]
    <3>1. CASE i = m + 1
      BY <3>1
    <3>2. CASE i # m + 1
      BY <2>1, <3>2 DEF Runs
    <3> QED BY <3>1, <3>2
  <2> HIDE DEF h
  <2>5. h \in Run(m + 1)
    BY <2>3, <2>4 DEF Runs
  <2> QED BY <2>5
<1> HIDE DEF Run, S
<1>3. Nat \subseteq S
  BY <1>1, <1>2, Induction
<1> QED BY <1>3 DEF Run, S

\* Two runs that start alike, and go on alike from what is alike, end alike.
LEMMA RunsAgree ==
    ASSUME NEW n \in Nat, NEW f, NEW g, f[0] = g[0],
           \A i \in 1..n : f[i - 1] = g[i - 1] => f[i] = g[i]
    PROVE  f[n] = g[n]
<1> DEFINE S == {i \in Nat : i <= n => f[i] = g[i]}
<1>1. 0 \in S
  OBVIOUS
<1>2. ASSUME NEW i \in Nat, i \in S PROVE i + 1 \in S
  <2> SUFFICES ASSUME i + 1 <= n PROVE f[i + 1] = g[i + 1]
    OBVIOUS
  <2>1. i + 1 \in 1..n /\ (i + 1) - 1 = i
    OBVIOUS
  <2> QED BY <1>2, <2>1
<1> HIDE DEF S
<1>3. Nat \subseteq S
  BY <1>1, <1>2, Induction
<1> QED BY <1>3 DEF S

=============================================================================
