-------------------------------- MODULE Induction --------------------------------
(***************************************************************************)
(* Induction and recursion on natural numbers and sequences, stated with   *)
(* sets and functions where the library's theorems take operators: what is *)
(* to be proved for every n is that Nat is a subset of a set, and the step *)
(* of a recursion is a function.                                           *)
(***************************************************************************)

EXTENDS Integers, FiniteSetTheorems, SequenceTheorems, TLAPS

\* Every set of natural numbers that is not empty has a least element: among the
\* finite sets 0..x the strict subset ordering is well founded.
LEMMA LeastNatural ==
  ASSUME NEW T \in SUBSET Nat, T # {}
  PROVE  \E x \in T : \A y \in T : x <= y
<1> DEFINE U == {0..x : x \in T}
<1>1. U \subseteq FiniteSubsetsOf(Nat)
  <2> SUFFICES ASSUME NEW x \in T
               PROVE  0..x \in FiniteSubsetsOf(Nat)
    OBVIOUS
  <2>1. IsFiniteSet(0..x)
    BY FS_Interval
  <2> QED
    BY <2>1 DEF FiniteSubsetsOf
<1>2. PICK m \in U : \A u \in U : <<u, m>> \notin StrictSubsetOrdering(Nat)
  <2>1. U # {}
    OBVIOUS
  <2> HIDE DEF U
  <2> QED
    BY <1>1, <2>1, WFMin, FS_StrictSubsetOrderingWellFounded
<1>3. PICK x \in T : m = 0..x
  OBVIOUS
<1>4. ASSUME NEW y \in T, y < x
      PROVE  FALSE
  <2>1. 0..y \in U /\ 0..y \in SUBSET Nat /\ 0..x \in SUBSET Nat
    OBVIOUS
  <2>2. x \in 0..x /\ x \notin 0..y /\ 0..y \subseteq 0..x
    BY <1>4
  <2>3. <<0..y, 0..x>> \in StrictSubsetOrdering(Nat)
    BY <2>1, <2>2 DEF StrictSubsetOrdering
  <2> QED
    BY <1>2, <1>3, <2>1, <2>3
<1> QED
  BY <1>4

LEMMA NatSetInduction ==
  ASSUME NEW S, 0 \in S, \A n \in Nat : n \in S => n + 1 \in S
  PROVE  Nat \subseteq S
<1> SUFFICES ASSUME Nat \ S # {}
             PROVE  FALSE
  OBVIOUS
<1>1. PICK x \in Nat \ S : \A y \in Nat \ S : x <= y
  BY LeastNatural
<1>2. x # 0 /\ x - 1 \in Nat /\ x - 1 \in S
  BY <1>1
<1>3. x \in S
  BY <1>2
<1> QED
  BY <1>3

\* f is the result of a recursion over 0..m.
Recursion(f, base, step, m) ==
  /\ f[0] = base
  /\ \A n \in 1..m : f[n] = step[<<f[n - 1], n>>]

\* There is a function that a recursion over 0..m defines.
LEMMA FiniteRecursion ==
  ASSUME NEW S, NEW base \in S, NEW m \in Nat, NEW step \in [S \X (1..m) -> S]
  PROVE  \E f \in [0..m -> S] : Recursion(f, base, step, m)
<1> USE DEF Recursion
<1> DEFINE Begun(f, k) == Recursion(f, base, step, k)
           Reached == {k \in Nat : k <= m => \E f \in [0..k -> S] : Begun(f, k)}
<1>1. 0 \in Reached
  <2>1. [i \in 0..0 |-> base] \in [0..0 -> S] /\ Begun([i \in 0..0 |-> base], 0)
    OBVIOUS
  <2> QED
    BY <2>1
<1>2. ASSUME NEW k \in Nat, k \in Reached
      PROVE  k + 1 \in Reached
  <2> SUFFICES ASSUME k + 1 <= m
               PROVE  \E f \in [0..k + 1 -> S] : Begun(f, k + 1)
    OBVIOUS
  <2>1. PICK f \in [0..k -> S] : Begun(f, k)
    BY <1>2
  <2> DEFINE next == step[<<f[k], k + 1>>]
             g == [i \in 0..k + 1 |-> IF i = k + 1 THEN next ELSE f[i]]
  <2>2. next \in S
    <3>1. f[k] \in S /\ k + 1 \in 1..m
      OBVIOUS
    <3> QED
      BY <3>1
  <2>3. g \in [0..k + 1 -> S]
    BY <2>2
  <2>4. g[0] = base
    BY <2>1
  <2>5. ASSUME NEW n \in 1..k + 1
        PROVE  g[n] = step[<<g[n - 1], n>>]
    <3>1. CASE n = k + 1
      <4>1. g[n] = next /\ n - 1 = k /\ g[k] = f[k]
        BY <3>1
      <4> QED
        BY <3>1, <4>1
    <3>2. CASE n \in 1..k
      <4>1. g[n] = f[n] /\ g[n - 1] = f[n - 1]
        BY <3>2
      <4> QED
        BY <2>1, <3>2, <4>1
    <3> QED
      BY <3>1, <3>2
  <2> QED
    BY <2>3, <2>4, <2>5
<1>3. Nat \subseteq Reached
  <2> HIDE DEF Reached
  <2> QED
    BY <1>1, <1>2, NatSetInduction
<1>4. m \in Reached
  <2> HIDE DEF Reached
  <2> QED
    BY <1>3
<1> QED
  BY <1>4

\* What a recursion starts from and keeps, all its values have.
LEMMA RecursionKeeps ==
  ASSUME NEW S, NEW m \in Nat, NEW f, f[0] \in S,
         \A n \in 1..m : f[n - 1] \in S => f[n] \in S
  PROVE  \A n \in 0..m : f[n] \in S
<1> DEFINE Kept == {n \in Nat : n <= m => f[n] \in S}
<1>1. 0 \in Kept
  OBVIOUS
<1>2. ASSUME NEW n \in Nat, n \in Kept
      PROVE  n + 1 \in Kept
  <2> SUFFICES ASSUME n + 1 <= m
               PROVE  f[n + 1] \in S
    OBVIOUS
  <2>1. n + 1 \in 1..m /\ (n + 1) - 1 = n /\ f[n] \in S
    BY <1>2
  <2> QED
    BY <2>1
<1>3. Nat \subseteq Kept
  <2> HIDE DEF Kept
  <2> QED
    BY <1>1, <1>2, NatSetInduction
<1> QED
  BY <1>3

\* Two recursions that start and go on alike are equal as far as both go.
LEMMA RecursionDetermined ==
  ASSUME NEW m \in Nat, NEW f, NEW g, f[0] = g[0],
         \A n \in 1..m : f[n - 1] = g[n - 1] => f[n] = g[n]
  PROVE  \A n \in 0..m : f[n] = g[n]
<1> DEFINE Equal == {n \in Nat : n <= m => f[n] = g[n]}
<1>1. 0 \in Equal
  OBVIOUS
<1>2. ASSUME NEW n \in Nat, n \in Equal
      PROVE  n + 1 \in Equal
  <2> SUFFICES ASSUME n + 1 <= m
               PROVE  f[n + 1] = g[n + 1]
    OBVIOUS
  <2>1. n + 1 \in 1..m /\ (n + 1) - 1 = n /\ f[n] = g[n]
    BY <1>2
  <2> QED
    BY <2>1
<1>3. Nat \subseteq Equal
  <2> HIDE DEF Equal
  <2> QED
    BY <1>1, <1>2, NatSetInduction
<1> QED
  BY <1>3

\* Induction over sequences: from <<>>, appending one element at a time.
LEMMA SequenceSetInduction ==
  ASSUME NEW X, NEW S, <<>> \in S,
         \A s \in Seq(X), e \in X : s \in S => Append(s, e) \in S
  PROVE  Seq(X) \subseteq S
<1> DEFINE Lengths == {n \in Nat : \A s \in Seq(X) : Len(s) = n => s \in S}
<1>1. 0 \in Lengths
  <2>1. \A s \in Seq(X) : Len(s) = 0 => s = <<>>
    BY EmptySeq
  <2> QED
    BY <2>1
<1>2. ASSUME NEW n \in Nat, n \in Lengths
      PROVE  n + 1 \in Lengths
  <2> SUFFICES ASSUME NEW s \in Seq(X), Len(s) = n + 1
               PROVE  s \in S
    OBVIOUS
  <2>1. s # <<>>
    BY EmptySeq
  <2>2. PICK r \in Seq(X), e \in X : s = Append(r, e)
    BY <2>1, SequenceEmptyOrAppend
  <2>3. Len(r) = n
    BY <2>2, AppendProperties, LenProperties
  <2> QED
    BY <1>2, <2>2, <2>3
<1>3. Nat \subseteq Lengths
  <2> HIDE DEF Lengths
  <2> QED
    BY <1>1, <1>2, NatSetInduction
<1>4. ASSUME NEW s \in Seq(X)
      PROVE  s \in S
  <2>1. Len(s) \in Lengths
    <3> HIDE DEF Lengths
    <3> QED
      BY <1>3, LenProperties
  <2> QED
    BY <2>1
<1> QED
  BY <1>4

================================================================================
